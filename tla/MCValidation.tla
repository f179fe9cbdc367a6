---------------------------- MODULE MCValidation ----------------------------
(* Two artifacts of a requirements/feature pair and one code file.  The    *)
(* feature artifact defines a flow with a nested algorithm and steps; the  *)
(* design artifact refers to the flow.                                     *)
EXTENDS Validation

Flow == <<"app", "flow", "login">>
Algo == <<"app", "algo", "hash">>
Need == <<"app", "fr", "auth">>
Lost == <<"app", "fr", "gone">>
Other == <<"lib", "flow", "x">>

H(l, h) == [t |-> "head", lvl |-> l, hid |-> h, id |-> <<>>, inst |-> "",
            task |-> FALSE, prio |-> FALSE, done |-> FALSE]
Item(ty, i, task, done) == [t |-> ty, lvl |-> 0, hid |-> "", id |-> i, inst |-> "",
                            task |-> task, prio |-> FALSE, done |-> task /\ done]
Step(s, done) == [t |-> "step", lvl |-> 0, hid |-> "", id |-> <<>>, inst |-> s,
                  task |-> FALSE, prio |-> FALSE, done |-> done]
M(ty, i, s) == [t |-> ty, id |-> i, inst |-> s]

MCDocOrder == <<"PRD.md", "feature.md">>
MCKindOf == [d \in {"PRD.md", "feature.md"} |-> IF d = "PRD.md" THEN "prd" ELSE "feature"]
MCTraceOf == [d \in {"PRD.md", "feature.md"} |-> "FULL"]
MCIds == {Flow, Algo, Need, Lost, Other}
MCSystems == {<<"app">>}
IdRule(ak, k, task, heads, tc) == [ak |-> ak, kind |-> k, required |-> FALSE, task |-> task,
                                   prio |-> "allowed", heads |-> heads, to_code |-> tc]
MCIdRules == {IdRule("prd", "fr", "required", {}, FALSE),
              IdRule("feature", "flow", "required", {"flows"}, TRUE),
              IdRule("feature", "algo", "allowed", {}, FALSE)}
MCRefRules == {[ak |-> "prd", kind |-> "fr", target |-> "feature", cov |-> "required",
                task |-> "allowed", prio |-> "allowed", heads |-> {"flows"}]}

(* PRD: the requirement and a tracked reference to the flow below it.      *)
(* Feature: the flow with a step and a nested, tracked reference to the    *)
(* requirement, or to an ID nobody defines.                                *)
MCTexts ==
    {[d \in {"PRD.md", "feature.md"} |->
        IF d = "PRD.md"
        THEN <<H(1, ""), H(2, "needs"), Item("def", Need, TRUE, a), H(3, ""),
               Item("ref", Flow, TRUE, b), Item("ref", Other, FALSE, FALSE)>>
        ELSE <<H(1, ""), H(2, "flows"), Item("def", Flow, TRUE, f), Step("s1", s),
               H(3, ""), Item("def", Algo, TRUE, g), Step("h1", g), Item("ref", r, FALSE, FALSE), H(2, "end")>>] :
     a, b, f, s, g \in BOOLEAN, r \in {Need, Lost}}
(* All of them but those in which the feature refers to an open            *)
(* requirement or an open flow has a ticked step; edits lead there.        *)
MCText == {t \in MCTexts :
    /\ t["PRD.md"][3].done \/ t["feature.md"][8].id = Lost
    /\ t["feature.md"][3].done \/ ~t["feature.md"][4].done}
(* Two blocks, one within the other and overlapping, the first without a line of code. *)
OneInOther == {<<M("begin", Flow, "s1"), M("begin", Algo, "h1"), M("code", <<>>, ""),
              M("end", Algo, "h1"), M("end", Flow, "s1")>>}
Overlapping == {<<M("begin", Flow, "s1"), M("begin", Algo, "h1"), M("end", Flow, "s1"),
                  M("code", <<>>, ""), M("end", Algo, "h1")>>}
MCCode == {[f \in {"app.py"} |-> c] : c \in
    {<<>>, <<M("scope", Lost, ""), M("begin", Flow, "s1"), M("end", Flow, "s1")>>}
    \cup OneInOther \cup Overlapping}

(* The texts of the configurations about the documents: a definition with  *)
(* a priority and no checkbox over a step, an ID defined twice.            *)
OneText(p, ls) == {[d \in {"PRD.md", "feature.md"} |-> IF d = "PRD.md" THEN p ELSE ls]}
MCTextPriority ==
    OneText(<<H(1, ""), Item("def", Need, TRUE, TRUE)>>,
            <<H(1, ""), H(2, "flows"), Item("def", Flow, TRUE, TRUE), Item("ref", Need, FALSE, FALSE), H(2, ""),
              [Item("def", Algo, FALSE, FALSE) EXCEPT !.prio = TRUE], Step("s1", TRUE)>>)
MCTextTwice ==
    OneText(<<H(1, ""), Item("def", Need, TRUE, TRUE), Item("def", Need, TRUE, TRUE)>>,
            <<H(1, ""), H(2, "flows"), Item("ref", Need, FALSE, FALSE)>>)
MCTextDone ==
    OneText(<<H(1, ""), Item("def", Need, TRUE, TRUE)>>,
            <<H(1, ""), H(2, "flows"), Item("ref", Need, FALSE, FALSE), Item("def", Flow, TRUE, TRUE)>>)
MCNoCode == {[f \in {"app.py"} |-> <<>>]}
MCCodeScope == {[f \in {"app.py"} |-> <<M("scope", Flow, "")>>]}
(* The blocks of the feature's two steps overlap; the first has no code.   *)
MCTextSteps ==
    OneText(<<H(1, ""), Item("def", Need, TRUE, TRUE)>>,
            <<H(1, ""), H(2, "flows"), Item("ref", Need, FALSE, FALSE), Item("def", Flow, TRUE, TRUE), Step("s1", TRUE),
              H(3, ""), Item("def", Algo, TRUE, TRUE), Step("h1", TRUE)>>)
MCCodeOverlap == {[f \in {"app.py"} |-> c] : c \in Overlapping}
ClaimText == MCTextPriority \cup MCTextTwice \cup MCTextDone \cup MCTextSteps
ClaimCode == MCNoCode \cup MCCodeScope \cup MCCodeOverlap
MCTraceDocs == [d \in {"PRD.md", "feature.md"} |-> "DOCS-ONLY"]
MCEmptyCode == {[f \in {} |-> <<>>]}
=============================================================================
