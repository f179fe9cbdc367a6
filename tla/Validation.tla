----------------------------- MODULE Validation -----------------------------
(***************************************************************************)
(* The traceability validator of cypilot (`cpt validate`) and the author   *)
(* who works from its reports.                                             *)
(*                                                                         *)
(* `text[d]` is an artifact as the validator scans it: the headings, ID    *)
(* definitions, ID references and CDSL steps that stand outside fenced     *)
(* blocks, in order.  `code[f]` is a source file reduced to its @cpt       *)
(* markers and the lines between them.  An ID `cpt-app-flow-login` is the  *)
(* tuple of its tokens after `cpt`.                                        *)
(*                                                                         *)
(* `cmd_validate` computes a report: per-artifact checks first, and only   *)
(* when they all pass the checks between artifacts and against the code.   *)
(* Every issue carries a fixing prompt; the author follows the prompts of  *)
(* one report in any order (Repair) and validates again.  The heading      *)
(* contract and the table of contents, which run before the ID checks of   *)
(* an artifact, are modelled in Outline and TableOfContents; the           *)
(* outlines of the artifacts here satisfy them.                            *)
(***************************************************************************)
EXTENDS Integers, Sequences, FiniteSets, SequencesExt, FiniteSetsExt

CONSTANTS
    DocOrder,     \* the registered artifacts, in registry order
    KindOf,       \* artifact -> its kind
    TraceOf,      \* artifact -> "FULL" or "DOCS-ONLY"
    Ids,          \* the IDs that occur, as tuples of their tokens after `cpt`
    Systems,      \* the registered system prefixes, as token tuples
    Constrained,  \* the artifact kinds the kit has constraints for
    IdRules,      \* [ak, kind, required, task, prio, heads, to_code]
    RefRules,     \* [ak, kind, target, cov, task, prio, heads]
    Files,        \* the code files of the system's codebase entries
    InitialText,  \* the artifact sets the author may start from
    InitialCode,  \* the codebases the author may start from
    Optimist,     \* TRUE: boxes that disagree are ticked, FALSE: unticked
    Edits,        \* the kinds of edit the author makes on his own
    MaxChanges    \* bound on them

VARIABLES text, code, verdict, todo, changes

traceVars == <<text, code, verdict, todo, changes>>

Docs == Range(DocOrder)
Rule == {"required", "prohibited", "allowed"}
Modes == Docs \cup {"all", "docs"}   \* --artifact d, no option, --skip-code
NoVerdict == [status |-> "none", mode |-> "all", errors |-> {}]
NotADoc == "<constraints.toml>"

Names == STRING \cup {""}   \* "" where there is none
(* A line as the scan reads it: definitions have an ID, only definitions   *)
(* and references have a task checkbox, and only a checkbox or a step is   *)
(* ticked.                                                                 *)
TextLine ==
    {l \in [t : {"head", "def", "ref", "step"}, lvl : 0..3, hid : Names, id : Seq(STRING),
            inst : Names, task : BOOLEAN, prio : BOOLEAN, done : BOOLEAN] :
        /\ l.t = "def" => l.id # <<>>
        /\ l.task => l.t \in {"def", "ref"}
        /\ l.done => l.task \/ l.t = "step"}
Mark == [t : {"scope", "begin", "end", "code"}, id : Seq(STRING), inst : Names]
Issue(c, d, i, aux) == <<c, d, i, aux>>

(* The registry and the constraints as their loaders return them; an       *)
(* artifact's path is none of the words that stand for the other modes.    *)
ASSUME TraceAssumption ==
    /\ DocOrder \in Seq(STRING)
    /\ {"all", "docs"} \cap Docs = {}
    /\ TraceOf \in [Docs -> {"FULL", "DOCS-ONLY"}]
    /\ \A r \in IdRules : r.kind \in Names
    /\ \A r \in RefRules : r.target \in Names
    /\ InitialText \subseteq [Docs -> Seq(TextLine)]
    /\ InitialCode \subseteq [Files -> Seq(Mark)]
    /\ MaxChanges \in Nat

-----------------------------------------------------------------------------
(* Scanning.  Line numbers are positions in text[d].                        *)

At(d, ty) == {n \in DOMAIN text[d] : text[d][n].t = ty}

(* scan_cpt_ids: every ID line is one hit, a definition or a reference.    *)
scan_cpt_ids(ty) == UNION {{<<d, n>> : n \in At(d, ty)} : d \in Docs}
Row(r) == text[r[1]][r[2]]
RowsOf(rows, i) == {r \in rows : Row(r).id = i}
IdsOf(rows) == {Row(r).id : r \in rows}

(* scan_cdsl_instructions binds a step to the last definition above it.    *)
(* The definition pattern has four alternatives; the one for a priority    *)
(* without a checkbox names its ID `id4`, which this scan does not read.   *)
ParentOfStep(d, n) ==
    LET above == {m \in At(d, "def") : m < n /\ (text[d][m].task \/ ~text[d][m].prio)}
    IN  IF above = {} THEN <<>> ELSE text[d][Max(above)].id
scan_cdsl_instructions(d) ==
    {<<ParentOfStep(d, n), text[d][n].inst, text[d][n].done>> : n \in At(d, "step")}

(* Headings in scope at a line: the constraint ids of the enclosing ones.  *)
Enclosing(d, n) ==
    LET above == {h \in At(d, "head") : h <= n}
    IN  {h \in above : \A k \in above : h < k => text[d][k].lvl > text[d][h].lvl}
headings_at(d, n) == {text[d][h].hid : h \in Enclosing(d, n)} \ {""}

_heading_ctx_for_line(d, n) ==
    LET up == {h \in At(d, "head") : h <= n} IN IF up = {} THEN 0 ELSE Max(up)
_scope_end_for_heading_idx(d, h) ==
    LET next == {k \in At(d, "head") : k > h /\ text[d][k].lvl <= text[d][h].lvl}
    IN  IF next = {} THEN Len(text[d]) ELSE Min(next) - 1

-----------------------------------------------------------------------------
(* IDs: the system is the longest registered prefix, the kind one of the   *)
(* tokens behind it.                                                       *)

KindTokens(ks) == {r.kind : r \in {q \in IdRules : q.ak \in ks \cap Constrained}}
(* the first place after the first token where a kind stands before another token *)
FirstAt(i, k) ==
    LET at == {p \in 2..(Len(i) - 1) : i[p] = k} IN IF at = {} THEN 0 ELSE Min(at)

match_system(i, tokens) ==
    LET prefixes == {s \in Systems : IsStrictPrefix(s, i)}
        splits == {FirstAt(i, k) : k \in tokens} \ {0}
    IN  CASE prefixes # {} -> CHOOSE s \in prefixes : \A q \in prefixes : Len(q) <= Len(s)
          [] Systems # {} -> <<>>
          [] splits # {} -> SubSeq(i, 1, Max(splits) - 1)
          [] OTHER -> IF Len(i) >= 2 THEN <<i[1]>> ELSE <<>>

(* A composite ID (base kind = artifact kind, four tokens or more) has the *)
(* last nested kind token; otherwise the first token counts, or the        *)
(* leftmost `-kind-`.                                                      *)
extract_kind_from_id(i, s, tokens, nestedOf) ==
    LET parts == SubSeq(i, Len(s) + 1, Len(i))
        base == parts[1]
        nested == {p \in 3..Len(parts) : parts[p] \in nestedOf[base] \ {base}}
        marks == {FirstAt(parts, k) : k \in tokens} \ {0}
    IN  CASE s = <<>> -> "none"
          [] s # <<>> /\ base \in DOMAIN nestedOf /\ Len(parts) >= 4 /\ nested # {} -> parts[Max(nested)]
          [] OTHER -> IF base \in tokens \/ marks = {} THEN base ELSE parts[Min(marks)]

NestedKinds(ks) == [k \in {q \in ks \cap Constrained : KindTokens({q}) # {}} |-> KindTokens({k})]
KindIn(i, ks) ==
    LET tokens == KindTokens(ks)
        s == match_system(i, tokens)
    IN  IF s = <<>> THEN "none" ELSE extract_kind_from_id(i, s, tokens, NestedKinds(ks))
(* An ID is read with the kinds of one artifact, or with those of all.     *)
ArtifactKinds == Range(KindOf)
LocalKind == [i \in Ids, ak \in ArtifactKinds |-> KindIn(i, {ak})]
LocalSystem == [i \in Ids, ak \in ArtifactKinds |-> match_system(i, KindTokens({ak}))]
KindOfId == [i \in Ids |-> KindIn(i, ArtifactKinds)]
SystemOf == [i \in Ids |-> match_system(i, KindTokens(ArtifactKinds))]
is_external_system_ref(i) == Systems # {} /\ \A s \in Systems : ~IsStrictPrefix(s, i)

-----------------------------------------------------------------------------
(* validate_artifact_file: one artifact against the constraints of its kind. *)

FirstDef(d, i) == Min({m \in At(d, "def") : text[d][m].id = i})

CdslErrors(d) ==
    {Issue("CDSL_STEP_UNCHECKED", d, s[1], s[2]) : s \in
        {q \in scan_cdsl_instructions(d) :
            /\ ~q[3]
            /\ q[1] # <<>>
            /\ text[d][FirstDef(d, q[1])].task
            /\ text[d][FirstDef(d, q[1])].done}}

(* Mutant: the scope of a parent ends at the next heading of any level.    *)
NestedToNextHeading(d, n) ==
    LET h == _heading_ctx_for_line(d, n)
        end == Min({k \in At(d, "head") : k > h} \cup {Len(text[d]) + 1})
    IN  {m \in DOMAIN text[d] :
            /\ h # 0
            /\ n < m /\ m < end
            /\ text[d][m].task
            /\ text[d][m].t = "ref"}
(* The task-tracked items nested under a definition: definitions under     *)
(* deeper headings of its section, and any reference behind it there.      *)
Nested(d, n) ==
    LET h == _heading_ctx_for_line(d, n)
        end == _scope_end_for_heading_idx(d, h)
    IN  {m \in (n + 1)..Len(text[d]) :
            /\ h # 0
            /\ text[d][m].task
            /\ m <= end
            /\ \/ text[d][m].t = "ref"
               \/ /\ text[d][m].t = "def"
                  /\ text[d][_heading_ctx_for_line(d, m)].lvl > text[d][h].lvl}

ParentErrors(d) ==
    LET parents == {n \in At(d, "def") : text[d][n].task /\ Nested(d, n) # {}}
        AllDone(n) == \A m \in Nested(d, n) : text[d][m].done
    IN  {Issue("PARENT_UNCHECKED_ALL_DONE", d, text[d][n].id, "") :
            n \in {q \in parents : ~text[d][q].done /\ AllDone(q)}}
        \cup
        {Issue("PARENT_CHECKED_NESTED_UNCHECKED", d, text[d][n].id, "") :
            n \in {q \in parents : text[d][q].done /\ ~AllDone(q)}}

(* A rule on a checkbox or a priority marker, and whether a line breaks it. *)
Breaks(rule, has) == (rule = "required" /\ ~has) \/ (rule = "prohibited" /\ has)
Misplaced(heads, d, n) == heads # {} /\ headings_at(d, n) \cap heads = {}

DefErrors(d) ==
    LET allowed == KindTokens({KindOf[d]})
        Kind(n) == LocalKind[text[d][n].id, KindOf[d]]
        known == {n \in At(d, "def") : Kind(n) # "none"}
        ruled == {p \in known \X {q \in IdRules : q.ak = KindOf[d]} : Kind(p[1]) = p[2].kind}
        Found(c, p) == Issue(c, d, text[d][p[1]].id, p[2].kind)
    IN  {Issue("ID_SYSTEM_UNRECOGNIZED", d, text[d][n].id, "") : n \in
            {q \in At(d, "def") : Systems # {} /\ LocalSystem[text[d][q].id, KindOf[d]] = <<>>}}
        \cup {Issue("ID_KIND_NOT_ALLOWED", d, text[d][n].id, "") :
                 n \in {q \in known : Kind(q) \notin allowed}}
        \cup {Found("DEF_TASK", p) : p \in {q \in ruled : Breaks(q[2].task, text[d][q[1]].task)}}
        \cup {Found("DEF_PRIORITY", p) : p \in {q \in ruled : Breaks(q[2].prio, text[d][q[1]].prio)}}
        \cup {Found("DEF_WRONG_HEADINGS", p) : p \in {q \in ruled : Misplaced(q[2].heads, d, q[1])}}
        \cup {Issue("REQUIRED_ID_KIND_MISSING", d, <<>>, r.kind) : r \in
                 {q \in IdRules : /\ q.ak = KindOf[d] /\ q.required
                                  /\ ~\E n \in known : Kind(n) = q.kind}}

ArtifactErrors(d) ==
    IF KindOf[d] \notin Constrained THEN {}
    ELSE CdslErrors(d) \cup ParentErrors(d) \cup DefErrors(d)

-----------------------------------------------------------------------------
(* cross_validate_artifacts: every artifact, the validated one first.      *)

Place(mode, r) == IF r[1] = mode THEN 0 ELSE CHOOSE p \in DOMAIN DocOrder : DocOrder[p] = r[1]
Precedes(mode, r, q) == \/ Place(mode, r) < Place(mode, q)
                        \/ r[1] = q[1] /\ r[2] < q[2]
First(mode, rows) == CHOOSE r \in rows : \A q \in rows \ {r} : Precedes(mode, r, q)

DefRows == scan_cpt_ids("def")
ReferenceRows == scan_cpt_ids("ref")

MissingConstraints ==
    IF \E d \in Docs : KindOf[d] \notin Constrained
    THEN {Issue("MISSING_CONSTRAINTS", NotADoc, <<>>, "")} ELSE {}

(* Mutant: a reference is resolved by a definition of the same artifact only. *)
UndefinedHere ==
    {Issue("REF_NO_DEFINITION", r[1], Row(r).id, "") : r \in
        {q \in ReferenceRows : /\ Row(q).id \notin IdsOf(DefRows)
                               /\ is_external_system_ref(Row(q).id)}}
UndefinedReferences ==
    LET defined == IdsOf(DefRows)
    IN  {Issue("REF_NO_DEFINITION", r[1], Row(r).id, "") : r \in
            {q \in ReferenceRows : /\ ~is_external_system_ref(Row(q).id)
                                   /\ Row(q).id \notin defined}}

TaskDefs(i) == {d \in RowsOf(DefRows, i) : Row(d).task}

(* The done states of a definition and of the references to it.            *)
DoneConsistency ==
    LET tracked == {r \in ReferenceRows : Row(r).task}
    IN  {Issue("REF_DONE_DEF_NOT_DONE", r[1], Row(r).id, "") : r \in
            {q \in tracked : Row(q).done /\ \E d \in TaskDefs(Row(q).id) : ~Row(d).done}}
        \cup
        {Issue("DEF_DONE_REF_NOT_DONE", r[1], Row(r).id, "") : r \in
            {q \in tracked : /\ ~Row(q).done
                             /\ TaskDefs(Row(q).id) # {}
                             /\ \A d \in TaskDefs(Row(q).id) : Row(d).done}}
        \cup
        {Issue("REF_TASK_DEF_NO_TASK", r[1], Row(r).id, "") : r \in
            {q \in tracked : RowsOf(DefRows, Row(q).id) # {} /\ TaskDefs(Row(q).id) = {}}}

(* Kinds and headings again, with the kind tokens of every artifact kind.  *)
KindPresence ==
    LET defs == {r \in DefRows : KindOf[r[1]] \in Constrained /\ SystemOf[Row(r).id] # <<>>}
        Ruled(r) == {q \in IdRules : q.ak = KindOf[r[1]] /\ q.kind = KindOfId[Row(r).id]}
        kinds == {p \in Docs \X IdRules : KindOf[p[1]] = p[2].ak /\ p[2].ak \in Constrained /\ p[2].required}
    IN  {Issue("ID_KIND_NOT_ALLOWED", r[1], Row(r).id, "") : r \in
            {q \in defs : KindTokens({KindOf[q[1]]}) # {} /\ KindOfId[Row(q).id] \notin KindTokens({KindOf[q[1]]})}}
        \cup
        {Issue("REQUIRED_ID_KIND_MISSING", p[1], <<>>, p[2].kind) : p \in
            {q \in kinds : ~\E r \in defs : r[1] = q[1] /\ KindOfId[Row(r).id] = q[2].kind}}
        \cup
        {Issue("DEF_WRONG_HEADINGS", r[1], Row(r).id, KindOfId[Row(r).id]) : r \in
            {q \in defs : \E p \in Ruled(q) : Misplaced(p.heads, q[1], q[2])}}

(* Reference rules: for every definition of a ruled kind, the references   *)
(* to it from one artifact kind of its system.                             *)
PresentKinds(s) == {KindOf[r[1]] : r \in {q \in DefRows \cup ReferenceRows : SystemOf[Row(q).id] = s}}
RefsInKind(i, k) == {r \in RowsOf(ReferenceRows, i) : KindOf[r[1]] = k}

(* One rule at one definition: an open task waits for its coverage.        *)
RuleErrors(mode, d, rule) ==
    LET i == Row(d).id
        refs == RefsInKind(i, rule.target)
        open == Row(d).task /\ ~Row(d).done
        noTask == {r \in refs : Breaks(rule.task, Row(r).task)}
        noPrio == {r \in refs : Breaks(rule.prio, Row(r).prio)}
        At1(c, rows) == {Issue(c, First(mode, rows)[1], i, rule.target)}
        Checkboxes == (IF noTask # {} THEN At1("REF_TASK", noTask) ELSE {})
                      \cup (IF noPrio # {} THEN At1("REF_PRIORITY", noPrio) ELSE {})
    IN  CASE rule.cov = "required" /\ open -> {}
          [] rule.cov = "required" /\ rule.target \notin PresentKinds(SystemOf[i]) -> {}
          [] rule.cov = "required" /\ refs = {} /\ ~open /\ rule.target \in PresentKinds(SystemOf[i]) ->
                {Issue("REF_MISSING_FROM_KIND", d[1], i, rule.target)}
          [] rule.cov = "prohibited" /\ refs # {} -> At1("REF_FROM_PROHIBITED_KIND", refs)
          [] OTHER -> Checkboxes \cup
                (IF /\ rule.cov = "required" /\ rule.heads # {} /\ refs # {}
                    /\ \A r \in refs : Misplaced(rule.heads, r[1], r[2])
                 THEN At1("REF_WRONG_HEADINGS", refs) ELSE {})
ReferenceRules(mode) ==
    UNION {RuleErrors(mode, p[1], p[2]) : p \in
        {q \in DefRows \X RefRules :
            /\ KindOf[q[1][1]] = q[2].ak /\ q[2].ak \in Constrained
            /\ SystemOf[Row(q[1]).id] # <<>>
            /\ KindOfId[Row(q[1]).id] = q[2].kind}}

cross_validate_artifacts(mode) ==
    MissingConstraints \cup UndefinedReferences \cup DoneConsistency
    \cup KindPresence \cup ReferenceRules(mode)

-----------------------------------------------------------------------------
(* Code: the @cpt markers of a file and what they are checked against.     *)

MarksAt(f, ty, i, inst) == {n \in DOMAIN code[f] : code[f][n] = [t |-> ty, id |-> i, inst |-> inst]}
Blocks(f) == {<<m.id, m.inst>> : m \in {q \in Range(code[f]) : q.t \in {"begin", "end"}}}
(* `open_blocks` holds a key from its begin marker to the next end marker.  *)
IsOpen(f, b, n) == \E m \in MarksAt(f, "begin", b[1], b[2]) :
                       m < n /\ \A e \in MarksAt(f, "end", b[1], b[2]) : ~(m < e /\ e < n)
StartOf(f, b, n) == Min({m \in MarksAt(f, "begin", b[1], b[2]) :
                            m < n /\ \A e \in MarksAt(f, "end", b[1], b[2]) : ~(m < e /\ e < n)})

(* Mutant: a block that is still open at the end of the file is not reported. *)
UnclosedAccepted(f) ==
    UNION {{Issue(c, f, b[1], b[2]) : c \in
        (IF \E n \in MarksAt(f, "begin", b[1], b[2]) : IsOpen(f, b, n) THEN {"MARKER_DUP_BEGIN"} ELSE {})
        \cup (IF \E n \in MarksAt(f, "end", b[1], b[2]) : ~IsOpen(f, b, n) THEN {"MARKER_END_NO_BEGIN"} ELSE {})
        \cup (IF \E n \in MarksAt(f, "end", b[1], b[2]) : IsOpen(f, b, n) /\ n = StartOf(f, b, n) + 1
              THEN {"MARKER_EMPTY_BLOCK"} ELSE {})} : b \in Blocks(f)}
_parse_markers(f) ==
    UNION {{Issue(c, f, b[1], b[2]) : c \in
        (IF \E n \in MarksAt(f, "begin", b[1], b[2]) : IsOpen(f, b, n) THEN {"MARKER_DUP_BEGIN"} ELSE {})
        \cup (IF \E n \in MarksAt(f, "end", b[1], b[2]) : ~IsOpen(f, b, n) THEN {"MARKER_END_NO_BEGIN"} ELSE {})
        \cup (IF \E n \in MarksAt(f, "end", b[1], b[2]) : IsOpen(f, b, n) /\ n = StartOf(f, b, n) + 1
              THEN {"MARKER_EMPTY_BLOCK"} ELSE {})
        \cup (IF IsOpen(f, b, Len(code[f]) + 1) THEN {"MARKER_BEGIN_NO_END"} ELSE {})} : b \in Blocks(f)}

Loads(f) == _parse_markers(f) = {}
DupScopes(f) == {Issue("MARKER_DUP_SCOPE", f, m.id, "") : m \in
                   {q \in Range(code[f]) : q.t = "scope" /\ Cardinality(MarksAt(f, "scope", q.id, q.inst)) > 1}}
list_ids(f) == {m.id : m \in {q \in Range(code[f]) : q.t # "code"}}
CodeTrace == IF \E d \in Docs : TraceOf[d] = "DOCS-ONLY" THEN "DOCS-ONLY" ELSE "FULL"
parsed_code_files_full == IF CodeTrace = "FULL" THEN {f \in Files : Loads(f)} ELSE {}

(* A definition is for code when its ID has the token of a to_code kind.   *)
ForCode(r) ==
    /\ TraceOf[r[1]] = "FULL"
    /\ KindOf[r[1]] \in Constrained
    /\ \E q \in IdRules : /\ q.ak = KindOf[r[1]] /\ q.to_code
                          /\ \E p \in 1..(Len(Row(r).id) - 1) : Row(r).id[p] = q.kind
to_code_ids == {Row(r).id : r \in {q \in DefRows : ForCode(q) /\ (Row(q).done \/ ~Row(q).task)}}
to_code_ids_task_unchecked ==
    {Row(r).id : r \in {q \in DefRows : /\ ForCode(q) /\ Row(q).task /\ ~Row(q).done
                           /\ \A p \in TaskDefs(Row(q).id) :
                                 ForCode(p) /\ Precedes("all", q, p) => ~Row(p).done}}
Instances(i, wanted) ==
    UNION {{s[2] : s \in {q \in scan_cdsl_instructions(d) : q[1] = i /\ q[3] \in wanted}} :
              d \in {e \in Docs : TraceOf[e] = "FULL"}}

cross_validate_code ==
    LET fs == parsed_code_files_full
        found == UNION {list_ids(f) : f \in fs}
        InCode(i) == {b[2] : b \in {q \in UNION {Blocks(f) : f \in fs} : q[1] = i}}
        stepped == {i \in IdsOf(DefRows) : Instances(i, {TRUE}) # {}}
        At1(c, i, aux) == Issue(c, CHOOSE f \in fs : i \in list_ids(f), i, aux)
    IN  {At1("CODE_ORPHAN_REF", i, "") : i \in found \ IdsOf(DefRows)}
        \cup
        {At1("CODE_TASK_UNCHECKED", i, "") : i \in
            {q \in found \cap to_code_ids_task_unchecked : Instances(q, BOOLEAN) \subseteq InCode(q)}}
        \cup
        {Issue("CODE_NO_MARKER", NotADoc, i, "") : i \in to_code_ids \ found}
        \cup
        UNION {{Issue("CODE_INST_MISSING", NotADoc, i, s) : s \in Instances(i, {TRUE}) \ InCode(i)}
               \cup {At1("CODE_INST_ORPHAN", i, s) : s \in InCode(i) \ Instances(i, {TRUE})} : i \in stepped}

CodeErrors ==
    (UNION {IF Loads(f) THEN DupScopes(f) ELSE _parse_markers(f) : f \in Files})
    \cup (IF parsed_code_files_full # {} THEN cross_validate_code ELSE {})

-----------------------------------------------------------------------------
(* cmd_validate                                                            *)

Validated(mode) == IF mode \in Docs THEN {mode} ELSE Docs
ScansCode(mode) == /\ mode # "docs"
                   /\ mode \in Docs => TraceOf[mode] = "FULL" /\ At(mode, "def") # {}
CodeIdsFound(mode) == IF ScansCode(mode) THEN UNION {list_ids(f) : f \in {g \in Files : Loads(g)}} ELSE {}

(* An artifact kind without constraints: another kind, or the code, refers to its IDs. *)
Unreferenced(mode) ==
    {Issue("ID_NOT_REFERENCED", r[1], Row(r).id, "") : r \in
        {q \in DefRows : /\ q[1] \in Validated(mode)
                         /\ KindOf[q[1]] \notin Constrained
                         /\ \E d \in Docs : KindOf[d] # KindOf[q[1]]
                         /\ \A p \in RowsOf(ReferenceRows, Row(q).id) : KindOf[p[1]] = KindOf[q[1]]
                         /\ ~(TraceOf[q[1]] = "FULL" /\ Row(q).id \in CodeIdsFound(mode))}}

(* Mutant: the issues of one artifact are kept by its ID, not by its path. *)
IssuesNamed(mode, es) == {e \in es : mode \in Docs => e[3] \in {text[mode][n].id : n \in At(mode, "def")}}
(* Issues between artifacts are kept when their path was validated.        *)
IssuesOf(mode, es) == {e \in es : e[2] \in Validated(mode)}

Structure(mode) == UNION {ArtifactErrors(d) : d \in Validated(mode)}
Result(mode) ==
    LET structure == Structure(mode)
    IN  IF structure # {} THEN structure
        ELSE IssuesOf(mode, cross_validate_artifacts(mode))
             \cup (IF mode = "all" THEN CodeErrors ELSE {})
             \cup Unreferenced(mode)

(* Mutant: the verdict is settled before the artifacts are compared.       *)
VerdictTooEarly(mode) ==
    /\ todo = {}
    /\ verdict = NoVerdict \/ verdict.mode # mode
    /\ verdict' = [status |-> IF Structure(mode) = {} THEN "PASS" ELSE "FAIL",
                   mode |-> mode, errors |-> Result(mode)]
    /\ todo' = Result(mode)
    /\ UNCHANGED <<text, code, changes>>
cmd_validate(mode) ==
    /\ todo = {}
    /\ verdict = NoVerdict \/ verdict.mode # mode
    /\ LET es == Result(mode)
       IN  /\ verdict' = [status |-> IF es = {} THEN "PASS" ELSE "FAIL", mode |-> mode, errors |-> es]
           /\ todo' = es
    /\ UNCHANGED <<text, code, changes>>

-----------------------------------------------------------------------------
(* The author.                                                             *)

(* The elements of a sequence at some of its places.                       *)
Kept(s, K) ==
    [k \in 1..Cardinality(K) |-> s[CHOOSE n \in K : Cardinality({m \in K : m <= n}) = k]]

(* The artifact with some of its lines rewritten, and without some.        *)
Rewritten(d, S, Op(_)) == [text EXCEPT ![d] = [n \in DOMAIN @ |-> IF n \in S THEN Op(@[n]) ELSE @[n]]]
Without(d, S) == [text EXCEPT ![d] = Kept(@, DOMAIN @ \ S)]
Tick(l) == [l EXCEPT !.done = l.task \/ l.t = "step"]
Untick(l) == [l EXCEPT !.done = FALSE]
FlipTask(l) == [l EXCEPT !.task = ~@, !.done = FALSE]
FlipPriority(l) == [l EXCEPT !.prio = ~@]

Lines(d, ty, i) == {n \in At(d, ty) : text[d][n].id = i}
Everywhere(ty, i, Op(_)) == [q \in Docs |-> Rewritten(q, Lines(q, ty, i), Op)[q]]
DocsOfKind(k) == {d \in Docs : KindOf[d] = k}
NewRef(i, rule) == [t |-> "ref", lvl |-> 0, hid |-> "", id |-> i, inst |-> "",
                    task |-> rule.task = "required", prio |-> rule.prio = "required", done |-> FALSE]
(* The place for a new line: behind a heading the rule asks for, or at the end. *)
PlaceFor(d, heads) ==
    LET at == {h \in At(d, "head") : text[d][h].hid \in heads}
    IN  IF at = {} THEN Len(text[d]) + 1 ELSE Min(at) + 1

AnyRule == [task |-> "allowed", prio |-> "allowed"]
(* One of some lines moved there.                                          *)
Moved(d, S, heads) ==
    IF S = {} THEN text
    ELSE LET n == Min(S)
             p == PlaceFor(d, heads)
         IN  [text EXCEPT ![d] = InsertAt(Without(d, {n})[d], IF n < p THEN p - 1 ELSE p, @[n])]

(* What the author does about an issue in the artifacts.  Most prompts     *)
(* offer two ways out.  Of two boxes that disagree he ticks the open one,  *)
(* or unticks the done one; references without a definition are removed.   *)
WayOut(e, ticks) ==
    LET d == e[2]
        i == e[3]
        rule == CHOOSE q \in RefRules : q.target = e[4] /\ q.kind = KindOfId[i]
        idRule == CHOOSE q \in IdRules : q.ak = KindOf[d] /\ q.kind = e[4]
        refs == Lines(d, "ref", i)
        defs == Lines(d, "def", i)
    IN  CASE e[1] = "CDSL_STEP_UNCHECKED" ->
                IF ticks
                THEN Rewritten(d, {n \in At(d, "step") : text[d][n].inst = e[4] /\ ParentOfStep(d, n) = i}, Tick)
                ELSE Rewritten(d, defs, Untick)
          [] e[1] = "PARENT_UNCHECKED_ALL_DONE" -> Rewritten(d, defs, Tick)
          [] e[1] = "PARENT_CHECKED_NESTED_UNCHECKED" ->
                IF ticks THEN Rewritten(d, UNION {Nested(d, n) : n \in defs}, Tick) ELSE Rewritten(d, defs, Untick)
          [] e[1] = "REF_NO_DEFINITION" -> Without(d, refs)
          [] e[1] = "REF_DONE_DEF_NOT_DONE" -> IF ticks THEN Everywhere("def", i, Tick) ELSE Rewritten(d, refs, Untick)
          [] e[1] = "DEF_DONE_REF_NOT_DONE" -> IF ticks THEN Rewritten(d, refs, Tick) ELSE Everywhere("def", i, Untick)
          [] e[1] = "REF_TASK_DEF_NO_TASK" -> Rewritten(d, {n \in refs : text[d][n].task}, FlipTask)
          [] e[1] = "DEF_TASK" -> Rewritten(d, {n \in defs : Breaks(idRule.task, text[d][n].task)}, FlipTask)
          [] e[1] = "DEF_PRIORITY" -> Rewritten(d, {n \in defs : Breaks(idRule.prio, text[d][n].prio)}, FlipPriority)
          [] e[1] = "DEF_WRONG_HEADINGS" -> Moved(d, {n \in defs : Misplaced(idRule.heads, d, n)}, idRule.heads)
          [] e[1] = "REF_WRONG_HEADINGS" -> Moved(d, refs, rule.heads)
          [] e[1] = "ID_NOT_REFERENCED" ->
                LET to == CHOOSE q \in Docs : KindOf[q] # KindOf[d]
                IN  [text EXCEPT ![to] = Append(@, NewRef(i, AnyRule))]
          [] e[1] = "REF_TASK" -> Rewritten(d, {n \in refs : Breaks(rule.task, text[d][n].task)}, FlipTask)
          [] e[1] = "REF_PRIORITY" -> Rewritten(d, {n \in refs : Breaks(rule.prio, text[d][n].prio)}, FlipPriority)
          [] e[1] = "REF_FROM_PROHIBITED_KIND" -> Without(d, refs)
          [] e[1] = "REF_MISSING_FROM_KIND" ->
                LET to == CHOOSE q \in DocsOfKind(rule.target) : TRUE
                IN  [text EXCEPT ![to] = InsertAt(@, PlaceFor(to, rule.heads), NewRef(i, rule))]
          [] e[1] = "CODE_TASK_UNCHECKED" -> Everywhere("def", i, Tick)
          [] OTHER -> text

(* Mutant: the prompt for a parent with open items nested under it knows   *)
(* one way out, to untick the parent; the prompt for a done reference to   *)
(* that parent ticks it again.                                             *)
PromptsAtOdds(e) == WayOut(e, Optimist /\ e[1] # "PARENT_CHECKED_NESTED_UNCHECKED")
(* _build_fixing_prompt as this author reads it: an Optimist always ticks, *)
(* another author always unticks.                                          *)
_build_fixing_prompt(e) == WayOut(e, Optimist)

(* ... and about an issue in the code.                                     *)
FixCode(e) ==
    LET f == IF e[2] \in Files THEN e[2] ELSE CHOOSE g \in Files : TRUE
        OfBlock(m) == m.id = e[3] /\ m.inst = e[4]
    IN  CASE e[1] \in {"MARKER_DUP_BEGIN", "MARKER_END_NO_BEGIN", "MARKER_EMPTY_BLOCK", "MARKER_BEGIN_NO_END"} ->
                [code EXCEPT ![f] = Kept(@, {n \in DOMAIN @ : ~OfBlock(@[n])}) \o
                    <<[t |-> "begin", id |-> e[3], inst |-> e[4]], [t |-> "code", id |-> <<>>, inst |-> ""],
                      [t |-> "end", id |-> e[3], inst |-> e[4]]>>]
          [] e[1] = "MARKER_DUP_SCOPE" ->
                [code EXCEPT ![f] = Kept(@, {n \in DOMAIN @ : ~(@[n].t = "scope" /\ @[n].id = e[3])}) \o
                    <<[t |-> "scope", id |-> e[3], inst |-> ""]>>]
          [] e[1] = "CODE_ORPHAN_REF" -> [g \in Files |-> Kept(code[g], {n \in DOMAIN code[g] : code[g][n].id # e[3]})]
          [] e[1] = "CODE_INST_ORPHAN" -> [g \in Files |-> Kept(code[g], {n \in DOMAIN code[g] : ~OfBlock(code[g][n])})]
          [] e[1] = "CODE_NO_MARKER" -> [code EXCEPT ![f] = Append(@, [t |-> "scope", id |-> e[3], inst |-> ""])]
          [] e[1] = "CODE_INST_MISSING" ->
                [code EXCEPT ![f] = @ \o
                    <<[t |-> "begin", id |-> e[3], inst |-> e[4]], [t |-> "code", id |-> <<>>, inst |-> ""],
                      [t |-> "end", id |-> e[3], inst |-> e[4]]>>]
          [] OTHER -> code

(* The author works off one issue of the last report; when the last is     *)
(* done the report no longer says anything about the files.                *)
Repair(e) ==
    /\ e \in todo
    /\ text' = _build_fixing_prompt(e)
    /\ code' = FixCode(e)
    /\ todo' = todo \ {e}
    /\ verdict' = NoVerdict
    /\ UNCHANGED changes

(* Between a clean report and the next one, work gets done or undone: a    *)
(* box is ticked or unticked, a reference or a marker disappears.          *)
EditText(d, n, how) ==
    /\ how \in Edits /\ changes < MaxChanges
    /\ todo = {}
    /\ verdict.status = "PASS"
    /\ \/ how = "tick" /\ (text[d][n].task \/ text[d][n].t = "step")
          /\ text' = Rewritten(d, {n}, LAMBDA l : [l EXCEPT !.done = ~@])
       \/ how = "drop" /\ text[d][n].t \in {"ref", "def"} /\ text' = Without(d, {n})
    /\ changes' = changes + 1
    /\ verdict' = NoVerdict
    /\ UNCHANGED <<code, todo>>

EditCode(f, n) ==
    /\ "code" \in Edits /\ changes < MaxChanges
    /\ todo = {}
    /\ verdict.status = "PASS"
    /\ code' = [code EXCEPT ![f] = Kept(@, DOMAIN @ \ {n})]
    /\ changes' = changes + 1
    /\ verdict' = NoVerdict
    /\ UNCHANGED <<text, todo>>

TraceInit ==
    /\ text \in InitialText
    /\ code \in InitialCode
    /\ verdict = NoVerdict
    /\ todo = {}
    /\ changes = 0

TraceNext ==
    \/ \E mode \in Modes : cmd_validate(mode)
    \/ \E e \in todo : Repair(e)
    \/ \E d \in Docs : \E n \in DOMAIN text[d], how \in Edits : EditText(d, n, how)
    \/ \E f \in Files : \E n \in DOMAIN code[f] : EditCode(f, n)

TraceSpec == TraceInit /\ [][TraceNext]_traceVars

(* The author keeps following the prompts and asks for the whole project   *)
(* again after each round: what a quality gate in CI amounts to.           *)
FairSpec == TraceSpec /\ WF_traceVars(cmd_validate("all")) /\ WF_traceVars(\E e \in todo : Repair(e))

-----------------------------------------------------------------------------
TraceTypeOK ==
    /\ text \in [Docs -> Seq(TextLine)]
    /\ code \in [Files -> Seq(Mark)]
    /\ \A e \in todo : e[3] \in Seq(STRING) /\ e[4] \in Names
    /\ verdict.status \in {"none", "PASS", "FAIL"} /\ verdict.mode \in Modes
    /\ verdict.status = "PASS" => verdict.errors = {} /\ todo = {}
    /\ changes \in 0..MaxChanges

(* A report is about the files as they are: any change discards it.        *)
Passed(mode) == verdict.status = "PASS" /\ verdict.mode = mode

(* The validator's promise about references: when the project passes,      *)
(* every reference to an ID of a registered system resolves to a           *)
(* definition in some artifact (constraints.py:1034-1049, reached only     *)
(* after the early return of validate.py:285).                             *)
ReferencesResolve ==
    Passed("all") \/ Passed("docs") =>
        \A r \in ReferenceRows : (\E s \in Systems : IsStrictPrefix(s, Row(r).id)) =>
            \E q \in DefRows : Row(q).id = Row(r).id

(* What being done rests on.  The innermost heading over a line is its     *)
(* section; a definition stands over the tracked items behind it in its    *)
(* section (definitions only under deeper headings), and over the steps    *)
(* up to the next definition; a tracked reference rests on the tracked     *)
(* definitions of its ID, in whatever artifact they are.                   *)
Section(d, n) == IF Enclosing(d, n) = {} THEN 0 ELSE Max(Enclosing(d, n))
RestsOn(r) ==
    LET d == r[1]
        n == r[2]
        behind == {m \in DOMAIN text[d] : m > n}
    IN  CASE Row(r).t = "ref" -> TaskDefs(Row(r).id)
          [] Row(r).t = "def" ->
                {<<d, m>> : m \in {q \in behind :
                    \/ /\ Section(d, n) \in Enclosing(d, q)
                       /\ text[d][q].task
                       /\ text[d][q].t = "def" => Section(d, q) # Section(d, n)
                    \/ /\ text[d][q].t = "step"
                       /\ ~\E k \in At(d, "def") : n < k /\ k < q}}
          [] OTHER -> {}

(* Done means done all the way down: in a project that passes, whatever a  *)
(* ticked item rests on, in its own artifact or in another, is ticked.     *)
(* Since every such item is again an item of this kind, a ticked box       *)
(* nowhere hides open work (constraints.py:381-507 and :1054-1105).  It    *)
(* takes OneDefinitionPerId for granted: the steps of a definition are     *)
(* judged by the first one of its ID.                                      *)
DoneRestsOnDone ==
    Passed("all") \/ Passed("docs") =>
        \A r \in DefRows \cup ReferenceRows :
            Row(r).task /\ Row(r).done /\ KindOf[r[1]] \in Constrained =>
                \A q \in RestsOn(r) : Row(q).done

(* A block of an instruction: a begin and an end marker of its own, at     *)
(* least one line between them, and no other marker of it there.           *)
ClosedBlock(f, i, inst) ==
    LET M(ty) == [t |-> ty, id |-> i, inst |-> inst]
    IN  \E b, e \in DOMAIN code[f] :
            /\ b + 1 < e
            /\ code[f][b] = M("begin")
            /\ code[f][e] = M("end")
            /\ \A n \in DOMAIN code[f] : b < n /\ n < e => code[f][n] \notin {M("begin"), M("end")}

(* The code side of the promise, once some code file is scanned: a marker  *)
(* names a defined ID, a finished ID of a to_code kind has a marker, every *)
(* ticked step has a closed block of its own under the ID it stands under, *)
(* which is not empty, and no unfinished to_code ID is fully implemented   *)
(* (codebase.py:128-243 and :310-470).  The lines in the block may all be  *)
(* markers of other blocks: see StepsHaveCode.                             *)
CodeIsTraced ==
    Passed("all") /\ CodeTrace = "FULL" /\ Files # {} =>
        /\ \A f \in Files : \A m \in Range(code[f]) : m.t # "code" => \E q \in DefRows : Row(q).id = m.id
        /\ \A r \in DefRows : ForCode(r) /\ (Row(r).task => Row(r).done) =>
              \E f \in Files : \E m \in Range(code[f]) : m.t # "code" /\ m.id = Row(r).id
        /\ \A d \in Docs : \A n \in At(d, "step") : LET over == {k \in At(d, "def") : k < n} IN
              text[d][n].done /\ over # {} =>
                \E f \in Files : ClosedBlock(f, text[d][Max(over)].id, text[d][n].inst)
        /\ \A r \in DefRows : LET i == Row(r).id IN
              /\ ForCode(r) /\ Row(r).task
              /\ \A q \in TaskDefs(i) : ~Row(q).done
              /\ \E f \in Files : i \in list_ids(f)
              => \E d \in Docs : \E n \in At(d, "step") :
                    /\ ParentOfStep(d, n) = i
                    /\ \A f \in Files : <<i, text[d][n].inst>> \notin Blocks(f)

(* Asking artifact by artifact finds what asking for all of them finds: a  *)
(* project passes `validate --skip-code` exactly when each artifact passes *)
(* on its own, although an issue between two artifacts is filed under only *)
(* one of them (validate.py:331-341).  It takes AllConstrained for         *)
(* granted: with a kind that has no constraints, the report on one         *)
(* artifact leaves MISSING_CONSTRAINTS out and looks for IDs in the code.  *)
OneByOneFindsAll ==
    verdict = NoVerdict /\ todo = {} => ((\A d \in Docs : Result(d) = {}) <=> Result("docs") = {})

(* A verdict stands only as long as it is true of the files: what was      *)
(* found nothing in would be found nothing in again (validate.py:285-341). *)
VerdictTrue == verdict.status = "PASS" => verdict.mode \in Modes /\ Result(verdict.mode) = {}

(* What the promises above take for granted of the artifacts: an ID is     *)
(* defined once in a file (the steps of a definition are judged by the     *)
(* first one), the scan of the steps can read every definition             *)
(* (ParentOfStep), and every kind has constraints (an ID of a kind without *)
(* is also looked for in the code, if one artifact is validated).          *)
OneDefinitionPerId ==
    \A d \in Docs : \A n, m \in At(d, "def") : text[d][n].id = text[d][m].id => n = m
DefsReadable == \A r \in DefRows : Row(r).task \/ ~Row(r).prio
AllConstrained == \A d \in Docs : KindOf[d] \in Constrained

(* An author who follows the prompts, and of two boxes that disagree       *)
(* always ticks the open one, comes to a project that passes, from every   *)
(* state the boxes, references and markers can be in: no two of the ways   *)
(* out he takes undo each other (fixing.py:367-711).  The prompts promise  *)
(* no such thing of the other ways they offer: see PromptsConverge.        *)
TickingConverges == Optimist => []<>Passed("all")

-----------------------------------------------------------------------------
(* What the documents say and the code does not do: each is refuted by one *)
(* of the configurations validation_doc*.cfg.                              *)

(* document.py:186: an instruction "is bound to the most recent ID         *)
(* definition encountered above it".                                       *)
StepsBindToDefinitionAbove ==
    \A d \in Docs : \A n \in At(d, "step") :
        LET over == {k \in At(d, "def") : k < n}
        IN  over # {} => ParentOfStep(d, n) = text[d][Max(over)].id

(* traceability-validation.md:53: "every design element has a unique ID".  *)
PassingIdsAreUnique ==
    Passed("all") => \A r, q \in DefRows : Row(r).id = Row(q).id => r = q

(* traceability-validation.md:263: DOCS-ONLY traceability prohibits every  *)
(* @cpt marker in the code.                                                *)
DocsOnlyHasNoMarkers ==
    Passed("all") /\ CodeTrace = "DOCS-ONLY" => \A f \in Files : list_ids(f) = {}

(* fixing.py:400: "either uncheck parent, or check all nested unchecked    *)
(* items": whichever way out the author takes, he comes to an end.         *)
PromptsConverge == []<>Passed("all")

(* traceability.md:296: "Code MUST exist between begin/end".               *)
StepsHaveCode ==
    Passed("all") => \A f \in Files : \A b \in Blocks(f) :
        \E n \in DOMAIN code[f] : code[f][n].t = "code" /\ IsOpen(f, b, n)

(* traceability-validation.md:468: the markers of a file are checked for   *)
(* "proper nesting".                                                       *)
BlocksNest ==
    Passed("all") => \A f \in Files : \A a, b \in Blocks(f) : a # b =>
        ~\E n \in MarksAt(f, "begin", b[1], b[2]), e \in MarksAt(f, "end", a[1], a[2]) :
            /\ n < e
            /\ IsOpen(f, a, n)
            /\ IsOpen(f, b, e)
            /\ StartOf(f, b, e) = n
            /\ StartOf(f, a, e) < n

(* codebase.py:324: to_code IDs "MUST have code markers".                  *)
FinishedIdsAreInCode ==
    Passed("all") => to_code_ids \subseteq UNION {list_ids(f) : f \in Files}
=============================================================================
