--------------------------- MODULE MCProjectSetup ---------------------------
(***************************************************************************)
(* Projects for the model checker: no installation, a current one, the two *)
(* older directory layouts, and a project that still uses the legacy slug. *)
(***************************************************************************)
EXTENDS ProjectSetup

SortedSlugs == <<"cypilot-sdlc", "sdlc">>
TwoCoreDirs == <<"workflows", "skills">>

Entry(place, s, source, version) ==
    [path |-> <<place, s>>, source |-> source, version |-> version, bound |-> FALSE]
All(S, content) == [i \in S |-> content]
Kit(place) == All({"SKILL.md", "artifacts"}, place)

Nothing ==
    [core |-> [d \in CoreDirs |-> 0], whatsnew |-> 0, agents |-> 0, tree |-> <<>>,
     toml |-> [FreshToml EXCEPT !.state = "absent"],
     reg |-> [state |-> "absent", kit |-> ""],
     cfg |-> [f \in ConfigFiles |-> "absent"],
     gen |-> [written |-> FALSE, nav |-> {}],
     root |-> [f \in RootFiles |-> FALSE]]

Installed(tree, kits, kit) ==
    [Nothing EXCEPT !.core = [d \in CoreDirs |-> 1], !.agents = 1, !.tree = tree,
        !.toml = [FreshToml EXCEPT !.kits = kits, !.system = TRUE],
        !.reg = [state |-> "ok", kit |-> kit],
        !.cfg = [@ EXCEPT !["AGENTS.md"] = "mine", !["README.md"] = "default"],
        !.root = [@ EXCEPT !["AGENTS.md"] = TRUE]]

One(l, x) == [q \in {l} |-> x]
Two(l, x, m, y) == [q \in {l, m} |-> IF q = l THEN x ELSE y]

Current == Installed(One(<<"config", "sdlc">>, All({"SKILL.md", "blueprints"}, "config")),
                     One("sdlc", Entry("config", "sdlc", "", 1)), "sdlc")
(* kits/ holds reference copies, .gen/kits the generated outputs.          *)
LayoutA == Installed(
    Two(<<"kits", "sdlc">>, All({"artifacts", "blueprints"}, "kits"),
        <<"gen", "sdlc">>, All({"SKILL.md"}, "gen")),
    One("sdlc", Entry("gen", "sdlc", "", 1)), "sdlc")
(* kits/ holds the user's kits, config/kits the generated outputs.         *)
LayoutB == Installed(
    Two(<<"kits", "sdlc">>, Kit("kits"), <<"kits", "cypilot-sdlc">>, All({"artifacts"}, "kits")),
    Two("sdlc", Entry("kits", "sdlc", "local", 1),
        "cypilot-sdlc", Entry("kits", "cypilot-sdlc", "", 1)), "cypilot-sdlc")
(* Both slugs name one kit; or only the legacy one is registered.          *)
BothSlugs == Installed(One(<<"config", "sdlc">>, All({"artifacts"}, "config")),
    Two("sdlc", Entry("config", "sdlc", "", 0),
        "cypilot-sdlc", Entry("config", "sdlc", "github", 1)), "cypilot-sdlc")
LegacySlug == Installed(One(<<"config", "cypilot-sdlc">>, Kit("config")),
    One("cypilot-sdlc", Entry("config", "cypilot-sdlc", "", 2)), "cypilot-sdlc")

AllProjects == {Nothing, Current, LayoutA, LayoutB, BothSlugs}
OldLayouts == {LayoutA, LayoutB}
LegacyOnly == {LegacySlug}
=============================================================================
