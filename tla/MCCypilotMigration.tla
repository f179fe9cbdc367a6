------------------------ MODULE MCCypilotMigration ------------------------
(* Instances of CypilotMigration: a handful of v2 projects that between    *)
(* them have every kind of core, registry and agent directory.             *)
EXTENDS CypilotMigration, TLC

Own == File("own")
AdapterOf(kits, files) == {KitTok(k) : k \in kits} \cup {File(f) : f \in files}

(* A plain core, one kit that is listed and on disk; no root AGENTS.md.    *)
Plain == [fs |-> ("adapter" :> AdapterOf({"sdlc"}, {"artifacts.json", "AGENTS.md"}))
                 @@ ("core" :> {Own}) @@ ("github" :> {Own, Stale}),
          registry |-> "ok", listed |-> {"sdlc"}, convertible |-> TRUE,
          custom |-> FALSE]

(* A submodule next to another one, paths named in .cypilot-config.json,   *)
(* and a JSON file that does not convert.                                  *)
Submodule == [fs |-> ("adapter" :> AdapterOf({}, {"artifacts.json", "pr-review.json"}))
                 @@ ("config_json" :> {Own}) @@ ("core" :> {File(".git")})
                 @@ ("gitmodules" :> {Tok("submodule", "core"), Tok("submodule", "other")})
                 @@ ("git_modules" :> {Own}) @@ ("root_agents" :> {Own})
                 @@ ("claude" :> {Own}),
          registry |-> "ok", listed |-> {"mine"}, convertible |-> FALSE,
          custom |-> TRUE]

(* The only submodule; a kit on disk that no registry lists.               *)
OnlySubmodule == [fs |-> ("adapter" :> AdapterOf({"mine"}, {"artifacts.json"}))
                 @@ ("agents_json" :> {Own}) @@ ("core" :> {Own})
                 @@ ("gitmodules" :> {Tok("submodule", "core")})
                 @@ ("git_modules" :> {Own}) @@ ("claude" :> {Own, Stale}),
          registry |-> "ok", listed |-> {}, convertible |-> TRUE,
          custom |-> FALSE]

(* A clone, and an adapter without a registry.                             *)
Clone == [fs |-> ("adapter" :> AdapterOf({"mine"}, {"AGENTS.md"}))
                 @@ ("core" :> {Own, File(".git")})
                 @@ ("gitmodules" :> {Tok("submodule", "other")}),
          registry |-> "none", listed |-> {}, convertible |-> TRUE,
          custom |-> FALSE]

(* No core at all, and a registry that is not an object.                   *)
NoCore == [fs |-> ("adapter" :> AdapterOf({}, {"artifacts.json", "pr-review.json"}))
                 @@ ("config_json" :> {Own}) @@ ("root_agents" :> {Own}),
          registry |-> "malformed", listed |-> {}, convertible |-> FALSE,
          custom |-> FALSE]

AllProjects == {Plain, Submodule, OnlySubmodule, Clone, NoCore}
=============================================================================
