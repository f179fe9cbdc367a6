-------------------------- MODULE CypilotMigration --------------------------
(***************************************************************************)
(* `cpt migrate`: the v2 -> v3 migration of a project (commands/migrate.py *)
(* of the cypilot tool).  One run is a single process that detects the v2  *)
(* installation, backs it up, converts it step by step and validates the   *)
(* result; an exception of a step, or a failed validation, rolls the       *)
(* project back from the backup.  The process may also simply die between  *)
(* or inside two steps, and the command may be run again on what it left.  *)
(*                                                                         *)
(* The project is a function from the paths that exist to their contents,  *)
(* a content being the set of things (tokens) a file or directory holds: a *)
(* removal or a copy that stops half way leaves a subset.                  *)
(***************************************************************************)
EXTENDS Naturals, Sequences, FiniteSets

CONSTANTS
    Kits,           \* slugs of kits
    DefaultKit,     \* the kit installed when the project has none ("sdlc")
    CacheHasKit,    \* the tool's cache holds the default kit
    Projects,       \* the v2 projects the command may be run on
    MaxRuns,        \* bound: runs of the command
    MaxFaults       \* bound: exceptions and crashes

AgentDirs == {"claude", "github"}
ValidatedDirs == AgentDirs \ {"github"}

(* Items of the backup in the order the code visits them.                  *)
ItemOrder == <<"adapter", "config_json", "agents_json", "core", "gitmodules",
               "root_agents", "claude", "github">>
Items == {"adapter", "config_json", "agents_json", "core", "gitmodules",
          "root_agents"} \cup AgentDirs
Dirs == {"adapter", "core"} \cup AgentDirs
InstallDirs == {"core", "v3dir"}
Paths == Items \cup {"v3dir", "git_modules"}

Tok(sort, name) == <<sort, name>>
File(name) == Tok("file", name)
KitTok(k) == Tok("kit", k)
RegTok(k) == Tok("registered", k)

(* A project: the paths that exist, each with its contents.                *)
Tokens == {Tok(s, n) : s \in {"file", "kit", "registered", "submodule", "proxy",
                              "block", "config/AGENTS.md"},
                       n \in Kits \cup {"artifacts.json", "AGENTS.md",
                          "pr-review.json", "pr-review.toml", "own", ".git",
                          "core", "other", "adapter", "v3", "root-agents",
                          "rules", "empty", "torn", ".core", ".gen", "config",
                          "SKILL.md", "core.toml", "artifacts.toml",
                          ".gen/AGENTS.md"}}
IsProject(f) == DOMAIN f \subseteq Paths /\ f \in [DOMAIN f -> SUBSET Tokens]

ASSUME MigrationAssumption ==
    /\ MaxRuns \in Nat /\ MaxFaults \in Nat
    /\ DefaultKit \in Kits
    /\ CacheHasKit \in BOOLEAN
    /\ \A p \in Projects :
          /\ IsProject(p.fs)
          /\ "adapter" \in DOMAIN p.fs
          /\ p.registry \in {"none", "malformed", "ok"}
          /\ p.listed \subseteq Kits
          /\ p.convertible \in BOOLEAN /\ p.custom \in BOOLEAN

VARIABLES
    fs,         \* the project: existing paths -> contents
    text,       \* what the v2 files say; no step edits them in place
    origin,     \* history: the project before the first run
    backups,    \* backup directories by timestamp
    run,        \* local state of the running process
    atStart,    \* history: the project when the current run began
    result,     \* what the last finished run reported
    runs,       \* runs started
    faults      \* exceptions and crashes so far

vars == <<fs, text, origin, backups, run, atStart, result, runs, faults>>

(***************************************************************************)
(* File operations on a project f.                                         *)
(***************************************************************************)
Put(f, p, c) == [q \in DOMAIN f \cup {p} |-> IF q = p THEN c ELSE f[q]]
Remove(f, p) == [q \in DOMAIN f \ {p} |-> f[q]]
At(f, p) == IF p \in DOMAIN f THEN f[p] ELSE {}
Add(f, p, c) == Put(f, p, At(f, p) \cup c)
Edit(f, p, c) == IF p \in DOMAIN f THEN Put(f, p, c) ELSE f

(* What a removal of p that raises may leave: all of it, or some of it.    *)
HalfRemoved(f, p) == IF p \in DOMAIN f
                     THEN {Put(f, p, c) : c \in SUBSET f[p]} ELSE {f}
(* What a copy of c to p that raises may leave: nothing, or some of it.    *)
HalfCopied(f, p, c) == {Remove(f, p)} \cup {Put(f, p, d) : d \in SUBSET c}

(***************************************************************************)
(* Detection.                                                              *)
(***************************************************************************)
InstallTypes == {"SUBMODULE", "GIT_CLONE", "PLAIN_DIR", "ABSENT"}

detect_core_install_type(f) ==
    IF "core" \notin DOMAIN f THEN "ABSENT"
    ELSE IF Tok("submodule", "core") \in At(f, "gitmodules") THEN "SUBMODULE"
    ELSE IF File(".git") \in f["core"] THEN "GIT_CLONE"
    ELSE "PLAIN_DIR"

(* The adapter directory is found at its default place, or at the place    *)
(* .cypilot-config.json names while that file is still there.              *)
Detected(f) == /\ "adapter" \in DOMAIN f
               /\ text.custom => "config_json" \in DOMAIN f

detect_v2(f) ==
    LET adapter == At(f, "adapter")
        registry == IF File("artifacts.json") \in adapter THEN text.registry
                    ELSE "none"
    IN  [core_type |-> detect_core_install_type(f),
         registry  |-> registry,
         kits      |-> IF registry = "ok" THEN text.listed ELSE {},
         kit_dirs  |-> {k \in Kits : KitTok(k) \in adapter},
         agents_md |-> File("AGENTS.md") \in adapter]

NoView == [core_type |-> "ABSENT", registry |-> "none", kits |-> {},
           kit_dirs |-> {}, agents_md |-> FALSE]

NoRun == [pc |-> "idle", v2 |-> NoView, install |-> "core", ts |-> 0, at |-> 1,
          backed |-> {}, jsonFailed |-> FALSE, unread |-> FALSE,
          errors |-> FALSE]

Init ==
    /\ \E p \in Projects :
          /\ fs = p.fs
          /\ text = [registry |-> p.registry, listed |-> p.listed,
                     convertible |-> p.convertible, custom |-> p.custom]
    /\ origin = fs
    /\ backups = <<>>
    /\ run = NoRun
    /\ atStart = fs
    /\ result = "none"
    /\ runs = 0
    /\ faults = 0

Fault == faults < MaxFaults /\ faults' = faults + 1
Goto(pc) == run' = [run EXCEPT !.pc = pc]
Ended == [NoRun EXCEPT !.install = run.install, !.unread = run.unread]
Finish(status) == run' = Ended /\ result' = status
Died == Finish("died")
Fixed == UNCHANGED <<text, origin, atStart>>

(***************************************************************************)
(* run_migrate up to the confirmation.                                     *)
(***************************************************************************)
Start(install, dry_run) ==
    /\ run.pc = "idle" /\ runs < MaxRuns
    /\ runs' = runs + 1
    /\ IF ~Detected(fs) THEN Finish("NOT_FOUND")
       ELSE IF dry_run THEN Finish("DRY_RUN")
       ELSE /\ run' = [NoRun EXCEPT !.pc = "confirm", !.v2 = detect_v2(fs),
                                    !.install = install]
            /\ result' = "none"
    /\ atStart' = fs
    /\ UNCHANGED <<fs, text, origin, backups, faults>>

(* The answer to the prompt.  The backup directory is named after the      *)
(* second it is made in, which a run started at once may share with the    *)
(* run before it: mkdir accepts an existing directory.                     *)
Confirm(yes, ts) ==
    /\ run.pc = "confirm"
    /\ ts \in {Len(backups), Len(backups) + 1} \ {0}
    /\ IF yes
       THEN /\ run' = [run EXCEPT !.pc = "backup", !.ts = ts]
            /\ backups' = IF ts \in DOMAIN backups THEN backups
                          ELSE Append(backups, [files |-> <<>>, manifest |-> {},
                                                done |-> FALSE])
            /\ UNCHANGED result
       ELSE /\ Finish("CANCELLED")
            /\ UNCHANGED backups
    /\ Fixed /\ UNCHANGED <<fs, runs, faults>>

(***************************************************************************)
(* backup_v2_state: one item after the other, then the manifest.           *)
(***************************************************************************)
(* Mutant: the core directory is not backed up.                            *)
InBackupButCore(p) == p \in DOMAIN fs /\ p # "core"
InBackup(p) == /\ p \in DOMAIN fs
               /\ p = "gitmodules" => run.v2.core_type = "SUBMODULE"

BackupItem ==
    LET p == ItemOrder[run.at]
        old == backups[run.ts].files
        Store(f) == [backups EXCEPT ![run.ts].files = f]
        next == [run EXCEPT !.at = @ + 1,
                            !.pc = IF run.at = Len(ItemOrder) THEN "manifest"
                                   ELSE "backup"]
    IN  /\ run.pc = "backup"
        /\ \/ /\ ~InBackup(p)
              /\ run' = next
              /\ UNCHANGED <<backups, result, faults>>
           \/ /\ InBackup(p) /\ p \in Dirs /\ p \in DOMAIN old
              /\ Finish("BACKUP_FAILED")           \* copytree: FileExistsError
              /\ UNCHANGED <<backups, faults>>
           \/ /\ InBackup(p) /\ (p \in Dirs => p \notin DOMAIN old)
              /\ \/ /\ backups' = Store(Put(old, p, fs[p]))
                    /\ run' = [next EXCEPT !.backed = @ \cup {p}]
                    /\ UNCHANGED <<result, faults>>
                 \/ /\ Fault
                    /\ \E h \in HalfCopied(old, p, fs[p]) : backups' = Store(h)
                    /\ Finish("BACKUP_FAILED") \/ Died
        /\ Fixed /\ UNCHANGED <<fs, runs>>

(* Mutants: the manifest names items that were not there, or files only.   *)
ManifestNames(items) ==
    /\ run.pc = "manifest"
    /\ backups' = [backups EXCEPT ![run.ts].manifest = items, ![run.ts].done = TRUE]
    /\ Goto("cleanup")
    /\ Fixed /\ UNCHANGED <<fs, result, runs, faults>>
ManifestOfAll == ManifestNames(Items)
ManifestOfFiles == ManifestNames(run.backed \ Dirs)

WriteManifest ==
    /\ run.pc = "manifest"
    /\ \/ /\ backups' = [backups EXCEPT ![run.ts].manifest = run.backed,
                                        ![run.ts].done = TRUE]
          /\ Goto("cleanup") /\ UNCHANGED <<result, faults>>
       \/ /\ Fault /\ UNCHANGED backups
          /\ Finish("BACKUP_FAILED") \/ Died
    /\ Fixed /\ UNCHANGED <<fs, runs>>

(***************************************************************************)
(* A conversion step at pc: it succeeds with the project `done` and moves  *)
(* on, or it stops with one of the projects `half`: the exception starts   *)
(* the rollback, the death of the process leaves everything as it is.      *)
(***************************************************************************)
(* Mutant: the rollback skips the first item.                              *)
RollbackFromSecond == [run EXCEPT !.pc = "rollback", !.at = 2]
Rollback == [run EXCEPT !.pc = "rollback", !.at = 1]

Convert(pc, next, done, half) ==
    /\ run.pc = pc
    /\ \/ /\ fs' = done
          /\ Goto(next)
          /\ UNCHANGED <<result, faults>>
       \/ /\ Fault
          /\ fs' \in half
          /\ \/ run' = Rollback /\ UNCHANGED result
             \/ Died
    /\ Fixed /\ UNCHANGED <<backups, runs>>

(* cleanup_core_path.  A submodule loses its entry in .gitmodules, its     *)
(* directory under .git/modules and its working tree; the last removal     *)
(* ignores errors, so some of the tree may stay although the step          *)
(* succeeds.  A clone or a plain directory is removed.                     *)
SubmoduleCleaned(f, left) ==
    LET entries == At(f, "gitmodules") \ {Tok("submodule", "core")}
        g == IF entries = {} THEN Remove(f, "gitmodules")
             ELSE Edit(f, "gitmodules", entries)
        h == Remove(g, "git_modules")
    IN  IF left = {} THEN Remove(h, "core") ELSE Put(h, "core", left)

SubmoduleHalfCleaned(f) ==
    {[p \in DOMAIN f \ gone |-> f[p]] : gone \in SUBSET {"core", "git_modules"}}
        \cup {SubmoduleCleaned(f, left) : left \in SUBSET At(f, "core")}

CleanupCore ==
    \/ /\ run.v2.core_type = "ABSENT"
       /\ Convert("cleanup", "layout", fs, {fs})
    \/ /\ run.v2.core_type = "SUBMODULE"
       /\ \E left \in SUBSET At(fs, "core") :
             Convert("cleanup", "layout", SubmoduleCleaned(fs, left),
                     SubmoduleHalfCleaned(fs))
    \/ /\ run.v2.core_type \in {"GIT_CLONE", "PLAIN_DIR"}
       /\ Convert("cleanup", "layout", Remove(fs, "core"),
                  HalfRemoved(fs, "core"))

(* The v3 tree: .core/, .gen/ and config/, with the core files of the      *)
(* cache when there is one.                                                *)
Layout == {File(".core"), File(".gen"), File("config")}
InitLayout ==
    Convert("layout", "registry", Add(fs, run.install, Layout),
            {Add(fs, run.install, c) : c \in SUBSET Layout})

(* convert_artifacts_registry, skipped without a parsed artifacts.json; a  *)
(* registry that is not an object raises.                                  *)
ConvertRegistry ==
    \/ /\ run.v2.registry # "malformed"
       /\ Convert("registry", "agents_md",
                  IF run.v2.registry = "ok"
                  THEN Add(fs, run.install, {File("artifacts.toml")}) ELSE fs,
                  {fs})
    \/ /\ run.v2.registry = "malformed" /\ run.pc = "registry"
       /\ run' = Rollback
       /\ Fixed /\ UNCHANGED <<fs, backups, result, runs, faults>>

(* Mutant: only the kits of the registry.                                  *)
ListedKits == run.v2.kits
(* kit_slug_map: the kits of the registry and the kit directories.         *)
SlugMap == run.v2.kits \cup run.v2.kit_dirs

(* What config/AGENTS.md may say: the rules of the adapter, nothing yet, or *)
(* the part a write got to.                                                *)
Bodies == {"rules", "empty", "torn"}
AgentsMd(body) == Tok("config/AGENTS.md", body)
HasAgentsMd(f) == \E b \in Bodies : AgentsMd(b) \in At(f, run.install)
WriteAgentsMd(f, body) ==
    Put(f, run.install, (At(f, run.install) \ {AgentsMd(b) : b \in Bodies})
                            \cup {AgentsMd(body)})
EmptyAgentsMd(f) == IF HasAgentsMd(f) THEN f ELSE WriteAgentsMd(f, "empty")

(* convert_agents_md: config/AGENTS.md is written from the one of the      *)
(* adapter; where there is none an empty one is made unless the file is    *)
(* there.  config/SKILL.md is made if it is missing.                       *)
ConvertAgentsMd ==
    LET there == File("AGENTS.md") \in At(fs, "adapter")
        new == IF there THEN WriteAgentsMd(fs, "rules") ELSE EmptyAgentsMd(fs)
    IN  Convert("agents_md", "core_toml", Add(new, run.install, {File("SKILL.md")}),
                {fs, WriteAgentsMd(fs, "torn"), new})

(* convert_agents_md cannot read the file: it is skipped as if there were  *)
(* none, and the run goes on.                                              *)
SkipAgentsMd ==
    /\ run.pc = "agents_md" /\ File("AGENTS.md") \in At(fs, "adapter")
    /\ Fault
    /\ fs' = Add(EmptyAgentsMd(fs), run.install, {File("SKILL.md")})
    /\ run' = [run EXCEPT !.pc = "core_toml", !.unread = TRUE]
    /\ Fixed /\ UNCHANGED <<backups, result, runs>>

(* generate_core_toml writes the file anew with every kit of the slug map. *)
WithoutCoreToml(f) ==
    Put(f, run.install,
        At(f, run.install) \ ({File("core.toml")} \cup {RegTok(k) : k \in Kits}))
GenerateCoreToml ==
    Convert("core_toml", "kits",
            Add(WithoutCoreToml(fs), run.install,
                {File("core.toml")} \cup {RegTok(k) : k \in SlugMap}),
            {fs, WithoutCoreToml(fs)})

(* migrate_kits copies each kit that has a directory in the adapter.       *)
MigrateKits ==
    LET copied == {KitTok(k) : k \in {j \in SlugMap : KitTok(j) \in At(fs, "adapter")}}
    IN  Convert("kits", "default_kit", Add(fs, run.install, copied),
                {Add(fs, run.install, c) : c \in SUBSET copied})

(* _install_default_kit_from_cache, only when config/kits/ is empty; it    *)
(* copies the kit and registers it.                                        *)
InstallDefaultKit ==
    LET wanted == /\ \A k \in Kits : KitTok(k) \notin At(fs, run.install)
                  /\ CacheHasKit
        new == {KitTok(DefaultKit), RegTok(DefaultKit)}
    IN  Convert("default_kit", "json",
                IF wanted THEN Add(fs, run.install, new) ELSE fs,
                IF wanted THEN {fs, Add(fs, run.install, {KitTok(DefaultKit)})}
                ELSE {fs})

(* _migrate_adapter_json_configs: a file that cannot be converted is       *)
(* reported, not raised; an I/O error on the way counts as one, too.       *)
ConvertJson ==
    LET present == File("pr-review.json") \in At(fs, "adapter")
        fresh == File("pr-review.toml") \notin At(fs, run.install)
    IN  /\ run.pc = "json"
        /\ \/ /\ run' = [run EXCEPT !.pc = "remove_adapter",
                            !.jsonFailed = present /\ fresh /\ ~text.convertible]
              /\ fs' = IF present /\ fresh /\ text.convertible
                       THEN Add(fs, run.install, {File("pr-review.toml")}) ELSE fs
              /\ UNCHANGED <<result, faults>>
           \/ /\ Fault /\ UNCHANGED fs
              /\ \/ /\ present /\ fresh
                    /\ run' = [run EXCEPT !.pc = "remove_adapter",
                                          !.jsonFailed = TRUE]
                    /\ UNCHANGED result
                 \/ Died
        /\ Fixed /\ UNCHANGED <<backups, runs>>

(* Step 8b: the adapter directory goes unless a JSON file was not          *)
(* converted; the two v2 files of the project root go in any case.         *)
RemoveAdapter ==
    Convert("remove_adapter", "remove_configs",
            IF run.jsonFailed THEN fs ELSE Remove(fs, "adapter"),
            IF run.jsonFailed THEN {fs} ELSE HalfRemoved(fs, "adapter"))

RemoveConfigs ==
    Convert("remove_configs", "agent_files",
            Remove(Remove(fs, "config_json"), "agents_json"),
            {fs, Remove(fs, "config_json")})

(* _cleanup_old_adapter_agent_files: proxies to the old adapter go; errors *)
(* are swallowed file by file.                                             *)
Stale == Tok("proxy", "adapter")
WithoutStale(f, dirs) == [p \in DOMAIN f |-> IF p \in dirs THEN f[p] \ {Stale} ELSE f[p]]
CleanAgentFiles ==
    \E dirs \in SUBSET AgentDirs :
        Convert("agent_files", "gen_agents", WithoutStale(fs, dirs), {fs})

(* _regenerate_gen_from_config only looks; _write_gen_agents.              *)
WriteGenAgents ==
    Convert("gen_agents", "inject", Add(fs, run.install, {File(".gen/AGENTS.md")}), {fs})

(* _inject_root_agents creates the file or puts the block into it.         *)
Block == Tok("block", "root-agents")
InjectRootAgents ==
    Convert("inject", "generate", Add(fs, "root_agents", {Block}), {fs})

(* cmd_generate_agents writes the proxies of every agent; what it raises   *)
(* is caught, and some of the directories may then be missing.             *)
Proxy == Tok("proxy", "v3")
Generated(f, dirs) == [p \in DOMAIN f \cup dirs |->
                          At(f, p) \cup (IF p \in dirs THEN {Proxy} ELSE {})]
GenerateAgents ==
    /\ run.pc = "generate"
    /\ \/ /\ fs' = Generated(fs, AgentDirs)
          /\ Goto("validate") /\ UNCHANGED <<result, faults>>
       \/ /\ Fault
          /\ \E dirs \in SUBSET AgentDirs : fs' = Generated(fs, dirs)
          /\ \/ Goto("validate") /\ UNCHANGED result
             \/ Died
    /\ Fixed /\ UNCHANGED <<backups, runs>>

(***************************************************************************)
(* validate_migration: any issue, of whatever severity, fails it.          *)
(***************************************************************************)
Valid ==
    LET v3 == At(fs, run.install)
    IN  /\ {File("core.toml"), File("artifacts.toml"), File(".core"),
            File(".gen")} \subseteq v3
        /\ Block \in At(fs, "root_agents")
        /\ run.v2.agents_md => HasAgentsMd(fs)
        /\ ValidatedDirs \subseteq DOMAIN fs

Validate ==
    /\ run.pc = "validate"
    /\ IF Valid THEN Finish("PASS")
       ELSE run' = Rollback /\ UNCHANGED result
    /\ Fixed /\ UNCHANGED <<fs, backups, runs, faults>>

(***************************************************************************)
(* _rollback: every item of the manifest is removed and copied back from   *)
(* the backup.  An error is noted and the loop goes on with the next item. *)
(***************************************************************************)
(* Mutant: the items are moved back instead of copied.                     *)
RollbackByMove ==
    LET p == ItemOrder[run.at]
        there == p \in backups[run.ts].manifest
    IN  /\ run.pc = "rollback" /\ run.at <= Len(ItemOrder)
        /\ fs' = IF there THEN Put(fs, p, backups[run.ts].files[p]) ELSE fs
        /\ backups' = IF there
                      THEN [backups EXCEPT ![run.ts].files = Remove(@, p)] ELSE backups
        /\ run' = [run EXCEPT !.at = @ + 1]
        /\ Fixed /\ UNCHANGED <<result, runs, faults>>
RollbackItem ==
    LET b == backups[run.ts]
        p == ItemOrder[run.at]
        copy == b.files[p]
    IN  /\ run.pc = "rollback" /\ run.at <= Len(ItemOrder)
        /\ \/ /\ p \notin b.manifest
              /\ run' = [run EXCEPT !.at = @ + 1]
              /\ UNCHANGED <<fs, result, faults>>
           \/ /\ p \in b.manifest
              /\ \/ /\ fs' = Put(fs, p, copy)
                    /\ run' = [run EXCEPT !.at = @ + 1]
                    /\ UNCHANGED <<result, faults>>
                 \/ /\ Fault
                    /\ fs' \in HalfRemoved(fs, p) \cup HalfCopied(fs, p, copy)
                    /\ \/ run' = [run EXCEPT !.at = @ + 1, !.errors = TRUE]
                          /\ UNCHANGED result
                       \/ Died
        /\ Fixed /\ UNCHANGED <<backups, runs>>

(* The manifest cannot be read (or is gone): nothing is restored.          *)
RollbackUnread ==
    /\ run.pc = "rollback" /\ run.at = 1
    /\ Fault
    /\ Finish("FAILED")
    /\ Fixed /\ UNCHANGED <<fs, backups, runs>>

RollbackEnd ==
    /\ run.pc = "rollback" /\ run.at > Len(ItemOrder)
    /\ Finish(IF run.errors THEN "FAILED" ELSE "ROLLED_BACK")
    /\ Fixed /\ UNCHANGED <<fs, backups, runs, faults>>

Step ==
    \/ BackupItem \/ WriteManifest
    \/ CleanupCore \/ InitLayout \/ ConvertRegistry \/ ConvertAgentsMd
    \/ SkipAgentsMd \/ GenerateCoreToml \/ MigrateKits \/ InstallDefaultKit \/ ConvertJson
    \/ RemoveAdapter \/ RemoveConfigs \/ CleanAgentFiles \/ WriteGenAgents
    \/ InjectRootAgents \/ GenerateAgents \/ Validate
    \/ RollbackItem \/ RollbackUnread \/ RollbackEnd

Next ==
    \/ \E install \in InstallDirs, dry_run \in BOOLEAN : Start(install, dry_run)
    \/ \E yes \in BOOLEAN, ts \in 1..MaxRuns : Confirm(yes, ts)
    \/ Step

Spec == Init /\ [][Next]_vars

-----------------------------------------------------------------------------
PCs == {"idle", "confirm", "backup", "manifest", "cleanup", "layout",
        "registry", "agents_md", "core_toml", "kits", "default_kit", "json",
        "remove_adapter", "remove_configs", "agent_files", "gen_agents",
        "inject", "generate", "validate", "rollback"}

(* The types of the variables; the backups are numbered by the second they *)
(* were begun in.                                                          *)
TypeOK ==
    /\ IsProject(fs) /\ IsProject(origin) /\ IsProject(atStart)
    /\ run.pc \in PCs /\ run.install \in InstallDirs
    /\ run.at \in 1..(Len(ItemOrder) + 1)
    /\ run.backed \subseteq Items
    /\ run.pc \notin {"idle", "confirm"} => run.ts \in DOMAIN backups
    /\ \A i \in DOMAIN backups : /\ IsProject(backups[i].files)
                                 /\ backups[i].manifest \subseteq DOMAIN backups[i].files
    /\ runs \in 0..MaxRuns /\ faults \in 0..MaxFaults

(* Nothing a backup covers is ever lost: each thing of the project before  *)
(* the first run (adapter, configuration, core, .gitmodules, root          *)
(* AGENTS.md, agent directories) is still at its place or in a completed   *)
(* backup, whatever steps fail, wherever the process dies, and however     *)
(* often the command is run again on what is left (migrate.py:1360-1623).  *)
NothingLost ==
    \A p \in DOMAIN origin \cap Items : \A t \in origin[p] :
        \/ t \in At(fs, p)
        \/ \E i \in DOMAIN backups : backups[i].done /\ t \in At(backups[i].files, p)

(* "Rolled back successfully" is true of every item that was there: it has *)
(* the content it had when the run began (_rollback, migrate.py:372).      *)
RolledBackItemsRestored ==
    result = "ROLLED_BACK" =>
        \A p \in DOMAIN atStart \cap Items :
            p \in DOMAIN fs /\ fs[p] = atStart[p]

(* A run that failed to roll back still names a backup that holds every    *)
(* item as it was when the run began (migrate.py:1612, :1666).             *)
FailedIsRecoverable ==
    result = "FAILED" =>
        \E i \in DOMAIN backups :
            /\ backups[i].done
            /\ \A p \in backups[i].manifest : backups[i].files[p] = atStart[p]
            /\ \A p \in DOMAIN atStart \cap Items :
                  p \in backups[i].manifest \/ (p \in DOMAIN fs /\ fs[p] = atStart[p])

(* So a run that does not succeed can be undone: by what the rollback did, *)
(* or, when that failed as well, by hand from the backup it names.         *)
RollbackKeepsItsWord == RolledBackItemsRestored /\ FailedIsRecoverable

(* A run that reports PASS carried the project over: the v3 tree has every *)
(* kit directory the adapter had, each kit is registered, and the command  *)
(* finds a v2 project again only where a JSON file that could not be       *)
(* converted kept the adapter.  Its rules are there, too, except when its  *)
(* AGENTS.md could not be read and was passed over (migrate.py:742): then  *)
(* a completed backup still has them (migrate.py:1434-1551).               *)
RulesBackedUp == \E i \in DOMAIN backups :
                    backups[i].done /\ File("AGENTS.md") \in At(backups[i].files, "adapter")
PassIsComplete ==
    result = "PASS" =>
        LET v3 == At(fs, run.install)
        IN  /\ {k \in Kits : KitTok(k) \in At(atStart, "adapter")}
                 \subseteq {k \in Kits : KitTok(k) \in v3 /\ RegTok(k) \in v3}
            /\ File("AGENTS.md") \in At(atStart, "adapter")
                 => \/ AgentsMd("rules") \in v3
                    \/ run.unread /\ RulesBackedUp
            /\ Detected(fs) => /\ File("pr-review.json") \in fs["adapter"]
                               /\ File("pr-review.toml") \notin v3

(* A completed backup is never touched again, not even by a run that is    *)
(* started within the same second and so uses the same directory           *)
(* (backup_v2_state, migrate.py:301-310).                                  *)
BackupsAreFrozen ==
    [][\A i \in DOMAIN backups : backups[i].done => backups'[i] = backups[i]]_vars

(* The documents promise more: that a rollback restores the state the      *)
(* project was in (architecture/features/v2-v3-migration.md:70).           *)
RollbackRestoresState == result = "ROLLED_BACK" => fs = atStart

(* They also let a run end in PASS only with the rules of the adapter's    *)
(* AGENTS.md converted (architecture/features/v2-v3-migration.md:725).     *)
PassMeansRulesMigrated ==
    result = "PASS" /\ File("AGENTS.md") \in At(atStart, "adapter")
        => AgentsMd("rules") \in At(fs, run.install)
-----------------------------------------------------------------------------
(* The inductive invariant behind the theorems of CypilotMigrationProofs.  *)

(* The steps a run still has before it once a conversion is done.          *)
AfterAdapter == {"remove_configs", "agent_files", "gen_agents", "inject", "generate",
                 "validate"}
AfterJson == AfterAdapter \cup {"remove_adapter"}
AfterKits == AfterJson \cup {"default_kit", "json"}
AfterCoreToml == AfterKits \cup {"kits"}
AfterAgentsMd == AfterCoreToml \cup {"core_toml"}
Converting == AfterAgentsMd \cup {"cleanup", "layout", "registry", "agents_md"}

(* Until the first conversion the project is as it was found, and what the *)
(* run saw of it is what it was when the run began.                        *)
FoundAsIs ==
    /\ run.pc \in {"confirm", "backup", "manifest"} => fs = atStart /\ "adapter" \in DOMAIN fs
    /\ run.pc = "confirm" => run.at = 1 /\ run.backed = {}
    /\ run.pc # "idle" => run.v2 = detect_v2(atStart) /\ result = "none"

(* How far the backup has come.  A run that shares its directory with a    *)
(* completed backup never gets past the first item: the adapter is in it.  *)
BackupPhase ==
    run.pc \in {"backup", "manifest"} =>
        LET b == backups[run.ts]
        IN  /\ \A p \in run.backed : p \in DOMAIN fs \cap DOMAIN b.files /\ b.files[p] = fs[p]
            /\ \A k \in 1..Len(ItemOrder) :
                  k < run.at /\ InBackup(ItemOrder[k]) => ItemOrder[k] \in run.backed
            /\ run.at > 1 => b.done = FALSE
            /\ run.pc = "backup" => run.at <= Len(ItemOrder)
            /\ run.pc = "manifest" => run.at > Len(ItemOrder)

(* A manifest names copies the backup has, and is the last thing written.  *)
ManifestLast ==
    \A i \in DOMAIN backups :
        /\ backups[i].manifest \subseteq DOMAIN backups[i].files
        /\ backups[i].done => "adapter" \in DOMAIN backups[i].files
        /\ ~backups[i].done => backups[i].manifest = {}

(* Once the manifest is written, the backup holds every item as it was     *)
(* when the run began, but for a .gitmodules no step will touch.           *)
BackupCovers ==
    run.pc \in Converting \cup {"rollback"} =>
        LET b == backups[run.ts]
        IN  /\ b.done
            /\ \A p \in b.manifest : p \in DOMAIN atStart /\ b.files[p] = atStart[p]
            /\ \A p \in DOMAIN atStart \cap Items : p \notin b.manifest =>
                  /\ p = "gitmodules" /\ run.v2.core_type # "SUBMODULE"
                  /\ p \in DOMAIN fs /\ fs[p] = atStart[p]

(* The project a run started from had lost nothing.                        *)
StartedWhole ==
    \A p \in DOMAIN origin \cap Items : \A t \in origin[p] :
        \/ t \in At(atStart, p)
        \/ \E i \in DOMAIN backups : backups[i].done /\ t \in At(backups[i].files, p)

(* The items the rollback has put back.                                    *)
RollbackPhase ==
    run.pc = "rollback" /\ ~run.errors =>
        \A k \in 1..Len(ItemOrder) :
            k < run.at /\ ItemOrder[k] \in backups[run.ts].manifest =>
                ItemOrder[k] \in DOMAIN fs /\ fs[ItemOrder[k]] = atStart[ItemOrder[k]]

(* What each conversion leaves for the next: the adapter until it is       *)
(* removed, then what was made of it in the v3 tree.                       *)
ConversionPhase ==
    LET v3 == At(fs, run.install)
        kept == At(atStart, "adapter")
    IN  /\ run.pc \in Converting \ AfterAdapter => At(fs, "adapter") = kept
        /\ run.pc \in AfterAgentsMd /\ File("AGENTS.md") \in kept /\ ~run.unread
             => AgentsMd("rules") \in v3
        /\ run.pc \in AfterCoreToml => \A k \in Kits : KitTok(k) \in kept => RegTok(k) \in v3
        /\ run.pc \in AfterKits => \A k \in Kits : KitTok(k) \in kept => KitTok(k) \in v3
        /\ run.pc \in AfterJson /\ run.jsonFailed =>
              File("pr-review.json") \in At(fs, "adapter") /\ File("pr-review.toml") \notin v3
        /\ run.pc \in AfterAdapter /\ ~run.jsonFailed => "adapter" \notin DOMAIN fs

SafetyInv ==
    /\ FoundAsIs /\ BackupPhase /\ ManifestLast /\ BackupCovers /\ StartedWhole
    /\ RollbackPhase /\ ConversionPhase
    /\ NothingLost /\ RollbackKeepsItsWord /\ PassIsComplete
=============================================================================
