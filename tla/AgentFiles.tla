----------------------------- MODULE AgentFiles -----------------------------
(***************************************************************************)
(* `cpt generate-agents` and `cpt agents` for one agent (commands/         *)
(* agents.py): the proxy files of an agent's workflow directory and its    *)
(* skill output, kept in line with the workflows of .core/ and of a kit in *)
(* config/kits/.  The command previews, asks, and then renames, writes and *)
(* deletes file by file, while the user may edit the same directory.       *)
(*                                                                         *)
(* A file of the directory is named by its prefix and stem; its content is *)
(* whether it opens with "# /", the workflow its first "ALWAYS open and    *)
(* follow" link leads to (links are compared after normalisation to        *)
(* {cypilot_path}/...), and the version of the source it was rendered from *)
(* (what the user writes, and a skill output without a source, has none).  *)
(***************************************************************************)
EXTENDS Integers, Sequences, FiniteSets

CONSTANTS
    CoreNames, KitNames,    \* workflows .core/ and the kit may have
    OwnFiles,               \* names of files the user may write
    MaxVersion,             \* bound: versions of a workflow
    MaxRuns, MaxEdits, MaxFaults    \* bounds: commands, edits, faults

Prefix == "cypilot-"
Names == CoreNames \cup KitNames
Targets == ({"core"} \X CoreNames) \cup ({"kit"} \X KitNames)
NoTarget == <<"", "">>
SkillTarget == <<"skills", "cypilot">>
SkillFile == <<"", "cypilot">>
FileName(w) == IF w = "cypilot" THEN <<"", w>> ELSE <<Prefix, w>>
FileNames == {FileName(w) : w \in Names} \cup OwnFiles \cup {SkillFile}
Contents == [slash : BOOLEAN, target : Targets \cup {NoTarget, SkillTarget},
             body : -1..MaxVersion]
NoVersion == 0
Torn == [slash |-> FALSE, target |-> NoTarget, body |-> -1]
(* What core.toml names: no kit (or it cannot be read), the kit, or only   *)
(* another one, which has no workflows.                                    *)
Registrations == {{}, {"kit"}, {"other"}}

ASSUME AgentAssumption ==
    /\ "cypilot" \in Names
    /\ OwnFiles \subseteq {Prefix, ""} \X STRING
    /\ MaxVersion \in Nat \ {0} /\ MaxRuns \in Nat /\ MaxEdits \in Nat
    /\ MaxFaults \in Nat

VARIABLES
    dir,        \* the agent's workflow directory, with the skill output
    src,        \* workflows that exist: core and kit, name -> version
    skill,      \* version of .core/skills/cypilot/SKILL.md
    registered, \* the kits core.toml names
    external,   \* the tool runs from outside the project
    copied,     \* directories of it copied into the project so far
    run,        \* local state of the running command
    result,     \* what the last command reported; "none" once things changed
    settled,    \* history: nothing changed since a run that completed
    runs, edits, faults

vars == <<dir, src, skill, registered, external, copied, run, result, settled,
          runs, edits, faults>>
sources == <<src, skill, registered, external>>
counters == <<runs, edits, faults>>

Put(f, k, v) == [q \in DOMAIN f \cup {k} |-> IF q = k THEN v ELSE f[q]]
Drop(f, S) == [q \in DOMAIN f \ S |-> f[q]]

NoRun == [pc |-> "idle", kind |-> "none", dry |-> FALSE, todo |-> {}, quiet |-> FALSE]

Init ==
    /\ dir = <<>>
    /\ src = [core |-> [w \in CoreNames |-> 1], kit |-> [w \in KitNames |-> 1]]
    /\ skill = 1 /\ registered \in Registrations /\ external \in BOOLEAN
    /\ copied = 0
    /\ run = NoRun /\ result = "none" /\ settled = FALSE
    /\ runs = 0 /\ edits = 0 /\ faults = <<>>

Fault(kind) == /\ Len(faults) < MaxFaults /\ faults' = Append(faults, kind)
               /\ UNCHANGED <<runs, edits>>
Goto(pc, todo) == run' = [run EXCEPT !.pc = pc, !.todo = todo]
Finish(status) == run' = NoRun /\ result' = status
Died == Finish("died") /\ settled' = FALSE

(***************************************************************************)
(* The user writes a file, also while the command waits for an answer; or  *)
(* an update changes the workflows of the installation.                    *)
(***************************************************************************)
Edit == /\ run.pc \in {"idle", "confirm"} /\ edits < MaxEdits /\ edits' = edits + 1
        /\ result' = "none" /\ settled' = FALSE
        /\ UNCHANGED <<external, copied, run, runs, faults>>

UserWrites(f, slash, target) ==
    /\ Edit
    /\ dir' = Put(dir, f, [slash |-> slash, target |-> target, body |-> NoVersion])
    /\ UNCHANGED <<src, skill, registered>>

SourceChanges ==
    /\ Edit /\ ~external /\ UNCHANGED dir
    /\ \/ \E w \in DOMAIN src.core : /\ src.core[w] < MaxVersion
                                     /\ src' = [src EXCEPT !.core[w] = @ + 1]
                                     /\ UNCHANGED <<skill, registered>>
       \/ \E w \in DOMAIN src.core : /\ src' = [src EXCEPT !.core = Drop(@, {w})]
                                     /\ UNCHANGED <<skill, registered>>
       \/ \E w \in DOMAIN src.kit : /\ src' = [src EXCEPT !.kit = Drop(@, {w})]
                                    /\ UNCHANGED <<skill, registered>>
       \/ registered' \in Registrations \ {registered} /\ UNCHANGED <<src, skill>>
       \/ skill < MaxVersion /\ skill' = skill + 1 /\ UNCHANGED <<src, registered>>

(***************************************************************************)
(* What the directory should hold.                                         *)
(***************************************************************************)
(* Mutant: workflows of kits that are not registered are listed too.       *)
ListsEveryKit ==
    [w \in DOMAIN src.core \cup DOMAIN src.kit |->
        IF w \in DOMAIN src.core THEN <<"core", w>> ELSE <<"kit", w>>]
(* Without a kit in core.toml no kit is left out.                          *)
_registered_kit_dirs == IF registered = {} THEN {"kit", "other"} ELSE registered
(* Core workflows first, then those of kits; a name counts once.           *)
_list_workflow_files ==
    [w \in DOMAIN src.core \cup (IF "kit" \in _registered_kit_dirs THEN DOMAIN src.kit ELSE {}) |->
        IF w \in DOMAIN src.core THEN <<"core", w>> ELSE <<"kit", w>>]

Version(t) == IF t[1] = "core" THEN src.core[t[2]] ELSE src.kit[t[2]]
Rendered(t) == [slash |-> TRUE, target |-> t, body |-> Version(t)]
(* Mutant: a workflow whose proxy has the skill output's name is not       *)
(* skipped.                                                                *)
DesiredWithSkillFile ==
    [f \in {FileName(w) : w \in DOMAIN _list_workflow_files} |->
        Rendered(_list_workflow_files[f[2]])]
Desired ==
    LET listed == _list_workflow_files
        wanted == {w \in DOMAIN listed : FileName(w) # SkillFile}
    IN  [f \in {FileName(w) : w \in wanted} |-> Rendered(listed[f[2]])]
Exists(t) == \/ t[1] = "core" /\ t[2] \in DOMAIN src.core
             \/ t[1] = "kit" /\ t[2] \in DOMAIN src.kit

(* A file that may be a proxy under an old name.                           *)
LooksGenerated(f) == /\ f[1] = Prefix \/ dir[f].slash
                     /\ dir[f].target # NoTarget
RenameTo(f) == {g \in DOMAIN Desired : Desired[g].target = dir[f].target}
(* Mutant: any file with the prefix that is not wanted is stale.           *)
StaleByName(f) == f \notin DOMAIN Desired /\ f[1] = Prefix
Stale(f) == /\ f \notin DOMAIN Desired /\ f[1] = Prefix
            /\ dir[f].target[1] \in {"core", "kit"}
            /\ ~Exists(dir[f].target)

(***************************************************************************)
(* _resolve_agents_context and _ensure_cypilot_local: a tool outside the   *)
(* project copies workflows, requirements and skills, in this order; with  *)
(* the first two in place the copy counts as an installation.              *)
(***************************************************************************)
CopyDirs == 3
_is_cypilot_root == copied >= 2
SkillFound == ~external \/ copied \in {0, 1, CopyDirs}
(* Without SKILL.md a name and a description of the code's own are used.   *)
DesiredSkill == [slash |-> TRUE, target |-> SkillTarget,
                 body |-> IF SkillFound THEN skill ELSE NoVersion]

Start(kind, dry) ==
    /\ run.pc = "idle" /\ runs < MaxRuns /\ runs' = runs + 1
    /\ run' = [NoRun EXCEPT !.kind = kind, !.dry = dry,
                 !.pc = IF external /\ ~_is_cypilot_root /\ ~dry THEN "copy" ELSE "preview"]
    /\ result' = "none"
    /\ UNCHANGED <<dir, sources, copied, settled, edits, faults>>

_ensure_cypilot_local ==
    /\ run.pc = "copy" /\ UNCHANGED <<dir, sources, settled>>
    /\ \/ /\ copied' = copied + 1 /\ UNCHANGED <<result, counters>>
          /\ run' = [run EXCEPT !.pc = IF copied' = CopyDirs THEN "preview" ELSE "copy"]
       \/ Fault("copy") /\ Finish("COPY_ERROR") /\ UNCHANGED copied

(***************************************************************************)
(* cmd_agents and cmd_generate_agents: preview and confirmation.           *)
(***************************************************************************)
Created == {f \in DOMAIN Desired \cup {SkillFile} : f \notin DOMAIN dir}
Updated == {f \in DOMAIN Desired : f \in DOMAIN dir /\ dir[f] # Desired[f]}
           \cup {f \in {SkillFile} : f \in DOMAIN dir /\ dir[f] # DesiredSkill}
(* Mutant: every name is examined, not the files that exist.               *)
AnyName == FileNames
Existing == DOMAIN dir

Preview ==
    /\ run.pc = "preview" /\ UNCHANGED <<dir, sources, copied, settled, counters>>
    /\ IF run.kind = "agents" THEN Finish("OK")
       ELSE IF run.dry THEN Finish("DRY_RUN")
       ELSE /\ IF Created \cup Updated = {}
               THEN run' = [run EXCEPT !.pc = "rename", !.todo = Existing \ DOMAIN Desired,
                                       !.quiet = TRUE]
               ELSE Goto("confirm", {})
            /\ UNCHANGED result

Confirm ==
    /\ run.pc = "confirm" /\ UNCHANGED <<dir, sources, copied, settled, counters>>
    /\ \/ Goto("rename", Existing \ DOMAIN Desired) /\ UNCHANGED result
       \/ Finish("ABORTED")

(***************************************************************************)
(* _process_single_agent: rename, write, delete, skill output.             *)
(***************************************************************************)
Step(pc) == /\ run.pc = pc
            /\ UNCHANGED <<sources, copied, result, settled, counters>>

Rename(f) ==
    /\ Step("rename") /\ f \in run.todo
    /\ run' = [run EXCEPT !.todo = @ \ {f}]
    /\ IF ~LooksGenerated(f) \/ RenameTo(f) \subseteq DOMAIN dir THEN UNCHANGED dir
       ELSE \E g \in RenameTo(f) : dir' = Put(Drop(dir, {f}), g, dir[f])

RenameDone ==
    /\ Step("rename") /\ run.todo = {}
    /\ Goto("write", DOMAIN Desired) /\ UNCHANGED dir

(* Mutant: a file that exists is left as it is.                            *)
WritesMissing(f, content) == IF f \in DOMAIN dir THEN dir ELSE Put(dir, f, content)
WritesFile(f, content) == Put(dir, f, content)

Write(f) ==
    /\ Step("write") /\ f \in run.todo
    /\ run' = [run EXCEPT !.todo = @ \ {f}]
    /\ dir' = WritesFile(f, Desired[f])

WriteDone ==
    /\ Step("write") /\ run.todo = {}
    /\ Goto("delete", DOMAIN dir \ DOMAIN Desired) /\ UNCHANGED dir

Delete(f) ==
    /\ run.pc = "delete" /\ f \in run.todo
    /\ run' = [run EXCEPT !.todo = @ \ {f}]
    /\ UNCHANGED <<sources, copied, result, settled>>
    /\ \/ dir' = (IF Stale(f) THEN Drop(dir, {f}) ELSE dir) /\ UNCHANGED counters
       \/ Stale(f) /\ Fault("unlink") /\ UNCHANGED dir     \* ignored

(* A missing skill source is reported, and the output still rendered.      *)
Skill ==
    /\ run.pc = "delete" /\ run.todo = {}
    /\ dir' = WritesFile(SkillFile, DesiredSkill)
    /\ Finish(IF SkillFound THEN "PASS" ELSE "PARTIAL")
    /\ settled' = (\A k \in DOMAIN faults : faults[k] # "unlink")
    /\ UNCHANGED <<sources, copied, counters>>

(* The process dies between two steps or while it writes a file.           *)
Dies ==
    /\ run.pc \notin {"idle", "confirm"} /\ Fault("kill") /\ Died
    /\ UNCHANGED <<sources, copied>>
    /\ \/ UNCHANGED dir
       \/ run.pc = "write" /\ \E f \in run.todo : dir' = Put(dir, f, Torn)
       \/ run.pc = "delete" /\ run.todo = {} /\ dir' = Put(dir, SkillFile, Torn)

Next ==
    \/ \E f \in OwnFiles, slash \in BOOLEAN, t \in Targets \cup {NoTarget} :
          UserWrites(f, slash, t)
    \/ SourceChanges
    \/ \E kind \in {"agents", "generate"}, dry \in BOOLEAN : Start(kind, dry)
    \/ _ensure_cypilot_local \/ Preview \/ Confirm
    \/ \E f \in FileNames : Rename(f) \/ Write(f) \/ Delete(f)
    \/ RenameDone \/ WriteDone \/ Skill \/ Dies

Spec == Init /\ [][Next]_vars

(***************************************************************************)
(* Properties.                                                             *)
(***************************************************************************)

(* Files have the names and contents the generator and the user give them, *)
(* and a run only has work left for files that are there or wanted.        *)
TypeOK ==
    /\ DOMAIN dir \subseteq FileNames /\ dir \in [DOMAIN dir -> Contents]
    /\ DOMAIN src.core \subseteq CoreNames /\ DOMAIN src.kit \subseteq KitNames
    /\ src \in [core : [DOMAIN src.core -> 1..MaxVersion], kit : [DOMAIN src.kit -> 1..MaxVersion]]
    /\ skill \in 1..MaxVersion /\ registered \in Registrations /\ external \in BOOLEAN
    /\ copied \in 0..CopyDirs /\ (run.pc = "copy" => copied < CopyDirs)
    /\ run \in [pc : {"idle", "copy", "preview", "confirm", "rename", "write", "delete"},
                kind : {"none", "agents", "generate"}, dry : BOOLEAN,
                todo : SUBSET FileNames, quiet : BOOLEAN]
    /\ run.pc \in {"rename", "delete"} => run.todo \subseteq DOMAIN dir \ DOMAIN Desired
    /\ run.pc = "write" => run.todo \subseteq DOMAIN Desired
    /\ settled \in BOOLEAN /\ faults \in Seq({"copy", "unlink", "kill"})

(* The invariant of the proofs.  A run has brought the files behind it in  *)
(* line, and nobody undoes that before it ends: what is still to be        *)
(* deleted is never wanted, and a file that could not be deleted is on     *)
(* record.                                                                 *)
InLine(f) == f \in DOMAIN dir /\ dir[f] = Desired[f]
NoUnlinkFailed == \A k \in DOMAIN faults : faults[k] # "unlink"
RunPhase ==
    /\ result \in {"PASS", "PARTIAL"} => run.pc = "idle"
    /\ run.pc = "write" => \A f \in DOMAIN Desired \ run.todo : InLine(f)
    /\ run.pc = "delete" =>
          /\ \A f \in DOMAIN Desired : InLine(f)
          /\ NoUnlinkFailed => \A f \in DOMAIN dir \ run.todo : ~Stale(f)
(* It works with an installation in the project, and the next run need not *)
(* copy another ...                                                        *)
WorkPCs == {"confirm", "rename", "write", "delete"}
Local(pc) == pc \in WorkPCs \/ (pc = "preview" /\ ~run.dry)
RootPhase == /\ settled => run.pc # "copy"
             /\ external /\ (settled \/ Local(run.pc)) => _is_cypilot_root
(* ... and as long as nothing changes, it finds all of it so.              *)
SettledPhase ==
    RootPhase /\
    (settled => /\ \A f \in DOMAIN Desired : InLine(f)
                /\ SkillFile \in DOMAIN dir /\ dir[SkillFile] = DesiredSkill
                /\ \A f \in DOMAIN dir : ~Stale(f))
AgentInv == TypeOK /\ RunPhase /\ SettledPhase

(* A run that completes has brought the directory in line, whatever dead   *)
(* runs and user edits left: every listed workflow has the proxy rendered  *)
(* from its current source, the skill output is rendered from the current  *)
(* SKILL.md (or, when the run says PARTIAL because there is none, from the *)
(* fallback), and no prefixed proxy leads to a workflow that is gone.      *)
GenerateConverges ==
    result \in {"PASS", "PARTIAL"} =>
        /\ \A w \in DOMAIN _list_workflow_files :
              FileName(w) # SkillFile =>
                 /\ FileName(w) \in DOMAIN dir
                 /\ dir[FileName(w)] = Rendered(_list_workflow_files[w])
        /\ dir[SkillFile] = [slash |-> TRUE, target |-> SkillTarget,
                             body |-> IF result = "PASS" THEN skill ELSE NoVersion]
        /\ NoUnlinkFailed =>
              \A f \in DOMAIN dir : f[1] = Prefix /\ dir[f].target \in Targets
                                    => Exists(dir[f].target)

(* While core.toml names kits, no command renders a proxy for a workflow   *)
(* of one that it does not name; what is there may only be renamed.  (When *)
(* it names none, or cannot be read, every kit counts: agents.py:510, 554.)*)
NoProxyForForeignKit ==
    [][registered # {} /\ "kit" \notin registered =>
        \A f \in DOMAIN dir' :
            dir'[f].target[1] = "kit" => \/ dir'[f].body = NoVersion
                                         \/ \E g \in DOMAIN dir : dir[g] = dir'[f]]_vars

(* A file of the user without a link to a workflow, under a name that no   *)
(* workflow has, is never renamed, written or deleted by a command.        *)
BystandersKept ==
    [][run.pc # "idle" /\ dir' # dir =>
        \A f \in DOMAIN dir :
            dir[f].target = NoTarget /\ dir[f].body = NoVersion /\ f \notin DOMAIN Desired \cup {SkillFile}
            => f \in DOMAIN dir' /\ (dir'[f] = dir[f] \/ run.pc = "confirm")]_vars

(* After a completed run nothing is left to do: the next one changes no    *)
(* file.                                                                   *)
GenerateIsIdempotent == [][settled /\ settled' => dir' = dir]_vars

(* What the documents and messages say and the code does not do.           *)
(* "No changes needed - agent files are up to date."                       *)
QuietMeansNoChange == [][run.quiet => dir' = dir]_vars
(* "Read-only command: list generated agent integration files."            *)
AgentsIsReadOnly == [][run.kind = "agents" => dir' = dir /\ copied' = copied]_vars
(* A copy of the tool inside the project is complete once it is used.      *)
LocalCopyIsWhole == result \in {"PASS", "PARTIAL"} => SkillFound
=============================================================================
