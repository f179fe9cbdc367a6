-------------------------- MODULE AgentFilesProofs --------------------------
(***************************************************************************)
(* What `cpt generate-agents` promises, for every set of workflows and of  *)
(* files of the user, and any number of runs, edits and faults.            *)
(*                                                                         *)
(* A run works on the directory file by file, and its last report is about *)
(* all of them.  The argument: while it runs the workflows do not change,  *)
(* so `Desired` is the same at every step; whatever the run has written    *)
(* stays, because the files it renames or deletes afterwards are never     *)
(* among the wanted ones (AgentInv).                                       *)
(***************************************************************************)
EXTENDS AgentFiles, TLAPS

Listed == DOMAIN src.core \cup (IF "kit" \in _registered_kit_dirs THEN DOMAIN src.kit ELSE {})

-----------------------------------------------------------------------------
(* The operators of the model.                                             *)

LEMMA MaxVersionNat == MaxVersion \in Nat \ {0}
BY AgentAssumption DEF AgentAssumption

LEMMA Versions ==
  \A n \in 1..MaxVersion : n \in -1..MaxVersion /\ -1 \in -1..MaxVersion
BY MaxVersionNat

\* A proxy is named after its workflow; only the workflow `cypilot` has the
\* name of the skill output.
LEMMA FileNameFacts ==
  ASSUME NEW w
  PROVE  /\ FileName(w)[2] = w
         /\ FileName(w) = SkillFile <=> w = "cypilot"
         /\ FileName(w) # SkillFile => FileName(w)[1] = Prefix
BY DEF FileName, SkillFile, Prefix

\* The wanted files, and what each is rendered from.
LEMMA DesiredFacts ==
  /\ DOMAIN Desired = {FileName(w) : w \in {v \in Listed : FileName(v) # SkillFile}}
  /\ \A f \in DOMAIN Desired : Desired[f] = Rendered(_list_workflow_files[f[2]])
  /\ DOMAIN _list_workflow_files = Listed
  /\ SkillFile \notin DOMAIN Desired
BY DEF Desired, _list_workflow_files, Listed

\* core.toml names kits, and not this one.
Foreign == registered # {} /\ "kit" \notin registered

\* A listed workflow exists, and that of a kit core.toml does not name is not
\* listed.
LEMMA ListedFacts ==
  ASSUME TypeOK, NEW w \in Listed
  PROVE  /\ _list_workflow_files[w] \in Targets
         /\ Exists(_list_workflow_files[w])
         /\ _list_workflow_files[w][1] \in {"core", "kit"}
         /\ Foreign => _list_workflow_files[w][1] = "core"
         /\ Version(_list_workflow_files[w]) \in 1..MaxVersion
<1>1. CASE w \in DOMAIN src.core
  <2>1. _list_workflow_files[w] = <<"core", w>>
    BY <1>1 DEF _list_workflow_files, Listed
  <2>2. w \in CoreNames /\ src.core[w] \in 1..MaxVersion
    BY <1>1 DEF TypeOK
  <2> QED BY <1>1, <2>1, <2>2 DEF Targets, Exists, Version
<1>2. CASE w \notin DOMAIN src.core
  <2>1. ~Foreign /\ w \in DOMAIN src.kit
    BY <1>2 DEF Listed, Foreign, _registered_kit_dirs
  <2>2. _list_workflow_files[w] = <<"kit", w>>
    BY <1>2, <2>1 DEF _list_workflow_files, Listed
  <2>3. w \in KitNames /\ src.kit[w] \in 1..MaxVersion
    BY <2>1 DEF TypeOK
  <2> QED BY <2>1, <2>2, <2>3 DEF Targets, Exists, Version
<1> QED BY <1>1, <1>2

\* What a wanted file is: a file of the directory, with a name of its own,
\* that leads to a workflow there is.
LEMMA WantedFacts ==
  ASSUME TypeOK, NEW f \in DOMAIN Desired
  PROVE  /\ f \in FileNames /\ f # SkillFile /\ f[1] = Prefix
         /\ Desired[f] \in Contents
         /\ Desired[f].target \in Targets /\ Exists(Desired[f].target)
         /\ Desired[f].target[1] \in {"core", "kit"}
         /\ Foreign => Desired[f].target[1] = "core"
<1>1. PICK w \in Listed : f = FileName(w) /\ FileName(w) # SkillFile
  BY DesiredFacts
<1>2. w \in Names
  BY DEF Listed, TypeOK, Names
<1>3. Desired[f] = Rendered(_list_workflow_files[w])
  BY <1>1, DesiredFacts, FileNameFacts
<1>4. /\ _list_workflow_files[w] \in Targets
      /\ Exists(_list_workflow_files[w])
      /\ _list_workflow_files[w][1] \in {"core", "kit"}
      /\ Foreign => _list_workflow_files[w][1] = "core"
      /\ Version(_list_workflow_files[w]) \in 1..MaxVersion
  BY ListedFacts
<1>5. Desired[f] = [slash |-> TRUE, target |-> _list_workflow_files[w],
                    body |-> Version(_list_workflow_files[w])]
  BY <1>3 DEF Rendered
<1>6. Version(_list_workflow_files[w]) \in -1..MaxVersion
  BY <1>4, Versions
<1>7. Desired[f] \in Contents
  BY <1>4, <1>5, <1>6 DEF Contents
<1>8. f \in FileNames
  BY <1>1, <1>2 DEF FileNames
<1>9. f[1] = Prefix
  BY <1>1, FileNameFacts
<1> QED BY <1>1, <1>4, <1>5, <1>7, <1>8, <1>9

\* As long as the workflows stay, so does everything derived from them.
LEMMA SameSources ==
  ASSUME UNCHANGED sources
  PROVE  /\ Desired' = Desired
         /\ copied' = copied => DesiredSkill' = DesiredSkill
         /\ \A t : Exists(t)' = Exists(t)
         /\ _list_workflow_files' = _list_workflow_files
         /\ \A t : Rendered(t)' = Rendered(t)
<1>1. _list_workflow_files' = _list_workflow_files
  BY DEF sources, _list_workflow_files, _registered_kit_dirs
<1>2. \A t : Exists(t)' = Exists(t)
  BY DEF sources, Exists
<1>3. \A t : Rendered(t)' = Rendered(t)
  BY DEF sources, Rendered, Version
<1>4. copied' = copied => DesiredSkill' = DesiredSkill
  BY DEF sources, DesiredSkill, SkillFound
<1>5. Desired' = Desired
  BY <1>1, <1>3 DEF Desired
<1> QED BY <1>1, <1>2, <1>3, <1>4, <1>5

\* A file is stale by what it holds.
LEMMA SameStale ==
  ASSUME UNCHANGED sources, NEW f, dir'[f] = dir[f]
  PROVE  Stale(f)' = Stale(f)
BY SameSources DEF Stale

\* Writing what is there already changes nothing.
LEMMA PutSame ==
  ASSUME NEW fn, NEW k \in DOMAIN fn, fn = [q \in DOMAIN fn |-> fn[q]]
  PROVE  Put(fn, k, fn[k]) = fn
BY DEF Put

\* The directory after a write.
LEMMA PutType ==
  ASSUME TypeOK, NEW f \in FileNames, NEW c \in Contents
  PROVE  /\ DOMAIN Put(dir, f, c) \subseteq FileNames
         /\ Put(dir, f, c) \in [DOMAIN Put(dir, f, c) -> Contents]
BY DEF TypeOK, Put

LEMMA SkillContent ==
  ASSUME TypeOK
  PROVE  /\ SkillFile \in FileNames /\ DesiredSkill \in Contents /\ Torn \in Contents
         /\ SkillFile[1] # Prefix /\ DesiredSkill.target[1] = "skills" /\ NoTarget[1] = ""
         /\ Torn.target = NoTarget
<1>1. skill \in -1..MaxVersion /\ -1 \in -1..MaxVersion /\ NoVersion \in -1..MaxVersion
  BY Versions, MaxVersionNat DEF TypeOK, NoVersion
<1>2. DesiredSkill \in Contents /\ Torn \in Contents
  BY <1>1 DEF DesiredSkill, Contents, Torn
<1> QED BY <1>2 DEF SkillFile, FileNames, Prefix, DesiredSkill, SkillTarget, NoTarget, Torn

-----------------------------------------------------------------------------
(* Type correctness, by the groups of actions.                             *)

PCs == {"idle", "copy", "preview", "confirm", "rename", "write", "delete"}
RunType == [pc : PCs, kind : {"none", "agents", "generate"}, dry : BOOLEAN,
            todo : SUBSET FileNames, quiet : BOOLEAN]
SourceType ==
    /\ DOMAIN src.core \subseteq CoreNames /\ DOMAIN src.kit \subseteq KitNames
    /\ src \in [core : [DOMAIN src.core -> 1..MaxVersion], kit : [DOMAIN src.kit -> 1..MaxVersion]]
    /\ skill \in 1..MaxVersion /\ registered \in Registrations /\ external \in BOOLEAN
DirType == DOMAIN dir \subseteq FileNames /\ dir \in [DOMAIN dir -> Contents]
WorkType ==
    /\ run.pc \in {"rename", "delete"} => run.todo \subseteq DOMAIN dir \ DOMAIN Desired
    /\ run.pc = "write" => run.todo \subseteq DOMAIN Desired
CopyType == copied \in 0..CopyDirs /\ (run.pc = "copy" => copied < CopyDirs)
FaultType == faults \in Seq({"copy", "unlink", "kill"})

Parts == /\ DirType /\ SourceType /\ CopyType /\ run \in RunType /\ WorkType
         /\ settled \in BOOLEAN /\ FaultType

LEMMA TypeParts == (TypeOK <=> Parts) /\ (TypeOK' <=> Parts')
BY DEF TypeOK, Parts, DirType, SourceType, CopyType, RunType, PCs, WorkType, FaultType

LEMMA InitType == Init => TypeOK
<1> SUFFICES ASSUME Init PROVE TypeOK
  OBVIOUS
<1>1. 1 \in 1..MaxVersion
  BY MaxVersionNat
<1>2. SourceType
  BY <1>1 DEF Init, SourceType
<1>3. DirType
  BY DEF Init, DirType
<1>4. run \in RunType /\ run.pc = "idle"
  BY DEF Init, NoRun, RunType, PCs
<1>5. CopyType
  BY <1>4 DEF Init, CopyType, CopyDirs
<1>6. WorkType /\ settled \in BOOLEAN
  BY <1>4 DEF Init, WorkType
<1>7. FaultType
  BY DEF Init, FaultType
<1> QED BY <1>2, <1>3, <1>4, <1>5, <1>6, <1>7, TypeParts DEF Parts

LEMMA NoRunType == NoRun \in RunType /\ NoRun.pc = "idle"
BY DEF NoRun, RunType, PCs

\* A fault is put on record; one that was, stays.
LEMMA FaultFacts ==
  ASSUME FaultType, NEW k \in {"copy", "unlink", "kill"}, Fault(k)
  PROVE  /\ FaultType'
         /\ NoUnlinkFailed' => NoUnlinkFailed /\ k # "unlink"
<1>1. faults' = Append(faults, k)
  BY DEF Fault
<1>2. FaultType'
  BY <1>1 DEF FaultType
<1>3. /\ Len(faults) + 1 \in DOMAIN faults' /\ faults'[Len(faults) + 1] = k
      /\ \A j \in DOMAIN faults : j \in DOMAIN faults' /\ faults'[j] = faults[j]
  BY <1>1 DEF FaultType
<1> QED BY <1>2, <1>3 DEF NoUnlinkFailed

\* The user's edits and those of an update.
LEMMA EditType ==
  ASSUME TypeOK, \/ \E f \in OwnFiles, slash \in BOOLEAN, t \in Targets \cup {NoTarget} :
                       UserWrites(f, slash, t)
                 \/ SourceChanges
  PROVE  TypeOK'
<1>1. /\ DirType /\ SourceType /\ CopyType /\ run \in RunType /\ FaultType
      /\ Edit
  BY TypeParts DEF Parts, UserWrites, SourceChanges
<1>2. /\ CopyType' /\ run' \in RunType /\ WorkType' /\ settled' \in BOOLEAN /\ FaultType'
  BY <1>1 DEF Edit, CopyType, WorkType, FaultType
<1>3. DirType'
  <2>1. CASE SourceChanges
    BY <1>1, <2>1 DEF SourceChanges, DirType
  <2>2. ASSUME NEW f \in OwnFiles, NEW slash \in BOOLEAN, NEW t \in Targets \cup {NoTarget},
               UserWrites(f, slash, t)
        PROVE  DirType'
    <3>1. f \in FileNames
      BY DEF FileNames
    <3>2. NoVersion \in -1..MaxVersion
      BY MaxVersionNat DEF NoVersion
    <3>3. [slash |-> slash, target |-> t, body |-> NoVersion] \in Contents
      BY <3>2 DEF Contents
    <3> QED BY <2>2, <3>1, <3>3, PutType DEF UserWrites, DirType
  <2> QED BY <2>1, <2>2
<1>4. SourceType'
  <2>1. CASE \E f \in OwnFiles, slash \in BOOLEAN, t \in Targets \cup {NoTarget} :
                UserWrites(f, slash, t)
    BY <1>1, <2>1 DEF UserWrites, Edit, SourceType
  <2>2. CASE SourceChanges
    <3>1. external' = external
      BY <1>1 DEF Edit
    <3>2. CASE \E w \in DOMAIN src.core : /\ src.core[w] < MaxVersion
                                          /\ src' = [src EXCEPT !.core[w] = @ + 1]
                                          /\ UNCHANGED <<skill, registered>>
      <4>1. PICK w \in DOMAIN src.core : /\ src.core[w] < MaxVersion
                                         /\ src' = [src EXCEPT !.core[w] = @ + 1]
                                         /\ UNCHANGED <<skill, registered>>
        BY <3>2
      <4>2. src.core[w] + 1 \in 1..MaxVersion
        BY <1>1, <4>1, MaxVersionNat DEF SourceType
      <4> QED BY <1>1, <3>1, <4>1, <4>2 DEF SourceType
    <3>3. CASE \E w \in DOMAIN src.core : /\ src' = [src EXCEPT !.core = Drop(@, {w})]
                                          /\ UNCHANGED <<skill, registered>>
      BY <1>1, <3>1, <3>3 DEF SourceType, Drop
    <3>4. CASE \E w \in DOMAIN src.kit : /\ src' = [src EXCEPT !.kit = Drop(@, {w})]
                                         /\ UNCHANGED <<skill, registered>>
      BY <1>1, <3>1, <3>4 DEF SourceType, Drop
    <3>5. CASE registered' \in Registrations \ {registered} /\ UNCHANGED <<src, skill>>
      <4>1. registered' \in Registrations
        BY <3>5
      <4> QED BY <1>1, <3>1, <3>5, <4>1 DEF SourceType
    <3>6. CASE skill < MaxVersion /\ skill' = skill + 1 /\ UNCHANGED <<src, registered>>
      <4>1. skill + 1 \in 1..MaxVersion
        BY <1>1, <3>6, MaxVersionNat DEF SourceType
      <4> QED BY <1>1, <3>1, <3>6, <4>1 DEF SourceType
    <3> QED BY <2>2, <3>2, <3>3, <3>4, <3>5, <3>6 DEF SourceChanges
  <2> QED BY <2>1, <2>2
<1> QED BY <1>2, <1>3, <1>4, TypeParts DEF Parts

\* Starting a command, copying the tool, preview and confirmation.
LEMMA PrepareType ==
  ASSUME TypeOK, \/ \E kind \in {"agents", "generate"}, dry \in BOOLEAN : Start(kind, dry)
                 \/ _ensure_cypilot_local \/ Preview \/ Confirm
  PROVE  /\ TypeOK' /\ UNCHANGED <<dir, sources, settled>>
         /\ run'.pc \in {"idle", "copy", "preview", "confirm", "rename"}
         /\ result' \notin {"PASS", "PARTIAL"} \/ result' = result
<1>1. /\ DirType /\ SourceType /\ CopyType /\ run \in RunType /\ FaultType /\ settled \in BOOLEAN
  BY TypeParts DEF Parts
<1>2. UNCHANGED <<dir, sources, settled>>
  BY DEF Start, _ensure_cypilot_local, Preview, Confirm
<1>3. DirType' /\ SourceType' /\ settled' \in BOOLEAN /\ Desired' = Desired
  BY <1>1, <1>2, SameSources DEF DirType, SourceType, sources
<1>4. DOMAIN dir \ DOMAIN Desired \in SUBSET FileNames
  BY <1>1 DEF DirType
<1>5. /\ FaultType' /\ CopyType' /\ run' \in RunType /\ WorkType'
      /\ run'.pc \in {"idle", "copy", "preview", "confirm", "rename"}
      /\ result' \notin {"PASS", "PARTIAL"} \/ result' = result
  <2>1. CASE \E kind \in {"agents", "generate"}, dry \in BOOLEAN : Start(kind, dry)
    <3>1. PICK kind \in {"agents", "generate"}, dry \in BOOLEAN : Start(kind, dry)
      BY <2>1
    <3>a. PICK pc \in {"copy", "preview"} :
              /\ run' = [NoRun EXCEPT !.kind = kind, !.dry = dry, !.pc = pc]
              /\ pc = "copy" => ~_is_cypilot_root
      BY <3>1 DEF Start
    <3>b. run' \in RunType /\ run'.pc = pc
      BY <3>a DEF NoRun, RunType, PCs
    <3>2. run' \in RunType /\ run'.pc \in {"copy", "preview"}
          /\ (run'.pc = "copy" => copied < 2)
      BY <1>1, <3>a, <3>b DEF _is_cypilot_root, CopyType, CopyDirs
    <3>3. FaultType' /\ copied' = copied /\ result' = "none"
      BY <1>1, <3>1 DEF Start, FaultType
    <3> QED BY <1>1, <3>2, <3>3 DEF CopyType, CopyDirs, WorkType
  <2>2. CASE _ensure_cypilot_local
    <3>1. CASE /\ copied' = copied + 1 /\ UNCHANGED <<result, counters>>
               /\ run' = [run EXCEPT !.pc = IF copied' = CopyDirs THEN "preview" ELSE "copy"]
      <4>1. run.pc = "copy" /\ copied \in 0..3 /\ copied < 3
        BY <1>1, <2>2 DEF _ensure_cypilot_local, CopyType, CopyDirs
      <4>2. run' \in RunType /\ run'.pc \in {"copy", "preview"} /\ (run'.pc = "copy" => copied' # 3)
        BY <1>1, <3>1 DEF RunType, PCs, CopyDirs
      <4> QED BY <1>1, <3>1, <4>1, <4>2 DEF CopyType, CopyDirs, WorkType, FaultType, counters
    <3>2. CASE Fault("copy") /\ Finish("COPY_ERROR") /\ UNCHANGED copied
      <4>1. run' = NoRun /\ result' = "COPY_ERROR"
        BY <3>2 DEF Finish
      <4> QED BY <1>1, <3>2, <4>1, NoRunType, FaultFacts DEF CopyType, WorkType
    <3> QED BY <2>2, <3>1, <3>2 DEF _ensure_cypilot_local
  <2>3. CASE Preview \/ Confirm
    <3>1. FaultType' /\ copied' = copied
      BY <1>1, <2>3 DEF Preview, Confirm, FaultType, counters
    <3>2. CASE \E s \in {"OK", "DRY_RUN", "ABORTED"} : Finish(s)
      BY <1>1, <3>1, <3>2, NoRunType DEF Finish, CopyType, WorkType
    <3>3. CASE /\ result' = result
               /\ \E q \in BOOLEAN : run' = [run EXCEPT !.pc = "rename",
                                          !.todo = Existing \ DOMAIN Desired, !.quiet = q]
      <4>1. PICK q \in BOOLEAN : run' = [run EXCEPT !.pc = "rename",
                                      !.todo = DOMAIN dir \ DOMAIN Desired, !.quiet = q]
        BY <3>3 DEF Existing
      <4>2. run' \in RunType /\ run'.pc = "rename" /\ run'.todo = DOMAIN dir \ DOMAIN Desired
        BY <1>1, <1>4, <4>1 DEF RunType, PCs
      <4> QED BY <1>1, <1>2, <1>3, <3>1, <3>3, <4>2 DEF CopyType, WorkType
    <3>4. CASE result' = result /\ Goto("confirm", {})
      <4>1. run' \in RunType /\ run'.pc = "confirm"
        BY <1>1, <3>4 DEF RunType, PCs, Goto
      <4> QED BY <1>1, <3>1, <3>4, <4>1 DEF CopyType, WorkType
    <3>5. CASE result' = result /\ Goto("rename", Existing \ DOMAIN Desired)
      <4>1. run' \in RunType /\ run'.pc = "rename" /\ run'.todo = DOMAIN dir \ DOMAIN Desired
        BY <1>1, <1>4, <3>5 DEF RunType, PCs, Existing, Goto
      <4> QED BY <1>1, <1>2, <1>3, <3>1, <3>5, <4>1 DEF CopyType, WorkType
    <3> QED BY <2>3, <3>2, <3>3, <3>4, <3>5 DEF Preview, Confirm
  <2> QED BY <2>1, <2>2, <2>3
<1> QED BY <1>2, <1>3, <1>5, TypeParts DEF Parts

-----------------------------------------------------------------------------
(* The steps of a run.                                                     *)

\* What a step of a run leaves alone.
LEMMA StepFrame ==
  ASSUME TypeOK, UNCHANGED <<sources, copied>>, run' \in RunType, run'.pc # "copy"
  PROVE  SourceType' /\ CopyType' /\ Desired' = Desired
<1>1. SourceType /\ CopyType
  BY TypeParts DEF Parts
<1> QED BY <1>1, SameSources DEF SourceType, CopyType, sources

\* A step of a run that has an installation in the project to work with.
LEMMA RootFrame ==
  ASSUME RootPhase, UNCHANGED <<sources, copied>>, settled' => settled \/ run.pc = "delete",
         run'.pc = "idle" \/ (run.pc \in WorkPCs /\ run'.pc \in WorkPCs)
  PROVE  RootPhase'
BY DEF RootPhase, Local, WorkPCs, _is_cypilot_root, sources

\* A command whose tool is outside the project copies it before it works.
LEMMA RootPrepare ==
  ASSUME run \in RunType, RootPhase, UNCHANGED <<sources, settled>>,
         \/ \E kind \in {"agents", "generate"}, dry \in BOOLEAN : Start(kind, dry)
         \/ _ensure_cypilot_local \/ Preview \/ Confirm
  PROVE  RootPhase' /\ (settled => copied' = copied)
<1>1. CASE \E kind \in {"agents", "generate"}, dry \in BOOLEAN : Start(kind, dry)
  <2>1. PICK kind \in {"agents", "generate"}, dry \in BOOLEAN : Start(kind, dry)
    BY <1>1
  <2>2. /\ run'.pc = IF external /\ ~_is_cypilot_root /\ ~dry THEN "copy" ELSE "preview"
        /\ run'.dry = dry /\ copied' = copied
    BY <2>1 DEF Start, NoRun
  <2> QED BY <2>2 DEF RootPhase, Local, WorkPCs, _is_cypilot_root, sources
<1>2. CASE _ensure_cypilot_local
  <2>1. run.pc = "copy" /\ ~settled
    BY <1>2 DEF _ensure_cypilot_local, RootPhase
  <2>2. CASE /\ copied' = copied + 1
             /\ run' = [run EXCEPT !.pc = IF copied' = CopyDirs THEN "preview" ELSE "copy"]
    <3>1. run'.pc = IF copied' = 3 THEN "preview" ELSE "copy"
      BY <2>2 DEF RunType, CopyDirs
    <3> QED BY <2>1, <3>1 DEF RootPhase, Local, WorkPCs, _is_cypilot_root
  <2>3. CASE run' = NoRun
    BY <2>1, <2>3 DEF NoRun, RootPhase, Local, WorkPCs
  <2> QED BY <1>2, <2>2, <2>3 DEF _ensure_cypilot_local, Finish
<1>3. CASE Preview \/ Confirm
  <2>1. copied' = copied
    BY <1>3 DEF Preview, Confirm
  <2>2. run.pc = "confirm" \/ (run.pc = "preview" /\ ~run.dry) \/ run' = NoRun
    BY <1>3 DEF Preview, Confirm, Finish
  <2>3. \/ run' = NoRun
        \/ \E todo : Goto("rename", todo) \/ Goto("confirm", todo)
        \/ \E todo : run' = [run EXCEPT !.pc = "rename", !.todo = todo, !.quiet = TRUE]
    BY <1>3 DEF Preview, Confirm, Finish
  <2>4. run'.pc \in {"idle", "rename", "confirm"}
    <3>1. ASSUME NEW todo, Goto("rename", todo) PROVE run'.pc = "rename"
      BY <3>1 DEF Goto, RunType
    <3>2. ASSUME NEW todo, Goto("confirm", todo) PROVE run'.pc = "confirm"
      BY <3>2 DEF Goto, RunType
    <3>3. ASSUME NEW todo, run' = [run EXCEPT !.pc = "rename", !.todo = todo, !.quiet = TRUE]
          PROVE  run'.pc = "rename"
      BY <3>3 DEF RunType
    <3>4. run' = NoRun => run'.pc = "idle"
      BY DEF NoRun
    <3> QED BY <2>3, <3>1, <3>2, <3>3, <3>4
  <2>5. run' = NoRun => run'.pc = "idle"
    BY DEF NoRun
  <2> QED BY <2>1, <2>2, <2>4, <2>5 DEF RootPhase, Local, WorkPCs, _is_cypilot_root, sources
<1> QED BY <1>1, <1>2, <1>3

\* A file of the user under an old name takes the name it should have.
LEMMA RenameInv ==
  ASSUME AgentInv, NEW f, Rename(f)
  PROVE  /\ AgentInv' /\ Desired' = Desired
         /\ settled => dir' = dir
         /\ dir' = dir \/ \E g \in DOMAIN Desired : /\ dir[f].target # NoTarget
                                                    /\ dir' = Put(Drop(dir, {f}), g, dir[f])
<1>1. /\ TypeOK /\ RunPhase /\ SettledPhase
      /\ DirType /\ run \in RunType /\ WorkType /\ FaultType /\ settled \in BOOLEAN
  BY TypeParts DEF AgentInv, Parts
<1>2. /\ run.pc = "rename" /\ f \in run.todo /\ UNCHANGED <<sources, copied, result, settled, counters>>
      /\ f \in DOMAIN dir /\ f \notin DOMAIN Desired
  BY <1>1 DEF Rename, Step, WorkType
<1>3. run' \in RunType /\ run'.pc = "rename" /\ run'.todo = run.todo \ {f}
  BY <1>1, <1>2 DEF Rename, RunType
<1>4. SourceType' /\ CopyType' /\ Desired' = Desired /\ FaultType'
  BY <1>1, <1>2, <1>3, StepFrame DEF counters, FaultType
<1>5. dir' = dir \/ \E g \in DOMAIN Desired : /\ dir[f].target # NoTarget
                                              /\ dir' = Put(Drop(dir, {f}), g, dir[f])
  BY DEF Rename, RenameTo, LooksGenerated
<1>6. DirType' /\ run.todo \ {f} \subseteq DOMAIN dir'
  <2>1. CASE dir' = dir
    BY <1>1, <1>2, <2>1 DEF DirType, WorkType
  <2>2. ASSUME NEW g \in DOMAIN Desired, dir' = Put(Drop(dir, {f}), g, dir[f])
        PROVE  DirType' /\ run.todo \ {f} \subseteq DOMAIN dir'
    <3>1. g \in FileNames
      BY <1>1, WantedFacts
    <3>2. dir[f] \in Contents
      BY <1>1, <1>2 DEF DirType
    <3>3. DOMAIN dir' = (DOMAIN dir \ {f}) \cup {g}
      BY <2>2 DEF Put, Drop
    <3>4. dir' \in [DOMAIN dir' -> Contents]
      BY <1>1, <2>2, <3>2, <3>3 DEF DirType, Put, Drop
    <3> QED BY <1>1, <1>2, <3>1, <3>3, <3>4 DEF DirType, WorkType
  <2> QED BY <1>5, <2>1, <2>2
<1>7. WorkType'
  BY <1>1, <1>2, <1>3, <1>4, <1>6 DEF WorkType
<1>8. settled => dir' = dir
  <2>1. settled => DOMAIN Desired \subseteq DOMAIN dir
    BY <1>1 DEF SettledPhase, InLine
  <2> QED BY <2>1 DEF Rename, RenameTo
<1>9. RunPhase'
  BY <1>1, <1>2, <1>3 DEF RunPhase
<1>a. RootPhase'
  BY <1>1, <1>2, <1>3, RootFrame DEF SettledPhase, WorkPCs
<1>10. SettledPhase'
  BY <1>1, <1>2, <1>4, <1>8, <1>a, SameSources DEF SettledPhase, InLine, Stale
<1> QED BY <1>1, <1>2, <1>3, <1>4, <1>5, <1>6, <1>7, <1>8, <1>9, <1>10, TypeParts DEF AgentInv, Parts

\* Every wanted file is written, whatever was there.
LEMMA WriteInv ==
  ASSUME AgentInv, NEW f, Write(f)
  PROVE  /\ AgentInv' /\ Desired' = Desired
         /\ settled => dir' = dir
         /\ f \in DOMAIN Desired /\ dir' = Put(dir, f, Desired[f])
<1>1. /\ TypeOK /\ RunPhase /\ SettledPhase
      /\ DirType /\ run \in RunType /\ WorkType /\ FaultType /\ settled \in BOOLEAN
  BY TypeParts DEF AgentInv, Parts
<1>2. /\ run.pc = "write" /\ f \in run.todo /\ UNCHANGED <<sources, copied, result, settled, counters>>
      /\ f \in DOMAIN Desired /\ dir' = Put(dir, f, Desired[f])
  BY <1>1 DEF Write, Step, WorkType, WritesFile
<1>3. run' \in RunType /\ run'.pc = "write" /\ run'.todo = run.todo \ {f}
  BY <1>1, <1>2 DEF Write, RunType
<1>4. SourceType' /\ CopyType' /\ Desired' = Desired /\ FaultType'
  BY <1>1, <1>2, <1>3, StepFrame DEF counters, FaultType
<1>5. DirType'
  <2>1. f \in FileNames /\ Desired[f] \in Contents
    BY <1>1, <1>2, WantedFacts
  <2> QED BY <1>1, <1>2, <2>1, PutType DEF DirType
<1>6. WorkType'
  BY <1>1, <1>2, <1>3, <1>4 DEF WorkType
<1>7. /\ f \in DOMAIN dir' /\ dir'[f] = Desired[f]
      /\ \A q \in DOMAIN dir : q \in DOMAIN dir' /\ (q # f => dir'[q] = dir[q])
  BY <1>2 DEF Put
<1>8. RunPhase'
  <2>1. \A q \in DOMAIN Desired' \ run'.todo : InLine(q)'
    BY <1>1, <1>2, <1>3, <1>4, <1>7 DEF RunPhase, InLine
  <2>2. result' \notin {"PASS", "PARTIAL"}
    BY <1>1, <1>2 DEF RunPhase
  <2> QED BY <1>3, <2>1, <2>2 DEF RunPhase
<1>9. settled => dir' = dir
  <2>1. dir = [q \in DOMAIN dir |-> dir[q]]
    BY <1>1 DEF DirType
  <2>2. settled => f \in DOMAIN dir /\ dir[f] = Desired[f]
    BY <1>1, <1>2 DEF SettledPhase, InLine
  <2> QED BY <1>2, <2>1, <2>2, PutSame
<1>a. RootPhase'
  BY <1>1, <1>2, <1>3, RootFrame DEF SettledPhase, WorkPCs
<1>10. SettledPhase'
  BY <1>1, <1>2, <1>4, <1>9, <1>a, SameSources DEF SettledPhase, InLine, Stale
<1> QED BY <1>1, <1>2, <1>3, <1>4, <1>5, <1>6, <1>8, <1>9, <1>10, TypeParts DEF AgentInv, Parts

\* The two passes between them: nothing is renamed or written any more.
LEMMA PassInv ==
  ASSUME AgentInv, RenameDone \/ WriteDone
  PROVE  AgentInv' /\ UNCHANGED <<dir, sources, settled>>
<1>1. /\ TypeOK /\ RunPhase /\ SettledPhase
      /\ DirType /\ run \in RunType /\ WorkType /\ FaultType /\ settled \in BOOLEAN
  BY TypeParts DEF AgentInv, Parts
<1>2. /\ UNCHANGED <<dir, sources, copied, result, settled, counters>>
      /\ run.pc \in {"rename", "write"}
  BY DEF RenameDone, WriteDone, Step
<1>3. PICK next \in {<<"write", DOMAIN Desired>>, <<"delete", DOMAIN dir \ DOMAIN Desired>>} :
        /\ run' = [run EXCEPT !.pc = next[1], !.todo = next[2]]
        /\ next[1] = "delete" => run.pc = "write" /\ run.todo = {}
  BY DEF RenameDone, WriteDone, Step, Goto
<1>4. \A g \in DOMAIN Desired : g \in FileNames /\ Exists(Desired[g].target)
  BY <1>1, WantedFacts
<1>5. next[2] \in SUBSET FileNames
  BY <1>1, <1>4 DEF DirType
<1>a. next[1] \in PCs /\ next[1] \in {"write", "delete"}
  BY DEF PCs
<1>6. run' \in RunType /\ run'.pc = next[1] /\ run'.todo = next[2]
  BY <1>1, <1>3, <1>5, <1>a DEF RunType
<1>7. SourceType' /\ CopyType' /\ Desired' = Desired /\ FaultType' /\ DirType'
  BY <1>1, <1>2, <1>6, StepFrame DEF counters, FaultType, DirType
<1>8. WorkType'
  BY <1>2, <1>6, <1>7, <1>a DEF WorkType
<1>9. RunPhase'
  <2>1. result' \notin {"PASS", "PARTIAL"}
    BY <1>1, <1>2 DEF RunPhase
  <2>2. CASE next[1] = "write"
    BY <1>6, <1>7, <2>1, <2>2 DEF RunPhase
  <2>3. CASE next[1] = "delete"
    <3>1. \A g \in DOMAIN Desired : InLine(g)
      BY <1>1, <1>3, <2>3 DEF RunPhase
    <3>2. \A g \in DOMAIN Desired : InLine(g)'
      BY <1>2, <1>7, <3>1 DEF InLine
    <3>3. \A g \in DOMAIN dir' \ run'.todo : ~Stale(g)'
      <4>1. next[2] = DOMAIN dir \ DOMAIN Desired
        BY <2>3
      <4> QED BY <1>2, <1>6, <1>7, <4>1 DEF Stale
    <3> QED BY <1>6, <1>7, <2>1, <2>3, <3>2, <3>3 DEF RunPhase
  <2> QED BY <1>a, <2>2, <2>3
<1>b. RootPhase'
  BY <1>1, <1>2, <1>6, <1>a, RootFrame DEF SettledPhase, WorkPCs
<1>10. SettledPhase'
  BY <1>1, <1>2, <1>7, <1>b, SameSources DEF SettledPhase, InLine, Stale
<1> QED BY <1>1, <1>2, <1>6, <1>7, <1>8, <1>9, <1>10, TypeParts DEF AgentInv, Parts

\* A stale proxy is deleted; a deletion that fails is ignored, and on record.
LEMMA DeleteInv ==
  ASSUME AgentInv, NEW f, Delete(f)
  PROVE  /\ AgentInv' /\ Desired' = Desired
         /\ settled => dir' = dir
         /\ dir' = dir \/ (Stale(f) /\ dir' = Drop(dir, {f}))
<1>1. /\ TypeOK /\ RunPhase /\ SettledPhase
      /\ DirType /\ run \in RunType /\ WorkType /\ FaultType /\ settled \in BOOLEAN
  BY TypeParts DEF AgentInv, Parts
<1>2. /\ run.pc = "delete" /\ f \in run.todo /\ UNCHANGED <<sources, copied, result, settled>>
      /\ f \in DOMAIN dir /\ f \notin DOMAIN Desired
  BY <1>1 DEF Delete, WorkType
<1>3. run' \in RunType /\ run'.pc = "delete" /\ run'.todo = run.todo \ {f}
  BY <1>1, <1>2 DEF Delete, RunType
<1>4. SourceType' /\ CopyType' /\ Desired' = Desired
  BY <1>1, <1>2, <1>3, StepFrame
<1>5. /\ FaultType' /\ (NoUnlinkFailed' => NoUnlinkFailed)
      /\ \/ ~Stale(f) /\ dir' = dir
         \/ Stale(f) /\ dir' = Drop(dir, {f})
         \/ ~NoUnlinkFailed' /\ dir' = dir
  <2>1. CASE dir' = (IF Stale(f) THEN Drop(dir, {f}) ELSE dir) /\ UNCHANGED counters
    BY <1>1, <2>1 DEF counters, FaultType, NoUnlinkFailed
  <2>2. CASE Stale(f) /\ Fault("unlink") /\ UNCHANGED dir
    BY <1>1, <2>2, FaultFacts
  <2> QED BY <2>1, <2>2 DEF Delete
<1>6. /\ DirType'
      /\ \A q \in DOMAIN dir : q # f => q \in DOMAIN dir' /\ dir'[q] = dir[q]
      /\ DOMAIN dir' \subseteq DOMAIN dir
  <2>1. CASE dir' = dir
    BY <1>1, <2>1 DEF DirType
  <2>2. CASE dir' = Drop(dir, {f})
    BY <1>1, <2>2 DEF DirType, Drop
  <2> QED BY <1>5, <2>1, <2>2
<1>7. WorkType'
  BY <1>1, <1>2, <1>3, <1>4, <1>6 DEF WorkType
<1>8. RunPhase'
  <2>1. \A q \in DOMAIN Desired : InLine(q)'
    BY <1>1, <1>2, <1>4, <1>6 DEF RunPhase, InLine
  <2>2. ASSUME NoUnlinkFailed', NEW q \in DOMAIN dir' \ run'.todo
        PROVE  ~Stale(q)'
    <3>1. CASE q = f
      <4>1. ~Stale(f) /\ dir' = dir
        BY <1>5, <2>2, <3>1 DEF Drop
      <4> QED BY <1>2, <3>1, <4>1, SameStale
    <3>2. CASE q # f
      <4>1. q \in DOMAIN dir \ run.todo
        BY <1>3, <1>6, <3>2
      <4>2. ~Stale(q) /\ dir'[q] = dir[q]
        BY <1>1, <1>2, <1>5, <1>6, <2>2, <3>2, <4>1 DEF RunPhase
      <4> QED BY <1>2, <4>2, SameStale
    <3> QED BY <3>1, <3>2
  <2>3. result' \notin {"PASS", "PARTIAL"}
    BY <1>1, <1>2 DEF RunPhase
  <2> QED BY <1>3, <1>4, <2>1, <2>2, <2>3 DEF RunPhase
<1>9. settled => dir' = dir
  BY <1>1, <1>2, <1>5 DEF SettledPhase
<1>a. RootPhase'
  BY <1>1, <1>2, <1>3, RootFrame DEF SettledPhase, WorkPCs
<1>10. SettledPhase'
  BY <1>1, <1>2, <1>4, <1>9, <1>a, SameSources DEF SettledPhase, InLine, Stale
<1> QED BY <1>1, <1>2, <1>3, <1>4, <1>5, <1>6, <1>7, <1>8, <1>9, <1>10, TypeParts DEF AgentInv, Parts

\* The skill output ends the run, and leaves everything as it reports it.
LEMMA SkillInv ==
  ASSUME AgentInv, Skill
  PROVE  /\ AgentInv' /\ UNCHANGED sources
         /\ settled => dir' = dir
         /\ dir' = Put(dir, SkillFile, DesiredSkill)
         /\ \A f \in DOMAIN Desired' : InLine(f)'
         /\ dir'[SkillFile] = DesiredSkill'
         /\ NoUnlinkFailed' => \A f \in DOMAIN dir' : ~Stale(f)'
<1>1. /\ TypeOK /\ RunPhase /\ SettledPhase
      /\ DirType /\ run \in RunType /\ WorkType /\ FaultType /\ settled \in BOOLEAN
  BY TypeParts DEF AgentInv, Parts
<1>2. /\ run.pc = "delete" /\ run.todo = {} /\ UNCHANGED <<sources, copied, counters>>
      /\ dir' = Put(dir, SkillFile, DesiredSkill)
      /\ run' = NoRun /\ settled' = NoUnlinkFailed
  BY DEF Skill, WritesFile, Finish, NoUnlinkFailed
<1>3. run' \in RunType /\ run'.pc = "idle"
  BY <1>2, NoRunType
<1>4. SourceType' /\ CopyType' /\ Desired' = Desired /\ DesiredSkill' = DesiredSkill
      /\ FaultType' /\ NoUnlinkFailed' = NoUnlinkFailed
  BY <1>1, <1>2, <1>3, StepFrame, SameSources DEF counters, FaultType, NoUnlinkFailed
<1>5. DirType'
  BY <1>1, <1>2, SkillContent, PutType DEF DirType
<1>6. /\ DOMAIN dir' = DOMAIN dir \cup {SkillFile} /\ dir'[SkillFile] = DesiredSkill
      /\ \A q \in DOMAIN dir : q # SkillFile => dir'[q] = dir[q]
  BY <1>2 DEF Put
<1>7. \A f \in DOMAIN Desired' : InLine(f)'
  BY <1>1, <1>2, <1>4, <1>6, DesiredFacts DEF RunPhase, InLine
<1>8. ASSUME NoUnlinkFailed, NEW f \in DOMAIN dir' PROVE ~Stale(f)'
  <2>1. CASE f = SkillFile
    BY <1>1, <2>1, SkillContent DEF Stale
  <2>2. CASE f # SkillFile
    <3>1. f \in DOMAIN dir \ run.todo /\ dir'[f] = dir[f]
      BY <1>2, <1>6, <2>2
    <3>2. ~Stale(f)
      BY <1>1, <1>2, <1>8, <3>1 DEF RunPhase
    <3> QED BY <1>2, <3>1, <3>2, SameStale
  <2> QED BY <2>1, <2>2
<1>9. settled => dir' = dir
  <2>1. dir = [q \in DOMAIN dir |-> dir[q]]
    BY <1>1 DEF DirType
  <2>2. settled => SkillFile \in DOMAIN dir /\ dir[SkillFile] = DesiredSkill
    BY <1>1 DEF SettledPhase
  <2> QED BY <1>2, <2>1, <2>2, PutSame
<1>10. RunPhase' /\ WorkType'
  BY <1>3 DEF RunPhase, WorkType
<1>a. RootPhase'
  BY <1>1, <1>2, <1>3, RootFrame DEF SettledPhase
<1>11. SettledPhase'
  BY <1>2, <1>4, <1>6, <1>7, <1>8, <1>a DEF SettledPhase
<1>12. settled' \in BOOLEAN
  BY <1>2 DEF NoUnlinkFailed
<1> QED BY <1>2, <1>3, <1>4, <1>5, <1>6, <1>7, <1>8, <1>9, <1>10, <1>11, <1>12, TypeParts
        DEF AgentInv, Parts

\* A process that dies leaves at most the file it was writing torn.
LEMMA DiesInv ==
  ASSUME AgentInv, Dies
  PROVE  /\ AgentInv' /\ UNCHANGED sources /\ ~settled'
         /\ dir' = dir \/ \E f \in DOMAIN Desired \cup {SkillFile} : dir' = Put(dir, f, Torn)
<1>1. /\ TypeOK /\ DirType /\ run \in RunType /\ WorkType /\ FaultType
  BY TypeParts DEF AgentInv, Parts
<1>2. /\ UNCHANGED <<sources, copied>> /\ run' = NoRun /\ ~settled' /\ settled' \in BOOLEAN
      /\ result' = "died"
  BY DEF Dies, Died, Finish
<1>3. run' \in RunType /\ run'.pc = "idle"
  BY <1>2, NoRunType
<1>4. SourceType' /\ CopyType'
  BY <1>1, <1>2, <1>3, StepFrame
<1>5. FaultType'
  BY <1>1, FaultFacts DEF Dies
<1>6. dir' = dir \/ \E f \in DOMAIN Desired \cup {SkillFile} : dir' = Put(dir, f, Torn)
  BY <1>1 DEF Dies, WorkType
<1>7. DirType'
  <2>1. ASSUME NEW f \in DOMAIN Desired \cup {SkillFile}, dir' = Put(dir, f, Torn)
        PROVE  DirType'
    <3>1. f \in FileNames /\ Torn \in Contents
      BY <1>1, WantedFacts, SkillContent
    <3> QED BY <1>1, <2>1, <3>1, PutType DEF DirType
  <2> QED BY <1>1, <1>6, <2>1 DEF DirType
<1>8. RunPhase' /\ WorkType' /\ SettledPhase'
  <2>1. RootPhase'
    BY <1>2, <1>3, RootFrame DEF AgentInv, SettledPhase
  <2> QED BY <1>2, <1>3, <2>1 DEF RunPhase, WorkType, SettledPhase
<1> QED BY <1>2, <1>3, <1>4, <1>5, <1>6, <1>7, <1>8, TypeParts DEF AgentInv, Parts

-----------------------------------------------------------------------------
(* The theorems.                                                           *)

LEMMA AgentStep == AgentInv /\ [Next]_vars => AgentInv'
<1> SUFFICES ASSUME AgentInv, [Next]_vars PROVE AgentInv'
  OBVIOUS
<1>1. CASE \/ \E f \in OwnFiles, slash \in BOOLEAN, t \in Targets \cup {NoTarget} :
                 UserWrites(f, slash, t)
           \/ SourceChanges
  <2>1. Edit
    BY <1>1 DEF UserWrites, SourceChanges
  <2>2. RunPhase' /\ SettledPhase'
    BY <2>1 DEF Edit, AgentInv, RunPhase, SettledPhase, RootPhase, Local, _is_cypilot_root
  <2>3. TypeOK'
    BY <1>1, EditType DEF AgentInv
  <2> QED BY <2>2, <2>3 DEF AgentInv
<1>2. CASE \/ \E kind \in {"agents", "generate"}, dry \in BOOLEAN : Start(kind, dry)
           \/ _ensure_cypilot_local \/ Preview \/ Confirm
  <2>1. /\ TypeOK' /\ UNCHANGED <<dir, sources, settled>>
        /\ run'.pc \in {"idle", "copy", "preview", "confirm", "rename"}
        /\ result' \notin {"PASS", "PARTIAL"} \/ result' = result
    BY <1>2, PrepareType DEF AgentInv
  <2>2. result' = "none" \/ run.pc # "idle"
    BY <1>2 DEF Start, _ensure_cypilot_local, Preview, Confirm
  <2>3. RunPhase'
    BY <2>1, <2>2 DEF AgentInv, RunPhase
  <2>4. RootPhase' /\ (settled => copied' = copied)
    <3>1. run \in RunType
      BY TypeParts DEF AgentInv, Parts
    <3> QED BY <1>2, <2>1, <3>1, RootPrepare DEF AgentInv, SettledPhase
  <2>5. SettledPhase'
    BY <2>1, <2>4, SameSources DEF AgentInv, SettledPhase, InLine, Stale
  <2> QED BY <2>1, <2>3, <2>5 DEF AgentInv
<1>3. CASE \E f \in FileNames : Rename(f) \/ Write(f) \/ Delete(f)
  BY <1>3, RenameInv, WriteInv, DeleteInv
<1>4. CASE RenameDone \/ WriteDone \/ Skill \/ Dies
  BY <1>4, PassInv, SkillInv, DiesInv
<1>5. CASE UNCHANGED vars
  <2>1. UNCHANGED sources /\ Desired' = Desired
    BY <1>5, SameSources DEF vars, sources
  <2>2. RunPhase' /\ SettledPhase'
    BY <1>5, <2>1, SameSources DEF vars, AgentInv, RunPhase, SettledPhase, InLine, Stale, NoUnlinkFailed,
                                   RootPhase, Local, _is_cypilot_root
  <2>3. TypeOK'
    BY <1>5, <2>1 DEF vars, AgentInv, TypeOK
  <2> QED BY <2>2, <2>3 DEF AgentInv
<1> QED BY <1>1, <1>2, <1>3, <1>4, <1>5 DEF Next

LEMMA AgentInvariance == Spec => []AgentInv
<1>1. Init => AgentInv
  <2> SUFFICES ASSUME Init PROVE AgentInv
    OBVIOUS
  <2>1. RunPhase /\ SettledPhase
    BY DEF Init, NoRun, RunPhase, SettledPhase, RootPhase, Local, WorkPCs
  <2> QED BY <2>1, InitType DEF AgentInv
<1> QED BY <1>1, AgentStep, PTL DEF Spec

\* The directory, the installation and the run keep their types, and a run
\* has work left only for files that are there or wanted.
THEOREM AgentTypeCorrect == Spec => []TypeOK
<1>1. AgentInv => TypeOK
  BY DEF AgentInv
<1> QED BY <1>1, AgentInvariance, PTL

\* Only the end of a run reports that it is complete.
LEMMA ReportedBySkill ==
  ASSUME AgentInv, Next, result' \in {"PASS", "PARTIAL"}
  PROVE  Skill
<1>1. result \in {"PASS", "PARTIAL"} => run.pc = "idle"
  BY DEF AgentInv, RunPhase
<1>2. CASE \/ \E f \in OwnFiles, slash \in BOOLEAN, t \in Targets \cup {NoTarget} :
                 UserWrites(f, slash, t)
           \/ SourceChanges
  BY <1>2 DEF UserWrites, SourceChanges, Edit
<1>3. CASE \/ \E kind \in {"agents", "generate"}, dry \in BOOLEAN : Start(kind, dry)
           \/ _ensure_cypilot_local \/ Preview \/ Confirm
  BY <1>1, <1>3 DEF Start, _ensure_cypilot_local, Preview, Confirm, Finish
<1>4. CASE \E f \in FileNames : Rename(f) \/ Write(f) \/ Delete(f)
  BY <1>1, <1>4 DEF Rename, Write, Delete, Step
<1>5. CASE RenameDone \/ WriteDone \/ Dies
  BY <1>1, <1>5 DEF RenameDone, WriteDone, Dies, Died, Finish, Step
<1> QED BY <1>2, <1>3, <1>4, <1>5 DEF Next

\* What a run leaves behind when it ends.
LEMMA SkillConverges ==
  ASSUME AgentInv, Skill
  PROVE  GenerateConverges'
<1>1. /\ AgentInv' /\ UNCHANGED sources
      /\ \A f \in DOMAIN Desired' : InLine(f)'
      /\ dir'[SkillFile] = DesiredSkill'
      /\ NoUnlinkFailed' => \A f \in DOMAIN dir' : ~Stale(f)'
  BY SkillInv
<1>a. result' = (IF SkillFound THEN "PASS" ELSE "PARTIAL") /\ SkillFound' = SkillFound /\ skill' = skill
  BY DEF Skill, Finish, SkillFound, sources
<1>b. dir'[SkillFile] = [slash |-> TRUE, target |-> SkillTarget,
                         body |-> IF result' = "PASS" THEN skill' ELSE NoVersion]
  BY <1>1, <1>a DEF DesiredSkill
<1>2. TypeOK
  BY DEF AgentInv
<1>3. /\ Desired' = Desired /\ \A t : Exists(t)' = Exists(t)
      /\ _list_workflow_files' = _list_workflow_files
      /\ \A t : Rendered(t)' = Rendered(t)
  BY <1>1, SameSources
<1>4. ASSUME NEW w \in DOMAIN _list_workflow_files', FileName(w) # SkillFile
      PROVE  /\ FileName(w) \in DOMAIN dir'
             /\ dir'[FileName(w)] = Rendered(_list_workflow_files[w])'
  <2>1. w \in Listed
    BY <1>3, DesiredFacts
  <2>2. FileName(w) \in DOMAIN Desired
    BY <1>4, <2>1, DesiredFacts
  <2>3. Desired[FileName(w)] = Rendered(_list_workflow_files[w])
    BY <2>2, DesiredFacts, FileNameFacts
  <2>4. Rendered(_list_workflow_files[w])' = Rendered(_list_workflow_files[w])
    BY <1>1, <1>3 DEF sources, Rendered, Version
  <2> QED BY <1>1, <1>3, <2>2, <2>3, <2>4 DEF InLine
<1>5. ASSUME NoUnlinkFailed', NEW f \in DOMAIN dir', f[1] = Prefix, dir'[f].target \in Targets
      PROVE  Exists(dir[f].target)'
  <2>1. CASE f \in DOMAIN Desired
    <3>1. dir'[f] = Desired[f]
      BY <1>1, <1>3, <2>1 DEF InLine
    <3>2. Exists(Desired[f].target)
      BY <1>2, <2>1, WantedFacts
    <3> QED BY <1>1, <3>1, <3>2 DEF Exists, sources
  <2>2. CASE f \notin DOMAIN Desired
    <3>1. dir'[f].target[1] \in {"core", "kit"}
      BY <1>5 DEF Targets
    <3> QED BY <1>1, <1>3, <1>5, <2>2, <3>1 DEF Stale
  <2> QED BY <2>1, <2>2
<1> QED BY <1>1, <1>4, <1>5, <1>b DEF GenerateConverges

\* A run that reports completion has brought the directory in line with the
\* workflows of the installation, whatever dead runs, failed deletions and
\* edits by the user came before it; the skill output is rendered from SKILL.md
\* after PASS, and from the fallback after PARTIAL (agents.py:665-850).
THEOREM CompletedRunsConverge == Spec => []GenerateConverges
<1>1. Init => GenerateConverges
  BY DEF Init, GenerateConverges
<1>2. AgentInv /\ GenerateConverges /\ [Next]_vars => GenerateConverges'
  <2> SUFFICES ASSUME AgentInv, GenerateConverges, [Next]_vars PROVE GenerateConverges'
    OBVIOUS
  <2>1. CASE Next
    <3>1. CASE result' \in {"PASS", "PARTIAL"}
      BY <2>1, <3>1, ReportedBySkill, SkillConverges
    <3>2. CASE result' \notin {"PASS", "PARTIAL"}
      BY <3>2 DEF GenerateConverges
    <3> QED BY <3>1, <3>2
  <2>2. CASE UNCHANGED vars
    <3>1. UNCHANGED <<dir, sources, faults, result>>
      BY <2>2 DEF vars, sources
    <3> QED BY <3>1 DEF GenerateConverges, sources, NoUnlinkFailed, _list_workflow_files,
                        _registered_kit_dirs, Rendered, Version, Exists
  <2> QED BY <2>1, <2>2
<1> QED BY <1>1, <1>2, AgentInvariance, PTL DEF Spec

\* The steps that change a file, and which one.
LEMMA DirEffect ==
  ASSUME AgentInv, Next, dir' # dir
  PROVE  \/ \E f, c : Edit /\ dir' = Put(dir, f, c) /\ c.body = NoVersion
         \/ ~settled /\ \E f, g : /\ f \in DOMAIN dir /\ dir[f].target # NoTarget
                                  /\ g \in DOMAIN Desired
                                  /\ dir' = Put(Drop(dir, {f}), g, dir[f])
         \/ ~settled /\ \E f : Stale(f) /\ f \in DOMAIN dir /\ dir' = Drop(dir, {f})
         \/ ~settled /\ \E f : f \in DOMAIN Desired /\ dir' = Put(dir, f, Desired[f])
         \/ ~settled /\ dir' = Put(dir, SkillFile, DesiredSkill)
         \/ ~settled' /\ \E f : f \in DOMAIN Desired \cup {SkillFile} /\ dir' = Put(dir, f, Torn)
<1>1. CASE \/ \E f \in OwnFiles, slash \in BOOLEAN, t \in Targets \cup {NoTarget} :
                 UserWrites(f, slash, t)
           \/ SourceChanges
  <2>1. PICK f \in OwnFiles, slash \in BOOLEAN, t \in Targets \cup {NoTarget} :
           UserWrites(f, slash, t)
    BY <1>1 DEF SourceChanges
  <2> DEFINE c == [slash |-> slash, target |-> t, body |-> NoVersion]
  <2>2. Edit /\ dir' = Put(dir, f, c) /\ c.body = NoVersion
    BY <2>1 DEF UserWrites
  <2> HIDE DEF c
  <2> QED BY <2>2
<1>2. CASE \/ \E kind \in {"agents", "generate"}, dry \in BOOLEAN : Start(kind, dry)
           \/ _ensure_cypilot_local \/ Preview \/ Confirm
  BY <1>2 DEF Start, _ensure_cypilot_local, Preview, Confirm
<1>3. ASSUME NEW f \in FileNames, Rename(f)
      PROVE  ~settled /\ \E q, g : /\ q \in DOMAIN dir /\ dir[q].target # NoTarget
                                   /\ g \in DOMAIN Desired
                                   /\ dir' = Put(Drop(dir, {q}), g, dir[q])
  <2>1. f \in DOMAIN dir
    BY <1>3 DEF Rename, Step, AgentInv, TypeOK
  <2> QED BY <1>3, <2>1, RenameInv
<1>4. ASSUME NEW f \in FileNames, Write(f)
      PROVE  ~settled /\ f \in DOMAIN Desired /\ dir' = Put(dir, f, Desired[f])
  BY <1>4, WriteInv
<1>5. ASSUME NEW f \in FileNames, Delete(f)
      PROVE  ~settled /\ Stale(f) /\ f \in DOMAIN dir /\ dir' = Drop(dir, {f})
  <2>1. f \in DOMAIN dir
    BY <1>5 DEF Delete, AgentInv, TypeOK
  <2> QED BY <1>5, <2>1, DeleteInv
<1>6. CASE Skill
  BY <1>6, SkillInv
<1>7. CASE RenameDone \/ WriteDone
  BY <1>7, PassInv
<1>8. CASE Dies
  BY <1>8, DiesInv
<1> QED BY <1>1, <1>2, <1>3, <1>4, <1>5, <1>6, <1>7, <1>8 DEF Next

\* A second run on a directory that is in line changes no file, however many
\* runs come after it (agents.py:680-770).
THEOREM RunsAreIdempotent == Spec => GenerateIsIdempotent
<1>1. AgentInv /\ [Next]_vars => [settled /\ settled' => dir' = dir]_vars
  <2> SUFFICES ASSUME AgentInv, Next, settled, settled', dir' # dir PROVE FALSE
    BY DEF vars
  <2>1. ~Edit
    BY DEF Edit
  <2> QED BY <2>1, DirEffect
<1> QED BY <1>1, AgentInvariance, PTL DEF Spec, GenerateIsIdempotent

\* No command touches a file of the user that leads to no workflow and has no
\* name of one (agents.py:665-770).
THEOREM BystandersStay == Spec => BystandersKept
<1> DEFINE Kept == run.pc # "idle" /\ dir' # dir =>
        \A f \in DOMAIN dir :
            dir[f].target = NoTarget /\ dir[f].body = NoVersion /\ f \notin DOMAIN Desired \cup {SkillFile}
            => f \in DOMAIN dir' /\ (dir'[f] = dir[f] \/ run.pc = "confirm")
<1>1. AgentInv /\ [Next]_vars => [Kept]_vars
  <2> SUFFICES ASSUME AgentInv, Next, run.pc # "idle", dir' # dir, NEW f \in DOMAIN dir,
                      dir[f].target = NoTarget, f \notin DOMAIN Desired \cup {SkillFile}
               PROVE  f \in DOMAIN dir' /\ (dir'[f] = dir[f] \/ run.pc = "confirm")
    BY DEF vars
  <2>1. CASE \E q, c : Edit /\ dir' = Put(dir, q, c)
    BY <2>1 DEF Edit, Put
  <2>2. CASE \E q, g : /\ q \in DOMAIN dir /\ dir[q].target # NoTarget /\ g \in DOMAIN Desired
                       /\ dir' = Put(Drop(dir, {q}), g, dir[q])
    BY <2>2 DEF Put, Drop
  <2>3. CASE \E q : Stale(q) /\ q \in DOMAIN dir /\ dir' = Drop(dir, {q})
    <3>1. ~Stale(f)
      <4>a. NoTarget[1] = "" /\ "" \notin {"core", "kit"}
        BY DEF NoTarget
      <4>b. dir[f].target = NoTarget
        OBVIOUS
      <4>1. dir[f].target[1] = "" /\ "" \notin {"core", "kit"}
        BY <4>a, <4>b
      <4> QED BY <4>1 DEF Stale
    <3> QED BY <2>3, <3>1 DEF Drop
  <2>4. CASE \/ \E q : q \in DOMAIN Desired /\ dir' = Put(dir, q, Desired[q])
             \/ dir' = Put(dir, SkillFile, DesiredSkill)
             \/ \E q : q \in DOMAIN Desired \cup {SkillFile} /\ dir' = Put(dir, q, Torn)
    BY <2>4 DEF Put
  <2> QED BY <2>1, <2>2, <2>3, <2>4, DirEffect
<1> QED BY <1>1, AgentInvariance, PTL DEF Spec, BystandersKept

\* While core.toml names kits, no command renders a proxy for a workflow of a
\* kit it does not name; without a kit in core.toml every kit's workflows are
\* listed (agents.py:494-561).
THEOREM ForeignKitsGetNoProxy == Spec => NoProxyForForeignKit
<1> DEFINE Own == registered # {} /\ "kit" \notin registered =>
        \A f \in DOMAIN dir' :
            dir'[f].target[1] = "kit" => \/ dir'[f].body = NoVersion
                                         \/ \E g \in DOMAIN dir : dir[g] = dir'[f]
<1>1. AgentInv /\ [Next]_vars => [Own]_vars
  <2> SUFFICES ASSUME AgentInv, Next, Foreign, NEW f \in DOMAIN dir',
                      dir'[f].target[1] = "kit", dir'[f].body # NoVersion,
                      ~\E g \in DOMAIN dir : dir[g] = dir'[f]
               PROVE  FALSE
    BY DEF vars, Foreign
  <2>1. TypeOK /\ dir' # dir
    BY DEF AgentInv
  <2>2. CASE \E q, c : dir' = Put(dir, q, c) /\ c.body = NoVersion
    BY <2>2 DEF Put
  <2>4. CASE \E q, g : /\ q \in DOMAIN dir /\ dir' = Put(Drop(dir, {q}), g, dir[q])
    BY <2>4 DEF Put, Drop
  <2>5. CASE \E q : q \in DOMAIN dir /\ dir' = Drop(dir, {q})
    BY <2>5 DEF Drop
  <2>6. CASE \E q : q \in DOMAIN Desired /\ dir' = Put(dir, q, Desired[q])
    <3>1. PICK q \in DOMAIN Desired : dir' = Put(dir, q, Desired[q])
      BY <2>6
    <3>2. Desired[q].target[1] = "core"
      BY <2>1, WantedFacts
    <3> QED BY <3>1, <3>2 DEF Put
  <2>7. CASE \/ dir' = Put(dir, SkillFile, DesiredSkill)
             \/ \E q : dir' = Put(dir, q, Torn)
    <3>1. DesiredSkill.target[1] = "skills" /\ Torn.target[1] = ""
      BY DEF DesiredSkill, SkillTarget, Torn, NoTarget
    <3> QED BY <2>7, <3>1 DEF Put
  <2> QED BY <2>1, <2>2, <2>4, <2>5, <2>6, <2>7, DirEffect
<1> QED BY <1>1, AgentInvariance, PTL DEF Spec, NoProxyForForeignKit

=============================================================================
