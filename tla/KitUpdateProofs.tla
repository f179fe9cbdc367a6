--------------------------- MODULE KitUpdateProofs ---------------------------
(***************************************************************************)
(* Proofs about KitUpdate, for every set of files, every set of releases   *)
(* that satisfies KitAssumption and every bound.                           *)
(*                                                                         *)
(* KitInv is inductive.  EditsSurvive rests on three facts in it: an       *)
(* update copies whole directories only where the kit has none             *)
(* (KitDirPhase), adopts by copying only where nothing of the resource is  *)
(* or where the user said, and in review changes a file only when its      *)
(* change is accepted (ReviewChanges); an install has leave for all files  *)
(* (CommandPhase).  InstalledAtBindings rests on InstallPhase: the         *)
(* resources placed so far are where they are bound, whatever later ones   *)
(* overlap them (PlaceCopies).  InterruptedIsRetried rests on VersionPhase,*)
(* inductive together with KitInv as long as the user keeps the kit root.  *)
(* AcceptAllConverges and UpdatedAtRegisteredPath rest on UpdatePhase: an  *)
(* adoption writes what it binds, where it binds it (CopiedWrites), so     *)
(* that the mapping of the review sends every file of the release to its   *)
(* place (TargetPlaces) and finds in the kit's directory only what belongs *)
(* there (KitFilesInPlace).                                                *)
(***************************************************************************)
EXTENDS KitUpdate, TLAPS, WellFoundedInduction

-----------------------------------------------------------------------------
(* Partial functions and the contents of the disk.                          *)

\* A disk: places of known files, and what they hold.
Disk(d) == DOMAIN d \subseteq Locs /\ \A l \in DOMAIN d : d[l] \in Content

\* They make disks out of disks.
LEMMA PutDisk ==
  ASSUME NEW d, Disk(d), NEW l \in Locs, NEW c \in Content
  PROVE  Disk(Put(d, l, c))
BY DEF Disk, Put

\* Removing files from a disk leaves a disk.
LEMMA DropDisk ==
  ASSUME NEW d, Disk(d), NEW S
  PROVE  Disk(Drop(d, S))
BY DEF Disk, Drop

\* So does keeping some of them.
LEMMA SubDisk ==
  ASSUME NEW d, Disk(d), NEW S
  PROVE  Disk(Sub(d, S))
BY DEF Disk, Sub

\* So does writing one disk over another.
LEMMA OverDisk ==
  ASSUME NEW d, Disk(d), NEW e, Disk(e)
  PROVE  Disk(Over(d, e))
<1>1. \A l \in DOMAIN Over(d, e) : Over(d, e)[l] \in Content
  <2> SUFFICES ASSUME NEW l \in DOMAIN Over(d, e) PROVE Over(d, e)[l] \in Content
    OBVIOUS
  <2>1. CASE l \in DOMAIN e
    BY <2>1 DEF Disk, Over
  <2>2. CASE l \notin DOMAIN e
    BY <2>2 DEF Disk, Over
  <2> QED BY <2>1, <2>2
<1> QED BY <1>1 DEF Disk, Over

\* Files of a release, put at one place, are a disk.
LEMMA ReleaseDisk ==
  ASSUME NEW rel \in Releases, NEW place \in Places, NEW S, S \subseteq DOMAIN rel.files
  PROVE  Disk([l \in {place} \X S |-> rel.files[l[2]]])
<1>1. /\ DOMAIN rel.files \subseteq Files
      /\ \A f \in DOMAIN rel.files : rel.files[f] \in Content
  BY KitAssumption
<1>2. {place} \X S \subseteq Locs
  BY <1>1 DEF Locs
<1>3. \A l \in {place} \X S : l[2] \in S
  OBVIOUS
<1> QED BY <1>1, <1>2, <1>3 DEF Disk

\* The user's text at l is as safe after the step as before.
Safe(d, e, l) == l \in DOMAIN d => l \in DOMAIN e /\ e[l] = d[l]

\* _copy_manifest_resource: the resource is at its place, with the text of the
\* release; nothing changes elsewhere.
LEMMA CopiedFact ==
  ASSUME NEW d, Disk(d), NEW rel \in Releases, NEW r, NEW place \in Places
  PROVE  /\ Disk(Copied(d, rel, r, place))
         /\ \A f \in DOMAIN rel.files : Covers(r, f) =>
              /\ <<place, f>> \in DOMAIN Copied(d, rel, r, place)
              /\ Copied(d, rel, r, place)[<<place, f>>] = rel.files[f]
         /\ \A l \in Locs : ~(l[1] = place /\ Covers(r, l[2])) => Safe(d, Copied(d, rel, r, place), l)
         /\ \A l \in DOMAIN Copied(d, rel, r, place) : l \in DOMAIN d \/ l[1] = place
<1> DEFINE fs == {f \in DOMAIN rel.files : Covers(r, f)}
           new == [l \in {place} \X fs |-> rel.files[l[2]]]
           old == IF IsDir(r) THEN Drop(d, {l \in DOMAIN d : l[1] = place /\ l[2][1] = r.source[1]}) ELSE d
<1>1. Copied(d, rel, r, place) = Over(old, new)
  BY DEF Copied
<1>2. Disk(new)
  BY ReleaseDisk
<1>3. Disk(old)
  BY DropDisk
<1>4. DOMAIN new = {place} \X fs
  OBVIOUS
<1>5. \A f \in fs : <<place, f>> \in DOMAIN new /\ new[<<place, f>>] = rel.files[f]
  OBVIOUS
<1>6. \A l \in Locs : ~(l[1] = place /\ Covers(r, l[2])) => Safe(d, old, l) /\ l \notin DOMAIN new
  <2> SUFFICES ASSUME NEW l \in Locs, ~(l[1] = place /\ Covers(r, l[2])), l \in DOMAIN d
               PROVE  l \in DOMAIN old /\ old[l] = d[l]
    BY DEF Safe
  <2>1. CASE IsDir(r)
    <3>1. ~(l[1] = place /\ l[2][1] = r.source[1])
      BY <2>1 DEF Covers
    <3> QED BY <2>1, <3>1 DEF Drop
  <2>2. CASE ~IsDir(r)
    BY <2>2
  <2> QED BY <2>1, <2>2
<1>7. DOMAIN old \subseteq DOMAIN d
  BY DEF Drop
<1> HIDE DEF new, old
<1>8. Disk(Copied(d, rel, r, place))
  BY <1>1, <1>2, <1>3, OverDisk
<1>9. \A l \in Locs : ~(l[1] = place /\ Covers(r, l[2])) => Safe(d, Copied(d, rel, r, place), l)
  BY <1>1, <1>6 DEF Safe, Over
<1>10. \A f \in DOMAIN rel.files : Covers(r, f) =>
              /\ <<place, f>> \in DOMAIN Copied(d, rel, r, place)
              /\ Copied(d, rel, r, place)[<<place, f>>] = rel.files[f]
  BY <1>1, <1>5 DEF Over
<1>11. \A l \in DOMAIN Copied(d, rel, r, place) : l \in DOMAIN d \/ l[1] = place
  BY <1>1, <1>4, <1>7 DEF Over
<1> QED BY <1>8, <1>9, <1>10, <1>11

\* The same, stopped on the way.
LEMMA HalfCopiedFact ==
  ASSUME NEW d, Disk(d), NEW rel \in Releases, NEW r, NEW place \in Places,
         NEW e \in HalfCopied(d, rel, r, place)
  PROVE  /\ Disk(e)
         /\ \A l \in Locs : ~(l[1] = place /\ Covers(r, l[2])) => Safe(d, e, l)
         /\ \A l \in DOMAIN e : l \in DOMAIN d \/ l[1] = place
<1> DEFINE all == Copied(d, rel, r, place)
           gone == {l \in Locs : l[1] = place /\ Covers(r, l[2])}
<1>1. Disk(all) /\ \A l \in DOMAIN all : l \in DOMAIN d \/ l[1] = place
  BY CopiedFact
<1> HIDE DEF all
<1>2. CASE \E S \in SUBSET (gone \cap DOMAIN all) : e = Over(Drop(d, gone), Sub(all, S))
  <2>1. PICK S \in SUBSET (gone \cap DOMAIN all) : e = Over(Drop(d, gone), Sub(all, S))
    BY <1>2
  <2>2. Disk(Sub(all, S)) /\ Disk(Drop(d, gone))
    BY <1>1, SubDisk, DropDisk
  <2>3. Disk(e)
    BY <2>1, <2>2, OverDisk
  <2>4. DOMAIN Sub(all, S) \subseteq gone
    BY DEF Sub
  <2>5. \A l \in Locs : l \notin gone => Safe(d, e, l)
    BY <2>1, <2>4 DEF Safe, Over, Drop
  <2>6. \A l \in DOMAIN e : l \in DOMAIN d \/ l \in gone
    BY <2>1, <2>4 DEF Over, Drop
  <2> QED BY <2>3, <2>5, <2>6
<1>3. CASE e = d
  BY <1>3 DEF Safe
<1>4. CASE \E S \in SUBSET (gone \cap DOMAIN d) : e = Drop(d, S)
  <2>1. PICK S \in SUBSET (gone \cap DOMAIN d) : e = Drop(d, S)
    BY <1>4
  <2> QED BY <2>1, DropDisk DEF Safe, Drop
<1> QED BY <1>2, <1>3, <1>4 DEF HalfCopied, all

\* _copy_kit_content writes in the kit's directory only, whole or in part.
LEMMA ContentFact ==
  ASSUME NEW d, Disk(d), NEW rel \in Releases, NEW e,
         e = _copy_kit_content(d, rel) \/ e \in HalfContent(d, rel)
  PROVE  /\ Disk(e)
         /\ \A l \in Locs : l[1] # "kit" => Safe(d, e, l)
<1> DEFINE Fine(a, b) == Disk(a) => /\ Disk(b)
                                    /\ \A l \in Locs : l[1] # "kit" => Safe(a, b, l)
<1>0. "kit" \in Places
  BY DEF Places
<1>1. \A a, S : S \subseteq DOMAIN rel.files => Fine(a, Over(a, [l \in {"kit"} \X S |-> rel.files[l[2]]]))
  <2> SUFFICES ASSUME NEW a, NEW S, S \subseteq DOMAIN rel.files, Disk(a)
               PROVE  /\ Disk(Over(a, [l \in {"kit"} \X S |-> rel.files[l[2]]]))
                      /\ \A l \in Locs : l[1] # "kit" => Safe(a, Over(a, [m \in {"kit"} \X S |-> rel.files[m[2]]]), l)
    OBVIOUS
  <2> DEFINE n == [m \in {"kit"} \X S |-> rel.files[m[2]]]
  <2>1. Disk(n)
    BY <1>0, ReleaseDisk
  <2>2. \A l \in Locs : l[1] # "kit" => l \notin DOMAIN n
    OBVIOUS
  <2> HIDE DEF n
  <2>3. Disk(Over(a, n))
    BY <2>1, OverDisk
  <2>4. \A l \in Locs : l[1] # "kit" => Safe(a, Over(a, n), l)
    BY <2>2 DEF Safe, Over
  <2> QED BY <2>3, <2>4 DEF n
<1>2. \A a, S : (\A l \in S : l[1] = "kit") => Fine(a, Drop(a, S))
  BY DropDisk DEF Safe, Drop
<1>3. \A a, S : (\A l \in S : l[1] = "kit") => Fine(a, Sub(a, Locs \ S))
  BY SubDisk DEF Safe, Disk, Sub
<1>4. \A a, b, c : Fine(a, b) /\ Fine(b, c) => Fine(a, c)
  BY DEF Safe
<1> HIDE DEF Fine
<1>5. \A a, dirs : Fine(a, ReplaceDirs(a, rel, dirs))
  <2> SUFFICES ASSUME NEW a, NEW dirs PROVE Fine(a, ReplaceDirs(a, rel, dirs))
    OBVIOUS
  <2> DEFINE S == {l \in DOMAIN a : l[1] = "kit" /\ l[2][1] \in dirs}
             T == {f \in DOMAIN rel.files : f[1] \in dirs}
  <2>1. Fine(a, Drop(a, S))
    BY <1>2
  <2>2. Fine(Drop(a, S), Over(Drop(a, S), [l \in {"kit"} \X T |-> rel.files[l[2]]]))
    BY <1>1
  <2> QED BY <2>1, <2>2, <1>4 DEF ReplaceDirs
<1>6. \A a, fs : fs \subseteq DOMAIN rel.files => Fine(a, CopyFiles(a, rel, fs))
  BY <1>1 DEF CopyFiles
<1>7. RootFiles(rel) \subseteq DOMAIN rel.files
  BY DEF RootFiles
<1>8. Fine(d, e)
  <2>1. CASE e = _copy_kit_content(d, rel)
    BY <2>1, <1>4, <1>5, <1>6, <1>7 DEF _copy_kit_content
  <2>2. CASE \E fs \in SUBSET RootFiles(rel) : e = CopyFiles(ReplaceDirs(d, rel, ReleaseDirs(rel)), rel, fs)
    <3>1. PICK fs \in SUBSET RootFiles(rel) : e = CopyFiles(ReplaceDirs(d, rel, ReleaseDirs(rel)), rel, fs)
      BY <2>2
    <3>2. fs \subseteq DOMAIN rel.files
      BY <1>7
    <3> QED BY <3>1, <3>2, <1>4, <1>5, <1>6
  <2>3. CASE \E done \in SUBSET ReleaseDirs(rel), x \in ReleaseDirs(rel) :
               e \in HalfDir(ReplaceDirs(d, rel, done), rel, x)
    <3>1. PICK done \in SUBSET ReleaseDirs(rel), x \in ReleaseDirs(rel) :
               e \in HalfDir(ReplaceDirs(d, rel, done), rel, x)
      BY <2>3
    <3> DEFINE a == ReplaceDirs(d, rel, done)
               b == ReplaceDirs(a, rel, {x})
    <3>2. Fine(d, a) /\ Fine(a, b)
      BY <1>5
    <3>3. \/ \E S \in SUBSET {l \in Locs : l[1] = "kit" /\ l[2][1] = x} : e = Drop(a, S)
          \/ \E S \in SUBSET {l \in Locs : l[1] = "kit" /\ l[2][1] = x} : e = Sub(b, Locs \ S)
      BY <3>1 DEF HalfDir
    <3> HIDE DEF a, b
    <3>4. CASE \E S \in SUBSET {l \in Locs : l[1] = "kit" /\ l[2][1] = x} : e = Drop(a, S)
      <4>1. PICK S \in SUBSET {l \in Locs : l[1] = "kit" /\ l[2][1] = x} : e = Drop(a, S)
        BY <3>4
      <4>2. Fine(a, Drop(a, S))
        BY <1>2
      <4> QED BY <4>1, <4>2, <3>2, <1>4
    <3>5. CASE \E S \in SUBSET {l \in Locs : l[1] = "kit" /\ l[2][1] = x} : e = Sub(b, Locs \ S)
      <4>1. PICK S \in SUBSET {l \in Locs : l[1] = "kit" /\ l[2][1] = x} : e = Sub(b, Locs \ S)
        BY <3>5
      <4>2. Fine(b, Sub(b, Locs \ S))
        BY <1>3
      <4>3. Fine(d, b)
        BY <3>2, <1>4
      <4> QED BY <4>1, <4>2, <4>3, <1>4
    <3> QED BY <3>3, <3>4, <3>5
  <2> QED BY <2>1, <2>2, <2>3 DEF HalfContent
<1> QED BY <1>8 DEF Fine

-----------------------------------------------------------------------------
(* The running command.                                                    *)

PCs == {"idle", "copy", "place", "seed", "register", "adopt", "resolve", "diff", "review", "regen"}
Fields == {"pc", "rel", "kind", "interactive", "yes", "force", "source", "root", "at", "bound",
           "snapshot", "target", "todo", "bulk", "accepted", "declined", "status"}

\* The command that is not running.
LEMMA NoCmdFact ==
  /\ DOMAIN NoCmd = Fields
  /\ NoCmd.pc = "idle" /\ NoCmd.rel \in Releases /\ NoCmd.kind = "none" /\ NoCmd.source = ""
  /\ NoCmd.root = "kit" /\ NoCmd.at = 1 /\ NoCmd.at \in Nat \ {0} /\ NoCmd.bound = <<>> /\ NoCmd.snapshot = <<>>
  /\ NoCmd.target = <<>> /\ NoCmd.todo = {} /\ NoCmd.accepted = {} /\ NoCmd.declined = {}
  /\ NoCmd.status = "none"
<1>1. (CHOOSE r \in Releases : TRUE) \in Releases
  BY KitAssumption
<1> QED BY <1>1 DEF NoCmd, Fields

\* What the phases see of a command that goes on at pc.
Moves(pc) ==
  /\ CmdType(cmd') /\ cmd'.pc = pc
  /\ cmd'.rel = cmd.rel /\ cmd'.kind = cmd.kind /\ cmd'.root = cmd.root
  /\ cmd'.at = cmd.at /\ cmd'.bound = cmd.bound
  /\ cmd'.accepted = cmd.accepted /\ cmd'.declined = cmd.declined
  /\ cmd'.status = "installed" => cmd.status = "installed" \/ cmd.kind = "install"

\* ... and of one that has ended.
Ends ==
  /\ CmdType(cmd') /\ cmd'.pc = "idle" /\ cmd'.kind = "none" /\ cmd'.root = "kit"
  /\ cmd'.accepted = {} /\ cmd'.declined = {} /\ cmd'.status = "none"

\* A jump inside the command.
LEMMA GotoMoves ==
  ASSUME CmdType(cmd), NEW pc \in PCs, Goto(pc)
  PROVE  Moves(pc)
<1>1. /\ DOMAIN cmd = Fields /\ cmd' = [cmd EXCEPT !.pc = pc]
  BY NoCmdFact DEF CmdType, Goto
<1>2. DOMAIN cmd' = Fields /\ cmd'.pc = pc /\ \A x \in Fields \ {"pc"} : cmd'[x] = cmd[x]
  BY <1>1 DEF Fields
<1> QED BY <1>1, <1>2, NoCmdFact DEF Moves, CmdType, Fields, PCs

\* The command leaves for the regeneration of the aggregates; only an install
\* reports "installed".
LEMMA LeaveMoves ==
  ASSUME CmdType(cmd), NEW status, Leave(status),
         status # "installed" \/ cmd.kind = "install"
  PROVE  Moves("regen") /\ cmd'.status = status
<1>1. /\ DOMAIN cmd = Fields /\ cmd' = [cmd EXCEPT !.pc = "regen", !.status = status]
  BY NoCmdFact DEF CmdType, Leave
<1>2. /\ DOMAIN cmd' = Fields /\ cmd'.pc = "regen" /\ cmd'.status = status
      /\ \A x \in Fields \ {"pc", "status"} : cmd'[x] = cmd[x]
  BY <1>1 DEF Fields
<1> QED BY <1>1, <1>2, NoCmdFact DEF Moves, CmdType, Fields

\* The command that is not running has the type of a command.
LEMMA NoCmdType == CmdType(NoCmd)
<1>1. \A x : x = <<>> => DOMAIN x = {}
  OBVIOUS
<1>2. /\ \A i \in DOMAIN NoCmd.bound : NoCmd.bound[i] \in Places
      /\ \A i \in DOMAIN NoCmd.snapshot : NoCmd.snapshot[i] \in Content
      /\ \A i \in DOMAIN NoCmd.target : NoCmd.target[i] \in Places
  BY <1>1, NoCmdFact
<1>3. NoCmd.root \in Places
  BY NoCmdFact DEF Places
<1>5. NoCmd.todo \subseteq Files \cap DOMAIN NoCmd.target
  BY NoCmdFact
<1>6. NoCmd.accepted \cap NoCmd.todo = {} /\ NoCmd.declined \cap NoCmd.todo = {}
  BY NoCmdFact
<1> QED BY <1>2, <1>3, <1>5, <1>6, NoCmdFact DEF CmdType

\* The end of a command, by return or by death.
LEMMA IdleEnds ==
  ASSUME cmd' = NoCmd
  PROVE  Ends
BY NoCmdType, NoCmdFact DEF Ends

\* An exception ends an install, and sends an update on with an error.
LEMMA RaisedEndsOrLeaves ==
  ASSUME CmdType(cmd), Raised \/ Died
  PROVE  Ends \/ (Moves("regen") /\ cmd'.status = "ERROR")
<1>1. "ERROR" # "installed"
  OBVIOUS
<1> QED BY <1>1, LeaveMoves, IdleEnds DEF Raised, Died

-----------------------------------------------------------------------------
(* The invariant, action by action.                                        *)

\* What the user wrote stays as it is through a step that changes no file it
\* has no leave to replace.
LEMMA KeepEdits ==
  ASSUME EditsSurvive, before' = before, consent \subseteq consent', Stopped => Stopped',
         \A l \in DOMAIN disk : (l \in DOMAIN before /\ l[2] \notin consent') =>
             l \in DOMAIN disk' /\ disk'[l] = disk[l]
  PROVE  EditsSurvive'
<1> SUFFICES ASSUME NEW l \in DOMAIN before, Mine(before[l]), l[2] \notin consent'
             PROVE  /\ l \in DOMAIN disk'
                    /\ \/ disk'[l] = before[l]
                       \/ /\ l \in WithVariables(before, "kit")
                          /\ \/ disk'[l] = [before[l] EXCEPT !.vars = "resolved"]
                             \/ disk'[l] = [before[l] EXCEPT !.body = "torn"] /\ Stopped'
  BY DEF EditsSurvive, WithVariables
<1>1. /\ l \in DOMAIN disk
      /\ \/ disk[l] = before[l]
         \/ /\ l \in WithVariables(before, "kit")
            /\ \/ disk[l] = [before[l] EXCEPT !.vars = "resolved"]
               \/ disk[l] = [before[l] EXCEPT !.body = "torn"] /\ Stopped
  BY DEF EditsSurvive
<1>2. l \in DOMAIN disk' /\ disk'[l] = disk[l]
  BY <1>1
<1> QED BY <1>1, <1>2

\* A command on its way has neither failed nor died.
LEMMA NotStopped ==
  ASSUME ReportPhase, cmd.pc \notin {"idle", "regen"}
  PROVE  ~Stopped
BY DEF ReportPhase, Stopped

\* ... and through an install, which has leave for everything.
LEMMA InstallKeepsEdits ==
  ASSUME CommandPhase, cmd.kind = "install", before' = before, consent' = consent
  PROVE  EditsSurvive'
<1>1. \A l \in DOMAIN before : l[2] \in consent
  BY DEF CommandPhase, Locs
<1> QED BY <1>1 DEF EditsSurvive

\* A step that ends the command leaves no phase to speak of.
LEMMA EndsPhase ==
  ASSUME KitInv, Ends, DOMAIN before' \subseteq Locs,
         ~kitDir' => \A l \in DOMAIN disk' : l[1] # "kit"
  PROVE  KitDirPhase' /\ CommandPhase' /\ InstallPhase'
BY DEF Ends, KitDirPhase, CommandPhase, InstallPhase

\* regenerate_gen_aggregates.
LEMMA RegenInv ==
  ASSUME KitInv, ReportPhase, regenerate_gen_aggregates
  PROVE  KitInv'
<1>1. Ends
  BY IdleEnds DEF regenerate_gen_aggregates, Died
<1>2. UNCHANGED <<disk, kitDir, core, entry, config, before, consent, open>>
  BY DEF regenerate_gen_aggregates
<1>3. TypeOK'
  BY <1>1, <1>2 DEF KitInv, TypeOK, Ends
<1>4. KitDirPhase' /\ CommandPhase' /\ InstallPhase'
  BY <1>1, <1>2, EndsPhase DEF KitInv, KitDirPhase, CommandPhase
<1>5. EditsSurvive'
  <2>1. cmd.pc = "regen" /\ (result' = cmd.status \/ result' = "died")
    BY DEF regenerate_gen_aggregates, Died
  <2>2. Stopped => Stopped'
    BY <2>1 DEF ReportPhase, Stopped
  <2> QED BY <1>2, <2>2, KeepEdits DEF KitInv
<1> QED BY <1>1, <1>3, <1>4, <1>5 DEF KitInv, Ends

\* _seed_kit_config_files.
LEMMA SeedInv ==
  ASSUME KitInv, ReportPhase, _seed_kit_config_files
  PROVE  KitInv'
<1>0. cmd.pc = "seed"
  BY DEF _seed_kit_config_files
<1>1. Moves("register")
  BY GotoMoves DEF _seed_kit_config_files, KitInv, PCs
<1>2. UNCHANGED <<disk, kitDir, core, entry, before, consent, open>>
  BY DEF _seed_kit_config_files
<1>3. config' \in {"absent", "default"}
  BY DEF _seed_kit_config_files, KitInv, TypeOK
<1>4. TypeOK'
  BY <1>1, <1>2, <1>3 DEF KitInv, TypeOK, Moves
<1>5. KitDirPhase' /\ CommandPhase'
  BY <1>0, <1>1, <1>2 DEF KitInv, KitDirPhase, CommandPhase, Moves
<1>6. InstallPhase'
  BY <1>0, <1>1, <1>2 DEF KitInv, InstallPhase, Moves
<1>7. EditsSurvive'
  BY <1>0, <1>2, KeepEdits, NotStopped DEF KitInv
<1> QED BY <1>1, <1>4, <1>5, <1>6, <1>7 DEF KitInv, Moves

\* The user's edits.
LEMMA EditInv ==
  ASSUME KitInv, NEW l \in Locs, NEW vs \in {"none", "raw"}, UserEdits(l, vs)
  PROVE  KitInv'
<1> DEFINE c == [body |-> "mine", vars |-> vs, toc |-> IF l \in DOMAIN disk THEN disk[l].toc ELSE FALSE]
<1>0. cmd.pc = "idle"
  BY DEF UserEdits
<1>1. c \in Content
  <2>1. (IF l \in DOMAIN disk THEN disk[l].toc ELSE FALSE) \in BOOLEAN
    BY DEF KitInv, TypeOK, Content
  <2> QED BY <2>1 DEF Content
<1>2. disk' = Put(disk, l, c) /\ (l \in DOMAIN disk \/ kitDir)
  BY DEF UserEdits
<1>3. before' = disk' /\ UNCHANGED <<kitDir, core, entry, config, cmd, consent, open>>
  BY DEF UserEdits
<1> HIDE DEF c
<1>5. Disk(disk')
  BY <1>1, <1>2, PutDisk DEF KitInv, TypeOK, Disk
<1>6. TypeOK'
  BY <1>3, <1>5 DEF KitInv, TypeOK, Disk
<1>7. CmdType(cmd') /\ CommandPhase'
  BY <1>3, <1>5 DEF KitInv, CommandPhase, Disk
<1>8. KitDirPhase'
  BY <1>0, <1>2, <1>3 DEF KitInv, KitDirPhase, Put
<1>9. InstallPhase'
  BY <1>0, <1>3 DEF KitInv, KitDirPhase, InstallPhase
<1>10. EditsSurvive'
  BY <1>3 DEF EditsSurvive
<1> QED BY <1>6, <1>7, <1>8, <1>9, <1>10 DEF KitInv

\* A command that is refused.
LEMMA RefuseInv ==
  ASSUME KitInv, NEW status, Refuse(status)
  PROVE  KitInv'
<1>1. /\ cmd.pc = "idle" /\ before' = disk /\ consent' = {}
      /\ UNCHANGED <<disk, kitDir, core, entry, config, cmd, open>>
  BY DEF Refuse
<1>2. TypeOK' /\ CmdType(cmd')
  BY <1>1 DEF KitInv, TypeOK
<1>3. KitDirPhase' /\ CommandPhase' /\ InstallPhase'
  BY <1>1 DEF KitInv, KitDirPhase, CommandPhase, InstallPhase, TypeOK
<1>4. EditsSurvive'
  BY <1>1 DEF EditsSurvive
<1> QED BY <1>2, <1>3, <1>4 DEF KitInv

\* A command that begins.
LEMMA BeginInv ==
  ASSUME KitInv, NEW c, Begin(c), CmdType(c),
         c.accepted = {}, c.declined = {},
         c.kind \in {"install", "update"}, c.pc # "idle",
         c.kind = "update" => /\ c.pc \in {"adopt", "diff", "copy", "regen"}
                              /\ c.status # "installed"
                              /\ (kitDir <=> c.pc # "copy") \/ c.pc = "regen",
         c.pc = "adopt" => c.rel.manifest.kind = "ok",
         c.kind = "install" => \/ c.pc = "copy" /\ c.rel.manifest.kind # "ok"
                               \/ /\ c.pc = "place" /\ c.rel.manifest.kind = "ok" /\ c.at = 1
                                  /\ validate_manifest(c.rel)
                               \/ c.pc = "regen" /\ c.status # "installed"
  PROVE  KitInv'
<1>1. /\ cmd' = c /\ before' = disk
      /\ consent' = IF c.kind = "install" THEN Files ELSE {}
      /\ UNCHANGED <<disk, kitDir, core, entry, config>>
  BY DEF Begin
<1>2. open' \subseteq Versions
  BY DEF Begin, KitInv, TypeOK, Versions, CmdType
<1>3. TypeOK' /\ CmdType(cmd')
  BY <1>1, <1>2 DEF KitInv, TypeOK
<1>4. KitDirPhase'
  BY <1>1 DEF KitInv, KitDirPhase
<1>5. CommandPhase'
  BY <1>1 DEF KitInv, CommandPhase, TypeOK
<1>6. InstallPhase'
  <2> SUFFICES ASSUME c.kind = "install", c.rel.manifest.kind = "ok"
               PROVE  InstallPhase'
    BY <1>1 DEF InstallPhase
  <2>1. CASE c.pc = "regen" /\ c.status # "installed"
    BY <2>1, <1>1 DEF InstallPhase
  <2>2. CASE c.pc = "place" /\ c.at = 1 /\ validate_manifest(c.rel)
    <3>1. CopiedAt(disk', c.rel, c.bound, c.at - 1)
      BY <2>2 DEF CopiedAt
    <3>2. Len(c.rel.manifest.resources) \in Nat
      BY KitAssumption DEF CmdType
    <3> QED BY <2>2, <3>1, <3>2, <1>1 DEF InstallPhase
  <2> QED BY <2>1, <2>2
<1>7. EditsSurvive'
  BY <1>1 DEF EditsSurvive
<1> QED BY <1>3, <1>4, <1>5, <1>6, <1>7 DEF KitInv

\* cmd_kit_install.
LEMMA InstallInv ==
  ASSUME KitInv, NEW rel \in Releases, NEW github \in BOOLEAN, NEW force \in BOOLEAN,
         NEW root \in Places, cmd_kit_install(rel, github, force, root)
  PROVE  KitInv'
<1>1. CASE (kitDir /\ ~force) \/ load_manifest(rel) = "bad"
  BY <1>1, RefuseInv DEF cmd_kit_install
<1>2. CASE ~(kitDir /\ ~force) /\ load_manifest(rel) # "bad"
  <2> DEFINE src == IF github THEN "github" ELSE ""
             rt == IF load_manifest(rel) = "ok" /\ rel.manifest.ask THEN root ELSE "kit"
             at == IF load_manifest(rel) = "none" THEN "copy"
                   ELSE IF validate_manifest(rel) THEN "place" ELSE "regen"
             st == IF load_manifest(rel) = "ok" /\ ~validate_manifest(rel) THEN "FAIL" ELSE "none"
             c == [NoCmd EXCEPT !.kind = "install", !.rel = rel, !.force = force,
                      !.interactive = TRUE, !.source = src, !.root = rt, !.pc = at, !.status = st]
  <2>1. Begin(c)
    BY <1>2 DEF cmd_kit_install
  <2>2. src \in {"", "github"} /\ rt \in Places
    BY DEF Places
  <2>3. \/ at = "copy" /\ rel.manifest.kind # "ok"
        \/ at = "place" /\ rel.manifest.kind = "ok" /\ validate_manifest(rel)
        \/ at = "regen" /\ st # "installed"
    BY <1>2, KitAssumption DEF load_manifest
  <2> HIDE DEF src, rt, at, st
  <2>4. /\ DOMAIN c = Fields /\ c.kind = "install" /\ c.rel = rel /\ c.source = src /\ c.root = rt
        /\ c.pc = at /\ c.status = st
        /\ \A x \in Fields \ {"kind", "rel", "force", "interactive", "source", "root", "pc", "status"} :
              c[x] = NoCmd[x]
    BY NoCmdFact DEF Fields
  <2> HIDE DEF c
  <2>5. /\ c.at = NoCmd.at /\ c.bound = NoCmd.bound /\ c.snapshot = NoCmd.snapshot
        /\ c.target = NoCmd.target /\ c.todo = NoCmd.todo
        /\ c.accepted = NoCmd.accepted /\ c.declined = NoCmd.declined
    BY <2>4 DEF Fields
  <2>6. CmdType(c) /\ c.accepted = {} /\ c.declined = {} /\ c.at = 1
    <3>1. CmdType(c)
      BY <2>2, <2>3, <2>4, <2>5, NoCmdType, NoCmdFact DEF CmdType
    <3> QED BY <3>1, <2>5, NoCmdFact
  <2> QED BY <2>1, <2>3, <2>4, <2>6, BeginInv
<1> QED BY <1>1, <1>2

\* cmd_kit_update.
LEMMA UpdateInv ==
  ASSUME KitInv, NEW rel \in Releases, NEW local \in BOOLEAN, NEW interactive \in BOOLEAN,
         NEW yes \in BOOLEAN, NEW force \in BOOLEAN,
         cmd_kit_update(rel, local, interactive, yes, force)
  PROVE  KitInv'
<1>1. CASE ~local /\ (~Entry.present \/ Entry.source = "")
  BY <1>1, RefuseInv DEF cmd_kit_update
<1>2. CASE ~(~local /\ (~Entry.present \/ Entry.source = ""))
  <2> DEFINE src == IF local THEN "" ELSE "github"
             b == [NoCmd EXCEPT !.kind = "update", !.rel = rel, !.force = force,
                      !.interactive = interactive, !.yes = yes, !.source = src]
             c == IF UpToDate(rel, force) THEN [b EXCEPT !.pc = "regen", !.status = "current"]
                  ELSE IF load_manifest(rel) = "bad" THEN [b EXCEPT !.pc = "regen", !.status = "ERROR"]
                  ELSE [b EXCEPT !.pc = AfterVersionCheck(rel)]
  <2>1. Begin(c)
    BY <1>2 DEF cmd_kit_update
  <2>2. src \in {"", "github"}
    OBVIOUS
  <2>3. /\ AfterVersionCheck(rel) \in {"adopt", "diff", "copy"}
        /\ kitDir <=> AfterVersionCheck(rel) # "copy"
        /\ AfterVersionCheck(rel) = "adopt" => rel.manifest.kind = "ok"
    BY DEF AfterVersionCheck, load_manifest
  <2> HIDE DEF src
  <2>4. /\ DOMAIN b = Fields /\ b.kind = "update" /\ b.rel = rel /\ b.source = src
        /\ \A x \in Fields \ {"kind", "rel", "force", "interactive", "yes", "source"} : b[x] = NoCmd[x]
    BY NoCmdFact DEF Fields
  <2> HIDE DEF b
  <2>5. /\ DOMAIN c = Fields /\ c.pc \in {"regen", AfterVersionCheck(rel)}
        /\ c.status \in {"current", "ERROR", b.status}
        /\ \A x \in Fields \ {"pc", "status"} : c[x] = b[x]
    BY <2>4 DEF Fields
  <2> HIDE DEF c
  <2>6. /\ c.kind = "update" /\ c.rel = rel /\ c.source = src /\ c.root = NoCmd.root
        /\ c.at = NoCmd.at /\ c.bound = NoCmd.bound /\ c.snapshot = NoCmd.snapshot
        /\ c.target = NoCmd.target /\ c.todo = NoCmd.todo
        /\ c.accepted = NoCmd.accepted /\ c.declined = NoCmd.declined
    BY <2>4, <2>5 DEF Fields
  <2>7. CmdType(c)
    BY <2>2, <2>3, <2>5, <2>6, NoCmdType, NoCmdFact DEF CmdType
  <2>8. c.accepted = {} /\ c.declined = {} /\ c.status # "installed"
    <3>1. b.status = "none"
      BY <2>4, NoCmdFact DEF Fields
    <3> QED BY <2>5, <2>6, <3>1, NoCmdFact
  <2> QED BY <2>1, <2>3, <2>5, <2>6, <2>7, <2>8, BeginInv
<1> QED BY <1>1, <1>2

\* CopyContent: an install has leave, an update found no directory.
LEMMA CopyInv ==
  ASSUME KitInv, ReportPhase, CopyContent
  PROVE  KitInv'
<1>0. /\ cmd.pc = "copy" /\ kitDir' = TRUE
      /\ UNCHANGED <<core, entry, config, before, consent, open>>
  BY DEF CopyContent
<1>1. disk' = _copy_kit_content(disk, cmd.rel) \/ disk' \in HalfContent(disk, cmd.rel)
  BY DEF CopyContent
<1>2. Moves("seed") \/ Moves("regen") \/ Ends
  BY GotoMoves, RaisedEndsOrLeaves DEF CopyContent, KitInv, PCs
<1>3. Disk(disk') /\ \A l \in Locs : l[1] # "kit" => Safe(disk, disk', l)
  BY <1>1, ContentFact DEF KitInv, TypeOK, Disk, CmdType
<1>4. CmdType(cmd') /\ cmd'.accepted \cap cmd'.declined = {}
  BY <1>2 DEF Moves, Ends, KitInv, TypeOK
<1>5. TypeOK'
  BY <1>0, <1>3, <1>4 DEF KitInv, TypeOK, Disk
<1>6. Ends => KitDirPhase' /\ CommandPhase' /\ InstallPhase'
  BY <1>0, EndsPhase DEF KitInv, CommandPhase
<1>7. ASSUME Moves("seed") \/ Moves("regen")
      PROVE  KitDirPhase' /\ CommandPhase' /\ InstallPhase'
  <2>1. KitDirPhase'
    BY <1>0, <1>7 DEF KitInv, KitDirPhase, Moves
  <2>2. CommandPhase'
    BY <1>0, <1>7 DEF KitInv, CommandPhase, Moves
  <2>3. InstallPhase'
    BY <1>0, <1>7 DEF KitInv, InstallPhase, Moves
  <2> QED BY <2>1, <2>2, <2>3
<1>8. EditsSurvive'
  <2>1. CASE cmd.kind = "install"
    BY <1>0, <2>1, InstallKeepsEdits DEF KitInv
  <2>2. CASE cmd.kind # "install"
    <3>1. cmd.kind = "update"
      BY <1>0, <2>2 DEF KitInv, CmdType, KitDirPhase
    <3>2. \A l \in DOMAIN disk : l \in Locs /\ l[1] # "kit"
      BY <1>0, <3>1 DEF KitInv, KitDirPhase, TypeOK
    <3>3. \A l \in DOMAIN disk : l \in DOMAIN disk' /\ disk'[l] = disk[l]
      BY <1>3, <3>2 DEF Safe
    <3> QED BY <1>0, <3>3, KeepEdits, NotStopped DEF KitInv
  <2> QED BY <2>1, <2>2
<1> QED BY <1>2, <1>4, <1>5, <1>6, <1>7, <1>8 DEF KitInv

\* PlaceResource: one more resource is where it is bound.
LEMMA PlaceCopies ==
  ASSUME NEW d, Disk(d), NEW rel \in Releases, rel.manifest.kind = "ok", validate_manifest(rel),
         NEW n \in Nat \ {0}, n <= Len(rel.manifest.resources),
         NEW bound, CopiedAt(d, rel, bound, n - 1), NEW place \in Places
  PROVE  CopiedAt(Copied(d, rel, rel.manifest.resources[n], place), rel,
                  Put(bound, rel.manifest.resources[n].id, place), n)
<1> DEFINE r == rel.manifest.resources[n]
           e == Copied(d, rel, r, place)
           b == Put(bound, r.id, place)
<1> SUFFICES ASSUME NEW i \in 1..n, NEW f \in DOMAIN rel.files,
                    Covers(rel.manifest.resources[i], f)
             PROVE  /\ rel.manifest.resources[i].id \in DOMAIN b
                    /\ <<b[rel.manifest.resources[i].id], f>> \in DOMAIN e
                    /\ e[<<b[rel.manifest.resources[i].id], f>>].body = rel.files[f].body
  BY DEF CopiedAt
<1>1. \A g \in DOMAIN rel.files : Covers(r, g) =>
          /\ <<place, g>> \in DOMAIN e /\ e[<<place, g>>] = rel.files[g]
  BY CopiedFact
<1>2. \A l \in Locs : ~(l[1] = place /\ Covers(r, l[2])) => Safe(d, e, l)
  BY CopiedFact
<1>3. r.id \in DOMAIN b /\ b[r.id] = place /\ \A k \in DOMAIN bound : k # r.id => k \in DOMAIN b /\ b[k] = bound[k]
  BY DEF Put
<1> HIDE DEF e, b
<1>4. CASE i = n
  BY <1>1, <1>3, <1>4
<1>5. CASE i # n
  <2>1. i \in 1..(n - 1)
    BY <1>5
  <2> DEFINE id == rel.manifest.resources[i].id
             l == <<bound[id], f>>
  <2>2. id \in DOMAIN bound /\ l \in DOMAIN d /\ d[l].body = rel.files[f].body
    BY <2>1 DEF CopiedAt
  <2>3. id # r.id
    <3>1. DOMAIN rel.manifest.resources = 1..Len(rel.manifest.resources) /\ Len(rel.manifest.resources) \in Nat
      BY KitAssumption
    <3>2. i \in DOMAIN rel.manifest.resources /\ n \in DOMAIN rel.manifest.resources
      BY <3>1
    <3> QED BY <3>2, <1>5 DEF validate_manifest
  <2>4. id \in DOMAIN b /\ b[id] = bound[id]
    BY <1>3, <2>2, <2>3
  <2>5. l \in DOMAIN e /\ e[l].body = rel.files[f].body
    <3>1. CASE bound[id] = place /\ Covers(r, f)
      BY <3>1, <1>1
    <3>2. CASE ~(bound[id] = place /\ Covers(r, f))
      <4>1. l \in Locs /\ l[1] = bound[id] /\ l[2] = f
        BY <2>2 DEF Disk
      <4>2. Safe(d, e, l)
        BY <3>2, <4>1, <1>2
      <4> QED BY <2>2, <4>2 DEF Safe
    <3> QED BY <3>1, <3>2
  <2> QED BY <2>4, <2>5
<1> QED BY <1>4, <1>5

\* The next resource of a manifest.
Advances(id, place) ==
  /\ CmdType(cmd') /\ cmd'.at = cmd.at + 1 /\ cmd'.bound = Put(cmd.bound, id, place)
  /\ cmd'.pc = cmd.pc /\ cmd'.rel = cmd.rel /\ cmd'.kind = cmd.kind /\ cmd'.root = cmd.root
  /\ cmd'.accepted = cmd.accepted /\ cmd'.declined = cmd.declined /\ cmd'.status = cmd.status

\* The next position.
LEMMA AtSucc ==
  ASSUME CmdType(cmd)
  PROVE  cmd.at + 1 \in Nat \ {0}
<1>1. cmd.at \in Nat \ {0}
  BY DEF CmdType
<1>2. \A n \in Nat \ {0} : n + 1 \in Nat \ {0}
  OBVIOUS
<1> QED BY <1>1, <1>2

\* A resource is bound and the position moves on.
LEMMA AdvanceMoves ==
  ASSUME CmdType(cmd), NEW id, NEW place \in Places,
         cmd' = [cmd EXCEPT !.at = @ + 1, !.bound = Put(@, id, place)]
  PROVE  Advances(id, place)
<1> DEFINE n == cmd.at + 1
           b == Put(cmd.bound, id, place)
<1>1. DOMAIN cmd = Fields /\ cmd' = [cmd EXCEPT !.at = n, !.bound = b]
  BY NoCmdFact DEF CmdType
<1>2. n \in Nat \ {0}
  BY AtSucc
<1>3. \A i \in DOMAIN b : b[i] \in Places
  BY DEF CmdType, Put
<1> HIDE DEF n, b
<1>4. DOMAIN cmd' = Fields /\ cmd'.at = n /\ cmd'.bound = b /\ \A x \in Fields \ {"at", "bound"} : cmd'[x] = cmd[x]
  BY <1>1 DEF Fields
<1>5. /\ cmd'.pc = cmd.pc /\ cmd'.rel = cmd.rel /\ cmd'.kind = cmd.kind /\ cmd'.root = cmd.root
      /\ cmd'.accepted = cmd.accepted /\ cmd'.declined = cmd.declined /\ cmd'.source = cmd.source
      /\ cmd'.snapshot = cmd.snapshot /\ cmd'.target = cmd.target /\ cmd'.todo = cmd.todo
      /\ cmd'.status = cmd.status
  BY <1>4 DEF Fields
<1>6. CmdType(cmd')
  BY <1>2, <1>3, <1>4, <1>5, NoCmdFact DEF CmdType
<1> QED BY <1>4, <1>5, <1>6 DEF Advances, n, b

\* PlaceResource.
LEMMA PlaceInv ==
  ASSUME KitInv, NEW place \in Places, PlaceResource(place)
  PROVE  KitInv'
<1> DEFINE rs == cmd.rel.manifest.resources
           r == rs[cmd.at]
<1>0. /\ cmd.pc = "place" /\ cmd.at <= Len(rs)
      /\ kitDir' = (kitDir \/ cmd.root = "kit" \/ place = "kit")
      /\ UNCHANGED <<core, entry, config, before, consent, open>>
  BY DEF PlaceResource
<1>1. \/ disk' = Copied(disk, cmd.rel, r, place) /\ cmd' = [cmd EXCEPT !.at = @ + 1, !.bound = Put(@, r.id, place)]
      \/ disk' \in HalfCopied(disk, cmd.rel, r, place) /\ Died
  BY DEF PlaceResource
<1>2. CmdType(cmd) /\ Disk(disk) /\ cmd.rel \in Releases /\ cmd.at \in Nat \ {0}
  BY DEF KitInv, TypeOK, Disk, CmdType
<1>3. cmd.kind = "install" /\ cmd.rel.manifest.kind = "ok" /\ validate_manifest(cmd.rel)
      /\ CopiedAt(disk, cmd.rel, cmd.bound, cmd.at - 1)
  BY <1>0 DEF KitInv, CommandPhase, InstallPhase
<1>4. Disk(disk') /\ \A l \in DOMAIN disk' : l \in DOMAIN disk \/ l[1] = place
  BY <1>1, <1>2, CopiedFact, HalfCopiedFact
<1>5. ~kitDir' => \A l \in DOMAIN disk' : l[1] # "kit"
  BY <1>0, <1>4 DEF KitInv, KitDirPhase
<1>6. kitDir' \in BOOLEAN
  BY <1>0 DEF KitInv, TypeOK
<1>7. EditsSurvive'
  BY <1>0, <1>3, InstallKeepsEdits DEF KitInv
<1>8. CASE Died
  <2>1. Ends
    BY <1>8, IdleEnds DEF Died
  <2>2. TypeOK'
    BY <1>0, <1>4, <1>6, <2>1 DEF KitInv, TypeOK, Disk, Ends
  <2>3. KitDirPhase' /\ CommandPhase' /\ InstallPhase'
    BY <1>0, <1>5, <2>1, EndsPhase DEF KitInv, CommandPhase
  <2> QED BY <1>7, <2>1, <2>2, <2>3 DEF KitInv, Ends
<1>9. CASE disk' = Copied(disk, cmd.rel, r, place) /\ cmd' = [cmd EXCEPT !.at = @ + 1, !.bound = Put(@, r.id, place)]
  <2>1. Advances(r.id, place)
    BY <1>2, <1>9, AdvanceMoves
  <2>2. TypeOK'
    BY <1>0, <1>4, <1>6, <2>1 DEF KitInv, TypeOK, Disk, Advances
  <2>3. KitDirPhase' /\ CommandPhase'
    BY <1>0, <1>3, <1>5, <2>1 DEF KitInv, KitDirPhase, CommandPhase, Advances
  <2>4. CopiedAt(disk', cmd'.rel, cmd'.bound, cmd.at)
    BY <1>0, <1>2, <1>3, <1>9, <2>1, PlaceCopies DEF Advances
  <2>5. cmd'.at - 1 = cmd.at /\ Len(rs) \in Nat /\ cmd'.at <= Len(rs) + 1
    <3>1. Len(rs) \in Nat
      BY <1>2, <1>3, KitAssumption
    <3> QED BY <3>1, <1>0, <1>2, <2>1 DEF Advances
  <2>6. cmd'.bound # <<>>
    <3>1. r.id \in DOMAIN cmd'.bound
      BY <2>1 DEF Advances, Put
    <3>2. \A x : x = <<>> => DOMAIN x = {}
      OBVIOUS
    <3> QED BY <3>1, <3>2
  <2>7. InstallPhase'
    BY <1>0, <1>3, <2>1, <2>4, <2>5, <2>6 DEF InstallPhase, Advances
  <2> QED BY <1>7, <2>1, <2>2, <2>3, <2>7 DEF KitInv, Advances
<1> QED BY <1>1, <1>8, <1>9

\* Resolving variables changes no text.
LEMMA ResolvedFact ==
  ASSUME NEW d, Disk(d), NEW S
  PROVE  /\ Disk(Resolved(d, S)) /\ DOMAIN Resolved(d, S) = DOMAIN d
         /\ \A l \in DOMAIN d : Resolved(d, S)[l].body = d[l].body
<1>1. \A l \in DOMAIN d : Resolved(d, S)[l] \in Content /\ Resolved(d, S)[l].body = d[l].body
  <2> SUFFICES ASSUME NEW l \in DOMAIN d
               PROVE  Resolved(d, S)[l] \in Content /\ Resolved(d, S)[l].body = d[l].body
    OBVIOUS
  <2>1. d[l] \in Content
    BY DEF Disk
  <2>2. [d[l] EXCEPT !.vars = "resolved"] \in Content /\ [d[l] EXCEPT !.vars = "resolved"].body = d[l].body
    BY <2>1 DEF Content
  <2> QED BY <2>1, <2>2 DEF Resolved
<1> QED BY <1>1 DEF Disk, Resolved

\* A torn file is a file.
LEMMA TornFact ==
  ASSUME NEW d, Disk(d), NEW S
  PROVE  Disk(Torn(d, S)) /\ DOMAIN Torn(d, S) = DOMAIN d
<1>1. \A l \in DOMAIN d : Torn(d, S)[l] \in Content
  <2> SUFFICES ASSUME NEW l \in DOMAIN d PROVE Torn(d, S)[l] \in Content
    OBVIOUS
  <2>1. d[l] \in Content
    BY DEF Disk
  <2>2. [d[l] EXCEPT !.body = "torn"] \in Content
    BY <2>1 DEF Content
  <2> QED BY <2>1, <2>2 DEF Torn
<1> QED BY <1>1 DEF Disk, Torn

\* ... so the resources stay where they are bound.
LEMMA ResolvedCopiedAt ==
  ASSUME NEW d, Disk(d), NEW S, NEW rel, NEW bound, NEW n, CopiedAt(d, rel, bound, n)
  PROVE  CopiedAt(Resolved(d, S), rel, bound, n)
<1> DEFINE e == Resolved(d, S)
<1>1. DOMAIN e = DOMAIN d /\ \A l \in DOMAIN d : e[l].body = d[l].body
  BY ResolvedFact
<1> HIDE DEF e
<1> QED BY <1>1 DEF CopiedAt, e

\* What _resolve_template_variables makes of the disk.
LEMMA ResolveDisk ==
  ASSUME KitInv, NEW root, NEW next, _resolve_template_variables(root, next)
  PROVE  /\ Disk(disk') /\ DOMAIN disk' = DOMAIN disk
         /\ \/ Goto(next) /\ \E S \in SUBSET WithVariables(disk, root) : disk' = Resolved(disk, S)
            \/ /\ Raised \/ Died
               /\ \E S, T \in SUBSET WithVariables(disk, root) :
                     S \cap T = {} /\ disk' \in {Resolved(disk, S), Torn(Resolved(disk, S), T)}
<1> DEFINE all == WithVariables(disk, root)
<1>1. \/ Goto(next) /\ \E S \in SUBSET all : disk' = Resolved(disk, S)
      \/ /\ Raised \/ Died
         /\ \E S \in SUBSET all : \E l \in all \ S : disk' \in {Resolved(disk, S), Torn(Resolved(disk, S), {l})}
  BY DEF _resolve_template_variables
<1> HIDE DEF all
<1>2. \/ Goto(next) /\ \E S \in SUBSET all : disk' = Resolved(disk, S)
      \/ /\ Raised \/ Died
         /\ \E S, T \in SUBSET all : S \cap T = {} /\ disk' \in {Resolved(disk, S), Torn(Resolved(disk, S), T)}
  <2>1. CASE Goto(next) /\ \E S \in SUBSET all : disk' = Resolved(disk, S)
    BY <2>1
  <2>2. CASE /\ Raised \/ Died
             /\ \E S \in SUBSET all : \E l \in all \ S : disk' \in {Resolved(disk, S), Torn(Resolved(disk, S), {l})}
    <3>1. PICK S \in SUBSET all, l \in all : l \notin S /\ disk' \in {Resolved(disk, S), Torn(Resolved(disk, S), {l})}
      BY <2>2
    <3>2. {l} \in SUBSET all /\ S \cap {l} = {}
      BY <3>1
    <3> QED BY <2>2, <3>1, <3>2
  <2> QED BY <1>1, <2>1, <2>2
<1>3. PICK S, T \in SUBSET all : disk' \in {Resolved(disk, S), Torn(Resolved(disk, S), T)}
  BY <1>2
<1>4. Disk(disk)
  BY DEF KitInv, TypeOK, Disk
<1>5. Disk(Resolved(disk, S)) /\ DOMAIN Resolved(disk, S) = DOMAIN disk
  BY <1>4, ResolvedFact
<1>6. Disk(Torn(Resolved(disk, S), T)) /\ DOMAIN Torn(Resolved(disk, S), T) = DOMAIN disk
  BY <1>5, TornFact
<1> QED BY <1>2, <1>3, <1>5, <1>6 DEF all

\* ... and of the command.
LEMMA ResolveMoves ==
  ASSUME CmdType(cmd), NEW root, NEW next \in PCs, _resolve_template_variables(root, next)
  PROVE  Moves(next) \/ Ends \/ (Moves("regen") /\ cmd'.status = "ERROR")
<1>1. Goto(next) \/ Raised \/ Died
  BY DEF _resolve_template_variables
<1> QED BY <1>1, GotoMoves, RaisedEndsOrLeaves

\* ResolveInstalled: all resources are placed.
LEMMA ResolveInstalledInv ==
  ASSUME KitInv, ResolveInstalled
  PROVE  KitInv'
<1> DEFINE rs == cmd.rel.manifest.resources
<1>0. /\ cmd.pc = "place" /\ cmd.at > Len(rs) /\ _resolve_template_variables(cmd.root, "seed")
      /\ UNCHANGED <<kitDir, core, entry, config, before, consent, open>>
  BY DEF ResolveInstalled
<1>2. CmdType(cmd) /\ Disk(disk) /\ cmd.rel \in Releases /\ cmd.at \in Nat \ {0}
  BY DEF KitInv, TypeOK, Disk, CmdType
<1>3. Disk(disk') /\ DOMAIN disk' = DOMAIN disk
  BY <1>0, ResolveDisk
<1>4. /\ cmd.kind = "install" /\ cmd.rel.manifest.kind = "ok" /\ validate_manifest(cmd.rel)
      /\ CopiedAt(disk, cmd.rel, cmd.bound, cmd.at - 1) /\ cmd.at <= Len(rs) + 1
      /\ cmd.at > 1 => cmd.bound # <<>>
  BY <1>0 DEF KitInv, CommandPhase, InstallPhase
<1>1. \/ Moves("seed") /\ \E S : disk' = Resolved(disk, S)
      \/ Ends
  <2>1. (Goto("seed") /\ \E S : disk' = Resolved(disk, S)) \/ Died
    BY <1>0, <1>4, ResolveDisk DEF Raised
  <2> QED BY <1>2, <2>1, GotoMoves, IdleEnds DEF Died, PCs
<1>5. Len(rs) \in Nat \ {0}
  BY <1>2, <1>4, KitAssumption
<1>6. cmd.at - 1 = Len(rs) /\ cmd.at > 1
  BY <1>0, <1>2, <1>4, <1>5
<1>8. TypeOK' /\ CmdType(cmd')
  BY <1>0, <1>1, <1>3 DEF KitInv, TypeOK, Disk, Moves, Ends
<1>9. KitDirPhase'
  BY <1>0, <1>1, <1>3 DEF KitInv, KitDirPhase, Moves, Ends
<1>10. CommandPhase'
  BY <1>0, <1>1 DEF KitInv, CommandPhase, Moves, Ends
<1>11. InstallPhase'
  <2>1. CASE Ends
    BY <2>1 DEF InstallPhase, Ends
  <2>2. CASE Moves("seed") /\ \E S : disk' = Resolved(disk, S)
    <3>1. CopiedAt(disk', cmd.rel, cmd.bound, Len(rs))
      BY <1>2, <1>4, <1>6, <2>2, ResolvedCopiedAt
    <3> QED BY <1>4, <1>6, <2>2, <3>1 DEF InstallPhase, Moves
  <2> QED BY <1>1, <2>1, <2>2
<1>12. EditsSurvive'
  BY <1>0, <1>4, InstallKeepsEdits DEF KitInv
<1> QED BY <1>8, <1>9, <1>10, <1>11, <1>12 DEF KitInv

\* A file the user did not give up, when the variables are resolved: as it was
\* found, or with its own variables resolved, or torn by a command that stops.
LEMMA ResolveKeepsEdits ==
  ASSUME KitInv, ~Stopped, UNCHANGED <<before, consent>>,
         NEW S, NEW T, S \cap T = {}, S \cup T \subseteq WithVariables(disk, "kit"),
         disk' \in {Resolved(disk, S), Torn(Resolved(disk, S), T)},
         disk' = Resolved(disk, S) \/ Stopped'
  PROVE  EditsSurvive'
<1> SUFFICES ASSUME NEW l \in DOMAIN before, Mine(before[l]), l[2] \notin consent
             PROVE  /\ l \in DOMAIN disk'
                    /\ \/ disk'[l] = before[l]
                       \/ /\ l \in WithVariables(before, "kit")
                          /\ \/ disk'[l] = [before[l] EXCEPT !.vars = "resolved"]
                             \/ disk'[l] = [before[l] EXCEPT !.body = "torn"] /\ Stopped'
  BY DEF EditsSurvive, WithVariables
<1>1. l \in DOMAIN disk /\ \/ disk[l] = before[l]
                           \/ /\ l \in WithVariables(before, "kit")
                              /\ disk[l] = [before[l] EXCEPT !.vars = "resolved"]
  BY DEF KitInv, EditsSurvive
<1>2. l \in DOMAIN disk' /\ disk'[l] \in {disk[l], [disk[l] EXCEPT !.vars = "resolved"], [disk[l] EXCEPT !.body = "torn"]}
      /\ (disk'[l] # disk[l] => l \in WithVariables(disk, "kit"))
      /\ (disk'[l] \notin {disk[l], [disk[l] EXCEPT !.vars = "resolved"]} => Stopped')
  <2>1. l \in S => l \notin T
    OBVIOUS
  <2>2. CASE disk' = Resolved(disk, S)
    BY <1>1, <2>2 DEF Resolved
  <2>3. CASE disk' = Torn(Resolved(disk, S), T) /\ Stopped'
    <3>1. l \in DOMAIN Resolved(disk, S) /\ Resolved(disk, S)[l] = IF l \in S THEN [disk[l] EXCEPT !.vars = "resolved"] ELSE disk[l]
      BY <1>1 DEF Resolved
    <3>2. l \in DOMAIN disk' /\ disk'[l] = IF l \in T THEN [Resolved(disk, S)[l] EXCEPT !.body = "torn"] ELSE Resolved(disk, S)[l]
      BY <2>3, <3>1 DEF Torn
    <3> QED BY <2>1, <2>3, <3>1, <3>2
  <2> QED BY <2>2, <2>3
<1>3. CASE disk'[l] = disk[l]
  BY <1>1, <1>2, <1>3
<1>4. CASE disk'[l] # disk[l]
  <2>1. disk[l].vars = "raw" /\ l[1] = "kit"
    BY <1>2, <1>4 DEF WithVariables
  <2>2. disk[l] = before[l]
    <3>1. before[l].vars = "raw" => [before[l] EXCEPT !.vars = "resolved"].vars = "resolved"
      <4> SUFFICES ASSUME disk[l] = [before[l] EXCEPT !.vars = "resolved"]
                   PROVE  [before[l] EXCEPT !.vars = "resolved"].vars = "resolved"
        BY <1>1, <2>1
      <4>1. disk[l] \in Content
        BY <1>1 DEF KitInv, TypeOK
      <4>2. "vars" \in DOMAIN disk[l]
        BY <4>1 DEF Content
      <4> QED BY <4>2
    <3> QED BY <1>1, <2>1, <3>1 DEF WithVariables
  <2>3. l \in WithVariables(before, "kit")
    BY <2>1, <2>2 DEF WithVariables
  <2> QED BY <1>2, <1>4, <2>2, <2>3
<1> QED BY <1>3, <1>4

\* ResolveAdopted.
LEMMA ResolveAdoptedInv ==
  ASSUME KitInv, ReportPhase, ResolveAdopted
  PROVE  KitInv'
<1>0. /\ cmd.pc = "resolve" /\ _resolve_template_variables("kit", "diff")
      /\ UNCHANGED <<kitDir, core, entry, config, before, consent, open>>
  BY DEF ResolveAdopted
<1>1. Moves("diff") \/ Ends \/ (Moves("regen") /\ cmd'.status = "ERROR")
  BY <1>0, ResolveMoves DEF KitInv, PCs
<1>2. cmd.kind = "update"
  BY <1>0 DEF KitInv, CommandPhase
<1>3. Disk(disk') /\ DOMAIN disk' = DOMAIN disk
  BY <1>0, ResolveDisk
<1>4. TypeOK' /\ CmdType(cmd')
  BY <1>0, <1>1, <1>3 DEF KitInv, TypeOK, Disk, Moves, Ends
<1>5. KitDirPhase'
  BY <1>0, <1>1, <1>3 DEF KitInv, KitDirPhase, Moves, Ends
<1>6. CommandPhase'
  BY <1>0, <1>1 DEF KitInv, CommandPhase, Moves, Ends
<1>7. InstallPhase'
  BY <1>0, <1>1, <1>2 DEF InstallPhase, Moves, Ends
<1>8. EditsSurvive'
  <2>1. ~Stopped
    BY <1>0, NotStopped
  <2>2. CASE Goto("diff") /\ \E S \in SUBSET WithVariables(disk, "kit") : disk' = Resolved(disk, S)
    <3>1. PICK S \in SUBSET WithVariables(disk, "kit") : disk' = Resolved(disk, S)
      BY <2>2
    <3>2. S \cap {} = {} /\ S \cup {} \subseteq WithVariables(disk, "kit")
      BY <3>1
    <3> QED BY <1>0, <2>1, <3>1, <3>2, ResolveKeepsEdits
  <2>3. CASE /\ Raised \/ Died
             /\ \E S, T \in SUBSET WithVariables(disk, "kit") :
                   S \cap T = {} /\ disk' \in {Resolved(disk, S), Torn(Resolved(disk, S), T)}
    <3>1. Stopped'
      <4>1. CASE Died
        BY <4>1 DEF Died, Stopped
      <4>2. CASE Leave("ERROR")
        <5>1. cmd'.status = "ERROR"
          BY <4>2, LeaveMoves DEF KitInv
        <5> QED BY <5>1 DEF Stopped
      <4> QED BY <2>3, <4>1, <4>2 DEF Raised
    <3>2. PICK S, T \in SUBSET WithVariables(disk, "kit") :
             S \cap T = {} /\ disk' \in {Resolved(disk, S), Torn(Resolved(disk, S), T)}
      BY <2>3
    <3>3. S \cup T \subseteq WithVariables(disk, "kit")
      BY <3>2
    <3> QED BY <1>0, <2>1, <3>1, <3>2, <3>3, ResolveKeepsEdits
  <2> QED BY <1>0, <2>2, <2>3, ResolveDisk
<1> QED BY <1>4, <1>5, <1>6, <1>7, <1>8 DEF KitInv

\* _register_kit_in_core_toml, whole, torn or interrupted before the entry.
Writes(version, source, resources) ==
  \/ core' = core /\ entry' = IF core = "torn" THEN entry ELSE Merged(version, source, resources)
  \/ core' = "torn" /\ entry' = entry
  \/ core' = "lost" /\ entry' = NoEntry

\* The entry that is not there.
LEMMA NoEntryFact ==
  /\ NoEntry.version = "" /\ NoEntry.source = ""
  /\ \A r \in DOMAIN NoEntry.resources : NoEntry.resources[r] \in Places
<1>1. DOMAIN <<>> = {}
  OBVIOUS
<1>2. NoEntry.resources = <<>>
  BY DEF NoEntry
<1> QED BY <1>1, <1>2 DEF NoEntry

\* What is written to core.toml has its type.
LEMMA WritesType ==
  ASSUME TypeOK, NEW version \in Versions, NEW source \in {"", "github"}, NEW resources,
         \A i \in DOMAIN resources : resources[i] \in Places, Writes(version, source, resources)
  PROVE  /\ core' \in {"ok", "torn", "lost"}
         /\ entry'.version \in Versions /\ entry'.source \in {"", "github"}
         /\ \A r \in DOMAIN entry'.resources : entry'.resources[r] \in Places
<1>1. CASE core' = core /\ entry' = IF core = "torn" THEN entry ELSE Merged(version, source, resources)
  BY <1>1 DEF TypeOK, Merged
<1>2. CASE core' = "torn" /\ entry' = entry
  BY <1>2 DEF TypeOK
<1>3. CASE core' = "lost" /\ entry' = NoEntry
  <2>1. "" \in Versions
    BY DEF Versions
  <2> QED BY <1>3, <2>1, NoEntryFact
<1> QED BY <1>1, <1>2, <1>3 DEF Writes

\* The versions that are recorded.
LEMMA VersionsFact ==
  ASSUME KitInv
  PROVE  cmd.rel.version \in Versions /\ InstallVersion \in Versions /\ "" \in Versions
BY DEF KitInv, CmdType, Versions, InstallVersion

\* The end of an installation.
LEMMA RegisterInstalledInv ==
  ASSUME KitInv, ReportPhase, RegisterInstalled
  PROVE  KitInv'
<1>0. /\ cmd.pc = "register"
      /\ UNCHANGED <<disk, kitDir, config, before, consent>>
  BY DEF RegisterInstalled, Register
<1>1. open' \subseteq open
  BY DEF RegisterInstalled, Register
<1>2. cmd.kind = "install" => Writes(InstallVersion, cmd.source, cmd.bound)
  BY DEF RegisterInstalled, Register, Writes, _register_kit_in_core_toml
<1>3. cmd.kind # "install" => Writes(cmd.rel.version, "", <<>>)
  BY DEF RegisterInstalled, Register, Writes, _register_kit_in_core_toml
<1>4. CmdType(cmd)
  BY DEF KitInv
<1>5. Ends \/ Moves("regen")
  <2>1. Died \/ (cmd.kind = "install" /\ Leave("installed")) \/ Leave("created")
    BY DEF RegisterInstalled, Register
  <2>2. "created" # "installed"
    OBVIOUS
  <2> QED BY <1>4, <2>1, <2>2, LeaveMoves, IdleEnds DEF Died
<1>6. /\ core' \in {"ok", "torn", "lost"}
      /\ entry'.version \in Versions /\ entry'.source \in {"", "github"}
      /\ \A r \in DOMAIN entry'.resources : entry'.resources[r] \in Places
  <2>1. TypeOK /\ InstallVersion \in Versions /\ cmd.rel.version \in Versions
    BY VersionsFact DEF KitInv
  <2>2. cmd.source \in {"", "github"} /\ \A i \in DOMAIN cmd.bound : cmd.bound[i] \in Places
    BY <1>4 DEF CmdType
  <2>3. CASE cmd.kind = "install"
    BY <1>2, <2>1, <2>2, <2>3, WritesType
  <2>4. CASE cmd.kind # "install"
    <3>1. \A i \in DOMAIN <<>> : <<>>[i] \in Places
      OBVIOUS
    <3>2. "" \in {"", "github"}
      OBVIOUS
    <3> QED BY <1>3, <2>1, <2>4, <3>1, <3>2, WritesType
  <2> QED BY <2>3, <2>4
<1>7. TypeOK' /\ CmdType(cmd')
  BY <1>0, <1>1, <1>5, <1>6 DEF KitInv, TypeOK, Ends, Moves
<1>8. KitDirPhase' /\ CommandPhase'
  BY <1>0, <1>5 DEF KitInv, KitDirPhase, CommandPhase, Ends, Moves
<1>9. InstallPhase'
  <2>1. CASE Ends
    BY <2>1 DEF Ends, InstallPhase
  <2>2. CASE Moves("regen") /\ cmd.kind = "install" /\ cmd.rel.manifest.kind = "ok"
    <3>1. CopiedAt(disk, cmd.rel, cmd.bound, Len(cmd.rel.manifest.resources)) /\ cmd.bound # <<>>
      BY <1>0, <2>2 DEF KitInv, InstallPhase
    <3>2. core' = "ok" => entry'.resources = cmd.bound
      <4>1. core' = "ok" => entry' = Merged(InstallVersion, cmd.source, cmd.bound)
        BY <1>2, <2>2 DEF Writes
      <4>2. Merged(InstallVersion, cmd.source, cmd.bound).resources = cmd.bound
        BY <3>1 DEF Merged
      <4> QED BY <4>1, <4>2
    <3>3. CopiedAt(disk', cmd'.rel, cmd.bound, Len(cmd'.rel.manifest.resources))
      BY <1>0, <2>2, <3>1 DEF Moves
    <3>4. core' = "ok" => CopiedAt(disk', cmd'.rel, entry'.resources, Len(cmd'.rel.manifest.resources))
      BY <3>2, <3>3
    <3> QED BY <2>2, <3>4 DEF Moves, InstallPhase
  <2>3. CASE Moves("regen") /\ ~(cmd.kind = "install" /\ cmd.rel.manifest.kind = "ok")
    BY <2>3 DEF Moves, InstallPhase
  <2> QED BY <1>5, <2>1, <2>2, <2>3
<1>10. EditsSurvive'
  BY <1>0, KeepEdits, NotStopped DEF KitInv
<1> QED BY <1>7, <1>8, <1>9, <1>10 DEF KitInv

\* What RegisterAdopted and RegisterReviewed have in common.
LEMMA UpdateRegisterInv ==
  ASSUME KitInv, ReportPhase, cmd.kind = "update", cmd.pc \in {"adopt", "review"},
         UNCHANGED <<disk, kitDir, config, before, consent>>, open' \subseteq open,
         NEW version \in Versions, NEW resources, \A i \in DOMAIN resources : resources[i] \in Places,
         NEW source \in {"", "github"}, Writes(version, source, resources) \/ UNCHANGED <<core, entry>>,
         Ends \/ (Moves("resolve") /\ cmd.pc = "adopt") \/ Moves("regen")
  PROVE  KitInv'
<1>1. /\ core' \in {"ok", "torn", "lost"}
      /\ entry'.version \in Versions /\ entry'.source \in {"", "github"}
      /\ \A r \in DOMAIN entry'.resources : entry'.resources[r] \in Places
  BY WritesType DEF KitInv, TypeOK
<1>2. TypeOK' /\ CmdType(cmd')
  BY <1>1 DEF KitInv, TypeOK, Ends, Moves
<1>3. KitDirPhase'
  BY DEF KitInv, KitDirPhase, Ends, Moves
<1>4. CommandPhase'
  BY DEF KitInv, CommandPhase, Ends, Moves
<1>5. InstallPhase'
  BY DEF InstallPhase, Ends, Moves
<1>6. EditsSurvive'
  BY KeepEdits, NotStopped DEF KitInv
<1> QED BY <1>2, <1>3, <1>4, <1>5, <1>6 DEF KitInv

\* RegisterAdopted.
LEMMA RegisterAdoptedInv ==
  ASSUME KitInv, ReportPhase, RegisterAdopted
  PROVE  KitInv'
<1>1. /\ cmd.pc = "adopt" /\ open' \subseteq open
      /\ UNCHANGED <<disk, kitDir, config, before, consent>>
  BY DEF RegisterAdopted, Register
<1>2. Writes("", "", cmd.bound)
  BY DEF RegisterAdopted, Register, Writes, _register_kit_in_core_toml
<1>3. Ends \/ Moves("resolve")
  BY GotoMoves, IdleEnds DEF RegisterAdopted, Register, Died, KitInv, PCs
<1>4. /\ "" \in Versions /\ cmd.kind = "update"
      /\ \A i \in DOMAIN cmd.bound : cmd.bound[i] \in Places
  BY <1>1, VersionsFact DEF KitInv, CommandPhase, CmdType
<1>5. "" \in {"", "github"} /\ cmd.pc \in {"adopt", "review"}
  BY <1>1
<1> QED BY <1>1, <1>2, <1>3, <1>4, <1>5, UpdateRegisterInv

\* RegisterReviewed.
LEMMA RegisterReviewedInv ==
  ASSUME KitInv, ReportPhase, RegisterReviewed
  PROVE  KitInv'
<1>1. /\ cmd.pc = "review" /\ open' \subseteq open
      /\ UNCHANGED <<disk, kitDir, config, before, consent>>
  BY DEF RegisterReviewed, Register
<1>2. Writes(cmd.rel.version, cmd.source, <<>>) \/ UNCHANGED <<core, entry>>
  BY DEF RegisterReviewed, Register, Writes, _register_kit_in_core_toml
<1>3. Ends \/ Moves("regen")
  <2>1. Died \/ Leave(VersionStatus)
    BY DEF RegisterReviewed, Register
  <2>2. VersionStatus # "installed"
    BY DEF VersionStatus
  <2> QED BY <2>1, <2>2, LeaveMoves, IdleEnds DEF Died, KitInv
<1>4. cmd.rel.version \in Versions /\ cmd.kind = "update" /\ cmd.source \in {"", "github"}
  BY <1>1, VersionsFact DEF KitInv, CommandPhase, CmdType
<1>5. (\A i \in DOMAIN <<>> : <<>>[i] \in Places) /\ cmd.pc \in {"adopt", "review"}
  BY <1>1
<1> QED BY <1>1, <1>2, <1>3, <1>4, <1>5, UpdateRegisterInv

\* AdoptResource: a resource that is on disk is left alone; a missing one is
\* copied where nothing of it is, or where the user said.
LEMMA AdoptInv ==
  ASSUME KitInv, ReportPhase, NEW place \in Places, AdoptResource(place)
  PROVE  KitInv'
<1> DEFINE r == cmd.rel.manifest.resources[cmd.at]
<1>0. /\ cmd.pc = "adopt"
      /\ place = "kit" \/ ~Exists(r)
      /\ consent' = IF place = "kit" THEN consent ELSE consent \cup {f \in Files : Covers(r, f)}
      /\ UNCHANGED <<kitDir, core, entry, config, before, open>>
  BY DEF AdoptResource
<1>1. \/ /\ Exists(r) /\ disk' = disk /\ cmd' = [cmd EXCEPT !.at = @ + 1, !.bound = Put(@, r.id, place)]
      \/ /\ ~Exists(r) /\ disk' = Copied(disk, cmd.rel, r, place)
         /\ cmd' = [cmd EXCEPT !.at = @ + 1, !.bound = Put(@, r.id, place)]
      \/ ~Exists(r) /\ disk' \in HalfCopied(disk, cmd.rel, r, place) /\ (Raised \/ Died)
  BY DEF AdoptResource
<1> HIDE DEF r
<1>2. CmdType(cmd) /\ Disk(disk) /\ cmd.rel \in Releases
  BY DEF KitInv, TypeOK, Disk, CmdType
<1>3. Disk(disk') /\ (~Exists(r) => \A l \in Locs : ~(l[1] = place /\ Covers(r, l[2])) => Safe(disk, disk', l))
  BY <1>1, <1>2, CopiedFact, HalfCopiedFact
<1>4. Ends \/ Moves("regen") \/ Advances(r.id, place)
  BY <1>1, <1>2, AdvanceMoves, RaisedEndsOrLeaves
<1>5. cmd.kind = "update" /\ kitDir
  BY <1>0 DEF KitInv, CommandPhase, KitDirPhase
<1>6. consent \subseteq consent' /\ consent' \subseteq Files
  BY <1>0 DEF KitInv, TypeOK
<1>7. TypeOK' /\ CmdType(cmd')
  BY <1>0, <1>3, <1>4, <1>6 DEF KitInv, TypeOK, Disk, Ends, Moves, Advances
<1>8. KitDirPhase'
  BY <1>0, <1>4, <1>5 DEF KitDirPhase, Ends, Moves, Advances
<1>9. CommandPhase'
  BY <1>0, <1>4, <1>5 DEF KitInv, CommandPhase, Ends, Moves, Advances
<1>10. InstallPhase'
  BY <1>4, <1>5 DEF InstallPhase, Ends, Moves, Advances
<1>11. EditsSurvive'
  <2>1. \A l \in DOMAIN disk : l[2] \notin consent' => l \in DOMAIN disk' /\ disk'[l] = disk[l]
    <3> SUFFICES ASSUME NEW l \in DOMAIN disk, l[2] \notin consent'
                 PROVE  l \in DOMAIN disk' /\ disk'[l] = disk[l]
      OBVIOUS
    <3>1. CASE Exists(r)
      BY <1>1, <3>1
    <3>2. CASE ~Exists(r)
      <4>1. l \in Locs /\ l[2] \in Files
        BY DEF KitInv, TypeOK, Locs
      <4>2. ~(l[1] = place /\ Covers(r, l[2]))
        BY <1>0, <3>2, <4>1 DEF Exists
      <4>3. Safe(disk, disk', l)
        BY <1>3, <3>2, <4>1, <4>2
      <4> QED BY <4>3 DEF Safe
    <3> QED BY <3>1, <3>2
  <2> QED BY <1>0, <1>6, <2>1, KeepEdits, NotStopped DEF KitInv
<1> QED BY <1>7, <1>8, <1>9, <1>10, <1>11 DEF KitInv

\* The paths are in an order, so some files have a first one.
LEMMA FirstOfIn ==
  ASSUME NEW S, S \subseteq Files, S # {}
  PROVE  FirstOf(S) \in S
<1> DEFINE I == {i \in DOMAIN FileOrder : FileOrder[i] \in S}
           First(i) == FileOrder[i] \in S /\ \A j \in DOMAIN FileOrder : FileOrder[j] \in S => i <= j
           R == OpToRel(LAMBDA x, y : x < y, Nat)
<1>1. DOMAIN FileOrder = 1..Len(FileOrder) /\ Len(FileOrder) \in Nat
  BY KitAssumption
<1>2. I \subseteq Nat
  BY <1>1
<1>3. I # {}
  BY KitAssumption
<1>4. PICK i \in I : \A j \in I : ~(<<j, i>> \in R)
  BY <1>2, <1>3, WFMin, NatLessThanWellFounded
<1>5. \A j \in I : i <= j
  <2> SUFFICES ASSUME NEW j \in I, ~(i <= j) PROVE FALSE
    OBVIOUS
  <2>1. i \in Nat /\ j \in Nat
    BY <1>2
  <2>2. j < i
    BY <2>1
  <2>3. <<j, i>> \in R
    BY <2>1, <2>2 DEF OpToRel
  <2> QED BY <1>4, <2>3
<1>6. First(i)
  BY <1>5
<1>7. First(CHOOSE k \in DOMAIN FileOrder : First(k))
  BY <1>6
<1> QED BY <1>7 DEF FirstOf

\* The places of core.toml's bindings.
LEMMA BindingsFact ==
  ASSUME KitInv
  PROVE  \A x \in DOMAIN Bindings : Bindings[x] \in Places
<1>1. \A x \in DOMAIN Entry.resources : Entry.resources[x] \in Places
  BY NoEntryFact DEF KitInv, TypeOK, Entry
<1>2. DOMAIN <<>> = {}
  OBVIOUS
<1>3. Bindings = Entry.resources \/ Bindings = <<>>
  BY DEF Bindings
<1> QED BY <1>1, <1>2, <1>3

\* The mapping of an update: places for known files, those of the release
\* among them.
LEMMA TargetFact ==
  ASSUME KitInv
  PROVE  /\ DOMAIN TargetMapping(cmd.rel) \subseteq Files
         /\ \A f \in DOMAIN TargetMapping(cmd.rel) : TargetMapping(cmd.rel)[f] \in Places
         /\ DOMAIN SourceFiles(cmd.rel) \subseteq DOMAIN TargetMapping(cmd.rel)
<1> DEFINE rel == cmd.rel
           source == DOMAIN SourceFiles(rel)
           direct == [f \in source |-> Place(rel, f)]
           rs == IF Bindings = <<>> THEN <<>> ELSE rel.manifest.resources
           bound(f) == {i \in DOMAIN rs : /\ IsDir(rs[i]) /\ Covers(rs[i], f)
                                          /\ rs[i].id \in DOMAIN Bindings
                                          /\ <<Bindings[rs[i].id], f>> \in DOMAIN disk}
           below == {f \in Files : bound(f) # {} /\ ~(f \in source /\ <<direct[f], f>> \in DOMAIN disk)}
           rest == {f \in Files : InContent(f) /\ <<"kit", f>> \in DOMAIN disk}
           under == [f \in below |-> Bindings[rs[CHOOSE i \in bound(f) : TRUE].id]]
           kit == [f \in rest |-> "kit"]
<1>1. TargetMapping(rel) = Over(kit, Over(direct, under))
  BY DEF TargetMapping
<1>2. \A f \in source : direct[f] \in Places
  <2>1. \A f : Place(rel, f) \in Places
    BY BindingsFact DEF Place, Places
  <2> QED BY <2>1
<1>3. \A f \in below : under[f] \in Places
  <2> SUFFICES ASSUME NEW f \in below PROVE under[f] \in Places
    OBVIOUS
  <2>1. (CHOOSE i \in bound(f) : TRUE) \in bound(f)
    OBVIOUS
  <2>2. rs[CHOOSE i \in bound(f) : TRUE].id \in DOMAIN Bindings
    BY <2>1
  <2> QED BY <2>2, BindingsFact
<1>4. \A f \in rest : kit[f] \in Places
  BY DEF Places
<1>5. source \subseteq Files
  BY DEF SourceFiles, Sub
<1>6. DOMAIN kit = rest /\ DOMAIN direct = source /\ DOMAIN under = below /\ below \subseteq Files /\ rest \subseteq Files
  OBVIOUS
<1> HIDE DEF source, direct, rs, bound, below, rest, under, kit
<1>7. DOMAIN Over(kit, Over(direct, under)) = rest \cup source \cup below
  BY <1>6 DEF Over
<1>8. \A f \in DOMAIN Over(direct, under) : Over(direct, under)[f] \in Places
  BY <1>2, <1>3, <1>6 DEF Over
<1>9. \A f \in DOMAIN Over(kit, Over(direct, under)) : Over(kit, Over(direct, under))[f] \in Places
  <2> DEFINE o == Over(direct, under)
  <2>1. \A f \in DOMAIN o : o[f] \in Places
    BY <1>8
  <2> HIDE DEF o
  <2>2. \A f \in DOMAIN Over(kit, o) : Over(kit, o)[f] \in Places
    BY <1>4, <1>6, <2>1 DEF Over
  <2> QED BY <2>2 DEF o
<1>10. source \subseteq rest \cup source \cup below
  OBVIOUS
<1> QED BY <1>1, <1>5, <1>6, <1>7, <1>9, <1>10 DEF source

\* What the update takes for the user's files.
LEMMA UserFact ==
  ASSUME KitInv
  PROVE  /\ DOMAIN UserFiles(cmd.rel) \subseteq DOMAIN TargetMapping(cmd.rel)
         /\ \A f \in DOMAIN UserFiles(cmd.rel) : UserFiles(cmd.rel)[f] \in Content
<1> DEFINE target == TargetMapping(cmd.rel)
           at(f) == IF <<target[f], f>> \in DOMAIN disk THEN <<target[f], f>> ELSE <<"kit", f>>
           D == {g \in DOMAIN target : at(g) \in DOMAIN disk /\ (at(g)[1] = target[g] \/ InContent(g))}
<1>1. UserFiles(cmd.rel) = [f \in D |-> disk[at(f)]]
  BY DEF UserFiles
<1>2. \A f \in D : disk[at(f)] \in Content
  <2>1. \A l \in DOMAIN disk : disk[l] \in Content
    BY DEF KitInv, TypeOK
  <2> QED BY <2>1
<1>3. D \subseteq DOMAIN target
  OBVIOUS
<1> HIDE DEF D, at, target
<1> QED BY <1>1, <1>2, <1>3 DEF target

\* StartReview.
LEMMA StartInv ==
  ASSUME KitInv, ReportPhase, StartReview
  PROVE  KitInv'
<1> DEFINE u == UserFiles(cmd.rel)
           t == TargetMapping(cmd.rel)
           todo == Changed(SourceFiles(cmd.rel), u)
<1>0. /\ cmd.pc = "diff"
      /\ UNCHANGED <<disk, kitDir, core, entry, config, before, consent, open>>
  BY DEF StartReview
<1>1. cmd' = [cmd EXCEPT !.pc = "review", !.snapshot = u, !.target = t, !.todo = todo]
  BY DEF StartReview
<1>2. \A f \in DOMAIN u : u[f] \in Content
  BY UserFact
<1>3. \A f \in DOMAIN t : t[f] \in Places
  BY TargetFact
<1>4. todo \subseteq Files \cap DOMAIN t
  BY UserFact, TargetFact DEF Changed
<1> HIDE DEF u, t, todo
<1>5. DOMAIN cmd = Fields /\ CmdType(cmd)
  BY NoCmdFact DEF KitInv, CmdType
<1>6. /\ DOMAIN cmd' = Fields /\ cmd'.pc = "review" /\ cmd'.snapshot = u /\ cmd'.target = t /\ cmd'.todo = todo
      /\ \A x \in Fields \ {"pc", "snapshot", "target", "todo"} : cmd'[x] = cmd[x]
  BY <1>1, <1>5 DEF Fields
<1>7. /\ cmd'.rel = cmd.rel /\ cmd'.kind = cmd.kind /\ cmd'.root = cmd.root /\ cmd'.at = cmd.at
      /\ cmd'.accepted = cmd.accepted /\ cmd'.declined = cmd.declined /\ cmd'.source = cmd.source
      /\ cmd'.bound = cmd.bound /\ cmd'.status = cmd.status
  BY <1>6 DEF Fields
<1>8. cmd.kind = "update" /\ kitDir /\ cmd.accepted = {} /\ cmd.declined = {}
  BY <1>0 DEF KitInv, CommandPhase, KitDirPhase
<1>9. CmdType(cmd')
  <2>1. cmd'.accepted \cap cmd'.todo = {} /\ cmd'.declined \cap cmd'.todo = {}
    BY <1>7, <1>8
  <2> QED BY <1>2, <1>3, <1>4, <1>5, <1>6, <1>7, <2>1, NoCmdFact DEF CmdType
<1>10. TypeOK'
  BY <1>0, <1>7 DEF KitInv, TypeOK
<1>11. KitDirPhase' /\ CommandPhase' /\ InstallPhase'
  BY <1>0, <1>6, <1>7, <1>8 DEF KitInv, KitDirPhase, CommandPhase, InstallPhase
<1>12. EditsSurvive'
  BY <1>0, KeepEdits, NotStopped DEF KitInv
<1> QED BY <1>9, <1>10, <1>11, <1>12 DEF KitInv

\* A command in review, or just out of it, seen from cmd.
Reviews(c) ==
  /\ CmdType(c) /\ c.accepted \cap c.declined = {}
  /\ c.rel = cmd.rel /\ c.kind = cmd.kind /\ c.root = cmd.root
  /\ c.at = cmd.at /\ c.bound = cmd.bound /\ c.status \in {cmd.status, "ERROR"}

\* A file is decided once.
LEMMA DecidedFact ==
  ASSUME KitInv, NEW f \in cmd.todo, NEW action, NEW answer
  PROVE  Reviews(Decided(f, action, answer)) /\ Decided(f, action, answer).pc = cmd.pc
<1> DEFINE c == Decided(f, action, answer)
           b == IF Asked /\ answer \in {"accept all", "decline all"} THEN answer ELSE cmd.bulk
           acc == IF action # "declined" THEN cmd.accepted \cup {f} ELSE cmd.accepted
           dec == IF action = "declined" THEN cmd.declined \cup {f} ELSE cmd.declined
           todo == cmd.todo \ {f}
<1>1. c = [cmd EXCEPT !.todo = todo, !.bulk = b, !.accepted = acc, !.declined = dec]
  BY DEF Decided
<1>2. CmdType(cmd) /\ DOMAIN cmd = Fields /\ cmd.accepted \cap cmd.declined = {}
  BY NoCmdFact DEF KitInv, CmdType, TypeOK
<1>3. acc \cap dec = {} /\ acc \cap todo = {} /\ dec \cap todo = {}
  BY <1>2 DEF CmdType
<1>4. todo \subseteq Files \cap DOMAIN cmd.target
  BY <1>2 DEF CmdType
<1> HIDE DEF c, b, acc, dec, todo
<1>5. /\ DOMAIN c = Fields /\ c.todo = todo /\ c.accepted = acc /\ c.declined = dec
      /\ \A x \in Fields \ {"todo", "bulk", "accepted", "declined"} : c[x] = cmd[x]
  BY <1>1, <1>2 DEF Fields
<1>6. /\ c.rel = cmd.rel /\ c.kind = cmd.kind /\ c.root = cmd.root /\ c.at = cmd.at /\ c.pc = cmd.pc
      /\ c.source = cmd.source /\ c.bound = cmd.bound /\ c.snapshot = cmd.snapshot /\ c.target = cmd.target
      /\ c.status = cmd.status
  BY <1>5 DEF Fields
<1>7. CmdType(c)
  BY <1>2, <1>3, <1>4, <1>5, <1>6, NoCmdFact DEF CmdType
<1>8. Reviews(c) /\ c.pc = cmd.pc
  BY <1>3, <1>5, <1>6, <1>7 DEF Reviews
<1> QED BY <1>8 DEF c

\* The user stops the review.
LEMMA StoppedFact ==
  ASSUME NEW c, Reviews(c)
  PROVE  Reviews([c EXCEPT !.todo = {}]) /\ [c EXCEPT !.todo = {}].pc = c.pc
<1> DEFINE d == [c EXCEPT !.todo = {}]
<1>1. DOMAIN c = Fields /\ CmdType(c)
  BY NoCmdFact DEF Reviews, CmdType
<1>2. DOMAIN d = Fields /\ d.todo = {} /\ \A x \in Fields \ {"todo"} : d[x] = c[x]
  BY <1>1 DEF Fields
<1> HIDE DEF d
<1>3. /\ d.rel = c.rel /\ d.kind = c.kind /\ d.root = c.root /\ d.at = c.at /\ d.pc = c.pc
      /\ d.source = c.source /\ d.bound = c.bound /\ d.snapshot = c.snapshot /\ d.target = c.target
      /\ d.accepted = c.accepted /\ d.declined = c.declined /\ d.status = c.status
  BY <1>2 DEF Fields
<1>4. d.todo \subseteq Files \cap DOMAIN d.target /\ d.accepted \cap d.todo = {} /\ d.declined \cap d.todo = {}
  BY <1>2
<1>5. CmdType(d)
  BY <1>1, <1>2, <1>3, <1>4, NoCmdFact DEF CmdType
<1>6. Reviews(d) /\ d.pc = c.pc
  BY <1>3, <1>5 DEF Reviews
<1> QED BY <1>6 DEF d

\* A write of the review fails.
LEMMA FailedFact ==
  ASSUME NEW c, Reviews(c)
  PROVE  LET d == [c EXCEPT !.pc = "regen", !.status = "ERROR"]
         IN  Reviews(d) /\ d.pc = "regen"
<1> DEFINE d == [c EXCEPT !.pc = "regen", !.status = "ERROR"]
<1>1. DOMAIN c = Fields /\ CmdType(c)
  BY NoCmdFact DEF Reviews, CmdType
<1>2. DOMAIN d = Fields /\ d.pc = "regen" /\ d.status = "ERROR" /\ \A x \in Fields \ {"pc", "status"} : d[x] = c[x]
  BY <1>1 DEF Fields
<1> HIDE DEF d
<1>3. /\ d.rel = c.rel /\ d.kind = c.kind /\ d.root = c.root /\ d.at = c.at
      /\ d.source = c.source /\ d.bound = c.bound /\ d.snapshot = c.snapshot /\ d.target = c.target
      /\ d.accepted = c.accepted /\ d.declined = c.declined /\ d.todo = c.todo
  BY <1>2 DEF Fields
<1>5. CmdType(d)
  BY <1>1, <1>2, <1>3, NoCmdFact DEF CmdType
<1>6. Reviews(d)
  BY <1>2, <1>3, <1>5 DEF Reviews
<1> QED BY <1>2, <1>6 DEF d

\* A file is changed only when its change was accepted, and only that file.
LEMMA ReviewChanges ==
  ASSUME KitInv, NEW answer \in Answers, NEW toc \in {"yes", "no", "continue", "stop"},
         ReviewFile(answer, toc)
  PROVE  /\ Disk(disk') /\ consent \subseteq consent' /\ consent' \subseteq Files
         /\ \A l \in DOMAIN disk : l[2] \notin consent' => l \in DOMAIN disk' /\ disk'[l] = disk[l]
<1> DEFINE f == FirstOf(cmd.todo)
           source == SourceFiles(cmd.rel)
           kind == Kind(source, cmd.snapshot, f)
           loc == <<cmd.target[f], f>>
           action == Action(answer)
           new == Of(source, f)
           text == Edited(answer, new)
           edits_ == action = "modified" /\ kind # "removed"
           old == IF f \in DOMAIN cmd.snapshot THEN cmd.snapshot[f] ELSE text
           Changes == \/ disk' = disk \/ (action # "declined" /\ disk' = Drop(disk, {loc}))
                      \/ action # "declined" /\ \E c \in Content : disk' = Put(disk, loc, c)
<1>1. f \in cmd.todo /\ f \in Files /\ loc \in Locs
  <2>1. cmd.todo \subseteq Files /\ cmd.todo # {} /\ cmd.todo \subseteq DOMAIN cmd.target
    BY DEF KitInv, CmdType, ReviewFile
  <2>2. f \in cmd.todo
    BY <2>1, FirstOfIn
  <2>3. cmd.target[f] \in Places
    BY <2>1, <2>2 DEF KitInv, CmdType
  <2> QED BY <2>1, <2>2, <2>3 DEF Locs
<1>2. new \in Content
  <2>1. Blank \in Content
    BY DEF Blank, Content, Versions
  <2>2. \A g \in DOMAIN source : source[g] \in Content
    <3>1. cmd.rel \in Releases
      BY DEF KitInv, CmdType
    <3>2. \A g \in DOMAIN cmd.rel.files : cmd.rel.files[g] \in Content
      BY <3>1, KitAssumption
    <3> QED BY <3>2 DEF SourceFiles, Sub
  <2> QED BY <2>1, <2>2 DEF Of
<1>3. text \in Content
  <2> HIDE DEF new
  <2>1. Strip(new) \in Content
    BY <1>2 DEF Strip, Content
  <2>2. [body |-> "merged", toc |-> FALSE, vars |-> new.vars] \in Content
    BY <1>2 DEF Content
  <2> QED BY <2>1, <2>2 DEF Edited
<1>4. old \in Content
  BY <1>3 DEF KitInv, CmdType
<1>5. [text EXCEPT !.toc = TRUE] \in Content /\ [new EXCEPT !.body = "torn"] \in Content
  <2> HIDE DEF text, new
  <2> QED BY <1>2, <1>3 DEF Content
<1>6. consent' = IF action = "declined" THEN consent ELSE consent \cup {f}
  BY DEF ReviewFile
<1>7. \/ disk' = IF action = "accepted"
                 THEN IF kind = "removed" THEN Drop(disk, {loc}) ELSE Put(disk, loc, new)
                 ELSE IF ~edits_ THEN disk
                 ELSE CASE toc = "no" -> Put(disk, loc, text)
                        [] toc = "yes" -> Put(disk, loc, [text EXCEPT !.toc = TRUE])
                        [] OTHER -> Put(disk, loc, old)
      \/ /\ action = "accepted" \/ edits_
         /\ disk' = disk \/ disk' = Put(disk, loc, [new EXCEPT !.body = "torn"])
  BY DEF ReviewFile
<1> HIDE DEF f, source, kind, loc, action, new, text, old
<1>8. Changes
  <2>1. CASE action = "accepted"
    BY <1>2, <1>5, <1>7, <2>1
  <2>2. CASE action # "accepted" /\ ~edits_
    BY <1>7, <2>2
  <2>3. CASE action # "accepted" /\ edits_
    BY <1>3, <1>4, <1>5, <1>7, <2>3
  <2> QED BY <2>1, <2>2, <2>3
<1>9. Disk(disk)
  BY DEF KitInv, TypeOK, Disk
<1>10. Disk(disk')
  BY <1>1, <1>8, <1>9, PutDisk, DropDisk
<1>11. consent \subseteq consent' /\ consent' \subseteq Files
  BY <1>1, <1>6 DEF KitInv, TypeOK
<1>12. \A l \in DOMAIN disk : l[2] \notin consent' => l \in DOMAIN disk' /\ disk'[l] = disk[l]
  <2> SUFFICES ASSUME NEW l \in DOMAIN disk, l[2] \notin consent'
               PROVE  l \in DOMAIN disk' /\ disk'[l] = disk[l]
    OBVIOUS
  <2>1. CASE disk' = disk
    BY <2>1
  <2>2. CASE action # "declined"
    <3>1. l # loc
      BY <1>6, <2>2 DEF loc
    <3> QED BY <1>8, <3>1 DEF Put, Drop
  <2> QED BY <1>8, <2>1, <2>2
<1> QED BY <1>10, <1>11, <1>12

\* One file decided: the review goes on, stops or fails.
LEMMA ReviewShape ==
  ASSUME KitInv, NEW answer \in Answers, NEW toc \in {"yes", "no", "continue", "stop"},
         ReviewFile(answer, toc)
  PROVE  Ends \/ (Reviews(cmd') /\ cmd'.pc \in {"review", "regen"})
<1> DEFINE f == FirstOf(cmd.todo)
           action == Action(answer)
           next == Decided(f, action, answer)
<1>0. /\ cmd.pc = "review" /\ cmd.todo # {}
      /\ UNCHANGED <<kitDir, core, entry, config, before, open>>
  BY DEF ReviewFile
<1>1. f \in cmd.todo
  BY <1>0, FirstOfIn DEF KitInv, CmdType
<1>2. \/ cmd' = next \/ cmd' = [next EXCEPT !.todo = {}]
      \/ cmd' = [next EXCEPT !.pc = "regen", !.status = "ERROR"] \/ Died
  BY DEF ReviewFile
<1>3. Reviews(next) /\ next.pc = "review"
  BY <1>0, <1>1, DecidedFact
<1> HIDE DEF next
<1>4. Ends \/ (Reviews(cmd') /\ cmd'.pc \in {"review", "regen"})
  <2>1. CASE cmd' = next
    BY <2>1, <1>3
  <2>2. CASE cmd' = [next EXCEPT !.todo = {}]
    BY <2>2, <1>3, StoppedFact
  <2>3. CASE cmd' = [next EXCEPT !.pc = "regen", !.status = "ERROR"]
    BY <2>3, <1>3, FailedFact
  <2>4. CASE Died
    BY <2>4, IdleEnds DEF Died
  <2> QED BY <1>2, <2>1, <2>2, <2>3, <2>4
<1> QED BY <1>4

\* ReviewFile.
LEMMA ReviewInv ==
  ASSUME KitInv, ReportPhase, NEW answer \in Answers, NEW toc \in {"yes", "no", "continue", "stop"},
         ReviewFile(answer, toc)
  PROVE  KitInv'
<1>0. /\ cmd.pc = "review"
      /\ UNCHANGED <<kitDir, core, entry, config, before, open>>
  BY DEF ReviewFile
<1>4. Ends \/ (Reviews(cmd') /\ cmd'.pc \in {"review", "regen"})
  BY ReviewShape
<1>5. /\ Disk(disk') /\ consent \subseteq consent' /\ consent' \subseteq Files
      /\ \A l \in DOMAIN disk : l[2] \notin consent' => l \in DOMAIN disk' /\ disk'[l] = disk[l]
  BY ReviewChanges
<1>6. cmd.kind = "update" /\ kitDir
  BY <1>0 DEF KitInv, CommandPhase, KitDirPhase
<1>7. TypeOK' /\ CmdType(cmd')
  BY <1>0, <1>4, <1>5 DEF KitInv, TypeOK, Disk, Ends, Reviews
<1>8. KitDirPhase' /\ CommandPhase' /\ InstallPhase'
  BY <1>0, <1>4, <1>6 DEF KitInv, KitDirPhase, CommandPhase, InstallPhase, Ends, Reviews
<1>9. EditsSurvive'
  BY <1>0, <1>5, KeepEdits, NotStopped DEF KitInv
<1> QED BY <1>7, <1>8, <1>9 DEF KitInv

-----------------------------------------------------------------------------
(* The theorems.                                                           *)

\* The invariant holds at first.
LEMMA InitInv == Init => KitInv
<1> SUFFICES ASSUME Init PROVE KitInv
  OBVIOUS
<1>1. DOMAIN <<>> = {}
  OBVIOUS
<1>2. CmdType(cmd) /\ cmd.pc = "idle" /\ cmd.kind = "none" /\ cmd.accepted = {} /\ cmd.declined = {}
      /\ cmd.status = "none"
  BY NoCmdType, NoCmdFact DEF Init
<1>3. DOMAIN disk = {} /\ DOMAIN before = {} /\ kitDir = FALSE /\ core = "ok" /\ config = "absent"
      /\ consent = {} /\ open = {}
  BY <1>1 DEF Init
<1>4. entry.version \in Versions /\ entry.source \in {"", "github"}
      /\ \A r \in DOMAIN entry.resources : entry.resources[r] \in Places
  BY NoEntryFact DEF Init, Versions
<1>5. TypeOK
  BY <1>2, <1>3, <1>4 DEF TypeOK
<1>6. KitDirPhase /\ CommandPhase /\ InstallPhase
  BY <1>2, <1>3 DEF KitDirPhase, CommandPhase, InstallPhase
<1>7. EditsSurvive
  BY <1>3 DEF EditsSurvive
<1> QED BY <1>2, <1>5, <1>6, <1>7 DEF KitInv

\* A stuttering step keeps it.
LEMMA StutterInv ==
  ASSUME KitInv, UNCHANGED vars
  PROVE  KitInv'
<1>1. UNCHANGED <<disk, kitDir, core, entry, config, cmd, result, before, consent, open>>
  BY DEF vars
<1>2. TypeOK' /\ CmdType(cmd')
  BY <1>1 DEF KitInv, TypeOK
<1>5. EditsSurvive'
  BY <1>1, KeepEdits DEF KitInv, Stopped
<1>3. KitDirPhase' /\ CommandPhase'
  BY <1>1 DEF KitInv, KitDirPhase, CommandPhase
<1>4. InstallPhase'
  BY <1>1 DEF KitInv, InstallPhase
<1> QED BY <1>2, <1>3, <1>4, <1>5 DEF KitInv

\* Every step keeps it.
LEMMA NextInv ==
  ASSUME KitInv, ReportPhase, [Next]_vars
  PROVE  KitInv'
<1>1. CASE UNCHANGED vars
  BY <1>1, StutterInv
<1>2. CASE \E l \in Locs, vs \in {"none", "raw"} : UserEdits(l, vs)
  BY <1>2, EditInv
<1>3. CASE \E rel \in Releases, github, force \in BOOLEAN, root \in Places :
             cmd_kit_install(rel, github, force, root)
  BY <1>3, InstallInv
<1>4. CASE \E rel \in Releases, local, interactive, yes, force \in BOOLEAN :
             cmd_kit_update(rel, local, interactive, yes, force)
  BY <1>4, UpdateInv
<1>5. CASE CopyContent \/ ResolveInstalled \/ _seed_kit_config_files
  BY <1>5, CopyInv, ResolveInstalledInv, SeedInv
<1>6. CASE RegisterInstalled \/ RegisterAdopted \/ ResolveAdopted
  BY <1>6, RegisterInstalledInv, RegisterAdoptedInv, ResolveAdoptedInv
<1>7. CASE StartReview \/ RegisterReviewed \/ regenerate_gen_aggregates
  BY <1>7, StartInv, RegisterReviewedInv, RegenInv
<1>8. CASE \E place \in Places : PlaceResource(place) \/ AdoptResource(place)
  BY <1>8, PlaceInv, AdoptInv
<1>9. CASE \E answer \in Answers, toc \in {"yes", "no", "continue", "stop"} : ReviewFile(answer, toc)
  BY <1>9, ReviewInv
<1> QED BY <1>1, <1>2, <1>3, <1>4, <1>5, <1>6, <1>7, <1>8, <1>9 DEF Next, Step

\* A review that goes on has no status yet.
LEMMA ReviewStatus ==
  ASSUME CmdType(cmd), NEW answer \in Answers, NEW toc \in {"yes", "no", "continue", "stop"},
         ReviewFile(answer, toc)
  PROVE  Ends \/ cmd'.pc = "regen" \/ cmd'.status = cmd.status
<1> DEFINE next == Decided(FirstOf(cmd.todo), Action(answer), answer)
<1>1. \/ cmd' = next \/ cmd' = [next EXCEPT !.todo = {}]
      \/ cmd' = [next EXCEPT !.pc = "regen", !.status = "ERROR"] \/ Died
  BY DEF ReviewFile
<1>2. DOMAIN cmd = Fields
  BY NoCmdFact DEF CmdType
<1>3. DOMAIN next = Fields /\ next.status = cmd.status
  BY <1>2 DEF Decided, Fields
<1> HIDE DEF next
<1>4. CASE Died
  BY <1>4, IdleEnds DEF Died
<1>5. CASE cmd' = next \/ cmd' = [next EXCEPT !.todo = {}] \/ cmd' = [next EXCEPT !.pc = "regen", !.status = "ERROR"]
  BY <1>3, <1>5 DEF Fields
<1> QED BY <1>1, <1>4, <1>5

\* A command that goes on keeps its status, one that leaves has one.
LEMMA ReportGoes ==
  ASSUME CmdType(cmd), ReportPhase, cmd.pc \notin {"idle", "regen"}, result' = result,
         \/ \E pc : Goto(pc) \/ Leave(pc)
         \/ \E n, b : cmd' = [cmd EXCEPT !.at = n, !.bound = b]
         \/ \E u, t, todo : cmd' = [cmd EXCEPT !.pc = "review", !.snapshot = u, !.target = t, !.todo = todo]
  PROVE  ReportPhase'
<1>1. DOMAIN cmd = Fields
  BY NoCmdFact DEF CmdType
<1>2. cmd'.status = cmd.status \/ cmd'.pc = "regen"
  BY <1>1 DEF Fields, Goto, Leave
<1> QED BY <1>2 DEF ReportPhase

\* One that ends has a result.
LEMMA ReportEnds ==
  ASSUME cmd' = NoCmd
  PROVE  ReportPhase'
BY NoCmdFact DEF ReportPhase

\* Every step keeps ReportPhase.
LEMMA NextReport ==
  ASSUME KitInv, ReportPhase, [Next]_vars
  PROVE  ReportPhase'
<1>0. CmdType(cmd)
  BY DEF KitInv
<1>1. CASE UNCHANGED vars
  BY <1>1 DEF vars, ReportPhase
<1>2. CASE \E l \in Locs, vs \in {"none", "raw"} : UserEdits(l, vs)
  BY <1>2 DEF UserEdits, ReportPhase
<1>3. CASE \E rel \in Releases, github, force \in BOOLEAN, root \in Places :
             cmd_kit_install(rel, github, force, root)
  <2>1. PICK rel \in Releases, github \in BOOLEAN, force \in BOOLEAN, root \in Places :
          cmd_kit_install(rel, github, force, root)
    BY <1>3
  <2>2. CASE \E status : Refuse(status)
    BY <2>2 DEF Refuse, ReportPhase
  <2>3. CASE ~(kitDir /\ ~force) /\ load_manifest(rel) # "bad"
    <3> DEFINE src == IF github THEN "github" ELSE ""
               rt == IF load_manifest(rel) = "ok" /\ rel.manifest.ask THEN root ELSE "kit"
               at == IF load_manifest(rel) = "none" THEN "copy"
                     ELSE IF validate_manifest(rel) THEN "place" ELSE "regen"
               st == IF load_manifest(rel) = "ok" /\ ~validate_manifest(rel) THEN "FAIL" ELSE "none"
               c == [NoCmd EXCEPT !.kind = "install", !.rel = rel, !.force = force,
                        !.interactive = TRUE, !.source = src, !.root = rt, !.pc = at, !.status = st]
    <3>1. Begin(c)
      BY <2>1, <2>3 DEF cmd_kit_install
    <3>2. at # "regen" => st = "none"
      BY DEF load_manifest
    <3> HIDE DEF src, rt, at, st
    <3>3. c.pc = at /\ c.status = st
      BY NoCmdFact DEF Fields
    <3> HIDE DEF c
    <3> QED BY <3>1, <3>2, <3>3 DEF Begin, ReportPhase
  <2> QED BY <2>1, <2>2, <2>3 DEF cmd_kit_install
<1>4. CASE \E rel \in Releases, local, interactive, yes, force \in BOOLEAN :
             cmd_kit_update(rel, local, interactive, yes, force)
  <2>1. PICK rel \in Releases, local \in BOOLEAN, interactive \in BOOLEAN, yes \in BOOLEAN, force \in BOOLEAN :
          cmd_kit_update(rel, local, interactive, yes, force)
    BY <1>4
  <2>2. CASE \E status : Refuse(status)
    BY <2>2 DEF Refuse, ReportPhase
  <2>3. CASE ~(~local /\ (~Entry.present \/ Entry.source = ""))
    <3> DEFINE src == IF local THEN "" ELSE "github"
               b == [NoCmd EXCEPT !.kind = "update", !.rel = rel, !.force = force,
                        !.interactive = interactive, !.yes = yes, !.source = src]
               c == IF UpToDate(rel, force) THEN [b EXCEPT !.pc = "regen", !.status = "current"]
                    ELSE IF load_manifest(rel) = "bad" THEN [b EXCEPT !.pc = "regen", !.status = "ERROR"]
                    ELSE [b EXCEPT !.pc = AfterVersionCheck(rel)]
    <3>1. Begin(c)
      BY <2>1, <2>3 DEF cmd_kit_update
    <3> HIDE DEF src
    <3>2. DOMAIN b = Fields /\ b.status = "none"
      BY NoCmdFact DEF Fields
    <3> HIDE DEF b
    <3>3. c.pc = "regen" \/ c.status = "none"
      BY <3>2 DEF Fields
    <3> HIDE DEF c
    <3> QED BY <3>1, <3>3 DEF Begin, ReportPhase
  <2> QED BY <2>1, <2>2, <2>3 DEF cmd_kit_update
<1>5. CASE CopyContent \/ ResolveInstalled \/ _seed_kit_config_files
  <2>1. cmd.pc \notin {"idle", "regen"}
        /\ (cmd' = NoCmd \/ (result' = result /\ \E pc : Goto(pc) \/ Leave(pc)))
    BY <1>5 DEF CopyContent, ResolveInstalled, _resolve_template_variables, _seed_kit_config_files,
                Raised, Died
  <2> QED BY <1>0, <2>1, ReportGoes, ReportEnds
<1>6. CASE RegisterInstalled \/ RegisterAdopted
  <2>1. cmd.pc \notin {"idle", "regen"}
        /\ (cmd' = NoCmd \/ (result' = result /\ \E pc : Goto(pc) \/ Leave(pc)))
    BY <1>6 DEF RegisterInstalled, RegisterAdopted, Register, Died
  <2> QED BY <1>0, <2>1, ReportGoes, ReportEnds
<1>7. CASE ResolveAdopted \/ RegisterReviewed
  <2>1. cmd.pc \notin {"idle", "regen"}
        /\ (cmd' = NoCmd \/ (result' = result /\ \E pc : Goto(pc) \/ Leave(pc)))
    BY <1>7 DEF ResolveAdopted, RegisterReviewed, Register, _resolve_template_variables, Raised, Died
  <2> QED BY <1>0, <2>1, ReportGoes, ReportEnds
<1>8. CASE StartReview
  <2>1. cmd.pc \notin {"idle", "regen"} /\ result' = result
        /\ \E u, t, todo : cmd' = [cmd EXCEPT !.pc = "review", !.snapshot = u, !.target = t, !.todo = todo]
    BY <1>8 DEF StartReview
  <2> QED BY <1>0, <2>1, ReportGoes
<1>9. CASE regenerate_gen_aggregates
  BY <1>9, ReportEnds DEF regenerate_gen_aggregates, Died
<1>10. CASE \E place \in Places : PlaceResource(place) \/ AdoptResource(place)
  <2>1. PICK place \in Places : PlaceResource(place) \/ AdoptResource(place)
    BY <1>10
  <2>2. cmd.pc \notin {"idle", "regen"}
        /\ \/ cmd' = NoCmd
           \/ result' = result /\ \E pc : Leave(pc)
           \/ result' = result /\ \E n, b : cmd' = [cmd EXCEPT !.at = n, !.bound = b]
    BY <2>1 DEF PlaceResource, AdoptResource, Raised, Died
  <2> QED BY <1>0, <2>2, ReportGoes, ReportEnds
<1>11. CASE \E answer \in Answers, toc \in {"yes", "no", "continue", "stop"} : ReviewFile(answer, toc)
  <2>1. PICK answer \in Answers, toc \in {"yes", "no", "continue", "stop"} : ReviewFile(answer, toc)
    BY <1>11
  <2>2. CASE Died
    BY <2>2, ReportEnds DEF Died
  <2>3. CASE result' = result
    <3>1. cmd.pc = "review" /\ cmd.status = "none" /\ result = "none"
      BY <2>1 DEF ReviewFile, ReportPhase
    <3>2. Ends \/ cmd'.pc = "regen" \/ cmd'.status = cmd.status
      BY <1>0, <2>1, ReviewStatus
    <3> QED BY <2>3, <3>1, <3>2 DEF ReportPhase, Ends
  <2> QED BY <2>1, <2>2, <2>3 DEF ReviewFile
<1> QED BY <1>1, <1>2, <1>3, <1>4, <1>5, <1>6, <1>7, <1>8, <1>9, <1>10, <1>11 DEF Next, Step

\* Invariance of KitInv, for every set of files and releases and every bound:
\* through install, first installation by update, adoption and review, whole,
\* failed or interrupted.
THEOREM KitInvariance == Spec => []KitInv
<1>1. Init => ReportPhase
  BY NoCmdFact DEF Init, ReportPhase
<1>2. KitInv /\ ReportPhase /\ [Next]_vars => KitInv' /\ ReportPhase'
  BY NextInv, NextReport
<1> QED BY <1>1, <1>2, InitInv, PTL DEF Spec

\* The types of the variables, the disk and the entry in core.toml.
THEOREM KitTypeCorrect == Spec => []TypeOK
<1>1. KitInv => TypeOK
  BY DEF KitInv
<1> QED BY <1>1, KitInvariance, PTL

\* What the user wrote survives every command the user did not allow to
\* replace it, to the letter but for {identifier} variables of the user's own,
\* whatever fails and wherever the process dies; a file with such variables
\* may be torn, by a command that dies or reports an error.
THEOREM UserEditsSurvive == Spec => []EditsSurvive
<1>1. KitInv => EditsSurvive
  BY DEF KitInv
<1> QED BY <1>1, KitInvariance, PTL

\* An installation that reports success has every resource where core.toml
\* says, with the text of the release.
THEOREM InstalledWhereBound == Spec => []InstalledAtBindings
<1>1. KitInv => InstalledAtBindings
  <2> SUFFICES ASSUME KitInv, cmd.pc = "regen", cmd.status = "installed",
                      cmd.rel.manifest.kind = "ok", core = "ok"
               PROVE  LET rs == cmd.rel.manifest.resources
                      IN  \A i \in DOMAIN rs : \A f \in DOMAIN cmd.rel.files :
                             Covers(rs[i], f) =>
                               LET l == <<Entry.resources[rs[i].id], f>>
                               IN  l \in DOMAIN disk /\ disk[l].body = cmd.rel.files[f].body
    BY DEF InstalledAtBindings
  <2>1. CopiedAt(disk, cmd.rel, entry.resources, Len(cmd.rel.manifest.resources))
    BY DEF KitInv, CommandPhase, InstallPhase
  <2>2. Entry.resources = entry.resources
    BY DEF Entry
  <2>3. DOMAIN cmd.rel.manifest.resources = 1..Len(cmd.rel.manifest.resources)
    BY KitAssumption DEF KitInv, CmdType
  <2> QED BY <2>1, <2>2, <2>3 DEF CopiedAt
<1> QED BY <1>1, KitInvariance, PTL

-----------------------------------------------------------------------------
(* Interrupted updates of a kit in its own directory.                      *)

\* The user keeps the kit root that is offered: config/kits/{slug}.
KeepsRoot == cmd.root = "kit"

\* A step that writes no version and closes no update.
LEMMA VersionKept ==
  ASSUME VersionPhase, open' = open, core' = core /\ entry' = entry, kitDir => kitDir',
         cmd'.kind = "install" => cmd'.root = "kit",
         cmd'.pc \in {"seed", "register"} \/ (cmd'.pc = "place" /\ cmd'.at > 1) => kitDir'
  PROVE  VersionPhase'
BY DEF VersionPhase

\* The command goes on or ends where no version is at stake.
LEMMA ShapeKeepsRoot ==
  ASSUME VersionPhase, Ends \/ (\E pc : Moves(pc)) \/ (\E id, place : Advances(id, place)) \/ Reviews(cmd')
  PROVE  cmd'.kind = "install" => cmd'.root = "kit"
BY DEF VersionPhase, Ends, Moves, Advances, Reviews

\* regenerate_gen_aggregates and the version on record.
LEMMA RegenVersion ==
  ASSUME KitInv, VersionPhase, regenerate_gen_aggregates
  PROVE  VersionPhase'
<1>1. Ends
  BY IdleEnds DEF regenerate_gen_aggregates, Died
<1> QED BY <1>1, VersionKept DEF regenerate_gen_aggregates, Ends

\* _seed_kit_config_files and the version on record.
LEMMA SeedVersion ==
  ASSUME KitInv, VersionPhase, _seed_kit_config_files
  PROVE  VersionPhase'
<1>1. Moves("register") /\ cmd.pc = "seed"
  BY GotoMoves DEF _seed_kit_config_files, KitInv, PCs
<1>2. UNCHANGED <<kitDir, core, entry, open>>
  BY DEF _seed_kit_config_files
<1> QED BY <1>1, <1>2, VersionKept DEF Moves, VersionPhase

\* An edit and the version on record.
LEMMA EditVersion ==
  ASSUME KitInv, VersionPhase, NEW l \in Locs, NEW vs \in {"none", "raw"}, UserEdits(l, vs)
  PROVE  VersionPhase'
<1>1. UNCHANGED <<kitDir, core, entry, open, cmd>>
  BY DEF UserEdits
<1> QED BY <1>1, VersionKept DEF VersionPhase

\* A refusal and the version on record.
LEMMA RefuseVersion ==
  ASSUME KitInv, VersionPhase, NEW status, Refuse(status)
  PROVE  VersionPhase'
<1>1. UNCHANGED <<kitDir, core, entry, open, cmd>>
  BY DEF Refuse
<1> QED BY <1>1, VersionKept DEF VersionPhase

\* An install begins with the version on record.
LEMMA InstallVersionKept ==
  ASSUME KitInv, VersionPhase, KeepsRoot', NEW rel \in Releases, NEW github \in BOOLEAN,
         NEW force \in BOOLEAN, NEW root \in Places, cmd_kit_install(rel, github, force, root)
  PROVE  VersionPhase'
<1>1. CASE (kitDir /\ ~force) \/ load_manifest(rel) = "bad"
  BY <1>1, RefuseVersion DEF cmd_kit_install
<1>2. CASE ~(kitDir /\ ~force) /\ load_manifest(rel) # "bad"
  <2> DEFINE src == IF github THEN "github" ELSE ""
             rt == IF load_manifest(rel) = "ok" /\ rel.manifest.ask THEN root ELSE "kit"
             at == IF load_manifest(rel) = "none" THEN "copy"
                   ELSE IF validate_manifest(rel) THEN "place" ELSE "regen"
             st == IF load_manifest(rel) = "ok" /\ ~validate_manifest(rel) THEN "FAIL" ELSE "none"
             c == [NoCmd EXCEPT !.kind = "install", !.rel = rel, !.force = force,
                      !.interactive = TRUE, !.source = src, !.root = rt, !.pc = at, !.status = st]
  <2>1. Begin(c)
    BY <1>2 DEF cmd_kit_install
  <2>2. at \in {"copy", "place", "regen"}
    OBVIOUS
  <2> HIDE DEF src, rt, at, st
  <2>3. c.kind = "install" /\ c.root = rt /\ c.pc = at /\ c.at = NoCmd.at
    BY NoCmdFact DEF Fields
  <2> HIDE DEF c
  <2>4. c.at = 1
    BY <2>3, NoCmdFact
  <2>5. cmd' = c /\ open' = open /\ UNCHANGED <<kitDir, core, entry>>
    BY <2>1, <2>3 DEF Begin
  <2>6. ~(cmd'.pc \in {"seed", "register"} \/ (cmd'.pc = "place" /\ cmd'.at > 1))
    BY <2>2, <2>3, <2>4, <2>5
  <2> QED BY <2>5, <2>6, VersionKept DEF KeepsRoot
<1> QED BY <1>1, <1>2

\* An update is begun only for a version that is not on record.
LEMMA UpdateVersion ==
  ASSUME KitInv, VersionPhase, NEW rel \in Releases, NEW local \in BOOLEAN,
         NEW interactive \in BOOLEAN, NEW yes \in BOOLEAN, NEW force \in BOOLEAN,
         cmd_kit_update(rel, local, interactive, yes, force)
  PROVE  VersionPhase'
<1>1. CASE ~local /\ (~Entry.present \/ Entry.source = "")
  BY <1>1, RefuseVersion DEF cmd_kit_update
<1>2. CASE ~(~local /\ (~Entry.present \/ Entry.source = ""))
  <2> DEFINE src == IF local THEN "" ELSE "github"
             b == [NoCmd EXCEPT !.kind = "update", !.rel = rel, !.force = force,
                      !.interactive = interactive, !.yes = yes, !.source = src]
             c == IF UpToDate(rel, force) THEN [b EXCEPT !.pc = "regen", !.status = "current"]
                  ELSE IF load_manifest(rel) = "bad" THEN [b EXCEPT !.pc = "regen", !.status = "ERROR"]
                  ELSE [b EXCEPT !.pc = AfterVersionCheck(rel)]
  <2>1. Begin(c)
    BY <1>2 DEF cmd_kit_update
  <2>2. AfterVersionCheck(rel) \in {"adopt", "diff", "copy"}
    BY DEF AfterVersionCheck
  <2> HIDE DEF src
  <2>3. DOMAIN b = Fields /\ b.kind = "update" /\ b.rel = rel /\ b.force = force
    BY NoCmdFact DEF Fields
  <2> HIDE DEF b
  <2>4. /\ c.kind = "update" /\ c.rel = rel /\ c.force = force
        /\ c.pc \in {"regen", AfterVersionCheck(rel)}
        /\ UpToDate(rel, force) => c.pc = "regen"
    BY <2>3 DEF Fields
  <2> HIDE DEF c
  <2>5. cmd' = c /\ UNCHANGED <<kitDir, core, entry>>
        /\ open' = IF c.pc # "regen" /\ ~UpToDate(rel, FALSE) THEN open \cup {rel.version} ELSE open
    BY <2>1, <2>4 DEF Begin
  <2>6. cmd'.kind = "update" /\ cmd'.pc \in {"regen", "adopt", "diff", "copy"}
    BY <2>2, <2>4, <2>5
  <2>7. core # "torn" => \A v \in open' : v = "" \/ entry.version # v
    <3> SUFFICES ASSUME core # "torn", NEW v \in open', v # "" PROVE entry.version # v
      OBVIOUS
    <3>1. CASE v \in open
      BY <3>1 DEF VersionPhase
    <3>2. CASE v = rel.version /\ ~UpToDate(rel, FALSE)
      <4>1. ~kitDir \/ entry.version # rel.version
        BY <3>2 DEF UpToDate, Entry
      <4> QED BY <3>2, <4>1 DEF VersionPhase
    <3> QED BY <2>5, <3>1, <3>2
  <2> QED BY <2>5, <2>6, <2>7 DEF VersionPhase
<1> QED BY <1>1, <1>2

\* CopyContent makes the directory before anything can be recorded.
LEMMA CopyVersion ==
  ASSUME KitInv, VersionPhase, CopyContent
  PROVE  VersionPhase'
<1>1. Moves("seed") \/ Moves("regen") \/ Ends
  BY GotoMoves, RaisedEndsOrLeaves DEF CopyContent, KitInv, PCs
<1>2. kitDir' = TRUE /\ UNCHANGED <<core, entry, open>>
  BY DEF CopyContent
<1> QED BY <1>1, <1>2, ShapeKeepsRoot, VersionKept

\* So does PlaceResource, when the kit is not moved.
LEMMA PlaceVersion ==
  ASSUME KitInv, VersionPhase, NEW place \in Places, PlaceResource(place)
  PROVE  VersionPhase'
<1> DEFINE r == cmd.rel.manifest.resources[cmd.at]
<1>1. \/ cmd' = [cmd EXCEPT !.at = @ + 1, !.bound = Put(@, r.id, place)]
      \/ Died
  BY DEF PlaceResource
<1>2. Ends \/ Advances(r.id, place)
  BY <1>1, IdleEnds, AdvanceMoves DEF Died, KitInv
<1>3. cmd.pc = "place" /\ kitDir' = (kitDir \/ cmd.root = "kit" \/ place = "kit")
      /\ UNCHANGED <<core, entry, open>>
  BY DEF PlaceResource
<1>4. kitDir'
  BY <1>3 DEF KitInv, CommandPhase, VersionPhase
<1> QED BY <1>2, <1>3, <1>4, ShapeKeepsRoot, VersionKept

\* ResolveInstalled: a resource was placed, so the directory is there.
LEMMA ResolveInstalledVersion ==
  ASSUME KitInv, VersionPhase, ResolveInstalled
  PROVE  VersionPhase'
<1>1. Moves("seed") \/ Ends \/ Moves("regen")
  BY ResolveMoves DEF ResolveInstalled, KitInv, PCs
<1>2. cmd.pc = "place" /\ cmd.at > Len(cmd.rel.manifest.resources) /\ UNCHANGED <<kitDir, core, entry, open>>
  BY DEF ResolveInstalled
<1>3. cmd.at > 1
  <2>1. Len(cmd.rel.manifest.resources) \in Nat \ {0}
    BY <1>2, KitAssumption DEF KitInv, CommandPhase, CmdType
  <2>2. cmd.at \in Nat
    BY DEF KitInv, CmdType
  <2> QED BY <1>2, <2>1, <2>2
<1>4. kitDir
  BY <1>2, <1>3 DEF VersionPhase
<1> QED BY <1>1, <1>2, <1>4, ShapeKeepsRoot, VersionKept

\* The end of an installation closes every update.
LEMMA RegisterInstalledVersion ==
  ASSUME KitInv, VersionPhase, RegisterInstalled
  PROVE  VersionPhase'
<1>1. cmd.pc = "register" /\ UNCHANGED kitDir
  BY DEF RegisterInstalled, Register
<1>2. \/ core' = core /\ open' = open \ Versions
      \/ core' = "torn"
      \/ core' = "lost" /\ entry' = NoEntry
  BY DEF RegisterInstalled, Register, _register_kit_in_core_toml
<1>3. Ends \/ Moves("regen")
  <2>1. Died \/ (cmd.kind = "install" /\ Leave("installed")) \/ Leave("created")
    BY DEF RegisterInstalled, Register
  <2>2. "created" # "installed"
    OBVIOUS
  <2> QED BY <2>1, <2>2, LeaveMoves, IdleEnds DEF Died, KitInv
<1>4. kitDir'
  BY <1>1 DEF VersionPhase
<1>5. open \ Versions = {}
  BY DEF KitInv, TypeOK
<1>6. core' # "torn" => \A v \in open' : v = "" \/ entry'.version # v
  BY <1>2, <1>5, NoEntryFact
<1>7. cmd'.kind = "install" => cmd'.root = "kit"
  BY <1>3, ShapeKeepsRoot
<1> QED BY <1>4, <1>6, <1>7 DEF VersionPhase

\* Adoption records bindings, no version.
LEMMA RegisterAdoptedVersion ==
  ASSUME KitInv, VersionPhase, RegisterAdopted
  PROVE  VersionPhase'
<1>1. cmd.pc = "adopt" /\ UNCHANGED <<kitDir, open>>
  BY DEF RegisterAdopted, Register
<1>2. Writes("", "", cmd.bound)
  BY DEF RegisterAdopted, Register, Writes, _register_kit_in_core_toml
<1>3. Ends \/ Moves("resolve")
  BY GotoMoves, IdleEnds DEF RegisterAdopted, Register, Died, KitInv, PCs
<1>4. kitDir
  BY <1>1 DEF KitInv, CommandPhase, KitDirPhase
<1>5. core' # "torn" => entry'.version = "" \/ (core # "torn" /\ entry'.version = entry.version)
  <2>1. Merged("", "", cmd.bound).version = entry.version
    BY DEF Merged
  <2> QED BY <1>2, <2>1, NoEntryFact DEF Writes
<1>6. core' # "torn" => \A v \in open' : v = "" \/ entry'.version # v
  BY <1>1, <1>5 DEF VersionPhase
<1>7. cmd'.kind = "install" => cmd'.root = "kit"
  BY <1>3, ShapeKeepsRoot
<1> QED BY <1>1, <1>4, <1>6, <1>7 DEF VersionPhase

\* The end of a review records the version and closes the update to it.
LEMMA RegisterReviewedVersion ==
  ASSUME KitInv, VersionPhase, RegisterReviewed
  PROVE  VersionPhase'
<1> DEFINE w == cmd.rel.version
<1>1. cmd.pc = "review" /\ UNCHANGED kitDir
  BY DEF RegisterReviewed, Register
<1>2. \/ /\ core' = core /\ open' = open \ {w}
         /\ entry' = IF core = "torn" THEN entry ELSE Merged(w, cmd.source, <<>>)
      \/ /\ core' = core /\ entry' = entry /\ open' \subseteq open
      \/ core' = "torn"
      \/ core' = "lost" /\ entry' = NoEntry
  BY DEF RegisterReviewed, Register, _register_kit_in_core_toml
<1>3. Ends \/ Moves("regen")
  <2>1. Died \/ Leave(VersionStatus)
    BY DEF RegisterReviewed, Register
  <2>2. VersionStatus # "installed"
    BY DEF VersionStatus
  <2> QED BY <2>1, <2>2, LeaveMoves, IdleEnds DEF Died, KitInv
<1>4. kitDir
  BY <1>1 DEF KitInv, CommandPhase, KitDirPhase
<1>5. Merged(w, cmd.source, <<>>).version = IF w = "" THEN entry.version ELSE w
  BY DEF Merged
<1> HIDE DEF w
<1>6. core' # "torn" => \A v \in open' : v = "" \/ entry'.version # v
  BY <1>2, <1>5, NoEntryFact DEF VersionPhase
<1>7. cmd'.kind = "install" => cmd'.root = "kit"
  BY <1>3, ShapeKeepsRoot
<1> QED BY <1>1, <1>4, <1>6, <1>7 DEF VersionPhase

\* The steps of an update in between.
LEMMA AdoptVersion ==
  ASSUME KitInv, VersionPhase, NEW place \in Places, AdoptResource(place)
  PROVE  VersionPhase'
<1> DEFINE r == cmd.rel.manifest.resources[cmd.at]
<1>1. \/ cmd' = [cmd EXCEPT !.at = @ + 1, !.bound = Put(@, r.id, place)]
      \/ Raised \/ Died
  BY DEF AdoptResource
<1>2. Ends \/ Moves("regen") \/ Advances(r.id, place)
  BY <1>1, RaisedEndsOrLeaves, AdvanceMoves DEF KitInv
<1>3. cmd.pc = "adopt" /\ UNCHANGED <<kitDir, core, entry, open>>
  BY DEF AdoptResource
<1>4. kitDir
  BY <1>3 DEF KitInv, CommandPhase, KitDirPhase
<1> QED BY <1>2, <1>3, <1>4, ShapeKeepsRoot, VersionKept

\* ResolveAdopted and the version on record.
LEMMA ResolveAdoptedVersion ==
  ASSUME KitInv, VersionPhase, ResolveAdopted
  PROVE  VersionPhase'
<1>1. Moves("diff") \/ Ends \/ Moves("regen")
  BY ResolveMoves DEF ResolveAdopted, KitInv, PCs
<1>2. cmd.pc = "resolve" /\ UNCHANGED <<kitDir, core, entry, open>>
  BY DEF ResolveAdopted
<1>3. kitDir
  BY <1>2 DEF KitInv, CommandPhase, KitDirPhase
<1> QED BY <1>1, <1>2, <1>3, ShapeKeepsRoot, VersionKept

\* StartReview and the version on record.
LEMMA StartVersion ==
  ASSUME KitInv, VersionPhase, StartReview
  PROVE  VersionPhase'
<1>1. cmd.pc = "diff" /\ UNCHANGED <<kitDir, core, entry, open>>
  BY DEF StartReview
<1>2. cmd.kind = "update" /\ kitDir
  BY <1>1 DEF KitInv, CommandPhase, KitDirPhase
<1>3. cmd'.kind = cmd.kind
  BY NoCmdFact DEF StartReview, KitInv, CmdType, Fields
<1> QED BY <1>1, <1>2, <1>3, VersionKept

\* ReviewFile and the version on record.
LEMMA ReviewVersion ==
  ASSUME KitInv, VersionPhase, NEW answer \in Answers, NEW toc \in {"yes", "no", "continue", "stop"},
         ReviewFile(answer, toc)
  PROVE  VersionPhase'
<1>1. cmd.pc = "review" /\ UNCHANGED <<kitDir, core, entry, open>>
  BY DEF ReviewFile
<1>2. cmd.kind = "update" /\ kitDir
  BY <1>1 DEF KitInv, CommandPhase, KitDirPhase
<1>3. Ends \/ (Reviews(cmd') /\ cmd'.pc \in {"review", "regen"})
  BY ReviewShape
<1> QED BY <1>1, <1>2, <1>3, ShapeKeepsRoot, VersionKept

\* Every step keeps VersionPhase.
LEMMA NextVersion ==
  ASSUME KitInv, VersionPhase, KeepsRoot', [Next]_vars
  PROVE  VersionPhase'
<1>1. CASE UNCHANGED vars
  BY <1>1 DEF vars, VersionPhase
<1>2. CASE \E l \in Locs, vs \in {"none", "raw"} : UserEdits(l, vs)
  BY <1>2, EditVersion
<1>3. CASE \E rel \in Releases, github, force \in BOOLEAN, root \in Places :
             cmd_kit_install(rel, github, force, root)
  BY <1>3, InstallVersionKept
<1>4. CASE \E rel \in Releases, local, interactive, yes, force \in BOOLEAN :
             cmd_kit_update(rel, local, interactive, yes, force)
  BY <1>4, UpdateVersion
<1>5. CASE CopyContent \/ ResolveInstalled \/ _seed_kit_config_files
  BY <1>5, CopyVersion, ResolveInstalledVersion, SeedVersion
<1>6. CASE RegisterInstalled \/ RegisterAdopted \/ ResolveAdopted
  BY <1>6, RegisterInstalledVersion, RegisterAdoptedVersion, ResolveAdoptedVersion
<1>7. CASE StartReview \/ RegisterReviewed \/ regenerate_gen_aggregates
  BY <1>7, StartVersion, RegisterReviewedVersion, RegenVersion
<1>8. CASE \E place \in Places : PlaceResource(place) \/ AdoptResource(place)
  BY <1>8, PlaceVersion, AdoptVersion
<1>9. CASE \E answer \in Answers, toc \in {"yes", "no", "continue", "stop"} : ReviewFile(answer, toc)
  BY <1>9, ReviewVersion
<1> QED BY <1>1, <1>2, <1>3, <1>4, <1>5, <1>6, <1>7, <1>8, <1>9 DEF Next, Step

\* An update to another version than the one on record that was begun and not
\* completed, forced or not, is never on record as done: the next update to
\* that version goes through with it.  Of kits in their own directory; for a
\* kit that was moved TLC finds the counterexample.
THEOREM InterruptedUpdatesRetried ==
  Spec /\ []KeepsRoot => []InterruptedIsRetried
<1>1. Init => VersionPhase
  BY NoCmdFact, NoEntryFact DEF Init, VersionPhase
<1>2. KitInv /\ VersionPhase /\ KeepsRoot' /\ [Next]_vars => VersionPhase'
  BY NextVersion
<1>3. VersionPhase => InterruptedIsRetried
  BY NoEntryFact DEF VersionPhase, InterruptedIsRetried, UpToDate, Entry
<1> QED BY <1>1, <1>2, <1>3, KitInvariance, PTL DEF Spec
-----------------------------------------------------------------------------
(* Where an update writes.                                                 *)

\* _copy_manifest_resource writes the files of the resource, at the place.
LEMMA CopiedWrites ==
  ASSUME NEW d, NEW rel, NEW r, NEW place, NEW l \in DOMAIN Copied(d, rel, r, place)
  PROVE  \/ l \in DOMAIN d /\ Copied(d, rel, r, place)[l] = d[l]
         \/ l[1] = place /\ Covers(r, l[2])
<1> DEFINE fs == {f \in DOMAIN rel.files : Covers(r, f)}
           new == [m \in {place} \X fs |-> rel.files[m[2]]]
           old == IF IsDir(r) THEN Drop(d, {m \in DOMAIN d : m[1] = place /\ m[2][1] = r.source[1]}) ELSE d
<1>1. Copied(d, rel, r, place) = Over(old, new)
  BY DEF Copied
<1>2. \A m \in DOMAIN new : m[1] = place /\ Covers(r, m[2])
  OBVIOUS
<1>3. \A m \in DOMAIN old : m \in DOMAIN d /\ old[m] = d[m]
  BY DEF Drop
<1> HIDE DEF new, old
<1> QED BY <1>1, <1>2, <1>3 DEF Over

\* _copy_kit_content writes in the kit's directory.
LEMMA ContentWrites ==
  ASSUME NEW d, NEW rel, NEW l \in DOMAIN _copy_kit_content(d, rel), l[1] # "kit"
  PROVE  l \in DOMAIN d /\ _copy_kit_content(d, rel)[l] = d[l]
<1> DEFINE dirs == ReleaseDirs(rel)
           n1 == [m \in {"kit"} \X {f \in DOMAIN rel.files : f[1] \in dirs} |-> rel.files[m[2]]]
           n2 == [m \in {"kit"} \X RootFiles(rel) |-> rel.files[m[2]]]
           d0 == Drop(d, {m \in DOMAIN d : m[1] = "kit" /\ m[2][1] \in dirs})
<1>1. _copy_kit_content(d, rel) = Over(Over(d0, n1), n2)
  BY DEF _copy_kit_content, CopyFiles, ReplaceDirs
<1>2. l \notin DOMAIN n1 /\ l \notin DOMAIN n2
  OBVIOUS
<1>3. \A m \in DOMAIN d0 : m \in DOMAIN d /\ d0[m] = d[m]
  BY DEF Drop
<1> HIDE DEF n1, n2, d0
<1>4. l \in DOMAIN Over(d0, n1) /\ _copy_kit_content(d, rel)[l] = Over(d0, n1)[l]
  BY <1>1, <1>2 DEF Over
<1>5. l \in DOMAIN d0 /\ Over(d0, n1)[l] = d0[l]
  BY <1>2, <1>4 DEF Over
<1> QED BY <1>3, <1>4, <1>5

\* Where no file belongs to two resources, each belongs to the one that
\* covers it.
LEMMA OneOwner ==
  ASSUME NEW rel \in Releases, rel.manifest.kind = "ok", Separate(rel), NEW f \in Files,
         NEW i \in DOMAIN rel.manifest.resources, Covers(rel.manifest.resources[i], f)
  PROVE  ResourceOf(rel, f) = i /\ i # 0
<1> DEFINE rs == rel.manifest.resources
           covering == {k \in DOMAIN rs : Covers(rs[k], f)}
<1>1. i \in Nat \ {0}
  BY KitAssumption
<1>2. covering = {i}
  BY DEF Separate
<1>3. ResourceOf(rel, f) = CHOOSE k \in covering : \A j \in covering : j <= k
  BY <1>2 DEF ResourceOf
<1> HIDE DEF covering
<1>4. \E k \in covering : \A j \in covering : j <= k
  BY <1>1, <1>2
<1>5. ResourceOf(rel, f) \in covering
  BY <1>3, <1>4
<1> QED BY <1>1, <1>2, <1>5

\* ... so what lies at the binding of a resource lies at its place.
LEMMA BoundPlace ==
  ASSUME KitInv, Separate(cmd.rel), cmd.rel.manifest.kind = "ok", NEW f \in Files,
         NEW i \in DOMAIN cmd.rel.manifest.resources, Covers(cmd.rel.manifest.resources[i], f),
         cmd.rel.manifest.resources[i].id \in DOMAIN Bindings
  PROVE  Place(cmd.rel, f) = Bindings[cmd.rel.manifest.resources[i].id]
<1>1. cmd.rel \in Releases
  BY DEF KitInv, CmdType
<1>2. ResourceOf(cmd.rel, f) = i /\ i # 0
  BY <1>1, OneOwner
<1> QED BY <1>2 DEF Place

\* The bindings of core.toml, when it can be read and the release has a
\* manifest.
LEMMA BindingsRead ==
  ASSUME core = "ok", cmd.rel.manifest.kind = "ok"
  PROVE  Bindings = entry.resources
BY DEF Bindings, load_manifest, Entry

\* The mapping of an update: the files of the release at their places, and
\* the others of the kit's directory in it.
LEMMA TargetPlaces ==
  ASSUME KitInv, Separate(cmd.rel)
  PROVE  /\ \A f \in DOMAIN SourceFiles(cmd.rel) : TargetMapping(cmd.rel)[f] = Place(cmd.rel, f)
         /\ \A f \in Files : InContent(f) /\ <<"kit", f>> \in DOMAIN disk /\ Place(cmd.rel, f) = "kit" =>
               f \in DOMAIN TargetMapping(cmd.rel) /\ TargetMapping(cmd.rel)[f] = "kit"
<1> DEFINE rel == cmd.rel
           source == DOMAIN SourceFiles(rel)
           direct == [f \in source |-> Place(rel, f)]
           rs == IF Bindings = <<>> THEN <<>> ELSE rel.manifest.resources
           bound(f) == {i \in DOMAIN rs : /\ IsDir(rs[i]) /\ Covers(rs[i], f)
                                          /\ rs[i].id \in DOMAIN Bindings
                                          /\ <<Bindings[rs[i].id], f>> \in DOMAIN disk}
           below == {f \in Files : bound(f) # {} /\ ~(f \in source /\ <<direct[f], f>> \in DOMAIN disk)}
           rest == {f \in Files : InContent(f) /\ <<"kit", f>> \in DOMAIN disk}
           under == [f \in below |-> Bindings[rs[CHOOSE i \in bound(f) : TRUE].id]]
           kit == [f \in rest |-> "kit"]
<1>1. TargetMapping(rel) = Over(kit, Over(direct, under))
  BY DEF TargetMapping
<1>2. \A f \in below : under[f] = Place(rel, f)
  <2> SUFFICES ASSUME NEW f \in below PROVE under[f] = Place(rel, f)
    OBVIOUS
  <2>1. PICK i \in bound(f) : i = CHOOSE k \in bound(f) : TRUE
    OBVIOUS
  <2>2. under[f] = Bindings[rs[i].id] /\ i \in DOMAIN rs /\ Covers(rs[i], f) /\ rs[i].id \in DOMAIN Bindings
    BY <2>1
  <2>3. rs = rel.manifest.resources /\ Bindings # <<>>
    <3>1. \A x : x = <<>> => DOMAIN x = {}
      OBVIOUS
    <3> QED BY <2>2, <3>1
  <2>4. rel.manifest.kind = "ok"
    BY <2>3 DEF Bindings, load_manifest
  <2> HIDE DEF under, rs
  <2> QED BY <2>2, <2>3, <2>4, BoundPlace
<1>3. \A f \in source : direct[f] = Place(rel, f)
  OBVIOUS
<1>4. DOMAIN kit = rest /\ DOMAIN direct = source /\ DOMAIN under = below
  OBVIOUS
<1>5. \A f \in rest : kit[f] = "kit"
  OBVIOUS
<1>6. source \subseteq Files
  BY DEF SourceFiles, Sub
<1>7. \A f \in Files : InContent(f) /\ <<"kit", f>> \in DOMAIN disk => f \in rest
  OBVIOUS
<1> HIDE DEF source, direct, rs, bound, below, rest, under, kit, rel
<1> DEFINE o == Over(direct, under)
<1>8. DOMAIN o = source \cup below /\ \A f \in DOMAIN o : o[f] = Place(rel, f)
  BY <1>2, <1>3, <1>4 DEF Over
<1> HIDE DEF o
<1>9. DOMAIN Over(kit, o) = rest \cup source \cup below
  BY <1>4, <1>8 DEF Over
<1>10. \A f \in source : Over(kit, o)[f] = Place(rel, f)
  BY <1>4, <1>8 DEF Over
<1>11. \A f \in rest : Place(rel, f) = "kit" => Over(kit, o)[f] = "kit"
  BY <1>4, <1>5, <1>8 DEF Over
<1> QED BY <1>1, <1>7, <1>9, <1>10, <1>11 DEF o, rel, source

-----------------------------------------------------------------------------
(* An update that accepts everything.                                      *)

\* A command that goes on, field by field.
LEMMA GotoFields ==
  ASSUME CmdType(cmd), NEW pc, Goto(pc)
  PROVE  /\ cmd'.pc = pc /\ cmd'.rel = cmd.rel /\ cmd'.kind = cmd.kind /\ cmd'.yes = cmd.yes
         /\ cmd'.status = cmd.status /\ cmd'.target = cmd.target /\ cmd'.todo = cmd.todo
         /\ cmd'.snapshot = cmd.snapshot /\ cmd'.bound = cmd.bound
<1>1. DOMAIN cmd = Fields /\ cmd' = [cmd EXCEPT !.pc = pc]
  BY NoCmdFact DEF CmdType, Goto
<1> QED BY <1>1 DEF Fields

\* ... and one that leaves.
LEMMA LeaveFields ==
  ASSUME CmdType(cmd), NEW status, Leave(status)
  PROVE  /\ cmd'.pc = "regen" /\ cmd'.rel = cmd.rel /\ cmd'.kind = cmd.kind /\ cmd'.yes = cmd.yes
         /\ cmd'.status = status
<1>1. DOMAIN cmd = Fields /\ cmd' = [cmd EXCEPT !.pc = "regen", !.status = status]
  BY NoCmdFact DEF CmdType, Leave
<1> QED BY <1>1 DEF Fields

\* A resource is bound and the command goes on.
LEMMA AdvanceFields ==
  ASSUME CmdType(cmd), NEW id, NEW place,
         cmd' = [cmd EXCEPT !.at = @ + 1, !.bound = Put(@, id, place)]
  PROVE  cmd'.kind = cmd.kind /\ cmd'.pc = cmd.pc
<1>1. DOMAIN cmd = Fields
  BY NoCmdFact DEF CmdType
<1> QED BY <1>1 DEF Fields

\* Nothing is claimed where no update adopts, compares, reviews or has
\* updated.
Quiet ==
  \/ cmd.kind # "update" \/ core # "ok"
  \/ cmd.pc = "regen" /\ cmd.status # "updated"
  \/ cmd.pc \notin {"adopt", "resolve", "diff", "review", "regen"}

\* Then the invariant holds.
LEMMA QuietPhase ==
  ASSUME Quiet
  PROVE  UpdatePhase
BY DEF Quiet, UpdatePhase, AdoptPhase, ReviewPhase, Converges, AcceptAllConverges

\* The steps after which nothing is claimed.
LEMMA QuietSteps ==
  ASSUME KitInv,
         \/ \E l \in Locs, vs \in {"none", "raw"} : UserEdits(l, vs)
         \/ \E rel \in Releases, github, force \in BOOLEAN, root \in Places :
               cmd_kit_install(rel, github, force, root)
         \/ CopyContent \/ ResolveInstalled \/ _seed_kit_config_files \/ RegisterInstalled
         \/ regenerate_gen_aggregates
         \/ \E place \in Places : PlaceResource(place)
  PROVE  Quiet'
<1>0. CmdType(cmd)
  BY DEF KitInv
<1>1. CASE \E l \in Locs, vs \in {"none", "raw"} : UserEdits(l, vs)
  BY <1>1 DEF UserEdits, Quiet, KitInv, KitDirPhase
<1>2. CASE \E rel \in Releases, github, force \in BOOLEAN, root \in Places :
             cmd_kit_install(rel, github, force, root)
  <2>1. PICK rel \in Releases, github \in BOOLEAN, force \in BOOLEAN, root \in Places :
          cmd_kit_install(rel, github, force, root)
    BY <1>2
  <2>2. CASE \E status : Refuse(status)
    BY <2>2 DEF Refuse, Quiet, KitInv, KitDirPhase
  <2>3. CASE ~(kitDir /\ ~force) /\ load_manifest(rel) # "bad"
    <3> DEFINE src == IF github THEN "github" ELSE ""
               rt == IF load_manifest(rel) = "ok" /\ rel.manifest.ask THEN root ELSE "kit"
               at == IF load_manifest(rel) = "none" THEN "copy"
                     ELSE IF validate_manifest(rel) THEN "place" ELSE "regen"
               st == IF load_manifest(rel) = "ok" /\ ~validate_manifest(rel) THEN "FAIL" ELSE "none"
               c == [NoCmd EXCEPT !.kind = "install", !.rel = rel, !.force = force,
                        !.interactive = TRUE, !.source = src, !.root = rt, !.pc = at, !.status = st]
    <3>1. Begin(c)
      BY <2>1, <2>3 DEF cmd_kit_install
    <3> HIDE DEF src, rt, at, st
    <3>2. c.kind = "install"
      BY NoCmdFact DEF Fields
    <3> HIDE DEF c
    <3>3. cmd'.kind = "install"
      BY <3>1, <3>2 DEF Begin
    <3> QED BY <3>3 DEF Quiet
  <2> QED BY <2>1, <2>2, <2>3 DEF cmd_kit_install
<1>3. CASE CopyContent
  <2>1. Goto("seed") \/ Leave("ERROR") \/ Died
    BY <1>3 DEF CopyContent, Raised
  <2>2. CASE Goto("seed")
    BY <1>0, <2>2, GotoFields DEF Quiet
  <2>3. CASE Leave("ERROR")
    BY <1>0, <2>3, LeaveFields DEF Quiet
  <2>4. CASE Died
    BY <2>4, NoCmdFact DEF Died, Quiet
  <2> QED BY <2>1, <2>2, <2>3, <2>4
<1>4. CASE ResolveInstalled \/ _seed_kit_config_files
  <2>1. CASE Goto("seed")
    BY <1>0, <2>1, GotoFields DEF Quiet
  <2>2. CASE Goto("register")
    BY <1>0, <2>2, GotoFields DEF Quiet
  <2>3. CASE Leave("ERROR")
    BY <1>0, <2>3, LeaveFields DEF Quiet
  <2>4. CASE Died
    BY <2>4, NoCmdFact DEF Died, Quiet
  <2>5. Goto("seed") \/ Goto("register") \/ Leave("ERROR") \/ Died
    BY <1>4 DEF ResolveInstalled, _seed_kit_config_files, _resolve_template_variables, Raised
  <2> QED BY <2>1, <2>2, <2>3, <2>4, <2>5
<1>5. CASE RegisterInstalled
  <2>1. Died \/ Leave("installed") \/ Leave("created")
    BY <1>5 DEF RegisterInstalled, Register
  <2>2. CASE Died
    BY <2>2, NoCmdFact DEF Died, Quiet
  <2>3. CASE Leave("installed")
    BY <1>0, <2>3, LeaveFields DEF Quiet
  <2>4. CASE Leave("created")
    BY <1>0, <2>4, LeaveFields DEF Quiet
  <2> QED BY <2>1, <2>2, <2>3, <2>4
<1>6. CASE regenerate_gen_aggregates
  BY <1>6, NoCmdFact DEF regenerate_gen_aggregates, Died, Quiet
<1>7. CASE \E place \in Places : PlaceResource(place)
  <2>1. PICK place \in Places : PlaceResource(place)
    BY <1>7
  <2> DEFINE r == cmd.rel.manifest.resources[cmd.at]
  <2>2. cmd.kind = "install"
    BY <2>1 DEF PlaceResource, KitInv, CommandPhase
  <2>3. cmd' = [cmd EXCEPT !.at = @ + 1, !.bound = Put(@, r.id, place)] \/ Died
    BY <2>1 DEF PlaceResource
  <2> HIDE DEF r
  <2>4. cmd'.kind # "update"
    <3>1. CASE Died
      BY <3>1, NoCmdFact DEF Died
    <3>2. CASE cmd' = [cmd EXCEPT !.at = @ + 1, !.bound = Put(@, r.id, place)]
      <4>1. cmd'.kind = cmd.kind
        BY <1>0, <3>2, AdvanceFields
      <4> QED BY <2>2, <4>1
    <3> QED BY <2>3, <3>1, <3>2
  <2> QED BY <2>4 DEF Quiet
<1> QED BY <1>1, <1>2, <1>3, <1>4, <1>5, <1>6, <1>7

\* An update begins with what it finds.
LEMMA UpdateBegins ==
  ASSUME KitInv, NEW rel \in Releases, NEW local \in BOOLEAN, NEW interactive \in BOOLEAN,
         NEW yes \in BOOLEAN, NEW force \in BOOLEAN,
         cmd_kit_update(rel, local, interactive, yes, force)
  PROVE  \/ cmd' = cmd /\ cmd.kind = "none" /\ UNCHANGED <<disk, kitDir, core, entry>>
         \/ /\ cmd'.kind = "update" /\ cmd'.rel = rel /\ cmd'.at = 1 /\ before' = disk
            /\ UNCHANGED <<disk, kitDir, core, entry>>
            /\ \/ cmd'.pc = "regen" /\ cmd'.status \in {"current", "ERROR"}
               \/ cmd'.pc = AfterVersionCheck(rel)
<1>1. CASE ~local /\ (~Entry.present \/ Entry.source = "")
  BY <1>1 DEF cmd_kit_update, Refuse, KitInv, KitDirPhase
<1>2. CASE ~(~local /\ (~Entry.present \/ Entry.source = ""))
  <2> DEFINE src == IF local THEN "" ELSE "github"
             b == [NoCmd EXCEPT !.kind = "update", !.rel = rel, !.force = force,
                      !.interactive = interactive, !.yes = yes, !.source = src]
             c == IF UpToDate(rel, force) THEN [b EXCEPT !.pc = "regen", !.status = "current"]
                  ELSE IF load_manifest(rel) = "bad" THEN [b EXCEPT !.pc = "regen", !.status = "ERROR"]
                  ELSE [b EXCEPT !.pc = AfterVersionCheck(rel)]
  <2>1. Begin(c)
    BY <1>2 DEF cmd_kit_update
  <2> HIDE DEF src
  <2>2. DOMAIN b = Fields /\ b.kind = "update" /\ b.rel = rel /\ b.at = 1
    BY NoCmdFact DEF Fields
  <2> HIDE DEF b
  <2>3. /\ c.kind = "update" /\ c.rel = rel /\ c.at = 1
        /\ \/ c.pc = "regen" /\ c.status \in {"current", "ERROR"}
           \/ c.pc = AfterVersionCheck(rel)
    BY <2>2 DEF Fields
  <2> HIDE DEF c
  <2> QED BY <2>1, <2>3 DEF Begin
<1> QED BY <1>1, <1>2

\* cmd_kit_update.
LEMMA UpdatePhaseBegins ==
  ASSUME KitInv, NEW rel \in Releases, NEW local \in BOOLEAN, NEW interactive \in BOOLEAN,
         NEW yes \in BOOLEAN, NEW force \in BOOLEAN,
         cmd_kit_update(rel, local, interactive, yes, force)
  PROVE  UpdatePhase'
<1>1. \/ cmd' = cmd /\ cmd.kind = "none" /\ UNCHANGED <<disk, kitDir, core, entry>>
      \/ /\ cmd'.kind = "update" /\ cmd'.rel = rel /\ cmd'.at = 1 /\ before' = disk
         /\ UNCHANGED <<disk, kitDir, core, entry>>
         /\ \/ cmd'.pc = "regen" /\ cmd'.status \in {"current", "ERROR"}
            \/ cmd'.pc = AfterVersionCheck(rel)
  BY UpdateBegins
<1>2. /\ AfterVersionCheck(rel) \in {"adopt", "diff", "copy"}
      /\ AfterVersionCheck(rel) = "adopt" => validate_manifest(rel) /\ rel.manifest.kind = "ok"
  BY DEF AfterVersionCheck, load_manifest
<1>3. CASE Quiet'
  BY <1>3, QuietPhase, PTL
<1>4. CASE cmd'.pc \in {"adopt", "diff"} /\ cmd'.rel = rel /\ cmd'.at = 1 /\ before' = disk /\ disk' = disk
           /\ (cmd'.pc = "adopt" => validate_manifest(rel) /\ rel.manifest.kind = "ok")
  <2>1. \A l \in DOMAIN disk' : AsFound(l)'
    BY <1>4 DEF AsFound
  <2>2. cmd'.pc = "adopt" => Len(rel.manifest.resources) \in Nat
    BY <1>4, KitAssumption
  <2>3. AdoptPhase'
    BY <1>4, <2>1, <2>2 DEF AdoptPhase
  <2>4. ReviewPhase' /\ Converges'
    BY <1>4 DEF ReviewPhase, Converges, AcceptAllConverges
  <2> QED BY <2>3, <2>4 DEF UpdatePhase
<1> QED BY <1>1, <1>2, <1>3, <1>4 DEF Quiet

\* AdoptResource: what it copies it binds.
LEMMA AdoptPhaseKept ==
  ASSUME KitInv, UpdatePhase, NEW place \in Places, AdoptResource(place)
  PROVE  UpdatePhase'
<1> DEFINE rs == cmd.rel.manifest.resources
           r == rs[cmd.at]
           b == Put(cmd.bound, r.id, place)
<1>0. /\ cmd.pc = "adopt" /\ cmd.at <= Len(rs) /\ UNCHANGED <<core, entry, before>>
      /\ CmdType(cmd) /\ cmd.kind = "update" /\ cmd.rel.manifest.kind = "ok" /\ cmd.rel \in Releases
  BY DEF AdoptResource, KitInv, CommandPhase, CmdType
<1>1. \/ /\ disk' = disk \/ disk' = Copied(disk, cmd.rel, r, place)
         /\ cmd' = [cmd EXCEPT !.at = @ + 1, !.bound = Put(@, r.id, place)]
      \/ Raised \/ Died
  BY DEF AdoptResource
<1>2. CASE Raised \/ Died
  <2>1. Leave("ERROR") \/ Died
    BY <1>2 DEF Raised
  <2>2. Leave("ERROR") => Quiet'
    BY <1>0, LeaveFields DEF Quiet
  <2>3. Died => Quiet'
    BY NoCmdFact DEF Died, Quiet
  <2>4. Quiet'
    BY <2>1, <2>2, <2>3
  <2> QED BY <2>4, QuietPhase, PTL
<1>3. CASE core # "ok"
  <2>1. Quiet'
    BY <1>0, <1>3 DEF Quiet
  <2> QED BY <2>1, QuietPhase, PTL
<1>4. CASE core = "ok" /\ cmd' = [cmd EXCEPT !.at = @ + 1, !.bound = Put(@, r.id, place)]
           /\ (disk' = disk \/ disk' = Copied(disk, cmd.rel, r, place))
  <2>1. Advances(r.id, place)
    BY <1>0, <1>4, AdvanceMoves
  <2>2. /\ validate_manifest(cmd.rel)
        /\ \A l \in DOMAIN disk : AsFound(l) \/ \E i \in 1..(cmd.at - 1) : BoundAt(cmd.bound, i, l)
    BY <1>0, <1>4 DEF UpdatePhase, AdoptPhase
  <2>3. DOMAIN rs = 1..Len(rs) /\ Len(rs) \in Nat /\ cmd.at \in 1..Len(rs) /\ cmd.at \in Nat \ {0}
    <3>1. DOMAIN rs = 1..Len(rs) /\ Len(rs) \in Nat
      BY <1>0, KitAssumption
    <3>2. cmd.at \in Nat \ {0}
      BY <1>0 DEF CmdType
    <3> QED BY <1>0, <3>1, <3>2
  <2>4. r.id \in DOMAIN b /\ b[r.id] = place /\ \A k \in DOMAIN cmd.bound : k # r.id => k \in DOMAIN b /\ b[k] = cmd.bound[k]
    BY DEF Put
  <2>5. cmd'.bound = b /\ cmd'.at = cmd.at + 1 /\ cmd'.rel = cmd.rel /\ cmd'.pc = "adopt" /\ cmd'.kind = "update"
    BY <1>0, <2>1 DEF Advances
  <2>6. \A i \in 1..(cmd.at - 1) : i \in DOMAIN rs /\ rs[i].id # r.id /\ i \in 1..cmd.at
    <3> SUFFICES ASSUME NEW i \in 1..(cmd.at - 1) PROVE i \in DOMAIN rs /\ rs[i].id # r.id /\ i \in 1..cmd.at
      OBVIOUS
    <3>1. i \in DOMAIN rs /\ cmd.at \in DOMAIN rs /\ i # cmd.at /\ i \in 1..cmd.at
      BY <2>3
    <3> QED BY <2>2, <3>1 DEF validate_manifest
  <2>7. b # <<>>
    <3>1. \A x : x = <<>> => DOMAIN x = {}
      OBVIOUS
    <3> QED BY <2>4, <3>1
  <2> HIDE DEF b
  <2>8. ASSUME NEW l \in DOMAIN disk'
        PROVE  AsFound(l)' \/ \E i \in 1..cmd.at : BoundAt(b, i, l)
    <3>1. \/ l \in DOMAIN disk /\ disk'[l] = disk[l]
          \/ l[1] = place /\ Covers(r, l[2])
      BY <1>4, CopiedWrites
    <3>2. CASE l[1] = place /\ Covers(r, l[2])
      <4>1. BoundAt(b, cmd.at, l)
        BY <3>2, <2>4 DEF BoundAt
      <4> QED BY <4>1, <2>3
    <3>3. CASE l \in DOMAIN disk /\ disk'[l] = disk[l]
      <4>1. CASE AsFound(l)
        BY <1>0, <3>3, <4>1 DEF AsFound
      <4>2. CASE \E i \in 1..(cmd.at - 1) : BoundAt(cmd.bound, i, l)
        <5>1. PICK i \in 1..(cmd.at - 1) : BoundAt(cmd.bound, i, l)
          BY <4>2
        <5>2. BoundAt(b, i, l) /\ i \in 1..cmd.at
          BY <5>1, <2>4, <2>6 DEF BoundAt
        <5> QED BY <5>2
      <4> QED BY <2>2, <3>3, <4>1, <4>2
    <3> QED BY <3>1, <3>2, <3>3
  <2>9. cmd'.at - 1 = cmd.at /\ cmd'.at <= Len(rs) + 1
    BY <1>0, <2>3, <2>5
  <2>10. \A l, i : BoundAt(b, i, l) => BoundAt(cmd.bound, i, l)'
    BY <2>5 DEF BoundAt
  <2>11. \A l \in DOMAIN disk' : AsFound(l)' \/ \E i \in 1..(cmd'.at - 1) : BoundAt(cmd.bound, i, l)'
    BY <2>8, <2>9, <2>10
  <2>12. AdoptPhase'
    BY <2>2, <2>5, <2>7, <2>9, <2>11 DEF AdoptPhase
  <2>13. ReviewPhase' /\ Converges'
    BY <2>5 DEF ReviewPhase, Converges, AcceptAllConverges
  <2> QED BY <2>12, <2>13 DEF UpdatePhase
<1> QED BY <1>0, <1>1, <1>2, <1>3, <1>4

\* RegisterAdopted: what was bound is on record.
LEMMA AdoptedPhase ==
  ASSUME KitInv, UpdatePhase, RegisterAdopted
  PROVE  UpdatePhase'
<1> DEFINE rs == cmd.rel.manifest.resources
<1>0. /\ cmd.pc = "adopt" /\ cmd.at > Len(rs) /\ UNCHANGED <<disk, before>>
      /\ CmdType(cmd) /\ cmd.kind = "update" /\ cmd.rel.manifest.kind = "ok" /\ cmd.rel \in Releases
  BY DEF RegisterAdopted, Register, KitInv, CommandPhase, CmdType
<1>1. Writes("", "", cmd.bound)
  BY DEF RegisterAdopted, Register, Writes, _register_kit_in_core_toml
<1>2. Died \/ Goto("resolve")
  BY DEF RegisterAdopted, Register
<1>3. CASE Died
  <2>1. Quiet'
    BY <1>3, NoCmdFact DEF Died, Quiet
  <2> QED BY <2>1, QuietPhase, PTL
<1>4. CASE core' # "ok"
  <2>1. Quiet'
    BY <1>4 DEF Quiet
  <2> QED BY <2>1, QuietPhase, PTL
<1>5. CASE Goto("resolve") /\ core' = "ok"
  <2>1. core = "ok" /\ entry' = Merged("", "", cmd.bound)
    BY <1>1, <1>5 DEF Writes
  <2>2. /\ cmd.at > 1 => cmd.bound # <<>>
        /\ cmd.at <= Len(rs) + 1
        /\ \A l \in DOMAIN disk : AsFound(l) \/ \E i \in 1..(cmd.at - 1) : BoundAt(cmd.bound, i, l)
    BY <1>0, <2>1 DEF UpdatePhase, AdoptPhase
  <2>3. DOMAIN rs = 1..Len(rs) /\ Len(rs) \in Nat \ {0} /\ cmd.at \in Nat
    BY <1>0, KitAssumption DEF CmdType
  <2>4. cmd.at > 1 /\ 1..(cmd.at - 1) = DOMAIN rs
    BY <1>0, <2>2, <2>3
  <2>5. entry'.resources = cmd.bound
    BY <2>1, <2>2, <2>4 DEF Merged
  <2>6. cmd'.rel = cmd.rel /\ cmd'.pc = "resolve"
    BY <1>0, <1>5, GotoFields
  <2>7. \A l : AsFound(l) => AsFound(l)'
    BY <1>0 DEF AsFound
  <2>8. \A l, i : BoundAt(cmd.bound, i, l) => BoundAt(entry.resources, i, l)'
    BY <2>5, <2>6 DEF BoundAt
  <2>9. \A l \in DOMAIN disk' : AsFound(l)' \/ \E i \in DOMAIN rs : BoundAt(entry.resources, i, l)'
    BY <1>0, <2>2, <2>4, <2>7, <2>8
  <2>10. AdoptPhase'
    BY <1>0, <2>6, <2>9 DEF AdoptPhase
  <2>11. ReviewPhase' /\ Converges'
    BY <2>6 DEF ReviewPhase, Converges, AcceptAllConverges
  <2> QED BY <2>10, <2>11 DEF UpdatePhase
<1> QED BY <1>2, <1>3, <1>4, <1>5

\* ResolveAdopted, when it comes to its end, changes no text.
LEMMA ResolvedWhole ==
  ASSUME KitInv, UpdatePhase, cmd.pc = "resolve", UNCHANGED <<core, entry, before>>,
         Goto("diff"), NEW S, disk' = Resolved(disk, S)
  PROVE  UpdatePhase'
<1>0. CmdType(cmd) /\ Disk(disk)
  BY DEF KitInv, TypeOK, Disk
<1>1. cmd'.pc = "diff" /\ cmd'.rel = cmd.rel /\ cmd'.kind = cmd.kind
  BY <1>0, GotoFields
<1>2. DOMAIN disk' = DOMAIN disk /\ \A l \in DOMAIN disk : disk'[l].body = disk[l].body
  BY <1>0, ResolvedFact
<1>3. \A l \in DOMAIN disk : AsFound(l) => AsFound(l)'
  BY <1>0, <1>2 DEF AsFound
<1>4. \A l, i : BoundAt(entry.resources, i, l) => BoundAt(entry.resources, i, l)'
  BY <1>0, <1>1 DEF BoundAt
<1>5. AdoptPhase'
  <2> SUFFICES ASSUME cmd.kind = "update", core = "ok", NEW l \in DOMAIN disk'
               PROVE  \/ AsFound(l)'
                      \/ /\ cmd'.rel.manifest.kind = "ok"
                         /\ \E i \in DOMAIN cmd'.rel.manifest.resources : BoundAt(entry.resources, i, l)'
    BY <1>0, <1>1 DEF AdoptPhase
  <2>1. \/ AsFound(l)
        \/ /\ cmd.rel.manifest.kind = "ok"
           /\ \E i \in DOMAIN cmd.rel.manifest.resources : BoundAt(entry.resources, i, l)
    BY <1>0, <1>2 DEF UpdatePhase, AdoptPhase
  <2> QED BY <1>1, <1>2, <1>3, <1>4, <2>1
<1>6. ReviewPhase' /\ Converges'
  BY <1>1 DEF ReviewPhase, Converges, AcceptAllConverges
<1> QED BY <1>5, <1>6 DEF UpdatePhase

\* ResolveAdopted changes no text, or the command fails.
LEMMA ResolvedPhase ==
  ASSUME KitInv, UpdatePhase, ResolveAdopted
  PROVE  UpdatePhase'
<1>0. /\ cmd.pc = "resolve" /\ CmdType(cmd) /\ Disk(disk)
      /\ UNCHANGED <<core, entry, before>>
  BY DEF ResolveAdopted, KitInv, TypeOK, Disk
<1>1. \/ Goto("diff") /\ \E S \in SUBSET DOMAIN disk : disk' = Resolved(disk, S)
      \/ Leave("ERROR") \/ Died
  BY DEF ResolveAdopted, _resolve_template_variables, WithVariables, Raised
<1>2. CASE Leave("ERROR") \/ Died
  <2>1. Quiet'
    <3>1. Died => Quiet'
      BY NoCmdFact DEF Died, Quiet
    <3>2. Leave("ERROR") => Quiet'
      BY <1>0, LeaveFields DEF Quiet
    <3> QED BY <1>2, <3>1, <3>2
  <2> QED BY <2>1, QuietPhase, PTL
<1>3. CASE Goto("diff") /\ \E S \in SUBSET DOMAIN disk : disk' = Resolved(disk, S)
  BY <1>0, <1>3, ResolvedWhole
<1> QED BY <1>1, <1>2, <1>3

\* Before the review, what lies in the kit's directory belongs there.
LEMMA KitFilesInPlace ==
  ASSUME KitInv, UpdatePhase, cmd.pc = "diff", cmd.kind = "update", core = "ok",
         Separate(cmd.rel), NoneLeftBehind,
         NEW f \in Files, InContent(f), <<"kit", f>> \in DOMAIN disk
  PROVE  Place(cmd.rel, f) = "kit"
<1> DEFINE l == <<"kit", f>>
<1>1. \/ AsFound(l)
      \/ /\ cmd.rel.manifest.kind = "ok"
         /\ \E i \in DOMAIN cmd.rel.manifest.resources : BoundAt(entry.resources, i, l)
  BY DEF UpdatePhase, AdoptPhase
<1>2. CASE AsFound(l)
  <2>1. l \in DOMAIN before /\ l[1] = "kit" /\ l[2] = f
    BY <1>2 DEF AsFound
  <2> QED BY <2>1 DEF NoneLeftBehind
<1>3. CASE cmd.rel.manifest.kind = "ok" /\ \E i \in DOMAIN cmd.rel.manifest.resources : BoundAt(entry.resources, i, l)
  <2>1. PICK i \in DOMAIN cmd.rel.manifest.resources : BoundAt(entry.resources, i, l)
    BY <1>3
  <2>2. Bindings = entry.resources
    BY <1>3, BindingsRead
  <2>3. /\ Covers(cmd.rel.manifest.resources[i], f)
        /\ cmd.rel.manifest.resources[i].id \in DOMAIN Bindings
        /\ Bindings[cmd.rel.manifest.resources[i].id] = "kit"
    BY <2>1, <2>2 DEF BoundAt
  <2> QED BY <1>3, <2>3, BoundPlace
<1> QED BY <1>1, <1>2, <1>3

\* What the review finds: a file of the release that needs no review is at its
\* place, and what the kit's directory has besides is to be removed.
LEMMA ReviewFinds ==
  ASSUME KitInv, UpdatePhase, cmd.pc = "diff", cmd.kind = "update", core = "ok",
         Separate(cmd.rel), NoneLeftBehind
  PROVE  LET source == SourceFiles(cmd.rel)
             user == UserFiles(cmd.rel)
             todo == Changed(source, user)
         IN  /\ todo \subseteq DOMAIN source \cup DOMAIN user
             /\ \A f \in DOMAIN source : f \in todo \/ (/\ <<Place(cmd.rel, f), f>> \in DOMAIN disk
                                                        /\ disk[<<Place(cmd.rel, f), f>>] = source[f])
             /\ \A l \in DOMAIN disk : l[1] = "kit" /\ InContent(l[2]) =>
                   \/ l[2] \in DOMAIN source
                   \/ l[2] \in todo /\ TargetMapping(cmd.rel)[l[2]] = "kit"
<1> DEFINE source == SourceFiles(cmd.rel)
           target == TargetMapping(cmd.rel)
           at(f) == IF <<target[f], f>> \in DOMAIN disk THEN <<target[f], f>> ELSE <<"kit", f>>
           D == {g \in DOMAIN target : at(g) \in DOMAIN disk /\ (at(g)[1] = target[g] \/ InContent(g))}
           user == UserFiles(cmd.rel)
           todo == Changed(source, user)
<1>1. user = [f \in D |-> disk[at(f)]]
  BY DEF UserFiles
<1>2. \A f \in DOMAIN source : f \in Files /\ InContent(f) /\ target[f] = Place(cmd.rel, f)
  BY TargetPlaces DEF SourceFiles, Sub
<1>3. \A f \in DOMAIN source : f \in DOMAIN user /\ source[f] = user[f] =>
          /\ <<Place(cmd.rel, f), f>> \in DOMAIN disk
          /\ disk[<<Place(cmd.rel, f), f>>] = source[f]
  <2> SUFFICES ASSUME NEW f \in DOMAIN source, f \in DOMAIN user, source[f] = user[f]
               PROVE  /\ <<Place(cmd.rel, f), f>> \in DOMAIN disk
                      /\ disk[<<Place(cmd.rel, f), f>>] = source[f]
    OBVIOUS
  <2>1. f \in D /\ user[f] = disk[at(f)] /\ at(f) \in DOMAIN disk
    BY <1>1
  <2>2. at(f) = <<Place(cmd.rel, f), f>>
    <3>1. CASE <<target[f], f>> \in DOMAIN disk
      BY <1>2, <3>1
    <3>2. CASE <<target[f], f>> \notin DOMAIN disk
      <4>1. at(f) = <<"kit", f>> /\ <<"kit", f>> \in DOMAIN disk
        BY <2>1, <3>2
      <4>2. Place(cmd.rel, f) = "kit"
        BY <1>2, <4>1, KitFilesInPlace
      <4> QED BY <4>1, <4>2
    <3> QED BY <3>1, <3>2
  <2> QED BY <2>1, <2>2
<1>4. \A f \in Files : InContent(f) /\ <<"kit", f>> \in DOMAIN disk => f \in DOMAIN user /\ target[f] = "kit"
  <2> SUFFICES ASSUME NEW f \in Files, InContent(f), <<"kit", f>> \in DOMAIN disk
               PROVE  f \in DOMAIN user /\ target[f] = "kit"
    OBVIOUS
  <2>1. Place(cmd.rel, f) = "kit"
    BY KitFilesInPlace
  <2>2. f \in DOMAIN target /\ target[f] = "kit"
    BY <2>1, TargetPlaces
  <2>3. f \in D
    BY <2>2
  <2> QED BY <1>1, <2>2, <2>3
<1> HIDE DEF source, target, user, D, at
<1>5. todo \subseteq DOMAIN source \cup DOMAIN user
  BY DEF Changed
<1>6. \A f \in DOMAIN source : f \in todo \/ (f \in DOMAIN user /\ source[f] = user[f])
  BY DEF Changed, Kind
<1>7. \A f \in DOMAIN user : f \in DOMAIN source \/ f \in todo
  BY DEF Changed, Kind
<1>8. \A l \in DOMAIN disk : l[1] = "kit" /\ InContent(l[2]) =>
          l[2] \in DOMAIN source \/ (l[2] \in todo /\ target[l[2]] = "kit")
  <2> SUFFICES ASSUME NEW l \in DOMAIN disk, l[1] = "kit", InContent(l[2])
               PROVE  l[2] \in DOMAIN source \/ (l[2] \in todo /\ target[l[2]] = "kit")
    OBVIOUS
  <2>1. l \in Locs
    BY DEF KitInv, TypeOK
  <2>2. l[2] \in Files /\ <<"kit", l[2]>> = l
    BY <2>1 DEF Locs
  <2> QED BY <1>4, <1>7, <2>2
<1>9. \A f \in DOMAIN source : f \in todo \/ (/\ <<Place(cmd.rel, f), f>> \in DOMAIN disk
                                                /\ disk[<<Place(cmd.rel, f), f>>] = source[f])
  BY <1>3, <1>6
<1> QED BY <1>5, <1>8, <1>9 DEF source, user, target

\* The places of a release, through a step that leaves the bindings.
LEMMA PlaceKept ==
  ASSUME cmd'.rel = cmd.rel, core = "ok", core' = "ok", entry'.resources = entry.resources
  PROVE  \A f : Place(cmd.rel, f)' = Place(cmd.rel, f)
<1>1. Bindings' = Bindings
  BY DEF Bindings, Entry
<1> QED BY <1>1 DEF Place

\* StartReview, field by field.
LEMMA StartFields ==
  ASSUME CmdType(cmd), StartReview
  PROVE  /\ cmd'.pc = "review" /\ cmd'.snapshot = UserFiles(cmd.rel)
         /\ cmd'.target = TargetMapping(cmd.rel)
         /\ cmd'.todo = Changed(SourceFiles(cmd.rel), UserFiles(cmd.rel))
         /\ cmd'.rel = cmd.rel /\ cmd'.kind = cmd.kind /\ cmd'.yes = cmd.yes /\ cmd'.status = cmd.status
<1> DEFINE u == UserFiles(cmd.rel)
           t == TargetMapping(cmd.rel)
           todo == Changed(SourceFiles(cmd.rel), u)
<1>1. cmd' = [cmd EXCEPT !.pc = "review", !.snapshot = u, !.target = t, !.todo = todo]
  BY DEF StartReview
<1>2. DOMAIN cmd = Fields
  BY NoCmdFact DEF CmdType
<1> HIDE DEF u, t, todo
<1>3. /\ cmd'.pc = "review" /\ cmd'.snapshot = u /\ cmd'.target = t /\ cmd'.todo = todo
      /\ cmd'.rel = cmd.rel /\ cmd'.kind = cmd.kind /\ cmd'.yes = cmd.yes /\ cmd'.status = cmd.status
  BY <1>1, <1>2 DEF Fields
<1> QED BY <1>3 DEF u, t, todo

\* StartReview.
LEMMA StartPhase ==
  ASSUME KitInv, UpdatePhase, StartReview
  PROVE  UpdatePhase'
<1>0. cmd.pc = "diff" /\ UNCHANGED <<disk, core, entry, before>> /\ CmdType(cmd)
  BY DEF StartReview, KitInv
<1>1. /\ cmd'.pc = "review" /\ cmd'.snapshot = UserFiles(cmd.rel)
      /\ cmd'.target = TargetMapping(cmd.rel)
      /\ cmd'.todo = Changed(SourceFiles(cmd.rel), UserFiles(cmd.rel))
      /\ cmd'.rel = cmd.rel /\ cmd'.kind = cmd.kind
  BY <1>0, StartFields
<1>2. cmd'.todo \subseteq DOMAIN SourceFiles(cmd'.rel) \cup DOMAIN cmd'.snapshot
  BY <1>1 DEF Changed
<1>4. ReviewPhase'
  <2> SUFFICES ASSUME cmd.kind = "update", core = "ok", Separate(cmd.rel), NoneLeftBehind'
               PROVE  ReviewPhase'
    BY <1>0, <1>1, <1>2 DEF ReviewPhase
  <2>1. \A f : Place(cmd.rel, f)' = Place(cmd.rel, f)
    BY <1>0, <1>1, PlaceKept
  <2>2. NoneLeftBehind
    BY <1>0, <2>1 DEF NoneLeftBehind
  <2>3. /\ cmd'.todo \subseteq DOMAIN SourceFiles(cmd.rel) \cup DOMAIN cmd'.snapshot
        /\ \A f \in DOMAIN SourceFiles(cmd.rel) :
              f \in cmd'.todo \/ (/\ <<Place(cmd.rel, f), f>> \in DOMAIN disk
                                  /\ disk[<<Place(cmd.rel, f), f>>] = SourceFiles(cmd.rel)[f])
        /\ \A l \in DOMAIN disk : l[1] = "kit" /\ InContent(l[2]) =>
              \/ l[2] \in DOMAIN SourceFiles(cmd.rel)
              \/ l[2] \in cmd'.todo /\ cmd'.target[l[2]] = "kit"
    BY <1>0, <1>1, <2>2, ReviewFinds
  <2>4. \A f \in DOMAIN SourceFiles(cmd.rel) : cmd'.target[f] = Place(cmd.rel, f)
    BY <1>1, TargetPlaces
  <2> QED BY <1>0, <1>1, <1>2, <2>1, <2>3, <2>4 DEF ReviewPhase
<1>3. AdoptPhase' /\ Converges'
  BY <1>1 DEF AdoptPhase, Converges, AcceptAllConverges
<1> QED BY <1>3, <1>4 DEF UpdatePhase

\* A file decided, field by field.
LEMMA DecidedFields ==
  ASSUME CmdType(cmd), NEW f, NEW action, NEW answer, NEW c, c = Decided(f, action, answer)
  PROVE  /\ DOMAIN c = Fields /\ c.pc = cmd.pc /\ c.rel = cmd.rel /\ c.kind = cmd.kind /\ c.yes = cmd.yes
         /\ c.target = cmd.target /\ c.snapshot = cmd.snapshot /\ c.status = cmd.status
         /\ c.todo = cmd.todo \ {f}
<1> DEFINE b == IF Asked /\ answer \in {"accept all", "decline all"} THEN answer ELSE cmd.bulk
           acc == IF action # "declined" THEN cmd.accepted \cup {f} ELSE cmd.accepted
           dec == IF action = "declined" THEN cmd.declined \cup {f} ELSE cmd.declined
           todo == cmd.todo \ {f}
<1>1. c = [cmd EXCEPT !.todo = todo, !.bulk = b, !.accepted = acc, !.declined = dec]
  BY DEF Decided
<1>2. DOMAIN cmd = Fields
  BY NoCmdFact DEF CmdType
<1> HIDE DEF b, acc, dec, todo
<1>3. /\ DOMAIN c = Fields /\ c.pc = cmd.pc /\ c.rel = cmd.rel /\ c.kind = cmd.kind /\ c.yes = cmd.yes
      /\ c.target = cmd.target /\ c.snapshot = cmd.snapshot /\ c.status = cmd.status
      /\ c.todo = todo
  BY <1>1, <1>2 DEF Fields
<1> QED BY <1>3 DEF todo

\* A review that goes on has not failed.
LEMMA NotFailed ==
  ASSUME KitInv, NEW f, NEW action, NEW answer, cmd'.pc = "review"
  PROVE  cmd' # [Decided(f, action, answer) EXCEPT !.pc = "regen", !.status = "ERROR"]
<1>1. PICK c : c = Decided(f, action, answer)
  OBVIOUS
<1>2. DOMAIN c = Fields
  BY <1>1, DecidedFields DEF KitInv
<1>3. [c EXCEPT !.pc = "regen", !.status = "ERROR"].pc = "regen"
  BY <1>2 DEF Fields
<1> QED BY <1>1, <1>3

\* What a step of the review does to a command that is not stopped: it goes on
\* to the next file, ends the review, or fails.
LEMMA ReviewFields ==
  ASSUME KitInv, NEW answer \in Answers, NEW toc \in {"yes", "no", "continue", "stop"},
         ReviewFile(answer, toc)
  PROVE  \/ Died
         \/ cmd'.pc = "regen" /\ cmd'.status = "ERROR"
         \/ /\ cmd'.pc = "review" /\ cmd'.rel = cmd.rel /\ cmd'.kind = cmd.kind /\ cmd'.yes = cmd.yes
            /\ cmd'.target = cmd.target /\ cmd'.snapshot = cmd.snapshot
            /\ cmd'.todo \subseteq cmd.todo
            /\ toc # "stop" => cmd'.todo = cmd.todo \ {FirstOf(cmd.todo)}
<1> DEFINE f == FirstOf(cmd.todo)
           action == Action(answer)
           next == Decided(f, action, answer)
<1>0. cmd.pc = "review" /\ CmdType(cmd)
  BY DEF ReviewFile, KitInv
<1>1. \/ cmd' = IF toc = "stop" THEN [next EXCEPT !.todo = {}] ELSE next
      \/ cmd' = [next EXCEPT !.pc = "regen", !.status = "ERROR"] \/ Died
  BY DEF ReviewFile
<1>2. /\ DOMAIN next = Fields /\ next.pc = "review" /\ next.rel = cmd.rel /\ next.kind = cmd.kind
      /\ next.yes = cmd.yes /\ next.target = cmd.target /\ next.snapshot = cmd.snapshot
      /\ next.todo = cmd.todo \ {f}
  BY <1>0, DecidedFields
<1> HIDE DEF f, action, next
<1>3. CASE cmd' = next /\ toc # "stop"
  BY <1>2, <1>3 DEF f
<1>4. CASE cmd' = [next EXCEPT !.todo = {}] /\ toc = "stop"
  BY <1>2, <1>4 DEF Fields
<1>5. CASE cmd' = [next EXCEPT !.pc = "regen", !.status = "ERROR"]
  BY <1>2, <1>5 DEF Fields
<1> QED BY <1>1, <1>3, <1>4, <1>5

\* One file of a review that accepts everything.
LEMMA AcceptsOne ==
  ASSUME KitInv, NEW answer \in Answers, NEW toc \in {"yes", "no", "continue", "stop"},
         ReviewFile(answer, toc), Action(answer) = "accepted", cmd'.pc = "review"
  PROVE  LET f == FirstOf(cmd.todo)
             source == SourceFiles(cmd.rel)
             loc == <<cmd.target[f], f>>
         IN  /\ f \in cmd.todo /\ f \in Files /\ toc = "no"
             /\ f \in DOMAIN source => disk' = Put(disk, loc, source[f])
             /\ f \notin DOMAIN source /\ f \in DOMAIN cmd.snapshot => disk' = Drop(disk, {loc})
<1> DEFINE f == FirstOf(cmd.todo)
           source == SourceFiles(cmd.rel)
           kind == Kind(source, cmd.snapshot, f)
           loc == <<cmd.target[f], f>>
           action == Action(answer)
           new == Of(source, f)
           next == Decided(f, action, answer)
<1>1. cmd.pc = "review" /\ cmd.todo # {} /\ CmdType(cmd)
  BY DEF ReviewFile, KitInv
<1>2. f \in cmd.todo /\ f \in Files
  BY <1>1, FirstOfIn DEF CmdType
<1>3. action = "accepted"
  OBVIOUS
<1>4. toc = "no"
  BY <1>3 DEF ReviewFile
<1>5. ~Died
  BY NoCmdFact DEF Died
<1>6. cmd' # [next EXCEPT !.pc = "regen", !.status = "ERROR"]
  <2> HIDE DEF f, action
  <2> QED BY NotFailed
<1>7. disk' = IF kind = "removed" THEN Drop(disk, {loc}) ELSE Put(disk, loc, new)
  BY <1>3, <1>5, <1>6 DEF ReviewFile
<1>8. f \in DOMAIN source => kind # "removed" /\ new = source[f]
  BY DEF Kind, Of
<1>9. f \notin DOMAIN source /\ f \in DOMAIN cmd.snapshot => kind = "removed"
  BY DEF Kind
<1> HIDE DEF f, source, kind, loc, action, new, next
<1> QED BY <1>2, <1>4, <1>7, <1>8, <1>9 DEF f, source, loc

\* ReviewFile.
LEMMA ReviewPhaseKept ==
  ASSUME KitInv, UpdatePhase, NEW answer \in Answers, NEW toc \in {"yes", "no", "continue", "stop"},
         ReviewFile(answer, toc)
  PROVE  UpdatePhase'
<1>0. cmd.pc = "review" /\ UNCHANGED <<core, entry, before>>
  BY DEF ReviewFile
<1>1. \/ Died
      \/ cmd'.pc = "regen" /\ cmd'.status = "ERROR"
      \/ /\ cmd'.pc = "review" /\ cmd'.rel = cmd.rel /\ cmd'.kind = cmd.kind /\ cmd'.yes = cmd.yes
         /\ cmd'.target = cmd.target /\ cmd'.snapshot = cmd.snapshot
         /\ cmd'.todo \subseteq cmd.todo
         /\ toc # "stop" => cmd'.todo = cmd.todo \ {FirstOf(cmd.todo)}
  BY ReviewFields
<1>2. CASE Died \/ (cmd'.pc = "regen" /\ cmd'.status = "ERROR")
  <2>1. Quiet'
    BY <1>2, NoCmdFact DEF Died, Quiet
  <2> QED BY <2>1, QuietPhase, PTL
<1>3. CASE /\ cmd'.pc = "review" /\ cmd'.rel = cmd.rel /\ cmd'.kind = cmd.kind /\ cmd'.yes = cmd.yes
           /\ cmd'.target = cmd.target /\ cmd'.snapshot = cmd.snapshot
           /\ cmd'.todo \subseteq cmd.todo
           /\ toc # "stop" => cmd'.todo = cmd.todo \ {FirstOf(cmd.todo)}
  <2>1. AdoptPhase' /\ Converges'
    BY <1>3 DEF AdoptPhase, Converges, AcceptAllConverges
  <2>2. cmd.kind = "update" /\ core = "ok" => cmd'.todo \subseteq DOMAIN SourceFiles(cmd'.rel) \cup DOMAIN cmd'.snapshot
    BY <1>0, <1>3 DEF UpdatePhase, ReviewPhase
  <2>3. ReviewPhase'
    <3> SUFFICES ASSUME cmd.kind = "update", cmd.yes, core = "ok", Separate(cmd.rel), NoneLeftBehind'
                 PROVE  ReviewPhase'
      BY <1>0, <1>3, <2>2 DEF ReviewPhase
    <3> DEFINE f == FirstOf(cmd.todo)
               source == SourceFiles(cmd.rel)
               loc == <<cmd.target[f], f>>
               P(g) == Place(cmd.rel, g)
    <3>1. \A g : Place(cmd.rel, g)' = P(g)
      BY <1>0, <1>3, PlaceKept
    <3>2. NoneLeftBehind
      BY <1>0, <3>1 DEF NoneLeftBehind
    <3>3. /\ cmd.todo \subseteq DOMAIN source \cup DOMAIN cmd.snapshot
          /\ \A g \in DOMAIN source :
                /\ cmd.target[g] = P(g)
                /\ g \in cmd.todo \/ (<<P(g), g>> \in DOMAIN disk /\ disk[<<P(g), g>>] = source[g])
          /\ \A l \in DOMAIN disk : l[1] = "kit" /\ InContent(l[2]) =>
                l[2] \in DOMAIN source \/ (l[2] \in cmd.todo /\ cmd.target[l[2]] = "kit")
      BY <1>0, <3>2 DEF UpdatePhase, ReviewPhase
    <3>4. /\ f \in cmd.todo /\ toc = "no"
          /\ f \in DOMAIN source => disk' = Put(disk, loc, source[f])
          /\ f \notin DOMAIN source /\ f \in DOMAIN cmd.snapshot => disk' = Drop(disk, {loc})
      <4>1. Action(answer) = "accepted"
        BY DEF Action
      <4> QED BY <1>3, <4>1, AcceptsOne
    <3>5. cmd'.todo = cmd.todo \ {f}
      BY <1>3, <3>4
    <3> HIDE DEF f, source, P
    <3>6. \A l : l \in DOMAIN disk' /\ l # loc => l \in DOMAIN disk
      BY <3>3, <3>4 DEF Put, Drop
    <3>7. \A l \in DOMAIN disk : l # loc => l \in DOMAIN disk' /\ disk'[l] = disk[l]
      BY <3>3, <3>4 DEF Put, Drop
    <3>8. \A g \in DOMAIN source : g \in cmd'.todo \/ (<<P(g), g>> \in DOMAIN disk' /\ disk'[<<P(g), g>>] = source[g])
      <4> SUFFICES ASSUME NEW g \in DOMAIN source, g \notin cmd'.todo
                   PROVE  <<P(g), g>> \in DOMAIN disk' /\ disk'[<<P(g), g>>] = source[g]
        OBVIOUS
      <4>1. CASE g = f
        <5>1. disk' = Put(disk, loc, source[f]) /\ loc = <<P(g), g>>
          BY <3>3, <3>4, <4>1
        <5> QED BY <4>1, <5>1 DEF Put
      <4>2. CASE g # f
        <5>1. <<P(g), g>> # loc /\ <<P(g), g>> \in DOMAIN disk /\ disk[<<P(g), g>>] = source[g]
          BY <3>3, <3>5, <4>2
        <5> QED BY <5>1, <3>7
      <4> QED BY <4>1, <4>2
    <3>9. \A l \in DOMAIN disk' : l[1] = "kit" /\ InContent(l[2]) =>
             l[2] \in DOMAIN source \/ (l[2] \in cmd'.todo /\ cmd'.target[l[2]] = "kit")
      <4> SUFFICES ASSUME NEW l \in DOMAIN disk', l[1] = "kit", InContent(l[2]), l[2] \notin DOMAIN source
                   PROVE  l[2] \in cmd'.todo /\ cmd'.target[l[2]] = "kit"
        OBVIOUS
      <4>1. CASE l = loc
        <5>1. l[2] = f
          BY <4>1
        <5>2. disk' = Drop(disk, {loc})
          BY <3>3, <3>4, <5>1
        <5> QED BY <4>1, <5>2 DEF Drop
      <4>2. CASE l # loc
        <5>1. l \in DOMAIN disk /\ l \in Locs
          BY <4>2, <3>6 DEF KitInv, TypeOK
        <5>2. l[2] \in cmd.todo /\ cmd.target[l[2]] = "kit"
          BY <3>3, <5>1
        <5>3. l = <<l[1], l[2]>>
          BY <5>1 DEF Locs
        <5>4. l[2] # f
          BY <4>2, <5>2, <5>3
        <5> QED BY <1>3, <3>5, <5>2, <5>4
      <4> QED BY <4>1, <4>2
    <3>10. cmd'.todo \subseteq DOMAIN source \cup DOMAIN cmd'.snapshot /\ \A g \in DOMAIN source : cmd'.target[g] = P(g)
      BY <1>3, <3>3, <3>5
    <3>11. source = SourceFiles(cmd'.rel) /\ source = SourceFiles(cmd.rel)
      BY <1>3 DEF source
    <3> QED BY <1>3, <3>1, <3>8, <3>9, <3>10, <3>11 DEF ReviewPhase
  <2> QED BY <2>1, <2>3 DEF UpdatePhase
<1> QED BY <1>1, <1>2, <1>3

\* RegisterReviewed: everything was decided.
LEMMA ReviewedPhase ==
  ASSUME KitInv, UpdatePhase, RegisterReviewed
  PROVE  UpdatePhase'
<1>0. cmd.pc = "review" /\ cmd.todo = {} /\ UNCHANGED <<disk, before>> /\ CmdType(cmd)
  BY DEF RegisterReviewed, Register, KitInv
<1>1. Writes(cmd.rel.version, cmd.source, <<>>) \/ UNCHANGED <<core, entry>>
  BY DEF RegisterReviewed, Register, Writes, _register_kit_in_core_toml
<1>2. Died \/ Leave(VersionStatus)
  BY DEF RegisterReviewed, Register
<1>3. CASE Died \/ core' # "ok"
  <2>1. Quiet'
    BY <1>3, NoCmdFact DEF Died, Quiet
  <2> QED BY <2>1, QuietPhase, PTL
<1>4. CASE Leave(VersionStatus) /\ core' = "ok"
  <2>1. core = "ok" /\ entry' \in {entry, Merged(cmd.rel.version, cmd.source, <<>>)}
    BY <1>1, <1>4 DEF Writes
  <2>2. entry'.resources = entry.resources
    <3>1. Merged(cmd.rel.version, cmd.source, <<>>).resources = entry.resources
      BY DEF Merged
    <3> QED BY <2>1, <3>1
  <2>3. cmd'.pc = "regen" /\ cmd'.rel = cmd.rel /\ cmd'.kind = cmd.kind /\ cmd'.yes = cmd.yes
    BY <1>0, <1>4, LeaveFields
  <2>4. \A g : Place(cmd.rel, g)' = Place(cmd.rel, g)
    BY <1>4, <2>1, <2>2, <2>3, PlaceKept
  <2>5. Converges'
    <3> SUFFICES ASSUME Separate(cmd'.rel), NoneLeftBehind', cmd'.kind = "update", cmd'.yes
                 PROVE  AcceptAllConverges'
      BY DEF Converges, AcceptAllConverges
    <3>1. NoneLeftBehind
      BY <1>0, <2>3, <2>4 DEF NoneLeftBehind
    <3>2. ReviewPhase /\ cmd.kind = "update" /\ cmd.yes /\ Separate(cmd.rel)
      BY <2>3 DEF UpdatePhase
    <3>3. /\ \A g \in DOMAIN SourceFiles(cmd.rel) :
                <<Place(cmd.rel, g), g>> \in DOMAIN disk /\ disk[<<Place(cmd.rel, g), g>>] = SourceFiles(cmd.rel)[g]
          /\ \A l \in DOMAIN disk : l[1] = "kit" /\ InContent(l[2]) => l[2] \in DOMAIN SourceFiles(cmd.rel)
      BY <1>0, <2>1, <3>1, <3>2 DEF ReviewPhase
    <3> QED BY <1>0, <2>3, <2>4, <3>3 DEF AcceptAllConverges
  <2>6. AdoptPhase' /\ ReviewPhase'
    BY <2>3 DEF AdoptPhase, ReviewPhase
  <2> QED BY <2>5, <2>6 DEF UpdatePhase
<1> QED BY <1>2, <1>3, <1>4

\* Every step keeps UpdatePhase.
LEMMA NextUpdatePhase ==
  ASSUME KitInv, UpdatePhase, [Next]_vars
  PROVE  UpdatePhase'
<1>1. CASE UNCHANGED vars
  <2>1. UNCHANGED <<disk, core, entry, cmd, before>>
    BY <1>1 DEF vars
  <2>2. Bindings' = Bindings
    BY <2>1 DEF Bindings, Entry
  <2>3. \A f : Place(cmd.rel, f)' = Place(cmd.rel, f)
    BY <2>1, <2>2 DEF Place
  <2>4. AdoptPhase'
    BY <2>1 DEF UpdatePhase, AdoptPhase, AsFound, BoundAt
  <2>5. NoneLeftBehind' <=> NoneLeftBehind
    BY <2>1, <2>3 DEF NoneLeftBehind
  <2>6. ReviewPhase'
    BY <2>1, <2>3, <2>5 DEF UpdatePhase, ReviewPhase
  <2>7. Converges'
    BY <2>1, <2>3, <2>5 DEF UpdatePhase, Converges, AcceptAllConverges
  <2> QED BY <2>4, <2>6, <2>7 DEF UpdatePhase
<1>2. CASE \/ \E l \in Locs, vs \in {"none", "raw"} : UserEdits(l, vs)
           \/ \E rel \in Releases, github, force \in BOOLEAN, root \in Places :
                 cmd_kit_install(rel, github, force, root)
           \/ CopyContent \/ ResolveInstalled \/ _seed_kit_config_files \/ RegisterInstalled
           \/ regenerate_gen_aggregates
           \/ \E place \in Places : PlaceResource(place)
  <2>1. Quiet'
    BY <1>2, QuietSteps
  <2> QED BY <2>1, QuietPhase, PTL
<1>3. CASE \E rel \in Releases, local, interactive, yes, force \in BOOLEAN :
             cmd_kit_update(rel, local, interactive, yes, force)
  BY <1>3, UpdatePhaseBegins
<1>4. CASE RegisterAdopted \/ ResolveAdopted \/ StartReview \/ RegisterReviewed
  BY <1>4, AdoptedPhase, ResolvedPhase, StartPhase, ReviewedPhase
<1>5. CASE \E place \in Places : AdoptResource(place)
  BY <1>5, AdoptPhaseKept
<1>6. CASE \E answer \in Answers, toc \in {"yes", "no", "continue", "stop"} : ReviewFile(answer, toc)
  BY <1>6, ReviewPhaseKept
<1> QED BY <1>1, <1>2, <1>3, <1>4, <1>5, <1>6 DEF Next, Step

\* An update that accepts everything leaves exactly the content of the
\* release, of a release whose resources do not overlap and a kit of which
\* nothing was left behind in the kit's directory when a resource was moved.
\* Where a file lies in both places or belongs to two resources, TLC finds
\* the update that leaves it where it does not belong.
THEOREM AcceptedUpdatesConverge ==
  Spec => [](Separate(cmd.rel) /\ NoneLeftBehind => AcceptAllConverges)
<1>1. Init => UpdatePhase
  <2> SUFFICES ASSUME Init PROVE UpdatePhase
    OBVIOUS
  <2>1. Quiet
    BY NoCmdFact DEF Init, Quiet
  <2> QED BY <2>1, QuietPhase
<1>2. KitInv /\ UpdatePhase /\ [Next]_vars => UpdatePhase'
  BY NextUpdatePhase
<1>3. UpdatePhase => (Separate(cmd.rel) /\ NoneLeftBehind => AcceptAllConverges)
  BY DEF UpdatePhase, Converges
<1> QED BY <1>1, <1>2, <1>3, KitInvariance, PTL DEF Spec

-----------------------------------------------------------------------------
(* The paths of an update, of a kit in its own directory.                  *)

\* What an update has written so far is where core.toml says.
Placed(d) ==
  \A l \in DOMAIN d : \/ l \in DOMAIN before /\ d[l].body = before[l].body
                      \/ ResourceOf(cmd.rel, l[2]) = 0 \/ l[1] = Place(cmd.rel, l[2])

\* The first conjunct of PathPhase, and the second.
BoundHere == core # "torn" /\ entry.resources # <<>> => kitDir
PathsKept ==
  (cmd.kind = "update" /\ core = "ok" /\ Separate(cmd.rel)) =>
     /\ cmd.pc \in {"copy", "seed", "register"} => entry.resources = <<>>
     /\ cmd.pc = "copy" => \A l \in DOMAIN disk : AsFound(l)
     /\ cmd.pc = "review" => \A f \in DOMAIN SourceFiles(cmd.rel) : cmd.target[f] = Place(cmd.rel, f)
     /\ cmd.pc \in {"seed", "register", "review"} \/ (cmd.pc = "regen" /\ cmd.status # "ERROR") => Placed(disk)

\* ... as PathPhase has them.
LEMMA PathPhaseParts == PathPhase <=> BoundHere /\ PathsKept
BY DEF PathPhase, BoundHere, PathsKept, Placed, AsFound

\* Nothing is claimed of an update that has written nothing or has failed.
Silent ==
  \/ cmd.kind # "update" \/ core # "ok"
  \/ cmd.pc = "regen" /\ cmd.status = "ERROR"
  \/ cmd.pc \notin {"copy", "seed", "register", "review", "regen"}

\* Then there is nothing to show.
LEMMA SilentPaths ==
  ASSUME Silent
  PROVE  PathsKept
BY DEF Silent, PathsKept

\* Bindings are recorded with the directory there.
LEMMA NextBoundHere ==
  ASSUME KitInv, VersionPhase, BoundHere, [Next]_vars
  PROVE  BoundHere'
<1>1. CASE UNCHANGED <<core, entry>> /\ (kitDir => kitDir')
  BY <1>1 DEF BoundHere
<1>2. CASE UNCHANGED kitDir /\ (core' = "torn" \/ (core' = "lost" /\ entry' = NoEntry))
  <2>1. NoEntry.resources = <<>>
    BY DEF NoEntry
  <2> QED BY <1>2, <2>1 DEF BoundHere
<1>3. CASE RegisterInstalled
  <2>1. UNCHANGED kitDir /\ kitDir
    BY <1>3 DEF RegisterInstalled, Register, VersionPhase
  <2> QED BY <2>1 DEF BoundHere
<1>4. CASE RegisterAdopted \/ RegisterReviewed
  <2>1. UNCHANGED kitDir /\ cmd.pc \in {"adopt", "review"}
    BY <1>4 DEF RegisterAdopted, RegisterReviewed, Register
  <2>2. kitDir
    BY <2>1 DEF KitInv, KitDirPhase, CommandPhase
  <2> QED BY <2>1, <2>2 DEF BoundHere
<1>5. CASE UNCHANGED vars
  BY <1>5, <1>1 DEF vars
<1>6. CASE \E l \in Locs, vs \in {"none", "raw"} : UserEdits(l, vs)
  BY <1>6, <1>1 DEF UserEdits
<1>7. CASE \E rel \in Releases, github, force \in BOOLEAN, root \in Places :
             cmd_kit_install(rel, github, force, root)
  BY <1>7, <1>1 DEF cmd_kit_install, Begin, Refuse
<1>8. CASE \E rel \in Releases, local, interactive, yes, force \in BOOLEAN :
             cmd_kit_update(rel, local, interactive, yes, force)
  <2>1. UNCHANGED <<kitDir, core, entry>>
    BY <1>8, UpdateBegins
  <2> QED BY <2>1, <1>1
<1>9. CASE CopyContent \/ ResolveInstalled \/ _seed_kit_config_files \/ ResolveAdopted \/ StartReview
           \/ regenerate_gen_aggregates
  BY <1>9, <1>1 DEF CopyContent, ResolveInstalled, _seed_kit_config_files, ResolveAdopted, StartReview,
                    regenerate_gen_aggregates
<1>10. CASE \E place \in Places : PlaceResource(place) \/ AdoptResource(place)
  <2>1. PICK place \in Places : PlaceResource(place) \/ AdoptResource(place)
    BY <1>10
  <2>2. PlaceResource(place) => UNCHANGED <<core, entry>> /\ (kitDir => kitDir')
    BY DEF PlaceResource
  <2>3. AdoptResource(place) => UNCHANGED <<core, entry>> /\ (kitDir => kitDir')
    BY DEF AdoptResource
  <2> QED BY <2>1, <2>2, <2>3, <1>1
<1>11. CASE \E answer \in Answers, toc \in {"yes", "no", "continue", "stop"} : ReviewFile(answer, toc)
  BY <1>11, <1>1 DEF ReviewFile
<1> QED BY <1>3, <1>4, <1>5, <1>6, <1>7, <1>8, <1>9, <1>10, <1>11 DEF Next, Step

\* The steps after which nothing is claimed.
LEMMA SilentSteps ==
  ASSUME KitInv,
         \/ \E l \in Locs, vs \in {"none", "raw"} : UserEdits(l, vs)
         \/ \E rel \in Releases, github, force \in BOOLEAN, root \in Places :
               cmd_kit_install(rel, github, force, root)
         \/ ResolveInstalled \/ regenerate_gen_aggregates \/ RegisterAdopted \/ ResolveAdopted
         \/ \E place \in Places : PlaceResource(place) \/ AdoptResource(place)
  PROVE  Silent'
<1>0. CmdType(cmd)
  BY DEF KitInv
<1>1. CASE \E l \in Locs, vs \in {"none", "raw"} : UserEdits(l, vs)
  BY <1>1 DEF UserEdits, Silent, KitInv, KitDirPhase
<1>2. CASE \E rel \in Releases, github, force \in BOOLEAN, root \in Places :
             cmd_kit_install(rel, github, force, root)
  <2>1. PICK rel \in Releases, github \in BOOLEAN, force \in BOOLEAN, root \in Places :
          cmd_kit_install(rel, github, force, root)
    BY <1>2
  <2>2. CASE \E status : Refuse(status)
    BY <2>2 DEF Refuse, Silent, KitInv, KitDirPhase
  <2>3. CASE ~(kitDir /\ ~force) /\ load_manifest(rel) # "bad"
    <3> DEFINE src == IF github THEN "github" ELSE ""
               rt == IF load_manifest(rel) = "ok" /\ rel.manifest.ask THEN root ELSE "kit"
               at == IF load_manifest(rel) = "none" THEN "copy"
                     ELSE IF validate_manifest(rel) THEN "place" ELSE "regen"
               st == IF load_manifest(rel) = "ok" /\ ~validate_manifest(rel) THEN "FAIL" ELSE "none"
               c == [NoCmd EXCEPT !.kind = "install", !.rel = rel, !.force = force,
                        !.interactive = TRUE, !.source = src, !.root = rt, !.pc = at, !.status = st]
    <3>1. Begin(c)
      BY <2>1, <2>3 DEF cmd_kit_install
    <3> HIDE DEF src, rt, at, st
    <3>2. c.kind = "install"
      BY NoCmdFact DEF Fields
    <3> HIDE DEF c
    <3>3. cmd'.kind = "install"
      BY <3>1, <3>2 DEF Begin
    <3> QED BY <3>3 DEF Silent
  <2> QED BY <2>1, <2>2, <2>3 DEF cmd_kit_install
<1>3. CASE ResolveInstalled
  <2>1. cmd.kind = "install" /\ (Goto("seed") \/ Died)
    BY <1>3 DEF ResolveInstalled, _resolve_template_variables, Raised, KitInv, CommandPhase
  <2>2. CASE Died
    BY <2>2, NoCmdFact DEF Died, Silent
  <2> QED BY <1>0, <2>1, <2>2, GotoFields DEF Silent
<1>4. CASE regenerate_gen_aggregates
  BY <1>4, NoCmdFact DEF regenerate_gen_aggregates, Died, Silent
<1>5. CASE RegisterAdopted
  <2>1. Died \/ Goto("resolve")
    BY <1>5 DEF RegisterAdopted, Register
  <2>2. CASE Died
    BY <2>2, NoCmdFact DEF Died, Silent
  <2>3. CASE Goto("resolve")
    BY <1>0, <2>3, GotoFields DEF Silent
  <2> QED BY <2>1, <2>2, <2>3
<1>6. CASE ResolveAdopted
  <2>1. Goto("diff") \/ Leave("ERROR") \/ Died
    BY <1>6 DEF ResolveAdopted, _resolve_template_variables, Raised
  <2>2. CASE Goto("diff")
    BY <1>0, <2>2, GotoFields DEF Silent
  <2>3. CASE Leave("ERROR")
    BY <1>0, <2>3, LeaveFields DEF Silent
  <2>4. CASE Died
    BY <2>4, NoCmdFact DEF Died, Silent
  <2> QED BY <2>1, <2>2, <2>3, <2>4
<1>7. CASE \E place \in Places : PlaceResource(place) \/ AdoptResource(place)
  <2>1. PICK place \in Places : PlaceResource(place) \/ AdoptResource(place)
    BY <1>7
  <2> DEFINE r == cmd.rel.manifest.resources[cmd.at]
  <2>2. cmd.pc \in {"place", "adopt"}
    BY <2>1 DEF PlaceResource, AdoptResource
  <2>3. cmd' = [cmd EXCEPT !.at = @ + 1, !.bound = Put(@, r.id, place)] \/ Died \/ Leave("ERROR")
    BY <2>1 DEF PlaceResource, AdoptResource, Raised
  <2> HIDE DEF r
  <2>4. CASE Died
    BY <2>4, NoCmdFact DEF Died, Silent
  <2>5. CASE Leave("ERROR")
    BY <1>0, <2>5, LeaveFields DEF Silent
  <2>6. CASE cmd' = [cmd EXCEPT !.at = @ + 1, !.bound = Put(@, r.id, place)]
    <3>1. cmd'.pc = cmd.pc
      BY <1>0, <2>6, AdvanceFields
    <3> QED BY <2>2, <3>1 DEF Silent
  <2> QED BY <2>3, <2>4, <2>5, <2>6
<1> QED BY <1>1, <1>2, <1>3, <1>4, <1>5, <1>6, <1>7

\* Without bindings every file belongs in the kit's directory.
LEMMA UnboundPlace ==
  ASSUME entry.resources = <<>>, core = "ok", NEW f
  PROVE  Place(cmd.rel, f) = "kit"
<1>1. Bindings = <<>>
  BY DEF Bindings, Entry
<1>2. \A x : x = <<>> => DOMAIN x = {}
  OBVIOUS
<1>3. DOMAIN Bindings = {}
  BY <1>1, <1>2
<1> QED BY <1>3 DEF Place

\* cmd_kit_update.
LEMMA PathsBegin ==
  ASSUME KitInv, BoundHere, NEW rel \in Releases, NEW local \in BOOLEAN, NEW interactive \in BOOLEAN,
         NEW yes \in BOOLEAN, NEW force \in BOOLEAN,
         cmd_kit_update(rel, local, interactive, yes, force)
  PROVE  PathsKept'
<1>1. \/ cmd' = cmd /\ cmd.kind = "none" /\ UNCHANGED <<disk, kitDir, core, entry>>
      \/ /\ cmd'.kind = "update" /\ cmd'.rel = rel /\ cmd'.at = 1 /\ before' = disk
         /\ UNCHANGED <<disk, kitDir, core, entry>>
         /\ \/ cmd'.pc = "regen" /\ cmd'.status \in {"current", "ERROR"}
            \/ cmd'.pc = AfterVersionCheck(rel)
  BY UpdateBegins
<1>2. /\ AfterVersionCheck(rel) \in {"adopt", "diff", "copy"}
      /\ AfterVersionCheck(rel) = "copy" => ~kitDir
  BY DEF AfterVersionCheck
<1>3. CASE Silent'
  BY <1>3, SilentPaths, PTL
<1>4. CASE cmd'.pc \in {"copy", "regen"} /\ before' = disk /\ disk' = disk /\ UNCHANGED <<core, entry>>
           /\ (cmd'.pc = "copy" => ~kitDir)
  <2>1. \A l \in DOMAIN disk' : AsFound(l)'
    BY <1>4 DEF AsFound
  <2>2. Placed(disk)'
    BY <1>4 DEF Placed
  <2>3. core' = "ok" /\ cmd'.pc = "copy" => entry'.resources = <<>>
    BY <1>4 DEF BoundHere
  <2> QED BY <1>4, <2>1, <2>2, <2>3 DEF PathsKept
<1> QED BY <1>1, <1>2, <1>3, <1>4 DEF Silent

\* CopyContent.
LEMMA PathsCopy ==
  ASSUME KitInv, PathsKept, CopyContent
  PROVE  PathsKept'
<1>0. cmd.pc = "copy" /\ UNCHANGED <<core, entry, before>> /\ CmdType(cmd)
  BY DEF CopyContent, KitInv
<1>1. (disk' = _copy_kit_content(disk, cmd.rel) /\ Goto("seed")) \/ Leave("ERROR") \/ Died
  BY DEF CopyContent, Raised
<1>2. Leave("ERROR") => Silent'
  BY <1>0, LeaveFields DEF Silent
<1>3. Died => Silent'
  BY NoCmdFact DEF Died, Silent
<1>4. CASE Leave("ERROR") \/ Died
  <2>1. Silent'
    BY <1>2, <1>3, <1>4
  <2> QED BY <2>1, SilentPaths, PTL
<1>5. CASE disk' = _copy_kit_content(disk, cmd.rel) /\ Goto("seed")
  <2>1. cmd'.pc = "seed" /\ cmd'.rel = cmd.rel /\ cmd'.kind = cmd.kind
    BY <1>0, <1>5, GotoFields
  <2> SUFFICES ASSUME cmd.kind = "update", core = "ok", Separate(cmd.rel)
               PROVE  entry.resources = <<>> /\ Placed(disk)'
    BY <1>0, <2>1 DEF PathsKept
  <2>2. entry.resources = <<>> /\ \A l \in DOMAIN disk : AsFound(l)
    BY <1>0 DEF PathsKept
  <2>3. \A f : Place(cmd.rel, f)' = Place(cmd.rel, f)
    BY <1>0, <2>1, PlaceKept
  <2>4. \A l \in DOMAIN disk' : l[1] # "kit" => l \in DOMAIN disk /\ disk'[l] = disk[l]
    BY <1>5, ContentWrites
  <2>5. \A f : Place(cmd.rel, f) = "kit"
    BY <2>2, UnboundPlace
  <2> QED BY <1>0, <2>1, <2>2, <2>3, <2>4, <2>5 DEF Placed, AsFound
<1> QED BY <1>1, <1>4, <1>5

\* What is placed stays placed while neither files nor bindings change.
LEMMA PlacedKept ==
  ASSUME Placed(disk), UNCHANGED <<disk, before>>, cmd'.rel = cmd.rel,
         core = "ok", core' = "ok", entry'.resources = entry.resources
  PROVE  Placed(disk)'
<1>1. \A f : Place(cmd.rel, f)' = Place(cmd.rel, f)
  BY PlaceKept
<1> QED BY <1>1 DEF Placed

\* _seed_kit_config_files.
LEMMA PathsSeed ==
  ASSUME KitInv, PathsKept, _seed_kit_config_files
  PROVE  PathsKept'
<1>0. cmd.pc = "seed" /\ UNCHANGED <<disk, core, entry, before>> /\ CmdType(cmd) /\ Goto("register")
  BY DEF _seed_kit_config_files, KitInv
<1>1. cmd'.pc = "register" /\ cmd'.rel = cmd.rel /\ cmd'.kind = cmd.kind
  BY <1>0, GotoFields
<1> SUFFICES ASSUME cmd.kind = "update", core = "ok", Separate(cmd.rel)
             PROVE  entry.resources = <<>> /\ Placed(disk)'
  BY <1>0, <1>1 DEF PathsKept
<1>2. entry.resources = <<>> /\ Placed(disk)
  BY <1>0 DEF PathsKept
<1> QED BY <1>0, <1>1, <1>2, PlacedKept

\* The two ways an update records its version.
LEMMA PathsRegister ==
  ASSUME KitInv, PathsKept, RegisterInstalled \/ RegisterReviewed
  PROVE  PathsKept'
<1>0. cmd.pc \in {"register", "review"} /\ UNCHANGED <<disk, before>> /\ CmdType(cmd)
  BY DEF RegisterInstalled, RegisterReviewed, Register, KitInv
<1>1. cmd.kind = "update" => \/ Writes(cmd.rel.version, "", <<>>) \/ Writes(cmd.rel.version, cmd.source, <<>>)
                             \/ UNCHANGED <<core, entry>>
  BY DEF RegisterInstalled, RegisterReviewed, Register, Writes, _register_kit_in_core_toml
<1>2. Died \/ \E status : Leave(status)
  BY DEF RegisterInstalled, RegisterReviewed, Register
<1>3. CASE Died
  <2>1. Silent'
    BY <1>3, NoCmdFact DEF Died, Silent
  <2> QED BY <2>1, SilentPaths, PTL
<1>4. CASE \E status : Leave(status)
  <2>1. cmd'.pc = "regen" /\ cmd'.rel = cmd.rel /\ cmd'.kind = cmd.kind
    BY <1>0, <1>4, LeaveFields
  <2> SUFFICES ASSUME cmd.kind = "update", core' = "ok", Separate(cmd.rel)
               PROVE  Placed(disk)'
    BY <2>1 DEF PathsKept
  <2>2. core = "ok" /\ entry'.resources = entry.resources
    <3>1. /\ Merged(cmd.rel.version, "", <<>>).resources = entry.resources
          /\ Merged(cmd.rel.version, cmd.source, <<>>).resources = entry.resources
      BY DEF Merged
    <3>2. \/ UNCHANGED <<core, entry>>
          \/ core' = core /\ entry' = Merged(cmd.rel.version, "", <<>>)
          \/ core' = core /\ entry' = Merged(cmd.rel.version, cmd.source, <<>>)
      BY <1>1 DEF Writes
    <3> QED BY <3>1, <3>2
  <2>3. Placed(disk)
    BY <1>0, <2>2 DEF PathsKept
  <2> QED BY <1>0, <2>1, <2>2, <2>3, PlacedKept
<1> QED BY <1>2, <1>3, <1>4

\* StartReview: what the adoption wrote is at its binding.
LEMMA PathsStart ==
  ASSUME KitInv, UpdatePhase, PathsKept, StartReview
  PROVE  PathsKept'
<1>0. cmd.pc = "diff" /\ UNCHANGED <<disk, core, entry, before>> /\ CmdType(cmd)
  BY DEF StartReview, KitInv
<1>1. cmd'.pc = "review" /\ cmd'.target = TargetMapping(cmd.rel) /\ cmd'.rel = cmd.rel /\ cmd'.kind = cmd.kind
  BY <1>0, StartFields
<1> SUFFICES ASSUME cmd.kind = "update", core = "ok", Separate(cmd.rel)
             PROVE  /\ \A f \in DOMAIN SourceFiles(cmd.rel) : cmd'.target[f] = Place(cmd.rel, f)'
                    /\ Placed(disk)'
  BY <1>0, <1>1 DEF PathsKept
<1>2. \A f : Place(cmd.rel, f)' = Place(cmd.rel, f)
  BY <1>0, <1>1, PlaceKept
<1>3. \A f \in DOMAIN SourceFiles(cmd.rel) : cmd'.target[f] = Place(cmd.rel, f)
  BY <1>1, TargetPlaces
<1>4. Placed(disk)
  <2> SUFFICES ASSUME NEW l \in DOMAIN disk, ~AsFound(l)
               PROVE  l[1] = Place(cmd.rel, l[2])
    BY DEF Placed, AsFound
  <2>1. /\ cmd.rel.manifest.kind = "ok"
        /\ \E i \in DOMAIN cmd.rel.manifest.resources : BoundAt(entry.resources, i, l)
    BY <1>0 DEF UpdatePhase, AdoptPhase
  <2>2. PICK i \in DOMAIN cmd.rel.manifest.resources : BoundAt(entry.resources, i, l)
    BY <2>1
  <2>3. Bindings = entry.resources
    BY <2>1, BindingsRead
  <2>4. /\ Covers(cmd.rel.manifest.resources[i], l[2])
        /\ cmd.rel.manifest.resources[i].id \in DOMAIN Bindings
        /\ Bindings[cmd.rel.manifest.resources[i].id] = l[1]
    BY <2>2, <2>3 DEF BoundAt
  <2>5. l[2] \in Files
    BY DEF KitInv, TypeOK, Locs
  <2> QED BY <2>1, <2>4, <2>5, BoundPlace
<1>5. Placed(disk)'
  BY <1>0, <1>1, <1>4, PlacedKept
<1> QED BY <1>2, <1>3, <1>5

\* A step of the review writes a file of the release, at its place.
LEMMA ReviewWrites ==
  ASSUME KitInv, NEW answer \in Answers, NEW toc \in {"yes", "no", "continue", "stop"},
         ReviewFile(answer, toc), cmd'.pc = "review", NEW l \in DOMAIN disk',
         cmd.todo \subseteq DOMAIN SourceFiles(cmd.rel) \cup DOMAIN cmd.snapshot
  PROVE  \/ l \in DOMAIN disk /\ disk'[l] = disk[l]
         \/ l[2] \in DOMAIN SourceFiles(cmd.rel) /\ l = <<cmd.target[l[2]], l[2]>>
<1> DEFINE f == FirstOf(cmd.todo)
           source == SourceFiles(cmd.rel)
           kind == Kind(source, cmd.snapshot, f)
           loc == <<cmd.target[f], f>>
           action == Action(answer)
           new == Of(source, f)
           text == Edited(answer, new)
           old == IF f \in DOMAIN cmd.snapshot THEN cmd.snapshot[f] ELSE text
           next == Decided(f, action, answer)
           edits_ == action = "modified" /\ kind # "removed"
<1>1. ~Died
  BY NoCmdFact DEF Died
<1>2. cmd' # [next EXCEPT !.pc = "regen", !.status = "ERROR"]
  <2> HIDE DEF f, action
  <2> QED BY NotFailed
<1>3. disk' = IF action = "accepted"
              THEN IF kind = "removed" THEN Drop(disk, {loc}) ELSE Put(disk, loc, new)
              ELSE IF ~edits_ THEN disk
              ELSE CASE toc = "no" -> Put(disk, loc, text)
                     [] toc = "yes" -> Put(disk, loc, [text EXCEPT !.toc = TRUE])
                     [] OTHER -> Put(disk, loc, old)
  BY <1>1, <1>2 DEF ReviewFile
<1>4. kind # "removed" => f \in DOMAIN source
  <2>1. f \in cmd.todo
    BY FirstOfIn DEF ReviewFile, KitInv, CmdType
  <2> QED BY <2>1 DEF Kind
<1> HIDE DEF f, source, kind, loc, action, new, text, old, next
<1>5. \/ disk' = disk \/ disk' = Drop(disk, {loc})
      \/ kind # "removed" /\ \E c : disk' = Put(disk, loc, c)
  <2>1. CASE action = "accepted"
    BY <1>3, <2>1
  <2>2. CASE action # "accepted" /\ ~edits_
    BY <1>3, <2>2
  <2>3. CASE action # "accepted" /\ edits_
    <3>1. \/ disk' = Put(disk, loc, text) \/ disk' = Put(disk, loc, [text EXCEPT !.toc = TRUE])
          \/ disk' = Put(disk, loc, old)
      BY <1>3, <2>3
    <3> QED BY <2>3, <3>1
  <2> QED BY <2>1, <2>2, <2>3
<1>6. CASE disk' = disk
  BY <1>6
<1>7. CASE disk' = Drop(disk, {loc})
  BY <1>7 DEF Drop
<1>8. CASE kind # "removed" /\ \E c : disk' = Put(disk, loc, c)
  <2>1. CASE l = loc
    <3>1. l[2] = f /\ l = <<cmd.target[l[2]], l[2]>>
      BY <2>1 DEF loc
    <3> QED BY <1>4, <1>8, <3>1 DEF source
  <2>2. CASE l # loc
    BY <1>8, <2>2 DEF Put
  <2> QED BY <2>1, <2>2
<1> QED BY <1>5, <1>6, <1>7, <1>8

\* ReviewFile.
LEMMA PathsReview ==
  ASSUME KitInv, UpdatePhase, PathsKept, NEW answer \in Answers, NEW toc \in {"yes", "no", "continue", "stop"},
         ReviewFile(answer, toc)
  PROVE  PathsKept'
<1>0. cmd.pc = "review" /\ UNCHANGED <<core, entry, before>>
  BY DEF ReviewFile
<1>1. \/ Died
      \/ cmd'.pc = "regen" /\ cmd'.status = "ERROR"
      \/ /\ cmd'.pc = "review" /\ cmd'.rel = cmd.rel /\ cmd'.kind = cmd.kind /\ cmd'.target = cmd.target
  BY ReviewFields
<1>2. CASE Died \/ (cmd'.pc = "regen" /\ cmd'.status = "ERROR")
  <2>1. Silent'
    BY <1>2, NoCmdFact DEF Died, Silent
  <2> QED BY <2>1, SilentPaths, PTL
<1>3. CASE cmd'.pc = "review" /\ cmd'.rel = cmd.rel /\ cmd'.kind = cmd.kind /\ cmd'.target = cmd.target
  <2> SUFFICES ASSUME cmd.kind = "update", core = "ok", Separate(cmd.rel)
               PROVE  /\ \A f \in DOMAIN SourceFiles(cmd.rel) : cmd'.target[f] = Place(cmd.rel, f)'
                      /\ Placed(disk)'
    BY <1>0, <1>3 DEF PathsKept
  <2>1. \A f : Place(cmd.rel, f)' = Place(cmd.rel, f)
    BY <1>0, <1>3, PlaceKept
  <2>2. /\ Placed(disk)
        /\ \A f \in DOMAIN SourceFiles(cmd.rel) : cmd.target[f] = Place(cmd.rel, f)
    BY <1>0 DEF PathsKept
  <2>3. cmd.todo \subseteq DOMAIN SourceFiles(cmd.rel) \cup DOMAIN cmd.snapshot
    BY <1>0 DEF UpdatePhase, ReviewPhase
  <2>4. ASSUME NEW l \in DOMAIN disk'
        PROVE  \/ l \in DOMAIN before /\ disk'[l].body = before[l].body
               \/ ResourceOf(cmd.rel, l[2]) = 0 \/ l[1] = Place(cmd.rel, l[2])
    <3>1. CASE l \in DOMAIN disk /\ disk'[l] = disk[l]
      BY <2>2, <3>1 DEF Placed
    <3>2. CASE l[2] \in DOMAIN SourceFiles(cmd.rel) /\ l = <<cmd.target[l[2]], l[2]>>
      <4>1. l[1] = cmd.target[l[2]]
        BY <3>2
      <4> QED BY <2>2, <3>2, <4>1
    <3> QED BY <1>3, <2>3, <3>1, <3>2, ReviewWrites
  <2>5. Placed(disk)'
    BY <1>0, <1>3, <2>1, <2>4 DEF Placed
  <2> QED BY <1>3, <2>1, <2>2, <2>5
<1> QED BY <1>1, <1>2, <1>3

\* Every step keeps the paths.
LEMMA NextPaths ==
  ASSUME KitInv, VersionPhase, UpdatePhase, PathPhase, [Next]_vars
  PROVE  PathPhase'
<1>0. BoundHere /\ PathsKept
  BY PathPhaseParts
<1>1. BoundHere'
  BY <1>0, NextBoundHere
<1>2. CASE UNCHANGED vars
  <2>1. UNCHANGED <<disk, core, entry, cmd, before>>
    BY <1>2 DEF vars
  <2>2. Bindings' = Bindings
    BY <2>1 DEF Bindings, Entry
  <2>3. \A f : Place(cmd.rel, f)' = Place(cmd.rel, f)
    BY <2>1, <2>2 DEF Place
  <2>4. Placed(disk)' <=> Placed(disk)
    BY <2>1, <2>3 DEF Placed
  <2>5. PathsKept'
    BY <1>0, <2>1, <2>3, <2>4 DEF PathsKept, AsFound
  <2> QED BY <1>1, <2>5, PathPhaseParts, PTL
<1>3. CASE \/ \E l \in Locs, vs \in {"none", "raw"} : UserEdits(l, vs)
           \/ \E rel \in Releases, github, force \in BOOLEAN, root \in Places :
                 cmd_kit_install(rel, github, force, root)
           \/ ResolveInstalled \/ regenerate_gen_aggregates \/ RegisterAdopted \/ ResolveAdopted
           \/ \E place \in Places : PlaceResource(place) \/ AdoptResource(place)
  <2>1. Silent'
    BY <1>3, SilentSteps
  <2> QED BY <1>1, <2>1, SilentPaths, PathPhaseParts, PTL
<1>4. CASE \E rel \in Releases, local, interactive, yes, force \in BOOLEAN :
             cmd_kit_update(rel, local, interactive, yes, force)
  <2>1. PathsKept'
    BY <1>0, <1>4, PathsBegin
  <2> QED BY <1>1, <2>1, PathPhaseParts, PTL
<1>5. CASE CopyContent \/ _seed_kit_config_files \/ RegisterInstalled \/ RegisterReviewed \/ StartReview
  <2>1. PathsKept'
    BY <1>0, <1>5, PathsCopy, PathsSeed, PathsRegister, PathsStart
  <2> QED BY <1>1, <2>1, PathPhaseParts, PTL
<1>6. CASE \E answer \in Answers, toc \in {"yes", "no", "continue", "stop"} : ReviewFile(answer, toc)
  <2>1. PathsKept'
    BY <1>0, <1>6, PathsReview
  <2> QED BY <1>1, <2>1, PathPhaseParts, PTL
<1> QED BY <1>2, <1>3, <1>4, <1>5, <1>6 DEF Next, Step

\* An update writes a resource where core.toml says it is and nowhere else, of
\* a kit in its own directory and a release whose resources do not overlap.  A
\* kit that was moved as a whole is written to the directory it was moved out
\* of: TLC finds the counterexample.
THEOREM UpdatesWriteAtRegisteredPaths ==
  Spec /\ []KeepsRoot => [](Separate(cmd.rel) => UpdatedAtRegisteredPath)
<1>1. Init => VersionPhase /\ UpdatePhase /\ PathPhase
  <2> SUFFICES ASSUME Init PROVE VersionPhase /\ UpdatePhase /\ PathPhase
    OBVIOUS
  <2>1. VersionPhase
    BY NoCmdFact, NoEntryFact DEF Init, VersionPhase
  <2>2. Quiet /\ Silent
    BY NoCmdFact DEF Init, Quiet, Silent
  <2>3. BoundHere
    BY DEF Init, NoEntry, BoundHere
  <2> QED BY <2>1, <2>2, <2>3, QuietPhase, SilentPaths, PathPhaseParts
<1>2. KitInv /\ VersionPhase /\ UpdatePhase /\ PathPhase /\ KeepsRoot' /\ [Next]_vars
        => VersionPhase' /\ UpdatePhase' /\ PathPhase'
  BY NextVersion, NextUpdatePhase, NextPaths
<1>3. PathPhase => (Separate(cmd.rel) => UpdatedAtRegisteredPath)
  <2> SUFFICES ASSUME PathPhase, Separate(cmd.rel), cmd.kind = "update",
                      cmd.pc \in {"review", "register", "regen"}, cmd.status # "ERROR", core = "ok"
               PROVE  UpdatedAtRegisteredPath
    BY DEF UpdatedAtRegisteredPath
  <2>1. Placed(disk)
    BY PathPhaseParts DEF PathsKept
  <2> QED BY <2>1 DEF Placed, UpdatedAtRegisteredPath
<1> QED BY <1>1, <1>2, <1>3, KitInvariance, PTL DEF Spec
=============================================================================
