----------------------- MODULE CypilotMigrationProofs -----------------------
(***************************************************************************)
(* Proofs about the migration of a project: whatever steps fail, wherever  *)
(* the process dies and however often the command is run again, nothing a  *)
(* backup covers is lost, a completed backup is never touched again, a     *)
(* rollback that reports success has restored every item, and a run that   *)
(* reports PASS has carried the kits and rules over.                       *)
(***************************************************************************)
EXTENDS CypilotMigration, TLAPS

(* The types the proofs rest on.                                           *)
Trees == UNION {[D -> SUBSET Tokens] : D \in SUBSET Paths}
Views == [core_type : InstallTypes, registry : {"none", "malformed", "ok"},
          kits : SUBSET Kits, kit_dirs : SUBSET Kits, agents_md : BOOLEAN]
Runs == [pc : PCs, v2 : Views, install : InstallDirs, ts : Nat,
         at : 1..(Len(ItemOrder) + 1), backed : SUBSET Items,
         jsonFailed : BOOLEAN, unread : BOOLEAN, errors : BOOLEAN]
Texts == [registry : {"none", "malformed", "ok"}, listed : SUBSET Kits,
          convertible : BOOLEAN, custom : BOOLEAN]
Backups == [files : Trees, manifest : SUBSET Items, done : BOOLEAN]

TypeInv ==
    /\ fs \in Trees /\ origin \in Trees /\ atStart \in Trees
    /\ text \in Texts
    /\ run \in Runs
    /\ backups \in Seq(Backups)
    /\ run.pc \notin {"idle", "confirm"} => run.ts \in DOMAIN backups
    /\ runs \in 0..MaxRuns /\ faults \in 0..MaxFaults

IInv == TypeInv /\ SafetyInv
-----------------------------------------------------------------------------
(* Trees and what the file operations do to them.                          *)

(* The backup visits eight items, the adapter first, and leaves none out.  *)
LEMMA ItemFacts ==
    /\ Len(ItemOrder) = 8
    /\ ItemOrder[1] = "adapter"
    /\ \A k \in 1..8 : ItemOrder[k] \in Items
    /\ \A p \in Items : \E k \in 1..8 : ItemOrder[k] = p
<1>1. Len(ItemOrder) = 8 /\ ItemOrder[1] = "adapter"
  BY DEF ItemOrder
<1>2. \A k \in 1..8 : ItemOrder[k] \in Items
  BY DEF ItemOrder, Items, AgentDirs
<1>3. /\ ItemOrder[1] = "adapter" /\ ItemOrder[2] = "config_json"
      /\ ItemOrder[3] = "agents_json" /\ ItemOrder[4] = "core"
      /\ ItemOrder[5] = "gitmodules" /\ ItemOrder[6] = "root_agents"
      /\ ItemOrder[7] = "claude" /\ ItemOrder[8] = "github"
  BY DEF ItemOrder
<1>4. \A p \in Items : \E k \in 1..8 : ItemOrder[k] = p
  BY <1>3 DEF Items, AgentDirs
<1> QED  BY <1>1, <1>2, <1>4

(* A tree is a project in the sense of the model, and the other way round. *)
LEMMA TreeIsProject == \A f : f \in Trees <=> IsProject(f)
BY DEF Trees, IsProject

(* A tree maps each of its paths, all of them known, to a set of tokens.   *)
LEMMA TreeAt ==
    ASSUME NEW f \in Trees
    PROVE  /\ DOMAIN f \subseteq Paths
           /\ \A p \in DOMAIN f : f[p] \subseteq Tokens
           /\ \A p : At(f, p) \subseteq Tokens
BY DEF Trees, At

(* What is at a path after an operation on a path.                         *)
LEMMA AtRemove ==
    \A f, p, q : At(Remove(f, p), q) = IF q = p THEN {} ELSE At(f, q)
BY DEF Remove, At

(* What is at a path after one was written.                                *)
LEMMA AtPut ==
    \A f, p, c, q : At(Put(f, p, c), q) = IF q = p THEN c ELSE At(f, q)
BY DEF Put, At

(* What is at a path after something was added to one.                     *)
LEMMA AtAdd ==
    \A f, p, c, q : At(Add(f, p, c), q) = IF q = p THEN At(f, p) \cup c ELSE At(f, q)
BY AtPut DEF Add

(* Writing a path.                                                         *)
LEMMA PutFacts ==
    ASSUME NEW f \in Trees, NEW p \in Paths, NEW c \in SUBSET Tokens
    PROVE  /\ Put(f, p, c) \in Trees
           /\ DOMAIN Put(f, p, c) = DOMAIN f \cup {p}
           /\ Put(f, p, c)[p] = c
           /\ \A q \in DOMAIN f : q # p => Put(f, p, c)[q] = f[q]
<1> DEFINE D == DOMAIN f \cup {p}
           g == [q \in D |-> IF q = p THEN c ELSE f[q]]
<1>1. D \subseteq Paths /\ \A q \in D : (IF q = p THEN c ELSE f[q]) \subseteq Tokens
  BY TreeAt
<1>2. g \in [D -> SUBSET Tokens]
  BY <1>1
<1>3. g \in Trees
  BY <1>1, <1>2 DEF Trees
<1> QED  BY <1>3 DEF Put

(* Removing a path.                                                        *)
LEMMA RemoveFacts ==
    ASSUME NEW f \in Trees, NEW p
    PROVE  /\ Remove(f, p) \in Trees
           /\ DOMAIN Remove(f, p) = DOMAIN f \ {p}
           /\ \A q \in DOMAIN f \ {p} : Remove(f, p)[q] = f[q]
<1> DEFINE D == DOMAIN f \ {p}
           g == [q \in D |-> f[q]]
<1>1. D \subseteq Paths /\ \A q \in D : f[q] \subseteq Tokens
  BY TreeAt
<1>2. g \in [D -> SUBSET Tokens]
  BY <1>1
<1>3. g \in Trees
  BY <1>1, <1>2 DEF Trees
<1> QED  BY <1>3 DEF Remove

(* Adding to a path.                                                       *)
LEMMA AddFacts ==
    ASSUME NEW f \in Trees, NEW p \in Paths, NEW c \in SUBSET Tokens
    PROVE  /\ Add(f, p, c) \in Trees
           /\ DOMAIN Add(f, p, c) = DOMAIN f \cup {p}
           /\ \A q \in DOMAIN f : q # p => Add(f, p, c)[q] = f[q]
<1>1. At(f, p) \cup c \in SUBSET Tokens
  BY TreeAt
<1> QED  BY <1>1, PutFacts DEF Add

(* The tokens the steps write.                                             *)
LEMMA TokenFacts ==
    /\ Layout \subseteq Tokens
    /\ \A n \in {"artifacts.toml", "SKILL.md", "core.toml", "pr-review.toml",
                 ".gen/AGENTS.md"} : File(n) \in Tokens
    /\ \A b \in Bodies : AgentsMd(b) \in Tokens
    /\ \A k \in Kits : KitTok(k) \in Tokens /\ RegTok(k) \in Tokens
    /\ Block \in Tokens /\ Proxy \in Tokens
BY DEF Tokens, Tok, File, KitTok, RegTok, Layout, Block, Proxy, Bodies, AgentsMd

(* The operations built from these keep trees as well, and change no path  *)
(* but their own.                                                          *)
LEMMA HalfFacts ==
    ASSUME NEW f \in Trees, NEW p \in Paths, NEW c \in SUBSET Tokens,
           NEW h \in HalfRemoved(f, p) \cup HalfCopied(f, p, c)
    PROVE  /\ h \in Trees
           /\ \A q \in DOMAIN f : q # p => q \in DOMAIN h /\ h[q] = f[q]
<1>1. CASE h = f
  BY <1>1
<1>2. CASE \E d \in SUBSET Tokens : h = Put(f, p, d)
  <2>1. PICK d \in SUBSET Tokens : h = Put(f, p, d)
    BY <1>2
  <2>2. /\ Put(f, p, d) \in Trees
        /\ DOMAIN Put(f, p, d) = DOMAIN f \cup {p}
        /\ \A q \in DOMAIN f : q # p => Put(f, p, d)[q] = f[q]
    BY <2>1, PutFacts
  <2> QED  BY <2>1, <2>2
<1>3. CASE h = Remove(f, p)
  BY <1>3, RemoveFacts
<1>4. \A d : (p \in DOMAIN f /\ d \in SUBSET f[p]) \/ d \in SUBSET c => d \in SUBSET Tokens
  BY TreeAt
<1> QED  BY <1>1, <1>2, <1>3, <1>4 DEF HalfRemoved, HalfCopied

(* A removal that stops half way touches no other path.                    *)
LEMMA HalfRemovedFacts ==
    ASSUME NEW f \in Trees, NEW p \in Paths
    PROVE  \A h \in HalfRemoved(f, p) :
              /\ h \in Trees
              /\ \A q \in DOMAIN f : q # p => q \in DOMAIN h /\ h[q] = f[q]
<1>1. \A h \in HalfRemoved(f, p) : h \in HalfRemoved(f, p) \cup HalfCopied(f, p, {})
  OBVIOUS
<1>2. {} \in SUBSET Tokens
  OBVIOUS
<1> QED  BY <1>1, <1>2, HalfFacts

(* Cleaning up a submodule leaves the adapter alone.                       *)
LEMMA SubmoduleFacts ==
    ASSUME NEW f \in Trees, NEW left \in SUBSET At(f, "core")
    PROVE  /\ SubmoduleCleaned(f, left) \in Trees
           /\ At(SubmoduleCleaned(f, left), "adapter") = At(f, "adapter")
<1> DEFINE entries == At(f, "gitmodules") \ {Tok("submodule", "core")}
           g == IF entries = {} THEN Remove(f, "gitmodules")
                ELSE Edit(f, "gitmodules", entries)
           h == Remove(g, "git_modules")
<1>1. entries \in SUBSET Tokens /\ left \in SUBSET Tokens
  BY TreeAt
<1>2. "core" \in Paths /\ "gitmodules" \in Paths
  BY DEF Paths, Items
<1>3. g \in Trees /\ At(g, "adapter") = At(f, "adapter")
  <2>1. Remove(f, "gitmodules") \in Trees
    BY RemoveFacts
  <2>2. Put(f, "gitmodules", entries) \in Trees
    <3> HIDE DEF entries
    <3> QED  BY <1>1, <1>2, PutFacts
  <2>3. \A c : At(Remove(f, "gitmodules"), "adapter") = At(f, "adapter")
               /\ At(Put(f, "gitmodules", c), "adapter") = At(f, "adapter")
    BY AtRemove, AtPut
  <2> HIDE DEF entries
  <2> QED  BY <2>1, <2>2, <2>3 DEF Edit
<1> HIDE DEF g
<1>4. h \in Trees
  BY <1>3, RemoveFacts
<1>5. At(h, "adapter") = At(f, "adapter")
  BY <1>3, AtRemove
<1> HIDE DEF h
<1>a. Remove(h, "core") \in Trees /\ Put(h, "core", left) \in Trees
  BY <1>1, <1>2, <1>4, PutFacts, RemoveFacts
<1>b. /\ At(Remove(h, "core"), "adapter") = At(h, "adapter")
      /\ At(Put(h, "core", left), "adapter") = At(h, "adapter")
  BY AtPut, AtRemove
<1>6. SubmoduleCleaned(f, left) = IF left = {} THEN Remove(h, "core") ELSE Put(h, "core", left)
  BY DEF SubmoduleCleaned, g, h
<1> QED  BY <1>5, <1>a, <1>b, <1>6

(* So does a cleanup that stops half way leave a tree.                     *)
LEMMA HalfCleanedFacts ==
    ASSUME NEW f \in Trees, NEW h \in SubmoduleHalfCleaned(f)
    PROVE  h \in Trees
<1>1. CASE \E left \in SUBSET At(f, "core") : h = SubmoduleCleaned(f, left)
  BY <1>1, SubmoduleFacts
<1>2. CASE \E gone \in SUBSET {"core", "git_modules"} : h = [p \in DOMAIN f \ gone |-> f[p]]
  <2>1. PICK gone \in SUBSET {"core", "git_modules"} : h = [p \in DOMAIN f \ gone |-> f[p]]
    BY <1>2
  <2>2. DOMAIN f \ gone \in SUBSET Paths /\ h \in [DOMAIN f \ gone -> SUBSET Tokens]
    BY <2>1, TreeAt
  <2> QED  BY <2>2 DEF Trees
<1> QED  BY <1>1, <1>2 DEF SubmoduleHalfCleaned

(* Cleaning the agent directories touches nothing else.                    *)
LEMMA StaleFacts ==
    ASSUME NEW f \in Trees, NEW dirs \in SUBSET AgentDirs
    PROVE  /\ WithoutStale(f, dirs) \in Trees
           /\ DOMAIN WithoutStale(f, dirs) = DOMAIN f
           /\ \A q \in DOMAIN f \ AgentDirs : WithoutStale(f, dirs)[q] = f[q]
           /\ \A q : q \notin AgentDirs => At(WithoutStale(f, dirs), q) = At(f, q)
<1> DEFINE g == [p \in DOMAIN f |-> IF p \in dirs THEN f[p] \ {Stale} ELSE f[p]]
<1>1. DOMAIN f \in SUBSET Paths /\ g \in [DOMAIN f -> SUBSET Tokens]
  BY TreeAt
<1>2. g \in Trees
  BY <1>1 DEF Trees
<1> QED  BY <1>2 DEF WithoutStale, At

(* Generating the agent files touches nothing else.                        *)
LEMMA GeneratedFacts ==
    ASSUME NEW f \in Trees, NEW dirs \in SUBSET AgentDirs
    PROVE  /\ Generated(f, dirs) \in Trees
           /\ DOMAIN Generated(f, dirs) = DOMAIN f \cup dirs
           /\ \A q \in DOMAIN f \ AgentDirs : Generated(f, dirs)[q] = f[q]
           /\ \A q : q \notin AgentDirs => At(Generated(f, dirs), q) = At(f, q)
<1> DEFINE D == DOMAIN f \cup dirs
           g == [p \in D |-> At(f, p) \cup (IF p \in dirs THEN {Proxy} ELSE {})]
<1>1. D \in SUBSET Paths
  BY TreeAt DEF Paths, Items
<1>2. \A p \in D : At(f, p) \cup (IF p \in dirs THEN {Proxy} ELSE {}) \in SUBSET Tokens
  BY TreeAt, TokenFacts
<1>3. g \in [D -> SUBSET Tokens]
  BY <1>2
<1>4. g \in Trees
  BY <1>1, <1>3 DEF Trees
<1>5. \A q \in DOMAIN f \ AgentDirs : g[q] = f[q]
  BY DEF At
<1>6. \A q : q \notin AgentDirs => At(g, q) = At(f, q)
  BY <1>5 DEF At
<1>7. Generated(f, dirs) = g
  BY DEF Generated
<1> QED  BY <1>4, <1>5, <1>6, <1>7

(* What the run sees of a project.                                         *)
LEMMA DetectType ==
    ASSUME NEW f, text \in Texts
    PROVE  detect_v2(f) \in Views
BY DEF detect_v2, Views, Texts, detect_core_install_type, InstallTypes
-----------------------------------------------------------------------------
(* The conversions, as far as the backup is concerned.                     *)

(* A conversion step moves on, starts the rollback or dies; it leaves the  *)
(* backups alone, and .gitmodules, unless the core is a submodule.         *)
Carries ==
    /\ run.pc \in Converting
    /\ fs' \in Trees
    /\ run.v2.core_type # "SUBMODULE" /\ "gitmodules" \in DOMAIN fs
         => "gitmodules" \in DOMAIN fs' /\ fs'["gitmodules"] = fs["gitmodules"]
    /\ \/ /\ run' \in Runs /\ run'.pc \in Converting
          /\ run'.ts = run.ts /\ run'.v2 = run.v2
          /\ result' = result
       \/ run' = Rollback /\ result' = result
       \/ run' = Ended /\ result' = "died"
    /\ faults' \in 0..MaxFaults
    /\ UNCHANGED <<text, origin, atStart, backups, runs>>

(* The runs a step may turn to.                                            *)
LEMMA RunTypes ==
    ASSUME run \in Runs
    PROVE  /\ NoRun \in Runs
           /\ Ended \in Runs /\ Ended.pc = "idle" /\ Ended.install = run.install
           /\ Ended.unread = run.unread
           /\ Rollback \in Runs /\ Rollback.pc = "rollback" /\ Rollback.at = 1
           /\ Rollback.ts = run.ts /\ Rollback.v2 = run.v2
<1>1. "idle" \in PCs /\ "rollback" \in PCs /\ NoView \in Views /\ "core" \in InstallDirs
      /\ 1 \in 1..(Len(ItemOrder) + 1)
  BY ItemFacts DEF PCs, NoView, Views, InstallTypes, InstallDirs
<1>2. NoRun \in Runs
  BY <1>1 DEF NoRun, Runs
<1>3. /\ Ended \in Runs /\ Ended.pc = "idle" /\ Ended.install = run.install
      /\ Ended.unread = run.unread
  BY <1>1, <1>2 DEF Ended, Runs, NoRun
<1>4. /\ Rollback \in Runs /\ Rollback.pc = "rollback" /\ Rollback.at = 1
      /\ Rollback.ts = run.ts /\ Rollback.v2 = run.v2
  BY <1>1 DEF Rollback, Runs
<1> QED  BY <1>2, <1>3, <1>4

(* So it keeps what the backup stands for: nothing is lost, and a rollback *)
(* has everything to start from.                                           *)
LEMMA CarriesSafe ==
    ASSUME IInv, Carries, ConversionPhase'
    PROVE  IInv'
<1> USE DEF IInv
<1> DEFINE b == backups[run.ts]
<1>r. run \in Runs /\ run' \in Runs
  BY RunTypes DEF Carries, TypeInv
<1>p. \/ run'.pc \in Converting /\ run'.ts = run.ts /\ run'.v2 = run.v2 /\ result' = result
      \/ /\ run'.pc = "rollback" /\ run'.at = 1 /\ run'.ts = run.ts /\ run'.v2 = run.v2
         /\ result' = result
      \/ run'.pc = "idle" /\ result' = "died"
  BY <1>r, RunTypes DEF Carries
<1>n. run.pc \in Converting /\ run.pc \notin {"idle", "confirm", "backup", "manifest", "rollback"}
  BY DEF Carries, Converting, AfterAgentsMd, AfterCoreToml, AfterKits, AfterJson, AfterAdapter
<1>n2. "idle" \notin Converting /\ "rollback" \notin Converting /\ "confirm" \notin Converting
       /\ "backup" \notin Converting /\ "manifest" \notin Converting
  BY DEF Converting, AfterAgentsMd, AfterCoreToml, AfterKits, AfterJson, AfterAdapter
<1>u. UNCHANGED <<text, origin, atStart, backups, runs>>
  BY DEF Carries
<1>d. result = "none" /\ run.v2 = detect_v2(atStart)
  BY <1>n DEF SafetyInv, FoundAsIs
<1>1. TypeInv'
  BY <1>r, <1>p, <1>n, <1>u DEF TypeInv, Carries
<1>2. FoundAsIs'
  BY <1>p, <1>n2, <1>u, <1>d DEF FoundAsIs, detect_v2
<1>3. BackupPhase' /\ ManifestLast' /\ StartedWhole'
  <2>1. BackupPhase'
    BY <1>p, <1>n2 DEF BackupPhase
  <2>2. ManifestLast'
    BY <1>u DEF ManifestLast, SafetyInv
  <2>3. StartedWhole'
    BY <1>u DEF StartedWhole, SafetyInv
  <2> QED  BY <2>1, <2>2, <2>3
<1>c. /\ run.ts \in DOMAIN backups
      /\ b.done
      /\ \A p \in b.manifest : p \in DOMAIN atStart /\ p \in DOMAIN b.files /\ b.files[p] = atStart[p]
      /\ \A p \in DOMAIN atStart \cap Items : p \notin b.manifest =>
             /\ p = "gitmodules" /\ run.v2.core_type # "SUBMODULE"
             /\ p \in DOMAIN fs /\ fs[p] = atStart[p]
  BY <1>n DEF SafetyInv, BackupCovers, ManifestLast, TypeInv
<1>k. \A p \in DOMAIN atStart \cap Items : p \notin b.manifest =>
             /\ p = "gitmodules" /\ run.v2.core_type # "SUBMODULE"
             /\ p \in DOMAIN fs' /\ fs'[p] = atStart[p]
  BY <1>c DEF Carries
<1>4. BackupCovers'
  <2>1. CASE run'.pc = "idle"
    BY <2>1, <1>n2 DEF BackupCovers
  <2>2. CASE run'.ts = run.ts /\ run'.v2 = run.v2
    <3>1. backups'[run'.ts] = b /\ atStart' = atStart
      BY <2>2, <1>u
    <3> HIDE DEF b, IInv
    <3> QED  BY <2>2, <3>1, <1>c, <1>k DEF BackupCovers
  <2> QED  BY <2>1, <2>2, <1>p
<1>5. RollbackPhase'
  <2>1. run'.pc = "rollback" => \A k \in 1..Len(ItemOrder) : ~(k < run'.at)
    BY <1>p, <1>n2, ItemFacts
  <2> QED  BY <2>1 DEF RollbackPhase
<1>6. NothingLost'
  <2> SUFFICES ASSUME NEW p \in DOMAIN origin \cap Items, NEW t \in origin[p]
               PROVE  \/ t \in At(fs', p)
                      \/ \E i \in DOMAIN backups : backups[i].done /\ t \in At(backups[i].files, p)
    BY <1>u DEF NothingLost
  <2>1. CASE \E i \in DOMAIN backups : backups[i].done /\ t \in At(backups[i].files, p)
    BY <2>1
  <2>2. CASE t \in At(atStart, p)
    <3>1. p \in DOMAIN atStart /\ t \in atStart[p]
      BY <2>2 DEF At
    <3>2. CASE p \in b.manifest
      <4>1. t \in At(b.files, p)
        BY <3>1, <3>2, <1>c DEF At
      <4> QED  BY <4>1, <1>c
    <3>3. CASE p \notin b.manifest
      BY <3>1, <3>3, <1>k DEF At
    <3> QED  BY <3>2, <3>3
  <2> QED  BY <2>1, <2>2 DEF SafetyInv, StartedWhole
<1>7. RollbackKeepsItsWord' /\ PassIsComplete'
  BY <1>p, <1>d DEF RollbackKeepsItsWord, RolledBackItemsRestored, FailedIsRecoverable, PassIsComplete
<1> QED  BY <1>1, <1>2, <1>3, <1>4, <1>5, <1>6, <1>7 DEF SafetyInv

(* Convert(pc, next, done, half) carries when the projects it may leave    *)
(* are trees with the .gitmodules that were there; what is left to show of *)
(* each step is what it hands on when it succeeds.                         *)
LEMMA ConvertStep ==
    ASSUME IInv,
           NEW pc \in Converting, NEW next \in Converting,
           NEW done \in Trees, NEW half \in SUBSET Trees,
           run.v2.core_type # "SUBMODULE" /\ "gitmodules" \in DOMAIN fs =>
              \A g \in half \cup {done} :
                  "gitmodules" \in DOMAIN g /\ g["gitmodules"] = fs["gitmodules"],
           Convert(pc, next, done, half),
           run.pc = pc /\ fs' = done /\ run' = [run EXCEPT !.pc = next] /\ atStart' = atStart
              => ConversionPhase'
    PROVE  IInv'
<1>1. run \in Runs /\ next \in PCs
  BY DEF IInv, TypeInv, PCs, Converting, AfterAgentsMd, AfterCoreToml, AfterKits, AfterJson,
         AfterAdapter
<1>2. faults' \in 0..MaxFaults
  BY MigrationAssumption DEF Convert, Fault, IInv, TypeInv, Fixed
<1>3. CASE fs' = done /\ Goto(next) /\ UNCHANGED result
  <2>1. /\ run' \in Runs /\ run'.pc = next /\ run'.ts = run.ts /\ run'.v2 = run.v2
    BY <1>1, <1>3 DEF Goto, Runs
  <2>2. Carries
    BY <1>2, <1>3, <2>1 DEF Carries, Convert, Fixed
  <2>3. ConversionPhase'
    BY <1>3 DEF Convert, Fixed, Goto
  <2> QED  BY <2>2, <2>3, CarriesSafe
<1>4. CASE fs' \in half /\ ((run' = Rollback /\ UNCHANGED result) \/ Died)
  <2>1. Carries
    BY <1>2, <1>4 DEF Carries, Convert, Fixed, Died, Finish
  <2>2. run'.pc \in {"idle", "rollback"}
    BY <1>1, <1>4, RunTypes DEF Died, Finish
  <2>3. ConversionPhase'
    BY <2>2 DEF ConversionPhase, Converting, AfterAgentsMd, AfterCoreToml, AfterKits, AfterJson,
                AfterAdapter
  <2> QED  BY <2>1, <2>3, CarriesSafe
<1> QED  BY <1>3, <1>4 DEF Convert

(* A step that writes in the v3 tree leaves the rest as it was.            *)
LEMMA PutKeeps ==
    ASSUME IInv, NEW f \in Trees, NEW c \in SUBSET Tokens
    PROVE  /\ Put(f, run.install, c) \in Trees
           /\ "gitmodules" \in DOMAIN f =>
                 /\ "gitmodules" \in DOMAIN Put(f, run.install, c)
                 /\ Put(f, run.install, c)["gitmodules"] = f["gitmodules"]
           /\ DOMAIN Put(f, run.install, c) = DOMAIN f \cup {run.install}
           /\ At(Put(f, run.install, c), "adapter") = At(f, "adapter")
           /\ At(Put(f, run.install, c), run.install) = c
<1>1. run.install \in {"core", "v3dir"}
  BY DEF IInv, TypeInv, Runs, InstallDirs
<1>2. run.install \in Paths /\ run.install # "adapter" /\ run.install # "gitmodules"
  BY <1>1 DEF Paths, Items
<1>3. /\ Put(f, run.install, c) \in Trees
      /\ DOMAIN Put(f, run.install, c) = DOMAIN f \cup {run.install}
      /\ \A q \in DOMAIN f : q # run.install => Put(f, run.install, c)[q] = f[q]
  BY <1>2, PutFacts
<1>4. /\ At(Put(f, run.install, c), "adapter") = At(f, "adapter")
      /\ At(Put(f, run.install, c), run.install) = c
  BY <1>2, AtPut
<1> QED  BY <1>2, <1>3, <1>4

(* So does one that adds to it.                                            *)
LEMMA AddsTo ==
    ASSUME IInv, NEW f \in Trees, NEW c \in SUBSET Tokens
    PROVE  /\ Add(f, run.install, c) \in Trees
           /\ "gitmodules" \in DOMAIN f =>
                 /\ "gitmodules" \in DOMAIN Add(f, run.install, c)
                 /\ Add(f, run.install, c)["gitmodules"] = f["gitmodules"]
           /\ DOMAIN Add(f, run.install, c) = DOMAIN f \cup {run.install}
           /\ At(Add(f, run.install, c), "adapter") = At(f, "adapter")
           /\ At(Add(f, run.install, c), run.install) = At(f, run.install) \cup c
<1>1. At(f, run.install) \cup c \in SUBSET Tokens
  BY TreeAt
<1> QED  BY <1>1, PutKeeps DEF Add

(* The project itself is such a tree.                                      *)
LEMMA AddKeeps ==
    ASSUME IInv, NEW c \in SUBSET Tokens
    PROVE  /\ Add(fs, run.install, c) \in Trees
           /\ "gitmodules" \in DOMAIN fs =>
                 /\ "gitmodules" \in DOMAIN Add(fs, run.install, c)
                 /\ Add(fs, run.install, c)["gitmodules"] = fs["gitmodules"]
           /\ DOMAIN Add(fs, run.install, c) = DOMAIN fs \cup {run.install}
           /\ At(Add(fs, run.install, c), "adapter") = At(fs, "adapter")
           /\ At(Add(fs, run.install, c), run.install) = At(fs, run.install) \cup c
<1>1. fs \in Trees
  BY DEF IInv, TypeInv
<1> QED  BY <1>1, AddsTo

(* config/AGENTS.md is written, whole or in part, next to the adapter.     *)
LEMMA WriteKeeps ==
    ASSUME IInv, NEW body \in Bodies
    PROVE  /\ WriteAgentsMd(fs, body) \in Trees
           /\ "gitmodules" \in DOMAIN fs =>
                 /\ "gitmodules" \in DOMAIN WriteAgentsMd(fs, body)
                 /\ WriteAgentsMd(fs, body)["gitmodules"] = fs["gitmodules"]
           /\ At(WriteAgentsMd(fs, body), "adapter") = At(fs, "adapter")
           /\ AgentsMd(body) \in At(WriteAgentsMd(fs, body), run.install)
<1> DEFINE c == (At(fs, run.install) \ {AgentsMd(b) : b \in Bodies}) \cup {AgentsMd(body)}
<1>1. fs \in Trees
  BY DEF IInv, TypeInv
<1>2. c \in SUBSET Tokens /\ AgentsMd(body) \in c
  BY <1>1, TreeAt, TokenFacts
<1>3. WriteAgentsMd(fs, body) = Put(fs, run.install, c)
  BY DEF WriteAgentsMd
<1> HIDE DEF c
<1>4. PICK d \in SUBSET Tokens : d = c
  BY <1>2
<1>5. /\ Put(fs, run.install, d) \in Trees
      /\ "gitmodules" \in DOMAIN fs =>
            /\ "gitmodules" \in DOMAIN Put(fs, run.install, d)
            /\ Put(fs, run.install, d)["gitmodules"] = fs["gitmodules"]
      /\ At(Put(fs, run.install, d), "adapter") = At(fs, "adapter")
      /\ At(Put(fs, run.install, d), run.install) = d
  BY <1>1, PutKeeps
<1> QED  BY <1>2, <1>3, <1>4, <1>5

(* The same of the empty one a skipped conversion makes.                   *)
LEMMA EmptyKeeps ==
    ASSUME IInv
    PROVE  /\ EmptyAgentsMd(fs) \in Trees
           /\ "gitmodules" \in DOMAIN fs =>
                 /\ "gitmodules" \in DOMAIN EmptyAgentsMd(fs)
                 /\ EmptyAgentsMd(fs)["gitmodules"] = fs["gitmodules"]
           /\ At(EmptyAgentsMd(fs), "adapter") = At(fs, "adapter")
<1>1. fs \in Trees /\ "empty" \in Bodies
  BY DEF IInv, TypeInv, Bodies
<1> QED  BY <1>1, WriteKeeps DEF EmptyAgentsMd

(* cleanup_core_path leaves the adapter for the steps to come.             *)
LEMMA CleanupCoreStep == ASSUME IInv, CleanupCore PROVE IInv'
<1> USE DEF Converting, AfterAgentsMd, AfterCoreToml, AfterKits, AfterJson, AfterAdapter
<1>0. fs \in Trees /\ run \in Runs /\ "core" \in Paths /\ {} \in SUBSET Tokens
  BY DEF IInv, TypeInv, Paths, Items
<1>1. run.pc = "cleanup" => At(fs, "adapter") = At(atStart, "adapter")
  BY DEF IInv, SafetyInv, ConversionPhase
<1>2. ASSUME NEW done, At(done, "adapter") = At(fs, "adapter"),
             run.pc = "cleanup", fs' = done, run' = [run EXCEPT !.pc = "layout"], atStart' = atStart
      PROVE  ConversionPhase'
  <2>1. run'.pc = "layout"
    BY <1>0, <1>2 DEF Runs
  <2> QED  BY <1>1, <1>2, <2>1 DEF ConversionPhase
<1>3. CASE Convert("cleanup", "layout", fs, {fs})
  <2>1. run.pc = "cleanup" /\ fs' = fs /\ run' = [run EXCEPT !.pc = "layout"] /\ atStart' = atStart
          => ConversionPhase'
    BY <1>2
  <2> QED  BY <1>0, <1>3, <2>1, ConvertStep
<1>4. CASE /\ run.v2.core_type = "SUBMODULE"
           /\ \E left \in SUBSET At(fs, "core") :
                 Convert("cleanup", "layout", SubmoduleCleaned(fs, left), SubmoduleHalfCleaned(fs))
  <2>1. PICK left \in SUBSET At(fs, "core") :
           Convert("cleanup", "layout", SubmoduleCleaned(fs, left), SubmoduleHalfCleaned(fs))
    BY <1>4
  <2>2. /\ SubmoduleCleaned(fs, left) \in Trees
        /\ At(SubmoduleCleaned(fs, left), "adapter") = At(fs, "adapter")
        /\ SubmoduleHalfCleaned(fs) \in SUBSET Trees
    BY <1>0, SubmoduleFacts, HalfCleanedFacts
  <2>3. run.pc = "cleanup" /\ fs' = SubmoduleCleaned(fs, left)
          /\ run' = [run EXCEPT !.pc = "layout"] /\ atStart' = atStart => ConversionPhase'
    BY <1>2, <2>2
  <2> QED  BY <1>4, <2>1, <2>2, <2>3, ConvertStep
<1>5. CASE Convert("cleanup", "layout", Remove(fs, "core"), HalfRemoved(fs, "core"))
  <2>a. /\ Remove(fs, "core") \in Trees
        /\ "gitmodules" \in DOMAIN fs => /\ "gitmodules" \in DOMAIN Remove(fs, "core")
                                         /\ Remove(fs, "core")["gitmodules"] = fs["gitmodules"]
    BY <1>0, RemoveFacts
  <2>b. \A g \in HalfRemoved(fs, "core") :
              /\ g \in Trees
              /\ "gitmodules" \in DOMAIN fs =>
                   "gitmodules" \in DOMAIN g /\ g["gitmodules"] = fs["gitmodules"]
    BY <1>0, HalfRemovedFacts
  <2>1. /\ Remove(fs, "core") \in Trees
        /\ \A g \in HalfRemoved(fs, "core") \cup {Remove(fs, "core")} :
              /\ g \in Trees
              /\ "gitmodules" \in DOMAIN fs =>
                   "gitmodules" \in DOMAIN g /\ g["gitmodules"] = fs["gitmodules"]
    BY <2>a, <2>b
  <2>2. At(Remove(fs, "core"), "adapter") = At(fs, "adapter")
    BY AtRemove
  <2>3. run.pc = "cleanup" /\ fs' = Remove(fs, "core")
          /\ run' = [run EXCEPT !.pc = "layout"] /\ atStart' = atStart => ConversionPhase'
    BY <1>2, <2>2
  <2>4. HalfRemoved(fs, "core") \in SUBSET Trees
    BY <2>1
  <2> QED  BY <1>5, <2>1, <2>3, <2>4, ConvertStep
<1> QED  BY <1>3, <1>4, <1>5 DEF CleanupCore

(* The v3 layout is added next to the adapter.                             *)
LEMMA InitLayoutStep == ASSUME IInv, InitLayout PROVE IInv'
<1> USE DEF Converting, AfterAgentsMd, AfterCoreToml, AfterKits, AfterJson, AfterAdapter
<1> DEFINE done == Add(fs, run.install, Layout)
           half == {Add(fs, run.install, c) : c \in SUBSET Layout}
<1>1. /\ done \in Trees /\ half \in SUBSET Trees
      /\ "gitmodules" \in DOMAIN fs => \A g \in half \cup {done} :
            "gitmodules" \in DOMAIN g /\ g["gitmodules"] = fs["gitmodules"]
      /\ At(done, "adapter") = At(fs, "adapter")
  BY AddKeeps, TokenFacts
<1>2. run \in Runs
  BY DEF IInv, TypeInv
<1>3. ASSUME run.pc = "layout", fs' = done, run' = [run EXCEPT !.pc = "registry"], atStart' = atStart
      PROVE  ConversionPhase'
  <2>1. run'.pc = "registry"
    BY <1>2, <1>3 DEF Runs
  <2> QED  BY <1>1, <1>3, <2>1 DEF ConversionPhase, IInv, SafetyInv
<1>4. Convert("layout", "registry", done, half)
  BY DEF InitLayout
<1> HIDE DEF done, half
<1> QED  BY <1>1, <1>3, <1>4, ConvertStep

(* convert_agents_md carries the adapter's rules over.                     *)
LEMMA ConvertAgentsMdStep == ASSUME IInv, ConvertAgentsMd PROVE IInv'
<1> USE DEF Converting, AfterAgentsMd, AfterCoreToml, AfterKits, AfterJson, AfterAdapter
<1> DEFINE new == IF File("AGENTS.md") \in At(fs, "adapter") THEN WriteAgentsMd(fs, "rules")
                  ELSE EmptyAgentsMd(fs)
           done == Add(new, run.install, {File("SKILL.md")})
           half == {fs, WriteAgentsMd(fs, "torn"), new}
<1>2. run \in Runs /\ fs \in Trees /\ "rules" \in Bodies /\ "torn" \in Bodies
      /\ {File("SKILL.md")} \in SUBSET Tokens
  BY TokenFacts DEF IInv, TypeInv, Bodies
<1>t. /\ WriteAgentsMd(fs, "torn") \in Trees
      /\ "gitmodules" \in DOMAIN fs =>
            /\ "gitmodules" \in DOMAIN WriteAgentsMd(fs, "torn")
            /\ WriteAgentsMd(fs, "torn")["gitmodules"] = fs["gitmodules"]
  BY <1>2, WriteKeeps
<1>n. /\ new \in Trees
      /\ "gitmodules" \in DOMAIN fs =>
            "gitmodules" \in DOMAIN new /\ new["gitmodules"] = fs["gitmodules"]
      /\ At(new, "adapter") = At(fs, "adapter")
      /\ File("AGENTS.md") \in At(fs, "adapter") => AgentsMd("rules") \in At(new, run.install)
  BY <1>2, WriteKeeps, EmptyKeeps
<1> HIDE DEF new
<1>1. /\ done \in Trees
      /\ "gitmodules" \in DOMAIN fs =>
            "gitmodules" \in DOMAIN done /\ done["gitmodules"] = fs["gitmodules"]
      /\ At(done, "adapter") = At(fs, "adapter")
      /\ At(new, run.install) \subseteq At(done, run.install)
  BY <1>2, <1>n, AddsTo
<1>h. /\ half \in SUBSET Trees
      /\ "gitmodules" \in DOMAIN fs => \A g \in half \cup {done} :
            "gitmodules" \in DOMAIN g /\ g["gitmodules"] = fs["gitmodules"]
  <2> HIDE DEF done
  <2> QED  BY <1>1, <1>2, <1>n, <1>t
<1>3. ASSUME run.pc = "agents_md", fs' = done, run' = [run EXCEPT !.pc = "core_toml"], atStart' = atStart
      PROVE  ConversionPhase'
  <2>1. run'.pc = "core_toml" /\ run'.install = run.install /\ run'.jsonFailed = run.jsonFailed
    BY <1>2, <1>3 DEF Runs
  <2>2. At(fs, "adapter") = At(atStart, "adapter")
    BY <1>3 DEF ConversionPhase, IInv, SafetyInv
  <2>3. File("AGENTS.md") \in At(atStart, "adapter") => AgentsMd("rules") \in At(done, run.install)
    <3> HIDE DEF done
    <3> QED  BY <1>1, <1>n, <2>2
  <2> HIDE DEF done, half
  <2> QED  BY <1>1, <1>3, <2>1, <2>2, <2>3 DEF ConversionPhase
<1>4. Convert("agents_md", "core_toml", done, half)
  BY DEF ConvertAgentsMd, new
<1> HIDE DEF done, half
<1> QED  BY <1>1, <1>h, <1>3, <1>4, ConvertStep

(* A skipped conversion is on record in the run.                           *)
LEMMA SkipAgentsMdStep == ASSUME IInv, SkipAgentsMd PROVE IInv'
<1> USE DEF Converting, AfterAgentsMd, AfterCoreToml, AfterKits, AfterJson, AfterAdapter
<1>1. /\ run \in Runs /\ run.pc = "agents_md" /\ {File("SKILL.md")} \in SUBSET Tokens
      /\ fs' = Add(EmptyAgentsMd(fs), run.install, {File("SKILL.md")})
      /\ UNCHANGED <<text, origin, atStart, backups, runs, result>>
      /\ faults' \in 0..MaxFaults
  BY MigrationAssumption, TokenFacts DEF SkipAgentsMd, Fixed, Fault, IInv, TypeInv
<1>2. /\ run' \in Runs /\ run'.pc = "core_toml" /\ run'.ts = run.ts /\ run'.v2 = run.v2
      /\ run'.unread = TRUE
  BY <1>1 DEF SkipAgentsMd, Runs, PCs
<1>3. /\ fs' \in Trees
      /\ "gitmodules" \in DOMAIN fs =>
            "gitmodules" \in DOMAIN fs' /\ fs'["gitmodules"] = fs["gitmodules"]
      /\ At(fs', "adapter") = At(fs, "adapter")
  BY <1>1, EmptyKeeps, AddsTo
<1>4. Carries
  BY <1>1, <1>2, <1>3 DEF Carries
<1>5. ConversionPhase'
  BY <1>1, <1>2, <1>3 DEF ConversionPhase, IInv, SafetyInv
<1> QED  BY <1>4, <1>5, CarriesSafe

(* generate_core_toml registers every kit the adapter had.                 *)
LEMMA GenerateCoreTomlStep == ASSUME IInv, GenerateCoreToml PROVE IInv'
<1> USE DEF Converting, AfterAgentsMd, AfterCoreToml, AfterKits, AfterJson, AfterAdapter
<1> DEFINE new == {File("core.toml")} \cup {RegTok(k) : k \in SlugMap}
           old == {File("core.toml")} \cup {RegTok(k) : k \in Kits}
           left == At(fs, run.install) \ old
           done == Add(WithoutCoreToml(fs), run.install, new)
           half == {fs, WithoutCoreToml(fs)}
<1>a. run.v2.kits \in SUBSET Kits /\ run.v2.kit_dirs \in SUBSET Kits
      /\ \A k \in Kits : KitTok(k) \in At(atStart, "adapter") /\ run.pc # "idle" => k \in SlugMap
  BY DEF IInv, TypeInv, Runs, Views, SafetyInv, FoundAsIs, detect_v2, SlugMap
<1>0. new \in SUBSET Tokens
  BY <1>a, TokenFacts DEF SlugMap
<1>b. \A k \in SlugMap : RegTok(k) \in new
  OBVIOUS
<1>c. AgentsMd("rules") \notin old
  BY DEF AgentsMd, RegTok, File, Tok
<1>2. run \in Runs /\ fs \in Trees
  BY DEF IInv, TypeInv
<1>d. left \in SUBSET Tokens
  BY <1>2, TreeAt
<1>e. WithoutCoreToml(fs) = Put(fs, run.install, left)
  BY DEF WithoutCoreToml
<1>f. AgentsMd("rules") \in At(fs, run.install) => AgentsMd("rules") \in left
  BY <1>c
<1> HIDE DEF new, old, left
<1>g. /\ WithoutCoreToml(fs) \in Trees
      /\ "gitmodules" \in DOMAIN fs =>
            /\ "gitmodules" \in DOMAIN WithoutCoreToml(fs)
            /\ WithoutCoreToml(fs)["gitmodules"] = fs["gitmodules"]
      /\ At(WithoutCoreToml(fs), "adapter") = At(fs, "adapter")
      /\ At(WithoutCoreToml(fs), run.install) = left
  <2>1. PICK d \in SUBSET Tokens : d = left
    BY <1>d
  <2>2. /\ Put(fs, run.install, d) \in Trees
        /\ "gitmodules" \in DOMAIN fs =>
              /\ "gitmodules" \in DOMAIN Put(fs, run.install, d)
              /\ Put(fs, run.install, d)["gitmodules"] = fs["gitmodules"]
        /\ At(Put(fs, run.install, d), "adapter") = At(fs, "adapter")
        /\ At(Put(fs, run.install, d), run.install) = d
    BY <1>2, PutKeeps
  <2> QED  BY <1>e, <2>1, <2>2
<1>1. /\ done \in Trees
      /\ "gitmodules" \in DOMAIN fs =>
            "gitmodules" \in DOMAIN done /\ done["gitmodules"] = fs["gitmodules"]
      /\ At(done, "adapter") = At(fs, "adapter")
      /\ At(done, run.install) = left \cup new
  BY <1>0, <1>g, AddsTo
<1>h. /\ half \in SUBSET Trees
      /\ "gitmodules" \in DOMAIN fs => \A g \in half \cup {done} :
            "gitmodules" \in DOMAIN g /\ g["gitmodules"] = fs["gitmodules"]
  <2> HIDE DEF done
  <2> QED  BY <1>1, <1>2, <1>g
<1>3. ASSUME run.pc = "core_toml", fs' = done, run' = [run EXCEPT !.pc = "kits"], atStart' = atStart
      PROVE  ConversionPhase'
  <2>1. run'.pc = "kits" /\ run'.install = run.install /\ run'.jsonFailed = run.jsonFailed
        /\ run'.unread = run.unread
    BY <1>2, <1>3 DEF Runs
  <2>2. \A k \in Kits : KitTok(k) \in At(atStart, "adapter") => RegTok(k) \in At(done, run.install)
    BY <1>a, <1>b, <1>1, <1>3
  <2> HIDE DEF done, half
  <2>3. AgentsMd("rules") \in At(fs, run.install) => AgentsMd("rules") \in At(done, run.install)
    BY <1>f, <1>1
  <2> QED  BY <1>1, <1>3, <2>1, <2>2, <2>3 DEF ConversionPhase, IInv, SafetyInv
<1>4. Convert("core_toml", "kits", done, half)
  BY DEF GenerateCoreToml, new
<1> HIDE DEF done, half
<1> QED  BY <1>1, <1>h, <1>3, <1>4, ConvertStep

(* migrate_kits copies every kit the adapter had.                          *)
LEMMA MigrateKitsStep == ASSUME IInv, MigrateKits PROVE IInv'
<1> USE DEF Converting, AfterAgentsMd, AfterCoreToml, AfterKits, AfterJson, AfterAdapter
<1> DEFINE copied == {KitTok(k) : k \in {j \in SlugMap : KitTok(j) \in At(fs, "adapter")}}
<1> DEFINE done == Add(fs, run.install, copied)
           half == {Add(fs, run.install, c) : c \in SUBSET copied}
<1>a. run.v2.kits \in SUBSET Kits /\ run.v2.kit_dirs \in SUBSET Kits
      /\ \A k \in Kits : KitTok(k) \in At(atStart, "adapter") /\ run.pc # "idle" => k \in SlugMap
  BY DEF IInv, TypeInv, Runs, Views, SafetyInv, FoundAsIs, detect_v2, SlugMap
<1>0. copied \in SUBSET Tokens
  BY <1>a, TokenFacts DEF SlugMap
<1>b. \A k \in SlugMap : KitTok(k) \in At(fs, "adapter") => KitTok(k) \in copied
  OBVIOUS
<1> HIDE DEF copied
<1>1. /\ done \in Trees /\ half \in SUBSET Trees
      /\ "gitmodules" \in DOMAIN fs => \A g \in half \cup {done} :
            "gitmodules" \in DOMAIN g /\ g["gitmodules"] = fs["gitmodules"]
      /\ At(done, "adapter") = At(fs, "adapter")
      /\ At(done, run.install) = At(fs, run.install) \cup copied
  BY <1>0, AddKeeps
<1>2. run \in Runs /\ fs \in Trees
  BY DEF IInv, TypeInv
<1>3. ASSUME run.pc = "kits", fs' = done, run' = [run EXCEPT !.pc = "default_kit"], atStart' = atStart
      PROVE  ConversionPhase'
  <2>1. run'.pc = "default_kit" /\ run'.install = run.install /\ run'.jsonFailed = run.jsonFailed
    BY <1>2, <1>3 DEF Runs
  <2>2. At(fs, "adapter") = At(atStart, "adapter")
    BY <1>3 DEF ConversionPhase, IInv, SafetyInv
  <2>3. \A k \in Kits : KitTok(k) \in At(atStart, "adapter") => KitTok(k) \in At(done, run.install)
    BY <1>a, <1>b, <1>1, <1>3, <2>2
  <2> HIDE DEF done, half
  <2> QED  BY <1>1, <1>3, <2>1, <2>3 DEF ConversionPhase, IInv, SafetyInv
<1>4. Convert("kits", "default_kit", done, half)
  BY DEF MigrateKits, copied
<1> HIDE DEF done, half
<1> QED  BY <1>1, <1>2, <1>3, <1>4, ConvertStep

(* The default kit only adds to the v3 tree.                               *)
LEMMA InstallDefaultKitStep == ASSUME IInv, InstallDefaultKit PROVE IInv'
<1> USE DEF Converting, AfterAgentsMd, AfterCoreToml, AfterKits, AfterJson, AfterAdapter
<1> DEFINE wanted == /\ \A k \in Kits : KitTok(k) \notin At(fs, run.install)
                     /\ CacheHasKit
           new == {KitTok(DefaultKit), RegTok(DefaultKit)}
<1> DEFINE done == IF wanted THEN Add(fs, run.install, new) ELSE fs
           half == IF wanted THEN {fs, Add(fs, run.install, {KitTok(DefaultKit)})} ELSE {fs}
<1>0. new \in SUBSET Tokens /\ {KitTok(DefaultKit)} \in SUBSET Tokens
  BY MigrationAssumption, TokenFacts
<1> HIDE DEF wanted, new
<1>1. /\ done \in Trees /\ half \in SUBSET Trees
      /\ "gitmodules" \in DOMAIN fs => \A g \in half \cup {done} :
            "gitmodules" \in DOMAIN g /\ g["gitmodules"] = fs["gitmodules"]
      /\ At(done, "adapter") = At(fs, "adapter")
      /\ At(fs, run.install) \subseteq At(done, run.install)
  BY <1>0, AddKeeps DEF IInv, TypeInv
<1>2. run \in Runs /\ fs \in Trees
  BY DEF IInv, TypeInv
<1>3. ASSUME run.pc = "default_kit", fs' = done, run' = [run EXCEPT !.pc = "json"], atStart' = atStart
      PROVE  ConversionPhase'
  <2>1. run'.pc = "json" /\ run'.install = run.install /\ run'.jsonFailed = run.jsonFailed
    BY <1>2, <1>3 DEF Runs
  <2> HIDE DEF done, half
  <2> QED  BY <1>1, <1>3, <2>1 DEF ConversionPhase, IInv, SafetyInv
<1>4. Convert("default_kit", "json", done, half)
  BY DEF InstallDefaultKit, wanted, new
<1> HIDE DEF done, half
<1> QED  BY <1>1, <1>2, <1>3, <1>4, ConvertStep

(* The registry is converted, skipped, or starts the rollback.             *)
LEMMA ConvertRegistryStep == ASSUME IInv, ConvertRegistry PROVE IInv'
<1> USE DEF Converting, AfterAgentsMd, AfterCoreToml, AfterKits, AfterJson, AfterAdapter
<1> DEFINE done == IF run.v2.registry = "ok"
                   THEN Add(fs, run.install, {File("artifacts.toml")}) ELSE fs
<1>0. {File("artifacts.toml")} \in SUBSET Tokens
  BY TokenFacts
<1>1. /\ done \in Trees
      /\ "gitmodules" \in DOMAIN fs =>
            "gitmodules" \in DOMAIN done /\ done["gitmodules"] = fs["gitmodules"]
      /\ At(done, "adapter") = At(fs, "adapter")
  BY <1>0, AddKeeps DEF IInv, TypeInv
<1>2. run \in Runs /\ fs \in Trees /\ faults \in 0..MaxFaults
  BY DEF IInv, TypeInv
<1>3. CASE Convert("registry", "agents_md", done, {fs})
  <2>1. ASSUME run.pc = "registry", fs' = done, run' = [run EXCEPT !.pc = "agents_md"],
               atStart' = atStart
        PROVE  ConversionPhase'
    <3>1. run'.pc = "agents_md"
      BY <1>2, <2>1 DEF Runs
    <3> HIDE DEF done
    <3> QED  BY <1>1, <2>1, <3>1 DEF ConversionPhase, IInv, SafetyInv
  <2> HIDE DEF done
  <2> QED  BY <1>1, <1>2, <1>3, <2>1, ConvertStep
<1>4. CASE /\ run.v2.registry = "malformed" /\ run.pc = "registry"
           /\ run' = Rollback
           /\ Fixed /\ UNCHANGED <<fs, backups, result, runs, faults>>
  <2>1. Carries
    BY <1>2, <1>4 DEF Carries, Fixed
  <2>2. run'.pc = "rollback"
    BY <1>2, <1>4, RunTypes
  <2>3. ConversionPhase'
    BY <2>2 DEF ConversionPhase
  <2> QED  BY <2>1, <2>3, CarriesSafe
<1> QED  BY <1>3, <1>4 DEF ConvertRegistry

(* A JSON file that is not converted is still in the adapter.              *)
LEMMA ConvertJsonStep == ASSUME IInv, ConvertJson PROVE IInv'
<1> USE DEF Converting, AfterAgentsMd, AfterCoreToml, AfterKits, AfterJson, AfterAdapter
<1> DEFINE present == File("pr-review.json") \in At(fs, "adapter")
           fresh == File("pr-review.toml") \notin At(fs, run.install)
           new == Add(fs, run.install, {File("pr-review.toml")})
<1>0. {File("pr-review.toml")} \in SUBSET Tokens
  BY TokenFacts
<1>1. /\ new \in Trees
      /\ "gitmodules" \in DOMAIN fs =>
            "gitmodules" \in DOMAIN new /\ new["gitmodules"] = fs["gitmodules"]
      /\ At(new, "adapter") = At(fs, "adapter")
      /\ At(fs, run.install) \subseteq At(new, run.install)
  BY <1>0, AddKeeps
<1>2. /\ run \in Runs /\ fs \in Trees /\ faults \in 0..MaxFaults /\ MaxFaults \in Nat
      /\ text.convertible \in BOOLEAN
  BY MigrationAssumption DEF IInv, TypeInv, Texts
<1>3. run.pc = "json" /\ UNCHANGED <<text, origin, atStart, backups, runs>>
      /\ faults' \in 0..MaxFaults
  BY <1>2 DEF ConvertJson, Fixed, Fault
<1> HIDE DEF new
<1>4. CASE /\ run' = [run EXCEPT !.pc = "remove_adapter",
                                 !.jsonFailed = present /\ fresh /\ ~text.convertible]
           /\ fs' = IF present /\ fresh /\ text.convertible THEN new ELSE fs
           /\ UNCHANGED result
  <2>1. /\ run' \in Runs /\ run'.pc = "remove_adapter" /\ run'.ts = run.ts /\ run'.v2 = run.v2
        /\ run'.install = run.install /\ run'.unread = run.unread
        /\ run'.jsonFailed = (present /\ fresh /\ ~text.convertible)
    BY <1>2, <1>4 DEF Runs, PCs
  <2>2. Carries
    BY <1>1, <1>2, <1>3, <1>4, <2>1 DEF Carries
  <2>3. ConversionPhase'
    <3>1. /\ At(fs', "adapter") = At(fs, "adapter")
          /\ At(fs, run.install) \subseteq At(fs', run.install)
          /\ run'.jsonFailed => fs' = fs /\ present /\ fresh
      BY <1>1, <1>4, <2>1
    <3> QED  BY <1>3, <2>1, <3>1 DEF ConversionPhase, IInv, SafetyInv
  <2> QED  BY <2>2, <2>3, CarriesSafe
<1>5. CASE /\ present /\ fresh /\ UNCHANGED fs
           /\ run' = [run EXCEPT !.pc = "remove_adapter", !.jsonFailed = TRUE]
           /\ UNCHANGED result
  <2>1. /\ run' \in Runs /\ run'.pc = "remove_adapter" /\ run'.ts = run.ts /\ run'.v2 = run.v2
        /\ run'.install = run.install /\ run'.unread = run.unread
    BY <1>2, <1>5 DEF Runs, PCs
  <2>2. Carries
    BY <1>2, <1>3, <1>5, <2>1 DEF Carries
  <2>3. ConversionPhase'
    BY <1>3, <1>5, <2>1 DEF ConversionPhase, IInv, SafetyInv
  <2> QED  BY <2>2, <2>3, CarriesSafe
<1>6. CASE UNCHANGED fs /\ Died
  <2>1. Carries
    BY <1>2, <1>3, <1>6 DEF Carries, Died, Finish
  <2>2. run'.pc = "idle"
    BY <1>2, <1>6, RunTypes DEF Died, Finish
  <2>3. ConversionPhase'
    BY <2>2 DEF ConversionPhase
  <2> QED  BY <2>1, <2>3, CarriesSafe
<1> QED  BY <1>4, <1>5, <1>6 DEF ConvertJson, new

(* The adapter goes unless such a file keeps it.                           *)
LEMMA RemoveAdapterStep == ASSUME IInv, RemoveAdapter PROVE IInv'
<1> USE DEF Converting, AfterAgentsMd, AfterCoreToml, AfterKits, AfterJson, AfterAdapter
<1> DEFINE done == IF run.jsonFailed THEN fs ELSE Remove(fs, "adapter")
           half == IF run.jsonFailed THEN {fs} ELSE HalfRemoved(fs, "adapter")
<1>a. fs \in Trees /\ "adapter" \in Paths
  BY DEF IInv, TypeInv, Paths, Items
<1>b. /\ Remove(fs, "adapter") \in Trees
      /\ "gitmodules" \in DOMAIN fs => /\ "gitmodules" \in DOMAIN Remove(fs, "adapter")
                                       /\ Remove(fs, "adapter")["gitmodules"] = fs["gitmodules"]
      /\ "adapter" \notin DOMAIN Remove(fs, "adapter")
  BY <1>a, RemoveFacts
<1>c. \A g \in HalfRemoved(fs, "adapter") :
         /\ g \in Trees
         /\ "gitmodules" \in DOMAIN fs =>
              "gitmodules" \in DOMAIN g /\ g["gitmodules"] = fs["gitmodules"]
  BY <1>a, HalfRemovedFacts
<1>d. run.install # "adapter" /\ \A q : q # "adapter" => At(Remove(fs, "adapter"), q) = At(fs, q)
  BY AtRemove DEF IInv, TypeInv, Runs, InstallDirs
<1>1. /\ done \in Trees /\ half \in SUBSET Trees
      /\ "gitmodules" \in DOMAIN fs => \A g \in half \cup {done} :
            "gitmodules" \in DOMAIN g /\ g["gitmodules"] = fs["gitmodules"]
      /\ At(done, run.install) = At(fs, run.install)
      /\ run.jsonFailed => done = fs
      /\ ~run.jsonFailed => "adapter" \notin DOMAIN done
  BY <1>a, <1>b, <1>c, <1>d
<1>2. run \in Runs /\ fs \in Trees
  BY DEF IInv, TypeInv
<1>3. ASSUME run.pc = "remove_adapter", fs' = done, run' = [run EXCEPT !.pc = "remove_configs"], atStart' = atStart
      PROVE  ConversionPhase'
  <2>1. run'.pc = "remove_configs" /\ run'.install = run.install /\ run'.jsonFailed = run.jsonFailed
    BY <1>2, <1>3 DEF Runs
  <2> HIDE DEF done, half
  <2> QED  BY <1>1, <1>3, <2>1 DEF ConversionPhase, IInv, SafetyInv
<1>4. Convert("remove_adapter", "remove_configs", done, half)
  BY DEF RemoveAdapter
<1> HIDE DEF done, half
<1> QED  BY <1>1, <1>2, <1>3, <1>4, ConvertStep

(* The two v2 files of the project root go.                                *)
LEMMA RemoveConfigsStep == ASSUME IInv, RemoveConfigs PROVE IInv'
<1> USE DEF Converting, AfterAgentsMd, AfterCoreToml, AfterKits, AfterJson, AfterAdapter
<1> DEFINE first == Remove(fs, "config_json")
<1> DEFINE done == Remove(first, "agents_json")
           half == {fs, first}
<1>a. fs \in Trees
  BY DEF IInv, TypeInv
<1>b. /\ first \in Trees
      /\ "gitmodules" \in DOMAIN fs => "gitmodules" \in DOMAIN first /\ first["gitmodules"] = fs["gitmodules"]
      /\ "adapter" \in DOMAIN first => "adapter" \in DOMAIN fs
  BY <1>a, RemoveFacts
<1>c. \A q : q # "config_json" => At(first, q) = At(fs, q)
  BY AtRemove
<1> HIDE DEF first
<1>d. /\ done \in Trees
      /\ "gitmodules" \in DOMAIN first => "gitmodules" \in DOMAIN done /\ done["gitmodules"] = first["gitmodules"]
      /\ "adapter" \in DOMAIN done => "adapter" \in DOMAIN first
  BY <1>b, RemoveFacts
<1>e. \A q : q # "agents_json" => At(done, q) = At(first, q)
  BY AtRemove
<1>f. run.install # "config_json" /\ run.install # "agents_json"
  BY DEF IInv, TypeInv, Runs, InstallDirs
<1> HIDE DEF done
<1>1. /\ done \in Trees /\ half \in SUBSET Trees
      /\ "gitmodules" \in DOMAIN fs => \A g \in half \cup {done} :
            "gitmodules" \in DOMAIN g /\ g["gitmodules"] = fs["gitmodules"]
      /\ At(done, run.install) = At(fs, run.install)
      /\ At(done, "adapter") = At(fs, "adapter")
      /\ "adapter" \in DOMAIN done => "adapter" \in DOMAIN fs
  BY <1>a, <1>b, <1>c, <1>d, <1>e, <1>f
<1>2. run \in Runs /\ fs \in Trees
  BY DEF IInv, TypeInv
<1>3. ASSUME run.pc = "remove_configs", fs' = done, run' = [run EXCEPT !.pc = "agent_files"], atStart' = atStart
      PROVE  ConversionPhase'
  <2>1. run'.pc = "agent_files" /\ run'.install = run.install /\ run'.jsonFailed = run.jsonFailed
    BY <1>2, <1>3 DEF Runs
  <2> HIDE DEF done, half
  <2> QED  BY <1>1, <1>3, <2>1 DEF ConversionPhase, IInv, SafetyInv
<1>4. Convert("remove_configs", "agent_files", done, half)
  BY DEF RemoveConfigs, first, done
<1> HIDE DEF done, half
<1> QED  BY <1>1, <1>2, <1>3, <1>4, ConvertStep

(* Old proxies go; errors are swallowed.                                   *)
LEMMA CleanAgentFilesStep == ASSUME IInv, CleanAgentFiles PROVE IInv'
<1> USE DEF Converting, AfterAgentsMd, AfterCoreToml, AfterKits, AfterJson, AfterAdapter
<1>0. PICK dirs \in SUBSET AgentDirs :
         Convert("agent_files", "gen_agents", WithoutStale(fs, dirs), {fs})
  BY DEF CleanAgentFiles
<1> DEFINE done == WithoutStale(fs, dirs)
<1>1. /\ fs \in Trees /\ run \in Runs
      /\ run.install \notin AgentDirs /\ "adapter" \notin AgentDirs /\ "gitmodules" \notin AgentDirs
  BY DEF IInv, TypeInv, Runs, InstallDirs, AgentDirs
<1>2. /\ done \in Trees /\ DOMAIN done = DOMAIN fs
      /\ \A q \in DOMAIN fs \ AgentDirs : done[q] = fs[q]
      /\ \A q : q \notin AgentDirs => At(done, q) = At(fs, q)
  BY <1>0, <1>1, StaleFacts
<1> HIDE DEF done
<1>3. /\ "gitmodules" \in DOMAIN fs => "gitmodules" \in DOMAIN done /\ done["gitmodules"] = fs["gitmodules"]
      /\ At(done, run.install) = At(fs, run.install)
      /\ At(done, "adapter") = At(fs, "adapter")
  BY <1>1, <1>2
<1>4. ASSUME run.pc = "agent_files", fs' = done, run' = [run EXCEPT !.pc = "gen_agents"],
             atStart' = atStart
      PROVE  ConversionPhase'
  <2>1. run'.pc = "gen_agents" /\ run'.install = run.install /\ run'.jsonFailed = run.jsonFailed
    BY <1>1, <1>4 DEF Runs
  <2> QED  BY <1>2, <1>3, <1>4, <2>1 DEF ConversionPhase, IInv, SafetyInv
<1>5. Convert("agent_files", "gen_agents", done, {fs})
  BY <1>0 DEF done
<1> QED  BY <1>1, <1>2, <1>3, <1>4, <1>5, ConvertStep

(* .gen/AGENTS.md is added to the v3 tree.                                 *)
LEMMA WriteGenAgentsStep == ASSUME IInv, WriteGenAgents PROVE IInv'
<1> USE DEF Converting, AfterAgentsMd, AfterCoreToml, AfterKits, AfterJson, AfterAdapter
<1> DEFINE done == Add(fs, run.install, {File(".gen/AGENTS.md")})
           half == {fs}
<1>0. {File(".gen/AGENTS.md")} \in SUBSET Tokens
      /\ File(".gen/AGENTS.md") # File("pr-review.toml")
  BY TokenFacts DEF File, Tok
<1>a. run.install # "adapter"
  BY DEF IInv, TypeInv, Runs, InstallDirs
<1>1. /\ done \in Trees /\ half \in SUBSET Trees
      /\ "gitmodules" \in DOMAIN fs => \A g \in half \cup {done} :
            "gitmodules" \in DOMAIN g /\ g["gitmodules"] = fs["gitmodules"]
      /\ At(done, "adapter") = At(fs, "adapter")
      /\ At(fs, run.install) \subseteq At(done, run.install)
      /\ File("pr-review.toml") \in At(done, run.install) => File("pr-review.toml") \in At(fs, run.install)
      /\ "adapter" \in DOMAIN done => "adapter" \in DOMAIN fs
  BY <1>0, <1>a, AddKeeps DEF IInv, TypeInv
<1>2. run \in Runs /\ fs \in Trees
  BY DEF IInv, TypeInv
<1>3. ASSUME run.pc = "gen_agents", fs' = done, run' = [run EXCEPT !.pc = "inject"], atStart' = atStart
      PROVE  ConversionPhase'
  <2>1. run'.pc = "inject" /\ run'.install = run.install /\ run'.jsonFailed = run.jsonFailed
    BY <1>2, <1>3 DEF Runs
  <2> HIDE DEF done, half
  <2> QED  BY <1>1, <1>3, <2>1 DEF ConversionPhase, IInv, SafetyInv
<1>4. Convert("gen_agents", "inject", done, half)
  BY DEF WriteGenAgents
<1> HIDE DEF done, half
<1> QED  BY <1>1, <1>2, <1>3, <1>4, ConvertStep

(* The block is added to the root AGENTS.md.                               *)
LEMMA InjectRootAgentsStep == ASSUME IInv, InjectRootAgents PROVE IInv'
<1> USE DEF Converting, AfterAgentsMd, AfterCoreToml, AfterKits, AfterJson, AfterAdapter
<1> DEFINE done == Add(fs, "root_agents", {Block})
           half == {fs}
<1>0. fs \in Trees /\ "root_agents" \in Paths /\ {Block} \in SUBSET Tokens
  BY TokenFacts DEF IInv, TypeInv, Paths, Items
<1>a. /\ done \in Trees
      /\ DOMAIN done = DOMAIN fs \cup {"root_agents"}
      /\ \A q \in DOMAIN fs : q # "root_agents" => done[q] = fs[q]
  BY <1>0, AddFacts
<1>b. \A q : q # "root_agents" => At(done, q) = At(fs, q)
  BY AtAdd
<1>c. run.install # "root_agents"
  BY DEF IInv, TypeInv, Runs, InstallDirs
<1> HIDE DEF done
<1>1. /\ done \in Trees /\ half \in SUBSET Trees
      /\ "gitmodules" \in DOMAIN fs => \A g \in half \cup {done} :
            "gitmodules" \in DOMAIN g /\ g["gitmodules"] = fs["gitmodules"]
      /\ At(done, "adapter") = At(fs, "adapter")
      /\ At(done, run.install) = At(fs, run.install)
      /\ "adapter" \in DOMAIN done => "adapter" \in DOMAIN fs
  BY <1>0, <1>a, <1>b, <1>c
<1>2. run \in Runs /\ fs \in Trees
  BY DEF IInv, TypeInv
<1>3. ASSUME run.pc = "inject", fs' = done, run' = [run EXCEPT !.pc = "generate"], atStart' = atStart
      PROVE  ConversionPhase'
  <2>1. run'.pc = "generate" /\ run'.install = run.install /\ run'.jsonFailed = run.jsonFailed
    BY <1>2, <1>3 DEF Runs
  <2> HIDE DEF done, half
  <2> QED  BY <1>1, <1>3, <2>1 DEF ConversionPhase, IInv, SafetyInv
<1>4. Convert("inject", "generate", done, half)
  BY DEF InjectRootAgents, done
<1> HIDE DEF done, half
<1> QED  BY <1>1, <1>2, <1>3, <1>4, ConvertStep

(* The proxies are written, all or some of them.                           *)
LEMMA GenerateAgentsStep == ASSUME IInv, GenerateAgents PROVE IInv'
<1> USE DEF Converting, AfterAgentsMd, AfterCoreToml, AfterKits, AfterJson, AfterAdapter
<1>0. AgentDirs \in SUBSET AgentDirs
  OBVIOUS
<1>1. PICK dirs \in SUBSET AgentDirs : fs' = Generated(fs, dirs)
  BY <1>0 DEF GenerateAgents
<1>2. /\ run.pc = "generate" /\ UNCHANGED <<text, origin, atStart, backups, runs>>
      /\ faults' \in 0..MaxFaults
  BY MigrationAssumption DEF GenerateAgents, Fixed, Fault, IInv, TypeInv
<1>3. /\ fs \in Trees /\ run \in Runs
      /\ run.install \notin AgentDirs /\ "adapter" \notin AgentDirs /\ "gitmodules" \notin AgentDirs
  BY DEF IInv, TypeInv, Runs, InstallDirs, AgentDirs
<1>4. /\ fs' \in Trees /\ DOMAIN fs' = DOMAIN fs \cup dirs
      /\ \A q \in DOMAIN fs \ AgentDirs : fs'[q] = fs[q]
      /\ \A q : q \notin AgentDirs => At(fs', q) = At(fs, q)
  BY <1>1, <1>3, GeneratedFacts
<1>5. /\ "gitmodules" \in DOMAIN fs => "gitmodules" \in DOMAIN fs' /\ fs'["gitmodules"] = fs["gitmodules"]
      /\ At(fs', run.install) = At(fs, run.install)
      /\ At(fs', "adapter") = At(fs, "adapter")
      /\ "adapter" \in DOMAIN fs' => "adapter" \in DOMAIN fs
  BY <1>1, <1>3, <1>4
<1>6. CASE Goto("validate") /\ UNCHANGED result
  <2>1. /\ run' \in Runs /\ run'.pc = "validate" /\ run'.ts = run.ts /\ run'.v2 = run.v2
        /\ run'.install = run.install /\ run'.jsonFailed = run.jsonFailed
        /\ run'.unread = run.unread
    BY <1>3, <1>6 DEF Goto, Runs, PCs
  <2>2. Carries
    BY <1>2, <1>4, <1>5, <1>6, <2>1 DEF Carries
  <2>3. ConversionPhase'
    BY <1>2, <1>5, <2>1 DEF ConversionPhase, IInv, SafetyInv
  <2> QED  BY <2>2, <2>3, CarriesSafe
<1>7. CASE Died
  <2>1. Carries
    BY <1>2, <1>4, <1>5, <1>7 DEF Carries, Died, Finish
  <2>2. run'.pc = "idle"
    BY <1>3, <1>7, RunTypes DEF Died, Finish
  <2>3. ConversionPhase'
    BY <2>2 DEF ConversionPhase
  <2> QED  BY <2>1, <2>3, CarriesSafe
<1> QED  BY <1>6, <1>7 DEF GenerateAgents

(* A validation that fails starts the rollback; one that passes reports    *)
(* what the conversions have made.                                         *)
LEMMA ValidateStep == ASSUME IInv, Validate PROVE IInv'
<1> USE DEF Converting, AfterAgentsMd, AfterCoreToml, AfterKits, AfterJson, AfterAdapter
<1>0. fs \in Trees /\ run \in Runs /\ faults \in 0..MaxFaults
  BY DEF IInv, TypeInv
<1>1. CASE run' = Rollback /\ UNCHANGED result
  <2>1. Carries
    BY <1>0, <1>1 DEF Carries, Validate, Fixed
  <2>2. run'.pc = "rollback"
    BY <1>0, <1>1, RunTypes
  <2>3. ConversionPhase'
    BY <2>2 DEF ConversionPhase
  <2> QED  BY <2>1, <2>3, CarriesSafe
<1>2. CASE Finish("PASS")
  <2>1. /\ run' \in Runs /\ run'.pc = "idle" /\ run'.install = run.install /\ result' = "PASS"
    BY <1>0, <1>2, RunTypes DEF Finish
  <2>2. UNCHANGED <<fs, text, origin, atStart, backups, runs, faults>> /\ run.pc = "validate"
    BY DEF Validate, Fixed
  <2>3. TypeInv'
    BY <2>1, <2>2 DEF IInv, TypeInv
  <2>4. FoundAsIs' /\ BackupPhase' /\ BackupCovers' /\ RollbackPhase' /\ ConversionPhase'
    BY <2>1 DEF FoundAsIs, BackupPhase, BackupCovers, RollbackPhase, ConversionPhase
  <2>5. ManifestLast' /\ StartedWhole' /\ NothingLost'
    BY <2>2 DEF IInv, SafetyInv, ManifestLast, StartedWhole, NothingLost
  <2>6. RollbackKeepsItsWord'
    BY <2>1 DEF RollbackKeepsItsWord, RolledBackItemsRestored, FailedIsRecoverable
  <2>7. PassIsComplete'
    <3>1. \A k \in Kits : KitTok(k) \in At(atStart, "adapter")
             => KitTok(k) \in At(fs, run.install) /\ RegTok(k) \in At(fs, run.install)
      BY <2>2 DEF IInv, SafetyInv, ConversionPhase
    <3>2. File("AGENTS.md") \in At(atStart, "adapter")
             => AgentsMd("rules") \in At(fs, run.install) \/ run.unread
      BY <2>2 DEF IInv, SafetyInv, ConversionPhase
    <3>b. File("AGENTS.md") \in At(atStart, "adapter") => RulesBackedUp
      <4>1. /\ run.ts \in DOMAIN backups /\ backups[run.ts].done
            /\ "adapter" \in DOMAIN atStart => "adapter" \in backups[run.ts].manifest
            /\ backups[run.ts].manifest \subseteq DOMAIN backups[run.ts].files
            /\ \A p \in backups[run.ts].manifest : backups[run.ts].files[p] = atStart[p]
        BY <2>2 DEF IInv, TypeInv, SafetyInv, BackupCovers, ManifestLast, Items
      <4> QED  BY <4>1 DEF RulesBackedUp, At
    <3>3. "adapter" \in DOMAIN fs =>
             /\ File("pr-review.json") \in At(fs, "adapter")
             /\ File("pr-review.toml") \notin At(fs, run.install)
      BY <1>0, <2>2 DEF IInv, SafetyInv, ConversionPhase, Runs
    <3>4. Detected(fs') => /\ File("pr-review.json") \in fs["adapter"]
                           /\ File("pr-review.toml") \notin At(fs, run.install)
      BY <2>2, <3>3 DEF Detected, At
    <3>5. run'.unread = run.unread /\ RulesBackedUp' = RulesBackedUp
      BY <1>0, <1>2, <2>2, RunTypes DEF Finish, RulesBackedUp
    <3> QED  BY <2>1, <2>2, <3>1, <3>2, <3>b, <3>4, <3>5 DEF PassIsComplete, Detected
  <2> QED  BY <2>3, <2>4, <2>5, <2>6, <2>7 DEF IInv, SafetyInv
<1> QED  BY <1>1, <1>2 DEF Validate
-----------------------------------------------------------------------------
(* The rollback.                                                           *)

(* A run that ends with its backups untouched and nothing lost.            *)
LEMMA EndedSafe ==
    ASSUME IInv, run' = Ended, fs' \in Trees, faults' \in 0..MaxFaults,
           UNCHANGED <<text, origin, atStart, backups, runs>>,
           NothingLost', RollbackKeepsItsWord', result' # "PASS"
    PROVE  IInv'
<1> USE DEF Converting, AfterAgentsMd, AfterCoreToml, AfterKits, AfterJson, AfterAdapter
<1>1. run' \in Runs /\ run'.pc = "idle"
  BY RunTypes DEF IInv, TypeInv
<1>2. TypeInv'
  BY <1>1 DEF IInv, TypeInv
<1>3. FoundAsIs' /\ BackupPhase' /\ BackupCovers' /\ RollbackPhase' /\ ConversionPhase'
  BY <1>1 DEF FoundAsIs, BackupPhase, BackupCovers, RollbackPhase, ConversionPhase
<1>4. ManifestLast' /\ StartedWhole'
  BY DEF IInv, SafetyInv, ManifestLast, StartedWhole
<1>5. PassIsComplete'
  BY DEF PassIsComplete
<1> QED  BY <1>2, <1>3, <1>4, <1>5 DEF IInv, SafetyInv

(* Each item of the manifest is put back as it was; what goes wrong with   *)
(* one is noted, and the backup still has it.                              *)
LEMMA RollbackItemStep == ASSUME IInv, RollbackItem PROVE IInv'
<1> DEFINE b == backups[run.ts]
           p == ItemOrder[run.at]
<1>0. /\ run.pc = "rollback" /\ run.at \in 1..8 /\ p \in Items /\ run.ts \in DOMAIN backups
      /\ UNCHANGED <<text, origin, atStart, backups, runs>>
      /\ run \in Runs /\ fs \in Trees /\ b \in Backups /\ p \in Paths
      /\ result = "none" /\ run.v2 = detect_v2(atStart)
  <2>1. run \in Runs /\ fs \in Trees /\ run.pc = "rollback" /\ run.at \in 1..(Len(ItemOrder) + 1)
        /\ run.at <= Len(ItemOrder) /\ UNCHANGED <<text, origin, atStart, backups, runs>>
    BY DEF RollbackItem, IInv, TypeInv, Runs, Fixed
  <2>2. run.at \in 1..8
    BY <2>1, ItemFacts
  <2>3. p \in Items /\ p \in Paths
    BY <2>2, ItemFacts DEF Paths
  <2>4. run.ts \in DOMAIN backups /\ b \in Backups
    BY <2>1 DEF IInv, TypeInv
  <2>5. result = "none" /\ run.v2 = detect_v2(atStart)
    BY <2>1 DEF IInv, SafetyInv, FoundAsIs
  <2> QED  BY <2>1, <2>2, <2>3, <2>4, <2>5
<1>c. /\ b.done
      /\ \A q \in b.manifest : q \in DOMAIN atStart /\ q \in DOMAIN b.files /\ b.files[q] = atStart[q]
      /\ \A q \in DOMAIN atStart \cap Items : q \notin b.manifest =>
             /\ q = "gitmodules" /\ run.v2.core_type # "SUBMODULE"
             /\ q \in DOMAIN fs /\ fs[q] = atStart[q]
  BY <1>0 DEF IInv, SafetyInv, BackupCovers, ManifestLast
<1>t. p \in b.manifest => b.files[p] \in SUBSET Tokens
  BY <1>0, <1>c, TreeAt DEF Backups
<1> HIDE DEF p, b
<1>1. /\ fs' \in Trees
      /\ \A q \in DOMAIN fs : q # p \/ p \notin b.manifest => q \in DOMAIN fs' /\ fs'[q] = fs[q]
      /\ faults' \in 0..MaxFaults
  <2>1. CASE p \notin b.manifest /\ UNCHANGED <<fs, faults>>
    BY <1>0, <2>1 DEF IInv, TypeInv
  <2>2. CASE p \in b.manifest /\ fs' = Put(fs, p, b.files[p]) /\ UNCHANGED faults
    <3>1. /\ Put(fs, p, b.files[p]) \in Trees
          /\ DOMAIN Put(fs, p, b.files[p]) = DOMAIN fs \cup {p}
          /\ \A q \in DOMAIN fs : q # p => Put(fs, p, b.files[p])[q] = fs[q]
      BY <1>0, <1>t, <2>2, PutFacts
    <3> QED  BY <2>2, <3>1 DEF IInv, TypeInv
  <2>3. CASE p \in b.manifest /\ Fault /\ fs' \in HalfRemoved(fs, p) \cup HalfCopied(fs, p, b.files[p])
    <3>1. faults' \in 0..MaxFaults
      BY <2>3, MigrationAssumption DEF Fault, IInv, TypeInv
    <3>2. fs' \in Trees /\ \A q \in DOMAIN fs : q # p => q \in DOMAIN fs' /\ fs'[q] = fs[q]
      BY <1>0, <1>t, <2>3, HalfFacts
    <3> QED  BY <2>3, <3>1, <3>2
  <2> QED  BY <2>1, <2>2, <2>3 DEF RollbackItem, p, b
<1>k. \A q \in DOMAIN atStart \cap Items : q \notin b.manifest =>
             /\ q = "gitmodules" /\ run.v2.core_type # "SUBMODULE"
             /\ q \in DOMAIN fs' /\ fs'[q] = atStart[q]
  BY <1>c, <1>1
<1>2. NothingLost'
  <2> SUFFICES ASSUME NEW q \in DOMAIN origin \cap Items, NEW t \in origin[q]
               PROVE  \/ t \in At(fs', q)
                      \/ \E i \in DOMAIN backups : backups[i].done /\ t \in At(backups[i].files, q)
    BY <1>0 DEF NothingLost
  <2>1. CASE \E i \in DOMAIN backups : backups[i].done /\ t \in At(backups[i].files, q)
    BY <2>1
  <2>2. CASE t \in At(atStart, q)
    <3>1. q \in DOMAIN atStart /\ t \in atStart[q]
      BY <2>2 DEF At
    <3>2. CASE q \in b.manifest
      <4>1. t \in At(b.files, q)
        BY <3>1, <3>2, <1>c DEF At
      <4> QED  BY <4>1, <1>0, <1>c DEF b
    <3>3. CASE q \notin b.manifest
      BY <3>1, <3>3, <1>k DEF At
    <3> QED  BY <3>2, <3>3
  <2> QED  BY <2>1, <2>2 DEF IInv, SafetyInv, StartedWhole
<1>3. CASE Died
  <2>1. run' = Ended /\ result' = "died"
    BY <1>3 DEF Died, Finish
  <2>2. RollbackKeepsItsWord'
    BY <2>1 DEF RollbackKeepsItsWord, RolledBackItemsRestored, FailedIsRecoverable
  <2> QED  BY <1>0, <1>1, <1>2, <2>1, <2>2, EndedSafe
<1>4. CASE /\ UNCHANGED result
           /\ \/ run' = [run EXCEPT !.at = @ + 1]
              \/ run' = [run EXCEPT !.at = @ + 1, !.errors = TRUE]
           /\ ~run'.errors => ~run.errors /\ (p \in b.manifest => fs' = Put(fs, p, b.files[p]))
  <2>1. /\ run' \in Runs /\ run'.pc = "rollback" /\ run'.ts = run.ts /\ run'.v2 = run.v2
        /\ run'.at = run.at + 1 /\ result' = "none"
    <3>1. run.at + 1 \in 1..(Len(ItemOrder) + 1)
      BY <1>0, ItemFacts
    <3> QED  BY <1>0, <1>4, <3>1 DEF Runs
  <2>2. TypeInv'
    BY <1>0, <1>1, <2>1 DEF IInv, TypeInv
  <2>3. FoundAsIs'
    BY <1>0, <2>1 DEF FoundAsIs, detect_v2
  <2>4. ManifestLast' /\ StartedWhole'
    BY <1>0 DEF IInv, SafetyInv, ManifestLast, StartedWhole
  <2>5. BackupPhase' /\ ConversionPhase'
    BY <2>1 DEF BackupPhase, ConversionPhase, Converting, AfterAgentsMd, AfterCoreToml, AfterKits,
                AfterJson, AfterAdapter
  <2>b. backups'[run'.ts] = b /\ atStart' = atStart
    BY <1>0, <2>1 DEF b
  <2>6. BackupCovers'
    BY <1>c, <1>k, <2>1, <2>b DEF BackupCovers
  <2>7. RollbackPhase'
    <3> SUFFICES ASSUME ~run'.errors, NEW k \in 1..8, k < run'.at, ItemOrder[k] \in b.manifest
                 PROVE  ItemOrder[k] \in DOMAIN fs' /\ fs'[ItemOrder[k]] = atStart[ItemOrder[k]]
      BY <2>b, ItemFacts DEF RollbackPhase
    <3>1. CASE ItemOrder[k] = p
      <4>1. fs' = Put(fs, p, b.files[p]) /\ p \in b.manifest
        BY <1>4, <3>1
      <4>2. p \in DOMAIN Put(fs, p, b.files[p]) /\ Put(fs, p, b.files[p])[p] = b.files[p]
        <5> DEFINE c == b.files[p]
        <5>1. fs \in Trees /\ p \in Paths /\ c \in SUBSET Tokens
          BY <1>0, <1>t, <4>1
        <5> HIDE DEF c
        <5>2. DOMAIN Put(fs, p, c) = DOMAIN fs \cup {p} /\ Put(fs, p, c)[p] = c
          BY <5>1, PutFacts
        <5> QED  BY <5>2 DEF c
      <4> QED  BY <1>c, <3>1, <4>1, <4>2
    <3>2. CASE ItemOrder[k] # p
      <4>1. k < run.at
        BY <1>0, <2>1, <3>2 DEF p
      <4>2. ItemOrder[k] \in DOMAIN fs /\ fs[ItemOrder[k]] = atStart[ItemOrder[k]]
        BY <1>0, <1>4, <4>1, ItemFacts DEF IInv, SafetyInv, RollbackPhase, b
      <4> QED  BY <1>1, <3>2, <4>2
    <3> QED  BY <3>1, <3>2
  <2>8. RollbackKeepsItsWord' /\ PassIsComplete'
    BY <2>1 DEF RollbackKeepsItsWord, RolledBackItemsRestored, FailedIsRecoverable, PassIsComplete
  <2> QED  BY <1>2, <2>2, <2>3, <2>4, <2>5, <2>6, <2>7, <2>8 DEF IInv, SafetyInv
<1>5. \/ Died
      \/ /\ UNCHANGED result
         /\ \/ run' = [run EXCEPT !.at = @ + 1]
            \/ run' = [run EXCEPT !.at = @ + 1, !.errors = TRUE]
         /\ ~run'.errors => ~run.errors /\ (p \in b.manifest => fs' = Put(fs, p, b.files[p]))
  BY <1>0 DEF RollbackItem, p, b, Runs
<1> QED  BY <1>3, <1>4, <1>5

(* The end of a rollback: without an error every item is back, with one    *)
(* the backup holds what is not.                                           *)
LEMMA RollbackEndStep == ASSUME IInv, RollbackEnd PROVE IInv'
<1> DEFINE b == backups[run.ts]
<1>0. /\ run.pc = "rollback" /\ run.at = 9 /\ run' = Ended
      /\ result' = IF run.errors THEN "FAILED" ELSE "ROLLED_BACK"
      /\ UNCHANGED <<text, origin, atStart, backups, runs, fs, faults>>
      /\ run.ts \in DOMAIN backups
  BY ItemFacts DEF RollbackEnd, Finish, Fixed, IInv, TypeInv, Runs
<1>c. /\ b.done
      /\ \A q \in b.manifest : q \in DOMAIN atStart /\ b.files[q] = atStart[q]
      /\ \A q \in DOMAIN atStart \cap Items : q \notin b.manifest => q \in DOMAIN fs /\ fs[q] = atStart[q]
  BY <1>0 DEF IInv, SafetyInv, BackupCovers
<1>1. NothingLost'
  BY <1>0 DEF IInv, SafetyInv, NothingLost
<1>2. ASSUME ~run.errors, NEW q \in DOMAIN atStart \cap Items
      PROVE  q \in DOMAIN fs /\ fs[q] = atStart[q]
  <2>1. CASE q \in b.manifest
    <3>1. PICK k \in 1..8 : ItemOrder[k] = q
      BY ItemFacts
    <3> QED  BY <1>0, <1>2, <2>1, <3>1, ItemFacts DEF IInv, SafetyInv, RollbackPhase
  <2>2. CASE q \notin b.manifest
    BY <1>c, <2>2
  <2> QED  BY <2>1, <2>2
<1>3. RolledBackItemsRestored'
  BY <1>0, <1>2 DEF RolledBackItemsRestored
<1>4. FailedIsRecoverable'
  BY <1>0, <1>c DEF FailedIsRecoverable
<1>5. fs' \in Trees /\ faults' \in 0..MaxFaults /\ result' # "PASS"
  BY <1>0 DEF IInv, TypeInv
<1> QED  BY <1>0, <1>1, <1>3, <1>4, <1>5, EndedSafe DEF RollbackKeepsItsWord

(* A manifest that cannot be read leaves the backup to restore from.       *)
LEMMA RollbackUnreadStep == ASSUME IInv, RollbackUnread PROVE IInv'
<1> DEFINE b == backups[run.ts]
<1>0. /\ run.pc = "rollback" /\ run' = Ended /\ result' = "FAILED"
      /\ UNCHANGED <<text, origin, atStart, backups, runs, fs>>
      /\ run.ts \in DOMAIN backups
      /\ fs' \in Trees /\ faults' \in 0..MaxFaults
  BY MigrationAssumption DEF RollbackUnread, Finish, Fixed, Fault, IInv, TypeInv
<1>c. /\ b.done
      /\ \A q \in b.manifest : q \in DOMAIN atStart /\ b.files[q] = atStart[q]
      /\ \A q \in DOMAIN atStart \cap Items : q \notin b.manifest => q \in DOMAIN fs /\ fs[q] = atStart[q]
  BY <1>0 DEF IInv, SafetyInv, BackupCovers
<1>1. NothingLost'
  BY <1>0 DEF IInv, SafetyInv, NothingLost
<1>2. RolledBackItemsRestored' /\ FailedIsRecoverable'
  BY <1>0, <1>c DEF RolledBackItemsRestored, FailedIsRecoverable
<1> QED  BY <1>0, <1>1, <1>2, EndedSafe DEF RollbackKeepsItsWord
-----------------------------------------------------------------------------
(* The start of a run and its backup.                                      *)

(* No completed backup is touched.                                         *)
BackupsKept ==
    /\ DOMAIN backups \subseteq DOMAIN backups'
    /\ \A i \in DOMAIN backups : backups[i].done => backups'[i] = backups[i]

(* So what is not lost stays in them.                                      *)
LEMMA KeptSafe ==
    ASSUME IInv, BackupsKept, UNCHANGED <<fs, origin, atStart>>
    PROVE  NothingLost' /\ StartedWhole'
<1>1. ASSUME NEW p, NEW t, \E i \in DOMAIN backups : backups[i].done /\ t \in At(backups[i].files, p)
      PROVE  \E i \in DOMAIN backups' : backups'[i].done /\ t \in At(backups'[i].files, p)
  BY <1>1 DEF BackupsKept
<1>2. NothingLost'
  BY <1>1 DEF NothingLost, IInv, SafetyInv
<1>3. StartedWhole'
  BY <1>1 DEF StartedWhole, IInv, SafetyInv
<1> QED  BY <1>2, <1>3

(* The project as it is at first.                                          *)
LEMMA InitSafe == ASSUME Init PROVE IInv
<1> USE DEF Converting, AfterAgentsMd, AfterCoreToml, AfterKits, AfterJson, AfterAdapter
<1>1. PICK p \in Projects :
         /\ fs = p.fs
         /\ text = [registry |-> p.registry, listed |-> p.listed,
                    convertible |-> p.convertible, custom |-> p.custom]
  BY DEF Init
<1>2. fs \in Trees /\ text \in Texts
  BY <1>1, MigrationAssumption, TreeIsProject DEF Texts
<1>3. run = NoRun /\ run \in Runs /\ run.pc = "idle" /\ backups = <<>> /\ DOMAIN backups = {}
  <2>1. NoRun \in Runs
    <3>1. "idle" \in PCs /\ NoView \in Views /\ "core" \in InstallDirs /\ 1 \in 1..(Len(ItemOrder) + 1)
      BY ItemFacts DEF PCs, NoView, Views, InstallTypes, InstallDirs
    <3> QED  BY <3>1 DEF NoRun, Runs
  <2> QED  BY <2>1 DEF Init, NoRun
<1>4. TypeInv
  BY <1>2, <1>3, MigrationAssumption DEF Init, TypeInv
<1>5. /\ FoundAsIs /\ BackupPhase /\ ManifestLast /\ BackupCovers /\ RollbackPhase
      /\ ConversionPhase
  BY <1>3 DEF FoundAsIs, BackupPhase, ManifestLast, BackupCovers, RollbackPhase, ConversionPhase
<1>6. StartedWhole /\ NothingLost
  BY DEF Init, StartedWhole, NothingLost, At
<1>7. RollbackKeepsItsWord /\ PassIsComplete
  BY DEF Init, RollbackKeepsItsWord, RolledBackItemsRestored, FailedIsRecoverable, PassIsComplete
<1> QED  BY <1>4, <1>5, <1>6, <1>7 DEF IInv, SafetyInv

(* A run starts from what the last one left.                               *)
LEMMA StartStep ==
    ASSUME IInv, NEW install \in InstallDirs, NEW dry_run \in BOOLEAN, Start(install, dry_run)
    PROVE  IInv'
<1> USE DEF Converting, AfterAgentsMd, AfterCoreToml, AfterKits, AfterJson, AfterAdapter
<1>1. /\ UNCHANGED <<fs, text, origin, backups, faults>> /\ atStart' = fs
      /\ runs' \in 0..MaxRuns
  BY MigrationAssumption DEF Start, IInv, TypeInv
<1>2. ManifestLast' /\ StartedWhole' /\ NothingLost'
  BY <1>1 DEF IInv, SafetyInv, ManifestLast, StartedWhole, NothingLost
<1>3. CASE run' = Ended /\ result' \in {"NOT_FOUND", "DRY_RUN"}
  <2>1. run' \in Runs /\ run'.pc = "idle"
    BY <1>3, RunTypes DEF IInv, TypeInv
  <2>2. TypeInv'
    BY <1>1, <2>1 DEF IInv, TypeInv
  <2>3. FoundAsIs' /\ BackupPhase' /\ BackupCovers' /\ RollbackPhase' /\ ConversionPhase'
    BY <2>1 DEF FoundAsIs, BackupPhase, BackupCovers, RollbackPhase, ConversionPhase
  <2>4. RollbackKeepsItsWord' /\ PassIsComplete'
    BY <1>3 DEF RollbackKeepsItsWord, RolledBackItemsRestored, FailedIsRecoverable, PassIsComplete
  <2> QED  BY <1>2, <2>2, <2>3, <2>4 DEF IInv, SafetyInv
<1>4. CASE /\ Detected(fs)
           /\ run' = [NoRun EXCEPT !.pc = "confirm", !.v2 = detect_v2(fs), !.install = install]
           /\ result' = "none"
  <2>1. /\ run' \in Runs /\ run'.pc = "confirm" /\ run'.v2 = detect_v2(fs)
        /\ run'.at = 1 /\ run'.backed = {}
    <3>1. detect_v2(fs) \in Views /\ NoRun \in Runs
      BY DetectType, RunTypes DEF IInv, TypeInv
    <3> HIDE DEF NoRun
    <3>2. /\ run' \in Runs /\ run'.pc = "confirm" /\ run'.v2 = detect_v2(fs)
          /\ run'.at = NoRun.at /\ run'.backed = NoRun.backed
      BY <1>4, <3>1 DEF Runs, PCs
    <3> QED  BY <3>2 DEF NoRun
  <2>2. TypeInv'
    BY <1>1, <2>1 DEF IInv, TypeInv
  <2>3. detect_v2(atStart)' = detect_v2(fs)
    BY <1>1 DEF detect_v2
  <2>4. FoundAsIs'
    BY <1>1, <1>4, <2>1, <2>3 DEF FoundAsIs, Detected
  <2>5. BackupPhase' /\ BackupCovers' /\ RollbackPhase' /\ ConversionPhase'
    BY <2>1 DEF BackupPhase, BackupCovers, RollbackPhase, ConversionPhase
  <2>6. RollbackKeepsItsWord' /\ PassIsComplete'
    BY <1>4 DEF RollbackKeepsItsWord, RolledBackItemsRestored, FailedIsRecoverable, PassIsComplete
  <2> QED  BY <1>2, <2>2, <2>4, <2>5, <2>6 DEF IInv, SafetyInv
<1> QED  BY <1>3, <1>4 DEF Start, Finish

(* The backup directory is made, or shared with the run before.            *)
LEMMA ConfirmStep ==
    ASSUME IInv, NEW yes \in BOOLEAN, NEW ts \in 1..MaxRuns, Confirm(yes, ts)
    PROVE  IInv' /\ BackupsKept
<1> USE DEF Converting, AfterAgentsMd, AfterCoreToml, AfterKits, AfterJson, AfterAdapter
<1>1. /\ run.pc = "confirm" /\ UNCHANGED <<fs, text, origin, atStart, runs, faults>>
      /\ run \in Runs /\ backups \in Seq(Backups) /\ ts \in Nat
      /\ run.at = 1 /\ run.backed = {} /\ result = "none" /\ fs = atStart
      /\ "adapter" \in DOMAIN fs /\ run.v2 = detect_v2(atStart)
  BY DEF Confirm, Fixed, IInv, TypeInv, SafetyInv, FoundAsIs
<1>2. CASE Finish("CANCELLED") /\ UNCHANGED backups
  <2>1. run' = Ended /\ result' = "CANCELLED"
    BY <1>2 DEF Finish
  <2>2. BackupsKept
    BY <1>2 DEF BackupsKept
  <2>3. NothingLost'
    BY <1>1, <2>2, KeptSafe
  <2>4. RollbackKeepsItsWord'
    BY <2>1 DEF RollbackKeepsItsWord, RolledBackItemsRestored, FailedIsRecoverable
  <2>5. fs' \in Trees /\ faults' \in 0..MaxFaults
    BY <1>1 DEF IInv, TypeInv
  <2> QED  BY <1>1, <1>2, <2>1, <2>2, <2>3, <2>4, <2>5, EndedSafe
<1>3. CASE /\ run' = [run EXCEPT !.pc = "backup", !.ts = ts] /\ UNCHANGED result
           /\ backups' = IF ts \in DOMAIN backups THEN backups
                         ELSE Append(backups, [files |-> <<>>, manifest |-> {}, done |-> FALSE])
  <2> DEFINE new == [files |-> <<>>, manifest |-> {}, done |-> FALSE]
  <2>1. /\ run' \in Runs /\ run'.pc = "backup" /\ run'.ts = ts /\ run'.v2 = run.v2
        /\ run'.at = 1 /\ run'.backed = {}
    BY <1>1, <1>3 DEF Runs, PCs
  <2>2. new \in Backups /\ new.manifest = {} /\ new.done = FALSE
    <3>1. <<>> \in [{} -> SUBSET Tokens] /\ {} \in SUBSET Paths
      OBVIOUS
    <3>2. <<>> \in Trees
      BY <3>1 DEF Trees
    <3> QED  BY <3>2 DEF Backups
  <2>3. ts = Len(backups) \/ ts = Len(backups) + 1
    BY DEF Confirm
  <2>4. /\ backups' \in Seq(Backups) /\ ts \in DOMAIN backups'
        /\ DOMAIN backups \subseteq DOMAIN backups'
        /\ \A i \in DOMAIN backups : backups'[i] = backups[i]
        /\ \A i \in DOMAIN backups' \ DOMAIN backups : backups'[i] = new
    <3> HIDE DEF new
    <3>1. CASE ts \in DOMAIN backups
      BY <1>1, <1>3, <3>1
    <3>2. CASE ts \notin DOMAIN backups
      <4>1. backups' = Append(backups, new) /\ ts = Len(backups) + 1
        BY <1>1, <1>3, <2>3, <3>2 DEF new
      <4> QED  BY <1>1, <2>2, <4>1
    <3> QED  BY <3>1, <3>2
  <2>5. BackupsKept
    BY <2>4 DEF BackupsKept
  <2>6. TypeInv'
    BY <1>1, <2>1, <2>4 DEF IInv, TypeInv
  <2>7. FoundAsIs'
    BY <1>1, <1>3, <2>1 DEF FoundAsIs, detect_v2
  <2>8. ManifestLast'
    BY <2>2, <2>4 DEF ManifestLast, IInv, SafetyInv
  <2>9. BackupPhase'
    BY <2>1, ItemFacts DEF BackupPhase
  <2>10. BackupCovers' /\ RollbackPhase' /\ ConversionPhase'
    BY <2>1 DEF BackupCovers, RollbackPhase, ConversionPhase
  <2>11. RollbackKeepsItsWord' /\ PassIsComplete'
    BY <1>1, <1>3 DEF RollbackKeepsItsWord, RolledBackItemsRestored, FailedIsRecoverable, PassIsComplete
  <2>12. NothingLost' /\ StartedWhole'
    BY <1>1, <2>5, KeptSafe
  <2> QED  BY <2>5, <2>6, <2>7, <2>8, <2>9, <2>10, <2>11, <2>12 DEF IInv, SafetyInv
<1> QED  BY <1>2, <1>3 DEF Confirm

(* Writing into a backup that is not completed keeps the completed ones.   *)
LEMMA StoreFacts ==
    ASSUME IInv, run.ts \in DOMAIN backups, ~backups[run.ts].done,
           NEW f \in Trees, backups' = [backups EXCEPT ![run.ts].files = f]
    PROVE  /\ backups' \in Seq(Backups) /\ DOMAIN backups' = DOMAIN backups
           /\ backups'[run.ts].files = f
           /\ backups'[run.ts].manifest = {} /\ backups'[run.ts].done = FALSE
           /\ \A i \in DOMAIN backups : i # run.ts => backups'[i] = backups[i]
           /\ BackupsKept /\ ManifestLast'
<1> DEFINE new == [backups[run.ts] EXCEPT !.files = f]
<1>1. /\ backups \in Seq(Backups) /\ backups[run.ts] \in Backups
      /\ backups[run.ts].manifest = {} /\ backups[run.ts].done = FALSE
  <2>1. backups \in Seq(Backups)
    BY DEF IInv, TypeInv
  <2>2. backups[run.ts] \in Backups
    BY <2>1
  <2>3. backups[run.ts].manifest = {}
    BY DEF IInv, SafetyInv, ManifestLast
  <2>4. backups[run.ts].done \in BOOLEAN
    BY <2>2 DEF Backups
  <2> QED  BY <2>1, <2>2, <2>3, <2>4
<1>2. /\ new \in Backups /\ new.files = f /\ new.manifest = {} /\ new.done = FALSE
  BY <1>1 DEF Backups
<1>3. backups' = [backups EXCEPT ![run.ts] = new]
  OBVIOUS
<1> HIDE DEF new
<1>4. /\ backups' \in Seq(Backups) /\ DOMAIN backups' = DOMAIN backups
      /\ backups'[run.ts] = new
      /\ \A i \in DOMAIN backups : i # run.ts => backups'[i] = backups[i]
  BY <1>1, <1>2, <1>3
<1>5. BackupsKept
  BY <1>4 DEF BackupsKept
<1>6. ManifestLast'
  BY <1>2, <1>4 DEF ManifestLast, IInv, SafetyInv
<1> QED  BY <1>2, <1>4, <1>5, <1>6

(* One item of the backup.  In a directory a completed backup is in, the   *)
(* first item fails: its adapter is already there.                         *)
LEMMA BackupItemStep == ASSUME IInv, BackupItem PROVE IInv' /\ BackupsKept
<1> USE DEF Converting, AfterAgentsMd, AfterCoreToml, AfterKits, AfterJson, AfterAdapter
<1> DEFINE p == ItemOrder[run.at]
           old == backups[run.ts].files
           next == [run EXCEPT !.at = @ + 1,
                               !.pc = IF run.at = Len(ItemOrder) THEN "manifest" ELSE "backup"]
<1>0. /\ run.pc = "backup" /\ run \in Runs /\ run.at \in 1..8 /\ p \in Items /\ p \in Paths
      /\ run.ts \in DOMAIN backups /\ backups[run.ts] \in Backups /\ old \in Trees
      /\ fs \in Trees /\ faults \in 0..MaxFaults
      /\ UNCHANGED <<fs, text, origin, atStart, runs>>
  <2>1. /\ run.pc = "backup" /\ run \in Runs /\ run.at <= Len(ItemOrder)
        /\ fs \in Trees /\ faults \in 0..MaxFaults /\ UNCHANGED <<fs, text, origin, atStart, runs>>
    BY DEF BackupItem, IInv, TypeInv, SafetyInv, BackupPhase, Fixed
  <2>2. run.at \in 1..8
    BY <2>1, ItemFacts DEF Runs
  <2>3. p \in Items /\ p \in Paths
    BY <2>2, ItemFacts DEF Paths
  <2>4. run.ts \in DOMAIN backups /\ backups[run.ts] \in Backups
    BY <2>1 DEF IInv, TypeInv
  <2>5. old \in Trees
    BY <2>4 DEF Backups
  <2> QED  BY <2>1, <2>2, <2>3, <2>4, <2>5
<1>f. /\ fs = atStart /\ "adapter" \in DOMAIN fs /\ run.v2 = detect_v2(atStart) /\ result = "none"
  BY <1>0 DEF IInv, SafetyInv, FoundAsIs
<1>b. /\ \A q \in run.backed : q \in DOMAIN fs /\ q \in DOMAIN old /\ old[q] = fs[q]
      /\ \A k \in 1..8 : k < run.at /\ InBackup(ItemOrder[k]) => ItemOrder[k] \in run.backed
      /\ run.at > 1 => ~backups[run.ts].done
  BY <1>0, ItemFacts DEF IInv, SafetyInv, BackupPhase
(* A fresh item is written only where no completed backup is.              *)
<1>g. (p \in Dirs => p \notin DOMAIN old) => ~backups[run.ts].done
  <2>1. CASE run.at > 1
    BY <1>b, <2>1
  <2>2. CASE run.at = 1
    <3>1. p = "adapter" /\ p \in Dirs
      BY <2>2, ItemFacts DEF Dirs
    <3>2. backups[run.ts].done => "adapter" \in DOMAIN old
      BY <1>0 DEF IInv, SafetyInv, ManifestLast
    <3> QED  BY <3>1, <3>2
  <2>3. run.at = 1 \/ run.at > 1
    BY <1>0
  <2> QED  BY <2>1, <2>2, <2>3
<1>a. run.at = 1 => InBackup(p)
  <2>1. run.at = 1 => p = "adapter"
    BY ItemFacts
  <2> QED  BY <1>f, <2>1 DEF InBackup
<1>n. /\ next \in Runs /\ next.pc \in {"backup", "manifest"} /\ next.ts = run.ts /\ next.v2 = run.v2
      /\ next.at = run.at + 1 /\ next.backed = run.backed
      /\ next.pc = "backup" => next.at <= 8
      /\ next.pc = "manifest" => next.at > 8
  <2>1. run.at + 1 \in 1..(Len(ItemOrder) + 1) /\ Len(ItemOrder) = 8
    BY <1>0, ItemFacts
  <2> DEFINE npc == IF run.at = Len(ItemOrder) THEN "manifest" ELSE "backup"
             nat == run.at + 1
  <2>2. npc \in PCs /\ npc \in {"backup", "manifest"} /\ nat \in 1..(Len(ItemOrder) + 1)
    BY <2>1 DEF PCs
  <2>3. (npc = "backup" => nat <= 8) /\ (npc = "manifest" => nat > 8)
    BY <1>0, <2>1
  <2>4. next = [run EXCEPT !.at = nat, !.pc = npc]
    OBVIOUS
  <2> HIDE DEF next, npc, nat
  <2>5. /\ next \in Runs /\ next.pc = npc /\ next.ts = run.ts /\ next.v2 = run.v2
        /\ next.at = nat /\ next.backed = run.backed
    BY <1>0, <2>2, <2>4 DEF Runs
  <2> QED  BY <2>2, <2>3, <2>5 DEF nat
<1> HIDE DEF next
(* A run that goes on to the next item.                                    *)
<1>5. ASSUME run' \in Runs, run'.pc = next.pc, run'.ts = run.ts, run'.v2 = run.v2,
             run'.at = run.at + 1, UNCHANGED result, faults' = faults,
             backups' \in Seq(Backups), DOMAIN backups' = DOMAIN backups,
             ManifestLast', BackupsKept, ~backups'[run.ts].done,
             \A q \in run'.backed : /\ q \in DOMAIN fs /\ q \in DOMAIN backups'[run.ts].files
                                    /\ backups'[run.ts].files[q] = fs[q],
             run.backed \subseteq run'.backed, InBackup(p) => p \in run'.backed
      PROVE  IInv'
  <2>1. TypeInv'
    BY <1>0, <1>5 DEF IInv, TypeInv
  <2>2. FoundAsIs'
    BY <1>0, <1>f, <1>5, <1>n DEF FoundAsIs, detect_v2
  <2>3. \A q : InBackup(q)' <=> InBackup(q)
    BY <1>0, <1>5 DEF InBackup
  <2>4. \A k \in 1..8 : k < run'.at /\ InBackup(ItemOrder[k]) => ItemOrder[k] \in run'.backed
    <3> SUFFICES ASSUME NEW k \in 1..8, k < run'.at, InBackup(ItemOrder[k])
                 PROVE  ItemOrder[k] \in run'.backed
      OBVIOUS
    <3>1. CASE k = run.at
      BY <1>5, <3>1
    <3>2. CASE k < run.at
      BY <1>b, <1>5, <3>2
    <3> QED  BY <1>0, <1>5, <3>1, <3>2
  <2>5. BackupPhase'
    <3>1. \A k \in 1..8 : k < run'.at /\ InBackup(ItemOrder[k])' => ItemOrder[k] \in run'.backed
      BY <2>3, <2>4
    <3>2. run'.at <= 8 \/ run'.pc = "manifest"
      BY <1>5, <1>n
    <3>3. run'.at > 8 \/ run'.pc = "backup"
      BY <1>5, <1>n
    <3>4. backups'[run'.ts].done = FALSE
      BY <1>0, <1>5 DEF Backups
    <3> QED  BY <1>0, <1>5, <3>1, <3>2, <3>3, <3>4, ItemFacts DEF BackupPhase
  <2>6. BackupCovers' /\ RollbackPhase' /\ ConversionPhase'
    BY <1>5, <1>n DEF BackupCovers, RollbackPhase, ConversionPhase
  <2>7. RollbackKeepsItsWord' /\ PassIsComplete'
    BY <1>f, <1>5 DEF RollbackKeepsItsWord, RolledBackItemsRestored, FailedIsRecoverable, PassIsComplete
  <2>8. NothingLost' /\ StartedWhole'
    BY <1>0, <1>5, KeptSafe
  <2> QED  BY <1>5, <2>1, <2>2, <2>5, <2>6, <2>7, <2>8 DEF IInv, SafetyInv
(* A run that ends here.                                                   *)
<1>6. ASSUME run' = Ended, result' \in {"BACKUP_FAILED", "died"}, faults' \in 0..MaxFaults,
             backups' \in Seq(Backups), ManifestLast', BackupsKept
      PROVE  IInv'
  <2>1. run' \in Runs /\ run'.pc = "idle"
    BY <1>0, <1>6, RunTypes
  <2>2. TypeInv'
    BY <1>0, <1>6, <2>1 DEF IInv, TypeInv
  <2>3. FoundAsIs' /\ BackupPhase' /\ BackupCovers' /\ RollbackPhase' /\ ConversionPhase'
    BY <2>1 DEF FoundAsIs, BackupPhase, BackupCovers, RollbackPhase, ConversionPhase
  <2>4. NothingLost' /\ StartedWhole'
    BY <1>0, <1>6, KeptSafe
  <2>5. RollbackKeepsItsWord' /\ PassIsComplete'
    BY <1>6 DEF RollbackKeepsItsWord, RolledBackItemsRestored, FailedIsRecoverable, PassIsComplete
  <2> QED  BY <1>6, <2>2, <2>3, <2>4, <2>5 DEF IInv, SafetyInv
<1>s. UNCHANGED backups => ManifestLast' /\ BackupsKept /\ backups' \in Seq(Backups)
  BY DEF ManifestLast, BackupsKept, IInv, SafetyInv, TypeInv
<1> HIDE DEF p
<1>7. CASE ~InBackup(p) /\ run' = next /\ UNCHANGED <<backups, result, faults>>
  <2>1. run.at > 1
    BY <1>0, <1>a, <1>7
  <2>2. IInv'
    BY <1>0, <1>b, <1>n, <1>s, <1>5, <1>7, <2>1
  <2> QED  BY <1>7, <1>s, <2>2
<1>8. CASE Finish("BACKUP_FAILED") /\ UNCHANGED <<backups, faults>>
  BY <1>0, <1>s, <1>6, <1>8 DEF Finish
<1>t. p \in DOMAIN fs => fs[p] \in SUBSET Tokens
  BY <1>0, TreeAt
<1>9. CASE /\ InBackup(p) /\ (p \in Dirs => p \notin DOMAIN old)
           /\ backups' = [backups EXCEPT ![run.ts].files = Put(old, p, fs[p])]
           /\ run' = [next EXCEPT !.backed = @ \cup {p}]
           /\ UNCHANGED <<result, faults>>
  <2> DEFINE c == fs[p]
  <2>1. p \in DOMAIN fs /\ c \in SUBSET Tokens /\ ~backups[run.ts].done
    BY <1>9, <1>g, <1>t DEF InBackup
  <2> HIDE DEF c, old
  <2>2. /\ Put(old, p, c) \in Trees /\ DOMAIN Put(old, p, c) = DOMAIN old \cup {p}
        /\ Put(old, p, c)[p] = c
        /\ \A q \in DOMAIN old : q # p => Put(old, p, c)[q] = old[q]
    <3>1. old \in Trees /\ p \in Paths /\ c \in SUBSET Tokens
      BY <1>0, <2>1
    <3> QED  BY <3>1, PutFacts
  <2>3. /\ backups' \in Seq(Backups) /\ DOMAIN backups' = DOMAIN backups
        /\ backups'[run.ts].files = Put(old, p, c) /\ backups'[run.ts].done = FALSE
        /\ BackupsKept /\ ManifestLast'
    <3>1. backups' = [backups EXCEPT ![run.ts].files = Put(old, p, c)]
      BY <1>9 DEF c
    <3> QED  BY <1>0, <2>1, <2>2, <3>1, StoreFacts
  <2>4. /\ run' \in Runs /\ run'.pc = next.pc /\ run'.ts = run.ts /\ run'.v2 = run.v2
        /\ run'.at = run.at + 1 /\ run'.backed = run.backed \cup {p}
    <3>1. next \in Runs /\ next.backed \cup {p} \in SUBSET Items
      BY <1>0, <1>n DEF Runs
    <3> QED  BY <1>n, <1>9, <3>1 DEF Runs
  <2>5. \A q \in run'.backed : /\ q \in DOMAIN fs /\ q \in DOMAIN backups'[run.ts].files
                               /\ backups'[run.ts].files[q] = fs[q]
    BY <1>b, <2>1, <2>2, <2>3, <2>4 DEF c, old
  <2>6. IInv'
    BY <1>5, <1>9, <2>3, <2>4, <2>5
  <2> QED  BY <2>3, <2>6
<1>10. CASE /\ InBackup(p) /\ (p \in Dirs => p \notin DOMAIN old)
            /\ Fault
            /\ \E h \in HalfCopied(old, p, fs[p]) : backups' = [backups EXCEPT ![run.ts].files = h]
            /\ Finish("BACKUP_FAILED") \/ Died
  <2> DEFINE c == fs[p]
  <2>1. p \in DOMAIN fs /\ c \in SUBSET Tokens /\ ~backups[run.ts].done
    BY <1>10, <1>g, <1>t DEF InBackup
  <2>a. PICK h \in HalfCopied(old, p, c) : backups' = [backups EXCEPT ![run.ts].files = h]
    BY <1>10
  <2> HIDE DEF c, old
  <2>2. h \in Trees
    BY <1>0, <2>1, <2>a, HalfFacts
  <2>3. backups' \in Seq(Backups) /\ BackupsKept /\ ManifestLast'
    BY <1>0, <2>1, <2>2, <2>a, StoreFacts
  <2>4. run' = Ended /\ result' \in {"BACKUP_FAILED", "died"} /\ faults' \in 0..MaxFaults
    BY <1>0, <1>10, MigrationAssumption DEF Finish, Died, Fault
  <2> QED  BY <1>6, <2>3, <2>4
<1> QED  BY <1>7, <1>8, <1>9, <1>10 DEF BackupItem, p, old, next

(* The manifest is the last thing written: with it the backup covers every *)
(* item, and the conversions may begin.                                    *)
LEMMA WriteManifestStep == ASSUME IInv, WriteManifest PROVE IInv' /\ BackupsKept
<1> USE DEF Converting, AfterAgentsMd, AfterCoreToml, AfterKits, AfterJson, AfterAdapter
<1> DEFINE b == backups[run.ts]
<1>0. /\ run.pc = "manifest" /\ run \in Runs /\ fs \in Trees /\ faults \in 0..MaxFaults
      /\ UNCHANGED <<fs, text, origin, atStart, runs>>
      /\ backups \in Seq(Backups) /\ run.ts \in DOMAIN backups
  BY DEF WriteManifest, Fixed, IInv, TypeInv
<1>f. /\ fs = atStart /\ "adapter" \in DOMAIN fs /\ run.v2 = detect_v2(atStart) /\ result = "none"
  BY <1>0 DEF IInv, SafetyInv, FoundAsIs
<1>b. /\ \A q \in run.backed : q \in DOMAIN fs /\ q \in DOMAIN b.files /\ b.files[q] = fs[q]
      /\ \A k \in 1..8 : InBackup(ItemOrder[k]) => ItemOrder[k] \in run.backed
      /\ b.done = FALSE
  <2>1. run.at > 8 /\ run.at \in Nat
    BY <1>0, ItemFacts DEF IInv, SafetyInv, BackupPhase, Runs
  <2>2. /\ \A q \in run.backed : q \in DOMAIN fs /\ q \in DOMAIN b.files /\ b.files[q] = fs[q]
        /\ \A k \in 1..8 : k < run.at /\ InBackup(ItemOrder[k]) => ItemOrder[k] \in run.backed
        /\ run.at > 1 => b.done = FALSE
    BY <1>0, ItemFacts DEF IInv, SafetyInv, BackupPhase
  <2> QED  BY <2>1, <2>2
<1>1. CASE UNCHANGED backups /\ Fault /\ (Finish("BACKUP_FAILED") \/ Died)
  <2>1. run' = Ended /\ result' \in {"BACKUP_FAILED", "died"} /\ faults' \in 0..MaxFaults
    BY <1>0, <1>1, MigrationAssumption DEF Finish, Died, Fault
  <2>2. BackupsKept
    BY <1>1 DEF BackupsKept
  <2>3. NothingLost'
    BY <1>0, <2>2, KeptSafe
  <2>4. RollbackKeepsItsWord'
    BY <2>1 DEF RollbackKeepsItsWord, RolledBackItemsRestored, FailedIsRecoverable
  <2> QED  BY <1>0, <1>1, <2>1, <2>2, <2>3, <2>4, EndedSafe
<1>2. CASE /\ backups' = [backups EXCEPT ![run.ts].manifest = run.backed, ![run.ts].done = TRUE]
           /\ Goto("cleanup") /\ UNCHANGED <<result, faults>>
  <2> DEFINE new == [b EXCEPT !.manifest = run.backed, !.done = TRUE]
  <2>1. b \in Backups /\ run.backed \in SUBSET Items
    BY <1>0 DEF Runs
  <2>2. new \in Backups /\ new.files = b.files /\ new.manifest = run.backed /\ new.done = TRUE
    BY <2>1 DEF Backups
  <2>3. backups' = [backups EXCEPT ![run.ts] = new]
    BY <1>0, <1>2
  <2> HIDE DEF new
  <2>4. /\ backups' \in Seq(Backups) /\ DOMAIN backups' = DOMAIN backups
        /\ backups'[run.ts] = new
        /\ \A i \in DOMAIN backups : i # run.ts => backups'[i] = backups[i]
    BY <1>0, <2>2, <2>3
  <2>5. BackupsKept
    BY <1>b, <2>4 DEF BackupsKept
  <2>6. "adapter" \in run.backed
    <3>1. InBackup("adapter") /\ ItemOrder[1] = "adapter"
      BY <1>f, ItemFacts DEF InBackup
    <3> QED  BY <1>b, <3>1
  <2>7. ManifestLast'
    BY <1>b, <2>2, <2>4, <2>6 DEF ManifestLast, IInv, SafetyInv
  <2>8. /\ run' \in Runs /\ run'.pc = "cleanup" /\ run'.ts = run.ts /\ run'.v2 = run.v2
    BY <1>0, <1>2 DEF Goto, Runs, PCs
  <2>9. TypeInv'
    BY <1>0, <1>2, <2>4, <2>8 DEF IInv, TypeInv
  <2>10. FoundAsIs'
    BY <1>0, <1>f, <1>2, <2>8 DEF FoundAsIs, detect_v2
  <2>11. BackupCovers'
    <3>1. ASSUME NEW q \in DOMAIN atStart \cap Items, q \notin run.backed
          PROVE  q = "gitmodules" /\ run.v2.core_type # "SUBMODULE"
      <4>1. PICK k \in 1..8 : ItemOrder[k] = q
        BY ItemFacts
      <4>2. ~InBackup(q)
        BY <1>b, <3>1, <4>1
      <4> QED  BY <1>f, <3>1, <4>2 DEF InBackup
    <3>2. backups'[run'.ts] = new /\ atStart' = atStart /\ fs' = atStart
      BY <1>0, <1>f, <2>4, <2>8
    <3> QED  BY <1>b, <1>f, <2>2, <2>8, <3>1, <3>2 DEF BackupCovers
  <2>12. BackupPhase' /\ RollbackPhase'
    BY <2>8 DEF BackupPhase, RollbackPhase
  <2>13. ConversionPhase'
    BY <1>0, <1>f, <2>8 DEF ConversionPhase
  <2>14. RollbackKeepsItsWord' /\ PassIsComplete'
    BY <1>f, <1>2 DEF RollbackKeepsItsWord, RolledBackItemsRestored, FailedIsRecoverable, PassIsComplete
  <2>15. NothingLost' /\ StartedWhole'
    BY <1>0, <2>5, KeptSafe
  <2> QED  BY <2>5, <2>7, <2>9, <2>10, <2>11, <2>12, <2>13, <2>14, <2>15 DEF IInv, SafetyInv
<1> QED  BY <1>1, <1>2 DEF WriteManifest
-----------------------------------------------------------------------------
(* Every step keeps the invariant and every completed backup.              *)
LEMMA NextSafe == ASSUME IInv, [Next]_vars PROVE IInv' /\ BackupsKept
<1>1. CASE UNCHANGED vars
  <2>1. TypeInv'
    BY <1>1 DEF vars, IInv, TypeInv
  <2>2. FoundAsIs' /\ BackupPhase' /\ ManifestLast' /\ BackupCovers' /\ RollbackPhase'
    BY <1>1 DEF vars, IInv, SafetyInv, FoundAsIs, BackupPhase, ManifestLast, BackupCovers,
                RollbackPhase, detect_v2, InBackup
  <2>3. StartedWhole' /\ NothingLost' /\ RollbackKeepsItsWord'
    BY <1>1 DEF vars, IInv, SafetyInv, StartedWhole, NothingLost, RollbackKeepsItsWord,
                RolledBackItemsRestored, FailedIsRecoverable
  <2>4. ConversionPhase' /\ PassIsComplete'
    BY <1>1 DEF vars, IInv, SafetyInv, ConversionPhase, PassIsComplete, RulesBackedUp, Detected
  <2>5. BackupsKept
    BY <1>1 DEF vars, BackupsKept
  <2> QED  BY <2>1, <2>2, <2>3, <2>4, <2>5 DEF IInv, SafetyInv
<1>2. CASE \E install \in InstallDirs, dry_run \in BOOLEAN : Start(install, dry_run)
  BY <1>2, StartStep DEF Start, BackupsKept
<1>3. CASE \E yes \in BOOLEAN, ts \in 1..MaxRuns : Confirm(yes, ts)
  BY <1>3, ConfirmStep
<1>4. CASE BackupItem
  BY <1>4, BackupItemStep
<1>5. CASE WriteManifest
  BY <1>5, WriteManifestStep
<1>6. CASE Step /\ ~BackupItem /\ ~WriteManifest
  <2>1. UNCHANGED backups
    <3>1. CASE \/ CleanupCore \/ InitLayout \/ ConvertRegistry \/ ConvertAgentsMd \/ SkipAgentsMd
               \/ GenerateCoreToml \/ MigrateKits \/ InstallDefaultKit \/ ConvertJson
      BY <3>1 DEF CleanupCore, InitLayout, ConvertRegistry, ConvertAgentsMd, SkipAgentsMd,
                  GenerateCoreToml, MigrateKits, InstallDefaultKit, ConvertJson, Convert
    <3>2. CASE \/ RemoveAdapter \/ RemoveConfigs \/ CleanAgentFiles \/ WriteGenAgents
               \/ InjectRootAgents \/ GenerateAgents \/ Validate \/ RollbackItem \/ RollbackUnread
               \/ RollbackEnd
      BY <3>2 DEF RemoveAdapter, RemoveConfigs, CleanAgentFiles, WriteGenAgents, InjectRootAgents,
                  GenerateAgents, Validate, RollbackItem, RollbackUnread, RollbackEnd, Convert
    <3> QED  BY <1>6, <3>1, <3>2 DEF Step
  <2>2. BackupsKept
    BY <2>1 DEF BackupsKept
  <2>3. IInv'
    BY <1>6, CleanupCoreStep, InitLayoutStep, ConvertRegistryStep, ConvertAgentsMdStep, SkipAgentsMdStep,
       GenerateCoreTomlStep, MigrateKitsStep, InstallDefaultKitStep, ConvertJsonStep,
       RemoveAdapterStep, RemoveConfigsStep, CleanAgentFilesStep, WriteGenAgentsStep,
       InjectRootAgentsStep, GenerateAgentsStep, ValidateStep, RollbackItemStep,
       RollbackUnreadStep, RollbackEndStep
    DEF Step
  <2> QED  BY <2>2, <2>3
<1> QED  BY <1>1, <1>2, <1>3, <1>4, <1>5, <1>6 DEF Next, Step

(* The invariant the other theorems rest on.                               *)
THEOREM Invariance == Spec => []IInv
<1>1. Init => IInv
  BY InitSafe
<1>2. IInv /\ [Next]_vars => IInv'
  BY NextSafe
<1> QED  BY <1>1, <1>2, PTL DEF Spec

(* Type correctness: each tree of the model is a project, and each manifest*)
(* names copies its backup has.                                            *)
THEOREM MigrationTypeCorrect == Spec => []TypeOK
<1>1. IInv => TypeOK
  <2> SUFFICES ASSUME IInv PROVE TypeOK
    OBVIOUS
  <2>1. IsProject(fs) /\ IsProject(origin) /\ IsProject(atStart)
    BY TreeIsProject DEF IInv, TypeInv
  <2>2. /\ run.pc \in PCs /\ run.install \in InstallDirs /\ run.at \in 1..(Len(ItemOrder) + 1)
        /\ run.backed \subseteq Items
    BY DEF IInv, TypeInv, Runs
  <2>3. ASSUME NEW i \in DOMAIN backups
        PROVE  IsProject(backups[i].files) /\ backups[i].manifest \subseteq DOMAIN backups[i].files
    <3>1. backups[i] \in Backups
      BY DEF IInv, TypeInv
    <3> QED  BY <3>1, TreeIsProject DEF Backups, IInv, SafetyInv, ManifestLast
  <2> QED  BY <2>1, <2>2, <2>3 DEF IInv, TypeInv, TypeOK
<1> QED  BY <1>1, Invariance, PTL

(* Nothing a backup covers is ever lost (migrate.py:1360-1623): each thing *)
(* the project had before the first run is at its place or in a completed  *)
(* backup, however many steps fail, processes die and runs follow.         *)
THEOREM NothingIsLost == Spec => []NothingLost
<1>1. IInv => NothingLost
  BY DEF IInv, SafetyInv
<1> QED  BY <1>1, Invariance, PTL

(* _rollback (migrate.py:372): "rolled back" is true of every item that    *)
(* was there, and a rollback that failed leaves a backup with all of them. *)
THEOREM RollbackHolds == Spec => []RollbackKeepsItsWord
<1>1. IInv => RollbackKeepsItsWord
  BY DEF IInv, SafetyInv
<1> QED  BY <1>1, Invariance, PTL

(* A PASS (migrate.py:1434-1551) means that the kits were carried over,    *)
(* the rules too unless their file could not be read and is in a completed *)
(* backup, and that only an unconverted JSON file keeps the old adapter.   *)
THEOREM PassCarriesOver == Spec => []PassIsComplete
<1>1. IInv => PassIsComplete
  BY DEF IInv, SafetyInv
<1> QED  BY <1>1, Invariance, PTL

(* A completed backup is never touched again, even by a run that shares    *)
(* its directory (backup_v2_state, migrate.py:301-310).                    *)
THEOREM CompletedBackupsStay == Spec => BackupsAreFrozen
<1>1. IInv /\ [Next]_vars
        => [\A i \in DOMAIN backups : backups[i].done => backups'[i] = backups[i]]_vars
  BY NextSafe DEF BackupsKept
<1> QED  BY <1>1, Invariance, PTL DEF Spec, BackupsAreFrozen
=============================================================================
