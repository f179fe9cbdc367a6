------------------------- MODULE ProjectSetupProofs -------------------------
(***************************************************************************)
(* Proofs about ProjectSetup, for every set of projects, kits and          *)
(* directories of .core/ that satisfies the module's assumptions, and any  *)
(* number of commands, edits and faults.  First what each step does to the *)
(* parts of a project and to the command; then one invariant after the     *)
(* other: types, what an update has established at each of its steps,      *)
(* where kits are registered, what old kits held, the account of the last  *)
(* clean update, the backups; at the end the theorems.                     *)
(***************************************************************************)
EXTENDS ProjectSetup, TLAPS, WellFoundedInduction

-----------------------------------------------------------------------------
(* The parts of a project.                                                 *)

CmdType == [pc : PCs, kind : {"none", "init", "update"}, force : BOOLEAN,
            at : 1..(Len(CoreOrder) + 1), todo : SUBSET Slugs,
            moved : SUBSET Slugs, failed : SUBSET Slugs,
            installed : BOOLEAN, changed : BOOLEAN, errors : BOOLEAN,
            silent : SUBSET PCs]
CmdOK == cmd \in CmdType /\ cmd.moved \cap cmd.failed = {} /\ (cmd.pc = "idle" => cmd = NoCmd)
HistoryOK ==
    /\ prev.known \in BOOLEAN
    /\ DOMAIN origin \subseteq Slugs
    /\ \A s \in DOMAIN origin : origin[s] \subseteq FileItems \cup DirItems
FaultsOK == faults \in Seq(Faults)
Parts == ProjectType(p) /\ cache \in 1..MaxVersion /\ CmdOK /\ HistoryOK /\ FaultsOK

\* The type invariant, by the variables it speaks of.
LEMMA TypeParts == (TypeOK <=> Parts) /\ (TypeOK' <=> Parts')
BY DEF TypeOK, Parts, CmdOK, CmdType, HistoryOK, FaultsOK

RegType == [state : {"absent", "ok"}, kit : Slugs \cup {""}]
CoreType == [CoreDirs -> {Half} \cup Versions]
CfgType == [ConfigFiles -> {"absent", "default", "mine"}]
GenType == [written : BOOLEAN, nav : SUBSET Slugs]
RootType == [RootFiles -> BOOLEAN]

\* A table of core.toml, with the kits it registers.
TomlOK(t) == /\ t \in [state : {"absent", "ok", "torn"}, kits : {t.kits}, system : BOOLEAN, note : BOOLEAN]
             /\ KitsType(t.kits)
Project(co, wh, ag, tr, to, re, cf, ge, ro) ==
    [core |-> co, whatsnew |-> wh, agents |-> ag, tree |-> tr, toml |-> to, reg |-> re,
     cfg |-> cf, gen |-> ge, root |-> ro]

\* A project is its parts.
LEMMA ProjectParts ==
  ASSUME NEW q, ProjectType(q)
  PROVE  /\ q = Project(q.core, q.whatsnew, q.agents, q.tree, q.toml, q.reg, q.cfg, q.gen, q.root)
         /\ q.core \in CoreType /\ q.whatsnew \in Versions /\ q.agents \in Versions
         /\ TreeType(q.tree) /\ TomlOK(q.toml) /\ q.reg \in RegType /\ q.cfg \in CfgType
         /\ q.gen \in GenType /\ q.root \in RootType
BY DEF ProjectType, Project, CoreType, TomlOK, RegType, CfgType, GenType, RootType

\* Parts of the right types make a project.
LEMMA PartsProject ==
  ASSUME NEW co \in CoreType, NEW wh \in Versions, NEW ag \in Versions, NEW tr, TreeType(tr),
         NEW to, TomlOK(to), NEW re \in RegType, NEW cf \in CfgType, NEW ge \in GenType,
         NEW ro \in RootType
  PROVE  ProjectType(Project(co, wh, ag, tr, to, re, cf, ge, ro))
<1> DEFINE q == Project(co, wh, ag, tr, to, re, cf, ge, ro)
<1>1. /\ q.core = co /\ q.whatsnew = wh /\ q.agents = ag /\ q.tree = tr /\ q.toml = to
      /\ q.reg = re /\ q.cfg = cf /\ q.gen = ge /\ q.root = ro
  BY DEF Project
<1>2. q \in [core : CoreType, whatsnew : Versions, agents : Versions, tree : {tr},
             toml : {to}, reg : RegType, cfg : CfgType, gen : GenType, root : RootType]
  BY DEF Project
<1>3. to \in [state : {"absent", "ok", "torn"}, kits : {to.kits}, system : BOOLEAN, note : BOOLEAN]
      /\ KitsType(to.kits)
  BY DEF TomlOK
<1> HIDE DEF q
<1>4. q \in [core : CoreType, whatsnew : Versions, agents : Versions, tree : {q.tree},
             toml : [state : {"absent", "ok", "torn"}, kits : {q.toml.kits}, system : BOOLEAN, note : BOOLEAN],
             reg : RegType, cfg : CfgType, gen : GenType, root : RootType]
  BY <1>1, <1>2, <1>3
<1>5. ProjectType(q)
  BY <1>1, <1>3, <1>4 DEF ProjectType, CoreType, RegType, CfgType, GenType, RootType
<1> QED BY <1>5 DEF q

-----------------------------------------------------------------------------
(* Steps, by the part of the project they change.                          *)

SetCore(x) == p' = Project(x, p.whatsnew, p.agents, p.tree, p.toml, p.reg, p.cfg, p.gen, p.root)
SetWhatsnew(x) == p' = Project(p.core, x, p.agents, p.tree, p.toml, p.reg, p.cfg, p.gen, p.root)
SetAgents(x) == p' = Project(p.core, p.whatsnew, x, p.tree, p.toml, p.reg, p.cfg, p.gen, p.root)
SetTree(x) == p' = Project(p.core, p.whatsnew, p.agents, x, p.toml, p.reg, p.cfg, p.gen, p.root)
SetToml(x) == p' = Project(p.core, p.whatsnew, p.agents, p.tree, x, p.reg, p.cfg, p.gen, p.root)
SetReg(x) == p' = Project(p.core, p.whatsnew, p.agents, p.tree, p.toml, x, p.cfg, p.gen, p.root)
SetCfg(x) == p' = Project(p.core, p.whatsnew, p.agents, p.tree, p.toml, p.reg, x, p.gen, p.root)
SetGen(x) == p' = Project(p.core, p.whatsnew, p.agents, p.tree, p.toml, p.reg, p.cfg, x, p.root)
SetRoot(x) == p' = Project(p.core, p.whatsnew, p.agents, p.tree, p.toml, p.reg, p.cfg, p.gen, x)

\* Replacing one field of the project is setting that part of it.
LEMMA Updates ==
  ASSUME ProjectType(p)
  PROVE  \A x : /\ (p' = [p EXCEPT !.core = x]) => SetCore(x)
                /\ (p' = [p EXCEPT !.whatsnew = x]) => SetWhatsnew(x)
                /\ (p' = [p EXCEPT !.agents = x]) => SetAgents(x)
                /\ (p' = [p EXCEPT !.tree = x]) => SetTree(x)
                /\ (p' = [p EXCEPT !.toml = x]) => SetToml(x)
                /\ (p' = [p EXCEPT !.reg = x]) => SetReg(x)
                /\ (p' = [p EXCEPT !.cfg = x]) => SetCfg(x)
                /\ (p' = [p EXCEPT !.gen = x]) => SetGen(x)
                /\ (p' = [p EXCEPT !.root = x]) => SetRoot(x)
<1> SUFFICES ASSUME NEW x
             PROVE  /\ [p EXCEPT !.core = x]
                       = Project(x, p.whatsnew, p.agents, p.tree, p.toml, p.reg, p.cfg, p.gen, p.root)
                    /\ [p EXCEPT !.whatsnew = x]
                       = Project(p.core, x, p.agents, p.tree, p.toml, p.reg, p.cfg, p.gen, p.root)
                    /\ [p EXCEPT !.agents = x]
                       = Project(p.core, p.whatsnew, x, p.tree, p.toml, p.reg, p.cfg, p.gen, p.root)
                    /\ [p EXCEPT !.tree = x]
                       = Project(p.core, p.whatsnew, p.agents, x, p.toml, p.reg, p.cfg, p.gen, p.root)
                    /\ [p EXCEPT !.toml = x]
                       = Project(p.core, p.whatsnew, p.agents, p.tree, x, p.reg, p.cfg, p.gen, p.root)
                    /\ [p EXCEPT !.reg = x]
                       = Project(p.core, p.whatsnew, p.agents, p.tree, p.toml, x, p.cfg, p.gen, p.root)
                    /\ [p EXCEPT !.cfg = x]
                       = Project(p.core, p.whatsnew, p.agents, p.tree, p.toml, p.reg, x, p.gen, p.root)
                    /\ [p EXCEPT !.gen = x]
                       = Project(p.core, p.whatsnew, p.agents, p.tree, p.toml, p.reg, p.cfg, x, p.root)
                    /\ [p EXCEPT !.root = x]
                       = Project(p.core, p.whatsnew, p.agents, p.tree, p.toml, p.reg, p.cfg, p.gen, x)
  BY DEF SetCore, SetWhatsnew, SetAgents, SetTree, SetToml, SetReg, SetCfg, SetGen, SetRoot
<1>1. p = Project(p.core, p.whatsnew, p.agents, p.tree, p.toml, p.reg, p.cfg, p.gen, p.root)
  BY ProjectParts
<1> QED BY <1>1 DEF Project

\* The steps that replace two fields at once.
LEMMA TwoUpdates ==
  ASSUME ProjectType(p), NEW x, NEW y
  PROVE  /\ [p EXCEPT !.toml = x, !.reg = y]
            = Project(p.core, p.whatsnew, p.agents, p.tree, x, y, p.cfg, p.gen, p.root)
         /\ [p EXCEPT !.tree = x, !.toml = y]
            = Project(p.core, p.whatsnew, p.agents, x, y, p.reg, p.cfg, p.gen, p.root)
         /\ [p EXCEPT !.toml = x, !.cfg = y]
            = Project(p.core, p.whatsnew, p.agents, p.tree, x, p.reg, y, p.gen, p.root)
         /\ [p EXCEPT !.cfg = x, !.gen = y]
            = Project(p.core, p.whatsnew, p.agents, p.tree, p.toml, p.reg, x, y, p.root)
<1>1. p = Project(p.core, p.whatsnew, p.agents, p.tree, p.toml, p.reg, p.cfg, p.gen, p.root)
  BY ProjectParts
<1>2. [p EXCEPT !.toml = x, !.reg = y]
      = Project(p.core, p.whatsnew, p.agents, p.tree, x, y, p.cfg, p.gen, p.root)
  <2>1. [p EXCEPT !.toml = x, !.reg = y] = [[p EXCEPT !.toml = x] EXCEPT !.reg = y]
    BY Zenon
  <2>2. [p EXCEPT !.toml = x]
        = Project(p.core, p.whatsnew, p.agents, p.tree, x, p.reg, p.cfg, p.gen, p.root)
    BY <1>1 DEF Project
  <2>3. [Project(p.core, p.whatsnew, p.agents, p.tree, x, p.reg, p.cfg, p.gen, p.root) EXCEPT !.reg = y]
        = Project(p.core, p.whatsnew, p.agents, p.tree, x, y, p.cfg, p.gen, p.root)
    BY DEF Project
  <2> QED BY <2>1, <2>2, <2>3
<1>3. [p EXCEPT !.tree = x, !.toml = y]
      = Project(p.core, p.whatsnew, p.agents, x, y, p.reg, p.cfg, p.gen, p.root)
  <2>1. [p EXCEPT !.tree = x, !.toml = y] = [[p EXCEPT !.tree = x] EXCEPT !.toml = y]
    BY Zenon
  <2>2. [p EXCEPT !.tree = x]
        = Project(p.core, p.whatsnew, p.agents, x, p.toml, p.reg, p.cfg, p.gen, p.root)
    BY <1>1 DEF Project
  <2>3. [Project(p.core, p.whatsnew, p.agents, x, p.toml, p.reg, p.cfg, p.gen, p.root) EXCEPT !.toml = y]
        = Project(p.core, p.whatsnew, p.agents, x, y, p.reg, p.cfg, p.gen, p.root)
    BY DEF Project
  <2> QED BY <2>1, <2>2, <2>3
<1>4. [p EXCEPT !.toml = x, !.cfg = y]
      = Project(p.core, p.whatsnew, p.agents, p.tree, x, p.reg, y, p.gen, p.root)
  <2>1. [p EXCEPT !.toml = x, !.cfg = y] = [[p EXCEPT !.toml = x] EXCEPT !.cfg = y]
    BY Zenon
  <2>2. [p EXCEPT !.toml = x]
        = Project(p.core, p.whatsnew, p.agents, p.tree, x, p.reg, p.cfg, p.gen, p.root)
    BY <1>1 DEF Project
  <2>3. [Project(p.core, p.whatsnew, p.agents, p.tree, x, p.reg, p.cfg, p.gen, p.root) EXCEPT !.cfg = y]
        = Project(p.core, p.whatsnew, p.agents, p.tree, x, p.reg, y, p.gen, p.root)
    BY DEF Project
  <2> QED BY <2>1, <2>2, <2>3
<1>5. [p EXCEPT !.cfg = x, !.gen = y]
      = Project(p.core, p.whatsnew, p.agents, p.tree, p.toml, p.reg, x, y, p.root)
  <2>1. [p EXCEPT !.cfg = x, !.gen = y] = [[p EXCEPT !.cfg = x] EXCEPT !.gen = y]
    BY Zenon
  <2>2. [p EXCEPT !.cfg = x]
        = Project(p.core, p.whatsnew, p.agents, p.tree, p.toml, p.reg, x, p.gen, p.root)
    BY <1>1 DEF Project
  <2>3. [Project(p.core, p.whatsnew, p.agents, p.tree, p.toml, p.reg, x, p.gen, p.root) EXCEPT !.gen = y]
        = Project(p.core, p.whatsnew, p.agents, p.tree, p.toml, p.reg, x, y, p.root)
    BY DEF Project
  <2> QED BY <2>1, <2>2, <2>3
<1> QED BY <1>2, <1>3, <1>4, <1>5

\* A step that sets one part leaves the others, and the project stays one.
LEMMA SetCoreEffect ==
  ASSUME ProjectType(p), NEW x, SetCore(x)
  PROVE  /\ p'.core = x
         /\ p'.whatsnew = p.whatsnew /\ p'.agents = p.agents /\ p'.tree = p.tree /\ p'.toml = p.toml
         /\ p'.reg = p.reg /\ p'.cfg = p.cfg /\ p'.gen = p.gen /\ p'.root = p.root
         /\ x \in CoreType => ProjectType(p)'
<1>1. /\ p'.core = x
      /\ p'.whatsnew = p.whatsnew /\ p'.agents = p.agents /\ p'.tree = p.tree /\ p'.toml = p.toml
      /\ p'.reg = p.reg /\ p'.cfg = p.cfg /\ p'.gen = p.gen /\ p'.root = p.root
  BY DEF SetCore, Project
<1>2. x \in CoreType => ProjectType(p)'
  BY ProjectParts, PartsProject DEF SetCore
<1> QED BY <1>1, <1>2

\* The same for the record of what is new.
LEMMA SetWhatsnewEffect ==
  ASSUME ProjectType(p), NEW x, SetWhatsnew(x)
  PROVE  /\ p'.whatsnew = x
         /\ p'.core = p.core /\ p'.agents = p.agents /\ p'.tree = p.tree /\ p'.toml = p.toml
         /\ p'.reg = p.reg /\ p'.cfg = p.cfg /\ p'.gen = p.gen /\ p'.root = p.root
         /\ x \in Versions => ProjectType(p)'
<1>1. /\ p'.whatsnew = x
      /\ p'.core = p.core /\ p'.agents = p.agents /\ p'.tree = p.tree /\ p'.toml = p.toml
      /\ p'.reg = p.reg /\ p'.cfg = p.cfg /\ p'.gen = p.gen /\ p'.root = p.root
  BY DEF SetWhatsnew, Project
<1>2. x \in Versions => ProjectType(p)'
  BY ProjectParts, PartsProject DEF SetWhatsnew
<1> QED BY <1>1, <1>2

\* The same for the version of the agent integrations.
LEMMA SetAgentsEffect ==
  ASSUME ProjectType(p), NEW x, SetAgents(x)
  PROVE  /\ p'.agents = x
         /\ p'.core = p.core /\ p'.whatsnew = p.whatsnew /\ p'.tree = p.tree /\ p'.toml = p.toml
         /\ p'.reg = p.reg /\ p'.cfg = p.cfg /\ p'.gen = p.gen /\ p'.root = p.root
         /\ x \in Versions => ProjectType(p)'
<1>1. /\ p'.agents = x
      /\ p'.core = p.core /\ p'.whatsnew = p.whatsnew /\ p'.tree = p.tree /\ p'.toml = p.toml
      /\ p'.reg = p.reg /\ p'.cfg = p.cfg /\ p'.gen = p.gen /\ p'.root = p.root
  BY DEF SetAgents, Project
<1>2. x \in Versions => ProjectType(p)'
  BY ProjectParts, PartsProject DEF SetAgents
<1> QED BY <1>1, <1>2

\* The same for the directories of kits.
LEMMA SetTreeEffect ==
  ASSUME ProjectType(p), NEW x, SetTree(x)
  PROVE  /\ p'.tree = x
         /\ p'.core = p.core /\ p'.whatsnew = p.whatsnew /\ p'.agents = p.agents /\ p'.toml = p.toml
         /\ p'.reg = p.reg /\ p'.cfg = p.cfg /\ p'.gen = p.gen /\ p'.root = p.root
         /\ TreeType(x) => ProjectType(p)'
<1>1. /\ p'.tree = x
      /\ p'.core = p.core /\ p'.whatsnew = p.whatsnew /\ p'.agents = p.agents /\ p'.toml = p.toml
      /\ p'.reg = p.reg /\ p'.cfg = p.cfg /\ p'.gen = p.gen /\ p'.root = p.root
  BY DEF SetTree, Project
<1>2. TreeType(x) => ProjectType(p)'
  BY ProjectParts, PartsProject DEF SetTree
<1> QED BY <1>1, <1>2

\* The same for core.toml.
LEMMA SetTomlEffect ==
  ASSUME ProjectType(p), NEW x, SetToml(x)
  PROVE  /\ p'.toml = x
         /\ p'.core = p.core /\ p'.whatsnew = p.whatsnew /\ p'.agents = p.agents /\ p'.tree = p.tree
         /\ p'.reg = p.reg /\ p'.cfg = p.cfg /\ p'.gen = p.gen /\ p'.root = p.root
         /\ TomlOK(x) => ProjectType(p)'
<1>1. /\ p'.toml = x
      /\ p'.core = p.core /\ p'.whatsnew = p.whatsnew /\ p'.agents = p.agents /\ p'.tree = p.tree
      /\ p'.reg = p.reg /\ p'.cfg = p.cfg /\ p'.gen = p.gen /\ p'.root = p.root
  BY DEF SetToml, Project
<1>2. TomlOK(x) => ProjectType(p)'
  BY ProjectParts, PartsProject DEF SetToml
<1> QED BY <1>1, <1>2

\* The same for artifacts.toml.
LEMMA SetRegEffect ==
  ASSUME ProjectType(p), NEW x, SetReg(x)
  PROVE  /\ p'.reg = x
         /\ p'.core = p.core /\ p'.whatsnew = p.whatsnew /\ p'.agents = p.agents /\ p'.tree = p.tree
         /\ p'.toml = p.toml /\ p'.cfg = p.cfg /\ p'.gen = p.gen /\ p'.root = p.root
         /\ x \in RegType => ProjectType(p)'
<1>1. /\ p'.reg = x
      /\ p'.core = p.core /\ p'.whatsnew = p.whatsnew /\ p'.agents = p.agents /\ p'.tree = p.tree
      /\ p'.toml = p.toml /\ p'.cfg = p.cfg /\ p'.gen = p.gen /\ p'.root = p.root
  BY DEF SetReg, Project
<1>2. x \in RegType => ProjectType(p)'
  BY ProjectParts, PartsProject DEF SetReg
<1> QED BY <1>1, <1>2

\* The same for the files of config/.
LEMMA SetCfgEffect ==
  ASSUME ProjectType(p), NEW x, SetCfg(x)
  PROVE  /\ p'.cfg = x
         /\ p'.core = p.core /\ p'.whatsnew = p.whatsnew /\ p'.agents = p.agents /\ p'.tree = p.tree
         /\ p'.toml = p.toml /\ p'.reg = p.reg /\ p'.gen = p.gen /\ p'.root = p.root
         /\ x \in CfgType => ProjectType(p)'
<1>1. /\ p'.cfg = x
      /\ p'.core = p.core /\ p'.whatsnew = p.whatsnew /\ p'.agents = p.agents /\ p'.tree = p.tree
      /\ p'.toml = p.toml /\ p'.reg = p.reg /\ p'.gen = p.gen /\ p'.root = p.root
  BY DEF SetCfg, Project
<1>2. x \in CfgType => ProjectType(p)'
  BY ProjectParts, PartsProject DEF SetCfg
<1> QED BY <1>1, <1>2

\* The same for the aggregates of .gen/.
LEMMA SetGenEffect ==
  ASSUME ProjectType(p), NEW x, SetGen(x)
  PROVE  /\ p'.gen = x
         /\ p'.core = p.core /\ p'.whatsnew = p.whatsnew /\ p'.agents = p.agents /\ p'.tree = p.tree
         /\ p'.toml = p.toml /\ p'.reg = p.reg /\ p'.cfg = p.cfg /\ p'.root = p.root
         /\ x \in GenType => ProjectType(p)'
<1>1. /\ p'.gen = x
      /\ p'.core = p.core /\ p'.whatsnew = p.whatsnew /\ p'.agents = p.agents /\ p'.tree = p.tree
      /\ p'.toml = p.toml /\ p'.reg = p.reg /\ p'.cfg = p.cfg /\ p'.root = p.root
  BY DEF SetGen, Project
<1>2. x \in GenType => ProjectType(p)'
  BY ProjectParts, PartsProject DEF SetGen
<1> QED BY <1>1, <1>2

\* The same for the managed blocks of the root files.
LEMMA SetRootEffect ==
  ASSUME ProjectType(p), NEW x, SetRoot(x)
  PROVE  /\ p'.root = x
         /\ p'.core = p.core /\ p'.whatsnew = p.whatsnew /\ p'.agents = p.agents /\ p'.tree = p.tree
         /\ p'.toml = p.toml /\ p'.reg = p.reg /\ p'.cfg = p.cfg /\ p'.gen = p.gen
         /\ x \in RootType => ProjectType(p)'
<1>1. /\ p'.root = x
      /\ p'.core = p.core /\ p'.whatsnew = p.whatsnew /\ p'.agents = p.agents /\ p'.tree = p.tree
      /\ p'.toml = p.toml /\ p'.reg = p.reg /\ p'.cfg = p.cfg /\ p'.gen = p.gen
  BY DEF SetRoot, Project
<1>2. x \in RootType => ProjectType(p)'
  BY ProjectParts, PartsProject DEF SetRoot
<1> QED BY <1>1, <1>2

-----------------------------------------------------------------------------
(* The data of the layout migration.                                       *)

\* An empty directory is a directory of items.
LEMMA NoItems == ItemsType(<<>>)
BY DEF ItemsType

\* What a tree has at a place, or nothing, is a directory of items.
LEMMA AtItems ==
  ASSUME NEW t, TreeType(t), NEW l
  PROVE  ItemsType(At(t, l))
BY NoItems DEF TreeType, At

\* Writing one directory of a tree.
LEMMA PutTree ==
  ASSUME NEW t, TreeType(t), NEW l \in Places \X Slugs, NEW m, ItemsType(m)
  PROVE  /\ TreeType(Put(t, l, m)) /\ DOMAIN Put(t, l, m) = DOMAIN t \cup {l}
         /\ Put(t, l, m)[l] = m /\ \A k \in DOMAIN t \ {l} : Put(t, l, m)[k] = t[k]
BY DEF TreeType, Put

\* A kit without the items of the old layout.
LEMMA WantedItems ==
  ASSUME NEW m, ItemsType(m)
  PROVE  /\ ItemsType(Wanted(m)) /\ DOMAIN Wanted(m) = DOMAIN m \ LegacyItems
         /\ \A i \in DOMAIN m \ LegacyItems : Wanted(m)[i] = m[i]
BY DEF ItemsType, Wanted, Drop

\* Part of a directory.
LEMMA PartItems ==
  ASSUME NEW m, ItemsType(m), NEW S \in SUBSET DOMAIN m
  PROVE  ItemsType([i \in S |-> m[i]])
BY DEF ItemsType

\* A merge holds the items of both directories.
LEMMA MergeItems ==
  ASSUME NEW m, ItemsType(m), NEW n, ItemsType(n)
  PROVE  ItemsType(Merge(m, n)) /\ DOMAIN Merge(m, n) = DOMAIN m \cup DOMAIN n
BY DEF ItemsType, Merge

\* So does filling up what is missing.
LEMMA FillItems ==
  ASSUME NEW m, ItemsType(m), NEW n, ItemsType(n)
  PROVE  ItemsType(Fill(m, n)) /\ DOMAIN Fill(m, n) = DOMAIN m \cup DOMAIN n
BY DEF ItemsType, Fill

\* Writing one item of a directory.
LEMMA PutItems ==
  ASSUME NEW m, ItemsType(m), NEW i \in AllItems, NEW c \in Contents
  PROVE  /\ ItemsType(Put(m, i, c)) /\ DOMAIN Put(m, i, c) = DOMAIN m \cup {i}
         /\ Put(m, i, c)[i] = c /\ \A j \in DOMAIN m \ {i} : Put(m, i, c)[j] = m[j]
BY DEF ItemsType, Put

\* Files, directories and legacy items are different things.
LEMMA RegularItems == /\ FileItems \cup DirItems \subseteq AllItems
                      /\ (FileItems \cup DirItems) \cap LegacyItems = {} /\ FileItems \cap DirItems = {}
BY DEF FileItems, DirItems, LegacyItems, AllItems

\* What an interrupted merge leaves of config/ is a kit, in which files are
\* either old or whole.
LEMMA HalfMergedItems ==
  ASSUME NEW m, ItemsType(m), NEW n, ItemsType(n), NEW h \in HalfMerged(m, n) \cup TornMerged(m, n)
  PROVE  ItemsType(h) /\ DOMAIN m \subseteq DOMAIN h /\ DOMAIN h \subseteq DOMAIN m \cup DOMAIN n
<1>1. ASSUME NEW S \in SUBSET DOMAIN n
      PROVE  /\ ItemsType(Merge(m, [i \in S |-> n[i]]))
             /\ DOMAIN Merge(m, [i \in S |-> n[i]]) = DOMAIN m \cup S
  <2> DEFINE o == [i \in S |-> n[i]]
  <2>1. ItemsType(o) /\ DOMAIN o = S
    BY PartItems
  <2> HIDE DEF o
  <2>2. ItemsType(Merge(m, o)) /\ DOMAIN Merge(m, o) = DOMAIN m \cup S
    BY <2>1, MergeItems
  <2> QED BY <2>2 DEF o
<1>2. "half" \in Contents /\ DirItems \subseteq AllItems /\ FileItems \subseteq AllItems
  BY RegularItems DEF Contents
<1>3. CASE \E S \in SUBSET DOMAIN n : h = Merge(m, [i \in S |-> n[i]])
  BY <1>3, <1>1
<1>4. CASE \E S \in SUBSET DOMAIN n, j \in DOMAIN n \cap DirItems :
              h = Put(Merge(m, [i \in S |-> n[i]]), j, "half")
  <2>1. PICK S \in SUBSET DOMAIN n, j \in DOMAIN n \cap DirItems :
                h = Put(Merge(m, [i \in S |-> n[i]]), j, "half")
    BY <1>4
  <2> DEFINE o == Merge(m, [i \in S |-> n[i]])
  <2>2. ItemsType(o) /\ DOMAIN o = DOMAIN m \cup S /\ h = Put(o, j, "half") /\ j \in AllItems
    BY <1>1, <1>2, <2>1
  <2> HIDE DEF o
  <2>3. ItemsType(h) /\ DOMAIN h = (DOMAIN m \cup S) \cup {j}
    BY <1>2, <2>2, PutItems
  <2> QED BY <2>1, <2>3
<1>5. CASE h \in TornMerged(m, n)
  <2>1. PICK j \in (DOMAIN n \cap FileItems) \ DOMAIN m : h = Put(m, j, "half")
    BY <1>5 DEF TornMerged
  <2>2. ItemsType(h) /\ DOMAIN h = DOMAIN m \cup {j}
    BY <1>2, <2>1, PutItems
  <2> QED BY <2>2
<1> QED BY <1>3, <1>4, <1>5 DEF HalfMerged

-----------------------------------------------------------------------------
(* core.toml.                                                              *)

\* Rewriting core.toml drops its comments and nothing else.
LEMMA WrittenToml ==
  ASSUME NEW t, TomlOK(t)
  PROVE  /\ TomlOK(Written(t)) /\ Written(t).state = t.state /\ Written(t).kits = t.kits
         /\ Written(t).system = t.system
BY DEF TomlOK, Written

\* Replacing the kits of core.toml.
LEMMA KitsToml ==
  ASSUME NEW t, TomlOK(t), NEW k, KitsType(k)
  PROVE  /\ TomlOK([t EXCEPT !.kits = k]) /\ [t EXCEPT !.kits = k].state = t.state
         /\ [t EXCEPT !.kits = k].kits = k /\ [t EXCEPT !.kits = k].system = t.system
BY DEF TomlOK

\* The entry a registration starts from.
OldEntry(t, s) == IF s \in DOMAIN t.kits THEN t.kits[s]
                  ELSE [path |-> <<"config", s>>, source |-> "", version |-> 0, bound |-> FALSE]

\* What the registration of a kit makes of a core.toml.
RegisteredAs(r, t, s, source) ==
    /\ TomlOK(r) /\ r.state = t.state /\ r.system = t.system
    /\ t.state # "ok" => r = t
    /\ t.state = "ok" =>
         /\ DOMAIN r.kits = DOMAIN t.kits \cup {s}
         /\ \A x \in DOMAIN t.kits \ {s} : r.kits[x] = t.kits[x]
         /\ r.kits[s].path = OldEntry(t, s).path /\ r.kits[s].version = KitRelease
         /\ r.kits[s].source = IF source = "" THEN OldEntry(t, s).source ELSE source
         /\ s \in Manifests => r.kits[s].bound

\* Registering a kit adds or rewrites its own entry.
LEMMA RegisterToml ==
  ASSUME NEW t, TomlOK(t), NEW s \in Slugs, NEW source \in Sources
  PROVE  RegisteredAs(Register(t, s, source), t, s, source)
<1> DEFINE e == [OldEntry(t, s) EXCEPT !.version = KitRelease, !.bound = @ \/ s \in Manifests,
                                       !.source = IF source = "" THEN @ ELSE source]
           k == Put(t.kits, s, e)
<1>1. OldEntry(t, s) \in Entries
  <2>1. CASE s \in DOMAIN t.kits
    BY <2>1 DEF TomlOK, KitsType, OldEntry
  <2>2. CASE s \notin DOMAIN t.kits
    <3>1. <<"config", s>> \in Places \X Slugs
      BY DEF Places
    <3>2. \A a \in Places \X Slugs, b \in Sources, c \in Nat, d \in BOOLEAN :
             [path |-> a, source |-> b, version |-> c, bound |-> d] \in Entries
      BY DEF Entries
    <3>3. 0 \in Nat /\ FALSE \in BOOLEAN /\ "" \in Sources
      BY DEF Sources
    <3>4. [path |-> <<"config", s>>, source |-> "", version |-> 0, bound |-> FALSE] \in Entries
      BY <3>1, <3>2, <3>3, Zenon
    <3> QED BY <2>2, <3>4 DEF OldEntry
  <2> QED BY <2>1, <2>2
<1>2. ASSUME NEW o \in Entries, NEW b \in BOOLEAN
      PROVE  LET r == [o EXCEPT !.version = KitRelease, !.bound = b,
                                !.source = IF source = "" THEN @ ELSE source]
             IN  /\ r \in Entries /\ r.path = o.path /\ r.version = KitRelease /\ r.bound = b
                 /\ r.source = IF source = "" THEN o.source ELSE source
  BY DEF Entries, KitRelease
<1>3. /\ e \in Entries /\ e.path = OldEntry(t, s).path /\ e.version = KitRelease
      /\ e.source = IF source = "" THEN OldEntry(t, s).source ELSE source
      /\ s \in Manifests => e.bound
  <2>1. (OldEntry(t, s).bound \/ s \in Manifests) \in BOOLEAN
    OBVIOUS
  <2> QED BY <1>1, <1>2, <2>1
<1>4. KitsType(t.kits)
  BY DEF TomlOK
<1> HIDE DEF e
<1>5. /\ KitsType(k) /\ DOMAIN k = DOMAIN t.kits \cup {s} /\ k[s] = e
      /\ \A x \in DOMAIN t.kits \ {s} : k[x] = t.kits[x]
  BY <1>3, <1>4 DEF KitsType, Put
<1>6. t.state = "ok" => Register(t, s, source) = Written([t EXCEPT !.kits = k])
  BY Zenon DEF Register, OldEntry, e
<1>7. t.state # "ok" => Register(t, s, source) = t
  BY DEF Register
<1> HIDE DEF k
<1>8. t.state = "ok" => /\ TomlOK(Register(t, s, source)) /\ Register(t, s, source).state = t.state
                        /\ Register(t, s, source).kits = k /\ Register(t, s, source).system = t.system
  <2> DEFINE u == [t EXCEPT !.kits = k]
  <2>1. TomlOK(u) /\ u.state = t.state /\ u.kits = k /\ u.system = t.system
    BY <1>5, KitsToml
  <2> HIDE DEF u
  <2>2. TomlOK(Written(u)) /\ Written(u).state = t.state /\ Written(u).kits = k /\ Written(u).system = t.system
    BY <2>1, WrittenToml
  <2> QED BY <1>6, <2>2 DEF u
<1> QED BY <1>3, <1>5, <1>7, <1>8 DEF RegisteredAs

-----------------------------------------------------------------------------
(* Directories are worked off in an order, so some have a first one.       *)

\* The first of some slugs is one of them.
LEMMA FirstOfIn ==
  ASSUME NEW S, S \subseteq Slugs, S # {}
  PROVE  FirstOf(S) \in S
<1> DEFINE I == {i \in DOMAIN SlugOrder : SlugOrder[i] \in S}
           First(i) == SlugOrder[i] \in S /\ \A j \in DOMAIN SlugOrder : SlugOrder[j] \in S => i <= j
           R == OpToRel(LAMBDA x, y : x < y, Nat)
<1>1. DOMAIN SlugOrder = 1..Len(SlugOrder) /\ Len(SlugOrder) \in Nat
  BY SetupAssumption
<1>2. I \subseteq Nat
  BY <1>1
<1>3. I # {}
  BY DEF Slugs
<1>4. PICK i \in I : \A j \in I : ~(<<j, i>> \in R)
  BY <1>2, <1>3, WFMin, NatLessThanWellFounded
<1>5. \A j \in I : i <= j
  <2> SUFFICES ASSUME NEW j \in I, ~(i <= j) PROVE FALSE
    OBVIOUS
  <2>1. i \in Nat /\ j \in Nat
    BY <1>2
  <2>2. j < i
    BY <2>1
  <2>3. <<j, i>> \in R
    BY <2>1, <2>2 DEF OpToRel
  <2> QED BY <1>4, <2>3
<1>6. First(i)
  BY <1>5
<1>7. First(CHOOSE k \in DOMAIN SlugOrder : First(k))
  BY <1>6
<1> QED BY <1>7 DEF FirstOf

-----------------------------------------------------------------------------
(* What the steps that change directories of kits do to them.              *)

\* The tree changes only at config/s, which becomes m, and at D.
Placed(s, m, D) ==
    /\ DOMAIN p'.tree = DOMAIN p.tree \cup D \cup {<<"config", s>>}
    /\ p'.tree[<<"config", s>>] = m
    /\ \A l \in DOMAIN p.tree \ (D \cup {<<"config", s>>}) : p'.tree[l] = p.tree[l]
\* Only the tree changes.
TreeStep == SetTree(p'.tree) /\ TreeType(p'.tree)

\* The four places a kit may be in.
LEMMA PlaceNames == "config" \in Places /\ "kits" \in Places /\ "gen" \in Places /\ "backup" \in Places
BY DEF Places

\* Where the layout migration is, and the kit it is at.
LEMMA AtKitFact ==
  ASSUME TypeOK, TodoThere, NEW s, AtKit(s)
  PROVE  /\ s \in Slugs /\ s \in cmd.todo /\ <<"kits", s>> \in DOMAIN p.tree
         /\ TreeType(p.tree) /\ ProjectType(p)
         /\ ItemsType(p.tree[<<"kits", s>>]) /\ ItemsType(At(p.tree, <<"config", s>>))
         /\ ItemsType(Wanted(p.tree[<<"kits", s>>]))
         /\ DOMAIN Wanted(p.tree[<<"kits", s>>]) = DOMAIN p.tree[<<"kits", s>>] \ LegacyItems
         /\ \A i \in DOMAIN p.tree[<<"kits", s>>] \ LegacyItems :
               Wanted(p.tree[<<"kits", s>>])[i] = p.tree[<<"kits", s>>][i]
<1>1. cmd.todo \subseteq Slugs /\ ProjectType(p)
  BY TypeParts DEF Parts, CmdOK, CmdType
<1>2. s \in cmd.todo
  BY <1>1, FirstOfIn DEF AtKit
<1>3. <<"kits", s>> \in DOMAIN p.tree
  BY <1>2 DEF AtKit, At1, TodoThere, InPlace
<1>4. TreeType(p.tree)
  BY <1>1 DEF ProjectType
<1>5. ItemsType(p.tree[<<"kits", s>>]) /\ ItemsType(At(p.tree, <<"config", s>>))
  BY <1>3, <1>4, AtItems DEF TreeType
<1> QED BY <1>1, <1>2, <1>3, <1>4, <1>5, WantedItems

\* A backup of the kit and a new content of its directory in config/.
LEMMA BackupAndPlace ==
  ASSUME TypeOK, TodoThere, NEW s, AtKit(s), NEW m, ItemsType(m),
         p' = [p EXCEPT !.tree = Put(BackedUp(s), <<"config", s>>, m)]
  PROVE  TreeStep /\ Placed(s, m, {<<"backup", s>>})
<1> DEFINE k == p.tree[<<"kits", s>>]
           t == p.tree
           b == Put(t, <<"backup", s>>, k)
           x == Put(b, <<"config", s>>, m)
<1>0. /\ TreeType(t) /\ ItemsType(k) /\ ProjectType(p)
      /\ <<"backup", s>> \in Places \X Slugs /\ <<"config", s>> \in Places \X Slugs
  BY AtKitFact, PlaceNames
<1> HIDE DEF k, t
<1>1. /\ TreeType(b) /\ DOMAIN b = DOMAIN t \cup {<<"backup", s>>}
      /\ \A l \in DOMAIN t \ {<<"backup", s>>} : b[l] = t[l]
  BY <1>0, PutTree
<1> HIDE DEF b
<1>2. /\ TreeType(x) /\ DOMAIN x = DOMAIN b \cup {<<"config", s>>} /\ x[<<"config", s>>] = m
      /\ \A l \in DOMAIN b \ {<<"config", s>>} : x[l] = b[l]
  BY <1>0, <1>1 DEF TreeType, Put
<1>3. SetTree(x)
  BY <1>0, Updates DEF b, BackedUp, k, t
<1> HIDE DEF x
<1>4. p'.tree = x
  BY <1>0, <1>3, SetTreeEffect
<1> QED BY <1>1, <1>2, <1>3, <1>4 DEF TreeStep, Placed, t

\* A kit that is moved: config/ has the merge, kits/ is untouched.
LEMMA LayoutKitEffect ==
  ASSUME TypeOK, TodoThere, NEW s, LayoutKit(s)
  PROVE  /\ TreeStep
         /\ Placed(s, Merge(At(p.tree, <<"config", s>>), Wanted(p.tree[<<"kits", s>>])), {<<"backup", s>>})
<1>1. AtKit(s)
  BY DEF LayoutKit
<1>2. ItemsType(Merge(At(p.tree, <<"config", s>>), Wanted(p.tree[<<"kits", s>>])))
  BY <1>1, AtKitFact, MergeItems
<1> QED BY <1>1, <1>2, BackupAndPlace DEF LayoutKit, Only

\* A kit whose copy fails or is killed leaves part of the merge.
LEMMA LayoutKitFailsEffect ==
  ASSUME TypeOK, TodoThere, NEW s, LayoutKitFails(s)
  PROVE  /\ TreeStep
         /\ \E half : /\ ItemsType(half) /\ Placed(s, half, {<<"backup", s>>})
                      /\ \/ /\ Fault("copy") \/ Fault("kill")
                            /\ half \in HalfMerged(At(p.tree, <<"config", s>>), Wanted(p.tree[<<"kits", s>>]))
                         \/ Fault("tear")
<1> DEFINE c == At(p.tree, <<"config", s>>)
           o == Wanted(p.tree[<<"kits", s>>])
<1>1. AtKit(s)
  BY DEF LayoutKitFails
<1>2. PICK half \in HalfMerged(c, o) \cup TornMerged(c, o) :
         /\ p' = [p EXCEPT !.tree = Put(BackedUp(s), <<"config", s>>, half)]
         /\ ((Fault("copy") \/ Fault("kill")) /\ half \in HalfMerged(c, o)) \/ Fault("tear")
  BY DEF LayoutKitFails
<1>3. ItemsType(half)
  BY <1>1, AtKitFact, HalfMergedItems
<1> QED BY <1>1, <1>2, <1>3, BackupAndPlace

\* A content of a directory of the tree, put in place by one of the steps.
LEMMA PlaceItems ==
  ASSUME ProjectType(p), NEW s \in Slugs, NEW m, ItemsType(m),
         p' = [p EXCEPT !.tree = Put(p.tree, <<"config", s>>, m)]
  PROVE  TreeStep /\ Placed(s, m, {})
<1> DEFINE t == p.tree
           x == Put(t, <<"config", s>>, m)
<1>0. TreeType(t) /\ <<"config", s>> \in Places \X Slugs
  BY PlaceNames DEF ProjectType
<1> HIDE DEF t
<1>1. /\ TreeType(x) /\ DOMAIN x = DOMAIN t \cup {<<"config", s>>} /\ x[<<"config", s>>] = m
      /\ \A l \in DOMAIN t \ {<<"config", s>>} : x[l] = t[l]
  BY <1>0 DEF TreeType, Put
<1>2. SetTree(x)
  BY Updates DEF t
<1> HIDE DEF x
<1>3. p'.tree = x
  BY <1>2, SetTreeEffect
<1> QED BY <1>1, <1>2, <1>3 DEF TreeStep, Placed, t

\* The kit that the second half of the migration is at.
LEMMA AtGenFact ==
  ASSUME TypeOK, TodoThere, cmd.pc = "layout_gen", cmd.todo # {}
  PROVE  LET s == FirstOf(cmd.todo) IN
         /\ s \in Slugs /\ s \in cmd.todo /\ <<"gen", s>> \in DOMAIN p.tree
         /\ TreeType(p.tree) /\ ProjectType(p)
         /\ ItemsType(p.tree[<<"gen", s>>]) /\ ItemsType(At(p.tree, <<"config", s>>))
<1> DEFINE s == FirstOf(cmd.todo)
<1>1. cmd.todo \subseteq Slugs /\ ProjectType(p)
  BY TypeParts DEF Parts, CmdOK, CmdType
<1>2. s \in cmd.todo
  BY <1>1, FirstOfIn
<1> HIDE DEF s
<1>3. <<"gen", s>> \in DOMAIN p.tree
  BY <1>2 DEF TodoThere, InPlace
<1>4. TreeType(p.tree)
  BY <1>1 DEF ProjectType
<1>5. ItemsType(p.tree[<<"gen", s>>]) /\ ItemsType(At(p.tree, <<"config", s>>))
  BY <1>3, <1>4, AtItems DEF TreeType
<1> QED BY <1>1, <1>2, <1>3, <1>4, <1>5 DEF s

\* A kit of .gen/kits fills up config/.
LEMMA LayoutGenEffect ==
  ASSUME TypeOK, TodoThere, LayoutGen
  PROVE  LET s == FirstOf(cmd.todo) IN
         TreeStep /\ Placed(s, Fill(At(p.tree, <<"config", s>>), p.tree[<<"gen", s>>]), {})
<1> DEFINE s == FirstOf(cmd.todo)
           m == Fill(At(p.tree, <<"config", s>>), p.tree[<<"gen", s>>])
<1>1. /\ s \in Slugs /\ ProjectType(p)
      /\ ItemsType(p.tree[<<"gen", s>>]) /\ ItemsType(At(p.tree, <<"config", s>>))
  BY AtGenFact DEF LayoutGen, At1
<1>2. p' = [p EXCEPT !.tree = Put(p.tree, <<"config", s>>, m)]
  BY DEF LayoutGen, Only
<1>3. ItemsType(m)
  BY <1>1, FillItems
<1> HIDE DEF m, s
<1> QED BY <1>1, <1>2, <1>3, PlaceItems DEF m, s

\* One that fails fills up part of it.
LEMMA LayoutGenFailsEffect ==
  ASSUME TypeOK, TodoThere, LayoutGenFails
  PROVE  LET s == FirstOf(cmd.todo) IN
         /\ TreeStep
         /\ \E S \in SUBSET DOMAIN p.tree[<<"gen", s>>] :
               Placed(s, Fill(At(p.tree, <<"config", s>>), [i \in S |-> p.tree[<<"gen", s>>][i]]), {})
<1> DEFINE s == FirstOf(cmd.todo)
           m(S) == Fill(At(p.tree, <<"config", s>>), [i \in S |-> p.tree[<<"gen", s>>][i]])
<1>1. /\ s \in Slugs /\ ProjectType(p)
      /\ ItemsType(p.tree[<<"gen", s>>]) /\ ItemsType(At(p.tree, <<"config", s>>))
  BY AtGenFact DEF LayoutGenFails, At1
<1>2. PICK S \in SUBSET DOMAIN p.tree[<<"gen", s>>] :
         p' = [p EXCEPT !.tree = Put(p.tree, <<"config", s>>, m(S))]
  BY DEF LayoutGenFails
<1>3. ItemsType(m(S))
  <2> DEFINE o == [i \in S |-> p.tree[<<"gen", s>>][i]]
  <2>1. ItemsType(o)
    BY <1>1, PartItems
  <2> HIDE DEF o
  <2>2. ItemsType(Fill(At(p.tree, <<"config", s>>), o))
    BY <1>1, <2>1, FillItems
  <2> QED BY <2>2 DEF o
<1>4. TreeStep /\ Placed(s, m(S), {})
  <2> HIDE DEF m, s
  <2> QED BY <1>1, <1>2, <1>3, PlaceItems
<1> QED BY <1>2, <1>4

\* A failing backup replaces a kit by what of it was copied.
LEMMA LayoutBackupFailsEffect ==
  ASSUME TypeOK, TodoThere, NEW s, LayoutBackupFails(s)
  PROVE  /\ TreeStep /\ Fault("backup")
         /\ DOMAIN p'.tree = DOMAIN p.tree \cup {<<"backup", s>>}
         /\ \A l \in DOMAIN p.tree \ {<<"backup", s>>, <<"kits", s>>} : p'.tree[l] = p.tree[l]
<1> DEFINE t == p.tree
           k == p.tree[<<"kits", s>>]
<1>1. AtKit(s) /\ Fault("backup")
  BY DEF LayoutBackupFails
<1>2. PICK S \in SUBSET DOMAIN k :
         p' = [p EXCEPT !.tree = Put(Put(t, <<"backup", s>>, [i \in S |-> k[i]]),
                                      <<"kits", s>>, [i \in S |-> k[i]])]
  BY DEF LayoutBackupFails
<1> DEFINE m == [i \in S |-> k[i]]
           b == Put(t, <<"backup", s>>, m)
           x == Put(b, <<"kits", s>>, m)
<1>3. /\ TreeType(t) /\ ItemsType(k) /\ ProjectType(p) /\ <<"kits", s>> \in DOMAIN t
      /\ <<"backup", s>> \in Places \X Slugs /\ <<"kits", s>> \in Places \X Slugs
  BY <1>1, AtKitFact, PlaceNames
<1> HIDE DEF k, t
<1>4. ItemsType(m)
  BY <1>3, PartItems
<1>5. SetTree(x)
  BY <1>2, <1>3, Updates
<1> HIDE DEF m
<1>6. /\ TreeType(b) /\ DOMAIN b = DOMAIN t \cup {<<"backup", s>>}
      /\ \A l \in DOMAIN t \ {<<"backup", s>>} : b[l] = t[l]
  BY <1>3, <1>4 DEF TreeType, Put
<1> HIDE DEF b
<1>7. /\ TreeType(x) /\ DOMAIN x = DOMAIN b \cup {<<"kits", s>>}
      /\ \A l \in DOMAIN b \ {<<"kits", s>>} : x[l] = b[l]
  BY <1>3, <1>4, <1>6 DEF TreeType, Put
<1> HIDE DEF x
<1>8. p'.tree = x
  BY <1>3, <1>5, SetTreeEffect
<1>9. DOMAIN p'.tree = DOMAIN t \cup {<<"backup", s>>}
  BY <1>3, <1>6, <1>7, <1>8
<1>10. \A l \in DOMAIN t \ {<<"backup", s>>, <<"kits", s>>} : p'.tree[l] = t[l]
  BY <1>6, <1>7, <1>8
<1> QED BY <1>1, <1>5, <1>7, <1>8, <1>9, <1>10 DEF TreeStep, t

\* What a removal that stops leaves of a kit is a kit.
LEMMA RemovedItems ==
  ASSUME NEW m, ItemsType(m), NEW S \in SUBSET DOMAIN m
  PROVE  /\ ItemsType(Removed(m, S)) /\ DOMAIN Removed(m, S) = S
         /\ \A i \in S \ DirItems : Removed(m, S)[i] = m[i]
BY DEF ItemsType, Removed, Contents

\* A failing restore leaves part of the kit, whose backup is whole.
LEMMA LayoutRestoreFailsEffect ==
  ASSUME TypeOK, TodoThere, NEW s, LayoutRestoreFails(s)
  PROVE  /\ TreeStep /\ Fault("restore") /\ s \in Slugs
         /\ <<"kits", s>> \in DOMAIN p.tree /\ <<"kits", s>> \in DOMAIN p'.tree
         /\ <<"backup", s>> \in DOMAIN p'.tree /\ p'.tree[<<"backup", s>>] = p.tree[<<"kits", s>>]
         /\ DOMAIN p'.tree = DOMAIN p.tree \cup {<<"backup", s>>, <<"config", s>>}
         /\ \A l \in DOMAIN p.tree \ {<<"backup", s>>, <<"config", s>>, <<"kits", s>>} :
               p'.tree[l] = p.tree[l]
<1> DEFINE t == p.tree
           k == p.tree[<<"kits", s>>]
           c == At(p.tree, <<"config", s>>)
           o == Wanted(p.tree[<<"kits", s>>])
<1>1. AtKit(s) /\ Fault("restore")
  BY DEF LayoutRestoreFails
<1>2. PICK half \in HalfMerged(c, o), S \in SUBSET DOMAIN k :
         \E left \in {[i \in S |-> k[i]], Removed(k, S)} :
            p' = [p EXCEPT !.tree = Put(Put(BackedUp(s), <<"config", s>>, half), <<"kits", s>>, left)]
  BY DEF LayoutRestoreFails
<1>3. PICK left \in {[i \in S |-> k[i]], Removed(k, S)} :
         p' = [p EXCEPT !.tree = Put(Put(BackedUp(s), <<"config", s>>, half), <<"kits", s>>, left)]
  BY <1>2
<1> DEFINE b == Put(t, <<"backup", s>>, k)
           y == Put(b, <<"config", s>>, half)
           x == Put(y, <<"kits", s>>, left)
<1>4. /\ TreeType(t) /\ ItemsType(k) /\ ProjectType(p) /\ <<"kits", s>> \in DOMAIN t /\ s \in Slugs
      /\ ItemsType(c) /\ ItemsType(o)
      /\ <<"backup", s>> \in Places \X Slugs /\ <<"kits", s>> \in Places \X Slugs
      /\ <<"config", s>> \in Places \X Slugs
  BY <1>1, AtKitFact, PlaceNames
<1>5. ItemsType(half)
  <2> HIDE DEF c, o
  <2> QED BY <1>2, <1>4, HalfMergedItems
<1>6. ItemsType(left)
  <2> HIDE DEF k
  <2> QED BY <1>3, <1>4, PartItems, RemovedItems
<1>7. SetTree(x)
  BY <1>3, <1>4, Updates DEF BackedUp
<1> HIDE DEF k, t, c, o
<1>8. /\ TreeType(b) /\ DOMAIN b = DOMAIN t \cup {<<"backup", s>>} /\ b[<<"backup", s>>] = k
      /\ \A l \in DOMAIN t \ {<<"backup", s>>} : b[l] = t[l]
  BY <1>4, PutTree
<1> HIDE DEF b
<1>9. /\ TreeType(y) /\ DOMAIN y = DOMAIN b \cup {<<"config", s>>}
      /\ \A l \in DOMAIN b \ {<<"config", s>>} : y[l] = b[l]
  BY <1>4, <1>5, <1>8 DEF TreeType, Put
<1> HIDE DEF y
<1>10. /\ TreeType(x) /\ DOMAIN x = DOMAIN y \cup {<<"kits", s>>}
       /\ \A l \in DOMAIN y \ {<<"kits", s>>} : x[l] = y[l]
  BY <1>4, <1>6, <1>9 DEF TreeType, Put
<1> HIDE DEF x
<1>11. p'.tree = x
  BY <1>4, <1>7, SetTreeEffect
<1>12. "backup" # "config" /\ "backup" # "kits"
  OBVIOUS
<1>13. <<"backup", s>> # <<"config", s>> /\ <<"backup", s>> # <<"kits", s>>
  BY <1>12
<1>14. /\ <<"backup", s>> \in DOMAIN x /\ x[<<"backup", s>>] = k
       /\ DOMAIN x = DOMAIN t \cup {<<"backup", s>>, <<"config", s>>}
       /\ \A l \in DOMAIN t \ {<<"backup", s>>, <<"config", s>>, <<"kits", s>>} : x[l] = t[l]
  BY <1>4, <1>8, <1>9, <1>10, <1>13
<1> QED BY <1>1, <1>4, <1>7, <1>10, <1>11, <1>14 DEF TreeStep, t, k

\* A removal takes nothing of config/, kits/ only when no kit failed, and
\* what it leaves of .gen/kits are files as they were.
Removal ==
    /\ DOMAIN p'.tree \subseteq DOMAIN p.tree
    /\ \A l \in DOMAIN p.tree : l[1] = "config" \/ (l[1] = "kits" /\ ~RemovesKits) => l \in DOMAIN p'.tree
    /\ \A l \in DOMAIN p'.tree : l[1] # "gen" => p'.tree[l] = p.tree[l]
    /\ \A l \in DOMAIN p'.tree : l[1] = "gen" =>
          /\ DOMAIN p'.tree[l] \subseteq DOMAIN p.tree[l]
          /\ \A i \in DOMAIN p'.tree[l] \ DirItems : p'.tree[l][i] = p.tree[l][i]

\* Removing what is outdated at some places.
LEMMA DropTree ==
  ASSUME TypeOK, NEW places, places \subseteq {"gen", "backup"},
         p' = [p EXCEPT !.tree = Drop(p.tree, Outdated(places))]
  PROVE  /\ TreeStep /\ Removal /\ (cmd.failed = {} => Gone({"kits"})')
         /\ DOMAIN p'.tree = DOMAIN p.tree \ Outdated(places)
<1> DEFINE g == Outdated(places)
           t == p.tree
           x == Drop(t, g)
<1>1. ProjectType(p) /\ TreeType(t)
  BY TypeParts DEF Parts, ProjectType
<1>2. SetTree(x)
  BY <1>1, Updates
<1>3. \A l \in DOMAIN t : /\ l[1] = "config" => l \notin g
                          /\ l[1] = "kits" => (l \in g <=> RemovesKits)
  BY DEF Outdated
<1> HIDE DEF g, t
<1>4. TreeType(x) /\ DOMAIN x = DOMAIN t \ g /\ \A l \in DOMAIN x : x[l] = t[l]
  BY <1>1 DEF TreeType, Drop
<1> HIDE DEF x
<1>5. p'.tree = x
  BY <1>1, <1>2, SetTreeEffect
<1>6. Removal
  BY <1>3, <1>4, <1>5 DEF Removal, t
<1>7. cmd.failed = {} => Gone({"kits"})'
  BY <1>3, <1>4, <1>5 DEF Gone, RemovesKits
<1> QED BY <1>2, <1>4, <1>5, <1>6, <1>7 DEF TreeStep, g, t

\* The removal at the end.
LEMMA LayoutRemoveEffect ==
  ASSUME TypeOK, LayoutRemove
  PROVE  /\ TreeStep /\ Removal
         /\ Gone({"gen"})' /\ (cmd.failed = {} => Gone({"kits"})')
<1>1. p' = [p EXCEPT !.tree = Drop(p.tree, Outdated({"gen", "backup"}))]
  BY DEF LayoutRemove, Only
<1>2. TreeStep /\ Removal /\ (cmd.failed = {} => Gone({"kits"})')
      /\ DOMAIN p'.tree = DOMAIN p.tree \ Outdated({"gen", "backup"})
  BY <1>1, DropTree
<1>3. Gone({"gen"})'
  BY <1>2 DEF Gone, Outdated
<1> QED BY <1>2, <1>3

\* A removal that is passed over leaves .gen/kits or a backup.
LEMMA LayoutRemoveSkipsEffect ==
  ASSUME TypeOK, LayoutRemoveSkips
  PROVE  TreeStep /\ Removal /\ (cmd.failed = {} => Gone({"kits"})')
<1>1. CASE p' = [p EXCEPT !.tree = Drop(p.tree, Outdated({"gen"}))]
  BY <1>1, DropTree
<1>2. CASE \E l \in DOMAIN p.tree : \E S \in SUBSET DOMAIN p.tree[l] :
              /\ l[1] = "gen"
              /\ p' = [p EXCEPT !.tree = Put(Drop(p.tree, Outdated({"gen", "backup"})), l,
                                             Removed(p.tree[l], S))]
  <2> DEFINE t == p.tree
  <2>0. PICK l \in DOMAIN t : \E S \in SUBSET DOMAIN t[l] :
              /\ l[1] = "gen"
              /\ p' = [p EXCEPT !.tree = Put(Drop(t, Outdated({"gen", "backup"})), l, Removed(t[l], S))]
    BY <1>2
  <2>1. PICK S \in SUBSET DOMAIN t[l] :
              /\ l[1] = "gen"
              /\ p' = [p EXCEPT !.tree = Put(Drop(t, Outdated({"gen", "backup"})), l, Removed(t[l], S))]
    BY <2>0
  <2> DEFINE d == Drop(t, Outdated({"gen", "backup"}))
             m == Removed(t[l], S)
             x == Put(d, l, m)
  <2>2. TypeOK /\ ProjectType(p) /\ TreeType(t) /\ ItemsType(t[l]) /\ l \in Places \X Slugs
    BY TypeParts DEF Parts, ProjectType, TreeType
  <2>3. ItemsType(m) /\ DOMAIN m = S /\ \A i \in S \ DirItems : m[i] = t[l][i]
    <3> HIDE DEF t
    <3> QED BY <2>2, RemovedItems
  <2>4. SetTree(x)
    BY <2>1, <2>2, Updates
  <2> HIDE DEF m, t
  <2>5. TreeType(d) /\ DOMAIN d = DOMAIN t \ Outdated({"gen", "backup"}) /\ \A k \in DOMAIN d : d[k] = t[k]
    BY <2>2 DEF TreeType, Drop
  <2> HIDE DEF d
  <2>6. TreeType(x) /\ DOMAIN x = DOMAIN d \cup {l} /\ x[l] = m /\ \A k \in DOMAIN d \ {l} : x[k] = d[k]
    BY <2>2, <2>3, <2>5 DEF TreeType, Put
  <2> HIDE DEF x
  <2>7. p'.tree = x
    BY <2>2, <2>4, SetTreeEffect
  <2>8. \A k \in DOMAIN t : k \in Outdated({"gen", "backup"}) <=>
           \/ k[1] = "kits" /\ RemovesKits
           \/ k[1] = "gen"
           \/ k[1] = "backup" /\ k[2] \in cmd.moved
    BY DEF Outdated, t
  <2>9. DOMAIN x \subseteq DOMAIN t
    BY <2>1, <2>5, <2>6
  <2>10. \A k \in DOMAIN t : k[1] = "config" \/ (k[1] = "kits" /\ ~RemovesKits) => k \in DOMAIN x
    BY <2>5, <2>6, <2>8
  <2>11. \A k \in DOMAIN x : k[1] # "gen" => x[k] = t[k]
    BY <2>1, <2>5, <2>6
  <2>12. ASSUME NEW k \in DOMAIN x, k[1] = "gen"
         PROVE  DOMAIN x[k] \subseteq DOMAIN t[k] /\ \A i \in DOMAIN x[k] \ DirItems : x[k][i] = t[k][i]
    <3>1. k = l
      BY <2>5, <2>6, <2>8, <2>12
    <3> QED BY <2>1, <2>3, <2>6, <3>1
  <2>13. \A k \in DOMAIN x : k[1] = "kits" => ~RemovesKits
    BY <2>1, <2>5, <2>6, <2>8
  <2>14. Removal
    BY <2>7, <2>9, <2>10, <2>11, <2>12 DEF Removal, t
  <2>15. cmd.failed = {} => Gone({"kits"})'
    BY <2>7, <2>13 DEF Gone, RemovesKits
  <2>16. TreeStep
    BY <2>4, <2>6, <2>7 DEF TreeStep
  <2> QED BY <2>14, <2>15, <2>16
<1> QED BY <1>1, <1>2 DEF LayoutRemoveSkips

\* A removal that dies is cut short in a kit, or comes after kits/.
LEMMA LayoutRemoveDiesEffect ==
  ASSUME TypeOK, LayoutRemoveDies
  PROVE  TreeStep /\ (Removal \/ (Fault("rmtree") /\ DOMAIN p'.tree = DOMAIN p.tree))
<1> DEFINE t == p.tree
<1>1. ProjectType(p) /\ TreeType(t)
  BY TypeParts DEF Parts, ProjectType
<1>2. CASE p' = [p EXCEPT !.tree = Drop(p.tree, Outdated({}))]
  <2>1. PICK places : places = {}
    OBVIOUS
  <2>2. places \subseteq {"gen", "backup"} /\ p' = [p EXCEPT !.tree = Drop(p.tree, Outdated(places))]
    BY <1>2, <2>1
  <2>3. TreeStep /\ Removal
    BY <2>2, DropTree
  <2> QED BY <2>3
<1>3. CASE Fault("rmtree") /\ \E l \in DOMAIN t : \E S \in SUBSET DOMAIN t[l] :
              p' = [p EXCEPT !.tree[l] = Removed(t[l], S)]
  <2>0. PICK l \in DOMAIN t : \E S \in SUBSET DOMAIN t[l] : p' = [p EXCEPT !.tree[l] = Removed(t[l], S)]
    BY <1>3
  <2>1. PICK S \in SUBSET DOMAIN t[l] : p' = [p EXCEPT !.tree[l] = Removed(t[l], S)]
    BY <2>0
  <2> DEFINE m == Removed(t[l], S)
             x == [t EXCEPT ![l] = m]
  <2>2. p' = [p EXCEPT !.tree = x]
    BY <2>1
  <2>3. ItemsType(m)
    <3>1. ItemsType(t[l])
      BY <1>1 DEF TreeType
    <3> HIDE DEF t
    <3> QED BY <3>1, RemovedItems
  <2> HIDE DEF m, t
  <2>4. TreeType(x) /\ DOMAIN x = DOMAIN t
    BY <1>1, <2>3 DEF TreeType
  <2> HIDE DEF x
  <2>5. SetTree(x) /\ p'.tree = x
    BY <1>1, <2>2, Updates, SetTreeEffect
  <2> QED BY <1>3, <2>4, <2>5 DEF TreeStep, t
<1> QED BY <1>2, <1>3 DEF LayoutRemoveDies

\* _cleanup_legacy_blueprint_dirs removes legacy items from config/ only.
LEMMA BlueprintsEffect ==
  ASSUME TypeOK, _cleanup_legacy_blueprint_dirs
  PROVE  /\ TreeStep /\ DOMAIN p'.tree = DOMAIN p.tree
         /\ \A l \in DOMAIN p.tree :
               /\ l[1] = "config" => /\ DOMAIN p'.tree[l] = DOMAIN p.tree[l] \ LegacyItems
                                     /\ \A i \in DOMAIN p'.tree[l] : p'.tree[l][i] = p.tree[l][i]
               /\ l[1] # "config" => p'.tree[l] = p.tree[l]
         /\ NoLegacyItems => p'.tree = p.tree
<1> DEFINE t == p.tree
           x == [l \in DOMAIN t |-> IF l[1] = "config" THEN Wanted(t[l]) ELSE t[l]]
<1>1. ProjectType(p) /\ TreeType(t)
  BY TypeParts DEF Parts, ProjectType
<1>2. SetTree(x)
  BY <1>1, Updates DEF _cleanup_legacy_blueprint_dirs, Only
<1>3. ASSUME NEW l \in DOMAIN t
      PROVE  /\ ItemsType(Wanted(t[l])) /\ DOMAIN Wanted(t[l]) = DOMAIN t[l] \ LegacyItems
             /\ \A i \in DOMAIN t[l] \ LegacyItems : Wanted(t[l])[i] = t[l][i]
             /\ ItemsType(t[l]) /\ t[l] = [i \in DOMAIN t[l] |-> t[l][i]]
             /\ Wanted(t[l]) = [i \in DOMAIN t[l] \ LegacyItems |-> t[l][i]]
  <2>1. ItemsType(t[l])
    BY <1>1 DEF TreeType
  <2>2. t[l] = [i \in DOMAIN t[l] |-> t[l][i]]
    BY <2>1 DEF ItemsType
  <2>3. Wanted(t[l]) = [i \in DOMAIN t[l] \ LegacyItems |-> t[l][i]]
    BY DEF Wanted, Drop
  <2> HIDE DEF t
  <2> QED BY <2>1, <2>2, <2>3 DEF ItemsType
<1>4. TreeType(x) /\ DOMAIN x = DOMAIN t
  BY <1>1, <1>3 DEF TreeType
<1>5. NoLegacyItems => x = t
  <2> SUFFICES ASSUME NoLegacyItems PROVE x = t
    OBVIOUS
  <2>1. ASSUME NEW l \in DOMAIN t, l[1] = "config"
        PROVE  Wanted(t[l]) = t[l]
    <3>1. DOMAIN t[l] \ LegacyItems = DOMAIN t[l]
      BY <2>1 DEF NoLegacyItems
    <3> QED BY <1>3, <3>1
  <2>2. \A l \in DOMAIN t : x[l] = t[l]
    BY <2>1
  <2>3. t = [l \in DOMAIN t |-> t[l]] /\ x = [l \in DOMAIN t |-> x[l]]
    BY <1>1 DEF TreeType
  <2> HIDE DEF x, t
  <2> QED BY <2>2, <2>3
<1>6. \A l \in DOMAIN t : /\ l[1] = "config" => x[l] = Wanted(t[l])
                          /\ l[1] # "config" => x[l] = t[l]
  OBVIOUS
<1> HIDE DEF x
<1>7. p'.tree = x
  BY <1>1, <1>2, SetTreeEffect
<1>8. ASSUME NEW l \in DOMAIN t
      PROVE  /\ l[1] = "config" => /\ DOMAIN p'.tree[l] = DOMAIN t[l] \ LegacyItems
                                   /\ \A i \in DOMAIN p'.tree[l] : p'.tree[l][i] = t[l][i]
             /\ l[1] # "config" => p'.tree[l] = t[l]
  <2>1. (l[1] = "config" => p'.tree[l] = Wanted(t[l])) /\ (l[1] # "config" => p'.tree[l] = t[l])
    BY <1>6, <1>7
  <2>2. DOMAIN Wanted(t[l]) = DOMAIN t[l] \ LegacyItems
        /\ \A i \in DOMAIN t[l] \ LegacyItems : Wanted(t[l])[i] = t[l][i]
    BY <1>3
  <2> HIDE DEF t
  <2> QED BY <2>1, <2>2
<1> QED BY <1>2, <1>4, <1>5, <1>7, <1>8 DEF TreeStep

\* Where that removal is passed over, legacy items of one kit stay.
LEMMA BlueprintsStayEffect ==
  ASSUME TypeOK, BlueprintsStay
  PROVE  /\ TreeStep /\ DOMAIN p'.tree = DOMAIN p.tree
         /\ \A l \in DOMAIN p.tree :
               /\ l[1] = "config" => /\ DOMAIN p.tree[l] \ LegacyItems \subseteq DOMAIN p'.tree[l]
                                     /\ DOMAIN p'.tree[l] \subseteq DOMAIN p.tree[l]
                                     /\ \A i \in DOMAIN p'.tree[l] : p'.tree[l][i] = p.tree[l][i]
               /\ l[1] # "config" => p'.tree[l] = p.tree[l]
         /\ ~NoLegacyItems
<1> DEFINE t == p.tree
<1>0. PICK k \in DOMAIN t :
         /\ k[1] = "config" /\ DOMAIN t[k] \cap LegacyItems # {}
         /\ p' = [p EXCEPT !.tree = [l \in DOMAIN t |->
                     IF l[1] = "config" /\ l # k THEN Wanted(t[l]) ELSE t[l]]]
  BY DEF BlueprintsStay
<1> DEFINE x == [l \in DOMAIN t |-> IF l[1] = "config" /\ l # k THEN Wanted(t[l]) ELSE t[l]]
<1>1. ProjectType(p) /\ TreeType(t)
  BY TypeParts DEF Parts, ProjectType
<1>2. SetTree(x)
  BY <1>0, <1>1, Updates
<1>3. ASSUME NEW l \in DOMAIN t
      PROVE  /\ ItemsType(Wanted(t[l])) /\ DOMAIN Wanted(t[l]) = DOMAIN t[l] \ LegacyItems
             /\ \A i \in DOMAIN t[l] \ LegacyItems : Wanted(t[l])[i] = t[l][i]
             /\ ItemsType(t[l])
  <2>1. ItemsType(t[l])
    BY <1>1 DEF TreeType
  <2> HIDE DEF t
  <2> QED BY <2>1, WantedItems
<1>4. TreeType(x) /\ DOMAIN x = DOMAIN t
  BY <1>1, <1>3 DEF TreeType
<1>5. \A l \in DOMAIN t : /\ x[l] = Wanted(t[l]) \/ x[l] = t[l]
                          /\ l[1] # "config" => x[l] = t[l]
  OBVIOUS
<1>6. ~NoLegacyItems
  BY <1>0 DEF NoLegacyItems
<1> HIDE DEF x
<1>7. p'.tree = x
  BY <1>1, <1>2, SetTreeEffect
<1>8. ASSUME NEW l \in DOMAIN t
      PROVE  /\ l[1] = "config" => /\ DOMAIN t[l] \ LegacyItems \subseteq DOMAIN p'.tree[l]
                                   /\ DOMAIN p'.tree[l] \subseteq DOMAIN t[l]
                                   /\ \A i \in DOMAIN p'.tree[l] : p'.tree[l][i] = t[l][i]
             /\ l[1] # "config" => p'.tree[l] = t[l]
  <2>1. (p'.tree[l] = Wanted(t[l]) \/ p'.tree[l] = t[l]) /\ (l[1] # "config" => p'.tree[l] = t[l])
    BY <1>5, <1>7
  <2>2. DOMAIN Wanted(t[l]) = DOMAIN t[l] \ LegacyItems
        /\ \A i \in DOMAIN t[l] \ LegacyItems : Wanted(t[l])[i] = t[l][i]
    BY <1>3
  <2> HIDE DEF t
  <2> QED BY <2>1, <2>2
<1> QED BY <1>2, <1>4, <1>6, <1>7, <1>8 DEF TreeStep

-----------------------------------------------------------------------------
(* What the steps that rewrite core.toml do to it.                         *)

TomlStep == SetToml(p'.toml) /\ TomlOK(p'.toml)

\* A step that leaves the project is one that rewrites no part of it.
LEMMA SameProject ==
  ASSUME ProjectType(p), p' = p
  PROVE  TomlStep /\ TreeStep /\ ProjectType(p)' /\ SetCore(p.core) /\ SetAgents(p.agents)
BY ProjectParts DEF TomlStep, TreeStep, SetToml, SetTree, SetCore, SetAgents

\* Writing core.toml.
LEMMA TomlWrite ==
  ASSUME ProjectType(p), NEW x, TomlOK(x), p' = [p EXCEPT !.toml = x]
  PROVE  TomlStep /\ p'.toml = x
<1>1. SetToml(x)
  BY Updates
<1>2. p'.toml = x
  BY <1>1, SetTomlEffect
<1> QED BY <1>1, <1>2 DEF TomlStep

\* The types of the parts of the project.
LEMMA ProjectFacts ==
  ASSUME TypeOK
  PROVE  /\ ProjectType(p) /\ TreeType(p.tree) /\ TomlOK(p.toml) /\ KitsType(p.toml.kits)
         /\ p.core \in CoreType /\ p.whatsnew \in Versions /\ p.agents \in Versions
         /\ p.reg \in RegType /\ p.cfg \in CfgType /\ p.gen \in GenType /\ p.root \in RootType
<1>1. ProjectType(p)
  BY TypeParts DEF Parts
<1> QED BY <1>1, ProjectParts DEF TomlOK

\* The kits that a readable core.toml registers.
LEMMA KitsFact ==
  /\ p.toml.state = "ok" => Kits = p.toml.kits
  /\ p.toml.state # "ok" => DOMAIN Kits = {} /\ Unsourced = {}
  /\ p'.toml.state = "ok" => Kits' = p'.toml.kits
  /\ p'.toml.state # "ok" => DOMAIN Kits' = {} /\ Unsourced' = {}
<1>1. DOMAIN <<>> = {}
  OBVIOUS
<1> QED BY <1>1 DEF Kits, Unsourced

\* What a write of core.toml that fails leaves of it.
SameOrTorn == /\ TomlOK(p'.toml) /\ p'.toml.state \in {p.toml.state, "torn"}
              /\ p'.toml.kits = p.toml.kits /\ p'.toml.system = p.toml.system

\* A core.toml that is not written is the old one, or a torn one.
LEMMA UnwrittenToml ==
  ASSUME TypeOK, NEW toml \in Unwritten(p.toml)
  PROVE  /\ TomlOK(toml) /\ toml.state \in {p.toml.state, "torn"}
         /\ toml.kits = p.toml.kits /\ toml.system = p.toml.system
<1>1. TomlOK(p.toml)
  BY ProjectFacts
<1>2. CASE toml = p.toml
  BY <1>1, <1>2
<1>3. CASE toml = [p.toml EXCEPT !.state = "torn"]
  BY <1>1, <1>3 DEF TomlOK
<1> QED BY <1>2, <1>3 DEF Unwritten

\* A step whose write fails changes no other part.
LEMMA UnwrittenStep ==
  ASSUME TypeOK, \E toml \in Unwritten(p.toml) : p' = [p EXCEPT !.toml = toml]
  PROVE  TomlStep /\ SameOrTorn
<1>1. PICK toml \in Unwritten(p.toml) : p' = [p EXCEPT !.toml = toml]
  OBVIOUS
<1>2. /\ TomlOK(toml) /\ toml.state \in {p.toml.state, "torn"}
      /\ toml.kits = p.toml.kits /\ toml.system = p.toml.system
  BY UnwrittenToml
<1>3. TomlStep /\ p'.toml = toml
  BY <1>1, <1>2, TomlWrite, ProjectFacts
<1> QED BY <1>2, <1>3 DEF SameOrTorn

\* After LayoutPaths every kit is registered in config/.
LEMMA PathsEffect ==
  ASSUME TypeOK, LayoutPaths, p.toml.state # "torn"
  PROVE  /\ TomlStep /\ p'.toml.state = p.toml.state
         /\ p'.toml.state = "ok" => \A s \in DOMAIN p'.toml.kits : p'.toml.kits[s].path[1] = "config"
<1> DEFINE k == p.toml.kits
           n == [s \in DOMAIN k |-> [k[s] EXCEPT !.path = <<"config", @[2]>>]]
<1>0. KitsType(k) /\ TomlOK(p.toml) /\ ProjectType(p)
  BY ProjectFacts
<1>1. CASE p.toml.state = "absent" \/ StalePaths = {}
  <2>1. p' = p
    BY <1>1 DEF LayoutPaths, Only
  <2>2. TomlStep
    BY <1>0, <2>1, SameProject
  <2> QED BY <1>1, <2>1, <2>2 DEF StalePaths
<1>2. CASE ~(p.toml.state = "absent" \/ StalePaths = {})
  <2>1. ASSUME NEW s \in DOMAIN k
        PROVE  n[s] \in Entries /\ n[s].path[1] = "config"
    <3>1. k[s] \in Entries
      BY <1>0 DEF KitsType
    <3>2. <<"config", k[s].path[2]>> \in Places \X Slugs
      BY <3>1, PlaceNames DEF Entries
    <3> QED BY <3>1, <3>2 DEF Entries
  <2>2. KitsType(n) /\ DOMAIN n = DOMAIN k
    BY <1>0, <2>1 DEF KitsType
  <2>3. p' = [p EXCEPT !.toml = Written([p.toml EXCEPT !.kits = n])]
    BY <1>2 DEF LayoutPaths, Only
  <2> HIDE DEF n
  <2> DEFINE u == [p.toml EXCEPT !.kits = n]
  <2>4. TomlOK(u) /\ u.state = p.toml.state /\ u.kits = n
    BY <1>0, <2>2, KitsToml
  <2> HIDE DEF u
  <2>5. TomlOK(Written(u)) /\ Written(u).state = p.toml.state /\ Written(u).kits = n
    BY <2>4, WrittenToml
  <2>6. TomlStep /\ p'.toml = Written(u)
    BY <1>0, <2>3, <2>5, TomlWrite DEF u
  <2> QED BY <2>1, <2>2, <2>5, <2>6
<1> QED BY <1>1, <1>2

\* _remove_system_from_core_toml changes the [system] section only.
LEMMA SystemEffect ==
  ASSUME TypeOK, _remove_system_from_core_toml
  PROVE  /\ TomlStep /\ p'.toml.state = p.toml.state /\ p'.toml.kits = p.toml.kits
         /\ NoSystem' /\ (NoSystem => p' = p)
<1>0. TomlOK(p.toml) /\ ProjectType(p)
  BY ProjectFacts
<1>1. CASE ~HasSystem
  <2>1. p' = p
    BY <1>1 DEF _remove_system_from_core_toml, Only
  <2>2. TomlStep
    BY <1>0, <2>1, SameProject
  <2> QED BY <1>1, <2>1, <2>2 DEF NoSystem, HasSystem
<1>2. CASE HasSystem
  <2> DEFINE x == Written([p.toml EXCEPT !.system = FALSE])
  <2>1. TomlOK(x) /\ x.state = p.toml.state /\ x.kits = p.toml.kits /\ x.system = FALSE
    BY <1>0 DEF TomlOK, Written
  <2>2. p' = [p EXCEPT !.toml = x]
    BY <1>2 DEF _remove_system_from_core_toml, Only
  <2> HIDE DEF x
  <2>3. TomlStep /\ p'.toml = x
    BY <1>0, <2>1, <2>2, TomlWrite
  <2>4. ~NoSystem
    BY <1>2 DEF NoSystem, HasSystem
  <2> QED BY <2>1, <2>3, <2>4 DEF NoSystem
<1> QED BY <1>1, <1>2

\* Where that write fails there was a section, and may still be.
LEMMA SystemUnwrittenEffect ==
  ASSUME TypeOK, SystemUnwritten
  PROVE  TomlStep /\ SameOrTorn /\ ~NoSystem
<1>1. ~NoSystem
  BY DEF SystemUnwritten, HasSystem, NoSystem
<1>2. \E toml \in Unwritten(p.toml) : p' = [p EXCEPT !.toml = toml]
  BY DEF SystemUnwritten
<1> QED BY <1>1, <1>2, UnwrittenStep

\* _migrate_kit_sources gives every kit a source and moves none.
LEMMA SourcesEffect ==
  ASSUME TypeOK, _migrate_kit_sources
  PROVE  /\ TomlStep /\ p'.toml.state = p.toml.state /\ p'.toml.system = p.toml.system
         /\ DOMAIN p'.toml.kits = DOMAIN p.toml.kits
         /\ \A s \in DOMAIN p.toml.kits : p'.toml.kits[s].path = p.toml.kits[s].path
         /\ Unsourced' = {} /\ (Unsourced = {} => p' = p)
<1> DEFINE k == p.toml.kits
           n == [s \in DOMAIN k |-> IF s \in Unsourced THEN [k[s] EXCEPT !.source = "github"] ELSE k[s]]
<1>0. KitsType(k) /\ TomlOK(p.toml) /\ ProjectType(p)
  BY ProjectFacts
<1>1. CASE Unsourced = {}
  <2>1. p' = p
    BY <1>1 DEF _migrate_kit_sources, Only
  <2>2. TomlStep
    BY <1>0, <2>1, SameProject
  <2>3. Unsourced' = Unsourced
    BY <2>1 DEF Unsourced, Kits
  <2> QED BY <1>1, <2>1, <2>2, <2>3
<1>2. CASE Unsourced # {}
  <2>1. ASSUME NEW s \in DOMAIN k
        PROVE  /\ n[s] \in Entries /\ n[s].path = k[s].path
               /\ s \in Unsourced => n[s].source = "github"
               /\ s \notin Unsourced => n[s] = k[s]
    <3>1. k[s] \in Entries
      BY <1>0 DEF KitsType
    <3> QED BY <3>1 DEF Entries, Sources
  <2>2. KitsType(n) /\ DOMAIN n = DOMAIN k
    BY <1>0, <2>1 DEF KitsType
  <2>3. p' = [p EXCEPT !.toml = Written([p.toml EXCEPT !.kits = n])]
    BY <1>2 DEF _migrate_kit_sources, Only
  <2> HIDE DEF n
  <2> DEFINE u == [p.toml EXCEPT !.kits = n]
  <2>4. TomlOK(u) /\ u.state = p.toml.state /\ u.kits = n /\ u.system = p.toml.system
    BY <1>0, <2>2, KitsToml
  <2> HIDE DEF u
  <2>5. TomlOK(Written(u)) /\ Written(u).state = p.toml.state /\ Written(u).kits = n
        /\ Written(u).system = p.toml.system
    BY <2>4, WrittenToml
  <2>6. TomlStep /\ p'.toml = Written(u)
    BY <1>0, <2>3, <2>5, TomlWrite DEF u
  <2>7. p.toml.state = "ok"
    BY <1>2, KitsFact
  <2>8. Kits' = n /\ Kits = k
    BY <2>5, <2>6, <2>7 DEF Kits
  <2>9. ASSUME NEW s \in Unsourced' PROVE FALSE
    <3>1. s \in DOMAIN n /\ n[s].source = "" /\ s \in Bundled
      BY <2>8, <2>9 DEF Unsourced
    <3>2. s \in Unsourced
      BY <2>1, <2>2, <2>8, <3>1 DEF Unsourced
    <3> QED BY <2>1, <2>2, <3>1, <3>2
  <2> QED BY <1>2, <2>1, <2>2, <2>5, <2>6, <2>9
<1> QED BY <1>1, <1>2

\* Where that write fails a kit had no source.
LEMMA SourcesUnwrittenEffect ==
  ASSUME TypeOK, SourcesUnwritten
  PROVE  TomlStep /\ SameOrTorn /\ Unsourced # {}
<1>1. \E toml \in Unwritten(p.toml) : p' = [p EXCEPT !.toml = toml]
  BY DEF SourcesUnwritten
<1> QED BY <1>1, UnwrittenStep DEF SourcesUnwritten

\* What _deduplicate_legacy_kits makes of core.toml.
LEMMA DedupTomlEffect ==
  ASSUME TypeOK
  PROVE  /\ TomlOK(DedupToml) /\ DedupToml.state = p.toml.state /\ DedupToml.system = p.toml.system
         /\ DOMAIN DedupToml.kits \subseteq DOMAIN p.toml.kits
         /\ \A s \in DOMAIN DedupToml.kits : DedupToml.kits[s].path = p.toml.kits[s].path
         /\ ~SamePath(DedupToml.kits)
         /\ ~SamePath(p.toml.kits) => DedupToml = p.toml
<1> DEFINE k == p.toml.kits
           e == [k EXCEPT ![Canonical] = MergedEntry(k[Legacy], k[Canonical])]
           n == Drop(e, {Legacy})
           to == DedupToml
<1>0. KitsType(k) /\ TomlOK(p.toml) /\ Canonical \in Slugs
  BY ProjectFacts, SetupAssumption DEF Bundled
<1>1. ~SamePath(k) => to = p.toml
  BY DEF DedupToml
<1>2. SamePath(k) => /\ TomlOK(to) /\ to.state = p.toml.state /\ to.system = p.toml.system
                     /\ DOMAIN to.kits = DOMAIN k \ {Legacy}
                     /\ \A s \in DOMAIN to.kits : to.kits[s].path = k[s].path
  <2> SUFFICES ASSUME SamePath(k)
               PROVE  /\ TomlOK(to) /\ to.state = p.toml.state /\ to.system = p.toml.system
                      /\ DOMAIN to.kits = DOMAIN k \ {Legacy}
                      /\ \A s \in DOMAIN to.kits : to.kits[s].path = k[s].path
    OBVIOUS
  <2>1. k[Legacy] \in Entries /\ k[Canonical] \in Entries
    BY <1>0 DEF SamePath, Bundled, KitsType
  <2>2. MergedEntry(k[Legacy], k[Canonical]) \in Entries
        /\ MergedEntry(k[Legacy], k[Canonical]).path = k[Canonical].path
    <3>1. ASSUME NEW x \in Entries, NEW y \in Entries
          PROVE  MergedEntry(x, y) \in Entries /\ MergedEntry(x, y).path = y.path
      <4> DEFINE u == IF y.source = "" THEN x.source ELSE y.source
                 v == IF y.version = 0 THEN x.version ELSE y.version
                 b == y.bound \/ x.bound
      <4>1. u \in Sources /\ v \in Nat /\ b \in BOOLEAN
        BY DEF Entries
      <4>2. MergedEntry(x, y) = [y EXCEPT !.source = u, !.version = v, !.bound = b]
        BY Zenon DEF MergedEntry
      <4> HIDE DEF u, v, b
      <4> QED BY <4>1, <4>2 DEF Entries
    <3> QED BY <2>1, <3>1
  <2>3. /\ DOMAIN e = DOMAIN k
        /\ \A s \in DOMAIN k : e[s] \in Entries /\ e[s].path = k[s].path
    BY <1>0, <2>1, <2>2 DEF KitsType
  <2> HIDE DEF e
  <2>4. KitsType(n) /\ DOMAIN n = DOMAIN k \ {Legacy} /\ \A s \in DOMAIN n : n[s].path = k[s].path
    BY <1>0, <2>3 DEF KitsType, Drop
  <2> HIDE DEF n
  <2> DEFINE u == [p.toml EXCEPT !.kits = n]
  <2>5. TomlOK(u) /\ u.state = p.toml.state /\ u.kits = n /\ u.system = p.toml.system
    BY <1>0, <2>4, KitsToml
  <2> HIDE DEF u
  <2>6. TomlOK(Written(u)) /\ Written(u).state = p.toml.state /\ Written(u).kits = n
        /\ Written(u).system = p.toml.system
    BY <2>5, WrittenToml
  <2>7. to = Written(u)
    BY DEF u, n, e, DedupToml
  <2> QED BY <2>4, <2>6, <2>7
<1>3. ~SamePath(to.kits)
  BY <1>1, <1>2 DEF SamePath, Bundled
<1> QED BY <1>0, <1>1, <1>2, <1>3

\* What it makes of artifacts.toml.
LEMMA DedupRegEffect ==
  ASSUME TypeOK
  PROVE  /\ DedupReg \in RegType /\ DedupReg.state = p.reg.state
         /\ ~(DedupReg.state = "ok" /\ DedupReg.kit = Legacy)
         /\ ~(p.reg.state = "ok" /\ p.reg.kit = Legacy) => DedupReg = p.reg
<1>0. p.reg \in RegType /\ Canonical \in Slugs
  BY ProjectFacts, SetupAssumption DEF Bundled
<1>1. CASE p.reg.state = "ok" /\ p.reg.kit = Legacy
  <2>1. DedupReg = [p.reg EXCEPT !.kit = Canonical]
    BY <1>1 DEF DedupReg
  <2>2. DedupReg \in RegType /\ DedupReg.state = p.reg.state /\ DedupReg.kit = Canonical
    BY <1>0, <2>1 DEF RegType
  <2> QED BY <1>1, <2>2 DEF Legacy, Canonical
<1>2. CASE ~(p.reg.state = "ok" /\ p.reg.kit = Legacy)
  BY <1>0, <1>2 DEF DedupReg
<1> QED BY <1>1, <1>2

\* _deduplicate_legacy_kits leaves one slug for the bundled kit.
LEMMA DedupEffect ==
  ASSUME TypeOK, _deduplicate_legacy_kits
  PROVE  /\ p' = Project(p.core, p.whatsnew, p.agents, p.tree, p'.toml, p'.reg, p.cfg, p.gen, p.root)
         /\ TomlOK(p'.toml) /\ p'.reg \in RegType
         /\ p'.toml.state = p.toml.state /\ p'.toml.system = p.toml.system
         /\ p'.reg.state = p.reg.state
         /\ DOMAIN p'.toml.kits \subseteq DOMAIN p.toml.kits
         /\ \A s \in DOMAIN p'.toml.kits : p'.toml.kits[s].path = p.toml.kits[s].path
         /\ OneSlug' /\ (OneSlug => p' = p)
<1>0. TomlOK(p.toml) /\ ProjectType(p) /\ p.reg \in RegType
  BY ProjectFacts
<1>1. CASE p.toml.state # "ok"
  <2>1. p' = p
    BY <1>1 DEF _deduplicate_legacy_kits, Only
  <2>2. OneSlug'
    BY <1>1, <2>1 DEF OneSlug
  <2> QED BY <1>0, <2>1, <2>2, ProjectParts
<1>2. CASE p.toml.state = "ok"
  <2>1. p' = [p EXCEPT !.toml = DedupToml, !.reg = DedupReg]
    BY <1>2 DEF _deduplicate_legacy_kits, Only
  <2>2. p' = Project(p.core, p.whatsnew, p.agents, p.tree, DedupToml, DedupReg, p.cfg, p.gen, p.root)
    BY <1>0, <2>1, TwoUpdates
  <2>3. p'.toml = DedupToml /\ p'.reg = DedupReg
    BY <2>2 DEF Project
  <2>4. OneSlug'
    BY <2>3, DedupTomlEffect, DedupRegEffect DEF OneSlug
  <2>5. OneSlug => DedupToml = p.toml /\ DedupReg = p.reg
    BY <1>2, DedupTomlEffect, DedupRegEffect DEF OneSlug
  <2>6. OneSlug => p' = p
    BY <1>0, <2>2, <2>5, ProjectParts
  <2> QED BY <2>2, <2>3, <2>4, <2>6, DedupTomlEffect, DedupRegEffect
<1> QED BY <1>1, <1>2

\* Where one of its two writes fails there were two slugs.
LEMMA DedupUnwrittenEffect ==
  ASSUME TypeOK, DedupUnwritten
  PROVE  /\ p' = Project(p.core, p.whatsnew, p.agents, p.tree, p'.toml, p'.reg, p.cfg, p.gen, p.root)
         /\ TomlOK(p'.toml) /\ p'.reg \in RegType
         /\ p'.toml.state \in {p.toml.state, "torn"} /\ p'.toml.system = p.toml.system
         /\ DOMAIN p'.toml.kits \subseteq DOMAIN p.toml.kits
         /\ \A s \in DOMAIN p'.toml.kits : p'.toml.kits[s].path = p.toml.kits[s].path
         /\ ~OneSlug
<1>0. TomlOK(p.toml) /\ ProjectType(p) /\ p.reg \in RegType
  BY ProjectFacts
<1>1. CASE /\ SamePath(p.toml.kits)
           /\ \E toml \in Unwritten(p.toml) : p' = [p EXCEPT !.toml = toml, !.reg = DedupReg]
  <2>1. PICK toml \in Unwritten(p.toml) : p' = [p EXCEPT !.toml = toml, !.reg = DedupReg]
    BY <1>1
  <2>2. p' = Project(p.core, p.whatsnew, p.agents, p.tree, toml, DedupReg, p.cfg, p.gen, p.root)
    BY <1>0, <2>1, TwoUpdates
  <2>3. p'.toml = toml /\ p'.reg = DedupReg
    BY <2>2 DEF Project
  <2>4. ~OneSlug
    BY <1>1 DEF DedupUnwritten, OneSlug
  <2> QED BY <2>2, <2>3, <2>4, UnwrittenToml, DedupRegEffect
<1>2. CASE DedupReg # p.reg /\ p' = [p EXCEPT !.toml = DedupToml]
  <2>1. SetToml(DedupToml)
    BY <1>0, <1>2, Updates
  <2>2. p'.toml = DedupToml /\ p'.reg = p.reg
    BY <1>0, <2>1, SetTomlEffect
  <2>3. p' = Project(p.core, p.whatsnew, p.agents, p.tree, p'.toml, p'.reg, p.cfg, p.gen, p.root)
    BY <2>1, <2>2 DEF SetToml
  <2>4. ~OneSlug
    BY <1>2, DedupRegEffect DEF DedupUnwritten, OneSlug
  <2> QED BY <1>0, <2>2, <2>3, <2>4, DedupTomlEffect
<1> QED BY <1>1, <1>2 DEF DedupUnwritten

-----------------------------------------------------------------------------
(* The update of a kit.                                                    *)

\* What a review makes of a kit's directory in config/.
Reviews(s, m) ==
    /\ ItemsType(m) /\ DOMAIN At(p.tree, <<"config", s>>) \subseteq DOMAIN m
    /\ \A i \in DOMAIN m : \/ m[i] = "release" /\ i \notin LegacyItems
                           \/ /\ i \in DOMAIN At(p.tree, <<"config", s>>)
                              /\ m[i] = At(p.tree, <<"config", s>>)[i]

\* The registration of a kit that core.toml already has changes its version
\* and binding only.
Registers(s) ==
    /\ TomlOK(p'.toml) /\ p'.toml.state = p.toml.state /\ p'.toml.system = p.toml.system
    /\ DOMAIN p'.toml.kits = DOMAIN p.toml.kits
    /\ \A x \in DOMAIN p.toml.kits : /\ p'.toml.kits[x].path = p.toml.kits[x].path
                                     /\ p'.toml.kits[x].source = p.toml.kits[x].source
                                     /\ x # s => p'.toml.kits[x] = p.toml.kits[x]

\* A step that leaves core.toml registers nothing.
LEMMA SameRegistration == ASSUME TypeOK, p'.toml = p.toml, NEW s PROVE Registers(s)
BY ProjectFacts DEF Registers

\* The kit under update is registered.
LEMMA AtKitsFact ==
  ASSUME TypeOK, TodoThere, cmd.pc = "kits", cmd.todo # {}, NEW s, s = FirstOf(cmd.todo)
  PROVE  /\ s \in cmd.todo /\ s \in Slugs /\ s \in DOMAIN p.toml.kits /\ p.toml.kits[s] \in Entries
         /\ p.toml.state = "ok" => Kits = p.toml.kits
<1>1. cmd.todo \subseteq Slugs
  BY TypeParts DEF Parts, CmdOK, CmdType
<1>2. s \in cmd.todo
  BY <1>1, FirstOfIn
<1>3. s \in DOMAIN p.toml.kits
  BY <1>2 DEF TodoThere
<1> QED BY <1>1, <1>2, <1>3, KitsFact, ProjectFacts DEF KitsType

\* Registering a kit again brings it to the version on offer.
LEMMA RegisterKit ==
  ASSUME TypeOK, NEW s \in DOMAIN p.toml.kits, p.toml.state = "ok", NEW source,
         source \in {"", p.toml.kits[s].source}, p'.toml = Register(p.toml, s, source)
  PROVE  /\ Registers(s) /\ p'.toml.kits[s].version = KitRelease
         /\ s \in Manifests => p'.toml.kits[s].bound
<1>1. TomlOK(p.toml) /\ s \in Slugs /\ p.toml.kits[s] \in Entries
  BY ProjectFacts DEF KitsType
<1>2. source \in Sources
  BY <1>1 DEF Entries, Sources
<1>3. OldEntry(p.toml, s) = p.toml.kits[s]
  BY DEF OldEntry
<1>7. RegisteredAs(p'.toml, p.toml, s, source)
  BY <1>1, <1>2, RegisterToml
<1>4. LET r == p'.toml IN
         /\ TomlOK(r) /\ r.state = p.toml.state /\ r.system = p.toml.system
         /\ DOMAIN r.kits = DOMAIN p.toml.kits \cup {s}
         /\ \A x \in DOMAIN p.toml.kits \ {s} : r.kits[x] = p.toml.kits[x]
         /\ r.kits[s].path = OldEntry(p.toml, s).path /\ r.kits[s].version = KitRelease
         /\ r.kits[s].source = IF source = "" THEN OldEntry(p.toml, s).source ELSE source
         /\ s \in Manifests => r.kits[s].bound
  BY <1>7 DEF RegisteredAs
<1>5. p'.toml.kits[s].source = p.toml.kits[s].source
  BY <1>3, <1>4
<1>6. DOMAIN p'.toml.kits = DOMAIN p.toml.kits
  BY <1>4
<1> QED BY <1>3, <1>4, <1>5, <1>6 DEF Registers

\* A kit that is current: at most its resources are bound.
LEMMA KitCurrentEffect ==
  ASSUME TypeOK, NEW s \in DOMAIN p.toml.kits, KitCurrent(s)
  PROVE  /\ TomlStep /\ Registers(s) /\ IsCurrent(s)' /\ ~Unbound(s)'
         /\ ~Unbound(s) => p' = p
<1>0. ProjectType(p) /\ p.toml.state = "ok"
  BY ProjectFacts, KitsFact DEF KitCurrent, IsCurrent
<1>1. CASE ~Unbound(s)
  <2>1. p' = p
    BY <1>1 DEF KitCurrent, Only
  <2>2. IsCurrent(s)' /\ ~Unbound(s)'
    BY <1>1, <2>1 DEF KitCurrent, IsCurrent, Unbound, Kits
  <2> QED BY <1>0, <2>1, <2>2, SameProject, SameRegistration
<1>2. CASE Unbound(s)
  <2> DEFINE x == Register(p.toml, s, "")
  <2>1. SetToml(x)
    BY <1>0, <1>2, Updates DEF KitCurrent, Only
  <2> HIDE DEF x
  <2>2. p'.toml = x /\ p'.tree = p.tree
    BY <1>0, <2>1, SetTomlEffect
  <2>3. /\ Registers(s) /\ p'.toml.kits[s].version = KitRelease
        /\ s \in Manifests => p'.toml.kits[s].bound
    BY <1>0, <2>2, RegisterKit DEF x
  <2>4. p'.toml.state = "ok"
    BY <1>0, <2>3 DEF Registers
  <2>5. IsCurrent(s)' /\ ~Unbound(s)'
    BY <2>2, <2>3, <2>4, KitsFact DEF KitCurrent, IsCurrent, Unbound, Registers
  <2> QED BY <1>2, <2>1, <2>2, <2>3, <2>5 DEF TomlStep, Registers
<1> QED BY <1>1, <1>2

\* A tree that differs from the project's at most in config/s.
PutAt(tree, s, m) ==
    /\ DOMAIN tree = DOMAIN p.tree \cup {<<"config", s>>} /\ tree[<<"config", s>>] = m
    /\ \A l \in DOMAIN p.tree \ {<<"config", s>>} : tree[l] = p.tree[l]

\* What a review makes of the kits' directories.
LEMMA ReviewedTree ==
  ASSUME TypeOK, NEW s \in Slugs, NEW tree \in ReviewedTrees(s)
  PROVE  TreeType(tree) /\ \E m : Reviews(s, m) /\ PutAt(tree, s, m)
<1> DEFINE old == At(p.tree, <<"config", s>>)
           m(accepted) == [i \in DOMAIN old \cup accepted |-> IF i \in accepted THEN "release" ELSE old[i]]
           t == p.tree
           x(accepted) == Put(t, <<"config", s>>, m(accepted))
<1>0. TreeType(t) /\ ItemsType(old) /\ <<"config", s>> \in Places \X Slugs
  BY ProjectFacts, AtItems, PlaceNames
<1>1. PICK accepted \in SUBSET DOMAIN Release : tree = x(accepted)
  BY DEF ReviewedTrees
<1>2. accepted \subseteq FileItems \cup DirItems
  BY DEF Release
<1>3. Reviews(s, m(accepted))
  <2>1. accepted \subseteq AllItems /\ accepted \cap LegacyItems = {}
    BY <1>2, RegularItems
  <2>2. "release" \in Contents
    BY DEF Contents
  <2> HIDE DEF old
  <2>3. ItemsType(m(accepted))
    BY <1>0, <2>1, <2>2 DEF ItemsType
  <2>4. /\ DOMAIN old \subseteq DOMAIN m(accepted)
        /\ \A i \in DOMAIN m(accepted) : \/ m(accepted)[i] = "release" /\ i \notin LegacyItems
                                         \/ i \in DOMAIN old /\ m(accepted)[i] = old[i]
    BY <2>1
  <2> QED BY <2>3, <2>4 DEF Reviews, old
<1>4. ItemsType(m(accepted))
  BY <1>3 DEF Reviews
<1> HIDE DEF m, t
<1>5. /\ TreeType(x(accepted)) /\ DOMAIN x(accepted) = DOMAIN t \cup {<<"config", s>>}
      /\ x(accepted)[<<"config", s>>] = m(accepted)
      /\ \A l \in DOMAIN t \ {<<"config", s>>} : x(accepted)[l] = t[l]
  BY <1>0, <1>4 DEF TreeType, Put
<1> HIDE DEF x
<1>6. PutAt(tree, s, m(accepted))
  BY <1>1, <1>5 DEF PutAt, t
<1> QED BY <1>1, <1>3, <1>5, <1>6

\* A step after which such a tree is the project's.
LEMMA ReviewedStep ==
  ASSUME TypeOK, NEW s \in Slugs, p'.tree \in ReviewedTrees(s)
  PROVE  /\ TreeType(p'.tree) /\ <<"config", s>> \in DOMAIN p'.tree
         /\ \E m : Placed(s, m, {}) /\ Reviews(s, m)
<1>1. PICK tree : tree = p'.tree
  OBVIOUS
<1>2. TreeType(tree) /\ \E m : Reviews(s, m) /\ PutAt(tree, s, m)
  BY <1>1, ReviewedTree
<1>3. PICK m : Reviews(s, m) /\ PutAt(tree, s, m)
  BY <1>2
<1>4. Placed(s, m, {}) /\ <<"config", s>> \in DOMAIN p'.tree
  BY <1>1, <1>3 DEF Placed, PutAt
<1> QED BY <1>1, <1>2, <1>3, <1>4

\* A kit that is reviewed: its directory and its entry change.
LEMMA KitReviewedEffect ==
  ASSUME TypeOK, NEW s \in DOMAIN p.toml.kits, KitReviewed(s)
  PROVE  /\ p' = Project(p.core, p.whatsnew, p.agents, p'.tree, p'.toml, p.reg, p.cfg, p.gen, p.root)
         /\ TreeType(p'.tree) /\ Registers(s)
         /\ p.toml.state = "ok" => IsCurrent(s)' /\ ~Unbound(s)'
         /\ \E m : Placed(s, m, {}) /\ Reviews(s, m)
<1> DEFINE r == Register(p.toml, s, p.toml.kits[s].source)
<1>0. ProjectType(p) /\ s \in Slugs
  BY ProjectFacts DEF KitsType
<1>1. PICK tree \in ReviewedTrees(s) : p' = [p EXCEPT !.tree = tree, !.toml = r]
  BY DEF KitReviewed, Only
<1> HIDE DEF r
<1>2. p' = Project(p.core, p.whatsnew, p.agents, tree, r, p.reg, p.cfg, p.gen, p.root)
  BY <1>0, <1>1, TwoUpdates
<1>3. p'.tree = tree /\ p'.toml = r
  BY <1>2 DEF Project
<1>4. /\ TreeType(p'.tree) /\ <<"config", s>> \in DOMAIN p'.tree
      /\ \E m : Placed(s, m, {}) /\ Reviews(s, m)
  BY <1>0, <1>1, <1>3, ReviewedStep
<1>5. p.toml.state = "ok" => /\ Registers(s) /\ p'.toml.kits[s].version = KitRelease
                             /\ s \in Manifests => p'.toml.kits[s].bound
  BY <1>3, RegisterKit DEF r
<1>6. p.toml.state # "ok" => Registers(s)
  BY <1>3, SameRegistration DEF r, Register
<1>7. p.toml.state = "ok" => IsCurrent(s)' /\ ~Unbound(s)'
  BY <1>4, <1>5, KitsFact DEF IsCurrent, Unbound, Registers
<1> QED BY <1>2, <1>3, <1>4, <1>5, <1>6, <1>7

\* The parts of the project that the update of a kit leaves.
LEMMA UpdateKitsEffect ==
  ASSUME TypeOK, TodoThere, UpdateKits, NEW s, s = FirstOf(cmd.todo)
  PROVE  /\ p' = Project(p.core, p.whatsnew, p.agents, p'.tree, p'.toml, p.reg, p.cfg, p.gen, p.root)
         /\ TreeType(p'.tree) /\ Registers(s)
         /\ p'.tree = p.tree \/ \E m : Placed(s, m, {}) /\ Reviews(s, m)
         /\ HasSource(s) => \/ p.toml.state = "ok" => IsCurrent(s)' /\ ~Unbound(s)'
                            \/ cmd'.errors
         /\ (HasSource(s) => IsCurrent(s) /\ ~Unbound(s)) => p' = p
<1>0. /\ ProjectType(p) /\ TreeType(p.tree) /\ s \in DOMAIN p.toml.kits /\ s \in Slugs
      /\ cmd \in CmdType
  BY ProjectFacts, AtKitsFact, TypeParts DEF UpdateKits, At1, Parts, CmdOK
<1>1. CASE p' = p /\ (~HasSource(s) \/ cmd'.errors)
  <2>1. /\ p' = Project(p.core, p.whatsnew, p.agents, p'.tree, p'.toml, p.reg, p.cfg, p.gen, p.root)
        /\ p'.tree = p.tree /\ p'.toml = p.toml
    BY <1>0, <1>1, ProjectParts
  <2> QED BY <1>0, <1>1, <2>1, SameRegistration
<1>2. CASE KitCurrent(s)
  <2>1. /\ TomlStep /\ Registers(s) /\ IsCurrent(s)' /\ ~Unbound(s)'
        /\ ~Unbound(s) => p' = p
    BY <1>0, <1>2, KitCurrentEffect
  <2>2. p'.tree = p.tree
    BY <1>0, <2>1, SetTomlEffect DEF TomlStep
  <2>3. HasSource(s) => \/ IsCurrent(s)' /\ ~Unbound(s)'
                        \/ cmd'.errors
    BY <2>1
  <2>4. (HasSource(s) => IsCurrent(s) /\ ~Unbound(s)) => p' = p \/ ~HasSource(s)
    BY <2>1
  <2>5. p' = Project(p.core, p.whatsnew, p.agents, p'.tree, p'.toml, p.reg, p.cfg, p.gen, p.root)
    BY <2>1, <2>2 DEF TomlStep, SetToml
  <2>6. ~HasSource(s) => p' = p
    BY DEF UpdateKits, Only
  <2> QED BY <1>0, <2>1, <2>2, <2>3, <2>4, <2>5, <2>6
<1>3. CASE KitReviewed(s) /\ HasSource(s)
  <2>1. /\ p' = Project(p.core, p.whatsnew, p.agents, p'.tree, p'.toml, p.reg, p.cfg, p.gen, p.root)
        /\ TreeType(p'.tree) /\ Registers(s)
        /\ p.toml.state = "ok" => IsCurrent(s)' /\ ~Unbound(s)'
        /\ \E m : Placed(s, m, {}) /\ Reviews(s, m)
    BY <1>0, <1>3, KitReviewedEffect
  <2>2. ~IsCurrent(s)
    BY <1>3 DEF KitReviewed
  <2> QED BY <1>3, <2>1, <2>2
<1>4. CASE HasSource(s) /\ Only(p) /\ cmd' = [[cmd EXCEPT !.todo = @ \ {s}] EXCEPT !.errors = TRUE]
  <2>1. cmd'.errors
    BY <1>0, <1>4 DEF CmdType
  <2> QED BY <1>1, <1>4, <2>1 DEF Only
<1>5. CASE ~HasSource(s) /\ Only(p)
  BY <1>1, <1>5 DEF Only
<1>6. CASE /\ HasSource(s) /\ ~IsCurrent(s)
           /\ \E tree \in ReviewedTrees(s) : Only([p EXCEPT !.tree = tree])
           /\ cmd' = [[cmd EXCEPT !.todo = @ \ {s}] EXCEPT !.errors = TRUE]
  <2>1. PICK tree \in ReviewedTrees(s) : p' = [p EXCEPT !.tree = tree]
    BY <1>6 DEF Only
  <2>2. SetTree(tree)
    BY <1>0, <2>1, Updates
  <2>3. p'.tree = tree /\ p'.toml = p.toml
    BY <1>0, <2>2, SetTreeEffect
  <2>4. TreeType(p'.tree) /\ \E m : Placed(s, m, {}) /\ Reviews(s, m)
    BY <1>0, <2>1, <2>3, ReviewedStep
  <2>5. p' = Project(p.core, p.whatsnew, p.agents, p'.tree, p'.toml, p.reg, p.cfg, p.gen, p.root)
    BY <2>2, <2>3 DEF SetTree
  <2>6. Registers(s)
    BY <2>3, SameRegistration
  <2>7. cmd'.errors
    BY <1>0, <1>6 DEF CmdType
  <2> QED BY <1>6, <2>4, <2>5, <2>6, <2>7
<1> QED BY <1>2, <1>3, <1>4, <1>5, <1>6 DEF UpdateKits, KitFails

\* A kit whose registration is passed over was not as it should be.
LEMMA KitUnregisteredEffect ==
  ASSUME TypeOK, TodoThere, KitUnregistered, NEW s, s = FirstOf(cmd.todo)
  PROVE  /\ p' = Project(p.core, p.whatsnew, p.agents, p'.tree, p'.toml, p.reg, p.cfg, p.gen, p.root)
         /\ TreeType(p'.tree) /\ SameOrTorn
         /\ p'.tree = p.tree \/ \E m : Placed(s, m, {}) /\ Reviews(s, m)
         /\ s \in DOMAIN Kits /\ HasSource(s) /\ ~(IsCurrent(s) /\ ~Unbound(s))
<1>0. ProjectType(p) /\ TreeType(p.tree) /\ s \in DOMAIN p.toml.kits /\ s \in Slugs /\ p.toml.state = "ok"
  BY ProjectFacts, AtKitsFact DEF KitUnregistered, At1
<1>1. PICK tree \in IF IsCurrent(s) THEN {p.tree} ELSE ReviewedTrees(s), toml \in Unwritten(p.toml) :
         p' = [p EXCEPT !.tree = tree, !.toml = toml]
  BY DEF KitUnregistered
<1>2. p' = Project(p.core, p.whatsnew, p.agents, tree, toml, p.reg, p.cfg, p.gen, p.root)
  BY <1>0, <1>1, TwoUpdates
<1>3. p'.tree = tree /\ p'.toml = toml
  BY <1>2 DEF Project
<1>4. SameOrTorn
  BY <1>3, UnwrittenToml DEF SameOrTorn
<1>5. CASE IsCurrent(s)
  <2>1. p'.tree = p.tree
    BY <1>1, <1>3, <1>5
  <2> QED BY <1>0, <1>2, <1>3, <1>4, <2>1, KitsFact DEF KitUnregistered
<1>6. CASE ~IsCurrent(s)
  <2>1. p'.tree \in ReviewedTrees(s)
    BY <1>1, <1>3, <1>6
  <2>2. TreeType(p'.tree) /\ \E m : Placed(s, m, {}) /\ Reviews(s, m)
    BY <1>0, <2>1, ReviewedStep
  <2> QED BY <1>0, <1>2, <1>3, <1>4, <1>6, <2>2, KitsFact DEF KitUnregistered
<1> QED BY <1>5, <1>6

-----------------------------------------------------------------------------
(* The project stays one: the type of its files.                           *)

\* What the assumptions say of versions and of .core/.
LEMMA VersionFacts == MaxVersion \in Nat /\ MaxVersion > 0 /\ Len(CoreOrder) \in Nat
                      /\ DOMAIN CoreOrder = 1..Len(CoreOrder)
BY SetupAssumption

\* The cache holds a version.
LEMMA CacheFact == ASSUME TypeOK PROVE cache \in Versions /\ cache \in 1..MaxVersion /\ cache # 0
BY VersionFacts, TypeParts DEF Parts, Versions

\* The user's edits create and remove no file.
LEMMA EditEffect ==
  ASSUME TypeOK, UserEdits
  PROVE  /\ ProjectType(p)' /\ DOMAIN p'.tree = DOMAIN p.tree
         /\ \A l \in DOMAIN p.tree :
               /\ DOMAIN p'.tree[l] = DOMAIN p.tree[l]
               /\ l[1] # "config" => p'.tree[l] = p.tree[l]
               /\ \A i \in DOMAIN p.tree[l] : p'.tree[l][i] \in {p.tree[l][i], "edited"}
         /\ p'.toml.state = p.toml.state /\ p'.toml.kits = p.toml.kits
         /\ \A f \in ConfigFiles : p.cfg[f] = "mine" => p'.cfg[f] = "mine"
<1>0. /\ ProjectType(p) /\ TreeType(p.tree) /\ TomlOK(p.toml) /\ p.cfg \in CfgType /\ p.root \in RootType
  BY ProjectFacts
<1>1. CASE \E l \in DOMAIN p.tree : \E i \in DOMAIN p.tree[l] \ LegacyItems :
              l[1] = "config" /\ p' = [p EXCEPT !.tree[l][i] = "edited"]
  <2>1. PICK l \in DOMAIN p.tree : \E i \in DOMAIN p.tree[l] \ LegacyItems :
                l[1] = "config" /\ p' = [p EXCEPT !.tree[l][i] = "edited"]
    BY <1>1
  <2>2. PICK i \in DOMAIN p.tree[l] \ LegacyItems : p' = [p EXCEPT !.tree[l][i] = "edited"]
    BY <2>1
  <2> DEFINE t == p.tree
             m == [t[l] EXCEPT ![i] = "edited"]
             x == [t EXCEPT ![l] = m]
  <2>3. SetTree(x)
    BY <1>0, <2>2, Updates
  <2>4. ItemsType(m)
    BY <1>0 DEF TreeType, ItemsType, Contents
  <2> HIDE DEF t, m
  <2>5. TreeType(t) /\ l \in DOMAIN t
    BY <1>0 DEF t
  <2>6. TreeType(x)
    BY <2>4, <2>5 DEF TreeType
  <2>7. /\ DOMAIN x = DOMAIN t /\ \A k \in DOMAIN t : k # l => x[k] = t[k]
        /\ x[l] = m
    BY <2>5 DEF TreeType
  <2>8. DOMAIN m = DOMAIN t[l] /\ \A k \in DOMAIN t[l] : m[k] \in {t[l][k], "edited"}
    BY <1>0 DEF TreeType, ItemsType, m, t
  <2>9. l[1] = "config"
    BY <2>1
  <2> HIDE DEF x
  <2>10. ProjectType(p)' /\ p'.tree = x /\ p'.toml = p.toml /\ p'.cfg = p.cfg
    BY <1>0, <2>3, <2>6, SetTreeEffect
  <2> QED BY <2>7, <2>8, <2>9, <2>10 DEF t
<1>2. CASE \E f \in ConfigFiles : p' = [p EXCEPT !.cfg[f] = "mine"]
  <2>1. PICK f \in ConfigFiles : p' = [p EXCEPT !.cfg[f] = "mine"]
    BY <1>2
  <2>2. SetCfg([p.cfg EXCEPT ![f] = "mine"])
    BY <1>0, <2>1, Updates
  <2>3. [p.cfg EXCEPT ![f] = "mine"] \in CfgType
    BY <1>0 DEF CfgType
  <2>4. /\ ProjectType(p)' /\ p'.tree = p.tree /\ p'.toml = p.toml
        /\ p'.cfg = [p.cfg EXCEPT ![f] = "mine"]
    BY <1>0, <2>2, <2>3, SetCfgEffect
  <2> QED BY <1>0, <2>4 DEF CfgType
<1>3. CASE p' = [p EXCEPT !.toml.note = TRUE]
  <2> DEFINE x == [p.toml EXCEPT !.note = TRUE]
  <2>1. SetToml(x)
    BY <1>0, <1>3, Updates
  <2>2. TomlOK(x)
    BY <1>0 DEF TomlOK
  <2>3. x.state = p.toml.state /\ x.kits = p.toml.kits
    BY <1>0 DEF TomlOK
  <2> HIDE DEF x
  <2>4. ProjectType(p)' /\ p'.tree = p.tree /\ p'.toml = x /\ p'.cfg = p.cfg
    BY <1>0, <2>1, <2>2, SetTomlEffect
  <2> QED BY <2>3, <2>4
<1>4. CASE p' = [p EXCEPT !.root["AGENTS.md"] = FALSE]
  <2> DEFINE x == [p.root EXCEPT !["AGENTS.md"] = FALSE]
  <2>1. SetRoot(x)
    BY <1>0, <1>4, Updates
  <2>2. x \in RootType
    BY <1>0 DEF RootType, RootFiles
  <2> HIDE DEF x
  <2> QED BY <1>0, <2>1, <2>2, SetRootEffect
<1> QED BY <1>1, <1>2, <1>3, <1>4 DEF UserEdits

\* A step of the tree leaves a project.
LEMMA TreeStepType == ASSUME ProjectType(p), TreeStep PROVE ProjectType(p)'
BY SetTreeEffect DEF TreeStep

\* A step of core.toml leaves a project.
LEMMA TomlStepType == ASSUME ProjectType(p), TomlStep PROVE ProjectType(p)'
BY SetTomlEffect DEF TomlStep

\* A step of .core/ sets one of its directories.
LEMMA CoreStep ==
  ASSUME TypeOK, NEW i \in 1..Len(CoreOrder), NEW v \in {Half} \cup Versions,
         p' = [p EXCEPT !.core[CoreOrder[i]] = v]
  PROVE  /\ SetCore(p'.core) /\ p'.core \in CoreType /\ ProjectType(p)'
         /\ p'.core = [p.core EXCEPT ![CoreOrder[i]] = v] /\ CoreOrder[i] \in CoreDirs
<1> DEFINE x == [p.core EXCEPT ![CoreOrder[i]] = v]
<1>1. ProjectType(p) /\ p.core \in CoreType /\ CoreOrder[i] \in CoreDirs
  BY ProjectFacts, VersionFacts DEF CoreDirs
<1>2. SetCore(x)
  BY <1>1, Updates
<1>3. x \in CoreType
  BY <1>1 DEF CoreType
<1> HIDE DEF x
<1>4. p'.core = x /\ ProjectType(p)'
  BY <1>1, <1>2, <1>3, SetCoreEffect
<1> QED BY <1>1, <1>2, <1>3, <1>4 DEF x

\* Copying one directory of .core/, or skipping it.
LEMMA CopyCoreDirEffect ==
  ASSUME TypeOK, CopyCoreDir
  PROVE  LET d == CoreOrder[cmd.at] IN
         /\ SetCore(p'.core) /\ ProjectType(p)' /\ d \in CoreDirs /\ cmd.at \in 1..Len(CoreOrder)
         /\ p'.core = IF Skips(d) THEN p.core ELSE [p.core EXCEPT ![d] = cache]
<1> DEFINE d == CoreOrder[cmd.at]
<1>1. cmd.at \in 1..Len(CoreOrder) /\ ProjectType(p) /\ d \in CoreDirs
  <2>1. cmd.at \in 1..(Len(CoreOrder) + 1) /\ cmd.at <= Len(CoreOrder)
    BY TypeParts DEF Parts, CmdOK, CmdType, CopyCoreDir
  <2>2. cmd.at \in 1..Len(CoreOrder)
    BY <2>1, VersionFacts
  <2> QED BY <2>2, VersionFacts, ProjectFacts DEF CoreDirs
<1>2. CASE Skips(d)
  <2>1. p' = p
    BY <1>2 DEF CopyCoreDir, Only
  <2>2. SetCore(p.core) /\ ProjectType(p)'
    BY <1>1, <2>1, SameProject
  <2> QED BY <1>1, <1>2, <2>1, <2>2
<1>3. CASE ~Skips(d)
  <2>1. p' = [p EXCEPT !.core[CoreOrder[cmd.at]] = cache]
    BY <1>3 DEF CopyCoreDir, Only
  <2> QED BY <1>1, <1>3, <2>1, CacheFact, CoreStep
<1> QED BY <1>2, <1>3

\* A copy that dies leaves that directory missing or half written.
LEMMA CopyCoreDirDiesEffect ==
  ASSUME TypeOK, CopyCoreDirDies
  PROVE  LET d == CoreOrder[cmd.at] IN
         /\ SetCore(p'.core) /\ ProjectType(p)' /\ d \in CoreDirs /\ ~Skips(d)
         /\ \E left \in {Half} \cup Versions : p'.core = [p.core EXCEPT ![d] = left]
<1> DEFINE d == CoreOrder[cmd.at]
<1>1. cmd.at \in 1..Len(CoreOrder) /\ ProjectType(p) /\ d \in CoreDirs
  <2>1. cmd.at \in 1..(Len(CoreOrder) + 1) /\ cmd.at <= Len(CoreOrder)
    BY TypeParts DEF Parts, CmdOK, CmdType, CopyCoreDirDies
  <2>2. cmd.at \in 1..Len(CoreOrder)
    BY <2>1, VersionFacts
  <2> QED BY <2>2, VersionFacts, ProjectFacts DEF CoreDirs
<1>2. 0 \in Versions
  BY VersionFacts DEF Versions
<1>3. PICK left \in {Half} \cup Versions : p' = [p EXCEPT !.core[CoreOrder[cmd.at]] = left]
  BY <1>2 DEF CopyCoreDirDies
<1>4. /\ SetCore(p'.core) /\ ProjectType(p)'
      /\ p'.core = [p.core EXCEPT ![CoreOrder[cmd.at]] = left]
  BY <1>1, <1>3, CoreStep
<1> QED BY <1>1, <1>4 DEF CopyCoreDirDies

\* _ensure_file keeps the types of the files of config/.
LEMMA EnsuredType == ASSUME NEW c \in CfgType, NEW S PROVE _ensure_file(c, S) \in CfgType
BY DEF _ensure_file, CfgType

\* The end of the copy of .core/.
LEMMA FinishCoreEffect ==
  ASSUME TypeOK, FinishCore
  PROVE  /\ ProjectType(p)'
         /\ cmd.kind = "update" => SetWhatsnew(cache)
         /\ cmd.kind # "update" =>
              /\ p'
                 = Project(p.core, p.whatsnew, p.agents, p.tree, p.toml, p.reg, p'.cfg, p'.gen, p.root)
              /\ \A f \in ConfigFiles \ {"README.md"} : p'.cfg[f] = p.cfg[f]
<1>0. ProjectType(p) /\ p.cfg \in CfgType /\ p.gen \in GenType /\ cache \in Versions
  BY ProjectFacts, CacheFact
<1>1. CASE cmd.kind = "update"
  <2>1. SetWhatsnew(cache)
    BY <1>0, <1>1, Updates DEF FinishCore, Only
  <2> QED BY <1>0, <1>1, <2>1, SetWhatsnewEffect
<1>2. CASE cmd.kind # "update"
  <2> DEFINE c == [p.cfg EXCEPT !["README.md"] = "default"]
             g == [p.gen EXCEPT !.written = TRUE]
  <2>1. p' = [p EXCEPT !.cfg = c, !.gen = g]
    BY <1>2 DEF FinishCore, Only
  <2>2. c \in CfgType /\ g \in GenType /\ \A f \in ConfigFiles \ {"README.md"} : c[f] = p.cfg[f]
    BY <1>0 DEF CfgType, GenType, ConfigFiles
  <2> HIDE DEF c, g
  <2>3. p' = Project(p.core, p.whatsnew, p.agents, p.tree, p.toml, p.reg, c, g, p.root)
    BY <1>0, <2>1, TwoUpdates
  <2>4. p'.cfg = c /\ p'.gen = g
    BY <2>3 DEF Project
  <2>5. ProjectType(p)'
    BY <1>0, <2>2, <2>3, ProjectParts, PartsProject
  <2> QED BY <1>2, <2>2, <2>3, <2>4, <2>5
<1> QED BY <1>1, <1>2

\* init writes core.toml when it is missing or when forced.
LEMMA InitTomlEffect ==
  ASSUME TypeOK, InitToml
  PROVE  /\ ProjectType(p)'
         /\ p' = Project(p.core, p.whatsnew, p.agents, p.tree, p'.toml, p.reg, p'.cfg, p.gen, p.root)
         /\ p'.cfg = _ensure_file(p.cfg, {"AGENTS.md"})
         /\ p'.toml = p.toml \/ DOMAIN p'.toml.kits = {}
         /\ p.toml.state # "absent" /\ ~cmd.force => p'.toml = p.toml
<1> DEFINE c == _ensure_file(p.cfg, {"AGENTS.md"})
           t == IF p.toml.state # "absent" /\ ~cmd.force THEN p.toml ELSE FreshToml
<1>0. ProjectType(p) /\ p.cfg \in CfgType /\ TomlOK(p.toml)
  BY ProjectFacts
<1>1. p' = [p EXCEPT !.toml = t, !.cfg = c]
  BY DEF InitToml, Only
<1>2. c \in CfgType
  BY <1>0, EnsuredType
<1>3. TomlOK(FreshToml) /\ DOMAIN FreshToml.kits = {}
  <2>1. KitsType(<<>>) /\ DOMAIN <<>> = {}
    BY DEF KitsType
  <2>2. FreshToml.kits = <<>>
    BY DEF FreshToml
  <2>3. FreshToml \in [state : {"absent", "ok", "torn"}, kits : {<<>>}, system : BOOLEAN, note : BOOLEAN]
    BY DEF FreshToml
  <2> QED BY <2>1, <2>2, <2>3 DEF TomlOK
<1>4. TomlOK(t) /\ (t = p.toml \/ DOMAIN t.kits = {})
  BY <1>0, <1>3
<1> HIDE DEF c, t
<1>5. p' = Project(p.core, p.whatsnew, p.agents, p.tree, t, p.reg, c, p.gen, p.root)
  BY <1>0, <1>1, TwoUpdates
<1>6. p'.cfg = c /\ p'.toml = t
  BY <1>5 DEF Project
<1>7. ProjectType(p)'
  BY <1>0, <1>2, <1>4, <1>5, ProjectParts, PartsProject
<1>8. p.toml.state # "absent" /\ ~cmd.force => t = p.toml
  BY DEF t
<1> QED BY <1>4, <1>5, <1>6, <1>7, <1>8 DEF c

\* init installs the bundled kit, or leaves the project.
LEMMA InitKitEffect ==
  ASSUME TypeOK, InitKit
  PROVE  /\ ProjectType(p)'
         /\ p' = Project(p.core, p.whatsnew, p.agents, p'.tree, p'.toml, p.reg, p.cfg, p.gen, p.root)
         /\ \/ p' = p
            \/ /\ Placed(Canonical, Release, {})
               /\ RegisteredAs(p'.toml, p.toml, Canonical, "github")
<1> DEFINE t == p.tree
           x == Put(t, <<"config", Canonical>>, Release)
           r == Register(p.toml, Canonical, "github")
<1>0. /\ ProjectType(p) /\ TreeType(t) /\ TomlOK(p.toml) /\ Canonical \in Slugs
      /\ <<"config", Canonical>> \in Places \X Slugs
  BY ProjectFacts, SetupAssumption, PlaceNames DEF Bundled
<1>1. CASE p' = p
  <2>1. p' = Project(p.core, p.whatsnew, p.agents, p'.tree, p'.toml, p.reg, p.cfg, p.gen, p.root)
    BY <1>0, <1>1, ProjectParts
  <2> QED BY <1>0, <1>1, <2>1
<1>2. CASE p' = [p EXCEPT !.tree = x, !.toml = r]
  <2>1. ItemsType(Release)
    BY RegularItems DEF ItemsType, Release, Contents
  <2> HIDE DEF t
  <2>2. /\ TreeType(x) /\ DOMAIN x = DOMAIN t \cup {<<"config", Canonical>>}
        /\ x[<<"config", Canonical>>] = Release
        /\ \A l \in DOMAIN t \ {<<"config", Canonical>>} : x[l] = t[l]
    BY <1>0, <2>1 DEF TreeType, Put
  <2>3. "github" \in Sources
    BY DEF Sources
  <2>4. RegisteredAs(r, p.toml, Canonical, "github")
    BY <1>0, <2>3, RegisterToml
  <2> HIDE DEF x, r
  <2>5. p' = Project(p.core, p.whatsnew, p.agents, x, r, p.reg, p.cfg, p.gen, p.root)
    BY <1>0, <1>2, TwoUpdates
  <2>6. p'.tree = x /\ p'.toml = r
    BY <2>5 DEF Project
  <2>7. ProjectType(p)'
    BY <1>0, <2>2, <2>4, <2>5, ProjectParts, PartsProject DEF RegisteredAs
  <2>8. Placed(Canonical, Release, {})
    BY <2>2, <2>6 DEF Placed, t
  <2> QED BY <2>4, <2>5, <2>6, <2>7, <2>8
<1> QED BY <1>1, <1>2 DEF InitKit, Only

\* A bundled kit that is installed and not registered.
LEMMA InitKitUnregisteredEffect ==
  ASSUME TypeOK, InitKitUnregistered
  PROVE  /\ p' = Project(p.core, p.whatsnew, p.agents, p'.tree, p'.toml, p.reg, p.cfg, p.gen, p.root)
         /\ TreeType(p'.tree) /\ SameOrTorn /\ Placed(Canonical, Release, {})
<1> DEFINE t == p.tree
           x == Put(t, <<"config", Canonical>>, Release)
<1>0. /\ ProjectType(p) /\ TreeType(t) /\ <<"config", Canonical>> \in Places \X Slugs
  BY ProjectFacts, SetupAssumption, PlaceNames DEF Bundled
<1>1. PICK toml \in Unwritten(p.toml) : p' = [p EXCEPT !.tree = x, !.toml = toml]
  BY DEF InitKitUnregistered
<1>2. ItemsType(Release)
  BY RegularItems DEF ItemsType, Release, Contents
<1> HIDE DEF t
<1>3. /\ TreeType(x) /\ DOMAIN x = DOMAIN t \cup {<<"config", Canonical>>}
      /\ x[<<"config", Canonical>>] = Release
      /\ \A l \in DOMAIN t \ {<<"config", Canonical>>} : x[l] = t[l]
  BY <1>0, <1>2 DEF TreeType, Put
<1> HIDE DEF x
<1>4. p' = Project(p.core, p.whatsnew, p.agents, x, toml, p.reg, p.cfg, p.gen, p.root)
  BY <1>0, <1>1, TwoUpdates
<1>5. p'.tree = x /\ p'.toml = toml
  BY <1>4 DEF Project
<1>6. Placed(Canonical, Release, {})
  BY <1>3, <1>5 DEF Placed, t
<1>7. SameOrTorn
  BY <1>5, UnwrittenToml DEF SameOrTorn
<1> QED BY <1>3, <1>4, <1>5, <1>6, <1>7

\* The steps after the kits each write one part of the project.
LEMMA TailEffect ==
  ASSUME TypeOK
  PROVE  /\ regenerate_gen_aggregates => SetGen(Aggregate(p.tree)) /\ ProjectType(p)'
         /\ Scaffold => SetCfg(_ensure_file(p.cfg, ConfigFiles)) /\ ProjectType(p)'
         /\ Inject => SetRoot(_inject_root(p.root)) /\ ProjectType(p)'
         /\ _maybe_regenerate_agents =>
              /\ SetAgents(IF cmd.changed /\ p.agents # 0 THEN cache ELSE p.agents)
              /\ ProjectType(p)'
         /\ InitSkill => SetCfg(_ensure_file(p.cfg, {"SKILL.md"})) /\ ProjectType(p)'
<1>0. ProjectType(p) /\ p.cfg \in CfgType /\ p.agents \in Versions /\ cache \in Versions
  BY ProjectFacts, CacheFact
<1>1. ASSUME regenerate_gen_aggregates PROVE SetGen(Aggregate(p.tree)) /\ ProjectType(p)'
  <2>1. SetGen(Aggregate(p.tree))
    BY <1>0, <1>1, Updates DEF regenerate_gen_aggregates, Only
  <2>2. Aggregate(p.tree) \in GenType
    BY DEF Aggregate, GenType
  <2> QED BY <1>0, <2>1, <2>2, SetGenEffect
<1>2. ASSUME Scaffold PROVE SetCfg(_ensure_file(p.cfg, ConfigFiles)) /\ ProjectType(p)'
  <2>1. SetCfg(_ensure_file(p.cfg, ConfigFiles))
    BY <1>0, <1>2, Updates DEF Scaffold, Only
  <2> QED BY <1>0, <2>1, EnsuredType, SetCfgEffect
<1>3. ASSUME Inject PROVE SetRoot(_inject_root(p.root)) /\ ProjectType(p)'
  <2>1. SetRoot(_inject_root(p.root))
    BY <1>0, <1>3, Updates DEF Inject, Only
  <2>2. _inject_root(p.root) \in RootType
    BY DEF _inject_root, RootType
  <2> QED BY <1>0, <2>1, <2>2, SetRootEffect
<1>4. ASSUME _maybe_regenerate_agents
      PROVE  /\ SetAgents(IF cmd.changed /\ p.agents # 0 THEN cache ELSE p.agents)
             /\ ProjectType(p)'
  <2>1. CASE cmd.changed /\ p.agents # 0
    <3>1. SetAgents(cache)
      BY <1>0, <1>4, <2>1, Updates DEF _maybe_regenerate_agents, Only
    <3> QED BY <1>0, <2>1, <3>1, SetAgentsEffect
  <2>2. CASE ~(cmd.changed /\ p.agents # 0)
    <3>1. p' = p
      BY <1>4, <2>2 DEF _maybe_regenerate_agents, Only
    <3> QED BY <1>0, <2>2, <3>1, SameProject
  <2> QED BY <2>1, <2>2
<1>5. ASSUME InitSkill PROVE SetCfg(_ensure_file(p.cfg, {"SKILL.md"})) /\ ProjectType(p)'
  <2>1. SetCfg(_ensure_file(p.cfg, {"SKILL.md"}))
    BY <1>0, <1>5, Updates DEF InitSkill, Only
  <2> QED BY <1>0, <2>1, EnsuredType, SetCfgEffect
<1> QED BY <1>1, <1>2, <1>3, <1>4, <1>5

\* init writes artifacts.toml.
LEMMA InitRegistryEffect ==
  ASSUME TypeOK, InitRegistry
  PROVE  SetReg(p'.reg) /\ ProjectType(p)'
<1> DEFINE r == [state |-> "ok", kit |-> IF cmd.installed THEN Canonical ELSE ""]
<1>0. ProjectType(p) /\ p.reg \in RegType
  BY ProjectFacts
<1>1. CASE p' = p
  <2>1. SetReg(p.reg) /\ p'.reg = p.reg
    BY <1>0, <1>1, ProjectParts DEF SetReg
  <2> QED BY <1>0, <1>1, <2>1
<1>2. CASE p' = [p EXCEPT !.reg = r]
  <2>1. r \in RegType
    BY SetupAssumption DEF RegType, Bundled
  <2> HIDE DEF r
  <2>2. SetReg(r)
    BY <1>0, <1>2, Updates
  <2> QED BY <1>0, <2>1, <2>2, SetRegEffect
<1> QED BY <1>1, <1>2 DEF InitRegistry, Only

\* A write of core.toml that dies leaves it torn.
LEMMA TearEffect ==
  ASSUME TypeOK, DiesWritingToml
  PROVE  SetToml(p'.toml) /\ p'.toml.state = "torn" /\ ProjectType(p)'
<1> DEFINE x == [p.toml EXCEPT !.state = "torn"]
<1>0. ProjectType(p) /\ TomlOK(p.toml)
  BY ProjectFacts
<1>1. SetToml(x)
  BY <1>0, Updates DEF DiesWritingToml
<1>2. TomlOK(x) /\ x.state = "torn"
  BY <1>0 DEF TomlOK
<1> HIDE DEF x
<1> QED BY <1>0, <1>1, <1>2, SetTomlEffect

\* The steps at which the code passes over a failing write or removal.
Overlooks == \/ LayoutRemoveSkips \/ BlueprintsStay \/ SystemUnwritten \/ DedupUnwritten
             \/ SourcesUnwritten \/ KitUnregistered \/ InitKitUnregistered

\* They move no kit to another path, bring back no [system], and may tear
\* core.toml.
TomlKept == /\ TomlOK(p'.toml) /\ p'.toml.state \in {p.toml.state, "torn"}
            /\ p'.toml.system = p.toml.system
            /\ DOMAIN p'.toml.kits \subseteq DOMAIN p.toml.kits
            /\ \A s \in DOMAIN p'.toml.kits : p'.toml.kits[s].path = p.toml.kits[s].path

\* The parts of the project they leave alone.
LEMMA OverlooksProject ==
  ASSUME TypeOK, TodoThere, Overlooks
  PROVE  /\ p' = Project(p.core, p.whatsnew, p.agents, p'.tree, p'.toml, p'.reg, p.cfg, p.gen, p.root)
         /\ TreeType(p'.tree) /\ TomlKept /\ p'.reg \in RegType
<1>0. ProjectType(p) /\ TreeType(p.tree) /\ TomlOK(p.toml) /\ p.reg \in RegType
  BY ProjectFacts
<1>1. SameOrTorn => TomlKept
  BY DEF SameOrTorn, TomlKept
<1>2. CASE LayoutRemoveSkips \/ BlueprintsStay
  <2>1. TreeStep
    BY <1>2, LayoutRemoveSkipsEffect, BlueprintsStayEffect
  <2>2. p'.toml = p.toml /\ p'.reg = p.reg
    BY <1>0, <2>1, SetTreeEffect DEF TreeStep
  <2> QED BY <1>0, <2>1, <2>2 DEF TreeStep, SetTree, TomlKept
<1>3. CASE SystemUnwritten \/ SourcesUnwritten
  <2>1. TomlStep /\ SameOrTorn
    BY <1>3, SystemUnwrittenEffect, SourcesUnwrittenEffect
  <2>2. p'.tree = p.tree /\ p'.reg = p.reg
    BY <1>0, <2>1, SetTomlEffect DEF TomlStep
  <2> QED BY <1>0, <1>1, <2>1, <2>2 DEF TomlStep, SetToml
<1>4. CASE DedupUnwritten
  <2>1. p' = Project(p.core, p.whatsnew, p.agents, p.tree, p'.toml, p'.reg, p.cfg, p.gen, p.root)
    BY <1>4, DedupUnwrittenEffect
  <2>2. p'.tree = p.tree
    BY <2>1 DEF Project
  <2>3. TomlKept /\ p'.reg \in RegType
    BY <1>4, DedupUnwrittenEffect DEF TomlKept
  <2> QED BY <1>0, <2>1, <2>2, <2>3
<1>5. CASE KitUnregistered \/ InitKitUnregistered
  <2>1. /\ p' = Project(p.core, p.whatsnew, p.agents, p'.tree, p'.toml, p.reg, p.cfg, p.gen, p.root)
        /\ TreeType(p'.tree) /\ SameOrTorn
    BY <1>5, KitUnregisteredEffect, InitKitUnregisteredEffect
  <2>2. p'.reg = p.reg
    BY <2>1 DEF Project
  <2> QED BY <1>0, <1>1, <2>1, <2>2
<1> QED BY <1>2, <1>3, <1>4, <1>5 DEF Overlooks

\* Every step leaves a project.
LEMMA ProjectStep ==
  ASSUME TypeOK, TodoThere, Next
  PROVE  ProjectType(p)'
<1>0. ProjectType(p)
  BY ProjectFacts
<1>1. ASSUME \/ Upgrade \/ Report \/ StartLayoutGen \/ Dies
             \/ \E force, dry_run, ok \in BOOLEAN : cmd_init(force, dry_run, ok)
             \/ \E dry_run, ack \in BOOLEAN : cmd_update(dry_run, ack)
      PROVE  ProjectType(p)'
  <2>1. p' = p
    BY <1>1 DEF Upgrade, Report, StartLayoutGen, Dies, cmd_init, cmd_update, Refused, Only
  <2> QED BY <1>0, <2>1
<1>2. CASE UserEdits
  BY <1>2, EditEffect
<1>3. ASSUME \E s \in Slugs : LayoutKit(s) \/ LayoutKitFails(s) \/ LayoutRestoreFails(s) \/ LayoutBackupFails(s)
      PROVE  ProjectType(p)'
  BY <1>0, <1>3, LayoutKitEffect, LayoutKitFailsEffect, LayoutRestoreFailsEffect, LayoutBackupFailsEffect,
     TreeStepType
<1>4. ASSUME LayoutGen \/ LayoutGenFails \/ LayoutRemove \/ LayoutRemoveDies \/ _cleanup_legacy_blueprint_dirs
      PROVE  ProjectType(p)'
  BY <1>0, <1>4, LayoutGenEffect, LayoutGenFailsEffect, LayoutRemoveEffect, LayoutRemoveDiesEffect,
     BlueprintsEffect, TreeStepType
<1>5. CASE LayoutPaths
  <2>1. CASE p.toml.state = "torn"
    BY <1>0, <1>5, <2>1 DEF LayoutPaths
  <2>2. CASE p.toml.state # "torn"
    BY <1>0, <1>5, <2>2, PathsEffect, TomlStepType
  <2> QED BY <2>1, <2>2
<1>6. CASE _remove_system_from_core_toml
  BY <1>0, <1>6, SystemEffect, TomlStepType
<1>7. CASE _migrate_kit_sources
  BY <1>0, <1>7, SourcesEffect, TomlStepType
<1>8. CASE _deduplicate_legacy_kits
  <2>1. /\ p' = Project(p.core, p.whatsnew, p.agents, p.tree, p'.toml, p'.reg, p.cfg, p.gen, p.root)
        /\ TomlOK(p'.toml) /\ p'.reg \in RegType
    BY <1>8, DedupEffect
  <2>2. ProjectType(Project(p.core, p.whatsnew, p.agents, p.tree, p'.toml, p'.reg, p.cfg, p.gen, p.root))
    BY <1>0, <2>1, ProjectParts, PartsProject
  <2> QED BY <2>1, <2>2
<1>9. CASE UpdateKits
  <2>1. /\ p' = Project(p.core, p.whatsnew, p.agents, p'.tree, p'.toml, p.reg, p.cfg, p.gen, p.root)
        /\ TreeType(p'.tree) /\ TomlOK(p'.toml)
    BY <1>9, UpdateKitsEffect DEF Registers
  <2>2. ProjectType(Project(p.core, p.whatsnew, p.agents, p'.tree, p'.toml, p.reg, p.cfg, p.gen, p.root))
    BY <1>0, <2>1, ProjectParts, PartsProject
  <2> QED BY <2>1, <2>2
<1>10. ASSUME CopyCoreDir \/ CopyCoreDirDies \/ FinishCore
       PROVE  ProjectType(p)'
  BY <1>10, CopyCoreDirEffect, CopyCoreDirDiesEffect, FinishCoreEffect
<1>11. ASSUME \/ regenerate_gen_aggregates \/ Scaffold \/ Inject \/ _maybe_regenerate_agents \/ InitSkill
              \/ InitToml \/ InitKit \/ InitRegistry \/ DiesWritingToml
       PROVE  ProjectType(p)'
  BY <1>11, TailEffect, InitTomlEffect, InitKitEffect, InitRegistryEffect, TearEffect
<1>12. CASE Overlooks
  <2>1. /\ p' = Project(p.core, p.whatsnew, p.agents, p'.tree, p'.toml, p'.reg, p.cfg, p.gen, p.root)
        /\ TreeType(p'.tree) /\ TomlOK(p'.toml) /\ p'.reg \in RegType
    BY <1>12, OverlooksProject DEF TomlKept
  <2>2. ProjectType(Project(p.core, p.whatsnew, p.agents, p'.tree, p'.toml, p'.reg, p.cfg, p.gen, p.root))
    BY <1>0, <2>1, ProjectParts, PartsProject
  <2> QED BY <2>1, <2>2
<1> QED BY <1>1, <1>2, <1>3, <1>4, <1>5, <1>6, <1>7, <1>8, <1>9, <1>10, <1>11, <1>12 DEF Next, Overlooks

-----------------------------------------------------------------------------
(* The type of a command's state.                                          *)

\* The steps a command may be at.
LEMMA AllPCs ==
  PCs = {"idle", "core", "layout", "layout_gen", "layout_remove", "blueprints", "system", "dedup",
         "sources", "kits", "scaffold", "inject", "agents", "report", "init_toml", "init_kit",
         "init_registry", "init_gen", "init_skill", "init_inject"}
BY DEF PCs, InitPCs, UpdatePCs, LayoutPCs, FromBlueprints, FromSystem, FromDedup, FromSources,
       FromKits, FromScaffold, FromInject, FromAgents

\* No command is running.
LEMMA NoCmdType == NoCmd \in CmdType /\ NoCmd.moved \cap NoCmd.failed = {}
<1>1. 1 \in 1..(Len(CoreOrder) + 1)
  BY VersionFacts
<1>2. "idle" \in PCs
  BY AllPCs
<1> QED BY <1>1, <1>2 DEF NoCmd, CmdType

\* The types of the local state of the command.
LEMMA CmdFacts ==
  ASSUME TypeOK
  PROVE  /\ cmd \in CmdType /\ cmd.moved \cap cmd.failed = {} /\ (cmd.pc = "idle" => cmd = NoCmd)
         /\ cmd.todo \subseteq Slugs
BY TypeParts DEF Parts, CmdOK, CmdType

\* A command goes on to another step.
LEMMA GotoCmd ==
  ASSUME TypeOK, NEW pc \in PCs \ {"idle"}, NEW todo, todo \subseteq Slugs,
         Goto(pc) \/ GotoWith(pc, todo)
  PROVE  /\ CmdOK' /\ cmd'.pc = pc /\ cmd'.at = 1 /\ cmd'.kind = cmd.kind /\ cmd'.force = cmd.force
         /\ cmd'.moved = cmd.moved /\ cmd'.failed = cmd.failed /\ cmd'.changed = cmd.changed
         /\ cmd'.errors = cmd.errors /\ cmd'.silent = cmd.silent
         /\ Goto(pc) => cmd'.todo = cmd.todo
         /\ GotoWith(pc, todo) => cmd'.todo = todo
<1>1. 1 \in 1..(Len(CoreOrder) + 1)
  BY VersionFacts
<1>2. cmd \in CmdType /\ cmd.moved \cap cmd.failed = {}
  BY CmdFacts
<1>3. CASE Goto(pc)
  <2>1. /\ cmd' \in CmdType /\ cmd'.pc = pc /\ cmd'.at = 1 /\ cmd'.kind = cmd.kind /\ cmd'.force = cmd.force
        /\ cmd'.moved = cmd.moved /\ cmd'.failed = cmd.failed /\ cmd'.changed = cmd.changed
        /\ cmd'.errors = cmd.errors /\ cmd'.todo = cmd.todo /\ cmd'.silent = cmd.silent
    BY <1>1, <1>2, <1>3 DEF Goto, CmdType
  <2>2. ASSUME GotoWith(pc, todo) PROVE cmd'.todo = todo
    BY <1>2, <2>2 DEF GotoWith, CmdType
  <2> QED BY <1>2, <2>1, <2>2 DEF CmdOK
<1>4. CASE GotoWith(pc, todo)
  <2>1. /\ cmd' \in CmdType /\ cmd'.pc = pc /\ cmd'.at = 1 /\ cmd'.kind = cmd.kind /\ cmd'.force = cmd.force
        /\ cmd'.moved = cmd.moved /\ cmd'.failed = cmd.failed /\ cmd'.changed = cmd.changed
        /\ cmd'.errors = cmd.errors /\ cmd'.todo = todo /\ cmd'.silent = cmd.silent
    BY <1>1, <1>2, <1>4 DEF GotoWith, CmdType
  <2>2. ASSUME Goto(pc) PROVE cmd'.todo = cmd.todo
    BY <1>2, <2>2 DEF Goto, CmdType
  <2> QED BY <1>2, <2>1, <2>2 DEF CmdOK
<1> QED BY <1>3, <1>4

\* The layout migration goes on to the next kit.
LEMMA NextKitCmd ==
  ASSUME TypeOK, NEW s \in Slugs, NEW ok \in BOOLEAN, NextKit(s, ok), ok => s \notin cmd.failed,
         cmd.pc # "idle"
  PROVE  /\ CmdOK' /\ cmd'.pc = cmd.pc /\ cmd'.kind = cmd.kind /\ cmd'.force = cmd.force
         /\ cmd'.at = cmd.at /\ cmd'.changed = cmd.changed /\ cmd'.errors = cmd.errors
         /\ cmd'.todo = cmd.todo \ {s} /\ cmd'.silent = cmd.silent
         /\ cmd'.failed = IF ok THEN cmd.failed ELSE cmd.failed \cup {s}
         /\ cmd'.moved = IF ok THEN cmd.moved \cup {s} ELSE cmd.moved \ {s}
<1>1. cmd \in CmdType /\ cmd.moved \cap cmd.failed = {}
  BY CmdFacts
<1>2. /\ cmd'.pc = cmd.pc /\ cmd'.kind = cmd.kind /\ cmd'.force = cmd.force
      /\ cmd'.at = cmd.at /\ cmd'.changed = cmd.changed /\ cmd'.errors = cmd.errors
      /\ cmd'.installed = cmd.installed /\ cmd'.silent = cmd.silent
      /\ cmd'.todo = cmd.todo \ {s}
      /\ cmd'.failed = IF ok THEN cmd.failed ELSE cmd.failed \cup {s}
      /\ cmd'.moved = IF ok THEN cmd.moved \cup {s} ELSE cmd.moved \ {s}
  BY <1>1 DEF NextKit, CmdType
<1>3. cmd' \in CmdType
  BY <1>1 DEF NextKit, CmdType
<1>4. cmd'.moved \cap cmd'.failed = {}
  BY <1>1, <1>2
<1> QED BY <1>2, <1>3, <1>4 DEF CmdOK

\* A command that starts.
Starts(kind, force) == cmd' = [NoCmd EXCEPT !.pc = "core", !.kind = kind, !.force = force]

\* A command starts at the copy of .core/ with nothing done.
LEMMA StartCmd ==
  ASSUME NEW kind \in {"init", "update"}, NEW force \in BOOLEAN, Starts(kind, force)
  PROVE  /\ CmdOK' /\ cmd'.pc = "core" /\ cmd'.kind = kind /\ cmd'.force = force /\ cmd'.at = 1
         /\ cmd'.failed = {} /\ cmd'.errors = FALSE /\ cmd'.silent = {}
<1>1. NoCmd \in CmdType /\ "core" \in PCs /\ NoCmd.moved = {} /\ NoCmd.failed = {} /\ NoCmd.at = 1
      /\ NoCmd.errors = FALSE /\ NoCmd.silent = {}
  BY NoCmdType, AllPCs DEF NoCmd
<1>2. /\ cmd' \in CmdType /\ cmd'.pc = "core" /\ cmd'.kind = kind /\ cmd'.force = force
      /\ cmd'.at = NoCmd.at /\ cmd'.failed = NoCmd.failed /\ cmd'.moved = NoCmd.moved
      /\ cmd'.errors = NoCmd.errors /\ cmd'.silent = NoCmd.silent
  BY <1>1 DEF Starts, CmdType
<1> QED BY <1>1, <1>2 DEF CmdOK

\* When no command is running the phase invariants ask nothing.
LEMMA StopCmd ==
  ASSUME cmd' = NoCmd
  PROVE  /\ CmdOK' /\ cmd'.pc = "idle" /\ cmd'.kind = "none"
         /\ TodoThere' /\ UpdatePhase' /\ InitPhase' /\ BackupPhase' /\ ReportPhase'
<1>1. CmdOK'
  BY NoCmdType DEF CmdOK
<1>2. cmd'.pc = "idle" /\ cmd'.kind = "none"
  BY DEF NoCmd
<1> QED BY <1>1, <1>2 DEF TodoThere, UpdatePhase, InitPhase, BackupPhase, ReportPhase

\* The steps after which the process is gone.
Stops == \/ CopyCoreDirDies \/ LayoutRemoveDies \/ Report \/ Dies \/ DiesWritingToml
         \/ LayoutPaths /\ p.toml.state = "torn"
         \/ \E s \in Slugs : LayoutRestoreFails(s)

\* The steps after which no command is running.
LEMMA StopsCmd == Stops => cmd' = NoCmd
BY DEF Stops, CopyCoreDirDies, LayoutRemoveDies, Report, Dies, DiesWritingToml, LayoutPaths, LayoutRestoreFails,
       Died

\* The copy of .core/ goes on to the next directory.
LEMMA CopyCmd ==
  ASSUME TypeOK, CopyCoreDir
  PROVE  /\ CmdOK' /\ cmd.pc = "core" /\ cmd'.pc = "core" /\ cmd'.kind = cmd.kind
         /\ cmd'.force = cmd.force /\ cmd'.at = cmd.at + 1 /\ cmd'.failed = cmd.failed
         /\ cmd'.todo = cmd.todo /\ cmd'.errors = cmd.errors /\ cmd'.silent = cmd.silent
         /\ cmd.at \in 1..Len(CoreOrder)
         /\ cmd'.changed <=> (cmd.changed \/ ~Skips(CoreOrder[cmd.at]))
<1> DEFINE c == cmd.changed \/ ~Skips(CoreOrder[cmd.at])
<1>1. cmd \in CmdType /\ cmd.moved \cap cmd.failed = {} /\ cmd.pc = "core" /\ cmd.at <= Len(CoreOrder)
  BY CmdFacts DEF CopyCoreDir, At1
<1>2. cmd.at \in 1..Len(CoreOrder) /\ cmd.at + 1 \in 1..(Len(CoreOrder) + 1)
  BY <1>1, VersionFacts DEF CmdType
<1>3. cmd' = [cmd EXCEPT !.at = cmd.at + 1, !.changed = c]
  BY Zenon DEF CopyCoreDir
<1>4. c \in BOOLEAN
  BY <1>1 DEF CmdType
<1> HIDE DEF c
<1>5. /\ cmd' \in CmdType /\ cmd'.pc = cmd.pc /\ cmd'.kind = cmd.kind /\ cmd'.force = cmd.force
      /\ cmd'.at = cmd.at + 1 /\ cmd'.failed = cmd.failed /\ cmd'.todo = cmd.todo
      /\ cmd'.errors = cmd.errors /\ cmd'.moved = cmd.moved /\ cmd'.changed = c
      /\ cmd'.silent = cmd.silent
  BY <1>1, <1>2, <1>3, <1>4 DEF CmdType
<1>6. cmd'.changed <=> c
  BY <1>5
<1> QED BY <1>1, <1>2, <1>5, <1>6 DEF CmdOK, c

\* The migration of .gen/kits works off one kit.
LEMMA GenCmd ==
  ASSUME TypeOK, TodoThere, LayoutGen
  PROVE  /\ CmdOK' /\ cmd'.pc = "layout_gen" /\ cmd.pc = "layout_gen" /\ cmd'.kind = cmd.kind
         /\ cmd'.force = cmd.force /\ cmd'.failed = cmd.failed /\ cmd'.changed = cmd.changed
         /\ cmd'.todo = cmd.todo \ {FirstOf(cmd.todo)} /\ cmd'.silent = cmd.silent
<1> DEFINE s == FirstOf(cmd.todo)
<1>1. cmd \in CmdType /\ cmd.moved \cap cmd.failed = {} /\ cmd.pc = "layout_gen" /\ s \in Slugs
  BY CmdFacts, AtGenFact DEF LayoutGen, At1
<1>2. cmd' = [cmd EXCEPT !.todo = @ \ {s}, !.moved = IF s \in cmd.failed THEN @ ELSE @ \cup {s}]
  BY DEF LayoutGen
<1> HIDE DEF s
<1>3. /\ cmd' \in CmdType /\ cmd'.pc = cmd.pc /\ cmd'.kind = cmd.kind
      /\ cmd'.force = cmd.force /\ cmd'.failed = cmd.failed /\ cmd'.changed = cmd.changed
      /\ cmd'.todo = cmd.todo \ {s} /\ cmd'.silent = cmd.silent
      /\ cmd'.moved = IF s \in cmd.failed THEN cmd.moved ELSE cmd.moved \cup {s}
  BY <1>1, <1>2 DEF CmdType
<1> QED BY <1>1, <1>3 DEF CmdOK, s

\* The update of the kits works off one kit and forgets no error.
LEMMA KitsCmd ==
  ASSUME TypeOK, TodoThere, UpdateKits, NEW s, s = FirstOf(cmd.todo)
  PROVE  /\ CmdOK' /\ cmd'.pc = "kits" /\ cmd.pc = "kits" /\ cmd'.kind = cmd.kind
         /\ cmd'.force = cmd.force /\ cmd'.failed = cmd.failed /\ cmd'.changed = cmd.changed
         /\ cmd'.todo = cmd.todo \ {s} /\ cmd'.silent = cmd.silent
         /\ cmd.errors => cmd'.errors
<1>1. cmd \in CmdType /\ cmd.moved \cap cmd.failed = {} /\ cmd.pc = "kits" /\ s \in Slugs
  BY CmdFacts, AtKitsFact DEF UpdateKits, At1
<1>2. \/ cmd' = [cmd EXCEPT !.todo = @ \ {s}]
      \/ cmd' = [[cmd EXCEPT !.todo = @ \ {s}] EXCEPT !.errors = TRUE]
  BY DEF UpdateKits
<1>3. /\ cmd' \in CmdType /\ cmd'.pc = cmd.pc /\ cmd'.kind = cmd.kind
      /\ cmd'.force = cmd.force /\ cmd'.failed = cmd.failed /\ cmd'.changed = cmd.changed
      /\ cmd'.todo = cmd.todo \ {s} /\ cmd'.moved = cmd.moved /\ cmd'.silent = cmd.silent
      /\ cmd'.errors \in {cmd.errors, TRUE}
  <2> DEFINE c == [cmd EXCEPT !.todo = @ \ {s}]
  <2>1. /\ c \in CmdType /\ c.pc = cmd.pc /\ c.kind = cmd.kind
        /\ c.force = cmd.force /\ c.failed = cmd.failed /\ c.changed = cmd.changed
        /\ c.todo = cmd.todo \ {s} /\ c.moved = cmd.moved /\ c.errors = cmd.errors
        /\ c.silent = cmd.silent
    BY <1>1 DEF CmdType
  <2>2. cmd' = c \/ cmd' = [c EXCEPT !.errors = TRUE]
    BY <1>2
  <2> HIDE DEF c
  <2>3. CASE cmd' = c
    BY <2>1, <2>3
  <2>4. CASE cmd' = [c EXCEPT !.errors = TRUE]
    BY <2>1, <2>4 DEF CmdType
  <2> QED BY <2>2, <2>3, <2>4
<1> QED BY <1>1, <1>3 DEF CmdOK

\* From the kit, init goes on to artifacts.toml.
LEMMA InitKitCmd ==
  ASSUME TypeOK, InitKit
  PROVE  /\ CmdOK' /\ cmd'.pc = "init_registry" /\ cmd.pc = "init_kit" /\ cmd'.kind = cmd.kind
         /\ cmd'.force = cmd.force
<1>1. cmd \in CmdType /\ cmd.moved \cap cmd.failed = {} /\ cmd.pc = "init_kit" /\ "init_registry" \in PCs
  BY CmdFacts, AllPCs DEF InitKit, At1
<1>2. \/ \E e, t \in BOOLEAN : cmd' = [cmd EXCEPT !.pc = "init_registry", !.errors = e, !.installed = t]
      \/ cmd' = [cmd EXCEPT !.pc = "init_registry", !.installed = TRUE]
  BY DEF InitKit
<1>3. /\ cmd' \in CmdType /\ cmd'.pc = "init_registry" /\ cmd'.kind = cmd.kind
      /\ cmd'.force = cmd.force /\ cmd'.moved = cmd.moved /\ cmd'.failed = cmd.failed
  BY <1>1, <1>2 DEF CmdType
<1> QED BY <1>1, <1>3 DEF CmdOK

\* The steps that only go on to the next one, and where.
Onward(from, to) == cmd.pc = from /\ Goto(to)

\* Where each step leads.
LEMMA Onwards ==
  /\ FinishCore => cmd.pc = "core" /\ (cmd.kind # "update" => Goto("init_toml"))
  /\ FinishCore /\ cmd.kind = "update" =>
        IF OldLayout THEN GotoWith("layout", InPlace("kits")) ELSE Goto("blueprints")
  /\ LayoutPaths /\ p.toml.state # "torn" => Onward("layout_gen", "layout_remove")
  /\ LayoutRemove => Onward("layout_remove", "blueprints")
  /\ _cleanup_legacy_blueprint_dirs => Onward("blueprints", "system")
  /\ _remove_system_from_core_toml => Onward("system", "dedup")
  /\ _deduplicate_legacy_kits => Onward("dedup", "sources")
  /\ regenerate_gen_aggregates => \/ Onward("kits", "scaffold") /\ cmd.todo = {}
                                  \/ Onward("init_gen", "init_skill")
  /\ Scaffold => Onward("scaffold", "inject")
  /\ Inject => Onward("inject", "agents") \/ Onward("init_inject", "report")
  /\ _maybe_regenerate_agents => Onward("agents", "report")
  /\ InitToml => Onward("init_toml", "init_kit")
  /\ InitRegistry => Onward("init_registry", "init_gen")
  /\ InitSkill => Onward("init_skill", "init_inject")
  /\ StartLayoutGen => cmd.pc = "layout" /\ cmd.todo = {} /\ GotoWith("layout_gen", InPlace("gen"))
  /\ _migrate_kit_sources => cmd.pc = "sources" /\ GotoWith("kits", DOMAIN Kits)
BY DEF Onward, FinishCore, At1, LayoutPaths, LayoutRemove, _cleanup_legacy_blueprint_dirs,
       _remove_system_from_core_toml, _deduplicate_legacy_kits, regenerate_gen_aggregates, Scaffold,
       Inject, _maybe_regenerate_agents, InitToml, InitRegistry, InitSkill, StartLayoutGen,
       _migrate_kit_sources

\* Steps to which no list of directories belongs.
Plain == {"init_toml", "blueprints", "layout_remove", "system", "dedup", "sources", "scaffold",
          "init_skill", "inject", "agents", "report", "init_kit", "init_gen", "init_inject"}

\* Steps to which nothing is handed over.
LEMMA PlainStep ==
  ASSUME TypeOK, NEW to \in Plain, Goto(to)
  PROVE  CmdOK' /\ TodoThere'
<1>1. to \in PCs \ {"idle"} /\ to \notin {"core", "layout", "layout_gen", "kits"}
  BY AllPCs DEF Plain
<1>2. CmdOK' /\ cmd'.pc = to
  BY <1>1, GotoCmd
<1> QED BY <1>1, <1>2 DEF TodoThere

\* The command goes on from a step whose failure it passes over.
Silently(from, to) ==
    /\ cmd.pc = from /\ CmdOK' /\ cmd'.pc = to /\ cmd'.kind = cmd.kind /\ cmd'.force = cmd.force
    /\ cmd'.failed = cmd.failed /\ cmd'.changed = cmd.changed /\ cmd'.errors = cmd.errors
    /\ cmd'.silent = cmd.silent \cup {from}

\* The step is remembered.
LEMMA SilentGoto ==
  ASSUME TypeOK, NEW to \in Plain, NEW from, cmd.pc = from, GotoSilently(to)
  PROVE  Silently(from, to) /\ TodoThere'
<1>1. to \in PCs \ {"idle"} /\ to \notin {"core", "layout", "layout_gen", "kits"}
  BY AllPCs DEF Plain
<1>2. cmd \in CmdType /\ cmd.moved \cap cmd.failed = {} /\ 1 \in 1..(Len(CoreOrder) + 1)
  BY CmdFacts, VersionFacts
<1>3. /\ cmd' \in CmdType /\ cmd'.pc = to /\ cmd'.kind = cmd.kind /\ cmd'.force = cmd.force
      /\ cmd'.failed = cmd.failed /\ cmd'.moved = cmd.moved /\ cmd'.changed = cmd.changed
      /\ cmd'.errors = cmd.errors /\ cmd'.silent = cmd.silent \cup {from}
  BY <1>1, <1>2 DEF GotoSilently, CmdType
<1> QED BY <1>1, <1>2, <1>3 DEF Silently, CmdOK, TodoThere

\* The same for the steps that hand over a list of kits.
LEMMA SilentKits ==
  ASSUME TypeOK, TodoThere
  PROVE  /\ SourcesUnwritten => /\ Silently("sources", "kits") /\ TodoThere'
                                /\ DOMAIN Kits' \subseteq cmd'.todo
         /\ KitUnregistered => /\ Silently("kits", "kits") /\ TodoThere'
                               /\ cmd'.todo = cmd.todo \ {FirstOf(cmd.todo)}
         /\ InitKitUnregistered => /\ CmdOK' /\ TodoThere' /\ cmd.pc = "init_kit"
                                   /\ cmd'.pc = "init_registry" /\ cmd'.kind = cmd.kind
                                   /\ cmd'.force = cmd.force
<1>1. /\ cmd \in CmdType /\ cmd.moved \cap cmd.failed = {} /\ 1 \in 1..(Len(CoreOrder) + 1)
      /\ "kits" \in PCs /\ "sources" \in PCs /\ "init_registry" \in PCs
  BY CmdFacts, VersionFacts, AllPCs
<1>2. ASSUME SourcesUnwritten
      PROVE  Silently("sources", "kits") /\ TodoThere' /\ DOMAIN Kits' \subseteq cmd'.todo
  <2>1. PICK toml \in Unwritten(p.toml) :
           /\ p' = [p EXCEPT !.toml = toml]
           /\ cmd' = [cmd EXCEPT !.pc = "kits", !.at = 1, !.silent = @ \cup {"sources"},
                                 !.todo = IF toml.state = "ok" THEN DOMAIN Kits ELSE {}]
    BY <1>2 DEF SourcesUnwritten
  <2>2. cmd.pc = "sources" /\ DOMAIN Kits \subseteq Slugs /\ DOMAIN Kits \subseteq DOMAIN p.toml.kits
    BY <1>2, ProjectFacts, KitsFact DEF SourcesUnwritten, At1, KitsType
  <2> DEFINE d == IF toml.state = "ok" THEN DOMAIN Kits ELSE {}
  <2>3. d \subseteq Slugs /\ d \subseteq DOMAIN p.toml.kits
    BY <2>2
  <2>4. /\ TomlOK(toml) /\ toml.state \in {p.toml.state, "torn"}
        /\ toml.kits = p.toml.kits /\ toml.system = p.toml.system
    BY UnwrittenToml
  <2>5. p'.toml = toml
    BY <2>1, <2>4, TomlWrite, ProjectFacts
  <2>6. d \subseteq DOMAIN p'.toml.kits /\ DOMAIN Kits' = d
    <3>1. DOMAIN <<>> = {}
      OBVIOUS
    <3> QED BY <2>2, <2>3, <2>4, <2>5, <3>1, KitsFact DEF Kits
  <2> HIDE DEF d
  <2>7. /\ cmd' \in CmdType /\ cmd'.pc = "kits" /\ cmd'.kind = cmd.kind /\ cmd'.force = cmd.force
        /\ cmd'.failed = cmd.failed /\ cmd'.moved = cmd.moved /\ cmd'.changed = cmd.changed
        /\ cmd'.errors = cmd.errors /\ cmd'.silent = cmd.silent \cup {"sources"} /\ cmd'.todo = d
    BY <1>1, <2>1, <2>3 DEF CmdType, d
  <2> QED BY <1>1, <2>2, <2>6, <2>7 DEF Silently, CmdOK, TodoThere
<1>3. ASSUME KitUnregistered
      PROVE  Silently("kits", "kits") /\ TodoThere' /\ cmd'.todo = cmd.todo \ {FirstOf(cmd.todo)}
  <2>1. cmd.pc = "kits" /\ cmd.todo \subseteq DOMAIN p.toml.kits
    BY <1>3 DEF KitUnregistered, At1, TodoThere
  <2>2. cmd' = [cmd EXCEPT !.todo = @ \ {FirstOf(cmd.todo)}, !.silent = @ \cup {"kits"}]
    BY <1>3 DEF KitUnregistered
  <2>3. /\ cmd' \in CmdType /\ cmd'.pc = "kits" /\ cmd'.kind = cmd.kind /\ cmd'.force = cmd.force
        /\ cmd'.failed = cmd.failed /\ cmd'.moved = cmd.moved /\ cmd'.changed = cmd.changed
        /\ cmd'.errors = cmd.errors /\ cmd'.silent = cmd.silent \cup {"kits"}
        /\ cmd'.todo = cmd.todo \ {FirstOf(cmd.todo)}
    BY <1>1, <2>1, <2>2 DEF CmdType
  <2>4. p'.toml.kits = p.toml.kits
    BY <1>3, KitUnregisteredEffect DEF SameOrTorn
  <2>5. ~Done("kits")'
    BY <2>3 DEF Done
  <2> QED BY <1>1, <2>1, <2>3, <2>4, <2>5 DEF Silently, CmdOK, TodoThere
<1>4. ASSUME InitKitUnregistered
      PROVE  /\ CmdOK' /\ TodoThere' /\ cmd.pc = "init_kit"
             /\ cmd'.pc = "init_registry" /\ cmd'.kind = cmd.kind /\ cmd'.force = cmd.force
  <2>1. cmd.pc = "init_kit" /\ cmd' = [cmd EXCEPT !.pc = "init_registry", !.installed = TRUE]
    BY <1>4 DEF InitKitUnregistered, At1
  <2>2. /\ cmd' \in CmdType /\ cmd'.pc = "init_registry" /\ cmd'.kind = cmd.kind
        /\ cmd'.force = cmd.force /\ cmd'.moved = cmd.moved /\ cmd'.failed = cmd.failed
    BY <1>1, <2>1 DEF CmdType
  <2> QED BY <1>1, <2>1, <2>2 DEF CmdOK, TodoThere
<1> QED BY <1>2, <1>3, <1>4

\* Where each of those steps leads.
LEMMA OverlooksCmd ==
  ASSUME TypeOK, TodoThere, Overlooks
  PROVE  /\ CmdOK' /\ TodoThere'
         /\ \/ LayoutRemoveSkips /\ Silently("layout_remove", "blueprints")
            \/ BlueprintsStay /\ Silently("blueprints", "system")
            \/ SystemUnwritten /\ Silently("system", "dedup")
            \/ DedupUnwritten /\ Silently("dedup", "sources")
            \/ /\ SourcesUnwritten /\ Silently("sources", "kits")
               /\ DOMAIN Kits' \subseteq cmd'.todo
            \/ /\ KitUnregistered /\ Silently("kits", "kits")
               /\ cmd'.todo = cmd.todo \ {FirstOf(cmd.todo)}
            \/ /\ InitKitUnregistered /\ cmd.pc = "init_kit" /\ cmd'.pc = "init_registry"
               /\ cmd'.kind = cmd.kind /\ cmd'.force = cmd.force
<1>1. CASE LayoutRemoveSkips
  <2>1. cmd.pc = "layout_remove" /\ GotoSilently("blueprints") /\ "blueprints" \in Plain
    BY <1>1 DEF LayoutRemoveSkips, At1, Plain
  <2>2. Silently("layout_remove", "blueprints") /\ TodoThere'
    BY <2>1, SilentGoto
  <2> QED BY <1>1, <2>2 DEF Silently
<1>2. CASE BlueprintsStay
  <2>1. cmd.pc = "blueprints" /\ GotoSilently("system") /\ "system" \in Plain
    BY <1>2 DEF BlueprintsStay, At1, Plain
  <2>2. Silently("blueprints", "system") /\ TodoThere'
    BY <2>1, SilentGoto
  <2> QED BY <1>2, <2>2 DEF Silently
<1>3. CASE SystemUnwritten
  <2>1. cmd.pc = "system" /\ GotoSilently("dedup") /\ "dedup" \in Plain
    BY <1>3 DEF SystemUnwritten, At1, Plain
  <2>2. Silently("system", "dedup") /\ TodoThere'
    BY <2>1, SilentGoto
  <2> QED BY <1>3, <2>2 DEF Silently
<1>4. CASE DedupUnwritten
  <2>1. cmd.pc = "dedup" /\ GotoSilently("sources") /\ "sources" \in Plain
    BY <1>4 DEF DedupUnwritten, At1, Plain
  <2>2. Silently("dedup", "sources") /\ TodoThere'
    BY <2>1, SilentGoto
  <2> QED BY <1>4, <2>2 DEF Silently
<1>5. CASE SourcesUnwritten
  BY <1>5, SilentKits DEF Silently
<1>6. CASE KitUnregistered
  BY <1>6, SilentKits DEF Silently
<1>7. CASE InitKitUnregistered
  BY <1>7, SilentKits
<1> QED BY <1>1, <1>2, <1>3, <1>4, <1>5, <1>6, <1>7 DEF Overlooks

\* Every step leaves a state of a command, and a list of directories that
\* are there.
LEMMA CmdStep ==
  ASSUME TypeOK, TodoThere, Next
  PROVE  CmdOK' /\ TodoThere'
<1>0. ProjectType(p) /\ cmd \in CmdType
  BY ProjectFacts, CmdFacts
<1>1. ASSUME \/ \E force, dry_run, ok \in BOOLEAN : cmd_init(force, dry_run, ok)
             \/ \E dry_run, ack \in BOOLEAN : cmd_update(dry_run, ack)
      PROVE  CmdOK' /\ TodoThere'
  <2>1. cmd' = NoCmd \/ \E kind \in {"init", "update"}, force \in BOOLEAN : Starts(kind, force)
    BY <1>1 DEF cmd_init, cmd_update, Refused, Starts
  <2>2. CASE cmd' = NoCmd
    BY <2>2, StopCmd
  <2>3. ASSUME NEW kind \in {"init", "update"}, NEW force \in BOOLEAN, Starts(kind, force)
        PROVE  CmdOK' /\ TodoThere'
    BY <2>3, StartCmd DEF TodoThere
  <2> QED BY <2>1, <2>2, <2>3
<1>2. CASE Upgrade \/ UserEdits
  <2>1. cmd' = cmd /\ cmd.pc = "idle"
    BY <1>2 DEF Upgrade, UserEdits, Idle
  <2> QED BY <2>1, CmdFacts DEF CmdOK, TodoThere
<1>3. CASE Stops
  BY <1>3, StopsCmd, StopCmd
<1>4. CASE CopyCoreDir
  BY <1>4, CopyCmd DEF TodoThere
<1>5. CASE FinishCore
  <2>1. p'.tree = p.tree /\ cmd.failed = {}
    <3>1. cmd.kind = "update" => p'.tree = p.tree
      BY <1>0, <1>5, FinishCoreEffect, SetWhatsnewEffect
    <3>2. cmd.kind # "update" => p'.tree = p.tree
      BY <1>5, FinishCoreEffect DEF Project
    <3> QED BY <1>5, <3>1, <3>2, Onwards DEF TodoThere
  <2>2. CASE GotoWith("layout", InPlace("kits"))
    <3>1. "layout" \in PCs \ {"idle"} /\ InPlace("kits") \subseteq Slugs
      BY AllPCs DEF InPlace
    <3>2. CmdOK' /\ cmd'.pc = "layout" /\ cmd'.todo = InPlace("kits") /\ cmd'.failed = {}
      BY <2>1, <2>2, <3>1, GotoCmd
    <3>3. InPlace("kits")' = InPlace("kits")
      BY <2>1 DEF InPlace
    <3> QED BY <3>2, <3>3 DEF TodoThere
  <2>3. CASE Goto("blueprints") \/ Goto("init_toml")
    BY <2>3, PlainStep DEF Plain
  <2> QED BY <1>5, <2>2, <2>3, Onwards
<1>6. ASSUME NEW s \in Slugs, LayoutKit(s) \/ LayoutKitFails(s) \/ LayoutBackupFails(s)
      PROVE  CmdOK' /\ TodoThere'
  <2>1. AtKit(s) /\ cmd.pc = "layout" /\ s \in cmd.todo /\ s \notin cmd.failed
    BY <1>6, AtKitFact DEF LayoutKit, LayoutKitFails, LayoutBackupFails, AtKit, At1, TodoThere
  <2>2. DOMAIN p.tree \subseteq DOMAIN p'.tree
    BY <1>6, LayoutKitEffect, LayoutKitFailsEffect, LayoutBackupFailsEffect DEF Placed
  <2>3. cmd' = NoCmd \/ \E ok \in BOOLEAN : NextKit(s, ok)
    BY <1>6 DEF LayoutKit, LayoutKitFails, LayoutBackupFails, Died
  <2>4. CASE cmd' = NoCmd
    BY <2>4, StopCmd
  <2>5. ASSUME NEW ok \in BOOLEAN, NextKit(s, ok)
        PROVE  CmdOK' /\ TodoThere'
    <3>1. /\ CmdOK' /\ cmd'.pc = "layout" /\ cmd'.todo = cmd.todo \ {s}
          /\ cmd'.failed \subseteq cmd.failed \cup {s}
      BY <2>1, <2>5, NextKitCmd
    <3>2. InPlace("kits") \subseteq InPlace("kits")'
      BY <2>2 DEF InPlace
    <3> QED BY <2>1, <3>1, <3>2 DEF TodoThere
  <2> QED BY <2>3, <2>4, <2>5
<1>7. CASE StartLayoutGen
  <2>1. "layout_gen" \in PCs \ {"idle"} /\ InPlace("gen") \subseteq Slugs
    BY AllPCs DEF InPlace
  <2>2. CmdOK' /\ cmd'.pc = "layout_gen" /\ cmd'.todo = InPlace("gen")
    BY <1>7, <2>1, Onwards, GotoCmd
  <2>3. InPlace("gen")' = InPlace("gen")
    BY <1>7 DEF StartLayoutGen, Only, InPlace
  <2> QED BY <2>2, <2>3 DEF TodoThere
<1>8. CASE LayoutGen
  <2>1. DOMAIN p.tree \subseteq DOMAIN p'.tree
    BY <1>8, LayoutGenEffect DEF Placed
  <2>2. CmdOK' /\ cmd'.pc = "layout_gen" /\ cmd.pc = "layout_gen" /\ cmd'.todo \subseteq cmd.todo
    BY <1>8, GenCmd
  <2>3. InPlace("gen") \subseteq InPlace("gen")'
    BY <2>1 DEF InPlace
  <2> QED BY <2>2, <2>3 DEF TodoThere
<1>9. CASE LayoutGenFails
  <2>0. FirstOf(cmd.todo) \in Slugs /\ cmd.pc = "layout_gen" /\ NextKit(FirstOf(cmd.todo), FALSE)
    BY <1>9, AtGenFact DEF LayoutGenFails, At1
  <2>1. DOMAIN p.tree \subseteq DOMAIN p'.tree
    BY <1>9, LayoutGenFailsEffect DEF Placed
  <2>2. CmdOK' /\ cmd'.pc = "layout_gen" /\ cmd'.todo \subseteq cmd.todo
    BY <2>0, NextKitCmd
  <2>3. InPlace("gen") \subseteq InPlace("gen")'
    BY <2>1 DEF InPlace
  <2> QED BY <2>0, <2>2, <2>3 DEF TodoThere
<1>10. CASE _migrate_kit_sources
  <2>1. "kits" \in PCs \ {"idle"} /\ DOMAIN Kits \subseteq Slugs
    BY AllPCs, ProjectFacts, KitsFact DEF KitsType
  <2>2. CmdOK' /\ cmd'.pc = "kits" /\ cmd'.todo = DOMAIN Kits
    BY <1>10, <2>1, Onwards, GotoCmd
  <2>3. DOMAIN Kits' = DOMAIN Kits /\ DOMAIN p'.toml.kits = DOMAIN p.toml.kits
        /\ DOMAIN Kits \subseteq DOMAIN p.toml.kits
    BY <1>10, SourcesEffect, KitsFact
  <2> QED BY <2>2, <2>3 DEF TodoThere
<1>11. CASE UpdateKits
  <2>1. /\ CmdOK' /\ cmd'.pc = "kits" /\ cmd.pc = "kits" /\ cmd'.todo \subseteq cmd.todo
        /\ cmd'.silent = cmd.silent
    BY <1>11, KitsCmd
  <2>2. DOMAIN Kits' = DOMAIN Kits /\ DOMAIN p'.toml.kits = DOMAIN p.toml.kits
    BY <1>11, UpdateKitsEffect, KitsFact DEF Registers
  <2> QED BY <2>1, <2>2 DEF TodoThere, Done
<1>12. CASE InitKit
  BY <1>12, InitKitCmd DEF TodoThere
<1>13. ASSUME \/ LayoutPaths /\ p.toml.state # "torn"
              \/ LayoutRemove \/ _cleanup_legacy_blueprint_dirs
              \/ _remove_system_from_core_toml \/ _deduplicate_legacy_kits \/ regenerate_gen_aggregates
              \/ Scaffold \/ Inject \/ _maybe_regenerate_agents \/ InitToml \/ InitRegistry \/ InitSkill
       PROVE  CmdOK' /\ TodoThere'
  <2>1. \E to \in Plain : Goto(to)
    BY <1>13, Onwards DEF Onward, Plain
  <2> QED BY <2>1, PlainStep
<1>14. CASE Overlooks
  BY <1>14, OverlooksCmd
<1> QED BY <1>1, <1>2, <1>3, <1>4, <1>5, <1>6, <1>7, <1>8, <1>9, <1>10, <1>11, <1>12, <1>13, <1>14
  DEF Next, Stops, Overlooks

-----------------------------------------------------------------------------
(* What the model records about a run besides the project and the command. *)

\* The steps of a command at work, and those after which it is gone.
Works == \/ CopyCoreDir \/ FinishCore
         \/ \E s \in Slugs : LayoutKit(s)
         \/ StartLayoutGen \/ LayoutGen
         \/ LayoutPaths \/ LayoutRemove
         \/ _cleanup_legacy_blueprint_dirs \/ _remove_system_from_core_toml
         \/ _deduplicate_legacy_kits \/ _migrate_kit_sources
         \/ UpdateKits \/ regenerate_gen_aggregates \/ Scaffold \/ Inject
         \/ _maybe_regenerate_agents \/ InitToml \/ InitKit \/ InitRegistry \/ InitSkill
Fails == \/ CopyCoreDirDies
         \/ \E s \in Slugs : LayoutKitFails(s) \/ LayoutRestoreFails(s) \/ LayoutBackupFails(s)
         \/ LayoutGenFails \/ LayoutRemoveDies \/ Dies \/ DiesWritingToml

\* A step of a command at work leaves the history alone.
LEMMA WorksEffect ==
  Works => UNCHANGED <<cache, origin, backups, prev, commands, edits, faults>>
           /\ result' \in {result, "died"}
<1>1. ASSUME NEW s \in DOMAIN p.toml.kits, KitCurrent(s) \/ KitReviewed(s)
      PROVE  Quiet
  BY <1>1 DEF KitCurrent, KitReviewed, Only
<1>2. UpdateKits => Quiet
  BY DEF UpdateKits, KitCurrent, KitReviewed, KitFails, Only
<1> QED BY <1>2 DEF Works, At1, CopyCoreDir, FinishCore, LayoutKit, AtKit, StartLayoutGen, LayoutGen,
       LayoutPaths, LayoutRemove, _cleanup_legacy_blueprint_dirs, _remove_system_from_core_toml,
       _deduplicate_legacy_kits, _migrate_kit_sources, UpdateKits, regenerate_gen_aggregates, Scaffold,
       Inject, _maybe_regenerate_agents, InitToml, InitKit, InitRegistry, InitSkill, Only, Quiet,
       counters, Died

\* A step that fails records one fault.
LEMMA FailsEffect ==
  Fails => /\ UNCHANGED <<cache, origin, backups, prev, commands, edits>>
           /\ \E f \in Faults : faults' = Append(faults, f)
           /\ result' \in {result, "died", "unrestored"}
BY DEF Fails, CopyCoreDirDies, LayoutKitFails, LayoutRestoreFails, LayoutBackupFails, LayoutGenFails,
       LayoutRemoveDies, Dies, DiesWritingToml, At1, AtKit, Fault, Died

\* A failure that is passed over is recorded too.
LEMMA OverlooksEffect ==
  Overlooks => /\ UNCHANGED <<cache, origin, backups, prev, result, commands, edits>>
               /\ \E f \in {"write", "remove"} : f \in Faults /\ faults' = Append(faults, f)
BY DEF Overlooks, LayoutRemoveSkips, BlueprintsStay, SystemUnwritten, DedupUnwritten, SourcesUnwritten,
       KitUnregistered, InitKitUnregistered, At1, Fault, PassedOver

\* Every step is one of the user, of the cache, a start, work, a failure, one
\* that is passed over, or the report.
LEMMA Steps ==
  Next => \/ Upgrade \/ UserEdits
          \/ \E force, dry_run, ok \in BOOLEAN : cmd_init(force, dry_run, ok)
          \/ \E dry_run, ack \in BOOLEAN : cmd_update(dry_run, ack)
          \/ Works \/ Fails \/ Overlooks \/ Report
BY DEF Next, Works, Fails, Overlooks

\* Nothing is remembered of the time before the first update.
LEMMA NoPrevUnknown == NoPrev.known = FALSE
BY DEF NoPrev

\* The types of what is remembered.
LEMMA HistoryStep ==
  ASSUME TypeOK, Next
  PROVE  cache' \in 1..MaxVersion /\ HistoryOK' /\ FaultsOK' /\ origin' = origin
<1>0. cache \in 1..MaxVersion /\ HistoryOK /\ FaultsOK
  BY TypeParts DEF Parts
<1>1. CASE Works
  BY <1>0, <1>1, WorksEffect DEF HistoryOK, FaultsOK
<1>2. CASE Fails
  <2>1. /\ UNCHANGED <<cache, origin, prev>>
        /\ \E f \in Faults : faults' = Append(faults, f)
    BY <1>2, FailsEffect
  <2>2. FaultsOK'
    BY <1>0, <2>1 DEF FaultsOK
  <2> QED BY <1>0, <2>1, <2>2 DEF HistoryOK
<1>3. CASE Upgrade
  <2>1. cache' \in 1..MaxVersion
    BY <1>0, <1>3, VersionFacts DEF Upgrade
  <2> QED BY <1>0, <1>3, <2>1, NoPrevUnknown DEF Upgrade, Idle, HistoryOK, FaultsOK
<1>4. CASE UserEdits
  BY <1>0, <1>4, NoPrevUnknown DEF UserEdits, Idle, HistoryOK, FaultsOK
<1>5. ASSUME \E force, dry_run, ok \in BOOLEAN : cmd_init(force, dry_run, ok)
      PROVE  cache' \in 1..MaxVersion /\ HistoryOK' /\ FaultsOK' /\ origin' = origin
  <2>1. PICK force \in BOOLEAN, dry_run \in BOOLEAN, ok \in BOOLEAN : cmd_init(force, dry_run, ok)
    BY <1>5
  <2>2. /\ UNCHANGED <<cache, origin>> /\ prev' = NoPrev
        /\ faults' = faults \/ (faults' = Append(faults, "backup") /\ "backup" \in Faults)
    BY <2>1 DEF cmd_init, Start
  <2>3. FaultsOK'
    BY <1>0, <2>2 DEF FaultsOK
  <2> QED BY <1>0, <2>2, <2>3, NoPrevUnknown DEF HistoryOK
<1>6. ASSUME \E dry_run, ack \in BOOLEAN : cmd_update(dry_run, ack)
      PROVE  cache' \in 1..MaxVersion /\ HistoryOK' /\ FaultsOK' /\ origin' = origin
  <2>1. UNCHANGED <<cache, origin, prev, faults>>
    BY <1>6 DEF cmd_update, Start
  <2> QED BY <1>0, <2>1 DEF HistoryOK, FaultsOK
<1>7. CASE Report
  <2>1. UNCHANGED <<cache, origin, faults>>
        /\ (prev' = prev \/ prev' = NoPrev \/ prev' = [known |-> TRUE, project |-> p])
    <3>1. UNCHANGED <<cache, origin, faults>>
      BY <1>7 DEF Report, At1, counters
    <3>2. prev' = prev \/ prev' = NoPrev \/ prev' = [known |-> TRUE, project |-> p]
      BY <1>7, Zenon DEF Report
    <3> QED BY <3>1, <3>2
  <2>2. prev'.known \in BOOLEAN
    <3>1. [known |-> TRUE, project |-> p].known = TRUE
      OBVIOUS
    <3>2. prev.known \in BOOLEAN
      BY <1>0 DEF HistoryOK
    <3> QED BY <2>1, <3>1, <3>2, NoPrevUnknown, Zenon
  <2> QED BY <1>0, <2>1, <2>2 DEF HistoryOK, FaultsOK
<1>8. CASE Overlooks
  <2>1. /\ UNCHANGED <<cache, origin, prev>>
        /\ \E f \in Faults : faults' = Append(faults, f)
    BY <1>8, OverlooksEffect
  <2>2. FaultsOK'
    BY <1>0, <2>1 DEF FaultsOK
  <2> QED BY <1>0, <2>1, <2>2 DEF HistoryOK
<1> QED BY <1>1, <1>2, <1>3, <1>4, <1>5, <1>6, <1>7, <1>8, Steps

\* Every step preserves the types.
LEMMA TypeStep ==
  ASSUME TypeOK, TodoThere, Next
  PROVE  TypeOK' /\ TodoThere'
BY ProjectStep, CmdStep, HistoryStep, TypeParts DEF Parts

\* So does standing still.
LEMMA TypeStutter ==
  ASSUME TypeOK, TodoThere, UNCHANGED vars
  PROVE  TypeOK' /\ TodoThere'
BY DEF vars, TypeOK, TodoThere, InPlace, Kits, Done

\* The types hold initially.
LEMMA TypeInit == Init => TypeOK /\ TodoThere
<1> SUFFICES ASSUME Init PROVE TypeOK /\ TodoThere
  OBVIOUS
<1>1. ProjectType(p)
  BY SetupAssumption DEF Init
<1>2. cache \in 1..MaxVersion
  BY VersionFacts DEF Init
<1>3. CmdOK /\ TodoThere
  BY NoCmdType DEF Init, CmdOK, TodoThere, NoCmd
<1>4. ASSUME NEW s \in Slugs, <<"kits", s>> \in DOMAIN p.tree
      PROVE  DOMAIN p.tree[<<"kits", s>>] \ LegacyItems \subseteq FileItems \cup DirItems
  <2>1. DOMAIN p.tree[<<"kits", s>>] \subseteq AllItems
    BY <1>1, <1>4 DEF ProjectType, TreeType, ItemsType
  <2> QED BY <2>1 DEF AllItems
<1>5. HistoryOK /\ FaultsOK
  <2>1. prev.known \in BOOLEAN
    BY NoPrevUnknown, Zenon DEF Init
  <2>3. FaultsOK
    BY DEF Init, FaultsOK
  <2>2. DOMAIN origin \subseteq Slugs /\ \A s \in DOMAIN origin : origin[s] \subseteq FileItems \cup DirItems
    BY <1>4 DEF Init
  <2> QED BY <2>1, <2>2, <2>3 DEF HistoryOK
<1> QED BY <1>1, <1>2, <1>3, <1>5, TypeParts DEF Parts

-----------------------------------------------------------------------------
(* What an update has established at each of its steps.                    *)

\* The sets of steps, by their elements.
LEMMA PhasePCs ==
  /\ FromAgents = {"agents", "report"}
  /\ FromInject = {"inject", "agents", "report"}
  /\ FromScaffold = {"scaffold", "inject", "agents", "report"}
  /\ FromKits = {"kits", "scaffold", "inject", "agents", "report"}
  /\ FromSources = {"sources", "kits", "scaffold", "inject", "agents", "report"}
  /\ FromDedup = {"dedup", "sources", "kits", "scaffold", "inject", "agents", "report"}
  /\ FromSystem = {"system", "dedup", "sources", "kits", "scaffold", "inject", "agents", "report"}
  /\ FromBlueprints = {"blueprints", "system", "dedup", "sources", "kits", "scaffold", "inject",
                       "agents", "report"}
  /\ LayoutPCs = {"layout", "layout_gen", "layout_remove"}
  /\ UpdatePCs = {"core", "layout", "layout_gen", "layout_remove", "blueprints", "system", "dedup",
                  "sources", "kits", "scaffold", "inject", "agents", "report"}
BY DEF UpdatePCs, LayoutPCs, FromBlueprints, FromSystem, FromDedup, FromSources,
       FromKits, FromScaffold, FromInject, FromAgents

\* What was established stays as long as the files it is about do.
LEMMA Preserved ==
  /\ (p'.core = p.core /\ cache' = cache) => (CoreCurrent' <=> CoreCurrent)
  /\ p'.tree = p.tree => /\ \A S : Gone(S)' <=> Gone(S)
                         /\ NoLegacyItems' <=> NoLegacyItems
                         /\ OldLayout' <=> OldLayout
  /\ p'.toml = p.toml => /\ NoSystem' <=> NoSystem
                         /\ Kits' = Kits /\ Unsourced' = Unsourced
  /\ (p'.toml = p.toml /\ p'.reg = p.reg) => (OneSlug' <=> OneSlug)
  /\ (p'.toml = p.toml /\ p'.tree = p.tree) => \A S : Reviewed(S)' <=> Reviewed(S)
  /\ p'.cfg = p.cfg => (Scaffolded' <=> Scaffolded)
  /\ p'.root = p.root => (Announced' <=> Announced)
BY DEF CoreCurrent, Gone, NoLegacyItems, OldLayout, NoSystem, Kits, Unsourced, OneSlug, Reviewed,
       HasSource, IsCurrent, Unbound, Scaffolded, Announced

\* Copying a directory: it is current now.
LEMMA CopyUpdatePhase ==
  ASSUME TypeOK, UpdatePhase, CopyCoreDir
  PROVE  UpdatePhase'
<1> SUFFICES ASSUME cmd'.kind = "update" PROVE UpdatePhase'
  BY DEF UpdatePhase
<1> DEFINE d == CoreOrder[cmd.at]
<1>1. /\ cmd.pc = "core" /\ cmd'.pc = "core" /\ cmd.kind = "update" /\ cmd'.force = cmd.force
      /\ cmd'.at = cmd.at + 1 /\ cmd.at \in 1..Len(CoreOrder)
      /\ cmd'.changed <=> (cmd.changed \/ ~Skips(d))
  BY CopyCmd
<1>2. cmd.force /\ \A i \in 1..(cmd.at - 1) :
         CoreOrder[i] \in CacheDirs => p.core[CoreOrder[i]] = cache /\ cmd.changed
  BY <1>1 DEF UpdatePhase
<1>3. Skips(d) <=> d \notin CacheDirs
  BY <1>2 DEF Skips
<1>4. /\ p'.core = IF Skips(d) THEN p.core ELSE [p.core EXCEPT ![d] = cache]
      /\ p.core \in CoreType /\ d \in CoreDirs /\ cache' = cache
  BY CopyCoreDirEffect, ProjectFacts DEF CopyCoreDir, At1
<1>5. ASSUME NEW i \in 1..(cmd'.at - 1), CoreOrder[i] \in CacheDirs
      PROVE  p'.core[CoreOrder[i]] = cache /\ cmd'.changed
  <2>1. CASE i = cmd.at
    BY <1>1, <1>3, <1>4, <1>5, <2>1 DEF CoreType
  <2>2. CASE i # cmd.at
    <3>1. i \in 1..(cmd.at - 1)
      BY <1>1, <2>2, VersionFacts
    <3>2. p.core[CoreOrder[i]] = cache /\ cmd.changed /\ CoreOrder[i] \in CoreDirs
      BY <1>2, <1>5, <3>1, SetupAssumption
    <3> QED BY <1>1, <1>4, <3>2 DEF CoreType
  <2> QED BY <2>1, <2>2
<1> QED BY <1>1, <1>2, <1>4, <1>5, PhasePCs DEF UpdatePhase

\* The end of the copy: all directories are current.
LEMMA FinishUpdatePhase ==
  ASSUME TypeOK, TodoThere, UpdatePhase, FinishCore
  PROVE  UpdatePhase'
<1>0. cmd.pc = "core" /\ cmd \in CmdType /\ ProjectType(p)
  BY Onwards, CmdFacts, ProjectFacts
<1> SUFFICES ASSUME cmd'.kind = "update" PROVE UpdatePhase'
  BY DEF UpdatePhase
<1>1. cmd.kind = "update"
  <2>1. ASSUME cmd.kind # "update" PROVE FALSE
    <3>1. Goto("init_toml") /\ "init_toml" \in PCs \ {"idle"}
      BY <2>1, Onwards, AllPCs
    <3> QED BY <2>1, <3>1, GotoCmd
  <2> QED BY <2>1
<1>2. /\ p'.whatsnew = cache /\ p'.core = p.core /\ p'.tree = p.tree /\ cache' = cache
  BY <1>0, <1>1, FinishCoreEffect, SetWhatsnewEffect DEF FinishCore, At1
<1>3. cmd.force /\ \A i \in 1..(cmd.at - 1) :
         CoreOrder[i] \in CacheDirs => p.core[CoreOrder[i]] = cache /\ cmd.changed
  BY <1>0, <1>1 DEF UpdatePhase
<1>4. \A i \in 1..Len(CoreOrder) : i \in 1..(cmd.at - 1)
  BY <1>0, VersionFacts DEF FinishCore, CmdType
<1>5. ASSUME NEW d \in CacheDirs PROVE p.core[d] = cache /\ cmd.changed
  <2>1. PICK i \in 1..Len(CoreOrder) : CoreOrder[i] = d
    BY SetupAssumption, VersionFacts DEF CoreDirs
  <2> QED BY <1>3, <1>4, <2>1
<1>6. cmd.changed /\ CoreCurrent
  BY <1>5, SetupAssumption DEF CoreCurrent
<1>7. CoreCurrent'
  BY <1>2, <1>6, Preserved
<1>8. CASE OldLayout
  <2>1. GotoWith("layout", InPlace("kits")) /\ "layout" \in PCs \ {"idle"} /\ InPlace("kits") \subseteq Slugs
    BY <1>1, <1>8, Onwards, AllPCs DEF InPlace
  <2>2. cmd'.pc = "layout" /\ cmd'.force = cmd.force /\ cmd'.changed = cmd.changed
    BY <2>1, GotoCmd
  <2> QED BY <1>2, <1>3, <1>6, <1>7, <2>2, PhasePCs DEF UpdatePhase
<1>9. CASE ~OldLayout
  <2>1. Goto("blueprints") /\ "blueprints" \in PCs \ {"idle"}
    BY <1>1, <1>9, Onwards, AllPCs
  <2>2. cmd'.pc = "blueprints" /\ cmd'.force = cmd.force /\ cmd'.changed = cmd.changed
    BY <2>1, GotoCmd
  <2>3. ASSUME NEW l \in DOMAIN p.tree PROVE l[1] \notin {"gen", "kits"}
    <3>1. l \in Places \X Slugs
      BY <1>0 DEF ProjectType, TreeType
    <3>2. l = <<l[1], l[2]>> /\ l[2] \in Slugs
      BY <3>1
    <3> QED BY <1>9, <3>2 DEF OldLayout
  <2>4. Gone({"gen"}) /\ Gone({"kits"})
    BY <2>3 DEF Gone
  <2>5. Gone({"gen"})' /\ Gone({"kits"})'
    BY <1>2, <2>4, Preserved
  <2> QED BY <1>2, <1>3, <1>6, <1>7, <2>2, <2>5, PhasePCs DEF UpdatePhase
<1> QED BY <1>8, <1>9

\* Steps inside the layout migration.
LEMMA WithinLayout ==
  ASSUME UpdatePhase, cmd.pc \in LayoutPCs, cmd'.pc \in LayoutPCs, cmd'.kind = cmd.kind,
         cmd'.force = cmd.force, cmd'.changed = cmd.changed, p'.core = p.core,
         p'.whatsnew = p.whatsnew, cache' = cache
  PROVE  UpdatePhase'
<1> SUFFICES ASSUME cmd'.kind = "update" PROVE UpdatePhase'
  BY DEF UpdatePhase
<1>1. cmd.force /\ CoreCurrent /\ cmd.changed /\ p.whatsnew = cache
  BY PhasePCs DEF UpdatePhase
<1>2. CoreCurrent'
  BY <1>1, Preserved
<1> QED BY <1>1, <1>2, PhasePCs DEF UpdatePhase

\* A step of the tree leaves the other parts.
LEMMA TreeStepFacts ==
  ASSUME TypeOK, TreeStep
  PROVE  /\ p'.core = p.core /\ p'.whatsnew = p.whatsnew /\ p'.agents = p.agents /\ p'.toml = p.toml
         /\ p'.reg = p.reg /\ p'.cfg = p.cfg /\ p'.gen = p.gen /\ p'.root = p.root
BY ProjectFacts, SetTreeEffect DEF TreeStep

\* A step of core.toml leaves the other parts.
LEMMA TomlStepFacts ==
  ASSUME TypeOK, TomlStep
  PROVE  /\ p'.core = p.core /\ p'.whatsnew = p.whatsnew /\ p'.agents = p.agents /\ p'.tree = p.tree
         /\ p'.reg = p.reg /\ p'.cfg = p.cfg /\ p'.gen = p.gen /\ p'.root = p.root
BY ProjectFacts, SetTomlEffect DEF TomlStep

\* The layout migration does not touch .core/.
LEMMA LayoutUpdatePhase ==
  ASSUME TypeOK, TodoThere, UpdatePhase,
         \/ \E s \in Slugs : LayoutKit(s) \/ LayoutKitFails(s) \/ LayoutBackupFails(s)
         \/ StartLayoutGen \/ LayoutGen \/ LayoutGenFails
         \/ LayoutPaths /\ p.toml.state # "torn"
  PROVE  UpdatePhase'
<1>1. ASSUME NEW s \in Slugs, LayoutKit(s) \/ LayoutKitFails(s) \/ LayoutBackupFails(s)
      PROVE  UpdatePhase'
  <2>1. AtKit(s) /\ cmd.pc = "layout" /\ s \notin cmd.failed /\ cache' = cache
    BY <1>1, AtKitFact DEF LayoutKit, LayoutKitFails, LayoutBackupFails, AtKit, At1, TodoThere
  <2>2. TreeStep
    BY <1>1, LayoutKitEffect, LayoutKitFailsEffect, LayoutBackupFailsEffect
  <2>3. CASE cmd' = NoCmd
    BY <2>3, StopCmd
  <2>4. ASSUME NEW ok \in BOOLEAN, NextKit(s, ok) PROVE UpdatePhase'
    <3>1. /\ cmd'.pc = "layout" /\ cmd'.kind = cmd.kind /\ cmd'.force = cmd.force
          /\ cmd'.changed = cmd.changed
      BY <2>1, <2>4, NextKitCmd
    <3> QED BY <2>1, <2>2, <3>1, TreeStepFacts, WithinLayout, PhasePCs
  <2> QED BY <1>1, <2>3, <2>4 DEF LayoutKit, LayoutKitFails, LayoutBackupFails, Died
<1>2. CASE StartLayoutGen
  <2>1. "layout_gen" \in PCs \ {"idle"} /\ InPlace("gen") \subseteq Slugs
    BY AllPCs DEF InPlace
  <2>2. /\ cmd.pc = "layout" /\ cmd'.pc = "layout_gen" /\ cmd'.kind = cmd.kind
        /\ cmd'.force = cmd.force /\ cmd'.changed = cmd.changed
    BY <1>2, <2>1, Onwards, GotoCmd
  <2>3. p' = p /\ cache' = cache
    BY <1>2 DEF StartLayoutGen, Only, At1
  <2> QED BY <2>2, <2>3, WithinLayout, PhasePCs
<1>3. CASE LayoutGen
  <2>1. TreeStep /\ cache' = cache
    BY <1>3, LayoutGenEffect DEF LayoutGen, At1
  <2> QED BY <1>3, <2>1, GenCmd, TreeStepFacts, WithinLayout, PhasePCs
<1>4. CASE LayoutGenFails
  <2>1. TreeStep /\ cache' = cache /\ cmd.pc = "layout_gen"
    BY <1>4, LayoutGenFailsEffect DEF LayoutGenFails, At1
  <2>2. FirstOf(cmd.todo) \in Slugs /\ NextKit(FirstOf(cmd.todo), FALSE)
    BY <1>4, AtGenFact DEF LayoutGenFails, At1
  <2>3. /\ cmd'.pc = "layout_gen" /\ cmd'.kind = cmd.kind /\ cmd'.force = cmd.force
        /\ cmd'.changed = cmd.changed
    BY <2>1, <2>2, NextKitCmd
  <2> QED BY <2>1, <2>3, TreeStepFacts, WithinLayout, PhasePCs
<1>5. CASE LayoutPaths /\ p.toml.state # "torn"
  <2>1. TomlStep /\ cache' = cache
    BY <1>5, PathsEffect DEF LayoutPaths, At1
  <2>2. cmd.pc = "layout_gen" /\ Goto("layout_remove") /\ "layout_remove" \in PCs \ {"idle"}
    BY <1>5, Onwards, AllPCs DEF Onward
  <2>3. /\ cmd'.pc = "layout_remove" /\ cmd'.kind = cmd.kind /\ cmd'.force = cmd.force
        /\ cmd'.changed = cmd.changed
    BY <2>2, GotoCmd
  <2> QED BY <2>1, <2>2, <2>3, TomlStepFacts, WithinLayout, PhasePCs
<1> QED BY <1>1, <1>2, <1>3, <1>4, <1>5

\* At its end .gen/kits is gone, and kits/ unless a kit failed.
LEMMA RemoveUpdatePhase ==
  ASSUME TypeOK, UpdatePhase, LayoutRemove
  PROVE  UpdatePhase'
<1> SUFFICES ASSUME cmd'.kind = "update" PROVE UpdatePhase'
  BY DEF UpdatePhase
<1>1. cmd.pc = "layout_remove" /\ Goto("blueprints") /\ "blueprints" \in PCs \ {"idle"}
  BY Onwards, AllPCs DEF Onward
<1>2. /\ cmd'.pc = "blueprints" /\ cmd.kind = "update" /\ cmd'.force = cmd.force
      /\ cmd'.changed = cmd.changed /\ cmd'.failed = cmd.failed
  BY <1>1, GotoCmd
<1>3. TreeStep /\ cache' = cache
  BY LayoutRemoveEffect DEF LayoutRemove, At1
<1>4. Gone({"gen"})' /\ (cmd.failed = {} => Gone({"kits"})')
  BY LayoutRemoveEffect
<1>5. cmd.force /\ CoreCurrent /\ cmd.changed /\ p.whatsnew = cache
  BY <1>1, <1>2, PhasePCs DEF UpdatePhase
<1>6. CoreCurrent' /\ p'.whatsnew = cache
  BY <1>3, <1>5, TreeStepFacts, Preserved
<1> QED BY <1>2, <1>3, <1>4, <1>5, <1>6, PhasePCs DEF UpdatePhase

\* What holds after the layout migration.
Cleaned == /\ cmd.force /\ CoreCurrent /\ cmd.changed /\ p.whatsnew = cache
           /\ Done("layout_remove") => Gone({"gen"})
           /\ cmd.failed = {} => Gone({"kits"})
\* What the clean-ups have established, where they were not passed over.
Tidied == Done("blueprints") => NoLegacyItems
Unsystemed == Done("system") => NoSystem
Merged == Done("dedup") => OneSlug
Sourced == Done("sources") => Unsourced = {}

\* A step that was done was done before.
LEMMA DoneBefore == cmd.silent \subseteq cmd'.silent => \A pc : Done(pc)' => Done(pc)
BY DEF Done

\* It does at the steps from the clean-ups on.
LEMMA CleanedPhase ==
  ASSUME UpdatePhase, cmd.kind = "update", cmd.pc \in FromBlueprints
  PROVE  Cleaned
BY PhasePCs DEF UpdatePhase, Cleaned

\* Later steps write directories of kits only in config/.
LEMMA CleanedStep ==
  ASSUME Cleaned, cmd'.force = cmd.force, cmd'.changed = cmd.changed, cmd'.failed = cmd.failed,
         cmd.silent \subseteq cmd'.silent,
         cache' = cache, p'.core = p.core, p'.whatsnew = p.whatsnew,
         \A l \in DOMAIN p'.tree : l \in DOMAIN p.tree \/ l[1] = "config"
  PROVE  Cleaned'
<1>1. CoreCurrent'
  BY Preserved DEF Cleaned
<1>2. Gone({"gen"}) => Gone({"gen"})'
  BY DEF Gone
<1>3. cmd.failed = {} => Gone({"kits"})'
  BY DEF Cleaned, Gone
<1> QED BY <1>1, <1>2, <1>3, DoneBefore DEF Cleaned

\* A step that goes on to the next.
LEMMA OnwardCmd ==
  ASSUME TypeOK, NEW from, NEW to \in PCs \ {"idle"}, Onward(from, to)
  PROVE  /\ cmd.pc = from /\ cmd'.pc = to /\ cmd'.kind = cmd.kind /\ cmd'.force = cmd.force
         /\ cmd'.changed = cmd.changed /\ cmd'.failed = cmd.failed /\ cmd'.errors = cmd.errors
         /\ cmd'.todo = cmd.todo /\ cmd'.silent = cmd.silent
BY GotoCmd DEF Onward

\* No legacy item is left in config/.
LEMMA BlueprintsUpdatePhase ==
  ASSUME TypeOK, UpdatePhase, _cleanup_legacy_blueprint_dirs
  PROVE  UpdatePhase'
<1> SUFFICES ASSUME cmd'.kind = "update" PROVE UpdatePhase'
  BY DEF UpdatePhase
<1>1. Onward("blueprints", "system") /\ "system" \in PCs \ {"idle"} /\ cache' = cache
  BY Onwards, AllPCs DEF _cleanup_legacy_blueprint_dirs, At1
<1>2. /\ cmd.pc = "blueprints" /\ cmd'.pc = "system" /\ cmd.kind = "update" /\ cmd'.force = cmd.force
      /\ cmd'.changed = cmd.changed /\ cmd'.failed = cmd.failed
      /\ cmd'.silent = cmd.silent
  BY <1>1, OnwardCmd
<1>3. /\ TreeStep /\ DOMAIN p'.tree = DOMAIN p.tree
      /\ \A l \in DOMAIN p.tree : l[1] = "config" => DOMAIN p'.tree[l] = DOMAIN p.tree[l] \ LegacyItems
  BY BlueprintsEffect
<1>4. Cleaned'
  BY <1>1, <1>2, <1>3, CleanedPhase, CleanedStep, TreeStepFacts, PhasePCs
<1>5. NoLegacyItems'
  BY <1>3 DEF NoLegacyItems
<1> QED BY <1>2, <1>4, <1>5, PhasePCs DEF UpdatePhase, Cleaned

\* No [system] section is left.
LEMMA SystemUpdatePhase ==
  ASSUME TypeOK, UpdatePhase, _remove_system_from_core_toml
  PROVE  UpdatePhase'
<1> SUFFICES ASSUME cmd'.kind = "update" PROVE UpdatePhase'
  BY DEF UpdatePhase
<1>1. Onward("system", "dedup") /\ "dedup" \in PCs \ {"idle"} /\ cache' = cache
  BY Onwards, AllPCs DEF _remove_system_from_core_toml, At1
<1>2. /\ cmd.pc = "system" /\ cmd'.pc = "dedup" /\ cmd.kind = "update" /\ cmd'.force = cmd.force
      /\ cmd'.changed = cmd.changed /\ cmd'.failed = cmd.failed
      /\ cmd'.silent = cmd.silent
  BY <1>1, OnwardCmd
<1>3. TomlStep /\ NoSystem'
  BY SystemEffect
<1>4. p'.tree = p.tree /\ p'.core = p.core /\ p'.whatsnew = p.whatsnew
  BY <1>3, TomlStepFacts
<1>5. Cleaned'
  BY <1>1, <1>2, <1>4, CleanedPhase, CleanedStep, PhasePCs
<1>6. Tidied
  BY <1>2, PhasePCs DEF UpdatePhase, Tidied
<1>7. Tidied'
  BY <1>2, <1>4, <1>6, DoneBefore, Preserved DEF Tidied
<1> QED BY <1>2, <1>3, <1>5, <1>7, PhasePCs DEF UpdatePhase, Cleaned, Tidied

\* One slug of the bundled kit is left.
LEMMA DedupUpdatePhase ==
  ASSUME TypeOK, UpdatePhase, _deduplicate_legacy_kits
  PROVE  UpdatePhase'
<1> SUFFICES ASSUME cmd'.kind = "update" PROVE UpdatePhase'
  BY DEF UpdatePhase
<1>1. Onward("dedup", "sources") /\ "sources" \in PCs \ {"idle"} /\ cache' = cache
  BY Onwards, AllPCs DEF _deduplicate_legacy_kits, At1
<1>2. /\ cmd.pc = "dedup" /\ cmd'.pc = "sources" /\ cmd.kind = "update" /\ cmd'.force = cmd.force
      /\ cmd'.changed = cmd.changed /\ cmd'.failed = cmd.failed
      /\ cmd'.silent = cmd.silent
  BY <1>1, OnwardCmd
<1>3. /\ p' = Project(p.core, p.whatsnew, p.agents, p.tree, p'.toml, p'.reg, p.cfg, p.gen, p.root)
      /\ p'.toml.state = p.toml.state /\ p'.toml.system = p.toml.system /\ OneSlug'
  BY DedupEffect
<1>4. p'.tree = p.tree /\ p'.core = p.core /\ p'.whatsnew = p.whatsnew
  BY <1>3 DEF Project
<1>5. Cleaned'
  BY <1>1, <1>2, <1>4, CleanedPhase, CleanedStep, PhasePCs
<1>6. Tidied /\ Unsystemed
  BY <1>2, PhasePCs DEF UpdatePhase, Tidied, Unsystemed
<1>7. Tidied'
  BY <1>2, <1>4, <1>6, DoneBefore, Preserved DEF Tidied
<1>8. Unsystemed'
  BY <1>2, <1>3, <1>6, DoneBefore DEF Unsystemed, NoSystem
<1> QED BY <1>2, <1>3, <1>5, <1>7, <1>8, PhasePCs DEF UpdatePhase, Cleaned, Tidied, Unsystemed

\* Every kit has a source.
LEMMA SourcesUpdatePhase ==
  ASSUME TypeOK, UpdatePhase, _migrate_kit_sources
  PROVE  UpdatePhase'
<1> SUFFICES ASSUME cmd'.kind = "update" PROVE UpdatePhase'
  BY DEF UpdatePhase
<1>1. /\ GotoWith("kits", DOMAIN Kits) /\ "kits" \in PCs \ {"idle"} /\ cache' = cache
      /\ DOMAIN Kits \subseteq Slugs /\ cmd.pc = "sources"
  BY Onwards, AllPCs, ProjectFacts, KitsFact DEF _migrate_kit_sources, At1, KitsType
<1>2. /\ cmd'.pc = "kits" /\ cmd.kind = "update" /\ cmd'.force = cmd.force
      /\ cmd'.changed = cmd.changed /\ cmd'.failed = cmd.failed /\ cmd'.todo = DOMAIN Kits
      /\ cmd'.silent = cmd.silent
  BY <1>1, GotoCmd
<1>3. /\ TomlStep /\ p'.toml.state = p.toml.state /\ p'.toml.system = p.toml.system
      /\ DOMAIN p'.toml.kits = DOMAIN p.toml.kits /\ Unsourced' = {}
      /\ \A s \in DOMAIN p.toml.kits : p'.toml.kits[s].path = p.toml.kits[s].path
  BY SourcesEffect
<1>4. p'.tree = p.tree /\ p'.core = p.core /\ p'.whatsnew = p.whatsnew /\ p'.reg = p.reg
  BY <1>3, TomlStepFacts
<1>5. Cleaned'
  BY <1>1, <1>2, <1>4, CleanedPhase, CleanedStep, PhasePCs
<1>6. Tidied /\ Unsystemed /\ Merged
  BY <1>1, <1>2, PhasePCs DEF UpdatePhase, Tidied, Unsystemed, Merged
<1>7. Tidied' /\ Unsystemed'
  BY <1>2, <1>3, <1>4, <1>6, DoneBefore, Preserved DEF Tidied, Unsystemed, NoSystem
<1>8. Merged'
  <2>1. OneSlug => OneSlug'
    BY <1>3, <1>4 DEF OneSlug, SamePath, Bundled
  <2> QED BY <1>2, <1>6, <2>1, DoneBefore DEF Merged
<1>9. DOMAIN Kits' = DOMAIN Kits
  BY <1>3, KitsFact
<1>10. Reviewed(Slugs \ cmd.todo)'
  BY <1>2, <1>9 DEF Reviewed
<1> QED BY <1>2, <1>3, <1>5, <1>7, <1>8, <1>10, PhasePCs
        DEF UpdatePhase, Cleaned, Tidied, Unsystemed, Merged

\* A review brings no legacy item.
LEMMA ReviewTidy ==
  ASSUME NEW s, NEW m, Placed(s, m, {}), Reviews(s, m), NoLegacyItems
  PROVE  NoLegacyItems'
<1>1. DOMAIN At(p.tree, <<"config", s>>) \cap LegacyItems = {}
  <2>1. DOMAIN <<>> = {}
    OBVIOUS
  <2> QED BY <2>1 DEF NoLegacyItems, At
<1>2. DOMAIN m \cap LegacyItems = {}
  BY <1>1 DEF Reviews
<1> QED BY <1>2 DEF NoLegacyItems, Placed

\* Kits worked off without an error are current.
LEMMA KitsUpdatePhase ==
  ASSUME TypeOK, TodoThere, UpdatePhase, UpdateKits
  PROVE  UpdatePhase'
<1> SUFFICES ASSUME cmd'.kind = "update" PROVE UpdatePhase'
  BY DEF UpdatePhase
<1>0. PICK s : s = FirstOf(cmd.todo)
  OBVIOUS
<1>1. /\ cmd.pc = "kits" /\ cmd'.pc = "kits" /\ cmd.kind = "update" /\ cmd'.force = cmd.force
      /\ cmd'.changed = cmd.changed /\ cmd'.failed = cmd.failed /\ cmd'.todo = cmd.todo \ {s}
      /\ cmd.errors => cmd'.errors
      /\ cmd'.silent = cmd.silent
  BY <1>0, KitsCmd
<1>2. /\ p' = Project(p.core, p.whatsnew, p.agents, p'.tree, p'.toml, p.reg, p.cfg, p.gen, p.root)
      /\ Registers(s)
      /\ p'.tree = p.tree \/ \E m : Placed(s, m, {}) /\ Reviews(s, m)
      /\ HasSource(s) => \/ p.toml.state = "ok" => IsCurrent(s)' /\ ~Unbound(s)'
                         \/ cmd'.errors
      /\ cache' = cache /\ cmd.todo # {}
  BY <1>0, UpdateKitsEffect DEF UpdateKits, At1
<1>3. p'.core = p.core /\ p'.whatsnew = p.whatsnew /\ p'.reg = p.reg
  BY <1>2 DEF Project
<1>4. s \in DOMAIN p.toml.kits /\ s \in cmd.todo /\ (p.toml.state = "ok" => Kits = p.toml.kits)
  BY <1>0, <1>1, <1>2, AtKitsFact
<1>5. /\ p'.toml.state = p.toml.state /\ p'.toml.system = p.toml.system
      /\ DOMAIN p'.toml.kits = DOMAIN p.toml.kits
      /\ \A x \in DOMAIN p.toml.kits : /\ p'.toml.kits[x].path = p.toml.kits[x].path
                                       /\ p'.toml.kits[x].source = p.toml.kits[x].source
                                       /\ x # s => p'.toml.kits[x] = p.toml.kits[x]
  BY <1>2 DEF Registers
<1>6. DOMAIN p.tree \subseteq DOMAIN p'.tree /\ \A l \in DOMAIN p'.tree : l \in DOMAIN p.tree \/ l[1] = "config"
  BY <1>2 DEF Placed
<1>7. Cleaned'
  BY <1>1, <1>2, <1>3, <1>6, CleanedPhase, CleanedStep, PhasePCs
<1>8. /\ Tidied /\ Unsystemed /\ Merged /\ Sourced
      /\ ~cmd.errors /\ Done("kits") => Reviewed(Slugs \ cmd.todo)
  BY <1>1, PhasePCs DEF UpdatePhase, Tidied, Unsystemed, Merged, Sourced
<1>9. Unsystemed' /\ Merged'
  BY <1>1, <1>3, <1>5, <1>8, DoneBefore DEF Unsystemed, Merged, NoSystem, OneSlug, SamePath, Bundled
<1>10. Sourced'
  <2>1. Unsourced = {} => Unsourced' = {}
    BY <1>5, KitsFact DEF Unsourced, Kits
  <2> QED BY <1>1, <1>8, <2>1, DoneBefore DEF Sourced
<1>11. Tidied'
  <2>1. CASE p'.tree = p.tree
    BY <1>1, <1>8, <2>1, DoneBefore, Preserved DEF Tidied
  <2>2. ASSUME NEW m, Placed(s, m, {}), Reviews(s, m) PROVE NoLegacyItems => NoLegacyItems'
    BY <2>2, ReviewTidy
  <2> QED BY <1>1, <1>2, <1>8, <2>1, <2>2, DoneBefore DEF Tidied
<1>12. ~cmd'.errors /\ Done("kits")' => Reviewed(Slugs \ cmd.todo)'
  <2> SUFFICES ASSUME ~cmd'.errors, Done("kits")', NEW x \in DOMAIN Kits' \cap (Slugs \ cmd'.todo),
                      HasSource(x)'
               PROVE  IsCurrent(x)' /\ ~Unbound(x)'
    BY DEF Reviewed
  <2>0. Kits' = p'.toml.kits /\ p'.toml.state = "ok"
    <3>1. DOMAIN <<>> = {}
      OBVIOUS
    <3> QED BY <3>1 DEF Kits
  <2>1. HasSource(x) /\ x \in DOMAIN Kits /\ Kits = p.toml.kits /\ p.toml.state = "ok" /\ Done("kits")
    BY <1>1, <1>4, <1>5, <2>0, DoneBefore DEF HasSource
  <2>2. CASE x = s
    BY <1>2, <2>1, <2>2
  <2>3. CASE x # s
    <3>1. x \in DOMAIN Kits \cap (Slugs \ cmd.todo) /\ ~cmd.errors
      BY <1>1, <2>1, <2>3
    <3>2. IsCurrent(x) /\ ~Unbound(x)
      BY <1>8, <2>1, <3>1 DEF Reviewed
    <3> QED BY <1>4, <1>5, <1>6, <2>0, <2>1, <2>3, <3>2 DEF IsCurrent, Unbound
  <2> QED BY <2>2, <2>3
<1> QED BY <1>1, <1>7, <1>9, <1>10, <1>11, <1>12, PhasePCs
        DEF UpdatePhase, Cleaned, Tidied, Unsystemed, Merged, Sourced

\* The steps after the kits: what holds at one of them.
Registered == /\ Cleaned /\ Tidied /\ Unsystemed /\ Merged /\ Sourced
              /\ ~cmd.errors /\ Done("kits") => Reviewed(Slugs \ cmd.todo)

\* At a step after the kits all of this holds.
LEMMA RegisteredPhase ==
  ASSUME UpdatePhase, cmd.kind = "update", cmd.pc \in FromKits
  PROVE  Registered
BY CleanedPhase, PhasePCs DEF UpdatePhase, Registered, Tidied, Unsystemed, Merged, Sourced

\* Steps that write neither kits nor the registers keep it.
LEMMA RegisteredStep ==
  ASSUME Registered, cmd'.force = cmd.force, cmd'.changed = cmd.changed, cmd'.failed = cmd.failed,
         cmd'.errors = cmd.errors, cmd'.todo = cmd.todo, cmd'.silent = cmd.silent, cache' = cache, p'.core = p.core,
         p'.whatsnew = p.whatsnew, p'.tree = p.tree, p'.toml = p.toml, p'.reg = p.reg
  PROVE  Registered'
<1>1. Cleaned'
  BY CleanedStep DEF Registered
<1>2. Tidied' /\ Unsystemed' /\ Merged' /\ Sourced'
  BY Preserved, DoneBefore DEF Registered, Tidied, Unsystemed, Merged, Sourced
<1>3. ~cmd.errors /\ Done("kits") => Reviewed(Slugs \ cmd.todo)'
  BY DEF Registered, Reviewed, HasSource, IsCurrent, Unbound, Kits
<1> QED BY <1>1, <1>2, <1>3, DoneBefore DEF Registered

\* Aggregates, scaffold, managed blocks and agents, in this order.
LEMMA TailUpdatePhase ==
  ASSUME TypeOK, UpdatePhase,
         regenerate_gen_aggregates \/ Scaffold \/ Inject \/ _maybe_regenerate_agents,
         cmd.kind = "update"
  PROVE  UpdatePhase'
<1>0. ProjectType(p) /\ cache' = cache /\ {"scaffold", "inject", "agents", "report"} \subseteq PCs \ {"idle"}
  BY ProjectFacts, AllPCs DEF regenerate_gen_aggregates, Scaffold, Inject, _maybe_regenerate_agents, At1
<1>1. CASE regenerate_gen_aggregates
  <2>1. Onward("kits", "scaffold") /\ cmd.todo = {}
    BY <1>1, Onwards, PhasePCs DEF UpdatePhase, Onward
  <2>2. /\ p'.gen = Aggregate(p.tree) /\ p'.core = p.core /\ p'.whatsnew = p.whatsnew
        /\ p'.tree = p.tree /\ p'.toml = p.toml /\ p'.reg = p.reg
    BY <1>0, <1>1, TailEffect, SetGenEffect
  <2>3. Registered'
    BY <1>0, <2>1, <2>2, OnwardCmd, RegisteredPhase, RegisteredStep, PhasePCs
  <2>4. cmd'.pc = "scaffold" /\ cmd'.todo = {} /\ p'.gen = Aggregate(p'.tree)
    BY <1>0, <2>1, <2>2, OnwardCmd
  <2> QED BY <2>3, <2>4, PhasePCs DEF UpdatePhase, Registered, Cleaned, Tidied, Unsystemed, Merged, Sourced
<1>2. CASE Scaffold
  <2>1. Onward("scaffold", "inject")
    BY <1>2, Onwards
  <2>2. /\ p'.gen = p.gen /\ p'.core = p.core /\ p'.whatsnew = p.whatsnew
        /\ p'.tree = p.tree /\ p'.toml = p.toml /\ p'.reg = p.reg
        /\ p'.cfg = _ensure_file(p.cfg, ConfigFiles)
    BY <1>0, <1>2, TailEffect, SetCfgEffect
  <2>3. Registered' /\ cmd.pc = "scaffold" /\ cmd'.todo = cmd.todo /\ cmd'.pc = "inject"
    BY <1>0, <2>1, <2>2, OnwardCmd, RegisteredPhase, RegisteredStep, PhasePCs
  <2>4. cmd.todo = {} /\ p.gen = Aggregate(p.tree)
    BY <2>3, PhasePCs DEF UpdatePhase
  <2>5. Scaffolded'
    BY <2>2 DEF Scaffolded, _ensure_file
  <2> QED BY <2>2, <2>3, <2>4, <2>5, PhasePCs DEF UpdatePhase, Registered, Cleaned, Tidied, Unsystemed, Merged, Sourced
<1>3. CASE Inject
  <2>1. Onward("inject", "agents")
    BY <1>3, Onwards, PhasePCs DEF UpdatePhase, Onward
  <2>2. /\ p'.gen = p.gen /\ p'.core = p.core /\ p'.whatsnew = p.whatsnew
        /\ p'.tree = p.tree /\ p'.toml = p.toml /\ p'.reg = p.reg /\ p'.cfg = p.cfg
        /\ p'.root = _inject_root(p.root)
    BY <1>0, <1>3, TailEffect, SetRootEffect
  <2>3. Registered' /\ cmd.pc = "inject" /\ cmd'.todo = cmd.todo /\ cmd'.pc = "agents"
    BY <1>0, <2>1, <2>2, OnwardCmd, RegisteredPhase, RegisteredStep, PhasePCs
  <2>4. cmd.todo = {} /\ p.gen = Aggregate(p.tree) /\ Scaffolded
    BY <2>3, PhasePCs DEF UpdatePhase
  <2>5. Announced'
    BY <2>2 DEF Announced, _inject_root
  <2>6. Scaffolded'
    BY <2>2, <2>4, Preserved
  <2> QED BY <2>2, <2>3, <2>4, <2>5, <2>6, PhasePCs DEF UpdatePhase, Registered, Cleaned, Tidied, Unsystemed, Merged, Sourced
<1>4. CASE _maybe_regenerate_agents
  <2>1. Onward("agents", "report")
    BY <1>4, Onwards
  <2>2. /\ p'.gen = p.gen /\ p'.core = p.core /\ p'.whatsnew = p.whatsnew
        /\ p'.tree = p.tree /\ p'.toml = p.toml /\ p'.reg = p.reg /\ p'.cfg = p.cfg /\ p'.root = p.root
        /\ p'.agents = IF cmd.changed /\ p.agents # 0 THEN cache ELSE p.agents
    BY <1>0, <1>4, TailEffect, SetAgentsEffect
  <2>3. Registered' /\ cmd.pc = "agents" /\ cmd'.todo = cmd.todo /\ cmd'.pc = "report"
    BY <1>0, <2>1, <2>2, OnwardCmd, RegisteredPhase, RegisteredStep, PhasePCs
  <2>4. cmd.todo = {} /\ p.gen = Aggregate(p.tree) /\ Scaffolded /\ Announced /\ cmd.changed
    BY <2>3, PhasePCs DEF UpdatePhase
  <2>5. Announced' /\ Scaffolded' /\ p'.agents \in {0, cache}
    BY <2>2, <2>4, Preserved
  <2> QED BY <1>0, <2>2, <2>3, <2>4, <2>5, PhasePCs DEF UpdatePhase, Registered, Cleaned, Tidied, Unsystemed, Merged, Sourced
<1> QED BY <1>1, <1>2, <1>3, <1>4

\* A failure that is passed over takes nothing from what the steps before it
\* have established.
LEMMA OverlooksUpdatePhase ==
  ASSUME TypeOK, TodoThere, UpdatePhase, Overlooks
  PROVE  UpdatePhase'
<1> SUFFICES ASSUME cmd'.kind = "update" PROVE UpdatePhase'
  BY DEF UpdatePhase
<1>1. /\ p' = Project(p.core, p.whatsnew, p.agents, p'.tree, p'.toml, p'.reg, p.cfg, p.gen, p.root)
      /\ TomlKept /\ cache' = cache
  BY OverlooksProject, OverlooksEffect
<1>2. p'.core = p.core /\ p'.whatsnew = p.whatsnew
  BY <1>1 DEF Project
<1>3. CASE LayoutRemoveSkips
  <2>1. Silently("layout_remove", "blueprints")
    BY <1>3, OverlooksCmd DEF Silently, LayoutRemoveSkips, BlueprintsStay, SystemUnwritten, DedupUnwritten,
       SourcesUnwritten, KitUnregistered, At1
  <2>2. cmd.force /\ CoreCurrent /\ cmd.changed /\ p.whatsnew = cache /\ cmd.kind = "update"
    BY <2>1, PhasePCs DEF UpdatePhase, Silently
  <2>3. CoreCurrent' /\ (cmd.failed = {} => Gone({"kits"})') /\ ~Done("layout_remove")'
    BY <1>1, <1>2, <1>3, <2>1, <2>2, LayoutRemoveSkipsEffect, Preserved DEF Silently, Done
  <2> QED BY <1>1, <1>2, <2>1, <2>2, <2>3, PhasePCs DEF UpdatePhase, Silently
<1>4. ASSUME NEW from \in {"blueprints", "system", "dedup", "sources", "kits"}, NEW to, Silently(from, to)
      PROVE  /\ cmd.pc = from /\ cmd.kind = "update" /\ cmd'.pc = to /\ cmd.silent \subseteq cmd'.silent
             /\ ~Done(from)' /\ Cleaned
             /\ (\A l \in DOMAIN p'.tree : l \in DOMAIN p.tree \/ l[1] = "config") => Cleaned'
  <2>1. /\ cmd.pc = from /\ cmd.kind = "update" /\ cmd'.pc = to /\ cmd.silent \subseteq cmd'.silent
        /\ ~Done(from)' /\ Cleaned
    BY <1>4, CleanedPhase, PhasePCs DEF Silently, Done
  <2> QED BY <1>1, <1>2, <1>4, <2>1, CleanedStep DEF Silently
<1>5. CASE BlueprintsStay /\ Silently("blueprints", "system")
  <2>1. Cleaned' /\ cmd'.pc = "system" /\ ~Done("blueprints")'
    BY <1>4, <1>5, BlueprintsStayEffect
  <2> QED BY <2>1, PhasePCs DEF UpdatePhase, Cleaned
<1>6. CASE SystemUnwritten /\ Silently("system", "dedup")
  <2>1. p'.tree = p.tree
    BY <1>6, SystemUnwrittenEffect, TomlStepFacts
  <2>2. Cleaned' /\ cmd'.pc = "dedup" /\ ~Done("system")' /\ cmd.silent \subseteq cmd'.silent
    BY <1>4, <1>6, <2>1
  <2>3. Tidied
    BY <1>4, <1>6, PhasePCs DEF UpdatePhase, Tidied
  <2>4. Tidied'
    BY <2>1, <2>2, <2>3, DoneBefore, Preserved DEF Tidied
  <2> QED BY <2>2, <2>4, PhasePCs DEF UpdatePhase, Cleaned, Tidied
<1>7. CASE DedupUnwritten /\ Silently("dedup", "sources")
  <2>1. p'.tree = p.tree
    BY <1>7, DedupUnwrittenEffect DEF Project
  <2>2. Cleaned' /\ cmd'.pc = "sources" /\ ~Done("dedup")' /\ cmd.silent \subseteq cmd'.silent
    BY <1>4, <1>7, <2>1
  <2>3. Tidied /\ Unsystemed
    BY <1>4, <1>7, PhasePCs DEF UpdatePhase, Tidied, Unsystemed
  <2>4. Tidied' /\ Unsystemed'
    BY <1>1, <2>1, <2>2, <2>3, DoneBefore, Preserved DEF Tidied, Unsystemed, NoSystem, TomlKept
  <2> QED BY <2>2, <2>4, PhasePCs DEF UpdatePhase, Cleaned, Tidied, Unsystemed
<1>8. CASE SourcesUnwritten /\ Silently("sources", "kits") /\ DOMAIN Kits' \subseteq cmd'.todo
  <2>1. p'.tree = p.tree /\ p'.reg = p.reg /\ SameOrTorn
    BY <1>8, SourcesUnwrittenEffect, TomlStepFacts
  <2>2. Cleaned' /\ cmd'.pc = "kits" /\ ~Done("sources")' /\ cmd.silent \subseteq cmd'.silent
    BY <1>4, <1>8, <2>1
  <2>3. Tidied /\ Unsystemed /\ Merged
    BY <1>4, <1>8, PhasePCs DEF UpdatePhase, Tidied, Unsystemed, Merged
  <2>4. Tidied' /\ Unsystemed'
    BY <1>1, <2>1, <2>2, <2>3, DoneBefore, Preserved DEF Tidied, Unsystemed, NoSystem, TomlKept
  <2>5. Merged'
    BY <2>1, <2>2, <2>3, DoneBefore DEF Merged, OneSlug, SameOrTorn
  <2>6. Reviewed(Slugs \ cmd.todo)'
    BY <1>8 DEF Reviewed
  <2> QED BY <2>2, <2>4, <2>5, <2>6, PhasePCs DEF UpdatePhase, Cleaned, Tidied, Unsystemed, Merged
<1>9. CASE KitUnregistered /\ Silently("kits", "kits")
  <2>0. PICK s : s = FirstOf(cmd.todo)
    OBVIOUS
  <2>1. /\ p'.reg = p.reg /\ SameOrTorn
        /\ p'.tree = p.tree \/ \E m : Placed(s, m, {}) /\ Reviews(s, m)
    BY <1>9, <2>0, KitUnregisteredEffect DEF Project
  <2>2. \A l \in DOMAIN p'.tree : l \in DOMAIN p.tree \/ l[1] = "config"
    BY <2>1 DEF Placed
  <2>3. Cleaned' /\ cmd'.pc = "kits" /\ ~Done("kits")' /\ cmd.silent \subseteq cmd'.silent
    BY <1>4, <1>9, <2>2
  <2>4. Tidied /\ Unsystemed /\ Merged /\ Sourced
    BY <1>4, <1>9, PhasePCs DEF UpdatePhase, Tidied, Unsystemed, Merged, Sourced
  <2>5. Unsystemed' /\ Merged'
    BY <2>1, <2>3, <2>4, DoneBefore DEF Unsystemed, NoSystem, Merged, OneSlug, SameOrTorn
  <2>6. Sourced'
    <3>1. DOMAIN <<>> = {}
      OBVIOUS
    <3>2. Unsourced = {} => Unsourced' = {}
      BY <2>1, <3>1 DEF Unsourced, Kits, SameOrTorn
    <3> QED BY <2>3, <2>4, <3>2, DoneBefore DEF Sourced
  <2>7. Tidied'
    BY <2>1, <2>3, <2>4, DoneBefore, Preserved, ReviewTidy DEF Tidied
  <2> QED BY <2>3, <2>5, <2>6, <2>7, PhasePCs
          DEF UpdatePhase, Cleaned, Tidied, Unsystemed, Merged, Sourced
<1>10. CASE InitKitUnregistered /\ cmd.pc = "init_kit" /\ cmd'.kind = cmd.kind
  BY <1>10, PhasePCs DEF UpdatePhase
<1> QED BY <1>3, <1>5, <1>6, <1>7, <1>8, <1>9, <1>10, OverlooksCmd

\* A command at work is running, and stays the command it is.
LEMMA WorksKind ==
  ASSUME TypeOK, TodoThere, Works
  PROVE  /\ cmd.pc # "idle"
         /\ cmd' = NoCmd \/ cmd'.kind = cmd.kind
         /\ cmd.pc \notin InitPCs \/ cmd.kind = "update" \/ cmd' = NoCmd \/ cmd'.pc \in InitPCs
<1>0. InitPCs = {"core", "init_toml", "init_kit", "init_registry", "init_gen", "init_skill",
                 "init_inject", "report"}
  BY DEF InitPCs
<1>1. CASE CopyCoreDir
  BY <1>0, <1>1, CopyCmd
<1>2. CASE FinishCore
  <2>1. cmd.pc = "core" /\ {"layout", "blueprints", "init_toml"} \subseteq PCs \ {"idle"}
        /\ InPlace("kits") \subseteq Slugs
    BY <1>2, Onwards, AllPCs DEF InPlace
  <2>2. CASE cmd.kind = "update"
    BY <1>2, <2>1, <2>2, Onwards, GotoCmd
  <2>3. CASE cmd.kind # "update"
    BY <1>0, <1>2, <2>1, <2>3, Onwards, GotoCmd
  <2> QED BY <2>2, <2>3
<1>3. ASSUME NEW s \in Slugs, LayoutKit(s)
      PROVE  cmd.pc = "layout" /\ cmd'.kind = cmd.kind
  <2>1. AtKit(s) /\ cmd.pc = "layout" /\ s \notin cmd.failed /\ NextKit(s, TRUE)
    BY <1>3, AtKitFact DEF LayoutKit, AtKit, At1, TodoThere
  <2> QED BY <2>1, NextKitCmd
<1>4. CASE StartLayoutGen
  <2>1. "layout_gen" \in PCs \ {"idle"} /\ InPlace("gen") \subseteq Slugs
    BY AllPCs DEF InPlace
  <2> QED BY <1>0, <1>4, <2>1, Onwards, GotoCmd
<1>5. CASE LayoutGen
  BY <1>0, <1>5, GenCmd
<1>6. CASE LayoutPaths /\ p.toml.state = "torn"
  <2>1. cmd' = NoCmd /\ cmd.pc = "layout_gen"
    BY <1>6, StopsCmd DEF Stops, LayoutPaths, At1
  <2> QED BY <2>1
<1>7. CASE _migrate_kit_sources
  <2>1. "kits" \in PCs \ {"idle"} /\ DOMAIN Kits \subseteq Slugs
    BY AllPCs, ProjectFacts, KitsFact DEF KitsType
  <2> QED BY <1>0, <1>7, <2>1, Onwards, GotoCmd
<1>8. CASE UpdateKits
  BY <1>0, <1>8, KitsCmd
<1>9. CASE InitKit
  BY <1>0, <1>9, InitKitCmd
<1>10. ASSUME NEW from \in {"layout_gen", "layout_remove", "blueprints", "system", "dedup", "kits",
                            "scaffold", "inject", "agents"},
              NEW to \in {"layout_remove", "blueprints", "system", "dedup", "sources", "scaffold",
                          "inject", "agents", "report"},
              Onward(from, to)
       PROVE  cmd.pc \notin InitPCs /\ cmd'.kind = cmd.kind
  BY <1>0, <1>10, OnwardCmd, AllPCs
<1>11. ASSUME NEW from \in {"init_toml", "init_registry", "init_gen", "init_skill", "init_inject"},
              NEW to \in {"init_kit", "init_gen", "init_skill", "init_inject", "report"},
              Onward(from, to)
       PROVE  cmd.pc = from /\ cmd'.kind = cmd.kind /\ cmd'.pc \in InitPCs
  BY <1>0, <1>11, OnwardCmd, AllPCs
<1>12. CASE \/ LayoutPaths /\ p.toml.state # "torn"
            \/ LayoutRemove \/ _cleanup_legacy_blueprint_dirs \/ _remove_system_from_core_toml
            \/ _deduplicate_legacy_kits \/ Scaffold \/ _maybe_regenerate_agents
  BY <1>10, <1>12, Onwards DEF Onward
<1>13. CASE regenerate_gen_aggregates \/ Inject \/ InitToml \/ InitRegistry \/ InitSkill
  BY <1>10, <1>11, <1>13, Onwards DEF Onward
<1> QED BY <1>0, <1>1, <1>2, <1>3, <1>4, <1>5, <1>6, <1>7, <1>8, <1>9, <1>12, <1>13 DEF Works

\* A command that survives a failure is at the layout migration.
LEMMA FailsKind ==
  ASSUME TypeOK, TodoThere, Fails
  PROVE  /\ cmd.pc # "idle"
         /\ cmd' = NoCmd \/ (cmd'.kind = cmd.kind /\ cmd'.pc = cmd.pc /\ cmd.pc \in {"layout", "layout_gen"})
<1>1. ASSUME NEW s \in Slugs, LayoutKitFails(s) \/ LayoutRestoreFails(s) \/ LayoutBackupFails(s)
      PROVE  cmd.pc = "layout" /\ (cmd' = NoCmd \/ (cmd'.kind = cmd.kind /\ cmd'.pc = cmd.pc))
  <2>1. cmd.pc = "layout" /\ (cmd' = NoCmd \/ NextKit(s, FALSE))
    BY <1>1 DEF LayoutKitFails, LayoutRestoreFails, LayoutBackupFails, AtKit, At1, Died
  <2> QED BY <2>1, NextKitCmd
<1>2. CASE LayoutGenFails
  <2>1. cmd.pc = "layout_gen" /\ FirstOf(cmd.todo) \in Slugs /\ NextKit(FirstOf(cmd.todo), FALSE)
    BY <1>2, AtGenFact DEF LayoutGenFails, At1
  <2> QED BY <2>1, NextKitCmd
<1>3. CASE CopyCoreDirDies \/ LayoutRemoveDies \/ Dies \/ DiesWritingToml
  <2>1. cmd' = NoCmd
    BY <1>3, StopsCmd DEF Stops
  <2>2. cmd.pc # "idle"
    BY <1>3 DEF CopyCoreDirDies, LayoutRemoveDies, Dies, DiesWritingToml, At1, WritesToml
  <2> QED BY <2>1, <2>2
<1> QED BY <1>1, <1>2, <1>3 DEF Fails

\* A failure that is passed over ends no command.
LEMMA OverlooksKind ==
  ASSUME TypeOK, TodoThere, Overlooks
  PROVE  /\ cmd.pc # "idle" /\ cmd'.pc # "idle" /\ cmd'.kind = cmd.kind
         /\ \/ /\ cmd.pc \in ({"layout_remove"} \cup FromBlueprints) \ {"report"}
               /\ cmd'.pc \in FromBlueprints \ {"report"}
            \/ cmd.pc = "init_kit" /\ cmd'.pc = "init_registry"
BY OverlooksCmd, PhasePCs DEF Silently

\* What a command starts with.
LEMMA StartStep ==
  ASSUME \/ \E force, dry_run, ok \in BOOLEAN : cmd_init(force, dry_run, ok)
         \/ \E dry_run, ack \in BOOLEAN : cmd_update(dry_run, ack)
  PROVE  /\ cmd.pc = "idle" /\ p' = p /\ cache' = cache /\ origin' = origin
         /\ result' \notin {"PASS", "WARN", "unrestored"}
         /\ \/ cmd' = NoCmd
            \/ Starts("init", TRUE) \/ Starts("init", FALSE)
            \/ Starts("update", TRUE)
BY DEF cmd_init, cmd_update, Start, Refused, Starts

\* Every step of an update establishes what the later ones rest on.
LEMMA UpdateStep ==
  ASSUME TypeOK, TodoThere, UpdatePhase, InitPhase, Next
  PROVE  UpdatePhase'
<1>1. ASSUME \/ \E force, dry_run, ok \in BOOLEAN : cmd_init(force, dry_run, ok)
             \/ \E dry_run, ack \in BOOLEAN : cmd_update(dry_run, ack)
      PROVE  UpdatePhase'
  <2>1. CASE cmd' = NoCmd
    BY <2>1, StopCmd
  <2>2. CASE Starts("init", TRUE) \/ Starts("init", FALSE)
    <3>1. cmd'.kind = "init"
      BY <2>2, StartCmd
    <3> QED BY <3>1 DEF UpdatePhase
  <2>3. CASE Starts("update", TRUE)
    <3>1. cmd'.pc = "core" /\ cmd'.at = 1 /\ cmd'.force
      BY <2>3, StartCmd
    <3> QED BY <3>1, PhasePCs DEF UpdatePhase
  <2> QED BY <1>1, <2>1, <2>2, <2>3, StartStep
<1>2. CASE Upgrade \/ UserEdits
  <2>1. cmd' = cmd /\ cmd.pc = "idle"
    BY <1>2 DEF Upgrade, UserEdits, Idle
  <2>2. cmd'.kind = "none"
    BY <2>1, CmdFacts DEF NoCmd
  <2> QED BY <2>2 DEF UpdatePhase
<1>3. CASE Stops
  BY <1>3, StopsCmd, StopCmd
<1>4. CASE Works /\ cmd.kind # "update"
  <2>1. cmd' = NoCmd \/ cmd'.kind # "update"
    BY <1>4, WorksKind
  <2> QED BY <2>1, StopCmd DEF UpdatePhase
<1>5. CASE Works /\ cmd.kind = "update" /\ ~Stops
  <2>1. cmd.pc \in UpdatePCs
    BY <1>5 DEF UpdatePhase
  <2>2. ~(InitToml \/ InitKit \/ InitRegistry \/ InitSkill)
    BY <2>1, PhasePCs DEF InitToml, InitKit, InitRegistry, InitSkill, At1
  <2> QED BY <1>5, <2>2, CopyUpdatePhase, FinishUpdatePhase, LayoutUpdatePhase, RemoveUpdatePhase,
             BlueprintsUpdatePhase, SystemUpdatePhase, DedupUpdatePhase, SourcesUpdatePhase,
             KitsUpdatePhase, TailUpdatePhase DEF Works, Stops
<1>6. CASE Fails /\ ~Stops
  BY <1>6, LayoutUpdatePhase DEF Fails, Stops
<1>7. CASE Overlooks
  BY <1>7, OverlooksUpdatePhase
<1> QED BY <1>1, <1>2, <1>3, <1>4, <1>5, <1>6, <1>7, Steps DEF Stops

\* An init stays on the path of an init.
LEMMA InitStep ==
  ASSUME TypeOK, TodoThere, InitPhase, Next
  PROVE  InitPhase'
<1>1. ASSUME \/ \E force, dry_run, ok \in BOOLEAN : cmd_init(force, dry_run, ok)
             \/ \E dry_run, ack \in BOOLEAN : cmd_update(dry_run, ack)
      PROVE  InitPhase'
  <2>1. CASE cmd' = NoCmd
    BY <2>1, StopCmd
  <2>2. CASE Starts("init", TRUE) \/ Starts("init", FALSE) \/ Starts("update", TRUE)
    <3>1. cmd'.kind \in {"init", "update"} /\ cmd'.pc = "core"
      BY <2>2, StartCmd
    <3> QED BY <3>1 DEF InitPhase, InitPCs
  <2> QED BY <1>1, <2>1, <2>2, StartStep
<1>2. CASE Upgrade \/ UserEdits
  <2>1. cmd' = cmd
    BY <1>2 DEF Upgrade, UserEdits, Idle
  <2> QED BY <2>1 DEF InitPhase
<1>3. CASE Report
  BY <1>3, StopsCmd, StopCmd DEF Stops
<1>4. CASE Works
  BY <1>4, WorksKind, StopCmd DEF InitPhase
<1>5. CASE Fails
  BY <1>5, FailsKind, StopCmd DEF InitPhase
<1>6. CASE Overlooks
  <2>1. InitPCs \cap ({"layout_remove"} \cup FromBlueprints) = {"report"} /\ "init_registry" \in InitPCs
    BY PhasePCs DEF InitPCs
  <2> QED BY <1>6, <2>1, OverlooksKind DEF InitPhase
<1> QED BY <1>1, <1>2, <1>3, <1>4, <1>5, <1>6, Steps

\* A result is reported when no command is running.
LEMMA ReportStep ==
  ASSUME TypeOK, TodoThere, ReportPhase, Next
  PROVE  ReportPhase'
<1>1. CASE Works \/ Overlooks
  <2>1. cmd.pc # "idle" /\ result' \in {result, "died"}
    BY <1>1, WorksKind, OverlooksKind, WorksEffect, OverlooksEffect
  <2> QED BY <2>1 DEF ReportPhase
<1>2. ASSUME \/ \E force, dry_run, ok \in BOOLEAN : cmd_init(force, dry_run, ok)
             \/ \E dry_run, ack \in BOOLEAN : cmd_update(dry_run, ack)
      PROVE  ReportPhase'
  BY <1>2, StartStep DEF ReportPhase
<1>3. CASE Upgrade \/ UserEdits
  BY <1>3 DEF Upgrade, UserEdits, Idle, ReportPhase
<1>4. CASE Report
  BY <1>4, StopsCmd, StopCmd DEF Stops
<1>5. CASE Fails
  <2>1. CASE Stops
    BY <2>1, StopsCmd, StopCmd
  <2>2. CASE ~Stops
    <3>1. cmd.pc # "idle" /\ result' \in {result, "died"}
      BY <1>5, <2>2, FailsKind DEF Fails, Stops, LayoutKitFails, LayoutBackupFails, LayoutGenFails, Died
    <3> QED BY <3>1 DEF ReportPhase
  <2> QED BY <2>1, <2>2
<1> QED BY <1>1, <1>2, <1>3, <1>4, <1>5, Steps

-----------------------------------------------------------------------------
(* Where the kits are registered.                                          *)

\* A step after which a kit is registered outside config/ found one.
StaleBefore == p'.toml.state = "ok" /\ StalePaths' # {} => p.toml.state = "ok" /\ StalePaths # {}

\* No kit comes to be registered at a path that some kit did not have.
LEMMA StaleKept ==
  ASSUME p'.toml.state = "ok" => p.toml.state = "ok",
         DOMAIN p'.toml.kits \subseteq DOMAIN p.toml.kits,
         \A s \in DOMAIN p'.toml.kits : p'.toml.kits[s].path = p.toml.kits[s].path
  PROVE  StaleBefore
BY DEF StaleBefore, StalePaths

\* A step that leaves core.toml registers no kit outside config/.
LEMMA StaleSame == p'.toml = p.toml => StaleBefore
BY DEF StaleBefore, StalePaths

\* The steps that leave core.toml alone.
LEMMA TomlKeepers ==
  ASSUME TypeOK, TodoThere,
         \/ Upgrade \/ CopyCoreDir \/ CopyCoreDirDies \/ FinishCore
         \/ \E s \in Slugs : LayoutKit(s) \/ LayoutKitFails(s) \/ LayoutRestoreFails(s) \/ LayoutBackupFails(s)
         \/ StartLayoutGen \/ LayoutGen \/ LayoutGenFails
         \/ LayoutPaths /\ p.toml.state = "torn"
         \/ LayoutRemove \/ LayoutRemoveSkips \/ LayoutRemoveDies
         \/ _cleanup_legacy_blueprint_dirs \/ BlueprintsStay
         \/ regenerate_gen_aggregates \/ Scaffold \/ Inject
         \/ _maybe_regenerate_agents \/ Report
         \/ InitRegistry \/ InitSkill \/ Dies
         \/ \E force, dry_run, ok \in BOOLEAN : cmd_init(force, dry_run, ok)
         \/ \E dry_run, ack \in BOOLEAN : cmd_update(dry_run, ack)
  PROVE  p'.toml = p.toml
<1>0. ProjectType(p)
  BY ProjectFacts
<1>1. CASE \/ Upgrade \/ StartLayoutGen \/ Report \/ Dies
           \/ LayoutPaths /\ p.toml.state = "torn"
  BY <1>1 DEF Upgrade, StartLayoutGen, Report, Dies, LayoutPaths, Only
<1>2. CASE \/ \E force, dry_run, ok \in BOOLEAN : cmd_init(force, dry_run, ok)
           \/ \E dry_run, ack \in BOOLEAN : cmd_update(dry_run, ack)
  BY <1>2, StartStep
<1>3. CASE CopyCoreDir \/ CopyCoreDirDies
  BY <1>0, <1>3, CopyCoreDirEffect, CopyCoreDirDiesEffect, SetCoreEffect
<1>4. CASE FinishCore
  <2>1. CASE cmd.kind = "update"
    BY <1>0, <1>4, <2>1, FinishCoreEffect, SetWhatsnewEffect
  <2>2. CASE cmd.kind # "update"
    BY <1>4, <2>2, FinishCoreEffect DEF Project
  <2> QED BY <2>1, <2>2
<1>5. ASSUME \/ \E s \in Slugs : LayoutKit(s) \/ LayoutKitFails(s) \/ LayoutRestoreFails(s) \/ LayoutBackupFails(s)
             \/ LayoutGen \/ LayoutGenFails
             \/ LayoutRemove \/ LayoutRemoveSkips \/ LayoutRemoveDies
             \/ _cleanup_legacy_blueprint_dirs \/ BlueprintsStay
      PROVE  p'.toml = p.toml
  <2>1. TreeStep
    BY <1>5, LayoutKitEffect, LayoutKitFailsEffect, LayoutRestoreFailsEffect, LayoutBackupFailsEffect,
       LayoutGenEffect, LayoutGenFailsEffect, LayoutRemoveEffect, LayoutRemoveSkipsEffect,
       LayoutRemoveDiesEffect, BlueprintsEffect, BlueprintsStayEffect
  <2> QED BY <2>1, TreeStepFacts
<1>6. CASE regenerate_gen_aggregates
  BY <1>0, <1>6, TailEffect, SetGenEffect
<1>7. CASE Scaffold \/ InitSkill
  BY <1>0, <1>7, TailEffect, SetCfgEffect
<1>8. CASE Inject
  BY <1>0, <1>8, TailEffect, SetRootEffect
<1>9. CASE _maybe_regenerate_agents
  BY <1>0, <1>9, TailEffect, SetAgentsEffect
<1>10. CASE InitRegistry
  BY <1>0, <1>10, InitRegistryEffect, SetRegEffect
<1> QED BY <1>1, <1>2, <1>3, <1>4, <1>5, <1>6, <1>7, <1>8, <1>9, <1>10

\* No step registers a kit outside config/.
LEMMA StaleStep ==
  ASSUME TypeOK, TodoThere, Next
  PROVE  StaleBefore
<1>1. CASE UserEdits
  BY <1>1, EditEffect DEF StaleBefore, StalePaths
<1>2. CASE LayoutPaths /\ p.toml.state # "torn"
  BY <1>2, PathsEffect DEF StaleBefore, StalePaths
<1>3. CASE _remove_system_from_core_toml
  BY <1>3, SystemEffect DEF StaleBefore, StalePaths
<1>4. CASE _deduplicate_legacy_kits
  BY <1>4, DedupEffect, StaleKept
<1>5. CASE _migrate_kit_sources
  BY <1>5, SourcesEffect, StaleKept
<1>6. CASE UpdateKits
  <2>1. PICK s : s = FirstOf(cmd.todo)
    OBVIOUS
  <2>2. Registers(s)
    BY <1>6, <2>1, UpdateKitsEffect
  <2> QED BY <2>2, StaleKept DEF Registers
<1>7. CASE InitToml
  BY <1>7, InitTomlEffect, StaleSame DEF StaleBefore, StalePaths
<1>8. CASE InitKit
  <2>1. CASE p' = p
    BY <2>1, StaleSame
  <2>2. CASE RegisteredAs(p'.toml, p.toml, Canonical, "github")
    <3>1. CASE p.toml.state # "ok"
      BY <2>2, <3>1, StaleSame DEF RegisteredAs
    <3>2. CASE p.toml.state = "ok"
      <4>1. /\ DOMAIN p'.toml.kits = DOMAIN p.toml.kits \cup {Canonical}
            /\ \A x \in DOMAIN p.toml.kits \ {Canonical} : p'.toml.kits[x] = p.toml.kits[x]
            /\ p'.toml.kits[Canonical].path = OldEntry(p.toml, Canonical).path
        BY <2>2, <3>2 DEF RegisteredAs
      <4>2. /\ Canonical \in DOMAIN p.toml.kits => OldEntry(p.toml, Canonical) = p.toml.kits[Canonical]
            /\ Canonical \notin DOMAIN p.toml.kits => OldEntry(p.toml, Canonical).path[1] = "config"
        BY DEF OldEntry
      <4> QED BY <3>2, <4>1, <4>2 DEF StaleBefore, StalePaths
    <3> QED BY <3>1, <3>2
  <2> QED BY <1>8, <2>1, <2>2, InitKitEffect
<1>9. CASE DiesWritingToml
  BY <1>9, TearEffect DEF StaleBefore
<1>10. CASE Overlooks
  <2>1. TomlKept
    BY <1>10, OverlooksProject
  <2> QED BY <2>1, StaleKept DEF TomlKept
<1> QED BY <1>1, <1>2, <1>3, <1>4, <1>5, <1>6, <1>7, <1>8, <1>9, <1>10, TomlKeepers, StaleSame
  DEF Next, Overlooks

\* The steps that leave the directories of kits alone.
LEMMA TreeKeepers ==
  ASSUME TypeOK, TodoThere,
         \/ Upgrade \/ CopyCoreDir \/ CopyCoreDirDies \/ FinishCore
         \/ StartLayoutGen \/ LayoutPaths
         \/ _remove_system_from_core_toml \/ _deduplicate_legacy_kits \/ _migrate_kit_sources
         \/ SystemUnwritten \/ DedupUnwritten \/ SourcesUnwritten
         \/ regenerate_gen_aggregates \/ Scaffold \/ Inject
         \/ _maybe_regenerate_agents \/ Report
         \/ InitToml \/ InitRegistry \/ InitSkill \/ Dies \/ DiesWritingToml
         \/ \E force, dry_run, ok \in BOOLEAN : cmd_init(force, dry_run, ok)
         \/ \E dry_run, ack \in BOOLEAN : cmd_update(dry_run, ack)
  PROVE  p'.tree = p.tree
<1>0. ProjectType(p)
  BY ProjectFacts
<1>1. CASE \/ Upgrade \/ StartLayoutGen \/ Report \/ Dies
           \/ LayoutPaths /\ p.toml.state = "torn"
  BY <1>1 DEF Upgrade, StartLayoutGen, Report, Dies, LayoutPaths, Only
<1>2. CASE \/ \E force, dry_run, ok \in BOOLEAN : cmd_init(force, dry_run, ok)
           \/ \E dry_run, ack \in BOOLEAN : cmd_update(dry_run, ack)
  BY <1>2, StartStep
<1>3. CASE CopyCoreDir \/ CopyCoreDirDies
  BY <1>0, <1>3, CopyCoreDirEffect, CopyCoreDirDiesEffect, SetCoreEffect
<1>4. CASE FinishCore
  <2>1. CASE cmd.kind = "update"
    BY <1>0, <1>4, <2>1, FinishCoreEffect, SetWhatsnewEffect
  <2>2. CASE cmd.kind # "update"
    BY <1>4, <2>2, FinishCoreEffect DEF Project
  <2> QED BY <2>1, <2>2
<1>5. ASSUME \/ LayoutPaths /\ p.toml.state # "torn"
             \/ _remove_system_from_core_toml \/ _migrate_kit_sources
             \/ SystemUnwritten \/ SourcesUnwritten
      PROVE  p'.tree = p.tree
  <2>1. TomlStep
    BY <1>5, PathsEffect, SystemEffect, SourcesEffect, SystemUnwrittenEffect, SourcesUnwrittenEffect
  <2> QED BY <2>1, TomlStepFacts
<1>6. CASE _deduplicate_legacy_kits \/ DedupUnwritten
  BY <1>6, DedupEffect, DedupUnwrittenEffect DEF Project
<1>7. CASE regenerate_gen_aggregates
  BY <1>0, <1>7, TailEffect, SetGenEffect
<1>8. CASE Scaffold \/ InitSkill
  BY <1>0, <1>8, TailEffect, SetCfgEffect
<1>9. CASE Inject
  BY <1>0, <1>9, TailEffect, SetRootEffect
<1>10. CASE _maybe_regenerate_agents
  BY <1>0, <1>10, TailEffect, SetAgentsEffect
<1>11. CASE InitRegistry
  BY <1>0, <1>11, InitRegistryEffect, SetRegEffect
<1>12. CASE InitToml
  BY <1>12, InitTomlEffect DEF Project
<1>13. CASE DiesWritingToml
  BY <1>0, <1>13, TearEffect, SetTomlEffect
<1> QED BY <1>1, <1>2, <1>3, <1>4, <1>5, <1>6, <1>7, <1>8, <1>9, <1>10, <1>11, <1>12, <1>13

\* Only the end of the layout migration removes directories of kits.
LEMMA LayoutKept ==
  ASSUME TypeOK, TodoThere, Next, cmd.pc # "layout_remove", OldLayout
  PROVE  OldLayout'
<1>1. SUFFICES DOMAIN p.tree \subseteq DOMAIN p'.tree
  BY DEF OldLayout
<1>2. CASE UserEdits
  BY <1>2, EditEffect
<1>3. CASE \E s \in Slugs : LayoutKit(s) \/ LayoutKitFails(s) \/ LayoutRestoreFails(s) \/ LayoutBackupFails(s)
  BY <1>3, LayoutKitEffect, LayoutKitFailsEffect, LayoutRestoreFailsEffect, LayoutBackupFailsEffect
  DEF Placed
<1>4. CASE LayoutGen \/ LayoutGenFails
  BY <1>4, LayoutGenEffect, LayoutGenFailsEffect DEF Placed
<1>5. CASE _cleanup_legacy_blueprint_dirs \/ BlueprintsStay
  BY <1>5, BlueprintsEffect, BlueprintsStayEffect
<1>6. CASE UpdateKits
  <2>1. PICK s : s = FirstOf(cmd.todo)
    OBVIOUS
  <2>2. p'.tree = p.tree \/ \E m : Placed(s, m, {}) /\ Reviews(s, m)
    BY <1>6, <2>1, UpdateKitsEffect
  <2> QED BY <2>2 DEF Placed
<1>7. CASE InitKit \/ InitKitUnregistered
  BY <1>7, InitKitEffect, InitKitUnregisteredEffect DEF Placed
<1>8. CASE KitUnregistered
  <2>1. PICK s : s = FirstOf(cmd.todo)
    OBVIOUS
  <2>2. p'.tree = p.tree \/ \E m : Placed(s, m, {}) /\ Reviews(s, m)
    BY <1>8, <2>1, KitUnregisteredEffect
  <2> QED BY <2>2 DEF Placed
<1>9. ~LayoutRemove /\ ~LayoutRemoveSkips /\ ~LayoutRemoveDies
  BY DEF LayoutRemove, LayoutRemoveSkips, LayoutRemoveDies, At1
<1> QED BY <1>2, <1>3, <1>4, <1>5, <1>6, <1>7, <1>8, <1>9, TreeKeepers DEF Next

\* Kits registered outside config/ have an older layout to be moved from.
LEMMA PathStep ==
  ASSUME TypeOK, TodoThere, InitPhase, UpdatePhase, PathPhase, Next
  PROVE  PathPhase'
<1> SUFFICES ASSUME p'.toml.state = "ok", StalePaths' # {}
             PROVE  OldLayout' /\ (cmd'.kind = "update" =>
                                     cmd'.pc \notin {"layout_remove"} \cup FromBlueprints)
  BY DEF PathPhase
<1>1. /\ OldLayout
      /\ cmd.kind = "update" => cmd.pc \notin {"layout_remove"} \cup FromBlueprints
  BY StaleStep DEF PathPhase, StaleBefore
<1>2. cmd.pc # "layout_remove"
  <2> SUFFICES ASSUME cmd.pc = "layout_remove" PROVE FALSE
    OBVIOUS
  <2>1. cmd.pc = "layout_remove"
    OBVIOUS
  <2>2. cmd.kind = "update"
    BY <2>1, CmdFacts DEF InitPhase, InitPCs, CmdType
  <2> QED BY <1>1, <2>1, <2>2
<1>3. OldLayout'
  BY <1>1, <1>2, LayoutKept
<1>4. ASSUME cmd'.kind = "update", cmd'.pc \in {"layout_remove"} \cup FromBlueprints
      PROVE  FALSE
  <2>0. cmd' # NoCmd /\ cmd'.pc \in {"layout_remove", "blueprints", "system", "dedup", "sources",
                                     "kits", "scaffold", "inject", "agents", "report"}
    BY <1>4, PhasePCs DEF NoCmd
  <2>1. CASE Works
    <3>1. cmd.kind = "update" /\ cmd.pc \in {"core", "layout", "layout_gen"}
      BY <1>1, <1>4, <2>0, <2>1, WorksKind, PhasePCs DEF UpdatePhase
    <3>2. CASE CopyCoreDir
      BY <2>0, <3>2, CopyCmd
    <3>3. CASE FinishCore
      <4>1. GotoWith("layout", InPlace("kits")) /\ "layout" \in PCs \ {"idle"} /\ InPlace("kits") \subseteq Slugs
        BY <1>1, <3>1, <3>3, Onwards, AllPCs DEF InPlace
      <4> QED BY <2>0, <4>1, GotoCmd
    <3>4. ASSUME NEW s \in Slugs, LayoutKit(s) PROVE FALSE
      <4>1. AtKit(s) /\ cmd.pc = "layout" /\ s \notin cmd.failed /\ NextKit(s, TRUE)
        BY <3>4, AtKitFact DEF LayoutKit, AtKit, At1, TodoThere
      <4> QED BY <2>0, <4>1, NextKitCmd
    <3>5. CASE StartLayoutGen
      <4>1. "layout_gen" \in PCs \ {"idle"} /\ InPlace("gen") \subseteq Slugs
        BY AllPCs DEF InPlace
      <4> QED BY <2>0, <3>5, <4>1, Onwards, GotoCmd
    <3>6. CASE LayoutGen
      BY <2>0, <3>6, GenCmd
    <3>7. CASE LayoutPaths
      <4>1. p.toml.state # "torn"
        BY <2>0, <3>7, StopsCmd DEF Stops
      <4> QED BY <3>7, <4>1, PathsEffect DEF StalePaths
    <3> QED BY <1>2, <2>1, <3>1, <3>2, <3>3, <3>4, <3>5, <3>6, <3>7
            DEF Works, LayoutRemove, At1, _cleanup_legacy_blueprint_dirs, _remove_system_from_core_toml,
                _deduplicate_legacy_kits, _migrate_kit_sources, UpdateKits, regenerate_gen_aggregates,
                Scaffold, Inject, _maybe_regenerate_agents, InitToml, InitKit, InitRegistry, InitSkill
  <2>2. CASE Fails
    BY <2>0, <2>2, FailsKind
  <2>3. CASE Upgrade \/ UserEdits
    <3>1. cmd' = cmd /\ cmd = NoCmd
      BY <2>3, CmdFacts DEF Upgrade, UserEdits, Idle
    <3> QED BY <2>0, <3>1
  <2>4. CASE \/ \E force, dry_run, ok \in BOOLEAN : cmd_init(force, dry_run, ok)
             \/ \E dry_run, ack \in BOOLEAN : cmd_update(dry_run, ack)
    <3>1. Starts("init", TRUE) \/ Starts("init", FALSE) \/ Starts("update", TRUE)
      BY <2>0, <2>4, StartStep
    <3> QED BY <2>0, <3>1, StartCmd
  <2>5. CASE Report
    BY <2>0, <2>5, StopsCmd DEF Stops
  <2>6. CASE Overlooks
    BY <1>1, <1>4, <2>0, <2>6, OverlooksKind, PhasePCs
  <2> QED BY <2>1, <2>2, <2>3, <2>4, <2>5, <2>6, Steps
<1> QED BY <1>3, <1>4

-----------------------------------------------------------------------------
(* What the kits of an older layout held.                                  *)

\* Faults are only added.
LEMMA FaultStep ==
  ASSUME TypeOK, NEW f \in Faults, faults' = Append(faults, f), NEW K, NoneOf(K)'
  PROVE  NoneOf(K) /\ f \notin K
<1>1. faults \in Seq(Faults)
  BY TypeParts DEF Parts, FaultsOK
<1>2. /\ DOMAIN faults' = 1..(Len(faults) + 1) /\ DOMAIN faults = 1..Len(faults) /\ Len(faults) \in Nat
      /\ faults'[Len(faults) + 1] = f /\ \A k \in 1..Len(faults) : faults'[k] = faults[k]
  BY <1>1
<1>3. \A k \in 1..(Len(faults) + 1) : faults'[k] \notin K
  BY <1>2 DEF NoneOf
<1>4. f \notin K
  BY <1>2, <1>3
<1>5. \A k \in 1..Len(faults) : k \in 1..(Len(faults) + 1)
  BY <1>2
<1> QED BY <1>2, <1>3, <1>4, <1>5 DEF NoneOf

\* A fault that is still to be missing did not just happen.
LEMMA NoFault ==
  ASSUME TypeOK, NEW f, NEW K, f \in K, NoneOf(K)'
  PROVE  ~Fault(f)
<1> SUFFICES ASSUME Fault(f) PROVE FALSE
  OBVIOUS
<1>1. f \in Faults /\ faults' = Append(faults, f)
  BY DEF Fault
<1> QED BY <1>1, FaultStep

\* A run free of a fault so far was free of it before.
LEMMA FaultsGrow ==
  ASSUME TypeOK, Next, NEW K, NoneOf(K)'
  PROVE  NoneOf(K)
<1>1. faults' = faults \/ \E f \in Faults : faults' = Append(faults, f)
  <2>1. CASE Works \/ Fails
    BY <2>1, WorksEffect, FailsEffect
  <2>2. CASE Upgrade \/ UserEdits \/ Report
    BY <2>2 DEF Upgrade, UserEdits, Idle, Report, counters
  <2>3. ASSUME \E force, dry_run, ok \in BOOLEAN : cmd_init(force, dry_run, ok)
        PROVE  faults' = faults \/ \E f \in Faults : faults' = Append(faults, f)
    BY <2>3 DEF cmd_init
  <2>4. CASE \E dry_run, ack \in BOOLEAN : cmd_update(dry_run, ack)
    BY <2>4 DEF cmd_update
  <2>5. CASE Overlooks
    BY <2>5, OverlooksEffect
  <2> QED BY <2>1, <2>2, <2>3, <2>4, <2>5, Steps
<1>2. CASE faults' = faults
  BY <1>2 DEF NoneOf
<1> QED BY <1>1, <1>2, FaultStep

\* The parts of the invariant.
Tame == NoneOf({"backup", "restore", "tear", "rmtree"})
Has(s, i) == i \in DOMAIN At(p.tree, <<"config", s>>) /\ p.tree[<<"config", s>>][i] # "half"
KitsWhole ==
    \A l \in DOMAIN p.tree : \A i \in DOMAIN p.tree[l] : l[1] = "kits" => p.tree[l][i] # "half"
ConfigWhole ==
    \A l \in DOMAIN p.tree : \A i \in DOMAIN p.tree[l] \ DirItems :
        l[1] \in {"config", "gen"} => p.tree[l][i] # "half"
Held ==
    \A s \in DOMAIN origin :
        /\ <<"kits", s>> \in DOMAIN p.tree => origin[s] \subseteq DOMAIN p.tree[<<"kits", s>>]
        /\ <<"kits", s>> \notin DOMAIN p.tree => \A i \in origin[s] : Has(s, i)
Copied ==
    cmd.pc \in LayoutPCs /\ cmd.failed = {} =>
        \A s \in Slugs :
            <<"kits", s>> \in DOMAIN p.tree /\ (cmd.pc = "layout" => s \notin cmd.todo)
                => \A i \in DOMAIN p.tree[<<"kits", s>>] \ LegacyItems : Has(s, i)

\* The invariant about old kits, by its parts.
LEMMA OldKitsParts ==
  /\ OldKitsPhase <=> (Tame => KitsWhole /\ ConfigWhole /\ Held /\ Copied)
  /\ OldKitsPhase' <=> (Tame' => KitsWhole' /\ ConfigWhole' /\ Held' /\ Copied')
BY DEF OldKitsPhase, Tame, KitsWhole, ConfigWhole, Held, Copied, InConfig, Has

\* What a merge leaves of whole files is whole files.
FilesWhole(m) == \A i \in DOMAIN m \ DirItems : m[i] # "half"

\* A merge of whole files has whole files, and all of the old kit.
LEMMA MergeWhole ==
  ASSUME NEW c, NEW o, FilesWhole(c), \A i \in DOMAIN o : o[i] # "half"
  PROVE  /\ FilesWhole(Merge(c, o))
         /\ \A i \in DOMAIN o : i \in DOMAIN Merge(c, o) /\ Merge(c, o)[i] # "half"
BY DEF Merge, FilesWhole

\* Also one that was cut short between files.
LEMMA HalfMergeWhole ==
  ASSUME NEW c, NEW o, FilesWhole(c), \A i \in DOMAIN o : o[i] # "half", NEW h \in HalfMerged(c, o)
  PROVE  FilesWhole(h)
<1>1. ASSUME NEW S \in SUBSET DOMAIN o PROVE FilesWhole(Merge(c, [i \in S |-> o[i]]))
  BY DEF Merge, FilesWhole
<1>2. CASE \E S \in SUBSET DOMAIN o : h = Merge(c, [i \in S |-> o[i]])
  BY <1>1, <1>2
<1>3. CASE \E S \in SUBSET DOMAIN o, j \in DOMAIN o \cap DirItems :
              h = Put(Merge(c, [i \in S |-> o[i]]), j, "half")
  <2>1. PICK S \in SUBSET DOMAIN o, j \in DOMAIN o \cap DirItems :
                h = Put(Merge(c, [i \in S |-> o[i]]), j, "half")
    BY <1>3
  <2> DEFINE m == Merge(c, [i \in S |-> o[i]])
  <2>2. FilesWhole(m) /\ h = Put(m, j, "half")
    BY <1>1, <2>1
  <2> HIDE DEF m
  <2> QED BY <2>2 DEF Put, FilesWhole
<1> QED BY <1>2, <1>3 DEF HalfMerged

\* A step that changes nothing in kits/.
KitsSame == \A s \in Slugs :
               /\ <<"kits", s>> \in DOMAIN p'.tree <=> <<"kits", s>> \in DOMAIN p.tree
               /\ <<"kits", s>> \in DOMAIN p.tree => p'.tree[<<"kits", s>>] = p.tree[<<"kits", s>>]

\* A step that leaves kits/ and takes nothing from config/ loses nothing.
LEMMA KitsSameKept ==
  ASSUME TypeOK, TypeOK', KitsSame, KitsWhole, Held, origin' = origin,
         \A s \in Slugs : <<"kits", s>> \notin DOMAIN p.tree =>
             \A i \in FileItems \cup DirItems : Has(s, i) => Has(s, i)'
  PROVE  KitsWhole' /\ Held'
<1>1. KitsWhole'
  <2> SUFFICES ASSUME NEW l \in DOMAIN p'.tree, NEW i \in DOMAIN p'.tree[l], l[1] = "kits"
               PROVE  p'.tree[l][i] # "half"
    BY DEF KitsWhole
  <2>1. DOMAIN p'.tree \subseteq Places \X Slugs
    BY TypeParts DEF Parts, ProjectType, TreeType
  <2>2. l = <<l[1], l[2]>> /\ l[2] \in Slugs
    BY <2>1
  <2>3. l \in DOMAIN p.tree /\ p'.tree[l] = p.tree[l]
    BY <2>2 DEF KitsSame
  <2> QED BY <2>3 DEF KitsWhole
<1>2. Held'
  <2> SUFFICES ASSUME NEW s \in DOMAIN origin
               PROVE  /\ <<"kits", s>> \in DOMAIN p'.tree => origin[s] \subseteq DOMAIN p'.tree[<<"kits", s>>]
                      /\ <<"kits", s>> \notin DOMAIN p'.tree => \A i \in origin[s] : Has(s, i)'
    BY DEF Held
  <2>1. s \in Slugs /\ origin[s] \subseteq FileItems \cup DirItems
    BY TypeParts DEF Parts, HistoryOK
  <2>2. /\ <<"kits", s>> \in DOMAIN p'.tree <=> <<"kits", s>> \in DOMAIN p.tree
        /\ <<"kits", s>> \in DOMAIN p.tree => p'.tree[<<"kits", s>>] = p.tree[<<"kits", s>>]
    BY <2>1 DEF KitsSame
  <2> QED BY <2>1, <2>2 DEF Held
<1> QED BY <1>1, <1>2

\* A step that writes the directory of kit s in config/.
LEMMA PlacedKept ==
  ASSUME TypeOK, NEW s \in Slugs, NEW m, NEW D \in {{}, {<<"backup", s>>}}, Placed(s, m, D)
  PROVE  /\ KitsSame
         /\ ConfigWhole /\ FilesWhole(m) => ConfigWhole'
         /\ \A x \in Slugs \ {s} : \A i : Has(x, i)' <=> Has(x, i)
         /\ \A i : Has(s, i)' <=> (i \in DOMAIN m /\ m[i] # "half")
<1>1. KitsSame
  BY DEF KitsSame, Placed
<1>2. ASSUME ConfigWhole, FilesWhole(m)
      PROVE  ConfigWhole'
  <2> SUFFICES ASSUME NEW l \in DOMAIN p'.tree, NEW i \in DOMAIN p'.tree[l] \ DirItems, l[1] \in {"config", "gen"}
               PROVE  p'.tree[l][i] # "half"
    BY DEF ConfigWhole
  <2>1. CASE l = <<"config", s>>
    BY <1>2, <2>1 DEF Placed, FilesWhole
  <2>2. CASE l # <<"config", s>>
    <3>1. l \in DOMAIN p.tree /\ l \notin D
      BY <2>2 DEF Placed
    <3> QED BY <1>2, <2>2, <3>1 DEF Placed, ConfigWhole
  <2> QED BY <2>1, <2>2
<1>3. ASSUME NEW x \in Slugs \ {s}, NEW i PROVE Has(x, i)' <=> Has(x, i)
  <2>1. /\ <<"config", x>> \in DOMAIN p'.tree <=> <<"config", x>> \in DOMAIN p.tree
        /\ <<"config", x>> \in DOMAIN p.tree => p'.tree[<<"config", x>>] = p.tree[<<"config", x>>]
    BY DEF Placed
  <2>2. At(p'.tree, <<"config", x>>) = At(p.tree, <<"config", x>>)
    BY <2>1 DEF At
  <2>3. DOMAIN <<>> = {}
    OBVIOUS
  <2> QED BY <2>1, <2>2, <2>3 DEF Has, At
<1>4. ASSUME NEW i PROVE Has(s, i)' <=> (i \in DOMAIN m /\ m[i] # "half")
  BY DEF Has, At, Placed
<1> QED BY <1>1, <1>2, <1>3, <1>4

\* The layout migration is entered only when .core/ has been copied.
LEMMA EntersLayout ==
  ASSUME TypeOK, TodoThere, Next, cmd'.pc \in LayoutPCs
  PROVE  cmd.pc \in LayoutPCs \/ FinishCore
<1>0. cmd' # NoCmd /\ cmd'.pc \in {"layout", "layout_gen", "layout_remove"}
  BY PhasePCs DEF NoCmd
<1>1. CASE Works
  <2>1. CASE CopyCoreDir \/ InitKit \/ UpdateKits
    BY <1>0, <2>1, CopyCmd, InitKitCmd, KitsCmd
  <2>2. CASE _migrate_kit_sources
    <3>1. "kits" \in PCs \ {"idle"} /\ DOMAIN Kits \subseteq Slugs
      BY AllPCs, ProjectFacts, KitsFact DEF KitsType
    <3> QED BY <1>0, <2>2, <3>1, Onwards, GotoCmd
  <2>3. CASE FinishCore \/ (\E s \in Slugs : LayoutKit(s)) \/ StartLayoutGen \/ LayoutGen \/ LayoutPaths
             \/ LayoutRemove
    BY <2>3, PhasePCs DEF LayoutKit, AtKit, StartLayoutGen, LayoutGen, LayoutPaths, LayoutRemove, At1
  <2>4. ASSUME NEW from, NEW to \in {"system", "dedup", "sources", "scaffold", "init_skill", "inject",
                                     "agents", "report", "init_kit", "init_gen", "init_inject"},
               Onward(from, to)
        PROVE  FALSE
    <3>1. cmd'.pc = to
      BY <2>4, OnwardCmd, AllPCs
    <3> QED BY <1>0, <2>4, <3>1
  <2> QED BY <1>1, <2>1, <2>2, <2>3, <2>4, Onwards DEF Works
<1>2. CASE Fails
  BY <1>0, <1>2, FailsKind, PhasePCs
<1>3. CASE Upgrade \/ UserEdits
  <2>1. cmd' = cmd /\ cmd = NoCmd
    BY <1>3, CmdFacts DEF Upgrade, UserEdits, Idle
  <2> QED BY <1>0, <2>1
<1>4. CASE \/ \E force, dry_run, ok \in BOOLEAN : cmd_init(force, dry_run, ok)
           \/ \E dry_run, ack \in BOOLEAN : cmd_update(dry_run, ack)
  <2>1. Starts("init", TRUE) \/ Starts("init", FALSE) \/ Starts("update", TRUE)
    BY <1>0, <1>4, StartStep
  <2> QED BY <1>0, <2>1, StartCmd
<1>5. CASE Report
  BY <1>0, <1>5, StopsCmd DEF Stops
<1>6. CASE Overlooks
  BY <1>0, <1>6, OverlooksKind, PhasePCs
<1> QED BY <1>1, <1>2, <1>3, <1>4, <1>5, <1>6, Steps

\* Steps that leave the directories of kits alone.
LEMMA SameTreeKits ==
  ASSUME p'.tree = p.tree
  PROVE  KitsSame /\ (ConfigWhole' <=> ConfigWhole) /\ \A s, i : Has(s, i)' <=> Has(s, i)
BY DEF KitsSame, ConfigWhole, Has

\* The steps of the layout migration that copy or remove kits.
KitStep == \/ \E s \in Slugs : \/ LayoutKit(s) \/ LayoutKitFails(s) \/ LayoutRestoreFails(s)
                               \/ LayoutBackupFails(s)
           \/ LayoutGen \/ LayoutGenFails
           \/ LayoutRemove \/ LayoutRemoveSkips \/ LayoutRemoveDies

\* Steps that neither copy nor remove keep what has been copied.
LEMMA SameTreeCopied ==
  ASSUME TypeOK, TodoThere, Copied, p'.tree = p.tree, Next, ~KitStep
  PROVE  Copied'
<1> SUFFICES ASSUME cmd'.pc \in LayoutPCs, cmd'.failed = {}, NEW s \in Slugs,
                    <<"kits", s>> \in DOMAIN p'.tree, cmd'.pc = "layout" => s \notin cmd'.todo,
                    NEW i \in DOMAIN p'.tree[<<"kits", s>>] \ LegacyItems
             PROVE  Has(s, i)'
  BY DEF Copied
<1>0. cmd' # NoCmd
  BY PhasePCs DEF NoCmd
<1>1. ASSUME cmd.pc \in LayoutPCs, cmd.failed = {}, cmd.pc = "layout" => s \notin cmd.todo
      PROVE  Has(s, i)'
  BY <1>1, SameTreeKits DEF Copied
<1>2. CASE FinishCore
  <2>1. {"layout", "blueprints", "init_toml"} \subseteq PCs \ {"idle"} /\ InPlace("kits") \subseteq Slugs
    BY AllPCs DEF InPlace
  <2>2. CASE GotoWith("layout", InPlace("kits"))
    <3>1. cmd'.pc = "layout" /\ cmd'.todo = InPlace("kits")
      BY <2>1, <2>2, GotoCmd
    <3> QED BY <3>1 DEF InPlace
  <2>3. CASE Goto("blueprints") \/ Goto("init_toml")
    <3>1. cmd'.pc \in {"blueprints", "init_toml"}
      BY <2>1, <2>3, GotoCmd
    <3> QED BY <3>1, PhasePCs
  <2> QED BY <1>2, <2>2, <2>3, Onwards
<1>3. CASE StartLayoutGen
  <2>1. "layout_gen" \in PCs \ {"idle"} /\ InPlace("gen") \subseteq Slugs
    BY AllPCs DEF InPlace
  <2>2. cmd.pc = "layout" /\ cmd.todo = {} /\ cmd.failed = {}
    BY <1>3, <2>1, Onwards, GotoCmd
  <2> QED BY <1>1, <2>2, PhasePCs
<1>4. CASE LayoutPaths
  <2>1. p.toml.state # "torn" /\ "layout_remove" \in PCs \ {"idle"}
    BY <1>0, <1>4, StopsCmd, AllPCs DEF Stops
  <2>2. cmd.pc = "layout_gen" /\ cmd.failed = {}
    BY <1>4, <2>1, Onwards, OnwardCmd
  <2> QED BY <1>1, <2>2, PhasePCs
<1>5. ~Stops
  BY <1>0, StopsCmd
<1>6. ASSUME cmd.pc \in LayoutPCs, ~StartLayoutGen, ~LayoutPaths PROVE FALSE
  <2>1. cmd.pc \in {"layout", "layout_gen", "layout_remove"}
    BY <1>6, PhasePCs
  <2>2. CASE Works
    BY <1>6, <2>1, <2>2 DEF Works, KitStep, At1, CopyCoreDir, FinishCore, _cleanup_legacy_blueprint_dirs,
       _remove_system_from_core_toml, _deduplicate_legacy_kits, _migrate_kit_sources, UpdateKits,
       regenerate_gen_aggregates, Scaffold, Inject, _maybe_regenerate_agents, InitToml, InitKit,
       InitRegistry, InitSkill
  <2>3. CASE Fails
    BY <1>5, <2>3 DEF Fails, KitStep, Stops
  <2>4. CASE Upgrade \/ UserEdits
    BY <2>1, <2>4 DEF Upgrade, UserEdits, Idle
  <2>5. CASE \/ \E force, dry_run, ok \in BOOLEAN : cmd_init(force, dry_run, ok)
             \/ \E dry_run, ack \in BOOLEAN : cmd_update(dry_run, ack)
    BY <2>1, <2>5, StartStep
  <2>6. CASE Overlooks
    BY <2>1, <2>6 DEF Overlooks, KitStep, BlueprintsStay, SystemUnwritten, DedupUnwritten,
       SourcesUnwritten, KitUnregistered, InitKitUnregistered, At1
  <2> QED BY <1>5, <2>2, <2>3, <2>4, <2>5, <2>6, Steps DEF Stops
<1> QED BY <1>2, <1>3, <1>4, <1>6, EntersLayout

\* The items of a kit in an older place, and of its directory in config/.
LEMMA KitFacts ==
  ASSUME TypeOK, KitsWhole, ConfigWhole, NEW s \in Slugs
  PROVE  /\ FilesWhole(At(p.tree, <<"config", s>>))
         /\ <<"kits", s>> \in DOMAIN p.tree =>
               \A i \in DOMAIN p.tree[<<"kits", s>>] : p.tree[<<"kits", s>>][i] # "half"
         /\ <<"gen", s>> \in DOMAIN p.tree => FilesWhole(p.tree[<<"gen", s>>])
         /\ \A i : Has(s, i) <=> (/\ i \in DOMAIN At(p.tree, <<"config", s>>)
                                  /\ At(p.tree, <<"config", s>>)[i] # "half")
<1>1. DOMAIN <<>> = {}
  OBVIOUS
<1>2. FilesWhole(At(p.tree, <<"config", s>>))
  BY <1>1 DEF FilesWhole, At, ConfigWhole
<1>3. ASSUME <<"kits", s>> \in DOMAIN p.tree
      PROVE  \A i \in DOMAIN p.tree[<<"kits", s>>] : p.tree[<<"kits", s>>][i] # "half"
  BY <1>3 DEF KitsWhole
<1>4. ASSUME <<"gen", s>> \in DOMAIN p.tree PROVE FilesWhole(p.tree[<<"gen", s>>])
  BY <1>4 DEF FilesWhole, ConfigWhole
<1>5. ASSUME NEW i
      PROVE  Has(s, i) <=> (/\ i \in DOMAIN At(p.tree, <<"config", s>>)
                            /\ At(p.tree, <<"config", s>>)[i] # "half")
  BY <1>1 DEF Has, At
<1> QED BY <1>2, <1>3, <1>4, <1>5

OldKept == KitsWhole /\ ConfigWhole /\ Held /\ Copied

\* Moving a kit loses nothing of it.
LEMMA LayoutKitKeeps ==
  ASSUME TypeOK, TodoThere, TypeOK', OldKept, NEW s \in Slugs, LayoutKit(s)
  PROVE  OldKept'
<1> DEFINE c == At(p.tree, <<"config", s>>)
           o == Wanted(p.tree[<<"kits", s>>])
<1>1. AtKit(s) /\ origin' = origin /\ cmd.pc = "layout" /\ NextKit(s, TRUE) /\ s \notin cmd.failed
  BY AtKitFact DEF LayoutKit, AtKit, At1, TodoThere
<1>2. /\ <<"kits", s>> \in DOMAIN p.tree
      /\ DOMAIN o = DOMAIN p.tree[<<"kits", s>>] \ LegacyItems
      /\ \A i \in DOMAIN o : o[i] = p.tree[<<"kits", s>>][i]
  BY <1>1, AtKitFact
<1>3. FilesWhole(c) /\ \A i \in DOMAIN o : o[i] # "half"
  BY <1>2, KitFacts DEF OldKept
<1>4. Placed(s, Merge(c, o), {<<"backup", s>>})
  BY LayoutKitEffect
<1> HIDE DEF c, o
<1>5. /\ FilesWhole(Merge(c, o))
      /\ \A i \in DOMAIN o : i \in DOMAIN Merge(c, o) /\ Merge(c, o)[i] # "half"
  BY <1>3, MergeWhole
<1>6. /\ KitsSame /\ ConfigWhole'
      /\ \A x \in Slugs \ {s} : \A i : Has(x, i)' <=> Has(x, i)
      /\ \A i \in DOMAIN o : Has(s, i)'
  BY <1>4, <1>5, PlacedKept DEF OldKept
<1>7. KitsWhole' /\ Held'
  BY <1>1, <1>2, <1>6, KitsSameKept DEF OldKept
<1>8. cmd'.pc = "layout" /\ cmd'.todo = cmd.todo \ {s} /\ cmd'.failed = cmd.failed
  BY <1>1, NextKitCmd
<1>9. Copied'
  <2> SUFFICES ASSUME cmd.failed = {}, NEW x \in Slugs, <<"kits", x>> \in DOMAIN p'.tree, x \notin cmd'.todo,
                      NEW i \in DOMAIN p'.tree[<<"kits", x>>] \ LegacyItems
               PROVE  Has(x, i)'
    BY <1>8 DEF Copied
  <2>1. <<"kits", x>> \in DOMAIN p.tree /\ p'.tree[<<"kits", x>>] = p.tree[<<"kits", x>>]
    BY <1>6 DEF KitsSame
  <2>2. CASE x = s
    BY <1>2, <1>6, <2>1, <2>2
  <2>3. CASE x # s
    <3>1. x \notin cmd.todo
      BY <1>8, <2>3
    <3>2. Has(x, i)
      BY <1>1, <2>1, <3>1, PhasePCs DEF OldKept, Copied
    <3> QED BY <1>6, <2>3, <3>2
  <2> QED BY <2>2, <2>3
<1> QED BY <1>6, <1>7, <1>9 DEF OldKept

\* Neither does a copy that fails or dies: kits/ is still whole.
LEMMA LayoutKitFailsKeeps ==
  ASSUME TypeOK, TodoThere, TypeOK', OldKept, NEW s \in Slugs, LayoutKitFails(s), Tame'
  PROVE  OldKept'
<1> DEFINE c == At(p.tree, <<"config", s>>)
           o == Wanted(p.tree[<<"kits", s>>])
<1>1. AtKit(s) /\ origin' = origin /\ cmd.pc = "layout" /\ (cmd' = NoCmd \/ NextKit(s, FALSE))
  BY DEF LayoutKitFails, AtKit, At1, Died
<1>2. /\ <<"kits", s>> \in DOMAIN p.tree
      /\ DOMAIN o = DOMAIN p.tree[<<"kits", s>>] \ LegacyItems
      /\ \A i \in DOMAIN o : o[i] = p.tree[<<"kits", s>>][i]
  BY <1>1, AtKitFact
<1>3. FilesWhole(c) /\ \A i \in DOMAIN o : o[i] # "half"
  BY <1>2, KitFacts DEF OldKept
<1>4. ~Fault("tear")
  <2> SUFFICES ASSUME Fault("tear") PROVE FALSE
    OBVIOUS
  <2>1. "tear" \in Faults /\ faults' = Append(faults, "tear")
    BY DEF Fault
  <2> QED BY <2>1, FaultStep DEF Tame
<1>5. PICK half \in HalfMerged(c, o) : Placed(s, half, {<<"backup", s>>})
  BY <1>4, LayoutKitFailsEffect
<1> HIDE DEF c, o
<1>6. FilesWhole(half)
  BY <1>3, HalfMergeWhole
<1>7. /\ KitsSame /\ ConfigWhole'
      /\ \A x \in Slugs \ {s} : \A i : Has(x, i)' <=> Has(x, i)
  BY <1>5, <1>6, PlacedKept DEF OldKept
<1>8. KitsWhole' /\ Held'
  BY <1>1, <1>2, <1>7, KitsSameKept DEF OldKept
<1>9. cmd'.pc = "idle" \/ cmd'.failed # {}
  <2>1. cmd' = NoCmd => cmd'.pc = "idle"
    BY DEF NoCmd
  <2>2. NextKit(s, FALSE) => cmd'.failed = cmd.failed \cup {s}
    BY <1>1, NextKitCmd
  <2> QED BY <1>1, <2>1, <2>2
<1>10. Copied'
  BY <1>9, PhasePCs DEF Copied
<1> QED BY <1>7, <1>8, <1>10 DEF OldKept

\* Filling up from .gen/kits replaces nothing.
LEMMA LayoutGenKeeps ==
  ASSUME TypeOK, TodoThere, TypeOK', OldKept, LayoutGen \/ LayoutGenFails
  PROVE  OldKept'
<1>0. PICK s : s = FirstOf(cmd.todo)
  OBVIOUS
<1> DEFINE c == At(p.tree, <<"config", s>>)
           g == p.tree[<<"gen", s>>]
<1>1. /\ origin' = origin /\ cmd.pc = "layout_gen" /\ cmd.todo # {} /\ s \in Slugs
      /\ <<"gen", s>> \in DOMAIN p.tree
  BY <1>0, AtGenFact DEF LayoutGen, LayoutGenFails, At1
<1>2. FilesWhole(c) /\ FilesWhole(g)
  BY <1>1, KitFacts DEF OldKept
<1>3. PICK o : FilesWhole(o) /\ Placed(s, Fill(c, o), {})
  <2>1. CASE LayoutGen
    BY <1>0, <1>2, <2>1, LayoutGenEffect
  <2>2. CASE LayoutGenFails
    <3>1. PICK S \in SUBSET DOMAIN g : Placed(s, Fill(c, [i \in S |-> g[i]]), {})
      BY <1>0, <2>2, LayoutGenFailsEffect
    <3>2. FilesWhole([k \in S |-> g[k]])
      BY <1>2 DEF FilesWhole
    <3> QED BY <3>1, <3>2
  <2> QED BY <2>1, <2>2
<1>4. \A i : Has(s, i) <=> (i \in DOMAIN c /\ c[i] # "half")
  BY <1>1, KitFacts DEF OldKept
<1> HIDE DEF c, g
<1>5. FilesWhole(Fill(c, o)) /\ \A i \in DOMAIN c : i \in DOMAIN Fill(c, o) /\ Fill(c, o)[i] = c[i]
  BY <1>2, <1>3 DEF FilesWhole, Fill
<1>6. /\ KitsSame /\ ConfigWhole'
      /\ \A x \in Slugs \ {s} : \A i : Has(x, i)' <=> Has(x, i)
      /\ \A i : Has(s, i)' <=> (i \in DOMAIN Fill(c, o) /\ Fill(c, o)[i] # "half")
  BY <1>1, <1>3, <1>5, PlacedKept DEF OldKept
<1>7. \A x \in Slugs : \A i : Has(x, i) => Has(x, i)'
  BY <1>4, <1>5, <1>6
<1>8. KitsWhole' /\ Held'
  BY <1>1, <1>6, <1>7, KitsSameKept DEF OldKept
<1>9. cmd'.pc = "layout_gen" /\ (cmd'.failed = {} => cmd.failed = {})
  <2>1. CASE LayoutGen
    BY <2>1, GenCmd
  <2>2. CASE LayoutGenFails
    <3>1. NextKit(s, FALSE)
      BY <1>0, <2>2 DEF LayoutGenFails
    <3> QED BY <1>1, <3>1, NextKitCmd
  <2> QED BY <2>1, <2>2
<1>10. Copied'
  <2> SUFFICES ASSUME cmd'.failed = {}, NEW x \in Slugs, <<"kits", x>> \in DOMAIN p'.tree,
                      NEW i \in DOMAIN p'.tree[<<"kits", x>>] \ LegacyItems
               PROVE  Has(x, i)'
    BY DEF Copied
  <2>1. <<"kits", x>> \in DOMAIN p.tree /\ p'.tree[<<"kits", x>>] = p.tree[<<"kits", x>>]
    BY <1>6 DEF KitsSame
  <2>2. Has(x, i)
    BY <1>1, <1>9, <2>1, PhasePCs DEF OldKept, Copied
  <2> QED BY <1>7, <2>2
<1> QED BY <1>6, <1>8, <1>10 DEF OldKept

\* kits/ is removed only once all of it is in config/.
LEMMA LayoutRemoveKeeps ==
  ASSUME TypeOK, TodoThere, TypeOK', OldKept, cmd.pc = "layout_remove", cmd'.pc \notin LayoutPCs,
         origin' = origin, Removal
  PROVE  OldKept'
<1>1. /\ \A l \in DOMAIN p'.tree : l \in DOMAIN p.tree
      /\ \A l \in DOMAIN p.tree : l[1] = "config" => l \in DOMAIN p'.tree
      /\ \A l \in DOMAIN p.tree : l[1] = "kits" /\ cmd.failed # {} => l \in DOMAIN p'.tree
      /\ \A l \in DOMAIN p'.tree : l[1] # "gen" => p'.tree[l] = p.tree[l]
      /\ \A l \in DOMAIN p'.tree : l[1] = "gen" =>
            \A i \in DOMAIN p'.tree[l] \ DirItems : i \in DOMAIN p.tree[l] /\ p'.tree[l][i] = p.tree[l][i]
  BY DEF Removal, RemovesKits
<1>2. KitsWhole'
  BY <1>1 DEF OldKept, KitsWhole
<1>3. ConfigWhole'
  <2> SUFFICES ASSUME NEW l \in DOMAIN p'.tree, NEW i \in DOMAIN p'.tree[l] \ DirItems,
                      l[1] \in {"config", "gen"}
               PROVE  p'.tree[l][i] # "half"
    BY DEF ConfigWhole
  <2>1. l \in DOMAIN p.tree /\ i \in DOMAIN p.tree[l] /\ p'.tree[l][i] = p.tree[l][i]
    BY <1>1
  <2> QED BY <2>1 DEF OldKept, ConfigWhole
<1>5. ASSUME NEW s, NEW i PROVE Has(s, i) => Has(s, i)'
  <2>1. /\ <<"config", s>> \in DOMAIN p'.tree <=> <<"config", s>> \in DOMAIN p.tree
        /\ <<"config", s>> \in DOMAIN p.tree => p'.tree[<<"config", s>>] = p.tree[<<"config", s>>]
    BY <1>1
  <2>2. DOMAIN <<>> = {}
    OBVIOUS
  <2> QED BY <2>1, <2>2 DEF Has, At
<1>6. Held'
  <2> SUFFICES ASSUME NEW s \in DOMAIN origin
               PROVE  /\ <<"kits", s>> \in DOMAIN p'.tree => origin[s] \subseteq DOMAIN p'.tree[<<"kits", s>>]
                      /\ <<"kits", s>> \notin DOMAIN p'.tree => \A i \in origin[s] : Has(s, i)'
    BY DEF Held
  <2>1. s \in Slugs /\ origin[s] \subseteq FileItems \cup DirItems
    BY TypeParts DEF Parts, HistoryOK
  <2>2. CASE <<"kits", s>> \in DOMAIN p'.tree
    BY <1>1, <2>2 DEF OldKept, Held
  <2>3. ASSUME <<"kits", s>> \notin DOMAIN p'.tree, NEW i \in origin[s] PROVE Has(s, i)'
    <3>1. CASE <<"kits", s>> \notin DOMAIN p.tree
      BY <1>5, <2>3, <3>1 DEF OldKept, Held
    <3>2. CASE <<"kits", s>> \in DOMAIN p.tree
      <4>1. cmd.failed = {}
        BY <1>1, <2>3, <3>2
      <4>2. i \in DOMAIN p.tree[<<"kits", s>>] \ LegacyItems
        BY <2>1, <2>3, <3>2, RegularItems DEF OldKept, Held
      <4>3. Has(s, i)
        BY <2>1, <3>2, <4>1, <4>2, PhasePCs DEF OldKept, Copied
      <4> QED BY <1>5, <4>3
    <3> QED BY <3>1, <3>2
  <2> QED BY <2>2, <2>3
<1>7. Copied'
  BY DEF Copied
<1> QED BY <1>2, <1>3, <1>6, <1>7 DEF OldKept

\* A review or an installation takes nothing from a kit's directory.
LEMMA ReviewKeeps ==
  ASSUME TypeOK, OldKept, NEW s \in Slugs, NEW m, Placed(s, m, {}), Reviews(s, m)
  PROVE  KitsSame /\ ConfigWhole' /\ \A x \in Slugs : \A i : Has(x, i) => Has(x, i)'
<1> DEFINE c == At(p.tree, <<"config", s>>)
<1>1. FilesWhole(c) /\ \A i : Has(s, i) <=> (i \in DOMAIN c /\ c[i] # "half")
  BY KitFacts DEF OldKept
<1>2. DOMAIN c \subseteq DOMAIN m /\ \A i \in DOMAIN m : m[i] = "release" \/ (i \in DOMAIN c /\ m[i] = c[i])
  BY DEF Reviews
<1> HIDE DEF c
<1>3. FilesWhole(m)
  BY <1>1, <1>2 DEF FilesWhole
<1>4. /\ KitsSame /\ ConfigWhole'
      /\ \A x \in Slugs \ {s} : \A i : Has(x, i)' <=> Has(x, i)
      /\ \A i : Has(s, i)' <=> (i \in DOMAIN m /\ m[i] # "half")
  BY <1>3, PlacedKept DEF OldKept
<1>5. \A i : Has(s, i) => Has(s, i)'
  BY <1>1, <1>2, <1>4
<1> QED BY <1>4, <1>5

\* The steps outside the migration that write to config/.
LEMMA ConfigKeeps ==
  ASSUME TypeOK, TodoThere, TypeOK', OldKept,
         \/ UserEdits \/ _cleanup_legacy_blueprint_dirs \/ BlueprintsStay
         \/ UpdateKits \/ KitUnregistered \/ InitKit \/ InitKitUnregistered
  PROVE  OldKept'
<1>1. cmd'.pc \notin LayoutPCs /\ origin' = origin
  <2>1. CASE UserEdits
    <3>1. cmd' = cmd /\ cmd.pc = "idle" /\ origin' = origin
      BY <2>1 DEF UserEdits, Idle
    <3> QED BY <3>1, PhasePCs
  <2>2. CASE _cleanup_legacy_blueprint_dirs
    <3>1. cmd'.pc = "system"
      BY <2>2, Onwards, OnwardCmd, AllPCs
    <3> QED BY <2>2, <3>1, PhasePCs DEF _cleanup_legacy_blueprint_dirs, At1
  <2>3. CASE UpdateKits
    <3>1. cmd'.pc = "kits"
      BY <2>3, KitsCmd
    <3> QED BY <2>3, <3>1, PhasePCs DEF UpdateKits, At1
  <2>4. CASE InitKit
    <3>1. cmd'.pc = "init_registry"
      BY <2>4, InitKitCmd
    <3> QED BY <2>4, <3>1, PhasePCs DEF InitKit, At1
  <2>5. CASE BlueprintsStay \/ KitUnregistered \/ InitKitUnregistered
    <3>1. Overlooks
      BY <2>5 DEF Overlooks
    <3>2. cmd'.pc \in FromBlueprints \/ cmd'.pc = "init_registry"
      BY <3>1, OverlooksKind
    <3> QED BY <3>1, <3>2, OverlooksEffect, PhasePCs
  <2> QED BY <2>1, <2>2, <2>3, <2>4, <2>5
<1>2. Copied'
  BY <1>1 DEF Copied
<1>3. /\ KitsSame /\ ConfigWhole'
      /\ \A s \in Slugs : \A i \in FileItems \cup DirItems : Has(s, i) => Has(s, i)'
  <2>0. DOMAIN <<>> = {}
    OBVIOUS
  <2>1. CASE UserEdits
    <3>1. /\ DOMAIN p'.tree = DOMAIN p.tree
          /\ \A l \in DOMAIN p.tree :
               /\ DOMAIN p'.tree[l] = DOMAIN p.tree[l]
               /\ l[1] # "config" => p'.tree[l] = p.tree[l]
               /\ \A i \in DOMAIN p.tree[l] : p'.tree[l][i] \in {p.tree[l][i], "edited"}
      BY <2>1, EditEffect
    <3>2. KitsSame
      BY <3>1 DEF KitsSame
    <3>3. ConfigWhole'
      BY <3>1 DEF OldKept, ConfigWhole
    <3> QED BY <2>0, <3>1, <3>2, <3>3 DEF Has, At
  <2>2. CASE _cleanup_legacy_blueprint_dirs \/ BlueprintsStay
    <3>1. /\ DOMAIN p'.tree = DOMAIN p.tree
          /\ \A l \in DOMAIN p.tree :
               /\ l[1] = "config" => /\ DOMAIN p.tree[l] \ LegacyItems \subseteq DOMAIN p'.tree[l]
                                     /\ DOMAIN p'.tree[l] \subseteq DOMAIN p.tree[l]
                                     /\ \A i \in DOMAIN p'.tree[l] : p'.tree[l][i] = p.tree[l][i]
               /\ l[1] # "config" => p'.tree[l] = p.tree[l]
      BY <2>2, BlueprintsEffect, BlueprintsStayEffect
    <3>2. KitsSame
      BY <3>1 DEF KitsSame
    <3>3. ConfigWhole'
      BY <3>1 DEF OldKept, ConfigWhole
    <3> QED BY <2>0, <3>1, <3>2, <3>3, RegularItems DEF Has, At
  <2>3. CASE p'.tree = p.tree
    BY <2>3, SameTreeKits DEF OldKept
  <2>4. CASE (UpdateKits \/ KitUnregistered) /\ p'.tree # p.tree
    <3>1. PICK s : s = FirstOf(cmd.todo)
      OBVIOUS
    <3>2. s \in Slugs
      BY <2>4, <3>1, AtKitsFact DEF UpdateKits, KitUnregistered, At1
    <3>3. PICK m : Placed(s, m, {}) /\ Reviews(s, m)
      BY <2>4, <3>1, UpdateKitsEffect, KitUnregisteredEffect
    <3> QED BY <3>2, <3>3, ReviewKeeps
  <2>5. CASE (InitKit \/ InitKitUnregistered) /\ p'.tree # p.tree
    <3>1. Placed(Canonical, Release, {}) /\ Canonical \in Slugs
      BY <2>5, InitKitEffect, InitKitUnregisteredEffect, SetupAssumption DEF Bundled
    <3>2. FilesWhole(Release) /\ \A i \in FileItems \cup DirItems : i \in DOMAIN Release /\ Release[i] # "half"
      BY DEF Release, FilesWhole
    <3>3. /\ KitsSame /\ ConfigWhole'
          /\ \A x \in Slugs \ {Canonical} : \A i : Has(x, i)' <=> Has(x, i)
          /\ \A i : Has(Canonical, i)' <=> (i \in DOMAIN Release /\ Release[i] # "half")
      BY <3>1, <3>2, PlacedKept DEF OldKept
    <3> QED BY <3>2, <3>3
  <2> QED BY <2>1, <2>2, <2>3, <2>4, <2>5
<1>4. KitsWhole' /\ Held'
  BY <1>1, <1>3, KitsSameKept DEF OldKept
<1> QED BY <1>2, <1>3, <1>4 DEF OldKept

\* Every step keeps what the old kits held.
LEMMA OldKitsStep ==
  ASSUME TypeOK, TodoThere, OldKitsPhase, Next
  PROVE  OldKitsPhase'
<1> SUFFICES ASSUME Tame' PROVE OldKept'
  BY OldKitsParts DEF OldKept
<1>1. OldKept
  BY FaultsGrow, OldKitsParts DEF OldKept, Tame
<1>2. TypeOK' /\ origin' = origin
  BY TypeStep, HistoryStep
<1>3. CASE \E s \in Slugs : LayoutKit(s)
  BY <1>1, <1>2, <1>3, LayoutKitKeeps
<1>4. CASE \E s \in Slugs : LayoutKitFails(s)
  BY <1>1, <1>2, <1>4, LayoutKitFailsKeeps
<1>5. CASE LayoutGen \/ LayoutGenFails
  BY <1>1, <1>2, <1>5, LayoutGenKeeps
<1>6. CASE LayoutRemove \/ LayoutRemoveSkips \/ LayoutRemoveDies
  <2>1. cmd.pc = "layout_remove"
    BY <1>6 DEF LayoutRemove, LayoutRemoveSkips, LayoutRemoveDies, At1
  <2>2. cmd'.pc \notin LayoutPCs
    <3>1. CASE LayoutRemove
      BY <3>1, Onwards, OnwardCmd, AllPCs, PhasePCs
    <3>2. CASE LayoutRemoveSkips
      BY <3>2, OverlooksKind, PhasePCs DEF Overlooks
    <3>3. CASE LayoutRemoveDies
      BY <3>3, StopsCmd, PhasePCs DEF Stops, NoCmd
    <3> QED BY <1>6, <3>1, <3>2, <3>3
  <2>3. Removal
    <3>1. ~Fault("rmtree")
      BY NoFault DEF Tame
    <3> QED BY <1>6, <3>1, LayoutRemoveEffect, LayoutRemoveSkipsEffect, LayoutRemoveDiesEffect
  <2> QED BY <1>1, <1>2, <2>1, <2>2, <2>3, LayoutRemoveKeeps
<1>7. ~(\E s \in Slugs : LayoutBackupFails(s) \/ LayoutRestoreFails(s))
  <2>1. ~Fault("backup") /\ ~Fault("restore")
    BY NoFault DEF Tame
  <2> QED BY <2>1 DEF LayoutBackupFails, LayoutRestoreFails
<1>8. CASE \/ UserEdits \/ _cleanup_legacy_blueprint_dirs \/ BlueprintsStay
           \/ UpdateKits \/ KitUnregistered \/ InitKit \/ InitKitUnregistered
  BY <1>1, <1>2, <1>8, ConfigKeeps
<1>9. CASE p'.tree = p.tree /\ ~KitStep
  <2>1. KitsSame /\ ConfigWhole' /\ \A s, i : Has(s, i)' <=> Has(s, i)
    BY <1>1, <1>9, SameTreeKits DEF OldKept
  <2>2. KitsWhole' /\ Held'
    BY <1>1, <1>2, <2>1, KitsSameKept DEF OldKept
  <2>3. Copied'
    BY <1>1, <1>9, SameTreeCopied DEF OldKept
  <2> QED BY <2>1, <2>2, <2>3 DEF OldKept
<1>10. KitStep => \/ \E s \in Slugs : LayoutKit(s)
                  \/ \E s \in Slugs : LayoutKitFails(s)
                  \/ \E s \in Slugs : LayoutBackupFails(s) \/ LayoutRestoreFails(s)
                  \/ LayoutGen \/ LayoutGenFails
                  \/ LayoutRemove \/ LayoutRemoveSkips \/ LayoutRemoveDies
  BY DEF KitStep
<1>11. ~KitStep => \/ UserEdits \/ _cleanup_legacy_blueprint_dirs \/ BlueprintsStay
                   \/ UpdateKits \/ KitUnregistered \/ InitKit \/ InitKitUnregistered
                   \/ p'.tree = p.tree
  BY TreeKeepers DEF Next, KitStep
<1> QED BY <1>3, <1>4, <1>5, <1>6, <1>7, <1>8, <1>9, <1>10, <1>11

\* What the kits held is then somewhere.
LEMMA OldKitsIntact == OldKept => KitsIntact
<1> SUFFICES ASSUME OldKept, NEW s \in DOMAIN origin, NEW i \in origin[s]
             PROVE  \E place \in {"kits", "backup", "config"} :
                       /\ i \in DOMAIN At(p.tree, <<place, s>>)
                       /\ p.tree[<<place, s>>][i] # "half"
  BY DEF KitsIntact
<1>1. CASE <<"kits", s>> \in DOMAIN p.tree
  <2>1. i \in DOMAIN p.tree[<<"kits", s>>]
    BY <1>1 DEF OldKept, Held
  <2>2. p.tree[<<"kits", s>>][i] # "half"
    BY <1>1, <2>1 DEF OldKept, KitsWhole
  <2> QED BY <1>1, <2>1, <2>2 DEF At
<1>2. CASE <<"kits", s>> \notin DOMAIN p.tree
  BY <1>2 DEF OldKept, Held, Has
<1> QED BY <1>1, <1>2

\* A restore that fails leaves the kit whole in its backup.
LEMMA RestoreKeeps ==
  ASSUME TypeOK, TodoThere, OldKept, NEW x \in Slugs, LayoutRestoreFails(x), origin' = origin
  PROVE  KitsIntact'
<1>1. /\ <<"kits", x>> \in DOMAIN p.tree
      /\ <<"backup", x>> \in DOMAIN p'.tree /\ p'.tree[<<"backup", x>>] = p.tree[<<"kits", x>>]
      /\ DOMAIN p.tree \subseteq DOMAIN p'.tree
      /\ \A l \in DOMAIN p.tree \ {<<"backup", x>>, <<"config", x>>, <<"kits", x>>} :
            p'.tree[l] = p.tree[l]
  BY LayoutRestoreFailsEffect
<1> SUFFICES ASSUME NEW s \in DOMAIN origin, NEW i \in origin[s]
             PROVE  \E place \in {"kits", "backup", "config"} :
                       /\ i \in DOMAIN At(p'.tree, <<place, s>>)
                       /\ p'.tree[<<place, s>>][i] # "half"
  BY DEF KitsIntact
<1>2. CASE <<"kits", s>> \in DOMAIN p.tree
  <2>1. i \in DOMAIN p.tree[<<"kits", s>>]
    BY <1>2 DEF OldKept, Held
  <2>2. p.tree[<<"kits", s>>][i] # "half"
    BY <1>2, <2>1 DEF OldKept, KitsWhole
  <2>3. CASE s = x
    BY <1>1, <2>1, <2>2, <2>3 DEF At
  <2>4. CASE s # x
    <3>1. <<"kits", s>> \in DOMAIN p'.tree /\ p'.tree[<<"kits", s>>] = p.tree[<<"kits", s>>]
      BY <1>1, <1>2, <2>4
    <3> QED BY <2>1, <2>2, <3>1 DEF At
  <2> QED BY <2>3, <2>4
<1>3. CASE <<"kits", s>> \notin DOMAIN p.tree
  <2>1. Has(s, i) /\ s # x
    BY <1>1, <1>3 DEF OldKept, Held
  <2>2. <<"config", s>> \in DOMAIN p.tree
    <3>1. DOMAIN <<>> = {}
      OBVIOUS
    <3> QED BY <2>1, <3>1 DEF Has, At
  <2>3. <<"config", s>> \in DOMAIN p'.tree /\ p'.tree[<<"config", s>>] = p.tree[<<"config", s>>]
    BY <1>1, <2>1, <2>2
  <2> QED BY <2>1, <2>2, <2>3 DEF Has, At
<1> QED BY <1>2, <1>3

\* Only that step reports that a kit was not restored.
LEMMA UnrestoredStep ==
  ASSUME TypeOK, TodoThere, ReportPhase, Next, result' = "unrestored"
  PROVE  \E s \in Slugs : LayoutRestoreFails(s)
<1>1. CASE Works \/ Overlooks
  <2>1. cmd.pc # "idle" /\ result' \in {result, "died"}
    BY <1>1, WorksKind, OverlooksKind, WorksEffect, OverlooksEffect
  <2> QED BY <2>1 DEF ReportPhase
<1>2. CASE Fails /\ ~\E s \in Slugs : LayoutRestoreFails(s)
  <2>1. cmd.pc # "idle" /\ result' \in {result, "died"}
    BY <1>2, FailsKind DEF Fails, LayoutKitFails, LayoutBackupFails, LayoutGenFails, LayoutRemoveDies,
       CopyCoreDirDies, Dies, DiesWritingToml, Died
  <2> QED BY <2>1 DEF ReportPhase
<1>3. CASE \/ \E force, dry_run, ok \in BOOLEAN : cmd_init(force, dry_run, ok)
           \/ \E dry_run, ack \in BOOLEAN : cmd_update(dry_run, ack)
  BY <1>3, StartStep
<1>4. ~(Upgrade \/ UserEdits)
  BY DEF Upgrade, UserEdits
<1>5. ~Report
  <2> SUFFICES ASSUME Report PROVE FALSE
    OBVIOUS
  <2>1. result' \in {"INIT_ERROR", "INITIALIZED", "PASS", "WARN"}
    BY DEF Report
  <2> QED BY <2>1
<1> QED BY <1>1, <1>2, <1>3, <1>4, <1>5, Steps

\* What the kits held survives every step.
LEMMA SurviveStep ==
  ASSUME TypeOK, TodoThere, ReportPhase, OldKitsPhase, Next
  PROVE  OldKitsSurvive'
<1> SUFFICES ASSUME NoneOf({"backup", "tear", "rmtree"})',
                    \A k \in DOMAIN faults' : faults'[k] = "restore" => RestoreJustFailed(k)'
             PROVE  KitsIntact'
  BY DEF OldKitsSurvive
<1>1. CASE Tame'
  <2>1. OldKitsPhase'
    BY OldKitsStep
  <2>2. OldKept'
    BY <1>1, <2>1, OldKitsParts DEF OldKept
  <2> QED BY <2>2, OldKitsIntact, PTL
<1>2. CASE ~Tame'
  <2>1. PICK k \in DOMAIN faults' : faults'[k] = "restore"
    BY <1>2 DEF Tame, NoneOf
  <2>2. result' = "unrestored"
    BY <2>1 DEF RestoreJustFailed
  <2>3. PICK s \in Slugs : LayoutRestoreFails(s)
    BY <2>2, UnrestoredStep
  <2>4. "restore" \in Faults /\ faults' = Append(faults, "restore")
    BY <2>3 DEF LayoutRestoreFails, Fault
  <2>5. faults \in Seq(Faults)
    BY TypeParts DEF Parts, FaultsOK
  <2>6. /\ DOMAIN faults' = 1..(Len(faults) + 1) /\ DOMAIN faults = 1..Len(faults) /\ Len(faults) \in Nat
        /\ Len(faults') = Len(faults) + 1 /\ \A n \in 1..Len(faults) : faults'[n] = faults[n]
    BY <2>4, <2>5
  <2>7. ASSUME NEW n \in DOMAIN faults PROVE faults[n] \notin {"backup", "restore", "tear", "rmtree"}
    <3>1. n \in DOMAIN faults' /\ n # Len(faults') /\ faults'[n] = faults[n]
      BY <2>6
    <3>2. faults'[n] \notin {"backup", "tear", "rmtree"}
      BY <3>1 DEF NoneOf
    <3>3. faults'[n] # "restore"
      BY <3>1 DEF RestoreJustFailed
    <3> QED BY <3>1, <3>2, <3>3
  <2>8. Tame
    BY <2>7 DEF Tame, NoneOf
  <2>9. OldKept
    BY <2>8, OldKitsParts DEF OldKept
  <2>10. origin' = origin
    BY HistoryStep
  <2> QED BY <2>3, <2>9, <2>10, RestoreKeeps
<1> QED BY <1>1, <1>2

\* Initially kits/ holds what it holds.
LEMMA OldKitsInit == Init => OldKitsPhase
<1> SUFFICES ASSUME Init PROVE OldKitsPhase
  OBVIOUS
<1>1. Whole(p.tree) /\ cmd.pc = "idle"
  BY SetupAssumption DEF Init, NoCmd
<1>2. KitsWhole /\ ConfigWhole
  BY <1>1 DEF Whole, KitsWhole, ConfigWhole
<1>3. Held
  <2>1. ASSUME NEW s \in DOMAIN origin
        PROVE  <<"kits", s>> \in DOMAIN p.tree /\ origin[s] \subseteq DOMAIN p.tree[<<"kits", s>>]
    BY DEF Init
  <2> QED BY <2>1 DEF Held
<1>4. Copied
  BY <1>1, PhasePCs DEF Copied
<1> QED BY <1>2, <1>3, <1>4, OldKitsParts

-----------------------------------------------------------------------------
(* The project after a clean update.                                       *)

\* A project with another .core/.
WithCore(x, q) == Project(x, q.whatsnew, q.agents, q.tree, q.toml, q.reg, q.cfg, q.gen, q.root)

\* Replacing .core/ in a project.
LEMMA WithCoreFact ==
  ASSUME NEW q, ProjectType(q), NEW x
  PROVE  [q EXCEPT !.core = x] = WithCore(x, q)
<1>1. q = Project(q.core, q.whatsnew, q.agents, q.tree, q.toml, q.reg, q.cfg, q.gen, q.root)
  BY ProjectParts
<1> QED BY <1>1 DEF Project, WithCore

\* A project is settled whatever its .core/ is.
LEMMA SettledFields ==
  ASSUME p'.whatsnew = p.whatsnew, p'.agents = p.agents, p'.tree = p.tree, p'.toml = p.toml,
         p'.reg = p.reg, p'.cfg = p.cfg, p'.gen = p.gen, p'.root = p.root, cache' = cache, Settled
  PROVE  Settled'
<1>1. Reviewed(Slugs)'
  BY DEF Settled, Reviewed, HasSource, IsCurrent, Unbound, Kits
<1>2. Gone({"gen", "kits"})' /\ NoLegacyItems' /\ NoSystem' /\ OneSlug' /\ Unsourced' = {}
      /\ Scaffolded' /\ Announced'
  BY Preserved DEF Settled
<1> QED BY <1>1, <1>2 DEF Settled

\* A command that is neither an init nor at the layout migration, and that has
\* passed over no failure.
Calm == cmd.kind # "init" /\ cmd.pc \notin LayoutPCs /\ cmd.silent = {}

\* Steps that leave the project.
LEMMA SettledSame ==
  ASSUME SettledPhase, p' = p, cache' = cache, prev' = prev, Calm'
  PROVE  SettledPhase'
<1> SUFFICES ASSUME prev.known PROVE SettledPhase'
  BY DEF SettledPhase
<1>1. Settled'
  BY SettledFields DEF SettledPhase
<1> QED BY <1>1 DEF SettledPhase, Calm

\* Steps that replace a directory of .core/ that the cache holds.
LEMMA SettledCore ==
  ASSUME TypeOK, TypeOK', SettledPhase, SetCore(p'.core), cache' = cache, prev' = prev, Calm',
         \A d \in CoreDirs \ CacheDirs : p'.core[d] = p.core[d]
  PROVE  SettledPhase'
<1> SUFFICES ASSUME prev.known PROVE SettledPhase'
  BY DEF SettledPhase
<1>0. ProjectType(p) /\ ProjectType(p)'
  BY TypeParts DEF Parts
<1>1. /\ p'.whatsnew = p.whatsnew /\ p'.agents = p.agents /\ p'.tree = p.tree /\ p'.toml = p.toml
      /\ p'.reg = p.reg /\ p'.cfg = p.cfg /\ p'.gen = p.gen /\ p'.root = p.root
  BY <1>0, SetCoreEffect
<1>2. Settled'
  BY <1>1, SettledFields DEF SettledPhase
<1>3. prev.project = WithCore(prev.project.core, p)
  BY <1>0, WithCoreFact DEF SettledPhase
<1>4. prev.project = WithCore(prev.project.core, p')
  BY <1>1, <1>3 DEF WithCore
<1>5. prev.project = [p' EXCEPT !.core = prev.project.core]
  BY <1>0, <1>4, WithCoreFact
<1>6. /\ prev.project.core \in [CoreDirs -> {Half} \cup Versions]
      /\ \A d \in CoreDirs : IF d \in CacheDirs THEN prev.project.core[d] = cache
                             ELSE prev.project.core[d] = p.core[d]
  BY DEF SettledPhase
<1> QED BY <1>2, <1>5, <1>6 DEF SettledPhase, Calm

\* On a settled project the steps of an update after the copy change nothing.
LEMMA SettledWorks ==
  ASSUME TypeOK, TodoThere, UpdatePhase, Settled, cmd.kind = "update", cmd.pc \notin LayoutPCs,
         cmd.silent = {}, Works, ~CopyCoreDir
  PROVE  p' = p /\ cmd'.pc \notin LayoutPCs /\ cmd'.silent = {}
<1>0. /\ ProjectType(p) /\ cmd.pc \in UpdatePCs
      /\ p = Project(p.core, p.whatsnew, p.agents, p.tree, p.toml, p.reg, p.cfg, p.gen, p.root)
      /\ {"blueprints", "system", "dedup", "sources", "kits", "scaffold", "inject", "agents", "report"}
            \subseteq PCs \ {"idle"}
  BY ProjectFacts, ProjectParts, AllPCs DEF UpdatePhase
<1>1. CASE FinishCore
  <2>1. ~OldLayout
    BY DEF Settled, Gone, OldLayout
  <2>2. cmd'.pc = "blueprints" /\ cmd'.silent = {}
    BY <1>0, <1>1, <2>1, Onwards, GotoCmd
  <2>3. SetWhatsnew(p.whatsnew)
    BY <1>1, FinishCoreEffect DEF Settled
  <2> QED BY <1>0, <2>2, <2>3, PhasePCs DEF SetWhatsnew
<1>2. CASE _cleanup_legacy_blueprint_dirs
  <2>1. TreeStep /\ p'.tree = p.tree
    BY <1>2, BlueprintsEffect DEF Settled
  <2>2. p' = p
    BY <1>0, <2>1 DEF TreeStep, SetTree
  <2>3. cmd'.pc = "system" /\ cmd'.silent = {}
    BY <1>0, <1>2, Onwards, OnwardCmd
  <2> QED BY <2>2, <2>3, PhasePCs
<1>3. CASE _remove_system_from_core_toml
  <2>1. p' = p
    BY <1>3, SystemEffect DEF Settled
  <2>2. cmd'.pc = "dedup" /\ cmd'.silent = {}
    BY <1>0, <1>3, Onwards, OnwardCmd
  <2> QED BY <2>1, <2>2, PhasePCs
<1>4. CASE _deduplicate_legacy_kits
  <2>1. p' = p
    BY <1>4, DedupEffect DEF Settled
  <2>2. cmd'.pc = "sources" /\ cmd'.silent = {}
    BY <1>0, <1>4, Onwards, OnwardCmd
  <2> QED BY <2>1, <2>2, PhasePCs
<1>5. CASE _migrate_kit_sources
  <2>1. p' = p
    BY <1>5, SourcesEffect DEF Settled
  <2>2. DOMAIN Kits \subseteq Slugs
    BY ProjectFacts, KitsFact DEF KitsType
  <2>3. cmd'.pc = "kits" /\ cmd'.silent = {}
    BY <1>0, <1>5, <2>2, Onwards, GotoCmd
  <2> QED BY <2>1, <2>3, PhasePCs
<1>6. CASE UpdateKits
  <2>1. PICK s : s = FirstOf(cmd.todo)
    OBVIOUS
  <2>2. s \in DOMAIN Kits \cap Slugs
    <3>1. cmd.pc = "kits" /\ cmd.todo # {}
      BY <1>6 DEF UpdateKits, At1
    <3>2. s \in cmd.todo /\ s \in Slugs
      BY <2>1, <3>1, AtKitsFact
    <3> QED BY <3>1, <3>2 DEF TodoThere, Done
  <2>3. HasSource(s) => IsCurrent(s) /\ ~Unbound(s)
    BY <2>2 DEF Settled, Reviewed
  <2>4. p' = p
    BY <1>6, <2>1, <2>3, UpdateKitsEffect
  <2>5. cmd'.pc = "kits" /\ cmd'.silent = {}
    BY <1>6, <2>1, KitsCmd
  <2> QED BY <2>4, <2>5, PhasePCs
<1>7. CASE regenerate_gen_aggregates
  <2>1. SetGen(p.gen)
    BY <1>7, TailEffect DEF Settled
  <2>2. p' = p
    BY <1>0, <2>1 DEF SetGen
  <2>3. cmd.pc # "init_gen"
    BY <1>0, PhasePCs
  <2>4. cmd'.pc = "scaffold" /\ cmd'.silent = {}
    BY <1>0, <1>7, <2>3, Onwards, OnwardCmd DEF Onward
  <2> QED BY <2>2, <2>4, PhasePCs
<1>8. CASE Scaffold
  <2>1. p.cfg \in CfgType
    BY ProjectFacts
  <2>2. _ensure_file(p.cfg, ConfigFiles) = p.cfg
    BY <2>1 DEF Settled, Scaffolded, _ensure_file, CfgType
  <2>3. SetCfg(p.cfg)
    BY <1>8, <2>2, TailEffect
  <2>4. p' = p
    BY <1>0, <2>3 DEF SetCfg
  <2>5. cmd'.pc = "inject" /\ cmd'.silent = {}
    BY <1>0, <1>8, Onwards, OnwardCmd
  <2> QED BY <2>4, <2>5, PhasePCs
<1>9. CASE Inject
  <2>1. p.root \in [RootFiles -> BOOLEAN]
    BY <1>0, ProjectParts DEF RootType
  <2>2. _inject_root(p.root) = p.root
    BY <2>1 DEF Settled, Announced, _inject_root
  <2>3. SetRoot(p.root)
    BY <1>9, <2>2, TailEffect
  <2>4. p' = p
    BY <1>0, <2>3 DEF SetRoot
  <2>5. cmd.pc # "init_inject"
    BY <1>0, PhasePCs
  <2>6. cmd'.pc = "agents" /\ cmd'.silent = {}
    BY <1>0, <1>9, <2>5, Onwards, OnwardCmd DEF Onward
  <2> QED BY <2>4, <2>6, PhasePCs
<1>10. CASE _maybe_regenerate_agents
  <2>1. SetAgents(p.agents)
    BY <1>10, TailEffect DEF Settled
  <2>2. p' = p
    BY <1>0, <2>1 DEF SetAgents
  <2>3. cmd'.pc = "report" /\ cmd'.silent = {}
    BY <1>0, <1>10, Onwards, OnwardCmd
  <2> QED BY <2>2, <2>3, PhasePCs
<1>11. ~(InitToml \/ InitKit \/ InitRegistry \/ InitSkill)
  BY <1>0, PhasePCs DEF InitToml, InitKit, InitRegistry, InitSkill, At1
<1>12. ~((\E s \in Slugs : LayoutKit(s)) \/ StartLayoutGen \/ LayoutGen \/ LayoutPaths \/ LayoutRemove)
  BY PhasePCs DEF LayoutKit, AtKit, StartLayoutGen, LayoutGen, LayoutPaths, LayoutRemove, At1
<1> QED BY <1>1, <1>2, <1>3, <1>4, <1>5, <1>6, <1>7, <1>8, <1>9, <1>10, <1>11, <1>12 DEF Works

\* On a settled project an update does not write core.toml.
LEMMA SettledTear ==
  ASSUME TypeOK, TodoThere, UpdatePhase, Settled, cmd.kind = "update", cmd.pc \notin LayoutPCs,
         cmd.silent = {}
  PROVE  ~WritesToml
<1> SUFFICES ASSUME WritesToml PROVE FALSE
  OBVIOUS
<1>1. cmd.pc \in UpdatePCs
  BY DEF UpdatePhase
<1>2. CASE cmd.pc = "kits" /\ cmd.todo # {} /\ HasSource(FirstOf(cmd.todo))
           /\ (~IsCurrent(FirstOf(cmd.todo)) \/ Unbound(FirstOf(cmd.todo)))
  <2>1. PICK s : s = FirstOf(cmd.todo)
    OBVIOUS
  <2>2. s \in DOMAIN Kits \cap Slugs
    <3>1. s \in cmd.todo /\ s \in Slugs
      BY <1>2, <2>1, AtKitsFact
    <3> QED BY <1>2, <3>1 DEF TodoThere, Done
  <2> QED BY <1>2, <2>1, <2>2 DEF Settled, Reviewed
<1> QED BY <1>1, <1>2, PhasePCs DEF WritesToml, Settled, NoSystem, OneSlug

\* Every step keeps the account of the last clean update.
LEMMA SettledStep ==
  ASSUME TypeOK, TodoThere, UpdatePhase, InitPhase, SettledPhase, Next
  PROVE  SettledPhase'
<1> SUFFICES ASSUME prev'.known PROVE SettledPhase'
  BY DEF SettledPhase
<1>0. TypeOK' /\ prev' # NoPrev /\ (cmd' = NoCmd => Calm')
  <2>1. TypeOK'
    BY TypeStep
  <2>2. prev' # NoPrev
    BY NoPrevUnknown
  <2>3. cmd' = NoCmd => Calm'
    BY PhasePCs DEF NoCmd, Calm
  <2> QED BY <2>1, <2>2, <2>3
<1>1. ~(Upgrade \/ UserEdits \/ \E force, dry_run, ok \in BOOLEAN : cmd_init(force, dry_run, ok))
  BY <1>0 DEF Upgrade, UserEdits, cmd_init
<1>2. CASE \E dry_run, ack \in BOOLEAN : cmd_update(dry_run, ack)
  <2>1. p' = p /\ cache' = cache /\ prev' = prev /\ (cmd' = NoCmd \/ Starts("update", TRUE))
    BY <1>2 DEF cmd_update, Start, Refused, Starts
  <2>2. Starts("update", TRUE) => Calm'
    <3> SUFFICES ASSUME Starts("update", TRUE) PROVE Calm'
      OBVIOUS
    <3>1. cmd'.kind = "update" /\ cmd'.pc = "core" /\ cmd'.silent = {}
      BY StartCmd
    <3> QED BY <3>1, PhasePCs DEF Calm
  <2> QED BY <1>0, <2>1, <2>2, SettledSame
<1>3. ASSUME prev' = prev, cmd.pc # "idle"
      PROVE  cmd.kind = "update" /\ cmd.pc \notin LayoutPCs /\ cmd.silent = {} /\ Settled
  BY <1>3, CmdFacts DEF SettledPhase, InitPhase, CmdType
<1>4. CASE Works
  <2>1. prev' = prev /\ cache' = cache /\ cmd.pc # "idle" /\ (cmd' = NoCmd \/ cmd'.kind = cmd.kind)
    BY <1>4, WorksEffect, WorksKind
  <2>2. cmd.kind = "update" /\ cmd.pc \notin LayoutPCs /\ cmd.silent = {} /\ Settled
    BY <1>3, <2>1
  <2>3. CASE CopyCoreDir
    <3> DEFINE d == CoreOrder[cmd.at]
    <3>1. /\ SetCore(p'.core) /\ d \in CoreDirs
          /\ p'.core = IF Skips(d) THEN p.core ELSE [p.core EXCEPT ![d] = cache]
          /\ p.core \in CoreType
      BY <2>3, CopyCoreDirEffect, ProjectFacts
    <3>2. d \notin CacheDirs => Skips(d)
      BY DEF Skips
    <3>3. \A e \in CoreDirs \ CacheDirs : p'.core[e] = p.core[e]
      BY <3>1, <3>2 DEF CoreType
    <3>4. Calm'
      BY <2>2, <2>3, CopyCmd, PhasePCs DEF Calm
    <3> QED BY <1>0, <2>1, <3>1, <3>3, <3>4, SettledCore
  <2>4. CASE ~CopyCoreDir
    <3>1. p' = p /\ cmd'.pc \notin LayoutPCs /\ cmd'.silent = {}
      BY <1>4, <2>2, <2>4, SettledWorks
    <3>2. Calm'
      BY <1>0, <2>1, <2>2, <3>1 DEF Calm
    <3> QED BY <2>1, <3>1, <3>2, SettledSame
  <2> QED BY <2>3, <2>4
<1>5. CASE Fails
  <2>1. prev' = prev /\ cache' = cache /\ cmd.pc # "idle"
    BY <1>5, FailsEffect, FailsKind
  <2>2. cmd.kind = "update" /\ cmd.pc \notin LayoutPCs /\ cmd.silent = {} /\ Settled
    BY <1>3, <2>1
  <2>3. cmd' = NoCmd
    BY <1>5, <2>2, FailsKind, PhasePCs
  <2>4. CASE CopyCoreDirDies
    <3> DEFINE d == CoreOrder[cmd.at]
    <3>1. /\ SetCore(p'.core) /\ d \in CoreDirs /\ ~Skips(d)
          /\ \E left \in {Half} \cup Versions : p'.core = [p.core EXCEPT ![d] = left]
          /\ p.core \in CoreType
      BY <2>4, CopyCoreDirDiesEffect, ProjectFacts
    <3>2. d \in CacheDirs
      BY <3>1 DEF Skips
    <3>3. \A e \in CoreDirs \ CacheDirs : p'.core[e] = p.core[e]
      BY <3>1, <3>2 DEF CoreType
    <3> QED BY <1>0, <2>1, <2>3, <3>1, <3>3, SettledCore
  <2>5. CASE Dies
    <3>1. p' = p
      BY <2>5 DEF Dies
    <3> QED BY <1>0, <2>1, <2>3, <3>1, SettledSame
  <2>6. ~DiesWritingToml
    BY <2>2, SettledTear DEF DiesWritingToml
  <2>7. ~(\/ \E s \in Slugs : LayoutKitFails(s) \/ LayoutRestoreFails(s) \/ LayoutBackupFails(s)
          \/ LayoutGenFails \/ LayoutRemoveDies)
    BY <2>2, PhasePCs DEF LayoutKitFails, LayoutRestoreFails, LayoutBackupFails, LayoutGenFails,
                          LayoutRemoveDies, AtKit, At1
  <2> QED BY <1>5, <2>4, <2>5, <2>6, <2>7 DEF Fails
<1>6. CASE Report
  <2>1. p' = p /\ cache' = cache /\ cmd' = NoCmd /\ cmd.pc = "report"
    BY <1>6 DEF Report, At1
  <2>2. CASE cmd.kind = "init"
    <3>1. prev' = prev
      BY <1>6, <2>2 DEF Report
    <3> QED BY <1>0, <2>1, <3>1, SettledSame
  <2>3. CASE cmd.kind # "init"
    <3>1. cmd.kind = "update"
      BY <2>1, <2>3, CmdFacts DEF InitPhase, CmdType
    <3>2. ~cmd.errors /\ cmd.failed = {} /\ cmd.silent = {} /\ prev' = [known |-> TRUE, project |-> p]
      BY <1>0, <1>6, <2>3, Zenon DEF Report
    <3>3. /\ CoreCurrent /\ p.whatsnew = cache /\ p.agents \in {0, cache} /\ Gone({"gen"}) /\ Gone({"kits"})
          /\ NoLegacyItems /\ NoSystem /\ OneSlug /\ Unsourced = {} /\ Reviewed(Slugs \ cmd.todo)
          /\ cmd.todo = {} /\ p.gen = Aggregate(p.tree) /\ Scaffolded /\ Announced
      BY <2>1, <3>1, <3>2, PhasePCs DEF UpdatePhase, Done
    <3>4. Slugs \ cmd.todo = Slugs
      BY <3>3
    <3>5. Settled
      BY <3>3, <3>4 DEF Settled, Gone
    <3>6. Settled'
      BY <2>1, <3>5, SettledFields
    <3>7. ProjectType(p) /\ p.core \in CoreType
      BY ProjectFacts
    <3>8. prev'.project = p
      BY <3>2
    <3>9. p = [p EXCEPT !.core = p.core]
      <4>1. [p EXCEPT !.core = p.core] = WithCore(p.core, p)
        BY <3>7, WithCoreFact
      <4>2. p = WithCore(p.core, p)
        BY <3>7, ProjectParts DEF WithCore
      <4> QED BY <4>1, <4>2, Zenon
    <3> QED BY <1>0, <2>1, <3>3, <3>6, <3>7, <3>8, <3>9 DEF SettledPhase, Calm, CoreType, CoreCurrent
  <2> QED BY <2>2, <2>3
<1>7. ~Overlooks
  <2> SUFFICES ASSUME Overlooks PROVE FALSE
    OBVIOUS
  <2>1. prev' = prev /\ cmd.pc # "idle"
    BY OverlooksEffect, OverlooksKind
  <2>2. cmd.kind = "update" /\ cmd.pc \notin LayoutPCs /\ Settled
    BY <1>3, <2>1
  <2>3. ~LayoutRemoveSkips
    BY <2>2, PhasePCs DEF LayoutRemoveSkips, At1
  <2>4. ~BlueprintsStay
    BY <2>2 DEF BlueprintsStay, Settled, NoLegacyItems
  <2>5. ~SystemUnwritten
    BY <2>2 DEF SystemUnwritten, HasSystem, Settled, NoSystem
  <2>6. ~DedupUnwritten
    BY <2>2 DEF DedupUnwritten, DedupReg, Settled, OneSlug
  <2>7. ~SourcesUnwritten
    BY <2>2 DEF SourcesUnwritten, Settled
  <2>8. ~KitUnregistered
    <3> SUFFICES ASSUME KitUnregistered PROVE FALSE
      OBVIOUS
    <3>1. PICK s : s = FirstOf(cmd.todo)
      OBVIOUS
    <3>2. s \in DOMAIN Kits /\ HasSource(s) /\ ~(IsCurrent(s) /\ ~Unbound(s))
      BY <3>1, KitUnregisteredEffect
    <3>3. s \in Slugs
      BY <3>2, ProjectFacts, KitsFact DEF KitsType
    <3> QED BY <2>2, <3>2, <3>3 DEF Settled, Reviewed
  <2>9. ~InitKitUnregistered
    BY <2>2, PhasePCs DEF InitKitUnregistered, At1, UpdatePhase
  <2> QED BY <2>3, <2>4, <2>5, <2>6, <2>7, <2>8, <2>9 DEF Overlooks
<1> QED BY <1>1, <1>2, <1>4, <1>5, <1>6, <1>7, Steps

-----------------------------------------------------------------------------
(* The backups of `init --force`.                                          *)

TomlSaved == p.toml.state = "ok" => \E b \in backups : b.toml = p.toml
RegSaved == p.reg.state = "ok" => \E b \in backups : b.reg = p.reg

\* What a backup was taken of stays saved as long as it is not replaced.
LEMMA SavedStep ==
  ASSUME backups' = backups
  PROVE  /\ p'.toml = p.toml /\ TomlSaved => TomlSaved'
         /\ p'.reg = p.reg /\ RegSaved => RegSaved'
BY DEF TomlSaved, RegSaved

\* The invariant about backups, by its parts.
LEMMA BackupParts ==
  /\ BackupPhase <=> (NoneOf({"backup"}) /\ cmd.kind = "init" /\ cmd.force =>
        /\ cmd.pc \in {"core", "init_toml"} => TomlSaved
        /\ cmd.pc \in {"core", "init_toml", "init_kit", "init_registry"} => RegSaved)
  /\ BackupPhase' <=> (NoneOf({"backup"})' /\ cmd'.kind = "init" /\ cmd'.force =>
        /\ cmd'.pc \in {"core", "init_toml"} => TomlSaved'
        /\ cmd'.pc \in {"core", "init_toml", "init_kit", "init_registry"} => RegSaved')
BY DEF BackupPhase, TomlSaved, RegSaved

\* init --force saves what it found before it starts.
LEMMA BackupStarts ==
  ASSUME TypeOK, NEW force \in BOOLEAN, NEW dry_run \in BOOLEAN, NEW ok \in BOOLEAN,
         cmd_init(force, dry_run, ok), NoneOf({"backup"})', Starts("init", TRUE)
  PROVE  TomlSaved' /\ RegSaved'
<1>0. NoCmd \in CmdType
  BY NoCmdType
<1>1. cmd' # NoCmd /\ cmd'.force = TRUE
  <2>1. cmd'.pc = "core" /\ cmd'.force = TRUE
    BY StartCmd
  <2> QED BY <2>1 DEF NoCmd
<1>2. /\ cmd' = [NoCmd EXCEPT !.pc = "core", !.kind = "init", !.force = force]
      /\ backups' = backups \cup (IF force THEN create_backup(ok) ELSE {}) /\ p' = p
      /\ ok \/ ("backup" \in Faults /\ faults' = Append(faults, "backup"))
  BY <1>1 DEF cmd_init, Refused
<1>3. Starts("init", force)
  BY <1>2 DEF Starts
<1>4. force = TRUE
  BY <1>1, <1>3, StartCmd
<1>5. ok
  BY <1>2, FaultStep
<1>6. ASSUME p.toml.state # "absent" \/ p.reg.state # "absent"
      PROVE  [toml |-> p.toml, reg |-> p.reg] \in backups'
  BY <1>2, <1>4, <1>5, <1>6 DEF create_backup, DirExists
<1>7. [toml |-> p.toml, reg |-> p.reg].toml = p.toml /\ [toml |-> p.toml, reg |-> p.reg].reg = p.reg
  OBVIOUS
<1> QED BY <1>2, <1>6, <1>7 DEF TomlSaved, RegSaved

\* What init --force is going to replace is saved.
LEMMA BackupStep ==
  ASSUME TypeOK, TodoThere, InitPhase, BackupPhase, Next
  PROVE  BackupPhase'
<1> SUFFICES ASSUME NoneOf({"backup"})', cmd'.kind = "init", cmd'.force
             PROVE  /\ cmd'.pc \in {"core", "init_toml"} => TomlSaved'
                    /\ cmd'.pc \in {"core", "init_toml", "init_kit", "init_registry"} => RegSaved'
  BY BackupParts
<1>0. cmd' # NoCmd /\ NoneOf({"backup"}) /\ ProjectType(p)
  BY FaultsGrow, ProjectFacts DEF NoCmd
<1>1. CASE \/ \E force, dry_run, ok \in BOOLEAN : cmd_init(force, dry_run, ok)
           \/ \E dry_run, ack \in BOOLEAN : cmd_update(dry_run, ack)
  <2>1. Starts("init", TRUE)
    <3>1. Starts("init", TRUE) \/ Starts("init", FALSE) \/ Starts("update", TRUE)
      BY <1>0, <1>1, StartStep
    <3>2. ~Starts("init", FALSE) /\ ~Starts("update", TRUE)
      BY StartCmd
    <3> QED BY <3>1, <3>2
  <2>2. CASE \E force, dry_run, ok \in BOOLEAN : cmd_init(force, dry_run, ok)
    BY <2>1, <2>2, BackupStarts
  <2>3. ASSUME NEW dry_run \in BOOLEAN, NEW ack \in BOOLEAN, cmd_update(dry_run, ack) PROVE FALSE
    <3>1. Starts("update", TRUE)
      BY <1>0, <2>3 DEF cmd_update, Refused, Starts
    <3> QED BY <3>1, StartCmd
  <2> QED BY <1>1, <2>2, <2>3
<1>2. CASE Upgrade \/ UserEdits
  <2>1. cmd' = cmd /\ cmd = NoCmd
    BY <1>2, CmdFacts DEF Upgrade, UserEdits, Idle
  <2> QED BY <1>0, <2>1
<1>3. CASE Report
  BY <1>0, <1>3, StopsCmd DEF Stops
<1>4. CASE Fails
  <2>1. cmd.kind = "init" /\ cmd.pc \in {"layout", "layout_gen"}
    BY <1>0, <1>4, FailsKind
  <2> QED BY <2>1 DEF InitPhase, InitPCs
<1>5. CASE Works
  <2>1. cmd.kind = "init" /\ cmd.pc \in InitPCs /\ backups' = backups
    BY <1>0, <1>5, WorksKind, WorksEffect DEF InitPhase
  <2>2. ASSUME cmd.force
        PROVE  /\ cmd.pc \in {"core", "init_toml"} => TomlSaved
               /\ cmd.pc \in {"core", "init_toml", "init_kit", "init_registry"} => RegSaved
    BY <1>0, <2>1, <2>2, BackupParts
  <2>3. CASE CopyCoreDir
    <3>1. cmd.force /\ cmd.pc = "core"
      BY <2>3, CopyCmd
    <3>2. p'.toml = p.toml /\ p'.reg = p.reg
      BY <1>0, <2>3, CopyCoreDirEffect, SetCoreEffect
    <3>3. TomlSaved /\ RegSaved
      BY <2>2, <3>1
    <3> QED BY <2>1, <3>2, <3>3, SavedStep
  <2>4. CASE FinishCore
    <3>1. Goto("init_toml") /\ "init_toml" \in PCs \ {"idle"} /\ cmd.pc = "core"
      BY <2>1, <2>4, Onwards, AllPCs
    <3>2. cmd.force
      BY <3>1, GotoCmd
    <3>3. p'.toml = p.toml /\ p'.reg = p.reg
      BY <2>1, <2>4, FinishCoreEffect DEF Project
    <3>4. TomlSaved /\ RegSaved
      BY <2>2, <3>1, <3>2
    <3> QED BY <2>1, <3>3, <3>4, SavedStep
  <2>5. CASE InitToml
    <3>1. "init_kit" \in PCs \ {"idle"} /\ p'.reg = p.reg
      BY <2>5, AllPCs, InitTomlEffect DEF Project
    <3>2. cmd.force /\ cmd.pc = "init_toml" /\ cmd'.pc = "init_kit"
      BY <2>5, <3>1, Onwards, OnwardCmd
    <3>3. RegSaved
      BY <2>2, <3>2
    <3> QED BY <2>1, <3>1, <3>2, <3>3, SavedStep
  <2>6. CASE InitKit
    <3>1. p'.reg = p.reg
      BY <2>6, InitKitEffect DEF Project
    <3>2. cmd.force /\ cmd.pc = "init_kit" /\ cmd'.pc = "init_registry"
      BY <2>6, InitKitCmd
    <3>3. RegSaved
      BY <2>2, <3>2
    <3> QED BY <2>1, <3>1, <3>2, <3>3, SavedStep
  <2>7. CASE InitRegistry \/ regenerate_gen_aggregates \/ InitSkill \/ Inject
    <3>1. {"init_gen", "init_skill", "init_inject", "report", "scaffold", "agents"} \subseteq PCs \ {"idle"}
      BY AllPCs
    <3>2. cmd'.pc \in {"init_gen", "init_skill", "init_inject", "report", "scaffold", "agents"}
      BY <2>7, <3>1, Onwards, OnwardCmd
    <3> QED BY <3>2
  <2> QED BY <1>5, <2>1, <2>3, <2>4, <2>5, <2>6, <2>7
          DEF Works, InitPCs, At1, LayoutKit, AtKit, StartLayoutGen, LayoutGen, LayoutPaths, LayoutRemove,
              _cleanup_legacy_blueprint_dirs, _remove_system_from_core_toml, _deduplicate_legacy_kits,
              _migrate_kit_sources, UpdateKits, Scaffold, _maybe_regenerate_agents
<1>6. CASE Overlooks
  <2>1. cmd.kind = "init" /\ cmd.pc \in InitPCs /\ backups' = backups
    BY <1>0, <1>6, OverlooksKind, OverlooksEffect DEF InitPhase
  <2>2. InitKitUnregistered /\ cmd.pc = "init_kit" /\ cmd'.pc = "init_registry" /\ cmd.force
    BY <1>6, <2>1, OverlooksCmd DEF InitPCs, Silently
  <2>3. p'.reg = p.reg
    BY <2>2, InitKitUnregisteredEffect DEF Project
  <2>4. RegSaved
    BY <1>0, <2>1, <2>2, BackupParts
  <2> QED BY <2>1, <2>2, <2>3, <2>4, SavedStep
<1> QED BY <1>1, <1>2, <1>3, <1>4, <1>5, <1>6, Steps

-----------------------------------------------------------------------------
(* Files of the user.                                                      *)

\* No step but an init replaces a file of config/ that the user wrote.
LEMMA CfgStep ==
  ASSUME TypeOK, TodoThere, InitPhase, Next, NEW f \in ConfigFiles, p.cfg[f] = "mine"
  PROVE  p'.cfg[f] = "mine" \/ (f = "README.md" /\ cmd.kind = "init")
<1>0. ProjectType(p) /\ p.cfg \in CfgType
  BY ProjectFacts
<1>1. CASE UserEdits
  BY <1>1, EditEffect
<1>2. CASE FinishCore
  <2>1. CASE cmd.kind = "update"
    BY <1>0, <1>2, <2>1, FinishCoreEffect, SetWhatsnewEffect
  <2>2. CASE cmd.kind # "update"
    <3>1. cmd.kind = "init"
      BY <1>2, <2>2, Onwards, CmdFacts DEF InitPhase, CmdType
    <3> QED BY <1>2, <2>2, <3>1, FinishCoreEffect
  <2> QED BY <2>1, <2>2
<1>3. CASE Scaffold \/ InitSkill
  <2>1. \E S : p'.cfg = _ensure_file(p.cfg, S)
    BY <1>0, <1>3, TailEffect, SetCfgEffect
  <2> QED BY <1>0, <2>1 DEF _ensure_file
<1>4. CASE InitToml
  BY <1>4, InitTomlEffect DEF _ensure_file
<1>5. CASE CopyCoreDir \/ CopyCoreDirDies
  BY <1>0, <1>5, CopyCoreDirEffect, CopyCoreDirDiesEffect, SetCoreEffect
<1>6. ASSUME \/ \E s \in Slugs : \/ LayoutKit(s) \/ LayoutKitFails(s) \/ LayoutRestoreFails(s)
                                  \/ LayoutBackupFails(s)
             \/ LayoutGen \/ LayoutGenFails \/ LayoutRemove \/ LayoutRemoveDies
             \/ _cleanup_legacy_blueprint_dirs
      PROVE  p'.cfg = p.cfg
  <2>1. TreeStep
    BY <1>6, LayoutKitEffect, LayoutKitFailsEffect, LayoutRestoreFailsEffect, LayoutBackupFailsEffect, LayoutGenEffect,
       LayoutGenFailsEffect, LayoutRemoveEffect, LayoutRemoveDiesEffect, BlueprintsEffect
  <2> QED BY <2>1, TreeStepFacts
<1>7. ASSUME \/ LayoutPaths /\ p.toml.state # "torn"
             \/ _remove_system_from_core_toml \/ _migrate_kit_sources
      PROVE  p'.cfg = p.cfg
  <2>1. TomlStep
    BY <1>7, PathsEffect, SystemEffect, SourcesEffect
  <2> QED BY <2>1, TomlStepFacts
<1>8. CASE _deduplicate_legacy_kits \/ UpdateKits \/ InitKit
  BY <1>8, DedupEffect, UpdateKitsEffect, InitKitEffect DEF Project
<1>9. CASE regenerate_gen_aggregates
  BY <1>0, <1>9, TailEffect, SetGenEffect
<1>10. CASE Inject
  BY <1>0, <1>10, TailEffect, SetRootEffect
<1>11. CASE _maybe_regenerate_agents
  BY <1>0, <1>11, TailEffect, SetAgentsEffect
<1>12. CASE InitRegistry
  BY <1>0, <1>12, InitRegistryEffect, SetRegEffect
<1>13. CASE DiesWritingToml
  BY <1>0, <1>13, TearEffect, SetTomlEffect
<1>14. CASE \/ Upgrade \/ StartLayoutGen \/ Report \/ Dies
            \/ LayoutPaths /\ p.toml.state = "torn"
  BY <1>14 DEF Upgrade, StartLayoutGen, Report, Dies, LayoutPaths, Only
<1>15. CASE \/ \E force, dry_run, ok \in BOOLEAN : cmd_init(force, dry_run, ok)
            \/ \E dry_run, ack \in BOOLEAN : cmd_update(dry_run, ack)
  BY <1>15, StartStep
<1>16. CASE Overlooks
  BY <1>16, OverlooksProject DEF Project
<1> QED BY <1>1, <1>2, <1>3, <1>4, <1>5, <1>6, <1>7, <1>8, <1>9, <1>10, <1>11, <1>12, <1>13, <1>14, <1>15,
           <1>16 DEF Next, Overlooks

\* A file that exists is replaced only by a forced init.
LEMMA InitWrites ==
  ASSUME TypeOK, TodoThere, UpdatePhase, InitPhase, Next, cmd.pc \in {"init_toml", "init_registry"}
  PROVE  /\ cmd.kind = "init"
         /\ cmd.pc = "init_toml" /\ p.toml.state = "ok" /\ p'.toml # p.toml => cmd.force
         /\ cmd.pc = "init_registry" /\ p.reg.state = "ok" /\ p'.reg # p.reg => cmd.force
<1>1. cmd.kind = "init"
  BY CmdFacts, PhasePCs DEF UpdatePhase, InitPhase, CmdType
<1>2. InitToml \/ InitRegistry \/ Dies \/ DiesWritingToml
  BY DEF Next, Upgrade, UserEdits, Idle, cmd_init, cmd_update, Start, CopyCoreDir, CopyCoreDirDies,
         FinishCore, LayoutKit, LayoutKitFails, LayoutRestoreFails, LayoutBackupFails, AtKit,
         StartLayoutGen, LayoutGen, LayoutGenFails, LayoutPaths, LayoutRemove, LayoutRemoveSkips,
         LayoutRemoveDies, BlueprintsStay, SystemUnwritten, DedupUnwritten, SourcesUnwritten,
         KitUnregistered, InitKitUnregistered, _cleanup_legacy_blueprint_dirs,
         _remove_system_from_core_toml, _deduplicate_legacy_kits, _migrate_kit_sources, UpdateKits,
         regenerate_gen_aggregates, Scaffold, Inject, _maybe_regenerate_agents, Report, InitKit,
         InitSkill, At1
<1>3. CASE Dies
  BY <1>1, <1>3 DEF Dies
<1>4. CASE DiesWritingToml
  <2>1. p'.reg = p.reg
    BY <1>4, TearEffect, ProjectFacts, SetTomlEffect
  <2> QED BY <1>1, <1>4, <2>1 DEF DiesWritingToml, WritesToml
<1>5. CASE InitToml
  <2>1. cmd.pc = "init_toml"
    BY <1>5 DEF InitToml, At1
  <2> QED BY <1>1, <1>5, <2>1, InitTomlEffect
<1>6. CASE InitRegistry
  <2>1. cmd.pc = "init_registry"
    BY <1>6 DEF InitRegistry, At1
  <2>2. p.reg.state # "absent" /\ ~cmd.force => p' = p
    BY <1>6 DEF InitRegistry, Only
  <2> QED BY <1>1, <2>1, <2>2
<1> QED BY <1>2, <1>3, <1>4, <1>5, <1>6

-----------------------------------------------------------------------------
(* The theorems.                                                           *)

SetupInv ==
    /\ TypeOK /\ TodoThere /\ UpdatePhase /\ InitPhase /\ ReportPhase
    /\ PathPhase /\ OldKitsPhase /\ SettledPhase /\ BackupPhase /\ OldKitsSurvive

\* An update that comes to its report finds the installation complete.
LEMMA ReportComplete == UpdatePhase /\ PathPhase => UpdateCompletes
<1> SUFFICES ASSUME UpdatePhase, PathPhase, cmd.kind = "update", cmd.pc = "report"
             PROVE  UpdateCompletes
  BY DEF UpdateCompletes
<1>1. /\ CoreCurrent /\ p.whatsnew = cache /\ p.agents \in {0, cache}
      /\ Done("layout_remove") => Gone({"gen"})
      /\ Done("system") => NoSystem
      /\ Done("dedup") => OneSlug
      /\ Done("sources") => Unsourced = {}
      /\ p.gen = Aggregate(p.tree) /\ Scaffolded /\ Announced
  BY PhasePCs DEF UpdatePhase
<1>2. p.toml.state = "ok" => StalePaths = {}
  BY PhasePCs DEF PathPhase
<1> QED BY <1>1, <1>2 DEF UpdateCompletes, CoreCurrent, Gone, NoSystem, Scaffolded, Announced

\* The invariant holds initially.
LEMMA SetupInvInit == Init => SetupInv
<1> SUFFICES ASSUME Init PROVE SetupInv
  OBVIOUS
<1>1. cmd.pc = "idle" /\ cmd.kind = "none" /\ result = "none" /\ prev.known = FALSE
  BY NoPrevUnknown DEF Init, NoCmd
<1>2. PathPhase
  <2> SUFFICES ASSUME p.toml.state = "ok", StalePaths # {} PROVE OldLayout
    BY <1>1 DEF PathPhase
  <2>1. p \in Projects /\ ProjectType(p)
    BY SetupAssumption DEF Init
  <2>2. PICK l \in DOMAIN p.tree : l[1] \in {"kits", "gen"}
    BY <2>1, PathsAssumption DEF StalePaths
  <2>3. l \in Places \X Slugs
    BY <2>1 DEF ProjectType, TreeType
  <2>4. l = <<l[1], l[2]>> /\ l[2] \in Slugs
    BY <2>3
  <2> QED BY <2>2, <2>4 DEF OldLayout
<1>3. OldKitsSurvive
  <2>1. NoneOf({"backup", "restore", "tear", "rmtree"})
    BY DEF Init, NoneOf
  <2>2. OldKept
    BY <2>1, OldKitsInit, OldKitsParts DEF OldKept, Tame
  <2> QED BY <2>2, OldKitsIntact DEF OldKitsSurvive
<1> QED BY <1>1, <1>2, <1>3, TypeInit, OldKitsInit
        DEF SetupInv, UpdatePhase, InitPhase, ReportPhase, SettledPhase, BackupPhase

\* Every step preserves the invariant.
LEMMA SetupInvStep ==
  ASSUME SetupInv, [Next]_vars
  PROVE  SetupInv'
<1>1. CASE Next
  BY <1>1, TypeStep, UpdateStep, InitStep, ReportStep, PathStep, OldKitsStep, SettledStep, BackupStep,
     SurviveStep DEF SetupInv
<1>2. CASE UNCHANGED vars
  <2>1. TypeOK' /\ TodoThere'
    BY <1>2, TypeStutter DEF SetupInv
  <2>2. p' = p /\ cmd' = cmd /\ cache' = cache /\ result' = result /\ prev' = prev /\ origin' = origin
        /\ backups' = backups /\ faults' = faults
    BY <1>2 DEF vars
  <2>3. UpdatePhase'
    BY <2>2 DEF SetupInv, UpdatePhase, CoreCurrent, Gone, NoLegacyItems, NoSystem, OneSlug, SamePath,
       Unsourced, Reviewed, HasSource, IsCurrent, Unbound, Kits, Scaffolded, Announced, Done
  <2>4. InitPhase' /\ ReportPhase'
    BY <2>2 DEF SetupInv, InitPhase, ReportPhase
  <2>5. PathPhase'
    BY <2>2 DEF SetupInv, PathPhase, StalePaths, OldLayout
  <2>6. OldKitsPhase'
    BY <2>2 DEF SetupInv, OldKitsPhase, NoneOf, InConfig
  <2>7. SettledPhase'
    BY <2>2 DEF SetupInv, SettledPhase, Settled, Gone, NoLegacyItems, NoSystem, OneSlug, SamePath,
       Unsourced, Reviewed, HasSource, IsCurrent, Unbound, Kits, Scaffolded, Announced
  <2>8. BackupPhase'
    BY <2>2 DEF SetupInv, BackupPhase, NoneOf
  <2>9. OldKitsSurvive'
    BY <2>2 DEF SetupInv, OldKitsSurvive, KitsIntact, NoneOf, RestoreJustFailed
  <2> QED BY <2>1, <2>3, <2>4, <2>5, <2>6, <2>7, <2>8, <2>9 DEF SetupInv
<1> QED BY <1>1, <1>2

\* Invariance of SetupInv, for every set of kits, of .core/ directories and of
\* projects the commands may meet, and every bound on commands, edits and faults.
THEOREM SetupInvariance == Spec => []SetupInv
BY SetupInvInit, SetupInvStep, PTL DEF Spec

\* The types of the project's files and of the command's local state.
THEOREM SetupTypeCorrect == Spec => []TypeOK
<1>1. SetupInv => TypeOK
  BY DEF SetupInv
<1> QED BY <1>1, SetupInvariance, PTL

\* cmd_update comes to its report only with a complete installation of the
\* cached version, whatever commands that died half way had left; what one of
\* its own steps failed to remove or to write, and passed over, is excepted.
THEOREM UpdatesComplete == Spec => []UpdateCompletes
<1>1. SetupInv => UpdateCompletes
  BY ReportComplete DEF SetupInv
<1> QED BY <1>1, SetupInvariance, PTL

\* _detect_and_migrate_layout loses nothing of an old kit to a copy that fails
\* or to a process that dies, and neither do the commands that follow; to a
\* restore that fails as well it loses nothing before the next command.
THEOREM OldKitsAreKept == Spec => []OldKitsSurvive
<1>1. SetupInv => OldKitsSurvive
  BY DEF SetupInv
<1> QED BY <1>1, SetupInvariance, PTL

\* A second update of an unchanged project ends with the files it found, even
\* when updates between the two died while they replaced .core/.
THEOREM UpdateChangesNothingTwice == Spec => UpdateIsIdempotent
<1>1. SetupInv => (cmd.pc = "report" /\ cmd.kind = "update" /\ prev.known => p = prev.project)
  <2> SUFFICES ASSUME SetupInv, cmd.pc = "report", cmd.kind = "update", prev.known
               PROVE  p = prev.project
    OBVIOUS
  <2>1. ProjectType(p) /\ p.core \in CoreType
    BY ProjectFacts DEF SetupInv
  <2>2. CoreCurrent
    BY PhasePCs DEF SetupInv, UpdatePhase
  <2>3. /\ prev.project = [p EXCEPT !.core = prev.project.core]
        /\ prev.project.core \in CoreType
        /\ \A d \in CoreDirs : IF d \in CacheDirs THEN prev.project.core[d] = cache
                               ELSE prev.project.core[d] = p.core[d]
    BY DEF SetupInv, SettledPhase, CoreType
  <2>4. p.core = prev.project.core
    BY <2>1, <2>2, <2>3 DEF CoreCurrent, CoreType
  <2>5. prev.project = WithCore(p.core, p)
    BY <2>1, <2>3, <2>4, WithCoreFact
  <2>6. p = WithCore(p.core, p)
    BY <2>1, ProjectParts DEF WithCore, Project
  <2> QED BY <2>5, <2>6
<1>2. SetupInv /\ [Next]_vars =>
        [(cmd.pc = "report" /\ cmd.kind = "update" /\ ~cmd.errors /\ cmd.failed = {}
          /\ prev.known) => p = prev.project]_vars
  BY <1>1
<1> QED BY <1>2, SetupInvariance, PTL DEF Spec, UpdateIsIdempotent

\* No command rewrites an AGENTS.md or SKILL.md of config/ that the user edited;
\* only `init` rewrites README.md.
THEOREM UserConfigSurvives == Spec => UserConfigKept
<1>1. SetupInv /\ [Next]_vars =>
        [\A f \in ConfigFiles : p.cfg[f] = "mine" =>
            p'.cfg[f] = "mine" \/ (f = "README.md" /\ cmd.kind = "init")]_vars
  BY CfgStep DEF SetupInv
<1> QED BY <1>1, SetupInvariance, PTL DEF Spec, UserConfigKept

\* `init --force` replaces a core.toml or an artifacts.toml only when one of the
\* backups holds it, unless taking a backup failed.
THEOREM ReplacedFilesAreBackedUp == Spec => OverwrittenIsBackedUp
<1>1. ASSUME SetupInv, Next, NoneOf({"backup"})
      PROVE  /\ (cmd.pc = "init_toml" /\ p.toml.state = "ok" /\ p'.toml # p.toml)
                  => \E b \in backups : b.toml = p.toml
             /\ (cmd.pc = "init_registry" /\ p.reg.state = "ok" /\ p'.reg # p.reg)
                  => \E b \in backups : b.reg = p.reg
  <2>1. CASE cmd.pc \notin {"init_toml", "init_registry"}
    BY <2>1
  <2>2. CASE cmd.pc \in {"init_toml", "init_registry"}
    <3>1. /\ cmd.kind = "init"
          /\ cmd.pc = "init_toml" /\ p.toml.state = "ok" /\ p'.toml # p.toml => cmd.force
          /\ cmd.pc = "init_registry" /\ p.reg.state = "ok" /\ p'.reg # p.reg => cmd.force
      BY <1>1, <2>2, InitWrites DEF SetupInv
    <3> QED BY <1>1, <3>1 DEF SetupInv, BackupPhase
  <2> QED BY <2>1, <2>2
<1>2. SetupInv /\ [Next]_vars =>
        [NoneOf({"backup"}) =>
           /\ (cmd.pc = "init_toml" /\ p.toml.state = "ok" /\ p'.toml # p.toml)
                => \E b \in backups : b.toml = p.toml
           /\ (cmd.pc = "init_registry" /\ p.reg.state = "ok" /\ p'.reg # p.reg)
                => \E b \in backups : b.reg = p.reg]_vars
  BY <1>1
<1> QED BY <1>2, SetupInvariance, PTL DEF Spec, OverwrittenIsBackedUp

=============================================================================
