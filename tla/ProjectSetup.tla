---------------------------- MODULE ProjectSetup ----------------------------
(***************************************************************************)
(* `cpt init` and `cpt update` of a project (commands/init.py, update.py   *)
(* and the layout migration of commands/kit.py): copying the tool from the *)
(* cache into .core/, moving kits of two older directory layouts into      *)
(* config/kits/, cleaning up core.toml and artifacts.toml, updating kits,  *)
(* and regenerating what is derived from them.  Every step is a set of     *)
(* file operations; the process may die after each, some operations may    *)
(* fail, and the command may be run again on what is left.                 *)
(*                                                                         *)
(* `cpt kit update` itself is KitUpdate's subject: a kit's update is here  *)
(* one step with the outcomes that module gives it.                        *)
(***************************************************************************)
EXTENDS Integers, Sequences, FiniteSets

CONSTANTS
    SlugOrder,      \* slugs of kits in sorted order
    CoreOrder,      \* COPY_DIRS: the directories of .core/
    CacheDirs,      \* those of them the cache holds
    CacheKits,      \* kits the cache holds
    Manifests,      \* kits whose release has a manifest.toml
    Projects,       \* projects the commands may be run on
    Faults,         \* which of FaultKinds may go wrong
    MaxVersion,     \* bound: versions of the cache
    MaxCommands, MaxEdits, MaxFaults    \* bounds: commands, user edits, faults

Slugs == {SlugOrder[i] : i \in DOMAIN SlugOrder}
CoreDirs == {CoreOrder[i] : i \in DOMAIN CoreOrder}
Legacy == "cypilot-sdlc"
Canonical == "sdlc"
Bundled == {Legacy, Canonical}

(* Kit items: a file, a directory, and the blueprints an old layout had.   *)
FileItems == {"SKILL.md"}
DirItems == {"artifacts"}
LegacyItems == {"blueprints"}
AllItems == FileItems \cup DirItems \cup LegacyItems
(* A content names the place its text was written for; "half" is a copy    *)
(* that was cut short.                                                     *)
Contents == {"kits", "gen", "config", "release", "edited", "half"}
Places == {"config", "kits", "gen", "backup"}
ConfigFiles == {"AGENTS.md", "SKILL.md", "README.md"}
RootFiles == {"AGENTS.md", "CLAUDE.md"}
Half == -1
KitRelease == 2     \* the version the kits' sources offer
(* The process is killed; copying a kit, backing it up or restoring it     *)
(* fails; a file is torn, a removal cut short; a failing write of a TOML   *)
(* file or a failing removal is passed over by the code.                   *)
FaultKinds == {"kill", "copy", "backup", "restore", "tear", "rmtree", "write", "remove"}

(* A project: what each part of it may be.                                 *)
ItemsType(m) == DOMAIN m \subseteq AllItems /\ m \in [DOMAIN m -> Contents]
TreeType(t) ==
    /\ DOMAIN t \subseteq Places \X Slugs /\ t = [l \in DOMAIN t |-> t[l]]
    /\ \A l \in DOMAIN t : ItemsType(t[l])
(* Where a kit comes from: not recorded, a repository, a directory.        *)
Sources == {"", "github", "local"}
Entries == [path : Places \X Slugs, source : Sources, version : Nat, bound : BOOLEAN]
KitsType(k) == DOMAIN k \subseteq Slugs /\ k \in [DOMAIN k -> Entries]
Versions == 0..MaxVersion
ProjectType(q) ==
    /\ q \in [core : [CoreDirs -> {Half} \cup Versions], whatsnew : Versions, agents : Versions,
              tree : {q.tree},
              toml : [state : {"absent", "ok", "torn"}, kits : {q.toml.kits},
                      system : BOOLEAN, note : BOOLEAN],
              reg : [state : {"absent", "ok"}, kit : Slugs \cup {""}],
              cfg : [ConfigFiles -> {"absent", "default", "mine"}],
              gen : [written : BOOLEAN, nav : SUBSET Slugs],
              root : [RootFiles -> BOOLEAN]]
    /\ TreeType(q.tree) /\ KitsType(q.toml.kits)
Whole(t) == \A l \in DOMAIN t : \A i \in DOMAIN t[l] : t[l][i] # "half"

ASSUME SetupAssumption ==
    /\ MaxVersion \in Nat \ {0} /\ MaxCommands \in Nat /\ MaxEdits \in Nat
    /\ MaxFaults \in Nat
    /\ Bundled \subseteq Slugs /\ CacheKits \subseteq Slugs /\ Manifests \subseteq Slugs
    /\ CacheDirs \subseteq CoreDirs /\ CacheDirs # {}
    /\ Faults \subseteq FaultKinds
    /\ SlugOrder \in Seq(STRING) /\ CoreOrder \in Seq(STRING)
    /\ Projects # {} /\ \A q \in Projects : ProjectType(q) /\ Whole(q.tree)

(* A kit is registered outside config/ only in a project of an older       *)
(* layout, which is where such paths come from.                            *)
ASSUME PathsAssumption ==
    \A q \in Projects :
        q.toml.state = "ok" /\ (\E s \in DOMAIN q.toml.kits : q.toml.kits[s].path[1] # "config")
            => \E l \in DOMAIN q.tree : l[1] \in {"kits", "gen"}

(* The steps of the commands.                                              *)
LayoutPCs == {"layout", "layout_gen", "layout_remove"}
FromAgents == {"agents", "report"}
FromInject == {"inject"} \cup FromAgents
FromScaffold == {"scaffold"} \cup FromInject
FromKits == {"kits"} \cup FromScaffold
FromSources == {"sources"} \cup FromKits
FromDedup == {"dedup"} \cup FromSources
FromSystem == {"system"} \cup FromDedup
FromBlueprints == {"blueprints"} \cup FromSystem
UpdatePCs == {"core"} \cup LayoutPCs \cup FromBlueprints
InitPCs == {"core", "init_toml", "init_kit", "init_registry", "init_gen", "init_skill", "init_inject", "report"}
PCs == {"idle"} \cup InitPCs \cup UpdatePCs

VARIABLES
    p,          \* the project's files
    backups,    \* what `init --force` saved: [toml, reg]
    cache,      \* version of the tool in the cache
    cmd,        \* local state of the running command
    result,     \* what the last command reported; "none" once things changed
    prev,       \* history: the project after the last clean update
    origin,     \* history: kits/ as the project was found
    commands, edits,
    faults      \* what went wrong so far

vars == <<p, backups, cache, cmd, result, prev, origin, commands, edits, faults>>
counters == <<commands, edits, faults>>

Put(f, k, v) == [q \in DOMAIN f \cup {k} |-> IF q = k THEN v ELSE f[q]]
Drop(f, S) == [q \in DOMAIN f \ S |-> f[q]]
At(f, k) == IF k \in DOMAIN f THEN f[k] ELSE <<>>

NoCmd == [pc |-> "idle", kind |-> "none", force |-> FALSE, at |-> 1, todo |-> {},
          moved |-> {}, failed |-> {}, installed |-> FALSE, changed |-> FALSE,
          errors |-> FALSE, silent |-> {}]
NoPrev == [known |-> FALSE, project |-> CHOOSE q \in Projects : TRUE]

Init ==
    /\ p \in Projects
    /\ origin = [s \in {t \in Slugs : <<"kits", t>> \in DOMAIN p.tree} |->
                    DOMAIN p.tree[<<"kits", s>>] \ LegacyItems]
    /\ backups = {} /\ cache = 1
    /\ cmd = NoCmd /\ result = "none" /\ prev = NoPrev
    /\ commands = 0 /\ edits = 0 /\ faults = <<>>

Fault(f) == /\ f \in Faults /\ Len(faults) < MaxFaults /\ faults' = Append(faults, f)
            /\ UNCHANGED <<commands, edits>>
Goto(pc) == cmd' = [cmd EXCEPT !.pc = pc, !.at = 1]
GotoWith(pc, todo) == cmd' = [cmd EXCEPT !.pc = pc, !.at = 1, !.todo = todo]
Died == cmd' = NoCmd /\ result' = "died"
(* The code passes over a failure at this step, which only the history     *)
(* cmd.silent remembers.                                                   *)
GotoSilently(pc) == cmd' = [cmd EXCEPT !.pc = pc, !.at = 1, !.silent = @ \cup {cmd.pc}]
PassedOver == UNCHANGED <<backups, result, prev>>
At1(pc) == cmd.pc = pc /\ UNCHANGED <<cache, origin>>
Quiet == UNCHANGED <<backups, result, prev, counters>>
Only(project) == p' = project /\ Quiet

(***************************************************************************)
(* Between commands: a new version of the tool reaches the cache; the user *)
(* edits files, or deletes the managed block of the root AGENTS.md.        *)
(***************************************************************************)
Idle == cmd.pc = "idle" /\ UNCHANGED <<cmd, backups, origin, commands, faults>>

Upgrade ==
    /\ Idle /\ cache < MaxVersion
    /\ cache' = cache + 1 /\ result' = "none" /\ prev' = NoPrev
    /\ UNCHANGED <<p, edits>>

UserEdits ==
    /\ Idle /\ edits < MaxEdits /\ edits' = edits + 1
    /\ result' = "none" /\ prev' = NoPrev /\ UNCHANGED cache
    /\ \/ \E l \in DOMAIN p.tree : \E i \in DOMAIN p.tree[l] \ LegacyItems :
             l[1] = "config" /\ p' = [p EXCEPT !.tree[l][i] = "edited"]
       \/ \E f \in ConfigFiles : /\ p.cfg[f] = "default"
                                 /\ p' = [p EXCEPT !.cfg[f] = "mine"]
       \/ p.toml.state = "ok" /\ p' = [p EXCEPT !.toml.note = TRUE]
       \/ p.root["AGENTS.md"] /\ p' = [p EXCEPT !.root["AGENTS.md"] = FALSE]

(***************************************************************************)
(* Starting a command.                                                     *)
(***************************************************************************)
DirExists == p.toml.state # "absent" \/ p.reg.state # "absent" \/ \E d \in CoreDirs : p.core[d] # 0
_read_cypilot_var == p.root["AGENTS.md"]
_read_existing_install == _read_cypilot_var /\ DirExists

Refused(status) ==
    /\ cmd' = NoCmd /\ result' = status
    /\ UNCHANGED <<p, backups>>

(* Mutant: the backup is taken only of a project that is still announced   *)
(* in the root AGENTS.md.                                                  *)
BackupOfAnnounced(ok) == IF _read_existing_install /\ ok THEN {[toml |-> p.toml, reg |-> p.reg]} ELSE {}
create_backup(ok) == IF DirExists /\ ok THEN {[toml |-> p.toml, reg |-> p.reg]} ELSE {}

Start ==
    /\ cmd.pc = "idle" /\ commands < MaxCommands
    /\ commands' = commands + 1 /\ UNCHANGED <<edits, cache, origin>>

cmd_init(force, dry_run, ok) ==
    /\ Start /\ prev' = NoPrev
    /\ IF _read_existing_install /\ ~force THEN ok /\ Refused("FAIL") /\ UNCHANGED faults
       ELSE IF dry_run THEN ok /\ Refused("DRY_RUN") /\ UNCHANGED faults
       ELSE /\ IF ok THEN UNCHANGED faults
               ELSE /\ force /\ DirExists /\ "backup" \in Faults /\ Len(faults) < MaxFaults
                    /\ faults' = Append(faults, "backup")
            /\ backups' = backups \cup (IF force THEN create_backup(ok) ELSE {})
            /\ cmd' = [NoCmd EXCEPT !.pc = "core", !.kind = "init", !.force = force]
            /\ result' = "none" /\ UNCHANGED p

(* `q` at the list of what is new aborts before anything is written.       *)
cmd_update(dry_run, ack) ==
    /\ Start /\ UNCHANGED faults
    /\ IF ~_read_cypilot_var \/ ~DirExists
       THEN Refused("ERROR") /\ ack /\ UNCHANGED prev
       ELSE IF dry_run THEN Refused("DRY_RUN") /\ ack /\ UNCHANGED prev
       ELSE IF ~ack THEN p.whatsnew < cache /\ Refused("ABORTED") /\ UNCHANGED prev
       ELSE /\ cmd' = [NoCmd EXCEPT !.pc = "core", !.kind = "update", !.force = TRUE]
            /\ result' = "none" /\ UNCHANGED <<p, backups, prev>>

(***************************************************************************)
(* _copy_from_cache: one directory of .core/ at a time.                    *)
(***************************************************************************)
OldLayout == \E s \in Slugs : <<"kits", s>> \in DOMAIN p.tree \/ <<"gen", s>> \in DOMAIN p.tree
InPlace(place) == {s \in Slugs : <<place, s>> \in DOMAIN p.tree}
(* Directories are worked off in sorted order; so are kits here.           *)
FirstOf(S) ==
    SlugOrder[CHOOSE i \in DOMAIN SlugOrder :
        SlugOrder[i] \in S /\ \A j \in DOMAIN SlugOrder : SlugOrder[j] \in S => i <= j]

Skips(d) == d \notin CacheDirs \/ (p.core[d] # 0 /\ ~cmd.force)

CopyCoreDir ==
    /\ At1("core") /\ cmd.at <= Len(CoreOrder)
    /\ LET d == CoreOrder[cmd.at] IN
       /\ Only(IF Skips(d) THEN p ELSE [p EXCEPT !.core[d] = cache])
       /\ cmd' = [cmd EXCEPT !.at = @ + 1, !.changed = @ \/ ~Skips(d)]

CopyCoreDirDies ==
    /\ At1("core") /\ cmd.at <= Len(CoreOrder) /\ Fault("kill")
    /\ ~Skips(CoreOrder[cmd.at])
    /\ \E left \in {0, Half} : p' = [p EXCEPT !.core[CoreOrder[cmd.at]] = left]
    /\ Died /\ UNCHANGED <<backups, prev>>

FinishCore ==
    /\ At1("core") /\ cmd.at > Len(CoreOrder)
    /\ IF cmd.kind = "update"
       THEN /\ Only([p EXCEPT !.whatsnew = cache])
            /\ IF OldLayout THEN GotoWith("layout", InPlace("kits")) ELSE Goto("blueprints")
       ELSE /\ Only([p EXCEPT !.cfg["README.md"] = "default", !.gen.written = TRUE])
            /\ Goto("init_toml")

(***************************************************************************)
(* _detect_and_migrate_layout: kits/{slug} into config/kits/{slug}.        *)
(***************************************************************************)
Wanted(items) == Drop(items, LegacyItems)
(* Nothing that exists is replaced.                                        *)
Fill(config, old) == [i \in DOMAIN config \cup DOMAIN old |->
                        IF i \in DOMAIN config THEN config[i] ELSE old[i]]
(* Directories of an old kit replace those of config/kits; files do not.   *)
Merge(config, old) ==
    [i \in DOMAIN config \cup DOMAIN old |->
        IF i \in DOMAIN old /\ (i \in DirItems \/ i \notin DOMAIN config)
        THEN old[i] ELSE config[i]]

(* What a merge that stops at item i may leave.                            *)
HalfMerged(config, old) ==
    {Merge(config, [i \in S |-> old[i]]) : S \in SUBSET DOMAIN old}
    \cup {Put(Merge(config, [i \in S |-> old[i]]), j, "half") :
            S \in SUBSET DOMAIN old, j \in DOMAIN old \cap DirItems}
TornMerged(config, old) ==
    {Put(config, j, "half") : j \in (DOMAIN old \cap FileItems) \ DOMAIN config}

AtKit(s) == At1("layout") /\ cmd.todo # {} /\ s = FirstOf(cmd.todo)
BackedUp(s) == Put(p.tree, <<"backup", s>>, p.tree[<<"kits", s>>])
(* Mutant: a later failure leaves the kit among the migrated ones.         *)
NextKitKeepsMoved(s, ok) ==
    cmd' = [cmd EXCEPT !.todo = @ \ {s},
                       !.moved = IF ok THEN @ \cup {s} ELSE @,
                       !.failed = IF ok THEN @ ELSE @ \cup {s}]
NextKit(s, ok) ==
    cmd' = [cmd EXCEPT !.todo = @ \ {s},
                       !.moved = IF ok THEN @ \cup {s} ELSE @ \ {s},
                       !.failed = IF ok THEN @ ELSE @ \cup {s}]

LayoutKit(s) ==
    /\ AtKit(s)
    /\ Only([p EXCEPT !.tree = Put(BackedUp(s), <<"config", s>>,
                Merge(At(p.tree, <<"config", s>>), Wanted(p.tree[<<"kits", s>>])))])
    /\ NextKit(s, TRUE)

(* What a removal that stops leaves of a kit.                              *)
Removed(items, S) == [i \in S |-> IF i \in DirItems THEN "half" ELSE items[i]]

(* A copy raises: the kit is restored from its backup (both are whole) and *)
(* marked failed; or the process dies right there.                         *)
LayoutKitFails(s) ==
    /\ AtKit(s)
    /\ LET config == At(p.tree, <<"config", s>>)
           old == Wanted(p.tree[<<"kits", s>>])
           Left(set) == \E half \in set :
                           p' = [p EXCEPT !.tree = Put(BackedUp(s), <<"config", s>>, half)]
           Marked == NextKit(s, FALSE) /\ UNCHANGED result
       IN  \/ Fault("copy") /\ Left(HalfMerged(config, old)) /\ Marked
           \/ Fault("tear") /\ Left(TornMerged(config, old)) /\ Marked
           \/ Fault("kill") /\ Left(HalfMerged(config, old)) /\ Died
    /\ UNCHANGED <<backups, prev>>

(* The restore, which removes the kit and copies the backup, fails as well *)
(* or is killed: part of the kit is left, and the command stops.           *)
LayoutRestoreFails(s) ==
    /\ AtKit(s) /\ Fault("restore")
    /\ LET kit == p.tree[<<"kits", s>>]
       IN  \E half \in HalfMerged(At(p.tree, <<"config", s>>), Wanted(kit)), S \in SUBSET DOMAIN kit :
              \E left \in {[i \in S |-> kit[i]], Removed(kit, S)} :
                 p' = [p EXCEPT !.tree = Put(Put(BackedUp(s), <<"config", s>>, half),
                                             <<"kits", s>>, left)]
    /\ cmd' = NoCmd /\ result' = "unrestored" /\ UNCHANGED <<backups, prev>>

(* The backup's own copy raises: the handler finds a user_kit directory    *)
(* and restores the kit from what of it was copied.                        *)
LayoutBackupFails(s) ==
    /\ AtKit(s) /\ Fault("backup")
    /\ \E S \in SUBSET DOMAIN p.tree[<<"kits", s>>] :
          LET part == [i \in S |-> p.tree[<<"kits", s>>][i]] IN
          p' = [p EXCEPT !.tree = Put(Put(p.tree, <<"backup", s>>, part),
                                      <<"kits", s>>, part)]
    /\ NextKit(s, FALSE) /\ UNCHANGED <<result, backups, prev>>

StartLayoutGen ==
    /\ At1("layout") /\ cmd.todo = {}
    /\ GotoWith("layout_gen", InPlace("gen")) /\ Only(p)

LayoutGen ==
    /\ At1("layout_gen") /\ cmd.todo # {}
    /\ LET s == FirstOf(cmd.todo) IN
       /\ Only([p EXCEPT !.tree = Put(@, <<"config", s>>,
                    Fill(At(@, <<"config", s>>), @[<<"gen", s>>]))])
       /\ cmd' = [cmd EXCEPT !.todo = @ \ {s},
                             !.moved = IF s \in cmd.failed THEN @ ELSE @ \cup {s}]

LayoutGenFails ==
    /\ At1("layout_gen") /\ cmd.todo # {} /\ Fault("copy")
    /\ LET s == FirstOf(cmd.todo) IN
       /\ \E S \in SUBSET DOMAIN p.tree[<<"gen", s>>] :
             p' = [p EXCEPT !.tree = Put(@, <<"config", s>>,
                    Fill(At(@, <<"config", s>>), [i \in S |-> @[<<"gen", s>>][i]]))]
       /\ NextKit(s, FALSE) /\ UNCHANGED <<result, backups, prev>>

Written(toml) == [toml EXCEPT !.note = FALSE]

StalePaths == {s \in DOMAIN p.toml.kits : p.toml.kits[s].path[1] # "config"}

(* An unreadable core.toml is not caught here: the command stops.          *)
LayoutPaths ==
    /\ At1("layout_gen") /\ cmd.todo = {}
    /\ IF p.toml.state = "torn" THEN Died /\ UNCHANGED <<p, backups, prev, counters>>
       ELSE LET moved == [s \in DOMAIN p.toml.kits |->
                            [p.toml.kits[s] EXCEPT !.path = <<"config", @[2]>>]]
            IN  /\ Only(IF p.toml.state = "absent" \/ StalePaths = {} THEN p
                        ELSE [p EXCEPT !.toml = Written([@ EXCEPT !.kits = moved])])
                /\ Goto("layout_remove")

RemovesKits == cmd.failed = {}

Outdated(places) ==
    {l \in DOMAIN p.tree : \/ l[1] = "kits" /\ RemovesKits
                           \/ l[1] \in places \ {"backup"}
                           \/ l[1] = "backup" /\ "backup" \in places /\ l[2] \in cmd.moved}

LayoutRemove ==
    /\ At1("layout_remove")
    /\ Only([p EXCEPT !.tree = Drop(@, Outdated({"gen", "backup"}))])
    /\ Goto("blueprints")

(* .gen/kits and the backups are removed with ignore_errors.               *)
LayoutRemoveSkips ==
    /\ At1("layout_remove") /\ Fault("remove")
    /\ \/ p' = [p EXCEPT !.tree = Drop(@, Outdated({"gen"}))]
       \/ \E l \in DOMAIN p.tree : \E S \in SUBSET DOMAIN p.tree[l] :
             /\ l[1] = "gen"
             /\ p' = [p EXCEPT !.tree = Put(Drop(@, Outdated({"gen", "backup"})), l,
                                            Removed(@[l], S))]
    /\ GotoSilently("blueprints") /\ PassedOver

(* The process dies while kits/ is being removed, or after it.             *)
LayoutRemoveDies ==
    /\ At1("layout_remove") /\ RemovesKits
    /\ \/ /\ Fault("rmtree")
          /\ \E l \in DOMAIN p.tree : \E S \in SUBSET DOMAIN p.tree[l] :
                l[1] = "kits" /\ p' = [p EXCEPT !.tree[l] = Removed(@, S)]
       \/ /\ Fault("kill")
          /\ p' = [p EXCEPT !.tree = Drop(@, Outdated({}))]
    /\ Died /\ UNCHANGED <<backups, prev>>

(***************************************************************************)
(* Clean-ups of config/.                                                   *)
(***************************************************************************)
_cleanup_legacy_blueprint_dirs ==
    /\ At1("blueprints") /\ Goto("system")
    /\ Only([p EXCEPT !.tree = [l \in DOMAIN @ |->
                IF l[1] = "config" THEN Wanted(@[l]) ELSE @[l]]])

(* Removed with ignore_errors.                                             *)
BlueprintsStay ==
    /\ At1("blueprints") /\ Fault("remove")
    /\ \E l \in DOMAIN p.tree :
          /\ l[1] = "config" /\ DOMAIN p.tree[l] \cap LegacyItems # {}
          /\ p' = [p EXCEPT !.tree = [m \in DOMAIN @ |->
                      IF m[1] = "config" /\ m # l THEN Wanted(@[m]) ELSE @[m]]]
    /\ GotoSilently("system") /\ PassedOver

(* A TOML file whose write fails is left as it was, or torn.               *)
Unwritten(toml) == {toml, [toml EXCEPT !.state = "torn"]}

HasSystem == p.toml.state = "ok" /\ p.toml.system

_remove_system_from_core_toml ==
    /\ At1("system") /\ Goto("dedup")
    /\ Only(IF HasSystem THEN [p EXCEPT !.toml = Written([@ EXCEPT !.system = FALSE])] ELSE p)

(* The write fails, which is a warning on stderr.                          *)
SystemUnwritten ==
    /\ At1("system") /\ HasSystem /\ Fault("write")
    /\ \E toml \in Unwritten(p.toml) : p' = [p EXCEPT !.toml = toml]
    /\ GotoSilently("dedup") /\ PassedOver

(* Fields of the canonical entry win unless they are empty.                *)
MergedEntry(legacy, canonical) ==
    [canonical EXCEPT !.source = IF @ = "" THEN legacy.source ELSE @,
                      !.version = IF @ = 0 THEN legacy.version ELSE @,
                      !.bound = @ \/ legacy.bound]
SamePath(kits) == Bundled \subseteq DOMAIN kits /\ kits[Legacy].path = kits[Canonical].path

DedupToml ==
    LET kits == p.toml.kits
    IN  IF SamePath(kits)
        THEN Written([p.toml EXCEPT !.kits = Drop([kits EXCEPT ![Canonical] =
                                               MergedEntry(kits[Legacy], @)], {Legacy})])
        ELSE p.toml
DedupReg == IF p.reg.state = "ok" /\ p.reg.kit = Legacy THEN [p.reg EXCEPT !.kit = Canonical]
            ELSE p.reg

_deduplicate_legacy_kits ==
    /\ At1("dedup") /\ Goto("sources")
    /\ Only(IF p.toml.state = "ok" THEN [p EXCEPT !.toml = DedupToml, !.reg = DedupReg] ELSE p)

(* Either of the two files is not written; the other one is.               *)
DedupUnwritten ==
    /\ At1("dedup") /\ p.toml.state = "ok" /\ Fault("write")
    /\ \/ /\ SamePath(p.toml.kits)
          /\ \E toml \in Unwritten(p.toml) : p' = [p EXCEPT !.toml = toml, !.reg = DedupReg]
       \/ DedupReg # p.reg /\ p' = [p EXCEPT !.toml = DedupToml]
    /\ GotoSilently("sources") /\ PassedOver

Kits == IF p.toml.state = "ok" THEN p.toml.kits ELSE <<>>

Unsourced == {s \in DOMAIN Kits : Kits[s].source = "" /\ s \in Bundled}

_migrate_kit_sources ==
    /\ At1("sources")
    /\ LET kits == [s \in DOMAIN p.toml.kits |->
                       IF s \in Unsourced THEN [p.toml.kits[s] EXCEPT !.source = "github"]
                       ELSE p.toml.kits[s]]
       IN  Only(IF Unsourced = {} THEN p
                ELSE [p EXCEPT !.toml = Written([@ EXCEPT !.kits = kits])])
    /\ GotoWith("kits", DOMAIN Kits)

(* The write fails; a torn file names no kits.                             *)
SourcesUnwritten ==
    /\ At1("sources") /\ Unsourced # {} /\ Fault("write")
    /\ \E toml \in Unwritten(p.toml) :
          /\ p' = [p EXCEPT !.toml = toml]
          /\ cmd' = [cmd EXCEPT !.pc = "kits", !.at = 1, !.silent = @ \cup {"sources"},
                                !.todo = IF toml.state = "ok" THEN DOMAIN Kits ELSE {}]
    /\ PassedOver

(***************************************************************************)
(* Kits: downloads, review and registration as KitUpdate has them.         *)
(***************************************************************************)
(* The list of kits was read before their updates, which may tear the file.*)
HasSource(s) ==
    LET source == p.toml.kits[s].source
    IN  source = "github" \/ (source = "" /\ s \in CacheKits)
Release == [i \in FileItems \cup DirItems |-> "release"]
(* Mutant: the version that was reviewed is not recorded.                  *)
RegisterKeepsVersion(toml, s, source) ==
    IF toml.state # "ok" \/ s \notin DOMAIN toml.kits THEN toml
    ELSE Written([toml EXCEPT !.kits[s].bound = @ \/ s \in Manifests])
Register(toml, s, source) ==
    IF toml.state # "ok" THEN toml
    ELSE LET old == IF s \in DOMAIN toml.kits THEN toml.kits[s]
                    ELSE [path |-> <<"config", s>>, source |-> "", version |-> 0, bound |-> FALSE]
         IN  Written([toml EXCEPT !.kits = Put(@, s,
                [old EXCEPT !.version = KitRelease, !.bound = @ \/ s \in Manifests,
                            !.source = IF source = "" THEN @ ELSE source])])

IsCurrent(s) == /\ <<"config", s>> \in DOMAIN p.tree
                /\ s \in DOMAIN Kits /\ Kits[s].version = KitRelease
Unbound(s) == s \in Manifests /\ (s \in DOMAIN Kits => ~Kits[s].bound)

(* The same version: only a missing manifest binding is added.             *)
KitCurrent(s) ==
    /\ IsCurrent(s)
    /\ Only(IF Unbound(s) THEN [p EXCEPT !.toml = Register(@, s, "")] ELSE p)

(* A review: any of the changes accepted, a kit that is not there whole.   *)
ReviewedTrees(s) ==
    LET l == <<"config", s>>
        old == At(p.tree, l)
    IN  {Put(p.tree, l, [i \in DOMAIN old \cup accepted |->
                            IF i \in accepted THEN "release" ELSE old[i]]) :
            accepted \in IF l \in DOMAIN p.tree THEN SUBSET DOMAIN Release ELSE {DOMAIN Release}}

KitReviewed(s) ==
    /\ ~IsCurrent(s)
    /\ \E tree \in ReviewedTrees(s) :
          Only([p EXCEPT !.tree = tree, !.toml = Register(@, s, p.toml.kits[s].source)])

(* A failed download changes nothing; a review that raises has written the *)
(* changes accepted before.                                                *)
KitFails(s) ==
    \/ Only(p)
    \/ /\ ~IsCurrent(s) /\ <<"config", s>> \in DOMAIN p.tree
       /\ \E tree \in ReviewedTrees(s) : Only([p EXCEPT !.tree = tree])

UpdateKits ==
    /\ At1("kits") /\ cmd.todo # {}
    /\ LET s == FirstOf(cmd.todo)
           next == [cmd EXCEPT !.todo = @ \ {s}]
       IN  \/ ~HasSource(s) /\ Only(p) /\ cmd' = next
           \/ HasSource(s) /\ (KitCurrent(s) \/ KitReviewed(s)) /\ cmd' = next
           \/ HasSource(s) /\ KitFails(s) /\ cmd' = [next EXCEPT !.errors = TRUE]

(* A kit's review came to its end, its registration is passed over.        *)
KitUnregistered ==
    /\ At1("kits") /\ cmd.todo # {} /\ p.toml.state = "ok" /\ Fault("write")
    /\ LET s == FirstOf(cmd.todo) IN
       /\ HasSource(s) /\ (~IsCurrent(s) \/ Unbound(s))
       /\ \E tree \in IF IsCurrent(s) THEN {p.tree} ELSE ReviewedTrees(s),
             toml \in Unwritten(p.toml) : p' = [p EXCEPT !.tree = tree, !.toml = toml]
       /\ cmd' = [cmd EXCEPT !.todo = @ \ {s}, !.silent = @ \cup {"kits"}]
    /\ PassedOver

(***************************************************************************)
(* What is derived or merely ensured, and the report.                      *)
(***************************************************************************)
Aggregate(tree) == [written |-> TRUE,
    nav |-> {s \in Slugs : "SKILL.md" \in DOMAIN At(tree, <<"config", s>>)}]

regenerate_gen_aggregates ==
    /\ \/ At1("kits") /\ cmd.todo = {} /\ Goto("scaffold")
       \/ At1("init_gen") /\ Goto("init_skill")
    /\ Only([p EXCEPT !.gen = Aggregate(p.tree)])

(* Mutant: the scaffold is written whether or not the files are there.     *)
Overwritten(cfg, S) == [f \in ConfigFiles |-> IF f \in S THEN "default" ELSE cfg[f]]
_ensure_file(cfg, S) == [f \in ConfigFiles |-> IF f \in S /\ cfg[f] = "absent"
                                               THEN "default" ELSE cfg[f]]

(* Mutant: only the root AGENTS.md is written.                             *)
InjectedAgents(root) == [root EXCEPT !["AGENTS.md"] = TRUE]
_inject_root(root) == [f \in RootFiles |-> TRUE]

Scaffold ==
    /\ At1("scaffold") /\ Goto("inject")
    /\ Only([p EXCEPT !.cfg = _ensure_file(@, ConfigFiles)])

Inject ==
    /\ \/ At1("inject") /\ Goto("agents")
       \/ At1("init_inject") /\ Goto("report")
    /\ Only([p EXCEPT !.root = _inject_root(@)])

(* Integrations that exist are regenerated when something changed.         *)
_maybe_regenerate_agents ==
    /\ At1("agents") /\ Goto("report")
    /\ Only(IF cmd.changed /\ p.agents # 0 THEN [p EXCEPT !.agents = cache] ELSE p)

Report ==
    /\ At1("report") /\ cmd' = NoCmd
    /\ UNCHANGED <<p, backups, counters>>
    /\ IF cmd.kind = "init"
       THEN /\ result' = IF cmd.errors THEN "INIT_ERROR" ELSE "INITIALIZED"
            /\ UNCHANGED prev
       ELSE \E kitsValid \in BOOLEAN :
            /\ result' = IF ~cmd.errors /\ kitsValid THEN "PASS" ELSE "WARN"
            /\ prev' = IF ~cmd.errors /\ cmd.failed = {} /\ cmd.silent = {}
                       THEN [known |-> TRUE, project |-> p] ELSE NoPrev

(***************************************************************************)
(* The remaining steps of init.                                            *)
(***************************************************************************)
FreshToml == [state |-> "ok", kits |-> <<>>, system |-> FALSE, note |-> FALSE]

InitToml ==
    /\ At1("init_toml") /\ Goto("init_kit")
    /\ Only([p EXCEPT !.toml = IF p.toml.state # "absent" /\ ~cmd.force THEN @ ELSE FreshToml,
                      !.cfg = _ensure_file(@, {"AGENTS.md"})])

(* The default kit is declined, cannot be downloaded, or is installed.     *)
InitKit ==
    /\ At1("init_kit")
    /\ \/ /\ Only(p)
          /\ \E failed, tried \in BOOLEAN :
                /\ tried => failed       \* the installation reported errors
                /\ cmd' = [cmd EXCEPT !.pc = "init_registry", !.errors = failed,
                                      !.installed = tried]
       \/ /\ Only([p EXCEPT !.tree = Put(@, <<"config", Canonical>>, Release),
                            !.toml = Register(@, Canonical, "github")])
          /\ cmd' = [cmd EXCEPT !.pc = "init_registry", !.installed = TRUE]

InitKitUnregistered ==
    /\ At1("init_kit") /\ p.toml.state = "ok" /\ Fault("write")
    /\ \E toml \in Unwritten(p.toml) :
          p' = [p EXCEPT !.tree = Put(@, <<"config", Canonical>>, Release), !.toml = toml]
    /\ cmd' = [cmd EXCEPT !.pc = "init_registry", !.installed = TRUE]
    /\ PassedOver

InitRegistry ==
    /\ At1("init_registry") /\ Goto("init_gen")
    /\ Only(IF p.reg.state # "absent" /\ ~cmd.force THEN p
            ELSE [p EXCEPT !.reg = [state |-> "ok",
                                    kit |-> IF cmd.installed THEN Canonical ELSE ""]])

InitSkill ==
    /\ At1("init_skill") /\ Goto("init_inject")
    /\ Only([p EXCEPT !.cfg = _ensure_file(@, {"SKILL.md"})])

(***************************************************************************)
(* The process dies between two steps, or while it writes core.toml.       *)
(***************************************************************************)
Dies ==
    /\ At1(cmd.pc) /\ cmd.pc # "idle" /\ Fault("kill")
    /\ Died /\ UNCHANGED <<p, backups, prev>>

WritesToml ==
    \/ cmd.pc = "init_toml" /\ (p.toml.state = "absent" \/ cmd.force)
    \/ /\ p.toml.state = "ok"
       /\ \/ cmd.pc = "layout_gen" /\ cmd.todo = {} /\ StalePaths # {}
          \/ cmd.pc = "system" /\ p.toml.system
          \/ cmd.pc = "dedup" /\ SamePath(p.toml.kits)
          \/ cmd.pc = "sources" /\ Unsourced # {}
          \/ /\ cmd.pc = "kits" /\ cmd.todo # {} /\ HasSource(FirstOf(cmd.todo))
             /\ ~IsCurrent(FirstOf(cmd.todo)) \/ Unbound(FirstOf(cmd.todo))

DiesWritingToml ==
    /\ At1(cmd.pc) /\ WritesToml /\ Fault("tear")
    /\ p' = [p EXCEPT !.toml.state = "torn"]
    /\ Died /\ UNCHANGED <<backups, prev>>

Next ==
    \/ Upgrade \/ UserEdits
    \/ \E force, dry_run, ok \in BOOLEAN : cmd_init(force, dry_run, ok)
    \/ \E dry_run, ack \in BOOLEAN : cmd_update(dry_run, ack)
    \/ CopyCoreDir \/ CopyCoreDirDies \/ FinishCore
    \/ \E s \in Slugs : LayoutKit(s) \/ LayoutKitFails(s) \/ LayoutRestoreFails(s)
                       \/ LayoutBackupFails(s)
    \/ StartLayoutGen \/ LayoutGen \/ LayoutGenFails
    \/ LayoutPaths \/ LayoutRemove \/ LayoutRemoveSkips \/ LayoutRemoveDies
    \/ _cleanup_legacy_blueprint_dirs \/ BlueprintsStay \/ _remove_system_from_core_toml
    \/ SystemUnwritten \/ _deduplicate_legacy_kits \/ DedupUnwritten
    \/ _migrate_kit_sources \/ SourcesUnwritten
    \/ UpdateKits \/ KitUnregistered \/ regenerate_gen_aggregates \/ Scaffold \/ Inject
    \/ _maybe_regenerate_agents \/ Report
    \/ InitToml \/ InitKit \/ InitKitUnregistered \/ InitRegistry \/ InitSkill
    \/ Dies \/ DiesWritingToml

Spec == Init /\ [][Next]_vars

(***************************************************************************)
(* Properties.                                                             *)
(***************************************************************************)

(* Every file of the project is in one of the states the commands know.    *)
TypeOK ==
    /\ ProjectType(p) /\ cache \in 1..MaxVersion
    /\ cmd \in [pc : PCs, kind : {"none", "init", "update"}, force : BOOLEAN,
                at : 1..(Len(CoreOrder) + 1), todo : SUBSET Slugs,
                moved : SUBSET Slugs, failed : SUBSET Slugs,
                installed : BOOLEAN, changed : BOOLEAN, errors : BOOLEAN,
                silent : SUBSET PCs]
    /\ cmd.moved \cap cmd.failed = {}
    /\ cmd.pc = "idle" => cmd = NoCmd
    /\ prev.known \in BOOLEAN /\ faults \in Seq(Faults)
    /\ DOMAIN origin \subseteq Slugs
    /\ \A s \in DOMAIN origin : origin[s] \subseteq FileItems \cup DirItems

NoneOf(kinds) == \A k \in DOMAIN faults : faults[k] \notin kinds

(* The step did what it should, if the command has come past it.           *)
Done(pc) == pc \notin cmd.silent

(***************************************************************************)
(* The invariant of the proofs: what the steps of a command behind it have *)
(* established and none of the later ones undoes.                          *)
(***************************************************************************)
TodoThere ==
    /\ cmd.pc = "core" => cmd.failed = {}
    /\ cmd.pc = "layout" => cmd.todo \subseteq InPlace("kits") \ cmd.failed
    /\ cmd.pc = "layout_gen" => cmd.todo \subseteq InPlace("gen")
    /\ cmd.pc = "kits" => /\ cmd.todo \subseteq DOMAIN p.toml.kits
                          /\ Done("kits") => cmd.todo \subseteq DOMAIN Kits
CoreCurrent == \A d \in CacheDirs : p.core[d] = cache
Gone(places) == \A l \in DOMAIN p.tree : l[1] \notin places
NoLegacyItems == \A l \in DOMAIN p.tree : l[1] = "config" => DOMAIN p.tree[l] \cap LegacyItems = {}
NoSystem == p.toml.state = "ok" => ~p.toml.system
OneSlug == p.toml.state = "ok" => /\ ~SamePath(p.toml.kits)
                                  /\ ~(p.reg.state = "ok" /\ p.reg.kit = Legacy)
Reviewed(S) == \A s \in DOMAIN Kits \cap S : HasSource(s) => IsCurrent(s) /\ ~Unbound(s)
Scaffolded == \A f \in ConfigFiles : p.cfg[f] # "absent"
Announced == \A f \in RootFiles : p.root[f]

UpdatePhase ==
    cmd.kind = "update" =>
        /\ cmd.pc \in UpdatePCs /\ cmd.force
        /\ cmd.pc = "core" => \A i \in 1..(cmd.at - 1) :
              CoreOrder[i] \in CacheDirs => p.core[CoreOrder[i]] = cache /\ cmd.changed
        /\ cmd.pc # "core" => CoreCurrent /\ cmd.changed /\ p.whatsnew = cache
        /\ cmd.pc \in FromBlueprints => /\ Done("layout_remove") => Gone({"gen"})
                                        /\ cmd.failed = {} => Gone({"kits"})
        /\ cmd.pc \in FromSystem /\ Done("blueprints") => NoLegacyItems
        /\ cmd.pc \in FromDedup /\ Done("system") => NoSystem
        /\ cmd.pc \in FromSources /\ Done("dedup") => OneSlug
        /\ cmd.pc \in FromKits => /\ Done("sources") => Unsourced = {}
                                  /\ ~cmd.errors /\ Done("kits") => Reviewed(Slugs \ cmd.todo)
        /\ cmd.pc \in FromScaffold => cmd.todo = {} /\ p.gen = Aggregate(p.tree)
        /\ cmd.pc \in FromInject => Scaffolded
        /\ cmd.pc \in FromAgents => Announced
        /\ cmd.pc = "report" => p.agents \in {0, cache}
InitPhase == /\ cmd.kind = "init" => cmd.pc \in InitPCs
             /\ cmd.kind = "none" => cmd.pc = "idle"
ReportPhase == result \in {"PASS", "WARN", "unrestored"} => cmd.pc = "idle"

(* Kits are registered outside config/ only as long as there is an older   *)
(* layout to move them from.                                               *)
PathPhase ==
    p.toml.state = "ok" /\ StalePaths # {} =>
        OldLayout /\ (cmd.kind = "update" => cmd.pc \notin {"layout_remove"} \cup FromBlueprints)

(* What the kits of an older layout held is in kits/ until all of it has   *)
(* been copied, and in config/ from then on.                               *)
InConfig(s, items) == \A i \in items : /\ i \in DOMAIN At(p.tree, <<"config", s>>)
                                       /\ p.tree[<<"config", s>>][i] # "half"
OldKitsPhase ==
    NoneOf({"backup", "restore", "tear", "rmtree"}) =>
        /\ \A l \in DOMAIN p.tree : \A i \in DOMAIN p.tree[l] :
              l[1] = "kits" \/ (l[1] \in {"config", "gen"} /\ i \notin DirItems) => p.tree[l][i] # "half"
        /\ \A s \in DOMAIN origin :
              IF <<"kits", s>> \in DOMAIN p.tree THEN origin[s] \subseteq DOMAIN p.tree[<<"kits", s>>]
              ELSE InConfig(s, origin[s])
        /\ cmd.pc \in LayoutPCs /\ cmd.failed = {} =>
              \A s \in Slugs : <<"kits", s>> \in DOMAIN p.tree /\ (cmd.pc = "layout" => s \notin cmd.todo)
                  => InConfig(s, DOMAIN p.tree[<<"kits", s>>] \ LegacyItems)

(* The project as the last clean update left it differs from the project   *)
(* at most in directories of .core/ that a later update has under way.     *)
Settled ==
    /\ p.whatsnew = cache /\ p.agents \in {0, cache} /\ Gone({"gen", "kits"})
    /\ NoLegacyItems /\ NoSystem /\ OneSlug /\ Unsourced = {} /\ Reviewed(Slugs)
    /\ p.gen = Aggregate(p.tree) /\ Scaffolded /\ Announced
SettledPhase ==
    prev.known =>
        /\ cmd.kind # "init" /\ cmd.pc \notin LayoutPCs /\ cmd.silent = {} /\ Settled
        /\ prev.project = [p EXCEPT !.core = prev.project.core]
        /\ prev.project.core \in [CoreDirs -> {Half} \cup Versions]
        /\ \A d \in CoreDirs : IF d \in CacheDirs THEN prev.project.core[d] = cache
                               ELSE prev.project.core[d] = p.core[d]

BackupPhase ==
    NoneOf({"backup"}) /\ cmd.kind = "init" /\ cmd.force =>
        /\ cmd.pc \in {"core", "init_toml"} /\ p.toml.state = "ok" => \E b \in backups : b.toml = p.toml
        /\ cmd.pc \in {"core", "init_toml", "init_kit", "init_registry"} /\ p.reg.state = "ok" =>
              \E b \in backups : b.reg = p.reg

(* An update that comes to its report has left a complete installation of  *)
(* the cached version, whatever earlier commands that died half way left:  *)
(* .core/ is whole, the aggregates match the kits in config/, the scaffold *)
(* and both managed blocks exist, existing agent integrations are of this  *)
(* version, and nothing remains of .gen/kits, of [system], of paths of an  *)
(* older layout, of the legacy slug next to the canonical one, and of      *)
(* bundled kits without a source.  Where this very update failed to remove *)
(* or to write one of these, the code says nothing in its status           *)
(* (update.py:641, :711, :790, kit.py:1431), and only that one may remain. *)
UpdateCompletes ==
    (cmd.kind = "update" /\ cmd.pc = "report") =>
        /\ \A d \in CacheDirs : p.core[d] = cache
        /\ p.whatsnew = cache /\ p.agents \in {0, cache}
        /\ p.gen = Aggregate(p.tree)
        /\ \A f \in ConfigFiles : p.cfg[f] # "absent"
        /\ \A f \in RootFiles : p.root[f]
        /\ Done("layout_remove") => \A l \in DOMAIN p.tree : l[1] # "gen"
        /\ p.toml.state = "ok" => /\ StalePaths = {}
                                  /\ Done("system") => ~p.toml.system
                                  /\ Done("dedup") => OneSlug
                                  /\ Done("sources") => Unsourced = {}

KitsIntact ==
    \A s \in DOMAIN origin : \A i \in origin[s] :
        \E place \in {"kits", "backup", "config"} :
            /\ i \in DOMAIN At(p.tree, <<place, s>>)
            /\ p.tree[<<place, s>>][i] # "half"

(* What a kit of the old layout held is not lost by a copy that fails or a *)
(* process that dies between or inside copies, nor by the update that      *)
(* follows: it is whole in kits/, in the layout backup or in config/kits.  *)
(* When restoring it fails too, it is whole in the backup until the next   *)
(* command, which may replace the backup by what is left (kit.py:1335).    *)
(* (A failing backup, a truncated file and a removal cut short do lose.)   *)
RestoreJustFailed(k) == k = Len(faults) /\ result = "unrestored"
OldKitsSurvive ==
    (/\ NoneOf({"backup", "tear", "rmtree"})
     /\ \A k \in DOMAIN faults : faults[k] = "restore" => RestoreJustFailed(k))
    => KitsIntact

(* A second update of an unchanged project changes nothing, even when      *)
(* updates between the two died.                                           *)
UpdateIsIdempotent ==
    [][(cmd.pc = "report" /\ cmd.kind = "update" /\ ~cmd.errors /\ cmd.failed = {}
        /\ prev.known) => p = prev.project]_vars

(* AGENTS.md and SKILL.md of config/ belong to the user once edited: no    *)
(* command rewrites them; README.md is only rewritten by init.             *)
UserConfigKept ==
    [][\A f \in ConfigFiles : p.cfg[f] = "mine" =>
        p'.cfg[f] = "mine" \/ (f = "README.md" /\ cmd.kind = "init")]_vars

(* A core.toml or artifacts.toml that `init --force` replaces is in one of *)
(* the backups it has taken, unless taking the backup failed.              *)
OverwrittenIsBackedUp ==
    [][NoneOf({"backup"}) =>
       /\ (cmd.pc = "init_toml" /\ p.toml.state = "ok" /\ p'.toml # p.toml)
            => \E b \in backups : b.toml = p.toml
       /\ (cmd.pc = "init_registry" /\ p.reg.state = "ok" /\ p'.reg # p.reg)
            => \E b \in backups : b.reg = p.reg]_vars

(* What the requirements say and the code does not do.                     *)
(* "The migration MUST NOT lose any user modifications to kit files."      *)
LayoutKeepsEdits ==
    [][cmd.pc \in {"layout", "layout_gen", "layout_remove"} =>
        \A l \in DOMAIN p.tree : \A i \in DOMAIN p.tree[l] :
            p.tree[l][i] = "edited" => /\ i \in DOMAIN At(p'.tree, l)
                                       /\ p'.tree[l][i] = "edited"]_vars
(* "If migration fails, the backup MUST be restored."                      *)
LayoutNothingLost == KitsIntact
(* "`cpt update` on a project with [system] in core.toml removes the       *)
(* section and reports it" (ADR 0014).                                     *)
SystemRemoved == result = "PASS" /\ p.toml.state = "ok" => ~p.toml.system
(* "IF any step fails, restore from backup and report error."              *)
LayoutFailureReported ==
    result = "PASS" => \A l \in DOMAIN p.tree : l[1] # "kits"
(* "If both legacy and canonical slugs exist with the same path, merge":   *)
(* the registry never names a kit that is not registered.                  *)
KitRefsResolve ==
    result \in {"PASS", "WARN"} /\ p.toml.state = "ok" =>
        p.reg.kit \in {""} \cup DOMAIN p.toml.kits
(* ".core/ replaced atomically."                                           *)
CoreReplacedAtomically ==
    result = "died" => \A d, e \in CacheDirs : p.core[d] = p.core[e] /\ p.core[d] # Half
(* "User config files in config/ are NEVER overwritten."                   *)
CoreTomlKept == [][p.toml.note => p'.toml.note \/ cmd.kind = "init"]_vars
=============================================================================
