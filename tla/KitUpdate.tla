----------------------------- MODULE KitUpdate -----------------------------
(***************************************************************************)
(* `cpt kit install` and `cpt kit update` for one kit of a project         *)
(* (commands/kit.py, utils/diff_engine.py, utils/manifest.py): copying a   *)
(* release into the project, adopting a manifest, reviewing an update file *)
(* by file, and recording version, source and resource bindings in         *)
(* core.toml.  Between commands the user edits the installed files; a      *)
(* command may fail or die at every write.                                 *)
(*                                                                         *)
(* A file is a pair <<dir, name>>, dir = "" at the top of the kit.  It is  *)
(* installed at <<place, file>>: place "kit" is config/kits/{slug}, "alt"  *)
(* a directory the user named.  A content says where its text comes from,  *)
(* whether it has a table of contents, and whether its {identifier}        *)
(* variables are resolved.                                                 *)
(***************************************************************************)
EXTENDS Naturals, Sequences, FiniteSets

CONSTANTS
    Files,          \* every file a release or the user may have
    FileOrder,      \* the same as a sequence: the sorted order of paths
    Releases,       \* releases: [version, tag, files, manifest]
    Own,            \* files the user may add to the kit
    MaxCommands,    \* bound: commands
    MaxEdits,       \* bound: user edits
    MaxFaults       \* bound: exceptions and crashes

Places == {"kit", "alt"}
Locs == Places \X Files
ContentDirs == {"artifacts", "codebase", "scripts", "workflows"}
ContentFiles == {"constraints.toml", "SKILL.md", "AGENTS.md"}
InContent(f) == f[1] \in ContentDirs \/ (f[1] = "" /\ f[2] \in ContentFiles)

(* A resource: its source is a file, or <<dir, "">> for a directory.       *)
IsDir(r) == r.source[2] = ""
Covers(r, f) == r.source = f \/ (IsDir(r) /\ f[1] = r.source[1])

Versions == {r.version : r \in Releases} \cup {r.tag : r \in Releases} \cup {""}
Content == [body : Versions \cup {"mine", "merged", "torn"}, toc : BOOLEAN,
            vars : {"none", "raw", "resolved"}]
Mine(c) == c.body \in {"mine", "merged"}

ASSUME KitAssumption ==
    /\ MaxCommands \in Nat /\ MaxEdits \in Nat /\ MaxFaults \in Nat
    /\ FileOrder \in Seq(Files) /\ \A f \in Files : \E i \in DOMAIN FileOrder : FileOrder[i] = f
    /\ Own \subseteq Files
    /\ Releases # {}
    /\ \A r \in Releases :
          /\ DOMAIN r.files \subseteq Files
          /\ \A f \in DOMAIN r.files : r.files[f] \in Content
          /\ r.manifest.kind \in {"none", "bad", "ok"}
          /\ r.manifest.kind = "ok" =>       \* the schema wants a resource
                /\ Len(r.manifest.resources) \in Nat \ {0}
                /\ DOMAIN r.manifest.resources = 1..Len(r.manifest.resources)

VARIABLES
    disk,       \* installed files: locations that exist -> content
    kitDir,     \* config/kits/{slug} exists
    core,       \* core.toml: "ok", "torn" (cannot be parsed), "lost" (parsed,
                \* but an interrupted write lost the entry once)
    entry,      \* [kits.{slug}] of core.toml
    config,     \* config/*.toml seeded from the kit's scripts
    gen,        \* .gen/ aggregates: what they say of the kit
    cmd,        \* local state of the running command
    result,     \* what the last command reported
    before,     \* history: disk when the command began
    consent,    \* history: files the command was allowed to replace
    open,       \* history: versions whose update was begun, not completed;
                \* not one on record already, which --force installs again
    commands, edits, faults

vars == <<disk, kitDir, core, entry, config, gen, cmd, result, before, consent,
          open, commands, edits, faults>>
counters == <<commands, edits, faults>>

NoEntry == [present |-> FALSE, version |-> "", source |-> "", resources |-> <<>>]
NoAggregate == [skill |-> FALSE, agents |-> <<>>]
NoCmd == [pc |-> "idle", rel |-> CHOOSE r \in Releases : TRUE, kind |-> "none",
          interactive |-> FALSE, yes |-> FALSE, force |-> FALSE, source |-> "",
          root |-> "kit", at |-> 1, bound |-> <<>>, snapshot |-> <<>>,
          target |-> <<>>, todo |-> {}, bulk |-> "none", accepted |-> {},
          declined |-> {}, status |-> "none"]

(***************************************************************************)
(* Partial functions.                                                      *)
(***************************************************************************)
Put(f, k, v) == [q \in DOMAIN f \cup {k} |-> IF q = k THEN v ELSE f[q]]
Drop(f, S) == [q \in DOMAIN f \ S |-> f[q]]
Over(f, g) == [q \in DOMAIN f \cup DOMAIN g |-> IF q \in DOMAIN g THEN g[q] ELSE f[q]]
Sub(f, S) == [q \in DOMAIN f \cap S |-> f[q]]

(* The entry as the readers of core.toml see it.                           *)
Entry == IF core = "torn" THEN NoEntry ELSE entry

Init ==
    /\ disk = <<>> /\ kitDir = FALSE
    /\ core = "ok" /\ entry = NoEntry
    /\ config = "absent"
    /\ gen = NoAggregate
    /\ cmd = NoCmd /\ result = "none"
    /\ before = <<>> /\ consent = {} /\ open = {}
    /\ commands = 0 /\ edits = 0 /\ faults = 0

Fault == faults < MaxFaults /\ faults' = faults + 1 /\ UNCHANGED <<commands, edits>>
Goto(pc) == cmd' = [cmd EXCEPT !.pc = pc]
Leave(status) == cmd' = [cmd EXCEPT !.pc = "regen", !.status = status]
Died == cmd' = NoCmd /\ result' = "died"
(* An exception of an install leaves the command; one of an update is      *)
(* caught per kit, and the aggregates are still regenerated.               *)
Raised == IF cmd.kind = "install" THEN Died
          ELSE Leave("ERROR") /\ UNCHANGED result

(***************************************************************************)
(* The user between commands: changes an installed file or adds one, and   *)
(* may write {identifier} variables into it as well.                       *)
(***************************************************************************)
UserEdits(l, vs) ==
    /\ cmd.pc = "idle" /\ edits < MaxEdits
    /\ l \in DOMAIN disk \/ (kitDir /\ l[1] = "kit" /\ l[2] \in Own)
    /\ disk' = Put(disk, l, [body |-> "mine", vars |-> vs,
                             toc |-> IF l \in DOMAIN disk THEN disk[l].toc ELSE FALSE])
    /\ edits' = edits + 1 /\ result' = "none" /\ before' = disk'
    /\ UNCHANGED <<kitDir, core, entry, config, gen, cmd, consent, open, commands, faults>>

(***************************************************************************)
(* manifest.py.                                                            *)
(***************************************************************************)
(* load_manifest: none, or an error for one the schema rejects.            *)
load_manifest(rel) == rel.manifest.kind

(* validate_manifest: unique ids, existing sources of the declared type,   *)
(* relative destinations without "..".                                     *)
validate_manifest(rel) ==
    LET rs == rel.manifest.resources
    IN  /\ \A i, j \in DOMAIN rs : rs[i].id = rs[j].id => i = j
        /\ \A i \in DOMAIN rs :
              /\ \E f \in DOMAIN rel.files : Covers(rs[i], f)
              /\ rs[i].type = (IF IsDir(rs[i]) THEN "directory" ELSE "file")
              /\ rs[i].path = "inside"

(* build_source_to_resource_mapping: a file belongs to the last resource   *)
(* that covers it; 0 when there is none.                                   *)
ResourceOf(rel, f) ==
    LET rs == rel.manifest.resources
        covering == {i \in DOMAIN rs : Covers(rs[i], f)}
    IN  IF rel.manifest.kind # "ok" \/ covering = {} THEN 0
        ELSE CHOOSE i \in covering : \A j \in covering : j <= i

(* Mutant: the destination the user named is only recorded.                *)
CopiedToKit(d, rel, r, place) ==
    Over(d, [l \in {"kit"} \X {f \in DOMAIN rel.files : Covers(r, f)} |-> rel.files[l[2]]])

(* _copy_manifest_resource: a directory is removed before it is copied.    *)
Copied(d, rel, r, place) ==
    LET new == [l \in {place} \X {f \in DOMAIN rel.files : Covers(r, f)} |-> rel.files[l[2]]]
    IN  Over(IF IsDir(r) THEN Drop(d, {l \in DOMAIN d : l[1] = place /\ l[2][1] = r.source[1]})
             ELSE d, new)
HalfCopied(d, rel, r, place) ==
    LET all == Copied(d, rel, r, place)
        gone == {l \in Locs : l[1] = place /\ Covers(r, l[2])}
    IN  {Over(Drop(d, gone), Sub(all, S)) : S \in SUBSET (gone \cap DOMAIN all)}
        \cup (IF IsDir(r) THEN {Drop(d, S) : S \in SUBSET (gone \cap DOMAIN d)} ELSE {d})

(* _resolve_template_variables rewrites every file with variables below    *)
(* one directory, the user's as well.  A file that cannot be read is       *)
(* passed over; a write that stops leaves it torn, and the rest as it was. *)
WithVariables(d, root) == {l \in DOMAIN d : l[1] = root /\ d[l].vars = "raw"}
Resolved(d, S) ==
    [l \in DOMAIN d |-> IF l \in S THEN [d[l] EXCEPT !.vars = "resolved"] ELSE d[l]]
Torn(d, S) == [l \in DOMAIN d |-> IF l \in S THEN [d[l] EXCEPT !.body = "torn"] ELSE d[l]]

_resolve_template_variables(root, next) ==
    LET all == WithVariables(disk, root)
    IN  \/ disk' = Resolved(disk, all) /\ Goto(next) /\ UNCHANGED <<result, counters>>
        \/ /\ Fault
           /\ \E l \in all : disk' = Resolved(disk, all \ {l})
           /\ Goto(next) /\ UNCHANGED result
        \/ /\ Fault
           /\ \E S \in SUBSET all : \E l \in all \ S :
                 disk' \in {Resolved(disk, S), Torn(Resolved(disk, S), {l})}
           /\ Raised \/ Died

(***************************************************************************)
(* core.toml: _register_kit_in_core_toml merges into the entry.  Without a *)
(* readable core.toml it does nothing; a write that stops in the middle    *)
(* leaves a file that cannot be read.                                      *)
(***************************************************************************)
Merged(version, source, resources) ==
    [present |-> TRUE,
     version |-> IF version = "" THEN entry.version ELSE version,
     source |-> IF source = "" THEN entry.source ELSE source,
     resources |-> IF resources = <<>> THEN entry.resources ELSE resources]

_register_kit_in_core_toml(version, source, resources) ==
    /\ entry' = IF core = "torn" THEN entry ELSE Merged(version, source, resources)
    /\ UNCHANGED core

Register(pc, version, source, resources, next, completed) ==
    /\ cmd.pc = pc
    /\ \/ /\ _register_kit_in_core_toml(version, source, resources)
          /\ open' = open \ completed
          /\ next
          /\ UNCHANGED <<counters, result>>
       \/ /\ Fault /\ core # "torn"
          /\ \/ core' = "torn" /\ UNCHANGED entry
             \/ core' = "lost" /\ entry' = NoEntry
          /\ UNCHANGED open
          /\ Died \/ (next /\ UNCHANGED result)   \* the exception is swallowed
    /\ UNCHANGED <<disk, kitDir, config, gen, before, consent>>

(* The version check of update_kit.                                        *)
UpToDate(rel, force) ==
    ~force /\ rel.version # "" /\ kitDir /\ Entry.version = rel.version

(***************************************************************************)
(* Installation.                                                           *)
(***************************************************************************)
Begin(c) ==
    /\ cmd.pc = "idle" /\ commands < MaxCommands
    /\ commands' = commands + 1
    /\ cmd' = c
    /\ result' = "none" /\ before' = disk
    /\ consent' = IF c.kind = "install" THEN Files ELSE {}
    /\ open' = IF c.kind = "update" /\ c.pc # "regen" /\ ~UpToDate(c.rel, FALSE)
               THEN open \cup {c.rel.version} ELSE open
    /\ UNCHANGED <<disk, kitDir, core, entry, config, gen, edits, faults>>
Refuse(status) ==
    /\ cmd.pc = "idle" /\ commands < MaxCommands
    /\ commands' = commands + 1
    /\ result' = status /\ before' = disk /\ consent' = {}
    /\ UNCHANGED <<disk, kitDir, core, entry, config, gen, cmd, open, edits, faults>>

(* cmd_kit_install: refused when the kit is there, unless forced.  A       *)
(* release from GitHub is registered under its tag.                        *)
cmd_kit_install(rel, github, force, root) ==
    IF kitDir /\ ~force THEN Refuse("FAIL")
    ELSE IF load_manifest(rel) = "bad" THEN Refuse("died")
    ELSE Begin([NoCmd EXCEPT !.kind = "install", !.rel = rel, !.force = force,
                   !.interactive = TRUE,
                   !.source = IF github THEN "github" ELSE "",
                   !.root = IF load_manifest(rel) = "ok" /\ rel.manifest.ask THEN root ELSE "kit",
                   !.pc = IF load_manifest(rel) = "none" THEN "copy"
                          ELSE IF validate_manifest(rel) THEN "place" ELSE "regen",
                   !.status = IF load_manifest(rel) = "ok" /\ ~validate_manifest(rel)
                              THEN "FAIL" ELSE "none"])

InstallVersion == IF cmd.source = "github" /\ cmd.rel.tag # "" THEN cmd.rel.tag
                  ELSE cmd.rel.version

(* _copy_kit_content: the content directories of the release replace those *)
(* of the project, the content files are copied over.                      *)
ReleaseDirs(rel) == {f[1] : f \in DOMAIN rel.files} \cap ContentDirs
ReplaceDirs(d, rel, dirs) ==
    Over(Drop(d, {l \in DOMAIN d : l[1] = "kit" /\ l[2][1] \in dirs}),
         [l \in {"kit"} \X {f \in DOMAIN rel.files : f[1] \in dirs} |-> rel.files[l[2]]])
CopyFiles(d, rel, fs) == Over(d, [l \in {"kit"} \X fs |-> rel.files[l[2]]])
RootFiles(rel) == {f \in DOMAIN rel.files : InContent(f) /\ f[1] = ""}

_copy_kit_content(d, rel) ==
    CopyFiles(ReplaceDirs(d, rel, ReleaseDirs(rel)), rel, RootFiles(rel))

(* Stopped inside a directory, or among the files.                         *)
HalfDir(d, rel, x) ==
    LET inDir == {l \in Locs : l[1] = "kit" /\ l[2][1] = x}
    IN  {Drop(d, S) : S \in SUBSET (inDir \cap DOMAIN d)}
        \cup {Sub(ReplaceDirs(d, rel, {x}), Locs \ S) : S \in SUBSET inDir}
HalfContent(d, rel) ==
    {CopyFiles(ReplaceDirs(d, rel, ReleaseDirs(rel)), rel, fs) : fs \in SUBSET RootFiles(rel)}
    \cup UNION {HalfDir(ReplaceDirs(d, rel, done), rel, x)
                   : done \in SUBSET ReleaseDirs(rel), x \in ReleaseDirs(rel)}

CopyContent ==
    /\ cmd.pc = "copy"
    /\ kitDir' = TRUE
    /\ \/ disk' = _copy_kit_content(disk, cmd.rel) /\ Goto("seed") /\ UNCHANGED <<result, counters>>
       \/ Fault /\ disk' \in HalfContent(disk, cmd.rel) /\ (Raised \/ Died)
    /\ UNCHANGED <<core, entry, config, gen, before, consent, open>>

(* install_kit_with_manifest: every resource goes to the path the user     *)
(* names for it, or below the kit root.                                    *)
PlaceResource(place) ==
    LET rs == cmd.rel.manifest.resources
        r == rs[cmd.at]
    IN  /\ cmd.pc = "place" /\ cmd.at <= Len(rs)
        /\ place = cmd.root \/ (cmd.interactive /\ r.ask)
        /\ kitDir' = (kitDir \/ cmd.root = "kit" \/ place = "kit")
        /\ \/ /\ disk' = Copied(disk, cmd.rel, r, place)
              /\ cmd' = [cmd EXCEPT !.at = @ + 1, !.bound = Put(@, r.id, place)]
              /\ UNCHANGED <<result, counters>>
           \/ Fault /\ disk' \in HalfCopied(disk, cmd.rel, r, place) /\ Died
        /\ UNCHANGED <<core, entry, config, gen, before, consent, open>>

ResolveInstalled ==
    /\ cmd.pc = "place" /\ cmd.at > Len(cmd.rel.manifest.resources)
    /\ _resolve_template_variables(cmd.root, "seed")
    /\ UNCHANGED <<kitDir, core, entry, config, gen, before, consent, open>>

(* _seed_kit_config_files: only what is missing.                           *)
_seed_kit_config_files ==
    /\ cmd.pc = "seed"
    /\ config' = IF config = "absent"
                    /\ \E l \in DOMAIN disk : l[1] = cmd.root /\ l[2][1] = "scripts"
                 THEN "default" ELSE config
    /\ Goto("register")
    /\ UNCHANGED <<disk, kitDir, core, entry, gen, result, before, consent, open, counters>>

(* The end of install_kit, install_kit_with_manifest, and of the first     *)
(* installation by update_kit, which registers no source.                  *)
RegisterInstalled ==
    IF cmd.kind = "install"
    THEN Register("register", InstallVersion, cmd.source, cmd.bound,
                  Leave("installed"), Versions)
    ELSE Register("register", cmd.rel.version, "", <<>>, Leave("created"), Versions)

(***************************************************************************)
(* update_kit.                                                             *)
(***************************************************************************)
(* Mutant: an installed kit is copied over instead of reviewed.            *)
CopiedOver(rel) == "copy"

(* From here on the flow of update_kit: bindings of a kit installed        *)
(* without a manifest are adopted first, then first installation or review.*)
AfterVersionCheck(rel) ==
    IF load_manifest(rel) = "ok" /\ kitDir /\ Entry.resources = <<>> /\ validate_manifest(rel)
    THEN "adopt" ELSE IF kitDir THEN "diff" ELSE "copy"

cmd_kit_update(rel, local, interactive, yes, force) ==
    IF ~local /\ (~Entry.present \/ Entry.source = "") THEN Refuse("FAIL")
    ELSE LET c == [NoCmd EXCEPT !.kind = "update", !.rel = rel, !.force = force,
                      !.interactive = interactive, !.yes = yes,
                      !.source = IF local THEN "" ELSE "github"]
         IN  Begin(IF UpToDate(rel, force)
                   THEN [c EXCEPT !.pc = "regen", !.status = "current"]
                   ELSE IF load_manifest(rel) = "bad"
                   THEN [c EXCEPT !.pc = "regen", !.status = "ERROR"]
                   ELSE [c EXCEPT !.pc = AfterVersionCheck(rel)])

(* migrate_legacy_kit_to_manifest: a resource that is on disk is bound     *)
(* where it is, a new one is copied first.                                 *)
Exists(r) == \E l \in DOMAIN disk : l[1] = "kit" /\ Covers(r, l[2])
AdoptResource(place) ==
    LET rs == cmd.rel.manifest.resources
        r == rs[cmd.at]
    IN  /\ cmd.pc = "adopt" /\ cmd.at <= Len(rs)
        /\ place = "kit" \/ (cmd.interactive /\ r.ask /\ ~Exists(r))
        /\ consent' = IF place = "kit" THEN consent
                      ELSE consent \cup {f \in Files : Covers(r, f)}
        /\ \/ /\ disk' = IF Exists(r) THEN disk ELSE Copied(disk, cmd.rel, r, place)
              /\ cmd' = [cmd EXCEPT !.at = @ + 1, !.bound = Put(@, r.id, place)]
              /\ UNCHANGED <<result, counters>>
           \/ /\ ~Exists(r) /\ Fault /\ disk' \in HalfCopied(disk, cmd.rel, r, place)
              /\ Raised \/ Died
        /\ UNCHANGED <<kitDir, core, entry, config, gen, before, open>>

RegisterAdopted ==
    /\ cmd.at > Len(cmd.rel.manifest.resources)
    /\ Register("adopt", "", "", cmd.bound, Goto("resolve"), {})

ResolveAdopted ==
    /\ cmd.pc = "resolve"
    /\ _resolve_template_variables("kit", "diff")
    /\ UNCHANGED <<kitDir, core, entry, config, gen, before, consent, open>>

(***************************************************************************)
(* diff_engine.py: file_level_kit_update.                                  *)
(***************************************************************************)
(* The files of the release the update looks at (_enumerate_kit_files in   *)
(* include mode), and where each belongs: at the binding of its resource,  *)
(* else in the kit directory.                                              *)
SourceFiles(rel) == Sub(rel.files, {f \in Files : InContent(f)})
Bindings == IF load_manifest(cmd.rel) = "ok" THEN Entry.resources ELSE <<>>
Place(rel, f) ==
    LET i == ResourceOf(rel, f)
    IN  IF i # 0 /\ rel.manifest.resources[i].id \in DOMAIN Bindings
        THEN Bindings[rel.manifest.resources[i].id] ELSE "kit"

(* Mutant: every file is looked for in the kit's directory.                *)
MappingIgnoresBindings(rel) ==
    [f \in DOMAIN SourceFiles(rel) \cup {g \in Files : InContent(g) /\ <<"kit", g>> \in DOMAIN disk}
        |-> "kit"]

(* The user's files: first those at the places of the release's files,     *)
(* then everything below a bound directory, then the rest of the kit's     *)
(* directory.                                                              *)
TargetMapping(rel) ==
    LET source == DOMAIN SourceFiles(rel)
        direct == [f \in source |-> Place(rel, f)]
        rs == IF Bindings = <<>> THEN <<>> ELSE rel.manifest.resources
        bound(f) == {i \in DOMAIN rs : /\ IsDir(rs[i]) /\ Covers(rs[i], f)
                                       /\ rs[i].id \in DOMAIN Bindings
                                       /\ <<Bindings[rs[i].id], f>> \in DOMAIN disk}
        below == {f \in Files : bound(f) # {} /\ ~(f \in source /\ <<direct[f], f>> \in DOMAIN disk)}
        rest == {f \in Files : InContent(f) /\ <<"kit", f>> \in DOMAIN disk}
    IN  Over([f \in rest |-> "kit"],
             Over(direct, [f \in below |-> Bindings[rs[CHOOSE i \in bound(f) : TRUE].id]]))

UserFiles(rel) ==
    LET target == TargetMapping(rel)
        at(f) == IF <<target[f], f>> \in DOMAIN disk THEN <<target[f], f>> ELSE <<"kit", f>>
    IN  [f \in {g \in DOMAIN target : at(g) \in DOMAIN disk /\ (at(g)[1] = target[g] \/ InContent(g))}
            |-> disk[at(f)]]

(* Mutant: files are compared without their tables of contents.            *)
KindWithoutToc(source, user, f) ==
    IF f \notin DOMAIN user THEN "added"
    ELSE IF f \notin DOMAIN source THEN "removed"
    ELSE IF source[f].body = user[f].body /\ source[f].vars = user[f].vars
    THEN "unchanged" ELSE "modified"

(* _classify_kit_files.                                                    *)
Kind(source, user, f) ==
    IF f \notin DOMAIN user THEN "added"
    ELSE IF f \notin DOMAIN source THEN "removed"
    ELSE IF source[f] = user[f] THEN "unchanged" ELSE "modified"
Changed(source, user) ==
    {f \in DOMAIN source \cup DOMAIN user : Kind(source, user, f) # "unchanged"}

(* The first of some files, in the sorted order of paths.                  *)
FirstOf(S) ==
    FileOrder[CHOOSE i \in DOMAIN FileOrder :
                 FileOrder[i] \in S /\ \A j \in DOMAIN FileOrder : FileOrder[j] \in S => i <= j]

(* Mutant: the version is recorded before the review.                      *)
RecordsVersionFirst ==
    /\ cmd.pc = "diff"
    /\ cmd' = [cmd EXCEPT !.pc = "review", !.snapshot = UserFiles(cmd.rel),
                  !.target = TargetMapping(cmd.rel),
                  !.todo = Changed(SourceFiles(cmd.rel), UserFiles(cmd.rel))]
    /\ entry' = Merged(cmd.rel.version, cmd.source, <<>>)
    /\ UNCHANGED <<disk, kitDir, core, config, gen, result, before, consent, open, counters>>

StartReview ==
    /\ cmd.pc = "diff"
    /\ LET user == UserFiles(cmd.rel)
       IN  cmd' = [cmd EXCEPT !.pc = "review", !.snapshot = user,
                      !.target = TargetMapping(cmd.rel),
                      !.todo = Changed(SourceFiles(cmd.rel), user)]
    /\ UNCHANGED <<disk, kitDir, core, entry, config, gen, result, before, consent, open, counters>>

(* _prompt_kit_file, and _open_editor_for_file for an answer "modify":     *)
(* the editor gives a merged text, the upstream text, or nothing.  Bulk    *)
(* answers hold for the files that follow.                                 *)
Answers == {"accept", "decline", "accept all", "decline all", "merge", "upstream", "abandon"}
Asked == ~cmd.yes /\ cmd.interactive /\ cmd.bulk = "none"
Action(answer) ==
    IF cmd.yes \/ (cmd.interactive /\ cmd.bulk = "accept all") THEN "accepted"
    ELSE IF ~Asked THEN "declined"
    ELSE CASE answer \in {"accept", "accept all"} -> "accepted"
           [] answer \in {"merge", "upstream"} -> "modified"
           [] OTHER -> "declined"

(* _strip_toc_for_diff; what is edited and shown has no table of contents. *)
Strip(c) == [c EXCEPT !.toc = FALSE]
Blank == [body |-> "", toc |-> FALSE, vars |-> "none"]
Of(f, p) == IF p \in DOMAIN f THEN f[p] ELSE Blank
Edited(answer, new) ==
    IF answer = "merge" THEN [body |-> "merged", toc |-> FALSE, vars |-> new.vars]
    ELSE Strip(new)

(* Mutant: a declined file is also reported as accepted.                   *)
CountedTwice(f, action, answer) ==
    [cmd EXCEPT !.todo = @ \ {f}, !.accepted = @ \cup {f},
                !.declined = IF action = "declined" THEN @ \cup {f} ELSE @]

Decided(f, action, answer) ==
    [cmd EXCEPT !.todo = @ \ {f},
                !.bulk = IF Asked /\ answer \in {"accept all", "decline all"} THEN answer ELSE @,
                !.accepted = IF action # "declined" THEN @ \cup {f} ELSE @,
                !.declined = IF action = "declined" THEN @ \cup {f} ELSE @]

(* One file of the review.  `toc` is what becomes of a table of contents   *)
(* in an edited file: regenerated, left out, or regeneration failed, and   *)
(* then the user goes on or stops the review.                              *)
ReviewFile(answer, toc) ==
    LET f == FirstOf(cmd.todo)
        source == SourceFiles(cmd.rel)
        kind == Kind(source, cmd.snapshot, f)
        loc == <<cmd.target[f], f>>
        action == Action(answer)
        new == Of(source, f)
        hadToc == new.toc \/ Of(cmd.snapshot, f).toc
        text == Edited(answer, new)
        next == Decided(f, action, answer)
        edits_ == action = "modified" /\ kind # "removed"
    IN  /\ cmd.pc = "review" /\ cmd.todo # {}
        /\ ~Asked => answer = "accept"
        /\ ~(edits_ /\ hadToc) => toc = "no"
        /\ consent' = IF action = "declined" THEN consent ELSE consent \cup {f}
        /\ \/ /\ disk' = IF action = "accepted"
                         THEN IF kind = "removed" THEN Drop(disk, {loc}) ELSE Put(disk, loc, new)
                         ELSE IF ~edits_ THEN disk
                         ELSE CASE toc = "no" -> Put(disk, loc, text)
                                [] toc = "yes" -> Put(disk, loc, [text EXCEPT !.toc = TRUE])
                                [] OTHER -> Put(disk, loc, IF f \in DOMAIN cmd.snapshot
                                                           THEN cmd.snapshot[f] ELSE text)
              /\ cmd' = IF toc = "stop" THEN [next EXCEPT !.todo = {}] ELSE next
              /\ UNCHANGED <<counters, result>>
           \/ /\ Fault                                   \* the write or unlink
              /\ action = "accepted" \/ edits_
              /\ disk' \in {disk} \cup (IF kind = "removed" THEN {}
                                        ELSE {Put(disk, loc, [new EXCEPT !.body = "torn"])})
              /\ \/ /\ cmd' = [next EXCEPT !.pc = "regen", !.status = "ERROR"]
                    /\ UNCHANGED result
                 \/ Died
        /\ UNCHANGED <<kitDir, core, entry, config, gen, before, open>>

(* The version is recorded whatever the user decided; of a release without *)
(* one nothing is, nor its source.                                         *)
VersionStatus == IF cmd.accepted # {} THEN "updated"
                 ELSE IF cmd.declined # {} THEN "partial" ELSE "current"
RegisterReviewed ==
    /\ cmd.todo = {}
    /\ \/ /\ cmd.rel.version # ""
          /\ Register("review", cmd.rel.version, cmd.source, <<>>, Leave(VersionStatus),
                      {cmd.rel.version})
       \/ /\ cmd.pc = "review" /\ cmd.rel.version = ""
          /\ Leave(VersionStatus)
          /\ open' = open \ {""}
          /\ UNCHANGED <<disk, kitDir, core, entry, config, gen, result, before, consent, counters>>

(* regenerate_gen_aggregates: what the kits below config/kits/ hold.       *)
Aggregate ==
    [skill |-> <<"kit", <<"", "SKILL.md">>>> \in DOMAIN disk,
     agents |-> IF <<"kit", <<"", "AGENTS.md">>>> \in DOMAIN disk
                THEN <<disk[<<"kit", <<"", "AGENTS.md">>>>]>> ELSE <<>>]
regenerate_gen_aggregates ==
    /\ cmd.pc = "regen"
    /\ \/ gen' = Aggregate /\ cmd' = NoCmd /\ result' = cmd.status /\ UNCHANGED counters
       \/ Fault /\ UNCHANGED gen /\ Died
    /\ UNCHANGED <<disk, kitDir, core, entry, config, before, consent, open>>

Step ==
    \/ CopyContent \/ ResolveInstalled \/ _seed_kit_config_files
    \/ RegisterInstalled \/ RegisterAdopted \/ ResolveAdopted
    \/ StartReview \/ RegisterReviewed \/ regenerate_gen_aggregates
    \/ \E place \in Places : PlaceResource(place) \/ AdoptResource(place)
    \/ \E answer \in Answers, toc \in {"yes", "no", "continue", "stop"} : ReviewFile(answer, toc)

Next ==
    \/ \E l \in Locs, vs \in {"none", "raw"} : UserEdits(l, vs)
    \/ \E rel \in Releases, github, force \in BOOLEAN, root \in Places :
          cmd_kit_install(rel, github, force, root)
    \/ \E rel \in Releases, local, interactive, yes, force \in BOOLEAN :
          cmd_kit_update(rel, local, interactive, yes, force)
    \/ Step

Spec == Init /\ [][Next]_vars

-----------------------------------------------------------------------------
(* The types of the variables.                                             *)
TypeOK ==
    /\ DOMAIN disk \subseteq Locs /\ \A l \in DOMAIN disk : disk[l] \in Content
    /\ kitDir \in BOOLEAN /\ core \in {"ok", "torn", "lost"}
    /\ config \in {"absent", "default"}
    /\ entry.version \in Versions /\ entry.source \in {"", "github"}
    /\ \A r \in DOMAIN entry.resources : entry.resources[r] \in Places
    /\ consent \subseteq Files /\ open \subseteq Versions
    /\ cmd.accepted \cap cmd.declined = {}

(* A command leaves a file with the user's text as it found it, to the     *)
(* letter, unless the user gave it up: by a forced installation, or by     *)
(* accepting its change, one by one or in bulk (kit.py:1571-1601,          *)
(* diff_engine.py:790-865).  Naming a destination is consent: a directory  *)
(* there is removed whatever it holds (kit.py:665-668).  The exception is  *)
(* the user's own {identifier} variables in the kit's directory, which the *)
(* adoption of a manifest resolves without asking (kit.py:705-711); such a *)
(* file may be torn, and then the command dies or reports an error.        *)
Stopped == cmd.status = "ERROR" \/ result \in {"ERROR", "died"}
EditsSurvive ==
    \A l \in DOMAIN before :
        Mine(before[l]) /\ l[2] \notin consent =>
            /\ l \in DOMAIN disk
            /\ \/ disk[l] = before[l]
               \/ /\ l \in WithVariables(before, "kit")
                  /\ \/ disk[l] = [before[l] EXCEPT !.vars = "resolved"]
                     \/ disk[l] = [before[l] EXCEPT !.body = "torn"] /\ Stopped

(* An update that accepts everything leaves exactly the content of the     *)
(* release: each of its files is at its place, and nothing else is left in *)
(* the content directories of the kit (diff_engine.py:681-729, :844-865).  *)
(* Of resources that do not overlap, and of a kit that left no file behind *)
(* when a resource was moved (Separate and NoneLeftBehind, below): the     *)
(* update takes a copy in the kit's directory for the file itself.         *)
AcceptAllConverges ==
    (core = "ok" /\ cmd.pc = "regen" /\ cmd.kind = "update" /\ cmd.yes /\ cmd.status = "updated") =>
        LET source == SourceFiles(cmd.rel)
        IN  /\ \A f \in DOMAIN source : /\ <<Place(cmd.rel, f), f>> \in DOMAIN disk
                                         /\ disk[<<Place(cmd.rel, f), f>>] = source[f]
            /\ \A l \in DOMAIN disk : l[1] = "kit" /\ InContent(l[2]) => l[2] \in DOMAIN source

(* An installation that reports success has every resource of the manifest *)
(* at the path core.toml records for it, with the text of the release      *)
(* (install_kit_with_manifest, kit.py:573-635).                            *)
InstalledAtBindings ==
    (cmd.pc = "regen" /\ cmd.status = "installed" /\ cmd.rel.manifest.kind = "ok") =>
        LET rs == cmd.rel.manifest.resources
        IN  \A i \in DOMAIN rs : \A f \in DOMAIN cmd.rel.files :
               Covers(rs[i], f) /\ core = "ok" =>
                   LET l == <<Entry.resources[rs[i].id], f>>
                   IN  l \in DOMAIN disk /\ disk[l].body = cmd.rel.files[f].body

(* An update writes a resource where core.toml says it is, nowhere else    *)
(* (architecture/DESIGN.md:102; diff_engine.py:632-677).                   *)
UpdatedAtRegisteredPath ==
    (cmd.kind = "update" /\ cmd.pc \in {"review", "register", "regen"}) =>
        \A l \in DOMAIN disk :
            \/ l \in DOMAIN before /\ disk[l].body = before[l].body
            \/ ResourceOf(cmd.rel, l[2]) = 0 \/ cmd.status = "ERROR" \/ core # "ok"
            \/ l[1] = Place(cmd.rel, l[2])

(* An update to another version than the one on record, forced or not,     *)
(* that stopped on the way, by an exception or the death of the process,   *)
(* is not on record as done: the next update to that version does not      *)
(* report "current" (kit.py:1505-1517, :1605).  One that installs the      *)
(* recorded version again (--force) is, however far it came: nothing marks *)
(* it as begun.  Of kits in their own directory: one that the user moved   *)
(* elsewhere as a whole has none until an update begins to copy it there,  *)
(* and the version check looks for the directory (kit.py:1556).            *)
InterruptedIsRetried ==
    cmd.pc = "idle" => \A rel \in Releases :
        rel.version \in open => ~UpToDate(rel, FALSE)

(* The documents say more.  "Files in user but not in source" are the ones *)
(* an update removes (diff_engine.py:722): a file the release has is not   *)
(* deleted.                                                                *)
NotDeletedUpstream ==
    (cmd.pc = "regen" /\ cmd.kind = "update" /\ cmd.status = "updated") =>
        \A l \in DOMAIN before : l[2] \in DOMAIN cmd.rel.files => l \in DOMAIN disk

(* "User modifications MUST be preserved across interactive kit updates    *)
(* via file-level diff" (architecture/PRD.md:276).                         *)
EditsPreserved ==
    \A l \in DOMAIN before :
        Mine(before[l]) /\ l[2] \notin consent => l \in DOMAIN disk /\ disk[l] = before[l]

(* "force: ... skip version check and force-overwrite all files"           *)
(* (kit.py:1474; architecture/DESIGN.md:643).                              *)
ForceOverwrites ==
    (cmd.pc = "regen" /\ cmd.kind = "update" /\ cmd.force /\ cmd.status # "ERROR") =>
        cmd.declined = {}

(* "Resolve {identifier} template variables in all copied kit files"       *)
(* (architecture/features/kit-management.md:405).                          *)
VariablesResolved ==
    (cmd.pc = "regen" /\ cmd.status = "installed" /\ cmd.rel.manifest.kind = "ok") =>
        \A l \in DOMAIN disk : l \in DOMAIN before \/ disk[l].vars # "raw"

(* "FOR EACH changed file: get user decision"                              *)
(* (architecture/features/kit-management.md:234).                          *)
EveryChangeDecided ==
    (cmd.pc = "regen" /\ cmd.status \in {"updated", "partial"}) =>
        Changed(SourceFiles(cmd.rel), cmd.snapshot) \subseteq cmd.accepted \cup cmd.declined

-----------------------------------------------------------------------------
(* The inductive invariant behind the theorems of KitUpdateProofs.         *)

(* The type of a running command; no file is decided twice.                *)
CmdType(c) ==
    /\ DOMAIN c = DOMAIN NoCmd
    /\ c.pc \in {"idle", "copy", "place", "seed", "register", "adopt", "resolve",
                   "diff", "review", "regen"}
    /\ c.rel \in Releases /\ c.kind \in {"none", "install", "update"}
    /\ c.source \in {"", "github"} /\ c.root \in Places /\ c.at \in Nat \ {0}
    /\ \A i \in DOMAIN c.bound : c.bound[i] \in Places
    /\ \A f \in DOMAIN c.snapshot : c.snapshot[f] \in Content
    /\ \A f \in DOMAIN c.target : c.target[f] \in Places
    /\ c.todo \subseteq Files \cap DOMAIN c.target
    /\ c.accepted \cap c.todo = {} /\ c.declined \cap c.todo = {}

(* The kit's directory: nothing of the kit is in it before it exists, and  *)
(* an update that copies the kit into it found none.                       *)
KitDirPhase ==
    /\ ~kitDir => \A l \in DOMAIN disk : l[1] # "kit"
    /\ cmd.kind = "update" => (kitDir <=> cmd.pc # "copy") \/ cmd.pc = "regen"
    /\ cmd.pc = "idle" <=> cmd.kind = "none"

(* What a command does at which point, and what it was allowed.            *)
CommandPhase ==
    /\ cmd.pc = "place" => cmd.kind = "install"
    /\ cmd.pc \in {"adopt", "resolve", "diff", "review"} => cmd.kind = "update"
    /\ cmd.pc \in {"adopt", "resolve", "diff"} => cmd.accepted = {} /\ cmd.declined = {}
    /\ cmd.pc \in {"place", "adopt"} => cmd.rel.manifest.kind = "ok"
    /\ cmd.kind = "install" => consent = Files
    /\ cmd.status = "installed" => cmd.kind = "install"
    /\ DOMAIN before \subseteq Locs

(* The first n resources of a release are where they are bound.            *)
CopiedAt(d, rel, bound, n) ==
    \A i \in 1..n : \A f \in DOMAIN rel.files :
        Covers(rel.manifest.resources[i], f) =>
            LET id == rel.manifest.resources[i].id
            IN  /\ id \in DOMAIN bound
                /\ <<bound[id], f>> \in DOMAIN d
                /\ d[<<bound[id], f>>].body = rel.files[f].body

InstallPhase ==
    (cmd.kind = "install" /\ cmd.rel.manifest.kind = "ok") =>
        LET n == Len(cmd.rel.manifest.resources)
        IN  /\ cmd.pc \in {"place", "seed", "register", "regen"}
            /\ cmd.pc # "regen" => validate_manifest(cmd.rel)
            /\ cmd.pc = "place" => /\ cmd.at <= n + 1
                                   /\ CopiedAt(disk, cmd.rel, cmd.bound, cmd.at - 1)
                                   /\ cmd.at > 1 => cmd.bound # <<>>
            /\ cmd.pc \in {"seed", "register"} =>
                  CopiedAt(disk, cmd.rel, cmd.bound, n) /\ cmd.bound # <<>>
            /\ cmd.pc = "regen" /\ cmd.status = "installed" /\ core = "ok" =>
                  CopiedAt(disk, cmd.rel, entry.resources, n)

KitInv ==
    TypeOK /\ CmdType(cmd) /\ KitDirPhase /\ CommandPhase /\ InstallPhase /\ EditsSurvive

(* A command has a status only at its end, and a result when it is over.   *)
ReportPhase ==
    /\ cmd.pc \notin {"idle", "regen"} => cmd.status = "none"
    /\ cmd.pc # "idle" => result = "none"

(* A version is on record only for a kit in its directory, and not while   *)
(* an update to it is open.                                                *)
VersionPhase ==
    /\ cmd.kind = "install" => cmd.root = "kit"
    /\ cmd.pc \in {"seed", "register"} \/ (cmd.pc = "place" /\ cmd.at > 1) => kitDir
    /\ core # "torn" => /\ entry.version # "" => kitDir
                        /\ \A v \in open : v = "" \/ entry.version # v

(* The hypotheses of the last two theorems.  No file belongs to two        *)
(* resources of a release (the last one wins where the update writes,      *)
(* diff_engine.py:632-677, any where it looks for the user's file); and no *)
(* content file in the kit's directory is bound to another place, as an    *)
(* earlier installation leaves one behind when a resource is moved.        *)
Separate(rel) ==
    rel.manifest.kind = "ok" =>
        \A f \in Files : \A i, j \in DOMAIN rel.manifest.resources :
            Covers(rel.manifest.resources[i], f) /\ Covers(rel.manifest.resources[j], f) => i = j
NoneLeftBehind ==
    \A l \in DOMAIN before : l[1] = "kit" /\ InContent(l[2]) => Place(cmd.rel, l[2]) = "kit"

(* A file as the command found it, or at the binding of a resource.        *)
AsFound(l) == l \in DOMAIN before /\ disk[l].body = before[l].body
BoundAt(bound, i, l) ==
    LET r == cmd.rel.manifest.resources[i]
    IN  Covers(r, l[2]) /\ r.id \in DOMAIN bound /\ bound[r.id] = l[1]

(* An adoption writes only resources it binds, where it binds them.        *)
AdoptPhase ==
    (cmd.kind = "update" /\ core = "ok") =>
        /\ cmd.pc = "adopt" =>
              /\ validate_manifest(cmd.rel)
              /\ cmd.at <= Len(cmd.rel.manifest.resources) + 1
              /\ cmd.at > 1 => cmd.bound # <<>>
              /\ \A l \in DOMAIN disk : AsFound(l) \/ \E i \in 1..(cmd.at - 1) : BoundAt(cmd.bound, i, l)
        /\ cmd.pc \in {"resolve", "diff"} =>
              \A l \in DOMAIN disk :
                 \/ AsFound(l)
                 \/ /\ cmd.rel.manifest.kind = "ok"
                    /\ \E i \in DOMAIN cmd.rel.manifest.resources : BoundAt(entry.resources, i, l)

(* A review that accepts everything: what it has decided is as the release *)
(* has it, and what it has still to remove is in the kit's directory.      *)
ReviewPhase ==
    (cmd.kind = "update" /\ core = "ok" /\ cmd.pc = "review") =>
        LET source == SourceFiles(cmd.rel)
        IN  /\ cmd.todo \subseteq DOMAIN source \cup DOMAIN cmd.snapshot
            /\ (cmd.yes /\ Separate(cmd.rel) /\ NoneLeftBehind) =>
                  /\ \A f \in DOMAIN source :
                        /\ cmd.target[f] = Place(cmd.rel, f)
                        /\ f \in cmd.todo \/ (/\ <<Place(cmd.rel, f), f>> \in DOMAIN disk
                                              /\ disk[<<Place(cmd.rel, f), f>>] = source[f])
                  /\ \A l \in DOMAIN disk : l[1] = "kit" /\ InContent(l[2]) =>
                        l[2] \in DOMAIN source \/ (l[2] \in cmd.todo /\ cmd.target[l[2]] = "kit")
Converges == Separate(cmd.rel) /\ NoneLeftBehind => AcceptAllConverges
UpdatePhase == AdoptPhase /\ ReviewPhase /\ Converges

(* Where an update writes, of a kit in its own directory: bindings are on  *)
(* record only for such a kit, so that a first installation finds none.    *)
PathPhase ==
    /\ core # "torn" /\ entry.resources # <<>> => kitDir
    /\ (cmd.kind = "update" /\ core = "ok" /\ Separate(cmd.rel)) =>
          /\ cmd.pc \in {"copy", "seed", "register"} => entry.resources = <<>>
          /\ cmd.pc = "copy" => \A l \in DOMAIN disk : AsFound(l)
          /\ cmd.pc = "review" => \A f \in DOMAIN SourceFiles(cmd.rel) : cmd.target[f] = Place(cmd.rel, f)
          /\ cmd.pc \in {"seed", "register", "review"} \/ (cmd.pc = "regen" /\ cmd.status # "ERROR") =>
                \A l \in DOMAIN disk :
                    AsFound(l) \/ ResourceOf(cmd.rel, l[2]) = 0 \/ l[1] = Place(cmd.rel, l[2])
=============================================================================
