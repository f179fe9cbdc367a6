---------------------------- MODULE MCKitUpdate ----------------------------
(* Instances of KitUpdate: a kit of three releases, the last two with a    *)
(* manifest, and releases that show where the documents promise more.      *)
EXTENDS KitUpdate, TLC

T == <<"artifacts", "template.md">>     \* has a table of contents from "2" on
X == <<"artifacts", "mine.md">>         \* the user's own
S == <<"scripts", "pr.toml">>
K == <<"", "SKILL.md">>                 \* refers to a resource
A == <<"assets", "logo.svg">>           \* outside the content directories

SmallOrder == <<K, T>>
SmallFiles == {K, T}
SmallOwn == {K}                         \* a file a later release has as well
MCFiles == {K, T, S}
OwnOrder == <<K, X, T, S>>
OwnFiles == {X}
FilesAndOwn == MCFiles \cup OwnFiles
NoFiles == {}

Text(v, toc, vs) == [body |-> v, toc |-> toc, vars |-> vs]
Resource(id, source, type, ask) ==
    [id |-> id, source |-> source, type |-> type, path |-> "inside", ask |-> ask]
NoManifest == [kind |-> "none", resources |-> <<>>, ask |-> FALSE]
Manifest(rs, ask) == [kind |-> "ok", resources |-> rs, ask |-> ask]

R1 == [version |-> "1", tag |-> "v1", manifest |-> NoManifest,
       files |-> (T :> Text("1", FALSE, "none")) @@ (S :> Text("1", FALSE, "none"))]
R2 == [version |-> "2", tag |-> "v2",
       manifest |-> Manifest(<<Resource("skill", K, "file", FALSE),
                               Resource("templates", <<"artifacts", "">>, "directory", TRUE)>>, FALSE),
       files |-> (T :> Text("2", TRUE, "none")) @@ (K :> Text("2", FALSE, "raw"))]
Bad == [R2 EXCEPT !.version = "3", !.manifest.kind = "bad"]
Invalid == [R2 EXCEPT !.version = "4",
               !.manifest.resources = <<Resource("skill", K, "directory", FALSE)>>]
(* The first of them has no version of its own, only a tag.                *)
SmallReleases == {[R1 EXCEPT !.files = [f \in {T} |-> R1.files[f]], !.version = "", !.tag = "1"], R2}
MCBrokenReleases == {R1, R2, Bad, Invalid}

(* The user may move the whole kit.                                        *)
Movable == [R2 EXCEPT !.manifest.ask = TRUE]
(* A directory resource that is none of the content directories.           *)
Assets(v) == [version |-> v, tag |-> v,
       manifest |-> Manifest(<<Resource("assets", <<"assets", "">>, "directory", FALSE)>>, FALSE),
       files |-> (T :> Text(v, FALSE, "none")) @@ (A :> Text(v, FALSE, "none"))]
(* For the configuration about the documents: all of these releases.       *)
ClaimFiles == {K, T, A}
ClaimOrder == <<K, T, A>>
ClaimReleases == {[R1 EXCEPT !.files = [f \in {T} |-> R1.files[f]]],
                  [Movable EXCEPT !.manifest.resources[1].ask = TRUE], Assets("3"), Assets("4")}
=============================================================================
