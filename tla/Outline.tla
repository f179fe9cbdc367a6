------------------------------- MODULE Outline -------------------------------
(***************************************************************************)
(* The outline of an artifact: the first two phases of                     *)
(* validate_artifact_file, the heading contract (constraints.py) and the   *)
(* table of contents (toc.py), with the `toc` and `validate-toc` commands  *)
(* and the author who follows the fixing prompts.                          *)
(*                                                                         *)
(* The heading contract is a list of constraints, worked off one by one    *)
(* (MatchConstraint) with a cursor into the headings and the last match of *)
(* each level: a constraint is looked for behind the cursor and inside the *)
(* section of the nearest matched heading above its level.                 *)
(***************************************************************************)
EXTENDS TableOfContents

CONSTANTS
    Contract,     \* the heading constraints of the artifact's kind, in order
    MaxHeading,   \* the deepest Markdown heading level
    InitialDocs,  \* the files the author may start from
    NewHeadings,  \* the headings the author may add
    MaxEdits,     \* bound on the edits the author makes on his own
    MaxLines      \* bound on the length of a file a heading is added to

Constraint == [id : STRING, level : 1..MaxHeading, pat : SUBSET STRING, required : BOOLEAN,
               multiple : {"yes", "no", "allowed"}, numbered : {"yes", "no", "allowed"}]
ASSUME ContractAssumption == MaxHeading \in Nat /\ Contract \in Seq(Constraint)
(* Files are lines of text as TableOfContents reads them.                  *)
FileLine == [k : LineKinds, lvl : Int, num : Seq(Nat), txt : STRING, n : Nat]
ASSUME FilesAssumption == InitialDocs \subseteq Seq(FileLine)

VARIABLES
    doc,      \* the file
    pc,       \* "idle", or "match" while the contract is checked
    heads,    \* the headings as scanned at the start of the check
    idx,      \* the constraint to match next
    cursor,   \* the first heading that is still free
    last,     \* level -> the last heading matched on it, 0: none in scope
    first, final, \* constraint -> the first and the last of its matches, 0: none
    errors,   \* <<code, where>>
    report,   \* the last report, as long as it is about the file as it is
    edits

match == <<heads, idx, cursor, last, first, final, errors>>
vars == <<doc, pc, match, report, edits>>

Levels == 1..MaxHeading
Constraints == 1..Len(Contract)
NoReport == [by |-> "none", status |-> "none", codes |-> {}]
Report(by, codes, failing) ==
    [by |-> by, status |-> IF codes \cap failing # {} THEN "FAIL" ELSE "PASS", codes |-> codes]
TocErrors == {"TOC_MISSING", "TOC_ANCHOR_BROKEN", "TOC_HEADING_NOT_IN_TOC"}

-----------------------------------------------------------------------------
(* _scan_headings toggles at every line that starts with three backticks;  *)
(* tildes, longer fences and info strings make no difference to it.        *)
_scan_headings(ls) ==
    LET ticks == {n \in 1..Len(ls) : ls[n].k = "fence" /\ ls[n].txt = "backtick"}
    IN  [n \in {m \in 1..Len(ls) : /\ ls[m].k = "head" /\ ls[m].lvl \in Levels
                                   /\ Cardinality({q \in ticks : q < m}) % 2 = 0}
            |-> [level |-> ls[n].lvl, txt |-> ls[n].txt, num |-> ls[n].num]]

(* Headings on one level with one numeric parent count up by one.          *)
Before(hs, b) ==
    {a \in DOMAIN hs : /\ a < b /\ hs[a].num # <<>> /\ hs[b].num # <<>>
                       /\ hs[a].level = hs[b].level
                       /\ Len(hs[a].num) = Len(hs[b].num)
                       /\ \A p \in 1..(Len(hs[b].num) - 1) : hs[a].num[p] = hs[b].num[p]}
Child(h) == h.num[Len(h.num)]
_check_numbering_sequence(hs) ==
    {<<"HEADING_NUMBER_NOT_CONSECUTIVE", b>> : b \in
        {k \in DOMAIN hs : Before(hs, k) # {} /\ Child(hs[k]) # Child(hs[Max(Before(hs, k))]) + 1}}

(* A pattern is the set of titles it matches; no pattern matches them all. *)
_matches(h, hc) == h.level = hc.level /\ (hc.pat = {} \/ h.txt \in hc.pat)

(* The section of the last match on level `p`: up to the next heading of   *)
(* its rank or above.                                                      *)
(* Mutant: the section goes on behind the next heading of its rank.        *)
SectionOfRank(m, p) ==
    last[p] < m /\ \A k \in DOMAIN heads : last[p] < k /\ k <= m => heads[k].level >= p
_scope_end_for_parent(m, p) ==
    last[p] < m /\ \A k \in DOMAIN heads : last[p] < k /\ k <= m => heads[k].level > p
(* Where a constraint is looked for: behind the cursor, and in the section *)
(* of the nearest level above the constraint's that has a match in scope.  *)
InScope(m, hc) ==
    /\ m >= cursor
    /\ \A p \in 1..(hc.level - 1) :
          last[p] # 0 /\ (\A q \in (p + 1)..(hc.level - 1) : last[q] = 0) => _scope_end_for_parent(m, p)
FirstMatch(j, hc) ==
    /\ InScope(j, hc) /\ _matches(heads[j], hc)
    /\ \A m \in DOMAIN heads : m < j /\ InScope(m, hc) => ~_matches(heads[m], hc)
(* Further matches are taken as long as they follow one another.           *)
LastMatch(k, j, hc) ==
    IF hc.multiple = "no" THEN k = j
    ELSE /\ j <= k /\ InScope(k, hc)
         /\ \A m \in DOMAIN heads : j <= m /\ m <= k => _matches(heads[m], hc)
         /\ \A m \in DOMAIN heads : k < m /\ InScope(m, hc) =>
                \E q \in DOMAIN heads : k < q /\ q <= m /\ ~_matches(heads[q], hc)
NumberingErrors(j, k, hc) ==
    {<<"HEADING_NUMBERING_MISMATCH", m>> : m \in
        {q \in DOMAIN heads : /\ j <= q /\ q <= k /\ hc.numbered # "allowed"
                              /\ (heads[q].num # <<>>) # (hc.numbered = "yes")}}

(* Mutant: the cursor does not move on.                                    *)
MatchedAgain(hc, j, k) ==
    /\ cursor' = cursor
    /\ last' = [l \in Levels |-> IF l < hc.level THEN last[l] ELSE IF l = hc.level THEN k ELSE 0]
    /\ first' = [first EXCEPT ![idx] = j]
    /\ final' = [final EXCEPT ![idx] = k]
    /\ errors' = errors \cup NumberingErrors(j, k, hc)
Matched(hc, j, k) ==
    /\ cursor' = k + 1
    /\ last' = [l \in Levels |-> IF l < hc.level THEN last[l] ELSE IF l = hc.level THEN k ELSE 0]
    /\ first' = [first EXCEPT ![idx] = j]
    /\ final' = [final EXCEPT ![idx] = k]
    /\ errors' = errors \cup NumberingErrors(j, k, hc)
(* Mutant: a required heading may be missing.                              *)
MissingAccepted(hc) == UNCHANGED <<cursor, last, first, final, errors>>
Missing(hc) ==
    /\ errors' = IF hc.required THEN errors \cup {<<"HEADING_MISSING", idx>>} ELSE errors
    /\ UNCHANGED <<cursor, last, first, final>>

MatchConstraint ==
    /\ pc = "match" /\ idx <= Len(Contract)
    /\ LET hc == Contract[idx]
       IN  \/ \E j, k \in DOMAIN heads : FirstMatch(j, hc) /\ LastMatch(k, j, hc) /\ Matched(hc, j, k)
           \/ /\ \A m \in DOMAIN heads : InScope(m, hc) => ~_matches(heads[m], hc)
              /\ Missing(hc)
    /\ idx' = idx + 1
    /\ UNCHANGED <<doc, pc, heads, report, edits>>

(* validate_artifact_file begins.                                          *)
(* Mutant: what the last check matched is kept.                            *)
KeepsLastMatches ==
    /\ pc = "idle" /\ report.by # "validate"
    /\ pc' = "match"
    /\ heads' = _scan_headings(doc)
    /\ errors' = _check_numbering_sequence(_scan_headings(doc))
    /\ idx' = 1
    /\ cursor' = 1
    /\ UNCHANGED <<doc, last, first, final, report, edits>>
validate_headings_contract ==
    /\ pc = "idle" /\ report.by # "validate"
    /\ pc' = "match"
    /\ heads' = _scan_headings(doc)
    /\ errors' = _check_numbering_sequence(_scan_headings(doc))
    /\ idx' = 1
    /\ cursor' = 1
    /\ last' = [l \in Levels |-> 0]
    /\ first' = [c \in Constraints |-> 0]
    /\ final' = [c \in Constraints |-> 0]
    /\ UNCHANGED <<doc, report, edits>>

(* The table of contents is looked at once the contract holds.             *)
validate_artifact_file ==
    /\ pc = "match" /\ idx > Len(Contract)
    /\ pc' = "idle"
    /\ report' = IF errors # {} THEN Report("validate", {e[1] : e \in errors}, {e[1] : e \in errors})
                 ELSE Report("validate", validate_toc(doc, 3), TocErrors)
    /\ UNCHANGED <<doc, match, edits>>

-----------------------------------------------------------------------------
(* The commands on the table of contents, and the kit update's renewal.    *)

cmd_toc ==
    /\ pc = "idle"
    /\ report.by # "toc"
    /\ LET r == process_file(doc, 3)
       IN  /\ doc' = r[1]
           /\ report' = Report("toc", IF r[2] = "SKIP" THEN {} ELSE validate_toc(r[1], 3), TocErrors)
    /\ UNCHANGED <<pc, match, edits>>

cmd_validate_toc ==
    /\ pc = "idle"
    /\ report = NoReport
    /\ report' = Report("validate-toc", validate_toc(doc, 3), TocErrors)
    /\ UNCHANGED <<doc, pc, match, edits>>

RegenerateToc(form) ==
    /\ pc = "idle" /\ edits < MaxEdits
    /\ _regenerate_toc(doc, form) # doc
    /\ doc' = _regenerate_toc(doc, form)
    /\ edits' = edits + 1
    /\ report' = [NoReport EXCEPT !.by = "kit update"]
    /\ UNCHANGED <<pc, match>>

-----------------------------------------------------------------------------
(* The author: one issue of a failed check, as its prompt says; the prompt *)
(* of a TOC issue says to run `cypilot toc`.                               *)

Renumbered(n, num) == [doc EXCEPT ![n] = [@ EXCEPT !.num = num]]
(* A missing heading is added in front of the first heading that was free  *)
(* when it was looked for: behind all that stand before it in the contract. *)
PlaceOf(c) ==
    LET taken == Max({final[b] : b \in 1..(c - 1)} \cup {0})
    IN  Min({n \in DOMAIN heads : n > taken} \cup {Len(doc) + 1})
TitleFor(hc) == IF hc.pat = {} THEN "Details" ELSE CHOOSE t \in hc.pat : TRUE
Repaired(e) ==
    CASE e[1] = "HEADING_MISSING" ->
            LET hc == Contract[e[2]]
                new == Heading(hc.level, IF hc.numbered = "yes" THEN <<1>> ELSE <<>>, TitleFor(hc))
            IN  Upto(doc, PlaceOf(e[2]) - 1) \o <<new>> \o From(doc, PlaceOf(e[2]))
      [] e[1] = "HEADING_NUMBER_NOT_CONSECUTIVE" ->
            LET h == heads[e[2]]
            IN  Renumbered(e[2], [h.num EXCEPT ![Len(h.num)] = Child(heads[Max(Before(heads, e[2]))]) + 1])
      [] OTHER -> Renumbered(e[2], IF heads[e[2]].num = <<>> THEN <<1>> ELSE <<>>)
FollowPrompt ==
    /\ pc = "idle" /\ report.by = "validate" /\ report.status = "FAIL"
    /\ errors # {} /\ Len(doc) < MaxLines
    /\ \E e \in errors : doc' = Repaired(e)
    /\ report' = NoReport
    /\ UNCHANGED <<pc, match, edits>>

Edit ==
    /\ pc = "idle" /\ report # NoReport /\ edits < MaxEdits
    /\ \/ \E n \in DOMAIN doc, h \in NewHeadings : doc' = Upto(doc, n) \o <<h>> \o From(doc, n + 1)
       \/ \E n \in DOMAIN doc : doc[n] # Blank /\ doc' = Upto(doc, n - 1) \o From(doc, n + 1)
    /\ edits' = edits + 1
    /\ report' = NoReport
    /\ UNCHANGED <<pc, match>>

Init ==
    /\ doc \in InitialDocs
    /\ pc = "idle"
    /\ heads = _scan_headings(<<>>) /\ idx = 1 /\ cursor = 1 /\ errors = {}
    /\ last = [l \in Levels |-> 0]
    /\ first = [c \in Constraints |-> 0]
    /\ final = [c \in Constraints |-> 0]
    /\ report = NoReport
    /\ edits = 0

Next ==
    \/ validate_headings_contract \/ MatchConstraint \/ validate_artifact_file
    \/ cmd_toc \/ cmd_validate_toc
    \/ \E form \in {"markers", "heading"} : RegenerateToc(form)
    \/ FollowPrompt \/ Edit

Spec == Init /\ [][Next]_vars
-----------------------------------------------------------------------------
TypeOK ==
    /\ \A n \in DOMAIN doc : doc[n].k \in LineKinds
    /\ pc \in {"idle", "match"}
    /\ idx \in 1..(Len(Contract) + 1)
    /\ DOMAIN heads \subseteq Nat \ {0} /\ \A n \in DOMAIN heads : heads[n].level \in Levels
    /\ cursor \in Nat \ {0}
    /\ last \in [Levels -> DOMAIN heads \cup {0}]
    /\ first \in [Constraints -> DOMAIN heads \cup {0}]
    /\ final \in [Constraints -> DOMAIN heads \cup {0}]
    /\ report.status \in {"none", "PASS", "FAIL"}
    /\ edits \in 0..MaxEdits

(* The matches of the constraints follow one another in the file in the    *)
(* order of the contract (constraints.py:1996-2082, `cursor`).             *)
MatchesInOrder ==
    \A a, b \in Constraints : a < b /\ first[a] # 0 /\ first[b] # 0 => final[a] < first[b]

(* A constraint is matched inside the section of the constraint it is      *)
(* nested under: the nearest matched one before it with a higher heading.  *)
(* No heading of that rank or above stands between the two, so a           *)
(* subsection of one chapter never counts for another, although both only  *)
(* follow from what the loop kept of earlier rounds                        *)
(* (constraints.py:2012-2050, `last_match_idx_by_level`).                  *)
Under(b, a) ==
    /\ a < b /\ first[a] # 0 /\ first[b] # 0
    /\ Contract[a].level < Contract[b].level
    /\ \A c \in (a + 1)..(b - 1) : first[c] # 0 => Contract[c].level >= Contract[b].level
MatchesInSection ==
    \A a, b \in Constraints : Under(b, a) =>
        \A k \in DOMAIN heads : final[a] < k /\ k <= final[b] => heads[k].level > Contract[a].level

(* Both together: the matches are a reading of the file in the order and   *)
(* the nesting of the contract.                                            *)
MatchesFollowContract == MatchesInOrder /\ MatchesInSection

(* What the loop keeps between its rounds, and why the property holds: the *)
(* cursor is behind every match, and last[l] is the match of the last      *)
(* constraint on level l unless one of a higher rank was matched since.    *)
MatchTypes ==
    /\ idx \in 1..(Len(Contract) + 1) /\ cursor \in Nat \ {0}
    /\ DOMAIN heads \subseteq Nat \ {0} /\ \A n \in DOMAIN heads : heads[n].level \in Levels
    /\ last \in [Levels -> DOMAIN heads \cup {0}]
    /\ first \in [Constraints -> DOMAIN heads \cup {0}]
    /\ final \in [Constraints -> DOMAIN heads \cup {0}]
MatchedBehind ==
    \A c \in Constraints :
        /\ idx <= c => first[c] = 0
        /\ first[c] # 0 => final[c] # 0 /\ first[c] <= final[c] /\ final[c] < cursor
LastIsInScope ==
    /\ \A l \in Levels : last[l] # 0 =>
          \E c \in Constraints : /\ c < idx /\ first[c] # 0 /\ Contract[c].level = l
                                 /\ final[c] = last[l]
                                 /\ \A d \in Constraints : c < d /\ d < idx /\ first[d] # 0
                                                             => Contract[d].level > l
    /\ \A c \in Constraints : first[c] # 0 =>
          \/ last[Contract[c].level] = final[c]
          \/ \E d \in Constraints : /\ c < d /\ d < idx /\ first[d] # 0
                                    /\ Contract[d].level <= Contract[c].level
MatchInv == MatchTypes /\ MatchedBehind /\ LastIsInScope /\ MatchesFollowContract

(* A file passes only when every required heading was found, and when the  *)
(* headings of every run of matches are what the constraint asks for       *)
(* (constraints.py:2084-2134; the early return at :342).                   *)
PassMeansContract ==
    report.by = "validate" /\ report.status = "PASS" =>
        \A c \in Constraints :
            /\ Contract[c].required => first[c] # 0
            /\ first[c] # 0 => \A k \in DOMAIN heads : first[c] <= k /\ k <= final[c] =>
                  /\ doc[k].lvl = Contract[c].level
                  /\ Contract[c].numbered # "allowed" => (doc[k].num # <<>>) = (Contract[c].numbered = "yes")

(* Why it holds: a report is about the file as it was scanned, and every   *)
(* round recorded an error or matched headings that are as they should be. *)
RoundRecorded(c) ==
    /\ Contract[c].required /\ first[c] = 0 => errors # {}
    /\ first[c] # 0 => \A k \in DOMAIN heads : first[c] <= k /\ k <= final[c] =>
          /\ heads[k].level = Contract[c].level
          /\ \/ Contract[c].numbered = "allowed" \/ errors # {}
             \/ (heads[k].num # <<>>) = (Contract[c].numbered = "yes")
PassInv ==
    /\ pc = "match" => report.by # "validate"
    /\ report.by = "validate" => idx > Len(Contract) /\ (report.status = "PASS" => errors = {})
    /\ pc = "match" \/ report.by = "validate" =>
          heads = _scan_headings(doc) /\ \A c \in Constraints : c < idx => RoundRecorded(c)

(* A file as people write it: one title, which is its first heading, no    *)
(* heading that is only called TOC, one section with that name at most,    *)
(* markers in a pair outside fences, below the title, and nothing but      *)
(* entries in either; fences both scanners read alike.                     *)
Marks(ls) == {n \in DOMAIN ls : ls[n].k \in {"open", "close"}}
Orderly(ls) ==
    LET hs == Headings(ls)
        toc == {n \in hs : ls[n].txt \in _TOC_HEADING_NAMES}
        b == MarkerBlock(ls)
    IN  /\ hs = DOMAIN _scan_headings(ls)
        /\ hs # {} /\ {n \in hs : ls[n].lvl = 1} = {Min(hs)} /\ Min(hs) \notin toc
        /\ Cardinality(toc) <= 1 /\ \A n \in toc : ls[n] = TocHeading
        /\ toc # {} => \A n \in (Min(toc) + 1)..(HeadingSection(ls)[2] - 1) : ls[n].k \in {"blank", "entry"}
        /\ Marks(ls) \subseteq Outside(ls)
        /\ Marks(ls) = (IF b = <<>> THEN {} ELSE {b[1], b[2]})
        /\ b # <<>> => /\ b[1] > Min(hs)
                       /\ \A n \in (b[1] + 1)..(b[2] - 1) : ls[n].k \in {"blank", "entry"}

(* Titles that an entry of the list can be read back with: none has a      *)
(* closing bracket, none is without a letter or a digit.                   *)
Readable(ls) ==
    \A n \in Headings(ls) : ls[n].lvl \in 2..3 =>
        ls[n].txt \notin Bracketed /\ ~(ls[n].num = <<>> /\ ls[n].txt = "")
(* After `cypilot toc` an orderly file with readable titles is valid, and  *)
(* running the command again changes nothing: what inserts the list and    *)
(* what checks it agree on fences, levels, titles and repeated slugs       *)
(* (toc.py:251-308, :596-724).                                             *)
TocSettles ==
    [][report.by # "toc" /\ report'.by = "toc" /\ Orderly(doc) /\ Readable(doc) =>
          Orderly(doc') /\ report'.codes = {} /\ process_file(doc', 3)[2] # "UPDATED"]_vars

(* The lines that are nobody's table of contents: all but blank lines, the *)
(* markers, the heading of the section, and every line that is an entry of *)
(* a list, the author's own among them.                                    *)
OwnLines(ls) ==
    LET order == InOrder({n \in DOMAIN ls : /\ ls[n].k \notin {"blank", "entry", "open", "close"}
                                            /\ ls[n] # TocHeading})
    IN  [k \in DOMAIN order |-> ls[order[k]]]
(* No command takes a line of the author's away or moves it: in an orderly *)
(* file only the list, its markers or heading and blank lines change       *)
(* (toc.py:316-471, diff_engine.py:556-572).                               *)
TocKeepsProse ==
    [][report'.by \in {"toc", "kit update"} /\ doc' # doc /\ Orderly(doc)
          => OwnLines(doc') = OwnLines(doc)]_vars

(* The heading an anchor leads to on GitHub: slugs are numbered over all   *)
(* headings of the file, and of two that are equal the first is meant.     *)
Target(ls, n) ==
    LET same == {m \in Headings(ls) : Anchor(ls, Headings(ls), m) = Link(ls[n])}
    IN  {m \in same : \A q \in same : m <= q}
Linked(ls) ==
    LET s == _find_toc_section(ls)
    IN  IF s = <<>> THEN {} ELSE {n \in s[1]..(s[2] - 1) : ls[n].k = "entry"}
AnchorsLead(ls) ==
    LET listed == parse_headings(ls, 2, 3, FALSE, TRUE)
        es == InOrder(Linked(ls))
        hs == InOrder(listed)
    IN  Len(es) = Len(hs) /\ \A k \in DOMAIN es : Target(ls, es[k]) = {hs[k]}
(* Titles of a file whose anchors only equal titles share: none reads as   *)
(* another with a suffix, none of a listed section occurs on a level the   *)
(* list leaves out.                                                        *)
TitlesApart(ls) ==
    \A n, m \in Headings(ls) :
        /\ ls[n].txt \in DOMAIN Alias /\ ls[n].num = ls[m].num => ls[m].txt # Alias[ls[n].txt][1]
        /\ ls[n].lvl \notin 2..3 /\ ls[m].lvl \in 2..3 => ~SameSlug(ls[n], ls[m])
(* A file without TOC issues lists every section, in order, each entry     *)
(* leading to its own heading, equal titles included, as long as different *)
(* titles have different anchors (toc.py:235-243, :580-592).               *)
ValidTocLeads ==
    report.by \in {"toc", "validate-toc"} /\ report.codes = {} /\ Orderly(doc)
    /\ TitlesApart(doc) /\ HeadingSection(doc) = <<>>
        => AnchorsLead(doc)

(* Why it holds, of a file that has sections to list: a report without     *)
(* codes is true of the file as it is, or `cypilot toc` found no section.  *)
(* In a file without sections nothing is looked at, and a list left over   *)
(* in it leads nowhere (toc.py:634-636).                                   *)
HasSections(ls) == parse_headings(ls, 2, 3, FALSE, TRUE) # {}
TocReported ==
    report.by \in {"toc", "validate-toc"} /\ report.codes = {} =>
        \/ validate_toc(doc, 3) = {}
        \/ parse_headings(_strip_manual_toc(doc), 2, 3, FALSE, FALSE) = {}
FileOfLines == doc \in Seq({doc[n] : n \in DOMAIN doc})

-----------------------------------------------------------------------------
(* What the documents say and the code does not do: each is refuted by     *)
(* outline_doc.cfg.                                                        *)

(* toc.py:9: "GitHub-compatible anchor slugs (handles ... duplicates)".    *)
TocAnchorsLead == report.by = "toc" /\ report.codes = {} /\ Orderly(doc) => AnchorsLead(doc)

(* toc.py:181-182: titles are stripped of links "so TOC entries don't      *)
(* contain nested brackets that break anchor parsing".  Of links only:     *)
(* after `cypilot toc` a file with the title `Steps [draft]` has an issue. *)
TocReadsBack == report.by = "toc" /\ Orderly(doc) => report.codes = {}

(* toc.py:608: "every [text](#anchor) in the TOC points to an actual       *)
(* heading in the document".  Not when the last section was removed.       *)
TocEntriesLead ==
    report.by = "validate-toc" /\ report.codes = {} /\ Orderly(doc) =>
        \A n \in Linked(doc) : Target(doc, n) # {}

(* toc.py:10: "Fenced code block awareness"; kit-management.md:325-327: TOC *)
(* sections are stripped and regenerated.  Prose is neither.               *)
ProseSurvives ==
    [][report'.by \in {"toc", "kit update"} =>
          \A n \in DOMAIN doc : doc[n].k = "prose" => \E m \in DOMAIN doc' : doc'[m] = doc[n]]_vars

(* specs/kit/constraints.md:242: "all scanning MUST ignore content inside  *)
(* fenced code blocks".                                                    *)
ScansOutsideFences == DOMAIN _scan_headings(doc) \subseteq Headings(doc)

(* constraints.py:1873: "Enforces multiple/prohibited/required counts".    *)
MultipleProhibited ==
    report.by = "validate" /\ report.status = "PASS" =>
        \A c \in Constraints : Contract[c].multiple = "no" =>
            Cardinality({k \in DOMAIN heads : _matches(heads[k], Contract[c])}) <= 1

(* constraints.py:93: "Matching uses the same level/pattern rules as       *)
(* validate_headings_contract".                                            *)
Best(k, wild) ==
    LET fits == {c \in Constraints : _matches(heads[k], Contract[c]) /\ (wild \/ Contract[c].pat # {})}
        named == {c \in fits : Contract[c].pat # {}}
    IN  IF fits = {} THEN 0 ELSE IF named # {} THEN Min(named) ELSE Min(fits)
WildcardOf(c) ==
    LET next == {b \in Constraints : b > c /\ Contract[b].level = 2}
        wild == {b \in Constraints : /\ b > c /\ \A n \in next : b < n
                                     /\ Contract[b].level = 3 /\ Contract[b].pat = {}}
    IN  IF wild = {} THEN 0 ELSE Min(wild)
heading_constraint_ids_by_line(k) ==
    LET chapters == {j \in DOMAIN heads : j <= k /\ heads[j].level = 2 /\ Best(j, TRUE) # 0}
    IN  IF heads[k].level # 3 THEN Best(k, TRUE)
        ELSE IF Best(k, FALSE) # 0 THEN Best(k, FALSE)
        ELSE IF chapters = {} THEN 0 ELSE WildcardOf(Best(Max(chapters), TRUE))
MatchersAgree ==
    report.by = "validate" /\ report.status = "PASS" =>
        \A c \in Constraints : first[c] # 0 =>
            \A k \in DOMAIN heads : first[c] <= k /\ k <= final[c] => heading_constraint_ids_by_line(k) = c
=============================================================================
