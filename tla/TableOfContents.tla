--------------------------- MODULE TableOfContents ---------------------------
(***************************************************************************)
(* The table of contents of a Markdown file: how cypilot finds it, builds  *)
(* it, puts it into a file and checks it (utils/toc.py).                   *)
(*                                                                         *)
(* A file is a sequence of lines.  A line is a heading, a fence, a TOC     *)
(* marker, a `---` separator, an entry of a table of contents, a blank     *)
(* line or prose.  The title of a heading stands for its anchor slug, so   *)
(* two headings have one title when GitHub gives them one slug; the title  *)
(* of headings without a letter or a digit is "".                          *)
(***************************************************************************)
EXTENDS Integers, Sequences, FiniteSets, FiniteSetsExt

CONSTANTS
    Alias,     \* title -> <<title, k>>: its slug is that of the other with the suffix -k
    Bracketed  \* the titles with a `]` that does not belong to a link

(* `Steps 1` is steps-1, as is the second `Steps`.                         *)
ASSUME AliasAssumption ==
    \A t \in DOMAIN Alias : /\ Alias[t] \in STRING \X (Nat \ {0}) /\ Alias[t][1] # t
                            /\ \A u \in DOMAIN Alias : Alias[u] = Alias[t] => u = t

Line(k, lvl, num, txt, n) == [k |-> k, lvl |-> lvl, num |-> num, txt |-> txt, n |-> n]
Heading(lvl, num, txt) == Line("head", lvl, num, txt, 0)
Fence(char, len, info) == Line("fence", len, <<>>, char, info)   \* info = 1: with an info string
Prose(txt) == Line("prose", 0, <<>>, txt, 0)
Blank == Line("blank", 0, <<>>, "", 0)
Separator == Line("sep", 0, <<>>, "", 0)
TOC_MARKER_START == Line("open", 0, <<>>, "", 0)
TOC_MARKER_END == Line("close", 0, <<>>, "", 0)
TocHeading == Heading(2, <<>>, "Table of Contents")
_TOC_HEADING_NAMES == {"Table of Contents", "TOC"}

LineKinds == {"head", "fence", "prose", "blank", "sep", "open", "close", "entry"}
From(ls, n) == SubSeq(ls, n, Len(ls))
Upto(ls, n) == SubSeq(ls, 1, n)
(* "\n".join(...): no lines at all are one empty line.                     *)
Join(ls) == IF ls = <<>> THEN <<Blank>> ELSE ls
(* Line numbers in ascending order.                                        *)
InOrder(S) == [k \in 1..Cardinality(S) |-> CHOOSE n \in S : Cardinality({m \in S : m <= n}) = k]

-----------------------------------------------------------------------------
(* Fences: <<>> outside, <<character, length>> inside.                     *)

(* A fence line opens a block, or closes the one that is open.             *)
_fence_update(l, state) ==
    IF state = <<>> THEN <<l.txt, l.lvl>>
    ELSE IF l.txt = state[1] /\ l.lvl >= state[2] /\ l.n = 0 THEN <<>> ELSE state

(* The lines that are neither fences nor inside one.                       *)
Outside(ls) ==
    LET fence[n \in 0..Len(ls)] ==
            CASE n = 0 -> <<>>
              [] n > 0 /\ ls[n].k = "fence" -> _fence_update(ls[n], fence[n - 1])
              [] OTHER -> fence[n - 1]
    IN  {n \in DOMAIN ls : fence[n - 1] = <<>> /\ fence[n] = <<>>}

Headings(ls) == {n \in Outside(ls) : ls[n].k = "head"}
(* The headings that take part, as line numbers.                           *)
parse_headings(ls, min, max, skip_first, skip_toc_heading) ==
    LET all == Headings(ls)
    IN  {n \in all : /\ skip_first => n # Min(all)
                     /\ ls[n].lvl \in min..max
                     /\ skip_toc_heading => ls[n].num # <<>> \/ ls[n].txt \notin _TOC_HEADING_NAMES}

-----------------------------------------------------------------------------
(* The entries.  `lvl` is the indentation in spaces, or -k for the k-th    *)
(* number of a numbered list; `n` is the suffix that tells equal slugs     *)
(* apart.                                                                  *)

SameSlug(a, b) == a.num = b.num /\ a.txt = b.txt
(* The text of the anchor: the suffix is a part of it like any other.      *)
Slug(num, txt, n) ==
    IF n = 0 /\ txt \in DOMAIN Alias THEN <<num, Alias[txt][1], Alias[txt][2]>> ELSE <<num, txt, n>>
(* Mutant: equal titles get equal anchors.                                 *)
PlainSlug(ls, hs, n) == 0
_unique_slug(ls, hs, n) == Cardinality({m \in hs : m < n /\ SameSlug(ls[m], ls[n])})

Parents(ls, hs, n) == {m \in hs : /\ m < n /\ ls[m].lvl < ls[n].lvl
                                  /\ \A k \in hs : m < k /\ k < n => ls[k].lvl > ls[m].lvl}
build_toc(ls, hs, numbered, indent) ==
    LET top == {m \in hs : Parents(ls, hs, m) = {}}
        shallowest == Min({ls[m].lvl : m \in hs})
        Indent(n) == CASE ~numbered -> indent * (ls[n].lvl - shallowest)
                       [] numbered /\ n \in top -> 0 - Cardinality({m \in top : m <= n})
                       [] OTHER -> indent * Cardinality(Parents(ls, hs, n))
        order == InOrder(hs)
    IN  [k \in DOMAIN order |-> Line("entry", Indent(order[k]), ls[order[k]].num, ls[order[k]].txt,
                                     _unique_slug(ls, hs, order[k]))]

-----------------------------------------------------------------------------
(* Where a table of contents stands.                                       *)

(* The first line from `n` on that ends a section; fences are tracked from *)
(* there on.                                                               *)
_next_heading_or_separator(ls, n) ==
    LET rest == From(ls, n)
        ends == {m \in Outside(rest) : rest[m].k \in {"head", "sep"}}
    IN  IF ends = {} THEN Len(ls) + 1 ELSE n - 1 + Min(ends)

(* <<first line, line behind>> of the `## Table of Contents` section.      *)
HeadingSection(ls) ==
    LET at == {n \in Outside(ls) : ls[n] = TocHeading}
    IN  IF at = {} THEN <<>> ELSE <<Min(at), _next_heading_or_separator(ls, Min(at) + 1)>>
(* <<marker, marker>>: the first start marker and the first end behind it, *)
(* fences or not.                                                          *)
MarkerBlock(ls) ==
    LET opens == {n \in DOMAIN ls : ls[n] = TOC_MARKER_START}
        closes == {n \in DOMAIN ls : ls[n] = TOC_MARKER_END /\ n > Min(opens)}
    IN  IF opens = {} THEN <<>> ELSE IF closes = {} THEN <<>> ELSE <<Min(opens), Min(closes)>>
(* A section with the blank lines around it.                               *)
(* Mutant: a separator behind it is taken for a blank line.                *)
SeparatorTaken(ls, s) ==
    <<Min({m \in 1..s[1] : \A k \in m..(s[1] - 1) : ls[k] = Blank}),
      Max({m \in s[2]..(Len(ls) + 1) : \A k \in s[2]..(m - 1) : ls[k] \in {Blank, Separator}})>>
Widened(ls, s) ==
    <<Min({m \in 1..s[1] : \A k \in m..(s[1] - 1) : ls[k] = Blank}),
      Max({m \in s[2]..(Len(ls) + 1) : \A k \in s[2]..(m - 1) : ls[k] = Blank})>>

-----------------------------------------------------------------------------
(* Insertion.                                                              *)

insert_toc_markers(ls, max) ==
    LET hs == parse_headings(ls, 2, max, FALSE, FALSE)
        toc == build_toc(ls, hs, FALSE, 2)
        b == MarkerBlock(ls)
        titles == {n \in Headings(ls) : ls[n].lvl = 1}
        at == IF titles = {} THEN 1 ELSE Widened(ls, <<Min(titles), Min(titles) + 1>>)[2]
    IN  CASE hs = {} -> ls
          [] hs # {} /\ b # <<>> -> Upto(ls, b[1]) \o <<Blank>> \o toc \o <<Blank>> \o From(ls, b[2])
          [] OTHER -> Upto(ls, at - 1) \o <<Blank, TOC_MARKER_START, Blank>> \o toc
                      \o <<Blank, TOC_MARKER_END, Blank>> \o From(ls, at)

(* The place for a new section: before the first separator behind the YAML *)
(* frontmatter, else behind the first heading and the list lines after it. *)
Metadata(l) == l = Blank \/ (l.k = "entry" /\ l.lvl >= 0)
SectionPlace(ls) ==
    LET closing == {n \in 2..Len(ls) : ls[n] = Separator}
        body == IF ls = <<>> THEN 1 ELSE
                IF ls[1] # Separator THEN 1 ELSE IF closing = {} THEN Len(ls) + 1 ELSE Min(closing) + 1
        seps == {n \in body..Len(ls) : ls[n] = Separator}
        rest == From(ls, body)
        heads == {body - 1 + n : n \in Headings(rest)}
    IN  CASE seps # {} -> Min(seps)
          [] seps = {} /\ heads # {} -> Max({m \in (Min(heads) + 1)..(Len(ls) + 1) :
                                                       \A k \in (Min(heads) + 1)..(m - 1) : Metadata(ls[k])})
          [] OTHER -> 1
insert_toc_heading(ls, max) ==
    LET hs == parse_headings(ls, 1, max, TRUE, TRUE)
        section == <<TocHeading, Blank>> \o build_toc(ls, hs, TRUE, 3)
        s == HeadingSection(ls)
        at == SectionPlace(ls)
        Bare(ms) == Upto(ms, Widened(ms \o <<Blank>>, <<Len(ms) + 1, Len(ms) + 2>>)[1] - 1)
    IN  CASE hs = {} -> ls
          [] hs # {} /\ s # <<>> ->
                Join(Upto(ls, Widened(ls, s)[1] - 1)) \o <<Blank>> \o section
                \o <<Blank>> \o Join(From(ls, Widened(ls, s)[2]))
          [] hs # {} /\ s = <<>> /\ at = 1 -> section \o <<Blank>> \o ls
          [] OTHER -> Join(Bare(Upto(ls, at - 1))) \o <<Blank>> \o section \o <<Blank>> \o Join(From(ls, at))

(* The section a person wrote.  The scan does not skip the marker block:   *)
(* its inner loop stops at the end marker but the outer one goes on from   *)
(* the start marker.                                                       *)
_strip_manual_toc(ls) ==
    LET s == HeadingSection(ls)
        w == Widened(ls, s)
    IN  IF s = <<>> THEN ls ELSE Join(Upto(ls, w[1] - 1) \o From(ls, w[2]))

(* `cypilot toc`: <<what is written, status>>.                             *)
(* Mutant: the section a person wrote stays.                               *)
ManualTocStays(ls, max) ==
    IF insert_toc_markers(ls, max) = ls THEN <<ls, "UNCHANGED">> ELSE <<insert_toc_markers(ls, max), "UPDATED">>
process_file(ls, max) ==
    LET content == _strip_manual_toc(ls)
        new == insert_toc_markers(content, max)
        hs == parse_headings(content, 2, max, FALSE, FALSE)
    IN  CASE hs = {} -> <<ls, "SKIP">>
          [] hs # {} /\ new = ls -> <<ls, "UNCHANGED">>
          [] OTHER -> <<new, "UPDATED">>

(* The kit update regenerates the form the kit's file had.                 *)
_regenerate_toc(ls, form) ==
    IF form = "markers" THEN insert_toc_markers(ls, 3) ELSE insert_toc_heading(ls, 3)

-----------------------------------------------------------------------------
(* Validation.                                                             *)

_find_toc_section(ls) ==
    LET b == MarkerBlock(ls)
    IN  IF HeadingSection(ls) # <<>> THEN HeadingSection(ls)
        ELSE IF b = <<>> THEN <<>> ELSE <<b[1], b[2] + 1>>
(* `[text](#anchor)`, the text without a closing bracket, the anchor not   *)
(* empty.                                                                  *)
_TOC_LINK_RE(l) == l.txt \notin Bracketed /\ ~(l.num = <<>> /\ l.txt = "" /\ l.n = 0)
_extract_toc_entries(ls, s) == {n \in s[1]..(s[2] - 1) : ls[n].k = "entry" /\ _TOC_LINK_RE(ls[n])}
Link(l) == Slug(l.num, l.txt, l.n)
Anchor(ls, hs, n) == Slug(ls[n].num, ls[n].txt, _unique_slug(ls, hs, n))
_build_expected_anchors(ls, hs) == {Anchor(ls, hs, n) : n \in hs}

(* The codes of the issues; TOC_STALE is a warning.                        *)
validate_toc(ls, max) ==
    LET hs == parse_headings(ls, 1, max, TRUE, TRUE)
        s == _find_toc_section(ls)
        expected == _build_expected_anchors(ls, hs)
        listed == {Link(ls[n]) : n \in _extract_toc_entries(ls, s)}
        errors == (IF listed \subseteq expected THEN {} ELSE {"TOC_ANCHOR_BROKEN"})
                  \cup (IF expected \subseteq listed THEN {} ELSE {"TOC_HEADING_NOT_IN_TOC"})
        fresh == IF HeadingSection(ls) # <<>> THEN insert_toc_heading(ls, max) ELSE insert_toc_markers(ls, max)
    IN  CASE hs = {} -> {}
          [] hs # {} /\ s = <<>> -> {"TOC_MISSING"}
          [] OTHER -> IF errors # {} \/ fresh = ls THEN errors ELSE {"TOC_STALE"}
=============================================================================
