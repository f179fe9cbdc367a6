------------------------------ MODULE MCOutline ------------------------------
(* A feature artifact: a title, a chapter of flows with steps under each,  *)
(* and an optional numbered appendix with a part of its own.               *)
EXTENDS Outline

HC(id, l, pat, req, mult, num) ==
    [id |-> id, level |-> l, pat |-> pat, required |-> req, multiple |-> mult, numbered |-> num]
MCContract == <<HC("title", 1, {}, TRUE, "no", "no"),
                HC("flows", 2, {"Flows"}, TRUE, "allowed", "allowed"),
                HC("steps", 3, {"Steps"}, TRUE, "yes", "allowed"),
                HC("appendix", 2, {"Notes"}, FALSE, "no", "yes"),
                HC("parts", 3, {"Parts"}, FALSE, "allowed", "allowed")>>

Title == Heading(1, <<>>, "Login")
Flows == Heading(2, <<>>, "Flows")
Steps == Heading(3, <<>>, "Steps")
Notes == Heading(2, <<1>>, "Notes")
Parts == Heading(3, <<>>, "Parts")
Deep == Heading(4, <<>>, "Steps")
Ticks == Fence("backtick", 3, 0)
Long == Fence("backtick", 4, 1)
LongEnd == Fence("backtick", 4, 0)
Entry(lvl, txt, n) == Line("entry", lvl, <<>>, txt, n)
Block == <<TOC_MARKER_START, Blank, Entry(0, "Flows", 0), Entry(2, "Steps", 0), Blank, TOC_MARKER_END, Blank>>

(* The slug of `Steps 1` is that of the second `Steps`.                    *)
MCAlias == [t \in {"Steps 1", "Parts 1"} |-> IF t = "Steps 1" THEN <<"Steps", 1>> ELSE <<"Parts", 1>>]
Draft == Heading(3, <<>>, "Steps [draft]")
MCBracketed == {"Steps [draft]"}

MCDocs == {
    <<Title, Flows, Steps, Steps, Heading(3, <<>>, "Steps 1")>>,
    <<Title, Flows, Draft, Prose("a"), Heading(3, <<>>, "Parts 1")>>,
    <<Title, Flows, Steps, Prose("a"), Steps, Notes, Parts>>,
    <<Title, Blank, Prose("a"), Flows, Ticks, Steps, Prose("b"), Ticks, Notes, Separator, Parts>>,
    <<Title, Blank>> \o Block \o <<Flows, Prose("a"), Steps>>,
    <<Title, Prose("a"), TocHeading, Blank, Entry(-1, "Flows", 0), Blank, Flows, Steps, Prose("b")>>,
    <<Separator, Prose("a"), Separator, Title, Flows, Long, Ticks, Prose("b"), Ticks, LongEnd, Steps, Notes>>,
    <<Title, Blank>> \o Block \o <<TocHeading, Entry(-1, "Flows", 0), Separator, Flows, Steps, Notes, Flows, Parts, Steps>>}
MCNewHeadings == {Flows, Steps, Parts, Heading(2, <<>>, "Notes"), Heading(2, <<3>>, "Notes")}
(* The parts of the appendix under any title.                              *)
WildcardContract == [MCContract EXCEPT ![5] = [@ EXCEPT !.pat = {}]]
(* For the configurations about the documents: a `~~~` fence around a      *)
(* heading, an H4 that has the title of an H3 behind it, and a list that   *)
(* is left of sections no longer there.                                    *)
Tildes == Fence("tilde", 3, 0)
DocDocs == MCDocs \cup {<<Title, Flows, Tildes, Steps, Tildes, Steps, Prose("a")>>,
                       <<Title, Flows, Deep, Steps>>,
                       <<Title, Blank>> \o Block,
                       <<Title, Blank, Prose("a"), Ticks, TOC_MARKER_START, Prose("b"), TOC_MARKER_END, Ticks, Flows, Steps>>}
=============================================================================
