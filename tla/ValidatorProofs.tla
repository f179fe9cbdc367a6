--------------------------- MODULE ValidatorProofs ---------------------------
(***************************************************************************)
(* The two halves of `cpt validate`, for every project: the outline of an  *)
(* artifact (Outline) and the IDs in the artifacts and the code            *)
(* (Validation).                                                           *)
(*                                                                         *)
(* The heading contract.  MatchInv says what the loop of                   *)
(* validate_headings_contract keeps between its rounds: the cursor stands  *)
(* behind every match, and last[l] is the match of the last constraint of  *)
(* level l as long as none of a higher rank came after.                    *)
(* MatchesFollowContract alone is not inductive: it does not say that the  *)
(* two variables the next round looks at have anything to do with the      *)
(* matches of the rounds before.                                           *)
(*                                                                         *)
(* The IDs.  What a passing project promises is proved of the files in two *)
(* stages: VerdictTrue says that the verdict on record is the one these    *)
(* files would get again (every change discards it), and the lemmas called *)
(* Clean... say what files are like in which nothing is found.  The        *)
(* promises themselves are not inductive: they say nothing of a project    *)
(* whose last verdict is gone.                                             *)
(*                                                                         *)
(* The table of contents.  Three facts about the commands on the list: a   *)
(* list without issues leads where it says, no command touches a line of   *)
(* the author's, and `cypilot toc` leaves an orderly file valid and has    *)
(* nothing left to do.  All rest on FileOfLines, that the file stays a     *)
(* sequence of lines whatever wrote it; the first on TocReported as well,  *)
(* that a report is about the file as it is.  Lines are put in order by    *)
(* counting (InOrder), so "the k-th entry" and "the k-th section" are      *)
(* compared by numbers of lines; and every write is a splice, whose lines  *)
(* move by one distance behind it and so keep their numbers among the      *)
(* author's.  The third needs more of a splice: without fences it leaves   *)
(* both fence scans as they were (SplicedOutside, SplicedTicks), so the    *)
(* headings, and the list built from them, are those of the file it was    *)
(* made from (SplicedList).                                                *)
(***************************************************************************)
EXTENDS Outline, Validation, TLAPS, FiniteSetTheorems, WellFoundedInduction


(* What _scan_headings returns: positions, each with a level.              *)
LEMMA ScanTyped ==
    ASSUME NEW ls
    PROVE  LET hs == _scan_headings(ls)
           IN  DOMAIN hs \subseteq Nat \ {0} /\ \A n \in DOMAIN hs : hs[n].level \in Levels
BY DEF _scan_headings

(* A contract is a sequence of constraints, each on a Markdown level.      *)
LEMMA ContractTyped ==
    /\ Len(Contract) \in Nat
    /\ \A c \in Constraints : Contract[c].level \in Levels /\ Contract[c].level \in Nat
    /\ Levels \subseteq Nat
<1>1. Len(Contract) \in Nat /\ \A c \in Constraints : Contract[c] \in Constraint
  BY ContractAssumption DEF Constraints
<1>2. QED
  BY <1>1, ContractAssumption DEF Constraint, Levels

(* Nothing is matched before the first round.                              *)
LEMMA InitMatchInv == Init => MatchInv
BY ScanTyped, ContractTyped
   DEF Init, MatchInv, MatchTypes, MatchedBehind, LastIsInScope, MatchesFollowContract,
       MatchesInOrder, MatchesInSection, Under, Constraints, Levels

(* A new check forgets the matches of the one before.                      *)
LEMMA BeginKeeps == MatchInv /\ validate_headings_contract => MatchInv'
<1> SUFFICES ASSUME validate_headings_contract PROVE MatchInv'
  OBVIOUS
<1>1. MatchTypes'
  BY ScanTyped, ContractTyped DEF validate_headings_contract, MatchTypes, Levels, Constraints
<1>2. MatchedBehind' /\ LastIsInScope' /\ MatchesFollowContract'
  BY ContractTyped DEF validate_headings_contract, MatchedBehind, LastIsInScope, Levels,
       MatchesFollowContract, MatchesInOrder, MatchesInSection, Under, Constraints
<1>3. QED
  BY <1>1, <1>2 DEF MatchInv

(* A constraint without a match leaves what the loop keeps as it is.       *)
LEMMA MissingKeeps ==
    ASSUME MatchInv, pc = "match", idx <= Len(Contract), Missing(Contract[idx]),
           idx' = idx + 1, heads' = heads
    PROVE  MatchInv'
<1>1. MatchTypes'
  BY ContractTyped DEF MatchInv, MatchTypes, Missing
<1>a. /\ Len(Contract) \in Nat /\ Constraints = 1..Len(Contract) /\ idx \in Nat
      /\ first' = first /\ final' = final /\ last' = last /\ cursor' = cursor /\ first[idx] = 0
  BY ContractTyped DEF MatchInv, MatchTypes, MatchedBehind, Missing, Constraints
<1>b. MatchedBehind'
  BY <1>a DEF MatchInv, MatchedBehind
<1>c. LastIsInScope'
  BY <1>a DEF MatchInv, LastIsInScope
<1>2. MatchedBehind' /\ LastIsInScope'
  BY <1>b, <1>c
<1>3. MatchesFollowContract'
  BY DEF MatchInv, Missing, MatchesFollowContract, MatchesInOrder, MatchesInSection, Under
<1>4. QED
  BY <1>1, <1>2, <1>3 DEF MatchInv

(* The step from what the loop keeps to the property: the constraint a     *)
(* matched one is nested under is the one whose section it is looked for   *)
(* in.                                                                     *)
LEMMA ParentIsLast ==
    ASSUME MatchInv, idx <= Len(Contract), NEW a \in Constraints, a < idx, first[a] # 0,
           Contract[a].level < Contract[idx].level,
           \A c \in (a + 1)..(idx - 1) : first[c] # 0 => Contract[c].level >= Contract[idx].level,
           NEW m \in DOMAIN heads, InScope(m, Contract[idx])
    PROVE  /\ final[a] < m
           /\ \A k \in DOMAIN heads : final[a] < k /\ k <= m => heads[k].level > Contract[a].level
<1> DEFINE p == Contract[a].level
           v == Contract[idx].level
<1>t. /\ idx \in Constraints /\ p \in Levels /\ p \in Nat /\ v \in Levels /\ v \in Nat
      /\ Len(Contract) \in Nat /\ Levels = 1..MaxHeading /\ MaxHeading \in Nat
  BY ContractTyped, ContractAssumption DEF MatchInv, MatchTypes, Constraints, Levels
<1>1. last[p] = final[a]
  <2>1. ~ \E c \in Constraints : a < c /\ c < idx /\ first[c] # 0 /\ Contract[c].level <= p
    <3> SUFFICES ASSUME NEW c \in Constraints, a < c, c < idx, first[c] # 0, Contract[c].level <= p
                 PROVE  FALSE
      OBVIOUS
    <3>1. c \in (a + 1)..(idx - 1)
      BY <1>t DEF Constraints
    <3>2. QED
      BY <1>t, <3>1, ContractTyped
  <2>2. QED
    BY <2>1, <1>t DEF MatchInv, LastIsInScope
<1>2. final[a] # 0
  BY DEF MatchInv, MatchedBehind
<1>3. \A q \in (p + 1)..(v - 1) : last[q] = 0
  <2> SUFFICES ASSUME NEW q \in (p + 1)..(v - 1), last[q] # 0 PROVE FALSE
    OBVIOUS
  <2>0. q \in Levels /\ q \in Nat
    BY <1>t
  <2>1. PICK c \in Constraints : /\ c < idx /\ first[c] # 0 /\ Contract[c].level = q
                                 /\ \A d \in Constraints : c < d /\ d < idx /\ first[d] # 0
                                                              => Contract[d].level > q
    BY <2>0 DEF MatchInv, LastIsInScope
  <2>2. ~(c < a)
    BY <2>1, <1>t, <2>0
  <2>3. c # a
    BY <2>1, <1>t, <2>0
  <2>4. ~(a < c)
    <3> SUFFICES ASSUME a < c PROVE FALSE
      OBVIOUS
    <3>1. c \in (a + 1)..(idx - 1)
      BY <2>1, <1>t DEF Constraints
    <3>2. QED
      BY <3>1, <2>1, <1>t, <2>0
  <2>5. QED
    BY <2>2, <2>3, <2>4, <1>t DEF Constraints
<1>4. p \in 1..(v - 1)
  BY <1>t
<1>5. _scope_end_for_parent(m, p)
  BY <1>1, <1>2, <1>3, <1>4 DEF InScope
<1>6. QED
  BY <1>1, <1>5 DEF _scope_end_for_parent

(* A round that matches: the new match is behind all others, and in the    *)
(* section of the constraint it is nested under.                           *)
LEMMA MatchedKeeps ==
    ASSUME MatchInv, pc = "match", idx <= Len(Contract), NEW j \in DOMAIN heads, NEW k \in DOMAIN heads,
           FirstMatch(j, Contract[idx]), LastMatch(k, j, Contract[idx]), Matched(Contract[idx], j, k),
           idx' = idx + 1, heads' = heads
    PROVE  MatchInv'
<1> DEFINE v == Contract[idx].level
<1>t. /\ idx \in Constraints /\ v \in Levels /\ v \in Nat /\ Levels \subseteq Nat
      /\ Len(Contract) \in Nat /\ Constraints = 1..Len(Contract)
      /\ j \in Nat \ {0} /\ k \in Nat \ {0}
  BY ContractTyped DEF MatchInv, MatchTypes, Constraints
<1>1. j <= k /\ cursor <= j /\ InScope(k, Contract[idx])
  <2>1. InScope(j, Contract[idx])
    BY DEF FirstMatch
  <2>2. cursor <= j
    BY <2>1, <1>t DEF InScope, MatchInv, MatchTypes
  <2>3. CASE Contract[idx].multiple = "no"
    BY <2>1, <2>2, <2>3, <1>t DEF LastMatch
  <2>4. CASE Contract[idx].multiple # "no"
    BY <2>2, <2>4 DEF LastMatch
  <2>5. QED
    BY <2>3, <2>4
<1>2. /\ cursor' = k + 1
      /\ last' = [l \in Levels |-> IF l < v THEN last[l] ELSE IF l = v THEN k ELSE 0]
      /\ first' = [first EXCEPT ![idx] = j]
      /\ final' = [final EXCEPT ![idx] = k]
  BY DEF Matched
<1>3. MatchTypes'
  BY <1>t, <1>2 DEF MatchInv, MatchTypes
<1>4. /\ first'[idx] = j /\ final'[idx] = k
      /\ \A c \in Constraints : c # idx => first'[c] = first[c] /\ final'[c] = final[c]
  BY <1>t, <1>2 DEF MatchInv, MatchTypes
<1>5. /\ \A c \in Constraints : first[c] \in Nat /\ final[c] \in Nat
      /\ cursor \in Nat
  BY DEF MatchInv, MatchTypes
<1>6. MatchedBehind'
  <2> SUFFICES ASSUME NEW c \in Constraints
               PROVE  /\ idx' <= c => first'[c] = 0
                      /\ first'[c] # 0 => /\ final'[c] # 0 /\ first'[c] <= final'[c]
                                          /\ final'[c] < cursor'
    BY DEF MatchedBehind
  <2>1. CASE c = idx
    BY <2>1, <1>t, <1>1, <1>2, <1>4
  <2>2. CASE c # idx
    BY <2>2, <1>t, <1>1, <1>2, <1>4, <1>5 DEF MatchInv, MatchTypes, MatchedBehind
  <2>3. QED
    BY <2>1, <2>2
<1>7. LastIsInScope'
  <2>1. ASSUME NEW l \in Levels, last'[l] # 0
        PROVE  \E c \in Constraints : /\ c < idx' /\ first'[c] # 0 /\ Contract[c].level = l
                                      /\ final'[c] = last'[l]
                                      /\ \A d \in Constraints : c < d /\ d < idx' /\ first'[d] # 0
                                                                  => Contract[d].level > l
    <3>1. CASE l = v
      BY <3>1, <1>t, <1>2, <1>4
    <3>2. CASE l < v
      <4>1. last'[l] = last[l]
        BY <3>2, <1>2
      <4>2. PICK c \in Constraints : /\ c < idx /\ first[c] # 0 /\ Contract[c].level = l
                                     /\ final[c] = last[l]
                                     /\ \A d \in Constraints : c < d /\ d < idx /\ first[d] # 0
                                                                  => Contract[d].level > l
        BY <2>1, <4>1 DEF MatchInv, LastIsInScope
      <4>3. \A d \in Constraints : c < d /\ d < idx' /\ first'[d] # 0 => Contract[d].level > l
        BY <4>2, <3>2, <1>t, <1>4
      <4>4. QED
        BY <4>1, <4>2, <4>3, <1>t, <1>4
    <3>3. QED
      BY <2>1, <3>1, <3>2, <1>t, <1>2
  <2>2. ASSUME NEW c \in Constraints, first'[c] # 0
        PROVE  \/ last'[Contract[c].level] = final'[c]
               \/ \E d \in Constraints : /\ c < d /\ d < idx' /\ first'[d] # 0
                                         /\ Contract[d].level <= Contract[c].level
    <3>0. Contract[c].level \in Levels /\ Contract[c].level \in Nat
      BY ContractTyped
    <3>1. CASE c = idx
      BY <3>1, <1>t, <1>2, <1>4
    <3>2. CASE c # idx
      <4>1. c < idx /\ first[c] # 0 /\ final'[c] = final[c]
        BY <2>2, <3>2, <1>4, <1>t DEF MatchInv, MatchedBehind, MatchTypes
      <4>2. CASE v <= Contract[c].level
        BY <4>1, <4>2, <1>t, <1>4
      <4>3. CASE Contract[c].level < v
        <5>1. last'[Contract[c].level] = last[Contract[c].level]
          BY <4>3, <3>0, <1>2
        <5>2. CASE last[Contract[c].level] = final[c]
          BY <5>1, <5>2, <4>1
        <5>3. CASE \E d \in Constraints : /\ c < d /\ d < idx /\ first[d] # 0
                                          /\ Contract[d].level <= Contract[c].level
          BY <5>3, <1>t, <1>4
        <5>4. QED
          BY <5>2, <5>3, <4>1 DEF MatchInv, LastIsInScope
      <4>4. QED
        BY <4>2, <4>3, <3>0, <1>t
    <3>3. QED
      BY <3>1, <3>2
  <2>3. QED
    BY <2>1, <2>2 DEF LastIsInScope
<1>8. MatchesInOrder'
  <2> SUFFICES ASSUME NEW a \in Constraints, NEW b \in Constraints,
                      a < b, first'[a] # 0, first'[b] # 0
               PROVE  final'[a] < first'[b]
    BY DEF MatchesInOrder
  <2>1. b <= idx /\ a # idx
    BY <1>4, <1>t DEF MatchInv, MatchedBehind, MatchTypes
  <2>2. CASE b = idx
    BY <2>1, <2>2, <1>1, <1>4, <1>5, <1>t DEF MatchInv, MatchedBehind
  <2>3. CASE b # idx
    BY <2>1, <2>3, <1>4 DEF MatchInv, MatchesFollowContract, MatchesInOrder
  <2>4. QED
    BY <2>2, <2>3
<1>9. MatchesInSection'
  <2> SUFFICES ASSUME NEW a \in Constraints, NEW b \in Constraints, Under(b, a)',
                      NEW m \in DOMAIN heads, final'[a] < m, m <= final'[b]
               PROVE  heads[m].level > Contract[a].level
    BY DEF MatchesInSection
  <2>1. a < b /\ b <= idx /\ a # idx /\ first'[a] # 0 /\ first'[b] # 0
    BY <1>4, <1>t DEF Under, MatchInv, MatchedBehind, MatchTypes
  <2>2. first[a] # 0 /\ final'[a] = final[a]
    BY <2>1, <1>4
  <2>3. \A c \in (a + 1)..(b - 1) : first'[c] = first[c]
    <3> SUFFICES ASSUME NEW c \in (a + 1)..(b - 1) PROVE first'[c] = first[c]
      OBVIOUS
    <3>1. c \in Constraints /\ c # idx
      BY <2>1, <1>t
    <3> QED BY <3>1, <1>4
  <2>4. CASE b = idx
    <3>1. a < idx /\ Contract[a].level < v
      BY <2>1, <2>4 DEF Under
    <3>2. \A c \in (a + 1)..(idx - 1) : first[c] # 0 => Contract[c].level >= v
      BY <2>3, <2>4 DEF Under
    <3>3. \A q \in DOMAIN heads : final[a] < q /\ q <= k => heads[q].level > Contract[a].level
      BY <3>1, <3>2, <2>2, <1>1, ParentIsLast
    <3>4. QED
      BY <3>3, <2>2, <2>4, <1>4
  <2>5. CASE b # idx
    <3>1. first[b] # 0 /\ final'[b] = final[b]
      BY <2>1, <2>5, <1>4
    <3>2. Under(b, a)
      BY <2>1, <2>2, <2>3, <3>1 DEF Under
    <3>3. QED
      BY <3>1, <3>2, <2>2 DEF MatchInv, MatchesFollowContract, MatchesInSection
  <2>6. QED
    BY <2>4, <2>5
<1>10. QED
  BY <1>3, <1>6, <1>7, <1>8, <1>9 DEF MatchInv, MatchesFollowContract

(* Every step keeps the invariant; the commands and the author leave the   *)
(* matches alone.                                                          *)
LEMMA NextKeepsMatchInv == MatchInv /\ [Next]_vars => MatchInv'
<1> SUFFICES ASSUME MatchInv, [Next]_vars PROVE MatchInv'
  OBVIOUS
<1>1. ASSUME UNCHANGED match PROVE MatchInv'
  BY <1>1 DEF match, MatchInv, MatchTypes, MatchedBehind, LastIsInScope,
              MatchesFollowContract, MatchesInOrder, MatchesInSection, Under
<1>2. CASE validate_headings_contract
  BY <1>2, BeginKeeps
<1>3. CASE MatchConstraint
  <2>1. pc = "match" /\ idx <= Len(Contract) /\ idx' = idx + 1 /\ heads' = heads
    BY <1>3 DEF MatchConstraint
  <2>2. CASE \E j, k \in DOMAIN heads : /\ FirstMatch(j, Contract[idx]) /\ LastMatch(k, j, Contract[idx])
                                        /\ Matched(Contract[idx], j, k)
    BY <2>1, <2>2, MatchedKeeps
  <2>3. CASE Missing(Contract[idx])
    BY <2>1, <2>3, MissingKeeps
  <2>4. QED
    BY <1>3, <2>2, <2>3 DEF MatchConstraint
<1>4. CASE validate_artifact_file
  BY <1>1, <1>4 DEF validate_artifact_file
<1>5. CASE cmd_toc
  BY <1>1, <1>5 DEF cmd_toc
<1>6. CASE cmd_validate_toc
  BY <1>1, <1>6 DEF cmd_validate_toc
<1>7. ASSUME NEW form \in {"markers", "heading"}, RegenerateToc(form) PROVE MatchInv'
  BY <1>1, <1>7 DEF RegenerateToc
<1>8. CASE FollowPrompt
  BY <1>1, <1>8 DEF FollowPrompt
<1>9. CASE Edit
  BY <1>1, <1>9 DEF Edit
<1>10. CASE UNCHANGED vars
  BY <1>1, <1>10 DEF vars
<1>11. QED
  BY <1>2, <1>3, <1>4, <1>5, <1>6, <1>7, <1>8, <1>9, <1>10 DEF Next

(* What the loop of validate_headings_contract keeps between its rounds    *)
(* (constraints.py:1996-2082), for every contract and every file.          *)
THEOREM MatchInvariant == Spec => []MatchInv
<1>1. Init => MatchInv
  BY InitMatchInv
<1>2. MatchInv /\ [Next]_vars => MatchInv'
  BY NextKeepsMatchInv
<1>3. QED
  BY <1>1, <1>2, PTL DEF Spec

(* Whatever the contract and the file, the matches of a heading contract   *)
(* read the file in the order and the nesting of the contract              *)
(* (constraints.py:1996-2082).                                             *)
THEOREM MatchingFollowsContract == Spec => []MatchesFollowContract
<1>1. MatchInv => MatchesFollowContract
  BY DEF MatchInv
<1>2. QED
  BY <1>1, MatchInvariant, PTL

-----------------------------------------------------------------------------
(* A heading as scanned is the line of the file.                           *)
LEMMA ScanKeepsLine ==
    ASSUME NEW ls, NEW n \in DOMAIN _scan_headings(ls)
    PROVE  /\ _scan_headings(ls)[n].level = ls[n].lvl
           /\ _scan_headings(ls)[n].num = ls[n].num
BY DEF _scan_headings

(* A round that finds nothing records it when the heading is required.     *)
LEMMA MissingRecorded ==
    ASSUME MatchInv, PassInv, pc = "match", idx <= Len(Contract), Missing(Contract[idx]),
           idx' = idx + 1, UNCHANGED <<doc, pc, heads, report>>
    PROVE  PassInv'
<1> SUFFICES ASSUME NEW c \in Constraints, c < idx' PROVE RoundRecorded(c)'
  BY DEF PassInv
<1>1. idx \in Nat /\ c \in Nat /\ idx \in Constraints /\ UNCHANGED <<first, final>>
  BY ContractTyped DEF MatchInv, MatchTypes, Constraints, Missing
<1>2. errors # {} => errors' # {}
  BY DEF Missing
<1>3. CASE c < idx
  <2>1. RoundRecorded(c)
    BY <1>3 DEF PassInv
  <2>2. QED
    BY <2>1, <1>1, <1>2 DEF RoundRecorded
<1>4. CASE c = idx
  <2>1. first[c] = 0
    BY <1>1, <1>4 DEF MatchInv, MatchedBehind
  <2>2. Contract[c].required => errors' # {}
    BY <1>4 DEF Missing
  <2>3. QED
    BY <2>1, <2>2, <1>1 DEF RoundRecorded
<1>5. QED
  BY <1>1, <1>3, <1>4

(* A round that matches checks every heading it takes.                     *)
LEMMA MatchedRecorded ==
    ASSUME MatchInv, PassInv, pc = "match", idx <= Len(Contract), NEW j \in DOMAIN heads,
           NEW k \in DOMAIN heads, FirstMatch(j, Contract[idx]), LastMatch(k, j, Contract[idx]),
           Matched(Contract[idx], j, k), idx' = idx + 1, UNCHANGED <<doc, pc, heads, report>>
    PROVE  PassInv'
<1> SUFFICES ASSUME NEW c \in Constraints, c < idx' PROVE RoundRecorded(c)'
  BY DEF PassInv
<1>1. /\ idx \in Nat /\ c \in Nat /\ idx \in Constraints
      /\ j \in Nat \ {0} /\ k \in Nat \ {0} /\ DOMAIN heads \subseteq Nat
  BY ContractTyped DEF MatchInv, MatchTypes, Constraints
<1>2. errors' = errors \cup NumberingErrors(j, k, Contract[idx])
  BY DEF Matched
<1>3. CASE c < idx
  <2>1. RoundRecorded(c)
    BY <1>3 DEF PassInv
  <2>2. first'[c] = first[c] /\ final'[c] = final[c]
    BY <1>1, <1>3 DEF Matched, MatchInv, MatchTypes
  <2>3. errors # {} => errors' # {}
    BY <1>2
  <2>4. QED
    BY <2>1, <2>2, <2>3 DEF RoundRecorded
<1>4. CASE c = idx
  <2>1. first'[c] = j /\ final'[c] = k
    BY <1>1, <1>4 DEF Matched, MatchInv, MatchTypes
  <2>2. ASSUME NEW q \in DOMAIN heads, j <= q, q <= k
        PROVE  /\ heads[q].level = Contract[c].level
               /\ \/ Contract[c].numbered = "allowed" \/ errors' # {}
                  \/ (heads[q].num # <<>>) = (Contract[c].numbered = "yes")
    <3>1. _matches(heads[j], Contract[c])
      BY <1>4 DEF FirstMatch
    <3>2. _matches(heads[q], Contract[c])
      <4>1. CASE Contract[c].multiple = "no"
        <5>1. k = j
          BY <4>1, <1>4 DEF LastMatch
        <5>2. q = j
          BY <5>1, <2>2, <1>1
        <5>3. QED
          BY <5>2, <3>1
      <4>2. CASE Contract[c].multiple # "no"
        BY <4>2, <2>2, <1>4 DEF LastMatch
      <4>3. QED
        BY <4>1, <4>2
    <3>3. ASSUME Contract[c].numbered # "allowed",
                 (heads[q].num # <<>>) # (Contract[c].numbered = "yes")
          PROVE  errors' # {}
      <4>1. <<"HEADING_NUMBERING_MISMATCH", q>> \in NumberingErrors(j, k, Contract[idx])
        BY <2>2, <3>3, <1>4 DEF NumberingErrors
      <4>2. QED
        BY <4>1, <1>2
    <3>4. QED
      BY <3>2, <3>3 DEF _matches
  <2>3. QED
    BY <2>1, <2>2, <1>1 DEF RoundRecorded
<1>5. QED
  BY <1>1, <1>3, <1>4

(* Every step keeps the two invariants.                                    *)
LEMMA NextKeepsPassInv == MatchInv /\ PassInv /\ [Next]_vars => PassInv'
<1> SUFFICES ASSUME MatchInv, PassInv, [Next]_vars PROVE PassInv'
  OBVIOUS
<1>1. ASSUME pc = "idle", pc' = "idle", report'.by # "validate" PROVE PassInv'
  BY <1>1 DEF PassInv
<1>2. CASE validate_headings_contract
  <2>1. \A c \in Constraints : ~(c < 1)
    BY ContractTyped DEF Constraints
  <2>2. QED
    BY <1>2, <2>1 DEF validate_headings_contract, PassInv
<1>3. CASE MatchConstraint
  <2>1. /\ pc = "match" /\ idx <= Len(Contract) /\ idx' = idx + 1
        /\ UNCHANGED <<doc, pc, heads, report>>
    BY <1>3 DEF MatchConstraint
  <2>2. CASE \E j, k \in DOMAIN heads : /\ FirstMatch(j, Contract[idx]) /\ LastMatch(k, j, Contract[idx])
                                        /\ Matched(Contract[idx], j, k)
    BY <2>1, <2>2, MatchedRecorded
  <2>3. CASE Missing(Contract[idx])
    BY <2>1, <2>3, MissingRecorded
  <2>4. QED
    BY <1>3, <2>2, <2>3 DEF MatchConstraint
<1>4. CASE validate_artifact_file
  <2>1. /\ pc = "match" /\ pc' = "idle" /\ idx > Len(Contract)
        /\ UNCHANGED <<doc, heads, idx, first, final, errors>>
    BY <1>4 DEF validate_artifact_file, match
  <2>2. errors # {} => report'.status # "PASS"
    <3> SUFFICES ASSUME errors # {} PROVE report'.status # "PASS"
      OBVIOUS
    <3>1. {e[1] : e \in errors} \cap {e[1] : e \in errors} # {}
      OBVIOUS
    <3>2. report' = Report("validate", {e[1] : e \in errors}, {e[1] : e \in errors})
      BY <1>4 DEF validate_artifact_file
    <3>3. QED
      BY <3>1, <3>2 DEF Report
  <2>3. \A c \in Constraints : c < idx => RoundRecorded(c)'
    BY <2>1 DEF PassInv, RoundRecorded
  <2>4. QED
    BY <2>1, <2>2, <2>3 DEF PassInv
<1>5. CASE cmd_toc
  BY <1>1, <1>5 DEF cmd_toc, Report
<1>6. CASE cmd_validate_toc
  BY <1>1, <1>6 DEF cmd_validate_toc, Report
<1>7. ASSUME NEW form \in {"markers", "heading"}, RegenerateToc(form) PROVE PassInv'
  BY <1>1, <1>7 DEF RegenerateToc, NoReport
<1>8. CASE FollowPrompt
  BY <1>1, <1>8 DEF FollowPrompt, NoReport
<1>9. CASE Edit
  BY <1>1, <1>9 DEF Edit, NoReport
<1>10. CASE UNCHANGED vars
  BY <1>10 DEF vars, match, PassInv, RoundRecorded
<1>11. QED
  BY <1>2, <1>3, <1>4, <1>5, <1>6, <1>7, <1>8, <1>9, <1>10 DEF Next

(* A report that passes is about a file with every required heading, and   *)
(* every heading a constraint took is on its level and numbered as it asks *)
(* (constraints.py:2084-2134, the early return at :342), whatever the      *)
(* contract and the file.                                                  *)
THEOREM PassingMeansContract == Spec => []PassMeansContract
<1>1. Init => MatchInv /\ PassInv
  <2>1. Init => PassInv
    BY DEF Init, PassInv, NoReport
  <2>2. QED
    BY <2>1, InitMatchInv
<1>2. MatchInv /\ PassInv /\ [Next]_vars => MatchInv' /\ PassInv'
  BY NextKeepsMatchInv, NextKeepsPassInv
<1>3. MatchInv /\ PassInv => PassMeansContract
  <2> SUFFICES ASSUME MatchInv, PassInv, report.by = "validate", report.status = "PASS",
                      NEW c \in Constraints
               PROVE  /\ Contract[c].required => first[c] # 0
                      /\ first[c] # 0 => \A k \in DOMAIN heads : first[c] <= k /\ k <= final[c] =>
                            /\ doc[k].lvl = Contract[c].level
                            /\ Contract[c].numbered # "allowed" =>
                                  (doc[k].num # <<>>) = (Contract[c].numbered = "yes")
    BY DEF PassMeansContract
  <2>1. RoundRecorded(c) /\ errors = {} /\ heads = _scan_headings(doc)
    BY ContractTyped DEF PassInv, MatchInv, MatchTypes, Constraints
  <2>2. \A k \in DOMAIN heads : heads[k].level = doc[k].lvl /\ heads[k].num = doc[k].num
    BY <2>1, ScanKeepsLine
  <2>3. QED
    BY <2>1, <2>2 DEF RoundRecorded
<1>4. QED
  BY <1>1, <1>2, <1>3, PTL DEF Spec

-----------------------------------------------------------------------------
(* Least and greatest places, and the elements of a sequence at some of    *)
(* its places.                                                             *)

\* Min names the least element of a set of numbers that has one (used by every
\* scan of validate that takes the first of several lines).
LEMMA MinIsLeast ==
  ASSUME NEW S, S \subseteq Nat, S # {}
  PROVE  Min(S) \in S /\ \A y \in S : Min(S) <= y
<1> DEFINE R == OpToRel(<, Nat)
<1>1. PICK x \in S : \A y \in S : ~(<<y, x>> \in R)
  BY WFMin, NatLessThanWellFounded
<1>2. \A y \in S : x <= y
  <2> SUFFICES ASSUME NEW y \in S, ~(x <= y) PROVE FALSE
    OBVIOUS
  <2>1. x \in Nat /\ y \in Nat /\ y < x
    OBVIOUS
  <2>2. <<y, x>> \in R
    BY <2>1 DEF OpToRel
  <2> QED BY <1>1, <2>2
<1> QED BY <1>2 DEF Min

\* Max names the greatest of a bounded set of numbers (the last heading, the last
\* definition above a line).
LEMMA MaxIsGreatest ==
  ASSUME NEW S, NEW b \in Nat, S \subseteq 0..b, S # {}
  PROVE  Max(S) \in S /\ \A y \in S : y <= Max(S)
<1> DEFINE D == {b - x : x \in S}
<1>1. D \subseteq Nat /\ D # {}
  <2>1. \A x \in S : b - x \in Nat
    OBVIOUS
  <2> QED BY <2>1
<1>2. PICK x \in S : Min(D) = b - x
  BY <1>1, MinIsLeast
<1>3. \A y \in S : y <= x
  <2> SUFFICES ASSUME NEW y \in S PROVE y <= x
    OBVIOUS
  <2>1. b - y \in D
    OBVIOUS
  <2>2. b - x <= b - y
    BY <1>1, <1>2, <2>1, MinIsLeast
  <2>3. x \in Nat /\ y \in Nat
    OBVIOUS
  <2> QED BY <2>2, <2>3
<1>4. \A y \in S : x >= y
  BY <1>3
<1> QED BY <1>3, <1>4 DEF Max

\* The greatest element is the only one that is.
LEMMA MaxIs ==
  ASSUME NEW S, S \subseteq Nat, NEW x \in S, \A y \in S : y <= x
  PROVE  Max(S) = x
<1>1. \A y \in S : x >= y
  OBVIOUS
<1>2. Max(S) \in S /\ \A y \in S : Max(S) >= y
  BY <1>1 DEF Max
<1>3. Max(S) \in Nat /\ x \in Nat
  BY <1>2
<1>4. Max(S) >= x /\ x >= Max(S)
  BY <1>1, <1>2
<1> QED BY <1>3, <1>4

\* Between no element below and all of them, every count of elements is reached.
LEMMA CountsReached ==
  ASSUME NEW n \in Nat, NEW K, K \subseteq 1..n, NEW k \in 1..Cardinality(K)
  PROVE  \E p \in K : Cardinality({m \in K : m <= p}) = k
<1> DEFINE Upto1(p) == {m \in K : m <= p}
           Reach == {p \in 0..n : Cardinality(Upto1(p)) >= k}
<1>a. \A m \in K : m \in Nat /\ 1 <= m /\ m <= n
  OBVIOUS
<1>b. \A p, m : m \in Upto1(p) <=> m \in K /\ m <= p
  OBVIOUS
<1>c. \A p : p \in Reach <=> p \in 0..n /\ Cardinality(Upto1(p)) >= k
  OBVIOUS
<1>1. IsFiniteSet(K) /\ Cardinality(K) \in Nat
  <2>1. IsFiniteSet(1..n)
    BY FS_Interval
  <2>2. IsFiniteSet(K)
    BY <2>1, FS_Subset
  <2> QED BY <2>2, FS_CardinalityType
<1>2. \A p : IsFiniteSet(Upto1(p)) /\ Cardinality(Upto1(p)) \in Nat
  <2> TAKE p
  <2>1. Upto1(p) \in SUBSET K
    OBVIOUS
  <2>2. IsFiniteSet(Upto1(p))
    BY <1>1, <2>1, FS_Subset
  <2> QED BY <2>2, FS_CardinalityType
<1>3. n \in Reach
  <2>1. Upto1(n) = K
    BY <1>a, Zenon
  <2>2. Cardinality(K) >= k
    BY <1>1
  <2>3. n \in 0..n
    OBVIOUS
  <2> HIDE DEF Upto1, Reach
  <2> QED BY <1>c, <2>1, <2>2, <2>3
<1>4. PICK p : p = Min(Reach)
  OBVIOUS
<1>5. p \in Reach /\ \A q \in Reach : p <= q
  <2>1. Reach \subseteq Nat /\ Reach # {}
    BY <1>3
  <2> HIDE DEF Reach
  <2> QED BY <1>4, <2>1, MinIsLeast
<1>6. p # 0
  <2> SUFFICES ASSUME p = 0 PROVE FALSE
    OBVIOUS
  <2>1. Upto1(0) = {}
    <3>1. \A m \in K : ~(m <= 0)
      BY <1>a
    <3> HIDE DEF Upto1
    <3> QED BY <1>b, <3>1
  <2>2. Cardinality(Upto1(0)) = 0
    BY <2>1, FS_EmptySet
  <2> QED BY <1>5, <2>2
<1>7. p - 1 \in 0..n /\ p - 1 \notin Reach
  <2>1. p \in 0..n
    BY <1>5
  <2>2. p - 1 \in 0..n /\ ~(p <= p - 1)
    BY <1>6, <2>1
  <2> HIDE DEF Reach
  <2> QED BY <1>5, <2>2
<1>8. Cardinality(Upto1(p - 1)) < k
  <2>1. ~(Cardinality(Upto1(p - 1)) >= k)
    BY <1>7
  <2> HIDE DEF Upto1
  <2> QED BY <1>1, <1>2, <2>1
<1>9. Cardinality(Upto1(p)) >= k
  BY <1>5
<1>10. p \in K
  <2> SUFFICES ASSUME p \notin K PROVE FALSE
    OBVIOUS
  <2>1. \A m \in K : m <= p <=> m <= p - 1
    BY <1>5
  <2>2. Upto1(p) = Upto1(p - 1)
    BY <2>1
  <2>3. Cardinality(Upto1(p - 1)) >= k
    BY <1>9, <2>2
  <2> QED BY <1>7, <2>3
<1>11. Upto1(p) = Upto1(p - 1) \cup {p} /\ p \notin Upto1(p - 1)
  <2>1. p \in Nat
    BY <1>5
  <2>2. \A m \in K : (m <= p <=> m <= p - 1 \/ m = p)
    BY <1>a, <2>1
  <2>3. p <= p /\ ~(p <= p - 1)
    BY <2>1
  <2> HIDE DEF Upto1
  <2> QED BY <1>b, <1>10, <2>2, <2>3
<1>12. Cardinality(Upto1(p)) = Cardinality(Upto1(p - 1)) + 1
  <2> HIDE DEF Upto1
  <2> QED BY <1>2, <1>11, FS_AddElement
<1>13. Cardinality(Upto1(p)) = k
  <2>1. Cardinality(Upto1(p - 1)) \in Nat /\ k \in Nat
    BY <1>1, <1>2
  <2> HIDE DEF Upto1
  <2> QED BY <1>8, <1>9, <1>12, <2>1
<1> QED BY <1>10, <1>13

\* What is left of a sequence (a line or a marker removed, FixCode and Without) is a
\* sequence of its elements.
LEMMA KeptType ==
  ASSUME NEW T, NEW s \in Seq(T), NEW K, K \subseteq DOMAIN s
  PROVE  Kept(s, K) \in Seq(T)
<1> DEFINE At1(k) == CHOOSE n \in K : Cardinality({m \in K : m <= n}) = k
<1>1. K \subseteq 1..Len(s) /\ Len(s) \in Nat
  OBVIOUS
<1>2. Cardinality(K) \in Nat
  <2>1. IsFiniteSet(1..Len(s))
    BY <1>1, FS_Interval
  <2>2. IsFiniteSet(K)
    BY <1>1, <2>1, FS_Subset
  <2> QED BY <2>2, FS_CardinalityType
<1>3. \A k \in 1..Cardinality(K) : At1(k) \in K
  <2> TAKE k \in 1..Cardinality(K)
  <2>1. \E p \in K : Cardinality({m \in K : m <= p}) = k
    BY <1>1, CountsReached
  <2> QED BY <2>1
<1>4. \A k \in 1..Cardinality(K) : s[At1(k)] \in T
  <2> HIDE DEF At1
  <2> QED BY <1>3
<1>5. Kept(s, K) = [k \in 1..Cardinality(K) |-> s[At1(k)]]
  BY DEF Kept
<1> HIDE DEF At1
<1>6. Kept(s, K) \in [1..Cardinality(K) -> T]
  BY <1>4, <1>5
<1> QED BY <1>2, <1>6

-----------------------------------------------------------------------------
(* What a verdict without issues says.                                     *)

\* An artifact is a sequence of lines.
LEMMA ArtifactLines ==
  ASSUME TraceTypeOK, NEW d \in Docs
  PROVE  /\ Len(text[d]) \in Nat /\ DOMAIN text[d] = 1..Len(text[d])
         /\ \A n \in DOMAIN text[d] :
               /\ text[d][n] \in TextLine
               /\ text[d][n].t \in {"head", "def", "ref", "step"}
               /\ text[d][n].lvl \in Nat
               /\ text[d][n].task \in BOOLEAN /\ text[d][n].done \in BOOLEAN
               /\ text[d][n].t = "def" => text[d][n].id # <<>>
               /\ text[d][n].task => text[d][n].t \in {"def", "ref"}
<1>1. text[d] \in Seq(TextLine)
  BY DEF TraceTypeOK
<1>2. Len(text[d]) \in Nat /\ DOMAIN text[d] = 1..Len(text[d]) /\ \A n \in DOMAIN text[d] : text[d][n] \in TextLine
  BY <1>1
<1> QED BY <1>2 DEF TextLine

\* A scanned row is a line of an artifact.
LEMMA RowIsLine ==
  ASSUME NEW ty
  PROVE  /\ \A r \in scan_cpt_ids(ty) : /\ r = <<r[1], r[2]>> /\ r[1] \in Docs
                                        /\ r[2] \in At(r[1], ty) /\ Row(r).t = ty
         /\ \A d \in Docs : \A n \in At(d, ty) : <<d, n>> \in scan_cpt_ids(ty)
BY DEF scan_cpt_ids, Row, At

\* When the whole project passes, no artifact has an issue of its own, no issue between
\* artifacts is filed under one, and the code has none (the early return of
\* validate.py:285 was not taken).
LEMMA NothingFound ==
  ASSUME NEW mode \in {"all", "docs"}, Result(mode) = {}
  PROVE  /\ \A d \in Docs : ArtifactErrors(d) = {}
         /\ \A e \in cross_validate_artifacts(mode) : e[2] \notin Docs
         /\ mode = "all" => CodeErrors = {}
<1>1. Validated(mode) = Docs
  BY TraceAssumption DEF Validated
<1>2. Structure(mode) = {}
  BY DEF Result
<1>3. IssuesOf(mode, cross_validate_artifacts(mode)) = {} /\ (mode = "all" => CodeErrors = {})
  BY <1>2 DEF Result
<1>4. \A d \in Docs : ArtifactErrors(d) \subseteq Structure(mode)
  BY <1>1 DEF Structure
<1> QED BY <1>1, <1>2, <1>3, <1>4 DEF IssuesOf

\* A passing verdict about the whole project is one without issues.
LEMMA PassedMeansClean ==
  ASSUME VerdictTrue, NEW mode, Passed(mode)
  PROVE  Result(mode) = {}
BY DEF VerdictTrue, Passed

\* References to an ID of a registered system resolve.
LEMMA CleanReferencesResolve ==
  ASSUME VerdictTrue
  PROVE  ReferencesResolve
<1> SUFFICES ASSUME NEW mode \in {"all", "docs"}, Passed(mode),
                    NEW r \in ReferenceRows, NEW s \in Systems, IsStrictPrefix(s, Row(r).id)
             PROVE  \E q \in DefRows : Row(q).id = Row(r).id
  BY DEF ReferencesResolve
<1>1. \A e \in cross_validate_artifacts(mode) : e[2] \notin Docs
  BY PassedMeansClean, NothingFound
<1>2. \A e \in UndefinedReferences : e[2] \notin Docs
  BY <1>1 DEF cross_validate_artifacts
<1>3. ~is_external_system_ref(Row(r).id)
  BY DEF is_external_system_ref
<1>4. r[1] \in Docs
  BY RowIsLine DEF ReferenceRows
<1>5. SUFFICES ASSUME Row(r).id \notin IdsOf(DefRows) PROVE FALSE
  BY DEF IdsOf
<1>6. Issue("REF_NO_DEFINITION", r[1], Row(r).id, "") \in UndefinedReferences
  BY <1>3, <1>5 DEF UndefinedReferences
<1>7. Issue("REF_NO_DEFINITION", r[1], Row(r).id, "")[2] = r[1]
  BY DEF Issue
<1> QED BY <1>2, <1>4, <1>6, <1>7

-----------------------------------------------------------------------------
(* Done rests on done.                                                     *)

\* The heading over a line that _heading_ctx_for_line finds is the innermost of the
\* sections the line is in.
LEMMA HeadingOver ==
  ASSUME TraceTypeOK, NEW d \in Docs, NEW n \in DOMAIN text[d],
         NEW h, h = _heading_ctx_for_line(d, n)
  PROVE  /\ h = Section(d, n)
         /\ h = 0 => Enclosing(d, n) = {}
         /\ h # 0 => /\ h \in Enclosing(d, n) /\ h \in At(d, "head") /\ h <= n /\ h \in Nat
                     /\ \A k \in At(d, "head") : k <= n => k <= h
<1> DEFINE up == {k \in At(d, "head") : k <= n}
<1>1. Len(text[d]) \in Nat /\ DOMAIN text[d] = 1..Len(text[d])
  BY ArtifactLines
<1>2. up \subseteq 1..Len(text[d]) /\ up \subseteq 0..Len(text[d]) /\ up \subseteq Nat
  BY <1>1 DEF At
<1>3. h = IF up = {} THEN 0 ELSE Max(up)
  BY DEF _heading_ctx_for_line
<1>4. Enclosing(d, n) \subseteq up
  BY DEF Enclosing
<1>5. CASE up = {}
  BY <1>3, <1>4, <1>5 DEF Section
<1>6. CASE up # {}
  <2> HIDE DEF up
  <2>1. h \in up /\ \A k \in up : k <= h
    BY <1>1, <1>2, <1>3, <1>6, MaxIsGreatest
  <2>2. h \in Nat /\ h # 0
    <3>1. h \in 1..Len(text[d])
      BY <1>2, <2>1
    <3> QED BY <1>1, <3>1
  <2>3. \A k \in up : ~(h < k)
    BY <1>2, <2>1, <2>2
  <2>4. h \in Enclosing(d, n)
    BY <2>1, <2>3 DEF Enclosing, up
  <2>5. Max(Enclosing(d, n)) = h
    <3>1. Enclosing(d, n) \subseteq Nat
      BY <1>2, <1>4
    <3> QED BY <1>4, <2>1, <2>4, <3>1, MaxIs
  <2>6. h = Section(d, n)
    BY <2>4, <2>5 DEF Section
  <2> QED BY <2>1, <2>2, <2>4, <2>6 DEF up
<1> QED BY <1>5, <1>6

\* Every tracked item in the section of a definition is one of those its box is
\* compared with (constraints.py:381-507).
LEMMA TrackedIsNested ==
  ASSUME TraceTypeOK, NEW d \in Docs, NEW n \in At(d, "def"), NEW m \in DOMAIN text[d], n < m,
         Section(d, n) \in Enclosing(d, m), text[d][m].task,
         text[d][m].t = "def" => Section(d, m) # Section(d, n)
  PROVE  m \in Nested(d, n)
<1> DEFINE h == _heading_ctx_for_line(d, n)
           end == _scope_end_for_heading_idx(d, h)
           g == _heading_ctx_for_line(d, m)
           next == {k \in At(d, "head") : k > h /\ text[d][k].lvl <= text[d][h].lvl}
<1>1. /\ Len(text[d]) \in Nat /\ DOMAIN text[d] = 1..Len(text[d])
      /\ \A k \in DOMAIN text[d] : text[d][k].lvl \in Nat
      /\ text[d][m].t \in {"def", "ref"}
  BY ArtifactLines
<1>2. n \in DOMAIN text[d] /\ n \in Nat /\ m \in Nat
  BY <1>1 DEF At
<1>3. h = Section(d, n) /\ g = Section(d, m)
  BY <1>2, HeadingOver
<1>4. h \in Enclosing(d, m) /\ h \in At(d, "head") /\ h <= m /\ h \in Nat /\ h # 0
  BY <1>1, <1>3 DEF Enclosing, At
<1>5. \A k \in At(d, "head") : h < k /\ k <= m => text[d][k].lvl > text[d][h].lvl
  BY <1>4 DEF Enclosing
<1>6. text[d][h].lvl \in Nat /\ \A k \in At(d, "head") : k \in Nat /\ k <= Len(text[d]) /\ text[d][k].lvl \in Nat
  BY <1>1, <1>4 DEF At
<1>7. m <= end
  <2>1. CASE next = {}
    <3>1. end = Len(text[d])
      BY <2>1 DEF _scope_end_for_heading_idx
    <3> QED BY <1>1, <3>1
  <2>2. CASE next # {}
    <3>1. end = Min(next) - 1
      BY <2>2 DEF _scope_end_for_heading_idx
    <3>2. next \subseteq Nat
      BY <1>6
    <3>3. Min(next) \in next
      <4> HIDE DEF next
      <4> QED BY <2>2, <3>2, MinIsLeast
    <3>4. ~(Min(next) <= m)
      <4>1. Min(next) \in At(d, "head") /\ Min(next) > h /\ text[d][Min(next)].lvl <= text[d][h].lvl
        BY <3>3
      <4> HIDE DEF next, h
      <4>2. Min(next) \in Nat /\ text[d][Min(next)].lvl \in Nat
        BY <1>6, <4>1
      <4>3. ~(text[d][Min(next)].lvl > text[d][h].lvl)
        BY <1>6, <4>1, <4>2
      <4>4. h < Min(next)
        BY <1>4, <4>1, <4>2
      <4> QED BY <1>5, <4>1, <4>3, <4>4
    <3> HIDE DEF next, end
    <3>5. Min(next) \in Nat
      BY <3>2, <3>3
    <3> QED BY <1>2, <3>1, <3>4, <3>5
  <2> QED BY <2>1, <2>2
<1>8. text[d][m].t = "def" => text[d][g].lvl > text[d][h].lvl
  <2> SUFFICES ASSUME text[d][m].t = "def" PROVE text[d][g].lvl > text[d][h].lvl
    OBVIOUS
  <2>1. g # h
    BY <1>3
  <2>2. g # 0
    BY <1>4, HeadingOver
  <2>3. g \in At(d, "head") /\ g <= m /\ g \in Nat /\ h <= g
    BY <1>4, <2>2, HeadingOver
  <2> HIDE DEF g, h
  <2>4. h < g
    BY <1>4, <2>1, <2>3
  <2> QED BY <1>5, <2>3, <2>4
<1>9. m \in (n + 1)..Len(text[d])
  BY <1>1, <1>2
<1> HIDE DEF end, h
<1> QED BY <1>1, <1>4, <1>7, <1>8, <1>9 DEF Nested, end, h

\* A step behind a definition, with no other in between, is bound to it, unless the
\* definition has a priority and no checkbox.
LEMMA StepBound ==
  ASSUME TraceTypeOK, NEW d \in Docs, NEW n \in At(d, "def"), NEW m \in At(d, "step"), n < m,
         ~\E k \in At(d, "def") : n < k /\ k < m,
         text[d][n].task \/ ~text[d][n].prio
  PROVE  ParentOfStep(d, m) = text[d][n].id
<1> DEFINE above == {k \in At(d, "def") : k < m /\ (text[d][k].task \/ ~text[d][k].prio)}
<1>1. At(d, "def") \subseteq Nat /\ above \subseteq Nat
  BY ArtifactLines DEF At
<1>2. n \in above
  OBVIOUS
<1>3. \A k \in above : k <= n
  <2> SUFFICES ASSUME NEW k \in above, ~(k <= n) PROVE FALSE
    OBVIOUS
  <2>1. k \in Nat /\ n \in Nat
    BY <1>1, <1>2
  <2>2. n < k /\ k < m /\ k \in At(d, "def")
    BY <2>1
  <2> QED BY <2>2
<1> HIDE DEF above
<1>4. Max(above) = n
  BY <1>1, <1>2, <1>3, MaxIs
<1>5. above # {}
  BY <1>2
<1> QED BY <1>4, <1>5 DEF ParentOfStep, above

\* In a project without issues every item a ticked one rests on is ticked.
LEMMA CleanDoneRestsOnDone ==
  ASSUME TraceTypeOK, VerdictTrue, OneDefinitionPerId
  PROVE  DoneRestsOnDone
<1> SUFFICES ASSUME NEW mode \in {"all", "docs"}, Passed(mode),
                    NEW r \in DefRows \cup ReferenceRows,
                    Row(r).task, Row(r).done, KindOf[r[1]] \in Constrained,
                    NEW q \in RestsOn(r)
             PROVE  Row(q).done
  BY DEF DoneRestsOnDone
<1> DEFINE d == r[1]
           n == r[2]
<1>1. /\ \A a \in Docs : ArtifactErrors(a) = {}
      /\ \A e \in cross_validate_artifacts(mode) : e[2] \notin Docs
  BY PassedMeansClean, NothingFound
<1>2. CASE r \in ReferenceRows
  <2>1. d \in Docs /\ Row(r).t = "ref"
    BY <1>2, RowIsLine DEF ReferenceRows
  <2>2. q \in TaskDefs(Row(r).id)
    BY <2>1 DEF RestsOn
  <2> SUFFICES ASSUME ~Row(q).done PROVE FALSE
    OBVIOUS
  <2>3. Issue("REF_DONE_DEF_NOT_DONE", d, Row(r).id, "") \in DoneConsistency
    BY <1>2, <2>2 DEF DoneConsistency
  <2>4. Issue("REF_DONE_DEF_NOT_DONE", d, Row(r).id, "")[2] = d
    BY DEF Issue
  <2> QED BY <1>1, <2>1, <2>3, <2>4 DEF cross_validate_artifacts
<1>3. CASE r \in DefRows
  <2>1. d \in Docs /\ Row(r).t = "def" /\ n \in At(d, "def") /\ Row(r) = text[d][n]
    BY <1>3, RowIsLine DEF DefRows, Row
  <2>2. PICK m \in DOMAIN text[d] :
           /\ q = <<d, m>> /\ m > n
           /\ \/ /\ Section(d, n) \in Enclosing(d, m)
                 /\ text[d][m].task
                 /\ text[d][m].t = "def" => Section(d, m) # Section(d, n)
              \/ /\ text[d][m].t = "step"
                 /\ ~\E k \in At(d, "def") : n < k /\ k < m
    BY <2>1 DEF RestsOn
  <2>3. Row(q) = text[d][m]
    BY <2>2 DEF Row
  <2>4. m \in Nat /\ n \in Nat /\ n < m
    BY <2>1, <2>2, ArtifactLines DEF At
  <2>5. CdslErrors(d) = {} /\ ParentErrors(d) = {}
    <3>1. KindOf[d] \in Constrained /\ ArtifactErrors(d) = {}
      BY <1>1, <2>1
    <3> QED BY <3>1 DEF ArtifactErrors
  <2> HIDE DEF d, n
  <2> SUFFICES ASSUME ~text[d][m].done PROVE FALSE
    BY <2>3
  <2>6. CASE /\ Section(d, n) \in Enclosing(d, m)
             /\ text[d][m].task
             /\ text[d][m].t = "def" => Section(d, m) # Section(d, n)
    <3>1. m \in Nested(d, n)
      BY <2>1, <2>2, <2>4, <2>6, TrackedIsNested
    <3>2. Issue("PARENT_CHECKED_NESTED_UNCHECKED", d, text[d][n].id, "") \in ParentErrors(d)
      BY <2>1, <3>1 DEF ParentErrors
    <3> QED BY <2>5, <3>2
  <2>7. CASE /\ text[d][m].t = "step"
             /\ ~\E k \in At(d, "def") : n < k /\ k < m
    <3>1. m \in At(d, "step")
      BY <2>7 DEF At
    <3>2. ParentOfStep(d, m) = text[d][n].id
      BY <2>1, <2>4, <2>7, <3>1, StepBound
    <3> DEFINE s == <<ParentOfStep(d, m), text[d][m].inst, text[d][m].done>>
    <3>3. s \in scan_cdsl_instructions(d)
      BY <3>1 DEF scan_cdsl_instructions
    <3>4. FirstDef(d, s[1]) = n
      <4> DEFINE same == {k \in At(d, "def") : text[d][k].id = text[d][n].id}
      <4>1. same = {n}
        BY <2>1 DEF OneDefinitionPerId
      <4>2. n \in same /\ \A k \in same : n <= k
        BY <2>4, <4>1
      <4>3. Min(same) = n
        BY <4>1, <4>2 DEF Min
      <4> QED BY <3>2, <4>3 DEF FirstDef
    <3>5. s[1] # <<>>
      BY <2>1, <3>2, ArtifactLines DEF At
    <3>6. ~s[3] /\ text[d][FirstDef(d, s[1])].task /\ text[d][FirstDef(d, s[1])].done
      BY <2>1, <3>4
    <3> HIDE DEF s
    <3>7. Issue("CDSL_STEP_UNCHECKED", d, s[1], s[2]) \in CdslErrors(d)
      BY <3>3, <3>5, <3>6 DEF CdslErrors
    <3> QED BY <2>5, <3>7
  <2> QED BY <2>2, <2>6, <2>7
<1> QED BY <1>2, <1>3

-----------------------------------------------------------------------------
(* The code side.                                                          *)

\* A code file is a sequence of markers and other lines.
LEMMA FileMarks ==
  ASSUME TraceTypeOK, NEW f \in Files
  PROVE  /\ Len(code[f]) \in Nat /\ DOMAIN code[f] = 1..Len(code[f])
         /\ \A n \in DOMAIN code[f] : code[f][n] = [t |-> code[f][n].t, id |-> code[f][n].id, inst |-> code[f][n].inst]
<1>1. code[f] \in Seq(Mark)
  BY DEF TraceTypeOK
<1>2. \A n \in DOMAIN code[f] : code[f][n] \in Mark
  BY <1>1
<1> QED BY <1>1, <1>2 DEF Mark

\* A file whose markers parse has, for every block it names, a closed block of its own
\* that is not empty (_parse_markers, codebase.py:128-243).
LEMMA BlockIsClosed ==
  ASSUME TraceTypeOK, NEW f \in Files, _parse_markers(f) = {}, NEW i, NEW inst, <<i, inst>> \in Blocks(f)
  PROVE  ClosedBlock(f, i, inst)
<1> DEFINE B == <<i, inst>>
           Begins == MarksAt(f, "begin", i, inst)
           Ends == MarksAt(f, "end", i, inst)
<1>1. /\ Len(code[f]) \in Nat /\ DOMAIN code[f] = 1..Len(code[f])
      /\ \A n \in DOMAIN code[f] : code[f][n] = [t |-> code[f][n].t, id |-> code[f][n].id, inst |-> code[f][n].inst]
  BY FileMarks
<1>2. /\ Begins \subseteq DOMAIN code[f] /\ Ends \subseteq DOMAIN code[f]
      /\ \A n \in Begins : code[f][n] = [t |-> "begin", id |-> i, inst |-> inst]
      /\ \A n \in Ends : code[f][n] = [t |-> "end", id |-> i, inst |-> inst]
  BY DEF MarksAt
<1>3. B[1] = i /\ B[2] = inst
  OBVIOUS
<1>4. Begins # {} \/ Ends # {}
  <2>1. PICK m \in Range(code[f]) : m.t \in {"begin", "end"} /\ m.id = i /\ m.inst = inst
    BY DEF Blocks
  <2>2. PICK n \in DOMAIN code[f] : code[f][n] = m
    BY DEF Range
  <2>3. m = [t |-> m.t, id |-> i, inst |-> inst]
    BY <1>1, <2>1, <2>2
  <2> QED BY <2>1, <2>2, <2>3 DEF MarksAt
<1> DEFINE Codes == (IF \E n \in MarksAt(f, "begin", B[1], B[2]) : IsOpen(f, B, n) THEN {"MARKER_DUP_BEGIN"} ELSE {})
        \cup (IF \E n \in MarksAt(f, "end", B[1], B[2]) : ~IsOpen(f, B, n) THEN {"MARKER_END_NO_BEGIN"} ELSE {})
        \cup (IF \E n \in MarksAt(f, "end", B[1], B[2]) : IsOpen(f, B, n) /\ n = StartOf(f, B, n) + 1
              THEN {"MARKER_EMPTY_BLOCK"} ELSE {})
        \cup (IF IsOpen(f, B, Len(code[f]) + 1) THEN {"MARKER_BEGIN_NO_END"} ELSE {})
<1>5. Codes = {}
  <2> SUFFICES ASSUME NEW c \in Codes PROVE FALSE
    OBVIOUS
  <2>1. Issue(c, f, B[1], B[2]) \in _parse_markers(f)
    <3> HIDE DEF B
    <3> QED BY DEF _parse_markers, B
  <2> QED BY <2>1
<1>6. /\ \A n \in Begins : ~IsOpen(f, B, n)
      /\ \A n \in Ends : IsOpen(f, B, n) /\ n # StartOf(f, B, n) + 1
      /\ ~IsOpen(f, B, Len(code[f]) + 1)
  <2> HIDE DEF B
  <2> QED BY <1>3, <1>5
<1> HIDE DEF Begins, Ends
<1>7. Ends # {}
  <2> SUFFICES ASSUME Ends = {} PROVE FALSE
    OBVIOUS
  <2>1. PICK m \in Begins : TRUE
    BY <1>4
  <2>2. m < Len(code[f]) + 1
    BY <1>1, <1>2
  <2>3. IsOpen(f, B, Len(code[f]) + 1)
    BY <2>1, <2>2, <1>3 DEF IsOpen, Begins, Ends
  <2> QED BY <1>6, <2>3
<1>8. PICK e \in Ends : TRUE
  BY <1>7
<1> DEFINE opens == {m \in Begins : m < e /\ \A k \in Ends : ~(m < k /\ k < e)}
<1>9. opens # {} /\ StartOf(f, B, e) = Min(opens)
  BY <1>3, <1>6, <1>8 DEF IsOpen, StartOf, Begins, Ends
<1>10. opens \subseteq Nat
  BY <1>1, <1>2
<1>11. Min(opens) \in opens
  <2> HIDE DEF opens
  <2> QED BY <1>9, <1>10, MinIsLeast
<1>12. PICK b : b = Min(opens)
  OBVIOUS
<1>13. b \in Begins /\ b < e /\ e # b + 1
  BY <1>6, <1>8, <1>9, <1>11, <1>12
<1>14. b \in 1..Len(code[f]) /\ e \in 1..Len(code[f])
  BY <1>1, <1>2, <1>8, <1>13
<1>15. b + 1 < e
  BY <1>13, <1>14
<1>16. \A k \in Ends : ~(b < k /\ k < e)
  BY <1>9, <1>11, <1>12
<1>17. \A n \in Begins : ~(b < n /\ n < e)
  <2> SUFFICES ASSUME NEW n \in Begins, b < n, n < e PROVE FALSE
    OBVIOUS
  <2>1. \A k \in Ends : ~(b < k /\ k < n)
    BY <1>1, <1>2, <1>14, <1>16
  <2>2. IsOpen(f, B, n)
    BY <1>3, <1>13, <2>1 DEF IsOpen, Begins, Ends
  <2> QED BY <1>6, <2>2
<1>18. \A n \in DOMAIN code[f] : b < n /\ n < e =>
          code[f][n] \notin {[t |-> "begin", id |-> i, inst |-> inst], [t |-> "end", id |-> i, inst |-> inst]}
  BY <1>16, <1>17 DEF Begins, Ends, MarksAt
<1> QED BY <1>1, <1>2, <1>8, <1>13, <1>14, <1>15, <1>18 DEF ClosedBlock

\* What the code of a project without issues holds, once it is scanned.
LEMMA CleanCodeIsTraced ==
  ASSUME TraceTypeOK, VerdictTrue, DefsReadable
  PROVE  CodeIsTraced
<1> SUFFICES ASSUME Passed("all"), CodeTrace = "FULL", Files # {} PROVE CodeIsTraced
  BY DEF CodeIsTraced
<1>1. CodeErrors = {}
  BY PassedMeansClean, NothingFound
<1>2. \A f \in Files : Loads(f) /\ _parse_markers(f) = {}
  BY <1>1 DEF CodeErrors, Loads
<1>3. parsed_code_files_full = Files
  BY <1>2 DEF parsed_code_files_full
<1>4. cross_validate_code = {}
  BY <1>1, <1>3 DEF CodeErrors
<1> DEFINE fs == parsed_code_files_full
           found == UNION {list_ids(f) : f \in fs}
           InCode(i) == {b[2] : b \in {q \in UNION {Blocks(f) : f \in fs} : q[1] = i}}
<1>5. /\ found \subseteq IdsOf(DefRows)
      /\ to_code_ids \subseteq found
      /\ \A i \in found \cap to_code_ids_task_unchecked : ~(Instances(i, BOOLEAN) \subseteq InCode(i))
      /\ \A i \in IdsOf(DefRows) : Instances(i, {TRUE}) \subseteq InCode(i)
  <2> DEFINE stepped == {i \in IdsOf(DefRows) : Instances(i, {TRUE}) # {}}
             At1(c, i, aux) == Issue(c, CHOOSE f \in fs : i \in list_ids(f), i, aux)
             orphans == {At1("CODE_ORPHAN_REF", i, "") : i \in found \ IdsOf(DefRows)}
             unchecked == {At1("CODE_TASK_UNCHECKED", i, "") : i \in
                {q \in found \cap to_code_ids_task_unchecked : Instances(q, BOOLEAN) \subseteq InCode(q)}}
             unmarked == {Issue("CODE_NO_MARKER", NotADoc, i, "") : i \in to_code_ids \ found}
             missing(i) == {Issue("CODE_INST_MISSING", NotADoc, i, s) : s \in Instances(i, {TRUE}) \ InCode(i)}
             strange(i) == {At1("CODE_INST_ORPHAN", i, s) : s \in InCode(i) \ Instances(i, {TRUE})}
  <2>1. cross_validate_code = orphans \cup unchecked \cup unmarked \cup UNION {missing(i) \cup strange(i) : i \in stepped}
    BY DEF cross_validate_code
  <2> HIDE DEF strange
  <2>2. orphans = {} /\ unchecked = {} /\ unmarked = {} /\ \A i \in stepped : missing(i) = {}
    <3> HIDE DEF orphans, unchecked, unmarked, missing, stepped
    <3> QED BY <1>4, <2>1
  <2> HIDE DEF found, InCode, At1
  <2>3. found \ IdsOf(DefRows) = {}
    <3> SUFFICES ASSUME NEW i \in found \ IdsOf(DefRows) PROVE FALSE
      OBVIOUS
    <3> QED BY <2>2
  <2>4. to_code_ids \ found = {}
    BY <2>2
  <2>5. \A i \in found \cap to_code_ids_task_unchecked : ~(Instances(i, BOOLEAN) \subseteq InCode(i))
    BY <2>2
  <2>6. \A i \in stepped : Instances(i, {TRUE}) \ InCode(i) = {}
    BY <2>2
  <2> QED BY <2>3, <2>4, <2>5, <2>6
<1>6. \A f \in Files : \A m \in Range(code[f]) : m.t # "code" => m.id \in found
  BY <1>3 DEF list_ids
<1>7. \A i : i \in found => \E f \in Files : \E m \in Range(code[f]) : m.t # "code" /\ m.id = i
  BY <1>3 DEF list_ids
<1>8. \A i \in IdsOf(DefRows) : \E q \in DefRows : Row(q).id = i
  BY DEF IdsOf
<1>9. \A r \in DefRows : ForCode(r) /\ (Row(r).task => Row(r).done) => Row(r).id \in to_code_ids
  BY DEF to_code_ids
<1>10. \A r \in DefRows : r[1] \in Docs /\ r[2] \in At(r[1], "def") /\ Row(r) = text[r[1]][r[2]]
  BY RowIsLine DEF DefRows, Row
<1>11. \A d \in Docs : TraceOf[d] = "FULL"
  BY TraceAssumption DEF CodeTrace
<1>12. \A i, s : s \in InCode(i) <=> \E f \in Files : <<i, s>> \in Blocks(f)
  <2>1. \A f : \A b \in Blocks(f) : b = <<b[1], b[2]>>
    BY DEF Blocks
  <2> QED BY <1>3, <2>1
<1>13. \A i, wanted, s : s \in Instances(i, wanted) <=>
          \E d \in Docs : \E n \in At(d, "step") :
             ParentOfStep(d, n) = i /\ text[d][n].inst = s /\ text[d][n].done \in wanted
  <2> SUFFICES ASSUME NEW i, NEW wanted, NEW s
               PROVE  s \in Instances(i, wanted) <=>
                        \E d \in Docs : \E n \in At(d, "step") :
                           ParentOfStep(d, n) = i /\ text[d][n].inst = s /\ text[d][n].done \in wanted
    OBVIOUS
  <2> DEFINE Of(d) == {q[2] : q \in {p \in scan_cdsl_instructions(d) : p[1] = i /\ p[3] \in wanted}}
  <2>1. \A d : s \in Of(d) <=> \E n \in At(d, "step") :
                     ParentOfStep(d, n) = i /\ text[d][n].inst = s /\ text[d][n].done \in wanted
    <3> TAKE d
    <3> DEFINE S == scan_cdsl_instructions(d)
               Step1(n) == <<ParentOfStep(d, n), text[d][n].inst, text[d][n].done>>
    <3>1. S = {Step1(n) : n \in At(d, "step")}
      BY DEF scan_cdsl_instructions
    <3>2. \A n : Step1(n)[1] = ParentOfStep(d, n) /\ Step1(n)[2] = text[d][n].inst /\ Step1(n)[3] = text[d][n].done
      OBVIOUS
    <3> HIDE DEF Step1, S
    <3>3. s \in Of(d) <=> \E q \in S : q[1] = i /\ q[3] \in wanted /\ q[2] = s
      BY DEF S
    <3> QED BY <3>1, <3>2, <3>3
  <2>2. Instances(i, wanted) = UNION {Of(d) : d \in {e \in Docs : TraceOf[e] = "FULL"}}
    BY DEF Instances
  <2> HIDE DEF Of
  <2>3. s \in Instances(i, wanted) <=> \E d \in Docs : s \in Of(d)
    BY <1>11, <2>2
  <2> QED BY <2>1, <2>3
<1> HIDE DEF found, InCode
<1>14. \A f \in Files : \A m \in Range(code[f]) : m.t # "code" => \E q \in DefRows : Row(q).id = m.id
  BY <1>5, <1>6, <1>8
<1>15. \A r \in DefRows : ForCode(r) /\ (Row(r).task => Row(r).done) =>
          \E f \in Files : \E m \in Range(code[f]) : m.t # "code" /\ m.id = Row(r).id
  BY <1>5, <1>7, <1>9
<1>16. ASSUME NEW d \in Docs, NEW n \in At(d, "step"),
              {k \in At(d, "def") : k < n} # {}, text[d][n].done
       PROVE  \E f \in Files : ClosedBlock(f, text[d][Max({k \in At(d, "def") : k < n})].id, text[d][n].inst)
  <2> DEFINE over == {k \in At(d, "def") : k < n}
             i == text[d][Max(over)].id
             s == text[d][n].inst
  <2>1. /\ Len(text[d]) \in Nat /\ DOMAIN text[d] = 1..Len(text[d])
        /\ \A k \in DOMAIN text[d] : text[d][k].done \in BOOLEAN
    BY ArtifactLines
  <2>2. over \subseteq 0..Len(text[d]) /\ over \subseteq Nat
    BY <2>1 DEF At
  <2>3. PICK m : m = Max(over)
    OBVIOUS
  <2>4. m \in over /\ \A k \in over : k <= m
    <3>1. over # {}
      BY <1>16
    <3> HIDE DEF over
    <3> QED BY <2>1, <2>2, <2>3, <3>1, MaxIsGreatest
  <2>5. ParentOfStep(d, n) = text[d][m].id
    <3>1. m \in At(d, "def") /\ m < n
      BY <2>4
    <3>2. ~\E k \in At(d, "def") : m < k /\ k < n
      <4> SUFFICES ASSUME NEW k \in At(d, "def"), m < k, k < n PROVE FALSE
        OBVIOUS
      <4>1. k \in Nat /\ m \in Nat
        BY <2>1, <2>2, <2>4 DEF At
      <4> QED BY <2>4, <4>1
    <3>3. <<d, m>> \in DefRows
      BY <3>1, RowIsLine DEF DefRows
    <3>4. text[d][m].task \/ ~text[d][m].prio
      BY <3>3 DEF DefsReadable, Row
    <3> QED BY <1>16, <3>1, <3>2, <3>4, StepBound
  <2>6. text[d][n].done \in {TRUE}
    BY <1>16, <2>1 DEF At
  <2>7. s \in Instances(i, {TRUE})
    <3> HIDE DEF over
    <3> QED BY <1>13, <2>3, <2>5, <2>6
  <2>8. i \in IdsOf(DefRows)
    <3>1. <<d, m>> \in DefRows /\ Row(<<d, m>>) = text[d][m]
      BY <2>4, RowIsLine DEF DefRows, Row
    <3> HIDE DEF over
    <3> QED BY <2>3, <3>1 DEF IdsOf
  <2>9. PICK f \in Files : <<i, s>> \in Blocks(f)
    <3> HIDE DEF i, s
    <3> QED BY <1>5, <1>12, <2>7, <2>8
  <2>10. ClosedBlock(f, i, s)
    <3> HIDE DEF i, s
    <3> QED BY <1>2, <2>9, BlockIsClosed
  <2> QED BY <2>10, Zenon
<1>17. ASSUME NEW r \in DefRows, ForCode(r), Row(r).task, \A q \in TaskDefs(Row(r).id) : ~Row(q).done,
              NEW f \in Files, Row(r).id \in list_ids(f)
       PROVE  \E d \in Docs : \E n \in At(d, "step") :
                 /\ ParentOfStep(d, n) = Row(r).id
                 /\ \A g \in Files : <<Row(r).id, text[d][n].inst>> \notin Blocks(g)
  <2>1. r \in TaskDefs(Row(r).id)
    BY <1>17 DEF TaskDefs, RowsOf
  <2>2. Row(r).id \in to_code_ids_task_unchecked
    BY <1>17, <2>1 DEF to_code_ids_task_unchecked
  <2>3. Row(r).id \in found
    BY <1>3, <1>17 DEF found
  <2>4. PICK s : s \in Instances(Row(r).id, BOOLEAN) /\ s \notin InCode(Row(r).id)
    BY <1>5, <2>2, <2>3
  <2> QED BY <1>12, <1>13, <2>4
<1>18. \A d \in Docs : \A n \in At(d, "step") :
          text[d][n].done /\ {k \in At(d, "def") : k < n} # {} =>
             \E f \in Files : ClosedBlock(f, text[d][Max({k \in At(d, "def") : k < n})].id, text[d][n].inst)
  BY <1>16, Zenon
<1>19. \A r \in DefRows :
          /\ ForCode(r) /\ Row(r).task
          /\ \A q \in TaskDefs(Row(r).id) : ~Row(q).done
          /\ \E f \in Files : Row(r).id \in list_ids(f)
          => \E d \in Docs : \E n \in At(d, "step") :
                /\ ParentOfStep(d, n) = Row(r).id
                /\ \A f \in Files : <<Row(r).id, text[d][n].inst>> \notin Blocks(f)
  BY <1>17, Zenon
<1> QED BY <1>14, <1>15, <1>18, <1>19, Zenon DEF CodeIsTraced

-----------------------------------------------------------------------------
(* Artifact by artifact.                                                   *)

\* The rows an issue is about have a first one, whichever artifact is validated, and it
\* is one of the validated artifact if there is one (the order of validate.py:300-330).
LEMMA FirstRow ==
  ASSUME NEW mode, NEW rows, rows # {},
         \A r \in rows : r[1] \in Docs /\ r[2] \in Nat /\ r = <<r[1], r[2]>>
  PROVE  /\ First(mode, rows) \in rows
         /\ (\E r \in rows : r[1] = mode) => First(mode, rows)[1] = mode
<1> DEFINE P(r) == Place(mode, r)
<1>1. \A r \in rows : /\ P(r) \in Nat
                      /\ P(r) = 0 <=> r[1] = mode
                      /\ P(r) # 0 => DocOrder[P(r)] = r[1]
  <2> TAKE r \in rows
  <2>1. CASE r[1] = mode
    BY <2>1 DEF Place
  <2>2. CASE r[1] # mode
    <3>1. P(r) = CHOOSE p \in DOMAIN DocOrder : DocOrder[p] = r[1]
      BY <2>2 DEF Place
    <3>2. r[1] \in Docs
      OBVIOUS
    <3>3. \E p \in DOMAIN DocOrder : DocOrder[p] = r[1]
      BY <3>2 DEF Docs, Range
    <3>4. P(r) \in DOMAIN DocOrder /\ DocOrder[P(r)] = r[1]
      <4> HIDE DEF P
      <4> QED BY <3>1, <3>3
    <3>5. DOMAIN DocOrder = 1..Len(DocOrder) /\ Len(DocOrder) \in Nat
      BY TraceAssumption
    <3> HIDE DEF P
    <3> QED BY <2>2, <3>4, <3>5
  <2> QED BY <2>1, <2>2
<1>2. \A r, q \in rows : P(r) = P(q) => r[1] = q[1]
  <2> HIDE DEF P
  <2> QED BY <1>1
<1>3. \A r, q : Precedes(mode, r, q) <=> P(r) < P(q) \/ (r[1] = q[1] /\ r[2] < q[2])
  BY DEF Precedes
<1> HIDE DEF P
<1>4. \E x \in rows : \A q \in rows \ {x} : Precedes(mode, x, q)
  <2> DEFINE Ps == {P(r) : r \in rows}
  <2>1. Ps \subseteq Nat /\ Ps # {}
    BY <1>1
  <2>2. PICK r \in rows : P(r) = Min(Ps)
    BY <2>1, MinIsLeast
  <2>3. \A q \in rows : P(r) <= P(q)
    BY <2>1, <2>2, MinIsLeast
  <2> DEFINE Ns == {q[2] : q \in {p \in rows : p[1] = r[1]}}
  <2>4. Ns \subseteq Nat /\ Ns # {}
    OBVIOUS
  <2>5. PICK n : n = Min(Ns)
    OBVIOUS
  <2>6. n \in Ns /\ \A k \in Ns : n <= k
    <3> HIDE DEF Ns
    <3> QED BY <2>4, <2>5, MinIsLeast
  <2>7. PICK x \in rows : x[1] = r[1] /\ x[2] = n
    BY <2>6
  <2>8. P(x) = P(r)
    BY <2>7 DEF P, Place
  <2>9. ASSUME NEW q \in rows \ {x} PROVE P(x) < P(q) \/ (x[1] = q[1] /\ x[2] < q[2])
    <3>1. CASE q[1] = x[1]
      <4>1. q[2] \in Ns /\ q[2] # x[2]
        BY <2>7, <2>9, <3>1
      <4>2. n <= q[2] /\ n \in Nat /\ q[2] \in Nat
        BY <2>4, <2>6, <4>1
      <4> QED BY <2>7, <3>1, <4>1, <4>2
    <3>2. CASE q[1] # x[1]
      <4>1. P(x) <= P(q) /\ P(x) # P(q) /\ P(x) \in Nat /\ P(q) \in Nat
        BY <1>1, <1>2, <2>3, <2>8, <2>9, <3>2
      <4> QED BY <4>1
    <3> QED BY <3>1, <3>2
  <2> QED BY <1>3, <2>9
<1>5. PICK f : f = First(mode, rows)
  OBVIOUS
<1>6. f \in rows /\ \A q \in rows \ {f} : Precedes(mode, f, q)
  BY <1>4, <1>5 DEF First
<1>7. ASSUME NEW r \in rows, r[1] = mode PROVE f[1] = mode
  <2> SUFFICES ASSUME f[1] # mode PROVE FALSE
    OBVIOUS
  <2>1. P(r) = 0 /\ P(f) \in Nat
    BY <1>1, <1>6, <1>7
  <2>2. Precedes(mode, f, r)
    BY <1>6, <1>7
  <2>3. ~(P(f) < P(r))
    BY <2>1
  <2> QED BY <1>3, <1>7, <2>2, <2>3
<1> QED BY <1>5, <1>6, <1>7

\* An issue of a reference rule is filed under the artifact of the definition, or under
\* that of the first of the offending references; whether there is one does not depend on
\* the artifact validated (constraints.py:1190-1330).
LEMMA RuleFiled ==
  ASSUME NEW m, NEW x, NEW rule, RuleErrors(m, x, rule) # {}
  PROVE  \/ \A k : Issue("REF_MISSING_FROM_KIND", x[1], Row(x).id, rule.target) \in RuleErrors(k, x, rule)
         \/ \E R, c :
               R # {} /\ R \subseteq ReferenceRows /\ \A k : Issue(c, First(k, R)[1], Row(x).id, rule.target) \in RuleErrors(k, x, rule)
<1> DEFINE i == Row(x).id
           refs == RefsInKind(i, rule.target)
           open == Row(x).task /\ ~Row(x).done
           noTask == {r \in refs : Breaks(rule.task, Row(r).task)}
           noPrio == {r \in refs : Breaks(rule.prio, Row(r).prio)}
           At1(k, c, rows) == {Issue(c, First(k, rows)[1], i, rule.target)}
           Boxes(k) == (IF noTask # {} THEN At1(k, "REF_TASK", noTask) ELSE {})
                       \cup (IF noPrio # {} THEN At1(k, "REF_PRIORITY", noPrio) ELSE {})
           Heads(k) == IF /\ rule.cov = "required" /\ rule.heads # {} /\ refs # {}
                          /\ \A r \in refs : Misplaced(rule.heads, r[1], r[2])
                       THEN At1(k, "REF_WRONG_HEADINGS", refs) ELSE {}
           waits == rule.cov = "required" /\ open
           absent == rule.cov = "required" /\ rule.target \notin PresentKinds(SystemOf[i])
           misses == rule.cov = "required" /\ refs = {} /\ ~open /\ rule.target \in PresentKinds(SystemOf[i])
           banned == rule.cov = "prohibited" /\ refs # {}
<1>1. \A k : RuleErrors(k, x, rule) =
                CASE waits -> {}
                  [] absent -> {}
                  [] misses -> {Issue("REF_MISSING_FROM_KIND", x[1], i, rule.target)}
                  [] banned -> At1(k, "REF_FROM_PROHIBITED_KIND", refs)
                  [] OTHER -> Boxes(k) \cup Heads(k)
  BY DEF RuleErrors
<1>2. refs \subseteq ReferenceRows /\ noTask \subseteq ReferenceRows /\ noPrio \subseteq ReferenceRows
  BY DEF RefsInKind, RowsOf
<1>3. ~(waits /\ misses) /\ ~(absent /\ misses) /\ ~(waits /\ banned) /\ ~(absent /\ banned) /\ ~(misses /\ banned)
  OBVIOUS
<1>4. \A k, c, rows : Issue(c, First(k, rows)[1], i, rule.target) \in At1(k, c, rows)
  OBVIOUS
<1> HIDE DEF waits, absent, misses, banned, At1, Boxes, Heads, refs, noTask, noPrio, i
<1>5. CASE misses
  <2>1. \A k : RuleErrors(k, x, rule) = {Issue("REF_MISSING_FROM_KIND", x[1], i, rule.target)}
    BY <1>1, <1>3, <1>5
  <2> QED BY <2>1 DEF i
<1>6. CASE banned
  <2>1. \A k : RuleErrors(k, x, rule) = At1(k, "REF_FROM_PROHIBITED_KIND", refs)
    BY <1>1, <1>3, <1>6
  <2>2. refs # {}
    BY <1>6 DEF banned
  <2>3. \A k : Issue("REF_FROM_PROHIBITED_KIND", First(k, refs)[1], i, rule.target) \in RuleErrors(k, x, rule)
    BY <1>4, <2>1
  <2> QED BY <1>2, <2>2, <2>3, Zenon DEF i
<1>7. CASE ~misses /\ ~banned
  <2>1. ~waits /\ ~absent
    BY <1>1, <1>7
  <2>2. \A k : RuleErrors(k, x, rule) = Boxes(k) \cup Heads(k)
    BY <1>1, <1>7, <2>1
  <2>3. CASE noTask # {}
    <3>1. \A k : Issue("REF_TASK", First(k, noTask)[1], i, rule.target) \in RuleErrors(k, x, rule)
      BY <1>4, <2>2, <2>3 DEF Boxes
    <3> QED BY <1>2, <2>3, <3>1, Zenon DEF i
  <2>4. CASE noPrio # {}
    <3>1. \A k : Issue("REF_PRIORITY", First(k, noPrio)[1], i, rule.target) \in RuleErrors(k, x, rule)
      BY <1>4, <2>2, <2>4 DEF Boxes
    <3> QED BY <1>2, <2>4, <3>1, Zenon DEF i
  <2>5. CASE noTask = {} /\ noPrio = {}
    <3>1. \A k : Boxes(k) = {}
      BY <2>5 DEF Boxes
    <3>2. Heads(m) # {}
      BY <2>2, <3>1
    <3>3. refs # {} /\ \A k : Heads(k) = At1(k, "REF_WRONG_HEADINGS", refs)
      BY <3>2 DEF Heads
    <3>4. \A k : Issue("REF_WRONG_HEADINGS", First(k, refs)[1], i, rule.target) \in RuleErrors(k, x, rule)
      BY <1>4, <2>2, <3>3
    <3> QED BY <1>2, <3>3, <3>4, Zenon DEF i
  <2> QED BY <2>3, <2>4, <2>5
<1> QED BY <1>5, <1>6, <1>7

\* The rows of references are lines of artifacts.
LEMMA RowsAreLines ==
  ASSUME TraceTypeOK, NEW R, R \subseteq ReferenceRows
  PROVE  \A r \in R : r[1] \in Docs /\ r[2] \in Nat /\ r = <<r[1], r[2]>>
<1> SUFFICES ASSUME NEW r \in ReferenceRows PROVE r[1] \in Docs /\ r[2] \in Nat /\ r = <<r[1], r[2]>>
  OBVIOUS
<1>1. r[1] \in Docs /\ r[2] \in At(r[1], "ref") /\ r = <<r[1], r[2]>>
  BY RowIsLine DEF ReferenceRows
<1>2. r[2] \in Nat
  BY <1>1, ArtifactLines DEF At
<1> QED BY <1>1, <1>2

\* Asking artifact by artifact finds an issue exactly when asking for all does: an issue
\* between artifacts is filed under some artifact, and that artifact, validated on its
\* own, is first in the order by which issues are filed.
LEMMA OneByOne ==
  ASSUME TraceTypeOK, AllConstrained
  PROVE  OneByOneFindsAll
<1> DEFINE common == MissingConstraints \cup UndefinedReferences \cup DoneConsistency \cup KindPresence
<1>1. \A k : cross_validate_artifacts(k) = common \cup ReferenceRules(k)
  BY DEF cross_validate_artifacts
<1>2. \A k : Unreferenced(k) = {}
  <2>1. \A q \in DefRows : KindOf[q[1]] \in Constrained
    BY RowIsLine DEF DefRows, AllConstrained
  <2> QED BY <2>1 DEF Unreferenced
<1>3. \A d \in Docs : Validated(d) = {d} /\ d # "all" /\ d # "docs"
  BY TraceAssumption DEF Validated
<1>4. Validated("docs") = Docs
  BY TraceAssumption DEF Validated
<1>5. /\ \A d \in Docs : Structure(d) = ArtifactErrors(d)
      /\ Structure("docs") = UNION {ArtifactErrors(d) : d \in Docs}
  BY <1>3, <1>4 DEF Structure
<1> HIDE DEF common
<1>6. \A d \in Docs : Result(d) = {} <=> /\ ArtifactErrors(d) = {}
                                         /\ \A e \in common \cup ReferenceRules(d) : e[2] # d
  <2> TAKE d \in Docs
  <2>1. Structure(d) = ArtifactErrors(d) /\ Validated(d) = {d} /\ d # "all" /\ Unreferenced(d) = {}
    BY <1>2, <1>3, <1>5
  <2>2. IssuesOf(d, cross_validate_artifacts(d)) = {} <=> \A e \in common \cup ReferenceRules(d) : e[2] # d
    BY <1>1, <2>1 DEF IssuesOf
  <2>3. Result(d) = IF ArtifactErrors(d) # {} THEN ArtifactErrors(d)
                    ELSE IssuesOf(d, cross_validate_artifacts(d))
    BY <2>1 DEF Result
  <2> QED BY <2>2, <2>3
<1>7. Result("docs") = {} <=> /\ \A d \in Docs : ArtifactErrors(d) = {}
                              /\ \A e \in common \cup ReferenceRules("docs") : e[2] \notin Docs
  <2>1. IssuesOf("docs", cross_validate_artifacts("docs")) = {}
           <=> \A e \in common \cup ReferenceRules("docs") : e[2] \notin Docs
    BY <1>1, <1>4 DEF IssuesOf
  <2>2. Result("docs") = IF Structure("docs") # {} THEN Structure("docs")
                         ELSE IssuesOf("docs", cross_validate_artifacts("docs"))
    BY <1>2 DEF Result
  <2>3. Structure("docs") = {} <=> \A d \in Docs : ArtifactErrors(d) = {}
    BY <1>5
  <2> QED BY <2>1, <2>2, <2>3
<1>8. ASSUME NEW k, ReferenceRules(k) # {}
      PROVE  /\ \E e \in ReferenceRules("docs") : e[2] \in Docs
             /\ \E d \in Docs : \E e \in ReferenceRules(d) : e[2] = d
  <2> DEFINE Ruled == {q \in DefRows \X RefRules :
                          /\ KindOf[q[1][1]] = q[2].ak /\ q[2].ak \in Constrained
                          /\ SystemOf[Row(q[1]).id] # <<>>
                          /\ KindOfId[Row(q[1]).id] = q[2].kind}
  <2>1. \A j : ReferenceRules(j) = UNION {RuleErrors(j, p[1], p[2]) : p \in Ruled}
    BY DEF ReferenceRules
  <2>2. PICK p \in Ruled : RuleErrors(k, p[1], p[2]) # {}
    BY <1>8, <2>1
  <2>3. p[1] \in DefRows /\ p[1][1] \in Docs
    BY RowIsLine DEF DefRows
  <2> HIDE DEF Ruled
  <2>4. \A j : RuleErrors(j, p[1], p[2]) \subseteq ReferenceRules(j)
    BY <2>1
  <2>5. \A c, d, i, s : Issue(c, d, i, s)[2] = d
    BY DEF Issue
  <2>6. CASE \A j : Issue("REF_MISSING_FROM_KIND", p[1][1], Row(p[1]).id, p[2].target) \in RuleErrors(j, p[1], p[2])
    BY <2>3, <2>4, <2>5, <2>6
  <2>7. CASE \E R, c : /\ R # {} /\ R \subseteq ReferenceRows
                       /\ \A j : Issue(c, First(j, R)[1], Row(p[1]).id, p[2].target) \in RuleErrors(j, p[1], p[2])
    <3>1. PICK R, c : /\ R # {} /\ R \subseteq ReferenceRows
                      /\ \A j : Issue(c, First(j, R)[1], Row(p[1]).id, p[2].target) \in RuleErrors(j, p[1], p[2])
      BY <2>7
    <3>2. \A r \in R : r[1] \in Docs /\ r[2] \in Nat /\ r = <<r[1], r[2]>>
      BY <3>1, RowsAreLines
    <3>3. PICK r \in R : TRUE
      BY <3>1
    <3>4. First("docs", R) \in R /\ First(r[1], R)[1] = r[1]
      BY <3>1, <3>2, <3>3, FirstRow
    <3>5. First("docs", R)[1] \in Docs /\ r[1] \in Docs
      BY <3>2, <3>4
    <3> QED BY <2>4, <2>5, <3>1, <3>4, <3>5
  <2> QED BY <2>2, <2>6, <2>7, RuleFiled
<1>9. ASSUME \A d \in Docs : Result(d) = {}, NEW e \in common \cup ReferenceRules("docs"), e[2] \in Docs
      PROVE  FALSE
  <2>1. CASE e \in common
    BY <1>6, <1>9, <2>1
  <2>2. CASE e \in ReferenceRules("docs")
    BY <1>6, <1>8, <1>9, <2>2
  <2> QED BY <1>9, <2>1, <2>2
<1>10. ASSUME Result("docs") = {}, NEW d \in Docs, NEW e \in common \cup ReferenceRules(d), e[2] = d
       PROVE  FALSE
  <2>1. CASE e \in common
    BY <1>7, <1>10, <2>1
  <2>2. CASE e \in ReferenceRules(d)
    BY <1>7, <1>8, <1>10, <2>2
  <2> QED BY <1>10, <2>1, <2>2
<1>11. (\A d \in Docs : Result(d) = {}) => Result("docs") = {}
  BY <1>6, <1>7, <1>9
<1>12. Result("docs") = {} => \A d \in Docs : Result(d) = {}
  BY <1>6, <1>7, <1>10
<1> QED BY <1>11, <1>12 DEF OneByOneFindsAll

-----------------------------------------------------------------------------
(* Types: what a report says has the form the author's answer to it needs. *)

\* IDs are token sequences, steps have a name.
LEMMA LineNames ==
  ASSUME TraceTypeOK, NEW d \in Docs, NEW n \in DOMAIN text[d]
  PROVE  text[d][n].id \in Seq(STRING) /\ text[d][n].inst \in Names
<1>1. text[d][n] \in TextLine
  BY ArtifactLines
<1> QED BY <1>1 DEF TextLine

\* So is the ID of a scanned row.
LEMMA RowNames ==
  ASSUME TraceTypeOK, NEW r \in DefRows \cup ReferenceRows
  PROVE  Row(r).id \in Seq(STRING) /\ r[1] \in Docs
<1>1. PICK ty : r \in scan_cpt_ids(ty)
  BY DEF DefRows, ReferenceRows
<1>2. r[1] \in Docs /\ r[2] \in DOMAIN text[r[1]] /\ Row(r) = text[r[1]][r[2]]
  BY <1>1, RowIsLine DEF At, Row
<1> QED BY <1>2, LineNames

\* An issue with an ID and a name is one the author can follow.
LEMMA IssueNames ==
  ASSUME NEW c, NEW d, NEW i \in Seq(STRING), NEW s \in Names
  PROVE  Issue(c, d, i, s)[3] \in Seq(STRING) /\ Issue(c, d, i, s)[4] \in Names
BY DEF Issue

\* The issues of one artifact.
LEMMA ArtifactIssueNames ==
  ASSUME TraceTypeOK, NEW d \in Docs, NEW e \in ArtifactErrors(d)
  PROVE  e[3] \in Seq(STRING) /\ e[4] \in Names
<1>0. "" \in Names /\ <<>> \in Seq(STRING)
  BY DEF Names
<1>1. \A n \in DOMAIN text[d] : text[d][n].id \in Seq(STRING) /\ text[d][n].inst \in Names
  BY LineNames
<1>2. \A ty : \A n \in At(d, ty) : n \in DOMAIN text[d]
  BY DEF At
<1>3. CASE e \in CdslErrors(d)
  <2>1. PICK s \in scan_cdsl_instructions(d) : e = Issue("CDSL_STEP_UNCHECKED", d, s[1], s[2])
    BY <1>3 DEF CdslErrors
  <2>2. PICK n \in At(d, "step") : s = <<ParentOfStep(d, n), text[d][n].inst, text[d][n].done>>
    BY <2>1 DEF scan_cdsl_instructions
  <2>3. ParentOfStep(d, n) \in Seq(STRING)
    <3> DEFINE above == {m \in At(d, "def") : m < n /\ (text[d][m].task \/ ~text[d][m].prio)}
    <3>1. CASE above = {}
      BY <1>0, <3>1 DEF ParentOfStep
    <3>2. CASE above # {}
      <4>1. ParentOfStep(d, n) = text[d][Max(above)].id
        BY <3>2 DEF ParentOfStep
      <4>2. Len(text[d]) \in Nat /\ above \subseteq 0..Len(text[d])
        BY ArtifactLines DEF At
      <4>3. above \subseteq DOMAIN text[d]
        BY <1>2
      <4> HIDE DEF above
      <4>4. Max(above) \in above
        BY <3>2, <4>2, MaxIsGreatest
      <4> QED BY <1>1, <4>1, <4>3, <4>4
    <3> QED BY <3>1, <3>2
  <2>4. text[d][n].inst \in Names
    BY <1>1, <1>2
  <2>5. s[1] \in Seq(STRING) /\ s[2] \in Names
    BY <2>2, <2>3, <2>4
  <2> QED BY <2>1, <2>5, IssueNames
<1>4. CASE e \in ParentErrors(d)
  <2>1. \E n \in At(d, "def") : \/ e = Issue("PARENT_UNCHECKED_ALL_DONE", d, text[d][n].id, "")
                                \/ e = Issue("PARENT_CHECKED_NESTED_UNCHECKED", d, text[d][n].id, "")
    BY <1>4 DEF ParentErrors
  <2> QED BY <1>0, <1>1, <1>2, <2>1, IssueNames
<1>5. CASE e \in DefErrors(d)
  <2> DEFINE Kind(n) == LocalKind[text[d][n].id, KindOf[d]]
             known == {n \in At(d, "def") : Kind(n) # "none"}
             ruled == {p \in known \X {q \in IdRules : q.ak = KindOf[d]} : Kind(p[1]) = p[2].kind}
             Found(c, p) == Issue(c, d, text[d][p[1]].id, p[2].kind)
  <2>1. \/ \E n \in At(d, "def") : \/ e = Issue("ID_SYSTEM_UNRECOGNIZED", d, text[d][n].id, "")
                                   \/ e = Issue("ID_KIND_NOT_ALLOWED", d, text[d][n].id, "")
        \/ \E p \in ruled : \/ e = Found("DEF_TASK", p)
                            \/ e = Found("DEF_PRIORITY", p)
                            \/ e = Found("DEF_WRONG_HEADINGS", p)
        \/ \E r \in IdRules : e = Issue("REQUIRED_ID_KIND_MISSING", d, <<>>, r.kind)
    BY <1>5 DEF DefErrors
  <2>2. \A r \in IdRules : r.kind \in Names
    BY TraceAssumption
  <2>3. \A p \in ruled : p[1] \in At(d, "def") /\ p[2] \in IdRules
    OBVIOUS
  <2> HIDE DEF ruled
  <2> QED BY <1>0, <1>1, <1>2, <2>1, <2>2, <2>3, IssueNames
<1> QED BY <1>3, <1>4, <1>5 DEF ArtifactErrors

\* The issues between artifacts.
LEMMA CrossIssueNames ==
  ASSUME TraceTypeOK, NEW mode, NEW e \in cross_validate_artifacts(mode)
  PROVE  e[3] \in Seq(STRING) /\ e[4] \in Names
<1>0. "" \in Names /\ <<>> \in Seq(STRING)
  BY DEF Names
<1>1. \A r \in DefRows \cup ReferenceRows : Row(r).id \in Seq(STRING)
  BY RowNames
<1>2. \A r \in IdRules : r.kind \in Names
  BY TraceAssumption
<1>3. CASE e \in MissingConstraints
  <2>1. e = Issue("MISSING_CONSTRAINTS", NotADoc, <<>>, "")
    BY <1>3 DEF MissingConstraints
  <2> QED BY <1>0, <2>1, IssueNames
<1>4. CASE e \in UndefinedReferences
  <2>1. \E r \in ReferenceRows : e = Issue("REF_NO_DEFINITION", r[1], Row(r).id, "")
    BY <1>4 DEF UndefinedReferences
  <2> QED BY <1>0, <1>1, <2>1, IssueNames
<1>5. CASE e \in DoneConsistency
  <2>1. \E r \in ReferenceRows : \/ e = Issue("REF_DONE_DEF_NOT_DONE", r[1], Row(r).id, "")
                                 \/ e = Issue("DEF_DONE_REF_NOT_DONE", r[1], Row(r).id, "")
                                 \/ e = Issue("REF_TASK_DEF_NO_TASK", r[1], Row(r).id, "")
    BY <1>5 DEF DoneConsistency
  <2> QED BY <1>0, <1>1, <2>1, IssueNames
<1>6. CASE e \in KindPresence
  <2> DEFINE defs == {r \in DefRows : KindOf[r[1]] \in Constrained /\ SystemOf[Row(r).id] # <<>>}
             Ruled(r) == {q \in IdRules : q.ak = KindOf[r[1]] /\ q.kind = KindOfId[Row(r).id]}
             kinds == {p \in Docs \X IdRules : KindOf[p[1]] = p[2].ak /\ p[2].ak \in Constrained /\ p[2].required}
             bad == {q \in defs : \E p \in Ruled(q) : Misplaced(p.heads, q[1], q[2])}
  <2>1. \/ \E r \in defs : e = Issue("ID_KIND_NOT_ALLOWED", r[1], Row(r).id, "")
        \/ \E p \in kinds : e = Issue("REQUIRED_ID_KIND_MISSING", p[1], <<>>, p[2].kind)
        \/ \E r \in bad : e = Issue("DEF_WRONG_HEADINGS", r[1], Row(r).id, KindOfId[Row(r).id])
    BY <1>6 DEF KindPresence
  <2>2. defs \subseteq DefRows /\ \A p \in kinds : p[2] \in IdRules
    OBVIOUS
  <2>3. bad \subseteq DefRows /\ \A r \in bad : KindOfId[Row(r).id] \in Names
    BY <1>2
  <2> HIDE DEF defs, kinds, bad
  <2> QED BY <1>0, <1>1, <1>2, <2>1, <2>2, <2>3, IssueNames
<1>7. CASE e \in ReferenceRules(mode)
  <2>1. PICK p \in DefRows \X RefRules : e \in RuleErrors(mode, p[1], p[2])
    BY <1>7 DEF ReferenceRules
  <2>2. p[1] \in DefRows /\ p[2].target \in Names
    BY TraceAssumption
  <2> DEFINE i == Row(p[1]).id
             s == p[2].target
  <2>3. \E c, d : e = Issue(c, d, i, s)
    <3> DEFINE refs == RefsInKind(i, s)
               noTask == {r \in refs : Breaks(p[2].task, Row(r).task)}
               noPrio == {r \in refs : Breaks(p[2].prio, Row(r).prio)}
               First1(rows) == First(mode, rows)[1]
    <3>1. \/ e = Issue("REF_MISSING_FROM_KIND", p[1][1], i, s)
          \/ e = Issue("REF_FROM_PROHIBITED_KIND", First1(refs), i, s)
          \/ e = Issue("REF_TASK", First1(noTask), i, s)
          \/ e = Issue("REF_PRIORITY", First1(noPrio), i, s)
          \/ e = Issue("REF_WRONG_HEADINGS", First1(refs), i, s)
      BY <2>1 DEF RuleErrors
    <3> HIDE DEF First1, i, s
    <3> QED BY <3>1, Zenon
  <2>4. i \in Seq(STRING)
    BY <1>1, <2>2
  <2> HIDE DEF i, s
  <2> QED BY <2>2, <2>3, <2>4, IssueNames DEF s
<1> QED BY <1>3, <1>4, <1>5, <1>6, <1>7 DEF cross_validate_artifacts

\* The issues of the code.
LEMMA CodeIssueNames ==
  ASSUME TraceTypeOK, NEW e \in CodeErrors
  PROVE  e[3] \in Seq(STRING) /\ e[4] \in Names
<1>0. "" \in Names
  BY DEF Names
<1>1. \A f \in Files : \A m \in Range(code[f]) : m.id \in Seq(STRING) /\ m.inst \in Names
  <2> SUFFICES ASSUME NEW f \in Files, NEW m \in Range(code[f]) PROVE m.id \in Seq(STRING) /\ m.inst \in Names
    OBVIOUS
  <2>1. code[f] \in Seq(Mark)
    BY DEF TraceTypeOK
  <2>2. m \in Mark
    BY <2>1 DEF Range
  <2> QED BY <2>2 DEF Mark
<1>2. \A f \in Files : \A b \in Blocks(f) : b[1] \in Seq(STRING) /\ b[2] \in Names
  BY <1>1 DEF Blocks
<1>3. \A r \in DefRows : Row(r).id \in Seq(STRING)
  BY RowNames
<1>4. ASSUME NEW f \in Files, e \in DupScopes(f) PROVE e[3] \in Seq(STRING) /\ e[4] \in Names
  <2>1. \E m \in Range(code[f]) : e = Issue("MARKER_DUP_SCOPE", f, m.id, "")
    BY <1>4 DEF DupScopes
  <2> QED BY <1>0, <1>1, <2>1, IssueNames
<1>5. ASSUME NEW f \in Files, e \in _parse_markers(f) PROVE e[3] \in Seq(STRING) /\ e[4] \in Names
  <2>1. \E b \in Blocks(f) : \E c : e = Issue(c, f, b[1], b[2])
    BY <1>5 DEF _parse_markers
  <2> QED BY <1>2, <2>1, IssueNames
<1>6. ASSUME e \in cross_validate_code PROVE e[3] \in Seq(STRING) /\ e[4] \in Names
  <2> DEFINE fs == parsed_code_files_full
             found == UNION {list_ids(f) : f \in fs}
             InCode(i) == {b[2] : b \in {q \in UNION {Blocks(f) : f \in fs} : q[1] = i}}
             stepped == {i \in IdsOf(DefRows) : Instances(i, {TRUE}) # {}}
             At1(c, i, aux) == Issue(c, CHOOSE f \in fs : i \in list_ids(f), i, aux)
             orphans == {At1("CODE_ORPHAN_REF", i, "") : i \in found \ IdsOf(DefRows)}
             unchecked == {At1("CODE_TASK_UNCHECKED", i, "") : i \in
                {q \in found \cap to_code_ids_task_unchecked : Instances(q, BOOLEAN) \subseteq InCode(q)}}
             unmarked == {Issue("CODE_NO_MARKER", NotADoc, i, "") : i \in to_code_ids \ found}
             missing(i) == {Issue("CODE_INST_MISSING", NotADoc, i, s) : s \in Instances(i, {TRUE}) \ InCode(i)}
             strange(i) == {At1("CODE_INST_ORPHAN", i, s) : s \in InCode(i) \ Instances(i, {TRUE})}
  <2>1. cross_validate_code = orphans \cup unchecked \cup unmarked \cup UNION {missing(i) \cup strange(i) : i \in stepped}
    BY DEF cross_validate_code
  <2>2. fs \subseteq Files
    BY DEF parsed_code_files_full
  <2>3. \A i \in found : i \in Seq(STRING)
    BY <1>1, <2>2 DEF list_ids
  <2>4. \A i \in to_code_ids : i \in Seq(STRING)
    BY <1>3 DEF to_code_ids
  <2>5. \A i \in stepped : i \in Seq(STRING)
    BY <1>3 DEF IdsOf
  <2>6. \A i : \A s \in InCode(i) : s \in Names
    BY <1>2, <2>2
  <2>7. \A i : \A s \in Instances(i, {TRUE}) : s \in Names
    <3> SUFFICES ASSUME NEW i, NEW s \in Instances(i, {TRUE}) PROVE s \in Names
      OBVIOUS
    <3>1. PICK d \in Docs : \E q \in scan_cdsl_instructions(d) : s = q[2]
      BY DEF Instances
    <3>2. PICK n \in At(d, "step") : s = text[d][n].inst
      BY <3>1 DEF scan_cdsl_instructions
    <3> QED BY <3>2, LineNames DEF At
  <2>8. \A c : \A i \in Seq(STRING), s \in Names :
           /\ Issue(c, NotADoc, i, s)[3] \in Seq(STRING) /\ Issue(c, NotADoc, i, s)[4] \in Names
           /\ At1(c, i, s)[3] \in Seq(STRING) /\ At1(c, i, s)[4] \in Names
    BY DEF Issue
  <2> HIDE DEF found, InCode, stepped, At1
  <2>9. CASE e \in orphans
    BY <1>0, <2>3, <2>8, <2>9
  <2>10. CASE e \in unchecked
    BY <1>0, <2>3, <2>8, <2>10
  <2>11. CASE e \in unmarked
    BY <1>0, <2>4, <2>8, <2>11
  <2>12. ASSUME NEW i \in stepped, e \in missing(i) PROVE e[3] \in Seq(STRING) /\ e[4] \in Names
    BY <2>5, <2>7, <2>8, <2>12
  <2>13. ASSUME NEW i \in stepped, e \in strange(i) PROVE e[3] \in Seq(STRING) /\ e[4] \in Names
    BY <2>5, <2>6, <2>8, <2>13
  <2> HIDE DEF orphans, unchecked, unmarked, missing, strange
  <2> QED BY <1>6, <2>1, <2>9, <2>10, <2>11, <2>12, <2>13
<1> QED BY <1>4, <1>5, <1>6 DEF CodeErrors

\* All issues of a report.
LEMMA ResultNames ==
  ASSUME TraceTypeOK, NEW mode \in Modes, NEW e \in Result(mode)
  PROVE  e[3] \in Seq(STRING) /\ e[4] \in Names
<1>1. CASE e \in Structure(mode)
  <2>1. Validated(mode) \subseteq Docs
    BY DEF Validated
  <2>2. PICK d \in Docs : e \in ArtifactErrors(d)
    BY <1>1, <2>1 DEF Structure
  <2> QED BY <2>2, ArtifactIssueNames
<1>2. CASE e \in cross_validate_artifacts(mode)
  BY <1>2, CrossIssueNames
<1>3. CASE e \in CodeErrors
  BY <1>3, CodeIssueNames
<1>4. CASE e \in Unreferenced(mode)
  <2>1. \E r \in DefRows : e = Issue("ID_NOT_REFERENCED", r[1], Row(r).id, "")
    BY <1>4 DEF Unreferenced
  <2>2. "" \in Names
    BY DEF Names
  <2> QED BY <2>1, <2>2, RowNames, IssueNames
<1> QED BY <1>1, <1>2, <1>3, <1>4 DEF Result, IssuesOf

-----------------------------------------------------------------------------
(* The author's edits leave artifacts and code well formed.                *)

\* A line ticked, unticked or with its priority changed is a line; so is a definition or
\* a reference with its checkbox given or taken away, and a ticked box turned over.
LEMMA EditedLine ==
  ASSUME NEW l \in TextLine
  PROVE  /\ Tick(l) \in TextLine /\ Untick(l) \in TextLine /\ FlipPriority(l) \in TextLine
         /\ l.t \in {"def", "ref"} => FlipTask(l) \in TextLine
         /\ l.task \/ l.t = "step" => [l EXCEPT !.done = ~@] \in TextLine
BY DEF TextLine, Tick, Untick, FlipPriority, FlipTask

\* An artifact exchanged for another sequence of lines leaves the artifacts well formed,
\* whatever the issue names: one that is about the code changes none.
LEMMA ReplacedText ==
  ASSUME text \in [Docs -> Seq(TextLine)], NEW d, NEW s, d \in Docs => s \in Seq(TextLine)
  PROVE  [text EXCEPT ![d] = s] \in [Docs -> Seq(TextLine)]
OBVIOUS

\* A line exchanged at every place of an artifact for another line.
LEMMA LinesReplaced ==
  ASSUME text \in [Docs -> Seq(TextLine)], NEW d \in Docs, NEW s,
         DOMAIN s = DOMAIN text[d], s = [n \in DOMAIN s |-> s[n]], \A n \in DOMAIN s : s[n] \in TextLine
  PROVE  s \in Seq(TextLine)
<1>1. Len(text[d]) \in Nat /\ DOMAIN s = 1..Len(text[d])
  OBVIOUS
<1>2. s \in [1..Len(text[d]) -> TextLine]
  BY <1>1
<1> QED BY <1>1, <1>2

\* Rewriting lines.
LEMMA RewrittenText ==
  ASSUME text \in [Docs -> Seq(TextLine)], NEW d, NEW S
  PROVE  /\ Rewritten(d, S, Tick) \in [Docs -> Seq(TextLine)]
         /\ Rewritten(d, S, Untick) \in [Docs -> Seq(TextLine)]
         /\ Rewritten(d, S, FlipPriority) \in [Docs -> Seq(TextLine)]
         /\ (\A n \in S : text[d][n].t \in {"def", "ref"}) => Rewritten(d, S, FlipTask) \in [Docs -> Seq(TextLine)]
         /\ (\A n \in S : text[d][n].task \/ text[d][n].t = "step")
               => Rewritten(d, S, LAMBDA l : [l EXCEPT !.done = ~@]) \in [Docs -> Seq(TextLine)]
<1>1. d \in Docs => \A n \in DOMAIN text[d] : text[d][n] \in TextLine
  OBVIOUS
<1>2. Rewritten(d, S, Tick) \in [Docs -> Seq(TextLine)]
  <2> DEFINE s == [n \in DOMAIN text[d] |-> IF n \in S THEN Tick(text[d][n]) ELSE text[d][n]]
  <2>1. d \in Docs => \A n \in DOMAIN s : s[n] \in TextLine
    BY <1>1, EditedLine
  <2>2. d \in Docs => s \in Seq(TextLine)
    BY <2>1, LinesReplaced
  <2>3. Rewritten(d, S, Tick) = [text EXCEPT ![d] = s]
    BY DEF Rewritten
  <2> HIDE DEF s
  <2> QED BY <2>2, <2>3, ReplacedText
<1>3. Rewritten(d, S, Untick) \in [Docs -> Seq(TextLine)]
  <2> DEFINE s == [n \in DOMAIN text[d] |-> IF n \in S THEN Untick(text[d][n]) ELSE text[d][n]]
  <2>1. d \in Docs => \A n \in DOMAIN s : s[n] \in TextLine
    BY <1>1, EditedLine
  <2>2. d \in Docs => s \in Seq(TextLine)
    BY <2>1, LinesReplaced
  <2>3. Rewritten(d, S, Untick) = [text EXCEPT ![d] = s]
    BY DEF Rewritten
  <2> HIDE DEF s
  <2> QED BY <2>2, <2>3, ReplacedText
<1>4. Rewritten(d, S, FlipPriority) \in [Docs -> Seq(TextLine)]
  <2> DEFINE s == [n \in DOMAIN text[d] |-> IF n \in S THEN FlipPriority(text[d][n]) ELSE text[d][n]]
  <2>1. d \in Docs => \A n \in DOMAIN s : s[n] \in TextLine
    BY <1>1, EditedLine
  <2>2. d \in Docs => s \in Seq(TextLine)
    BY <2>1, LinesReplaced
  <2>3. Rewritten(d, S, FlipPriority) = [text EXCEPT ![d] = s]
    BY DEF Rewritten
  <2> HIDE DEF s
  <2> QED BY <2>2, <2>3, ReplacedText
<1>5. ASSUME \A n \in S : text[d][n].t \in {"def", "ref"}
      PROVE  Rewritten(d, S, FlipTask) \in [Docs -> Seq(TextLine)]
  <2> DEFINE s == [n \in DOMAIN text[d] |-> IF n \in S THEN FlipTask(text[d][n]) ELSE text[d][n]]
  <2>1. d \in Docs => \A n \in DOMAIN s : s[n] \in TextLine
    BY <1>1, <1>5, EditedLine
  <2>2. d \in Docs => s \in Seq(TextLine)
    BY <2>1, LinesReplaced
  <2>3. Rewritten(d, S, FlipTask) = [text EXCEPT ![d] = s]
    BY DEF Rewritten
  <2> HIDE DEF s
  <2> QED BY <2>2, <2>3, ReplacedText
<1>6. ASSUME \A n \in S : text[d][n].task \/ text[d][n].t = "step"
      PROVE  Rewritten(d, S, LAMBDA l : [l EXCEPT !.done = ~@]) \in [Docs -> Seq(TextLine)]
  <2> DEFINE s == [n \in DOMAIN text[d] |-> IF n \in S THEN [text[d][n] EXCEPT !.done = ~@] ELSE text[d][n]]
  <2>1. d \in Docs => \A n \in DOMAIN s : s[n] \in TextLine
    BY <1>1, <1>6, EditedLine
  <2>2. d \in Docs => s \in Seq(TextLine)
    BY <2>1, LinesReplaced
  <2>3. Rewritten(d, S, LAMBDA l : [l EXCEPT !.done = ~@]) = [text EXCEPT ![d] = s]
    BY DEF Rewritten
  <2> HIDE DEF s
  <2> QED BY <2>2, <2>3, ReplacedText
<1> QED BY <1>2, <1>3, <1>4, <1>5, <1>6

\* Rewriting the lines of an ID in every artifact.
LEMMA EverywhereText ==
  ASSUME text \in [Docs -> Seq(TextLine)], NEW i
  PROVE  /\ Everywhere("def", i, Tick) \in [Docs -> Seq(TextLine)]
         /\ Everywhere("def", i, Untick) \in [Docs -> Seq(TextLine)]
<1>1. \A q \in Docs : /\ Rewritten(q, Lines(q, "def", i), Tick)[q] \in Seq(TextLine)
                      /\ Rewritten(q, Lines(q, "def", i), Untick)[q] \in Seq(TextLine)
  BY RewrittenText
<1> QED BY <1>1 DEF Everywhere

\* Removing lines, and putting in another one.
LEMMA ShortenedText ==
  ASSUME text \in [Docs -> Seq(TextLine)], NEW d, NEW S
  PROVE  Without(d, S) \in [Docs -> Seq(TextLine)]
<1>1. d \in Docs => Kept(text[d], DOMAIN text[d] \ S) \in Seq(TextLine)
  BY KeptType
<1>2. Without(d, S) = [text EXCEPT ![d] = Kept(text[d], DOMAIN text[d] \ S)]
  BY DEF Without
<1> QED BY <1>1, <1>2, ReplacedText

\* A new line may go anywhere.
LEMMA InsertedLine ==
  ASSUME NEW s \in Seq(TextLine), NEW p \in 1..(Len(s) + 1), NEW l \in TextLine
  PROVE  InsertAt(s, p, l) \in Seq(TextLine)
<1>1. SubSeq(s, 1, p - 1) \in Seq(TextLine) /\ SubSeq(s, p, Len(s)) \in Seq(TextLine) /\ <<l>> \in Seq(TextLine)
  OBVIOUS
<1> QED BY <1>1 DEF InsertAt

\* A line moved to another place of its artifact.
LEMMA MovedText ==
  ASSUME text \in [Docs -> Seq(TextLine)], NEW d, NEW S, d \in Docs => S \subseteq DOMAIN text[d], NEW hs
  PROVE  Moved(d, S, hs) \in [Docs -> Seq(TextLine)]
<1>1. CASE S = {}
  BY <1>1 DEF Moved
<1>2. CASE S # {} /\ d \notin Docs
  BY <1>2, ReplacedText DEF Moved
<1>3. CASE S # {} /\ d \in Docs
  <2> DEFINE n == Min(S)
             p == PlaceFor(d, hs)
             K == DOMAIN text[d] \ {n}
             q == IF n < p THEN p - 1 ELSE p
  <2>1. text[d] \in Seq(TextLine) /\ Len(text[d]) \in Nat /\ DOMAIN text[d] = 1..Len(text[d])
    BY <1>3
  <2>2. n \in 1..Len(text[d]) /\ text[d][n] \in TextLine
    <3>1. S \subseteq Nat /\ S \subseteq DOMAIN text[d]
      BY <1>3, <2>1
    <3>2. n \in S
      BY <1>3, <3>1, MinIsLeast
    <3> HIDE DEF n
    <3> QED BY <2>1, <3>1, <3>2
  <2>3. p \in 1..(Len(text[d]) + 1)
    <3> DEFINE at == {h \in At(d, "head") : text[d][h].hid \in hs}
    <3>1. at \subseteq Nat /\ at \subseteq 1..Len(text[d])
      BY <2>1 DEF At
    <3>2. CASE at = {}
      BY <2>1, <3>2 DEF PlaceFor
    <3>3. CASE at # {}
      <4>1. p = Min(at) + 1
        BY <3>3 DEF PlaceFor
      <4> HIDE DEF at, p
      <4>2. Min(at) \in 1..Len(text[d])
        BY <3>1, <3>3, MinIsLeast
      <4> QED BY <2>1, <4>1, <4>2
    <3> QED BY <3>2, <3>3
  <2> HIDE DEF n, p
  <2>4. Cardinality(K) = Len(text[d]) - 1
    <3>1. PICK D : D = 1..Len(text[d])
      OBVIOUS
    <3>2. IsFiniteSet(D) /\ Cardinality(D) = Len(text[d])
      <4>1. 1 \in Int /\ Len(text[d]) \in Int /\ ~(1 > Len(text[d]))
        BY <2>1, <2>2
      <4>2. IsFiniteSet(D)
        BY <3>1, <4>1, FS_Interval
      <4>3. Cardinality(D) = Len(text[d]) - 1 + 1
        BY <3>1, <4>1, FS_Interval
      <4> QED BY <2>1, <4>2, <4>3
    <3>3. n \in D
      BY <2>2, <3>1
    <3>4. Cardinality(D \ {n}) = Cardinality(D) - 1
      BY <3>2, <3>3, FS_RemoveElement
    <3>5. K = D \ {n}
      BY <2>1, <3>1
    <3> HIDE DEF K
    <3> QED BY <3>2, <3>4, <3>5
  <2>5. Kept(text[d], K) \in Seq(TextLine)
    BY <2>1, KeptType
  <2>6. Len(Kept(text[d], K)) = Len(text[d]) - 1
    <3>1. DOMAIN Kept(text[d], K) = 1..Cardinality(K)
      BY DEF Kept
    <3>2. Len(text[d]) - 1 \in Nat
      BY <2>1, <2>2
    <3> HIDE DEF K
    <3> QED BY <2>4, <2>5, <3>1, <3>2
  <2>7. q \in 1..(Len(Kept(text[d], K)) + 1)
    <3> HIDE DEF K
    <3> QED BY <2>1, <2>2, <2>3, <2>6
  <2> HIDE DEF q
  <2>8. InsertAt(Kept(text[d], K), q, text[d][n]) \in Seq(TextLine)
    BY <2>2, <2>5, <2>7, InsertedLine
  <2>9. Without(d, {n})[d] = Kept(text[d], K)
    BY <1>3 DEF Without
  <2>10. Moved(d, S, hs) = [text EXCEPT ![d] = InsertAt(Kept(text[d], K), q, text[d][n])]
    BY <1>3, <2>9 DEF Moved, n, p, q
  <2> QED BY <2>8, <2>10, ReplacedText
<1> QED BY <1>1, <1>2, <1>3

\* A new reference.
LEMMA NewReference ==
  ASSUME text \in [Docs -> Seq(TextLine)], NEW i \in Seq(STRING), NEW rule, NEW to, NEW hs
  PROVE  /\ NewRef(i, rule) \in TextLine
         /\ [text EXCEPT ![to] = Append(@, NewRef(i, rule))] \in [Docs -> Seq(TextLine)]
         /\ [text EXCEPT ![to] = InsertAt(@, PlaceFor(to, hs), NewRef(i, rule))] \in [Docs -> Seq(TextLine)]
<1>1. NewRef(i, rule) \in TextLine
  <2>1. "" \in Names /\ 0 \in 0..3
    BY DEF Names
  <2>2. (rule.task = "required") \in BOOLEAN /\ (rule.prio = "required") \in BOOLEAN
    OBVIOUS
  <2> QED BY <2>1, <2>2 DEF NewRef, TextLine
<1>2. to \in Docs => Append(text[to], NewRef(i, rule)) \in Seq(TextLine)
  BY <1>1
<1>3. to \in Docs => InsertAt(text[to], PlaceFor(to, hs), NewRef(i, rule)) \in Seq(TextLine)
  <2> SUFFICES ASSUME to \in Docs PROVE InsertAt(text[to], PlaceFor(to, hs), NewRef(i, rule)) \in Seq(TextLine)
    OBVIOUS
  <2> DEFINE at == {h \in At(to, "head") : text[to][h].hid \in hs}
  <2>1. text[to] \in Seq(TextLine) /\ Len(text[to]) \in Nat /\ DOMAIN text[to] = 1..Len(text[to])
    OBVIOUS
  <2>2. PlaceFor(to, hs) \in 1..(Len(text[to]) + 1)
    <3>1. at \subseteq Nat /\ at \subseteq 1..Len(text[to])
      BY <2>1 DEF At
    <3>2. CASE at = {}
      BY <2>1, <3>2 DEF PlaceFor
    <3>3. CASE at # {}
      <4>1. PlaceFor(to, hs) = Min(at) + 1
        BY <3>3 DEF PlaceFor
      <4> HIDE DEF at
      <4>2. Min(at) \in 1..Len(text[to])
        BY <3>1, <3>3, MinIsLeast
      <4> QED BY <2>1, <4>1, <4>2
    <3> QED BY <3>2, <3>3
  <2> QED BY <1>1, <2>1, <2>2, InsertedLine
<1>4. [text EXCEPT ![to] = Append(text[to], NewRef(i, rule))] \in [Docs -> Seq(TextLine)]
  BY <1>2, ReplacedText
<1>5. [text EXCEPT ![to] = InsertAt(text[to], PlaceFor(to, hs), NewRef(i, rule))] \in [Docs -> Seq(TextLine)]
  BY <1>3, ReplacedText
<1> QED BY <1>1, <1>4, <1>5

\* Following a prompt leaves the artifacts well formed (fixing.py:367-711).
LEMMA PromptedText ==
  ASSUME text \in [Docs -> Seq(TextLine)], NEW e, e[3] \in Seq(STRING)
  PROVE  _build_fixing_prompt(e) \in [Docs -> Seq(TextLine)]
<1> DEFINE d == e[2]
           i == e[3]
           rule == CHOOSE q \in RefRules : q.target = e[4] /\ q.kind = KindOfId[i]
           idRule == CHOOSE q \in IdRules : q.ak = KindOf[d] /\ q.kind = e[4]
           refs == Lines(d, "ref", i)
           defs == Lines(d, "def", i)
           tasks == {n \in refs : text[d][n].task}
           defTasks == {n \in defs : Breaks(idRule.task, text[d][n].task)}
           defPrios == {n \in defs : Breaks(idRule.prio, text[d][n].prio)}
           misplaced == {n \in defs : Misplaced(idRule.heads, d, n)}
           refTasks == {n \in refs : Breaks(rule.task, text[d][n].task)}
           refPrios == {n \in refs : Breaks(rule.prio, text[d][n].prio)}
           steps == {n \in At(d, "step") : text[d][n].inst = e[4] /\ ParentOfStep(d, n) = i}
           nested == UNION {Nested(d, n) : n \in defs}
           other == CHOOSE q \in Docs : KindOf[q] # KindOf[d]
           of == CHOOSE q \in DocsOfKind(rule.target) : TRUE
<1>1. /\ \A n \in refs \cup defs : text[d][n].t \in {"def", "ref"}
      /\ refs \subseteq DOMAIN text[d] /\ defs \subseteq DOMAIN text[d]
  BY DEF Lines, At
<1>2. tasks \subseteq refs /\ defTasks \subseteq defs /\ refTasks \subseteq refs /\ misplaced \subseteq defs
  OBVIOUS
<1>3. _build_fixing_prompt(e) \in
        {Rewritten(d, steps, Tick), Rewritten(d, defs, Untick), Rewritten(d, defs, Tick), Rewritten(d, nested, Tick),
         Without(d, refs), Everywhere("def", i, Tick), Rewritten(d, refs, Untick), Rewritten(d, refs, Tick),
         Everywhere("def", i, Untick), Rewritten(d, tasks, FlipTask), Rewritten(d, defTasks, FlipTask),
         Rewritten(d, defPrios, FlipPriority), Moved(d, misplaced, idRule.heads), Moved(d, refs, rule.heads),
         [text EXCEPT ![other] = Append(@, NewRef(i, AnyRule))], Rewritten(d, refTasks, FlipTask),
         Rewritten(d, refPrios, FlipPriority),
         [text EXCEPT ![of] = InsertAt(@, PlaceFor(of, rule.heads), NewRef(i, rule))], text}
  BY DEF _build_fixing_prompt, WayOut
<1> HIDE DEF rule, idRule, refs, defs, tasks, defTasks, defPrios, misplaced, refTasks, refPrios, steps, nested, other, of
<1>4. /\ Rewritten(d, tasks, FlipTask) \in [Docs -> Seq(TextLine)]
      /\ Rewritten(d, defTasks, FlipTask) \in [Docs -> Seq(TextLine)]
      /\ Rewritten(d, refTasks, FlipTask) \in [Docs -> Seq(TextLine)]
  BY <1>1, <1>2, RewrittenText
<1>5. /\ Rewritten(d, steps, Tick) \in [Docs -> Seq(TextLine)]
      /\ Rewritten(d, defs, Untick) \in [Docs -> Seq(TextLine)]
      /\ Rewritten(d, defs, Tick) \in [Docs -> Seq(TextLine)]
      /\ Rewritten(d, nested, Tick) \in [Docs -> Seq(TextLine)]
      /\ Rewritten(d, refs, Untick) \in [Docs -> Seq(TextLine)]
      /\ Rewritten(d, refs, Tick) \in [Docs -> Seq(TextLine)]
      /\ Rewritten(d, defPrios, FlipPriority) \in [Docs -> Seq(TextLine)]
      /\ Rewritten(d, refPrios, FlipPriority) \in [Docs -> Seq(TextLine)]
  BY RewrittenText
<1>6. /\ Moved(d, misplaced, idRule.heads) \in [Docs -> Seq(TextLine)]
      /\ Moved(d, refs, rule.heads) \in [Docs -> Seq(TextLine)]
  BY <1>1, <1>2, MovedText
<1>7. /\ [text EXCEPT ![other] = Append(@, NewRef(i, AnyRule))] \in [Docs -> Seq(TextLine)]
      /\ [text EXCEPT ![of] = InsertAt(@, PlaceFor(of, rule.heads), NewRef(i, rule))] \in [Docs -> Seq(TextLine)]
  BY NewReference
<1>8. /\ Everywhere("def", i, Tick) \in [Docs -> Seq(TextLine)]
      /\ Everywhere("def", i, Untick) \in [Docs -> Seq(TextLine)]
      /\ Without(d, refs) \in [Docs -> Seq(TextLine)]
  BY EverywhereText, ShortenedText
<1> QED BY <1>3, <1>4, <1>5, <1>6, <1>7, <1>8

-----------------------------------------------------------------------------
(* The validator and the author together.                                  *)

\* A verdict depends on the artifacts and the code, and on nothing else.
LEMMA ResultStays ==
  ASSUME text' = text, code' = code, NEW m
  PROVE  Result(m)' = Result(m)
BY DEF Result, Structure, IssuesOf, Unreferenced, CodeIdsFound, ScansCode, Loads,
       ArtifactErrors, CdslErrors, ParentErrors, DefErrors, Nested, FirstDef, scan_cdsl_instructions, ParentOfStep,
       _heading_ctx_for_line, _scope_end_for_heading_idx, headings_at, Enclosing, Misplaced,
       cross_validate_artifacts, MissingConstraints, UndefinedReferences, DoneConsistency, KindPresence,
       ReferenceRules, RuleErrors, RefsInKind, PresentKinds, TaskDefs,
       scan_cpt_ids, At, ReferenceRows, DefRows, Row, RowsOf, IdsOf,
       CodeErrors, cross_validate_code, parsed_code_files_full, _parse_markers, DupScopes, Blocks, MarksAt,
       IsOpen, StartOf, list_ids, ForCode, to_code_ids, to_code_ids_task_unchecked, Instances

\* A file exchanged for another sequence of markers leaves the code well formed.
LEMMA ReplacedCode ==
  ASSUME code \in [Files -> Seq(Mark)], NEW f, NEW s, f \in Files => s \in Seq(Mark)
  PROVE  [code EXCEPT ![f] = s] \in [Files -> Seq(Mark)]
OBVIOUS

\* Following a prompt leaves the code well formed (fixing.py:367-711).
LEMMA FixedCode ==
  ASSUME code \in [Files -> Seq(Mark)], NEW e, e[3] \in Seq(STRING), e[4] \in Names
  PROVE  FixCode(e) \in [Files -> Seq(Mark)]
<1> DEFINE f == IF e[2] \in Files THEN e[2] ELSE CHOOSE g \in Files : TRUE
           i == e[3]
           inst == e[4]
           OfBlock(m) == m.id = e[3] /\ m.inst = e[4]
           begin == [t |-> "begin", id |-> i, inst |-> inst]
           line == [t |-> "code", id |-> <<>>, inst |-> ""]
           end == [t |-> "end", id |-> i, inst |-> inst]
           scope == [t |-> "scope", id |-> i, inst |-> ""]
           rest == Kept(code[f], {n \in DOMAIN code[f] : ~OfBlock(code[f][n])})
           scopeless == Kept(code[f], {n \in DOMAIN code[f] : ~(code[f][n].t = "scope" /\ code[f][n].id = e[3])})
           block == <<begin, line, end>>
           orphanless == [g \in Files |-> Kept(code[g], {n \in DOMAIN code[g] : code[g][n].id # e[3]})]
           instless == [g \in Files |-> Kept(code[g], {n \in DOMAIN code[g] : ~OfBlock(code[g][n])})]
<1>1. /\ begin \in Mark /\ line \in Mark /\ end \in Mark /\ scope \in Mark
  <2>1. "" \in Names
    BY DEF Names
  <2>2. <<>> \in Seq(STRING)
    OBVIOUS
  <2> QED BY <2>1, <2>2 DEF Mark
<1>2. FixCode(e) \in {[code EXCEPT ![f] = rest \o block], [code EXCEPT ![f] = scopeless \o <<scope>>],
                      orphanless, instless, [code EXCEPT ![f] = Append(code[f], scope)],
                      [code EXCEPT ![f] = code[f] \o block], code}
  BY DEF FixCode
<1>3. f \in Files => rest \in Seq(Mark) /\ scopeless \in Seq(Mark) /\ code[f] \in Seq(Mark)
  BY KeptType
<1>4. orphanless \in [Files -> Seq(Mark)] /\ instless \in [Files -> Seq(Mark)]
  <2>1. \A g \in Files : Kept(code[g], {n \in DOMAIN code[g] : code[g][n].id # e[3]}) \in Seq(Mark)
    BY KeptType
  <2>2. \A g \in Files : Kept(code[g], {n \in DOMAIN code[g] : ~OfBlock(code[g][n])}) \in Seq(Mark)
    BY KeptType
  <2> QED BY <2>1, <2>2
<1>5. block \in Seq(Mark) /\ <<scope>> \in Seq(Mark)
  <2> HIDE DEF begin, line, end, scope
  <2> QED BY <1>1
<1> HIDE DEF f, begin, line, end, scope, rest, scopeless, block, orphanless, instless
<1>6. f \in Files => /\ rest \o block \in Seq(Mark)
                     /\ scopeless \o <<scope>> \in Seq(Mark)
                     /\ Append(code[f], scope) \in Seq(Mark)
                     /\ code[f] \o block \in Seq(Mark)
  BY <1>1, <1>3, <1>5
<1>7. /\ [code EXCEPT ![f] = rest \o block] \in [Files -> Seq(Mark)]
      /\ [code EXCEPT ![f] = scopeless \o <<scope>>] \in [Files -> Seq(Mark)]
      /\ [code EXCEPT ![f] = Append(code[f], scope)] \in [Files -> Seq(Mark)]
      /\ [code EXCEPT ![f] = code[f] \o block] \in [Files -> Seq(Mark)]
  BY <1>6, ReplacedCode
<1> QED BY <1>2, <1>4, <1>7

\* Before the first report.
LEMMA TraceStarts ==
  ASSUME TraceInit
  PROVE  TraceTypeOK /\ VerdictTrue
<1>1. text \in [Docs -> Seq(TextLine)] /\ code \in [Files -> Seq(Mark)] /\ changes \in 0..MaxChanges
  BY TraceAssumption DEF TraceInit
<1> QED BY <1>1 DEF TraceInit, TraceTypeOK, VerdictTrue, NoVerdict, Modes

\* A report is true of the files it was made of (validate.py:285-341).
LEMMA ReportIsTrue ==
  ASSUME TraceTypeOK, VerdictTrue, NEW mode \in Modes, cmd_validate(mode)
  PROVE  TraceTypeOK' /\ VerdictTrue'
<1>1. text' = text /\ code' = code /\ changes' = changes
  BY DEF cmd_validate
<1>2. todo' = Result(mode)
  BY DEF cmd_validate
<1>3. verdict' = [status |-> IF Result(mode) = {} THEN "PASS" ELSE "FAIL", mode |-> mode, errors |-> Result(mode)]
  BY DEF cmd_validate
<1>4. \A e \in todo' : e[3] \in Seq(STRING) /\ e[4] \in Names
  BY <1>2, ResultNames
<1>5. Result(mode)' = Result(mode)
  BY <1>1, ResultStays
<1>6. /\ verdict'.status \in {"PASS", "FAIL"} /\ verdict'.mode = mode /\ verdict'.errors = Result(mode)
      /\ verdict'.status = "PASS" => Result(mode) = {}
  BY <1>3
<1>7. text' \in [Docs -> Seq(TextLine)] /\ code' \in [Files -> Seq(Mark)] /\ changes' \in 0..MaxChanges
  BY <1>1 DEF TraceTypeOK
<1>8. TraceTypeOK'
  BY <1>2, <1>4, <1>6, <1>7 DEF TraceTypeOK
<1>9. ASSUME verdict'.status = "PASS" PROVE Result(verdict.mode)' = {}
  <2>1. Result(verdict.mode)' = Result(verdict'.mode)
    BY <1>1, ResultStays
  <2> QED BY <1>6, <1>9, <2>1
<1>10. VerdictTrue'
  BY <1>6, <1>9 DEF VerdictTrue
<1> QED BY <1>8, <1>10

\* Following a prompt discards the report (fixing.py:367-711).
LEMMA RepairDiscards ==
  ASSUME TraceTypeOK, VerdictTrue, NEW e \in todo, Repair(e)
  PROVE  TraceTypeOK' /\ VerdictTrue'
<1>1. e[3] \in Seq(STRING) /\ e[4] \in Names
  BY DEF TraceTypeOK
<1>2. text' \in [Docs -> Seq(TextLine)]
  BY <1>1, PromptedText DEF Repair, TraceTypeOK
<1>3. code' \in [Files -> Seq(Mark)]
  BY <1>1, FixedCode DEF Repair, TraceTypeOK
<1>4. todo' \subseteq todo /\ verdict' = NoVerdict /\ changes' = changes
  BY DEF Repair
<1> QED BY <1>2, <1>3, <1>4 DEF TraceTypeOK, VerdictTrue, NoVerdict, Modes

\* So does any other change of the artifacts.
LEMMA EditDiscards ==
  ASSUME TraceTypeOK, VerdictTrue, NEW d \in Docs, NEW n \in DOMAIN text[d], NEW how, EditText(d, n, how)
  PROVE  TraceTypeOK' /\ VerdictTrue'
<1>1. text' \in [Docs -> Seq(TextLine)]
  <2>1. text \in [Docs -> Seq(TextLine)]
    BY DEF TraceTypeOK
  <2>2. CASE /\ text[d][n].task \/ text[d][n].t = "step"
             /\ text' = Rewritten(d, {n}, LAMBDA l : [l EXCEPT !.done = ~@])
    BY <2>1, <2>2, RewrittenText
  <2>3. CASE text' = Without(d, {n})
    BY <2>1, <2>3, ShortenedText
  <2> QED BY <2>2, <2>3 DEF EditText
<1>2. code' = code /\ todo' = todo /\ verdict' = NoVerdict /\ changes' = changes + 1 /\ changes < MaxChanges
  BY DEF EditText
<1>3. changes' \in 0..MaxChanges
  BY <1>2, TraceAssumption DEF TraceTypeOK
<1> QED BY <1>1, <1>2, <1>3 DEF TraceTypeOK, VerdictTrue, NoVerdict, Modes

\* ... or of the code.
LEMMA CodeEditDiscards ==
  ASSUME TraceTypeOK, VerdictTrue, NEW f \in Files, NEW n \in DOMAIN code[f], EditCode(f, n)
  PROVE  TraceTypeOK' /\ VerdictTrue'
<1>1. code \in [Files -> Seq(Mark)] /\ code[f] \in Seq(Mark)
  BY DEF TraceTypeOK
<1>2. Kept(code[f], DOMAIN code[f] \ {n}) \in Seq(Mark)
  BY <1>1, KeptType
<1>3. code' = [code EXCEPT ![f] = Kept(code[f], DOMAIN code[f] \ {n})]
  BY DEF EditCode
<1>4. code' \in [Files -> Seq(Mark)]
  BY <1>1, <1>2, <1>3, ReplacedCode
<1>5. text' = text /\ todo' = todo /\ verdict' = NoVerdict /\ changes' = changes + 1 /\ changes < MaxChanges
  BY DEF EditCode
<1>6. changes' \in 0..MaxChanges
  BY <1>5, TraceAssumption DEF TraceTypeOK
<1> QED BY <1>4, <1>5, <1>6 DEF TraceTypeOK, VerdictTrue, NoVerdict, Modes

\* Nothing else happens.
LEMMA TraceStep ==
  ASSUME TraceTypeOK, VerdictTrue, [TraceNext]_traceVars
  PROVE  TraceTypeOK' /\ VerdictTrue'
<1>1. ASSUME NEW mode \in Modes, cmd_validate(mode) PROVE TraceTypeOK' /\ VerdictTrue'
  BY <1>1, ReportIsTrue
<1>2. ASSUME NEW e \in todo, Repair(e) PROVE TraceTypeOK' /\ VerdictTrue'
  BY <1>2, RepairDiscards
<1>3. ASSUME NEW d \in Docs, NEW n \in DOMAIN text[d], NEW how \in Edits, EditText(d, n, how)
      PROVE  TraceTypeOK' /\ VerdictTrue'
  BY <1>3, EditDiscards
<1>4. ASSUME NEW f \in Files, NEW n \in DOMAIN code[f], EditCode(f, n) PROVE TraceTypeOK' /\ VerdictTrue'
  BY <1>4, CodeEditDiscards
<1>5. ASSUME UNCHANGED traceVars PROVE TraceTypeOK' /\ VerdictTrue'
  <2>1. text' = text /\ code' = code /\ verdict' = verdict /\ todo' = todo /\ changes' = changes
    BY <1>5 DEF traceVars
  <2>2. Result(verdict.mode)' = Result(verdict.mode)
    BY <2>1, ResultStays
  <2> QED BY <2>1, <2>2 DEF TraceTypeOK, VerdictTrue
<1> QED BY <1>1, <1>2, <1>3, <1>4, <1>5 DEF TraceNext

\* The artifacts and the code stay what the scans can read, whatever the author does
\* about a report, and a passing verdict is true of the files as they are: every change
\* discards it (validate.py:285-341, fixing.py:367-711).
THEOREM TraceTypeCorrect == TraceSpec => [](TraceTypeOK /\ VerdictTrue)
<1>1. TraceInit => TraceTypeOK /\ VerdictTrue
  BY TraceStarts
<1>2. TraceTypeOK /\ VerdictTrue /\ [TraceNext]_traceVars => (TraceTypeOK /\ VerdictTrue)'
  BY TraceStep
<1> QED BY <1>1, <1>2, PTL DEF TraceSpec

\* In a project that passes every reference to an ID of a registered system has its
\* definition (constraints.py:1034-1049).
THEOREM ReferencesAlwaysResolve == TraceSpec => []ReferencesResolve
<1>1. VerdictTrue => ReferencesResolve
  BY CleanReferencesResolve
<1> QED BY <1>1, TraceTypeCorrect, PTL

\* In a project that passes, and in which no artifact defines an ID twice, whatever a
\* ticked item rests on is ticked (constraints.py:381-507 and :1054-1105).
THEOREM DoneAlwaysRestsOnDone == TraceSpec => [](OneDefinitionPerId => DoneRestsOnDone)
<1>1. TraceTypeOK /\ VerdictTrue => (OneDefinitionPerId => DoneRestsOnDone)
  BY CleanDoneRestsOnDone
<1> QED BY <1>1, TraceTypeCorrect, PTL

\* In a project that passes, and whose definitions the scan of the steps can read, code
\* and artifacts agree (codebase.py:128-243 and :310-470).
THEOREM CodeIsAlwaysTraced == TraceSpec => [](DefsReadable => CodeIsTraced)
<1>1. TraceTypeOK /\ VerdictTrue => (DefsReadable => CodeIsTraced)
  BY CleanCodeIsTraced
<1> QED BY <1>1, TraceTypeCorrect, PTL

\* When every artifact kind has constraints, the artifacts pass one by one exactly when
\* they pass together (validate.py:331-341).
THEOREM OneByOneSuffices == TraceSpec => [](AllConstrained => OneByOneFindsAll)
<1>1. TraceTypeOK => (AllConstrained => OneByOneFindsAll)
  BY OneByOne
<1> QED BY <1>1, TraceTypeCorrect, PTL


-----------------------------------------------------------------------------
(* The table of contents.                                                  *)

\* A part of a file's lines is finite.
LEMMA LinesFinite ==
  ASSUME NEW n \in Nat, NEW S, S \subseteq 1..n
  PROVE  IsFiniteSet(S) /\ Cardinality(S) \in Nat
<1>1. IsFiniteSet(1..n)
  BY FS_Interval
<1>2. IsFiniteSet(S)
  BY <1>1, FS_Subset
<1> QED BY <1>2, FS_CardinalityType

\* Of two lines, more stand before the later one (how _unique_slug tells equal titles
\* apart, toc.py:160-170).
LEMMA CountGrows ==
  ASSUME NEW n \in Nat, NEW S, S \subseteq 1..n, NEW a \in S, NEW b \in S, a < b
  PROVE  /\ Cardinality({m \in S : m < a}) # Cardinality({m \in S : m < b})
         /\ Cardinality({m \in S : m <= a}) # Cardinality({m \in S : m <= b})
<1> DEFINE A == {m \in S : m < a}
           B == {m \in S : m < b}
           C == {m \in S : m <= a}
           D == {m \in S : m <= b}
<1>0. \A m \in S : m \in Nat
  OBVIOUS
<1>1. A \subseteq 1..n /\ B \subseteq 1..n /\ C \subseteq 1..n /\ D \subseteq 1..n
  OBVIOUS
<1>c. /\ \A m \in S : (m <= a <=> m < a \/ m = a) /\ (m <= b <=> m < b \/ m = b) /\ (m <= a => m < b)
      /\ ~(a < a) /\ ~(b < b)
  BY <1>0
<1>2. C = A \cup {a} /\ a \notin A
  BY <1>c, Zenon
<1>3. D = B \cup {b} /\ b \notin B
  BY <1>c, Zenon
<1>4. C \subseteq B
  BY <1>c, Zenon
<1> HIDE DEF A, B, C, D
<1>5. /\ IsFiniteSet(A) /\ Cardinality(A) \in Nat
      /\ IsFiniteSet(B) /\ Cardinality(B) \in Nat
      /\ IsFiniteSet(C) /\ Cardinality(C) \in Nat
      /\ IsFiniteSet(D) /\ Cardinality(D) \in Nat
  BY <1>1, LinesFinite
<1>6. Cardinality(C) = Cardinality(A) + 1
  BY <1>2, <1>5, FS_AddElement
<1>7. Cardinality(D) = Cardinality(B) + 1
  BY <1>3, <1>5, FS_AddElement
<1>8. Cardinality(C) <= Cardinality(B)
  BY <1>4, <1>5, FS_Subset
<1>9. Cardinality(A) # Cardinality(B) /\ Cardinality(C) # Cardinality(D)
  BY <1>5, <1>6, <1>7, <1>8
<1> QED BY <1>9 DEF A, B, C, D

\* So a count names one line.
LEMMA CountTellsApart ==
  ASSUME NEW n \in Nat, NEW S, S \subseteq 1..n
  PROVE  /\ \A a, b \in S : Cardinality({m \in S : m < a}) = Cardinality({m \in S : m < b}) => a = b
         /\ \A a, b \in S : Cardinality({m \in S : m <= a}) = Cardinality({m \in S : m <= b}) => a = b
<1>1. \A a, b \in S : a < b => /\ Cardinality({m \in S : m < a}) # Cardinality({m \in S : m < b})
                               /\ Cardinality({m \in S : m <= a}) # Cardinality({m \in S : m <= b})
  BY CountGrows, Zenon
<1>2. \A a, b \in S : a < b \/ b < a \/ a = b
  OBVIOUS
<1> QED BY <1>1, <1>2, Zenon

\* The lines of a set in order: each once, and before the k-th stand k - 1.
LEMMA OrderedLines ==
  ASSUME NEW n \in Nat, NEW S, S \subseteq 1..n
  PROVE  /\ Cardinality(S) \in Nat /\ DOMAIN InOrder(S) = 1..Cardinality(S) /\ Len(InOrder(S)) = Cardinality(S)
         /\ \A k \in 1..Cardinality(S) : /\ InOrder(S)[k] \in S
                                         /\ Cardinality({m \in S : m <= InOrder(S)[k]}) = k
<1> DEFINE At1(k) == CHOOSE p \in S : Cardinality({m \in S : m <= p}) = k
<1>1. Cardinality(S) \in Nat
  BY LinesFinite
<1>2. \A k \in 1..Cardinality(S) : At1(k) \in S /\ Cardinality({m \in S : m <= At1(k)}) = k
  <2>1. \A N \in Nat : \A T : T \subseteq 1..N =>
            \A k \in 1..Cardinality(T) : \E p \in T : Cardinality({m \in T : m <= p}) = k
    BY CountsReached, Zenon
  <2>2. \A k \in 1..Cardinality(S) : \E p \in S : Cardinality({m \in S : m <= p}) = k
    BY <2>1, Zenon
  <2> QED BY <2>2
<1>3. InOrder(S) = [k \in 1..Cardinality(S) |-> At1(k)]
  BY DEF InOrder
<1> HIDE DEF At1
<1>4. InOrder(S) \in [1..Cardinality(S) -> S]
  BY <1>2, <1>3
<1>5. Len(InOrder(S)) = Cardinality(S) /\ DOMAIN InOrder(S) = 1..Cardinality(S)
  BY <1>1, <1>4
<1> QED BY <1>1, <1>2, <1>3, <1>5

\* The lines of a stretch of a file.
LEMMA OrderedStretch ==
  ASSUME NEW p \in Nat, NEW c \in Nat
  PROVE  /\ Cardinality((p + 1)..(p + c)) = c
         /\ \A k \in 1..c : InOrder((p + 1)..(p + c))[k] = p + k
<1>0. PICK S : S = (p + 1)..(p + c)
  OBVIOUS
<1>n. PICK n : n = p + c
  OBVIOUS
<1>a. \A k \in 0..c : Cardinality((p + 1)..(p + k)) = k
  <2> TAKE k \in 0..c
  <2>1. p + 1 \in Int /\ p + k \in Int
    OBVIOUS
  <2>2. Cardinality((p + 1)..(p + k)) = IF p + 1 > p + k THEN 0 ELSE (p + k) - (p + 1) + 1
    BY <2>1, FS_Interval
  <2> QED BY <2>2
<1>1. Cardinality(S) = c
  BY <1>0, <1>a
<1>2. n \in Nat /\ S \subseteq 1..n
  BY <1>0, <1>n
<1>3. ASSUME NEW k \in 1..c PROVE InOrder(S)[k] = p + k
  <2>1. p + k \in S /\ {m \in S : m <= p + k} = (p + 1)..(p + k)
    BY <1>0
  <2>2. Cardinality({m \in S : m <= p + k}) = k
    <3>1. k \in 0..c
      OBVIOUS
    <3> QED BY <1>a, <2>1, <3>1, Zenon
  <2>3. InOrder(S)[k] \in S /\ Cardinality({m \in S : m <= InOrder(S)[k]}) = k
    BY <1>1, <1>2, OrderedLines
  <2>4. \A a, b \in S : Cardinality({m \in S : m <= a}) = Cardinality({m \in S : m <= b}) => a = b
    BY <1>2, CountTellsApart
  <2> QED BY <2>1, <2>2, <2>3, <2>4, Zenon
<1> QED BY <1>0, <1>1, <1>3
\* The lines outside fences, and the headings among them, are lines of the file.
LEMMA HeadingLines ==
  ASSUME NEW S, NEW ls \in Seq(S)
  PROVE  /\ Len(ls) \in Nat /\ DOMAIN ls = 1..Len(ls)
         /\ Outside(ls) \subseteq 1..Len(ls)
         /\ Headings(ls) \subseteq 1..Len(ls) /\ Headings(ls) \subseteq Outside(ls)
<1>1. Len(ls) \in Nat /\ DOMAIN ls = 1..Len(ls)
  OBVIOUS
<1>2. Outside(ls) \subseteq DOMAIN ls
  BY DEF Outside
<1> QED BY <1>1, <1>2 DEF Headings

\* What the three readers of an orderly file without a TOC heading take for its sections
\* is one set: the list is built from the headings the check expects (toc.py:251-268 and
\* :625-631).
LEMMA ListedSections ==
  ASSUME NEW S, NEW ls \in Seq(S), Orderly(ls), HeadingSection(ls) = <<>>,
         NEW hs, hs = {n \in Headings(ls) : ls[n].lvl \in 2..3}
  PROVE  /\ parse_headings(ls, 1, 3, TRUE, TRUE) = hs
         /\ parse_headings(ls, 2, 3, FALSE, FALSE) = hs
         /\ parse_headings(ls, 2, 3, FALSE, TRUE) = hs
<1>1. \A n \in Headings(ls) : ls[n].txt \notin _TOC_HEADING_NAMES
  <2> SUFFICES ASSUME NEW n \in Headings(ls), ls[n].txt \in _TOC_HEADING_NAMES PROVE FALSE
    OBVIOUS
  <2>1. ls[n] = TocHeading /\ n \in Outside(ls)
    BY HeadingLines DEF Orderly
  <2>2. HeadingSection(ls) # <<>>
    BY <2>1 DEF HeadingSection
  <2> QED BY <2>2
<1>2. \A n \in Headings(ls) : ls[n].lvl = 1 <=> n = Min(Headings(ls))
  BY DEF Orderly
<1>3. \A n \in Headings(ls) : n # Min(Headings(ls)) /\ ls[n].lvl \in 1..3 <=> ls[n].lvl \in 2..3
  <2> TAKE n \in Headings(ls)
  <2> DEFINE l == ls[n].lvl
  <2>1. l # 1 /\ l \in 1..3 <=> l \in 2..3
    OBVIOUS
  <2> QED BY <1>2, <2>1
<1>4. parse_headings(ls, 1, 3, TRUE, TRUE) = hs
  BY <1>1, <1>3, Zenon DEF parse_headings
<1>5. parse_headings(ls, 2, 3, FALSE, FALSE) = hs
  BY Zenon DEF parse_headings
<1>6. parse_headings(ls, 2, 3, FALSE, TRUE) = hs
  BY <1>1, Zenon DEF parse_headings
<1> QED BY <1>4, <1>5, <1>6

\* The block between the markers (toc.py:270-290).
LEMMA BlockMarkers ==
  ASSUME NEW S, NEW ls \in Seq(S), MarkerBlock(ls) # <<>>
  PROVE  \E o, c \in 1..Len(ls) : /\ MarkerBlock(ls) = <<o, c>> /\ o < c
                                  /\ ls[o] = TOC_MARKER_START /\ ls[c] = TOC_MARKER_END
<1> DEFINE opens == {n \in DOMAIN ls : ls[n] = TOC_MARKER_START}
           closes == {n \in DOMAIN ls : ls[n] = TOC_MARKER_END /\ n > Min(opens)}
<1>0. Len(ls) \in Nat /\ DOMAIN ls = 1..Len(ls)
  OBVIOUS
<1>1. opens # {} /\ closes # {} /\ MarkerBlock(ls) = <<Min(opens), Min(closes)>>
  BY DEF MarkerBlock
<1>2. opens \subseteq Nat
  BY <1>0
<1>3. closes \subseteq Nat
  BY <1>0
<1>4. Min(opens) \in opens
  <2> HIDE DEF opens
  <2> QED BY <1>1, <1>2, MinIsLeast
<1>5. Min(closes) \in closes
  <2> HIDE DEF closes
  <2> QED BY <1>1, <1>3, MinIsLeast
<1>6. Min(opens) \in 1..Len(ls) /\ ls[Min(opens)] = TOC_MARKER_START
  BY <1>0, <1>4
<1>7. Min(closes) \in 1..Len(ls) /\ ls[Min(closes)] = TOC_MARKER_END /\ Min(opens) < Min(closes)
  <2>1. Min(closes) \in DOMAIN ls /\ ls[Min(closes)] = TOC_MARKER_END /\ Min(closes) > Min(opens)
    BY <1>5
  <2> HIDE DEF opens, closes
  <2> QED BY <1>0, <1>6, <2>1
<1> HIDE DEF opens, closes
<1> QED BY <1>1, <1>6, <1>7, Zenon

\* Two pieces of a file one behind the other.
Joins(w, s, t) ==
    /\ Len(w) = Len(s) + Len(t)
    /\ \A k \in 1..Len(s) : w[k] = s[k]
    /\ \A k \in 1..Len(t) : w[Len(s) + k] = t[k]

\* Two pieces one behind the other.
LEMMA JoinedLines ==
  ASSUME NEW U, NEW s \in Seq(U), NEW t \in Seq(U)
  PROVE  s \o t \in Seq(U) /\ Joins(s \o t, s, t)
BY DEF Joins

\* A list put between two markers: what stands where.
FilledWith(w, ls, o, c, toc) ==
    /\ Len(toc) \in Nat /\ Len(w) = o + Len(toc) + 3 + Len(ls) - c
    /\ w[o + 1] = Blank /\ w[o + 2 + Len(toc)] = Blank
    /\ \A k \in 1..Len(toc) : w[o + 1 + k] = toc[k]

\* What insert_toc_markers writes into a block, line by line.
LEMMA FilledBlock ==
  ASSUME NEW U, NEW ls \in Seq(U), NEW toc \in Seq(U), Blank \in U,
         NEW o \in 1..Len(ls), NEW c \in 1..Len(ls)
  PROVE  \A w : w = Upto(ls, o) \o <<Blank>> \o toc \o <<Blank>> \o From(ls, c) => FilledWith(w, ls, o, c, toc)
<1>w. SUFFICES ASSUME NEW w, w = Upto(ls, o) \o <<Blank>> \o toc \o <<Blank>> \o From(ls, c)
               PROVE  FilledWith(w, ls, o, c, toc)
  OBVIOUS
<1>0. Len(ls) \in Nat /\ Len(toc) \in Nat /\ o \in Nat /\ c \in Nat
  OBVIOUS
<1>n. PICK n : n = Len(toc)
  OBVIOUS
<1>1. PICK a : a = Upto(ls, o)
  OBVIOUS
<1>2. PICK z : z = From(ls, c)
  OBVIOUS
<1>3. a \in Seq(U) /\ Len(a) = o
  BY <1>0, <1>1 DEF Upto
<1>4. z \in Seq(U) /\ Len(z) = Len(ls) - c + 1
  BY <1>0, <1>2 DEF From
<1>5. PICK b : b = <<Blank>>
  OBVIOUS
<1>6. b \in Seq(U) /\ Len(b) = 1 /\ b[1] = Blank
  BY <1>5
<1>7. PICK s1 : s1 = a \o b
  OBVIOUS
<1>9. PICK s2 : s2 = s1 \o toc
  OBVIOUS
<1>11. PICK s3 : s3 = s2 \o b
  OBVIOUS
<1>13. w = s3 \o z
  BY <1>w, <1>1, <1>2, <1>5, <1>7, <1>9, <1>11
<1>8. s1 \in Seq(U) /\ Len(s1) = o + 1 /\ s1[o + 1] = Blank
  <2>1. a \o b \in Seq(U) /\ Joins(a \o b, a, b)
    BY <1>3, <1>6, JoinedLines, Zenon
  <2>2. s1 \in Seq(U) /\ Joins(s1, a, b)
    BY <1>7, <2>1, Zenon
  <2> QED BY <1>0, <1>3, <1>6, <2>2 DEF Joins
<1>10. /\ s2 \in Seq(U) /\ Len(s2) = o + 1 + n /\ s2[o + 1] = Blank
       /\ \A k \in 1..n : s2[o + 1 + k] = toc[k]
  <2>1. s1 \o toc \in Seq(U) /\ Joins(s1 \o toc, s1, toc)
    BY <1>8, JoinedLines, Zenon
  <2>2. s2 \in Seq(U) /\ Joins(s2, s1, toc)
    BY <1>9, <2>1, Zenon
  <2> QED BY <1>0, <1>n, <1>8, <2>2 DEF Joins
<1>12. /\ s3 \in Seq(U) /\ Len(s3) = o + 2 + n /\ s3[o + 1] = Blank /\ s3[o + 2 + n] = Blank
       /\ \A k \in 1..n : s3[o + 1 + k] = toc[k]
  <2>a. s2 \o b \in Seq(U) /\ Joins(s2 \o b, s2, b)
    BY <1>6, <1>10, JoinedLines, Zenon
  <2>b. s3 \in Seq(U) /\ Joins(s3, s2, b)
    BY <1>11, <2>a, Zenon
  <2>1. /\ s3 \in Seq(U) /\ Len(s3) = Len(s2) + Len(b)
        /\ \A k \in 1..Len(s2) : s3[k] = s2[k]
        /\ \A k \in 1..Len(b) : s3[Len(s2) + k] = b[k]
    BY <2>b DEF Joins
  <2>2. n \in Nat /\ \A k \in 1..n : o + 1 + k \in 1..Len(s2)
    BY <1>0, <1>n, <1>10
  <2>3. o + 1 \in 1..Len(s2) /\ Len(s2) + 1 = o + 2 + n
    BY <1>0, <1>10, <2>2
  <2>4. s3[Len(s2) + 1] = Blank
    BY <1>6, <2>1
  <2>5. \A k \in 1..n : s3[o + 1 + k] = toc[k]
    BY <1>10, <2>1, <2>2
  <2>6. Len(s3) = o + 2 + n
    BY <1>0, <1>6, <1>10, <2>1, <2>2
  <2> QED BY <1>10, <2>1, <2>3, <2>4, <2>5, <2>6
<1>14. /\ w \in Seq(U) /\ Len(w) = Len(s3) + Len(z)
       /\ \A k \in 1..Len(s3) : w[k] = s3[k]
  <2>1. s3 \o z \in Seq(U) /\ Joins(s3 \o z, s3, z)
    BY <1>4, <1>12, JoinedLines, Zenon
  <2>2. w \in Seq(U) /\ Joins(w, s3, z)
    BY <1>13, <2>1, Zenon
  <2> QED BY <2>2 DEF Joins
<1>15. n \in Nat /\ Len(w) = o + n + 3 + Len(ls) - c
  BY <1>0, <1>n, <1>4, <1>12, <1>14
<1>16. o + 1 \in 1..Len(s3) /\ o + 2 + n \in 1..Len(s3) /\ \A k \in 1..n : o + 1 + k \in 1..Len(s3)
  BY <1>0, <1>12, <1>15
<1> QED BY <1>n, <1>12, <1>14, <1>15, <1>16 DEF FilledWith

\* The list that is built has one entry for every section, in the order of the file, with
\* the number of equal titles before it (toc.py:195-245).
ListOf(toc, ls, hs) ==
    /\ Len(toc) = Cardinality(hs) /\ Cardinality(hs) \in Nat /\ toc \in Seq({toc[k] : k \in DOMAIN toc})
    /\ \A k \in 1..Cardinality(hs) : /\ toc[k].k = "entry" /\ SameSlug(toc[k], ls[InOrder(hs)[k]])
                                     /\ toc[k].n = _unique_slug(ls, hs, InOrder(hs)[k])

\* Each entry carries the number and the title of its heading, in order.
LEMMA BuiltList ==
  ASSUME NEW n \in Nat, NEW hs, hs \subseteq 1..n, NEW ls
  PROVE  ListOf(build_toc(ls, hs, FALSE, 2), ls, hs)
<1>0. PICK toc : toc = build_toc(ls, hs, FALSE, 2)
  OBVIOUS
<1>1. Cardinality(hs) \in Nat /\ DOMAIN InOrder(hs) = 1..Cardinality(hs)
  BY OrderedLines
<1>2. PICK order : order = InOrder(hs)
  OBVIOUS
<1> DEFINE x(k) == 2 * (ls[order[k]].lvl - Min({ls[m].lvl : m \in hs}))
           y(k) == Line("entry", x(k), ls[order[k]].num, ls[order[k]].txt, _unique_slug(ls, hs, order[k]))
<1>3. toc = [k \in DOMAIN order |-> y(k)]
  BY <1>0, <1>2 DEF build_toc
<1>4. \A k : y(k).k = "entry" /\ SameSlug(y(k), ls[order[k]]) /\ y(k).n = _unique_slug(ls, hs, order[k])
  BY DEF Line, SameSlug
<1> HIDE DEF y
<1>5. DOMAIN toc = 1..Cardinality(hs) /\ \A k \in 1..Cardinality(hs) : toc[k] = y(k)
  BY <1>1, <1>2, <1>3
<1>6. toc \in [1..Cardinality(hs) -> {toc[k] : k \in DOMAIN toc}]
  BY <1>3, <1>5
<1>s. \A N \in Nat : \A T : \A f \in [1..N -> T] : f \in Seq(T) /\ Len(f) = N
  OBVIOUS
<1>7. toc \in Seq({toc[k] : k \in DOMAIN toc}) /\ Len(toc) = Cardinality(hs)
  BY <1>1, <1>6, <1>s, Zenon
<1>8. ListOf(toc, ls, hs)
  BY <1>1, <1>2, <1>4, <1>5, <1>7 DEF ListOf
<1> QED BY <1>0, <1>8, Zenon

\* Different titles have different anchors, and of equal titles no two have one number
\* (toc.py:235-243).
LEMMA AnchorsApart ==
  ASSUME NEW n \in Nat, NEW ls, Headings(ls) \subseteq 1..n, TitlesApart(ls),
         NEW a \in Headings(ls), NEW b \in Headings(ls),
         Anchor(ls, Headings(ls), a) = Anchor(ls, Headings(ls), b)
  PROVE  a = b
<1>1. PICK x : x = _unique_slug(ls, Headings(ls), a)
  OBVIOUS
<1>2. PICK y : y = _unique_slug(ls, Headings(ls), b)
  OBVIOUS
<1>3. Slug(ls[a].num, ls[a].txt, x) = Slug(ls[b].num, ls[b].txt, y)
  BY <1>1, <1>2, Zenon DEF Anchor
<1>4. /\ ls[a].txt \in DOMAIN Alias /\ ls[a].num = ls[b].num => ls[b].txt # Alias[ls[a].txt][1]
      /\ ls[b].txt \in DOMAIN Alias /\ ls[b].num = ls[a].num => ls[a].txt # Alias[ls[b].txt][1]
  BY DEF TitlesApart
<1>5. /\ ls[a].num = ls[b].num /\ ls[a].txt = ls[b].txt /\ x = y
  <2>1. PICK p : p = Alias[ls[a].txt]
    OBVIOUS
  <2>2. PICK q : q = Alias[ls[b].txt]
    OBVIOUS
  <2>3. ls[a].txt \in DOMAIN Alias => p = <<p[1], p[2]>> /\ p[1] # ls[a].txt
    BY <2>1, AliasAssumption
  <2>4. ls[b].txt \in DOMAIN Alias => q = <<q[1], q[2]>> /\ q[1] # ls[b].txt
    BY <2>2, AliasAssumption
  <2>5. ls[a].txt \in DOMAIN Alias /\ ls[b].txt \in DOMAIN Alias /\ p = q => ls[a].txt = ls[b].txt
    BY <2>1, <2>2, AliasAssumption, Zenon
  <2>6. Slug(ls[a].num, ls[a].txt, x) = IF x = 0 /\ ls[a].txt \in DOMAIN Alias THEN <<ls[a].num, p[1], p[2]>>
                                        ELSE <<ls[a].num, ls[a].txt, x>>
    BY <2>1 DEF Slug
  <2>7. Slug(ls[b].num, ls[b].txt, y) = IF y = 0 /\ ls[b].txt \in DOMAIN Alias THEN <<ls[b].num, q[1], q[2]>>
                                        ELSE <<ls[b].num, ls[b].txt, y>>
    BY <2>2 DEF Slug
  <2>8. /\ ls[a].txt \in DOMAIN Alias /\ ls[a].num = ls[b].num => ls[b].txt # p[1]
        /\ ls[b].txt \in DOMAIN Alias /\ ls[b].num = ls[a].num => ls[a].txt # q[1]
    BY <1>4, <2>1, <2>2
  <2>0. \A u1, u2, u3, v1, v2, v3 : <<u1, u2, u3>> = <<v1, v2, v3>> => u1 = v1 /\ u2 = v2 /\ u3 = v3
    OBVIOUS
  <2>a. /\ (x = 0 /\ ls[a].txt \in DOMAIN Alias) => Slug(ls[a].num, ls[a].txt, x) = <<ls[a].num, p[1], p[2]>>
        /\ ~(x = 0 /\ ls[a].txt \in DOMAIN Alias) => Slug(ls[a].num, ls[a].txt, x) = <<ls[a].num, ls[a].txt, x>>
    BY <2>6
  <2>b. /\ (y = 0 /\ ls[b].txt \in DOMAIN Alias) => Slug(ls[b].num, ls[b].txt, y) = <<ls[b].num, q[1], q[2]>>
        /\ ~(y = 0 /\ ls[b].txt \in DOMAIN Alias) => Slug(ls[b].num, ls[b].txt, y) = <<ls[b].num, ls[b].txt, y>>
    BY <2>7
  <2>9. CASE (x = 0 /\ ls[a].txt \in DOMAIN Alias) /\ (y = 0 /\ ls[b].txt \in DOMAIN Alias)
    <3>a. <<ls[a].num, p[1], p[2]>> = <<ls[b].num, q[1], q[2]>>
      BY <1>3, <2>a, <2>b, <2>9
    <3>1. ls[a].num = ls[b].num /\ p[1] = q[1] /\ p[2] = q[2]
      BY <2>0, <3>a, Zenon
    <3>2. p = q
      BY <2>3, <2>4, <2>9, <3>1
    <3> QED BY <2>5, <2>9, <3>1, <3>2
  <2>10. CASE (x = 0 /\ ls[a].txt \in DOMAIN Alias) /\ ~(y = 0 /\ ls[b].txt \in DOMAIN Alias)
    <3>a. <<ls[a].num, p[1], p[2]>> = <<ls[b].num, ls[b].txt, y>>
      BY <1>3, <2>a, <2>b, <2>10
    <3>1. ls[a].num = ls[b].num /\ p[1] = ls[b].txt
      BY <2>0, <3>a, Zenon
    <3> QED BY <2>8, <2>10, <3>1
  <2>11. CASE ~(x = 0 /\ ls[a].txt \in DOMAIN Alias) /\ (y = 0 /\ ls[b].txt \in DOMAIN Alias)
    <3>a. <<ls[a].num, ls[a].txt, x>> = <<ls[b].num, q[1], q[2]>>
      BY <1>3, <2>a, <2>b, <2>11
    <3>1. ls[a].num = ls[b].num /\ q[1] = ls[a].txt
      BY <2>0, <3>a, Zenon
    <3> QED BY <2>8, <2>11, <3>1
  <2>12. CASE ~(x = 0 /\ ls[a].txt \in DOMAIN Alias) /\ ~(y = 0 /\ ls[b].txt \in DOMAIN Alias)
    <3>a. <<ls[a].num, ls[a].txt, x>> = <<ls[b].num, ls[b].txt, y>>
      BY <1>3, <2>a, <2>b, <2>12
    <3> QED BY <2>0, <3>a, Zenon
  <2> QED BY <2>9, <2>10, <2>11, <2>12, Zenon
<1>6. PICK same : same = {m \in Headings(ls) : SameSlug(ls[m], ls[a])}
  OBVIOUS
<1>7. a \in same /\ b \in same /\ same \subseteq 1..n
  BY <1>5, <1>6 DEF SameSlug
<1>8. x = Cardinality({m \in same : m < a}) /\ y = Cardinality({m \in same : m < b})
  <2>1. {m \in Headings(ls) : m < a /\ SameSlug(ls[m], ls[a])} = {m \in same : m < a}
    BY <1>6
  <2>2. {m \in Headings(ls) : m < b /\ SameSlug(ls[m], ls[b])} = {m \in same : m < b}
    BY <1>5, <1>6 DEF SameSlug
  <2> QED BY <1>1, <1>2, <2>1, <2>2, Zenon DEF _unique_slug
<1>9. \A u, v \in same : Cardinality({m \in same : m < u}) = Cardinality({m \in same : m < v}) => u = v
  BY <1>7, CountTellsApart
<1> QED BY <1>5, <1>7, <1>8, <1>9, Zenon

\* An entry with a section's title and the number of equal titles before it leads to that
\* section, when equal titles are all sections (toc.py:160-170 and :235-243).
EntryFor(ls, hs, h, e) == SameSlug(ls[e], ls[h]) /\ ls[e].n = _unique_slug(ls, hs, h)
EqualTitlesIn(ls, hs, h) == \A m \in Headings(ls) : SameSlug(ls[m], ls[h]) => m \in hs

\* An entry made for a heading leads to it.
LEMMA EntryLeads ==
  ASSUME NEW n \in Nat, NEW ls, Headings(ls) \subseteq 1..n, TitlesApart(ls),
         NEW hs, hs \subseteq Headings(ls), NEW h \in hs, EqualTitlesIn(ls, hs, h),
         NEW e, EntryFor(ls, hs, h, e)
  PROVE  Target(ls, e) = {h}
<1>1. _unique_slug(ls, hs, h) = _unique_slug(ls, Headings(ls), h)
  <2>1. {m \in hs : m < h /\ SameSlug(ls[m], ls[h])} = {m \in Headings(ls) : m < h /\ SameSlug(ls[m], ls[h])}
    BY DEF EqualTitlesIn
  <2> QED BY <2>1 DEF _unique_slug
<1>2. ls[e].num = ls[h].num /\ ls[e].txt = ls[h].txt /\ ls[e].n = _unique_slug(ls, Headings(ls), h)
  BY <1>1 DEF EntryFor, SameSlug
<1>3. Link(ls[e]) = Anchor(ls, Headings(ls), h)
  BY <1>2, Zenon DEF Link, Anchor
<1>4. PICK same : same = {m \in Headings(ls) : Anchor(ls, Headings(ls), m) = Link(ls[e])}
  OBVIOUS
<1>5. h \in Headings(ls) /\ h \in same
  BY <1>3, <1>4
<1>6. \A m \in same : m = h
  <2> TAKE m \in same
  <2>1. m \in Headings(ls) /\ Anchor(ls, Headings(ls), m) = Anchor(ls, Headings(ls), h)
    BY <1>3, <1>4
  <2> QED BY <1>5, <2>1, AnchorsApart
<1>7. Target(ls, e) = {m \in same : \A q \in same : m <= q}
  BY <1>4, Zenon DEF Target
<1>8. same = {h} /\ h \in Nat
  BY <1>5, <1>6
<1>9. {m \in {h} : \A q \in {h} : m <= q} = {h}
  BY <1>8
<1> QED BY <1>7, <1>8, <1>9, Zenon

\* A file without TOC issues, with markers, is as a fresh list would leave it.
LEMMA CleanTocIsFresh ==
  ASSUME NEW ls, validate_toc(ls, 3) = {}, parse_headings(ls, 1, 3, TRUE, TRUE) # {}, HeadingSection(ls) = <<>>
  PROVE  MarkerBlock(ls) # <<>> /\ insert_toc_markers(ls, 3) = ls
<1> DEFINE hs == parse_headings(ls, 1, 3, TRUE, TRUE)
           s == _find_toc_section(ls)
           expected == _build_expected_anchors(ls, hs)
           listed == {Link(ls[n]) : n \in _extract_toc_entries(ls, s)}
           found == (IF listed \subseteq expected THEN {} ELSE {"TOC_ANCHOR_BROKEN"})
                    \cup (IF expected \subseteq listed THEN {} ELSE {"TOC_HEADING_NOT_IN_TOC"})
           fresh == IF HeadingSection(ls) # <<>> THEN insert_toc_heading(ls, 3) ELSE insert_toc_markers(ls, 3)
<1>1. validate_toc(ls, 3) = CASE hs = {} -> {}
                              [] hs # {} /\ s = <<>> -> {"TOC_MISSING"}
                              [] OTHER -> IF found # {} \/ fresh = ls THEN found ELSE {"TOC_STALE"}
  BY DEF validate_toc
<1>2. fresh = insert_toc_markers(ls, 3)
  OBVIOUS
<1>3. hs # {}
  OBVIOUS
<1>4. MarkerBlock(ls) = <<>> => s = <<>>
  BY DEF _find_toc_section
<1> HIDE DEF hs, s, found, fresh
<1>5. s # <<>> /\ fresh = ls
  BY <1>1, <1>3
<1> QED BY <1>2, <1>4, <1>5

\* Every section is listed, in order, and every entry leads to its own.
LEMMA CleanTocLeads ==
  ASSUME NEW S, NEW ls \in Seq(S)
  PROVE  validate_toc(ls, 3) = {} /\ Orderly(ls) /\ HeadingSection(ls) = <<>> /\ HasSections(ls) /\ TitlesApart(ls)
            => AnchorsLead(ls)
<1>h. SUFFICES ASSUME validate_toc(ls, 3) = {}, Orderly(ls), HeadingSection(ls) = <<>>, HasSections(ls),
                      TitlesApart(ls)
               PROVE  AnchorsLead(ls)
  OBVIOUS
<1>0. Len(ls) \in Nat /\ Headings(ls) \subseteq 1..Len(ls)
  BY HeadingLines
<1>1. PICK hs : hs = {n \in Headings(ls) : ls[n].lvl \in 2..3}
  OBVIOUS
<1>2. /\ parse_headings(ls, 1, 3, TRUE, TRUE) = hs
      /\ parse_headings(ls, 2, 3, FALSE, FALSE) = hs
      /\ parse_headings(ls, 2, 3, FALSE, TRUE) = hs
  BY <1>h, <1>1, ListedSections
<1>3. hs # {} /\ hs \subseteq 1..Len(ls) /\ hs \subseteq Headings(ls)
  BY <1>h, <1>0, <1>1, <1>2 DEF HasSections
<1>4. MarkerBlock(ls) # <<>> /\ insert_toc_markers(ls, 3) = ls
  BY <1>h, <1>2, <1>3, CleanTocIsFresh
<1>5. PICK o, c \in 1..Len(ls) : /\ MarkerBlock(ls) = <<o, c>> /\ o < c
                                 /\ ls[o] = TOC_MARKER_START /\ ls[c] = TOC_MARKER_END
  BY <1>4, BlockMarkers
<1>6. PICK toc : toc = build_toc(ls, hs, FALSE, 2)
  OBVIOUS
<1>7. ls = Upto(ls, o) \o <<Blank>> \o toc \o <<Blank>> \o From(ls, c)
  <2>1. insert_toc_markers(ls, 3) = Upto(ls, MarkerBlock(ls)[1]) \o <<Blank>> \o toc \o <<Blank>> \o From(ls, MarkerBlock(ls)[2])
    BY <1>2, <1>3, <1>4, <1>6 DEF insert_toc_markers
  <2>2. MarkerBlock(ls)[1] = o /\ MarkerBlock(ls)[2] = c
    BY <1>5
  <2> QED BY <1>4, <2>1, <2>2, Zenon
<1>8. PICK k0 : k0 = Cardinality(hs)
  OBVIOUS
<1>9. /\ Len(toc) = k0 /\ k0 \in Nat /\ toc \in Seq({toc[k] : k \in DOMAIN toc})
      /\ \A k \in 1..k0 : /\ toc[k].k = "entry" /\ SameSlug(toc[k], ls[InOrder(hs)[k]])
                          /\ toc[k].n = _unique_slug(ls, hs, InOrder(hs)[k])
  <2>1. PICK n : n = Len(ls)
    OBVIOUS
  <2>2. n \in Nat /\ hs \subseteq 1..n
    BY <1>0, <1>3, <2>1
  <2>3. ListOf(toc, ls, hs)
    BY <1>6, <2>2, BuiltList, Zenon
  <2> QED BY <1>8, <2>3, Zenon DEF ListOf
<1>10. /\ c = o + k0 + 3 /\ ls[o + 1] = Blank /\ ls[o + 2 + k0] = Blank
       /\ \A k \in 1..k0 : ls[o + 1 + k] = toc[k]
  <2>1. PICK U : U = S \cup {toc[k] : k \in DOMAIN toc} \cup {Blank}
    OBVIOUS
  <2>2. ls \in Seq(U) /\ toc \in Seq(U) /\ Blank \in U
    BY <1>9, <2>1
  <2>3. FilledWith(ls, ls, o, c, toc)
    BY <1>5, <1>7, <2>2, FilledBlock, Zenon
  <2>4. /\ Len(ls) = o + Len(toc) + 3 + Len(ls) - c
        /\ ls[o + 1] = Blank /\ ls[o + 2 + Len(toc)] = Blank
        /\ \A k \in 1..Len(toc) : ls[o + 1 + k] = toc[k]
    BY <2>3 DEF FilledWith
  <2> QED BY <1>0, <1>9, <2>4
<1>11. Linked(ls) = ((o + 1) + 1)..((o + 1) + k0)
  <2>1. HeadingSection(ls) = <<>> /\ _find_toc_section(ls) = <<o, c + 1>>
    BY <1>h, <1>5 DEF _find_toc_section
  <2>2. Linked(ls) = {n \in o..c : ls[n].k = "entry"}
    BY <1>0, <2>1 DEF Linked
  <2>3. ls[o].k # "entry" /\ ls[c].k # "entry" /\ ls[o + 1].k # "entry" /\ ls[o + 2 + k0].k # "entry"
    <3>1. TOC_MARKER_START.k # "entry" /\ TOC_MARKER_END.k # "entry" /\ Blank.k # "entry"
      BY DEF TOC_MARKER_START, TOC_MARKER_END, Blank, Line
    <3> QED BY <1>5, <1>10, <3>1, Zenon
  <2>4. \A n \in (o + 2)..(o + 1 + k0) : ls[n].k = "entry"
    <3> TAKE n \in (o + 2)..(o + 1 + k0)
    <3>1. PICK k : k = n - (o + 1)
      OBVIOUS
    <3>2. k \in 1..k0 /\ n = o + 1 + k
      <4>1. k0 \in Nat /\ o \in Nat
        BY <1>9
      <4> QED BY <3>1, <4>1
    <3>3. ls[o + 1 + k].k = "entry"
      BY <1>9, <1>10, <3>2, Zenon
    <3> QED BY <3>2, <3>3
  <2>5. \A n \in o..c : n = o \/ n = c \/ n = o + 1 \/ n = o + 2 + k0 \/ n \in (o + 2)..(o + 1 + k0)
    BY <1>9, <1>10
  <2>6. (o + 2)..(o + 1 + k0) \subseteq o..c
    BY <1>9, <1>10
  <2>7. Linked(ls) = (o + 2)..(o + 1 + k0)
    BY <2>2, <2>3, <2>4, <2>5, <2>6, Zenon
  <2> QED BY <1>9, <2>7
<1>12. /\ Cardinality(Linked(ls)) = k0
       /\ \A k \in 1..k0 : InOrder(Linked(ls))[k] = (o + 1) + k
  <2>1. PICK p : p = o + 1
    OBVIOUS
  <2>2. p \in Nat /\ k0 \in Nat
    BY <1>9, <2>1
  <2>3. /\ Cardinality((p + 1)..(p + k0)) = k0
        /\ \A k \in 1..k0 : InOrder((p + 1)..(p + k0))[k] = p + k
    BY <2>2, OrderedStretch, Zenon
  <2> QED BY <1>11, <2>1, <2>3, Zenon
<1>13. Len(InOrder(Linked(ls))) = k0 /\ DOMAIN InOrder(Linked(ls)) = 1..k0
  <2>1. PICK n : n = (o + 1) + k0
    OBVIOUS
  <2>2. n \in Nat /\ Linked(ls) \subseteq 1..n
    BY <1>9, <1>11, <2>1
  <2> QED BY <1>12, <2>2, OrderedLines
<1>14. Len(InOrder(hs)) = k0 /\ \A k \in 1..k0 : InOrder(hs)[k] \in hs
  BY <1>0, <1>3, <1>8, OrderedLines
<1>15. \A k \in 1..k0 : Target(ls, InOrder(Linked(ls))[k]) = {InOrder(hs)[k]}
  <2> TAKE k \in 1..k0
  <2>1. PICK h : h = InOrder(hs)[k]
    OBVIOUS
  <2>2. PICK e : e = (o + 1) + k
    OBVIOUS
  <2>3. h \in hs /\ ls[e] = toc[k] /\ InOrder(Linked(ls))[k] = e
    BY <1>10, <1>12, <1>14, <2>1, <2>2
  <2>4. SameSlug(ls[e], ls[h]) /\ ls[e].n = _unique_slug(ls, hs, h)
    BY <1>9, <2>1, <2>3
  <2>5. \A m \in Headings(ls) : SameSlug(ls[m], ls[h]) => m \in hs
    <3> SUFFICES ASSUME NEW m \in Headings(ls), SameSlug(ls[m], ls[h]) PROVE m \in hs
      OBVIOUS
    <3>1. h \in Headings(ls) /\ ls[h].lvl \in 2..3
      BY <1>1, <2>3
    <3>2. ls[m].lvl \notin 2..3 => ~SameSlug(ls[m], ls[h])
      BY <1>h, <3>1 DEF TitlesApart
    <3> QED BY <1>1, <3>2
  <2>6. Target(ls, e) = {h}
    <3>1. PICK n : n = Len(ls)
      OBVIOUS
    <3>2. n \in Nat /\ Headings(ls) \subseteq 1..n
      BY <1>0, <3>1
    <3>3. EntryFor(ls, hs, h, e) /\ EqualTitlesIn(ls, hs, h)
      BY <2>4, <2>5 DEF EntryFor, EqualTitlesIn
    <3>4. hs \subseteq Headings(ls) /\ h \in hs
      BY <1>3, <2>3
    <3> QED BY <1>h, <3>2, <3>3, <3>4, EntryLeads, Zenon
  <2> QED BY <2>1, <2>3, <2>6
<1> QED BY <1>2, <1>13, <1>14, <1>15 DEF AnchorsLead

\* What the commands and the author write is a file again: a sequence of lines.
File(s) == s \in Seq({s[n] : n \in DOMAIN s})

\* The lines of a file are numbered from one on.
LEMMA FileLength == ASSUME NEW s, File(s) PROVE Len(s) \in Nat /\ DOMAIN s = 1..Len(s)
BY DEF File

\* A sequence is one of its own elements.
LEMMA LinesOfFile == ASSUME NEW U, NEW s \in Seq(U) PROVE File(s)
<1>1. s \in [1..Len(s) -> {s[n] : n \in DOMAIN s}] /\ Len(s) \in Nat
  OBVIOUS
<1>2. \A N \in Nat : \A T : \A f \in [1..N -> T] : f \in Seq(T)
  OBVIOUS
<1> QED BY <1>1, <1>2, Zenon DEF File

\* Lines numbered from one on are a file.
LEMMA NumberedLines == ASSUME NEW N \in Nat, NEW s, s = [k \in 1..N |-> s[k]] PROVE File(s)
<1>1. s \in [1..N -> {s[n] : n \in DOMAIN s}]
  OBVIOUS
<1>2. \A M \in Nat : \A T : \A f \in [1..M -> T] : f \in Seq(T)
  OBVIOUS
<1> QED BY <1>1, <1>2, Zenon DEF File

\* A stretch of a file is a file, and so are its beginning and its end.
LEMMA PartIsFile == ASSUME NEW s, NEW m \in Int, NEW n \in Int PROVE File(SubSeq(s, m, n))
<1>1. PICK w : w = SubSeq(s, m, n)
  OBVIOUS
<1>2. PICK N : N = IF n >= m THEN n - m + 1 ELSE 0
  OBVIOUS
<1>3. N \in Nat /\ 1..(n - m + 1) = 1..N
  BY <1>2
<1>4. w = [i \in 1..(n - m + 1) |-> s[i + m - 1]]
  BY <1>1
<1>5. w = [i \in 1..N |-> w[i]]
  BY <1>3, <1>4
<1>6. File(w)
  BY <1>3, <1>5, NumberedLines, Zenon
<1> QED BY <1>1, <1>6, Zenon

\* The beginning and the end of a file are files.
LEMMA EndsAreFiles == ASSUME NEW s, File(s), NEW n \in Int PROVE File(Upto(s, n)) /\ File(From(s, n))
<1>1. Len(s) \in Int /\ 1 \in Int
  BY FileLength
<1> QED BY <1>1, PartIsFile DEF Upto, From

\* Files one behind the other are a file.
LEMMA JoinIsFile == ASSUME NEW s, File(s), NEW t, File(t) PROVE File(s \o t)
<1>1. PICK U : s \in Seq(U)
  BY DEF File
<1>2. PICK V : t \in Seq(V)
  BY DEF File
<1>3. s \o t \in Seq(U \cup V)
  BY <1>1, <1>2
<1> QED BY <1>3, LinesOfFile, Zenon

\* Single lines are files, and so is what "\n".join makes of a file.
LEMMA FewLines == \A x, y, z : File(<<x>>) /\ File(<<x, y>>) /\ File(<<x, y, z>>)
<1> TAKE x, y, z
<1>1. <<x>> \in Seq({x, y, z}) /\ <<x, y>> \in Seq({x, y, z}) /\ <<x, y, z>> \in Seq({x, y, z})
  OBVIOUS
<1> QED BY <1>1, LinesOfFile, Zenon

\* No lines at all are written as one empty line.
LEMMA JoinedIsFile == ASSUME NEW s, File(s) PROVE File(Join(s))
BY FewLines DEF Join

\* A line of a file replaced by another.
LEMMA ReplacedLine == ASSUME NEW s, File(s), NEW n, NEW x PROVE File([s EXCEPT ![n] = x])
<1>1. PICK U : s \in Seq(U)
  BY DEF File
<1>2. Len(s) \in Nat /\ s \in [1..Len(s) -> U]
  BY <1>1
<1>3. \A N \in Nat : \A T : \A f \in [1..N -> T] : f \in Seq(T)
  OBVIOUS
<1>4. [s EXCEPT ![n] = x] \in [1..Len(s) -> U \cup {x}]
  BY <1>2
<1>5. [s EXCEPT ![n] = x] \in Seq(U \cup {x})
  BY <1>2, <1>3, <1>4, Zenon
<1> QED BY <1>5, LinesOfFile, Zenon

\* The headings of a file, whichever are asked for, are lines of it.
LEMMA HeadingsInFile ==
  ASSUME NEW ls, File(ls), NEW lo, NEW hi, NEW a, NEW b
  PROVE  Headings(ls) \subseteq 1..Len(ls) /\ Outside(ls) \subseteq 1..Len(ls)
         /\ parse_headings(ls, lo, hi, a, b) \subseteq 1..Len(ls)
<1>1. Headings(ls) \subseteq 1..Len(ls) /\ Outside(ls) \subseteq 1..Len(ls)
  BY HeadingLines DEF File
<1>2. parse_headings(ls, lo, hi, a, b) \subseteq Headings(ls)
  BY DEF parse_headings
<1> QED BY <1>1, <1>2

\* A list that is built is a file.
LEMMA ListIsFile ==
  ASSUME NEW n \in Nat, NEW hs, hs \subseteq 1..n, NEW ls, NEW numbered, NEW indent
  PROVE  File(build_toc(ls, hs, numbered, indent))
<1>1. PICK toc : toc = build_toc(ls, hs, numbered, indent)
  OBVIOUS
<1>2. PICK N : N = Cardinality(hs)
  OBVIOUS
<1>3. N \in Nat /\ DOMAIN InOrder(hs) = 1..N
  BY <1>2, OrderedLines
<1>4. toc = [k \in DOMAIN InOrder(hs) |-> toc[k]]
  BY <1>1 DEF build_toc
<1>5. toc = [k \in 1..N |-> toc[k]]
  BY <1>3, <1>4, Zenon
<1>6. File(toc)
  BY <1>3, <1>5, NumberedLines, Zenon
<1> QED BY <1>1, <1>6, Zenon

\* How long the end of a file is.
LEMMA TailLength ==
  ASSUME NEW ls, File(ls), NEW n \in 1..(Len(ls) + 1)
  PROVE  File(From(ls, n)) /\ Len(From(ls, n)) = Len(ls) - n + 1
<1>0. Len(ls) \in Nat /\ n \in Int
  BY FileLength
<1>1. PICK U : ls \in Seq(U)
  BY DEF File
<1>2. Len(SubSeq(ls, n, Len(ls))) = Len(ls) - n + 1
  BY <1>0, <1>1
<1> QED BY <1>0, <1>2, EndsAreFiles DEF From

\* The least of some lines is a number.
LEMMA LeastIsNat == ASSUME NEW S, S \subseteq Nat, S # {} PROVE Min(S) \in Nat /\ Min(S) \in Int
<1>1. Min(S) \in S
  BY MinIsLeast
<1>2. \A x \in S : x \in Nat /\ x \in Int
  OBVIOUS
<1> QED BY <1>1, <1>2, Zenon

\* A section is widened over blank lines only (toc.py:316-330).
LEMMA WidenedBlank ==
  ASSUME NEW ls, File(ls), NEW a \in 1..(Len(ls) + 1), NEW b \in 1..(Len(ls) + 1)
  PROVE  \E v \in 1..a, z \in b..(Len(ls) + 1) :
            /\ Widened(ls, <<a, b>>) = <<v, z>>
            /\ \A k \in v..(a - 1) : ls[k] = Blank
            /\ \A k \in b..(z - 1) : ls[k] = Blank
<1>0. Len(ls) \in Nat
  BY FileLength
<1>1. PICK A : A = {m \in 1..a : \A k \in m..(a - 1) : ls[k] = Blank}
  OBVIOUS
<1>2. PICK B : B = {m \in b..(Len(ls) + 1) : \A k \in b..(m - 1) : ls[k] = Blank}
  OBVIOUS
<1>3. A \subseteq Nat /\ a \in A
  BY <1>0, <1>1
<1>4. PICK top : top = Len(ls) + 1
  OBVIOUS
<1>5. top \in Nat /\ B \subseteq 0..top /\ b \in B
  BY <1>0, <1>2, <1>4
<1>6. Min(A) \in A
  BY <1>3, MinIsLeast
<1>7. Max(B) \in B
  <2>1. B # {}
    BY <1>5
  <2> QED BY <1>5, <2>1, MaxIsGreatest, Zenon
<1>8. Widened(ls, <<a, b>>) = <<Min(A), Max(B)>>
  BY <1>1, <1>2 DEF Widened
<1>9. Min(A) \in 1..a /\ \A k \in Min(A)..(a - 1) : ls[k] = Blank
  BY <1>1, <1>6, Zenon
<1>10. Max(B) \in b..(Len(ls) + 1) /\ \A k \in b..(Max(B) - 1) : ls[k] = Blank
  BY <1>2, <1>7, Zenon
<1> QED BY <1>8, <1>9, <1>10, Zenon

\* So a section with its blank lines begins and ends at lines of the file.
LEMMA WidenedPlaces ==
  ASSUME NEW ls, File(ls), NEW a \in 1..(Len(ls) + 1), NEW b \in 1..(Len(ls) + 1)
  PROVE  Widened(ls, <<a, b>>)[1] \in Int /\ Widened(ls, <<a, b>>)[2] \in Int
<1>1. PICK v \in 1..a, z \in b..(Len(ls) + 1) : Widened(ls, <<a, b>>) = <<v, z>>
  BY WidenedBlank
<1> QED BY <1>1, FileLength

\* Where the section a person wrote begins and ends.
LEMMA SectionAt ==
  ASSUME NEW ls, File(ls), HeadingSection(ls) # <<>>
  PROVE  \E a, b \in 1..(Len(ls) + 1) :
            /\ a < b /\ HeadingSection(ls) = <<a, b>> /\ ls[a] = TocHeading
            /\ a = Min({n \in Outside(ls) : ls[n] = TocHeading})
<1>0. Len(ls) \in Nat
  BY FileLength
<1>1. PICK at : at = {n \in Outside(ls) : ls[n] = TocHeading}
  OBVIOUS
<1>2. at # {} /\ HeadingSection(ls) = <<Min(at), _next_heading_or_separator(ls, Min(at) + 1)>>
  BY <1>1 DEF HeadingSection
<1>3. at \subseteq 1..Len(ls)
  BY <1>1, HeadingsInFile
<1>4. PICK a : a = Min(at)
  OBVIOUS
<1>5. a \in 1..Len(ls) /\ ls[a] = TocHeading
  <2>1. at \subseteq Nat
    BY <1>3
  <2>2. Min(at) \in at
    BY <1>2, <2>1, MinIsLeast
  <2> QED BY <1>1, <1>3, <1>4, <2>2
<1>6. PICK rest : rest = From(ls, a + 1)
  OBVIOUS
<1>7. File(rest) /\ Len(rest) = Len(ls) - a
  <2>1. PICK n : n = a + 1
    OBVIOUS
  <2>2. n \in 1..(Len(ls) + 1) /\ Len(ls) - n + 1 = Len(ls) - a
    BY <1>0, <1>5, <2>1
  <2>3. File(From(ls, n)) /\ Len(From(ls, n)) = Len(ls) - n + 1
    BY <2>2, TailLength, Zenon
  <2> QED BY <1>6, <2>1, <2>2, <2>3
<1>8. PICK ends : ends = {m \in Outside(rest) : rest[m].k \in {"head", "sep"}}
  OBVIOUS
<1>9. ends \subseteq 1..Len(rest)
  BY <1>7, <1>8, HeadingsInFile
<1>10. _next_heading_or_separator(ls, a + 1) = IF ends = {} THEN Len(ls) + 1 ELSE (a + 1) - 1 + Min(ends)
  BY <1>6, <1>8, Zenon DEF _next_heading_or_separator
<1>11. _next_heading_or_separator(ls, a + 1) \in (a + 1)..(Len(ls) + 1)
  <2>1. CASE ends = {}
    BY <1>0, <1>5, <1>10, <2>1
  <2>2. CASE ends # {}
    <3>1. ends \subseteq Nat
      BY <1>7, <1>9, FileLength
    <3>2. Min(ends) \in ends
      BY <2>2, <3>1, MinIsLeast
    <3>3. Min(ends) \in 1..Len(rest)
      BY <1>9, <3>2
    <3> QED BY <1>0, <1>5, <1>7, <1>10, <2>2, <3>3
  <2> QED BY <2>1, <2>2
<1>12. PICK b : b = _next_heading_or_separator(ls, a + 1)
  OBVIOUS
<1>13. a \in 1..(Len(ls) + 1) /\ b \in 1..(Len(ls) + 1) /\ a < b
  BY <1>0, <1>5, <1>11, <1>12
<1> QED BY <1>1, <1>2, <1>4, <1>5, <1>12, <1>13, Zenon

\* The place for a new section is a line of the file or the one behind it.
LEMMA NewSectionRange ==
  ASSUME NEW ls, File(ls)
  PROVE  SectionPlace(ls) \in 1..(Len(ls) + 1)
<1>0. Len(ls) \in Nat /\ Len(ls) + 1 \in Nat
  BY FileLength
<1>1. PICK closing : closing = {n \in 2..Len(ls) : ls[n] = Separator}
  OBVIOUS
<1>2. PICK body : body = IF ls = <<>> THEN 1 ELSE
                         IF ls[1] # Separator THEN 1 ELSE IF closing = {} THEN Len(ls) + 1 ELSE Min(closing) + 1
  OBVIOUS
<1>3. body \in 1..(Len(ls) + 1)
  <2>1. closing \subseteq 2..Len(ls)
    BY <1>1
  <2>2. closing \subseteq Nat
    BY <1>0, <2>1
  <2>3. closing # {} => Min(closing) \in closing
    BY <2>2, MinIsLeast
  <2>4. closing # {} => Min(closing) \in 2..Len(ls)
    BY <2>1, <2>3
  <2> QED BY <1>0, <1>2, <2>4
<1>4. PICK seps : seps = {n \in body..Len(ls) : ls[n] = Separator}
  OBVIOUS
<1>5. seps # {} => Min(seps) \in 1..(Len(ls) + 1)
  <2>1. seps \subseteq 1..(Len(ls) + 1)
    BY <1>0, <1>3, <1>4
  <2>2. seps \subseteq Nat
    BY <1>0, <2>1
  <2>3. seps # {} => Min(seps) \in seps
    BY <2>2, MinIsLeast
  <2> QED BY <2>1, <2>3, Zenon
<1>6. PICK rest : rest = From(ls, body)
  OBVIOUS
<1>7. File(rest) /\ Len(rest) = Len(ls) - body + 1
  <2>1. File(From(ls, body)) /\ Len(From(ls, body)) = Len(ls) - body + 1
    BY <1>3, TailLength, Zenon
  <2> QED BY <1>6, <2>1, Zenon
<1>8. PICK hds : hds = {body - 1 + n : n \in Headings(rest)}
  OBVIOUS
<1>9. hds \subseteq 1..Len(ls)
  <2>1. Headings(rest) \subseteq 1..Len(rest)
    BY <1>7, HeadingsInFile
  <2>2. \A n \in 1..Len(rest) : body - 1 + n \in 1..Len(ls)
    BY <1>0, <1>3, <1>7
  <2> QED BY <1>8, <2>1, <2>2
<1>10. PICK from : from = Min(hds) + 1
  OBVIOUS
<1>11. PICK ends : ends = {m \in from..(Len(ls) + 1) : \A k \in from..(m - 1) : Metadata(ls[k])}
  OBVIOUS
<1>12. hds # {} => Max(ends) \in 1..(Len(ls) + 1)
  <2> SUFFICES ASSUME hds # {} PROVE Max(ends) \in 1..(Len(ls) + 1)
    OBVIOUS
  <2>1. hds \subseteq Nat
    BY <1>0, <1>9
  <2>2. Min(hds) \in hds
    BY <2>1, MinIsLeast
  <2>a. Min(hds) \in 1..Len(ls)
    BY <1>9, <2>2
  <2>3. from \in 2..(Len(ls) + 1)
    BY <1>0, <1>10, <2>a
  <2>4. PICK top : top = Len(ls) + 1
    OBVIOUS
  <2>5. top \in Nat /\ ends \subseteq 0..top /\ from \in ends /\ ends \subseteq 1..(Len(ls) + 1)
    BY <1>0, <1>11, <2>3, <2>4
  <2>6. ends # {}
    BY <2>5
  <2>7. Max(ends) \in ends
    BY <2>5, <2>6, MaxIsGreatest, Zenon
  <2> QED BY <2>5, <2>7, Zenon
<1>13. SectionPlace(ls) = CASE seps # {} -> Min(seps)
                            [] seps = {} /\ hds # {} -> Max(ends)
                            [] OTHER -> 1
  BY <1>1, <1>2, <1>4, <1>6, <1>8, <1>10, <1>11 DEF SectionPlace
<1> QED BY <1>0, <1>5, <1>12, <1>13

\* The file without the section a person wrote is a file (toc.py:520-560).
LEMMA StrippedIsFile == ASSUME NEW ls, File(ls) PROVE File(_strip_manual_toc(ls))
<1>1. CASE HeadingSection(ls) = <<>>
  BY <1>1 DEF _strip_manual_toc
<1>2. CASE HeadingSection(ls) # <<>>
  <2>1. PICK a, b \in 1..(Len(ls) + 1) : HeadingSection(ls) = <<a, b>>
    BY <1>2, SectionAt
  <2>2. PICK w : w = Widened(ls, <<a, b>>)
    OBVIOUS
  <2>3. w[1] \in Int /\ w[2] \in Int
    BY <2>2, WidenedPlaces
  <2>4. PICK x : x = Upto(ls, w[1] - 1)
    OBVIOUS
  <2>5. PICK y : y = From(ls, w[2])
    OBVIOUS
  <2>6. File(x)
    <3>1. w[1] - 1 \in Int
      BY <2>3
    <3> QED BY <2>4, <3>1, EndsAreFiles
  <2>7. File(y)
    BY <2>3, <2>5, EndsAreFiles
  <2>8. _strip_manual_toc(ls) = Join(x \o y)
    BY <1>2, <2>1, <2>2, <2>4, <2>5, Zenon DEF _strip_manual_toc
  <2>9. File(x \o y)
    BY <2>6, <2>7, JoinIsFile
  <2>10. File(Join(x \o y))
    BY <2>9, JoinedIsFile, Zenon
  <2> QED BY <2>8, <2>10, Zenon
<1> QED BY <1>1, <1>2

\* What insert_toc_markers writes is a file (toc.py:251-330).
LEMMA MarkedIsFile == ASSUME NEW ls, File(ls) PROVE File(insert_toc_markers(ls, 3))
<1>0. Len(ls) \in Nat
  BY FileLength
<1>1. PICK hs : hs = parse_headings(ls, 2, 3, FALSE, FALSE)
  OBVIOUS
<1>2. PICK toc : toc = build_toc(ls, hs, FALSE, 2)
  OBVIOUS
<1>3. File(toc)
  <2>1. PICK n : n = Len(ls)
    OBVIOUS
  <2>2. n \in Nat /\ hs \subseteq 1..n
    BY <1>0, <1>1, <2>1, HeadingsInFile
  <2>3. File(build_toc(ls, hs, FALSE, 2))
    BY <2>2, ListIsFile, Zenon
  <2> QED BY <1>2, <2>3, Zenon
<1>4. PICK titles : titles = {n \in Headings(ls) : ls[n].lvl = 1}
  OBVIOUS
<1>5. PICK at : at = IF titles = {} THEN 1 ELSE Widened(ls, <<Min(titles), Min(titles) + 1>>)[2]
  OBVIOUS
<1>6. at \in Int
  <2>1. CASE titles = {}
    BY <1>5, <2>1
  <2>2. CASE titles # {}
    <3>1. titles \subseteq 1..Len(ls)
      BY <1>4, HeadingsInFile
    <3>2. titles \subseteq Nat
      BY <1>0, <3>1
    <3>3. Min(titles) \in titles
      BY <2>2, <3>2, MinIsLeast
    <3>4. PICK a : a = Min(titles)
      OBVIOUS
    <3>5. a \in 1..Len(ls)
      BY <3>1, <3>3, <3>4
    <3>6. PICK b : b = a + 1
      OBVIOUS
    <3>7. a \in 1..(Len(ls) + 1) /\ b \in 1..(Len(ls) + 1)
      BY <1>0, <3>5, <3>6
    <3>8. Widened(ls, <<a, b>>)[2] \in Int
      BY <3>7, WidenedPlaces
    <3> QED BY <1>5, <2>2, <3>4, <3>6, <3>8
  <2> QED BY <2>1, <2>2
<1>7. CASE hs = {}
  <2>1. insert_toc_markers(ls, 3) = ls
    BY <1>1, <1>7, Zenon DEF insert_toc_markers
  <2> QED BY <2>1
<1>8. CASE hs # {} /\ MarkerBlock(ls) # <<>>
  <2>1. PICK o, c \in 1..Len(ls) : MarkerBlock(ls) = <<o, c>>
    BY <1>8, BlockMarkers DEF File
  <2>2. PICK x : x = Upto(ls, o)
    OBVIOUS
  <2>3. PICK y : y = From(ls, c)
    OBVIOUS
  <2>4. File(x) /\ File(y)
    <3>1. o \in Int /\ c \in Int
      OBVIOUS
    <3> QED BY <2>2, <2>3, <3>1, EndsAreFiles
  <2>5. insert_toc_markers(ls, 3) = x \o <<Blank>> \o toc \o <<Blank>> \o y
    <3>1. MarkerBlock(ls)[1] = o /\ MarkerBlock(ls)[2] = c
      BY <2>1
    <3>2. insert_toc_markers(ls, 3) = Upto(ls, MarkerBlock(ls)[1]) \o <<Blank>> \o toc \o <<Blank>> \o From(ls, MarkerBlock(ls)[2])
      BY <1>1, <1>2, <1>8 DEF insert_toc_markers
    <3> QED BY <2>2, <2>3, <3>1, <3>2, Zenon
  <2>6. PICK b : b = <<Blank>>
    OBVIOUS
  <2>7. File(b)
    BY <2>6, FewLines
  <2>8. File(x \o b)
    BY <2>4, <2>7, JoinIsFile
  <2>9. File(x \o b \o toc)
    BY <1>3, <2>8, JoinIsFile
  <2>10. File(x \o b \o toc \o b)
    BY <2>7, <2>9, JoinIsFile
  <2>11. File(x \o b \o toc \o b \o y)
    BY <2>4, <2>10, JoinIsFile
  <2> QED BY <2>5, <2>6, <2>11, Zenon
<1>9. CASE hs # {} /\ MarkerBlock(ls) = <<>>
  <2>1. PICK o : o = <<Blank, TOC_MARKER_START, Blank>>
    OBVIOUS
  <2>2. PICK c : c = <<Blank, TOC_MARKER_END, Blank>>
    OBVIOUS
  <2>3. File(o) /\ File(c)
    BY <2>1, <2>2, FewLines
  <2>4. PICK x : x = Upto(ls, at - 1)
    OBVIOUS
  <2>5. PICK y : y = From(ls, at)
    OBVIOUS
  <2>6. File(x)
    <3>1. at - 1 \in Int
      BY <1>6
    <3> QED BY <2>4, <3>1, EndsAreFiles
  <2>7. File(y)
    BY <1>6, <2>5, EndsAreFiles
  <2>8. insert_toc_markers(ls, 3) = x \o o \o toc \o c \o y
    BY <1>1, <1>2, <1>4, <1>5, <1>9, <2>1, <2>2, <2>4, <2>5 DEF insert_toc_markers
  <2>9. File(x \o o)
    BY <2>3, <2>6, JoinIsFile
  <2>10. File(x \o o \o toc)
    BY <1>3, <2>9, JoinIsFile
  <2>11. File(x \o o \o toc \o c)
    BY <2>3, <2>10, JoinIsFile
  <2>12. File(x \o o \o toc \o c \o y)
    BY <2>7, <2>11, JoinIsFile
  <2> QED BY <2>8, <2>12, Zenon
<1> QED BY <1>7, <1>8, <1>9

\* What insert_toc_heading writes is a file (toc.py:380-470).
LEMMA HeadedIsFile == ASSUME NEW ls, File(ls) PROVE File(insert_toc_heading(ls, 3))
<1>0. Len(ls) \in Nat
  BY FileLength
<1>1. PICK hs : hs = parse_headings(ls, 1, 3, TRUE, TRUE)
  OBVIOUS
<1>2. PICK section : section = <<TocHeading, Blank>> \o build_toc(ls, hs, TRUE, 3)
  OBVIOUS
<1>3. File(section)
  <2>1. PICK n : n = Len(ls)
    OBVIOUS
  <2>2. n \in Nat /\ hs \subseteq 1..n
    BY <1>0, <1>1, <2>1, HeadingsInFile
  <2>3. File(build_toc(ls, hs, TRUE, 3))
    BY <2>2, ListIsFile, Zenon
  <2>4. File(<<TocHeading, Blank>>)
    BY FewLines, Zenon
  <2>5. File(<<TocHeading, Blank>> \o build_toc(ls, hs, TRUE, 3))
    BY <2>3, <2>4, JoinIsFile, Zenon
  <2> QED BY <1>2, <2>5, Zenon
<1>4. PICK bl : bl = <<Blank>>
  OBVIOUS
<1>5. File(bl)
  BY <1>4, FewLines
<1>6. PICK s : s = HeadingSection(ls)
  OBVIOUS
<1>7. PICK at : at = SectionPlace(ls)
  OBVIOUS
<1>8. at \in Int
  BY <1>7, NewSectionRange, FileLength
<1>9. CASE hs = {}
  <2>1. insert_toc_heading(ls, 3) = ls
    BY <1>1, <1>9, Zenon DEF insert_toc_heading
  <2> QED BY <2>1
<1>10. CASE hs # {} /\ s # <<>>
  <2>1. PICK a, b \in 1..(Len(ls) + 1) : s = <<a, b>>
    BY <1>6, <1>10, SectionAt
  <2>2. Widened(ls, s)[1] \in Int /\ Widened(ls, s)[2] \in Int
    BY <2>1, WidenedPlaces
  <2>3. PICK x : x = Join(Upto(ls, Widened(ls, s)[1] - 1))
    OBVIOUS
  <2>4. PICK y : y = Join(From(ls, Widened(ls, s)[2]))
    OBVIOUS
  <2>5. File(x)
    <3>1. Widened(ls, s)[1] - 1 \in Int
      BY <2>2
    <3>2. File(Upto(ls, Widened(ls, s)[1] - 1))
      BY <3>1, EndsAreFiles, Zenon
    <3> QED BY <2>3, <3>2, JoinedIsFile, Zenon
  <2>6. File(y)
    <3>1. File(From(ls, Widened(ls, s)[2]))
      BY <2>2, EndsAreFiles, Zenon
    <3> QED BY <2>4, <3>1, JoinedIsFile, Zenon
  <2>7. insert_toc_heading(ls, 3) = x \o bl \o section \o bl \o y
    BY <1>1, <1>2, <1>4, <1>6, <1>10, <2>3, <2>4 DEF insert_toc_heading
  <2>8. File(x \o bl)
    BY <1>5, <2>5, JoinIsFile
  <2>9. File(x \o bl \o section)
    BY <1>3, <2>8, JoinIsFile
  <2>10. File(x \o bl \o section \o bl)
    BY <1>5, <2>9, JoinIsFile
  <2>11. File(x \o bl \o section \o bl \o y)
    BY <2>6, <2>10, JoinIsFile
  <2> QED BY <2>7, <2>11, Zenon
<1>11. CASE hs # {} /\ s = <<>> /\ at = 1
  <2>1. insert_toc_heading(ls, 3) = section \o bl \o ls
    BY <1>1, <1>2, <1>4, <1>6, <1>7, <1>11 DEF insert_toc_heading
  <2>2. File(section \o bl)
    BY <1>3, <1>5, JoinIsFile
  <2>3. File(section \o bl \o ls)
    BY <2>2, JoinIsFile
  <2> QED BY <2>1, <2>3, Zenon
<1>12. CASE hs # {} /\ s = <<>> /\ at # 1
  <2>1. PICK ms : ms = Upto(ls, at - 1)
    OBVIOUS
  <2>2. File(ms) /\ Len(ms) \in Nat
    <3>1. at - 1 \in Int
      BY <1>8
    <3> QED BY <2>1, <3>1, EndsAreFiles, FileLength
  <2>3. PICK mb : mb = ms \o <<Blank>>
    OBVIOUS
  <2>4. File(mb) /\ Len(mb) = Len(ms) + 1
    <3>1. File(ms \o bl)
      BY <1>5, <2>2, JoinIsFile
    <3>2. PICK U : ms \in Seq(U)
      BY <2>2 DEF File
    <3>3. Len(mb) = Len(ms) + 1
      BY <2>3, <3>2
    <3> QED BY <1>4, <2>3, <3>1, <3>3
  <2>5. PICK a : a = Len(ms) + 1
    OBVIOUS
  <2>6. PICK b : b = Len(ms) + 2
    OBVIOUS
  <2>7. a \in 1..(Len(mb) + 1) /\ b \in 1..(Len(mb) + 1)
    BY <2>2, <2>4, <2>5, <2>6
  <2>8. Widened(mb, <<a, b>>)[1] \in Int
    BY <2>4, <2>7, WidenedPlaces
  <2>9. PICK x : x = Join(Upto(ms, Widened(mb, <<a, b>>)[1] - 1))
    OBVIOUS
  <2>10. File(x)
    <3>1. Widened(mb, <<a, b>>)[1] - 1 \in Int
      BY <2>8
    <3>2. File(Upto(ms, Widened(mb, <<a, b>>)[1] - 1))
      BY <2>2, <3>1, EndsAreFiles, Zenon
    <3> QED BY <2>9, <3>2, JoinedIsFile, Zenon
  <2>11. PICK y : y = Join(From(ls, at))
    OBVIOUS
  <2>12. File(y)
    <3>1. File(From(ls, at))
      BY <1>8, EndsAreFiles, Zenon
    <3> QED BY <2>11, <3>1, JoinedIsFile, Zenon
  <2>13. insert_toc_heading(ls, 3) = x \o bl \o section \o bl \o y
    BY <1>1, <1>2, <1>4, <1>6, <1>7, <1>12, <2>1, <2>3, <2>5, <2>6, <2>9, <2>11 DEF insert_toc_heading
  <2>14. File(x \o bl)
    BY <1>5, <2>10, JoinIsFile
  <2>15. File(x \o bl \o section)
    BY <1>3, <2>14, JoinIsFile
  <2>16. File(x \o bl \o section \o bl)
    BY <1>5, <2>15, JoinIsFile
  <2>17. File(x \o bl \o section \o bl \o y)
    BY <2>12, <2>16, JoinIsFile
  <2> QED BY <2>13, <2>17, Zenon
<1> QED BY <1>9, <1>10, <1>11, <1>12

\* Every step leaves a file behind.
LEMMA InitFile == Init => FileOfLines
<1> SUFFICES ASSUME Init PROVE FileOfLines
  OBVIOUS
<1>1. doc \in Seq(FileLine)
  BY FilesAssumption DEF Init
<1> QED BY <1>1, LinesOfFile DEF File, FileOfLines

\* `cypilot toc` writes a file.
LEMMA TocWritesFile == ASSUME File(doc), cmd_toc PROVE File(doc')
<1>1. PICK new : new = insert_toc_markers(_strip_manual_toc(doc), 3)
  OBVIOUS
<1>2. File(new)
  <2>1. File(_strip_manual_toc(doc))
    BY StrippedIsFile
  <2>2. File(insert_toc_markers(_strip_manual_toc(doc), 3))
    BY <2>1, MarkedIsFile, Zenon
  <2> QED BY <1>1, <2>2, Zenon
<1>3. process_file(doc, 3)[1] \in {doc, new}
  <2>1. process_file(doc, 3) \in {<<doc, "SKIP">>, <<doc, "UNCHANGED">>, <<new, "UPDATED">>}
    BY <1>1 DEF process_file
  <2> QED BY <2>1
<1>4. doc' = process_file(doc, 3)[1]
  BY DEF cmd_toc
<1> QED BY <1>2, <1>3, <1>4

\* So does the author who follows a prompt of the heading contract.
LEMMA PromptWritesFile == ASSUME File(doc), DOMAIN heads \subseteq Nat \ {0}, FollowPrompt PROVE File(doc')
<1>0. Len(doc) \in Nat
  BY FileLength
<1>1. PICK e \in errors : doc' = Repaired(e)
  BY DEF FollowPrompt
<1>2. \A n, num : File(Renumbered(n, num))
  BY ReplacedLine DEF Renumbered
<1>3. \A x : File(Upto(doc, PlaceOf(e[2]) - 1) \o <<x>> \o From(doc, PlaceOf(e[2])))
  <2> TAKE x
  <2>1. PICK p : p = PlaceOf(e[2])
    OBVIOUS
  <2>2. p \in Int
    <3>1. PICK taken : taken = Max({final[b] : b \in 1..(e[2] - 1)} \cup {0})
      OBVIOUS
    <3>2. PICK free : free = {n \in DOMAIN heads : n > taken} \cup {Len(doc) + 1}
      OBVIOUS
    <3>3. free \subseteq Nat /\ free # {}
      BY <1>0, <3>2
    <3>4. p = Min(free)
      BY <2>1, <3>1, <3>2 DEF PlaceOf
    <3> QED BY <3>3, <3>4, LeastIsNat
  <2>3. PICK q : q = p - 1
    OBVIOUS
  <2>4. q \in Int
    BY <2>2, <2>3
  <2>5. File(Upto(doc, q)) /\ File(From(doc, p)) /\ File(<<x>>)
    BY <2>2, <2>4, EndsAreFiles, FewLines, Zenon
  <2>6. File(Upto(doc, q) \o <<x>>)
    BY <2>5, JoinIsFile, Zenon
  <2>7. File(Upto(doc, q) \o <<x>> \o From(doc, p))
    BY <2>5, <2>6, JoinIsFile, Zenon
  <2> QED BY <2>1, <2>3, <2>7, Zenon
<1>4. File(Repaired(e))
  <2>1. CASE e[1] = "HEADING_MISSING"
    BY <1>3, <2>1, Zenon DEF Repaired
  <2>2. CASE e[1] # "HEADING_MISSING"
    BY <1>2, <2>2, Zenon DEF Repaired
  <2> QED BY <2>1, <2>2
<1> QED BY <1>1, <1>4, Zenon

\* And the author who edits.
LEMMA EditWritesFile == ASSUME File(doc), Edit PROVE File(doc')
<1>0. DOMAIN doc \subseteq Int
  BY FileLength
<1>1. \A n \in DOMAIN doc : File(Upto(doc, n)) /\ File(Upto(doc, n - 1)) /\ File(From(doc, n + 1))
  <2> TAKE n \in DOMAIN doc
  <2>1. PICK p : p = n - 1
    OBVIOUS
  <2>2. PICK q : q = n + 1
    OBVIOUS
  <2>3. n \in Int /\ p \in Int /\ q \in Int
    BY <1>0, <2>1, <2>2
  <2>4. File(Upto(doc, n)) /\ File(Upto(doc, p)) /\ File(From(doc, q))
    BY <2>3, EndsAreFiles, Zenon
  <2> QED BY <2>1, <2>2, <2>4, Zenon
<1>2. ASSUME NEW n \in DOMAIN doc, NEW h PROVE File(Upto(doc, n) \o <<h>> \o From(doc, n + 1))
  <2>1. File(<<h>>)
    BY FewLines, Zenon
  <2>2. File(Upto(doc, n) \o <<h>>)
    BY <1>1, <2>1, JoinIsFile, Zenon
  <2> QED BY <1>1, <2>2, JoinIsFile, Zenon
<1>3. ASSUME NEW n \in DOMAIN doc PROVE File(Upto(doc, n - 1) \o From(doc, n + 1))
  BY <1>1, JoinIsFile, Zenon
<1>4. \/ \E n \in DOMAIN doc, h \in NewHeadings : doc' = Upto(doc, n) \o <<h>> \o From(doc, n + 1)
      \/ \E n \in DOMAIN doc : doc' = Upto(doc, n - 1) \o From(doc, n + 1)
  BY DEF Edit
<1> QED BY <1>2, <1>3, <1>4, Zenon

\* Every step leaves a file behind.
LEMMA NextKeepsFile == DOMAIN heads \subseteq Nat \ {0} /\ FileOfLines /\ [Next]_vars => FileOfLines'
<1> SUFFICES ASSUME DOMAIN heads \subseteq Nat \ {0}, FileOfLines, [Next]_vars PROVE FileOfLines'
  OBVIOUS
<1>1. File(doc)
  BY DEF File, FileOfLines
<1>2. File(doc')
  <2>1. CASE cmd_toc
    BY <1>1, <2>1, TocWritesFile
  <2>2. CASE \E form \in {"markers", "heading"} : RegenerateToc(form)
    <3>1. PICK form \in {"markers", "heading"} : doc' = _regenerate_toc(doc, form)
      BY <2>2 DEF RegenerateToc
    <3>2. _regenerate_toc(doc, form) \in {insert_toc_markers(doc, 3), insert_toc_heading(doc, 3)}
      BY DEF _regenerate_toc
    <3>3. File(insert_toc_markers(doc, 3)) /\ File(insert_toc_heading(doc, 3))
      BY <1>1, MarkedIsFile, HeadedIsFile, Zenon
    <3> QED BY <3>1, <3>2, <3>3
  <2>3. CASE FollowPrompt
    BY <1>1, <2>3, PromptWritesFile
  <2>4. CASE Edit
    BY <1>1, <2>4, EditWritesFile
  <2>5. CASE UNCHANGED doc
    BY <1>1, <2>5
  <2>6. validate_headings_contract \/ MatchConstraint \/ validate_artifact_file \/ cmd_validate_toc \/ UNCHANGED vars
          => UNCHANGED doc
    BY DEF validate_headings_contract, MatchConstraint, validate_artifact_file, cmd_validate_toc, vars
  <2> QED BY <2>1, <2>2, <2>3, <2>4, <2>5, <2>6 DEF Next
<1> QED BY <1>2 DEF File, FileOfLines

\* A report of a TOC command is about the file as it is: every step that writes the file
\* makes a new report of it or drops the old one.
LEMMA InitTocReported == Init => TocReported
BY DEF Init, NoReport, TocReported

\* `cypilot toc` reports on what it wrote, or skips a file without sections.
LEMMA TocReports == ASSUME cmd_toc PROVE TocReported'
<1>1. PICK new : new = insert_toc_markers(_strip_manual_toc(doc), 3)
  OBVIOUS
<1>2. PICK r : r = process_file(doc, 3)
  OBVIOUS
<1>3. doc' = r[1] /\ report' = Report("toc", IF r[2] = "SKIP" THEN {} ELSE validate_toc(r[1], 3), TocErrors)
  BY <1>2 DEF cmd_toc
<1>4. \/ r = <<doc, "SKIP">> /\ parse_headings(_strip_manual_toc(doc), 2, 3, FALSE, FALSE) = {}
      \/ r = <<doc, "UNCHANGED">> \/ r = <<new, "UPDATED">>
  <2>1. PICK hs : hs = parse_headings(_strip_manual_toc(doc), 2, 3, FALSE, FALSE)
    OBVIOUS
  <2>2. r = CASE hs = {} -> <<doc, "SKIP">> [] hs # {} /\ new = doc -> <<doc, "UNCHANGED">> [] OTHER -> <<new, "UPDATED">>
    BY <1>1, <1>2, <2>1, Zenon DEF process_file
  <2>3. (r = <<doc, "SKIP">> /\ hs = {}) \/ r = <<doc, "UNCHANGED">> \/ r = <<new, "UPDATED">>
    BY <2>2
  <2> QED BY <2>1, <2>3, Zenon
<1>5. CASE r = <<doc, "SKIP">> /\ parse_headings(_strip_manual_toc(doc), 2, 3, FALSE, FALSE) = {}
  <2>1. doc' = doc
    BY <1>3, <1>5
  <2>2. parse_headings(_strip_manual_toc(doc'), 2, 3, FALSE, FALSE) = {}
    BY <1>5, <2>1, Zenon
  <2> QED BY <2>2 DEF TocReported
<1>6. CASE r = <<doc, "UNCHANGED">> \/ r = <<new, "UPDATED">>
  <2>0. r[2] # "SKIP"
    BY <1>6
  <2>1. report' = Report("toc", validate_toc(doc', 3), TocErrors)
    BY <1>3, <2>0, Zenon
  <2>2. report'.codes = validate_toc(doc', 3)
    BY <2>1, Zenon DEF Report
  <2>3. report'.codes = {} => validate_toc(doc', 3) = {}
    BY <2>2, Zenon
  <2> QED BY <2>3 DEF TocReported
<1> QED BY <1>4, <1>5, <1>6, Zenon

\* Every step keeps the report true.
LEMMA NextKeepsTocReported == TocReported /\ [Next]_vars => TocReported'
<1> SUFFICES ASSUME TocReported, [Next]_vars PROVE TocReported'
  OBVIOUS
<1>1. CASE cmd_toc
  BY <1>1, TocReports
<1>2. CASE cmd_validate_toc
  <2>1. doc' = doc /\ report' = Report("validate-toc", validate_toc(doc, 3), TocErrors)
    BY <1>2 DEF cmd_validate_toc
  <2>2. report'.codes = validate_toc(doc', 3)
    BY <2>1, Zenon DEF Report
  <2> QED BY <2>2 DEF TocReported
<1>3. CASE UNCHANGED <<doc, report>>
  BY <1>3 DEF TocReported
<1>4. CASE report'.by \notin {"toc", "validate-toc"}
  BY <1>4 DEF TocReported
<1>5. validate_headings_contract \/ MatchConstraint \/ UNCHANGED vars => UNCHANGED <<doc, report>>
  BY DEF validate_headings_contract, MatchConstraint, vars
<1>6. validate_artifact_file => report'.by = "validate"
  BY DEF validate_artifact_file, Report
<1>7. \A form : RegenerateToc(form) => report'.by = "kit update"
  BY DEF RegenerateToc, NoReport
<1>8. FollowPrompt \/ Edit => report'.by = "none"
  BY DEF FollowPrompt, Edit, NoReport
<1> QED BY <1>1, <1>2, <1>3, <1>4, <1>5, <1>6, <1>7, <1>8 DEF Next

\* A table of contents without issues leads to its sections, in a file that has sections.
LEMMA ReportedTocLeads == FileOfLines /\ TocReported => (HasSections(doc) => ValidTocLeads)
<1> SUFFICES ASSUME FileOfLines, TocReported, HasSections(doc) PROVE ValidTocLeads
  OBVIOUS
<1>h. SUFFICES ASSUME report.by \in {"toc", "validate-toc"}, report.codes = {}, Orderly(doc), TitlesApart(doc),
                      HeadingSection(doc) = <<>>
               PROVE  AnchorsLead(doc)
  BY Zenon DEF ValidTocLeads
<1>1. PICK S : doc \in Seq(S)
  BY DEF FileOfLines
<1>2. PICK hs : hs = {n \in Headings(doc) : doc[n].lvl \in 2..3}
  OBVIOUS
<1>3. parse_headings(doc, 2, 3, FALSE, FALSE) = hs /\ parse_headings(doc, 2, 3, FALSE, TRUE) = hs
  BY <1>h, <1>1, <1>2, ListedSections
<1>4. _strip_manual_toc(doc) = doc
  BY <1>h DEF _strip_manual_toc
<1>5. parse_headings(_strip_manual_toc(doc), 2, 3, FALSE, FALSE) # {}
  BY <1>3, <1>4 DEF HasSections
<1>6. validate_toc(doc, 3) = {}
  BY <1>h, <1>5 DEF TocReported
<1>7. \A U : \A ls \in Seq(U) :
         validate_toc(ls, 3) = {} /\ Orderly(ls) /\ HeadingSection(ls) = <<>> /\ HasSections(ls) /\ TitlesApart(ls)
            => AnchorsLead(ls)
  BY CleanTocLeads, Zenon
<1> QED BY <1>h, <1>1, <1>6, <1>7, Zenon

\* A table of contents that a TOC command reported without an issue leads where it says:
\* its k-th entry to the k-th section, equal titles included, in every file that has
\* sections and no title that reads as another with a suffix, however it came about (toc.py:195-245, :595-700).
THEOREM CleanListsLead == Spec => [](HasSections(doc) => ValidTocLeads)
<1>1. Init => FileOfLines /\ TocReported
  BY InitFile, InitTocReported
<1>2. MatchInv /\ FileOfLines /\ TocReported /\ [Next]_vars => (FileOfLines /\ TocReported)'
  <2>1. MatchInv => DOMAIN heads \subseteq Nat \ {0}
    BY DEF MatchInv, MatchTypes
  <2> QED BY <2>1, NextKeepsFile, NextKeepsTocReported
<1>3. FileOfLines /\ TocReported => (HasSections(doc) => ValidTocLeads)
  BY ReportedTocLeads
<1> QED BY <1>1, <1>2, <1>3, MatchInvariant, PTL DEF Spec

-----------------------------------------------------------------------------
(* Lines that are moved but keep their order.                              *)

\* Two sets of lines, one the other moved.
KeepsOrder(f, S, T) ==
    /\ f \in [S -> T]
    /\ \A y \in T : \E x \in S : f[x] = y
    /\ \A a, b \in S : a < b <=> f[a] < f[b]

\* As many lines stand before or at a moved line as before or at where it came from.
SameCounts(f, S, T) ==
    /\ Cardinality(T) = Cardinality(S) /\ Cardinality(S) \in Nat
    /\ \A a \in S : /\ Cardinality({y \in T : y < f[a]}) = Cardinality({x \in S : x < a})
                    /\ Cardinality({y \in T : y <= f[a]}) = Cardinality({x \in S : x <= a})

\* A move that keeps the order keeps the counts.
LEMMA MovedCounts ==
  ASSUME NEW n \in Nat, NEW S, S \subseteq 1..n, NEW m \in Nat, NEW T, T \subseteq 1..m, NEW f, KeepsOrder(f, S, T)
  PROVE  SameCounts(f, S, T)
<1>0. (\A y \in T : y \in Int) /\ (\A x \in S : x \in Int)
  OBVIOUS
<1>1. /\ f \in [S -> T] /\ \A y \in T : \E x \in S : f[x] = y
      /\ \A a, b \in S : a < b <=> f[a] < f[b]
  BY DEF KeepsOrder
<1>2. \A a, b \in S : f[a] = f[b] => a = b
  <2> SUFFICES ASSUME NEW a \in S, NEW b \in S, f[a] = f[b] PROVE a = b
    OBVIOUS
  <2>1. f[a] \in Int /\ a \in Int /\ b \in Int
    BY <1>0, <1>1
  <2>2. ~(f[a] < f[b]) /\ ~(f[b] < f[a])
    BY <2>1
  <2>3. ~(a < b) /\ ~(b < a)
    BY <1>1, <2>2
  <2> QED BY <2>1, <2>3
<1>3. ASSUME NEW A, A \subseteq S, NEW B, B \subseteq T, \A x \in S : x \in A <=> f[x] \in B
      PROVE  Cardinality(B) = Cardinality(A)
  <2>1. PICK g : g = [x \in A |-> f[x]]
    OBVIOUS
  <2>2. g \in [A -> B]
    BY <1>1, <1>3, <2>1
  <2>3. \A y \in B : \E x \in A : g[x] = y
    BY <1>1, <1>3, <2>1
  <2>4. \A a, b \in A : g[a] = g[b] => a = b
    BY <1>2, <1>3, <2>1
  <2>5. g \in Bijection(A, B)
    BY <2>2, <2>3, <2>4 DEF Bijection, Injection, Surjection, IsInjective
  <2>6. ExistsBijection(A, B)
    BY <2>5 DEF ExistsBijection
  <2>7. IsFiniteSet(A)
    <3>1. A \subseteq 1..n
      BY <1>3
    <3> QED BY <3>1, LinesFinite
  <2> QED BY <2>6, <2>7, FS_Bijection
<1>4. Cardinality(T) = Cardinality(S) /\ Cardinality(S) \in Nat
  <2>1. Cardinality(S) \in Nat
    BY LinesFinite
  <2>2. \A x \in S : x \in S <=> f[x] \in T
    BY <1>1
  <2> QED BY <1>3, <2>1, <2>2
<1>5. ASSUME NEW a \in S PROVE Cardinality({y \in T : y < f[a]}) = Cardinality({x \in S : x < a})
  <2>1. PICK A : A = {x \in S : x < a}
    OBVIOUS
  <2>2. PICK B : B = {y \in T : y < f[a]}
    OBVIOUS
  <2>3. A \subseteq S /\ B \subseteq T /\ \A x \in S : x \in A <=> f[x] \in B
    BY <1>1, <2>1, <2>2
  <2>4. Cardinality(B) = Cardinality(A)
    BY <1>3, <2>3
  <2> QED BY <2>1, <2>2, <2>4, Zenon
<1>6. ASSUME NEW a \in S PROVE Cardinality({y \in T : y <= f[a]}) = Cardinality({x \in S : x <= a})
  <2>1. PICK A : A = {x \in S : x <= a}
    OBVIOUS
  <2>2. PICK B : B = {y \in T : y <= f[a]}
    OBVIOUS
  <2>3. A \subseteq S /\ B \subseteq T
    BY <2>1, <2>2
  <2>4. \A x \in S : x <= a <=> f[x] <= f[a]
    <3> TAKE x \in S
    <3>1. x \in Int /\ a \in Int /\ f[x] \in T /\ f[a] \in T
      BY <1>1
    <3>2. f[x] \in Int /\ f[a] \in Int
      BY <1>0, <3>1, Zenon
    <3>3. a < x <=> f[a] < f[x]
      BY <1>1
    <3> QED BY <3>1, <3>2, <3>3
  <2>5. \A x \in S : x \in A <=> f[x] \in B
    BY <1>1, <2>1, <2>2, <2>4, Zenon
  <2>6. Cardinality(B) = Cardinality(A)
    BY <1>3, <2>3, <2>5
  <2> QED BY <2>1, <2>2, <2>6, Zenon
<1> QED BY <1>4, <1>5, <1>6 DEF SameCounts

\* The k-th line is moved to the k-th line.
InStep(f, S, T) ==
    /\ DOMAIN InOrder(S) = DOMAIN InOrder(T)
    /\ \A k \in DOMAIN InOrder(S) : InOrder(S)[k] \in S /\ InOrder(T)[k] = f[InOrder(S)[k]]

\* The k-th of the moved lines is the k-th line, moved.
LEMMA MovedOrder ==
  ASSUME NEW n \in Nat, NEW S, S \subseteq 1..n, NEW m \in Nat, NEW T, T \subseteq 1..m, NEW f, KeepsOrder(f, S, T)
  PROVE  InStep(f, S, T)
<1>1. /\ Cardinality(T) = Cardinality(S) /\ Cardinality(S) \in Nat
      /\ \A a \in S : Cardinality({y \in T : y <= f[a]}) = Cardinality({x \in S : x <= a})
  <2>1. SameCounts(f, S, T)
    BY MovedCounts, Zenon
  <2> QED BY <2>1, Zenon DEF SameCounts
<1>2. PICK N : N = Cardinality(S)
  OBVIOUS
<1>3. /\ DOMAIN InOrder(S) = 1..N
      /\ \A k \in 1..N : InOrder(S)[k] \in S /\ Cardinality({x \in S : x <= InOrder(S)[k]}) = k
  BY <1>2, OrderedLines
<1>4. /\ DOMAIN InOrder(T) = 1..N
      /\ \A k \in 1..N : InOrder(T)[k] \in T /\ Cardinality({x \in T : x <= InOrder(T)[k]}) = k
  BY <1>1, <1>2, OrderedLines
<1>5. \A a, b \in T : Cardinality({x \in T : x <= a}) = Cardinality({x \in T : x <= b}) => a = b
  BY CountTellsApart
<1>6. \A x \in S : f[x] \in T
  BY DEF KeepsOrder
<1>7. ASSUME NEW k \in 1..N PROVE InOrder(T)[k] = f[InOrder(S)[k]]
  <2>1. PICK a : a = InOrder(S)[k]
    OBVIOUS
  <2>2. a \in S /\ Cardinality({x \in S : x <= a}) = k
    BY <1>3, <2>1
  <2>3. f[a] \in T /\ Cardinality({y \in T : y <= f[a]}) = k
    BY <1>1, <1>6, <2>2, Zenon
  <2>4. PICK b : b = InOrder(T)[k]
    OBVIOUS
  <2>5. b \in T /\ Cardinality({y \in T : y <= b}) = k
    BY <1>4, <2>4
  <2>6. f[a] = b
    BY <1>5, <2>3, <2>5, Zenon
  <2> QED BY <2>1, <2>4, <2>6, Zenon
<1> QED BY <1>3, <1>4, <1>7 DEF InStep

\* A file with the lines p+1 .. q-1 of another replaced by d lines.
Shift(p, q, d) == p + d + 1 - q
MovedTo(p, q, d, n) == IF n <= p THEN n ELSE n + Shift(p, q, d)
Splice(w, ls, p, q, d) ==
    /\ p \in 0..Len(ls) /\ q \in (p + 1)..(Len(ls) + 1) /\ d \in Nat
    /\ File(w) /\ Len(w) = Len(ls) + Shift(p, q, d)
    /\ \A k \in 1..p : w[k] = ls[k]
    /\ \A k \in q..Len(ls) : w[k + Shift(p, q, d)] = ls[k]
SplicedWith(w, ls, p, q, mid) ==
    Splice(w, ls, p, q, Len(mid)) /\ \A k \in 1..Len(mid) : w[p + k] = mid[k]

\* Beginning, new piece and end are a splice.
LEMMA SplicedFile ==
  ASSUME NEW ls, File(ls), NEW mid, File(mid), NEW p \in 0..Len(ls), NEW q \in (p + 1)..(Len(ls) + 1)
  PROVE  \A w : w = Upto(ls, p) \o mid \o From(ls, q) => SplicedWith(w, ls, p, q, mid)
<1>w. SUFFICES ASSUME NEW w, w = Upto(ls, p) \o mid \o From(ls, q)
               PROVE  SplicedWith(w, ls, p, q, mid)
  OBVIOUS
<1>0. Len(ls) \in Nat /\ Len(mid) \in Nat /\ p \in Nat /\ q \in Nat
  <2>1. Len(ls) \in Nat /\ Len(mid) \in Nat
    BY FileLength
  <2> QED BY <2>1
<1>1. PICK U : ls \in Seq(U)
  BY DEF File
<1>2. PICK V : mid \in Seq(V)
  BY DEF File
<1>3. PICK d : d = Len(mid)
  OBVIOUS
<1>4. PICK a : a = Upto(ls, p)
  OBVIOUS
<1>5. a \in Seq(U) /\ Len(a) = p /\ \A k \in 1..p : a[k] = ls[k]
  BY <1>0, <1>1, <1>4 DEF Upto
<1>6. PICK z : z = From(ls, q)
  OBVIOUS
<1>7. z \in Seq(U) /\ Len(z) = Len(ls) - q + 1 /\ \A k \in 1..(Len(ls) - q + 1) : z[k] = ls[q + k - 1]
  BY <1>0, <1>1, <1>6 DEF From
<1>8. PICK W : W = U \cup V
  OBVIOUS
<1>9. a \in Seq(W) /\ z \in Seq(W) /\ mid \in Seq(W)
  BY <1>2, <1>5, <1>7, <1>8
<1>10. PICK s : s = a \o mid
  OBVIOUS
<1>11. s \in Seq(W) /\ Joins(s, a, mid)
  BY <1>9, <1>10, JoinedLines, Zenon
<1>12. w = s \o z
  BY <1>w, <1>4, <1>6, <1>10, Zenon
<1>13. w \in Seq(W) /\ Joins(w, s, z)
  BY <1>9, <1>11, <1>12, JoinedLines, Zenon
<1>14. Len(s) = p + d /\ (\A k \in 1..p : s[k] = ls[k]) /\ (\A k \in 1..d : s[p + k] = mid[k])
  BY <1>0, <1>3, <1>5, <1>11 DEF Joins
<1>15. /\ Len(w) = p + d + (Len(ls) - q + 1)
       /\ \A k \in 1..(p + d) : w[k] = s[k]
       /\ \A k \in 1..(Len(ls) - q + 1) : w[p + d + k] = ls[q + k - 1]
  BY <1>0, <1>3, <1>7, <1>13, <1>14 DEF Joins
<1>16. \A k \in 1..p : w[k] = ls[k]
  BY <1>0, <1>3, <1>14, <1>15
<1>17. \A k \in 1..d : w[p + k] = mid[k]
  <2> TAKE k \in 1..d
  <2>1. p + k \in 1..(p + d)
    BY <1>0, <1>3
  <2> QED BY <1>14, <1>15, <2>1, Zenon
<1>18. PICK sh : sh = Shift(p, q, d)
  OBVIOUS
<1>19. sh = p + d + 1 - q
  BY <1>18 DEF Shift
<1>20. \A k \in q..Len(ls) : w[k + sh] = ls[k]
  <2> TAKE k \in q..Len(ls)
  <2>1. PICK j : j = k - q + 1
    OBVIOUS
  <2>2. j \in 1..(Len(ls) - q + 1) /\ k + sh = p + d + j /\ q + j - 1 = k
    BY <1>0, <1>3, <1>19, <2>1
  <2>3. w[p + d + j] = ls[q + j - 1]
    BY <1>15, <2>2, Zenon
  <2> QED BY <2>2, <2>3
<1>21. File(w)
  BY <1>13, LinesOfFile
<1>22. Len(w) = Len(ls) + sh
  BY <1>0, <1>3, <1>15, <1>19
<1>23. Splice(w, ls, p, q, d)
  BY <1>0, <1>3, <1>16, <1>18, <1>20, <1>21, <1>22 DEF Splice
<1> QED BY <1>3, <1>17, <1>23 DEF SplicedWith

\* What a splice does to lines that are neither removed nor put in.
Stay(S, T, ls, w, p, q, d) ==
    /\ S \subseteq 1..Len(ls) /\ T \subseteq 1..Len(w)
    /\ \A n \in (p + 1)..(q - 1) : n \notin S
    /\ \A n \in (p + 1)..(p + d) : n \notin T
    /\ \A n \in 1..p : n \in S <=> n \in T
    /\ \A n \in q..Len(ls) : n \in S <=> n + Shift(p, q, d) \in T

\* The lines that a splice leaves stand move by one distance behind it.
LEMMA SpliceMoves ==
  ASSUME NEW ls, File(ls), NEW w, NEW p, NEW q, NEW d, Splice(w, ls, p, q, d),
         NEW S, NEW T, Stay(S, T, ls, w, p, q, d)
  PROVE  KeepsOrder([n \in S |-> MovedTo(p, q, d, n)], S, T)
<1> USE DEF Stay
<1>0. Len(ls) \in Nat
  BY FileLength
<1>1. PICK sh : sh = Shift(p, q, d)
  OBVIOUS
<1>2. p \in 0..Len(ls) /\ q \in (p + 1)..(Len(ls) + 1) /\ d \in Nat /\ Len(w) = Len(ls) + sh
  BY <1>1 DEF Splice
<1>3. sh = p + d + 1 - q
  BY <1>1 DEF Shift
<1>4. \A n \in S : n \in 1..p \/ n \in q..Len(ls)
  <2> TAKE n \in S
  <2>1. n \in 1..Len(ls) /\ n \notin (p + 1)..(q - 1)
    OBVIOUS
  <2> QED BY <1>0, <1>2, <2>1
<1>5. PICK f : f = [n \in S |-> MovedTo(p, q, d, n)]
  OBVIOUS
<1>6. \A n \in 1..p : MovedTo(p, q, d, n) = n
  BY <1>0, <1>2 DEF MovedTo
<1>7. \A n \in q..Len(ls) : MovedTo(p, q, d, n) = n + sh
  BY <1>0, <1>1, <1>2 DEF MovedTo
<1>8. \A n \in S : f[n] \in T
  <2> TAKE n \in S
  <2>1. CASE n \in 1..p
    BY <1>5, <1>6, <2>1
  <2>2. CASE n \in q..Len(ls)
    BY <1>1, <1>5, <1>7, <2>2
  <2> QED BY <1>4, <2>1, <2>2
<1>9. \A y \in T : \E x \in S : f[x] = y
  <2> TAKE y \in T
  <2>1. y \in 1..Len(w) /\ y \notin (p + 1)..(p + d)
    OBVIOUS
  <2>2. CASE y \in 1..p
    <3>1. y \in S
      BY <2>2
    <3>2. f[y] = y
      BY <1>5, <1>6, <2>2, <3>1
    <3> QED BY <3>1, <3>2
  <2>3. CASE y \notin 1..p
    <3>1. PICK x : x = y - sh
      OBVIOUS
    <3>2. x \in q..Len(ls) /\ y = x + sh
      BY <1>0, <1>2, <1>3, <2>1, <2>3, <3>1
    <3>3. x \in S
      BY <1>1, <3>2
    <3>4. f[x] = y
      BY <1>5, <1>7, <3>2, <3>3
    <3> QED BY <3>3, <3>4
  <2> QED BY <2>2, <2>3
<1>10. \A a, b \in S : a < b <=> f[a] < f[b]
  <2> TAKE a, b \in S
  <2>1. f[a] = MovedTo(p, q, d, a) /\ f[b] = MovedTo(p, q, d, b)
    BY <1>5
  <2>2. a \in 1..p \/ a \in q..Len(ls)
    BY <1>4
  <2>3. b \in 1..p \/ b \in q..Len(ls)
    BY <1>4
  <2>4. PICK x : x = f[a]
    OBVIOUS
  <2>5. PICK y : y = f[b]
    OBVIOUS
  <2>6. (a \in 1..p => x = a) /\ (a \in q..Len(ls) => x = a + sh)
    BY <1>6, <1>7, <2>1, <2>4
  <2>7. (b \in 1..p => y = b) /\ (b \in q..Len(ls) => y = b + sh)
    BY <1>6, <1>7, <2>1, <2>5
  <2>8. a < b <=> x < y
    <3>1. p \in Nat /\ q \in Nat /\ d \in Nat /\ p < q /\ sh = p + d + 1 - q
      BY <1>0, <1>2, <1>3
    <3>2. CASE a \in 1..p /\ b \in 1..p
      BY <2>6, <2>7, <3>2
    <3>3. CASE a \in 1..p /\ b \in q..Len(ls)
      BY <1>0, <2>6, <2>7, <3>1, <3>3
    <3>4. CASE a \in q..Len(ls) /\ b \in 1..p
      BY <1>0, <2>6, <2>7, <3>1, <3>4
    <3>5. CASE a \in q..Len(ls) /\ b \in q..Len(ls)
      BY <1>0, <2>6, <2>7, <3>1, <3>5
    <3> QED BY <2>2, <2>3, <3>2, <3>3, <3>4, <3>5
  <2> QED BY <2>4, <2>5, <2>8
<1>11. f \in [S -> T]
  BY <1>5, <1>8
<1>12. KeepsOrder(f, S, T)
  BY <1>9, <1>10, <1>11 DEF KeepsOrder
<1> QED BY <1>5, <1>12, Zenon

-----------------------------------------------------------------------------
(* The author's lines.                                                     *)

Own(l) == l.k \notin {"blank", "entry", "open", "close"} /\ l # TocHeading
OwnPlaces(ls) == {n \in DOMAIN ls : Own(ls[n])}
Plain(s) == \A k \in 1..Len(s) : ~Own(s[k])

\* The author's lines of a file, told from where they stand.
LEMMA OwnLinesAt ==
  ASSUME NEW ls
  PROVE  OwnLines(ls) = [k \in DOMAIN InOrder(OwnPlaces(ls)) |-> ls[InOrder(OwnPlaces(ls))[k]]]
<1>1. {n \in DOMAIN ls : /\ ls[n].k \notin {"blank", "entry", "open", "close"} /\ ls[n] # TocHeading} = OwnPlaces(ls)
  BY DEF Own, OwnPlaces
<1> QED BY <1>1, Zenon DEF OwnLines

\* A splice that removes none of the author's lines and adds none keeps them.
LEMMA SplicedOwn ==
  ASSUME NEW ls, File(ls), NEW w, NEW p, NEW q, NEW d, Splice(w, ls, p, q, d),
         \A n \in (p + 1)..(q - 1) : ~Own(ls[n]),
         \A n \in (p + 1)..(p + d) : ~Own(w[n])
  PROVE  OwnLines(w) = OwnLines(ls)
<1>0. Len(ls) \in Nat /\ DOMAIN ls = 1..Len(ls)
  BY FileLength
<1>1. PICK sh : sh = Shift(p, q, d)
  OBVIOUS
<1>2. /\ p \in 0..Len(ls) /\ q \in (p + 1)..(Len(ls) + 1) /\ d \in Nat
      /\ File(w) /\ Len(w) = Len(ls) + sh
      /\ \A k \in 1..p : w[k] = ls[k]
      /\ \A k \in q..Len(ls) : w[k + sh] = ls[k]
  BY <1>1 DEF Splice
<1>3. sh = p + d + 1 - q
  BY <1>1 DEF Shift
<1>4. Len(w) \in Nat /\ DOMAIN w = 1..Len(w)
  BY <1>2, FileLength
<1>5. PICK S : S = OwnPlaces(ls)
  OBVIOUS
<1>6. PICK T : T = OwnPlaces(w)
  OBVIOUS
<1>7. S \subseteq 1..Len(ls) /\ \A n \in 1..Len(ls) : n \in S <=> Own(ls[n])
  BY <1>0, <1>5 DEF OwnPlaces
<1>8. T \subseteq 1..Len(w) /\ \A n \in 1..Len(w) : n \in T <=> Own(w[n])
  BY <1>4, <1>6 DEF OwnPlaces
<1>9. \A n \in (p + 1)..(q - 1) : n \notin S
  BY <1>7
<1>10. \A n \in (p + 1)..(p + d) : n \notin T
  BY <1>8
<1>11. \A n \in 1..p : n \in S <=> n \in T
  <2> TAKE n \in 1..p
  <2>1. n \in 1..Len(ls) /\ n \in 1..Len(w)
    BY <1>0, <1>2, <1>3
  <2> QED BY <1>2, <1>7, <1>8, <2>1, Zenon
<1>12. \A n \in q..Len(ls) : n \in S <=> n + sh \in T
  <2> TAKE n \in q..Len(ls)
  <2>1. n \in 1..Len(ls) /\ n + sh \in 1..Len(w)
    BY <1>0, <1>2, <1>3
  <2> QED BY <1>2, <1>7, <1>8, <2>1, Zenon
<1>13. PICK f : f = [n \in S |-> MovedTo(p, q, d, n)]
  OBVIOUS
<1>14. KeepsOrder(f, S, T)
  <2>1. \A n \in q..Len(ls) : n \in S <=> n + Shift(p, q, d) \in T
    BY <1>1, <1>12, Zenon
  <2>2. KeepsOrder([n \in S |-> MovedTo(p, q, d, n)], S, T)
    <3>1. Stay(S, T, ls, w, p, q, d)
      BY <1>7, <1>8, <1>9, <1>10, <1>11, <2>1 DEF Stay
    <3> QED BY <3>1, SpliceMoves, Zenon
  <2> QED BY <1>13, <2>2, Zenon
<1>15. \A n \in S : w[f[n]] = ls[n]
  <2> TAKE n \in S
  <2>1. n \in 1..Len(ls) /\ n \notin (p + 1)..(q - 1) /\ f[n] = MovedTo(p, q, d, n)
    BY <1>7, <1>9, <1>13
  <2>2. n \in 1..p \/ n \in q..Len(ls)
    BY <1>0, <1>2, <2>1
  <2>3. CASE n \in 1..p
    <3>1. f[n] = n
      BY <1>0, <1>2, <2>1, <2>3 DEF MovedTo
    <3> QED BY <1>2, <2>3, <3>1
  <2>4. CASE n \in q..Len(ls)
    <3>1. f[n] = n + sh
      BY <1>0, <1>1, <1>2, <2>1, <2>4 DEF MovedTo
    <3> QED BY <1>2, <2>4, <3>1
  <2> QED BY <2>2, <2>3, <2>4
<1>16. PICK a : a = InOrder(S)
  OBVIOUS
<1>17. PICK b : b = InOrder(T)
  OBVIOUS
<1>18. DOMAIN a = DOMAIN b /\ \A k \in DOMAIN a : a[k] \in S /\ b[k] = f[a[k]]
  <2>1. PICK n : n = Len(ls)
    OBVIOUS
  <2>2. PICK m : m = Len(w)
    OBVIOUS
  <2>3. n \in Nat /\ m \in Nat /\ S \subseteq 1..n /\ T \subseteq 1..m
    BY <1>0, <1>4, <1>7, <1>8, <2>1, <2>2
  <2>4. InStep(f, S, T)
    BY <1>14, <2>3, MovedOrder, Zenon
  <2> QED BY <1>16, <1>17, <2>4, Zenon DEF InStep
<1>19. \A k \in DOMAIN a : w[b[k]] = ls[a[k]]
  BY <1>15, <1>18
<1>20. OwnLines(ls) = [k \in DOMAIN a |-> ls[a[k]]]
  BY <1>5, <1>16, OwnLinesAt, Zenon
<1>21. OwnLines(w) = [k \in DOMAIN b |-> w[b[k]]]
  BY <1>6, <1>17, OwnLinesAt, Zenon
<1> QED BY <1>18, <1>19, <1>20, <1>21

\* A file put together from the beginning and the end of another.
LEMMA RewrittenOwn ==
  ASSUME NEW ls, File(ls), NEW mid, File(mid), Plain(mid), NEW p \in 0..Len(ls), NEW q \in (p + 1)..(Len(ls) + 1),
         \A n \in (p + 1)..(q - 1) : ~Own(ls[n])
  PROVE  OwnLines(Upto(ls, p) \o mid \o From(ls, q)) = OwnLines(ls)
<1>0. Len(mid) \in Nat /\ Len(ls) \in Nat
  BY FileLength
<1>1. PICK w : w = Upto(ls, p) \o mid \o From(ls, q)
  OBVIOUS
<1>2. Splice(w, ls, p, q, Len(mid)) /\ \A k \in 1..Len(mid) : w[p + k] = mid[k]
  <2>1. SplicedWith(w, ls, p, q, mid)
    BY <1>1, SplicedFile, Zenon
  <2> QED BY <2>1 DEF SplicedWith
<1>3. PICK d : d = Len(mid)
  OBVIOUS
<1>4. \A n \in (p + 1)..(p + d) : ~Own(w[n])
  <2> TAKE n \in (p + 1)..(p + d)
  <2>1. PICK k : k = n - p
    OBVIOUS
  <2>2. k \in 1..d /\ n = p + k
    BY <1>0, <1>3, <2>1
  <2>3. ~Own(mid[k])
    BY <1>3, <2>2 DEF Plain
  <2> QED BY <1>2, <1>3, <2>2, <2>3
<1>5. OwnLines(w) = OwnLines(ls)
  BY <1>2, <1>3, <1>4, SplicedOwn, Zenon
<1> QED BY <1>1, <1>5, Zenon

\* Pieces of a file may be put together in any grouping.
Assoc(a, b, c) == (a \o b) \o c = a \o (b \o c)

\* Files are joined in any grouping.
LEMMA Associates == ASSUME NEW a, File(a), NEW b, File(b), NEW c, File(c) PROVE Assoc(a, b, c)
<1>1. PICK U : a \in Seq(U)
  BY DEF File
<1>2. PICK V : b \in Seq(V)
  BY DEF File
<1>3. PICK W : c \in Seq(W)
  BY DEF File
<1>4. PICK X : X = U \cup V \cup W
  OBVIOUS
<1>5. a \in Seq(X) /\ b \in Seq(X) /\ c \in Seq(X)
  BY <1>1, <1>2, <1>3, <1>4
<1>6. (a \o b) \o c = a \o (b \o c)
  BY <1>5
<1> QED BY <1>6, Zenon DEF Assoc
Regroups(x, a, b, c) == x \o a \o b \o c = x \o (a \o b \o c)

\* Three pieces behind a fourth.
LEMMA Regroup ==
  ASSUME NEW x, File(x), NEW a, File(a), NEW b, File(b), NEW c, File(c)
  PROVE  Regroups(x, a, b, c)
<1>1. PICK ab : ab = a \o b
  OBVIOUS
<1>2. File(ab)
  BY <1>1, JoinIsFile, Zenon
<1>3. Assoc(x, a, b) /\ Assoc(x, ab, c)
  BY <1>2, Associates, Zenon
<1>4. (x \o a) \o b = x \o ab
  BY <1>1, <1>3, Zenon DEF Assoc
<1>5. (x \o ab) \o c = x \o (ab \o c)
  BY <1>3, Zenon DEF Assoc
<1> QED BY <1>1, <1>4, <1>5, Zenon DEF Regroups

\* Nothing added is nothing changed.
LEMMA EmptyPiece == ASSUME NEW a, File(a) PROVE a \o <<>> = a /\ <<>> \o a = a /\ File(<<>>) /\ Plain(<<>>)
<1>1. PICK U : a \in Seq(U)
  BY DEF File
<1>2. a \o <<>> = a /\ <<>> \o a = a
  BY <1>1
<1>3. <<>> \in Seq({})
  OBVIOUS
<1>4. File(<<>>)
  BY <1>3, LinesOfFile, Zenon
<1>5. Plain(<<>>)
  BY DEF Plain
<1> QED BY <1>2, <1>4, <1>5

\* Blank lines, entries and markers are nobody's lines, together too.
LEMMA PlainJoin ==
  ASSUME NEW s, File(s), Plain(s), NEW t, File(t), Plain(t)
  PROVE  File(s \o t) /\ Plain(s \o t)
<1>1. PICK U : s \in Seq(U)
  BY DEF File
<1>2. PICK V : t \in Seq(V)
  BY DEF File
<1>3. PICK X : X = U \cup V
  OBVIOUS
<1>4. s \in Seq(X) /\ t \in Seq(X)
  BY <1>1, <1>2, <1>3
<1>5. PICK w : w = s \o t
  OBVIOUS
<1>6. w \in Seq(X) /\ Joins(w, s, t)
  BY <1>4, <1>5, JoinedLines, Zenon
<1>7. Len(s) \in Nat /\ Len(t) \in Nat
  BY FileLength
<1>8. \A k \in 1..Len(w) : ~Own(w[k])
  <2> TAKE k \in 1..Len(w)
  <2>1. Len(w) = Len(s) + Len(t)
    BY <1>6 DEF Joins
  <2>2. CASE k \in 1..Len(s)
    BY <1>6, <2>2 DEF Joins, Plain
  <2>3. CASE k \notin 1..Len(s)
    <3>1. PICK j : j = k - Len(s)
      OBVIOUS
    <3>2. j \in 1..Len(t) /\ k = Len(s) + j
      BY <1>7, <2>1, <2>3, <3>1
    <3>3. w[Len(s) + j] = t[j]
      BY <1>6, <3>2 DEF Joins
    <3> QED BY <3>2, <3>3 DEF Plain
  <2> QED BY <2>2, <2>3
<1>9. File(w) /\ Plain(w)
  BY <1>6, <1>8, LinesOfFile DEF Plain
<1> QED BY <1>5, <1>9, Zenon

\* The lines the commands write around a list are nobody's.
LEMMA PlainLines ==
  /\ File(<<Blank>>) /\ Plain(<<Blank>>)
  /\ File(<<TocHeading, Blank>>) /\ Plain(<<TocHeading, Blank>>)
  /\ File(<<Blank, TOC_MARKER_START, Blank>>) /\ Plain(<<Blank, TOC_MARKER_START, Blank>>)
  /\ File(<<Blank, TOC_MARKER_END, Blank>>) /\ Plain(<<Blank, TOC_MARKER_END, Blank>>)
<1>1. ~Own(Blank) /\ ~Own(TocHeading) /\ ~Own(TOC_MARKER_START) /\ ~Own(TOC_MARKER_END)
  <2>1. Blank.k = "blank" /\ TOC_MARKER_START.k = "open" /\ TOC_MARKER_END.k = "close"
    BY DEF Blank, TOC_MARKER_START, TOC_MARKER_END, Line
  <2> QED BY <2>1 DEF Own
<1>2. \A x, y, z : (~Own(x) => Plain(<<x>>)) /\ (~Own(x) /\ ~Own(y) => Plain(<<x, y>>))
                   /\ (~Own(x) /\ ~Own(y) /\ ~Own(z) => Plain(<<x, y, z>>))
  BY DEF Plain
<1> QED BY <1>1, <1>2, FewLines, Zenon

\* So is the list.
LEMMA PlainList ==
  ASSUME NEW n \in Nat, NEW hs, hs \subseteq 1..n, NEW ls, NEW numbered, NEW indent
  PROVE  File(build_toc(ls, hs, numbered, indent)) /\ Plain(build_toc(ls, hs, numbered, indent))
<1>1. PICK toc : toc = build_toc(ls, hs, numbered, indent)
  OBVIOUS
<1>2. File(toc)
  BY <1>1, ListIsFile, Zenon
<1>3. \A k \in DOMAIN toc : toc[k].k = "entry"
  BY <1>1 DEF build_toc, Line
<1>4. \A k \in 1..Len(toc) : ~Own(toc[k])
  BY <1>2, <1>3, FileLength DEF Own
<1>5. Plain(toc)
  BY <1>4 DEF Plain
<1> QED BY <1>1, <1>2, <1>5, Zenon

\* "\n".join adds a blank line at most.
LEMMA JoinAddsBlank ==
  ASSUME NEW s, File(s)
  PROVE  \E j : File(j) /\ Plain(j) /\ Join(s) = s \o j /\ Join(s) = j \o s
<1>1. CASE s = <<>>
  <2>1. PICK j : j = <<Blank>>
    OBVIOUS
  <2>2. File(j) /\ Plain(j)
    BY <2>1, PlainLines, Zenon
  <2>3. Join(s) = j
    BY <1>1, <2>1 DEF Join
  <2>4. s \o j = j /\ j \o s = j
    BY <1>1, <2>2, EmptyPiece
  <2> QED BY <2>2, <2>3, <2>4
<1>2. CASE s # <<>>
  <2>1. Join(s) = s
    BY <1>2 DEF Join
  <2>2. s \o <<>> = s /\ <<>> \o s = s /\ File(<<>>) /\ Plain(<<>>)
    BY EmptyPiece
  <2> QED BY <2>1, <2>2
<1> QED BY <1>1, <1>2

\* The section and the blank lines around it hold none of the author's lines, in an orderly
\* file.
LEMMA SectionIsPlain ==
  ASSUME NEW ls, File(ls), Orderly(ls), HeadingSection(ls) # <<>>
  PROVE  \E v, z \in 1..(Len(ls) + 1) :
            /\ v < z /\ Widened(ls, HeadingSection(ls)) = <<v, z>>
            /\ \A n \in v..(z - 1) : ~Own(ls[n]) /\ ls[n].k \notin {"open", "close", "fence"}
<1>0. Len(ls) \in Nat
  BY FileLength
<1>1. PICK a, b \in 1..(Len(ls) + 1) :
            /\ a < b /\ HeadingSection(ls) = <<a, b>> /\ ls[a] = TocHeading
            /\ a = Min({n \in Outside(ls) : ls[n] = TocHeading})
  BY SectionAt
<1>3. PICK v \in 1..a, z \in b..(Len(ls) + 1) :
            /\ Widened(ls, <<a, b>>) = <<v, z>>
            /\ \A k \in v..(a - 1) : ls[k] = Blank
            /\ \A k \in b..(z - 1) : ls[k] = Blank
  BY WidenedBlank
<1>4. v \in 1..(Len(ls) + 1) /\ z \in 1..(Len(ls) + 1) /\ v < z
  BY <1>0, <1>1
<1>5. PICK toc : toc = {n \in Headings(ls) : ls[n].txt \in _TOC_HEADING_NAMES}
  OBVIOUS
<1>6. \A n \in toc : ls[n] = TocHeading
  BY <1>5 DEF Orderly
<1>7. toc = {n \in Outside(ls) : ls[n] = TocHeading}
  <2>1. TocHeading.k = "head" /\ TocHeading.txt \in _TOC_HEADING_NAMES
    BY DEF TocHeading, Heading, Line, _TOC_HEADING_NAMES
  <2> QED BY <1>5, <1>6, <2>1, Zenon DEF Headings
<1>8. toc # {}
  <2>1. {n \in Outside(ls) : ls[n] = TocHeading} # {}
    BY DEF HeadingSection
  <2> QED BY <1>7, <2>1
<1>9. \A n \in (Min(toc) + 1)..(HeadingSection(ls)[2] - 1) : ls[n].k \in {"blank", "entry"}
  BY <1>5, <1>8, Zenon DEF Orderly
<1>10. \A n \in (a + 1)..(b - 1) : ls[n].k \in {"blank", "entry"}
  <2>1. Min(toc) = a /\ HeadingSection(ls)[2] = b
    BY <1>1, <1>7
  <2> QED BY <1>9, <2>1
<1>11. Blank.k = "blank" /\ TocHeading.k = "head"
  BY DEF Blank, TocHeading, Heading, Line
<1>12. \A n \in v..(z - 1) : ls[n] = Blank \/ ls[n] = TocHeading \/ ls[n].k \in {"blank", "entry"}
  <2> TAKE n \in v..(z - 1)
  <2>1. n \in v..(a - 1) \/ n = a \/ n \in (a + 1)..(b - 1) \/ n \in b..(z - 1)
    BY <1>0
  <2> QED BY <1>1, <1>3, <1>10, <2>1
<1>13. \A n \in v..(z - 1) : ~Own(ls[n]) /\ ls[n].k \notin {"open", "close", "fence"}
  BY <1>11, <1>12 DEF Own
<1> QED BY <1>1, <1>3, <1>4, <1>13

\* `_strip_manual_toc` keeps the author's lines (toc.py:520-560).
LEMMA StripKeepsOwn ==
  ASSUME NEW ls, File(ls), Orderly(ls)
  PROVE  OwnLines(_strip_manual_toc(ls)) = OwnLines(ls)
<1>0. Len(ls) \in Nat
  BY FileLength
<1>1. CASE HeadingSection(ls) = <<>>
  BY <1>1 DEF _strip_manual_toc
<1>2. CASE HeadingSection(ls) # <<>>
  <2>1. PICK v, z \in 1..(Len(ls) + 1) :
            /\ v < z /\ Widened(ls, HeadingSection(ls)) = <<v, z>>
            /\ \A n \in v..(z - 1) : ~Own(ls[n]) /\ ls[n].k \notin {"open", "close", "fence"}
    BY <1>2, SectionIsPlain
  <2>2. PICK p : p = v - 1
    OBVIOUS
  <2>3. p \in 0..Len(ls) /\ z \in (p + 1)..(Len(ls) + 1) /\ p \in Int /\ z \in Int /\ p + 1 = v
    BY <1>0, <2>1, <2>2
  <2>4. PICK x : x = Upto(ls, p)
    OBVIOUS
  <2>5. PICK y : y = From(ls, z)
    OBVIOUS
  <2>6. File(x) /\ File(y)
    BY <2>3, <2>4, <2>5, EndsAreFiles, Zenon
  <2>7. _strip_manual_toc(ls) = Join(x \o y)
    <3>1. Widened(ls, HeadingSection(ls))[1] - 1 = p /\ Widened(ls, HeadingSection(ls))[2] = z
      BY <2>1, <2>2
    <3> QED BY <1>2, <2>4, <2>5, <3>1, Zenon DEF _strip_manual_toc
  <2>10. CASE x \o y = <<>>
    \* Nothing is left: there was nothing of the author's in the file.
    <3>1. x = <<>> /\ y = <<>>
      <4>1. PICK U : x \in Seq(U)
        BY <2>6 DEF File
      <4>2. PICK V : y \in Seq(V)
        BY <2>6 DEF File
      <4> QED BY <2>10, <4>1, <4>2
    <3>2. Join(x \o y) = x \o <<Blank>> \o y
      <4>1. File(<<Blank>>)
        BY PlainLines, Zenon
      <4>2. <<>> \o <<Blank>> = <<Blank>> /\ <<Blank>> \o <<>> = <<Blank>>
        BY <4>1, EmptyPiece, Zenon
      <4> QED BY <2>10, <3>1, <4>2 DEF Join
    <3>3. \A n \in (p + 1)..(z - 1) : ~Own(ls[n])
      BY <2>1, <2>3
    <3>4. OwnLines(Upto(ls, p) \o <<Blank>> \o From(ls, z)) = OwnLines(ls)
      BY <2>3, <3>3, PlainLines, RewrittenOwn, Zenon
    <3> QED BY <2>4, <2>5, <2>7, <3>2, <3>4, Zenon
  <2>11. CASE x \o y # <<>>
    <3>1. Join(x \o y) = x \o y
      BY <2>11 DEF Join
    <3>2. x \o <<>> = x /\ File(<<>>) /\ Plain(<<>>)
      BY <2>6, EmptyPiece, Zenon
    <3>3. \A n \in (p + 1)..(z - 1) : ~Own(ls[n])
      BY <2>1, <2>3
    <3>4. OwnLines(Upto(ls, p) \o <<>> \o From(ls, z)) = OwnLines(ls)
      BY <2>3, <3>2, <3>3, RewrittenOwn, Zenon
    <3> QED BY <2>4, <2>5, <2>7, <3>1, <3>2, <3>4, Zenon
  <2> QED BY <2>10, <2>11
<1> QED BY <1>1, <1>2

\* Between the markers nobody writes but the command.
BlockPlain(ls) == \A o, c : MarkerBlock(ls) = <<o, c>> => \A n \in (o + 1)..(c - 1) : ~Own(ls[n])

\* An orderly file has such a block.
LEMMA OrderlyBlock == ASSUME NEW ls, Orderly(ls) PROVE BlockPlain(ls)
<1> SUFFICES ASSUME NEW o, NEW c, MarkerBlock(ls) = <<o, c>>, NEW n \in (o + 1)..(c - 1) PROVE ~Own(ls[n])
  BY DEF BlockPlain
<1>1. MarkerBlock(ls) # <<>> /\ MarkerBlock(ls)[1] = o /\ MarkerBlock(ls)[2] = c
  OBVIOUS
<1>2. \A m \in (MarkerBlock(ls)[1] + 1)..(MarkerBlock(ls)[2] - 1) : ls[m].k \in {"blank", "entry"}
  BY <1>1, Zenon DEF Orderly
<1>3. ls[n].k \in {"blank", "entry"}
  BY <1>1, <1>2
<1> QED BY <1>3 DEF Own

\* Without the section a person wrote, the markers still hold none of the author's lines.
LEMMA StripKeepsBlock ==
  ASSUME NEW ls, File(ls), Orderly(ls)
  PROVE  BlockPlain(_strip_manual_toc(ls))
<1>0. Len(ls) \in Nat /\ DOMAIN ls = 1..Len(ls)
  BY FileLength
<1>1. CASE HeadingSection(ls) = <<>>
  <2>1. _strip_manual_toc(ls) = ls
    BY <1>1 DEF _strip_manual_toc
  <2> QED BY <2>1, OrderlyBlock
<1>2. CASE HeadingSection(ls) # <<>>
  <2>1. PICK v, z \in 1..(Len(ls) + 1) :
            /\ v < z /\ Widened(ls, HeadingSection(ls)) = <<v, z>>
            /\ \A n \in v..(z - 1) : ~Own(ls[n]) /\ ls[n].k \notin {"open", "close", "fence"}
    BY <1>2, SectionIsPlain
  <2>2. PICK p : p = v - 1
    OBVIOUS
  <2>3. p \in 0..Len(ls) /\ z \in (p + 1)..(Len(ls) + 1) /\ p \in Int /\ z \in Int /\ p + 1 = v
    BY <1>0, <2>1, <2>2
  <2>4. PICK x : x = Upto(ls, p)
    OBVIOUS
  <2>5. PICK y : y = From(ls, z)
    OBVIOUS
  <2>6. File(x) /\ File(y)
    BY <2>3, <2>4, <2>5, EndsAreFiles, Zenon
  <2>7. _strip_manual_toc(ls) = Join(x \o y)
    <3>1. Widened(ls, HeadingSection(ls))[1] - 1 = p /\ Widened(ls, HeadingSection(ls))[2] = z
      BY <2>1, <2>2
    <3> QED BY <1>2, <2>4, <2>5, <3>1, Zenon DEF _strip_manual_toc
  <2>8. CASE x \o y = <<>>
    <3>1. Join(x \o y) = <<Blank>>
      BY <2>8 DEF Join
    <3>2. MarkerBlock(<<Blank>>) = <<>>
      <4>1. Blank # TOC_MARKER_START
        <5>1. Blank.k = "blank" /\ TOC_MARKER_START.k = "open"
          BY DEF Blank, TOC_MARKER_START, Line
        <5> QED BY <5>1
      <4>2. {n \in DOMAIN <<Blank>> : <<Blank>>[n] = TOC_MARKER_START} = {}
        BY <4>1
      <4> QED BY <4>2, Zenon DEF MarkerBlock
    <3>3. BlockPlain(<<Blank>>)
      <4>1. \A o, c : <<o, c>> # <<>>
        OBVIOUS
      <4> QED BY <3>2, <4>1, Zenon DEF BlockPlain
    <3> QED BY <2>7, <3>1, <3>3, Zenon
  <2>9. CASE x \o y # <<>>
    <3>1. PICK w : w = x \o y
      OBVIOUS
    <3>2. _strip_manual_toc(ls) = w
      BY <2>7, <2>9, <3>1 DEF Join
    <3>3. PICK d : d = 0
      OBVIOUS
    <3>4. Splice(w, ls, p, z, d)
      <4>1. x \o <<>> = x /\ File(<<>>)
        BY <2>6, EmptyPiece, Zenon
      <4>2. w = Upto(ls, p) \o <<>> \o From(ls, z)
        BY <2>4, <2>5, <3>1, <4>1, Zenon
      <4>3. SplicedWith(w, ls, p, z, <<>>)
        BY <2>3, <4>1, <4>2, SplicedFile, Zenon
      <4>4. Len(<<>>) = d
        BY <3>3
      <4> QED BY <4>3, <4>4 DEF SplicedWith
    <3>5. PICK sh : sh = Shift(p, z, d)
      OBVIOUS
    <3>6. /\ File(w) /\ Len(w) = Len(ls) + sh
          /\ \A k \in 1..p : w[k] = ls[k]
          /\ \A k \in z..Len(ls) : w[k + sh] = ls[k]
      BY <3>4, <3>5 DEF Splice
    <3>7. sh = p + 1 - z
      BY <2>3, <3>3, <3>5 DEF Shift
    <3>8. PICK g : g = [k \in 1..Len(w) |-> IF k <= p THEN k ELSE k - sh]
      OBVIOUS
    <3>9. \A k \in 1..Len(w) : g[k] \in 1..Len(ls) /\ w[k] = ls[g[k]]
      <4> TAKE k \in 1..Len(w)
      <4>1. CASE k <= p
        <5>1. k \in 1..p /\ g[k] = k /\ k \in 1..Len(ls)
          BY <1>0, <2>3, <3>8, <4>1
        <5> QED BY <3>6, <5>1
      <4>2. CASE ~(k <= p)
        <5>1. PICK j : j = k - sh
          OBVIOUS
        <5>2. g[k] = j /\ j \in z..Len(ls) /\ k = j + sh /\ j \in 1..Len(ls)
          BY <1>0, <2>3, <3>6, <3>7, <3>8, <4>2, <5>1
        <5> QED BY <3>6, <5>2
      <4> QED BY <4>1, <4>2
    <3>10. \A j, k \in 1..Len(w) : j < k => g[j] < g[k]
      BY <1>0, <2>3, <3>6, <3>7, <3>8
    <3>11. ASSUME NEW o, NEW c, MarkerBlock(w) = <<o, c>>, NEW n \in (o + 1)..(c - 1)
           PROVE  ~Own(w[n])
      <4>1. o \in 1..Len(w) /\ c \in 1..Len(w) /\ o < c /\ w[o] = TOC_MARKER_START /\ w[c] = TOC_MARKER_END
        <5>1. MarkerBlock(w) # <<>>
          BY <3>11
        <5>2. PICK o1, c1 \in 1..Len(w) : /\ MarkerBlock(w) = <<o1, c1>> /\ o1 < c1
                                          /\ w[o1] = TOC_MARKER_START /\ w[c1] = TOC_MARKER_END
          BY <3>6, <5>1, BlockMarkers DEF File
        <5>3. o = o1 /\ c = c1
          BY <3>11, <5>2
        <5> QED BY <5>2, <5>3
      <4>2. n \in 1..Len(w) /\ o < n /\ n < c
        BY <4>1
      <4>3. g[o] < g[n] /\ g[n] < g[c] /\ g[o] < g[c]
        BY <3>10, <4>1, <4>2
      <4>4. g[o] \in Marks(ls) /\ g[c] \in Marks(ls)
        <5>1. TOC_MARKER_START.k = "open" /\ TOC_MARKER_END.k = "close"
          BY DEF TOC_MARKER_START, TOC_MARKER_END, Line
        <5> QED BY <1>0, <3>9, <4>1, <5>1 DEF Marks
      <4>5. PICK b : b = MarkerBlock(ls)
        OBVIOUS
      <4>6. b # <<>> /\ Marks(ls) = {b[1], b[2]}
        BY <4>4, <4>5 DEF Orderly
      <4>7. PICK o1, c1 \in 1..Len(ls) : b = <<o1, c1>> /\ o1 < c1
        BY <4>5, <4>6, BlockMarkers DEF File
      <4>8. g[o] \in {o1, c1} /\ g[c] \in {o1, c1}
        BY <4>4, <4>6, <4>7
      <4>9. g[o] = o1 /\ g[c] = c1
        BY <4>3, <4>7, <4>8
      <4>10. g[n] \in 1..Len(ls)
        BY <3>9, <4>2
      <4>11. g[n] \in (o1 + 1)..(c1 - 1)
        BY <4>3, <4>9, <4>10
      <4>12. ~Own(ls[g[n]])
        BY <4>5, <4>7, <4>11, OrderlyBlock DEF BlockPlain
      <4> QED BY <3>9, <4>2, <4>12
    <3>12. BlockPlain(w)
      BY <3>11 DEF BlockPlain
    <3> QED BY <3>2, <3>12, Zenon
  <2> QED BY <2>8, <2>9
<1> QED BY <1>1, <1>2

\* insert_toc_markers keeps the author's lines (toc.py:251-330).
LEMMA MarkersKeepOwn ==
  ASSUME NEW ls, File(ls), BlockPlain(ls)
  PROVE  OwnLines(insert_toc_markers(ls, 3)) = OwnLines(ls)
<1>0. Len(ls) \in Nat
  BY FileLength
<1>1. PICK hs : hs = parse_headings(ls, 2, 3, FALSE, FALSE)
  OBVIOUS
<1>2. PICK toc : toc = build_toc(ls, hs, FALSE, 2)
  OBVIOUS
<1>3. File(toc) /\ Plain(toc)
  <2>1. PICK n : n = Len(ls)
    OBVIOUS
  <2>2. n \in Nat /\ hs \subseteq 1..n
    BY <1>0, <1>1, <2>1, HeadingsInFile
  <2>3. File(build_toc(ls, hs, FALSE, 2)) /\ Plain(build_toc(ls, hs, FALSE, 2))
    BY <2>2, PlainList, Zenon
  <2> QED BY <1>2, <2>3, Zenon
<1>4. CASE hs = {}
  <2>1. insert_toc_markers(ls, 3) = ls
    BY <1>1, <1>4, Zenon DEF insert_toc_markers
  <2> QED BY <2>1
<1>5. CASE hs # {} /\ MarkerBlock(ls) # <<>>
  <2>1. PICK o, c \in 1..Len(ls) : MarkerBlock(ls) = <<o, c>> /\ o < c
    BY <1>5, BlockMarkers DEF File
  <2>2. PICK x : x = Upto(ls, o)
    OBVIOUS
  <2>3. PICK y : y = From(ls, c)
    OBVIOUS
  <2>4. File(x) /\ File(y)
    <3>1. o \in Int /\ c \in Int
      OBVIOUS
    <3> QED BY <2>2, <2>3, <3>1, EndsAreFiles
  <2>5. PICK b : b = <<Blank>>
    OBVIOUS
  <2>6. File(b) /\ Plain(b)
    BY <2>5, PlainLines, Zenon
  <2>7. insert_toc_markers(ls, 3) = x \o b \o toc \o b \o y
    <3>1. MarkerBlock(ls)[1] = o /\ MarkerBlock(ls)[2] = c
      BY <2>1
    <3>2. insert_toc_markers(ls, 3) = Upto(ls, MarkerBlock(ls)[1]) \o <<Blank>> \o toc \o <<Blank>> \o From(ls, MarkerBlock(ls)[2])
      BY <1>1, <1>2, <1>5 DEF insert_toc_markers
    <3> QED BY <2>2, <2>3, <2>5, <3>1, <3>2, Zenon
  <2>8. File(b \o toc) /\ Plain(b \o toc)
    BY <1>3, <2>6, PlainJoin, Zenon
  <2>9. File(b \o toc \o b) /\ Plain(b \o toc \o b)
    BY <2>6, <2>8, PlainJoin, Zenon
  <2>10. x \o b \o toc \o b = x \o (b \o toc \o b)
    <3>1. Regroups(x, b, toc, b)
      BY <1>3, <2>4, <2>6, Regroup, Zenon
    <3> QED BY <3>1, Zenon DEF Regroups
  <2>11. \A n \in (o + 1)..(c - 1) : ~Own(ls[n])
    BY <2>1 DEF BlockPlain
  <2>12. o \in 0..Len(ls) /\ c \in (o + 1)..(Len(ls) + 1)
    BY <1>0, <2>1
  <2>13. OwnLines(Upto(ls, o) \o (b \o toc \o b) \o From(ls, c)) = OwnLines(ls)
    BY <2>9, <2>11, <2>12, RewrittenOwn, Zenon
  <2> QED BY <2>2, <2>3, <2>7, <2>10, <2>13, Zenon
<1>6. CASE hs # {} /\ MarkerBlock(ls) = <<>>
  <2>1. PICK titles : titles = {n \in Headings(ls) : ls[n].lvl = 1}
    OBVIOUS
  <2>2. PICK at : at = IF titles = {} THEN 1 ELSE Widened(ls, <<Min(titles), Min(titles) + 1>>)[2]
    OBVIOUS
  <2>3. at \in 1..(Len(ls) + 1)
    <3>1. CASE titles = {}
      BY <1>0, <2>2, <3>1
    <3>2. CASE titles # {}
      <4>1. titles \subseteq 1..Len(ls)
        BY <2>1, HeadingsInFile
      <4>2. titles \subseteq Nat
        BY <1>0, <4>1
      <4>3. Min(titles) \in titles
        BY <3>2, <4>2, MinIsLeast
      <4>4. PICK a : a = Min(titles)
        OBVIOUS
      <4>5. a \in 1..Len(ls)
        BY <4>1, <4>3, <4>4
      <4>6. PICK b : b = a + 1
        OBVIOUS
      <4>7. a \in 1..(Len(ls) + 1) /\ b \in 1..(Len(ls) + 1)
        BY <1>0, <4>5, <4>6
      <4>8. PICK v \in 1..a, z \in b..(Len(ls) + 1) : Widened(ls, <<a, b>>) = <<v, z>>
        BY <4>7, WidenedBlank
      <4>9. at = z
        BY <2>2, <3>2, <4>4, <4>6, <4>8
      <4> QED BY <1>0, <4>7, <4>9
    <3> QED BY <3>1, <3>2
  <2>4. PICK p : p = at - 1
    OBVIOUS
  <2>5. p \in 0..Len(ls) /\ at \in (p + 1)..(Len(ls) + 1) /\ p \in Int /\ at \in Int /\ \A n \in (p + 1)..(at - 1) : ~Own(ls[n])
    BY <1>0, <2>3, <2>4
  <2>6. PICK o : o = <<Blank, TOC_MARKER_START, Blank>>
    OBVIOUS
  <2>7. PICK c : c = <<Blank, TOC_MARKER_END, Blank>>
    OBVIOUS
  <2>8. File(o) /\ Plain(o) /\ File(c) /\ Plain(c)
    BY <2>6, <2>7, PlainLines, Zenon
  <2>9. PICK x : x = Upto(ls, p)
    OBVIOUS
  <2>10. PICK y : y = From(ls, at)
    OBVIOUS
  <2>11. File(x) /\ File(y)
    BY <2>5, <2>9, <2>10, EndsAreFiles
  <2>12. insert_toc_markers(ls, 3) = x \o o \o toc \o c \o y
    BY <1>1, <1>2, <1>6, <2>1, <2>2, <2>4, <2>6, <2>7, <2>9, <2>10 DEF insert_toc_markers
  <2>13. File(o \o toc) /\ Plain(o \o toc)
    BY <1>3, <2>8, PlainJoin, Zenon
  <2>14. File(o \o toc \o c) /\ Plain(o \o toc \o c)
    BY <2>8, <2>13, PlainJoin, Zenon
  <2>15. x \o o \o toc \o c = x \o (o \o toc \o c)
    <3>1. Regroups(x, o, toc, c)
      BY <1>3, <2>8, <2>11, Regroup, Zenon
    <3> QED BY <3>1, Zenon DEF Regroups
  <2>16. OwnLines(Upto(ls, p) \o (o \o toc \o c) \o From(ls, at)) = OwnLines(ls)
    BY <2>5, <2>14, RewrittenOwn, Zenon
  <2> QED BY <2>9, <2>10, <2>12, <2>15, <2>16, Zenon
<1> QED BY <1>4, <1>5, <1>6

\* A section put where others end, with its blank lines: the author's lines stay.
LEMMA SectionKeepsOwn ==
  ASSUME NEW ls, File(ls), NEW section, File(section), Plain(section),
         NEW p \in 0..Len(ls), NEW q \in (p + 1)..(Len(ls) + 1),
         \A n \in (p + 1)..(q - 1) : ~Own(ls[n])
  PROVE  OwnLines(Join(Upto(ls, p)) \o <<Blank>> \o section \o <<Blank>> \o Join(From(ls, q))) = OwnLines(ls)
<1>0. p \in Int /\ q \in Int
  BY FileLength
<1>1. PICK x : x = Upto(ls, p)
  OBVIOUS
<1>2. PICK y : y = From(ls, q)
  OBVIOUS
<1>3. File(x) /\ File(y)
  BY <1>0, <1>1, <1>2, EndsAreFiles, Zenon
<1>4. PICK j : File(j) /\ Plain(j) /\ Join(x) = x \o j
  BY <1>3, JoinAddsBlank
<1>5. PICK i : File(i) /\ Plain(i) /\ Join(y) = i \o y
  BY <1>3, JoinAddsBlank
<1>6. PICK b : b = <<Blank>>
  OBVIOUS
<1>7. File(b) /\ Plain(b)
  BY <1>6, PlainLines, Zenon
<1>8. PICK jb : jb = j \o b
  OBVIOUS
<1>9. PICK bi : bi = b \o i
  OBVIOUS
<1>10. File(jb) /\ Plain(jb) /\ File(bi) /\ Plain(bi)
  BY <1>4, <1>5, <1>7, <1>8, <1>9, PlainJoin, Zenon
<1>11. File(jb \o section) /\ Plain(jb \o section)
  BY <1>10, PlainJoin, Zenon
<1>12. File(jb \o section \o bi) /\ Plain(jb \o section \o bi)
  BY <1>10, <1>11, PlainJoin, Zenon
<1>13. (x \o j) \o b \o section \o b \o (i \o y) = x \o (jb \o section \o bi) \o y
  <2>1. PICK js : js = jb \o section
    OBVIOUS
  <2>2. PICK xj : xj = x \o js
    OBVIOUS
  <2>3. PICK iy : iy = i \o y
    OBVIOUS
  <2>4. File(js) /\ File(xj) /\ File(iy)
    BY <1>3, <1>5, <1>11, <2>1, <2>2, <2>3, JoinIsFile, Zenon
  <2>5. /\ Assoc(x, j, b) /\ Assoc(x, jb, section) /\ Assoc(xj, b, iy)
        /\ Assoc(b, i, y) /\ Assoc(xj, bi, y) /\ Assoc(x, js, bi)
    BY <1>3, <1>4, <1>5, <1>7, <1>10, <2>4, Associates, Zenon
  <2>6. (x \o j) \o b \o section = xj
    BY <1>8, <2>1, <2>2, <2>5, Zenon DEF Assoc
  <2>7. (xj \o b) \o iy = xj \o (bi \o y)
    BY <1>9, <2>3, <2>5, Zenon DEF Assoc
  <2>8. xj \o (bi \o y) = (xj \o bi) \o y
    BY <2>5, Zenon DEF Assoc
  <2>9. xj \o bi = x \o (js \o bi)
    BY <2>2, <2>5, Zenon DEF Assoc
  <2> QED BY <2>1, <2>3, <2>6, <2>7, <2>8, <2>9, Zenon
<1>14. OwnLines(Upto(ls, p) \o (jb \o section \o bi) \o From(ls, q)) = OwnLines(ls)
  BY <1>12, RewrittenOwn, Zenon
<1> QED BY <1>1, <1>2, <1>4, <1>5, <1>6, <1>13, <1>14, Zenon

\* insert_toc_heading keeps the author's lines (toc.py:380-470).
LEMMA HeadingKeepsOwn ==
  ASSUME NEW ls, File(ls), Orderly(ls)
  PROVE  OwnLines(insert_toc_heading(ls, 3)) = OwnLines(ls)
<1>0. Len(ls) \in Nat
  BY FileLength
<1>1. PICK hs : hs = parse_headings(ls, 1, 3, TRUE, TRUE)
  OBVIOUS
<1>2. PICK section : section = <<TocHeading, Blank>> \o build_toc(ls, hs, TRUE, 3)
  OBVIOUS
<1>3. File(section) /\ Plain(section)
  <2>1. PICK n : n = Len(ls)
    OBVIOUS
  <2>2. n \in Nat /\ hs \subseteq 1..n
    BY <1>0, <1>1, <2>1, HeadingsInFile
  <2>3. PICK toc : toc = build_toc(ls, hs, TRUE, 3)
    OBVIOUS
  <2>4. File(toc) /\ Plain(toc)
    BY <2>2, <2>3, PlainList, Zenon
  <2>5. PICK h : h = <<TocHeading, Blank>>
    OBVIOUS
  <2>6. File(h) /\ Plain(h)
    BY <2>5, PlainLines, Zenon
  <2>7. File(h \o toc) /\ Plain(h \o toc)
    BY <2>4, <2>6, PlainJoin, Zenon
  <2> QED BY <1>2, <2>3, <2>5, <2>7, Zenon
<1>6. PICK s : s = HeadingSection(ls)
  OBVIOUS
<1>7. PICK at : at = SectionPlace(ls)
  OBVIOUS
<1>8. at \in 1..(Len(ls) + 1)
  BY <1>7, NewSectionRange
<1>9. CASE hs = {}
  <2>1. insert_toc_heading(ls, 3) = ls
    BY <1>1, <1>9, Zenon DEF insert_toc_heading
  <2> QED BY <2>1
<1>10. CASE hs # {} /\ s # <<>>
  <2>1. PICK v, z \in 1..(Len(ls) + 1) :
            /\ v < z /\ Widened(ls, HeadingSection(ls)) = <<v, z>>
            /\ \A n \in v..(z - 1) : ~Own(ls[n]) /\ ls[n].k \notin {"open", "close", "fence"}
    BY <1>6, <1>10, SectionIsPlain
  <2>2. PICK p : p = v - 1
    OBVIOUS
  <2>3. p \in 0..Len(ls) /\ z \in (p + 1)..(Len(ls) + 1) /\ p + 1 = v
    BY <1>0, <2>1, <2>2
  <2>4. \A n \in (p + 1)..(z - 1) : ~Own(ls[n])
    BY <2>1, <2>3
  <2>5. insert_toc_heading(ls, 3) = Join(Upto(ls, p)) \o <<Blank>> \o section \o <<Blank>> \o Join(From(ls, z))
    <3>1. Widened(ls, s)[1] - 1 = p /\ Widened(ls, s)[2] = z
      BY <1>6, <2>1, <2>2
    <3>2. insert_toc_heading(ls, 3) = Join(Upto(ls, Widened(ls, s)[1] - 1)) \o <<Blank>> \o section
                                      \o <<Blank>> \o Join(From(ls, Widened(ls, s)[2]))
      BY <1>1, <1>2, <1>6, <1>10 DEF insert_toc_heading
    <3> QED BY <3>1, <3>2, Zenon
  <2>6. OwnLines(Join(Upto(ls, p)) \o <<Blank>> \o section \o <<Blank>> \o Join(From(ls, z))) = OwnLines(ls)
    BY <1>3, <2>3, <2>4, SectionKeepsOwn, Zenon
  <2> QED BY <2>5, <2>6, Zenon
<1>11. CASE hs # {} /\ s = <<>> /\ at = 1
  <2>1. PICK b : b = <<Blank>>
    OBVIOUS
  <2>2. File(b) /\ Plain(b)
    BY <2>1, PlainLines, Zenon
  <2>3. insert_toc_heading(ls, 3) = section \o b \o ls
    BY <1>1, <1>2, <1>6, <1>7, <1>11, <2>1 DEF insert_toc_heading
  <2>4. File(section \o b) /\ Plain(section \o b)
    BY <1>3, <2>2, PlainJoin, Zenon
  <2>5. Upto(ls, 0) = <<>> /\ From(ls, 1) = ls
    <3>1. PICK U : ls \in Seq(U)
      BY DEF File
    <3> QED BY <1>0, <3>1 DEF Upto, From
  <2>6. 0 \in 0..Len(ls) /\ 1 \in (0 + 1)..(Len(ls) + 1) /\ \A n \in (0 + 1)..(1 - 1) : ~Own(ls[n])
    BY <1>0
  <2>7. OwnLines(Upto(ls, 0) \o (section \o b) \o From(ls, 1)) = OwnLines(ls)
    BY <2>4, <2>6, RewrittenOwn, Zenon
  <2>8. <<>> \o (section \o b) = section \o b
    BY <2>4, EmptyPiece, Zenon
  <2> QED BY <2>3, <2>5, <2>7, <2>8, Zenon
<1>12. CASE hs # {} /\ s = <<>> /\ at # 1
  <2>1. PICK ms : ms = Upto(ls, at - 1)
    OBVIOUS
  <2>2. File(ms) /\ Len(ms) = at - 1 /\ \A k \in 1..(at - 1) : ms[k] = ls[k]
    <3>1. at - 1 \in Int /\ at - 1 <= Len(ls) /\ at - 1 >= 0
      BY <1>0, <1>8
    <3>2. File(ms)
      BY <2>1, <3>1, EndsAreFiles
    <3>3. PICK U : ls \in Seq(U)
      BY DEF File
    <3>4. Len(ms) = at - 1 /\ \A k \in 1..(at - 1) : ms[k] = ls[k]
      BY <2>1, <3>1, <3>3 DEF Upto
    <3> QED BY <3>2, <3>4
  <2>3. PICK mb : mb = ms \o <<Blank>>
    OBVIOUS
  <2>4. File(mb) /\ Len(mb) = Len(ms) + 1 /\ \A k \in 1..Len(ms) : mb[k] = ms[k]
    <3>1. File(<<Blank>>)
      BY PlainLines, Zenon
    <3>2. File(ms \o <<Blank>>)
      BY <2>2, <3>1, JoinIsFile, Zenon
    <3>3. PICK U : ms \in Seq(U)
      BY <2>2 DEF File
    <3>4. Len(mb) = Len(ms) + 1 /\ \A k \in 1..Len(ms) : mb[k] = ms[k]
      BY <2>3, <3>3
    <3> QED BY <2>3, <3>2, <3>4
  <2>5. PICK a : a = Len(ms) + 1
    OBVIOUS
  <2>6. PICK b : b = Len(ms) + 2
    OBVIOUS
  <2>7. a \in 1..(Len(mb) + 1) /\ b \in 1..(Len(mb) + 1) /\ a = at
    BY <1>0, <1>8, <2>2, <2>4, <2>5, <2>6
  <2>8. PICK v \in 1..a, z \in b..(Len(mb) + 1) :
            /\ Widened(mb, <<a, b>>) = <<v, z>>
            /\ \A k \in v..(a - 1) : mb[k] = Blank
            /\ \A k \in b..(z - 1) : mb[k] = Blank
    BY <2>4, <2>7, WidenedBlank, Zenon
  <2>9. PICK p : p = v - 1
    OBVIOUS
  <2>10. p \in 0..Len(ls) /\ at \in (p + 1)..(Len(ls) + 1) /\ p + 1 = v /\ p <= at - 1 /\ p \in Int /\ p >= 0
    BY <1>0, <1>8, <2>7, <2>8, <2>9
  <2>11. \A n \in (p + 1)..(at - 1) : ~Own(ls[n])
    <3> TAKE n \in (p + 1)..(at - 1)
    <3>1. n \in 1..(at - 1) /\ n \in v..(a - 1)
      BY <1>8, <2>7, <2>10
    <3>2. ls[n] = Blank
      BY <2>2, <2>4, <2>8, <3>1
    <3>3. Blank.k = "blank"
      BY DEF Blank, Line
    <3> QED BY <3>2, <3>3 DEF Own
  <2>12. Upto(ms, p) = Upto(ls, p)
    <3>1. PICK U : ls \in Seq(U)
      BY DEF File
    <3>2. PICK V : ms \in Seq(V)
      BY <2>2 DEF File
    <3>3. \A k \in 1..p : ms[k] = ls[k]
      BY <1>8, <2>2, <2>10
    <3>4. Len(Upto(ms, p)) = p /\ Len(Upto(ls, p)) = p
      BY <1>0, <2>2, <2>10, <3>1, <3>2 DEF Upto
    <3>5. Upto(ms, p) = [k \in 1..p |-> ms[k]] /\ Upto(ls, p) = [k \in 1..p |-> ls[k]]
      BY <1>0, <2>2, <2>10, <3>1, <3>2 DEF Upto
    <3> QED BY <3>3, <3>5
  <2>13. insert_toc_heading(ls, 3) = Join(Upto(ms, p)) \o <<Blank>> \o section \o <<Blank>> \o Join(From(ls, at))
    <3>1. Widened(mb, <<a, b>>)[1] - 1 = p
      BY <2>8, <2>9
    <3>2. insert_toc_heading(ls, 3) = Join(Upto(ms, Widened(mb, <<a, b>>)[1] - 1)) \o <<Blank>> \o section
                                      \o <<Blank>> \o Join(From(ls, at))
      BY <1>1, <1>2, <1>6, <1>7, <1>12, <2>1, <2>3, <2>5, <2>6 DEF insert_toc_heading
    <3> QED BY <3>1, <3>2, Zenon
  <2>14. OwnLines(Join(Upto(ls, p)) \o <<Blank>> \o section \o <<Blank>> \o Join(From(ls, at))) = OwnLines(ls)
    BY <1>3, <2>10, <2>11, SectionKeepsOwn, Zenon
  <2> QED BY <2>12, <2>13, <2>14, Zenon
<1> QED BY <1>9, <1>10, <1>11, <1>12

\* `cypilot toc` takes the section a person wrote out and renews the markers.
LEMMA TocStepKeepsOwn ==
  ASSUME File(doc), Orderly(doc), cmd_toc
  PROVE  OwnLines(doc') = OwnLines(doc)
<1>1. PICK content : content = _strip_manual_toc(doc)
  OBVIOUS
<1>2. File(content) /\ BlockPlain(content) /\ OwnLines(content) = OwnLines(doc)
  BY <1>1, StrippedIsFile, StripKeepsBlock, StripKeepsOwn, Zenon
<1>3. PICK new : new = insert_toc_markers(content, 3)
  OBVIOUS
<1>4. OwnLines(new) = OwnLines(doc)
  BY <1>2, <1>3, MarkersKeepOwn, Zenon
<1>5. process_file(doc, 3)[1] \in {doc, new}
  <2>1. process_file(doc, 3) \in {<<doc, "SKIP">>, <<doc, "UNCHANGED">>, <<new, "UPDATED">>}
    BY <1>1, <1>3 DEF process_file
  <2> QED BY <2>1
<1>6. doc' = doc \/ doc' = new
  BY <1>5 DEF cmd_toc
<1>7. CASE doc' = doc
  BY <1>7, Zenon
<1>8. CASE doc' = new
  BY <1>4, <1>8, Zenon
<1> QED BY <1>6, <1>7, <1>8

\* The kit update renews the one form or the other.
LEMMA RegenerateKeepsOwn ==
  ASSUME File(doc), Orderly(doc), NEW form \in {"markers", "heading"}, RegenerateToc(form)
  PROVE  OwnLines(doc') = OwnLines(doc)
<1>1. OwnLines(insert_toc_markers(doc, 3)) = OwnLines(doc)
  BY OrderlyBlock, MarkersKeepOwn, Zenon
<1>2. OwnLines(insert_toc_heading(doc, 3)) = OwnLines(doc)
  BY HeadingKeepsOwn, Zenon
<1>3. doc' = _regenerate_toc(doc, form)
  BY DEF RegenerateToc
<1>4. doc' = insert_toc_markers(doc, 3) \/ doc' = insert_toc_heading(doc, 3)
  BY <1>3, Zenon DEF _regenerate_toc
<1> QED BY <1>1, <1>2, <1>4, Zenon

\* Every other step leaves the file alone, or is not a command's.
LEMMA StepKeepsOwn ==
  ASSUME FileOfLines, [Next]_vars, report'.by \in {"toc", "kit update"}, doc' # doc, Orderly(doc)
  PROVE  OwnLines(doc') = OwnLines(doc)
<1>1. File(doc)
  BY DEF File, FileOfLines
<1>2. CASE cmd_toc
  BY <1>1, <1>2, TocStepKeepsOwn
<1>3. CASE \E form \in {"markers", "heading"} : RegenerateToc(form)
  BY <1>1, <1>3, RegenerateKeepsOwn
<1>4. ~(FollowPrompt \/ Edit)
  <2>1. FollowPrompt \/ Edit => report' = NoReport
    BY DEF FollowPrompt, Edit
  <2>2. NoReport.by = "none"
    BY DEF NoReport
  <2> QED BY <2>1, <2>2
<1>5. ~(validate_headings_contract \/ MatchConstraint \/ validate_artifact_file \/ cmd_validate_toc \/ UNCHANGED vars)
  <2>1. validate_headings_contract \/ MatchConstraint \/ validate_artifact_file \/ cmd_validate_toc \/ UNCHANGED vars
          => doc' = doc
    BY DEF validate_headings_contract, MatchConstraint, validate_artifact_file, cmd_validate_toc, vars
  <2> QED BY <2>1
<1> QED BY <1>2, <1>3, <1>4, <1>5 DEF Next

\* No command takes a line of the author's away, adds one or moves one: in an orderly file
\* `cypilot toc` and the kit update change the list, its markers or heading and blank lines
\* only, wherever the list stood before (toc.py:251-470, :520-590, diff_engine.py:556-572).
THEOREM ProseIsKept == Spec => TocKeepsProse
<1>1. Init => FileOfLines
  BY InitFile
<1>2. MatchInv /\ FileOfLines /\ [Next]_vars => FileOfLines'
  <2>1. MatchInv => DOMAIN heads \subseteq Nat \ {0}
    BY DEF MatchInv, MatchTypes
  <2> QED BY <2>1, NextKeepsFile
<1>3. FileOfLines /\ [Next]_vars
        => [report'.by \in {"toc", "kit update"} /\ doc' # doc /\ Orderly(doc) => OwnLines(doc') = OwnLines(doc)]_vars
  BY StepKeepsOwn, Zenon
<1> QED BY <1>1, <1>2, <1>3, MatchInvariant, PTL DEF Spec, TocKeepsProse

-----------------------------------------------------------------------------
(* The fence scan.                                                         *)

\* A set of numbers with zero that has the successor of each of its members has them all.
LEMMA StepByStep ==
  ASSUME NEW N \in Nat, NEW P, 0 \in P, \A k \in 1..N : k - 1 \in P => k \in P
  PROVE  \A k \in 0..N : k \in P
<1>1. PICK bad : bad = {k \in 0..N : k \notin P}
  OBVIOUS
<1>2. SUFFICES ASSUME bad # {} PROVE FALSE
  BY <1>1
<1>3. bad \subseteq Nat
  BY <1>1
<1>4. PICK m \in bad : \A y \in bad : m <= y
  BY <1>2, <1>3, MinIsLeast
<1>5. m \in 1..N /\ m - 1 \in 0..N
  BY <1>1, <1>4
<1>6. m - 1 \notin bad
  BY <1>4, <1>5
<1> QED BY <1>1, <1>4, <1>5, <1>6

\* The state of the scan before the first line and behind each line (toc.py:30-75).
FenceStep(l, s) == IF l.k = "fence" THEN _fence_update(l, s) ELSE s
Scans(f, ls, N) == f[0] = <<>> /\ \A n \in 1..N : f[n] = FenceStep(ls[n], f[n - 1])

\* Every beginning of a file can be scanned.
LEMMA ScanExists ==
  ASSUME NEW ls, NEW N \in Nat
  PROVE  \E f : f = [n \in 0..N |-> f[n]] /\ Scans(f, ls, N)
<1>1. PICK P : P = {k \in 0..N : \E f : f = [n \in 0..k |-> f[n]] /\ Scans(f, ls, k)}
  OBVIOUS
<1>2. 0 \in P
  <2>1. PICK f : f = [n \in 0..0 |-> <<>>]
    OBVIOUS
  <2>2. f = [n \in 0..0 |-> f[n]] /\ Scans(f, ls, 0)
    BY <2>1 DEF Scans
  <2> QED BY <1>1, <2>2
<1>3. ASSUME NEW k \in 1..N, k - 1 \in P PROVE k \in P
  <2>1. PICK f : f = [n \in 0..(k - 1) |-> f[n]] /\ Scans(f, ls, k - 1)
    BY <1>1, <1>3
  <2>2. PICK g : g = [n \in 0..k |-> IF n = k THEN FenceStep(ls[k], f[k - 1]) ELSE f[n]]
    OBVIOUS
  <2>3. g = [n \in 0..k |-> g[n]]
    BY <2>2
  <2>4. g[k] = FenceStep(ls[k], f[k - 1]) /\ \A n \in 0..(k - 1) : g[n] = f[n]
    BY <2>2
  <2>5. Scans(g, ls, k)
    <3>1. g[0] = <<>>
      BY <2>1, <2>4 DEF Scans
    <3>2. ASSUME NEW n \in 1..k PROVE g[n] = FenceStep(ls[n], g[n - 1])
      <4>1. n - 1 \in 0..(k - 1) /\ g[n - 1] = f[n - 1]
        BY <2>4
      <4>2. CASE n = k
        BY <2>4, <4>1, <4>2
      <4>3. CASE n # k
        <5>1. n \in 1..(k - 1) /\ n \in 0..(k - 1)
          BY <4>3
        <5>2. f[n] = FenceStep(ls[n], f[n - 1])
          BY <2>1, <5>1 DEF Scans
        <5> QED BY <2>4, <4>1, <5>1, <5>2, Zenon
      <4> QED BY <4>2, <4>3
    <3> QED BY <3>1, <3>2 DEF Scans
  <2>6. k \in 0..N
    OBVIOUS
  <2> QED BY <1>1, <2>3, <2>5, <2>6
<1>4. \A k \in 0..N : k \in P
  BY <1>2, <1>3, StepByStep, Zenon
<1>5. N \in P
  BY <1>4
<1> QED BY <1>1, <1>5

\* What Outside computes: the lines with the scan outside before and behind them.
LEMMA OutsideScan ==
  ASSUME NEW ls, File(ls)
  PROVE  \E f : /\ Scans(f, ls, Len(ls))
                /\ \A n \in 1..Len(ls) : n \in Outside(ls) <=> f[n - 1] = <<>> /\ f[n] = <<>>
<1>0. Len(ls) \in Nat /\ DOMAIN ls = 1..Len(ls)
  BY FileLength
<1> DEFINE R(f) == f = [n \in 0..Len(ls) |->
                          CASE n = 0 -> <<>>
                            [] n > 0 /\ ls[n].k = "fence" -> _fence_update(ls[n], f[n - 1])
                            [] OTHER -> f[n - 1]]
<1>1. PICK g : g = CHOOSE f : R(f)
  OBVIOUS
<1>2. Outside(ls) = {n \in DOMAIN ls : g[n - 1] = <<>> /\ g[n] = <<>>}
  BY <1>1 DEF Outside
<1>3. \E f : R(f)
  <2>1. PICK f : f = [n \in 0..Len(ls) |-> f[n]] /\ Scans(f, ls, Len(ls))
    BY <1>0, ScanExists
  <2>2. ASSUME NEW n \in 0..Len(ls)
        PROVE  f[n] = CASE n = 0 -> <<>>
                        [] n > 0 /\ ls[n].k = "fence" -> _fence_update(ls[n], f[n - 1])
                        [] OTHER -> f[n - 1]
    BY <1>0, <2>1 DEF Scans, FenceStep
  <2>3. [n \in 0..Len(ls) |-> f[n]] = [n \in 0..Len(ls) |->
                          CASE n = 0 -> <<>>
                            [] n > 0 /\ ls[n].k = "fence" -> _fence_update(ls[n], f[n - 1])
                            [] OTHER -> f[n - 1]]
    BY <2>2
  <2> QED BY <2>1, <2>3, Zenon
<1>4. R(g)
  BY <1>1, <1>3, Zenon
<1>5. Scans(g, ls, Len(ls))
  <2>1. \A n \in 0..Len(ls) : g[n] = CASE n = 0 -> <<>>
                            [] n > 0 /\ ls[n].k = "fence" -> _fence_update(ls[n], g[n - 1])
                            [] OTHER -> g[n - 1]
    BY <1>4
  <2>2. g[0] = <<>>
    BY <1>0, <2>1
  <2>3. \A n \in 1..Len(ls) : g[n] = FenceStep(ls[n], g[n - 1])
    BY <1>0, <2>1 DEF FenceStep
  <2> QED BY <2>2, <2>3 DEF Scans
<1> QED BY <1>0, <1>2, <1>5

\* The scan of a file in which lines were replaced: what stays is read as before, and new
\* lines behind a line that is outside are outside, when no fence comes or goes.
OutsideAlike(w, ls, p, q, d) ==
    /\ \A n \in 1..p : n \in Outside(w) <=> n \in Outside(ls)
    /\ \A n \in q..Len(ls) : n + Shift(p, q, d) \in Outside(w) <=> n \in Outside(ls)
    /\ \A t \in Outside(ls) : t <= p /\ (\A n \in (t + 1)..p : ls[n].k # "fence")
          => \A n \in (p + 1)..(p + d) : n \in Outside(w)
NoFences(w, ls, p, q, d) ==
    /\ \A n \in (p + 1)..(q - 1) : ls[n].k # "fence"
    /\ \A n \in (p + 1)..(p + d) : w[n].k # "fence"

\* A splice without fences leaves the scan as it was.
LEMMA SplicedOutside ==
  ASSUME NEW ls, File(ls), NEW w, NEW p, NEW q, NEW d, Splice(w, ls, p, q, d), NoFences(w, ls, p, q, d)
  PROVE  OutsideAlike(w, ls, p, q, d)
<1>0. Len(ls) \in Nat
  BY FileLength
<1>1. PICK sh : sh = Shift(p, q, d)
  OBVIOUS
<1>2. /\ p \in 0..Len(ls) /\ q \in (p + 1)..(Len(ls) + 1) /\ d \in Nat
      /\ File(w) /\ Len(w) = Len(ls) + sh
      /\ \A k \in 1..p : w[k] = ls[k]
      /\ \A k \in q..Len(ls) : w[k + sh] = ls[k]
  BY <1>1 DEF Splice
<1>3. sh = p + d + 1 - q /\ sh \in Int /\ p \in Nat /\ q \in Nat
  BY <1>0, <1>1, <1>2 DEF Shift
<1>4. PICK f : /\ Scans(f, ls, Len(ls))
               /\ \A n \in 1..Len(ls) : n \in Outside(ls) <=> f[n - 1] = <<>> /\ f[n] = <<>>
  BY OutsideScan
<1>5. PICK g : /\ Scans(g, w, Len(w))
               /\ \A n \in 1..Len(w) : n \in Outside(w) <=> g[n - 1] = <<>> /\ g[n] = <<>>
  BY <1>2, OutsideScan
<1>6. /\ f[0] = <<>> /\ \A n \in 1..Len(ls) : f[n] = FenceStep(ls[n], f[n - 1])
      /\ g[0] = <<>> /\ \A n \in 1..Len(w) : g[n] = FenceStep(w[n], g[n - 1])
  BY <1>4, <1>5 DEF Scans
<1>7. \A l, s : l.k # "fence" => FenceStep(l, s) = s
  BY DEF FenceStep
<1>8. \A k \in 0..p : g[k] = f[k]
  <2>1. PICK P : P = {k \in 0..p : g[k] = f[k]}
    OBVIOUS
  <2>2. 0 \in P
    BY <1>3, <1>6, <2>1
  <2>3. ASSUME NEW k \in 1..p, k - 1 \in P PROVE k \in P
    <3>1. k \in 1..Len(ls) /\ k \in 1..Len(w) /\ k \in 0..p
      BY <1>0, <1>2, <1>3
    <3>2. g[k - 1] = f[k - 1] /\ w[k] = ls[k]
      BY <1>2, <2>1, <2>3
    <3>3. g[k] = f[k]
      BY <1>6, <3>1, <3>2
    <3> QED BY <2>1, <3>1, <3>3
  <2>4. \A k \in 0..p : k \in P
    BY <1>3, <2>2, <2>3, StepByStep, Zenon
  <2> QED BY <2>1, <2>4
<1>9. \A k \in 0..d : g[p + k] = f[p]
  <2>1. PICK P : P = {k \in 0..d : g[p + k] = f[p]}
    OBVIOUS
  <2>2. 0 \in P
    <3>1. p + 0 = p /\ p \in 0..p /\ 0 \in 0..d
      BY <1>2, <1>3
    <3>2. g[p] = f[p]
      BY <1>8, <3>1
    <3> QED BY <2>1, <3>1, <3>2
  <2>3. ASSUME NEW k \in 1..d, k - 1 \in P PROVE k \in P
    <3>1. PICK n : n = p + k
      OBVIOUS
    <3>2. n \in 1..Len(w) /\ n \in (p + 1)..(p + d) /\ n - 1 = p + (k - 1) /\ k \in 0..d
      BY <1>0, <1>2, <1>3, <3>1
    <3>3. g[n - 1] = f[p]
      BY <2>1, <2>3, <3>2
    <3>4. w[n].k # "fence"
      BY <3>2 DEF NoFences
    <3>5. g[n] = f[p]
      BY <1>6, <1>7, <3>2, <3>3, <3>4
    <3> QED BY <2>1, <3>1, <3>2, <3>5
  <2>4. \A k \in 0..d : k \in P
    BY <1>2, <2>2, <2>3, StepByStep, Zenon
  <2> QED BY <2>1, <2>4
<1>10. f[q - 1] = f[p]
  <2>0. PICK N : N = q - 1 - p
    OBVIOUS
  <2>a. N \in Nat /\ p + N = q - 1 /\ N \in 0..N
    BY <1>2, <1>3, <2>0
  <2>1. PICK P : P = {k \in 0..N : f[p + k] = f[p]}
    OBVIOUS
  <2>2. 0 \in P
    <3>1. p + 0 = p /\ 0 \in 0..N
      BY <1>3, <2>a
    <3> QED BY <2>1, <3>1
  <2>3. ASSUME NEW k \in 1..N, k - 1 \in P PROVE k \in P
    <3>1. PICK n : n = p + k
      OBVIOUS
    <3>2. n \in 1..Len(ls) /\ n \in (p + 1)..(q - 1) /\ n - 1 = p + (k - 1) /\ k \in 0..N
      BY <1>0, <1>2, <1>3, <2>a, <3>1
    <3>3. f[n - 1] = f[p]
      BY <2>1, <2>3, <3>2
    <3>4. ls[n].k # "fence"
      BY <3>2 DEF NoFences
    <3>5. f[n] = f[p]
      BY <1>6, <1>7, <3>2, <3>3, <3>4
    <3> QED BY <2>1, <3>1, <3>2, <3>5
  <2>4. \A k \in 0..N : k \in P
    BY <2>a, <2>2, <2>3, StepByStep, Zenon
  <2> QED BY <2>a, <2>1, <2>4
<1>11. \A n \in (q - 1)..Len(ls) : g[n + sh] = f[n]
  <2>0. PICK N : N = Len(ls) + 1 - q
    OBVIOUS
  <2>a. N \in Nat /\ q - 1 + N = Len(ls)
    BY <1>0, <1>2, <1>3, <2>0
  <2>1. PICK P : P = {k \in 0..N : g[q - 1 + k + sh] = f[q - 1 + k]}
    OBVIOUS
  <2>2. 0 \in P
    <3>1. q - 1 + 0 + sh = p + d /\ q - 1 + 0 = q - 1 /\ 0 \in 0..N /\ d \in 0..d
      BY <1>2, <1>3, <2>a
    <3>2. g[p + d] = f[p]
      BY <1>9, <3>1
    <3> QED BY <1>10, <2>1, <3>1, <3>2
  <2>3. ASSUME NEW k \in 1..N, k - 1 \in P PROVE k \in P
    <3>1. PICK n : n = q - 1 + k
      OBVIOUS
    <3>2. n \in q..Len(ls) /\ n \in 1..Len(ls) /\ n + sh \in 1..Len(w) /\ k \in 0..N
      BY <1>0, <1>2, <1>3, <2>a, <3>1
    <3>3. q - 1 + (k - 1) = n - 1 /\ q - 1 + (k - 1) + sh = (n + sh) - 1 /\ q - 1 + k + sh = n + sh
      BY <1>3, <3>1
    <3>4. g[(n + sh) - 1] = f[n - 1]
      BY <2>1, <2>3, <3>3
    <3>5. w[n + sh] = ls[n]
      BY <1>2, <3>2
    <3>6. g[n + sh] = f[n]
      <4>1. PICK x : x = n + sh
        OBVIOUS
      <4>2. g[x] = FenceStep(w[x], g[x - 1])
        BY <1>6, <3>2, <4>1
      <4>3. f[n] = FenceStep(ls[n], f[n - 1])
        BY <1>6, <3>2
      <4> QED BY <3>4, <3>5, <4>1, <4>2, <4>3, Zenon
    <3> QED BY <2>1, <3>1, <3>2, <3>3, <3>6
  <2>4. \A k \in 0..N : k \in P
    BY <2>a, <2>2, <2>3, StepByStep, Zenon
  <2>5. ASSUME NEW n \in (q - 1)..Len(ls) PROVE g[n + sh] = f[n]
    <3>1. PICK k : k = n - (q - 1)
      OBVIOUS
    <3>2. k \in 0..N /\ q - 1 + k = n
      BY <1>0, <1>3, <2>a, <3>1
    <3> QED BY <2>1, <2>4, <3>2
  <2> QED BY <2>5
<1>12. ASSUME NEW n \in 1..p PROVE n \in Outside(w) <=> n \in Outside(ls)
  <2>1. n \in 1..Len(ls) /\ n \in 1..Len(w) /\ n \in 0..p /\ n - 1 \in 0..p
    BY <1>0, <1>2, <1>3
  <2>2. g[n] = f[n] /\ g[n - 1] = f[n - 1]
    BY <1>8, <2>1
  <2> QED BY <1>4, <1>5, <2>1, <2>2
<1>13. ASSUME NEW n \in q..Len(ls) PROVE n + sh \in Outside(w) <=> n \in Outside(ls)
  <2>1. n \in 1..Len(ls) /\ n + sh \in 1..Len(w) /\ n \in (q - 1)..Len(ls) /\ n - 1 \in (q - 1)..Len(ls)
        /\ n - 1 + sh = (n + sh) - 1
    BY <1>0, <1>2, <1>3
  <2>2. g[n + sh] = f[n] /\ g[n - 1 + sh] = f[n - 1]
    BY <1>11, <2>1
  <2>3. g[(n + sh) - 1] = f[n - 1]
    BY <2>1, <2>2
  <2>4. n \in Outside(ls) <=> f[n - 1] = <<>> /\ f[n] = <<>>
    BY <1>4, <2>1
  <2>5. PICK x : x = n + sh
    OBVIOUS
  <2>6. x \in Outside(w) <=> g[x - 1] = <<>> /\ g[x] = <<>>
    BY <1>5, <2>1, <2>5
  <2> QED BY <2>2, <2>3, <2>4, <2>5, <2>6, Zenon
<1>14. ASSUME NEW t \in Outside(ls), t <= p, \A n \in (t + 1)..p : ls[n].k # "fence",
              NEW m \in (p + 1)..(p + d)
       PROVE  m \in Outside(w)
  <2>0. t \in 1..Len(ls)
    BY HeadingsInFile
  <2>b. f[t] = <<>>
    BY <1>4, <2>0
  <2>c. PICK N : N = p - t
    OBVIOUS
  <2>a. N \in Nat /\ t + N = p /\ N \in 0..N
    BY <1>3, <1>14, <2>0, <2>c
  <2>1. PICK P : P = {k \in 0..N : f[t + k] = <<>>}
    OBVIOUS
  <2>2. 0 \in P
    <3>1. t + 0 = t /\ 0 \in 0..N
      BY <2>0, <2>a
    <3> QED BY <2>b, <2>1, <3>1
  <2>3. ASSUME NEW k \in 1..N, k - 1 \in P PROVE k \in P
    <3>1. PICK n : n = t + k
      OBVIOUS
    <3>2. n \in 1..Len(ls) /\ n \in (t + 1)..p /\ n - 1 = t + (k - 1) /\ k \in 0..N
      BY <1>0, <1>2, <1>3, <2>0, <2>a, <3>1
    <3>3. f[n - 1] = <<>>
      BY <2>1, <2>3, <3>2
    <3>4. ls[n].k # "fence"
      BY <1>14, <3>2
    <3>5. f[n] = <<>>
      BY <1>6, <1>7, <3>2, <3>3, <3>4
    <3> QED BY <2>1, <3>1, <3>2, <3>5
  <2>4. \A k \in 0..N : k \in P
    BY <2>a, <2>2, <2>3, StepByStep, Zenon
  <2>5. f[p] = <<>>
    BY <2>a, <2>1, <2>4
  <2>6. PICK k : k = m - p
    OBVIOUS
  <2>7. k \in 0..d /\ k - 1 \in 0..d /\ p + k = m /\ p + (k - 1) = m - 1 /\ m \in 1..Len(w)
    BY <1>0, <1>2, <1>3, <2>6
  <2>8. g[m] = <<>> /\ g[m - 1] = <<>>
    BY <1>9, <2>5, <2>7
  <2> QED BY <1>5, <2>7, <2>8
<1> QED BY <1>1, <1>12, <1>13, <1>14, Zenon DEF OutsideAlike

\* The other scanner counts the fences with backticks above a line (constraints.py:60-85).
Ticks(ls) == {n \in 1..Len(ls) : ls[n].k = "fence" /\ ls[n].txt = "backtick"}
Scanned(ls) == DOMAIN _scan_headings(ls)

\* What it takes for a heading.
LEMMA ScannedLines ==
  ASSUME NEW ls, NEW m \in 1..Len(ls)
  PROVE  m \in Scanned(ls) <=> /\ ls[m].k = "head" /\ ls[m].lvl \in Levels
                               /\ Cardinality({t \in Ticks(ls) : t < m}) % 2 = 0
BY DEF Scanned, Ticks, _scan_headings

\* As many of them above one line as above another.
SameTicks(w, x, ls, m) == Cardinality({t \in Ticks(w) : t < x}) = Cardinality({t \in Ticks(ls) : t < m})

\* As many such fences stand above a line after a splice without fences as before.
LEMMA SplicedTicks ==
  ASSUME NEW ls, File(ls), NEW w, NEW p, NEW q, NEW d, Splice(w, ls, p, q, d), NoFences(w, ls, p, q, d),
         NEW m \in 1..Len(ls), m \notin (p + 1)..(q - 1)
  PROVE  SameTicks(w, MovedTo(p, q, d, m), ls, m)
<1>0. Len(ls) \in Nat
  BY FileLength
<1>1. PICK sh : sh = Shift(p, q, d)
  OBVIOUS
<1>2. /\ p \in 0..Len(ls) /\ q \in (p + 1)..(Len(ls) + 1) /\ d \in Nat
      /\ File(w) /\ Len(w) = Len(ls) + sh
      /\ \A k \in 1..p : w[k] = ls[k]
      /\ \A k \in q..Len(ls) : w[k + sh] = ls[k]
  BY <1>1 DEF Splice
<1>3. sh = p + d + 1 - q /\ sh \in Int /\ p \in Nat /\ q \in Nat
  BY <1>0, <1>1, <1>2 DEF Shift
<1>w. Len(w) \in Nat
  BY <1>2, FileLength
<1>4. PICK x : x = MovedTo(p, q, d, m)
  OBVIOUS
<1>5. /\ m \in 1..p => x = m
      /\ m \in q..Len(ls) => x = m + sh
      /\ m \in 1..p \/ m \in q..Len(ls)
  <2>1. m \in 1..p \/ m \in q..Len(ls)
    BY <1>0, <1>2, <1>3
  <2>2. m <= p => x = m
    BY <1>4 DEF MovedTo
  <2>3. ~(m <= p) => x = m + sh
    BY <1>1, <1>4 DEF MovedTo
  <2> QED BY <1>0, <1>2, <1>3, <2>1, <2>2, <2>3
<1>6. PICK S : S = Ticks(ls) \cup {m}
  OBVIOUS
<1>7. PICK T : T = Ticks(w) \cup {x}
  OBVIOUS
<1>8. x \in 1..Len(w) /\ x \notin (p + 1)..(p + d)
  BY <1>0, <1>2, <1>3, <1>5
<1>9. Stay(S, T, ls, w, p, q, d)
  <2>1. S \subseteq 1..Len(ls) /\ T \subseteq 1..Len(w)
    BY <1>6, <1>7, <1>8 DEF Ticks
  <2>2. \A n \in (p + 1)..(q - 1) : n \notin S
    BY <1>6 DEF Ticks, NoFences
  <2>3. \A n \in (p + 1)..(p + d) : n \notin T
    BY <1>7, <1>8 DEF Ticks, NoFences
  <2>4. ASSUME NEW n \in 1..p PROVE n \in S <=> n \in T
    <3>1. n \in 1..Len(ls) /\ n \in 1..Len(w) /\ w[n] = ls[n]
      BY <1>0, <1>2, <1>3
    <3>2. n \in Ticks(ls) <=> n \in Ticks(w)
      BY <3>1 DEF Ticks
    <3>3. n = m <=> n = x
      BY <1>0, <1>2, <1>3, <1>5
    <3> QED BY <1>6, <1>7, <3>2, <3>3
  <2>5. ASSUME NEW n \in q..Len(ls) PROVE n \in S <=> n + sh \in T
    <3>0. PICK y : y = n + sh
      OBVIOUS
    <3>1. n \in 1..Len(ls) /\ y \in 1..Len(w) /\ w[y] = ls[n]
      BY <1>0, <1>2, <1>3, <3>0
    <3>2. n \in Ticks(ls) <=> y \in Ticks(w)
      BY <3>1 DEF Ticks
    <3>a. p \in 0..Len(ls) /\ q \in (p + 1)..(Len(ls) + 1) /\ d \in Nat
      BY <1>2
    <3>b. m \in 1..p => (n = m <=> y = x)
      BY <1>0, <1>3, <1>5, <3>0, <3>a
    <3>c. m \in q..Len(ls) => (n = m <=> y = x)
      BY <1>0, <1>3, <1>5, <3>0, <3>a
    <3>3. n = m <=> y = x
      BY <1>5, <3>b, <3>c
    <3> QED BY <1>6, <1>7, <3>0, <3>2, <3>3
  <2> QED BY <1>1, <2>1, <2>2, <2>3, <2>4, <2>5 DEF Stay
<1>10. PICK f : f = [n \in S |-> MovedTo(p, q, d, n)]
  OBVIOUS
<1>11. KeepsOrder(f, S, T)
  BY <1>9, <1>10, SpliceMoves, Zenon
<1>12. PICK a : a = Len(ls)
  OBVIOUS
<1>13. PICK b : b = Len(w)
  OBVIOUS
<1>14. a \in Nat /\ S \subseteq 1..a /\ b \in Nat /\ T \subseteq 1..b
  BY <1>0, <1>w, <1>9, <1>12, <1>13 DEF Stay
<1>15. SameCounts(f, S, T)
  BY <1>11, <1>14, MovedCounts, Zenon
<1>16. m \in S /\ f[m] = x
  BY <1>4, <1>6, <1>10
<1>17. Cardinality({y \in T : y < f[m]}) = Cardinality({y \in S : y < m})
  BY <1>15, <1>16, Zenon DEF SameCounts
<1>18. {y \in T : y < x} = {t \in Ticks(w) : t < x} /\ {y \in S : y < m} = {t \in Ticks(ls) : t < m}
  <2>1. x \in Int /\ m \in Int
    BY <1>3, <1>5
  <2>2. ~(x < x) /\ ~(m < m)
    BY <2>1
  <2> QED BY <1>6, <1>7, <2>2
<1> QED BY <1>4, <1>16, <1>17, <1>18, Zenon DEF SameTicks

\* Line x of one file is line m of the other, outside the new lines, and read like it.
ReadAlike(w, x, new, ls, m) ==
    /\ x \in 1..Len(w) /\ x \notin new /\ w[x] = ls[m]
    /\ x \in Outside(w) <=> m \in Outside(ls)
    /\ x \in Headings(w) <=> m \in Headings(ls)
    /\ x \in Scanned(w) <=> m \in Scanned(ls)

\* Both scanners read what stays as before.
LEMMA SplicedHeadings ==
  ASSUME NEW ls, File(ls), NEW w, NEW p, NEW q, NEW d, Splice(w, ls, p, q, d), NoFences(w, ls, p, q, d),
         NEW m \in 1..Len(ls), m \notin (p + 1)..(q - 1)
  PROVE  ReadAlike(w, MovedTo(p, q, d, m), (p + 1)..(p + d), ls, m)
<1>x. PICK x : x = MovedTo(p, q, d, m)
  OBVIOUS
<1>0. Len(ls) \in Nat
  BY FileLength
<1>1. PICK sh : sh = Shift(p, q, d)
  OBVIOUS
<1>2. /\ p \in 0..Len(ls) /\ q \in (p + 1)..(Len(ls) + 1) /\ d \in Nat
      /\ File(w) /\ Len(w) = Len(ls) + sh
      /\ \A k \in 1..p : w[k] = ls[k]
      /\ \A k \in q..Len(ls) : w[k + sh] = ls[k]
  BY <1>1 DEF Splice
<1>3. sh = p + d + 1 - q /\ sh \in Int /\ p \in Nat /\ q \in Nat
  BY <1>0, <1>1, <1>2 DEF Shift
<1>4. /\ m \in 1..p => x = m
      /\ m \in q..Len(ls) => x = m + sh
      /\ m \in 1..p \/ m \in q..Len(ls)
  <2>1. m \in 1..p \/ m \in q..Len(ls)
    BY <1>0, <1>2, <1>3
  <2>2. m <= p => x = m
    BY <1>x DEF MovedTo
  <2>3. ~(m <= p) => x = m + sh
    BY <1>1, <1>x DEF MovedTo
  <2> QED BY <1>0, <1>2, <1>3, <2>1, <2>2, <2>3
<1>5. x \in 1..Len(w) /\ x \notin (p + 1)..(p + d) /\ w[x] = ls[m]
  BY <1>0, <1>2, <1>3, <1>4
<1>6. x \in Outside(w) <=> m \in Outside(ls)
  <2>1. OutsideAlike(w, ls, p, q, d)
    BY SplicedOutside
  <2> QED BY <1>1, <1>4, <2>1 DEF OutsideAlike
<1>7. Cardinality({t \in Ticks(w) : t < x}) = Cardinality({t \in Ticks(ls) : t < m})
  <2>1. SameTicks(w, MovedTo(p, q, d, m), ls, m)
    BY SplicedTicks, Zenon
  <2> QED BY <1>x, <2>1, Zenon DEF SameTicks
<1>8. x \in Scanned(w) <=> m \in Scanned(ls)
  <2>1. x \in Scanned(w) <=> /\ w[x].k = "head" /\ w[x].lvl \in Levels
                             /\ Cardinality({t \in Ticks(w) : t < x}) % 2 = 0
    BY <1>5, ScannedLines, Zenon
  <2>2. m \in Scanned(ls) <=> /\ ls[m].k = "head" /\ ls[m].lvl \in Levels
                              /\ Cardinality({t \in Ticks(ls) : t < m}) % 2 = 0
    BY ScannedLines, Zenon
  <2> QED BY <1>5, <1>7, <2>1, <2>2, Zenon
<1>9. x \in Headings(w) <=> m \in Headings(ls)
  BY <1>5, <1>6 DEF Headings
<1> QED BY <1>x, <1>5, <1>6, <1>8, <1>9, Zenon DEF ReadAlike

\* Every line of the new file is a new one or one that stayed.
LEMMA SplicedFrom ==
  ASSUME NEW ls, File(ls), NEW w, NEW p, NEW q, NEW d, Splice(w, ls, p, q, d), NEW x \in 1..Len(w),
         x \notin (p + 1)..(p + d)
  PROVE  \E m \in 1..Len(ls) : m \notin (p + 1)..(q - 1) /\ x = MovedTo(p, q, d, m)
<1>0. Len(ls) \in Nat
  BY FileLength
<1>1. PICK sh : sh = Shift(p, q, d)
  OBVIOUS
<1>2. p \in 0..Len(ls) /\ q \in (p + 1)..(Len(ls) + 1) /\ d \in Nat /\ Len(w) = Len(ls) + sh
  BY <1>1 DEF Splice
<1>3. sh = p + d + 1 - q /\ sh \in Int /\ p \in Nat /\ q \in Nat
  BY <1>0, <1>1, <1>2 DEF Shift
<1>4. CASE x <= p
  <2>1. x \in 1..Len(ls) /\ x \notin (p + 1)..(q - 1)
    BY <1>0, <1>2, <1>3, <1>4
  <2>2. x = MovedTo(p, q, d, x)
    BY <1>4 DEF MovedTo
  <2> QED BY <2>1, <2>2
<1>5. CASE ~(x <= p)
  <2>1. PICK m : m = x - sh
    OBVIOUS
  <2>2. m \in 1..Len(ls) /\ m \notin (p + 1)..(q - 1) /\ m + sh = x /\ ~(m <= p)
    BY <1>0, <1>2, <1>3, <1>5, <2>1
  <2>3. x = MovedTo(p, q, d, m)
    BY <1>1, <2>2 DEF MovedTo
  <2> QED BY <2>2, <2>3
<1> QED BY <1>4, <1>5

\* What stays keeps its order.
LEMMA SplicedOrder ==
  ASSUME NEW ls, File(ls), NEW w, NEW p, NEW q, NEW d, Splice(w, ls, p, q, d),
         NEW a \in 1..Len(ls), a \notin (p + 1)..(q - 1), NEW b \in 1..Len(ls), b \notin (p + 1)..(q - 1)
  PROVE  a < b <=> MovedTo(p, q, d, a) < MovedTo(p, q, d, b)
<1>0. Len(ls) \in Nat
  BY FileLength
<1>1. p \in 0..Len(ls) /\ q \in (p + 1)..(Len(ls) + 1) /\ d \in Nat
  BY DEF Splice
<1>2. p \in Int /\ q \in Int /\ d \in Int
  BY <1>0, <1>1
<1> QED BY <1>0, <1>1, <1>2 DEF MovedTo, Shift

-----------------------------------------------------------------------------
(* An orderly file, part by part.                                          *)

TitledAt(ls, t) == /\ t \in Headings(ls) /\ \A n \in Headings(ls) : t <= n
                   /\ ls[t].lvl = 1 /\ \A n \in Headings(ls) : ls[n].lvl = 1 => n = t
Tidy(ls, t) == /\ Headings(ls) = Scanned(ls) /\ TitledAt(ls, t)
               /\ \A n \in Headings(ls) : ls[n].txt \notin _TOC_HEADING_NAMES
PairAt(ls, o, c) == /\ o \in 1..Len(ls) /\ c \in 1..Len(ls) /\ o < c /\ Marks(ls) = {o, c}
                     /\ ls[o] = TOC_MARKER_START /\ ls[c] = TOC_MARKER_END
Framed(ls, t, o, c) == /\ PairAt(ls, o, c) /\ o \in Outside(ls) /\ c \in Outside(ls) /\ t < o
                       /\ \A n \in (o + 1)..(c - 1) : ls[n].k \in {"blank", "entry"}

\* The markers of a file with one pair of them are where MarkerBlock looks.
LEMMA OnePair ==
  ASSUME NEW ls, File(ls), NEW o, NEW c, PairAt(ls, o, c)
  PROVE  MarkerBlock(ls) = <<o, c>>
<1> USE DEF PairAt
<1>0. Len(ls) \in Nat /\ DOMAIN ls = 1..Len(ls)
  BY FileLength
<1>k. TOC_MARKER_START.k = "open" /\ TOC_MARKER_END.k = "close"
  BY DEF TOC_MARKER_START, TOC_MARKER_END, Line
<1>1. PICK opens : opens = {n \in DOMAIN ls : ls[n] = TOC_MARKER_START}
  OBVIOUS
<1>2. opens = {o}
  <2>1. o \in opens
    BY <1>0, <1>1
  <2>2. \A n \in opens : n = o
    <3> SUFFICES ASSUME NEW n \in opens PROVE n = o
      OBVIOUS
    <3>1. n \in Marks(ls) /\ ls[n].k = "open"
      BY <1>1, <1>k DEF Marks
    <3>2. n # c
      BY <1>k, <3>1
    <3> QED BY <3>1, <3>2
  <2> QED BY <2>1, <2>2
<1>3. Min(opens) = o
  <2>1. opens \subseteq Nat /\ opens # {}
    BY <1>0, <1>2
  <2>2. Min(opens) \in opens
    BY <2>1, MinIsLeast
  <2> QED BY <1>2, <2>2
<1>4. PICK closes : closes = {n \in DOMAIN ls : ls[n] = TOC_MARKER_END /\ n > Min(opens)}
  OBVIOUS
<1>5. closes = {c}
  <2>1. c \in closes
    BY <1>0, <1>3, <1>4
  <2>2. \A n \in closes : n = c
    <3> SUFFICES ASSUME NEW n \in closes PROVE n = c
      OBVIOUS
    <3>1. n \in Marks(ls) /\ ls[n].k = "close"
      BY <1>4, <1>k DEF Marks
    <3>2. n # o
      BY <1>k, <3>1
    <3> QED BY <3>1, <3>2
  <2> QED BY <2>1, <2>2
<1>6. Min(closes) = c
  <2>1. closes \subseteq Nat /\ closes # {}
    BY <1>0, <1>5
  <2>2. Min(closes) \in closes
    BY <2>1, MinIsLeast
  <2> QED BY <1>5, <2>2
<1>7. MarkerBlock(ls) = IF opens = {} THEN <<>> ELSE IF closes = {} THEN <<>> ELSE <<Min(opens), Min(closes)>>
  BY <1>1, <1>4, Zenon DEF MarkerBlock
<1>8. opens # {} /\ closes # {}
  BY <1>2, <1>5
<1> QED BY <1>3, <1>6, <1>7, <1>8, Zenon

\* Without markers there is no block.
LEMMA NoPair ==
  ASSUME NEW ls, Marks(ls) = {}
  PROVE  MarkerBlock(ls) = <<>>
<1>1. TOC_MARKER_START.k = "open"
  BY DEF TOC_MARKER_START, Line
<1>2. {n \in DOMAIN ls : ls[n] = TOC_MARKER_START} = {}
  BY <1>1 DEF Marks
<1> QED BY <1>2 DEF MarkerBlock

\* The least heading is the title.
LEMMA TitleIsFirst ==
  ASSUME NEW ls, File(ls), NEW t, TitledAt(ls, t)
  PROVE  Min(Headings(ls)) = t /\ {n \in Headings(ls) : ls[n].lvl = 1} = {t}
<1> USE DEF TitledAt
<1>0. Len(ls) \in Nat /\ Headings(ls) \subseteq 1..Len(ls)
  BY FileLength, HeadingsInFile
<1>1. PICK hs : hs = Headings(ls)
  OBVIOUS
<1>2. hs \subseteq Nat /\ hs # {}
  BY <1>0, <1>1
<1>3. Min(hs) \in hs /\ \A y \in hs : Min(hs) <= y
  BY <1>2, MinIsLeast
<1>4. Min(hs) <= t /\ t <= Min(hs) /\ Min(hs) \in Nat /\ t \in Nat
  BY <1>1, <1>2, <1>3
<1>5. Min(hs) = t
  BY <1>4
<1>6. {n \in Headings(ls) : ls[n].lvl = 1} = {t}
  OBVIOUS
<1> QED BY <1>1, <1>5, <1>6

\* A tidy file, with a frame or without markers, is an orderly one without a section that a
\* person wrote.
LEMMA TidyIsOrderly ==
  ASSUME NEW ls, File(ls), NEW t, Tidy(ls, t), Marks(ls) = {} \/ \E o, c : Framed(ls, t, o, c)
  PROVE  Orderly(ls) /\ HeadingSection(ls) = <<>>
<1>0. Len(ls) \in Nat /\ Headings(ls) \subseteq 1..Len(ls) /\ DOMAIN ls = 1..Len(ls)
  BY FileLength, HeadingsInFile
<1>1. PICK hs : hs = Headings(ls)
  OBVIOUS
<1>2. hs = DOMAIN _scan_headings(ls) /\ t \in hs /\ TitledAt(ls, t)
  BY <1>1 DEF Tidy, Scanned, TitledAt
<1>3. Min(hs) = t /\ {n \in hs : ls[n].lvl = 1} = {t}
  BY <1>1, <1>2, TitleIsFirst
<1>4. PICK toc : toc = {n \in hs : ls[n].txt \in _TOC_HEADING_NAMES}
  OBVIOUS
<1>5. toc = {}
  BY <1>1, <1>4 DEF Tidy
<1>6. Cardinality(toc) <= 1
  <2>1. Cardinality(toc) = 0
    BY <1>5, FS_EmptySet
  <2> QED BY <2>1
<1>7. PICK b : b = MarkerBlock(ls)
  OBVIOUS
<1>8. /\ Marks(ls) \subseteq Outside(ls)
      /\ Marks(ls) = (IF b = <<>> THEN {} ELSE {b[1], b[2]})
      /\ b # <<>> => /\ b[1] > t
                     /\ \A n \in (b[1] + 1)..(b[2] - 1) : ls[n].k \in {"blank", "entry"}
  <2>1. CASE Marks(ls) = {}
    <3>1. b = <<>>
      BY <1>7, <2>1, NoPair
    <3> QED BY <2>1, <3>1
  <2>2. CASE \E o, c : Framed(ls, t, o, c)
    <3>1. PICK o, c : Framed(ls, t, o, c)
      BY <2>2
    <3>2. PairAt(ls, o, c) /\ o \in Outside(ls) /\ c \in Outside(ls) /\ t < o
          /\ \A n \in (o + 1)..(c - 1) : ls[n].k \in {"blank", "entry"}
      BY <3>1 DEF Framed
    <3>3. b = <<o, c>>
      BY <1>7, <3>2, OnePair
    <3>4. b[1] = o /\ b[2] = c /\ b # <<>>
      BY <3>3
    <3>5. Marks(ls) = {o, c} /\ o \in Nat /\ t \in Nat
      BY <1>0, <1>1, <1>2, <3>2 DEF PairAt
    <3>6. o > t
      BY <3>2, <3>5
    <3> QED BY <3>2, <3>4, <3>5, <3>6
  <2> QED BY <2>1, <2>2
<1>9. Orderly(ls)
  <2>1. t \notin toc
    BY <1>5
  <2>2. hs # {} /\ {n \in hs : ls[n].lvl = 1} = {Min(hs)} /\ Min(hs) \notin toc
    BY <1>2, <1>3, <2>1
  <2>3. (\A n \in toc : ls[n] = TocHeading)
        /\ (toc # {} => \A n \in (Min(toc) + 1)..(HeadingSection(ls)[2] - 1) : ls[n].k \in {"blank", "entry"})
    BY <1>5
  <2>4. b # <<>> => /\ b[1] > Min(hs)
                    /\ \A n \in (b[1] + 1)..(b[2] - 1) : ls[n].k \in {"blank", "entry"}
    BY <1>3, <1>8
  <2> QED BY <1>1, <1>2, <1>4, <1>6, <1>7, <1>8, <2>2, <2>3, <2>4, Zenon DEF Orderly
<1>10. HeadingSection(ls) = <<>>
  <2>1. PICK at : at = {n \in Outside(ls) : ls[n] = TocHeading}
    OBVIOUS
  <2>2. TocHeading.k = "head" /\ TocHeading.txt \in _TOC_HEADING_NAMES
    BY DEF TocHeading, Heading, Line, _TOC_HEADING_NAMES
  <2>3. at = {}
    <3> SUFFICES ASSUME NEW n \in at PROVE FALSE
      OBVIOUS
    <3>1. n \in Headings(ls) /\ ls[n].txt \in _TOC_HEADING_NAMES
      BY <2>1, <2>2 DEF Headings
    <3> QED BY <3>1 DEF Tidy
  <2> QED BY <2>1, <2>3 DEF HeadingSection
<1> QED BY <1>9, <1>10

\* The other way round.
LEMMA OrderlyParts ==
  ASSUME NEW ls, File(ls), Orderly(ls)
  PROVE  /\ Headings(ls) = Scanned(ls)
         /\ \E t : /\ TitledAt(ls, t) /\ ls[t].txt \notin _TOC_HEADING_NAMES
                   /\ Marks(ls) = {} \/ \E o, c : Framed(ls, t, o, c)
         /\ \A n \in Headings(ls) : ls[n].txt \in _TOC_HEADING_NAMES => ls[n] = TocHeading
         /\ \A a, b \in Headings(ls) :
               ls[a].txt \in _TOC_HEADING_NAMES /\ ls[b].txt \in _TOC_HEADING_NAMES => a = b
<1>0. Len(ls) \in Nat /\ Headings(ls) \subseteq 1..Len(ls) /\ DOMAIN ls = 1..Len(ls)
  BY FileLength, HeadingsInFile
<1>1. PICK hs : hs = Headings(ls)
  OBVIOUS
<1>2. PICK toc : toc = {n \in hs : ls[n].txt \in _TOC_HEADING_NAMES}
  OBVIOUS
<1>3. PICK b : b = MarkerBlock(ls)
  OBVIOUS
<1>4. /\ hs = DOMAIN _scan_headings(ls)
      /\ hs # {} /\ {n \in hs : ls[n].lvl = 1} = {Min(hs)} /\ Min(hs) \notin toc
      /\ Cardinality(toc) <= 1 /\ \A n \in toc : ls[n] = TocHeading
      /\ Marks(ls) \subseteq Outside(ls)
      /\ Marks(ls) = (IF b = <<>> THEN {} ELSE {b[1], b[2]})
      /\ b # <<>> => /\ b[1] > Min(hs)
                     /\ \A n \in (b[1] + 1)..(b[2] - 1) : ls[n].k \in {"blank", "entry"}
  BY <1>1, <1>2, <1>3, Zenon DEF Orderly
<1>5. PICK t : t = Min(hs)
  OBVIOUS
<1>6. t \in hs /\ (\A n \in hs : t <= n) /\ t \in Nat
  <2>1. hs \subseteq Nat
    BY <1>0, <1>1
  <2>2. Min(hs) \in hs /\ \A y \in hs : Min(hs) <= y
    BY <1>4, <2>1, MinIsLeast
  <2> QED BY <1>5, <2>1, <2>2
<1>7. TitledAt(ls, t)
  BY <1>1, <1>4, <1>5, <1>6 DEF TitledAt
<1>8. ls[t].txt \notin _TOC_HEADING_NAMES
  BY <1>2, <1>4, <1>5, <1>6
<1>9. Marks(ls) = {} \/ \E o, c : Framed(ls, t, o, c)
  <2>1. CASE b = <<>>
    BY <1>4, <2>1
  <2>2. CASE b # <<>>
    <3>1. PICK o, c \in 1..Len(ls) : /\ MarkerBlock(ls) = <<o, c>> /\ o < c
                                     /\ ls[o] = TOC_MARKER_START /\ ls[c] = TOC_MARKER_END
      BY <1>3, <2>2, BlockMarkers DEF File
    <3>2. b[1] = o /\ b[2] = c
      BY <1>3, <3>1
    <3>3. Marks(ls) = {o, c}
      BY <1>4, <2>2, <3>2
    <3>4. PairAt(ls, o, c)
      BY <3>1, <3>3 DEF PairAt
    <3>5. o > t /\ \A n \in (o + 1)..(c - 1) : ls[n].k \in {"blank", "entry"}
      BY <1>4, <1>5, <2>2, <3>2
    <3>6. o \in Outside(ls) /\ c \in Outside(ls)
      BY <1>4, <3>3
    <3>7. t < o
      BY <1>6, <3>5
    <3> QED BY <3>4, <3>5, <3>6, <3>7 DEF Framed
  <2> QED BY <2>1, <2>2
<1>10. \A x, y \in toc : x = y
  <2>1. toc \subseteq 1..Len(ls)
    BY <1>0, <1>1, <1>2
  <2>2. IsFiniteSet(toc) /\ Cardinality(toc) \in Nat
    <3>1. PICK n : n = Len(ls)
      OBVIOUS
    <3> QED BY <1>0, <2>1, <3>1, LinesFinite
  <2>3. CASE Cardinality(toc) = 0
    BY <2>2, <2>3, FS_EmptySet
  <2>4. CASE Cardinality(toc) = 1
    <3>1. \E x : toc = {x}
      BY <2>2, <2>4, FS_Singleton
    <3> QED BY <3>1
  <2> QED BY <1>4, <2>2, <2>3, <2>4
<1> QED BY <1>1, <1>2, <1>4, <1>7, <1>8, <1>9, <1>10 DEF Scanned

\* The lines of S are lines of the other file.
SameText(f, S, ls, w) == \A x \in S : w[f[x]] = ls[x]
\* One list for the headings of both.
OneList(w, T, ls, S) == build_toc(w, T, FALSE, 2) = build_toc(ls, S, FALSE, 2)

\* Headings that moved and kept their order and text give the same list (toc.py:195-245).
LEMMA SameList ==
  ASSUME NEW n \in Nat, NEW S, S \subseteq 1..n, NEW m \in Nat, NEW T, T \subseteq 1..m,
         NEW f, KeepsOrder(f, S, T), NEW ls, NEW w, SameText(f, S, ls, w)
  PROVE  OneList(w, T, ls, S)
<1>0. \A x \in S : w[f[x]] = ls[x]
  BY DEF SameText
<1>1. InStep(f, S, T)
  BY MovedOrder, Zenon
<1>2. PICK a : a = InOrder(S)
  OBVIOUS
<1>3. PICK b : b = InOrder(T)
  OBVIOUS
<1>4. DOMAIN a = DOMAIN b /\ \A k \in DOMAIN a : a[k] \in S /\ b[k] = f[a[k]]
  BY <1>1, <1>2, <1>3, Zenon DEF InStep
<1>5. (\A x \in S : f[x] \in T) /\ (\A y \in T : \E x \in S : f[x] = y)
      /\ (\A x, y \in S : x < y <=> f[x] < f[y])
  BY DEF KeepsOrder
<1>6. {w[y].lvl : y \in T} = {ls[x].lvl : x \in S}
  <2>1. \A y \in T : w[y].lvl \in {ls[x].lvl : x \in S}
    BY <1>0, <1>5
  <2>2. \A x \in S : ls[x].lvl \in {w[y].lvl : y \in T}
    BY <1>0, <1>5
  <2> QED BY <2>1, <2>2
<1>7. ASSUME NEW x \in S PROVE _unique_slug(w, T, f[x]) = _unique_slug(ls, S, x)
  <2>1. PICK A : A = {y \in S : SameSlug(ls[y], ls[x])}
    OBVIOUS
  <2>2. PICK B : B = {y \in T : SameSlug(w[y], w[f[x]])}
    OBVIOUS
  <2>3. PICK g : g = [y \in A |-> f[y]]
    OBVIOUS
  <2>4. A \subseteq S /\ B \subseteq T /\ \A y \in S : y \in A <=> f[y] \in B
    BY <1>0, <1>5, <2>1, <2>2
  <2>5. KeepsOrder(g, A, B)
    BY <1>5, <2>3, <2>4 DEF KeepsOrder
  <2>6. A \subseteq 1..n /\ B \subseteq 1..m
    BY <2>4
  <2>7. SameCounts(g, A, B)
    BY <2>5, <2>6, MovedCounts, Zenon
  <2>8. x \in A /\ g[x] = f[x]
    BY <2>1, <2>3 DEF SameSlug
  <2>9. Cardinality({y \in B : y < g[x]}) = Cardinality({y \in A : y < x})
    BY <2>7, <2>8, Zenon DEF SameCounts
  <2>10. {y \in B : y < g[x]} = {y \in T : y < f[x] /\ SameSlug(w[y], w[f[x]])}
    BY <2>2, <2>8
  <2>11. {y \in A : y < x} = {y \in S : y < x /\ SameSlug(ls[y], ls[x])}
    BY <2>1
  <2> QED BY <2>9, <2>10, <2>11, Zenon DEF _unique_slug
<1>8. PICK low : low = Min({ls[x].lvl : x \in S})
  OBVIOUS
<1>9. build_toc(ls, S, FALSE, 2) =
        [k \in DOMAIN a |-> Line("entry", 2 * (ls[a[k]].lvl - low), ls[a[k]].num, ls[a[k]].txt, _unique_slug(ls, S, a[k]))]
  BY <1>2, <1>8 DEF build_toc
<1>10. build_toc(w, T, FALSE, 2) =
        [k \in DOMAIN b |-> Line("entry", 2 * (w[b[k]].lvl - low), w[b[k]].num, w[b[k]].txt, _unique_slug(w, T, b[k]))]
  <2>1. low = Min({w[y].lvl : y \in T})
    BY <1>6, <1>8, Zenon
  <2> QED BY <1>3, <2>1 DEF build_toc
<1>11. ASSUME NEW k \in DOMAIN a
       PROVE  Line("entry", 2 * (w[b[k]].lvl - low), w[b[k]].num, w[b[k]].txt, _unique_slug(w, T, b[k]))
              = Line("entry", 2 * (ls[a[k]].lvl - low), ls[a[k]].num, ls[a[k]].txt, _unique_slug(ls, S, a[k]))
  <2>1. a[k] \in S /\ b[k] = f[a[k]]
    BY <1>4
  <2>2. w[b[k]] = ls[a[k]]
    BY <1>0, <2>1, Zenon
  <2>3. _unique_slug(w, T, b[k]) = _unique_slug(ls, S, a[k])
    BY <1>7, <2>1, Zenon
  <2> QED BY <2>2, <2>3, Zenon
<1> QED BY <1>4, <1>9, <1>10, <1>11, Zenon DEF OneList

\* The sections of a file: what the list is built from.
Listed(ls) == {n \in Headings(ls) : ls[n].lvl \in 2..3}

\* A splice that neither takes a heading nor brings one leaves the list as it was.
LEMMA SplicedList ==
  ASSUME NEW ls, File(ls), NEW w, NEW p, NEW q, NEW d, Splice(w, ls, p, q, d), NoFences(w, ls, p, q, d),
         \A n \in (p + 1)..(q - 1) : ls[n].k # "head",
         \A n \in (p + 1)..(p + d) : w[n].k # "head"
  PROVE  /\ OneList(w, Listed(w), ls, Listed(ls))
         /\ Listed(ls) # {} => Listed(w) # {}
<1>0. Len(ls) \in Nat /\ Headings(ls) \subseteq 1..Len(ls)
  BY FileLength, HeadingsInFile
<1>1. PICK sh : sh = Shift(p, q, d)
  OBVIOUS
<1>2. /\ p \in 0..Len(ls) /\ q \in (p + 1)..(Len(ls) + 1) /\ d \in Nat
      /\ File(w) /\ Len(w) = Len(ls) + sh
  BY <1>1 DEF Splice
<1>3. Len(w) \in Nat /\ Headings(w) \subseteq 1..Len(w)
  BY <1>2, FileLength, HeadingsInFile
<1>4. PICK S : S = Listed(ls)
  OBVIOUS
<1>5. PICK T : T = Listed(w)
  OBVIOUS
<1>6. S \subseteq 1..Len(ls) /\ T \subseteq 1..Len(w)
  BY <1>0, <1>3, <1>4, <1>5 DEF Listed
<1>7. \A m \in 1..Len(ls) : m \notin (p + 1)..(q - 1) =>
         /\ MovedTo(p, q, d, m) \in 1..Len(w) /\ w[MovedTo(p, q, d, m)] = ls[m]
         /\ MovedTo(p, q, d, m) \in Headings(w) <=> m \in Headings(ls)
  <2> SUFFICES ASSUME NEW m \in 1..Len(ls), m \notin (p + 1)..(q - 1)
               PROVE  /\ MovedTo(p, q, d, m) \in 1..Len(w) /\ w[MovedTo(p, q, d, m)] = ls[m]
                      /\ MovedTo(p, q, d, m) \in Headings(w) <=> m \in Headings(ls)
    OBVIOUS
  <2>1. ReadAlike(w, MovedTo(p, q, d, m), (p + 1)..(p + d), ls, m)
    BY SplicedHeadings, Zenon
  <2> QED BY <2>1, Zenon DEF ReadAlike
<1>8. \A m \in 1..Len(ls) : m \notin (p + 1)..(q - 1) => (m \in S <=> MovedTo(p, q, d, m) \in T)
  BY <1>4, <1>5, <1>7 DEF Listed
<1>9. \A m \in S : m \in 1..Len(ls) /\ m \notin (p + 1)..(q - 1) /\ w[MovedTo(p, q, d, m)] = ls[m]
  BY <1>4, <1>6, <1>7 DEF Listed, Headings
<1>10. Stay(S, T, ls, w, p, q, d)
  <2>1. \A n \in (p + 1)..(q - 1) : n \notin S
    BY <1>9
  <2>2. \A n \in (p + 1)..(p + d) : n \notin T
    BY <1>5 DEF Listed, Headings
  <2>3. ASSUME NEW n \in 1..p PROVE n \in S <=> n \in T
    <3>1. n \in 1..Len(ls) /\ n \notin (p + 1)..(q - 1) /\ MovedTo(p, q, d, n) = n
      BY <1>0, <1>2 DEF MovedTo
    <3> QED BY <1>8, <3>1
  <2>4. ASSUME NEW n \in q..Len(ls) PROVE n \in S <=> n + Shift(p, q, d) \in T
    <3>0. ~(n <= p)
      BY <1>0, <1>2
    <3>1. n \in 1..Len(ls) /\ n \notin (p + 1)..(q - 1) /\ MovedTo(p, q, d, n) = n + Shift(p, q, d)
      BY <1>0, <1>2, <3>0 DEF MovedTo
    <3> QED BY <1>8, <3>1
  <2> QED BY <1>6, <2>1, <2>2, <2>3, <2>4 DEF Stay
<1>11. PICK f : f = [n \in S |-> MovedTo(p, q, d, n)]
  OBVIOUS
<1>12. KeepsOrder(f, S, T)
  BY <1>10, <1>11, SpliceMoves, Zenon
<1>13. SameText(f, S, ls, w)
  BY <1>9, <1>11 DEF SameText
<1>14. OneList(w, T, ls, S)
  <2>1. PICK n : n = Len(ls)
    OBVIOUS
  <2>2. PICK m : m = Len(w)
    OBVIOUS
  <2>3. n \in Nat /\ S \subseteq 1..n /\ m \in Nat /\ T \subseteq 1..m
    BY <1>0, <1>3, <1>6, <2>1, <2>2
  <2> QED BY <1>12, <1>13, <2>3, SameList, Zenon
<1>15. S # {} => T # {}
  BY <1>8, <1>9
<1> QED BY <1>4, <1>5, <1>14, <1>15, Zenon

\* A splice that leaves the title and brings no heading leaves a tidy file, if no heading of
\* a list is left in it.
LEMMA SplicedTidy ==
  ASSUME NEW ls, File(ls), NEW w, NEW p, NEW q, NEW d, Splice(w, ls, p, q, d), NoFences(w, ls, p, q, d),
         Headings(ls) = Scanned(ls), NEW t, TitledAt(ls, t), t \notin (p + 1)..(q - 1),
         \A n \in Headings(ls) : n \notin (p + 1)..(q - 1) => ls[n].txt \notin _TOC_HEADING_NAMES,
         \A n \in (p + 1)..(p + d) : w[n].k # "head"
  PROVE  Tidy(w, MovedTo(p, q, d, t))
<1>0. Len(ls) \in Nat /\ Headings(ls) \subseteq 1..Len(ls)
  BY FileLength, HeadingsInFile
<1>1. File(w)
  BY DEF Splice
<1>2. Headings(w) \subseteq 1..Len(w) /\ Len(w) \in Nat
  BY <1>1, HeadingsInFile, FileLength
<1>3. Scanned(w) \subseteq 1..Len(w) /\ \A n \in Scanned(w) : w[n].k = "head"
  BY DEF Scanned, _scan_headings
<1>4. ASSUME NEW x \in 1..Len(w), w[x].k = "head"
      PROVE  \E m \in 1..Len(ls) : /\ m \notin (p + 1)..(q - 1) /\ x = MovedTo(p, q, d, m) /\ w[x] = ls[m]
                                   /\ x \in Headings(w) <=> m \in Headings(ls)
                                   /\ x \in Scanned(w) <=> m \in Scanned(ls)
  <2>1. x \notin (p + 1)..(p + d)
    BY <1>4
  <2>2. PICK m \in 1..Len(ls) : m \notin (p + 1)..(q - 1) /\ x = MovedTo(p, q, d, m)
    BY <2>1, SplicedFrom
  <2>3. /\ w[x] = ls[m]
        /\ x \in Headings(w) <=> m \in Headings(ls)
        /\ x \in Scanned(w) <=> m \in Scanned(ls)
    <3>1. ReadAlike(w, MovedTo(p, q, d, m), (p + 1)..(p + d), ls, m)
      BY <2>2, SplicedHeadings, Zenon
    <3> QED BY <2>2, <3>1, Zenon DEF ReadAlike
  <2> QED BY <2>2, <2>3
<1>5. \A x \in Headings(w) : x \in 1..Len(w) /\ w[x].k = "head"
  BY <1>2 DEF Headings
<1>6. Headings(w) = Scanned(w)
  <2>1. \A x \in Headings(w) : x \in Scanned(w)
    BY <1>4, <1>5
  <2>2. \A x \in Scanned(w) : x \in Headings(w)
    BY <1>3, <1>4
  <2> QED BY <2>1, <2>2
<1>7. \A x \in Headings(w) : w[x].txt \notin _TOC_HEADING_NAMES
  BY <1>4, <1>5
<1>8. TitledAt(w, MovedTo(p, q, d, t))
  <2>1. t \in Headings(ls) /\ ls[t].lvl = 1 /\ t \in 1..Len(ls)
    BY <1>0 DEF TitledAt
  <2>2. PICK z : z = MovedTo(p, q, d, t)
    OBVIOUS
  <2>3. z \in 1..Len(w) /\ w[z] = ls[t] /\ (z \in Headings(w) <=> t \in Headings(ls))
    <3>1. ReadAlike(w, MovedTo(p, q, d, t), (p + 1)..(p + d), ls, t)
      BY <2>1, SplicedHeadings, Zenon
    <3> QED BY <2>2, <3>1, Zenon DEF ReadAlike
  <2>4. ASSUME NEW x \in Headings(w) PROVE z <= x /\ (w[x].lvl = 1 => x = z)
    <3>1. PICK m \in 1..Len(ls) : /\ m \notin (p + 1)..(q - 1) /\ x = MovedTo(p, q, d, m) /\ w[x] = ls[m]
                                  /\ x \in Headings(w) <=> m \in Headings(ls)
      BY <1>4, <1>5
    <3>2. m \in Headings(ls) /\ t <= m
      BY <2>4, <3>1 DEF TitledAt
    <3>3. w[x].lvl = 1 => m = t
      BY <3>1, <3>2 DEF TitledAt
    <3>4. m < t <=> x < z
      BY <2>1, <2>2, <3>1, SplicedOrder
    <3>5. x \in Int /\ z \in Int /\ m \in Int /\ t \in Int
      BY <1>0, <1>2, <2>1, <2>3, <1>5
    <3>6. z <= x
      BY <3>2, <3>4, <3>5
    <3> QED BY <2>2, <3>1, <3>3, <3>6
  <2> QED BY <2>1, <2>2, <2>3, <2>4 DEF TitledAt
<1> QED BY <1>6, <1>7, <1>8 DEF Tidy

-----------------------------------------------------------------------------
(* What a splice does to the markers.                                      *)

\* A splice that removes no marker and brings none leaves them as they were.
LEMMA SplicedMarks ==
  ASSUME NEW ls, File(ls), NEW w, NEW p, NEW q, NEW d, Splice(w, ls, p, q, d), NoFences(w, ls, p, q, d),
         \A n \in (p + 1)..(q - 1) : ls[n].k \notin {"open", "close"},
         \A n \in (p + 1)..(p + d) : w[n].k \notin {"open", "close"}
  PROVE  /\ \A m \in 1..Len(ls) : m \in Marks(ls) =>
               m \notin (p + 1)..(q - 1) /\ MovedTo(p, q, d, m) \in Marks(w)
         /\ \A x \in Marks(w) : \E m \in Marks(ls) : x = MovedTo(p, q, d, m)
<1>0. Len(ls) \in Nat /\ DOMAIN ls = 1..Len(ls)
  BY FileLength
<1>1. File(w)
  BY DEF Splice
<1>2. Len(w) \in Nat /\ DOMAIN w = 1..Len(w)
  BY <1>1, FileLength
<1>3. ASSUME NEW m \in 1..Len(ls), m \notin (p + 1)..(q - 1)
      PROVE  MovedTo(p, q, d, m) \in 1..Len(w) /\ w[MovedTo(p, q, d, m)] = ls[m]
  <2>1. ReadAlike(w, MovedTo(p, q, d, m), (p + 1)..(p + d), ls, m)
    BY <1>3, SplicedHeadings, Zenon
  <2> QED BY <2>1, Zenon DEF ReadAlike
<1>4. ASSUME NEW m \in 1..Len(ls), m \in Marks(ls)
      PROVE  m \notin (p + 1)..(q - 1) /\ MovedTo(p, q, d, m) \in Marks(w)
  <2>1. ls[m].k \in {"open", "close"}
    BY <1>4 DEF Marks
  <2>2. m \notin (p + 1)..(q - 1)
    BY <2>1
  <2>3. MovedTo(p, q, d, m) \in 1..Len(w) /\ w[MovedTo(p, q, d, m)] = ls[m]
    BY <1>3, <2>2
  <2> QED BY <1>2, <2>1, <2>2, <2>3 DEF Marks
<1>5. ASSUME NEW x \in Marks(w) PROVE \E m \in Marks(ls) : x = MovedTo(p, q, d, m)
  <2>1. x \in 1..Len(w) /\ w[x].k \in {"open", "close"}
    BY <1>2 DEF Marks
  <2>2. x \notin (p + 1)..(p + d)
    BY <2>1
  <2>3. PICK m \in 1..Len(ls) : m \notin (p + 1)..(q - 1) /\ x = MovedTo(p, q, d, m)
    BY <2>1, <2>2, SplicedFrom
  <2>4. w[x] = ls[m]
    BY <1>3, <2>3
  <2>5. m \in Marks(ls)
    BY <1>0, <2>1, <2>4 DEF Marks
  <2> QED BY <2>3, <2>5
<1> QED BY <1>4, <1>5

\* A splice that brings blank lines and entries only, and removes no marker, leaves a frame
\* what it is.
LEMMA SplicedFrame ==
  ASSUME NEW ls, File(ls), NEW w, NEW p, NEW q, NEW d, Splice(w, ls, p, q, d), NoFences(w, ls, p, q, d),
         \A n \in (p + 1)..(q - 1) : ls[n].k \notin {"open", "close"},
         \A n \in (p + 1)..(p + d) : w[n].k \in {"blank", "entry"},
         NEW t \in 1..Len(ls), t \notin (p + 1)..(q - 1), NEW o, NEW c, Framed(ls, t, o, c)
  PROVE  Framed(w, MovedTo(p, q, d, t), MovedTo(p, q, d, o), MovedTo(p, q, d, c))
<1>0. Len(ls) \in Nat /\ DOMAIN ls = 1..Len(ls)
  BY FileLength
<1>1. File(w)
  BY DEF Splice
<1>2. Len(w) \in Nat /\ DOMAIN w = 1..Len(w)
  BY <1>1, FileLength
<1>3. /\ o \in 1..Len(ls) /\ c \in 1..Len(ls) /\ o < c /\ Marks(ls) = {o, c}
      /\ ls[o] = TOC_MARKER_START /\ ls[c] = TOC_MARKER_END
      /\ o \in Outside(ls) /\ c \in Outside(ls) /\ t < o
      /\ \A n \in (o + 1)..(c - 1) : ls[n].k \in {"blank", "entry"}
  BY DEF Framed, PairAt
<1>4. \A n \in (p + 1)..(p + d) : w[n].k \notin {"open", "close"}
  OBVIOUS
<1>5. /\ \A m \in 1..Len(ls) : m \in Marks(ls) =>
            m \notin (p + 1)..(q - 1) /\ MovedTo(p, q, d, m) \in Marks(w)
      /\ \A x \in Marks(w) : \E m \in Marks(ls) : x = MovedTo(p, q, d, m)
  BY <1>4, SplicedMarks
<1>6. PICK o1 : o1 = MovedTo(p, q, d, o)
  OBVIOUS
<1>7. PICK c1 : c1 = MovedTo(p, q, d, c)
  OBVIOUS
<1>8. PICK t1 : t1 = MovedTo(p, q, d, t)
  OBVIOUS
<1>9. o \notin (p + 1)..(q - 1) /\ c \notin (p + 1)..(q - 1) /\ o1 \in Marks(w) /\ c1 \in Marks(w)
  BY <1>3, <1>5, <1>6, <1>7
<1>10. Marks(w) = {o1, c1}
  BY <1>3, <1>5, <1>6, <1>7, <1>9
<1>11. ReadAlike(w, o1, (p + 1)..(p + d), ls, o) /\ ReadAlike(w, c1, (p + 1)..(p + d), ls, c)
  BY <1>3, <1>6, <1>7, <1>9, SplicedHeadings, Zenon
<1>12. /\ o1 \in 1..Len(w) /\ w[o1] = ls[o] /\ o1 \in Outside(w)
       /\ c1 \in 1..Len(w) /\ w[c1] = ls[c] /\ c1 \in Outside(w)
  BY <1>3, <1>11, Zenon DEF ReadAlike
<1>13. o1 < c1 /\ t1 < o1
  <2>1. o < c <=> o1 < c1
    BY <1>3, <1>6, <1>7, <1>9, SplicedOrder, Zenon
  <2>2. t < o <=> t1 < o1
    BY <1>3, <1>6, <1>8, <1>9, SplicedOrder, Zenon
  <2> QED BY <1>3, <2>1, <2>2
<1>14. ASSUME NEW x \in (o1 + 1)..(c1 - 1) PROVE w[x].k \in {"blank", "entry"}
  <2>1. x \in 1..Len(w) /\ o1 < x /\ x < c1
    BY <1>2, <1>12
  <2>2. CASE x \in (p + 1)..(p + d)
    BY <2>2
  <2>3. CASE x \notin (p + 1)..(p + d)
    <3>1. PICK m \in 1..Len(ls) : m \notin (p + 1)..(q - 1) /\ x = MovedTo(p, q, d, m)
      BY <2>1, <2>3, SplicedFrom
    <3>2. o < m <=> o1 < x
      BY <1>3, <1>6, <1>9, <3>1, SplicedOrder, Zenon
    <3>3. m < c <=> x < c1
      BY <1>3, <1>7, <1>9, <3>1, SplicedOrder, Zenon
    <3>4. m \in (o + 1)..(c - 1)
      BY <1>0, <1>3, <2>1, <3>2, <3>3
    <3>5. ReadAlike(w, x, (p + 1)..(p + d), ls, m)
      BY <3>1, SplicedHeadings, Zenon
    <3>6. w[x] = ls[m]
      BY <3>5, Zenon DEF ReadAlike
    <3> QED BY <1>3, <3>4, <3>6
  <2> QED BY <2>2, <2>3
<1>15. PairAt(w, o1, c1)
  BY <1>3, <1>10, <1>12, <1>13 DEF PairAt
<1>16. Framed(w, t1, o1, c1)
  BY <1>12, <1>13, <1>14, <1>15 DEF Framed
<1> QED BY <1>6, <1>7, <1>8, <1>16, Zenon

\* A file as insert_toc_markers wants it: no heading of a list, a frame or no markers.
Ready(ls) == \E t : Tidy(ls, t) /\ (Marks(ls) = {} \/ \E o, c : Framed(ls, t, o, c))

\* The sections of one file are sections of the other.
SectionsOf(w, ls) == \A n \in Listed(w) : \E m \in Listed(ls) : w[n] = ls[m]

\* An orderly file without the section a person wrote (toc.py:520-560).
LEMMA StrippedIsReady ==
  ASSUME NEW ls, File(ls), Orderly(ls)
  PROVE  Ready(_strip_manual_toc(ls)) /\ SectionsOf(_strip_manual_toc(ls), ls)
<1>0. Len(ls) \in Nat /\ DOMAIN ls = 1..Len(ls) /\ Headings(ls) \subseteq 1..Len(ls)
  BY FileLength, HeadingsInFile
<1>1. /\ Headings(ls) = Scanned(ls)
      /\ \E t : /\ TitledAt(ls, t) /\ ls[t].txt \notin _TOC_HEADING_NAMES
                /\ Marks(ls) = {} \/ \E o, c : Framed(ls, t, o, c)
      /\ \A n \in Headings(ls) : ls[n].txt \in _TOC_HEADING_NAMES => ls[n] = TocHeading
      /\ \A a, b \in Headings(ls) :
            ls[a].txt \in _TOC_HEADING_NAMES /\ ls[b].txt \in _TOC_HEADING_NAMES => a = b
  BY OrderlyParts
<1>2. PICK t : /\ TitledAt(ls, t) /\ ls[t].txt \notin _TOC_HEADING_NAMES
               /\ Marks(ls) = {} \/ \E o, c : Framed(ls, t, o, c)
  BY <1>1
<1>3. t \in Headings(ls) /\ t \in 1..Len(ls)
  BY <1>0, <1>2 DEF TitledAt
<1>4. TocHeading.txt \in _TOC_HEADING_NAMES /\ TocHeading.k = "head"
  BY DEF TocHeading, Heading, Line, _TOC_HEADING_NAMES
<1>5. CASE HeadingSection(ls) = <<>>
  <2>1. _strip_manual_toc(ls) = ls
    BY <1>5 DEF _strip_manual_toc
  <2>2. PICK at : at = {n \in Outside(ls) : ls[n] = TocHeading}
    OBVIOUS
  <2>3. at = {}
    <3>1. \A x, y : <<x, y>> # <<>>
      OBVIOUS
    <3> QED BY <1>5, <2>2, <3>1, Zenon DEF HeadingSection
  <2>4. \A n \in Headings(ls) : ls[n].txt \notin _TOC_HEADING_NAMES
    BY <1>1, <2>2, <2>3 DEF Headings
  <2>5. Tidy(ls, t)
    BY <1>1, <1>2, <2>4 DEF Tidy
  <2>6. Ready(ls)
    BY <1>2, <2>5 DEF Ready
  <2> QED BY <2>1, <2>6 DEF SectionsOf
<1>6. CASE HeadingSection(ls) # <<>>
  <2>1. PICK v, z \in 1..(Len(ls) + 1) :
            /\ v < z /\ Widened(ls, HeadingSection(ls)) = <<v, z>>
            /\ \A n \in v..(z - 1) : ~Own(ls[n]) /\ ls[n].k \notin {"open", "close", "fence"}
    BY <1>6, SectionIsPlain
  <2>a. PICK a, b \in 1..(Len(ls) + 1) :
            /\ a < b /\ HeadingSection(ls) = <<a, b>> /\ ls[a] = TocHeading
            /\ a = Min({n \in Outside(ls) : ls[n] = TocHeading})
    BY <1>6, SectionAt
  <2>b. v <= a /\ a < z
    <3>1. PICK v1 \in 1..a, z1 \in b..(Len(ls) + 1) : Widened(ls, <<a, b>>) = <<v1, z1>>
      BY WidenedBlank
    <3>2. v = v1 /\ z = z1
      BY <2>1, <2>a, <3>1
    <3> QED BY <1>0, <2>a, <3>1, <3>2
  <2>c. a \in Headings(ls)
    <3>1. PICK at : at = {n \in Outside(ls) : ls[n] = TocHeading}
      OBVIOUS
    <3>2. at # {}
      BY <1>6, <3>1, Zenon DEF HeadingSection
    <3>3. at \subseteq Nat
      BY <1>0, <3>1, HeadingsInFile
    <3>4. a \in at
      BY <2>a, <3>1, <3>2, <3>3, MinIsLeast
    <3> QED BY <1>4, <3>1, <3>4 DEF Headings
  <2>2. PICK p : p = v - 1
    OBVIOUS
  <2>3. p \in 0..Len(ls) /\ z \in (p + 1)..(Len(ls) + 1) /\ p \in Int /\ z \in Int /\ p + 1 = v
    BY <1>0, <2>1, <2>2
  <2>4. PICK x : x = Upto(ls, p)
    OBVIOUS
  <2>5. PICK y : y = From(ls, z)
    OBVIOUS
  <2>6. File(x) /\ File(y)
    BY <2>3, <2>4, <2>5, EndsAreFiles, Zenon
  <2>7. _strip_manual_toc(ls) = Join(x \o y)
    <3>1. Widened(ls, HeadingSection(ls))[1] - 1 = p /\ Widened(ls, HeadingSection(ls))[2] = z
      BY <2>1, <2>2
    <3> QED BY <1>6, <2>4, <2>5, <3>1, Zenon DEF _strip_manual_toc
  <2>8. PICK w : w = x \o y
    OBVIOUS
  <2>9. PICK d : d = 0
    OBVIOUS
  <2>10. Splice(w, ls, p, z, d)
    <3>1. x \o <<>> = x /\ File(<<>>)
      BY <2>6, EmptyPiece, Zenon
    <3>2. w = Upto(ls, p) \o <<>> \o From(ls, z)
      BY <2>4, <2>5, <2>8, <3>1, Zenon
    <3>3. SplicedWith(w, ls, p, z, <<>>)
      BY <2>3, <3>1, <3>2, SplicedFile, Zenon
    <3>4. Len(<<>>) = d
      BY <2>9
    <3> QED BY <3>3, <3>4 DEF SplicedWith
  <2>11. (p + 1)..(p + d) = {}
    BY <2>3, <2>9
  <2>12. \A n \in (p + 1)..(z - 1) : ~Own(ls[n]) /\ ls[n].k \notin {"open", "close", "fence"}
    BY <2>1, <2>3
  <2>13. NoFences(w, ls, p, z, d)
    BY <2>11, <2>12 DEF NoFences
  <2>14. t \notin (p + 1)..(z - 1)
    <3>1. ls[t].k = "head" /\ ls[t] # TocHeading
      BY <1>2, <1>3, <1>4 DEF Headings
    <3> QED BY <2>12, <3>1 DEF Own
  <2>15. \A n \in Headings(ls) : n \notin (p + 1)..(z - 1) => ls[n].txt \notin _TOC_HEADING_NAMES
    <3> SUFFICES ASSUME NEW n \in Headings(ls), ls[n].txt \in _TOC_HEADING_NAMES PROVE n \in (p + 1)..(z - 1)
      OBVIOUS
    <3>1. n = a
      BY <1>1, <1>4, <2>a, <2>c
    <3> QED BY <1>0, <2>3, <2>a, <2>b, <3>1
  <2>16. PICK t1 : t1 = MovedTo(p, z, d, t)
    OBVIOUS
  <2>17. Tidy(w, t1)
    <3>1. \A n \in (p + 1)..(p + d) : w[n].k # "head"
      BY <2>11
    <3>2. Tidy(w, MovedTo(p, z, d, t))
      BY <1>1, <1>2, <2>10, <2>13, <2>14, <2>15, <3>1, SplicedTidy, Zenon
    <3> QED BY <2>16, <3>2, Zenon
  <2>18. Marks(w) = {} \/ \E o, c : Framed(w, t1, o, c)
    <3>1. /\ \A n \in (p + 1)..(z - 1) : ls[n].k \notin {"open", "close"}
          /\ \A n \in (p + 1)..(p + d) : w[n].k \notin {"open", "close"}
          /\ \A n \in (p + 1)..(p + d) : w[n].k \in {"blank", "entry"}
      BY <2>11, <2>12
    <3>2. CASE Marks(ls) = {}
      <4>1. \A m \in Marks(w) : \E n \in Marks(ls) : m = MovedTo(p, z, d, n)
        BY <2>10, <2>13, <3>1, SplicedMarks
      <4> QED BY <3>2, <4>1
    <3>3. CASE \E o, c : Framed(ls, t, o, c)
      <4>1. PICK o, c : Framed(ls, t, o, c)
        BY <3>3
      <4>2. Framed(w, MovedTo(p, z, d, t), MovedTo(p, z, d, o), MovedTo(p, z, d, c))
        BY <1>3, <2>10, <2>13, <2>14, <3>1, <4>1, SplicedFrame, Zenon
      <4> QED BY <2>16, <4>2, Zenon
    <3> QED BY <1>2, <3>2, <3>3
  <2>19. w # <<>>
    <3>1. t1 \in Headings(w)
      BY <2>17 DEF Tidy, TitledAt
    <3>2. File(w)
      BY <2>10 DEF Splice
    <3>3. t1 \in 1..Len(w)
      BY <3>1, <3>2, HeadingsInFile
    <3> QED BY <3>3
  <2>20. _strip_manual_toc(ls) = w
    BY <2>7, <2>8, <2>19 DEF Join
  <2>21. Ready(w)
    BY <2>17, <2>18 DEF Ready
  <2>22. SectionsOf(w, ls)
    <3> SUFFICES ASSUME NEW n \in Listed(w) PROVE \E m \in Listed(ls) : w[n] = ls[m]
      BY DEF SectionsOf
    <3>1. n \in Headings(w) /\ w[n].lvl \in 2..3
      BY DEF Listed
    <3>2. File(w)
      BY <2>10 DEF Splice
    <3>3. n \in 1..Len(w) /\ n \notin (p + 1)..(p + d)
      BY <2>11, <3>1, <3>2, HeadingsInFile
    <3>4. PICK m \in 1..Len(ls) : m \notin (p + 1)..(z - 1) /\ n = MovedTo(p, z, d, m)
      BY <2>10, <3>3, SplicedFrom
    <3>5. ReadAlike(w, MovedTo(p, z, d, m), (p + 1)..(p + d), ls, m)
      BY <2>10, <2>13, <3>4, SplicedHeadings, Zenon
    <3>6. w[n] = ls[m] /\ m \in Headings(ls)
      BY <3>1, <3>4, <3>5, Zenon DEF ReadAlike
    <3>7. m \in Listed(ls)
      BY <3>1, <3>6 DEF Listed
    <3> QED BY <3>6, <3>7
  <2> QED BY <2>20, <2>21, <2>22, Zenon
<1> QED BY <1>5, <1>6

-----------------------------------------------------------------------------
(* What insert_toc_markers leaves behind.                                  *)

\* A list between its markers, with the blank lines around it.
Holds(w, o, c, toc) ==
    /\ c = o + 3 + Len(toc) /\ w[o + 1] = Blank /\ w[o + 2 + Len(toc)] = Blank
    /\ \A k \in 1..Len(toc) : w[o + 1 + k] = toc[k]
Entries(toc) == File(toc) /\ \A k \in 1..Len(toc) : toc[k].k = "entry"

\* What is written into a block.
Filling(mid, toc) ==
    /\ File(mid) /\ Len(mid) = Len(toc) + 2 /\ mid[1] = Blank /\ mid[Len(toc) + 2] = Blank
    /\ \A k \in 1..Len(toc) : mid[k + 1] = toc[k]
    /\ \A k \in 1..Len(mid) : mid[k].k \in {"blank", "entry"}

\* Blank line, list, blank line.
LEMMA FillingOf == ASSUME NEW toc, Entries(toc) PROVE \A mid : mid = <<Blank>> \o toc \o <<Blank>> => Filling(mid, toc)
<1> TAKE mid
<1> HAVE mid = <<Blank>> \o toc \o <<Blank>>
<1>1. File(toc) /\ Len(toc) \in Nat /\ \A k \in 1..Len(toc) : toc[k].k = "entry"
  BY FileLength DEF Entries
<1>2. PICK b : b = <<Blank>>
  OBVIOUS
<1>3. File(b) /\ Len(b) = 1 /\ b[1] = Blank
  BY <1>2, FewLines
<1>4. PICK s : s = b \o toc
  OBVIOUS
<1>5. File(s) /\ Joins(s, b, toc)
  <2>1. File(s)
    BY <1>1, <1>3, <1>4, JoinIsFile
  <2>2. b \in Seq({b[n] : n \in DOMAIN b} \cup {toc[n] : n \in DOMAIN toc})
    <3>1. b \in Seq({b[n] : n \in DOMAIN b})
      BY <1>3 DEF File
    <3> QED BY <3>1
  <2>3. toc \in Seq({b[n] : n \in DOMAIN b} \cup {toc[n] : n \in DOMAIN toc})
    <3>1. toc \in Seq({toc[n] : n \in DOMAIN toc})
      BY <1>1 DEF File
    <3> QED BY <3>1
  <2> QED BY <1>4, <2>1, <2>2, <2>3, JoinedLines
<1>6. File(mid) /\ Joins(mid, s, b)
  <2>0. mid = s \o b
    BY <1>2, <1>4
  <2>1. File(mid)
    BY <1>3, <1>5, <2>0, JoinIsFile
  <2>2. b \in Seq({b[n] : n \in DOMAIN b} \cup {s[n] : n \in DOMAIN s})
    <3>1. b \in Seq({b[n] : n \in DOMAIN b})
      BY <1>3 DEF File
    <3> QED BY <3>1
  <2>3. s \in Seq({b[n] : n \in DOMAIN b} \cup {s[n] : n \in DOMAIN s})
    <3>1. s \in Seq({s[n] : n \in DOMAIN s})
      BY <1>5 DEF File
    <3> QED BY <3>1
  <2> QED BY <2>0, <2>1, <2>2, <2>3, JoinedLines
<1>7. Len(s) = 1 + Len(toc) /\ s[1] = Blank /\ \A k \in 1..Len(toc) : s[1 + k] = toc[k]
  BY <1>3, <1>5 DEF Joins
<1>8. /\ Len(mid) = Len(s) + 1 /\ mid[Len(s) + 1] = Blank
      /\ \A k \in 1..Len(s) : mid[k] = s[k]
  BY <1>3, <1>6 DEF Joins
<1>9. Len(mid) = Len(toc) + 2 /\ mid[1] = Blank /\ mid[Len(toc) + 2] = Blank
  <2>1. 1 \in 1..Len(s) /\ Len(s) + 1 = Len(toc) + 2
    BY <1>1, <1>7
  <2> QED BY <1>7, <1>8, <2>1
<1>10. \A k \in 1..Len(toc) : mid[k + 1] = toc[k]
  <2> TAKE k \in 1..Len(toc)
  <2>1. k + 1 \in 1..Len(s) /\ 1 + k = k + 1
    BY <1>1, <1>7
  <2> QED BY <1>7, <1>8, <2>1
<1>11. ASSUME NEW k \in 1..Len(mid) PROVE mid[k].k \in {"blank", "entry"}
  <2>0. Blank.k = "blank"
    BY DEF Blank, Line
  <2>1. CASE k = 1 \/ k = Len(toc) + 2
    BY <1>9, <2>0, <2>1
  <2>2. CASE k # 1 /\ k # Len(toc) + 2
    <3>1. PICK j : j = k - 1
      OBVIOUS
    <3>2. j \in 1..Len(toc) /\ k = j + 1
      BY <1>1, <1>9, <2>2, <3>1
    <3> QED BY <1>1, <1>10, <3>2
  <2> QED BY <2>1, <2>2
<1> QED BY <1>6, <1>9, <1>10, <1>11 DEF Filling

\* What is written where no block was.
NewBlock(mid, toc) ==
    /\ File(mid) /\ Len(mid) = Len(toc) + 6
    /\ mid[2] = TOC_MARKER_START /\ mid[3] = Blank
    /\ \A k \in 1..Len(toc) : mid[k + 3] = toc[k]
    /\ mid[Len(toc) + 4] = Blank /\ mid[Len(toc) + 5] = TOC_MARKER_END
    /\ \A k \in 1..Len(mid) : k \notin {2, Len(toc) + 5} => mid[k].k \in {"blank", "entry"}

\* The markers with the list between them.
LEMMA NewBlockOf ==
  ASSUME NEW toc, Entries(toc)
  PROVE  \A mid : mid = <<Blank, TOC_MARKER_START, Blank>> \o toc \o <<Blank, TOC_MARKER_END, Blank>> => NewBlock(mid, toc)
<1> TAKE mid
<1> HAVE mid = <<Blank, TOC_MARKER_START, Blank>> \o toc \o <<Blank, TOC_MARKER_END, Blank>>
<1>1. File(toc) /\ Len(toc) \in Nat /\ \A k \in 1..Len(toc) : toc[k].k = "entry"
  BY FileLength DEF Entries
<1>2. PICK b : b = <<Blank, TOC_MARKER_START, Blank>>
  OBVIOUS
<1>a. PICK e : e = <<Blank, TOC_MARKER_END, Blank>>
  OBVIOUS
<1>3. File(b) /\ Len(b) = 3 /\ b[1] = Blank /\ b[2] = TOC_MARKER_START /\ b[3] = Blank
  BY <1>2, FewLines
<1>b. File(e) /\ Len(e) = 3 /\ e[1] = Blank /\ e[2] = TOC_MARKER_END /\ e[3] = Blank
  BY <1>a, FewLines
<1>4. PICK s : s = b \o toc
  OBVIOUS
<1>5. File(s) /\ Joins(s, b, toc)
  <2>1. File(s)
    BY <1>1, <1>3, <1>4, JoinIsFile
  <2>2. b \in Seq({b[n] : n \in DOMAIN b} \cup {toc[n] : n \in DOMAIN toc})
    <3>1. b \in Seq({b[n] : n \in DOMAIN b})
      BY <1>3 DEF File
    <3> QED BY <3>1
  <2>3. toc \in Seq({b[n] : n \in DOMAIN b} \cup {toc[n] : n \in DOMAIN toc})
    <3>1. toc \in Seq({toc[n] : n \in DOMAIN toc})
      BY <1>1 DEF File
    <3> QED BY <3>1
  <2> QED BY <1>4, <2>1, <2>2, <2>3, JoinedLines
<1>6. File(mid) /\ Joins(mid, s, e)
  <2>0. mid = s \o e
    BY <1>2, <1>a, <1>4
  <2>1. File(mid)
    BY <1>b, <1>5, <2>0, JoinIsFile
  <2>2. e \in Seq({e[n] : n \in DOMAIN e} \cup {s[n] : n \in DOMAIN s})
    <3>1. e \in Seq({e[n] : n \in DOMAIN e})
      BY <1>b DEF File
    <3> QED BY <3>1
  <2>3. s \in Seq({e[n] : n \in DOMAIN e} \cup {s[n] : n \in DOMAIN s})
    <3>1. s \in Seq({s[n] : n \in DOMAIN s})
      BY <1>5 DEF File
    <3> QED BY <3>1
  <2> QED BY <2>0, <2>1, <2>2, <2>3, JoinedLines
<1>7. /\ Len(s) = 3 + Len(toc) /\ s[1] = Blank /\ s[2] = TOC_MARKER_START /\ s[3] = Blank
      /\ \A k \in 1..Len(toc) : s[3 + k] = toc[k]
  BY <1>3, <1>5 DEF Joins
<1>8. /\ Len(mid) = Len(s) + 3
      /\ mid[Len(s) + 1] = Blank /\ mid[Len(s) + 2] = TOC_MARKER_END /\ mid[Len(s) + 3] = Blank
      /\ \A k \in 1..Len(s) : mid[k] = s[k]
  BY <1>b, <1>6 DEF Joins
<1>9. /\ Len(mid) = Len(toc) + 6
      /\ mid[1] = Blank /\ mid[2] = TOC_MARKER_START /\ mid[3] = Blank
      /\ mid[Len(toc) + 4] = Blank /\ mid[Len(toc) + 5] = TOC_MARKER_END /\ mid[Len(toc) + 6] = Blank
  <2>1. /\ 1 \in 1..Len(s) /\ 2 \in 1..Len(s) /\ 3 \in 1..Len(s)
        /\ Len(s) + 1 = Len(toc) + 4 /\ Len(s) + 2 = Len(toc) + 5 /\ Len(s) + 3 = Len(toc) + 6
    BY <1>1, <1>7
  <2> QED BY <1>7, <1>8, <2>1
<1>10. \A k \in 1..Len(toc) : mid[k + 3] = toc[k]
  <2> TAKE k \in 1..Len(toc)
  <2>1. k + 3 \in 1..Len(s) /\ 3 + k = k + 3
    BY <1>1, <1>7
  <2> QED BY <1>7, <1>8, <2>1
<1>11. ASSUME NEW k \in 1..Len(mid), k \notin {2, Len(toc) + 5} PROVE mid[k].k \in {"blank", "entry"}
  <2>0. Blank.k = "blank"
    BY DEF Blank, Line
  <2>1. CASE k = 1 \/ k = 3 \/ k = Len(toc) + 4 \/ k = Len(toc) + 6
    BY <1>9, <2>0, <2>1
  <2>2. CASE ~(k = 1 \/ k = 3 \/ k = Len(toc) + 4 \/ k = Len(toc) + 6)
    <3>1. PICK j : j = k - 3
      OBVIOUS
    <3>2. j \in 1..Len(toc) /\ k = j + 3
      BY <1>1, <1>9, <1>11, <2>2, <3>1
    <3> QED BY <1>1, <1>10, <3>2
  <2> QED BY <2>1, <2>2
<1> QED BY <1>6, <1>9, <1>10, <1>11 DEF NewBlock

\* A block that holds the list already is written as it is.
LEMMA Refilled ==
  ASSUME NEW w, File(w), NEW o \in 1..Len(w), NEW c \in 1..Len(w), NEW toc, Entries(toc), Holds(w, o, c, toc)
  PROVE  Upto(w, o) \o (<<Blank>> \o toc \o <<Blank>>) \o From(w, c) = w
<1>0. Len(w) \in Nat /\ File(toc) /\ Len(toc) \in Nat
  BY FileLength DEF Entries
<1>1. PICK mid : mid = <<Blank>> \o toc \o <<Blank>>
  OBVIOUS
<1>2. Filling(mid, toc)
  BY <1>1, FillingOf, Zenon
<1>3. /\ File(mid) /\ Len(mid) = Len(toc) + 2 /\ mid[1] = Blank /\ mid[Len(toc) + 2] = Blank
      /\ \A k \in 1..Len(toc) : mid[k + 1] = toc[k]
  BY <1>2 DEF Filling
<1>4. /\ c = o + 3 + Len(toc) /\ w[o + 1] = Blank /\ w[o + 2 + Len(toc)] = Blank
      /\ \A k \in 1..Len(toc) : w[o + 1 + k] = toc[k]
  BY DEF Holds
<1>5. PICK u : u = Upto(w, o) \o mid \o From(w, c)
  OBVIOUS
<1>6. o \in 0..Len(w) /\ c \in (o + 1)..(Len(w) + 1)
  BY <1>0, <1>4
<1>7. SplicedWith(u, w, o, c, mid)
  BY <1>3, <1>5, <1>6, SplicedFile
<1>8. PICK sh : sh = Shift(o, c, Len(mid))
  OBVIOUS
<1>9. sh = 0
  BY <1>0, <1>3, <1>4, <1>8 DEF Shift
<1>10. /\ File(u) /\ Len(u) = Len(w) + sh
       /\ \A k \in 1..o : u[k] = w[k]
       /\ \A k \in c..Len(w) : u[k + sh] = w[k]
       /\ \A k \in 1..Len(mid) : u[o + k] = mid[k]
  BY <1>7, <1>8, Zenon DEF SplicedWith, Splice
<1>11. Len(u) = Len(w)
  BY <1>0, <1>9, <1>10
<1>12. ASSUME NEW k \in 1..Len(w) PROVE u[k] = w[k]
  <2>1. CASE k <= o
    <3>1. k \in 1..o
      BY <1>0, <2>1
    <3> QED BY <1>10, <3>1
  <2>2. CASE c <= k
    <3>1. k \in c..Len(w) /\ k + sh = k
      BY <1>0, <1>9, <2>2
    <3> QED BY <1>10, <3>1
  <2>3. CASE o < k /\ k < c
    <3>1. PICK j : j = k - o
      OBVIOUS
    <3>2. j \in 1..Len(mid) /\ o + j = k
      BY <1>0, <1>3, <1>4, <2>3, <3>1
    <3>3. u[k] = mid[j]
      BY <1>10, <3>2
    <3>4. CASE j = 1
      <4>1. o + 1 = k
        BY <3>2, <3>4
      <4> QED BY <1>3, <1>4, <3>3, <3>4, <4>1
    <3>5. CASE j = Len(toc) + 2
      <4>1. o + 2 + Len(toc) = k
        BY <1>0, <3>2, <3>5
      <4> QED BY <1>3, <1>4, <3>3, <3>5, <4>1
    <3>6. CASE j # 1 /\ j # Len(toc) + 2
      <4>1. PICK i : i = j - 1
        OBVIOUS
      <4>2. i \in 1..Len(toc) /\ j = i + 1 /\ o + 1 + i = k
        BY <1>0, <1>3, <3>2, <3>6, <4>1
      <4> QED BY <1>3, <1>4, <3>3, <4>2
    <3> QED BY <3>4, <3>5, <3>6
  <2> QED BY <1>0, <1>4, <2>1, <2>2, <2>3
<1>13. u = w
  <2>1. PICK U : u \in Seq(U)
    BY <1>10 DEF File
  <2>2. PICK W : w \in Seq(W)
    BY DEF File
  <2>3. u = [k \in 1..Len(w) |-> u[k]] /\ w = [k \in 1..Len(w) |-> w[k]]
    BY <1>11, <2>1, <2>2
  <2> QED BY <1>12, <2>3
<1> QED BY <1>1, <1>5, <1>13, Zenon

\* A file whose markers hold the list of its sections.
TocOf(ls) == build_toc(ls, Listed(ls), FALSE, 2)
Settled(w) == \E t, o, c : Tidy(w, t) /\ Framed(w, t, o, c) /\ Listed(w) # {} /\ Holds(w, o, c, TocOf(w))

\* The sections a file's list is built from (toc.py:251-268).
LEMMA SectionsListed ==
  ASSUME NEW ls, File(ls)
  PROVE  /\ parse_headings(ls, 2, 3, FALSE, FALSE) = Listed(ls) /\ Listed(ls) \subseteq 1..Len(ls)
         /\ Entries(TocOf(ls)) /\ ListOf(TocOf(ls), ls, Listed(ls))
<1>1. parse_headings(ls, 2, 3, FALSE, FALSE) = Listed(ls)
  BY DEF parse_headings, Listed
<1>2. PICK hs : hs = Listed(ls)
  OBVIOUS
<1>3. PICK n : n = Len(ls)
  OBVIOUS
<1>4. n \in Nat /\ hs \subseteq 1..n
  BY <1>2, <1>3, FileLength, HeadingsInFile DEF Listed
<1>5. PICK toc : toc = build_toc(ls, hs, FALSE, 2)
  OBVIOUS
<1>6. ListOf(toc, ls, hs)
  BY <1>4, <1>5, BuiltList, Zenon
<1>7. File(build_toc(ls, hs, FALSE, 2))
  BY <1>4, ListIsFile, Zenon
<1>8. Entries(toc)
  <2>1. \A k \in 1..Len(toc) : toc[k].k = "entry"
    BY <1>6 DEF ListOf
  <2> QED BY <1>5, <1>7, <2>1 DEF Entries
<1> QED BY <1>1, <1>2, <1>3, <1>4, <1>5, <1>6, <1>8, Zenon DEF TocOf

\* A file with its list in a frame it had.
LEMMA BlockSettles ==
  ASSUME NEW ls, File(ls), NEW t, Tidy(ls, t), NEW o, NEW c, Framed(ls, t, o, c), Listed(ls) # {}
  PROVE  Settled(insert_toc_markers(ls, 3)) /\ TocOf(insert_toc_markers(ls, 3)) = TocOf(ls)
<1>0. Len(ls) \in Nat
  BY FileLength
<1>1. PICK hs : hs = Listed(ls)
  OBVIOUS
<1>2. PICK toc : toc = TocOf(ls)
  OBVIOUS
<1>3. /\ parse_headings(ls, 2, 3, FALSE, FALSE) = hs /\ hs # {}
      /\ Entries(toc) /\ toc = build_toc(ls, hs, FALSE, 2)
  BY <1>1, <1>2, SectionsListed, Zenon DEF TocOf
<1>4. /\ o \in 1..Len(ls) /\ c \in 1..Len(ls) /\ o < c /\ PairAt(ls, o, c) /\ t < o
      /\ \A n \in (o + 1)..(c - 1) : ls[n].k \in {"blank", "entry"}
  BY DEF Framed, PairAt
<1>5. MarkerBlock(ls) = <<o, c>>
  BY <1>4, OnePair
<1>6. PICK mid : mid = <<Blank>> \o toc \o <<Blank>>
  OBVIOUS
<1>7. Filling(mid, toc)
  BY <1>3, <1>6, FillingOf, Zenon
<1>8. /\ File(mid) /\ Len(mid) = Len(toc) + 2 /\ mid[1] = Blank /\ mid[Len(toc) + 2] = Blank
      /\ \A k \in 1..Len(toc) : mid[k + 1] = toc[k]
      /\ \A k \in 1..Len(mid) : mid[k].k \in {"blank", "entry"}
  BY <1>7 DEF Filling
<1>9. Len(toc) \in Nat /\ Len(mid) \in Nat /\ File(toc)
  BY <1>3, <1>8, FileLength DEF Entries
<1>10. PICK w : w = Upto(ls, o) \o mid \o From(ls, c)
  OBVIOUS
<1>11. insert_toc_markers(ls, 3) = w
  <2>1. PICK x : x = Upto(ls, o)
    OBVIOUS
  <2>2. PICK y : y = From(ls, c)
    OBVIOUS
  <2>3. PICK b : b = <<Blank>>
    OBVIOUS
  <2>4. File(x) /\ File(b)
    <3>1. o \in Int
      BY <1>4
    <3> QED BY <2>1, <2>3, <3>1, EndsAreFiles, FewLines
  <2>5. MarkerBlock(ls)[1] = o /\ MarkerBlock(ls)[2] = c /\ MarkerBlock(ls) # <<>>
    BY <1>5
  <2>6. insert_toc_markers(ls, 3) = Upto(ls, MarkerBlock(ls)[1]) \o <<Blank>> \o toc \o <<Blank>> \o From(ls, MarkerBlock(ls)[2])
    BY <1>3, <2>5 DEF insert_toc_markers
  <2>7. insert_toc_markers(ls, 3) = x \o b \o toc \o b \o y
    BY <2>1, <2>2, <2>3, <2>5, <2>6, Zenon
  <2>8. Regroups(x, b, toc, b)
    BY <1>9, <2>4, Regroup, Zenon
  <2> QED BY <1>6, <1>10, <2>1, <2>2, <2>3, <2>7, <2>8, Zenon DEF Regroups
<1>12. o \in 0..Len(ls) /\ c \in (o + 1)..(Len(ls) + 1)
  BY <1>0, <1>4
<1>13. SplicedWith(w, ls, o, c, mid)
  BY <1>8, <1>10, <1>12, SplicedFile
<1>14. PICK d : d = Len(mid)
  OBVIOUS
<1>15. Splice(w, ls, o, c, d) /\ \A k \in 1..d : w[o + k] = mid[k]
  BY <1>13, <1>14, Zenon DEF SplicedWith
<1>16. \A n \in (o + 1)..(o + d) : w[n].k \in {"blank", "entry"}
  <2> TAKE n \in (o + 1)..(o + d)
  <2>1. PICK k : k = n - o
    OBVIOUS
  <2>2. k \in 1..d /\ o + k = n
    BY <1>4, <1>9, <1>14, <2>1
  <2> QED BY <1>8, <1>14, <1>15, <2>2
<1>17. NoFences(w, ls, o, c, d)
  BY <1>4, <1>16 DEF NoFences
<1>18. /\ \A n \in (o + 1)..(o + d) : w[n].k # "head"
       /\ \A n \in (o + 1)..(c - 1) : ls[n].k # "head" /\ ls[n].k \notin {"open", "close"}
  BY <1>4, <1>16
<1>19. t \in 1..Len(ls) /\ t \notin (o + 1)..(c - 1) /\ TitledAt(ls, t) /\ Headings(ls) = Scanned(ls)
       /\ \A n \in Headings(ls) : ls[n].txt \notin _TOC_HEADING_NAMES
  <2>1. t \in Headings(ls) /\ TitledAt(ls, t) /\ Headings(ls) = Scanned(ls)
        /\ \A n \in Headings(ls) : ls[n].txt \notin _TOC_HEADING_NAMES
    BY DEF Tidy, TitledAt
  <2>2. t \in 1..Len(ls)
    BY <2>1, HeadingsInFile
  <2> QED BY <1>4, <2>1, <2>2
<1>20. PICK t1 : t1 = MovedTo(o, c, d, t)
  OBVIOUS
<1>21. Tidy(w, t1)
  <2>1. Tidy(w, MovedTo(o, c, d, t))
    BY <1>15, <1>17, <1>18, <1>19, SplicedTidy
  <2> QED BY <1>20, <2>1, Zenon
<1>22. MovedTo(o, c, d, o) = o /\ MovedTo(o, c, d, c) = o + 3 + Len(toc)
  <2>1. ~(c <= o)
    BY <1>4
  <2>2. c + Shift(o, c, d) = o + 3 + Len(toc)
    BY <1>4, <1>8, <1>9, <1>14 DEF Shift
  <2> QED BY <1>4, <2>1, <2>2 DEF MovedTo
<1>23. PICK c1 : c1 = o + 3 + Len(toc)
  OBVIOUS
<1>24. Framed(w, t1, o, c1)
  <2>1. Framed(w, MovedTo(o, c, d, t), MovedTo(o, c, d, o), MovedTo(o, c, d, c))
    BY <1>15, <1>16, <1>17, <1>18, <1>19, SplicedFrame
  <2> QED BY <1>20, <1>22, <1>23, <2>1, Zenon
<1>25. OneList(w, Listed(w), ls, Listed(ls)) /\ Listed(w) # {}
  BY <1>15, <1>17, <1>18, SplicedList
<1>26. TocOf(w) = toc
  BY <1>2, <1>25, Zenon DEF OneList, TocOf
<1>27. Holds(w, o, c1, toc)
  <2>1. 1 \in 1..d /\ Len(toc) + 2 \in 1..d /\ o + (Len(toc) + 2) = o + 2 + Len(toc)
    BY <1>4, <1>8, <1>9, <1>14
  <2>2. w[o + 1] = Blank /\ w[o + 2 + Len(toc)] = Blank
    BY <1>8, <1>15, <2>1
  <2>3. ASSUME NEW k \in 1..Len(toc) PROVE w[o + 1 + k] = toc[k]
    <3>1. k + 1 \in 1..d /\ o + (k + 1) = o + 1 + k
      BY <1>4, <1>8, <1>9, <1>14
    <3> QED BY <1>8, <1>15, <3>1
  <2> QED BY <1>23, <2>2, <2>3 DEF Holds
<1>28. Settled(w)
  BY <1>21, <1>24, <1>25, <1>26, <1>27, Zenon DEF Settled
<1> QED BY <1>2, <1>11, <1>26, <1>28, Zenon

\* A file without markers gets them below its title, with the list.
LEMMA NewBlockSettles ==
  ASSUME NEW ls, File(ls), NEW t, Tidy(ls, t), Marks(ls) = {}, Listed(ls) # {}
  PROVE  Settled(insert_toc_markers(ls, 3)) /\ TocOf(insert_toc_markers(ls, 3)) = TocOf(ls)
<1>0. Len(ls) \in Nat /\ Headings(ls) \subseteq Outside(ls) /\ DOMAIN ls = 1..Len(ls)
  BY FileLength DEF Headings
<1>1. PICK hs : hs = Listed(ls)
  OBVIOUS
<1>2. PICK toc : toc = TocOf(ls)
  OBVIOUS
<1>3. /\ parse_headings(ls, 2, 3, FALSE, FALSE) = hs /\ hs # {}
      /\ Entries(toc) /\ toc = build_toc(ls, hs, FALSE, 2)
  BY <1>1, <1>2, SectionsListed, Zenon DEF TocOf
<1>4. /\ TitledAt(ls, t) /\ Headings(ls) = Scanned(ls) /\ t \in Headings(ls) /\ t \in 1..Len(ls) /\ t \in Outside(ls)
      /\ \A n \in Headings(ls) : ls[n].txt \notin _TOC_HEADING_NAMES
  <2>1. t \in Headings(ls) /\ TitledAt(ls, t) /\ Headings(ls) = Scanned(ls)
        /\ \A n \in Headings(ls) : ls[n].txt \notin _TOC_HEADING_NAMES
    BY DEF Tidy, TitledAt
  <2>2. t \in 1..Len(ls)
    BY <2>1, HeadingsInFile
  <2> QED BY <1>0, <2>1, <2>2
<1>5. MarkerBlock(ls) = <<>>
  BY NoPair
<1>6. PICK titles : titles = {n \in Headings(ls) : ls[n].lvl = 1}
  OBVIOUS
<1>7. titles = {t}
  BY <1>4, <1>6, TitleIsFirst
<1>8. Min(titles) = t
  <2>1. titles \subseteq Nat /\ titles # {}
    BY <1>4, <1>7
  <2>2. Min(titles) \in titles
    BY <2>1, MinIsLeast
  <2> QED BY <1>7, <2>2
<1>9. PICK b : b = t + 1
  OBVIOUS
<1>10. t \in 1..(Len(ls) + 1) /\ b \in 1..(Len(ls) + 1)
  BY <1>0, <1>4, <1>9
<1>11. PICK v \in 1..t, at \in b..(Len(ls) + 1) :
            Widened(ls, <<t, b>>) = <<v, at>> /\ \A k \in b..(at - 1) : ls[k] = Blank
  BY <1>10, WidenedBlank
<1>12. PICK p : p = at - 1
  OBVIOUS
<1>13. /\ p \in 0..Len(ls) /\ at \in (p + 1)..(Len(ls) + 1) /\ p \in Int /\ at \in Int /\ t <= p /\ p + 1 = at
       /\ (p + 1)..(at - 1) = {}
  BY <1>0, <1>9, <1>10, <1>11, <1>12
<1>14. \A n \in (t + 1)..p : ls[n].k # "fence"
  <2> TAKE n \in (t + 1)..p
  <2>1. ls[n] = Blank
    BY <1>9, <1>11, <1>12
  <2>2. Blank.k = "blank"
    BY DEF Blank, Line
  <2> QED BY <2>1, <2>2
<1>15. PICK mid : mid = <<Blank, TOC_MARKER_START, Blank>> \o toc \o <<Blank, TOC_MARKER_END, Blank>>
  OBVIOUS
<1>16. NewBlock(mid, toc)
  BY <1>3, <1>15, NewBlockOf, Zenon
<1>17. /\ File(mid) /\ Len(mid) = Len(toc) + 6
       /\ mid[2] = TOC_MARKER_START /\ mid[3] = Blank
       /\ \A k \in 1..Len(toc) : mid[k + 3] = toc[k]
       /\ mid[Len(toc) + 4] = Blank /\ mid[Len(toc) + 5] = TOC_MARKER_END
       /\ \A k \in 1..Len(mid) : k \notin {2, Len(toc) + 5} => mid[k].k \in {"blank", "entry"}
  BY <1>16 DEF NewBlock
<1>18. Len(toc) \in Nat /\ Len(mid) \in Nat /\ File(toc)
  BY <1>3, <1>17, FileLength DEF Entries
<1>19. PICK w : w = Upto(ls, p) \o mid \o From(ls, at)
  OBVIOUS
<1>20. insert_toc_markers(ls, 3) = w
  <2>1. PICK x : x = Upto(ls, p)
    OBVIOUS
  <2>2. PICK y : y = From(ls, at)
    OBVIOUS
  <2>3. PICK h : h = <<Blank, TOC_MARKER_START, Blank>>
    OBVIOUS
  <2>4. PICK e : e = <<Blank, TOC_MARKER_END, Blank>>
    OBVIOUS
  <2>5. File(x) /\ File(h) /\ File(e)
    BY <1>13, <2>1, <2>3, <2>4, EndsAreFiles, FewLines
  <2>6. Widened(ls, <<Min(titles), Min(titles) + 1>>)[2] = at /\ titles # {}
    BY <1>7, <1>8, <1>9, <1>11
  <2>7. insert_toc_markers(ls, 3) = x \o h \o toc \o e \o y
    BY <1>3, <1>5, <1>6, <1>12, <2>1, <2>2, <2>3, <2>4, <2>6 DEF insert_toc_markers
  <2>8. Regroups(x, h, toc, e)
    BY <1>18, <2>5, Regroup, Zenon
  <2> QED BY <1>15, <1>19, <2>1, <2>2, <2>3, <2>4, <2>7, <2>8, Zenon DEF Regroups
<1>21. SplicedWith(w, ls, p, at, mid)
  BY <1>13, <1>17, <1>19, SplicedFile
<1>22. PICK d : d = Len(mid)
  OBVIOUS
<1>23. Splice(w, ls, p, at, d) /\ \A k \in 1..d : w[p + k] = mid[k]
  BY <1>21, <1>22, Zenon DEF SplicedWith
<1>k. TOC_MARKER_START.k = "open" /\ TOC_MARKER_END.k = "close"
  BY DEF TOC_MARKER_START, TOC_MARKER_END, Line
<1>24. PICK o : o = p + 2
  OBVIOUS
<1>25. PICK c : c = p + 5 + Len(toc)
  OBVIOUS
<1>26. \A n \in (p + 1)..(p + d) : n \notin {o, c} => w[n].k \in {"blank", "entry"}
  <2> SUFFICES ASSUME NEW n \in (p + 1)..(p + d), n \notin {o, c} PROVE w[n].k \in {"blank", "entry"}
    OBVIOUS
  <2>1. PICK k : k = n - p
    OBVIOUS
  <2>2. k \in 1..d /\ p + k = n /\ k \notin {2, Len(toc) + 5}
    BY <1>13, <1>18, <1>22, <1>24, <1>25, <2>1
  <2> QED BY <1>17, <1>22, <1>23, <2>2
<1>27. /\ o \in (p + 1)..(p + d) /\ c \in (p + 1)..(p + d) /\ w[o] = TOC_MARKER_START /\ w[c] = TOC_MARKER_END /\ o < c
       /\ o \in Int /\ c \in Int
  <2>1. 2 \in 1..d /\ Len(toc) + 5 \in 1..d /\ p + (Len(toc) + 5) = c /\ p + 2 = o
    BY <1>13, <1>17, <1>18, <1>22, <1>24, <1>25
  <2>2. w[o] = TOC_MARKER_START /\ w[c] = TOC_MARKER_END
    BY <1>17, <1>23, <2>1
  <2> QED BY <1>13, <1>17, <1>18, <1>22, <1>24, <1>25, <2>2
<1>28. \A n \in (p + 1)..(p + d) : w[n].k \in {"blank", "entry", "open", "close"}
  BY <1>26, <1>27, <1>k
<1>29. NoFences(w, ls, p, at, d)
  BY <1>13, <1>28 DEF NoFences
<1>30. /\ \A n \in (p + 1)..(p + d) : w[n].k # "head"
       /\ \A n \in (p + 1)..(at - 1) : ls[n].k # "head"
       /\ t \notin (p + 1)..(at - 1)
  BY <1>13, <1>28
<1>31. MovedTo(p, at, d, t) = t
  BY <1>13 DEF MovedTo
<1>32. Tidy(w, t)
  <2>1. Tidy(w, MovedTo(p, at, d, t))
    BY <1>4, <1>23, <1>29, <1>30, SplicedTidy
  <2> QED BY <1>31, <2>1, Zenon
<1>33. File(w) /\ Len(w) = Len(ls) + Shift(p, at, d)
  BY <1>23 DEF Splice
<1>34. Len(w) \in Nat /\ DOMAIN w = 1..Len(w) /\ Len(w) = Len(ls) + d
  <2>1. Shift(p, at, d) = d
    BY <1>13, <1>18, <1>22 DEF Shift
  <2> QED BY <1>33, <2>1, FileLength
<1>35. o \in 1..Len(w) /\ c \in 1..Len(w)
  BY <1>0, <1>13, <1>18, <1>22, <1>27, <1>34
<1>36. Marks(w) = {o, c}
  <2>1. o \in Marks(w) /\ c \in Marks(w)
    BY <1>27, <1>34, <1>35, <1>k DEF Marks
  <2>2. ASSUME NEW x \in Marks(w) PROVE x \in {o, c}
    <3>1. x \in 1..Len(w) /\ w[x].k \in {"open", "close"}
      BY <1>34 DEF Marks
    <3>2. CASE x \in (p + 1)..(p + d)
      BY <1>26, <3>1, <3>2
    <3>3. CASE x \notin (p + 1)..(p + d)
      <4>1. PICK m \in 1..Len(ls) : m \notin (p + 1)..(at - 1) /\ x = MovedTo(p, at, d, m)
        BY <1>23, <3>1, <3>3, SplicedFrom
      <4>2. ReadAlike(w, MovedTo(p, at, d, m), (p + 1)..(p + d), ls, m)
        BY <1>23, <1>29, <4>1, SplicedHeadings, Zenon
      <4>3. w[x] = ls[m]
        BY <4>1, <4>2, Zenon DEF ReadAlike
      <4>4. m \in Marks(ls)
        BY <1>0, <3>1, <4>3 DEF Marks
      <4> QED BY <4>4
    <3> QED BY <3>2, <3>3
  <2> QED BY <2>1, <2>2
<1>37. o \in Outside(w) /\ c \in Outside(w)
  <2>1. OutsideAlike(w, ls, p, at, d)
    BY <1>23, <1>29, SplicedOutside
  <2>2. \A n \in (p + 1)..(p + d) : n \in Outside(w)
    BY <1>4, <1>13, <1>14, <2>1 DEF OutsideAlike
  <2> QED BY <1>27, <2>2
<1>38. \A n \in (o + 1)..(c - 1) : w[n].k \in {"blank", "entry"}
  <2> TAKE n \in (o + 1)..(c - 1)
  <2>0. d = Len(toc) + 6
    BY <1>17, <1>22
  <2>1. n \in (p + 1)..(p + d) /\ n \notin {o, c}
    <3>1. PICK l \in Nat : l = Len(toc)
      BY <1>18
    <3>2. p \in Int /\ o = p + 2 /\ c = p + 5 + l /\ d = l + 6
      BY <1>13, <1>24, <1>25, <2>0, <3>1
    <3>3. n \in Int /\ p + 3 <= n /\ n <= p + 4 + l
      BY <3>2
    <3> QED BY <3>2, <3>3
  <2> QED BY <1>26, <2>1
<1>39. Framed(w, t, o, c)
  <2>1. t < o
    BY <1>13, <1>4, <1>24
  <2> QED BY <1>27, <1>35, <1>36, <1>37, <1>38, <2>1 DEF Framed, PairAt
<1>40. OneList(w, Listed(w), ls, Listed(ls)) /\ Listed(w) # {}
  BY <1>23, <1>29, <1>30, SplicedList
<1>41. TocOf(w) = toc
  BY <1>2, <1>40, Zenon DEF OneList, TocOf
<1>42. Holds(w, o, c, toc)
  <2>1. /\ 3 \in 1..d /\ Len(toc) + 4 \in 1..d
        /\ p + 3 = o + 1 /\ p + (Len(toc) + 4) = o + 2 + Len(toc) /\ c = o + 3 + Len(toc)
    BY <1>13, <1>17, <1>18, <1>22, <1>24, <1>25
  <2>2. w[o + 1] = Blank /\ w[o + 2 + Len(toc)] = Blank
    <3>1. w[p + 3] = mid[3] /\ w[p + (Len(toc) + 4)] = mid[Len(toc) + 4]
      BY <1>23, <2>1
    <3> QED BY <1>17, <2>1, <3>1
  <2>3. ASSUME NEW k \in 1..Len(toc) PROVE w[o + 1 + k] = toc[k]
    <3>1. k + 3 \in 1..d /\ p + (k + 3) = o + 1 + k
      BY <1>13, <1>17, <1>18, <1>22, <1>24
    <3>2. w[p + (k + 3)] = mid[k + 3]
      BY <1>23, <3>1
    <3> QED BY <1>17, <3>1, <3>2
  <2> QED BY <2>1, <2>2, <2>3 DEF Holds
<1>43. Settled(w)
  BY <1>32, <1>39, <1>40, <1>41, <1>42, Zenon DEF Settled
<1> QED BY <1>2, <1>20, <1>41, <1>43, Zenon

\* Every line of a set has its place in the order.
LEMMA EveryLineOrdered ==
  ASSUME NEW n \in Nat, NEW S, S \subseteq 1..n, NEW h \in S
  PROVE  \E k \in 1..Cardinality(S) : InOrder(S)[k] = h
<1>1. PICK below : below = {m \in S : m <= h}
  OBVIOUS
<1>2. IsFiniteSet(S) /\ Cardinality(S) \in Nat
  BY LinesFinite
<1>3. below \subseteq S /\ h \in below
  BY <1>1
<1>4. IsFiniteSet(below) /\ Cardinality(below) \in Nat /\ Cardinality(below) <= Cardinality(S)
  <2>1. below \subseteq 1..n
    BY <1>3
  <2>2. IsFiniteSet(below) /\ Cardinality(below) \in Nat
    BY <2>1, LinesFinite
  <2>3. Cardinality(below) <= Cardinality(S)
    BY <1>2, <1>3, FS_Subset
  <2> QED BY <2>2, <2>3
<1>5. Cardinality(below) # 0
  BY <1>3, <1>4, FS_EmptySet
<1>6. PICK k : k = Cardinality(below)
  OBVIOUS
<1>7. k \in 1..Cardinality(S)
  BY <1>2, <1>4, <1>5, <1>6
<1>8. PICK i : i = InOrder(S)[k]
  OBVIOUS
<1>9. i \in S /\ Cardinality({m \in S : m <= i}) = k
  BY <1>7, <1>8, OrderedLines
<1>10. i = h
  <2>1. \A a, b \in S : Cardinality({m \in S : m <= a}) = Cardinality({m \in S : m <= b}) => a = b
    BY CountTellsApart
  <2>2. Cardinality({m \in S : m <= h}) = k
    BY <1>1, <1>6, Zenon
  <2> QED BY <1>9, <2>1, <2>2, Zenon
<1> QED BY <1>7, <1>8, <1>10

\* The entries of a file's list and the anchors its sections should have.
ListedAnchors(w, s) == {Link(w[n]) : n \in _extract_toc_entries(w, s)}
\* Every entry of a list can be read back.
AllRead(toc) == \A k \in 1..Len(toc) : _TOC_LINK_RE(toc[k])

\* A list as it is built has the anchors that are expected (toc.py:560-592).
LEMMA ListHasAnchors ==
  ASSUME NEW w, File(w), NEW o \in 1..Len(w), NEW c \in 1..Len(w), PairAt(w, o, c), NEW hs, hs \subseteq 1..Len(w),
         NEW toc, ListOf(toc, w, hs), AllRead(toc), Holds(w, o, c, toc)
  PROVE  ListedAnchors(w, <<o, c + 1>>) = _build_expected_anchors(w, hs)
<1>0. Len(w) \in Nat
  BY FileLength
<1>1. /\ Len(toc) = Cardinality(hs) /\ Len(toc) \in Nat
      /\ \A k \in 1..Len(toc) : /\ toc[k].k = "entry" /\ SameSlug(toc[k], w[InOrder(hs)[k]])
                                /\ toc[k].n = _unique_slug(w, hs, InOrder(hs)[k])
  BY DEF ListOf
<1>2. /\ c = o + 3 + Len(toc) /\ w[o + 1] = Blank /\ w[o + 2 + Len(toc)] = Blank
      /\ \A k \in 1..Len(toc) : w[o + 1 + k] = toc[k]
  BY DEF Holds
<1>3. w[o].k = "open" /\ w[c].k = "close" /\ Blank.k = "blank"
  <2>1. TOC_MARKER_START.k = "open" /\ TOC_MARKER_END.k = "close" /\ Blank.k = "blank"
    BY DEF TOC_MARKER_START, TOC_MARKER_END, Blank, Line
  <2> QED BY <2>1 DEF PairAt
<1>4. PICK es : es = _extract_toc_entries(w, <<o, c + 1>>)
  OBVIOUS
<1>5. es = {n \in o..c : w[n].k = "entry" /\ _TOC_LINK_RE(w[n])}
  <2>1. <<o, c + 1>>[1] = o /\ <<o, c + 1>>[2] - 1 = c
    OBVIOUS
  <2> QED BY <1>4, <2>1, Zenon DEF _extract_toc_entries
<1>6. ASSUME NEW n \in es PROVE \E k \in 1..Len(toc) : n = o + 1 + k
  <2>1. n \in o..c /\ w[n].k = "entry"
    BY <1>5
  <2>2. n # o /\ n # c /\ n # o + 1 /\ n # o + 2 + Len(toc)
    BY <1>2, <1>3, <2>1
  <2>3. PICK k : k = n - (o + 1)
    OBVIOUS
  <2>4. PICK l \in Nat : l = Len(toc)
    BY <1>1
  <2>5. n \in Int /\ o <= n /\ n <= o + 3 + l /\ n # o /\ n # o + 3 + l /\ n # o + 1 /\ n # o + 2 + l
    BY <1>2, <2>1, <2>2, <2>4
  <2>6. k \in 1..l /\ n = o + 1 + k
    BY <2>3, <2>5
  <2> QED BY <2>4, <2>6
<1>7. ASSUME NEW k \in 1..Len(toc) PROVE o + 1 + k \in es
  <2>1. w[o + 1 + k].k = "entry" /\ _TOC_LINK_RE(w[o + 1 + k])
    <3>1. w[o + 1 + k] = toc[k] /\ toc[k].k = "entry"
      BY <1>1, <1>2
    <3>2. _TOC_LINK_RE(toc[k])
      BY DEF AllRead
    <3> QED BY <3>1, <3>2
  <2>2. o + 1 + k \in o..c
    BY <1>1, <1>2
  <2> QED BY <1>5, <2>1, <2>2
<1>8. ASSUME NEW k \in 1..Len(toc)
      PROVE  /\ InOrder(hs)[k] \in hs
             /\ Link(w[o + 1 + k]) = Anchor(w, hs, InOrder(hs)[k])
  <2>1. InOrder(hs)[k] \in hs
    <3>1. PICK n : n = Len(w)
      OBVIOUS
    <3>2. n \in Nat /\ hs \subseteq 1..n /\ k \in 1..Cardinality(hs)
      BY <1>0, <1>1, <3>1
    <3> QED BY <3>2, OrderedLines
  <2>2. PICK h : h = InOrder(hs)[k]
    OBVIOUS
  <2>3. w[o + 1 + k] = toc[k] /\ SameSlug(toc[k], w[h]) /\ toc[k].n = _unique_slug(w, hs, h)
    BY <1>1, <1>2, <2>2
  <2>4. w[o + 1 + k].num = w[h].num /\ w[o + 1 + k].txt = w[h].txt /\ w[o + 1 + k].n = _unique_slug(w, hs, h)
    BY <2>3, Zenon DEF SameSlug
  <2>5. Link(w[o + 1 + k]) = Anchor(w, hs, h)
    BY <2>4, Zenon DEF Anchor, Link
  <2> QED BY <2>1, <2>2, <2>5, Zenon
<1>9. ASSUME NEW n \in es PROVE Link(w[n]) \in _build_expected_anchors(w, hs)
  <2>1. PICK k \in 1..Len(toc) : n = o + 1 + k
    BY <1>6
  <2> QED BY <1>8, <2>1 DEF _build_expected_anchors
<1>10. ASSUME NEW h \in hs PROVE \E n \in es : Anchor(w, hs, h) = Link(w[n])
  <2>1. PICK n : n = Len(w)
    OBVIOUS
  <2>2. n \in Nat /\ hs \subseteq 1..n
    BY <1>0, <2>1
  <2>3. PICK k \in 1..Cardinality(hs) : InOrder(hs)[k] = h
    BY <2>2, EveryLineOrdered
  <2>4. k \in 1..Len(toc)
    BY <1>1, <2>3
  <2>5. Link(w[o + 1 + k]) = Anchor(w, hs, h)
    BY <1>8, <2>3, <2>4, Zenon
  <2>6. o + 1 + k \in es
    BY <1>7, <2>4
  <2> QED BY <2>5, <2>6
<1>11. ListedAnchors(w, <<o, c + 1>>) = {Link(w[n]) : n \in es}
  BY <1>4, Zenon DEF ListedAnchors
<1>12. _build_expected_anchors(w, hs) = {Anchor(w, hs, h) : h \in hs}
  BY DEF _build_expected_anchors
<1>13. \A x \in {Link(w[n]) : n \in es} : x \in _build_expected_anchors(w, hs)
  BY <1>9, Zenon
<1>14. \A x \in {Anchor(w, hs, h) : h \in hs} : x \in {Link(w[n]) : n \in es}
  BY <1>10, Zenon
<1> QED BY <1>11, <1>12, <1>13, <1>14, Zenon

\* A settled file is orderly, `cypilot toc` leaves it alone, and it has no TOC issue.
LEMMA SettledIsClean ==
  ASSUME NEW w, File(w), Settled(w), AllRead(TocOf(w))
  PROVE  Orderly(w) /\ validate_toc(w, 3) = {} /\ process_file(w, 3) = <<w, "UNCHANGED">>
<1>0. Len(w) \in Nat
  BY FileLength
<1>1. PICK t, o, c : Tidy(w, t) /\ Framed(w, t, o, c) /\ Listed(w) # {} /\ Holds(w, o, c, TocOf(w))
  BY DEF Settled
<1>2. Orderly(w) /\ HeadingSection(w) = <<>>
  BY <1>1, TidyIsOrderly
<1>3. PICK hs : hs = Listed(w)
  OBVIOUS
<1>4. PICK toc : toc = TocOf(w)
  OBVIOUS
<1>5. /\ parse_headings(w, 2, 3, FALSE, FALSE) = hs /\ hs # {} /\ hs \subseteq 1..Len(w)
      /\ Entries(toc) /\ ListOf(toc, w, hs) /\ toc = build_toc(w, hs, FALSE, 2)
  BY <1>1, <1>3, <1>4, SectionsListed, Zenon DEF TocOf
<1>6. parse_headings(w, 1, 3, TRUE, TRUE) = hs
  <2>1. PICK S : w \in Seq(S)
    BY DEF File
  <2>2. hs = {n \in Headings(w) : w[n].lvl \in 2..3}
    BY <1>3 DEF Listed
  <2> QED BY <1>2, <2>1, <2>2, ListedSections
<1>7. PairAt(w, o, c) /\ o \in 1..Len(w) /\ c \in 1..Len(w) /\ Holds(w, o, c, toc)
  BY <1>1, <1>4 DEF Framed, PairAt
<1>8. MarkerBlock(w) = <<o, c>>
  BY <1>7, OnePair
<1>9. MarkerBlock(w)[1] = o /\ MarkerBlock(w)[2] = c /\ MarkerBlock(w) # <<>>
  BY <1>8
<1>10. insert_toc_markers(w, 3) = w
  <2>1. PICK x : x = Upto(w, o)
    OBVIOUS
  <2>2. PICK y : y = From(w, c)
    OBVIOUS
  <2>3. PICK b : b = <<Blank>>
    OBVIOUS
  <2>4. File(x) /\ File(b) /\ File(toc)
    <3>1. o \in Int
      BY <1>7
    <3> QED BY <1>5, <2>1, <2>3, <3>1, EndsAreFiles, FewLines DEF Entries
  <2>5. insert_toc_markers(w, 3) = Upto(w, MarkerBlock(w)[1]) \o <<Blank>> \o toc \o <<Blank>> \o From(w, MarkerBlock(w)[2])
    BY <1>5, <1>9 DEF insert_toc_markers
  <2>6. insert_toc_markers(w, 3) = x \o b \o toc \o b \o y
    BY <1>9, <2>1, <2>2, <2>3, <2>5, Zenon
  <2>7. Regroups(x, b, toc, b)
    BY <2>4, Regroup, Zenon
  <2>8. Upto(w, o) \o (<<Blank>> \o toc \o <<Blank>>) \o From(w, c) = w
    BY <1>5, <1>7, Refilled, Zenon
  <2> QED BY <2>1, <2>2, <2>3, <2>6, <2>7, <2>8, Zenon DEF Regroups
<1>11. _find_toc_section(w) = <<o, c + 1>>
  BY <1>2, <1>9, Zenon DEF _find_toc_section
<1>12. ListedAnchors(w, <<o, c + 1>>) = _build_expected_anchors(w, hs)
  BY <1>4, <1>5, <1>7, ListHasAnchors, Zenon
<1>13. validate_toc(w, 3) = {}
  <2>1. PICK s : s = _find_toc_section(w)
    OBVIOUS
  <2>2. s # <<>> /\ s = <<o, c + 1>>
    BY <1>11, <2>1
  <2>3. PICK expected : expected = _build_expected_anchors(w, hs)
    OBVIOUS
  <2>4. PICK listed : listed = {Link(w[n]) : n \in _extract_toc_entries(w, s)}
    OBVIOUS
  <2>5. listed = expected
    BY <1>12, <2>2, <2>3, <2>4, Zenon DEF ListedAnchors
  <2>6. PICK errs : errs = (IF listed \subseteq expected THEN {} ELSE {"TOC_ANCHOR_BROKEN"})
                           \cup (IF expected \subseteq listed THEN {} ELSE {"TOC_HEADING_NOT_IN_TOC"})
    OBVIOUS
  <2>7. errs = {}
    BY <2>5, <2>6
  <2>8. PICK fresh : fresh = IF HeadingSection(w) # <<>> THEN insert_toc_heading(w, 3) ELSE insert_toc_markers(w, 3)
    OBVIOUS
  <2>9. fresh = w
    BY <1>2, <1>10, <2>8, Zenon
  <2>10. validate_toc(w, 3) = CASE hs = {} -> {}
                                [] hs # {} /\ s = <<>> -> {"TOC_MISSING"}
                                [] OTHER -> IF errs # {} \/ fresh = w THEN errs ELSE {"TOC_STALE"}
    BY <1>6, <2>1, <2>3, <2>4, <2>6, <2>8, Zenon DEF validate_toc
  <2> QED BY <1>5, <2>2, <2>7, <2>9, <2>10
<1>14. process_file(w, 3) = <<w, "UNCHANGED">>
  <2>1. _strip_manual_toc(w) = w
    BY <1>2 DEF _strip_manual_toc
  <2>2. process_file(w, 3) = CASE hs = {} -> <<w, "SKIP">>
                               [] hs # {} /\ w = w -> <<w, "UNCHANGED">>
                               [] OTHER -> <<w, "UPDATED">>
    BY <1>5, <1>10, <2>1, Zenon DEF process_file
  <2> QED BY <1>5, <2>2
<1> QED BY <1>2, <1>13, <1>14

\* The list of a file whose sections are sections of a readable one can be read back
\* (toc.py:526).
LEMMA ReadableList ==
  ASSUME NEW ls, NEW w, File(w), SectionsOf(w, ls), Readable(ls)
  PROVE  AllRead(TocOf(w))
<1>1. PICK toc : toc = TocOf(w)
  OBVIOUS
<1>2. PICK hs : hs = Listed(w)
  OBVIOUS
<1>3. ListOf(toc, w, hs) /\ hs \subseteq 1..Len(w)
  BY <1>1, <1>2, SectionsListed, Zenon
<1>4. /\ Len(toc) = Cardinality(hs)
      /\ \A k \in 1..Len(toc) : SameSlug(toc[k], w[InOrder(hs)[k]])
  BY <1>3 DEF ListOf
<1>5. ASSUME NEW k \in 1..Len(toc) PROVE _TOC_LINK_RE(toc[k])
  <2>1. PICK h : h = InOrder(hs)[k]
    OBVIOUS
  <2>2. h \in hs
    <3>1. PICK n : n = Len(w)
      OBVIOUS
    <3>2. n \in Nat /\ hs \subseteq 1..n /\ k \in 1..Cardinality(hs)
      BY <1>3, <1>4, <3>1, FileLength
    <3> QED BY <2>1, <3>2, OrderedLines
  <2>3. PICK m \in Listed(ls) : w[h] = ls[m]
    BY <1>2, <2>2 DEF SectionsOf
  <2>4. ls[m].txt \notin Bracketed /\ ~(ls[m].num = <<>> /\ ls[m].txt = "")
    BY DEF Readable, Listed
  <2>5. toc[k].num = ls[m].num /\ toc[k].txt = ls[m].txt
    <3>1. SameSlug(toc[k], w[h])
      BY <1>4, <2>1
    <3> QED BY <2>3, <3>1 DEF SameSlug
  <2> QED BY <2>4, <2>5, Zenon DEF _TOC_LINK_RE
<1> QED BY <1>1, <1>5, Zenon DEF AllRead

\* After `cypilot toc` an orderly file is settled or has no sections.
LEMMA TocStepSettles ==
  ASSUME File(doc), Orderly(doc), Readable(doc), cmd_toc
  PROVE  Orderly(doc') /\ report'.codes = {} /\ process_file(doc', 3)[2] # "UPDATED"
<1>1. PICK content : content = _strip_manual_toc(doc)
  OBVIOUS
<1>2. File(content) /\ Ready(content) /\ SectionsOf(content, doc)
  BY <1>1, StrippedIsFile, StrippedIsReady, Zenon
<1>3. PICK new : new = insert_toc_markers(content, 3)
  OBVIOUS
<1>4. PICK hs : hs = Listed(content)
  OBVIOUS
<1>5. parse_headings(content, 2, 3, FALSE, FALSE) = hs
  BY <1>2, <1>4, SectionsListed, Zenon
<1>6. PICK r : r = process_file(doc, 3)
  OBVIOUS
<1>7. r = CASE hs = {} -> <<doc, "SKIP">> [] hs # {} /\ new = doc -> <<doc, "UNCHANGED">> [] OTHER -> <<new, "UPDATED">>
  BY <1>1, <1>3, <1>5, <1>6, Zenon DEF process_file
<1>8. doc' = r[1] /\ report' = Report("toc", IF r[2] = "SKIP" THEN {} ELSE validate_toc(r[1], 3), TocErrors)
  BY <1>6 DEF cmd_toc
<1>9. CASE hs = {}
  <2>1. r = <<doc, "SKIP">>
    BY <1>7, <1>9
  <2>2. r[1] = doc /\ r[2] = "SKIP"
    BY <2>1
  <2>3. doc' = doc /\ report' = Report("toc", {}, TocErrors)
    BY <1>8, <2>2, Zenon
  <2>4. report'.codes = {}
    BY <2>3 DEF Report
  <2>5. process_file(doc, 3)[2] # "UPDATED"
    BY <1>6, <2>2
  <2> QED BY <2>3, <2>4, <2>5, Zenon
<1>10. CASE hs # {}
  <2>1. Settled(new) /\ TocOf(new) = TocOf(content)
    <3>1. PICK t : Tidy(content, t) /\ (Marks(content) = {} \/ \E o, c : Framed(content, t, o, c))
      BY <1>2 DEF Ready
    <3>2. CASE Marks(content) = {}
      BY <1>2, <1>3, <1>4, <1>10, <3>1, <3>2, NewBlockSettles, Zenon
    <3>3. CASE \E o, c : Framed(content, t, o, c)
      BY <1>2, <1>3, <1>4, <1>10, <3>1, <3>3, BlockSettles, Zenon
    <3> QED BY <3>1, <3>2, <3>3
  <2>2. File(new)
    BY <1>2, <1>3, MarkedIsFile, Zenon
  <2>a. AllRead(TocOf(new))
    BY <1>2, <2>1, ReadableList, Zenon
  <2>3. Orderly(new) /\ validate_toc(new, 3) = {} /\ process_file(new, 3) = <<new, "UNCHANGED">>
    BY <2>1, <2>2, <2>a, SettledIsClean, Zenon
  <2>4. r = <<new, "UNCHANGED">> \/ r = <<new, "UPDATED">>
    BY <1>7, <1>10
  <2>5. r[1] = new /\ r[2] # "SKIP"
    BY <2>4
  <2>6. doc' = new /\ report' = Report("toc", validate_toc(new, 3), TocErrors)
    BY <1>8, <2>5, Zenon
  <2>7. report'.codes = {}
    BY <2>3, <2>6, Zenon DEF Report
  <2>8. process_file(new, 3)[2] # "UPDATED"
    BY <2>3
  <2> QED BY <2>3, <2>6, <2>7, <2>8, Zenon
<1> QED BY <1>9, <1>10

\* Only `cypilot toc` makes such a report.
LEMMA StepSettles ==
  ASSUME FileOfLines, [Next]_vars, report.by # "toc", report'.by = "toc", Orderly(doc), Readable(doc)
  PROVE  Orderly(doc') /\ report'.codes = {} /\ process_file(doc', 3)[2] # "UPDATED"
<1>1. File(doc)
  BY DEF File, FileOfLines
<1>2. CASE cmd_toc
  BY <1>1, <1>2, TocStepSettles
<1>3. validate_headings_contract \/ MatchConstraint \/ UNCHANGED vars => report' = report
  BY DEF validate_headings_contract, MatchConstraint, vars
<1>4. validate_artifact_file => report'.by = "validate"
  BY DEF validate_artifact_file, Report
<1>5. cmd_validate_toc => report'.by = "validate-toc"
  BY DEF cmd_validate_toc, Report
<1>6. \A form : RegenerateToc(form) => report'.by = "kit update"
  BY DEF RegenerateToc, NoReport
<1>7. FollowPrompt \/ Edit => report'.by = "none"
  BY DEF FollowPrompt, Edit, NoReport
<1>8. cmd_toc
  BY <1>3, <1>4, <1>5, <1>6, <1>7 DEF Next
<1> QED BY <1>2, <1>8

\* After `cypilot toc` an orderly file with readable titles is valid, orderly still, and a
\* second run writes nothing: the list is built from the headings the check expects, wherever the command put
\* it and whatever list it replaced (toc.py:251-308, :520-592, :596-724).
THEOREM TocSettlesAtOnce == Spec => TocSettles
<1>1. Init => FileOfLines
  BY InitFile
<1>2. MatchInv /\ FileOfLines /\ [Next]_vars => FileOfLines'
  <2>1. MatchInv => DOMAIN heads \subseteq Nat \ {0}
    BY DEF MatchInv, MatchTypes
  <2> QED BY <2>1, NextKeepsFile
<1>3. FileOfLines /\ [Next]_vars
        => [report.by # "toc" /\ report'.by = "toc" /\ Orderly(doc) /\ Readable(doc) =>
               Orderly(doc') /\ report'.codes = {} /\ process_file(doc', 3)[2] # "UPDATED"]_vars
  BY StepSettles, Zenon
<1> QED BY <1>1, <1>2, <1>3, MatchInvariant, PTL DEF Spec, TocSettles
=============================================================================
