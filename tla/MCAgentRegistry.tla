---------------------------- MODULE MCAgentRegistry ----------------------------
(***************************************************************************)
(* Small instances of the agent registry for TLC.                          *)
(***************************************************************************)
EXTENDS AgentRegistry, TLC

CONSTANTS p1, p2

\* What discovery may report: nothing (it failed), or one of two inventories.
OneInventory == {{}, {p1}}
TwoInventories == {{}, {p1}, {p2}}

\* Ids and handlers are only compared with each other.
Symmetry == Permutations(AgentIDs) \cup Permutations(Handlers)
=============================================================================
