-------------------------- MODULE TransferLifecycle --------------------------
(***************************************************************************)
(* What the transfer engine promises about the state of each transfer:     *)
(* it is submitted once, as pending, and then only makes the moves of      *)
(* validTransferTransitions, so a terminal state is final.                 *)
(***************************************************************************)
EXTENDS TransferDomain

CONSTANT Transfers

VARIABLE state

TypeOK == state \in [Transfers -> TransferStates \cup {"absent"}]

Init == state = [t \in Transfers |-> "absent"]

Submit(t) ==
  /\ state[t] = "absent"
  /\ state' = [state EXCEPT ![t] = "pending"]

Move(t) ==
  \E s \in validTransferTransitions(state[t]) : state' = [state EXCEPT ![t] = s]

Next == \E t \in Transfers : Submit(t) \/ Move(t)

Spec == Init /\ [][Next]_state
=============================================================================
