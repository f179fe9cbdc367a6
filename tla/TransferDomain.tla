--------------------------- MODULE TransferDomain ---------------------------
(***************************************************************************)
(* The vocabulary of a transfer: its states, the table of transitions a    *)
(* loaded transfer may take, and the two decisions of the transfer engine  *)
(* that are pure functions of their inputs (strategy and retry).           *)
(* Source: katapult/internal/domain/transfer.go and                        *)
(* katapult/internal/transfer/{validation,strategy,retry}.go.              *)
(***************************************************************************)
EXTENDS Integers

TransferStates ==
  {"pending", "validating", "transferring", "completed", "failed", "cancelled"}

TerminalStates == {"completed", "failed", "cancelled"}

\* Transfer.IsTerminal
IsTerminal(s) == s \in TerminalStates

\* The states a transfer may move to from state s; none from a terminal state.
validTransferTransitions(s) ==
  CASE s = "pending"      -> {"validating", "cancelled"}
    [] s = "validating"   -> {"transferring", "failed", "cancelled"}
    [] s = "transferring" -> {"completed", "failed", "cancelled"}
    [] OTHER              -> {}

\* Transfer.TransitionTo succeeds exactly when the table allows the move.
CanTransition(from, to) == to \in validTransferTransitions(from)

-----------------------------------------------------------------------------
TransferStrategies == {"stream", "s3", "direct"}

NoStrategy == "none"          \* the column is NULL until the strategy is chosen
NoOverride == "unset"         \* the request carries no strategy override

\* SelectStrategy: the override if it names a strategy (an error otherwise),
\* else by topology. "error" stands for the returned error.
SelectStrategy(srcCluster, dstCluster, override, s3Configured) ==
  CASE override # NoOverride /\ override \in TransferStrategies    -> override
    [] override # NoOverride /\ override \notin TransferStrategies -> "error"
    [] override = NoOverride /\ srcCluster = dstCluster            -> "stream"
    [] OTHER -> IF s3Configured THEN "s3" ELSE "direct"

-----------------------------------------------------------------------------
(***************************************************************************)
(* What the lookups of ValidateTransferRequest may answer: each of the two *)
(* FindHealthyPVC calls and IsPVCEmpty answers yes, no or an error.        *)
(***************************************************************************)
Answers == {"yes", "no", "error"}

Lookups == [srcFound : Answers, dstFound : Answers, dstEmpty : Answers]

\* ValidateTransferRequest returns nil: two distinct PVCs, both on healthy
\* agents, the destination empty or the caller willing to overwrite it.
ValidRequest(req, look) ==
  /\ ~(req.srcCluster = req.dstCluster /\ req.srcPVC = req.dstPVC)
  /\ look.srcFound = "yes"
  /\ look.dstFound = "yes"
  /\ look.dstEmpty # "error"
  /\ look.dstEmpty = "yes" \/ req.allowOverwrite

\* Seeded faults: the comparison is off by one, either way.
RetryActionEarly(retryCount, retryMax) ==
  IF retryCount + 1 >= retryMax THEN "exhausted" ELSE "retry"
RetryActionLate(retryCount, retryMax) ==
  IF retryCount > retryMax THEN "exhausted" ELSE "retry"

\* The Action field of ApplyRetryBackoff's decision.
RetryAction(retryCount, retryMax) ==
  IF retryCount >= retryMax THEN "exhausted" ELSE "retry"
=============================================================================
