----------------------------- MODULE Orchestrator -----------------------------
(***************************************************************************)
(* The transfer engine: CreateTransfer, CancelTransfer and HandleProgress  *)
(* of katapult/internal/transfer/orchestrator.go over the PostgreSQL       *)
(* repository of katapult/internal/store/postgres/transfer.go.             *)
(*                                                                         *)
(* Every request runs in a goroutine of its own (a handler).  The engine   *)
(* holds no lock and opens no transaction: each repository call is one     *)
(* autocommitted statement, so the steps of handlers interleave between    *)
(* any two calls, and a handler decides on the copy of the row it loaded   *)
(* (CancelTransfer, HandleProgress) or built (CreateTransfer) earlier.     *)
(* One action models one call and the local computation that follows it;   *)
(* a call whose effect nothing in the model reads (the INSERT of a          *)
(* "created", "validated", "started", "progress" or "retried" event, the    *)
(* hub's Publish) is part of the action of the call before it.              *)
(***************************************************************************)
EXTENDS TransferDomain, FiniteSets

CONSTANTS
  Transfers,        \* the transfer ids uuid.New may hand out
  NoTransfer,       \* the id of an idle handler
  Handlers,         \* request goroutines that may be in flight together
  Requests,         \* the CreateTransferRequests clients may submit
  S3Configured,     \* S3Config.Configured
  DefaultRetryMax,  \* TransferConfig.RetryMaxAttempts
  DBFaults,         \* how a repository call may fail: a subset of Faults
  CallFaults,       \* how a call to an agent may fail: a subset of Faults
  CrashAllowed      \* whether the control plane process may crash

(***************************************************************************)
(* A failed call returns an error.  "lost": it had no effect.  "unacked":  *)
(* it took effect and only the answer was lost (a context cancelled or a   *)
(* connection dropped after the commit).                                   *)
(***************************************************************************)
Faults == {"lost", "unacked"}

NoRetryMax == -1     \* CreateTransferRequest.RetryMax is nil

Sides == {"source", "dest"}
Statuses == {"in_progress", "completed", "failed"}

\* What the engine relies on in a request: the type of its fields.
RequestType(r) ==
  /\ r.allowOverwrite \in BOOLEAN
  /\ r.override \in STRING
  /\ r.retryMax = NoRetryMax \/ r.retryMax \in Nat

ASSUME TransfersAssumption == NoTransfer \notin Transfers
ASSUME HandlersAssumption == IsFiniteSet(Handlers) /\ Handlers # {}
ASSUME RequestsAssumption == \A r \in Requests : RequestType(r)
ASSUME RetryAssumption == DefaultRetryMax \in Nat
ASSUME FaultsAssumption ==
  /\ DBFaults \subseteq Faults
  /\ CallFaults \subseteq Faults
  /\ CrashAllowed \in BOOLEAN
  /\ S3Configured \in BOOLEAN

VARIABLES
  row,       \* the transfers table
  events,    \* the transfer_events table: the outcomes it tells of
  agents,    \* what each side's agent does for a transfer
  cleaned,   \* the cleanup requests issued for a transfer
  closed,    \* whether ProgressHub.CloseTransfer was called for a transfer
  pc,        \* the call a handler makes next
  tid,       \* the transfer a handler works on
  copy,      \* the handler's in-memory transfer, as it was loaded
  req,       \* the request CreateTransfer serves
  report     \* the status HandleProgress was given

effects == <<agents, cleaned, closed>>
local == <<tid, copy, req, report>>
vars == <<row, events, agents, cleaned, closed, pc, tid, copy, req, report>>

-----------------------------------------------------------------------------
(* The state.                                                              *)

\* error_message, reduced to the call that wrote it.
Errors == {"none", "validation", "strategy", "command", "agent"}

Rows == [state      : TransferStates \cup {"absent"},
         strategy   : TransferStrategies \cup {NoStrategy},
         started    : BOOLEAN,
         completed  : BOOLEAN,
         error      : Errors,
         retryCount : Nat,
         retryMax   : Nat]

AbsentRow == [state |-> "absent", strategy |-> NoStrategy, started |-> FALSE,
              completed |-> FALSE, error |-> "none", retryCount |-> 0,
              retryMax |-> 0]

\* The fields of a loaded domain.Transfer that a handler goes on to use.
Loaded(r) == [state |-> r.state, strategy |-> r.strategy,
              retryCount |-> r.retryCount, retryMax |-> r.retryMax]

NoCopy == Loaded(AbsentRow)

Copies == [state      : TransferStates \cup {"absent"},
           strategy   : TransferStrategies \cup {NoStrategy},
           retryCount : Nat,
           retryMax   : Nat]

NoRequest == [srcCluster |-> "none", srcPVC |-> "none", dstCluster |-> "none",
              dstPVC |-> "none", allowOverwrite |-> FALSE,
              override |-> NoOverride, retryMax |-> NoRetryMax]

CreatePCs == {"setValidating", "validate", "setStrategy", "setTransferring",
              "setStarted", "commandSource", "commandDest", "failValidation",
              "failStrategy", "failCommand", "createFailedEvent"}
CancelPCs == {"setCancelled", "stampCancelled", "cancelledEvent",
              "closeCancelled", "cancelSource", "cancelDest"}
ProgressPCs == {"updateProgress", "incrementRetry",
                "setCompleted", "stampCompleted", "completedEvent",
                "closeCompleted", "setFailed", "failedEvent", "closeFailed"}
CleanupPCs == {"cleanSource", "cleanDest"}

PCs == {"idle"} \cup CreatePCs \cup CancelPCs \cup ProgressPCs \cup CleanupPCs

\* The type of the state: tables, effects and handlers.
TypeOK ==
  /\ row \in [Transfers -> Rows]
  /\ events \in [Transfers -> SUBSET TerminalStates]
  /\ agents \in [Transfers -> [Sides -> {"idle", "running", "stopped"}]]
  /\ cleaned \in [Transfers -> SUBSET {"creds", "s3"}]
  /\ closed \in [Transfers -> BOOLEAN]
  /\ pc \in [Handlers -> PCs]
  /\ tid \in [Handlers -> Transfers \cup {NoTransfer}]
  /\ copy \in [Handlers -> Copies]
  /\ req \in [Handlers -> Requests \cup {NoRequest}]
  /\ report \in [Handlers -> Statuses \cup {"none"}]

Init ==
  /\ row = [t \in Transfers |-> AbsentRow]
  /\ events = [t \in Transfers |-> {}]
  /\ agents = [t \in Transfers |-> [s \in Sides |-> "idle"]]
  /\ cleaned = [t \in Transfers |-> {}]
  /\ closed = [t \in Transfers |-> FALSE]
  /\ pc = [h \in Handlers |-> "idle"]
  /\ tid = [h \in Handlers |-> NoTransfer]
  /\ copy = [h \in Handlers |-> NoCopy]
  /\ req = [h \in Handlers |-> NoRequest]
  /\ report = [h \in Handlers |-> "none"]

-----------------------------------------------------------------------------
(* The statements of the repository, as functions of the row they update.  *)

InsertTransfer(retryMax) ==
  [AbsentRow EXCEPT !.state = "pending", !.retryMax = retryMax]
UpdateTransferState(r, s) == [r EXCEPT !.state = s]
UpdateTransferStrategy(r, s) == [r EXCEPT !.strategy = s]
UpdateTransferStarted(r) == [r EXCEPT !.started = TRUE]
UpdateTransferCompleted(r) == [r EXCEPT !.completed = TRUE]
\* Seeded fault: the parameters of the UPDATE are swapped.
UpdateTransferFailedSwapped(r, err) ==
  [r EXCEPT !.state = err, !.error = "failed", !.completed = TRUE]
UpdateTransferFailed(r, err) ==
  [r EXCEPT !.state = "failed", !.error = err, !.completed = TRUE]
IncrementRetryCount(r) == [r EXCEPT !.retryCount = @ + 1]

DBOutcomes == {"ok"} \cup DBFaults
CallOutcomes == {"ok"} \cup CallFaults

\* The table after transfer t's row was set to r by a call with this outcome.
Written(t, r, out) == IF out = "lost" THEN row ELSE [row EXCEPT ![t] = r]

\* createEvent: a failed INSERT is logged and otherwise ignored.
Recorded(t, type, out) ==
  IF out = "lost" THEN events ELSE [events EXCEPT ![t] = @ \cup {type}]

\* SendTransferCommand starts the agent of one side ...
Commanded(t, side, out) ==
  IF out = "lost" THEN agents ELSE [agents EXCEPT ![t][side] = "running"]

\* ... and SendCancelCommand stops it; an agent that was never commanded has
\* nothing to stop.
Cancelled(t, side, out) ==
  IF out = "lost" \/ agents[t][side] # "running" THEN agents
  ELSE [agents EXCEPT ![t][side] = "stopped"]

-----------------------------------------------------------------------------
(* Control of a handler.                                                   *)

\* The handler returns, with or without an error, and its locals go away.
Return(h) ==
  /\ pc' = [pc EXCEPT ![h] = "idle"]
  /\ tid' = [tid EXCEPT ![h] = NoTransfer]
  /\ copy' = [copy EXCEPT ![h] = NoCopy]
  /\ req' = [req EXCEPT ![h] = NoRequest]
  /\ report' = [report EXCEPT ![h] = "none"]

Goto(h, p) == pc' = [pc EXCEPT ![h] = p] /\ UNCHANGED local

Advance(h, p) == IF p = "idle" THEN Return(h) ELSE Goto(h, p)

\* if err := repo.Update...; err != nil { return err }
Statement(h, from, r, to) ==
  /\ pc[h] = from
  /\ \E out \in DBOutcomes :
       /\ row' = Written(tid[h], r, out)
       /\ Advance(h, IF out = "ok" THEN to ELSE "idle")
  /\ UNCHANGED <<events, effects>>

\* _ = repo.Update...
IgnoredStatement(h, from, r, to) ==
  /\ pc[h] = from
  /\ \E out \in DBOutcomes : row' = Written(tid[h], r, out)
  /\ Advance(h, to)
  /\ UNCHANGED <<events, effects>>

\* o.createEvent(...)
Event(h, from, type, to) ==
  /\ pc[h] = from
  /\ \E out \in DBOutcomes : events' = Recorded(tid[h], type, out)
  /\ Advance(h, to)
  /\ UNCHANGED <<row, effects>>

-----------------------------------------------------------------------------
(* CreateTransfer.  Its private copy always passes TransitionTo (the moves  *)
(* pending -> validating -> transferring or failed are in the table), so    *)
(* pc stands for the copy's state; only the chosen strategy is kept.        *)

\* A request arrives under a fresh id; its row and the "created" event are
\* inserted.
CreateInsert(h, t, rq) ==
  /\ pc[h] = "idle"
  /\ row[t].state = "absent"
  /\ \E out \in DBOutcomes :
       /\ row' = Written(t, InsertTransfer(IF rq.retryMax = NoRetryMax
                                           THEN DefaultRetryMax
                                           ELSE rq.retryMax), out)
       /\ IF out = "ok"
          THEN /\ pc' = [pc EXCEPT ![h] = "setValidating"]
               /\ tid' = [tid EXCEPT ![h] = t]
               /\ req' = [req EXCEPT ![h] = rq]
               /\ UNCHANGED <<copy, report>>
          ELSE Return(h)
  /\ UNCHANGED <<events, effects>>

\* Seeded fault: the error of the UPDATE is dropped.
SetValidatingUnchecked(h) ==
  IgnoredStatement(h, "setValidating",
                   UpdateTransferState(row[tid[h]], "validating"), "validate")

SetValidating(h) ==
  Statement(h, "setValidating",
            UpdateTransferState(row[tid[h]], "validating"), "validate")

\* The lookups of ValidateTransferRequest; when they let the request pass, the
\* "validated" event and SelectStrategy.
Validate(h) ==
  LET strategy == SelectStrategy(req[h].srcCluster, req[h].dstCluster,
                                 req[h].override, S3Configured)
  IN /\ pc[h] = "validate"
     /\ \E look \in Lookups :
          CASE ~ValidRequest(req[h], look) -> Goto(h, "failValidation")
            [] ValidRequest(req[h], look) /\ strategy = "error" ->
                 Goto(h, "failStrategy")
            [] OTHER ->
                 /\ pc' = [pc EXCEPT ![h] = "setStrategy"]
                 /\ copy' = [copy EXCEPT ![h].strategy = strategy]
                 /\ UNCHANGED <<tid, req, report>>
     /\ UNCHANGED <<row, events, effects>>

\* Seeded fault: the error of the UPDATE is dropped.
SetStrategyUnchecked(h) ==
  IgnoredStatement(h, "setStrategy",
                   UpdateTransferStrategy(row[tid[h]], copy[h].strategy),
                   "setTransferring")

SetStrategy(h) ==
  Statement(h, "setStrategy",
            UpdateTransferStrategy(row[tid[h]], copy[h].strategy),
            "setTransferring")

\* Seeded fault: the agents are commanded without UpdateTransferStarted.
SetTransferringUnstamped(h) ==
  Statement(h, "setTransferring",
            UpdateTransferState(row[tid[h]], "transferring"), "commandSource")

SetTransferring(h) ==
  Statement(h, "setTransferring",
            UpdateTransferState(row[tid[h]], "transferring"), "setStarted")

SetStarted(h) ==
  Statement(h, "setStarted", UpdateTransferStarted(row[tid[h]]), "commandSource")

\* SendTransferCommand to one side; an error fails the transfer.
SendTransferCommand(h, from, side, to) ==
  /\ pc[h] = from
  /\ \E out \in CallOutcomes :
       /\ agents' = Commanded(tid[h], side, out)
       /\ Advance(h, IF out = "ok" THEN to ELSE "failCommand")
  /\ UNCHANGED <<row, events, cleaned, closed>>

CommandSource(h) == SendTransferCommand(h, "commandSource", "source", "commandDest")
CommandDest(h) == SendTransferCommand(h, "commandDest", "dest", "idle")

\* The failure exits: the error of UpdateTransferFailed is dropped, no cleanup
\* follows, the progress stream stays open, and a strategy error records no event.
FailValidation(h) ==
  IgnoredStatement(h, "failValidation",
                   UpdateTransferFailed(row[tid[h]], "validation"),
                   "createFailedEvent")
FailStrategy(h) ==
  IgnoredStatement(h, "failStrategy",
                   UpdateTransferFailed(row[tid[h]], "strategy"), "idle")
FailCommand(h) ==
  IgnoredStatement(h, "failCommand",
                   UpdateTransferFailed(row[tid[h]], "command"),
                   "createFailedEvent")
CreateFailedEvent(h) == Event(h, "createFailedEvent", "failed", "idle")

CreateStep(h) ==
  \/ SetValidating(h)   \/ Validate(h)       \/ SetStrategy(h)
  \/ SetTransferring(h) \/ SetStarted(h)     \/ CommandSource(h)
  \/ CommandDest(h)     \/ FailValidation(h) \/ FailStrategy(h)
  \/ FailCommand(h)     \/ CreateFailedEvent(h)

-----------------------------------------------------------------------------
(* The calls CancelTransfer and HandleProgress share.                       *)

\* ProgressHub.CloseTransfer (and the metrics).
CloseStream(h, from, next) ==
  /\ pc[h] = from
  /\ closed' = [closed EXCEPT ![tid[h]] = TRUE]
  /\ Goto(h, next)
  /\ UNCHANGED <<row, events, agents, cleaned>>

\* SendCancelCommand: an error is logged and otherwise ignored.
SendCancelCommand(h, from, side, next) ==
  /\ pc[h] = from
  /\ \E out \in CallOutcomes : agents' = Cancelled(tid[h], side, out)
  /\ Advance(h, next)
  /\ UNCHANGED <<row, events, cleaned, closed>>

\* ExecuteCleanup is best effort: RevokeCredentials and the source agent's
\* signal, then the destination agent's and, if the handler's copy says the data
\* was staged in S3, DeleteTransferObjects.
Cleanup(h, from, side, resources, next) ==
  /\ pc[h] = from
  /\ cleaned' = [cleaned EXCEPT ![tid[h]] = @ \cup resources]
  /\ \E out \in CallOutcomes : agents' = Cancelled(tid[h], side, out)
  /\ Advance(h, next)
  /\ UNCHANGED <<row, events, closed>>

CleanSource(h) == Cleanup(h, "cleanSource", "source", {"creds"}, "cleanDest")
CleanDest(h) ==
  Cleanup(h, "cleanDest", "dest",
          IF copy[h].strategy = "s3" THEN {"s3"} ELSE {}, "idle")

CleanupStep(h) == CleanSource(h) \/ CleanDest(h)

-----------------------------------------------------------------------------
(* CancelTransfer.                                                          *)

\* Seeded fault: a terminal transfer is not refused.
CancelLoadUnchecked(h, t) ==
  /\ pc[h] = "idle"
  /\ row[t].state # "absent"
  /\ pc' = [pc EXCEPT ![h] = "setCancelled"]
  /\ tid' = [tid EXCEPT ![h] = t]
  /\ copy' = [copy EXCEPT ![h] = Loaded(row[t])]
  /\ UNCHANGED <<row, events, effects, req, report>>

\* GetTransferByID; an unknown or terminal transfer is refused, which changes
\* nothing, and TransitionTo(cancelled) succeeds from every other state.
CancelLoad(h, t) ==
  /\ pc[h] = "idle"
  /\ row[t].state # "absent"
  /\ ~IsTerminal(row[t].state)
  /\ CanTransition(row[t].state, "cancelled")
  /\ pc' = [pc EXCEPT ![h] = "setCancelled"]
  /\ tid' = [tid EXCEPT ![h] = t]
  /\ copy' = [copy EXCEPT ![h] = Loaded(row[t])]
  /\ UNCHANGED <<row, events, effects, req, report>>

SetCancelled(h) ==
  Statement(h, "setCancelled",
            UpdateTransferState(row[tid[h]], "cancelled"), "stampCancelled")
StampCancelled(h) ==
  Statement(h, "stampCancelled", UpdateTransferCompleted(row[tid[h]]),
            "cancelledEvent")
CancelledEvent(h) == Event(h, "cancelledEvent", "cancelled", "closeCancelled")
CloseCancelled(h) == CloseStream(h, "closeCancelled", "cancelSource")
CancelSource(h) == SendCancelCommand(h, "cancelSource", "source", "cancelDest")
CancelDest(h) == SendCancelCommand(h, "cancelDest", "dest", "cleanSource")

CancelStep(h) ==
  \/ SetCancelled(h)   \/ StampCancelled(h) \/ CancelledEvent(h)
  \/ CloseCancelled(h) \/ CancelSource(h)   \/ CancelDest(h)

-----------------------------------------------------------------------------
(* HandleProgress.                                                          *)

\* An agent that was commanded reports; it may report late, twice or out of
\* order, also after it was cancelled, and it stops working once it has
\* reported an end.  GetTransferByID: an unknown transfer is refused.
ProgressLoad(h, t, side, status) ==
  /\ pc[h] = "idle"
  /\ agents[t][side] # "idle"
  /\ row[t].state # "absent"
  /\ pc' = [pc EXCEPT ![h] = "updateProgress"]
  /\ tid' = [tid EXCEPT ![h] = t]
  /\ copy' = [copy EXCEPT ![h] = Loaded(row[t])]
  /\ report' = [report EXCEPT ![h] = status]
  /\ agents' = IF status = "in_progress" THEN agents
               ELSE [agents EXCEPT ![t][side] = "stopped"]
  /\ UNCHANGED <<row, events, cleaned, closed, req>>

\* Seeded fault: the error of TransitionTo is dropped.
AfterReportUnchecked(h) ==
  CASE report[h] = "completed" -> "setCompleted"
    [] report[h] = "failed" ->
         IF RetryAction(copy[h].retryCount, copy[h].retryMax) = "retry"
         THEN "incrementRetry" ELSE "setFailed"
    [] OTHER -> "idle"

\* Where the report's status leads, decided on the loaded copy.
AfterReport(h) ==
  LET c == copy[h]
  IN CASE report[h] = "completed" ->
            IF CanTransition(c.state, "completed") THEN "setCompleted" ELSE "idle"
       [] report[h] = "failed" ->
            IF RetryAction(c.retryCount, c.retryMax) = "retry"
            THEN "incrementRetry"
            ELSE IF CanTransition(c.state, "failed") THEN "setFailed" ELSE "idle"
       [] OTHER -> "idle"

\* UpdateTransferProgress writes the byte and chunk counters, which no decision
\* reads; its error ends the handler.  Then the "progress" event, the hub's Publish
\* and the progress metrics.
UpdateProgress(h) == Statement(h, "updateProgress", row[tid[h]], AfterReport(h))

SetCompleted(h) ==
  Statement(h, "setCompleted",
            UpdateTransferState(row[tid[h]], "completed"), "stampCompleted")
StampCompleted(h) ==
  Statement(h, "stampCompleted", UpdateTransferCompleted(row[tid[h]]),
            "completedEvent")
CompletedEvent(h) == Event(h, "completedEvent", "completed", "closeCompleted")
\* Seeded fault: a completion that is not followed by ExecuteCleanup.
CloseCompletedOnly(h) ==
  /\ pc[h] = "closeCompleted"
  /\ closed' = [closed EXCEPT ![tid[h]] = TRUE]
  /\ Return(h)
  /\ UNCHANGED <<row, events, agents, cleaned>>
CloseCompleted(h) == CloseStream(h, "closeCompleted", "cleanSource")

\* A retry: the counter, the "retried" event and a log line.
IncrementRetry(h) ==
  Statement(h, "incrementRetry", IncrementRetryCount(row[tid[h]]), "idle")

SetFailed(h) ==
  Statement(h, "setFailed", UpdateTransferFailed(row[tid[h]], "agent"),
            "failedEvent")
FailedEvent(h) == Event(h, "failedEvent", "failed", "closeFailed")
CloseFailed(h) == CloseStream(h, "closeFailed", "cleanSource")

ProgressStep(h) ==
  \/ UpdateProgress(h) \/ IncrementRetry(h) \/ SetCompleted(h)
  \/ StampCompleted(h) \/ CompletedEvent(h) \/ CloseCompleted(h)
  \/ SetFailed(h)      \/ FailedEvent(h)    \/ CloseFailed(h)

-----------------------------------------------------------------------------
\* The process dies: every handler is gone, so are the streams;
\* the tables and the agents remain.  Nothing resumes a handler after a restart.
Crash ==
  /\ CrashAllowed
  /\ \E h \in Handlers : pc[h] # "idle"
  /\ pc' = [h \in Handlers |-> "idle"]
  /\ tid' = [h \in Handlers |-> NoTransfer]
  /\ copy' = [h \in Handlers |-> NoCopy]
  /\ req' = [h \in Handlers |-> NoRequest]
  /\ report' = [h \in Handlers |-> "none"]
  /\ closed' = [t \in Transfers |-> TRUE]
  /\ UNCHANGED <<row, events, agents, cleaned>>

Step(h) == CreateStep(h) \/ CancelStep(h) \/ ProgressStep(h) \/ CleanupStep(h)

Arrive(h) ==
  \E t \in Transfers :
    \/ \E rq \in Requests : CreateInsert(h, t, rq)
    \/ CancelLoad(h, t)
    \/ \E side \in Sides, status \in Statuses : ProgressLoad(h, t, side, status)

Next == \/ \E h \in Handlers : Arrive(h) \/ Step(h)
        \/ Crash

Spec == Init /\ [][Next]_vars

\* A goroutine that has work to do is eventually scheduled, and each of its
\* calls returns.
FairSpec == Spec /\ \A h \in Handlers : WF_vars(Step(h))

-----------------------------------------------------------------------------
(* Correctness.                                                            *)

\* A transfer that moves data, or has moved it, has its strategy on record:
\* UpdateTransferStrategy precedes the transferring state, and a completion is
\* only decided on a row that was seen transferring.
StrategyOnRecord ==
  \A t \in Transfers :
    row[t].state \in {"transferring", "completed"} => row[t].strategy # NoStrategy

\* No agent is put to work, and no transfer completes, before started_at is set:
\* CreateTransfer sends the commands after UpdateTransferStarted, and reports
\* come from commanded agents.
StartedBeforeWork ==
  \A t \in Transfers :
    \/ row[t].started
    \/ /\ row[t].state # "completed"
       /\ \A side \in Sides : agents[t][side] = "idle"

\* An agent's failure ends a transfer only when the retry budget is spent, though
\* HandleProgress decides on a stale retry_count.
AgentFailureExhaustsRetries ==
  \A t \in Transfers :
    row[t].error = "agent" => row[t].retryCount >= row[t].retryMax

\* HandleProgress checks the budget on its copy and increments the row later, so
\* concurrent reports overshoot retry_max: by less than the handlers in flight.
RetryOvershootBounded ==
  \A t \in Transfers :
    row[t].retryCount < row[t].retryMax + Cardinality(Handlers)

LegalMove(from, to) ==
  \/ from = to
  \/ from = "absent" /\ to = "pending"
  \/ IsTerminal(from)
  \/ CanTransition(from, to)

\* The blind UPDATEs of handlers that decided on stale copies still never leave
\* the transition table from a state that is not terminal.
NonTerminalMovesLegal ==
  [][\A t \in Transfers : LegalMove(row[t].state, row'[t].state)]_vars

\* Handler h may still write the state column of transfer t.
StateWriter(h, t) ==
  /\ tid[h] = t
  /\ \/ pc[h] \in CreatePCs \ {"createFailedEvent"}
     \/ pc[h] \in {"setCancelled", "setCompleted", "setFailed"}
     \/ pc[h] = "updateProgress" /\ AfterReport(h) \in {"setCompleted", "setFailed"}

\* Transfer t has ended and nobody who decided earlier is still at work on it.
Settled(t) == IsTerminal(row[t].state) /\ \A h \in Handlers : ~StateWriter(h, t)

\* A settled transfer stays as it is: only handlers that were in flight when a
\* transfer ended can change its outcome; no later cancel or report can.
SettledIsFinal ==
  [][\A t \in Transfers :
       Settled(t) => Settled(t)' /\ row'[t].state = row[t].state]_vars

\* The engine implements the abstract lifecycle (when handlers do not overlap).
Lifecycle == INSTANCE TransferLifecycle
               WITH state <- [t \in Transfers |-> row[t].state]
LifecycleSpec == Lifecycle!Spec

\* The timeline never tells of an outcome that the row does not have (when
\* handlers do not overlap).  A failure of CreateTransfer is told even when its
\* UPDATE fails, for the error is dropped; with a database that answers, it too
\* is in the row.
TimelineMatchesRow ==
  \A t \in Transfers :
    events[t] \subseteq {row[t].state} \cup (IF DBFaults = {} THEN {} ELSE {"failed"})

\* The transfer's credentials, staged objects and progress streams are gone.
ReleasedAfterEnd(t) ==
  /\ "creds" \in cleaned[t]
  /\ row[t].strategy = "s3" => "s3" \in cleaned[t]
  /\ closed[t]

\* A transfer that an agent reported finished, or gave up on, is cleaned up,
\* whoever else is working on it.
CompletionCleansUp ==
  \A t \in Transfers :
    (row[t].state = "completed" \/ row[t].error = "agent") ~> ReleasedAfterEnd(t)

-----------------------------------------------------------------------------
(* What the documents and comments of the repository say, and the code does *)
(* not do.                                                                  *)

\* "Completed / Failed / Cancelled -> any state is prohibited (terminal state)".
TerminalIsFinal ==
  [][\A t \in Transfers :
       IsTerminal(row[t].state) => row'[t].state = row[t].state]_vars

\* "Maximum retries per transfer phase": retry_count stays within retry_max.
RetryBudgetRespected ==
  \A t \in Transfers : row[t].retryCount <= row[t].retryMax

\* "Re-send transfer command to agents after backoff delay": a transfer that is
\* retried is ended or put to work again.
RetryResendsCommand ==
  \A t \in Transfers :
    (row[t].state = "transferring" /\ row[t].retryCount > 0)
      ~> (IsTerminal(row[t].state) \/ \E side \in Sides : agents[t][side] = "running")

\* "The system MUST execute resource cleanup on all terminal states", "signaling
\* agents": no agent is left at work for a transfer that ended.
EndedTransferHasNoAgents ==
  \A t \in Transfers :
    (IsTerminal(row[t].state) /\ \A h \in Handlers : tid[h] # t)
      => \A side \in Sides : agents[t][side] # "running"

\* "Resource cleanup executes on all terminal states: ... S3 objects deleted": a
\* cancelled transfer that had staged data in S3 has it deleted.
CancelDeletesStagedData ==
  \A t \in Transfers :
    (row[t].state = "cancelled" /\ \A h \in Handlers : tid[h] # t)
      => ReleasedAfterEnd(t)

-----------------------------------------------------------------------------
(* The inductive invariant behind the theorems of OrchestratorProofs.       *)

\* A handler at work has a transfer, and that transfer is in the table.
HandlerHasRow ==
  \A h \in Handlers :
    pc[h] # "idle" => tid[h] \in Transfers /\ row[tid[h]].state # "absent"

\* A transfer is created by one handler.
OneCreator ==
  \A g, h \in Handlers :
    pc[g] \in CreatePCs /\ pc[h] \in CreatePCs /\ tid[g] = tid[h] => g = h

\* No side's agent was ever commanded.
Idle(a) == \A side \in Sides : a[side] = "idle"

\* How far CreateTransfer has come, seen from its pc: the row is in the state it
\* wrote last, unless somebody ended the transfer meanwhile, and the agents know
\* nothing of the transfer before they are commanded.
PhaseAt(p, r, a) ==
  LET Reached(s) == r.state \in TerminalStates \cup {s}
  IN /\ p = "setValidating" => Reached("pending") /\ Idle(a)
     /\ p \in {"validate", "setStrategy", "failValidation", "failStrategy"} =>
          Reached("validating") /\ Idle(a)
     /\ p = "setTransferring" =>
          Reached("validating") /\ Idle(a) /\ r.strategy # NoStrategy
     /\ p = "setStarted" => Reached("transferring") /\ r.strategy # NoStrategy
     /\ p \in {"commandSource", "commandDest", "failCommand"} =>
          Reached("transferring") /\ r.strategy # NoStrategy /\ r.started

CreatorPhase ==
  \A h \in Handlers : PhaseAt(pc[h], row[tid[h]], agents[tid[h]])

\* A transfer that agents know of has left the states of its creation.
CommandedPhase ==
  \A t \in Transfers :
    ~Idle(agents[t]) => /\ row[t].state \in TerminalStates \cup {"transferring"}
                /\ row[t].strategy # NoStrategy
                /\ row[t].started

\* Reports come from agents that were commanded, and what HandleProgress loaded
\* bounds what the row says now: retry_max is fixed and retry_count only grows.
ReporterPhase ==
  \A h \in Handlers :
    pc[h] \in ProgressPCs =>
      /\ ~Idle(agents[tid[h]])
      /\ copy[h].retryMax = row[tid[h]].retryMax
      /\ copy[h].retryCount <= row[tid[h]].retryCount
      /\ pc[h] = "setFailed" => copy[h].retryCount >= copy[h].retryMax
      /\ pc[h] = "incrementRetry" => copy[h].retryCount < copy[h].retryMax

\* The strategy CreateTransfer is about to persist is one of the three.
StrategyChosen ==
  \A h \in Handlers : pc[h] = "setStrategy" => copy[h].strategy # NoStrategy

IndInv ==
  /\ TypeOK
  /\ HandlerHasRow
  /\ OneCreator
  /\ CreatorPhase
  /\ CommandedPhase
  /\ ReporterPhase
  /\ StrategyChosen
  /\ StrategyOnRecord
  /\ StartedBeforeWork
  /\ AgentFailureExhaustsRetries

\* The handlers that were granted a retry and have not counted it yet.
Granted(t) ==
  {h \in Handlers : /\ tid[h] = t
                    /\ pc[h] \in {"updateProgress", "incrementRetry"}
                    /\ copy[h].retryCount < copy[h].retryMax}

\* Once the budget is spent nobody is granted a retry any more, so the overshoot
\* and the grants still outstanding together stay below the number of handlers.
GrantsBounded ==
  \A t \in Transfers :
    \/ row[t].retryCount < row[t].retryMax
    \/ row[t].retryCount + Cardinality(Granted(t))
         < row[t].retryMax + Cardinality(Handlers)

\* No two requests for the same transfer are being served.
Serialised ==
  \A g, h \in Handlers : tid[g] = tid[h] /\ tid[h] # NoTransfer => g = h

\* What a handler that is alone at work on its transfer, and is at p, knows of the
\* state of its row: it is not terminal while the handler may still write it, and it is the
\* outcome the handler is about to record.
OutcomeAt(p, s) ==
  /\ p \in (CreatePCs \ {"createFailedEvent"}) \cup {"setCancelled", "setCompleted", "setFailed"}
       => ~IsTerminal(s)
  /\ p \in {"stampCancelled", "cancelledEvent"} => s = "cancelled"
  /\ p \in {"stampCompleted", "completedEvent"} => s = "completed"
  /\ p = "failedEvent" => s = "failed"
  /\ p = "createFailedEvent" /\ DBFaults = {} => s = "failed"

OutcomeKnown ==
  \A h \in Handlers :
    /\ OutcomeAt(pc[h], row[tid[h]].state)
    /\ pc[h] = "updateProgress" /\ AfterReport(h) \in {"setCompleted", "setFailed"}
         => ~IsTerminal(row[tid[h]].state)
=============================================================================
