---------------------------- MODULE ProgressStream ----------------------------
(***************************************************************************)
(* Live progress: the in-memory hub of katapult/internal/observability/    *)
(* hub.go, the orchestrator's handlers that publish to it and close it,    *)
(* and the SSE handler of katapult/internal/http/sse_handler.go that       *)
(* subscribes.                                                             *)
(*                                                                         *)
(* Each hub operation holds the hub's mutex and is one action.  The engine *)
(* is reduced to what the streams can see of it: a transfer is active      *)
(* until a handler settles it, a report is persisted, then published, then *)
(* perhaps settles the transfer and closes its streams.  Whether a failure *)
(* report is retried is left open here (Orchestrator decides it).          *)
(***************************************************************************)
EXTENDS Integers, Sequences

CONSTANTS
  Transfers,   \* transfers under way
  NoTransfer,  \* the transfer of an idle handler or stream
  Handlers,    \* HandleProgress and CancelTransfer calls in flight together
  Streams,     \* SSE requests; a reconnect is another one
  BufferSize,  \* subscriberBufferSize
  MaxReports,  \* bound: progress reports in a behaviour
  CallsFail    \* whether a repository call may return an error

ASSUME StreamAssumption ==
  /\ NoTransfer \notin Transfers
  /\ BufferSize \in Nat \ {0} /\ MaxReports \in Nat
  /\ CallsFail \in BOOLEAN

VARIABLES
  state,       \* transfers.state: "active" or a terminal state
  progress,    \* transfers.bytes_transferred: the last report persisted
  gauge,       \* katapult_transfers_active
  reports,     \* reports so far
  published,   \* history: the reports published for a transfer, in order
  hp,          \* the orchestrator's handlers
  subscribers, \* ProgressHub.subscribers
  buf,         \* what a subscriber's channel holds
  closed,      \* subscriber.closed
  panicked,    \* a send on, or a close of, a closed channel happened
  pc,          \* where an SSE handler is
  tid,         \* the transfer it streams
  snap,        \* the row it loaded
  sent         \* the events it wrote to its client

engine == <<state, progress, gauge, reports, published, hp>>
hub == <<subscribers, buf, closed, panicked>>
stream == <<pc, tid, snap, sent>>
vars == <<state, progress, gauge, reports, published, hp, subscribers, buf,
          closed, panicked, pc, tid, snap, sent>>

-----------------------------------------------------------------------------
(* The state.                                                              *)

TerminalStates == {"completed", "failed", "cancelled"}
States == {"active"} \cup TerminalStates
Statuses == {"in_progress", "completed", "failed"}

\* An EnrichedProgress: the report it tells of, and its Status.
Events == [n : 0 .. MaxReports, status : States \cup Statuses]

HandlerStates == [pc : {"idle", "persist", "publish", "settle", "close"},
                  t : Transfers \cup {NoTransfer}, n : 0 .. MaxReports,
                  status : States \cup Statuses, loaded : States]

IdleHandler == [pc |-> "idle", t |-> NoTransfer, n |-> 0, status |-> "active",
                loaded |-> "active"]

StreamPCs == {"idle", "subscribe", "initial", "loop", "ending", "leaving",
              "ended", "left"}

NoEvent == [n |-> 0, status |-> "active"]

\* The type of the state; a channel never holds more than its buffer.
TypeOK ==
  /\ state \in [Transfers -> States]
  /\ progress \in [Transfers -> 0 .. MaxReports]
  /\ gauge \in Int
  /\ reports \in 0 .. MaxReports
  /\ published \in [Transfers -> Seq(Events)]
  /\ hp \in [Handlers -> HandlerStates]
  /\ subscribers \in [Transfers -> SUBSET Streams]
  /\ buf \in [Streams -> Seq(Events)]
  /\ \A s \in Streams : Len(buf[s]) <= BufferSize
  /\ closed \in [Streams -> BOOLEAN]
  /\ panicked \in BOOLEAN
  /\ pc \in [Streams -> StreamPCs]
  /\ tid \in [Streams -> Transfers \cup {NoTransfer}]
  /\ snap \in [Streams -> Events]
  /\ sent \in [Streams -> Seq(Events)]

Init ==
  /\ state = [t \in Transfers |-> "active"]
  /\ progress = [t \in Transfers |-> 0]
  /\ gauge = 0
  /\ reports = 0
  /\ published = [t \in Transfers |-> <<>>]
  /\ hp = [h \in Handlers |-> IdleHandler]
  /\ subscribers = [t \in Transfers |-> {}]
  /\ buf = [s \in Streams |-> <<>>]
  /\ closed = [s \in Streams |-> FALSE]
  /\ panicked = FALSE
  /\ pc = [s \in Streams |-> "idle"]
  /\ tid = [s \in Streams |-> NoTransfer]
  /\ snap = [s \in Streams |-> NoEvent]
  /\ sent = [s \in Streams |-> <<>>]

-----------------------------------------------------------------------------
(* The orchestrator.                                                       *)

HandlerReturns(h) == hp' = [hp EXCEPT ![h] = IdleHandler]

\* HandleProgress loads the row.
Report(h, t, status) ==
  /\ hp[h].pc = "idle"
  /\ reports < MaxReports
  /\ reports' = reports + 1
  /\ hp' = [hp EXCEPT ![h] = [pc |-> "persist", t |-> t, n |-> reports + 1,
                              status |-> status, loaded |-> state[t]]]
  /\ UNCHANGED <<state, progress, gauge, published, hub, stream>>

\* UpdateTransferProgress.
Persist(h) ==
  /\ hp[h].pc = "persist"
  /\ progress' = [progress EXCEPT ![hp[h].t] = hp[h].n]
  /\ hp' = [hp EXCEPT ![h].pc = "publish"]
  /\ UNCHANGED <<state, gauge, reports, published, hub, stream>>

\* select { case sub.ch <- progress: default: }
Offered(q, e) == IF Len(q) < BufferSize THEN Append(q, e) ELSE q

\* After Publish: TransitionTo rejects a second end, a failure may be retried.
\* Seeded fault first: any report settles a live transfer.
AfterPublishAny(h) ==
  \/ /\ hp[h].loaded = "active"
     /\ hp' = [hp EXCEPT ![h].pc = "settle"]
  \/ /\ hp[h].status \in {"in_progress", "failed"} \/ hp[h].loaded # "active"
     /\ HandlerReturns(h)
AfterPublish(h) ==
  \/ /\ hp[h].status \in TerminalStates /\ hp[h].loaded = "active"
     /\ hp' = [hp EXCEPT ![h].pc = "settle"]
  \/ /\ hp[h].status \in {"in_progress", "failed"} \/ hp[h].loaded # "active"
     /\ HandlerReturns(h)

\* ProgressHub.Publish.
Publish(h) ==
  LET t == hp[h].t
      e == [n |-> hp[h].n, status |-> hp[h].status]
  IN /\ hp[h].pc = "publish"
     /\ buf' = [s \in Streams |-> IF s \in subscribers[t] THEN Offered(buf[s], e)
                                  ELSE buf[s]]
     /\ panicked' = (panicked \/ \E s \in subscribers[t] : closed[s])
     /\ published' = [published EXCEPT ![t] = Append(@, e)]
     /\ AfterPublish(h)
     /\ UNCHANGED <<state, progress, gauge, reports, subscribers, closed, stream>>

\* CancelTransfer loads the row.
Cancel(h, t) ==
  /\ hp[h].pc = "idle"
  /\ state[t] = "active"
  /\ hp' = [hp EXCEPT ![h] = [pc |-> "settle", t |-> t, n |-> 0,
                              status |-> "cancelled", loaded |-> "active"]]
  /\ UNCHANGED <<state, progress, gauge, reports, published, hub, stream>>

\* The statements that settle the row, and the event.
Settle(h) ==
  /\ hp[h].pc = "settle"
  /\ state' = [state EXCEPT ![hp[h].t] = hp[h].status]
  /\ hp' = [hp EXCEPT ![h].pc = "close"]
  /\ UNCHANGED <<progress, gauge, reports, published, hub, stream>>

\* Channels of S are closed; closing a closed one panics.
CloseChannels(S) ==
  /\ closed' = [s \in Streams |-> closed[s] \/ s \in S]
  /\ panicked' = (panicked \/ \E s \in S : closed[s])

\* ProgressHub.CloseTransfer.  Seeded fault first: the entry stays in the map.
HubCloseKept(t) ==
  /\ CloseChannels({s \in subscribers[t] : ~closed[s]})
  /\ UNCHANGED <<subscribers, buf>>
HubClose(t) ==
  /\ CloseChannels({s \in subscribers[t] : ~closed[s]})
  /\ subscribers' = [subscribers EXCEPT ![t] = {}]
  /\ UNCHANGED buf

\* CloseTransfer and OnTransferStateChange: the gauge goes down for an end, and
\* no call tells it of a start.
Close(h) ==
  /\ hp[h].pc = "close"
  /\ HubClose(hp[h].t)
  /\ gauge' = gauge - 1
  /\ HandlerReturns(h)
  /\ UNCHANGED <<state, progress, reports, published, stream>>

\* A statement fails and the handler returns; before "close" that is
\* UpdateTransferCompleted, after the state was written.
StatementFails(h) ==
  /\ CallsFail
  /\ hp[h].pc \in {"persist", "settle", "close"}
  /\ HandlerReturns(h)
  /\ UNCHANGED <<state, progress, gauge, reports, published, hub, stream>>

\* CreateTransfer fails the transfer (validation, strategy or command): it
\* neither publishes nor closes.
CreateFails(t) ==
  /\ state[t] = "active"
  /\ state' = [state EXCEPT ![t] = "failed"]
  /\ UNCHANGED <<progress, gauge, reports, published, hp, hub, stream>>

-----------------------------------------------------------------------------
(* handleStreamProgress.                                                   *)

\* GetTransfer; a settled transfer gets its snapshot and the response ends.
Load(s, t) ==
  LET e == [n |-> progress[t], status |-> state[t]]
  IN /\ pc[s] = "idle"
     /\ tid' = [tid EXCEPT ![s] = t]
     /\ snap' = [snap EXCEPT ![s] = e]
     /\ IF state[t] \in TerminalStates
        THEN /\ sent' = [sent EXCEPT ![s] = Append(@, e)]
             /\ pc' = [pc EXCEPT ![s] = "ended"]
        ELSE /\ pc' = [pc EXCEPT ![s] = "subscribe"]
             /\ UNCHANGED sent
     /\ UNCHANGED <<engine, hub>>

\* ProgressHub.Subscribe.
Subscribe(s) ==
  /\ pc[s] = "subscribe"
  /\ subscribers' = [subscribers EXCEPT ![tid[s]] = @ \cup {s}]
  /\ pc' = [pc EXCEPT ![s] = "initial"]
  /\ UNCHANGED <<engine, buf, closed, panicked, tid, snap, sent>>

\* The first event is the row as it was loaded before subscribing.
SendInitial(s) ==
  /\ pc[s] = "initial"
  /\ sent' = [sent EXCEPT ![s] = Append(@, snap[s])]
  /\ pc' = [pc EXCEPT ![s] = "loop"]
  /\ UNCHANGED <<engine, hub, tid, snap>>

\* case progress, ok := <-ch.  A closed channel still yields what it holds.
\* Seeded faults first: ok is not looked at, and a closed channel yields zero
\* values; the loop ends only after an event it found in a closed channel.
ReceiveUnchecked(s) ==
  /\ pc[s] = "loop"
  /\ buf[s] # <<>> \/ closed[s]
  /\ sent' = [sent EXCEPT ![s] = Append(@, IF buf[s] # <<>> THEN Head(buf[s])
                                           ELSE NoEvent)]
  /\ buf' = [buf EXCEPT ![s] = IF @ # <<>> THEN Tail(@) ELSE @]
  /\ UNCHANGED <<engine, subscribers, closed, panicked, pc, tid, snap>>
ReceiveUntilEmpty(s) ==
  /\ pc[s] = "loop"
  /\ buf[s] # <<>>
  /\ sent' = [sent EXCEPT ![s] = Append(@, Head(buf[s]))]
  /\ buf' = [buf EXCEPT ![s] = Tail(@)]
  /\ pc' = IF closed[s] /\ Len(buf[s]) = 1 THEN [pc EXCEPT ![s] = "ending"] ELSE pc
  /\ UNCHANGED <<engine, subscribers, closed, panicked, tid, snap>>
Receive(s) ==
  /\ pc[s] = "loop"
  /\ \/ /\ buf[s] # <<>>
        /\ sent' = [sent EXCEPT ![s] = Append(@, Head(buf[s]))]
        /\ buf' = [buf EXCEPT ![s] = Tail(@)]
        /\ UNCHANGED pc
     \/ /\ buf[s] = <<>> /\ closed[s]
        /\ pc' = [pc EXCEPT ![s] = "ending"]
        /\ UNCHANGED <<sent, buf>>
  /\ UNCHANGED <<engine, subscribers, closed, panicked, tid, snap>>

\* case <-r.Context().Done().
ClientLeaves(s) ==
  /\ pc[s] = "loop"
  /\ pc' = [pc EXCEPT ![s] = "leaving"]
  /\ UNCHANGED <<engine, hub, tid, snap, sent>>

\* defer unsub().  Seeded fault first: sub.closed is not consulted.
HubUnsubscribeAgain(s) ==
  /\ CloseChannels({s})
  /\ subscribers' = [subscribers EXCEPT ![tid[s]] = @ \ {s}]
HubUnsubscribe(s) ==
  IF closed[s]
  THEN UNCHANGED <<subscribers, closed, panicked>>
  ELSE /\ CloseChannels({s})
       /\ subscribers' = [subscribers EXCEPT ![tid[s]] = @ \ {s}]

Unsubscribe(s) ==
  /\ pc[s] \in {"ending", "leaving"}
  /\ HubUnsubscribe(s)
  /\ pc' = [pc EXCEPT ![s] = IF pc[s] = "ending" THEN "ended" ELSE "left"]
  /\ UNCHANGED <<engine, buf, tid, snap, sent>>

-----------------------------------------------------------------------------
HandlerStep(h) == Persist(h) \/ Publish(h) \/ Settle(h) \/ Close(h)

StreamStep(s) == Subscribe(s) \/ SendInitial(s) \/ Receive(s) \/ Unsubscribe(s)

Next ==
  \/ \E h \in Handlers, t \in Transfers :
       Cancel(h, t) \/ \E status \in Statuses : Report(h, t, status)
  \/ \E h \in Handlers : HandlerStep(h) \/ StatementFails(h)
  \/ \E t \in Transfers : CreateFails(t)
  \/ \E s \in Streams : StreamStep(s) \/ ClientLeaves(s)
  \/ \E s \in Streams, t \in Transfers : Load(s, t)

Spec == Init /\ [][Next]_vars

\* Goroutines run: a handler in flight goes on, and an SSE handler reads its
\* channel as long as its client takes the events.
FairSpec == /\ Spec
            /\ \A h \in Handlers : WF_vars(HandlerStep(h))
            /\ \A s \in Streams : WF_vars(StreamStep(s))

-----------------------------------------------------------------------------
(* What the hub promises.                                                  *)

(***************************************************************************)
(* However publishing, CloseTransfer and the deferred unsubscribe of a     *)
(* leaving client interleave, no goroutine sends on or closes a closed     *)
(* channel (either would crash the control plane).                         *)
(***************************************************************************)
NoPanic == ~panicked

(***************************************************************************)
(* The map holds exactly the streams being served whose channel is open:   *)
(* none is forgotten while it waits for events, and none is kept after its *)
(* request ended.                                                          *)
(***************************************************************************)
SubscribersAreLive ==
  \A s \in Streams, t \in Transfers :
    s \in subscribers[t] <=> /\ tid[s] = t
                             /\ ~closed[s]
                             /\ pc[s] \in {"initial", "loop", "ending", "leaving"}

\* The position of event e among the published events of transfer t.
Position(t, e) == CHOOSE i \in 1 .. Len(published[t]) : published[t][i] = e

(***************************************************************************)
(* What a client got after the initial event, and what waits for it, are   *)
(* events of its own transfer in the order they were published; a slow     *)
(* client misses events and never sees one twice or out of order.          *)
(***************************************************************************)
StreamKeepsOrder ==
  \A s \in Streams :
    LET got == IF sent[s] = <<>> THEN buf[s] ELSE Tail(sent[s]) \o buf[s]
        t == tid[s]
    IN got # <<>> =>
         /\ \A i \in 1 .. Len(got) :
              \E k \in 1 .. Len(published[t]) : published[t][k] = got[i]
         /\ \A i, j \in 1 .. Len(got) :
              i < j => Position(t, got[i]) < Position(t, got[j])

(***************************************************************************)
(* A stream whose channel CloseTransfer closed ends, after the client got  *)
(* what was still buffered.                                                *)
(***************************************************************************)
ClosedStreamEnds ==
  \A s \in Streams :
    closed[s] ~> (pc[s] \in {"ended", "left"} /\ (pc[s] = "ended" => buf[s] = <<>>))

-----------------------------------------------------------------------------
(* What the documents say and the code does not do.                        *)

(***************************************************************************)
(* "Progress stream completes cleanly when transfer reaches a terminal     *)
(* state": a stream of a settled transfer ends.                            *)
(***************************************************************************)
SettledStreamEnds ==
  \A s \in Streams :
    (pc[s] = "loop" /\ state[tid[s]] \in TerminalStates)
      ~> pc[s] \in {"ended", "left"}

(***************************************************************************)
(* "IF transfer reaches a terminal state, send final event and close SSE   *)
(* stream": the last event of a stream the server ended tells the end.     *)
(***************************************************************************)
FinalEventSent ==
  \A s \in Streams :
    pc[s] = "ended" => sent[s][Len(sent[s])].status \in TerminalStates

(***************************************************************************)
(* "SSE connection reconnects and receives current state immediately       *)
(* without data loss": the initial event and the channel together miss no  *)
(* report, as long as the channel has room.                                *)
(***************************************************************************)
NothingMissed ==
  \A s \in Streams :
    (pc[s] = "loop" /\ Len(published[tid[s]]) > 0 /\ ~closed[s]
       /\ Len(buf[s]) < BufferSize /\ Len(sent[s]) = 1)
    => LET last == published[tid[s]][Len(published[tid[s]])]
       IN \/ buf[s] # <<>> /\ buf[s][Len(buf[s])] = last
          \/ buf[s] = <<>> /\ snap[s].n >= last.n

(***************************************************************************)
(* katapult_transfers_active is the "Number of currently active            *)
(* transfers": it is never below zero.                                     *)
(***************************************************************************)
GaugeNotNegative == gauge >= 0
=============================================================================
