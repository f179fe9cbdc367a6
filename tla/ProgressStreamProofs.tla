------------------------- MODULE ProgressStreamProofs -------------------------
(***************************************************************************)
(* The hub's safety for any number of transfers, handlers and streams: no  *)
(* goroutine ever touches a closed channel, and the map of subscribers     *)
(* holds exactly the streams being served whose channel is open.           *)
(*                                                                         *)
(* Neither is inductive alone.  No send hits a closed channel because the  *)
(* map holds only open ones; that in turn needs that a stream which has    *)
(* not subscribed yet has an open channel (Fresh), that whoever subscribed *)
(* knows its transfer (Placed), and that a handler which closes a transfer *)
(* names one and brings a terminal state (Working).                        *)
(*                                                                         *)
(* And a client sees its events in order: OrderInv, in the second half.    *)
(***************************************************************************)
EXTENDS ProgressStream, TLAPS

Served == {"initial", "loop", "ending", "leaving"}

\* A handler in flight has a transfer; one that settles it brings its outcome.
Working ==
  \A h \in Handlers :
    /\ hp[h].pc # "idle" => hp[h].t \in Transfers
    /\ hp[h].pc \in {"settle", "close"} => hp[h].status \in TerminalStates

\* A stream past its load has a transfer.
Placed == \A s \in Streams : pc[s] # "idle" => tid[s] \in Transfers

\* A channel is open until its stream has subscribed.
Fresh == \A s \in Streams : pc[s] \in {"idle", "subscribe"} => closed[s] = FALSE

\* SubscribersAreLive, by cases.
Listed ==
  \A s \in Streams, t \in Transfers :
    s \in subscribers[t] <=> /\ tid[s] = t
                             /\ closed[s] = FALSE
                             /\ pc[s] \in Served

StreamInv ==
  /\ TypeOK
  /\ Working
  /\ Placed
  /\ Fresh
  /\ Listed
  /\ panicked = FALSE

-----------------------------------------------------------------------------
(* What the operators keep.                                                *)

\* A report offered to a channel never overfills it.
LEMMA OfferedFits ==
  ASSUME NEW q \in Seq(Events), NEW e \in Events, Len(q) <= BufferSize
  PROVE  Offered(q, e) \in Seq(Events) /\ Len(Offered(q, e)) <= BufferSize
  BY StreamAssumption DEF Offered

\* The first states satisfy the invariant.
LEMMA StreamInit == Init => StreamInv
<1> SUFFICES ASSUME Init PROVE StreamInv
  OBVIOUS
<1>1. TypeOK
  <2>1. NoEvent \in Events /\ IdleHandler \in HandlerStates
    BY StreamAssumption DEF NoEvent, Events, IdleHandler, HandlerStates, States
  <2>2. <<>> \in Seq(Events) /\ Len(<<>>) = 0
    OBVIOUS
  <2>3. /\ buf \in [Streams -> Seq(Events)]
        /\ \A s \in Streams : Len(buf[s]) <= BufferSize
        /\ published \in [Transfers -> Seq(Events)]
        /\ sent \in [Streams -> Seq(Events)]
    BY <2>2, StreamAssumption DEF Init
  <2>4. /\ progress \in [Transfers -> 0 .. MaxReports]
        /\ reports \in 0 .. MaxReports
        /\ gauge \in Int
    BY StreamAssumption DEF Init
  <2>5. /\ hp \in [Handlers -> HandlerStates]
        /\ snap \in [Streams -> Events]
        /\ subscribers \in [Transfers -> SUBSET Streams]
        /\ tid \in [Streams -> Transfers \cup {NoTransfer}]
    BY <2>1 DEF Init
  <2>6. /\ state \in [Transfers -> States]
        /\ closed \in [Streams -> BOOLEAN]
        /\ panicked \in BOOLEAN
        /\ pc \in [Streams -> StreamPCs]
    BY DEF Init, States, StreamPCs
  <2> QED
    BY <2>3, <2>4, <2>5, <2>6 DEF TypeOK
<1>2. Working /\ Placed /\ Fresh /\ Listed /\ panicked = FALSE
  BY DEF Init, Working, Placed, Fresh, Listed, IdleHandler, Served
<1> QED
  BY <1>1, <1>2 DEF StreamInv

\* A report is taken.
LEMMA ReportKeeps ==
  ASSUME StreamInv, NEW h \in Handlers, NEW t \in Transfers,
         NEW status \in Statuses, Report(h, t, status)
  PROVE  StreamInv'
<1>1. hp' \in [Handlers -> HandlerStates]
  BY StreamAssumption DEF StreamInv, TypeOK, Report, HandlerStates, Statuses
<1>2. reports' \in 0 .. MaxReports
  BY StreamAssumption DEF StreamInv, TypeOK, Report
<1>3. TypeOK'
  BY <1>1, <1>2 DEF StreamInv, TypeOK, Report, hub, stream
<1>4. Working'
  BY DEF StreamInv, TypeOK, Working, Report
<1>5. Placed' /\ Fresh' /\ Listed' /\ panicked' = FALSE
  BY DEF StreamInv, Placed, Fresh, Listed, Report, hub, stream
<1> QED
  BY <1>3, <1>4, <1>5 DEF StreamInv

\* A cancellation is taken.
LEMMA CancelKeeps ==
  ASSUME StreamInv, NEW h \in Handlers, NEW t \in Transfers, Cancel(h, t)
  PROVE  StreamInv'
<1>1. hp' \in [Handlers -> HandlerStates]
  BY StreamAssumption DEF StreamInv, TypeOK, Cancel, HandlerStates, States,
     TerminalStates
<1>2. TypeOK'
  BY <1>1 DEF StreamInv, TypeOK, Cancel, hub, stream
<1>3. Working'
  BY DEF StreamInv, TypeOK, Working, Cancel, TerminalStates
<1>4. Placed' /\ Fresh' /\ Listed' /\ panicked' = FALSE
  BY DEF StreamInv, Placed, Fresh, Listed, Cancel, hub, stream
<1> QED
  BY <1>2, <1>3, <1>4 DEF StreamInv

\* A handler that returns is idle.
LEMMA ReturnKeeps ==
  ASSUME StreamInv, NEW h \in Handlers, HandlerReturns(h)
  PROVE  hp' \in [Handlers -> HandlerStates] /\ Working'
<1>1. IdleHandler \in HandlerStates
  BY StreamAssumption DEF IdleHandler, HandlerStates, States
<1>2. hp' \in [Handlers -> HandlerStates]
  BY <1>1 DEF StreamInv, TypeOK, HandlerReturns
<1>3. Working'
  BY DEF StreamInv, TypeOK, Working, HandlerReturns, IdleHandler
<1> QED
  BY <1>2, <1>3

\* A handler that goes on keeps its input.
LEMMA GoesOnKeeps ==
  ASSUME StreamInv, NEW h \in Handlers,
         NEW p \in {"publish", "settle", "close"},
         hp' = [hp EXCEPT ![h].pc = p],
         hp[h].pc # "idle",
         p \in {"settle", "close"} => hp[h].status \in TerminalStates
  PROVE  hp' \in [Handlers -> HandlerStates] /\ Working'
<1>0. hp \in [Handlers -> HandlerStates]
  BY DEF StreamInv, TypeOK
<1>1. hp' \in [Handlers -> HandlerStates]
  BY <1>0 DEF HandlerStates
<1>2. /\ \A g \in Handlers \ {h} : hp'[g] = hp[g]
      /\ hp'[h].t = hp[h].t /\ hp'[h].status = hp[h].status /\ hp'[h].pc = p
  BY <1>0 DEF HandlerStates
<1>3. Working'
  BY <1>2 DEF StreamInv, Working
<1> QED
  BY <1>1, <1>3

\* The report is persisted.
LEMMA PersistKeeps ==
  ASSUME StreamInv, NEW h \in Handlers, Persist(h)
  PROVE  StreamInv'
<1>1. hp' \in [Handlers -> HandlerStates] /\ Working'
  BY GoesOnKeeps DEF Persist
<1>2. progress' \in [Transfers -> 0 .. MaxReports]
  BY DEF StreamInv, TypeOK, HandlerStates, Persist
<1>3. TypeOK'
  BY <1>1, <1>2 DEF StreamInv, TypeOK, Persist, hub, stream
<1>4. Placed' /\ Fresh' /\ Listed' /\ panicked' = FALSE
  BY DEF StreamInv, Placed, Fresh, Listed, Persist, hub, stream
<1> QED
  BY <1>1, <1>3, <1>4 DEF StreamInv

\* A report is published: only open channels are written to.
LEMMA PublishKeeps ==
  ASSUME StreamInv, NEW h \in Handlers, Publish(h)
  PROVE  StreamInv'
<1> DEFINE t == hp[h].t
           e == [n |-> hp[h].n, status |-> hp[h].status]
<1>1. t \in Transfers /\ e \in Events
  BY DEF StreamInv, TypeOK, Working, Publish, HandlerStates, Events
<1>2. hp' \in [Handlers -> HandlerStates] /\ Working'
  <2>1. CASE hp' = [hp EXCEPT ![h].pc = "settle"]
             /\ hp[h].status \in TerminalStates
    BY <2>1, GoesOnKeeps DEF Publish
  <2>2. CASE HandlerReturns(h)
    BY <2>2, ReturnKeeps
  <2> QED
    BY <2>1, <2>2 DEF Publish, AfterPublish
<1>3. /\ buf' \in [Streams -> Seq(Events)]
      /\ \A s \in Streams : Len(buf'[s]) <= BufferSize
  BY <1>1, OfferedFits DEF StreamInv, TypeOK, Publish
<1>4. published' \in [Transfers -> Seq(Events)]
  BY <1>1 DEF StreamInv, TypeOK, Publish
<1>5. panicked' = FALSE
  BY <1>1 DEF StreamInv, TypeOK, Listed, Publish
<1>6. TypeOK'
  BY <1>2, <1>3, <1>4, <1>5 DEF StreamInv, TypeOK, Publish, stream
<1>7. Placed' /\ Fresh' /\ Listed'
  BY DEF StreamInv, Placed, Fresh, Listed, Publish, stream
<1> QED
  BY <1>2, <1>5, <1>6, <1>7 DEF StreamInv

\* The row is settled.
LEMMA SettleKeeps ==
  ASSUME StreamInv, NEW h \in Handlers, Settle(h)
  PROVE  StreamInv'
<1>1. hp' \in [Handlers -> HandlerStates] /\ Working'
  BY GoesOnKeeps DEF Settle, StreamInv, Working
<1>2. state' \in [Transfers -> States]
  BY DEF StreamInv, TypeOK, Working, Settle, States
<1>3. TypeOK'
  BY <1>1, <1>2 DEF StreamInv, TypeOK, Settle, hub, stream
<1>4. Placed' /\ Fresh' /\ Listed' /\ panicked' = FALSE
  BY DEF StreamInv, Placed, Fresh, Listed, Settle, hub, stream
<1> QED
  BY <1>1, <1>3, <1>4 DEF StreamInv

\* The streams of a transfer are closed.
LEMMA CloseKeeps ==
  ASSUME StreamInv, NEW h \in Handlers, Close(h)
  PROVE  StreamInv'
<1> DEFINE t == hp[h].t
           S == {s \in subscribers[t] : ~closed[s]}
<1>1. t \in Transfers
  BY DEF StreamInv, Working, Close
<1>2. hp' \in [Handlers -> HandlerStates] /\ Working'
  BY ReturnKeeps DEF Close
<1>3. S = subscribers[t]
  BY <1>1 DEF StreamInv, TypeOK, Listed
<1>4. panicked' = FALSE
  BY DEF StreamInv, Close, HubClose, CloseChannels
<1>5. /\ closed' \in [Streams -> BOOLEAN]
      /\ \A s \in Streams : closed'[s] = (closed[s] \/ s \in subscribers[t])
  BY <1>3 DEF StreamInv, TypeOK, Close, HubClose, CloseChannels
<1>6. /\ subscribers' \in [Transfers -> SUBSET Streams]
      /\ \A u \in Transfers : subscribers'[u] = IF u = t THEN {} ELSE subscribers[u]
  BY <1>1 DEF StreamInv, TypeOK, Close, HubClose
<1>7. gauge' \in Int
  BY DEF StreamInv, TypeOK, Close
<1>8. TypeOK'
  BY <1>2, <1>4, <1>5, <1>6, <1>7 DEF StreamInv, TypeOK, Close, HubClose, stream
<1>9. UNCHANGED <<pc, tid>>
  BY DEF Close, stream
<1>10. \A s \in Streams : s \in subscribers[t] => tid[s] = t /\ pc[s] \in Served
  BY <1>1 DEF StreamInv, Listed
<1>11. Placed'
  BY <1>9 DEF StreamInv, Placed
<1>12. Fresh'
  BY <1>5, <1>9, <1>10 DEF StreamInv, Fresh, Served
<1>13. Listed'
  <2> SUFFICES ASSUME NEW s \in Streams, NEW u \in Transfers
               PROVE  (s \in subscribers[u] <=> /\ tid[s] = u
                                                /\ closed[s] = FALSE
                                                /\ pc[s] \in Served)'
    BY DEF Listed
  <2>1. CASE u = t
    BY <2>1, <1>1, <1>5, <1>6, <1>9 DEF StreamInv, Listed
  <2>2. CASE u # t
    BY <2>2, <1>1, <1>5, <1>6, <1>9, <1>10 DEF StreamInv, Listed
  <2> QED
    BY <2>1, <2>2
<1> QED
  BY <1>2, <1>4, <1>8, <1>11, <1>12, <1>13 DEF StreamInv

\* A call fails.
LEMMA StatementFailsKeeps ==
  ASSUME StreamInv, NEW h \in Handlers, StatementFails(h)
  PROVE  StreamInv'
<1>1. hp' \in [Handlers -> HandlerStates] /\ Working'
  BY ReturnKeeps DEF StatementFails
<1>2. TypeOK'
  BY <1>1 DEF StreamInv, TypeOK, StatementFails, hub, stream
<1>3. Placed' /\ Fresh' /\ Listed' /\ panicked' = FALSE
  BY DEF StreamInv, Placed, Fresh, Listed, StatementFails, hub, stream
<1> QED
  BY <1>1, <1>2, <1>3 DEF StreamInv

\* A creation fails the transfer.
LEMMA CreateFailsKeeps ==
  ASSUME StreamInv, NEW t \in Transfers, CreateFails(t)
  PROVE  StreamInv'
<1>1. state' \in [Transfers -> States]
  BY DEF StreamInv, TypeOK, CreateFails, States, TerminalStates
<1>2. TypeOK'
  BY <1>1 DEF StreamInv, TypeOK, CreateFails, hub, stream
<1>3. Working' /\ Placed' /\ Fresh' /\ Listed' /\ panicked' = FALSE
  BY DEF StreamInv, Working, Placed, Fresh, Listed, CreateFails, hub, stream
<1> QED
  BY <1>2, <1>3 DEF StreamInv

-----------------------------------------------------------------------------
(* The streams.                                                            *)

\* A client connects.
LEMMA LoadKeeps ==
  ASSUME StreamInv, NEW s \in Streams, NEW t \in Transfers, Load(s, t)
  PROVE  StreamInv'
<1> DEFINE e == [n |-> progress[t], status |-> state[t]]
<1>1. e \in Events
  BY DEF StreamInv, TypeOK, Events
<1>2. sent' \in [Streams -> Seq(Events)]
  <2>1. Append(sent[s], e) \in Seq(Events)
    BY <1>1 DEF StreamInv, TypeOK
  <2>2. sent' = sent \/ sent' = [sent EXCEPT ![s] = Append(sent[s], e)]
    BY DEF Load
  <2> QED
    BY <2>1, <2>2 DEF StreamInv, TypeOK
<1>3. snap' \in [Streams -> Events]
  BY <1>1 DEF StreamInv, TypeOK, Load
<1>4. pc' \in [Streams -> StreamPCs] /\ tid' \in [Streams -> Transfers \cup {NoTransfer}]
  BY DEF StreamInv, TypeOK, Load, StreamPCs
<1>5. TypeOK'
  BY <1>2, <1>3, <1>4 DEF StreamInv, TypeOK, Load, engine, hub
<1>6. Working' /\ panicked' = FALSE
  BY DEF StreamInv, Working, Load, engine, hub
<1>7. Placed' /\ Fresh'
  BY DEF StreamInv, TypeOK, Placed, Fresh, Load, hub
<1>8. Listed'
  BY DEF StreamInv, TypeOK, Listed, Load, hub, Served
<1> QED
  BY <1>5, <1>6, <1>7, <1>8 DEF StreamInv

\* A stream subscribes.
LEMMA SubscribeKeeps ==
  ASSUME StreamInv, NEW s \in Streams, Subscribe(s)
  PROVE  StreamInv'
<1>1. tid[s] \in Transfers /\ closed[s] = FALSE
  BY DEF StreamInv, Placed, Fresh, Subscribe
<1>2. /\ subscribers' \in [Transfers -> SUBSET Streams]
      /\ pc' \in [Streams -> StreamPCs]
  BY <1>1 DEF StreamInv, TypeOK, Subscribe, StreamPCs
<1>3. TypeOK'
  BY <1>2 DEF StreamInv, TypeOK, Subscribe, engine
<1>4. Working' /\ panicked' = FALSE
  BY DEF StreamInv, Working, Subscribe, engine
<1>5. Placed' /\ Fresh'
  BY DEF StreamInv, TypeOK, Placed, Fresh, Subscribe
<1>6. Listed'
  BY <1>1 DEF StreamInv, TypeOK, Listed, Subscribe, Served
<1> QED
  BY <1>3, <1>4, <1>5, <1>6 DEF StreamInv

\* The initial event is written.
LEMMA SendInitialKeeps ==
  ASSUME StreamInv, NEW s \in Streams, SendInitial(s)
  PROVE  StreamInv'
<1>1. /\ sent' \in [Streams -> Seq(Events)]
      /\ pc' \in [Streams -> StreamPCs]
  BY DEF StreamInv, TypeOK, SendInitial, StreamPCs
<1>2. TypeOK'
  BY <1>1 DEF StreamInv, TypeOK, SendInitial, engine, hub
<1>3. Working' /\ panicked' = FALSE
  BY DEF StreamInv, Working, SendInitial, engine, hub
<1>4. Placed' /\ Fresh' /\ Listed'
  BY DEF StreamInv, TypeOK, Placed, Fresh, Listed, SendInitial, hub, Served
<1> QED
  BY <1>2, <1>3, <1>4 DEF StreamInv

\* An event is taken from the channel, or its end is noticed.
LEMMA ReceiveKeeps ==
  ASSUME StreamInv, NEW s \in Streams, Receive(s)
  PROVE  StreamInv'
<1>1. sent' \in [Streams -> Seq(Events)]
  <2>1. buf[s] \in Seq(Events) /\ sent[s] \in Seq(Events)
    BY DEF StreamInv, TypeOK
  <2>2. CASE buf[s] # <<>> /\ sent' = [sent EXCEPT ![s] = Append(@, Head(buf[s]))]
    <3>1. Head(buf[s]) \in Events
      BY <2>1, <2>2
    <3>2. Append(sent[s], Head(buf[s])) \in Seq(Events)
      BY <2>1, <3>1
    <3> QED
      BY <2>2, <3>2 DEF StreamInv, TypeOK
  <2>3. CASE sent' = sent
    BY <2>3 DEF StreamInv, TypeOK
  <2> QED
    BY <2>2, <2>3 DEF Receive
<1>2. /\ buf' \in [Streams -> Seq(Events)]
      /\ \A r \in Streams : Len(buf'[r]) <= BufferSize
  <2>1. buf[s] \in Seq(Events) /\ Len(buf[s]) <= BufferSize
    BY DEF StreamInv, TypeOK
  <2>2. CASE buf[s] # <<>> /\ buf' = [buf EXCEPT ![s] = Tail(@)]
    <3>1. Tail(buf[s]) \in Seq(Events) /\ Len(Tail(buf[s])) = Len(buf[s]) - 1
      BY <2>1, <2>2
    <3>2. Len(Tail(buf[s])) <= BufferSize
      BY <2>1, <3>1, StreamAssumption
    <3> QED
      BY <2>2, <3>1, <3>2 DEF StreamInv, TypeOK
  <2>3. CASE buf' = buf
    BY <2>3 DEF StreamInv, TypeOK
  <2> QED
    BY <2>2, <2>3 DEF Receive
<1>3. pc' \in [Streams -> StreamPCs]
  BY DEF StreamInv, TypeOK, Receive, StreamPCs
<1>4. TypeOK'
  BY <1>1, <1>2, <1>3 DEF StreamInv, TypeOK, Receive, engine
<1>5. Working' /\ panicked' = FALSE
  BY DEF StreamInv, Working, Receive, engine
<1>6. \A r \in Streams : \/ pc'[r] = pc[r]
                         \/ pc[r] = "loop" /\ pc'[r] = "ending"
  BY DEF StreamInv, TypeOK, Receive
<1>7. UNCHANGED <<subscribers, closed, tid>>
  BY DEF Receive
<1>8. Placed' /\ Fresh' /\ Listed'
  BY <1>6, <1>7 DEF StreamInv, Placed, Fresh, Listed, Served
<1> QED
  BY <1>4, <1>5, <1>8 DEF StreamInv

\* A client goes away.
LEMMA ClientLeavesKeeps ==
  ASSUME StreamInv, NEW s \in Streams, ClientLeaves(s)
  PROVE  StreamInv'
<1>1. pc' \in [Streams -> StreamPCs]
  BY DEF StreamInv, TypeOK, ClientLeaves, StreamPCs
<1>2. TypeOK'
  BY <1>1 DEF StreamInv, TypeOK, ClientLeaves, engine, hub
<1>3. Working' /\ panicked' = FALSE
  BY DEF StreamInv, Working, ClientLeaves, engine, hub
<1>4. Placed' /\ Fresh' /\ Listed'
  BY DEF StreamInv, TypeOK, Placed, Fresh, Listed, ClientLeaves, hub, Served
<1> QED
  BY <1>2, <1>3, <1>4 DEF StreamInv

\* The deferred unsubscribe: the channel is closed here unless it was before.
LEMMA UnsubscribeKeeps ==
  ASSUME StreamInv, NEW s \in Streams, Unsubscribe(s)
  PROVE  StreamInv'
<1>1. tid[s] \in Transfers
  BY DEF StreamInv, Placed, Unsubscribe
<1>2. pc' \in [Streams -> StreamPCs]
  BY DEF StreamInv, TypeOK, Unsubscribe, StreamPCs
<1>3. panicked' = FALSE
  BY DEF StreamInv, Unsubscribe, HubUnsubscribe, CloseChannels
<1>4. /\ closed' \in [Streams -> BOOLEAN]
      /\ \A r \in Streams : closed'[r] = (closed[r] \/ r = s)
  <2>1. CASE closed[s]
    BY <2>1 DEF StreamInv, TypeOK, Unsubscribe, HubUnsubscribe
  <2>2. CASE ~closed[s]
    BY <2>2 DEF StreamInv, TypeOK, Unsubscribe, HubUnsubscribe, CloseChannels
  <2> QED
    BY <2>1, <2>2
<1>5. /\ subscribers' \in [Transfers -> SUBSET Streams]
      /\ \A t \in Transfers : subscribers'[t] = subscribers[t] \ {s}
  <2>1. \A t \in Transfers : s \in subscribers[t] => tid[s] = t /\ closed[s] = FALSE
    BY DEF StreamInv, Listed
  <2>2. CASE closed[s]
    BY <2>1, <2>2 DEF StreamInv, TypeOK, Unsubscribe, HubUnsubscribe
  <2>3. CASE ~closed[s]
    <3>1. subscribers' = [subscribers EXCEPT ![tid[s]] = @ \ {s}]
      BY <2>3 DEF Unsubscribe, HubUnsubscribe
    <3>2. subscribers \in [Transfers -> SUBSET Streams]
      BY DEF StreamInv, TypeOK
    <3>3. \A t \in Transfers : t # tid[s] => subscribers[t] = subscribers[t] \ {s}
      BY <2>1
    <3> QED
      BY <1>1, <3>1, <3>2, <3>3
  <2> QED
    BY <2>2, <2>3
<1>6. TypeOK'
  BY <1>2, <1>3, <1>4, <1>5 DEF StreamInv, TypeOK, Unsubscribe, engine
<1>7. Working'
  BY DEF StreamInv, Working, Unsubscribe, engine
<1>8. /\ tid' = tid
      /\ \A r \in Streams : r # s => pc'[r] = pc[r]
      /\ pc'[s] \in {"ended", "left"}
      /\ pc[s] # "idle"
  BY DEF StreamInv, TypeOK, Unsubscribe
<1>9. Placed' /\ Fresh'
  BY <1>4, <1>8 DEF StreamInv, Placed, Fresh
<1>10. Listed'
  BY <1>4, <1>5, <1>8 DEF StreamInv, Listed, Served
<1> QED
  BY <1>3, <1>6, <1>7, <1>9, <1>10 DEF StreamInv

\* A stutter changes nothing.
LEMMA StutterKeeps == StreamInv /\ UNCHANGED vars => StreamInv'
  BY DEF StreamInv, TypeOK, Working, Placed, Fresh, Listed, vars

-----------------------------------------------------------------------------
(* The theorems.                                                           *)

(***************************************************************************)
(* The inductive invariant of the streams, for every number of transfers,  *)
(* handlers and streams and every buffer size.                             *)
(***************************************************************************)
THEOREM StreamInvariance == Spec => []StreamInv
<1>1. StreamInv /\ [Next]_vars => StreamInv'
  <2> SUFFICES ASSUME StreamInv, [Next]_vars PROVE StreamInv'
    OBVIOUS
  <2>1. CASE \E h \in Handlers, t \in Transfers : Cancel(h, t)
    BY <2>1, CancelKeeps
  <2>2. CASE \E h \in Handlers, t \in Transfers, status \in Statuses :
               Report(h, t, status)
    BY <2>2, ReportKeeps
  <2>3. CASE \E h \in Handlers : HandlerStep(h)
    BY <2>3, PersistKeeps, PublishKeeps, SettleKeeps, CloseKeeps DEF HandlerStep
  <2>4. CASE \E h \in Handlers : StatementFails(h)
    BY <2>4, StatementFailsKeeps
  <2>5. CASE \E t \in Transfers : CreateFails(t)
    BY <2>5, CreateFailsKeeps
  <2>6. CASE \E s \in Streams : StreamStep(s)
    BY <2>6, SubscribeKeeps, SendInitialKeeps, ReceiveKeeps, UnsubscribeKeeps
       DEF StreamStep
  <2>7. CASE \E s \in Streams : ClientLeaves(s)
    BY <2>7, ClientLeavesKeeps
  <2>8. CASE \E s \in Streams, t \in Transfers : Load(s, t)
    BY <2>8, LoadKeeps
  <2>9. CASE UNCHANGED vars
    BY <2>9, StutterKeeps
  <2> QED
    BY <2>1, <2>2, <2>3, <2>4, <2>5, <2>6, <2>7, <2>8, <2>9 DEF Next
<1> QED
  BY <1>1, StreamInit, PTL DEF Spec

(***************************************************************************)
(* Every variable keeps its type, and no channel holds more than its       *)
(* buffer.                                                                 *)
(***************************************************************************)
THEOREM StreamTypeCorrect == Spec => []TypeOK
<1>1. StreamInv => TypeOK
  BY DEF StreamInv
<1> QED
  BY <1>1, StreamInvariance, PTL

(***************************************************************************)
(* The hub never makes the control plane panic.                            *)
(***************************************************************************)
THEOREM HubNeverPanics == Spec => []NoPanic
<1>1. StreamInv => NoPanic
  BY DEF StreamInv, NoPanic
<1> QED
  BY <1>1, StreamInvariance, PTL

(***************************************************************************)
(* The hub's map holds exactly the streams being served with an open       *)
(* channel.                                                                *)
(***************************************************************************)
THEOREM SubscribersAlwaysLive == Spec => []SubscribersAreLive
<1>1. StreamInv => SubscribersAreLive
  BY DEF StreamInv, TypeOK, Listed, Served, SubscribersAreLive
<1> QED
  BY <1>1, StreamInvariance, PTL

-----------------------------------------------------------------------------
(* The order of the events.  A report's number is taken once, so a handler *)
(* publishes an event no stream has seen (Numbered): it can only come last *)
(* in a channel.  What a client got and what waits for it is one sequence  *)
(* (Got), which receiving leaves as it is.                                 *)

Got(s) == IF sent[s] = <<>> THEN buf[s] ELSE Tail(sent[s]) \o buf[s]

\* The elements of q are elements of p, in the order of p.
OrderedIn(q, p) ==
  /\ \A i \in 1 .. Len(q) : \E k \in 1 .. Len(p) : p[k] = q[i]
  /\ \A i, j \in 1 .. Len(q), k, l \in 1 .. Len(p) :
       i < j /\ p[k] = q[i] /\ p[l] = q[j] => k < l

\* A report in flight has a number of its own, which was not published yet.
Reporting(h) == hp[h].pc \in {"persist", "publish"}
Numbered ==
  /\ \A h \in Handlers : Reporting(h) =>
       /\ hp[h].n <= reports
       /\ \A g \in Handlers : Reporting(g) /\ hp[g].n = hp[h].n => g = h
       /\ \A t \in Transfers : \A i \in 1 .. Len(published[t]) : published[t][i].n # hp[h].n
  /\ \A t \in Transfers : \A i \in 1 .. Len(published[t]) : published[t][i].n <= reports

\* A stream has written its initial event once it serves, and nothing waits for
\* it before it subscribes.
Begun ==
  \A s \in Streams :
    /\ pc[s] \in {"idle", "subscribe"} => buf[s] = <<>>
    /\ pc[s] \in {"idle", "subscribe", "initial"} => sent[s] = <<>>
    /\ pc[s] \in {"loop", "ending", "leaving"} => sent[s] # <<>>

InOrder == \A s \in Streams : pc[s] # "idle" => OrderedIn(Got(s), published[tid[s]])

OrderInv == Numbered /\ Begun /\ InOrder

\* An empty stream is in order.
LEMMA EmptyOrdered == ASSUME NEW p PROVE OrderedIn(<<>>, p)
  BY DEF OrderedIn

\* Only the elements matter.
LEMMA SameOrdered ==
  ASSUME NEW q \in Seq(Events), NEW r \in Seq(Events), NEW p,
         Len(q) = Len(r), \A i \in 1 .. Len(q) : q[i] = r[i], OrderedIn(q, p)
  PROVE  OrderedIn(r, p)
  BY DEF OrderedIn

\* A new event published last leaves the order of the others alone.
LEMMA OrderedBefore ==
  ASSUME NEW q \in Seq(Events), NEW p \in Seq(Events), NEW e \in Events,
         \A i \in 1 .. Len(p) : p[i].n # e.n, OrderedIn(q, p)
  PROVE  OrderedIn(q, Append(p, e))
<1>1. /\ Len(Append(p, e)) = Len(p) + 1 /\ Append(p, e)[Len(p) + 1] = e
      /\ \A k \in 1 .. Len(p) : Append(p, e)[k] = p[k]
      /\ Len(p) \in Nat /\ Len(q) \in Nat
  OBVIOUS
<1>2. ASSUME NEW i \in 1 .. Len(q), NEW k \in 1 .. Len(Append(p, e)), Append(p, e)[k] = q[i]
      PROVE  k \in 1 .. Len(p) /\ p[k] = q[i]
  <2>1. PICK m \in 1 .. Len(p) : p[m] = q[i]
    BY DEF OrderedIn
  <2>2. q[i] # e
    BY <2>1
  <2> QED
    BY <1>1, <1>2, <2>2
<1>3. \A i \in 1 .. Len(q) : \E k \in 1 .. Len(Append(p, e)) : Append(p, e)[k] = q[i]
  BY <1>1 DEF OrderedIn
<1>4. ASSUME NEW i \in 1 .. Len(q), NEW j \in 1 .. Len(q),
             NEW k \in 1 .. Len(Append(p, e)), NEW l \in 1 .. Len(Append(p, e)),
             i < j, Append(p, e)[k] = q[i], Append(p, e)[l] = q[j]
      PROVE  k < l
  <2>1. /\ k \in 1 .. Len(p) /\ p[k] = q[i]
        /\ l \in 1 .. Len(p) /\ p[l] = q[j]
    BY <1>2, <1>4
  <2> QED
    BY <2>1, <1>4 DEF OrderedIn
<1> QED
  BY <1>3, <1>4 DEF OrderedIn

\* A channel that takes the new event has it last.
LEMMA OrderedLast ==
  ASSUME NEW q \in Seq(Events), NEW p \in Seq(Events), NEW e \in Events,
         \A i \in 1 .. Len(p) : p[i].n # e.n, OrderedIn(q, p)
  PROVE  OrderedIn(Append(q, e), Append(p, e))
<1> DEFINE r == Append(p, e)
           a == Append(q, e)
<1>1. /\ Len(r) = Len(p) + 1 /\ r[Len(p) + 1] = e
      /\ \A k \in 1 .. Len(p) : r[k] = p[k]
      /\ Len(a) = Len(q) + 1 /\ a[Len(q) + 1] = e
      /\ \A k \in 1 .. Len(q) : a[k] = q[k]
      /\ Len(p) \in Nat /\ Len(q) \in Nat
  OBVIOUS
<1>2. /\ \A i \in 1 .. Len(q) : \E k \in 1 .. Len(r) : r[k] = q[i]
      /\ \A i, j \in 1 .. Len(q), k, l \in 1 .. Len(r) :
           i < j /\ r[k] = q[i] /\ r[l] = q[j] => k < l
  <2>1. OrderedIn(q, r)
    BY OrderedBefore
  <2> QED
    BY <2>1 DEF OrderedIn
<1>l. Len(a) = Len(q) + 1 /\ Len(q) \in Nat
  BY <1>1
<1>3. ASSUME NEW k \in 1 .. Len(r), r[k] = e PROVE k = Len(p) + 1
  BY <1>1, <1>3
<1>4. \A i \in 1 .. Len(q) : q[i] # e
  BY DEF OrderedIn
<1> HIDE DEF r, a
<1>5. ASSUME NEW i \in 1 .. Len(a) PROVE \E k \in 1 .. Len(r) : r[k] = a[i]
  <2>0. i \in 1 .. Len(q) \/ i = Len(q) + 1
    BY <1>l
  <2>1. CASE i \in 1 .. Len(q)
    BY <2>1, <1>1, <1>2
  <2>2. CASE i = Len(q) + 1
    <3>1. Len(p) + 1 \in 1 .. Len(r)
      BY <1>1
    <3> QED
      BY <2>2, <3>1, <1>1
  <2> QED
    BY <2>0, <2>1, <2>2
<1>6. ASSUME NEW i \in 1 .. Len(a), NEW j \in 1 .. Len(a), NEW k \in 1 .. Len(r),
             NEW l \in 1 .. Len(r), i < j, r[k] = a[i], r[l] = a[j]
      PROVE  k < l
  <2>0. j \in 1 .. Len(q) \/ j = Len(q) + 1
    BY <1>l
  <2>1. i \in 1 .. Len(q) /\ a[i] = q[i]
    BY <1>1, <1>6
  <2>2. CASE j \in 1 .. Len(q)
    <3>1. a[j] = q[j]
      BY <2>2, <1>1
    <3> QED
      BY <3>1, <2>1, <2>2, <1>2, <1>6
  <2>3. CASE j = Len(q) + 1
    <3>1. l = Len(p) + 1
      BY <2>3, <1>1, <1>3, <1>6
    <3>2. k # Len(p) + 1
      BY <2>1, <1>1, <1>4, <1>6
    <3> QED
      BY <3>1, <3>2, <1>1
  <2> QED
    BY <2>0, <2>2, <2>3
<1> QED
  BY <1>5, <1>6 DEF OrderedIn, r, a

\* The tail of what a client got.
LEMMA TailTyped ==
  ASSUME NEW q \in Seq(Events), q # <<>>
  PROVE  Tail(q) \in Seq(Events) /\ Len(Tail(q)) = Len(q) - 1
  OBVIOUS

\* Nothing comes after the initial event.
LEMMA AfterInitial ==
  ASSUME NEW e \in Events, NEW q \in Seq(Events)
  PROVE  /\ Tail(<<e>>) \o q \in Seq(Events) /\ Len(Tail(<<e>>) \o q) = Len(q)
         /\ \A i \in 1 .. Len(q) : q[i] = (Tail(<<e>>) \o q)[i]
         /\ <<e>> # <<>> /\ Tail(<<e>>) \o <<>> = <<>>
<1>1. Tail(<<e>>) = <<>> /\ <<e>> # <<>>
  OBVIOUS
<1> QED
  BY <1>1

\* An event that comes last in the channel comes last in all.
LEMMA ConcatAppend ==
  ASSUME NEW q \in Seq(Events), NEW r \in Seq(Events), NEW e \in Events
  PROVE  /\ q \o Append(r, e) \in Seq(Events)
         /\ Len(q \o Append(r, e)) = Len(Append(q \o r, e))
         /\ \A i \in 1 .. Len(Append(q \o r, e)) : Append(q \o r, e)[i] = (q \o Append(r, e))[i]
  OBVIOUS

\* The elements of two sequences put together.
LEMMA ConcatElements ==
  ASSUME NEW q \in Seq(Events), NEW r \in Seq(Events)
  PROVE  /\ q \o r \in Seq(Events) /\ Len(q \o r) = Len(q) + Len(r)
         /\ \A i \in 1 .. Len(q) : (q \o r)[i] = q[i]
         /\ \A i \in 1 .. Len(r) : (q \o r)[Len(q) + i] = r[i]
  OBVIOUS

\* An event that moves from the channel to the client stays in its place.
LEMMA MoveOne ==
  ASSUME NEW q \in Seq(Events), NEW r \in Seq(Events), q # <<>>, r # <<>>
  PROVE  /\ Append(q, Head(r)) # <<>>
         /\ Tail(q) \o r \in Seq(Events)
         /\ Tail(Append(q, Head(r))) \o Tail(r) \in Seq(Events)
         /\ Len(Tail(Append(q, Head(r))) \o Tail(r)) = Len(Tail(q) \o r)
         /\ \A i \in 1 .. Len(Tail(q) \o r) :
              (Tail(q) \o r)[i] = (Tail(Append(q, Head(r))) \o Tail(r))[i]
<1> DEFINE a == Append(q, Head(r))
<1>1. /\ Head(r) \in Events /\ Head(r) = r[1] /\ Len(q) \in Nat \ {0} /\ Len(r) \in Nat \ {0}
  OBVIOUS
<1>2. /\ a \in Seq(Events) /\ Len(a) = Len(q) + 1 /\ a[Len(q) + 1] = r[1]
      /\ \A i \in 1 .. Len(q) : a[i] = q[i]
  BY <1>1
<1>3. a # <<>>
  BY <1>1, <1>2
<1> HIDE DEF a
<1>4. /\ Tail(q) \in Seq(Events) /\ Len(Tail(q)) = Len(q) - 1
      /\ \A i \in 1 .. (Len(q) - 1) : Tail(q)[i] = q[i + 1]
  BY <1>1
<1>5. /\ Tail(r) \in Seq(Events) /\ Len(Tail(r)) = Len(r) - 1
      /\ \A i \in 1 .. (Len(r) - 1) : Tail(r)[i] = r[i + 1]
  BY <1>1
<1>6. /\ Tail(a) \in Seq(Events) /\ Len(Tail(a)) = Len(q)
      /\ \A i \in 1 .. Len(q) : Tail(a)[i] = a[i + 1]
  BY <1>1, <1>2, <1>3
<1>7. /\ Tail(q) \o r \in Seq(Events) /\ Len(Tail(q) \o r) = Len(q) - 1 + Len(r)
      /\ \A i \in 1 .. (Len(q) - 1) : (Tail(q) \o r)[i] = q[i + 1]
      /\ \A i \in 1 .. Len(r) : (Tail(q) \o r)[Len(q) - 1 + i] = r[i]
  BY <1>1, <1>4, ConcatElements
<1>8. /\ Tail(a) \o Tail(r) \in Seq(Events) /\ Len(Tail(a) \o Tail(r)) = Len(q) + (Len(r) - 1)
      /\ \A i \in 1 .. Len(q) : (Tail(a) \o Tail(r))[i] = a[i + 1]
      /\ \A i \in 1 .. (Len(r) - 1) : (Tail(a) \o Tail(r))[Len(q) + i] = r[i + 1]
  <2> DEFINE u == Tail(a)
             v == Tail(r)
  <2>1. /\ u \in Seq(Events) /\ v \in Seq(Events) /\ Len(u) = Len(q) /\ Len(v) = Len(r) - 1
        /\ \A i \in 1 .. Len(q) : u[i] = a[i + 1]
        /\ \A i \in 1 .. (Len(r) - 1) : v[i] = r[i + 1]
    BY <1>5, <1>6
  <2> HIDE DEF u, v
  <2>2. /\ u \o v \in Seq(Events) /\ Len(u \o v) = Len(u) + Len(v)
        /\ \A i \in 1 .. Len(u) : (u \o v)[i] = u[i]
        /\ \A i \in 1 .. Len(v) : (u \o v)[Len(u) + i] = v[i]
    BY <2>1, ConcatElements
  <2> DEFINE w == u \o v
  <2>3. /\ w \in Seq(Events) /\ Len(w) = Len(u) + Len(v)
        /\ \A i \in 1 .. Len(u) : w[i] = u[i]
        /\ \A i \in 1 .. Len(v) : w[Len(u) + i] = v[i]
    BY <2>2
  <2> HIDE DEF w
  <2>4. /\ w \in Seq(Events) /\ Len(w) = Len(q) + (Len(r) - 1)
        /\ \A i \in 1 .. Len(q) : w[i] = a[i + 1]
        /\ \A i \in 1 .. (Len(r) - 1) : w[Len(q) + i] = r[i + 1]
    BY <2>1, <2>3
  <2> QED
    BY <2>4 DEF u, v, w
<1> DEFINE x == Tail(q) \o r
           y == Tail(a) \o Tail(r)
<1>x. /\ x \in Seq(Events) /\ y \in Seq(Events) /\ Len(x) = Len(q) - 1 + Len(r) /\ Len(y) = Len(x)
      /\ \A i \in 1 .. (Len(q) - 1) : x[i] = q[i + 1] /\ y[i] = a[i + 1]
      /\ x[Len(q)] = r[1] /\ y[Len(q)] = a[Len(q) + 1]
      /\ \A i \in 1 .. (Len(r) - 1) : x[Len(q) + i] = r[i + 1] /\ y[Len(q) + i] = r[i + 1]
  <2>1. \A i \in 1 .. (Len(r) - 1) : x[Len(q) + i] = r[i + 1]
    <3> SUFFICES ASSUME NEW i \in 1 .. (Len(r) - 1) PROVE x[Len(q) + i] = r[i + 1]
      OBVIOUS
    <3>1. i + 1 \in 1 .. Len(r) /\ Len(q) - 1 + (i + 1) = Len(q) + i
      BY <1>1
    <3> QED
      BY <3>1, <1>7
  <2>2. x[Len(q)] = r[1]
    <3>1. 1 \in 1 .. Len(r) /\ Len(q) - 1 + 1 = Len(q)
      BY <1>1
    <3> QED
      BY <3>1, <1>7
  <2> QED
    BY <2>1, <2>2, <1>1, <1>7, <1>8
<1> HIDE DEF x, y
<1>9. ASSUME NEW i \in 1 .. Len(x) PROVE x[i] = y[i]
  <2>0. i \in Nat /\ 1 <= i /\ i <= Len(q) - 1 + Len(r)
    BY <1>x, <1>1, <1>9
  <2>1. CASE i < Len(q)
    <3>1. i \in 1 .. (Len(q) - 1) /\ i + 1 \in 1 .. Len(q)
      BY <2>0, <2>1, <1>1
    <3> QED
      BY <3>1, <1>2, <1>x
  <2>2. CASE i = Len(q)
    BY <2>2, <1>2, <1>x
  <2>3. CASE i > Len(q)
    <3>1. PICK m \in 1 .. (Len(r) - 1) : i = Len(q) + m
      <4>1. i - Len(q) \in 1 .. (Len(r) - 1) /\ i = Len(q) + (i - Len(q))
        BY <2>0, <2>3, <1>1
      <4> QED
        BY <4>1
    <3> QED
      BY <3>1, <1>x
  <2> QED
    BY <2>0, <2>1, <2>2, <2>3, <1>1
<1> QED
  BY <1>3, <1>x, <1>9 DEF a, x, y

\* What a client got is a sequence of events.
LEMMA GotTyped == ASSUME StreamInv, NEW s \in Streams PROVE Got(s) \in Seq(Events)
  BY DEF StreamInv, TypeOK, Got

\* An event in flight is new to its transfer.
LEMMA PublishKeepsOrder ==
  ASSUME StreamInv, OrderInv, NEW h \in Handlers, Publish(h)
  PROVE  OrderInv'
<1> DEFINE t == hp[h].t
           e == [n |-> hp[h].n, status |-> hp[h].status]
<1>1. /\ hp \in [Handlers -> HandlerStates] /\ t \in Transfers /\ e \in Events /\ Reporting(h)
      /\ published \in [Transfers -> Seq(Events)] /\ published[t] \in Seq(Events)
      /\ reports \in Nat
  <2>1. /\ hp \in [Handlers -> HandlerStates] /\ published \in [Transfers -> Seq(Events)]
        /\ reports \in Nat /\ hp[h].pc = "publish"
    BY StreamAssumption DEF StreamInv, TypeOK, Publish
  <2>2. t \in Transfers
    BY <2>1 DEF StreamInv, Working
  <2>3. e \in Events
    BY <2>1 DEF HandlerStates, Events
  <2>4. Reporting(h)
    BY <2>1 DEF Reporting
  <2> QED
    BY <2>1, <2>2, <2>3, <2>4
<1>2. /\ published' = [published EXCEPT ![t] = Append(@, e)]
      /\ UNCHANGED <<reports, pc, tid, sent>>
      /\ buf' = [s \in Streams |-> IF s \in subscribers[t] THEN Offered(buf[s], e) ELSE buf[s]]
  BY DEF Publish, stream
<1>3. /\ published'[t] = Append(published[t], e)
      /\ \A u \in Transfers : u # t => published'[u] = published[u]
  BY <1>1, <1>2
<1>4. \A i \in 1 .. Len(published[t]) : published[t][i].n # e.n
  BY <1>1 DEF OrderInv, Numbered
<1>5. /\ Len(published'[t]) = Len(published[t]) + 1 /\ published'[t][Len(published[t]) + 1] = e
      /\ \A i \in 1 .. Len(published[t]) : published'[t][i] = published[t][i]
      /\ Len(published[t]) \in Nat
  BY <1>1, <1>3
<1>6. \A g \in Handlers : Reporting(g)' => Reporting(g) /\ g # h /\ hp'[g].n = hp[g].n
  <2>1. ~Reporting(h)'
    <3>1. hp'[h].pc \in {"settle", "idle"}
      BY <1>1 DEF Publish, AfterPublish, HandlerReturns, IdleHandler, HandlerStates
    <3> QED
      BY <3>1 DEF Reporting
  <2>2. \A g \in Handlers : g # h => hp'[g] = hp[g]
    BY <1>1 DEF Publish, AfterPublish, HandlerReturns
  <2> QED
    BY <2>1, <2>2 DEF Reporting
<1>7. ASSUME NEW u \in Transfers, NEW i \in 1 .. Len(published'[u])
      PROVE  \/ i \in 1 .. Len(published[u]) /\ published'[u][i] = published[u][i]
             \/ published'[u][i] = e
  <2>1. CASE u = t
    <3>1. i \in 1 .. Len(published[t]) \/ i = Len(published[t]) + 1
      BY <2>1, <1>5, <1>7
    <3> QED
      BY <2>1, <3>1, <1>5
  <2>2. CASE u # t
    BY <2>2, <1>3, <1>7
  <2> QED
    BY <2>1, <2>2
<1>8. Numbered'
  <2>1. e.n = hp[h].n /\ e.n <= reports
    BY <1>1 DEF OrderInv, Numbered
  <2>2. \A u \in Transfers : \A i \in 1 .. Len(published'[u]) : published'[u][i].n <= reports'
    BY <2>1, <1>2, <1>7 DEF OrderInv, Numbered
  <2>3. ASSUME NEW g \in Handlers, Reporting(g)'
        PROVE  /\ hp'[g].n <= reports'
               /\ \A f \in Handlers : Reporting(f)' /\ hp'[f].n = hp'[g].n => f = g
               /\ \A u \in Transfers : \A i \in 1 .. Len(published'[u]) : published'[u][i].n # hp'[g].n
    <3>1. Reporting(g) /\ g # h /\ hp'[g].n = hp[g].n
      BY <2>3, <1>6
    <3>2. hp[g].n # e.n
      BY <3>1, <1>1, <2>1 DEF OrderInv, Numbered
    <3>3. \A u \in Transfers : \A i \in 1 .. Len(published'[u]) : published'[u][i].n # hp'[g].n
      BY <3>1, <3>2, <1>7 DEF OrderInv, Numbered
    <3> QED
      BY <3>1, <3>3, <1>2, <1>6 DEF OrderInv, Numbered
  <2> QED
    BY <2>2, <2>3 DEF Numbered
<1>9. \A s \in Streams : s \in subscribers[t] => tid[s] = t /\ pc[s] \in Served
  BY <1>1 DEF StreamInv, Listed
<1>10. Begun'
  BY <1>2, <1>9 DEF OrderInv, Begun, Served
<1>11. InOrder'
  <2> SUFFICES ASSUME NEW s \in Streams, pc[s] # "idle"
               PROVE  OrderedIn(Got(s)', published'[tid[s]])
    BY <1>2 DEF InOrder
  <2>1. /\ OrderedIn(Got(s), published[tid[s]]) /\ tid[s] \in Transfers
        /\ Got(s) \in Seq(Events) /\ buf[s] \in Seq(Events) /\ sent[s] \in Seq(Events)
    BY GotTyped DEF OrderInv, InOrder, StreamInv, Placed, TypeOK
  <2>2. CASE buf'[s] = buf[s]
    <3>1. Got(s)' = Got(s)
      BY <2>2, <1>2 DEF Got
    <3>2. CASE tid[s] = t
      BY <3>1, <3>2, <2>1, <1>1, <1>3, <1>4, OrderedBefore
    <3>3. CASE tid[s] # t
      BY <3>1, <3>3, <2>1, <1>3
    <3> QED
      BY <3>2, <3>3
  <2>3. CASE s \in subscribers[t] /\ buf'[s] = Append(buf[s], e)
    <3>1. Append(Got(s), e) \in Seq(Events)
      BY <2>1, <1>1
    <3>2. OrderedIn(Append(Got(s), e), published'[t])
      BY <2>1, <2>3, <1>1, <1>3, <1>4, <1>9, OrderedLast
    <3>3. /\ Got(s)' \in Seq(Events) /\ Len(Got(s)') = Len(Append(Got(s), e))
          /\ \A i \in 1 .. Len(Append(Got(s), e)) : Append(Got(s), e)[i] = Got(s)'[i]
      <4>1. CASE sent[s] = <<>>
        BY <4>1, <2>1, <2>3, <1>1, <1>2 DEF Got
      <4>2. CASE sent[s] # <<>>
        <5>1. /\ Got(s) = Tail(sent[s]) \o buf[s]
              /\ Got(s)' = Tail(sent[s]) \o Append(buf[s], e)
              /\ Tail(sent[s]) \in Seq(Events)
          BY <4>2, <2>1, <2>3, <1>2, TailTyped DEF Got
        <5>2. LET q == Tail(sent[s])
                  r == buf[s]
              IN  /\ q \o Append(r, e) \in Seq(Events)
                  /\ Len(q \o Append(r, e)) = Len(Append(q \o r, e))
                  /\ \A i \in 1 .. Len(Append(q \o r, e)) :
                       Append(q \o r, e)[i] = (q \o Append(r, e))[i]
          BY <5>1, <2>1, <1>1, ConcatAppend
        <5> QED
          BY <5>1, <5>2
      <4> QED
        BY <4>1, <4>2
    <3> QED
      BY <3>1, <3>2, <3>3, <2>3, <1>9, SameOrdered
  <2> QED
    BY <2>2, <2>3, <1>2 DEF Offered
<1> QED
  BY <1>8, <1>10, <1>11 DEF OrderInv

\* Receiving moves an event from the channel to the client.
LEMMA ReceiveKeepsOrder ==
  ASSUME StreamInv, OrderInv, NEW s \in Streams, Receive(s)
  PROVE  OrderInv'
<1>1. UNCHANGED <<reports, published, hp, tid>>
  BY DEF Receive, engine
<1>2. Numbered'
  BY <1>1 DEF OrderInv, Numbered, Reporting
<1>3. /\ buf[s] \in Seq(Events) /\ sent[s] \in Seq(Events) /\ sent[s] # <<>> /\ pc[s] = "loop"
  BY DEF StreamInv, TypeOK, OrderInv, Begun, Receive
<1>4. \A r \in Streams : /\ r # s => buf'[r] = buf[r] /\ sent'[r] = sent[r] /\ pc'[r] = pc[r]
                         /\ pc'[s] \in {"loop", "ending"}
  BY <1>3 DEF Receive, StreamInv, TypeOK
<1>5. CASE buf[s] # <<>> /\ sent'[s] = Append(sent[s], Head(buf[s])) /\ buf'[s] = Tail(buf[s])
  <2>1. sent'[s] # <<>>
    BY <1>3, <1>5, MoveOne
  <2>2. Begun'
    BY <2>1, <1>4 DEF OrderInv, Begun
  <2>3. Got(s) = Tail(sent[s]) \o buf[s] /\ Got(s)' = Tail(Append(sent[s], Head(buf[s]))) \o Tail(buf[s])
    BY <2>1, <1>3, <1>5 DEF Got
  <2>4. /\ Got(s) \in Seq(Events) /\ Got(s)' \in Seq(Events) /\ Len(Got(s)') = Len(Got(s))
        /\ \A i \in 1 .. Len(Got(s)) : Got(s)[i] = Got(s)'[i]
    <3>1. LET x == Tail(sent[s]) \o buf[s]
              y == Tail(Append(sent[s], Head(buf[s]))) \o Tail(buf[s])
          IN  /\ x \in Seq(Events) /\ y \in Seq(Events) /\ Len(y) = Len(x)
              /\ \A i \in 1 .. Len(x) : x[i] = y[i]
      BY <1>3, <1>5, MoveOne
    <3> QED
      BY <2>3, <3>1
  <2>5. InOrder'
    <3> SUFFICES ASSUME NEW r \in Streams, pc'[r] # "idle"
                 PROVE  OrderedIn(Got(r)', published[tid[r]])
      BY <1>1 DEF InOrder
    <3>1. CASE r = s
      BY <3>1, <2>4, <1>3, SameOrdered DEF OrderInv, InOrder
    <3>2. CASE r # s
      BY <3>2, <1>4 DEF OrderInv, InOrder, Got
    <3> QED
      BY <3>1, <3>2
  <2> QED
    BY <1>2, <2>2, <2>5 DEF OrderInv
<1>6. CASE UNCHANGED <<sent, buf>>
  BY <1>1, <1>2, <1>3, <1>4, <1>6 DEF OrderInv, Begun, InOrder, Got
<1> QED
  BY <1>5, <1>6 DEF Receive, StreamInv, TypeOK

\* A stream that has nothing yet goes on with nothing.
LEMMA LoadKeepsOrder ==
  ASSUME StreamInv, OrderInv, NEW s \in Streams, NEW t \in Transfers, Load(s, t)
  PROVE  OrderInv'
<1>1. Numbered'
  BY DEF OrderInv, Numbered, Reporting, Load, engine
<1>2. /\ sent[s] = <<>> /\ buf[s] = <<>> /\ buf' = buf /\ published' = published
      /\ \A r \in Streams : r # s => sent'[r] = sent[r] /\ pc'[r] = pc[r] /\ tid'[r] = tid[r]
      /\ pc'[s] \in {"subscribe", "ended"}
      /\ pc'[s] = "subscribe" => sent'[s] = <<>>
      /\ sent'[s] = <<>> \/ \E e \in Events : sent'[s] = <<e>>
  <2>1. [n |-> progress[t], status |-> state[t]] \in Events
    BY DEF StreamInv, TypeOK, Events
  <2> QED
    BY <2>1 DEF Load, StreamInv, TypeOK, OrderInv, Begun, engine, hub
<1>3. Begun'
  BY <1>2 DEF OrderInv, Begun
<1>4. Got(s)' = <<>>
  <2>1. CASE sent'[s] = <<>>
    BY <2>1, <1>2 DEF Got
  <2>2. CASE \E e \in Events : sent'[s] = <<e>>
    BY <2>2, <1>2, AfterInitial DEF Got
  <2> QED
    BY <2>1, <2>2, <1>2
<1>5. InOrder'
  BY <1>2, <1>4, EmptyOrdered DEF OrderInv, InOrder, Got
<1> QED
  BY <1>1, <1>3, <1>5 DEF OrderInv

\* The initial event comes before the sequence.
LEMMA SendInitialKeepsOrder ==
  ASSUME StreamInv, OrderInv, NEW s \in Streams, SendInitial(s)
  PROVE  OrderInv'
<1>1. Numbered'
  BY DEF OrderInv, Numbered, Reporting, SendInitial, engine
<1>2. /\ sent[s] = <<>> /\ UNCHANGED <<buf, published, tid>>
      /\ \A r \in Streams : r # s => sent'[r] = sent[r] /\ pc'[r] = pc[r]
      /\ pc[s] = "initial" /\ pc'[s] = "loop" /\ sent'[s] = Append(<<>>, snap[s])
      /\ buf[s] \in Seq(Events) /\ snap[s] \in Events
  BY DEF SendInitial, StreamInv, TypeOK, OrderInv, Begun, engine, hub
<1>3. sent'[s] = <<snap[s]>> /\ sent'[s] # <<>>
  BY <1>2
<1>4. Begun'
  BY <1>2, <1>3 DEF OrderInv, Begun
<1>5. Got(s) = buf[s] /\ Got(s)' = Tail(<<snap[s]>>) \o buf[s]
  BY <1>2, <1>3 DEF Got
<1>6. /\ Got(s)' \in Seq(Events) /\ Len(Got(s)') = Len(Got(s))
      /\ \A i \in 1 .. Len(Got(s)) : Got(s)[i] = Got(s)'[i]
  BY <1>2, <1>5, AfterInitial
<1>7. InOrder'
  <2> SUFFICES ASSUME NEW r \in Streams, pc'[r] # "idle"
               PROVE  OrderedIn(Got(r)', published[tid[r]])
    BY <1>2 DEF InOrder
  <2>1. CASE r = s
    BY <2>1, <1>2, <1>5, <1>6, SameOrdered DEF OrderInv, InOrder
  <2>2. CASE r # s
    BY <2>2, <1>2 DEF OrderInv, InOrder, Got
  <2> QED
    BY <2>1, <2>2
<1> QED
  BY <1>1, <1>4, <1>7 DEF OrderInv

\* A report takes the next number.
LEMMA ReportKeepsOrder ==
  ASSUME StreamInv, OrderInv, NEW h \in Handlers, NEW t \in Transfers,
         NEW status \in Statuses, Report(h, t, status)
  PROVE  OrderInv'
<1>1. Begun' /\ InOrder'
  BY DEF OrderInv, Begun, InOrder, Got, Report, hub, stream
<1>2. /\ reports \in Nat /\ reports' = reports + 1 /\ published' = published
      /\ hp'[h].n = reports + 1
      /\ \A g \in Handlers : g # h => hp'[g] = hp[g]
      /\ \A g \in Handlers : hp[g].n \in Nat
      /\ \A u \in Transfers : \A i \in 1 .. Len(published[u]) : published[u][i].n \in Nat
  <2>1. \A u \in Transfers : \A i \in 1 .. Len(published[u]) : published[u][i] \in Events
    BY DEF StreamInv, TypeOK
  <2> QED
    BY <2>1, StreamAssumption DEF Report, StreamInv, TypeOK, HandlerStates, Events
<1>3. ASSUME NEW g \in Handlers, Reporting(g)'
      PROVE  /\ hp'[g].n <= reports'
             /\ \A f \in Handlers : Reporting(f)' /\ hp'[f].n = hp'[g].n => f = g
             /\ \A u \in Transfers : \A i \in 1 .. Len(published[u]) : published[u][i].n # hp'[g].n
  <2>1. \A f \in Handlers : f # h /\ Reporting(f)' => Reporting(f) /\ hp'[f].n = hp[f].n
    BY <1>2 DEF Reporting
  <2>2. \A f \in Handlers : f # h /\ Reporting(f)' => hp'[f].n <= reports
    BY <2>1 DEF OrderInv, Numbered
  <2>3. CASE g = h
    <3>1. \A u \in Transfers : \A i \in 1 .. Len(published[u]) : published[u][i].n <= reports
      BY DEF OrderInv, Numbered
    <3> QED
      BY <2>1, <2>2, <2>3, <3>1, <1>2
  <2>4. CASE g # h
    <3>1. /\ Reporting(g) /\ hp'[g].n = hp[g].n /\ hp[g].n <= reports /\ hp[g].n \in Nat
      BY <1>2, <1>3, <2>1, <2>4 DEF OrderInv, Numbered
    <3>2. ASSUME NEW f \in Handlers, Reporting(f)', hp'[f].n = hp'[g].n PROVE f = g
      <4>1. f # h
        BY <3>1, <3>2, <1>2
      <4> QED
        BY <4>1, <3>1, <3>2, <2>1 DEF OrderInv, Numbered
    <3>3. \A u \in Transfers : \A i \in 1 .. Len(published[u]) : published[u][i].n # hp'[g].n
      BY <3>1 DEF OrderInv, Numbered
    <3> QED
      BY <3>1, <3>2, <3>3, <1>2
  <2> QED
    BY <2>3, <2>4
<1>4. \A u \in Transfers : \A i \in 1 .. Len(published[u]) : published[u][i].n <= reports'
  BY <1>2 DEF OrderInv, Numbered
<1>5. Numbered'
  BY <1>2, <1>3, <1>4 DEF Numbered
<1> QED
  BY <1>1, <1>5 DEF OrderInv

\* The other steps start no report, publish nothing and serve no event.
LEMMA QuietKeepsOrder ==
  ASSUME StreamInv, OrderInv, UNCHANGED <<reports, published, buf, sent, tid>>,
         \A h \in Handlers : Reporting(h)' => Reporting(h) /\ hp'[h].n = hp[h].n,
         \A s \in Streams : \/ pc'[s] = pc[s]
                            \/ pc[s] = "subscribe" /\ pc'[s] = "initial"
                            \/ pc[s] = "loop" /\ pc'[s] = "leaving"
                            \/ pc[s] # "idle" /\ pc'[s] \in {"ended", "left"}
  PROVE  OrderInv'
<1>1. Numbered'
  BY DEF OrderInv, Numbered
<1>2. Begun'
  BY DEF OrderInv, Begun
<1>3. InOrder'
  BY DEF OrderInv, InOrder, Got
<1> QED
  BY <1>1, <1>2, <1>3 DEF OrderInv

\* The handlers' other steps.
LEMMA HandlersKeepOrder ==
  ASSUME StreamInv, OrderInv, NEW h \in Handlers,
         Persist(h) \/ Settle(h) \/ Close(h) \/ StatementFails(h)
  PROVE  OrderInv'
<1>1. UNCHANGED <<reports, published, buf, sent, tid, pc>>
  BY DEF Persist, Settle, Close, HubClose, StatementFails, hub, stream
<1>2. \A g \in Handlers : Reporting(g)' => Reporting(g) /\ hp'[g].n = hp[g].n
  <2>1. hp \in [Handlers -> HandlerStates]
    BY DEF StreamInv, TypeOK
  <2>2. CASE HandlerReturns(h)
    BY <2>1, <2>2 DEF HandlerReturns, IdleHandler, Reporting
  <2>3. CASE Persist(h)
    BY <2>1, <2>3 DEF Persist, HandlerStates, Reporting
  <2>4. CASE Settle(h)
    BY <2>1, <2>4 DEF Settle, HandlerStates, Reporting
  <2> QED
    BY <2>2, <2>3, <2>4 DEF Close, StatementFails
<1> QED
  BY <1>1, <1>2, QuietKeepsOrder

\* A cancellation is no report.
LEMMA CancelKeepsOrder ==
  ASSUME StreamInv, OrderInv, NEW h \in Handlers, NEW t \in Transfers, Cancel(h, t)
  PROVE  OrderInv'
<1>1. UNCHANGED <<reports, published, buf, sent, tid, pc>>
  BY DEF Cancel, hub, stream
<1>2. \A g \in Handlers : Reporting(g)' => Reporting(g) /\ hp'[g].n = hp[g].n
  BY DEF StreamInv, TypeOK, Reporting, Cancel
<1> QED
  BY <1>1, <1>2, QuietKeepsOrder

\* Subscribing, leaving and unsubscribing.
LEMMA StreamsKeepOrder ==
  ASSUME StreamInv, OrderInv, NEW s \in Streams,
         Subscribe(s) \/ Unsubscribe(s) \/ ClientLeaves(s)
  PROVE  OrderInv'
<1>1. UNCHANGED <<reports, published, buf, sent, tid, hp>>
  BY DEF Subscribe, Unsubscribe, ClientLeaves, engine, hub
<1>2. \A r \in Streams : \/ pc'[r] = pc[r]
                         \/ pc[r] = "subscribe" /\ pc'[r] = "initial"
                         \/ pc[r] = "loop" /\ pc'[r] = "leaving"
                         \/ pc[r] # "idle" /\ pc'[r] \in {"ended", "left"}
  BY DEF StreamInv, TypeOK, Subscribe, Unsubscribe, ClientLeaves
<1> QED
  BY <1>1, <1>2, QuietKeepsOrder DEF Reporting

(***************************************************************************)
(* A client gets events of its own transfer in the order they were         *)
(* published, none twice (hub.go:78-93, sse_handler.go), for any number of *)
(* transfers, handlers and streams and any buffer size.                    *)
(***************************************************************************)
THEOREM StreamsKeepTheirOrder == Spec => []StreamKeepsOrder
<1>1. Init => OrderInv
  BY StreamInit, EmptyOrdered
     DEF Init, OrderInv, Numbered, Reporting, Begun, InOrder, IdleHandler
<1>2. StreamInv /\ OrderInv /\ [Next]_vars => OrderInv'
  <2> SUFFICES ASSUME StreamInv, OrderInv, [Next]_vars PROVE OrderInv'
    OBVIOUS
  <2>1. CASE \E h \in Handlers, t \in Transfers : Cancel(h, t)
    BY <2>1, CancelKeepsOrder
  <2>2. CASE \E h \in Handlers, t \in Transfers, status \in Statuses :
               Report(h, t, status)
    BY <2>2, ReportKeepsOrder
  <2>3. CASE \E h \in Handlers : HandlerStep(h) \/ StatementFails(h)
    BY <2>3, PublishKeepsOrder, HandlersKeepOrder DEF HandlerStep
  <2>4. CASE \E t \in Transfers : CreateFails(t)
    BY <2>4, QuietKeepsOrder DEF CreateFails, Reporting, hub, stream
  <2>5. CASE \E s \in Streams : StreamStep(s) \/ ClientLeaves(s)
    BY <2>5, SendInitialKeepsOrder, ReceiveKeepsOrder, StreamsKeepOrder DEF StreamStep
  <2>6. CASE \E s \in Streams, t \in Transfers : Load(s, t)
    BY <2>6, LoadKeepsOrder
  <2>7. CASE UNCHANGED vars
    BY <2>7, QuietKeepsOrder DEF vars, Reporting
  <2> QED
    BY <2>1, <2>2, <2>3, <2>4, <2>5, <2>6, <2>7 DEF Next
<1>3. StreamInv /\ OrderInv => StreamKeepsOrder
  <2> SUFFICES ASSUME StreamInv, OrderInv, NEW s \in Streams, Got(s) # <<>>
               PROVE  /\ \A i \in 1 .. Len(Got(s)) :
                           \E k \in 1 .. Len(published[tid[s]]) : published[tid[s]][k] = Got(s)[i]
                      /\ \A i, j \in 1 .. Len(Got(s)) :
                           i < j => Position(tid[s], Got(s)[i]) < Position(tid[s], Got(s)[j])
    BY DEF StreamKeepsOrder, Got
  <2>1. pc[s] # "idle"
    BY DEF OrderInv, Begun, Got
  <2>2. OrderedIn(Got(s), published[tid[s]])
    BY <2>1 DEF OrderInv, InOrder
  <2>3. \A i \in 1 .. Len(Got(s)) :
          /\ Position(tid[s], Got(s)[i]) \in 1 .. Len(published[tid[s]])
          /\ published[tid[s]][Position(tid[s], Got(s)[i])] = Got(s)[i]
    BY <2>2 DEF OrderedIn, Position
  <2> QED
    BY <2>2, <2>3 DEF OrderedIn
<1> QED
  BY <1>1, <1>2, <1>3, StreamInvariance, PTL DEF Spec
=============================================================================
