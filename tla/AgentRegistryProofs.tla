-------------------------- MODULE AgentRegistryProofs --------------------------
(***************************************************************************)
(* What the agent registry guarantees for any number of nodes, ids,        *)
(* handlers and namespaces, any timeouts and any pattern of failed and     *)
(* lost calls.                                                             *)
(***************************************************************************)
EXTENDS AgentRegistry, TLAPS

(***************************************************************************)
(* What Hears makes of an agent process is an agent process.               *)
(***************************************************************************)
LEMMA HearsType ==
  ASSUME NEW p \in Processes, NEW result, NEW id \in AgentIDs \cup {NoID}
  PROVE  Hears(p, result, id) \in Processes
<1>0. MaxAttempts \in Nat /\ MaxAttempts > 0 /\ 0 \in 0 .. (MaxAttempts - 1)
  BY FlagsAssumption
<1>1. RegisterFailed(p) \in Processes
  <2>2. p.attempts + 1 < MaxAttempts => p.attempts + 1 \in 0 .. (MaxAttempts - 1)
    BY <1>0 DEF Processes
  <2>3. p.attempts + 1 < MaxAttempts
          => [p EXCEPT !.attempts = @ + 1, !.call = NoHandler] \in Processes
    BY <2>2 DEF Processes
  <2>4. Down \in Processes
    BY <1>0 DEF Down, Processes
  <2>5. [p EXCEPT !.mode = "running", !.attempts = 0, !.call = NoHandler]
          \in Processes
    BY <1>0 DEF Processes
  <2>6. QED BY <2>3, <2>4, <2>5, Zenon DEF RegisterFailed
<1>2. Registered(p, id) \in Processes
  BY <1>0 DEF Registered, Processes
<1>3. [p EXCEPT !.mode = "reregistering", !.call = NoHandler] \in Processes
  BY DEF Processes
<1>4. [p EXCEPT !.call = NoHandler] \in Processes
  BY DEF Processes
<1>5. QED BY <1>1, <1>2, <1>3, <1>4, Zenon DEF Hears

\* A handler at work serves some node.
HandlerHasNode == \A h \in Handlers : hd[h].pc # "idle" => hd[h].node \in Nodes

(***************************************************************************)
(* A returning handler leaves handlers and processes well-typed, and no    *)
(* handler but itself changed.                                             *)
(***************************************************************************)
LEMMA ReplyType ==
  ASSUME TypeOK, NEW h \in Handlers, hd[h].pc # "idle", hd[h].node \in Nodes,
         NEW result, Reply(h, result)
  PROVE  /\ hd' = [hd EXCEPT ![h] = IdleHandler]
         /\ hd' \in [Handlers -> HandlerStates]
         /\ proc' \in [Nodes -> Processes]
<1>1. IdleHandler \in HandlerStates
  BY TimeAssumption DEF IdleHandler, HandlerStates, HandlerPCs, Ages
<1>2. hd[h].id \in AgentIDs \cup {NoID}
  BY DEF TypeOK, HandlerStates
<1>3. Hears(proc[hd[h].node], result, hd[h].id) \in Processes
  BY <1>2, HearsType DEF TypeOK
<1>4. QED BY <1>1, <1>3 DEF Reply, TypeOK

(***************************************************************************)
(* An age that grows is an age, and stays beyond what it was beyond.       *)
(***************************************************************************)
LEMMA AgedType ==
  ASSUME NEW a \in Ages
  PROVE  Aged(a) \in Ages /\ Aged(a) >= a
BY TimeAssumption DEF Aged, Ages

\* What the two columns and the age of a row say together.
GoodRow(r) ==
  /\ r.healthy <=> r.state = "healthy"
  /\ r.state = "unhealthy" => r.age > UnhealthyTimeout
  /\ r.state = "disconnected" => r.age > DisconnectedTimeout

(***************************************************************************)
(* Every statement on the agents table turns good rows into good rows: the *)
(* upsert, the heartbeat's UPDATE, the evaluator's two, and time.          *)
(***************************************************************************)
LEMMA StatementsKeepRows ==
  ASSUME NEW r \in Rows, GoodRow(r), lag \in 0 .. MaxLag
  PROVE  /\ HeartbeatRow(r) \in Rows /\ GoodRow(HeartbeatRow(r))
         /\ MarkUnhealthyRow(r) \in Rows /\ GoodRow(MarkUnhealthyRow(r))
         /\ MarkDisconnectedRow(r) \in Rows /\ GoodRow(MarkDisconnectedRow(r))
         /\ [r EXCEPT !.age = Aged(@)] \in Rows
         /\ GoodRow([r EXCEPT !.age = Aged(@)])
<1>0. /\ r.age \in Nat /\ lag \in Nat
      /\ UnhealthyTimeout \in Nat /\ DisconnectedTimeout \in Nat /\ 0 \in Ages
  BY TimeAssumption DEF Rows, Ages
<1>1. HeartbeatRow(r) \in Rows /\ GoodRow(HeartbeatRow(r))
  BY <1>0 DEF HeartbeatRow, Rows, RowStates, GoodRow
<1>2. MarkUnhealthyRow(r) \in Rows /\ GoodRow(MarkUnhealthyRow(r))
  <2>1. CASE r.state = "healthy" /\ Stale(r, UnhealthyTimeout)
    <3>1. MarkUnhealthyRow(r) = [r EXCEPT !.state = "unhealthy", !.healthy = FALSE]
      BY <2>1 DEF MarkUnhealthyRow
    <3>2. r.age > UnhealthyTimeout
      BY <1>0, <2>1 DEF Stale
    <3>3. MarkUnhealthyRow(r) \in Rows
      BY <3>1 DEF Rows, RowStates
    <3> DEFINE q == MarkUnhealthyRow(r)
    <3>4. q.state = "unhealthy" /\ q.healthy = FALSE /\ q.age = r.age
      BY <3>1 DEF Rows
    <3> HIDE DEF q
    <3>5. GoodRow(q)
      BY <3>2, <3>4 DEF GoodRow
    <3>6. QED BY <3>3, <3>5 DEF q
  <2>2. CASE ~(r.state = "healthy" /\ Stale(r, UnhealthyTimeout))
    BY <2>2 DEF MarkUnhealthyRow
  <2>3. QED BY <2>1, <2>2
<1>3. MarkDisconnectedRow(r) \in Rows /\ GoodRow(MarkDisconnectedRow(r))
  BY <1>0 DEF MarkDisconnectedRow, Stale, Rows, RowStates, GoodRow
<1>4. Aged(r.age) \in Ages /\ Aged(r.age) >= r.age /\ Aged(r.age) \in Nat
  BY AgedType, TimeAssumption DEF Rows, Ages
<1>5. [r EXCEPT !.age = Aged(@)] \in Rows
  BY <1>4 DEF Rows
<1>6. GoodRow([r EXCEPT !.age = Aged(@)])
  <2> DEFINE q == [r EXCEPT !.age = Aged(@)]
  <2>1. q.healthy = r.healthy /\ q.state = r.state /\ q.age = Aged(r.age)
    BY DEF Rows
  <2> HIDE DEF q
  <2>2. /\ r.age > UnhealthyTimeout => q.age > UnhealthyTimeout
        /\ r.age > DisconnectedTimeout => q.age > DisconnectedTimeout
    BY <1>0, <1>4, <2>1
  <2>3. GoodRow(q)
    BY <2>1, <2>2 DEF GoodRow
  <2>4. QED BY <2>3 DEF q
<1>7. QED BY <1>1, <1>2, <1>3, <1>5, <1>6

(***************************************************************************)
(* The row UpsertAgent writes is a good row.                               *)
(***************************************************************************)
LEMMA UpsertedRowGood ==
  ASSUME TypeOK, NEW h \in Handlers
  PROVE  UpsertedRow(h) \in Rows /\ GoodRow(UpsertedRow(h))
BY DEF TypeOK, UpsertedRow, HandlerStates, Rows, RowStates, GoodRow

\* The inductive invariant: types, and good rows.
GoodRows == \A n \in Nodes : GoodRow(row[n])
RegistryInv == TypeOK /\ HandlerHasNode /\ GoodRows

(***************************************************************************)
(* The registry starts in a state of the invariant.                        *)
(***************************************************************************)
LEMMA RegistryInit == Init => RegistryInv
<1> SUFFICES ASSUME Init PROVE RegistryInv
  OBVIOUS
<1>0. /\ 0 \in Ages /\ 0 \in 0 .. MaxLag /\ 0 \in 0 .. (MaxAttempts - 1)
  BY TimeAssumption, FlagsAssumption DEF Ages
<1>1. AbsentRow \in Rows /\ GoodRow(AbsentRow)
  BY <1>0 DEF AbsentRow, Rows, GoodRow
<1>2. IdleHandler \in HandlerStates /\ IdleHandler.pc = "idle"
  BY <1>0 DEF IdleHandler, HandlerStates, HandlerPCs
<1>3. Down \in Processes
  BY <1>0 DEF Down, Processes
<1>4. QED BY <1>0, <1>1, <1>2, <1>3
  DEF Init, RegistryInv, TypeOK, HandlerHasNode, GoodRows

(***************************************************************************)
(* Every step keeps the types and the good rows.                           *)
(***************************************************************************)
LEMMA RegistryStep == RegistryInv /\ [Next]_vars => RegistryInv'
<1> SUFFICES ASSUME RegistryInv, [Next]_vars PROVE RegistryInv'
  OBVIOUS
<1> USE DEF RegistryInv
<1>0. IdleHandler \in HandlerStates /\ IdleHandler.pc = "idle" /\ 0 \in Ages
  BY TimeAssumption DEF IdleHandler, HandlerStates, HandlerPCs, Ages
\* A reply changes the handler to idle and the processes to processes.
<1>r. ASSUME NEW h \in Handlers, hd[h].pc # "idle", NEW result, Reply(h, result)
      PROVE  /\ hd' \in [Handlers -> HandlerStates]
             /\ proc' \in [Nodes -> Processes]
             /\ HandlerHasNode'
  <2>1. hd[h].node \in Nodes
    BY <1>r DEF HandlerHasNode
  <2>2. /\ hd' = [hd EXCEPT ![h] = IdleHandler]
        /\ hd' \in [Handlers -> HandlerStates]
        /\ proc' \in [Nodes -> Processes]
    BY <1>r, <2>1, ReplyType
  <2>3. HandlerHasNode'
    BY <2>2, <1>0 DEF HandlerHasNode, TypeOK
  <2>4. QED BY <2>2, <2>3
<1>1. ASSUME NEW n \in Nodes, Start(n) PROVE RegistryInv'
  <2>1. [proc[n] EXCEPT !.mode = "registering"] \in Processes
    BY DEF TypeOK, Processes
  <2>2. proc' \in [Nodes -> Processes]
    BY <1>1, <2>1 DEF Start, TypeOK
  <2>3. QED BY <1>1, <2>2
    DEF Start, tables, evaluator, TypeOK, HandlerHasNode, GoodRows
<1>2. ASSUME NEW n \in Nodes, LoseCall(n) PROVE RegistryInv'
  <2>1. Hears(proc[n], ErrorOf(proc[n]), NoID) \in Processes
    BY HearsType DEF TypeOK
  <2>2. proc' \in [Nodes -> Processes]
    BY <1>2, <2>1 DEF LoseCall, TypeOK
  <2>3. QED BY <1>2, <2>2
    DEF LoseCall, tables, evaluator, TypeOK, HandlerHasNode, GoodRows
<1>3. ASSUME NEW n \in Nodes, Exit(n) PROVE RegistryInv'
  <2>1. 0 \in 0 .. (MaxAttempts - 1)
    BY FlagsAssumption
  <2>2. Down \in Processes
    BY <2>1 DEF Down, Processes
  <2>3. QED BY <1>3, <2>2
    DEF Exit, tables, evaluator, TypeOK, HandlerHasNode, GoodRows
<1>4. ASSUME NEW n \in Nodes, NEW h \in Handlers, NEW ns \in ClaimedNamespaces,
             NEW report \in Reports, SendRegister(n, h, ns, report)
      PROVE  RegistryInv'
  <2> DEFINE st == [IdleHandler EXCEPT !.pc = "lookup", !.node = n, !.ns = ns,
                                       !.report = report]
  <2>1. ns \in Namespaces \cup {NoNamespace} /\ report \in SUBSET PVCs
    BY DEF ClaimedNamespaces, PVCs
  <2>2. st \in HandlerStates /\ st.node = n
    BY <1>0, <2>1 DEF HandlerStates, HandlerPCs, IdleHandler
  <2>3. [proc[n] EXCEPT !.call = h] \in Processes
    BY DEF TypeOK, Processes
  <2>4. hd' = [hd EXCEPT ![h] = st] /\ proc' = [proc EXCEPT ![n].call = h]
    BY <1>4 DEF SendRegister
  <2> HIDE DEF st
  <2>5. hd' \in [Handlers -> HandlerStates] /\ HandlerHasNode'
    BY <2>2, <2>4 DEF TypeOK, HandlerHasNode
  <2>6. proc' \in [Nodes -> Processes]
    BY <2>3, <2>4 DEF TypeOK
  <2>7. QED BY <1>4, <2>5, <2>6
    DEF SendRegister, tables, evaluator, TypeOK, GoodRows
<1>5. ASSUME NEW n \in Nodes, NEW h \in Handlers, NEW report \in Reports,
             SendHeartbeat(n, h, report)
      PROVE  RegistryInv'
  <2> DEFINE st == [IdleHandler EXCEPT !.pc = "load", !.node = n,
                                       !.id = proc[n].id, !.report = report]
  <2>1. proc[n].id \in AgentIDs \cup {NoID} /\ report \in SUBSET PVCs
    BY DEF TypeOK, Processes, PVCs
  <2>2. st \in HandlerStates /\ st.node = n
    BY <1>0, <2>1 DEF HandlerStates, HandlerPCs, IdleHandler
  <2>3. [proc[n] EXCEPT !.call = h] \in Processes
    BY DEF TypeOK, Processes
  <2>4. hd' = [hd EXCEPT ![h] = st] /\ proc' = [proc EXCEPT ![n].call = h]
    BY <1>5 DEF SendHeartbeat
  <2> HIDE DEF st
  <2>5. hd' \in [Handlers -> HandlerStates] /\ HandlerHasNode'
    BY <2>2, <2>4 DEF TypeOK, HandlerHasNode
  <2>6. proc' \in [Nodes -> Processes]
    BY <2>3, <2>4 DEF TypeOK
  <2>7. QED BY <1>5, <2>5, <2>6
    DEF SendHeartbeat, tables, evaluator, TypeOK, GoodRows
<1>6. ASSUME NEW h \in Handlers, RegLookup(h) PROVE RegistryInv'
  <2>1. hd[h].pc # "idle"
    BY <1>6 DEF RegLookup
  <2>2. CASE NamespaceMismatch(row[hd[h].node], hd[h].ns)
    <3>1. Reply(h, "registerError")
      BY <1>6, <2>2 DEF RegLookup
    <3>2. QED BY <1>6, <1>r, <2>1, <3>1
      DEF RegLookup, tables, evaluator, TypeOK, GoodRows
  <2>3. CASE ~NamespaceMismatch(row[hd[h].node], hd[h].ns)
    <3>1. PICK i \in AgentIDs :
            hd' = [hd EXCEPT ![h].pc = "upsertDelete", ![h].id = i, ![h].age = 0]
      BY <1>6, <2>3 DEF RegLookup
    <3>2. hd'[h] \in HandlerStates /\ hd'[h].node = hd[h].node
      BY <3>1, <1>0 DEF TypeOK, HandlerStates, HandlerPCs
    <3>3. \A g \in Handlers \ {h} : hd'[g] = hd[g]
      BY <3>1 DEF TypeOK
    <3>4. hd' \in [Handlers -> HandlerStates]
      BY <3>1, <3>2, <3>3 DEF TypeOK
    <3>5. HandlerHasNode'
      BY <2>1, <3>2, <3>3 DEF HandlerHasNode
    <3>6. QED BY <1>6, <2>3, <3>4, <3>5
      DEF RegLookup, tables, evaluator, TypeOK, GoodRows
  <2>4. QED BY <2>2, <2>3
<1>7. ASSUME NEW h \in Handlers, UpsertDelete(h) PROVE RegistryInv'
  <2>1. hd[h].node \in Nodes
    BY <1>7 DEF UpsertDelete, HandlerHasNode
  <2>2. hd'[h] \in HandlerStates /\ hd'[h].node = hd[h].node
    BY <1>7, <2>1 DEF UpsertDelete, TypeOK, HandlerStates, HandlerPCs
  <2>3. /\ \A g \in Handlers \ {h} : hd'[g] = hd[g]
        /\ hd' = [g \in Handlers |-> hd'[g]]
    BY <1>7 DEF UpsertDelete, TypeOK
  <2>4. hd' \in [Handlers -> HandlerStates] /\ HandlerHasNode'
    BY <2>1, <2>2, <2>3 DEF TypeOK, HandlerHasNode
  <2>5. QED BY <1>7, <2>4
    DEF UpsertDelete, tables, evaluator, TypeOK, GoodRows
<1>8. ASSUME NEW h \in Handlers, UpsertCommit(h) PROVE RegistryInv'
  <2>1. hd[h].pc # "idle" /\ hd[h].node \in Nodes
    BY <1>8 DEF UpsertCommit, HandlerHasNode
  <2>2. CASE ForeignKeyViolation(h) \/ PrimaryKeyViolation(h)
    <3>1. Reply(h, "registerError") /\ UNCHANGED tables
      BY <1>8, <2>2 DEF UpsertCommit
    <3>2. QED BY <1>8, <1>r, <2>1, <3>1
      DEF UpsertCommit, tables, evaluator, TypeOK, GoodRows
  <2>3. CASE ~(ForeignKeyViolation(h) \/ PrimaryKeyViolation(h))
    <3>1. /\ row' = [row EXCEPT ![hd[h].node] = UpsertedRow(h)]
          /\ pvcs' = [pvcs EXCEPT ![hd[h].node] = Residual(h) \cup hd[h].report]
          /\ bound' = [bound EXCEPT ![hd[h].id] = @ \cup {hd[h].ns}]
          /\ Reply(h, "registered")
      BY <1>8, <2>3 DEF UpsertCommit
    <3>2. row' \in [Nodes -> Rows] /\ GoodRows'
      BY <2>1, <3>1, UpsertedRowGood DEF TypeOK, GoodRows
    <3>3. Residual(h) \cup hd[h].report \in SUBSET PVCs
      BY <2>1 DEF Residual, TypeOK, HandlerStates
    <3>4. pvcs' \in [Nodes -> SUBSET PVCs]
      BY <2>1, <3>1, <3>3 DEF TypeOK
    <3>5. bound' \in [AgentIDs -> SUBSET (Namespaces \cup {NoNamespace})]
      BY <3>1 DEF TypeOK, HandlerStates
    <3>6. QED BY <1>8, <1>r, <2>1, <3>1, <3>2, <3>4, <3>5
      DEF UpsertCommit, evaluator, TypeOK
  <2>4. QED BY <2>2, <2>3
<1>9. ASSUME NEW h \in Handlers, HeartbeatLoad(h) PROVE RegistryInv'
  <2>1. hd[h].pc # "idle"
    BY <1>9 DEF HeartbeatLoad
  <2>2. \/ \E result : Reply(h, result)
        \/ hd' = [hd EXCEPT ![h].pc = "updateHeartbeat"] /\ UNCHANGED proc
    BY <1>9, Zenon DEF HeartbeatLoad
  <2>3. CASE \E result : Reply(h, result)
    BY <1>9, <1>r, <2>1, <2>3
      DEF HeartbeatLoad, tables, evaluator, TypeOK, GoodRows
  <2>4. CASE hd' = [hd EXCEPT ![h].pc = "updateHeartbeat"] /\ UNCHANGED proc
    <3>1. hd' \in [Handlers -> HandlerStates]
      BY <2>4 DEF TypeOK, HandlerStates, HandlerPCs
    <3>2. HandlerHasNode'
      BY <2>1, <2>4 DEF TypeOK, HandlerHasNode
    <3>3. QED BY <1>9, <2>4, <3>1, <3>2
      DEF HeartbeatLoad, tables, evaluator, TypeOK, GoodRows
  <2>5. QED BY <2>2, <2>3, <2>4
<1>10. ASSUME NEW h \in Handlers, UpdateHeartbeat(h) PROVE RegistryInv'
  <2>1. hd[h].pc # "idle" /\ \E result : Reply(h, result)
    BY <1>10 DEF UpdateHeartbeat
  <2>2. \A n \in Nodes : HeartbeatRow(row[n]) \in Rows /\ GoodRow(HeartbeatRow(row[n]))
    BY StatementsKeepRows DEF TypeOK, GoodRows
  <2>3. \A n \in Nodes : row'[n] \in {HeartbeatRow(row[n]), row[n]}
    BY <1>10 DEF UpdateHeartbeat
  <2>4. row' \in [Nodes -> Rows] /\ GoodRows'
    BY <1>10, <2>2, <2>3 DEF UpdateHeartbeat, TypeOK, GoodRows
  <2>5. pvcs' \in [Nodes -> SUBSET PVCs]
    BY <1>10 DEF UpdateHeartbeat, TypeOK, HandlerStates
  <2>6. QED BY <1>10, <1>r, <2>1, <2>4, <2>5
    DEF UpdateHeartbeat, evaluator, TypeOK
<1>11. ASSUME NEW h \in Handlers, HandlerFails(h) PROVE RegistryInv'
  BY <1>11, <1>r DEF HandlerFails, tables, evaluator, TypeOK, GoodRows
<1>12. ASSUME Evaluate \/ EvalFails PROVE RegistryInv'
  <2>0. 0 \in 0 .. MaxLag
    BY TimeAssumption
  <2>1. CASE EvalStart
    BY <2>1 DEF EvalStart, tables, TypeOK, HandlerHasNode, GoodRows
  <2>2. CASE MarkUnhealthy
    <3>1. \A n \in Nodes : MarkUnhealthyRow(row[n]) \in Rows
                            /\ GoodRow(MarkUnhealthyRow(row[n]))
      BY StatementsKeepRows DEF TypeOK, GoodRows
    <3>2. row' \in [Nodes -> Rows] /\ GoodRows'
      BY <2>2, <3>1 DEF MarkUnhealthy, GoodRows
    <3>3. QED BY <2>2, <3>2 DEF MarkUnhealthy, TypeOK, HandlerHasNode
  <2>3. CASE MarkDisconnected
    <3>1. \A n \in Nodes : MarkDisconnectedRow(row[n]) \in Rows
                            /\ GoodRow(MarkDisconnectedRow(row[n]))
      BY StatementsKeepRows DEF TypeOK, GoodRows
    <3>2. row' \in [Nodes -> Rows] /\ GoodRows'
      BY <2>3, <3>1 DEF MarkDisconnected, GoodRows
    <3>3. QED BY <2>0, <2>3, <3>2 DEF MarkDisconnected, TypeOK, HandlerHasNode
  <2>4. CASE EvalFails
    BY <2>0, <2>4 DEF EvalFails, tables, TypeOK, HandlerHasNode, GoodRows
  <2>5. QED BY <1>12, <2>1, <2>2, <2>3, <2>4 DEF Evaluate
<1>13. ASSUME Tick PROVE RegistryInv'
  <2>1. \A n \in Nodes : /\ [row[n] EXCEPT !.age = Aged(@)] \in Rows
                          /\ GoodRow([row[n] EXCEPT !.age = Aged(@)])
    BY StatementsKeepRows DEF TypeOK, GoodRows
  <2>2. row' \in [Nodes -> Rows] /\ GoodRows'
    BY <1>13, <2>1 DEF Tick, TypeOK, GoodRows
  <2>3. \A h \in Handlers : [hd[h] EXCEPT !.age = Aged(@)] \in HandlerStates
    BY AgedType DEF TypeOK, HandlerStates
  <2>4. hd' \in [Handlers -> HandlerStates]
    BY <1>13, <2>3 DEF Tick, TypeOK
  <2>5. \A h \in Handlers : hd'[h].pc = hd[h].pc /\ hd'[h].node = hd[h].node
    BY <1>13 DEF Tick, TypeOK, HandlerStates
  <2>6. HandlerHasNode'
    BY <2>5 DEF HandlerHasNode
  <2>7. lag' \in 0 .. MaxLag
    BY <1>13, TimeAssumption DEF Tick, TypeOK
  <2>8. QED BY <1>13, <2>2, <2>4, <2>6, <2>7 DEF Tick, TypeOK
<1>14. CASE UNCHANGED vars
  BY <1>14 DEF vars, TypeOK, HandlerHasNode, GoodRows
<1>15. QED
  BY <1>1, <1>2, <1>3, <1>4, <1>5, <1>6, <1>7, <1>8, <1>9, <1>10, <1>11, <1>12,
     <1>13, <1>14 DEF Next, Send, HandlerStep

(***************************************************************************)
(* Type correctness of the registry, for every instance.                   *)
(***************************************************************************)
THEOREM RegistryTypeCorrect == Spec => []TypeOK
<1>1. Spec => []RegistryInv
  BY RegistryInit, RegistryStep, PTL DEF Spec
<1>2. RegistryInv => TypeOK
  BY DEF RegistryInv
<1>3. QED BY <1>1, <1>2, PTL

(***************************************************************************)
(* The healthy flag and the state of an agents row always agree.           *)
(***************************************************************************)
THEOREM FlagAlwaysMatchesState == Spec => []HealthyFlagMatchesState
<1>1. Spec => []RegistryInv
  BY RegistryInit, RegistryStep, PTL DEF Spec
<1>2. RegistryInv => HealthyFlagMatchesState
  BY DEF RegistryInv, GoodRows, GoodRow, HealthyFlagMatchesState
<1>3. QED BY <1>1, <1>2, PTL

(***************************************************************************)
(* However late the evaluator's statements run, no agent is recorded as    *)
(* unhealthy or disconnected before its timeout.                           *)
(***************************************************************************)
THEOREM AgentsNeverMarkedEarly == Spec => []NeverMarkedEarly
<1>1. Spec => []RegistryInv
  BY RegistryInit, RegistryStep, PTL DEF Spec
<1>2. RegistryInv => NeverMarkedEarly
  BY DEF RegistryInv, GoodRows, GoodRow, NeverMarkedEarly
<1>3. QED BY <1>1, <1>2, PTL

-----------------------------------------------------------------------------
(* The binding of agent ids and namespaces.                                *)

\* A registration that passed the namespace check comes from the namespace the
\* agent on record was registered from.
LEMMA CheckedNamespace ==
  ASSUME TokensNameNamespaces, NEW r, NEW ns \in ClaimedNamespaces,
         r.ns \in ClaimedNamespaces, ~NamespaceMismatch(r, ns)
  PROVE  ns = r.ns
BY DEF TokensNameNamespaces, ClaimedNamespaces, NamespaceMismatch

\* Two rows that tell the same of the binding.
SameBinding(r, q) ==
  q.id = r.id /\ q.ns = r.ns /\ ((q.state = "absent") <=> (r.state = "absent"))

\* What is to be kept: the binding, wherever tokens name namespaces.
KeptBinding == TokensNameNamespaces => BindingInv

(***************************************************************************)
(* Every step keeps the binding.                                           *)
(***************************************************************************)
LEMMA BindingStep == RegistryInv /\ KeptBinding /\ [Next]_vars => KeptBinding'
<1> SUFFICES ASSUME RegistryInv, BindingInv, TokensNameNamespaces, [Next]_vars
             PROVE  BindingInv'
  BY DEF KeptBinding, TokensNameNamespaces
<1> USE DEF RegistryInv
<1>c. ClaimedNamespaces' = ClaimedNamespaces
  BY DEF ClaimedNamespaces
\* Steps that change no id, no namespace and no binding, and start no upsert.
<1>q. ASSUME row' = row \/ \A n \in Nodes : SameBinding(row[n], row'[n]),
             bound' = bound,
             \A h \in Handlers :
               \/ hd'[h].pc \in {"idle", "load", "updateHeartbeat"}
               \/ hd'[h].pc = "lookup" /\ hd'[h].ns \in ClaimedNamespaces
               \/ /\ Upserting(h) /\ hd'[h].pc \in {"upsertDelete", "upsertCommit"}
                  /\ hd'[h].id = hd[h].id /\ hd'[h].ns = hd[h].ns
      PROVE  BindingInv'
  <2>1. \A n \in Nodes : SameBinding(row[n], row'[n])
    BY <1>q DEF SameBinding
  <2>2. \A h \in Handlers : Upserting(h)' => /\ Upserting(h)
                                             /\ hd'[h].id = hd[h].id
                                             /\ hd'[h].ns = hd[h].ns
    BY <1>q DEF Upserting
  <2>3. NamespacesClaimed'
    BY <1>c, <1>q, <2>2 DEF BindingInv, NamespacesClaimed, Upserting
  <2>4. RowsBound'
    <3> SUFFICES ASSUME NEW n \in Nodes, row'[n].state # "absent"
                 PROVE  row'[n].id \in AgentIDs /\ row'[n].ns \in bound'[row'[n].id]
      BY DEF RowsBound
    <3>1. row[n].state # "absent" /\ row'[n].id = row[n].id /\ row'[n].ns = row[n].ns
      BY <2>1 DEF SameBinding
    <3>2. row[n].id \in AgentIDs /\ row[n].ns \in bound[row[n].id]
      BY <3>1 DEF BindingInv, RowsBound
    <3>3. QED BY <1>q, <3>1, <3>2
  <2>5. RegistrationsAgreeWithRecord' /\ RegistrationsAgree'
    BY <1>q, <2>2 DEF BindingInv, RegistrationsAgreeWithRecord, RegistrationsAgree
  <2>6. QED BY <1>q, <2>3, <2>4, <2>5 DEF BindingInv, IdentityKeepsNamespace
\* A reply without a write is such a step.
<1>r. ASSUME NEW h \in Handlers, hd[h].pc # "idle", NEW result, Reply(h, result)
      PROVE  /\ hd' = [hd EXCEPT ![h] = IdleHandler]
             /\ \A g \in Handlers :
                  \/ hd'[g].pc \in {"idle", "load", "updateHeartbeat"}
                  \/ hd'[g].pc = "lookup" /\ hd'[g].ns \in ClaimedNamespaces
                  \/ /\ Upserting(g) /\ hd'[g].pc \in {"upsertDelete", "upsertCommit"}
                     /\ hd'[g].id = hd[g].id /\ hd'[g].ns = hd[g].ns
  <2>1. hd' = [hd EXCEPT ![h] = IdleHandler]
    BY <1>r DEF Reply
  <2>2. \A g \in Handlers : hd[g].pc \in HandlerPCs
    BY DEF TypeOK, HandlerStates
  <2>3. QED BY <2>1, <2>2
    DEF TypeOK, IdleHandler, HandlerPCs, BindingInv, NamespacesClaimed, Upserting
<1>s. ASSUME NEW h \in Handlers, hd'[h] = hd[h]
      PROVE  \/ hd'[h].pc \in {"idle", "load", "updateHeartbeat"}
             \/ hd'[h].pc = "lookup" /\ hd'[h].ns \in ClaimedNamespaces
             \/ /\ Upserting(h) /\ hd'[h].pc \in {"upsertDelete", "upsertCommit"}
                /\ hd'[h].id = hd[h].id /\ hd'[h].ns = hd[h].ns
  <2>1. hd[h].pc \in HandlerPCs
    BY DEF TypeOK, HandlerStates
  <2>2. QED BY <1>s, <2>1 DEF HandlerPCs, BindingInv, NamespacesClaimed, Upserting
<1>1. ASSUME NEW n \in Nodes, Start(n) \/ LoseCall(n) \/ Exit(n) PROVE BindingInv'
  BY <1>1, <1>q, <1>s DEF Start, LoseCall, Exit, tables
<1>2. ASSUME NEW n \in Nodes, NEW h \in Handlers, NEW ns \in ClaimedNamespaces,
             NEW report \in Reports, SendRegister(n, h, ns, report)
      PROVE  BindingInv'
  <2>1. /\ hd'[h].pc = "lookup" /\ hd'[h].ns = ns
        /\ \A g \in Handlers \ {h} : hd'[g] = hd[g]
    BY <1>2 DEF SendRegister, TypeOK, IdleHandler
  <2>2. QED BY <1>2, <1>q, <1>s, <2>1 DEF SendRegister, tables
<1>3. ASSUME NEW n \in Nodes, NEW h \in Handlers, NEW report \in Reports,
             SendHeartbeat(n, h, report)
      PROVE  BindingInv'
  <2>1. /\ hd'[h].pc = "load"
        /\ \A g \in Handlers \ {h} : hd'[g] = hd[g]
    BY <1>3 DEF SendHeartbeat, TypeOK, IdleHandler
  <2>2. QED BY <1>3, <1>q, <1>s, <2>1 DEF SendHeartbeat, tables
<1>4. ASSUME NEW h \in Handlers, RegLookup(h) PROVE BindingInv'
  <2> DEFINE r == row[hd[h].node]
  <2>0. hd[h].pc = "lookup" /\ hd[h].node \in Nodes /\ hd[h].ns \in ClaimedNamespaces
    BY <1>4 DEF RegLookup, HandlerHasNode, BindingInv, NamespacesClaimed
  <2>1. CASE NamespaceMismatch(r, hd[h].ns)
    BY <1>4, <1>q, <1>r, <2>0, <2>1 DEF RegLookup, tables
  <2>2. CASE ~NamespaceMismatch(r, hd[h].ns)
    <3>1. PICK i \in AgentIDs :
            /\ IF r.state = "absent" THEN Fresh(i) ELSE i = r.id
            /\ hd' = [hd EXCEPT ![h].pc = "upsertDelete", ![h].id = i, ![h].age = 0]
      BY <1>4, <2>2 DEF RegLookup
    <3>2. /\ hd'[h].pc = "upsertDelete" /\ hd'[h].id = i /\ hd'[h].ns = hd[h].ns
          /\ \A g \in Handlers \ {h} : hd'[g] = hd[g]
      BY <3>1 DEF TypeOK, HandlerStates
    \* The namespaces the id is on record with, and the registrations of others.
    <3>3. \A m \in bound[i] : m = hd[h].ns
      <4>1. CASE r.state = "absent"
        BY <3>1, <4>1 DEF Fresh
      <4>2. CASE r.state # "absent"
        <5>1. i = r.id /\ r.ns \in bound[i]
          BY <2>0, <3>1, <4>2 DEF BindingInv, RowsBound
        <5>2. r.ns \in ClaimedNamespaces
          BY <5>1 DEF BindingInv, NamespacesClaimed
        <5>3. hd[h].ns = r.ns
          BY <2>0, <2>2, <5>2, CheckedNamespace
        <5>4. QED BY <5>1, <5>3 DEF BindingInv, IdentityKeepsNamespace
      <4>3. QED BY <4>1, <4>2
    <3>4. \A g \in Handlers \ {h} : Upserting(g) /\ hd[g].id = i => hd[g].ns = hd[h].ns
      <4>1. CASE r.state = "absent"
        BY <3>1, <4>1 DEF Fresh
      <4>2. CASE r.state # "absent"
        BY <2>0, <3>1, <3>3, <4>2
          DEF BindingInv, RowsBound, RegistrationsAgreeWithRecord
      <4>3. QED BY <4>1, <4>2
    <3>5. row' = row /\ bound' = bound
      BY <1>4 DEF RegLookup, tables
    <3> HIDE DEF r
    <3>6. NamespacesClaimed' /\ RowsBound' /\ IdentityKeepsNamespace'
      BY <1>c, <2>0, <3>2, <3>5
      DEF BindingInv, NamespacesClaimed, RowsBound, IdentityKeepsNamespace, Upserting
    <3>7. RegistrationsAgreeWithRecord'
      BY <3>2, <3>3, <3>5 DEF BindingInv, RegistrationsAgreeWithRecord, Upserting
    <3>8. RegistrationsAgree'
      BY <3>2, <3>4 DEF BindingInv, RegistrationsAgree, Upserting
    <3>9. QED BY <3>6, <3>7, <3>8 DEF BindingInv
  <2>3. QED BY <2>1, <2>2
<1>5. ASSUME NEW h \in Handlers, UpsertDelete(h) PROVE BindingInv'
  <2>1. /\ Upserting(h) /\ hd'[h].pc = "upsertCommit"
        /\ hd'[h].id = hd[h].id /\ hd'[h].ns = hd[h].ns
        /\ \A g \in Handlers \ {h} : hd'[g] = hd[g]
    BY <1>5 DEF UpsertDelete, Upserting, TypeOK, HandlerStates
  <2>2. QED BY <1>5, <1>q, <1>s, <2>1 DEF UpsertDelete, tables
<1>6. ASSUME NEW h \in Handlers, UpsertCommit(h) PROVE BindingInv'
  <2>0. Upserting(h) /\ hd[h].pc # "idle" /\ hd[h].node \in Nodes
    BY <1>6 DEF UpsertCommit, Upserting, HandlerHasNode
  <2>1. CASE ForeignKeyViolation(h) \/ PrimaryKeyViolation(h)
    <3>1. Reply(h, "registerError") /\ UNCHANGED tables
      BY <1>6, <2>1 DEF UpsertCommit
    <3>2. QED BY <1>q, <1>r, <2>0, <3>1 DEF tables
  <2>2. CASE ~(ForeignKeyViolation(h) \/ PrimaryKeyViolation(h))
    <3>1. /\ row' = [row EXCEPT ![hd[h].node] = UpsertedRow(h)]
          /\ bound' = [bound EXCEPT ![hd[h].id] = @ \cup {hd[h].ns}]
          /\ Reply(h, "registered")
      BY <1>6, <2>2 DEF UpsertCommit
    <3>2. hd' = [hd EXCEPT ![h] = IdleHandler]
      BY <1>r, <2>0, <3>1
    <3>3. /\ \A g \in Handlers \ {h} : hd'[g] = hd[g]
          /\ hd'[h].pc = "idle"
      BY <3>2 DEF TypeOK, IdleHandler
    <3>4. /\ hd[h].id \in AgentIDs /\ hd[h].ns \in ClaimedNamespaces
          /\ \A m \in bound[hd[h].id] : m = hd[h].ns
      BY <2>0 DEF BindingInv, NamespacesClaimed, RegistrationsAgreeWithRecord
    <3>5. \A i \in AgentIDs : bound'[i] = IF i = hd[h].id THEN bound[i] \cup {hd[h].ns}
                                           ELSE bound[i]
      BY <3>1, <3>4 DEF TypeOK
    <3>6. \A n \in Nodes : row'[n] = IF n = hd[h].node THEN UpsertedRow(h) ELSE row[n]
      BY <2>0, <3>1 DEF TypeOK
    <3>7. UpsertedRow(h).id = hd[h].id /\ UpsertedRow(h).ns = hd[h].ns
      BY DEF UpsertedRow
    <3>8. IdentityKeepsNamespace'
      <4>1. \A i \in AgentIDs : \A a, b \in bound[i] : a = b
        BY DEF BindingInv, IdentityKeepsNamespace
      <4>2. \A i \in AgentIDs : \A a, b \in bound'[i] : a = b
        BY <3>4, <3>5, <4>1
      <4> QED
        BY <4>2 DEF IdentityKeepsNamespace
    <3>9. NamespacesClaimed'
      <4>1. \A i \in AgentIDs : bound'[i] \subseteq ClaimedNamespaces
        BY <3>4, <3>5 DEF BindingInv, NamespacesClaimed
      <4>2. \A g \in Handlers : hd'[g].pc = "lookup" \/ Upserting(g)'
                                => hd'[g].ns \in ClaimedNamespaces
        BY <3>3 DEF BindingInv, NamespacesClaimed, Upserting
      <4>3. QED BY <1>c, <4>1, <4>2 DEF NamespacesClaimed
    <3>10. RowsBound'
      <4> SUFFICES ASSUME NEW n \in Nodes, row'[n].state # "absent"
                   PROVE  row'[n].id \in AgentIDs /\ row'[n].ns \in bound'[row'[n].id]
        BY DEF RowsBound
      <4>1. CASE n = hd[h].node
        <5>1. row'[n].id = hd[h].id /\ row'[n].ns = hd[h].ns
          BY <3>6, <3>7, <4>1
        <5>2. hd[h].ns \in bound'[hd[h].id]
          BY <3>4, <3>5
        <5>3. QED BY <3>4, <5>1, <5>2
      <4>2. CASE n # hd[h].node
        <5>1. row'[n] = row[n]
          BY <3>6, <4>2
        <5>2. row[n].id \in AgentIDs /\ row[n].ns \in bound[row[n].id]
          BY <5>1 DEF BindingInv, RowsBound
        <5>3. QED BY <3>5, <5>1, <5>2
      <4>3. QED BY <4>1, <4>2
    <3>11. RegistrationsAgreeWithRecord'
      <4> SUFFICES ASSUME NEW g \in Handlers, Upserting(g)'
                   PROVE  /\ hd'[g].id \in AgentIDs
                          /\ \A ns \in bound'[hd'[g].id] : ns = hd'[g].ns
        BY DEF RegistrationsAgreeWithRecord
      <4>1. g # h /\ hd'[g] = hd[g] /\ Upserting(g)
        BY <3>3 DEF Upserting
      <4>2. hd[g].id \in AgentIDs /\ \A ns \in bound[hd[g].id] : ns = hd[g].ns
        BY <4>1 DEF BindingInv, RegistrationsAgreeWithRecord
      <4>3. hd[g].id = hd[h].id => hd[g].ns = hd[h].ns
        BY <2>0, <4>1 DEF BindingInv, RegistrationsAgree
      <4>4. QED BY <3>5, <4>1, <4>2, <4>3
    <3>12. RegistrationsAgree'
      BY <3>3 DEF BindingInv, RegistrationsAgree, Upserting
    <3>13. QED BY <3>8, <3>9, <3>10, <3>11, <3>12 DEF BindingInv
  <2>3. QED BY <2>1, <2>2
<1>7. ASSUME NEW h \in Handlers, HeartbeatLoad(h) PROVE BindingInv'
  <2>1. hd[h].pc # "idle" /\ UNCHANGED tables
    BY <1>7 DEF HeartbeatLoad
  <2>2. \/ \E result : Reply(h, result)
        \/ hd' = [hd EXCEPT ![h].pc = "updateHeartbeat"]
    BY <1>7, Zenon DEF HeartbeatLoad
  <2>3. CASE \E result : Reply(h, result)
    BY <1>q, <1>r, <2>1, <2>3 DEF tables
  <2>4. CASE hd' = [hd EXCEPT ![h].pc = "updateHeartbeat"]
    <3>1. /\ hd'[h].pc = "updateHeartbeat"
          /\ \A g \in Handlers \ {h} : hd'[g] = hd[g]
      BY <2>4 DEF TypeOK, HandlerStates
    <3>2. QED BY <1>q, <1>s, <2>1, <3>1 DEF tables
  <2>5. QED BY <2>2, <2>3, <2>4
<1>8. ASSUME NEW h \in Handlers, UpdateHeartbeat(h) PROVE BindingInv'
  <2>1. hd[h].pc # "idle" /\ bound' = bound /\ \E result : Reply(h, result)
    BY <1>8 DEF UpdateHeartbeat
  <2>2. \A n \in Nodes : row'[n] = row[n] \/ row'[n] = HeartbeatRow(row[n])
    BY <1>8 DEF UpdateHeartbeat
  <2>3. \A n \in Nodes : row'[n] # row[n] => row[n].state # "absent"
    BY <1>8 DEF UpdateHeartbeat, RowsOf
  <2>4. \A n \in Nodes : LET q == HeartbeatRow(row[n])
                          IN q.id = row[n].id /\ q.ns = row[n].ns /\ q.state = "healthy"
    BY DEF HeartbeatRow, TypeOK, Rows
  <2>5. \A n \in Nodes : SameBinding(row[n], row'[n])
    BY <2>2, <2>3, <2>4 DEF SameBinding
  <2>6. QED BY <1>q, <1>r, <2>1, <2>5
<1>9. ASSUME NEW h \in Handlers, HandlerFails(h) PROVE BindingInv'
  BY <1>9, <1>q, <1>r DEF HandlerFails, tables
<1>10. ASSUME Evaluate \/ EvalFails PROVE BindingInv'
  <2>1. hd' = hd /\ bound' = bound
    BY <1>10 DEF Evaluate, EvalStart, MarkUnhealthy, MarkDisconnected, EvalFails, tables
  <2>2. \A n \in Nodes : row'[n] \in {row[n], MarkUnhealthyRow(row[n]),
                                       MarkDisconnectedRow(row[n])}
    BY <1>10 DEF Evaluate, EvalStart, MarkUnhealthy, MarkDisconnected, EvalFails, tables
  <2>3. \A n \in Nodes : \A q \in {row[n], MarkUnhealthyRow(row[n]),
                                    MarkDisconnectedRow(row[n])} :
          SameBinding(row[n], q)
    BY DEF MarkUnhealthyRow, MarkDisconnectedRow, TypeOK, Rows, SameBinding
  <2>4. QED BY <1>q, <1>s, <2>1, <2>2, <2>3
<1>11. ASSUME Tick PROVE BindingInv'
  <2>1. bound' = bound
    BY <1>11 DEF Tick
  <2>2. \A n \in Nodes : SameBinding(row[n], row'[n])
    BY <1>11 DEF Tick, TypeOK, Rows, SameBinding
  <2>3. \A h \in Handlers :
          hd'[h].pc = hd[h].pc /\ hd'[h].id = hd[h].id /\ hd'[h].ns = hd[h].ns
    BY <1>11 DEF Tick, TypeOK, HandlerStates
  <2>4. \A h \in Handlers : hd[h].pc \in HandlerPCs
    BY DEF TypeOK, HandlerStates
  <2>5. \A h \in Handlers :
          \/ hd'[h].pc \in {"idle", "load", "updateHeartbeat"}
          \/ hd'[h].pc = "lookup" /\ hd'[h].ns \in ClaimedNamespaces
          \/ /\ Upserting(h) /\ hd'[h].pc \in {"upsertDelete", "upsertCommit"}
             /\ hd'[h].id = hd[h].id /\ hd'[h].ns = hd[h].ns
    BY <2>3, <2>4 DEF HandlerPCs, BindingInv, NamespacesClaimed, Upserting
  <2>6. QED BY <1>q, <2>1, <2>2, <2>5
<1>12. CASE UNCHANGED vars
  BY <1>12, <1>q, <1>s DEF vars
<1>13. QED
  BY <1>1, <1>2, <1>3, <1>4, <1>5, <1>6, <1>7, <1>8, <1>9, <1>10, <1>11, <1>12
  DEF Next, Send, HandlerStep

(***************************************************************************)
(* Wherever accepted tokens name a namespace (or authentication is off and *)
(* none is known), no agent id is ever on record with two namespaces.      *)
(***************************************************************************)
THEOREM IdentityAlwaysKept ==
  Spec => [](TokensNameNamespaces => IdentityKeepsNamespace)
<1>1. Init => KeptBinding
  BY DEF Init, KeptBinding, BindingInv, NamespacesClaimed, RowsBound,
         RegistrationsAgreeWithRecord, RegistrationsAgree, IdentityKeepsNamespace,
         IdleHandler, AbsentRow, Upserting
<1>2. KeptBinding => (TokensNameNamespaces => IdentityKeepsNamespace)
  BY DEF KeptBinding, BindingInv
<1>3. QED BY <1>1, <1>2, RegistryInit, RegistryStep, BindingStep, PTL DEF Spec
=============================================================================
