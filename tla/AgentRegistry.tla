----------------------------- MODULE AgentRegistry -----------------------------
(***************************************************************************)
(* The agent registry of the control plane (katapult/internal/registry)    *)
(* over its PostgreSQL repository (katapult/internal/store/postgres/       *)
(* agent.go), the gRPC handlers that call it and the agent process that    *)
(* registers and heartbeats (katapult/cmd/agent, katapult/internal/agent). *)
(*                                                                         *)
(* One agents row per (cluster, node) pair, here a node.  Register and     *)
(* Heartbeat run in a goroutine per call (a handler), read the row, decide *)
(* and write in a later transaction; the health evaluator runs two UPDATEs *)
(* with cutoffs computed from one reading of the clock.  An agent process  *)
(* is sequential, but a call it gave up on may still run in the control    *)
(* plane, next to the call that replaced it.                               *)
(*                                                                         *)
(* Time is kept as ages: how many ticks ago a timestamp was taken, counted *)
(* up to MaxAge.  The database's and the control plane's clocks are one.   *)
(***************************************************************************)
EXTENDS Integers, FiniteSets

CONSTANTS
  Nodes,               \* the (cluster_id, node_name) pairs
  AgentIDs, NoID,      \* the ids uuid.New may hand out; no id
  Handlers, NoHandler, \* RPCs that may be in flight together; none
  Namespaces,          \* the namespaces JWT claims may carry
  NoNamespace,         \* jwt_namespace = ''
  Reports,             \* the PVC inventories an agent may report
  AuthEnabled,         \* JWT_PUBLIC_KEY_PATH is set
  UnhealthyTimeout, DisconnectedTimeout,
  MaxLag,              \* bound: ticks one evaluation may take
  MaxAge,              \* bound: where an age stops counting
  MaxAttempts,         \* registrationRetries, maxRetries
  CallsFail,           \* whether calls and statements may return an error
  CallsLost,           \* whether an agent may lose its connection
  ProcessesExit        \* whether an agent's process may end

ASSUME IDsAssumption == NoID \notin AgentIDs /\ NoHandler \notin Handlers
ASSUME TimeAssumption ==
  /\ UnhealthyTimeout \in Nat /\ DisconnectedTimeout \in Nat /\ MaxLag \in Nat
  /\ MaxAge \in Nat
  /\ MaxAge > UnhealthyTimeout + MaxLag
  /\ MaxAge > DisconnectedTimeout + MaxLag
ASSUME FlagsAssumption ==
  /\ AuthEnabled \in BOOLEAN /\ CallsFail \in BOOLEAN /\ CallsLost \in BOOLEAN
  /\ ProcessesExit \in BOOLEAN
  /\ MaxAttempts \in Nat \ {0}

VARIABLES
  row,     \* the agents table
  pvcs,    \* the agent_pvcs table, by the node of the agent they belong to
  bound,   \* history: the namespaces an id was ever on record with
  hd,      \* the handlers
  proc,    \* the agent processes
  eval,    \* the health evaluator: its next statement
  lag      \* ticks since the evaluator read the clock

vars == <<row, pvcs, bound, hd, proc, eval, lag>>

-----------------------------------------------------------------------------
(* The state.                                                              *)

PVCs == UNION Reports
Ages == 0 .. MaxAge

RowStates == {"healthy", "unhealthy", "disconnected"}

Rows == [id : AgentIDs \cup {NoID}, state : RowStates \cup {"absent"},
         healthy : BOOLEAN, age : Ages, ns : Namespaces \cup {NoNamespace}]

AbsentRow == [id |-> NoID, state |-> "absent", healthy |-> FALSE, age |-> 0,
              ns |-> NoNamespace]

HandlerPCs == {"idle", "lookup", "upsertDelete", "upsertCommit",
               "load", "updateHeartbeat"}

\* node, ns, report: the call's arguments; id, age: the agent RegisterAgent
\* builds, or the agent_id of a heartbeat; deleted: what UpsertAgent's DELETE
\* removed in the open transaction.
HandlerStates == [pc : HandlerPCs, node : Nodes \cup {NoHandler},
                  ns : Namespaces \cup {NoNamespace}, report : SUBSET PVCs,
                  id : AgentIDs \cup {NoID}, age : Ages, deleted : SUBSET PVCs]

IdleHandler == [pc |-> "idle", node |-> NoHandler, ns |-> NoNamespace,
                report |-> {}, id |-> NoID, age |-> 0, deleted |-> {}]

\* mode: "registering" is the first registration, "reregistering" the one of
\* the heartbeat loop; id: Client.agentID; call: the handler it waits for.
Processes == [mode : {"down", "registering", "running", "reregistering"},
              id : AgentIDs \cup {NoID}, attempts : 0 .. (MaxAttempts - 1),
              call : Handlers \cup {NoHandler}]

Down == [mode |-> "down", id |-> NoID, attempts |-> 0, call |-> NoHandler]

\* The type of the state: tables, handlers, processes and the evaluator.
TypeOK ==
  /\ row \in [Nodes -> Rows]
  /\ pvcs \in [Nodes -> SUBSET PVCs]
  /\ bound \in [AgentIDs -> SUBSET (Namespaces \cup {NoNamespace})]
  /\ hd \in [Handlers -> HandlerStates]
  /\ proc \in [Nodes -> Processes]
  /\ eval \in {"idle", "markUnhealthy", "markDisconnected"}
  /\ lag \in 0 .. MaxLag

Init ==
  /\ row = [n \in Nodes |-> AbsentRow]
  /\ pvcs = [n \in Nodes |-> {}]
  /\ bound = [i \in AgentIDs |-> {}]
  /\ hd = [h \in Handlers |-> IdleHandler]
  /\ proc = [n \in Nodes |-> Down]
  /\ eval = "idle"
  /\ lag = 0

tables == <<row, pvcs, bound>>
evaluator == <<eval, lag>>

-----------------------------------------------------------------------------
(* The agent process.                                                      *)

\* What the interceptor lets through: SendHeartbeat attaches no token, Register
\* does.
HeartbeatCarriesToken == FALSE
Authenticated(carriesToken) == AuthEnabled => carriesToken

\* The namespace AgentServer.Register takes from the claims.
ClaimedNamespaces == IF AuthEnabled THEN Namespaces ELSE {NoNamespace}

\* run: tools verified, PVCs discovered, token read, connection built.
Start(n) ==
  /\ proc[n].mode = "down"
  /\ proc' = [proc EXCEPT ![n].mode = "registering"]
  /\ UNCHANGED <<tables, hd, evaluator>>

\* Client.Register reaches a handler.  The DaemonSet may be redeployed in
\* another namespace and the inventory changes, so both are chosen anew.
SendRegister(n, h, ns, report) ==
  /\ proc[n].mode \in {"registering", "reregistering"}
  /\ proc[n].call = NoHandler
  /\ hd[h].pc = "idle"
  /\ hd' = [hd EXCEPT ![h] = [IdleHandler EXCEPT !.pc = "lookup", !.node = n,
                              !.ns = ns, !.report = report]]
  /\ proc' = [proc EXCEPT ![n].call = h]
  /\ UNCHANGED <<tables, evaluator>>

\* A tick of RunHeartbeatLoop: SendHeartbeat reaches a handler.  A heartbeat
\* the interceptor rejects has no effect on either side.
SendHeartbeat(n, h, report) ==
  /\ Authenticated(HeartbeatCarriesToken)
  /\ proc[n].mode = "running"
  /\ proc[n].id # NoID
  /\ proc[n].call = NoHandler
  /\ hd[h].pc = "idle"
  /\ hd' = [hd EXCEPT ![h] = [IdleHandler EXCEPT !.pc = "load", !.node = n,
                              !.id = proc[n].id, !.report = report]]
  /\ proc' = [proc EXCEPT ![n].call = h]
  /\ UNCHANGED <<tables, evaluator>>

\* retryRegistration and retryReregister: after the last attempt the process
\* exits, or goes back to its heartbeat loop.  Seeded fault first: one attempt
\* too many.
RegisterFailedLate(p) ==
  IF p.attempts < MaxAttempts
  THEN [p EXCEPT !.attempts = @ + 1, !.call = NoHandler]
  ELSE IF p.mode = "registering"
       THEN Down
       ELSE [p EXCEPT !.mode = "running", !.attempts = 0, !.call = NoHandler]
RegisterFailed(p) ==
  IF p.attempts + 1 < MaxAttempts
  THEN [p EXCEPT !.attempts = @ + 1, !.call = NoHandler]
  ELSE IF p.mode = "registering"
       THEN Down
       ELSE [p EXCEPT !.mode = "running", !.attempts = 0, !.call = NoHandler]

Registered(p, id) ==
  [p EXCEPT !.mode = "running", !.id = id, !.attempts = 0, !.call = NoHandler]

\* What the process makes of a call's result.  Of the errors of a heartbeat only
\* FailedPrecondition ("must re-register") makes isReregistrationNeeded true.
\* Seeded fault first: isReregistrationNeeded never is.
HearsNothing(p, result, id) ==
  CASE result = "registered"    -> Registered(p, id)
    [] result = "registerError" -> RegisterFailed(p)
    [] OTHER -> [p EXCEPT !.call = NoHandler]
Hears(p, result, id) ==
  CASE result = "registered"    -> Registered(p, id)
    [] result = "registerError" -> RegisterFailed(p)
    [] result = "mustReregister" ->
         [p EXCEPT !.mode = "reregistering", !.call = NoHandler]
    [] OTHER -> [p EXCEPT !.call = NoHandler]

\* The handler returns; a process that no longer waits for it hears nothing.
Reply(h, result) ==
  LET n == hd[h].node
  IN /\ hd' = [hd EXCEPT ![h] = IdleHandler]
     /\ proc' = IF proc[n].call = h
                THEN [proc EXCEPT ![n] = Hears(@, result, hd[h].id)]
                ELSE proc

\* The error of a call whose connection broke or whose handler failed.
ErrorOf(p) == IF p.mode = "running" THEN "heartbeatError" ELSE "registerError"

\* The connection breaks: the process sees Unavailable, the handler runs on.
LoseCall(n) ==
  /\ CallsLost
  /\ proc[n].call # NoHandler
  /\ proc' = [proc EXCEPT ![n] = Hears(@, ErrorOf(@), NoID)]
  /\ UNCHANGED <<tables, hd, evaluator>>

\* SIGTERM, eviction or a crash of the agent.
Exit(n) ==
  /\ ProcessesExit
  /\ proc[n].mode # "down"
  /\ proc' = [proc EXCEPT ![n] = Down]
  /\ UNCHANGED <<tables, hd, evaluator>>

-----------------------------------------------------------------------------
(* RegisterAgent.                                                          *)

Fresh(i) == /\ bound[i] = {}
            /\ \A h \in Handlers : hd[h].id # i

\* Seeded fault: a namespace mismatch is rejected only for a healthy agent.
NamespaceMismatchLax(r, ns) ==
  r.state = "healthy" /\ r.ns # NoNamespace /\ r.ns # ns
NamespaceMismatch(r, ns) == r.ns # NoNamespace /\ r.ns # ns

\* GetAgentByClusterAndNode, the decision on what it returned, and the agent
\* to be written, stamped with the time.
RegLookup(h) ==
  LET r == row[hd[h].node]
  IN /\ hd[h].pc = "lookup"
     /\ IF NamespaceMismatch(r, hd[h].ns)
        THEN Reply(h, "registerError")
        ELSE /\ \E i \in AgentIDs :
                  /\ IF r.state = "absent" THEN Fresh(i) ELSE i = r.id
                  /\ hd' = [hd EXCEPT ![h].pc = "upsertDelete", ![h].id = i,
                                      ![h].age = 0]
             /\ UNCHANGED proc
     /\ UNCHANGED <<tables, evaluator>>

\* Another open transaction has deleted, and so locked, PVC rows of node n.
Locked(n, h) ==
  \E g \in Handlers \ {h} : /\ hd[g].pc = "upsertCommit"
                            /\ hd[g].node = n
                            /\ hd[g].deleted # {}

\* UpsertAgent's DELETE, by cluster and node.
UpsertDelete(h) ==
  /\ hd[h].pc = "upsertDelete"
  /\ ~Locked(hd[h].node, h)
  /\ hd' = [hd EXCEPT ![h].pc = "upsertCommit", ![h].deleted = pvcs[hd[h].node]]
  /\ UNCHANGED <<tables, proc, evaluator>>

\* PVC rows committed after this transaction's DELETE are still there.
Residual(h) == pvcs[hd[h].node] \ hd[h].deleted

\* ON CONFLICT gives the row another id while PVC rows refer to the old one.
ForeignKeyViolation(h) ==
  row[hd[h].node].id \notin {NoID, hd[h].id} /\ Residual(h) # {}

\* An INSERT of a PVC row that is still there.
PrimaryKeyViolation(h) ==
  row[hd[h].node].id = hd[h].id /\ Residual(h) \cap hd[h].report # {}

\* INSERT ... ON CONFLICT (cluster_id, node_name) DO UPDATE.
UpsertedRow(h) == [id |-> hd[h].id, state |-> "healthy", healthy |-> TRUE,
                   age |-> hd[h].age, ns |-> hd[h].ns]

\* The upsert, the INSERTs of the PVCs and the commit, or the rollback.
UpsertCommit(h) ==
  LET n == hd[h].node
  IN /\ hd[h].pc = "upsertCommit"
     /\ ~Locked(n, h)
     /\ IF ForeignKeyViolation(h) \/ PrimaryKeyViolation(h)
        THEN /\ Reply(h, "registerError")
             /\ UNCHANGED tables
        ELSE /\ row' = [row EXCEPT ![n] = UpsertedRow(h)]
             /\ pvcs' = [pvcs EXCEPT ![n] = Residual(h) \cup hd[h].report]
             /\ bound' = [bound EXCEPT ![hd[h].id] = @ \cup {hd[h].ns}]
             /\ Reply(h, "registered")
     /\ UNCHANGED evaluator

-----------------------------------------------------------------------------
(* Heartbeat.                                                              *)

\* WHERE id = i: the nodes whose row has this id.
RowsOf(i) == {n \in Nodes : row[n].state # "absent" /\ row[n].id = i}

\* GetAgentByID and the checks on what it returned.
HeartbeatLoad(h) ==
  LET i == hd[h].id
  IN /\ hd[h].pc = "load"
     /\ CASE RowsOf(i) = {} -> Reply(h, "heartbeatError")
          [] \E n \in RowsOf(i) : row[n].state = "disconnected" ->
               Reply(h, "mustReregister")
          [] OTHER -> /\ hd' = [hd EXCEPT ![h].pc = "updateHeartbeat"]
                      /\ UNCHANGED proc
     /\ UNCHANGED <<tables, evaluator>>

\* UPDATE agents SET healthy = TRUE, state = 'healthy', last_heartbeat = NOW().
HeartbeatRow(r) == [r EXCEPT !.healthy = TRUE, !.state = "healthy", !.age = 0]

\* The transaction of UpdateHeartbeat.  When the id is no longer on record the
\* UPDATE and the DELETE match nothing, and an INSERT breaks the foreign key.
UpdateHeartbeat(h) ==
  LET mine == RowsOf(hd[h].id)
  IN /\ hd[h].pc = "updateHeartbeat"
     /\ \A n \in mine : ~Locked(n, h)
     /\ row' = [n \in Nodes |-> IF n \in mine THEN HeartbeatRow(row[n]) ELSE row[n]]
     /\ pvcs' = [n \in Nodes |-> IF n \in mine THEN hd[h].report ELSE pvcs[n]]
     /\ Reply(h, IF mine = {} /\ hd[h].report # {} THEN "heartbeatError" ELSE "ack")
     /\ UNCHANGED <<bound, evaluator>>

\* A statement of the handler returns an error (the database is away, the
\* transaction is a deadlock victim, the context is cancelled, the control
\* plane stops) and an open transaction is rolled back.
HandlerFails(h) ==
  /\ CallsFail
  /\ hd[h].pc # "idle"
  /\ Reply(h, IF hd[h].pc \in {"load", "updateHeartbeat"}
              THEN "heartbeatError" ELSE "registerError")
  /\ UNCHANGED <<tables, evaluator>>

-----------------------------------------------------------------------------
(* The health evaluator.                                                   *)

\* A tick of RunLoop: Evaluate reads the clock.
EvalStart ==
  /\ eval = "idle"
  /\ eval' = "markUnhealthy"
  /\ UNCHANGED <<tables, hd, proc, lag>>

\* last_heartbeat < now - timeout, with the evaluator's now.  Seeded fault
\* first: the delay counts with the wrong sign.
StaleEarly(r, timeout) == r.age + lag > timeout
Stale(r, timeout) == r.age > timeout + lag

MarkUnhealthyRow(r) ==
  IF r.state = "healthy" /\ Stale(r, UnhealthyTimeout)
  THEN [r EXCEPT !.state = "unhealthy", !.healthy = FALSE] ELSE r

\* Seeded fault: the statement does not ask for the unhealthy state.
MarkDisconnectedAny(r) ==
  IF r.state \in RowStates /\ Stale(r, DisconnectedTimeout)
  THEN [r EXCEPT !.state = "disconnected"] ELSE r
MarkDisconnectedRow(r) ==
  IF r.state = "unhealthy" /\ Stale(r, DisconnectedTimeout)
  THEN [r EXCEPT !.state = "disconnected"] ELSE r

\* Seeded fault: a cycle that marks an agent unhealthy ends there.
MarkUnhealthyOnly ==
  /\ eval = "markUnhealthy"
  /\ row' = [n \in Nodes |-> MarkUnhealthyRow(row[n])]
  /\ eval' = "idle"
  /\ lag' = 0
  /\ UNCHANGED <<pvcs, bound, hd, proc>>
MarkUnhealthy ==
  /\ eval = "markUnhealthy"
  /\ row' = [n \in Nodes |-> MarkUnhealthyRow(row[n])]
  /\ eval' = "markDisconnected"
  /\ UNCHANGED <<pvcs, bound, hd, proc, lag>>

MarkDisconnected ==
  /\ eval = "markDisconnected"
  /\ row' = [n \in Nodes |-> MarkDisconnectedRow(row[n])]
  /\ eval' = "idle"
  /\ lag' = 0
  /\ UNCHANGED <<pvcs, bound, hd, proc>>

\* A failed statement ends the cycle.
EvalFails ==
  /\ CallsFail
  /\ eval # "idle"
  /\ eval' = "idle"
  /\ lag' = 0
  /\ UNCHANGED <<tables, hd, proc>>

Aged(a) == IF a < MaxAge THEN a + 1 ELSE a

\* Time passes; one evaluation takes at most MaxLag ticks.
Tick ==
  /\ eval # "idle" => lag < MaxLag
  /\ row' = [n \in Nodes |-> IF row[n].state = "absent" THEN row[n]
                             ELSE [row[n] EXCEPT !.age = Aged(@)]]
  /\ hd' = [h \in Handlers |->
              IF hd[h].pc \in {"upsertDelete", "upsertCommit"}
              THEN [hd[h] EXCEPT !.age = Aged(@)] ELSE hd[h]]
  /\ lag' = IF eval = "idle" THEN lag ELSE lag + 1
  /\ UNCHANGED <<pvcs, bound, proc, eval>>

-----------------------------------------------------------------------------
HandlerStep(h) ==
  \/ RegLookup(h)     \/ UpsertDelete(h)    \/ UpsertCommit(h)
  \/ HeartbeatLoad(h) \/ UpdateHeartbeat(h)

Evaluate == EvalStart \/ MarkUnhealthy \/ MarkDisconnected

Send(n) ==
  \E h \in Handlers, report \in Reports :
     \/ \E ns \in ClaimedNamespaces : SendRegister(n, h, ns, report)
     \/ SendHeartbeat(n, h, report)

Next ==
  \/ \E n \in Nodes : Start(n) \/ LoseCall(n) \/ Exit(n)
  \/ \E n \in Nodes : Send(n)
  \/ \E h \in Handlers : HandlerStep(h) \/ HandlerFails(h)
  \/ Evaluate \/ EvalFails \/ Tick

Spec == Init /\ [][Next]_vars

\* Calls return, the evaluator's ticker fires, the heartbeat loop runs, time
\* passes.  Nothing makes a process start, exit or lose a call.
Fairness ==
  /\ \A h \in Handlers : WF_vars(HandlerStep(h))
  /\ \A n \in Nodes : WF_vars(Send(n))
  /\ WF_vars(Evaluate)
  /\ WF_vars(Tick)

FairSpec == Spec /\ Fairness

-----------------------------------------------------------------------------
(* What the registry promises.                                             *)

(***************************************************************************)
(* The healthy column and the state column are written by five statements  *)
(* (the upsert, the heartbeat, the two of the evaluator, and RegisterAgent *)
(* through TransitionTo); MarkDisconnected leaves the flag alone.  Still   *)
(* the flag is set exactly in the healthy state.                           *)
(***************************************************************************)
HealthyFlagMatchesState ==
  \A n \in Nodes : row[n].healthy <=> row[n].state = "healthy"

(***************************************************************************)
(* The evaluator works with cutoffs taken from a clock reading that may be *)
(* old when its statements run, on rows that heartbeats and registrations  *)
(* rewrite meanwhile.  Still an agent recorded as unhealthy or             *)
(* disconnected has, at any time, been silent for more than that state's   *)
(* timeout, as its last_heartbeat tells.                                   *)
(***************************************************************************)
NeverMarkedEarly ==
  \A n \in Nodes :
    /\ row[n].state = "unhealthy" => row[n].age > UnhealthyTimeout
    /\ row[n].state = "disconnected" => row[n].age > DisconnectedTimeout

(***************************************************************************)
(* The binding of agent_id and JWT identity is immutable: whatever         *)
(* registrations race for a node, from whatever namespaces, no id is ever  *)
(* on record with two namespaces, even when another id replaced it in      *)
(* between.                                                                *)
(***************************************************************************)
IdentityKeepsNamespace ==
  \A i \in AgentIDs : \A a, b \in bound[i] : a = b

\* The handler is between RegisterAgent's lookup and the end of UpsertAgent.
Upserting(h) == hd[h].pc \in {"upsertDelete", "upsertCommit"}

\* Every token the interceptor accepts names a namespace.
TokensNameNamespaces == AuthEnabled => NoNamespace \notin Namespaces

\* Namespaces on record and of registrations under way come from tokens.
NamespacesClaimed ==
  /\ \A i \in AgentIDs : bound[i] \subseteq ClaimedNamespaces
  /\ \A h \in Handlers : hd[h].pc = "lookup" \/ Upserting(h)
                           => hd[h].ns \in ClaimedNamespaces

\* A row's namespace is one its id was recorded with.
RowsBound ==
  \A n \in Nodes : row[n].state # "absent" =>
    row[n].id \in AgentIDs /\ row[n].ns \in bound[row[n].id]

\* A registration under way agrees with every namespace its id was recorded
\* with ...
RegistrationsAgreeWithRecord ==
  \A h \in Handlers : Upserting(h) =>
    hd[h].id \in AgentIDs /\ \A ns \in bound[hd[h].id] : ns = hd[h].ns

\* ... and two of them for one id come from one namespace.
RegistrationsAgree ==
  \A g, h \in Handlers :
    Upserting(g) /\ Upserting(h) /\ hd[g].id = hd[h].id => hd[g].ns = hd[h].ns

(***************************************************************************)
(* Why the binding holds, as an inductive invariant: whoever is about to   *)
(* write an id's namespace, after a check that may be stale by then, would *)
(* write the one the id already has.                                       *)
(***************************************************************************)
BindingInv ==
  /\ NamespacesClaimed
  /\ RowsBound
  /\ RegistrationsAgreeWithRecord
  /\ RegistrationsAgree
  /\ IdentityKeepsNamespace

(***************************************************************************)
(* An agent that stopped for good does not stay on record as available:    *)
(* its row ends up disconnected, unless the process is started again.      *)
(***************************************************************************)
SilentAgentIsDisconnected ==
  \A n \in Nodes :
    (proc[n].mode = "down" /\ row[n].state # "absent")
      ~> (row[n].state = "disconnected" \/ proc[n].mode # "down")

(***************************************************************************)
(* A live agent that the evaluator disconnected (its heartbeats were late) *)
(* is told to re-register and is healthy again, unless its process ends.   *)
(***************************************************************************)
RunningAgentIsHealthyAgain ==
  \A n \in Nodes :
    (proc[n].mode = "running" /\ row[n].state = "disconnected")
      ~> (row[n].state = "healthy" \/ proc[n].mode = "down")

-----------------------------------------------------------------------------
(* What the documents and comments say and the code does not do.           *)

(***************************************************************************)
(* "Disconnected -> Healthy is prohibited (agent must re-register first)": *)
(* only the commit of a registration takes a row out of disconnected.      *)
(* Heartbeat checks the state in one statement and writes it in another.   *)
(***************************************************************************)
DisconnectedNeedsRegistration ==
  [][\A n \in Nodes :
       (row[n].state = "disconnected" /\ row'[n].state = "healthy")
         => \E h \in Handlers : hd[h].pc = "upsertCommit" /\ hd[h].node = n]_vars

(***************************************************************************)
(* UpsertAgent deletes the PVCs first "to avoid FK violation when ON       *)
(* CONFLICT changes the agent ID": no upsert meets that violation.         *)
(***************************************************************************)
UpsertKeepsForeignKey ==
  \A h \in Handlers :
    (hd[h].pc = "upsertCommit" /\ ~Locked(hd[h].node, h)) => ~ForeignKeyViolation(h)

(***************************************************************************)
(* "UpsertAgent ... replaces its PVC inventory": what is on record for an  *)
(* agent is one report, never a mixture of two.                            *)
(***************************************************************************)
InventoryIsOneReport == \A n \in Nodes : pvcs[n] \in Reports \cup {{}}
=============================================================================
