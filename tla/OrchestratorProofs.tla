-------------------------- MODULE OrchestratorProofs --------------------------
(***************************************************************************)
(* Theorems about Orchestrator, for any number of transfers, handlers and  *)
(* requests, with and without faults and crashes.                          *)
(***************************************************************************)
EXTENDS Orchestrator, TLAPS, FiniteSetTheorems

\* A handler at work has a row of the right type.
LEMMA OwnRow ==
  ASSUME IndInv, NEW h \in Handlers, pc[h] # "idle"
  PROVE  /\ tid[h] \in Transfers
         /\ row[tid[h]] \in Rows
         /\ row[tid[h]].state # "absent"
BY DEF IndInv, TypeOK, HandlerHasRow

\* The rows after each UPDATE: what changes, and that they are rows.
LEMMA UpdatedRow ==
  ASSUME NEW r \in Rows
  PROVE  /\ \A s \in TransferStates : UpdateTransferState(r, s) \in Rows
         /\ \A s \in TransferStrategies : UpdateTransferStrategy(r, s) \in Rows
         /\ UpdateTransferStarted(r) \in Rows
         /\ UpdateTransferCompleted(r) \in Rows
         /\ \A e \in Errors : UpdateTransferFailed(r, e) \in Rows
         /\ IncrementRetryCount(r) \in Rows
<1>1. \A s \in TransferStates : UpdateTransferState(r, s) \in Rows
  BY DEF Rows, UpdateTransferState
<1>2. \A s \in TransferStrategies : UpdateTransferStrategy(r, s) \in Rows
  BY DEF Rows, UpdateTransferStrategy
<1>3. UpdateTransferStarted(r) \in Rows /\ UpdateTransferCompleted(r) \in Rows
  BY DEF Rows, UpdateTransferStarted, UpdateTransferCompleted
<1>4. \A e \in Errors : UpdateTransferFailed(r, e) \in Rows
  BY DEF Rows, UpdateTransferFailed, TransferStates
<1>5. IncrementRetryCount(r) \in Rows
  BY DEF Rows, IncrementRetryCount
<1> QED BY <1>1, <1>2, <1>3, <1>4, <1>5

\* Handler h goes to p; the other handlers stay where they are, and a handler
\* keeps its locals as long as it is at work.
Moves(h, p) ==
  /\ pc' = [pc EXCEPT ![h] = p]
  /\ \A g \in Handlers :
       pc'[g] # "idle" => /\ pc[g] # "idle"
                          /\ tid'[g] = tid[g]
                          /\ copy'[g] = copy[g]
                          /\ report'[g] = report[g]

\* The types of a handler's variables.
ControlTypes ==
  /\ pc \in [Handlers -> PCs]
  /\ tid \in [Handlers -> Transfers \cup {NoTransfer}]
  /\ copy \in [Handlers -> Copies]
  /\ req \in [Handlers -> Requests \cup {NoRequest}]
  /\ report \in [Handlers -> Statuses \cup {"none"}]

\* A handler that returns leaves its variables empty.
LEMMA ReturnTypes ==
  ASSUME ControlTypes, NEW h \in Handlers, Return(h)
  PROVE  ControlTypes'
<1>1. NoCopy \in Copies
  BY DEF NoCopy, Loaded, AbsentRow, Copies, TransferStates
<1>2. pc' \in [Handlers -> PCs]
  BY DEF ControlTypes, Return, PCs
<1>3. tid' \in [Handlers -> Transfers \cup {NoTransfer}]
  BY DEF ControlTypes, Return
<1>4. copy' \in [Handlers -> Copies]
  BY <1>1 DEF ControlTypes, Return
<1>5. req' \in [Handlers -> Requests \cup {NoRequest}]
  BY DEF ControlTypes, Return
<1>6. report' \in [Handlers -> Statuses \cup {"none"}]
  BY DEF ControlTypes, Return
<1> QED BY <1>2, <1>3, <1>4, <1>5, <1>6 DEF ControlTypes

\* What Advance does to the handlers.
LEMMA ControlFrame ==
  ASSUME IndInv, NEW h \in Handlers, NEW p \in PCs, Advance(h, p),
         pc[h] # "idle", p \in CreatePCs => pc[h] \in CreatePCs
  PROVE  Moves(h, p) /\ ControlTypes' /\ OneCreator'
<1> USE DEF IndInv, TypeOK
<1>1. CASE p = "idle"
  <2>1. Return(h)
    BY <1>1 DEF Advance
  <2>2. OneCreator'
    BY <2>1 DEF Return, OneCreator, CreatePCs
  <2>3. ControlTypes'
    BY <2>1, ReturnTypes DEF ControlTypes
  <2> QED BY <1>1, <2>1, <2>2, <2>3 DEF Return, Moves
<1>2. CASE p # "idle"
  <2>1. OneCreator'
    BY <1>2 DEF Advance, Goto, local, OneCreator
  <2> QED BY <1>2, <2>1 DEF Advance, Goto, local, Moves, ControlTypes
<1> QED BY <1>1, <1>2

\* Transfer t's row becomes r, or stays as it is when the call had no effect.
Updates(t, r) ==
  /\ \A u \in Transfers : u # t => row'[u] = row[u]
  /\ row'[t] \in {row[t], r}

\* What a call with any outcome does to the table.
LEMMA WriteFrame ==
  ASSUME IndInv, NEW h \in Handlers, pc[h] # "idle", NEW r \in Rows,
         r.state # "absent", NEW out, row' = Written(tid[h], r, out)
  PROVE  /\ row' \in [Transfers -> Rows]
         /\ Updates(tid[h], r)
         /\ out # "lost" => row'[tid[h]] = r
         /\ \A t \in Transfers : row[t].state # "absent" => row'[t].state # "absent"
BY OwnRow DEF IndInv, TypeOK, Written, Updates

\* The frame of a repository call whose error makes the handler return.
LEMMA StatementFrame ==
  ASSUME IndInv, NEW h \in Handlers, NEW from, NEW to \in PCs,
         from # "idle", to \in CreatePCs => from \in CreatePCs,
         NEW r \in Rows, r.state # "absent", Statement(h, from, r, to)
  PROVE  /\ TypeOK' /\ HandlerHasRow' /\ OneCreator'
         /\ UNCHANGED <<events, agents, cleaned, closed>>
         /\ Updates(tid[h], r)
         /\ \E p \in {to, "idle"} : /\ Moves(h, p)
                                    /\ p # "idle" => row'[tid[h]] = r
<1>1. PICK out \in DBOutcomes :
        /\ row' = Written(tid[h], r, out)
        /\ Advance(h, IF out = "ok" THEN to ELSE "idle")
  BY DEF Statement
<1> DEFINE p == IF out = "ok" THEN to ELSE "idle"
<1>2. pc[h] = from /\ UNCHANGED <<events, agents, cleaned, closed>>
  BY DEF Statement, effects
<1>3. p \in PCs /\ (p \in CreatePCs => pc[h] \in CreatePCs) /\ Advance(h, p)
  BY <1>1, <1>2 DEF PCs, CreatePCs
<1>4. p \in {to, "idle"} /\ (p # "idle" => out # "lost")
  OBVIOUS
<1> HIDE DEF p
<1>5. Moves(h, p) /\ ControlTypes' /\ OneCreator'
  BY <1>2, <1>3, ControlFrame
<1>6. TypeOK'
  BY <1>1, <1>2, <1>5, WriteFrame DEF TypeOK, IndInv, ControlTypes
<1>7. HandlerHasRow'
  BY <1>1, <1>2, <1>5, WriteFrame DEF Moves, IndInv, HandlerHasRow
<1>8. Updates(tid[h], r) /\ (p # "idle" => row'[tid[h]] = r)
  BY <1>1, <1>2, <1>4, WriteFrame
<1> QED BY <1>2, <1>4, <1>5, <1>6, <1>7, <1>8

\* The frame of a repository call whose error is dropped.
LEMMA IgnoredStatementFrame ==
  ASSUME IndInv, NEW h \in Handlers, NEW from, NEW to \in PCs,
         from # "idle", to \in CreatePCs => from \in CreatePCs,
         NEW r \in Rows, r.state # "absent", IgnoredStatement(h, from, r, to)
  PROVE  /\ TypeOK' /\ HandlerHasRow' /\ OneCreator'
         /\ UNCHANGED <<events, agents, cleaned, closed>>
         /\ Updates(tid[h], r)
         /\ Moves(h, to)
<1>1. PICK out \in DBOutcomes : row' = Written(tid[h], r, out)
  BY DEF IgnoredStatement
<1>2. pc[h] = from /\ Advance(h, to) /\ UNCHANGED <<events, agents, cleaned, closed>>
  BY DEF IgnoredStatement, effects
<1>3. Moves(h, to) /\ ControlTypes' /\ OneCreator'
  BY <1>2, ControlFrame
<1>4. TypeOK'
  BY <1>1, <1>2, <1>3, WriteFrame DEF TypeOK, IndInv, ControlTypes
<1>5. HandlerHasRow'
  BY <1>1, <1>2, <1>3, WriteFrame DEF Moves, IndInv, HandlerHasRow
<1>6. Updates(tid[h], r)
  BY <1>1, <1>2, WriteFrame
<1> QED BY <1>2, <1>3, <1>4, <1>5, <1>6
\* The agents after a command or a cancel: a cancel never makes an agent idle or
\* wakes one up.
LEMMA AgentFrame ==
  ASSUME IndInv, NEW t \in Transfers, NEW side \in Sides, NEW out
  PROVE  /\ Cancelled(t, side, out) \in [Transfers -> [Sides -> {"idle", "running", "stopped"}]]
         /\ Commanded(t, side, out) \in [Transfers -> [Sides -> {"idle", "running", "stopped"}]]
         /\ \A u \in Transfers, s \in Sides :
              Cancelled(t, side, out)[u][s] = "idle" <=> agents[u][s] = "idle"
         /\ \A u \in Transfers : u # t => Commanded(t, side, out)[u] = agents[u]
         /\ \A s \in Sides : agents[t][s] # "idle" => Commanded(t, side, out)[t][s] # "idle"
<1> USE DEF IndInv, TypeOK
<1>1. CASE out = "lost"
  BY <1>1 DEF Cancelled, Commanded
<1>2. CASE out # "lost"
  <2>1. Commanded(t, side, out) \in [Transfers -> [Sides -> {"idle", "running", "stopped"}]]
    BY <1>2 DEF Commanded
  <2>2. Cancelled(t, side, out) \in [Transfers -> [Sides -> {"idle", "running", "stopped"}]]
    BY <1>2 DEF Cancelled
  <2>3. \A u \in Transfers, s \in Sides :
           Cancelled(t, side, out)[u][s] = "idle" <=> agents[u][s] = "idle"
    BY <1>2 DEF Cancelled
  <2> QED BY <1>2, <2>1, <2>2, <2>3 DEF Commanded
<1> QED BY <1>1, <1>2

\* The frame of the calls that leave the table alone.
LEMMA CallFrame ==
  ASSUME IndInv, NEW h \in Handlers, pc[h] # "idle", NEW p \in PCs,
         p \in CreatePCs => pc[h] \in CreatePCs, Advance(h, p), row' = row,
         events' \in [Transfers -> SUBSET TerminalStates],
         agents' \in [Transfers -> [Sides -> {"idle", "running", "stopped"}]],
         cleaned' \in [Transfers -> SUBSET {"creds", "s3"}],
         closed' \in [Transfers -> BOOLEAN]
  PROVE  TypeOK' /\ HandlerHasRow' /\ OneCreator' /\ Moves(h, p)
<1>1. Moves(h, p) /\ ControlTypes' /\ OneCreator'
  BY ControlFrame
<1>2. TypeOK'
  BY <1>1 DEF TypeOK, IndInv, ControlTypes
<1>3. HandlerHasRow'
  BY <1>1 DEF Moves, IndInv, HandlerHasRow
<1> QED BY <1>1, <1>2, <1>3

\* A step that only moves h past what the phases speak about keeps them.
LEMMA PhasesKept ==
  ASSUME IndInv, NEW h \in Handlers, pc[h] # "idle", NEW p \in PCs, Moves(h, p),
         p \in {"idle"} \cup CancelPCs \cup CleanupPCs \cup
               {"createFailedEvent", "completedEvent", "closeCompleted",
                "failedEvent", "closeFailed"},
         p \in ProgressPCs => pc[h] \in ProgressPCs,
         row' = row,
         \A t \in Transfers, s \in Sides : agents'[t][s] = "idle" <=> agents[t][s] = "idle"
  PROVE  /\ CreatorPhase' /\ CommandedPhase' /\ ReporterPhase' /\ StrategyChosen'
         /\ StrategyOnRecord' /\ StartedBeforeWork' /\ AgentFailureExhaustsRetries'
<1>0. \A t \in Transfers : Idle(agents'[t]) <=> Idle(agents[t])
  BY DEF Idle
<1>1. CreatorPhase'
  BY <1>0 DEF IndInv, TypeOK, HandlerHasRow, Moves, CreatorPhase, PhaseAt, CancelPCs, CleanupPCs
<1>2. CommandedPhase'
  BY <1>0 DEF IndInv, CommandedPhase
<1>3. ReporterPhase'
  BY <1>0 DEF IndInv, TypeOK, HandlerHasRow, Moves, ReporterPhase, ProgressPCs, CancelPCs, CleanupPCs
<1>4. StrategyChosen'
  BY DEF IndInv, TypeOK, Moves, StrategyChosen, CancelPCs, CleanupPCs
<1>5. StrategyOnRecord' /\ StartedBeforeWork' /\ AgentFailureExhaustsRetries'
  BY <1>0 DEF IndInv, StrategyOnRecord, StartedBeforeWork, AgentFailureExhaustsRetries, Idle
<1> QED BY <1>1, <1>2, <1>3, <1>4, <1>5

\* An UPDATE of handler h's row to r undoes nothing that others rely on, and what
\* the invariants say of a row holds of r.
Harmless(h, r) ==
  LET old == row[tid[h]]
  IN /\ r.retryMax = old.retryMax
     /\ r.retryCount >= old.retryCount
     /\ old.strategy # NoStrategy => r.strategy # NoStrategy
     /\ old.started => r.started
     /\ r.state \in TerminalStates \cup {old.state} \/ pc[h] \in CreatePCs
     /\ ~Idle(agents[tid[h]]) => r.state \in TerminalStates \cup {"transferring"}
     /\ r.state \in {"transferring", "completed"} => r.strategy # NoStrategy
     /\ r.state = "completed" => r.started
     /\ r.error = "agent" => r.retryCount >= r.retryMax

\* Handler h may be at p next.
Fits(h, p) ==
  /\ PhaseAt(p, row'[tid[h]], agents[tid[h]])
  /\ p # "setStrategy"
  /\ p \in ProgressPCs => pc[h] \in ProgressPCs
  /\ p = "setFailed" => copy[h].retryCount >= copy[h].retryMax
  /\ p = "incrementRetry" => copy[h].retryCount < copy[h].retryMax

\* A harmless UPDATE keeps the phases.
LEMMA WriteKeeps ==
  ASSUME IndInv, NEW h \in Handlers, pc[h] # "idle",
         NEW p \in PCs, Moves(h, p), agents' = agents,
         NEW r \in Rows, Updates(tid[h], r), Harmless(h, r), Fits(h, p)
  PROVE  /\ CreatorPhase' /\ CommandedPhase' /\ ReporterPhase' /\ StrategyChosen'
         /\ StrategyOnRecord' /\ StartedBeforeWork' /\ AgentFailureExhaustsRetries'
<1> USE DEF Harmless, Fits
<1> DEFINE t == tid[h]
<1>1. t \in Transfers /\ row[t] \in Rows
  BY OwnRow
<1>3. /\ \A u \in Transfers : u # t => row'[u] = row[u]
      /\ row'[t] \in {row[t], r}
  BY DEF Updates
<1>4. \A g \in Handlers : g # h => pc'[g] = pc[g]
  BY DEF Moves, IndInv, TypeOK
<1>5. pc'[h] = p
  BY DEF Moves, IndInv, TypeOK
<1>6. CreatorPhase'
  <2> SUFFICES ASSUME NEW g \in Handlers
               PROVE  PhaseAt(pc'[g], row'[tid'[g]], agents'[tid'[g]])
    BY DEF CreatorPhase
  <2>1. CASE pc'[g] = "idle" \/ pc'[g] \notin CreatePCs
    BY <2>1 DEF PhaseAt, CreatePCs
  <2>2. CASE g = h /\ pc'[g] # "idle"
    BY <2>2, <1>1, <1>5 DEF Moves
  <2>3. CASE g # h /\ pc'[g] \in CreatePCs
    <3>1. tid'[g] = tid[g] /\ tid[g] \in Transfers /\ pc'[g] = pc[g]
      BY <2>3, <1>4, OwnRow DEF Moves, CreatePCs
    <3>2. PhaseAt(pc[g], row[tid[g]], agents[tid[g]])
      BY DEF IndInv, CreatorPhase
    <3>3. CASE tid[g] # t
      BY <3>1, <3>2, <3>3, <1>3
    <3>4. CASE tid[g] = t
      <4>1. pc[h] \notin CreatePCs
        BY <2>3, <3>1, <3>4 DEF IndInv, OneCreator
      <4> QED BY <3>1, <3>2, <3>4, <4>1, <1>1, <1>3 DEF PhaseAt
    <3> QED BY <3>3, <3>4
  <2> QED BY <2>1, <2>2, <2>3
<1>7. CommandedPhase'
  BY <1>1, <1>3 DEF IndInv, CommandedPhase
<1>8. ReporterPhase'
  <2> SUFFICES ASSUME NEW g \in Handlers, pc'[g] \in ProgressPCs
               PROVE  /\ ~Idle(agents'[tid'[g]])
                      /\ copy'[g].retryMax = row'[tid'[g]].retryMax
                      /\ copy'[g].retryCount <= row'[tid'[g]].retryCount
                      /\ pc'[g] = "setFailed" => copy'[g].retryCount >= copy'[g].retryMax
                      /\ pc'[g] = "incrementRetry" => copy'[g].retryCount < copy'[g].retryMax
    BY DEF ReporterPhase
  <2>1. /\ tid'[g] = tid[g] /\ tid[g] \in Transfers /\ copy'[g] = copy[g]
        /\ pc[g] \in ProgressPCs
    BY <1>4, <1>5, OwnRow DEF Moves, ProgressPCs
  <2>2. /\ ~Idle(agents[tid[g]])
        /\ copy[g].retryMax = row[tid[g]].retryMax
        /\ copy[g].retryCount <= row[tid[g]].retryCount
    BY <2>1 DEF IndInv, ReporterPhase
  <2>3. /\ row'[tid[g]].retryMax = row[tid[g]].retryMax
        /\ row'[tid[g]].retryCount >= row[tid[g]].retryCount
    <3>1. row[tid[g]].retryCount \in Nat
      BY <2>1 DEF IndInv, TypeOK, Rows
    <3> QED BY <2>1, <1>1, <1>3, <3>1
  <2>4. copy[g].retryCount <= row'[tid[g]].retryCount
    <3>1. row'[tid[g]] \in Rows /\ row[tid[g]] \in Rows /\ copy[g] \in Copies
      BY <2>1, <1>1, <1>3 DEF IndInv, TypeOK
    <3> QED BY <2>2, <2>3, <3>1 DEF Rows, Copies
  <2> QED BY <2>1, <2>2, <2>3, <2>4, <1>4, <1>5 DEF IndInv, ReporterPhase
<1>9. StrategyChosen'
  BY <1>4, <1>5 DEF IndInv, StrategyChosen, Moves
<1>10. StrategyOnRecord'
  BY <1>1, <1>3 DEF IndInv, StrategyOnRecord
<1>11. StartedBeforeWork'
  BY <1>1, <1>3 DEF IndInv, StartedBeforeWork
<1>12. AgentFailureExhaustsRetries'
  BY <1>1, <1>3 DEF IndInv, AgentFailureExhaustsRetries
<1> QED BY <1>6, <1>7, <1>8, <1>9, <1>10, <1>11, <1>12


\* A repository call that is harmless and leads where the row fits keeps IndInv.
LEMMA StatementKeeps ==
  ASSUME IndInv, NEW h \in Handlers, NEW from, NEW to \in PCs,
         from # "idle", to \in CreatePCs => from \in CreatePCs,
         NEW r \in Rows, r.state # "absent", Statement(h, from, r, to),
         Harmless(h, r), row'[tid[h]] = r => Fits(h, to)
  PROVE  IndInv'
<1>1. /\ TypeOK' /\ HandlerHasRow' /\ OneCreator' /\ agents' = agents
      /\ Updates(tid[h], r)
  BY StatementFrame
<1>2. PICK p \in {to, "idle"} : Moves(h, p) /\ (p # "idle" => row'[tid[h]] = r)
  BY StatementFrame
<1>3. p \in PCs /\ pc[h] # "idle"
  BY DEF PCs, Statement
<1>4. Fits(h, p)
  <2>1. CASE p = "idle"
    BY <2>1 DEF Fits, PhaseAt, ProgressPCs
  <2>2. CASE p # "idle"
    BY <1>2, <2>2
  <2> QED BY <2>1, <2>2
<1> QED BY <1>1, <1>2, <1>3, <1>4, WriteKeeps DEF IndInv

\* The same for a call whose error is dropped.
LEMMA IgnoredStatementKeeps ==
  ASSUME IndInv, NEW h \in Handlers, NEW from, NEW to \in {"createFailedEvent", "idle"},
         from \in CreatePCs,
         NEW r \in Rows, r.state # "absent", IgnoredStatement(h, from, r, to),
         Harmless(h, r)
  PROVE  IndInv'
<1>1. to \in PCs /\ from # "idle" /\ pc[h] = from
  BY DEF PCs, CreatePCs, IgnoredStatement
<1>2. /\ TypeOK' /\ HandlerHasRow' /\ OneCreator' /\ agents' = agents
      /\ Updates(tid[h], r) /\ Moves(h, to)
  BY <1>1, IgnoredStatementFrame
<1>3. Fits(h, to)
  BY DEF Fits, PhaseAt, ProgressPCs
<1> QED BY <1>1, <1>2, <1>3, WriteKeeps DEF IndInv

-----------------------------------------------------------------------------
(* The UPDATEs of CreateTransfer.                                          *)

\* The row moves from pending to validating, unless somebody ended it.
LEMMA SetValidatingKeeps ==
  ASSUME IndInv, NEW h \in Handlers, SetValidating(h)
  PROVE  IndInv'
<1> DEFINE r == UpdateTransferState(row[tid[h]], "validating")
<1>1. pc[h] = "setValidating" /\ Statement(h, "setValidating", r, "validate")
  BY DEF SetValidating, Statement
<1>2. tid[h] \in Transfers /\ row[tid[h]] \in Rows /\ row[tid[h]].state # "absent"
  BY <1>1, OwnRow
<1>3. r \in Rows /\ r.state # "absent"
  <2>1. r \in Rows
    BY <1>1, <1>2, UpdatedRow DEF TransferStates
  <2> QED BY <1>2, <2>1 DEF UpdateTransferState, Rows
<1>4. Harmless(h, r)
  BY <1>1, <1>2 DEF Harmless, UpdateTransferState, Rows, IndInv, CreatorPhase, PhaseAt, TerminalStates, CreatePCs, StrategyOnRecord, StartedBeforeWork, AgentFailureExhaustsRetries
<1>5. row'[tid[h]] = r => Fits(h, "validate")
  BY <1>1, <1>2 DEF Fits, PhaseAt, ProgressPCs, UpdateTransferState, Rows, IndInv, CreatorPhase, PhaseAt, TerminalStates, CreatePCs, StrategyOnRecord, StartedBeforeWork, AgentFailureExhaustsRetries
<1>6. "validate" \in PCs /\ ("validate" \in CreatePCs => pc[h] \in CreatePCs)
  BY <1>1 DEF PCs, CreatePCs, CancelPCs, ProgressPCs
<1> QED BY <1>1, <1>3, <1>4, <1>5, <1>6, StatementKeeps

\* The strategy on record is the one SelectStrategy chose.
LEMMA SetStrategyKeeps ==
  ASSUME IndInv, NEW h \in Handlers, SetStrategy(h)
  PROVE  IndInv'
<1> DEFINE r == UpdateTransferStrategy(row[tid[h]], copy[h].strategy)
<1>1. pc[h] = "setStrategy" /\ Statement(h, "setStrategy", r, "setTransferring")
  BY DEF SetStrategy, Statement
<1>2. tid[h] \in Transfers /\ row[tid[h]] \in Rows /\ row[tid[h]].state # "absent"
  BY <1>1, OwnRow
<1>3. r \in Rows /\ r.state # "absent"
  <2>1. r \in Rows
    BY <1>1, <1>2, UpdatedRow DEF IndInv, TypeOK, Copies, StrategyChosen
  <2> QED BY <1>2, <2>1 DEF UpdateTransferStrategy, Rows
<1>4. Harmless(h, r)
  BY <1>1, <1>2 DEF Harmless, UpdateTransferStrategy, Rows, IndInv, CreatorPhase, PhaseAt, TerminalStates, CreatePCs, StrategyOnRecord, StartedBeforeWork, AgentFailureExhaustsRetries, StrategyChosen, CommandedPhase
<1>5. row'[tid[h]] = r => Fits(h, "setTransferring")
  BY <1>1, <1>2 DEF Fits, PhaseAt, ProgressPCs, UpdateTransferStrategy, Rows, IndInv, CreatorPhase, PhaseAt, TerminalStates, CreatePCs, StrategyOnRecord, StartedBeforeWork, AgentFailureExhaustsRetries, StrategyChosen
<1>6. "setTransferring" \in PCs /\ ("setTransferring" \in CreatePCs => pc[h] \in CreatePCs)
  BY <1>1 DEF PCs, CreatePCs, CancelPCs, ProgressPCs
<1> QED BY <1>1, <1>3, <1>4, <1>5, <1>6, StatementKeeps

\* The row moves on to transferring with its strategy on record.
LEMMA SetTransferringKeeps ==
  ASSUME IndInv, NEW h \in Handlers, SetTransferring(h)
  PROVE  IndInv'
<1> DEFINE r == UpdateTransferState(row[tid[h]], "transferring")
<1>1. pc[h] = "setTransferring" /\ Statement(h, "setTransferring", r, "setStarted")
  BY DEF SetTransferring, Statement
<1>2. tid[h] \in Transfers /\ row[tid[h]] \in Rows /\ row[tid[h]].state # "absent"
  BY <1>1, OwnRow
<1>3. r \in Rows /\ r.state # "absent"
  <2>1. r \in Rows
    BY <1>1, <1>2, UpdatedRow DEF TransferStates
  <2> QED BY <1>2, <2>1 DEF UpdateTransferState, Rows
<1>4. Harmless(h, r)
  BY <1>1, <1>2 DEF Harmless, UpdateTransferState, Rows, IndInv, CreatorPhase, PhaseAt, TerminalStates, CreatePCs, StrategyOnRecord, StartedBeforeWork, AgentFailureExhaustsRetries
<1>5. row'[tid[h]] = r => Fits(h, "setStarted")
  BY <1>1, <1>2 DEF Fits, PhaseAt, ProgressPCs, UpdateTransferState, Rows, IndInv, CreatorPhase, PhaseAt, TerminalStates, CreatePCs, StrategyOnRecord, StartedBeforeWork, AgentFailureExhaustsRetries
<1>6. "setStarted" \in PCs /\ ("setStarted" \in CreatePCs => pc[h] \in CreatePCs)
  BY <1>1 DEF PCs, CreatePCs, CancelPCs, ProgressPCs
<1> QED BY <1>1, <1>3, <1>4, <1>5, <1>6, StatementKeeps

\* started_at is set before any agent is commanded.
LEMMA SetStartedKeeps ==
  ASSUME IndInv, NEW h \in Handlers, SetStarted(h)
  PROVE  IndInv'
<1> DEFINE r == UpdateTransferStarted(row[tid[h]])
<1>1. pc[h] = "setStarted" /\ Statement(h, "setStarted", r, "commandSource")
  BY DEF SetStarted, Statement
<1>2. tid[h] \in Transfers /\ row[tid[h]] \in Rows /\ row[tid[h]].state # "absent"
  BY <1>1, OwnRow
<1>3. r \in Rows /\ r.state # "absent"
  <2>1. r \in Rows
    BY <1>1, <1>2, UpdatedRow DEF TransferStates
  <2> QED BY <1>2, <2>1 DEF UpdateTransferStarted, Rows
<1>4. Harmless(h, r)
  BY <1>1, <1>2 DEF Harmless, UpdateTransferStarted, Rows, IndInv, CreatorPhase, PhaseAt, TerminalStates, CreatePCs, StrategyOnRecord, StartedBeforeWork, AgentFailureExhaustsRetries, CommandedPhase
<1>5. row'[tid[h]] = r => Fits(h, "commandSource")
  BY <1>1, <1>2 DEF Fits, PhaseAt, ProgressPCs, UpdateTransferStarted, Rows, IndInv, CreatorPhase, PhaseAt, TerminalStates, CreatePCs, StrategyOnRecord, StartedBeforeWork, AgentFailureExhaustsRetries
<1>6. "commandSource" \in PCs /\ ("commandSource" \in CreatePCs => pc[h] \in CreatePCs)
  BY <1>1 DEF PCs, CreatePCs, CancelPCs, ProgressPCs
<1> QED BY <1>1, <1>3, <1>4, <1>5, <1>6, StatementKeeps

\* A failed validation ends the transfer.
LEMMA FailValidationKeeps ==
  ASSUME IndInv, NEW h \in Handlers, FailValidation(h)
  PROVE  IndInv'
<1> DEFINE r == UpdateTransferFailed(row[tid[h]], "validation")
<1>1. pc[h] = "failValidation" /\ IgnoredStatement(h, "failValidation", r, "createFailedEvent")
  BY DEF FailValidation, IgnoredStatement
<1>2. tid[h] \in Transfers /\ row[tid[h]] \in Rows /\ row[tid[h]].state # "absent"
  BY <1>1, OwnRow
<1>3. r \in Rows /\ r.state # "absent"
  <2>1. r \in Rows
    BY <1>1, <1>2, UpdatedRow DEF Errors
  <2> QED BY <1>2, <2>1 DEF UpdateTransferFailed, Rows
<1>4. Harmless(h, r)
  BY <1>1, <1>2 DEF Harmless, UpdateTransferFailed, Rows, IndInv, CreatorPhase, PhaseAt, TerminalStates, CreatePCs, StrategyOnRecord, StartedBeforeWork, AgentFailureExhaustsRetries
<1> QED BY <1>1, <1>3, <1>4, IgnoredStatementKeeps DEF CreatePCs

\* A strategy error ends the transfer.
LEMMA FailStrategyKeeps ==
  ASSUME IndInv, NEW h \in Handlers, FailStrategy(h)
  PROVE  IndInv'
<1> DEFINE r == UpdateTransferFailed(row[tid[h]], "strategy")
<1>1. pc[h] = "failStrategy" /\ IgnoredStatement(h, "failStrategy", r, "idle")
  BY DEF FailStrategy, IgnoredStatement
<1>2. tid[h] \in Transfers /\ row[tid[h]] \in Rows /\ row[tid[h]].state # "absent"
  BY <1>1, OwnRow
<1>3. r \in Rows /\ r.state # "absent"
  <2>1. r \in Rows
    BY <1>1, <1>2, UpdatedRow DEF Errors
  <2> QED BY <1>2, <2>1 DEF UpdateTransferFailed, Rows
<1>4. Harmless(h, r)
  BY <1>1, <1>2 DEF Harmless, UpdateTransferFailed, Rows, IndInv, CreatorPhase, PhaseAt, TerminalStates, CreatePCs, StrategyOnRecord, StartedBeforeWork, AgentFailureExhaustsRetries
<1> QED BY <1>1, <1>3, <1>4, IgnoredStatementKeeps DEF CreatePCs

\* A command that could not be sent ends the transfer.
LEMMA FailCommandKeeps ==
  ASSUME IndInv, NEW h \in Handlers, FailCommand(h)
  PROVE  IndInv'
<1> DEFINE r == UpdateTransferFailed(row[tid[h]], "command")
<1>1. pc[h] = "failCommand" /\ IgnoredStatement(h, "failCommand", r, "createFailedEvent")
  BY DEF FailCommand, IgnoredStatement
<1>2. tid[h] \in Transfers /\ row[tid[h]] \in Rows /\ row[tid[h]].state # "absent"
  BY <1>1, OwnRow
<1>3. r \in Rows /\ r.state # "absent"
  <2>1. r \in Rows
    BY <1>1, <1>2, UpdatedRow DEF Errors
  <2> QED BY <1>2, <2>1 DEF UpdateTransferFailed, Rows
<1>4. Harmless(h, r)
  BY <1>1, <1>2 DEF Harmless, UpdateTransferFailed, Rows, IndInv, CreatorPhase, PhaseAt, TerminalStates, CreatePCs, StrategyOnRecord, StartedBeforeWork, AgentFailureExhaustsRetries
<1> QED BY <1>1, <1>3, <1>4, IgnoredStatementKeeps DEF CreatePCs

-----------------------------------------------------------------------------
(* The UPDATEs of CancelTransfer and HandleProgress.                       *)

\* A cancel ends the transfer, whatever it was loaded as.
LEMMA SetCancelledKeeps ==
  ASSUME IndInv, NEW h \in Handlers, SetCancelled(h)
  PROVE  IndInv'
<1> DEFINE r == UpdateTransferState(row[tid[h]], "cancelled")
<1>1. pc[h] = "setCancelled" /\ Statement(h, "setCancelled", r, "stampCancelled")
  BY DEF SetCancelled, Statement
<1>2. tid[h] \in Transfers /\ row[tid[h]] \in Rows /\ row[tid[h]].state # "absent"
  BY <1>1, OwnRow
<1>3. r \in Rows /\ r.state # "absent"
  <2>1. r \in Rows
    BY <1>1, <1>2, UpdatedRow DEF TransferStates
  <2> QED BY <1>2, <2>1 DEF UpdateTransferState, Rows
<1>4. Harmless(h, r)
  BY <1>1, <1>2 DEF Harmless, UpdateTransferState, Rows, IndInv, ReporterPhase, CommandedPhase, ProgressPCs, TerminalStates, StrategyOnRecord, StartedBeforeWork, AgentFailureExhaustsRetries, TypeOK, Copies
<1>5. row'[tid[h]] = r => Fits(h, "stampCancelled")
  BY <1>1, <1>2 DEF Fits, PhaseAt, ProgressPCs, UpdateTransferState, Rows
<1>6. "stampCancelled" \in PCs /\ ("stampCancelled" \in CreatePCs => pc[h] \in CreatePCs)
  BY <1>1 DEF PCs, CreatePCs, CancelPCs, ProgressPCs
<1> QED BY <1>1, <1>3, <1>4, <1>5, <1>6, StatementKeeps

\* Stamping the end of a cancelled transfer changes no phase.
LEMMA StampCancelledKeeps ==
  ASSUME IndInv, NEW h \in Handlers, StampCancelled(h)
  PROVE  IndInv'
<1> DEFINE r == UpdateTransferCompleted(row[tid[h]])
<1>1. pc[h] = "stampCancelled" /\ Statement(h, "stampCancelled", r, "cancelledEvent")
  BY DEF StampCancelled, Statement
<1>2. tid[h] \in Transfers /\ row[tid[h]] \in Rows /\ row[tid[h]].state # "absent"
  BY <1>1, OwnRow
<1>3. r \in Rows /\ r.state # "absent"
  <2>1. r \in Rows
    BY <1>1, <1>2, UpdatedRow DEF TransferStates
  <2> QED BY <1>2, <2>1 DEF UpdateTransferCompleted, Rows
<1>4. Harmless(h, r)
  BY <1>1, <1>2 DEF Harmless, UpdateTransferCompleted, Rows, IndInv, ReporterPhase, CommandedPhase, ProgressPCs, TerminalStates, StrategyOnRecord, StartedBeforeWork, AgentFailureExhaustsRetries, TypeOK, Copies
<1>5. row'[tid[h]] = r => Fits(h, "cancelledEvent")
  BY <1>1, <1>2 DEF Fits, PhaseAt, ProgressPCs, UpdateTransferCompleted, Rows
<1>6. "cancelledEvent" \in PCs /\ ("cancelledEvent" \in CreatePCs => pc[h] \in CreatePCs)
  BY <1>1 DEF PCs, CreatePCs, CancelPCs, ProgressPCs
<1> QED BY <1>1, <1>3, <1>4, <1>5, <1>6, StatementKeeps

\* A completion comes from a commanded agent, so strategy and start are on record.
LEMMA SetCompletedKeeps ==
  ASSUME IndInv, NEW h \in Handlers, SetCompleted(h)
  PROVE  IndInv'
<1> DEFINE r == UpdateTransferState(row[tid[h]], "completed")
<1>1. pc[h] = "setCompleted" /\ Statement(h, "setCompleted", r, "stampCompleted")
  BY DEF SetCompleted, Statement
<1>2. tid[h] \in Transfers /\ row[tid[h]] \in Rows /\ row[tid[h]].state # "absent"
  BY <1>1, OwnRow
<1>3. r \in Rows /\ r.state # "absent"
  <2>1. r \in Rows
    BY <1>1, <1>2, UpdatedRow DEF TransferStates
  <2> QED BY <1>2, <2>1 DEF UpdateTransferState, Rows
<1>4. Harmless(h, r)
  BY <1>1, <1>2 DEF Harmless, UpdateTransferState, Rows, IndInv, ReporterPhase, CommandedPhase, ProgressPCs, TerminalStates, StrategyOnRecord, StartedBeforeWork, AgentFailureExhaustsRetries, TypeOK, Copies
<1>5. row'[tid[h]] = r => Fits(h, "stampCompleted")
  BY <1>1, <1>2 DEF Fits, PhaseAt, ProgressPCs, UpdateTransferState, Rows
<1>6. "stampCompleted" \in PCs /\ ("stampCompleted" \in CreatePCs => pc[h] \in CreatePCs)
  BY <1>1 DEF PCs, CreatePCs, CancelPCs, ProgressPCs
<1> QED BY <1>1, <1>3, <1>4, <1>5, <1>6, StatementKeeps

\* Stamping the end of a completed transfer changes no phase.
LEMMA StampCompletedKeeps ==
  ASSUME IndInv, NEW h \in Handlers, StampCompleted(h)
  PROVE  IndInv'
<1> DEFINE r == UpdateTransferCompleted(row[tid[h]])
<1>1. pc[h] = "stampCompleted" /\ Statement(h, "stampCompleted", r, "completedEvent")
  BY DEF StampCompleted, Statement
<1>2. tid[h] \in Transfers /\ row[tid[h]] \in Rows /\ row[tid[h]].state # "absent"
  BY <1>1, OwnRow
<1>3. r \in Rows /\ r.state # "absent"
  <2>1. r \in Rows
    BY <1>1, <1>2, UpdatedRow DEF TransferStates
  <2> QED BY <1>2, <2>1 DEF UpdateTransferCompleted, Rows
<1>4. Harmless(h, r)
  BY <1>1, <1>2 DEF Harmless, UpdateTransferCompleted, Rows, IndInv, ReporterPhase, CommandedPhase, ProgressPCs, TerminalStates, StrategyOnRecord, StartedBeforeWork, AgentFailureExhaustsRetries, TypeOK, Copies
<1>5. row'[tid[h]] = r => Fits(h, "completedEvent")
  BY <1>1, <1>2 DEF Fits, PhaseAt, ProgressPCs, UpdateTransferCompleted, Rows
<1>6. "completedEvent" \in PCs /\ ("completedEvent" \in CreatePCs => pc[h] \in CreatePCs)
  BY <1>1 DEF PCs, CreatePCs, CancelPCs, ProgressPCs
<1> QED BY <1>1, <1>3, <1>4, <1>5, <1>6, StatementKeeps

\* The row has spent its retries when the copy has: the count only grows.
LEMMA SetFailedKeeps ==
  ASSUME IndInv, NEW h \in Handlers, SetFailed(h)
  PROVE  IndInv'
<1> DEFINE r == UpdateTransferFailed(row[tid[h]], "agent")
<1>1. pc[h] = "setFailed" /\ Statement(h, "setFailed", r, "failedEvent")
  BY DEF SetFailed, Statement
<1>2. tid[h] \in Transfers /\ row[tid[h]] \in Rows /\ row[tid[h]].state # "absent"
  BY <1>1, OwnRow
<1>3. r \in Rows /\ r.state # "absent"
  <2>1. r \in Rows
    BY <1>1, <1>2, UpdatedRow DEF Errors
  <2> QED BY <1>2, <2>1 DEF UpdateTransferFailed, Rows
<1>4. Harmless(h, r)
  BY <1>1, <1>2 DEF Harmless, UpdateTransferFailed, Rows, IndInv, ReporterPhase, CommandedPhase, ProgressPCs, TerminalStates, StrategyOnRecord, StartedBeforeWork, AgentFailureExhaustsRetries, TypeOK, Copies
<1>5. row'[tid[h]] = r => Fits(h, "failedEvent")
  BY <1>1, <1>2 DEF Fits, PhaseAt, ProgressPCs, UpdateTransferFailed, Rows
<1>6. "failedEvent" \in PCs /\ ("failedEvent" \in CreatePCs => pc[h] \in CreatePCs)
  BY <1>1 DEF PCs, CreatePCs, CancelPCs, ProgressPCs
<1> QED BY <1>1, <1>3, <1>4, <1>5, <1>6, StatementKeeps

\* Counting a retry moves retry_count away from every copy of it, upwards.
LEMMA IncrementRetryKeeps ==
  ASSUME IndInv, NEW h \in Handlers, IncrementRetry(h)
  PROVE  IndInv'
<1> DEFINE r == IncrementRetryCount(row[tid[h]])
<1>1. pc[h] = "incrementRetry" /\ Statement(h, "incrementRetry", r, "idle")
  BY DEF IncrementRetry, Statement
<1>2. tid[h] \in Transfers /\ row[tid[h]] \in Rows /\ row[tid[h]].state # "absent"
  BY <1>1, OwnRow
<1>3. r \in Rows /\ r.state # "absent"
  <2>1. r \in Rows
    BY <1>1, <1>2, UpdatedRow DEF TransferStates
  <2> QED BY <1>2, <2>1 DEF IncrementRetryCount, Rows
<1>4. Harmless(h, r)
  BY <1>1, <1>2 DEF Harmless, IncrementRetryCount, Rows, IndInv, ReporterPhase, CommandedPhase, ProgressPCs, TerminalStates, StrategyOnRecord, StartedBeforeWork, AgentFailureExhaustsRetries, TypeOK, Copies
<1>5. row'[tid[h]] = r => Fits(h, "idle")
  BY <1>1, <1>2 DEF Fits, PhaseAt, ProgressPCs, IncrementRetryCount, Rows
<1>6. "idle" \in PCs /\ ("idle" \in CreatePCs => pc[h] \in CreatePCs)
  BY <1>1 DEF PCs, CreatePCs, CancelPCs, ProgressPCs
<1> QED BY <1>1, <1>3, <1>4, <1>5, <1>6, StatementKeeps

\* HandleProgress goes on to the retry or to the end its copy allows.
LEMMA UpdateProgressKeeps ==
  ASSUME IndInv, NEW h \in Handlers, UpdateProgress(h)
  PROVE  IndInv'
<1> DEFINE to == AfterReport(h)
<1>1. pc[h] = "updateProgress" /\ Statement(h, "updateProgress", row[tid[h]], to)
  BY DEF UpdateProgress, Statement
<1>2. tid[h] \in Transfers /\ row[tid[h]] \in Rows /\ row[tid[h]].state # "absent"
  BY <1>1, OwnRow
<1>3. /\ to \in {"setCompleted", "setFailed", "incrementRetry", "idle"}
      /\ to = "setFailed" => RetryAction(copy[h].retryCount, copy[h].retryMax) # "retry"
      /\ to = "incrementRetry" => RetryAction(copy[h].retryCount, copy[h].retryMax) = "retry"
  BY DEF AfterReport
<1>4. copy[h].retryCount \in Nat /\ copy[h].retryMax \in Nat
  BY DEF IndInv, TypeOK, Copies
<1> HIDE DEF to
<1>5. /\ to = "setFailed" => copy[h].retryCount >= copy[h].retryMax
      /\ to = "incrementRetry" => copy[h].retryCount < copy[h].retryMax
  BY <1>3, <1>4 DEF RetryAction
<1>6. Harmless(h, row[tid[h]])
  BY <1>1, <1>2 DEF Harmless, IndInv, ReporterPhase, CommandedPhase, ProgressPCs,
       Rows, StrategyOnRecord, StartedBeforeWork, AgentFailureExhaustsRetries
<1>7. Fits(h, to)
  BY <1>1, <1>3, <1>5 DEF Fits, PhaseAt, ProgressPCs
<1>8. to \in PCs /\ to \notin CreatePCs
  BY <1>3 DEF PCs, CreatePCs, ProgressPCs
<1> QED BY <1>1, <1>2, <1>6, <1>7, <1>8, StatementKeeps

-----------------------------------------------------------------------------
(* The calls that leave the table alone.                                   *)

\* Where the calls after the last decision of a handler lead.
LatePCs == {"idle"} \cup CancelPCs \cup CleanupPCs \cup
           {"createFailedEvent", "completedEvent", "closeCompleted",
            "failedEvent", "closeFailed"}

\* A call that leaves the table alone and wakes no agent keeps IndInv.
LEMMA CallKeeps ==
  ASSUME IndInv, NEW h \in Handlers, pc[h] # "idle", NEW p \in LatePCs,
         p \in CreatePCs => pc[h] \in CreatePCs,
         p \in ProgressPCs => pc[h] \in ProgressPCs,
         Advance(h, p), row' = row,
         events' \in [Transfers -> SUBSET TerminalStates],
         agents' \in [Transfers -> [Sides -> {"idle", "running", "stopped"}]],
         \A t \in Transfers, s \in Sides : agents'[t][s] = "idle" <=> agents[t][s] = "idle",
         cleaned' \in [Transfers -> SUBSET {"creds", "s3"}],
         closed' \in [Transfers -> BOOLEAN]
  PROVE  IndInv'
<1>1. p \in PCs
  BY DEF LatePCs, PCs, CreatePCs, ProgressPCs
<1>2. TypeOK' /\ HandlerHasRow' /\ OneCreator' /\ Moves(h, p)
  BY <1>1, CallFrame
<1>3. /\ CreatorPhase' /\ CommandedPhase' /\ ReporterPhase' /\ StrategyChosen'
      /\ StrategyOnRecord' /\ StartedBeforeWork' /\ AgentFailureExhaustsRetries'
  BY <1>1, <1>2, PhasesKept DEF LatePCs
<1> QED BY <1>2, <1>3 DEF IndInv

\* An event of the timeline changes no phase.
LEMMA EventKeeps ==
  ASSUME IndInv, NEW h \in Handlers, NEW from, from # "idle", NEW type \in TerminalStates,
         NEW to \in LatePCs,
         to \in CreatePCs => from \in CreatePCs,
         to \in ProgressPCs => from \in ProgressPCs,
         Event(h, from, type, to)
  PROVE  IndInv'
<1>1. events' \in [Transfers -> SUBSET TerminalStates]
  <2>1. PICK out : events' = Recorded(tid[h], type, out)
    BY DEF Event
  <2>2. events \in [Transfers -> SUBSET TerminalStates]
    BY DEF IndInv, TypeOK
  <2>3. \A t \in Transfers : events[t] \cup {type} \in SUBSET TerminalStates
    BY <2>2
  <2> QED BY <2>1, <2>2, <2>3 DEF Recorded
<1>2. /\ pc[h] = from /\ Advance(h, to) /\ row' = row
      /\ agents' = agents /\ cleaned' = cleaned /\ closed' = closed
  BY DEF Event, effects
<1> QED BY <1>1, <1>2, CallKeeps DEF IndInv, TypeOK

\* Closing the progress streams changes no phase.
LEMMA CloseStreamKeeps ==
  ASSUME IndInv, NEW h \in Handlers, NEW from, from # "idle",
         NEW to \in {"cancelSource", "cleanSource"},
         CloseStream(h, from, to)
  PROVE  IndInv'
<1>1. closed' \in [Transfers -> BOOLEAN]
  BY DEF CloseStream, IndInv, TypeOK
<1>2. /\ pc[h] = from /\ Advance(h, to) /\ row' = row
      /\ agents' = agents /\ cleaned' = cleaned /\ events' = events
  BY DEF CloseStream, Advance
<1>3. to \in LatePCs /\ to \notin CreatePCs /\ to \notin ProgressPCs
  BY DEF LatePCs, CancelPCs, CleanupPCs, CreatePCs, ProgressPCs
<1> QED BY <1>1, <1>2, <1>3, CallKeeps DEF IndInv, TypeOK

\* SendCancelCommand, alone or as a part of ExecuteCleanup.
LEMMA CancelCallKeeps ==
  ASSUME IndInv, NEW h \in Handlers, pc[h] # "idle", NEW side \in Sides,
         NEW to \in {"cancelDest", "cleanSource", "cleanDest", "idle"},
         Advance(h, to), NEW out, agents' = Cancelled(tid[h], side, out),
         cleaned' \in [Transfers -> SUBSET {"creds", "s3"}],
         row' = row, events' = events, closed' = closed
  PROVE  IndInv'
<1>1. to \in LatePCs /\ to \notin CreatePCs /\ to \notin ProgressPCs
  BY DEF LatePCs, CancelPCs, CleanupPCs, CreatePCs, ProgressPCs
<1>2. tid[h] \in Transfers
  BY OwnRow
<1>3. /\ agents' \in [Transfers -> [Sides -> {"idle", "running", "stopped"}]]
      /\ \A t \in Transfers, s \in Sides : agents'[t][s] = "idle" <=> agents[t][s] = "idle"
  BY <1>2, AgentFrame
<1> QED BY <1>1, <1>3, CallKeeps DEF IndInv, TypeOK

\* A cancel signal never makes a commanded agent look untouched.
LEMMA SendCancelCommandKeeps ==
  ASSUME IndInv, NEW h \in Handlers, NEW from, from # "idle", NEW side \in Sides,
         NEW to \in {"cancelDest", "cleanSource"},
         SendCancelCommand(h, from, side, to)
  PROVE  IndInv'
BY CancelCallKeeps DEF SendCancelCommand, IndInv, TypeOK

\* Neither does ExecuteCleanup.
LEMMA CleanupKeeps ==
  ASSUME IndInv, NEW h \in Handlers, NEW from, from # "idle", NEW side \in Sides,
         NEW resources \in SUBSET {"creds", "s3"}, NEW to \in {"cleanDest", "idle"},
         Cleanup(h, from, side, resources, to)
  PROVE  IndInv'
<1>1. cleaned' \in [Transfers -> SUBSET {"creds", "s3"}]
  BY DEF Cleanup, IndInv, TypeOK
<1>2. PICK out : agents' = Cancelled(tid[h], side, out)
  BY DEF Cleanup
<1> QED BY <1>1, <1>2, CancelCallKeeps DEF Cleanup

\* Agents are commanded once strategy and start are on record.
LEMMA SendTransferCommandKeeps ==
  ASSUME IndInv, NEW h \in Handlers, NEW from \in {"commandSource", "commandDest"},
         NEW side \in Sides, NEW to \in {"commandDest", "idle"},
         SendTransferCommand(h, from, side, to)
  PROVE  IndInv'
<1>1. PICK out \in CallOutcomes :
        /\ agents' = Commanded(tid[h], side, out)
        /\ Advance(h, IF out = "ok" THEN to ELSE "failCommand")
  BY DEF SendTransferCommand
<1> DEFINE p == IF out = "ok" THEN to ELSE "failCommand"
<1>2. p \in {"commandDest", "idle", "failCommand"} /\ Advance(h, p)
  BY <1>1
<1> HIDE DEF p
<1>3. pc[h] = from /\ UNCHANGED <<row, events, cleaned, closed>>
  BY DEF SendTransferCommand
<1> DEFINE t == tid[h]
<1>4. t \in Transfers /\ row[t] \in Rows
  BY <1>3, OwnRow
<1>5. agents' \in [Transfers -> [Sides -> {"idle", "running", "stopped"}]]
  BY <1>1, <1>4, AgentFrame
<1>6. TypeOK' /\ HandlerHasRow' /\ OneCreator' /\ Moves(h, p)
  <2>1. p \in PCs /\ pc[h] \in CreatePCs /\ pc[h] # "idle"
    BY <1>2, <1>3 DEF PCs, CreatePCs
  <2>2. /\ events' \in [Transfers -> SUBSET TerminalStates]
        /\ cleaned' \in [Transfers -> SUBSET {"creds", "s3"}]
        /\ closed' \in [Transfers -> BOOLEAN]
    BY <1>3 DEF IndInv, TypeOK
  <2> QED
    BY <1>2, <1>3, <1>5, <2>1, <2>2, CallFrame
<1>7. /\ \A u \in Transfers : u # t => agents'[u] = agents[u]
      /\ \A u \in Transfers : ~Idle(agents[u]) => ~Idle(agents'[u])
  BY <1>1, <1>4, AgentFrame DEF Idle
<1>8. PhaseAt(from, row[t], agents[t])
  BY <1>3 DEF IndInv, CreatorPhase
<1>9. row[t].state \in TerminalStates \cup {"transferring"} /\ row[t].strategy # NoStrategy
      /\ row[t].started
  BY <1>8 DEF PhaseAt
<1>10. CreatorPhase'
  <2> SUFFICES ASSUME NEW g \in Handlers
               PROVE  PhaseAt(pc'[g], row'[tid'[g]], agents'[tid'[g]])
    BY DEF CreatorPhase
  <2>1. CASE pc'[g] \notin CreatePCs
    BY <2>1 DEF PhaseAt, CreatePCs
  <2>2. CASE g = h /\ pc'[g] \in CreatePCs
    BY <2>2, <1>2, <1>3, <1>6, <1>9 DEF Moves, PhaseAt, CreatePCs, IndInv, TypeOK
  <2>3. CASE g # h /\ pc'[g] \in CreatePCs
    <3>1. tid'[g] = tid[g] /\ tid[g] \in Transfers /\ pc'[g] = pc[g]
      BY <2>3, <1>6, OwnRow DEF Moves, CreatePCs, IndInv, TypeOK
    <3>2. tid[g] # t
      BY <2>3, <3>1, <1>3 DEF IndInv, OneCreator, CreatePCs
    <3> QED BY <3>1, <3>2, <1>3, <1>7 DEF IndInv, CreatorPhase
  <2> QED BY <2>1, <2>2, <2>3
<1>11. CommandedPhase'
  BY <1>3, <1>7, <1>9 DEF IndInv, CommandedPhase
<1>12. ReporterPhase'
  <2>1. \A g \in Handlers : pc'[g] \in ProgressPCs =>
          /\ pc'[g] = pc[g] /\ tid'[g] = tid[g] /\ tid[g] \in Transfers
          /\ copy'[g] = copy[g]
    BY <1>2, <1>6, OwnRow DEF Moves, ProgressPCs, IndInv, TypeOK
  <2> QED BY <2>1, <1>3, <1>7 DEF IndInv, ReporterPhase
<1>13. StrategyChosen'
  BY <1>2, <1>6 DEF Moves, StrategyChosen, IndInv, TypeOK
<1>14. StrategyOnRecord' /\ AgentFailureExhaustsRetries'
  BY <1>3 DEF IndInv, StrategyOnRecord, AgentFailureExhaustsRetries
<1>15. StartedBeforeWork'
  BY <1>3, <1>7, <1>9 DEF IndInv, StartedBeforeWork
<1> QED BY <1>6, <1>10, <1>11, <1>12, <1>13, <1>14, <1>15 DEF IndInv

\* Validation leaves the row alone and picks one of the three strategies.
LEMMA ValidateKeeps ==
  ASSUME IndInv, NEW h \in Handlers, Validate(h)
  PROVE  IndInv'
<1> DEFINE strategy == SelectStrategy(req[h].srcCluster, req[h].dstCluster,
                                      req[h].override, S3Configured)
<1>1. strategy # "error" => strategy \in TransferStrategies /\ strategy # NoStrategy
  BY DEF SelectStrategy, TransferStrategies, NoStrategy
<1> HIDE DEF strategy
<1>2. /\ pc[h] = "validate" /\ UNCHANGED <<row, events, agents, cleaned, closed>>
      /\ \/ Goto(h, "failValidation")
         \/ Goto(h, "failStrategy")
         \/ /\ pc' = [pc EXCEPT ![h] = "setStrategy"]
            /\ copy' = [copy EXCEPT ![h].strategy = strategy]
            /\ strategy # "error"
            /\ UNCHANGED <<tid, req, report>>
  BY DEF Validate, effects, strategy
<1>3. PICK p \in {"failValidation", "failStrategy", "setStrategy"} :
        /\ pc' = [pc EXCEPT ![h] = p] /\ UNCHANGED <<tid, req, report>>
        /\ \A g \in Handlers : g # h => copy'[g] = copy[g]
        /\ p = "setStrategy" => copy'[h].strategy # NoStrategy
        /\ copy' \in [Handlers -> Copies]
  <2>1. CASE Goto(h, "failValidation")
    BY <2>1 DEF Goto, local, IndInv, TypeOK
  <2>2. CASE Goto(h, "failStrategy")
    BY <2>2 DEF Goto, local, IndInv, TypeOK
  <2>3. CASE /\ pc' = [pc EXCEPT ![h] = "setStrategy"]
             /\ copy' = [copy EXCEPT ![h].strategy = strategy]
             /\ strategy # "error"
             /\ UNCHANGED <<tid, req, report>>
    <3>1. copy[h] \in Copies /\ copy \in [Handlers -> Copies]
      BY DEF IndInv, TypeOK
    <3>2. [copy[h] EXCEPT !.strategy = strategy] \in Copies
      BY <1>1, <2>3, <3>1 DEF Copies
    <3>3. copy'[h].strategy = strategy
      BY <2>3, <3>1 DEF Copies
    <3>4. copy' = [copy EXCEPT ![h] = [copy[h] EXCEPT !.strategy = strategy]]
      BY <2>3
    <3>5. copy' \in [Handlers -> Copies] /\ \A g \in Handlers : g # h => copy'[g] = copy[g]
      BY <3>1, <3>2, <3>4
    <3> QED BY <1>1, <2>3, <3>3, <3>5
  <2> QED BY <1>2, <2>1, <2>2, <2>3
<1>4. TypeOK'
  BY <1>2, <1>3 DEF IndInv, TypeOK, PCs, CreatePCs
<1>5. HandlerHasRow' /\ OneCreator' /\ CreatorPhase'
  BY <1>2, <1>3 DEF IndInv, TypeOK, HandlerHasRow, OneCreator, CreatorPhase, PhaseAt, CreatePCs
<1>6. ReporterPhase' /\ StrategyChosen'
  BY <1>2, <1>3 DEF IndInv, TypeOK, ReporterPhase, StrategyChosen, ProgressPCs
<1>7. CommandedPhase' /\ StrategyOnRecord' /\ StartedBeforeWork' /\ AgentFailureExhaustsRetries'
  BY <1>2 DEF IndInv, CommandedPhase, StrategyOnRecord, StartedBeforeWork,
              AgentFailureExhaustsRetries
<1> QED BY <1>4, <1>5, <1>6, <1>7 DEF IndInv

-----------------------------------------------------------------------------
(* The arrival of a request, and the crash of the process.                 *)

\* A request leaves the handlers other than h alone.
Others(h) ==
  \A g \in Handlers \ {h} : /\ pc'[g] = pc[g] /\ tid'[g] = tid[g]
                            /\ copy'[g] = copy[g] /\ report'[g] = report[g]

\* A new row has one creator and no agents.
LEMMA CreateInsertKeeps ==
  ASSUME IndInv, NEW h \in Handlers, NEW t \in Transfers, NEW rq \in Requests,
         CreateInsert(h, t, rq)
  PROVE  IndInv'
<1> DEFINE rm == IF rq.retryMax = NoRetryMax THEN DefaultRetryMax ELSE rq.retryMax
           r == InsertTransfer(rm)
<1>1. PICK out \in DBOutcomes :
        /\ row' = Written(t, r, out)
        /\ IF out = "ok"
           THEN /\ pc' = [pc EXCEPT ![h] = "setValidating"]
                /\ tid' = [tid EXCEPT ![h] = t]
                /\ req' = [req EXCEPT ![h] = rq]
                /\ UNCHANGED <<copy, report>>
           ELSE Return(h)
  BY DEF CreateInsert
<1>2. pc[h] = "idle" /\ row[t].state = "absent" /\ UNCHANGED <<events, agents, cleaned, closed>>
  BY DEF CreateInsert, effects
<1>3. rm \in Nat
  BY RequestsAssumption, RetryAssumption DEF RequestType
<1> HIDE DEF rm
<1>4. /\ r \in Rows /\ r.state = "pending" /\ r.error = "none"
      /\ r.retryMax = rm /\ r.retryCount = 0
  BY <1>3 DEF InsertTransfer, AbsentRow, Rows, TransferStates, TransferStrategies,
              NoStrategy, Errors
<1> HIDE DEF r
<1>5. /\ row' \in [Transfers -> Rows]
      /\ \A u \in Transfers : u # t => row'[u] = row[u]
      /\ row'[t] \in {row[t], r}
      /\ out = "ok" => row'[t] = r
  BY <1>1, <1>4 DEF Written, IndInv, TypeOK
<1>6. /\ ControlTypes' /\ Others(h)
      /\ pc'[h] \in {"idle", "setValidating"}
      /\ pc'[h] = "setValidating" => tid'[h] = t /\ row'[t] = r
  <2>1. CASE out = "ok"
    <3>1. /\ pc' = [pc EXCEPT ![h] = "setValidating"]
          /\ tid' = [tid EXCEPT ![h] = t]
          /\ req' = [req EXCEPT ![h] = rq]
          /\ copy' = copy /\ report' = report
      BY <1>1, <2>1
    <3>2. ControlTypes
      BY DEF ControlTypes, IndInv, TypeOK
    <3>3. "setValidating" \in PCs
      BY DEF PCs, CreatePCs
    <3>4. ControlTypes'
      BY <3>1, <3>2, <3>3 DEF ControlTypes
    <3>5. Others(h)
      BY <3>1, <3>2 DEF Others, ControlTypes
    <3>6. pc'[h] = "setValidating" /\ tid'[h] = t /\ row'[t] = r
      BY <3>1, <3>2, <1>5, <2>1 DEF ControlTypes
    <3> QED BY <3>4, <3>5, <3>6
  <2>2. CASE out # "ok"
    <3>1. Return(h)
      BY <1>1, <2>2
    <3>2. ControlTypes
      BY DEF ControlTypes, IndInv, TypeOK
    <3>3. ControlTypes'
      BY <3>1, <3>2, ReturnTypes
    <3>4. Others(h) /\ pc'[h] = "idle"
      BY <3>1, <3>2 DEF Return, ControlTypes, Others
    <3> QED BY <3>3, <3>4
  <2> QED BY <2>1, <2>2
<1>7. \A g \in Handlers \ {h} : pc[g] # "idle" => tid[g] \in Transfers \ {t}
  BY <1>2, OwnRow
<1>8. Idle(agents[t])
  BY <1>2 DEF IndInv, CommandedPhase, TerminalStates
<1>9. TypeOK'
  BY <1>2, <1>5, <1>6 DEF IndInv, TypeOK, ControlTypes
<1>10. HandlerHasRow'
  BY <1>4, <1>5, <1>6, <1>7 DEF Others, IndInv, HandlerHasRow
<1>11. OneCreator'
  BY <1>6, <1>7 DEF Others, IndInv, OneCreator, CreatePCs
<1>12. CreatorPhase'
  <2> SUFFICES ASSUME NEW g \in Handlers
               PROVE  PhaseAt(pc'[g], row'[tid'[g]], agents'[tid'[g]])
    BY DEF CreatorPhase
  <2>1. CASE pc'[g] = "idle"
    BY <2>1 DEF PhaseAt
  <2>2. CASE g = h /\ pc'[g] # "idle"
    BY <2>2, <1>2, <1>4, <1>6, <1>8 DEF PhaseAt
  <2>3. CASE g # h /\ pc'[g] # "idle"
    BY <2>3, <1>2, <1>5, <1>6, <1>7 DEF Others, IndInv, CreatorPhase
  <2> QED BY <2>1, <2>2, <2>3
<1>13. CommandedPhase'
  BY <1>2, <1>5, <1>8 DEF IndInv, CommandedPhase
<1>14. ReporterPhase'
  BY <1>2, <1>5, <1>6, <1>7 DEF Others, IndInv, ReporterPhase, ProgressPCs
<1>15. StrategyChosen'
  BY <1>6 DEF Others, IndInv, StrategyChosen
<1>16. StrategyOnRecord' /\ AgentFailureExhaustsRetries'
  BY <1>4, <1>5 DEF IndInv, StrategyOnRecord, AgentFailureExhaustsRetries
<1>17. StartedBeforeWork'
  BY <1>2, <1>4, <1>5, <1>8 DEF IndInv, StartedBeforeWork, Idle
<1> QED BY <1>9, <1>10, <1>11, <1>12, <1>13, <1>14, <1>15, <1>16, <1>17 DEF IndInv

\* What a handler loads is a copy.
LEMMA LoadedType ==
  ASSUME NEW r \in Rows
  PROVE  /\ Loaded(r) \in Copies
         /\ Loaded(r).retryMax = r.retryMax
         /\ Loaded(r).retryCount = r.retryCount
BY DEF Loaded, Rows, Copies

\* CancelTransfer loads an existing row.
LEMMA CancelLoadKeeps ==
  ASSUME IndInv, NEW h \in Handlers, NEW t \in Transfers, CancelLoad(h, t)
  PROVE  IndInv'
<1>1. /\ pc[h] = "idle" /\ row[t].state # "absent"
      /\ pc' = [pc EXCEPT ![h] = "setCancelled"]
      /\ tid' = [tid EXCEPT ![h] = t]
      /\ copy' = [copy EXCEPT ![h] = Loaded(row[t])]
      /\ UNCHANGED <<row, events, agents, cleaned, closed, req, report>>
  BY DEF CancelLoad, effects
<1>2. Loaded(row[t]) \in Copies
  BY LoadedType DEF IndInv, TypeOK
<1>3. ControlTypes' /\ Others(h) /\ pc'[h] = "setCancelled" /\ tid'[h] = t
  <2>1. pc' \in [Handlers -> PCs] /\ tid' \in [Handlers -> Transfers \cup {NoTransfer}]
    BY <1>1 DEF IndInv, TypeOK, PCs, CancelPCs
  <2>2. copy' \in [Handlers -> Copies]
    BY <1>1, <1>2 DEF IndInv, TypeOK
  <2> QED BY <1>1, <2>1, <2>2 DEF ControlTypes, Others, IndInv, TypeOK
<1>4. TypeOK'
  BY <1>1, <1>3 DEF IndInv, TypeOK, ControlTypes
<1>5. HandlerHasRow' /\ OneCreator'
  BY <1>1, <1>3 DEF Others, IndInv, HandlerHasRow, OneCreator, CreatePCs
<1>6. CreatorPhase'
  BY <1>1, <1>3 DEF Others, IndInv, CreatorPhase, PhaseAt
<1>7. ReporterPhase' /\ StrategyChosen'
  BY <1>1, <1>3 DEF Others, IndInv, ReporterPhase, StrategyChosen, ProgressPCs
<1>8. CommandedPhase' /\ StrategyOnRecord' /\ StartedBeforeWork' /\ AgentFailureExhaustsRetries'
  BY <1>1 DEF IndInv, CommandedPhase, StrategyOnRecord, StartedBeforeWork,
              AgentFailureExhaustsRetries
<1> QED BY <1>4, <1>5, <1>6, <1>7, <1>8 DEF IndInv

\* HandleProgress loads the row of a transfer whose agents were commanded.
LEMMA ProgressLoadKeeps ==
  ASSUME IndInv, NEW h \in Handlers, NEW t \in Transfers, NEW side \in Sides,
         NEW status \in Statuses, ProgressLoad(h, t, side, status)
  PROVE  IndInv'
<1>1. /\ pc[h] = "idle" /\ row[t].state # "absent" /\ agents[t][side] # "idle"
      /\ pc' = [pc EXCEPT ![h] = "updateProgress"]
      /\ tid' = [tid EXCEPT ![h] = t]
      /\ copy' = [copy EXCEPT ![h] = Loaded(row[t])]
      /\ report' = [report EXCEPT ![h] = status]
      /\ UNCHANGED <<row, events, cleaned, closed, req>>
  BY DEF ProgressLoad
<1>2. /\ agents' \in [Transfers -> [Sides -> {"idle", "running", "stopped"}]]
      /\ \A u \in Transfers, s \in Sides : agents'[u][s] = "idle" <=> agents[u][s] = "idle"
  BY DEF ProgressLoad, IndInv, TypeOK
<1>3. row[t] \in Rows /\ Loaded(row[t]) \in Copies
  BY LoadedType DEF IndInv, TypeOK
<1>4. /\ ControlTypes' /\ Others(h) /\ pc'[h] = "updateProgress" /\ tid'[h] = t
      /\ copy'[h] = Loaded(row[t])
  <2>1. pc' \in [Handlers -> PCs] /\ tid' \in [Handlers -> Transfers \cup {NoTransfer}]
    BY <1>1 DEF IndInv, TypeOK, PCs, ProgressPCs
  <2>2. copy' \in [Handlers -> Copies] /\ copy'[h] = Loaded(row[t])
    BY <1>1, <1>3 DEF IndInv, TypeOK
  <2>3. report' \in [Handlers -> Statuses \cup {"none"}]
    BY <1>1 DEF IndInv, TypeOK
  <2> QED BY <1>1, <2>1, <2>2, <2>3 DEF ControlTypes, Others, IndInv, TypeOK
<1>5. TypeOK'
  BY <1>1, <1>2, <1>4 DEF IndInv, TypeOK, ControlTypes
<1>6. HandlerHasRow' /\ OneCreator'
  BY <1>1, <1>4 DEF Others, IndInv, HandlerHasRow, OneCreator, CreatePCs
<1>7. \A u \in Transfers : Idle(agents'[u]) <=> Idle(agents[u])
  BY <1>2 DEF Idle
<1>8. CreatorPhase'
  BY <1>1, <1>4, <1>7, OwnRow DEF Others, IndInv, CreatorPhase, PhaseAt
<1>9. ReporterPhase'
  <2>1. ~Idle(agents[t])
    BY <1>1 DEF Idle
  <2>2. copy'[h].retryMax = row[t].retryMax /\ copy'[h].retryCount <= row[t].retryCount
    BY <1>3, <1>4, LoadedType DEF Rows
  <2> QED BY <1>1, <1>4, <1>7, <2>1, <2>2, OwnRow DEF Others, IndInv, ReporterPhase, ProgressPCs
<1>10. StrategyChosen'
  BY <1>4 DEF Others, IndInv, StrategyChosen
<1>11. CommandedPhase'
  BY <1>1, <1>7 DEF IndInv, CommandedPhase
<1>12. StrategyOnRecord' /\ AgentFailureExhaustsRetries' /\ StartedBeforeWork'
  BY <1>1, <1>2 DEF IndInv, StrategyOnRecord, StartedBeforeWork, AgentFailureExhaustsRetries
<1> QED BY <1>5, <1>6, <1>8, <1>9, <1>10, <1>11, <1>12 DEF IndInv

\* A crash leaves the tables and the agents as they were.
LEMMA CrashKeeps ==
  ASSUME IndInv, Crash
  PROVE  IndInv'
<1>1. /\ pc' = [h \in Handlers |-> "idle"] /\ tid' = [h \in Handlers |-> NoTransfer]
      /\ copy' = [h \in Handlers |-> NoCopy] /\ req' = [h \in Handlers |-> NoRequest]
      /\ report' = [h \in Handlers |-> "none"]
      /\ closed' = [t \in Transfers |-> TRUE]
      /\ UNCHANGED <<row, events, agents, cleaned>>
  BY DEF Crash
<1>2. NoCopy \in Copies
  BY DEF NoCopy, Loaded, AbsentRow, Copies, TransferStates
<1>3. TypeOK'
  BY <1>1, <1>2 DEF IndInv, TypeOK, PCs
<1>4. HandlerHasRow' /\ OneCreator' /\ CreatorPhase' /\ ReporterPhase' /\ StrategyChosen'
  BY <1>1 DEF HandlerHasRow, OneCreator, CreatorPhase, PhaseAt, ReporterPhase,
              StrategyChosen, CreatePCs, ProgressPCs
<1>5. CommandedPhase' /\ StrategyOnRecord' /\ StartedBeforeWork' /\ AgentFailureExhaustsRetries'
  BY <1>1 DEF IndInv, CommandedPhase, StrategyOnRecord, StartedBeforeWork,
              AgentFailureExhaustsRetries
<1> QED BY <1>3, <1>4, <1>5 DEF IndInv

-----------------------------------------------------------------------------
(* IndInv is inductive.                                                    *)

\* The empty system satisfies the invariant.
LEMMA InitIndInv == Init => IndInv
<1> SUFFICES ASSUME Init PROVE IndInv
  OBVIOUS
<1>1. NoCopy \in Copies /\ AbsentRow \in Rows
  BY DEF NoCopy, Loaded, AbsentRow, Copies, Rows, TransferStates, Errors
<1>2. TypeOK
  BY <1>1 DEF Init, TypeOK, PCs
<1>3. HandlerHasRow /\ OneCreator /\ CreatorPhase /\ ReporterPhase /\ StrategyChosen
  BY DEF Init, HandlerHasRow, OneCreator, CreatorPhase, PhaseAt, ReporterPhase,
         StrategyChosen, CreatePCs, ProgressPCs
<1>4. CommandedPhase /\ StrategyOnRecord /\ StartedBeforeWork /\ AgentFailureExhaustsRetries
  BY DEF Init, CommandedPhase, StrategyOnRecord, StartedBeforeWork,
         AgentFailureExhaustsRetries, AbsentRow, Idle
<1> QED BY <1>2, <1>3, <1>4 DEF IndInv

\* Every step of a handler keeps the invariant.
LEMMA StepKeeps ==
  ASSUME IndInv, NEW h \in Handlers, Step(h)
  PROVE  IndInv'
<1>1. CASE CreateStep(h)
  <2>1. CASE CommandSource(h) \/ CommandDest(h)
    BY <2>1, SendTransferCommandKeeps DEF CommandSource, CommandDest, Sides
  <2>2. CASE CreateFailedEvent(h)
    BY <2>2, EventKeeps DEF CreateFailedEvent, TerminalStates, LatePCs, CreatePCs, ProgressPCs
  <2> QED BY <1>1, <2>1, <2>2, SetValidatingKeeps, ValidateKeeps, SetStrategyKeeps,
             SetTransferringKeeps, SetStartedKeeps, FailValidationKeeps,
             FailStrategyKeeps, FailCommandKeeps DEF CreateStep
<1>2. CASE CancelStep(h)
  <2>1. CASE CancelledEvent(h)
    BY <2>1, EventKeeps DEF CancelledEvent, TerminalStates, LatePCs, CancelPCs,
                            CreatePCs, ProgressPCs
  <2>2. CASE CloseCancelled(h)
    BY <2>2, CloseStreamKeeps DEF CloseCancelled
  <2>3. CASE CancelSource(h) \/ CancelDest(h)
    BY <2>3, SendCancelCommandKeeps DEF CancelSource, CancelDest, Sides
  <2> QED BY <1>2, <2>1, <2>2, <2>3, SetCancelledKeeps, StampCancelledKeeps DEF CancelStep
<1>3. CASE ProgressStep(h)
  <2>1. CASE CompletedEvent(h) \/ FailedEvent(h)
    BY <2>1, EventKeeps DEF CompletedEvent, FailedEvent, TerminalStates, LatePCs,
                            CreatePCs, ProgressPCs
  <2>2. CASE CloseCompleted(h) \/ CloseFailed(h)
    BY <2>2, CloseStreamKeeps DEF CloseCompleted, CloseFailed
  <2> QED BY <1>3, <2>1, <2>2, UpdateProgressKeeps, IncrementRetryKeeps, SetCompletedKeeps,
             StampCompletedKeeps, SetFailedKeeps DEF ProgressStep
<1>4. CASE CleanupStep(h)
  BY <1>4, CleanupKeeps DEF CleanupStep, CleanSource, CleanDest, Sides
<1> QED BY <1>1, <1>2, <1>3, <1>4 DEF Step

\* Every arrival of a request keeps the invariant.
LEMMA ArriveKeeps ==
  ASSUME IndInv, NEW h \in Handlers, Arrive(h)
  PROVE  IndInv'
BY CreateInsertKeeps, CancelLoadKeeps, ProgressLoadKeeps DEF Arrive

\* A step that changes nothing keeps the invariant.
LEMMA StutterKeeps ==
  ASSUME IndInv, UNCHANGED vars
  PROVE  IndInv'
BY DEF vars, IndInv, TypeOK, HandlerHasRow, OneCreator, CreatorPhase, CommandedPhase,
       ReporterPhase, StrategyChosen, StrategyOnRecord, StartedBeforeWork,
       AgentFailureExhaustsRetries

\* The invariant is inductive.
LEMMA NextKeeps == IndInv /\ [Next]_vars => IndInv'
BY StepKeeps, ArriveKeeps, CrashKeeps, StutterKeeps DEF Next

\* The inductive invariant holds in every reachable state.
THEOREM Invariance == Spec => []IndInv
BY InitIndInv, NextKeeps, PTL DEF Spec

\* Every variable keeps its type: for instance, pc is always a call the handlers
\* make and retry_count a natural number.
THEOREM TypeCorrect == Spec => []TypeOK
<1>1. IndInv => TypeOK
  BY DEF IndInv
<1> QED BY <1>1, Invariance, PTL

\* orchestrator.go:191-206 and 381: whatever the interleaving, the faults and the
\* crashes, a transfer that moves or has moved data has its strategy on record.
THEOREM StrategyAlwaysOnRecord == Spec => []StrategyOnRecord
<1>1. IndInv => StrategyOnRecord
  BY DEF IndInv
<1> QED BY <1>1, Invariance, PTL

\* orchestrator.go:210-231: no agent works on, and nobody completes, a transfer
\* whose started_at is not set.
THEOREM StartAlwaysPrecedesWork == Spec => []StartedBeforeWork
<1>1. IndInv => StartedBeforeWork
  BY DEF IndInv
<1> QED BY <1>1, Invariance, PTL

\* orchestrator.go:420-466: an agent's failure report ends a transfer only when the
\* row's retries are spent, though the decision is made on a stale copy.
THEOREM FailureMeansExhausted == Spec => []AgentFailureExhaustsRetries
<1>1. IndInv => AgentFailureExhaustsRetries
  BY DEF IndInv
<1> QED BY <1>1, Invariance, PTL

-----------------------------------------------------------------------------
(* The moves of the state column.                                          *)

\* A call that may set transfer t's row to r makes a legal move if r is one.
LEMMA WriteLegal ==
  ASSUME IndInv, NEW t \in Transfers, NEW r, NEW out, row' = Written(t, r, out),
         LegalMove(row[t].state, r.state)
  PROVE  \A u \in Transfers : LegalMove(row[u].state, row'[u].state)
BY DEF Written, LegalMove, IndInv, TypeOK

\* The UPDATEs of CreateTransfer move its row along the table or out of a
\* terminal state.
LEMMA CreateStepLegal ==
  ASSUME IndInv, NEW h \in Handlers, CreateStep(h)
  PROVE  \A u \in Transfers : LegalMove(row[u].state, row'[u].state)
<1>1. pc[h] # "idle"
  BY DEF CreateStep, SetValidating, Validate, SetStrategy, SetTransferring, SetStarted,
         CommandSource, CommandDest, FailValidation, FailStrategy, FailCommand,
         CreateFailedEvent, Statement, IgnoredStatement, Event, SendTransferCommand
<1>2. tid[h] \in Transfers /\ row[tid[h]] \in Rows
  BY <1>1, OwnRow
<1>p. PhaseAt(pc[h], row[tid[h]], agents[tid[h]])
  BY DEF IndInv, CreatorPhase
<1>3. CASE SetValidating(h)
  <2>1. row[tid[h]].state \in TerminalStates \cup {"pending"}
    BY <1>p, <1>3 DEF SetValidating, Statement, PhaseAt
  <2>2. LegalMove(row[tid[h]].state, UpdateTransferState(row[tid[h]], "validating").state)
    BY <1>2, <2>1 DEF UpdateTransferState, Rows, LegalMove, IsTerminal,
       CanTransition, validTransferTransitions
  <2> QED BY <1>2, <1>3, <2>2, WriteLegal DEF SetValidating, Statement
<1>4. CASE SetStrategy(h)
  <2>1. LegalMove(row[tid[h]].state,
                  UpdateTransferStrategy(row[tid[h]], copy[h].strategy).state)
    BY <1>2 DEF UpdateTransferStrategy, Rows, LegalMove
  <2> QED BY <1>2, <1>4, <2>1, WriteLegal DEF SetStrategy, Statement
<1>5. CASE SetTransferring(h)
  <2>1. row[tid[h]].state \in TerminalStates \cup {"validating"}
    BY <1>p, <1>5 DEF SetTransferring, Statement, PhaseAt
  <2>2. LegalMove(row[tid[h]].state, UpdateTransferState(row[tid[h]], "transferring").state)
    BY <1>2, <2>1 DEF UpdateTransferState, Rows, LegalMove, IsTerminal,
       CanTransition, validTransferTransitions
  <2> QED BY <1>2, <1>5, <2>2, WriteLegal DEF SetTransferring, Statement
<1>6. CASE SetStarted(h)
  <2>1. LegalMove(row[tid[h]].state, UpdateTransferStarted(row[tid[h]]).state)
    BY <1>2 DEF UpdateTransferStarted, Rows, LegalMove
  <2> QED BY <1>2, <1>6, <2>1, WriteLegal DEF SetStarted, Statement
<1>7. CASE FailValidation(h)
  <2>1. row[tid[h]].state \in TerminalStates \cup {"validating"}
    BY <1>p, <1>7 DEF FailValidation, IgnoredStatement, PhaseAt
  <2>2. LegalMove(row[tid[h]].state, UpdateTransferFailed(row[tid[h]], "validation").state)
    BY <1>2, <2>1 DEF UpdateTransferFailed, Rows, LegalMove, IsTerminal,
       CanTransition, validTransferTransitions
  <2> QED BY <1>2, <1>7, <2>2, WriteLegal DEF FailValidation, IgnoredStatement
<1>8. CASE FailStrategy(h)
  <2>1. row[tid[h]].state \in TerminalStates \cup {"validating"}
    BY <1>p, <1>8 DEF FailStrategy, IgnoredStatement, PhaseAt
  <2>2. LegalMove(row[tid[h]].state, UpdateTransferFailed(row[tid[h]], "strategy").state)
    BY <1>2, <2>1 DEF UpdateTransferFailed, Rows, LegalMove, IsTerminal,
       CanTransition, validTransferTransitions
  <2> QED BY <1>2, <1>8, <2>2, WriteLegal DEF FailStrategy, IgnoredStatement
<1>9. CASE FailCommand(h)
  <2>1. row[tid[h]].state \in TerminalStates \cup {"transferring"}
    BY <1>p, <1>9 DEF FailCommand, IgnoredStatement, PhaseAt
  <2>2. LegalMove(row[tid[h]].state, UpdateTransferFailed(row[tid[h]], "command").state)
    BY <1>2, <2>1 DEF UpdateTransferFailed, Rows, LegalMove, IsTerminal,
       CanTransition, validTransferTransitions
  <2> QED BY <1>2, <1>9, <2>2, WriteLegal DEF FailCommand, IgnoredStatement
<1>10. CASE Validate(h) \/ CommandSource(h) \/ CommandDest(h) \/ CreateFailedEvent(h)
  BY <1>10 DEF Validate, CommandSource, CommandDest, CreateFailedEvent, Event,
               SendTransferCommand, LegalMove
<1> QED BY <1>3, <1>4, <1>5, <1>6, <1>7, <1>8, <1>9, <1>10 DEF CreateStep

\* So do the UPDATEs of CancelTransfer and HandleProgress.
LEMMA OtherStepLegal ==
  ASSUME IndInv, NEW h \in Handlers, CancelStep(h) \/ ProgressStep(h) \/ CleanupStep(h)
  PROVE  \A u \in Transfers : LegalMove(row[u].state, row'[u].state)
<1> USE DEF LegalMove, IsTerminal, CanTransition, validTransferTransitions,
            TerminalStates
<1>1. CASE SetCancelled(h)
  <2>1. pc[h] # "idle"
    BY <1>1 DEF SetCancelled, Statement
  <2>2. tid[h] \in Transfers /\ row[tid[h]] \in Rows /\ row[tid[h]].state # "absent"
    BY <2>1, OwnRow
  <2>3. LegalMove(row[tid[h]].state, UpdateTransferState(row[tid[h]], "cancelled").state)
    BY <2>2 DEF UpdateTransferState, Rows, TransferStates
  <2> QED BY <1>1, <2>2, <2>3, WriteLegal DEF SetCancelled, Statement
<1>2. CASE SetCompleted(h) \/ SetFailed(h)
  <2>1. pc[h] \in ProgressPCs /\ pc[h] # "idle"
    BY <1>2 DEF SetCompleted, SetFailed, Statement, ProgressPCs
  <2>2. tid[h] \in Transfers /\ row[tid[h]] \in Rows
    BY <2>1, OwnRow
  <2>3. row[tid[h]].state \in TerminalStates \cup {"transferring"}
    BY <2>1, <2>2 DEF IndInv, ReporterPhase, CommandedPhase
  <2>4. /\ LegalMove(row[tid[h]].state, UpdateTransferState(row[tid[h]], "completed").state)
        /\ LegalMove(row[tid[h]].state, UpdateTransferFailed(row[tid[h]], "agent").state)
    BY <2>2, <2>3 DEF UpdateTransferState, UpdateTransferFailed, Rows
  <2> QED BY <1>2, <2>2, <2>4, WriteLegal DEF SetCompleted, SetFailed, Statement
<1>3. CASE StampCancelled(h) \/ StampCompleted(h) \/ IncrementRetry(h) \/ UpdateProgress(h)
  <2>1. pc[h] # "idle"
    BY <1>3 DEF StampCancelled, StampCompleted, IncrementRetry, UpdateProgress, Statement
  <2>2. tid[h] \in Transfers /\ row[tid[h]] \in Rows
    BY <2>1, OwnRow
  <2>3. /\ UpdateTransferCompleted(row[tid[h]]).state = row[tid[h]].state
        /\ IncrementRetryCount(row[tid[h]]).state = row[tid[h]].state
    BY <2>2 DEF UpdateTransferCompleted, IncrementRetryCount, Rows
  <2> QED BY <1>3, <2>2, <2>3, WriteLegal
          DEF StampCancelled, StampCompleted, IncrementRetry, UpdateProgress, Statement
<1>4. CASE row' = row
  BY <1>4
<1> QED BY <1>1, <1>2, <1>3, <1>4
        DEF CancelStep, ProgressStep, CleanupStep, CancelledEvent, CloseCancelled,
            CancelSource, CancelDest, CompletedEvent, FailedEvent, CloseCompleted,
            CloseFailed, CleanSource, CleanDest, Event, CloseStream, SendCancelCommand,
            Cleanup

\* orchestrator.go:113-497 writes the state column without looking at it, yet never
\* leaves the transition table of domain/transfer.go from a non-terminal state.
THEOREM NonTerminalMovesAreLegal == Spec => NonTerminalMovesLegal
<1>1. IndInv /\ [Next]_vars => [\A t \in Transfers : LegalMove(row[t].state, row'[t].state)]_vars
  <2> SUFFICES ASSUME IndInv, Next
               PROVE  \A t \in Transfers : LegalMove(row[t].state, row'[t].state)
    OBVIOUS
  <2>1. CASE Crash
    BY <2>1 DEF Crash, LegalMove
  <2>2. ASSUME NEW h \in Handlers, Step(h)
        PROVE  \A t \in Transfers : LegalMove(row[t].state, row'[t].state)
    BY <2>2, CreateStepLegal, OtherStepLegal DEF Step
  <2>3. ASSUME NEW h \in Handlers, Arrive(h)
        PROVE  \A t \in Transfers : LegalMove(row[t].state, row'[t].state)
    <3>1. ASSUME NEW t \in Transfers, NEW rq \in Requests, CreateInsert(h, t, rq)
          PROVE  \A u \in Transfers : LegalMove(row[u].state, row'[u].state)
      <4>1. \A n : InsertTransfer(n).state = "pending"
        BY DEF InsertTransfer, AbsentRow
      <4> QED BY <3>1, <4>1, WriteLegal DEF CreateInsert, LegalMove
    <3> QED BY <2>3, <3>1 DEF Arrive, CancelLoad, ProgressLoad, LegalMove
  <2> QED BY <2>1, <2>2, <2>3 DEF Next
<1> QED BY <1>1, Invariance, PTL DEF Spec, NonTerminalMovesLegal

-----------------------------------------------------------------------------
(***************************************************************************)
(* What requests that race leave of a transfer: its outcome is final once  *)
(* the handlers that decided earlier are gone; it follows                  *)
(* TransferLifecycle and its timeline is true when the requests for one    *)
(* transfer do not overlap; and concurrent failure reports overshoot the   *)
(* retry budget by less than the number of handlers in flight.             *)
(***************************************************************************)

(* The outcome of a settled transfer.                                       *)

\* The calls a handler makes once it can no longer write the state column.
QuietPCs == {"idle", "createFailedEvent", "stampCancelled", "cancelledEvent", "closeCancelled",
             "cancelSource", "cancelDest", "incrementRetry", "stampCompleted",
             "completedEvent", "closeCompleted", "failedEvent", "closeFailed",
             "cleanSource", "cleanDest"}

\* Handler h moves, and the others stay where they are.
Alone(h) ==
  /\ \A g \in Handlers \ {h} : /\ pc'[g] = pc[g] /\ tid'[g] = tid[g]
                               /\ copy'[g] = copy[g] /\ report'[g] = report[g]
  /\ pc'[h] = "idle" \/ tid'[h] = tid[h]

\* What Advance does to the handlers.
LEMMA AdvanceAlone ==
  ASSUME IndInv, NEW h \in Handlers, NEW p, Advance(h, p)
  PROVE  Alone(h) /\ pc'[h] = p
<1> USE DEF IndInv, TypeOK, Alone
<1>1. CASE p = "idle"
  BY <1>1 DEF Advance, Return
<1>2. CASE p # "idle"
  BY <1>2 DEF Advance, Goto, local
<1> QED BY <1>1, <1>2

\* A statement of handler h touches the row of its transfer only, and sets it to
\* r if it has an effect; the handler goes to `to` or returns.
LEMMA StatementEffect ==
  ASSUME IndInv, NEW h \in Handlers, NEW from, NEW to, NEW r, from # "idle",
         Statement(h, from, r, to) \/ IgnoredStatement(h, from, r, to)
  PROVE  /\ pc[h] = from /\ Alone(h) /\ pc'[h] \in {to, "idle"}
         /\ \A u \in Transfers : u # tid[h] => row'[u] = row[u]
         /\ row'[tid[h]] \in {row[tid[h]], r}
         /\ pc'[h] # "idle" /\ Statement(h, from, r, to) => row'[tid[h]] = r
         /\ DBFaults = {} => row'[tid[h]] = r
         /\ events' = events
<1>1. PICK out \in DBOutcomes, p \in {to, "idle"} :
        /\ row' = Written(tid[h], r, out) /\ Advance(h, p)
        /\ Statement(h, from, r, to) /\ out # "ok" => p = "idle"
  BY DEF Statement, IgnoredStatement
<1>2. pc[h] = from /\ events' = events
  BY DEF Statement, IgnoredStatement
<1>3. Alone(h) /\ pc'[h] = p
  BY <1>1, AdvanceAlone
<1>4. tid[h] \in Transfers
  BY <1>2, OwnRow
<1>5. /\ \A u \in Transfers : u # tid[h] => row'[u] = row[u]
      /\ row'[tid[h]] \in {row[tid[h]], r}
      /\ out # "lost" => row'[tid[h]] = r
  BY <1>1, <1>4 DEF Written, IndInv, TypeOK
<1>6. DBFaults = {} => out = "ok"
  BY <1>1 DEF DBOutcomes
<1> QED BY <1>1, <1>2, <1>3, <1>5, <1>6

\* Where a report leads.
LEMMA ReportLeads ==
  ASSUME NEW h
  PROVE  AfterReport(h) \in {"setCompleted", "setFailed", "incrementRetry", "idle"}
BY DEF AfterReport

\* A step of handler h touches no other row, and once the handler can no longer
\* write the state column, it never can again.
StepEffect(h) ==
  /\ pc[h] # "idle" /\ Alone(h)
  /\ \A u \in Transfers : u # tid[h] => row'[u] = row[u]
  /\ ~StateWriter(h, tid[h]) => /\ row'[tid[h]].state = row[tid[h]].state
                                /\ pc'[h] \in QuietPCs

\* The UPDATEs that keep the state column.
LEMMA StateKept ==
  ASSUME NEW r \in Rows
  PROVE  /\ UpdateTransferCompleted(r).state = r.state
         /\ IncrementRetryCount(r).state = r.state
BY DEF UpdateTransferCompleted, IncrementRetryCount, Rows

\* A call that leaves the table alone.
LEMMA CallEffect ==
  ASSUME IndInv, NEW h \in Handlers, pc[h] # "idle", NEW p, Advance(h, p), row' = row,
         StateWriter(h, tid[h]) \/ p \in QuietPCs
  PROVE  StepEffect(h)
BY AdvanceAlone DEF StepEffect

\* Every call of CreateTransfer has this effect ...
LEMMA CreateStepEffect ==
  ASSUME IndInv, NEW h \in Handlers, CreateStep(h)
  PROVE  StepEffect(h)
<1>1. CASE CreateFailedEvent(h)
  BY <1>1, CallEffect DEF CreateFailedEvent, Event, QuietPCs
<1>2. CASE CommandSource(h) \/ CommandDest(h)
  <2>1. /\ pc[h] \in {"commandSource", "commandDest"} /\ row' = row
        /\ \E p : Advance(h, p)
    BY <1>2 DEF CommandSource, CommandDest, SendTransferCommand
  <2>2. StateWriter(h, tid[h])
    BY <2>1 DEF StateWriter, CreatePCs
  <2> QED BY <2>1, <2>2, CallEffect
<1>3. CASE Validate(h)
  <2>1. pc[h] = "validate" /\ row' = row /\ Alone(h)
    BY <1>3 DEF Validate, Goto, local, Alone, IndInv, TypeOK
  <2>2. StateWriter(h, tid[h])
    BY <2>1 DEF StateWriter, CreatePCs
  <2> QED BY <2>1, <2>2 DEF StepEffect
<1>4. CASE \E from, r, to :
             /\ from \in CreatePCs \ {"createFailedEvent"}
             /\ Statement(h, from, r, to) \/ IgnoredStatement(h, from, r, to)
  <2>1. PICK from, r, to :
           /\ from \in CreatePCs \ {"createFailedEvent"}
           /\ Statement(h, from, r, to) \/ IgnoredStatement(h, from, r, to)
    BY <1>4
  <2>2. from # "idle"
    BY <2>1 DEF CreatePCs
  <2>3. /\ pc[h] = from /\ Alone(h)
        /\ \A u \in Transfers : u # tid[h] => row'[u] = row[u]
    BY <2>1, <2>2, StatementEffect
  <2>4. StateWriter(h, tid[h])
    BY <2>1, <2>3 DEF StateWriter
  <2> QED BY <2>2, <2>3, <2>4 DEF StepEffect
<1>5. CASE \/ SetValidating(h) \/ SetStrategy(h) \/ SetTransferring(h) \/ SetStarted(h)
           \/ FailValidation(h) \/ FailStrategy(h) \/ FailCommand(h)
  BY <1>4, <1>5 DEF SetValidating, SetStrategy, SetTransferring, SetStarted, FailValidation,
                    FailStrategy, FailCommand, CreatePCs
<1> QED BY <1>1, <1>2, <1>3, <1>5 DEF CreateStep

\* ... and so has every other call.
LEMMA OtherStepEffect ==
  ASSUME IndInv, NEW h \in Handlers, CancelStep(h) \/ ProgressStep(h) \/ CleanupStep(h)
  PROVE  StepEffect(h)
<1>1. CASE \/ SetCancelled(h) \/ SetCompleted(h) \/ SetFailed(h)
  <2>1. PICK from, r, to :
           from \in {"setCancelled", "setCompleted", "setFailed"} /\ Statement(h, from, r, to)
    BY <1>1 DEF SetCancelled, SetCompleted, SetFailed
  <2>2. from # "idle"
    BY <2>1
  <2>3. /\ pc[h] = from /\ Alone(h)
        /\ \A u \in Transfers : u # tid[h] => row'[u] = row[u]
    BY <2>1, <2>2, StatementEffect
  <2>4. StateWriter(h, tid[h])
    BY <2>1, <2>3 DEF StateWriter
  <2> QED BY <2>2, <2>3, <2>4 DEF StepEffect
<1>2. CASE \/ StampCancelled(h) \/ StampCompleted(h) \/ IncrementRetry(h) \/ UpdateProgress(h)
  <2>1. PICK from \in {"stampCancelled", "stampCompleted", "incrementRetry", "updateProgress"},
             r \in {UpdateTransferCompleted(row[tid[h]]), IncrementRetryCount(row[tid[h]]), row[tid[h]]},
             to \in QuietPCs \cup {AfterReport(h)} :
          /\ Statement(h, from, r, to)
          /\ to \in QuietPCs \/ from = "updateProgress"
    BY <1>2 DEF StampCancelled, StampCompleted, IncrementRetry, UpdateProgress, QuietPCs
  <2>2. from # "idle"
    BY <2>1
  <2>3. /\ pc[h] = from /\ Alone(h) /\ pc'[h] \in {to, "idle"}
        /\ \A u \in Transfers : u # tid[h] => row'[u] = row[u]
        /\ row'[tid[h]] \in {row[tid[h]], r}
    BY <2>1, <2>2, StatementEffect
  <2>4. row'[tid[h]].state = row[tid[h]].state
    <3>1. row[tid[h]] \in Rows
      BY <2>2, <2>3, OwnRow
    <3> QED BY <2>1, <2>3, <3>1, StateKept
  <2>5. ~StateWriter(h, tid[h]) => to \in QuietPCs
    BY <2>1, <2>3, ReportLeads DEF StateWriter, QuietPCs
  <2>6. "idle" \in QuietPCs
    BY DEF QuietPCs
  <2> QED BY <2>2, <2>3, <2>4, <2>5, <2>6 DEF StepEffect
<1>3. CASE \/ CancelledEvent(h) \/ CompletedEvent(h) \/ FailedEvent(h)
  BY <1>3, CallEffect DEF CancelledEvent, CompletedEvent, FailedEvent, Event, QuietPCs
<1>4. CASE \/ CloseCancelled(h) \/ CloseCompleted(h) \/ CloseFailed(h)
  <2>1. PICK p \in {"cancelSource", "cleanSource"} : pc[h] # "idle" /\ Goto(h, p) /\ row' = row
    BY <1>4 DEF CloseCancelled, CloseCompleted, CloseFailed, CloseStream
  <2>2. Advance(h, p) /\ p \in QuietPCs
    BY <2>1 DEF Advance, QuietPCs
  <2> QED BY <2>1, <2>2, CallEffect
<1>5. CASE \/ CancelSource(h) \/ CancelDest(h) \/ CleanSource(h) \/ CleanDest(h)
  BY <1>5, CallEffect DEF CancelSource, CancelDest, CleanSource, CleanDest, SendCancelCommand, Cleanup,
                          QuietPCs
<1> QED BY <1>1, <1>2, <1>3, <1>4, <1>5 DEF CancelStep, ProgressStep, CleanupStep

\* A settled transfer: neither the handlers at work nor one that starts write it.
LEMMA SettledStays ==
  ASSUME IndInv, Next, NEW t \in Transfers, Settled(t)
  PROVE  Settled(t)' /\ row'[t].state = row[t].state
<1> DEFINE W == (CreatePCs \ {"createFailedEvent"}) \cup {"setCancelled", "setCompleted", "setFailed", "updateProgress"}
<1>1. IsTerminal(row[t].state) /\ row[t].state # "absent" /\ \A g \in Handlers : ~StateWriter(g, t)
  BY DEF Settled, IsTerminal, TerminalStates
<1>2. QuietPCs \cap W = {}
  BY DEF QuietPCs, CreatePCs
<1>q. \A g \in Handlers : tid'[g] # t \/ pc'[g] \in QuietPCs => ~StateWriter(g, t)'
  BY <1>2 DEF StateWriter, QuietPCs
<1>u. \A g \in Handlers : pc'[g] = pc[g] /\ tid'[g] = tid[g] /\ copy'[g] = copy[g] /\ report'[g] = report[g]
         => ~StateWriter(g, t)'
  BY <1>1 DEF StateWriter, AfterReport
<1> HIDE DEF W
<1>3. CASE \E h \in Handlers : Step(h)
  <2>1. PICK h \in Handlers : Step(h)
    BY <1>3
  <2>2. StepEffect(h)
    BY <2>1, CreateStepEffect, OtherStepEffect DEF Step
  <2>3. row'[t].state = row[t].state
    BY <1>1, <2>2 DEF StepEffect
  <2>4. ~StateWriter(h, t)'
    <3>1. CASE tid[h] = t
      BY <1>1, <1>q, <2>2, <3>1 DEF StepEffect
    <3>2. CASE tid[h] # t
      <4>1. tid'[h] # t \/ pc'[h] \in QuietPCs
        BY <2>2, <3>2 DEF StepEffect, Alone, QuietPCs
      <4> QED BY <1>q, <4>1
    <3> QED BY <3>1, <3>2
  <2>5. \A g \in Handlers \ {h} : ~StateWriter(g, t)'
    BY <1>u, <2>2 DEF StepEffect, Alone
  <2> QED BY <1>1, <2>3, <2>4, <2>5 DEF Settled
<1>4. CASE Crash
  <2>1. row' = row /\ \A g \in Handlers : pc'[g] \in QuietPCs
    BY <1>4 DEF Crash, QuietPCs
  <2> QED BY <1>1, <1>q, <2>1 DEF Settled
<1>5. ASSUME NEW h \in Handlers, NEW u \in Transfers, NEW rq \in Requests, CreateInsert(h, u, rq)
      PROVE  Settled(t)' /\ row'[t].state = row[t].state
  <2>1. u # t
    BY <1>1, <1>5 DEF CreateInsert
  <2>2. row'[t] = row[t]
    BY <1>5, <2>1 DEF CreateInsert, Written, IndInv, TypeOK
  <2>3. tid'[h] # t \/ pc'[h] \in QuietPCs
    BY <1>5, <2>1 DEF CreateInsert, Return, QuietPCs, IndInv, TypeOK
  <2>4. \A g \in Handlers \ {h} : /\ pc'[g] = pc[g] /\ tid'[g] = tid[g]
                                  /\ copy'[g] = copy[g] /\ report'[g] = report[g]
    BY <1>5 DEF CreateInsert, Return, IndInv, TypeOK
  <2> QED BY <1>1, <1>q, <1>u, <2>2, <2>3, <2>4 DEF Settled
<1>6. ASSUME NEW h \in Handlers, NEW u \in Transfers, CancelLoad(h, u)
      PROVE  Settled(t)' /\ row'[t].state = row[t].state
  <2>1. u # t /\ row' = row
    BY <1>1, <1>6 DEF CancelLoad
  <2>2. tid'[h] # t
    BY <1>6, <2>1 DEF CancelLoad, IndInv, TypeOK
  <2>3. \A g \in Handlers \ {h} : /\ pc'[g] = pc[g] /\ tid'[g] = tid[g]
                                  /\ copy'[g] = copy[g] /\ report'[g] = report[g]
    BY <1>6 DEF CancelLoad, IndInv, TypeOK
  <2> QED BY <1>1, <1>q, <1>u, <2>1, <2>2, <2>3 DEF Settled
<1>7. ASSUME NEW h \in Handlers, NEW u \in Transfers, NEW side \in Sides, NEW status \in Statuses,
             ProgressLoad(h, u, side, status)
      PROVE  Settled(t)' /\ row'[t].state = row[t].state
  <2>1. row' = row /\ pc'[h] = "updateProgress" /\ tid'[h] = u /\ copy'[h] = Loaded(row[u])
    BY <1>7 DEF ProgressLoad, IndInv, TypeOK
  <2>2. ~StateWriter(h, t)'
    <3>1. CASE u # t
      BY <1>q, <2>1, <3>1
    <3>2. CASE u = t
      <4>1. copy'[h].state \in TerminalStates
        BY <1>1, <2>1, <3>2 DEF Loaded, IsTerminal
      <4>2. ~CanTransition(copy'[h].state, "completed") /\ ~CanTransition(copy'[h].state, "failed")
        BY <4>1 DEF CanTransition, validTransferTransitions, TerminalStates
      <4>3. AfterReport(h)' \notin {"setCompleted", "setFailed"}
        BY <4>2 DEF AfterReport
      <4> QED BY <2>1, <4>3 DEF StateWriter, CreatePCs
    <3> QED BY <3>1, <3>2
  <2>3. \A g \in Handlers \ {h} : /\ pc'[g] = pc[g] /\ tid'[g] = tid[g]
                                  /\ copy'[g] = copy[g] /\ report'[g] = report[g]
    BY <1>7 DEF ProgressLoad, IndInv, TypeOK
  <2> QED BY <1>1, <1>u, <2>1, <2>2, <2>3 DEF Settled
<1> QED BY <1>3, <1>4, <1>5, <1>6, <1>7 DEF Next, Arrive

\* orchestrator.go:262-497: a cancel that finds the transfer ended is refused, and a
\* report on an ended transfer finds no transition to take; so once the handlers that
\* decided earlier are gone, the outcome of a transfer is final, for any number of
\* handlers, and through faults and crashes.
THEOREM SettledTransfersStay == Spec => SettledIsFinal
<1>1. IndInv /\ [Next]_vars =>
        [\A t \in Transfers : Settled(t) => Settled(t)' /\ row'[t].state = row[t].state]_vars
  BY SettledStays
<1> QED BY <1>1, Invariance, PTL DEF Spec, SettledIsFinal

-----------------------------------------------------------------------------
(* Requests for the same transfer that do not overlap.                      *)

\* A handler that may still write the state column is at work on a transfer that
\* has not ended.
LEMMA WriterSeesOpen ==
  ASSUME OutcomeKnown, NEW h \in Handlers, StateWriter(h, tid[h])
  PROVE  ~IsTerminal(row[tid[h]].state)
BY DEF OutcomeKnown, OutcomeAt, StateWriter

\* Where a step leaves handler h.
LeavesKnown(h) ==
  pc'[h] # "updateProgress" /\ OutcomeAt(pc'[h], row'[tid[h]].state)

\* A handler that is about to return, or has nothing left to tell.
LEMMA NothingToTell ==
  ASSUME NEW p \in {"idle", "closeCancelled", "cancelSource", "cancelDest", "incrementRetry",
                    "closeCompleted", "closeFailed", "cleanSource", "cleanDest"}, NEW s
  PROVE  OutcomeAt(p, s)
BY DEF OutcomeAt, CreatePCs

\* The states the UPDATEs write.
LEMMA WrittenState ==
  ASSUME NEW r \in Rows
  PROVE  /\ \A s : UpdateTransferState(r, s).state = s
         /\ \A s : UpdateTransferStrategy(r, s).state = r.state
         /\ UpdateTransferStarted(r).state = r.state
         /\ \A e : UpdateTransferFailed(r, e).state = "failed"
BY DEF UpdateTransferState, UpdateTransferStrategy, UpdateTransferStarted,
       UpdateTransferFailed, Rows

\* The calls of CreateTransfer.
LEMMA CreateKnown ==
  ASSUME IndInv, OutcomeKnown, NEW h \in Handlers, CreateStep(h)
  PROVE  LeavesKnown(h)
<1>0. pc[h] # "idle" /\ Alone(h)
  BY CreateStepEffect DEF StepEffect
<1>1. row[tid[h]] \in Rows
  BY <1>0, OwnRow
<1>2. pc[h] # "createFailedEvent" => ~IsTerminal(row[tid[h]].state)
  <2>1. pc[h] \in CreatePCs
    BY DEF CreateStep, SetValidating, Validate, SetStrategy, SetTransferring, SetStarted,
           CommandSource, CommandDest, FailValidation, FailStrategy, FailCommand,
           CreateFailedEvent, Statement, IgnoredStatement, Event, SendTransferCommand, CreatePCs
  <2> QED BY <2>1, WriterSeesOpen DEF StateWriter
<1>i. OutcomeAt("idle", row'[tid[h]].state)
  BY NothingToTell
<1>3. ASSUME NEW from \in CreatePCs \ {"createFailedEvent"}, NEW to \in CreatePCs \ {"createFailedEvent"},
             NEW r, Statement(h, from, r, to), ~IsTerminal(r.state)
      PROVE  LeavesKnown(h)
  <2>1. /\ pc'[h] \in {to, "idle"}
        /\ pc'[h] # "idle" => row'[tid[h]] = r
    BY <1>3, StatementEffect DEF CreatePCs
  <2>2. OutcomeAt(to, r.state)
    BY <1>3 DEF OutcomeAt, CreatePCs
  <2> QED BY <1>i, <2>1, <2>2 DEF LeavesKnown, CreatePCs
<1>4. CASE SetValidating(h) \/ SetStrategy(h) \/ SetTransferring(h) \/ SetStarted(h)
  <2>1. pc[h] # "createFailedEvent"
    BY <1>4 DEF SetValidating, SetStrategy, SetTransferring, SetStarted, Statement
  <2>2. /\ ~IsTerminal(UpdateTransferState(row[tid[h]], "validating").state)
        /\ ~IsTerminal(UpdateTransferState(row[tid[h]], "transferring").state)
        /\ ~IsTerminal(UpdateTransferStrategy(row[tid[h]], copy[h].strategy).state)
        /\ ~IsTerminal(UpdateTransferStarted(row[tid[h]]).state)
    BY <1>1, <1>2, <2>1, WrittenState DEF IsTerminal, TerminalStates
  <2> QED BY <1>3, <1>4, <2>2 DEF SetValidating, SetStrategy, SetTransferring, SetStarted, CreatePCs
<1>5. CASE FailValidation(h) \/ FailStrategy(h) \/ FailCommand(h)
  <2>1. PICK from, to, e :
           /\ from \in CreatePCs \ {"createFailedEvent"} /\ to \in {"createFailedEvent", "idle"}
           /\ IgnoredStatement(h, from, UpdateTransferFailed(row[tid[h]], e), to)
    BY <1>5 DEF FailValidation, FailStrategy, FailCommand, CreatePCs
  <2>2. /\ pc'[h] \in {to, "idle"}
        /\ DBFaults = {} => row'[tid[h]] = UpdateTransferFailed(row[tid[h]], e)
    BY <2>1, StatementEffect DEF CreatePCs
  <2>3. DBFaults = {} => row'[tid[h]].state = "failed"
    BY <1>1, <2>2, WrittenState
  <2>4. OutcomeAt("createFailedEvent", row'[tid[h]].state)
    BY <2>3 DEF OutcomeAt
  <2> QED BY <1>i, <2>1, <2>2, <2>4 DEF LeavesKnown
<1>6. CASE CommandSource(h) \/ CommandDest(h) \/ Validate(h)
  <2>1. /\ row' = row /\ pc[h] # "createFailedEvent"
        /\ pc'[h] \in {"idle", "commandDest", "failCommand", "failValidation", "failStrategy", "setStrategy"}
    <3>1. CASE Validate(h)
      BY <3>1 DEF Validate, Goto, IndInv, TypeOK
    <3>2. CASE CommandSource(h) \/ CommandDest(h)
      BY <3>2, AdvanceAlone DEF CommandSource, CommandDest, SendTransferCommand
    <3> QED BY <1>6, <3>1, <3>2
  <2>2. ~IsTerminal(row'[tid[h]].state)
    BY <1>2, <2>1
  <2> QED BY <2>1, <2>2 DEF LeavesKnown, OutcomeAt, CreatePCs
<1>7. CASE CreateFailedEvent(h)
  <2>1. pc'[h] = "idle"
    BY <1>7, AdvanceAlone DEF CreateFailedEvent, Event
  <2> QED BY <1>i, <2>1 DEF LeavesKnown
<1> QED BY <1>4, <1>5, <1>6, <1>7 DEF CreateStep

\* The calls of CancelTransfer, HandleProgress and the cleanup.
LEMMA OtherKnown ==
  ASSUME IndInv, OutcomeKnown, NEW h \in Handlers, CancelStep(h) \/ ProgressStep(h) \/ CleanupStep(h)
  PROVE  LeavesKnown(h)
<1>0. pc[h] # "idle" /\ Alone(h)
  BY OtherStepEffect DEF StepEffect
<1>1. row[tid[h]] \in Rows
  BY <1>0, OwnRow
<1>i. OutcomeAt("idle", row'[tid[h]].state)
  BY NothingToTell
<1>2. ASSUME NEW from, from # "idle", NEW to, to # "updateProgress", NEW r,
             Statement(h, from, r, to), OutcomeAt(to, r.state)
      PROVE  LeavesKnown(h)
  <2>1. /\ pc'[h] \in {to, "idle"}
        /\ pc'[h] # "idle" => row'[tid[h]] = r
    BY <1>2, StatementEffect
  <2> QED BY <1>i, <1>2, <2>1 DEF LeavesKnown
<1>3. CASE SetCancelled(h) \/ SetCompleted(h) \/ SetFailed(h)
  <2>1. /\ OutcomeAt("stampCancelled", UpdateTransferState(row[tid[h]], "cancelled").state)
        /\ OutcomeAt("stampCompleted", UpdateTransferState(row[tid[h]], "completed").state)
        /\ OutcomeAt("failedEvent", UpdateTransferFailed(row[tid[h]], "agent").state)
    BY <1>1, WrittenState DEF OutcomeAt, CreatePCs
  <2> QED BY <1>2, <1>3, <2>1 DEF SetCancelled, SetCompleted, SetFailed
<1>4. CASE StampCancelled(h) \/ StampCompleted(h)
  <2>1. /\ pc[h] = "stampCancelled" => row[tid[h]].state = "cancelled"
        /\ pc[h] = "stampCompleted" => row[tid[h]].state = "completed"
    BY DEF OutcomeKnown, OutcomeAt
  <2>2. UpdateTransferCompleted(row[tid[h]]).state = row[tid[h]].state
    BY <1>1, StateKept
  <2>3. CASE StampCancelled(h)
    <3>1. OutcomeAt("cancelledEvent", UpdateTransferCompleted(row[tid[h]]).state)
      BY <2>1, <2>2, <2>3 DEF StampCancelled, Statement, OutcomeAt, CreatePCs
    <3> QED BY <1>2, <2>3, <3>1 DEF StampCancelled
  <2>4. CASE StampCompleted(h)
    <3>1. OutcomeAt("completedEvent", UpdateTransferCompleted(row[tid[h]]).state)
      BY <2>1, <2>2, <2>4 DEF StampCompleted, Statement, OutcomeAt, CreatePCs
    <3> QED BY <1>2, <2>4, <3>1 DEF StampCompleted
  <2> QED BY <1>4, <2>3, <2>4
<1>5. CASE IncrementRetry(h)
  BY <1>2, <1>5, NothingToTell DEF IncrementRetry
<1>6. CASE UpdateProgress(h)
  <2>1. pc[h] = "updateProgress"
    BY <1>6 DEF UpdateProgress, Statement
  <2>2. AfterReport(h) \in {"setCompleted", "setFailed"} => ~IsTerminal(row[tid[h]].state)
    BY <2>1 DEF OutcomeKnown
  <2>3. OutcomeAt(AfterReport(h), row[tid[h]].state)
    <3>1. CASE AfterReport(h) \in {"setCompleted", "setFailed"}
      BY <2>2, <3>1 DEF OutcomeAt, CreatePCs
    <3>2. CASE AfterReport(h) \in {"incrementRetry", "idle"}
      BY <3>2, NothingToTell
    <3> QED BY <3>1, <3>2, ReportLeads
  <2>4. AfterReport(h) # "updateProgress"
    BY ReportLeads
  <2> QED BY <1>2, <1>6, <2>3, <2>4 DEF UpdateProgress
<1>7. ASSUME NEW p \in {"idle", "closeCancelled", "cancelSource", "cancelDest", "incrementRetry",
                        "closeCompleted", "closeFailed", "cleanSource", "cleanDest"}, Advance(h, p)
      PROVE  LeavesKnown(h)
  BY <1>7, AdvanceAlone, NothingToTell DEF LeavesKnown
<1>8. CASE CancelledEvent(h) \/ CompletedEvent(h) \/ FailedEvent(h)
  BY <1>7, <1>8 DEF CancelledEvent, CompletedEvent, FailedEvent, Event
<1>9. CASE CloseCancelled(h) \/ CloseCompleted(h) \/ CloseFailed(h)
  BY <1>7, <1>9 DEF CloseCancelled, CloseCompleted, CloseFailed, CloseStream, Advance
<1>10. CASE CancelSource(h) \/ CancelDest(h) \/ CleanSource(h) \/ CleanDest(h)
  BY <1>7, <1>10 DEF CancelSource, CancelDest, CleanSource, CleanDest, SendCancelCommand, Cleanup
<1> QED BY <1>3, <1>4, <1>5, <1>6, <1>8, <1>9, <1>10 DEF CancelStep, ProgressStep, CleanupStep

\* A step of another transfer's handler tells a handler nothing new.
LEMMA OthersKnown ==
  ASSUME OutcomeKnown, NEW g \in Handlers, NEW s,
         pc'[g] = pc[g], tid'[g] = tid[g], copy'[g] = copy[g], report'[g] = report[g],
         pc[g] = "idle" \/ row'[tid[g]].state = row[tid[g]].state
  PROVE  /\ OutcomeAt(pc'[g], row'[tid'[g]].state)
         /\ pc'[g] = "updateProgress" /\ AfterReport(g)' \in {"setCompleted", "setFailed"}
              => ~IsTerminal(row'[tid'[g]].state)
<1>1. CASE pc[g] = "idle"
  BY <1>1, NothingToTell
<1>2. CASE row'[tid[g]].state = row[tid[g]].state
  <2>1. AfterReport(g)' = AfterReport(g)
    BY DEF AfterReport
  <2> QED BY <1>2, <2>1 DEF OutcomeKnown
<1> QED BY <1>1, <1>2

\* A step of a handler that has its transfer to itself.
LEMMA StepKnown ==
  ASSUME IndInv, Serialised, OutcomeKnown, NEW h \in Handlers, Step(h)
  PROVE  OutcomeKnown'
<1>1. StepEffect(h)
  BY CreateStepEffect, OtherStepEffect DEF Step
<1>2. LeavesKnown(h)
  BY CreateKnown, OtherKnown DEF Step
<1> SUFFICES ASSUME NEW g \in Handlers
             PROVE  /\ OutcomeAt(pc'[g], row'[tid'[g]].state)
                    /\ pc'[g] = "updateProgress" /\ AfterReport(g)' \in {"setCompleted", "setFailed"}
                         => ~IsTerminal(row'[tid'[g]].state)
  BY DEF OutcomeKnown
<1>3. CASE g = h
  <2>1. CASE pc'[h] = "idle"
    BY <1>3, <2>1, NothingToTell
  <2>2. CASE pc'[h] # "idle"
    BY <1>1, <1>2, <1>3, <2>2 DEF StepEffect, Alone, LeavesKnown
  <2> QED BY <2>1, <2>2
<1>4. CASE g # h
  <2>1. pc'[g] = pc[g] /\ tid'[g] = tid[g] /\ copy'[g] = copy[g] /\ report'[g] = report[g]
    BY <1>1, <1>4 DEF StepEffect, Alone
  <2>2. pc[g] = "idle" \/ row'[tid[g]].state = row[tid[g]].state
    <3>1. SUFFICES ASSUME pc[g] # "idle" PROVE row'[tid[g]] = row[tid[g]]
      OBVIOUS
    <3>2. tid[g] \in Transfers
      BY <3>1, OwnRow
    <3>3. tid[g] # tid[h]
      BY <1>4, <3>2, TransfersAssumption DEF Serialised
    <3> QED BY <1>1, <3>2, <3>3 DEF StepEffect
  <2> QED BY <2>1, <2>2, OthersKnown
<1> QED BY <1>3, <1>4

\* A request that arrives knows the row it found.
LEMMA ArriveKnown ==
  ASSUME IndInv, OutcomeKnown, NEW h \in Handlers, Arrive(h)
  PROVE  OutcomeKnown'
<1> DEFINE Known(g) == /\ OutcomeAt(pc'[g], row'[tid'[g]].state)
                       /\ pc'[g] = "updateProgress" /\ AfterReport(g)' \in {"setCompleted", "setFailed"}
                            => ~IsTerminal(row'[tid'[g]].state)
<1>0. SUFFICES ASSUME NEW g \in Handlers PROVE Known(g)
  BY DEF OutcomeKnown
<1>i. pc'[g] = "idle" => Known(g)
  BY NothingToTell
<1>1. ASSUME NEW t \in Transfers, NEW rq \in Requests, CreateInsert(h, t, rq) PROVE Known(g)
  <2>1. CASE g = h
    <3>1. CASE pc'[h] = "idle"
      BY <1>i, <2>1, <3>1
    <3>2. CASE pc'[h] # "idle"
      <4>1. /\ pc'[h] = "setValidating" /\ tid'[h] = t
            /\ \E n : row' = [row EXCEPT ![t] = InsertTransfer(n)]
        BY <1>1, <3>2 DEF CreateInsert, Return, Written, IndInv, TypeOK
      <4>2. row'[t].state = "pending"
        BY <4>1 DEF InsertTransfer, AbsentRow, IndInv, TypeOK
      <4> QED BY <2>1, <4>1, <4>2 DEF OutcomeAt, IsTerminal, TerminalStates
    <3> QED BY <3>1, <3>2
  <2>2. CASE g # h
    <3>1. pc'[g] = pc[g] /\ tid'[g] = tid[g] /\ copy'[g] = copy[g] /\ report'[g] = report[g]
      BY <1>1, <2>2 DEF CreateInsert, Return, IndInv, TypeOK
    <3>2. pc[g] # "idle" => tid[g] \in Transfers /\ tid[g] # t
      BY <1>1, OwnRow DEF CreateInsert
    <3>3. pc[g] = "idle" \/ row'[tid[g]].state = row[tid[g]].state
      BY <1>1, <3>2 DEF CreateInsert, Written, IndInv, TypeOK
    <3> QED BY <3>1, <3>3, OthersKnown
  <2> QED BY <2>1, <2>2
<1>2. ASSUME NEW t \in Transfers, CancelLoad(h, t) PROVE Known(g)
  <2>1. CASE g = h
    <3>1. pc'[h] = "setCancelled" /\ tid'[h] = t /\ row' = row /\ ~IsTerminal(row[t].state)
      BY <1>2 DEF CancelLoad, IndInv, TypeOK
    <3> QED BY <2>1, <3>1 DEF OutcomeAt
  <2>2. CASE g # h
    <3>1. pc'[g] = pc[g] /\ tid'[g] = tid[g] /\ copy'[g] = copy[g] /\ report'[g] = report[g]
      BY <1>2, <2>2 DEF CancelLoad, IndInv, TypeOK
    <3>2. row' = row
      BY <1>2 DEF CancelLoad
    <3> QED BY <3>1, <3>2, OthersKnown
  <2> QED BY <2>1, <2>2
<1>3. ASSUME NEW t \in Transfers, NEW side \in Sides, NEW status \in Statuses,
             ProgressLoad(h, t, side, status)
      PROVE  Known(g)
  <2>1. row' = row
    BY <1>3 DEF ProgressLoad
  <2>2. CASE g = h
    <3>1. pc'[h] = "updateProgress" /\ tid'[h] = t /\ copy'[h] = Loaded(row[t])
      BY <1>3 DEF ProgressLoad, IndInv, TypeOK
    <3>2. copy'[h].state = row[t].state
      BY <3>1 DEF Loaded
    <3>3. AfterReport(h)' \in {"setCompleted", "setFailed"} =>
            CanTransition(copy'[h].state, "completed") \/ CanTransition(copy'[h].state, "failed")
      BY DEF AfterReport
    <3>4. AfterReport(h)' \in {"setCompleted", "setFailed"} => ~IsTerminal(row[t].state)
      BY <3>2, <3>3 DEF CanTransition, validTransferTransitions, IsTerminal, TerminalStates
    <3>5. OutcomeAt("updateProgress", row[t].state)
      BY DEF OutcomeAt, CreatePCs
    <3> QED BY <2>1, <2>2, <3>1, <3>4, <3>5
  <2>3. CASE g # h
    <3>1. pc'[g] = pc[g] /\ tid'[g] = tid[g] /\ copy'[g] = copy[g] /\ report'[g] = report[g]
      BY <1>3, <2>3 DEF ProgressLoad, IndInv, TypeOK
    <3> QED BY <2>1, <3>1, OthersKnown
  <2> QED BY <2>2, <2>3
<1> QED BY <1>1, <1>2, <1>3 DEF Arrive

\* The outcomes that may be on record early: a creation whose UPDATE failed.
EarlyOutcomes == IF DBFaults = {} THEN {} ELSE {"failed"}

\* What a step may add to the timeline: nothing, or the outcome of its row.
LEMMA EventsTold ==
  ASSUME IndInv, OutcomeKnown, NEW h \in Handlers, Step(h)
  PROVE  \A t \in Transfers :
           \/ events'[t] = events[t]
           \/ /\ row' = row
              /\ events'[t] \subseteq events[t] \cup {row[t].state} \cup EarlyOutcomes
<1>0. pc[h] # "idle"
  BY CreateStepEffect, OtherStepEffect DEF Step, StepEffect
<1>1. ASSUME NEW from, NEW type, NEW to, Event(h, from, type, to),
             type \in {row[tid[h]].state} \cup EarlyOutcomes
      PROVE  \A t \in Transfers :
               /\ row' = row
               /\ events'[t] \subseteq events[t] \cup {row[t].state} \cup EarlyOutcomes
  <2>1. tid[h] \in Transfers
    BY <1>0, OwnRow
  <2>2. PICK out : events' = Recorded(tid[h], type, out)
    BY <1>1 DEF Event
  <2>3. row' = row
    BY <1>1 DEF Event
  <2>4. \A t \in Transfers : events'[t] \subseteq events[t] \cup {row[t].state} \cup EarlyOutcomes
    BY <1>1, <2>1, <2>2 DEF Recorded, IndInv, TypeOK
  <2> QED BY <2>3, <2>4
<1>2. CASE CancelledEvent(h) \/ CompletedEvent(h) \/ FailedEvent(h)
  <2>1. /\ pc[h] = "cancelledEvent" => row[tid[h]].state = "cancelled"
        /\ pc[h] = "completedEvent" => row[tid[h]].state = "completed"
        /\ pc[h] = "failedEvent" => row[tid[h]].state = "failed"
    BY DEF OutcomeKnown, OutcomeAt
  <2> QED BY <1>1, <1>2, <2>1 DEF CancelledEvent, CompletedEvent, FailedEvent, Event
<1>3. CASE CreateFailedEvent(h)
  <2>1. pc[h] = "createFailedEvent" /\ DBFaults = {} => row[tid[h]].state = "failed"
    BY DEF OutcomeKnown, OutcomeAt
  <2>2. "failed" \in {row[tid[h]].state} \cup EarlyOutcomes
    BY <1>3, <2>1 DEF CreateFailedEvent, Event, EarlyOutcomes
  <2> QED BY <1>1, <1>3, <2>2 DEF CreateFailedEvent
<1>4. CASE events' = events
  BY <1>4
<1>5. CASE CreateStep(h) /\ ~CreateFailedEvent(h)
  BY <1>4, <1>5 DEF CreateStep, SetValidating, Validate, SetStrategy, SetTransferring, SetStarted,
         CommandSource, CommandDest, FailValidation, FailStrategy, FailCommand,
         Statement, IgnoredStatement, SendTransferCommand
<1>6. CASE CancelStep(h) /\ ~CancelledEvent(h)
  BY <1>4, <1>6 DEF CancelStep, SetCancelled, StampCancelled, CloseCancelled, CancelSource, CancelDest,
         Statement, CloseStream, SendCancelCommand
<1>7. CASE ProgressStep(h) /\ ~CompletedEvent(h) /\ ~FailedEvent(h)
  BY <1>4, <1>7 DEF ProgressStep, UpdateProgress, IncrementRetry, SetCompleted, StampCompleted,
         CloseCompleted, SetFailed, CloseFailed, Statement, CloseStream
<1>8. CASE CleanupStep(h)
  BY <1>4, <1>8 DEF CleanupStep, CleanSource, CleanDest, Cleanup
<1> QED BY <1>2, <1>3, <1>5, <1>6, <1>7, <1>8 DEF Step

\* A handler that has its transfer to itself keeps the timeline true.
LEMMA StepTells ==
  ASSUME IndInv, OutcomeKnown, TimelineMatchesRow, NEW h \in Handlers, Step(h)
  PROVE  TimelineMatchesRow'
<1> SUFFICES ASSUME NEW t \in Transfers
             PROVE  events'[t] \subseteq {row'[t].state} \cup EarlyOutcomes
  BY DEF TimelineMatchesRow, EarlyOutcomes
<1>1. events[t] \subseteq {row[t].state} \cup EarlyOutcomes /\ events[t] \subseteq TerminalStates
  BY DEF TimelineMatchesRow, EarlyOutcomes, IndInv, TypeOK
<1>2. StepEffect(h)
  BY CreateStepEffect, OtherStepEffect DEF Step
<1>3. \/ row'[t].state = row[t].state
      \/ ~IsTerminal(row[t].state) /\ row' # row
  <2>1. CASE tid[h] = t /\ StateWriter(h, t)
    BY <2>1, WriterSeesOpen
  <2>2. CASE tid[h] # t \/ ~StateWriter(h, t)
    BY <1>2, <2>2 DEF StepEffect
  <2> QED BY <2>1, <2>2
<1>4. CASE row'[t].state = row[t].state
  BY <1>1, <1>4, EventsTold
<1>5. CASE ~IsTerminal(row[t].state) /\ row' # row
  <2>1. events'[t] = events[t]
    BY <1>5, EventsTold
  <2> QED BY <1>1, <1>5, <2>1 DEF IsTerminal
<1> QED BY <1>3, <1>4, <1>5

\* So does the arrival of a request: a fresh transfer has no timeline yet.
LEMMA ArriveTells ==
  ASSUME IndInv, TimelineMatchesRow, NEW h \in Handlers, Arrive(h)
  PROVE  TimelineMatchesRow'
<1> SUFFICES ASSUME NEW t \in Transfers
             PROVE  events'[t] \subseteq {row'[t].state} \cup EarlyOutcomes
  BY DEF TimelineMatchesRow, EarlyOutcomes
<1>1. events[t] \subseteq {row[t].state} \cup EarlyOutcomes /\ events[t] \subseteq TerminalStates
  BY DEF TimelineMatchesRow, EarlyOutcomes, IndInv, TypeOK
<1>2. events' = events
  BY DEF Arrive, CreateInsert, CancelLoad, ProgressLoad
<1>3. row'[t] = row[t] \/ row[t].state = "absent"
  <2>1. ASSUME NEW u \in Transfers, NEW rq \in Requests, CreateInsert(h, u, rq)
        PROVE  row'[t] = row[t] \/ row[t].state = "absent"
    BY <2>1 DEF CreateInsert, Written, IndInv, TypeOK
  <2> QED BY <2>1 DEF Arrive, CancelLoad, ProgressLoad
<1> QED BY <1>1, <1>2, <1>3 DEF TerminalStates

\* What is known of outcomes, in every step of a system whose requests for the same
\* transfer do not overlap.
LEMMA NextKnown ==
  IndInv /\ Serialised /\ OutcomeKnown /\ TimelineMatchesRow /\ [Next]_vars
    => OutcomeKnown' /\ TimelineMatchesRow'
<1> SUFFICES ASSUME IndInv, Serialised, OutcomeKnown, TimelineMatchesRow, [Next]_vars
             PROVE  OutcomeKnown' /\ TimelineMatchesRow'
  OBVIOUS
<1>1. ASSUME NEW h \in Handlers, Step(h) PROVE OutcomeKnown' /\ TimelineMatchesRow'
  BY <1>1, StepKnown, StepTells
<1>2. ASSUME NEW h \in Handlers, Arrive(h) PROVE OutcomeKnown' /\ TimelineMatchesRow'
  BY <1>2, ArriveKnown, ArriveTells
<1>3. CASE Crash
  <2>1. row' = row /\ events' = events /\ \A g \in Handlers : pc'[g] = "idle"
    BY <1>3 DEF Crash
  <2>2. OutcomeKnown'
    BY <2>1, NothingToTell DEF OutcomeKnown
  <2> QED BY <2>1, <2>2 DEF TimelineMatchesRow
<1>4. CASE UNCHANGED vars
  BY <1>4 DEF vars, OutcomeKnown, TimelineMatchesRow, AfterReport
<1> QED BY <1>1, <1>2, <1>3, <1>4 DEF Next

\* In the empty system nothing is to be known.
LEMMA InitKnown == Init => OutcomeKnown /\ TimelineMatchesRow
<1> SUFFICES ASSUME Init PROVE OutcomeKnown /\ TimelineMatchesRow
  OBVIOUS
<1>1. OutcomeKnown
  BY NothingToTell DEF Init, OutcomeKnown
<1> QED BY <1>1 DEF Init, TimelineMatchesRow

\* What a handler knows of its row's outcome holds as long as requests for the same
\* transfer do not overlap.
THEOREM SerialOutcomes == Spec /\ []Serialised => [](OutcomeKnown /\ TimelineMatchesRow)
BY InitKnown, NextKnown, Invariance, PTL DEF Spec

\* orchestrator.go:133-258, 279-289, 380-466: whatever the faults and the crashes, and
\* however many transfers are served at once, the timeline tells of no outcome that
\* the row does not have, if the requests for one transfer do not overlap.
THEOREM TimelineTrueWhenSerial == Spec /\ []Serialised => []TimelineMatchesRow
BY SerialOutcomes, PTL

-----------------------------------------------------------------------------
(* The engine implements TransferLifecycle.                                 *)

\* The state column, as the lifecycle sees it, and the move of one transfer in it.
StateColumn == [t \in Transfers |-> row[t].state]

OneMove(t) ==
  /\ \A u \in Transfers \ {t} : row'[u].state = row[u].state
  /\ \/ row'[t].state = row[t].state
     \/ row[t].state = "absent" /\ row'[t].state = "pending"
     \/ row'[t].state \in validTransferTransitions(row[t].state)

\* A step of a handler that has its transfer to itself moves that transfer along
\* the table, or moves nothing.
LEMMA StepMovesOne ==
  ASSUME IndInv, OutcomeKnown, NEW h \in Handlers, Step(h)
  PROVE  \E t \in Transfers : OneMove(t)
<1>1. StepEffect(h)
  BY CreateStepEffect, OtherStepEffect DEF Step
<1>2. tid[h] \in Transfers
  BY <1>1, OwnRow DEF StepEffect
<1>3. \A u \in Transfers \ {tid[h]} : row'[u].state = row[u].state
  BY <1>1 DEF StepEffect
<1>4. LegalMove(row[tid[h]].state, row'[tid[h]].state)
  BY <1>2, CreateStepLegal, OtherStepLegal DEF Step
<1>5. row'[tid[h]].state = row[tid[h]].state \/ ~IsTerminal(row[tid[h]].state)
  BY <1>1, WriterSeesOpen DEF StepEffect
<1>6. OneMove(tid[h])
  BY <1>3, <1>4, <1>5 DEF OneMove, LegalMove, CanTransition
<1> QED BY <1>2, <1>6

\* A request that arrives moves nothing, or submits one transfer.
LEMMA ArriveMovesOne ==
  ASSUME IndInv, NEW h \in Handlers, Arrive(h)
  PROVE  \E t \in Transfers : OneMove(t)
<1>1. ASSUME NEW t \in Transfers, NEW rq \in Requests, CreateInsert(h, t, rq)
      PROVE  OneMove(t)
  <2>1. \A n : InsertTransfer(n).state = "pending"
    BY DEF InsertTransfer, AbsentRow
  <2>2. row[t].state = "absent" /\ \E n, out : row' = Written(t, InsertTransfer(n), out)
    BY <1>1 DEF CreateInsert
  <2> QED BY <2>1, <2>2 DEF Written, OneMove, IndInv, TypeOK
<1>2. ASSUME row' = row PROVE \A t \in Transfers : OneMove(t)
  BY <1>2 DEF OneMove
<1> QED BY <1>1, <1>2 DEF Arrive, CancelLoad, ProgressLoad

\* Such a move is a step of the lifecycle, or none.
LEMMA MoveIsLifecycleStep ==
  ASSUME NEW t \in Transfers, OneMove(t)
  PROVE  [Lifecycle!Next]_StateColumn
<1>1. StateColumn' \in [Transfers -> {row'[u].state : u \in Transfers}]
  BY DEF StateColumn
<1>2. CASE row'[t].state = row[t].state
  BY <1>2 DEF OneMove, StateColumn
<1>3. CASE row[t].state = "absent" /\ row'[t].state = "pending"
  <2>1. StateColumn' = [StateColumn EXCEPT ![t] = "pending"]
    BY <1>3 DEF OneMove, StateColumn
  <2>2. Lifecycle!Submit(t)
    BY <1>3, <2>1 DEF Lifecycle!Submit, StateColumn
  <2> QED BY <2>2 DEF Lifecycle!Next
<1>4. CASE row'[t].state \in validTransferTransitions(row[t].state)
  <2>1. StateColumn' = [StateColumn EXCEPT ![t] = row'[t].state]
    BY DEF OneMove, StateColumn
  <2>2. row'[t].state \in Lifecycle!validTransferTransitions(StateColumn[t])
    BY <1>4 DEF StateColumn, validTransferTransitions, Lifecycle!validTransferTransitions
  <2>3. Lifecycle!Move(t)
    BY <2>1, <2>2 DEF Lifecycle!Move, StateColumn
  <2> QED BY <2>3 DEF Lifecycle!Next
<1> QED BY <1>2, <1>3, <1>4 DEF OneMove

\* Every step of the engine is a step of the lifecycle, or none, while requests for
\* the same transfer do not overlap.
LEMMA NextRefines == IndInv /\ OutcomeKnown /\ [Next]_vars => [Lifecycle!Next]_StateColumn
<1> SUFFICES ASSUME IndInv, OutcomeKnown, [Next]_vars
             PROVE  [Lifecycle!Next]_StateColumn
  OBVIOUS
<1>1. CASE Crash \/ UNCHANGED vars
  BY <1>1 DEF Crash, vars, StateColumn
<1>2. CASE \E h \in Handlers : Arrive(h) \/ Step(h)
  BY <1>2, StepMovesOne, ArriveMovesOne, MoveIsLifecycleStep
<1> QED BY <1>1, <1>2 DEF Next

\* domain/transfer.go:22-66 and orchestrator.go:113-497: if the requests for one
\* transfer do not overlap, the state column only makes the moves of the transition
\* table, one transfer at a time, and a terminal state is final; for any number of
\* transfers and handlers, and through faults and crashes.
THEOREM SerialEngineRefines == Spec /\ []Serialised => LifecycleSpec
<1>1. Init => Lifecycle!Init
  BY DEF Init, Lifecycle!Init, AbsentRow
<1>2. LifecycleSpec <=> Lifecycle!Init /\ [][Lifecycle!Next]_StateColumn
  BY DEF LifecycleSpec, Lifecycle!Spec, StateColumn
<1> QED BY <1>1, <1>2, NextRefines, SerialOutcomes, Invariance, PTL DEF Spec

\* The control plane of the run orchestrator_sequential, which serves one request at
\* a time: its requests do not overlap.
THEOREM OneHandlerSuffices ==
  ASSUME \A g, h \in Handlers : g = h
  PROVE  Spec => []TimelineMatchesRow /\ LifecycleSpec
<1>1. Serialised
  BY DEF Serialised
<1> QED BY <1>1, TimelineTrueWhenSerial, SerialEngineRefines, PTL

-----------------------------------------------------------------------------
(* The retry budget.                                                        *)

\* The pcs of a handler that may hold a grant it has not counted.
RetryPCs == {"updateProgress", "incrementRetry"}

\* Nobody is granted a retry in this step.
NoNewGrant ==
  \A g \in Handlers :
    pc'[g] \in RetryPCs => /\ pc[g] \in RetryPCs
                           /\ tid'[g] = tid[g]
                           /\ copy'[g] = copy[g]

\* No counter changes in this step.
SameCounts ==
  \A t \in Transfers : /\ row'[t].retryCount = row[t].retryCount
                       /\ row'[t].retryMax = row[t].retryMax

\* GrantsBounded for one transfer.
BoundedAt(t) ==
  \/ row[t].retryCount < row[t].retryMax
  \/ row[t].retryCount + Cardinality(Granted(t))
       < row[t].retryMax + Cardinality(Handlers)

\* The grants of a transfer are finitely many.
LEMMA GrantedFinite ==
  ASSUME NEW t
  PROVE  /\ IsFiniteSet(Granted(t)) /\ Cardinality(Granted(t)) \in Nat
         /\ Cardinality(Granted(t)) <= Cardinality(Handlers)
         /\ Cardinality(Handlers) \in Nat
         /\ Cardinality(Handlers) > 0
<1>1. Granted(t) \subseteq Handlers
  BY DEF Granted
<1>2. Cardinality(Handlers) \in Nat /\ Cardinality(Handlers) # 0
  BY HandlersAssumption, FS_CardinalityType, FS_EmptySet
<1>3. IsFiniteSet(Granted(t)) /\ Cardinality(Granted(t)) <= Cardinality(Handlers)
  BY <1>1, HandlersAssumption, FS_Subset
<1> QED BY <1>2, <1>3, FS_CardinalityType

\* The same for the grants of the next state.
LEMMA GrantedFiniteNext ==
  ASSUME NEW t
  PROVE  /\ IsFiniteSet(Granted(t)') /\ Cardinality(Granted(t)') \in Nat
         /\ Cardinality(Granted(t)') <= Cardinality(Handlers)
<1>1. Granted(t)' \subseteq Handlers
  BY DEF Granted
<1>2. IsFiniteSet(Granted(t)') /\ Cardinality(Granted(t)') <= Cardinality(Handlers)
  BY <1>1, HandlersAssumption, FS_Subset
<1> QED BY <1>2, FS_CardinalityType

\* Fewer grants and the same counters: the bound stays.
LEMMA FewerGrants ==
  ASSUME IndInv, NEW t \in Transfers, BoundedAt(t), Granted(t)' \subseteq Granted(t),
         row'[t].retryCount = row[t].retryCount, row'[t].retryMax = row[t].retryMax
  PROVE  BoundedAt(t)'
<1>1. Cardinality(Granted(t)') <= Cardinality(Granted(t))
  BY GrantedFinite, FS_Subset
<1>2. row[t].retryCount \in Nat /\ row[t].retryMax \in Nat
  BY DEF IndInv, TypeOK, Rows
<1> QED BY <1>1, <1>2, GrantedFinite, GrantedFiniteNext DEF BoundedAt

\* Without a new grant there are no more grants than before.
LEMMA QuietStep ==
  ASSUME IndInv, GrantsBounded, NoNewGrant, SameCounts
  PROVE  GrantsBounded'
<1> SUFFICES ASSUME NEW t \in Transfers PROVE BoundedAt(t)'
  BY DEF GrantsBounded, BoundedAt
<1>1. Granted(t)' \subseteq Granted(t)
  BY DEF Granted, NoNewGrant, RetryPCs
<1> QED BY <1>1, FewerGrants DEF GrantsBounded, BoundedAt, SameCounts

\* A handler that goes on to anything but a retry gets no grant.
LEMMA AdvanceGrantsNothing ==
  ASSUME IndInv, NEW h \in Handlers, NEW p, Advance(h, p),
         p \notin RetryPCs \/ pc[h] \in RetryPCs
  PROVE  NoNewGrant
<1>1. CASE p = "idle"
  BY <1>1 DEF Advance, Return, NoNewGrant, RetryPCs, IndInv, TypeOK
<1>2. CASE p # "idle"
  BY <1>2 DEF Advance, Goto, local, NoNewGrant, RetryPCs, IndInv, TypeOK
<1> QED BY <1>1, <1>2

\* A statement that leaves the counters of its row alone leaves all of them alone.
LEMMA WriteCounts ==
  ASSUME IndInv, NEW h \in Handlers, pc[h] # "idle", NEW r, NEW out,
         row' = Written(tid[h], r, out),
         r.retryCount = row[tid[h]].retryCount, r.retryMax = row[tid[h]].retryMax
  PROVE  SameCounts
BY OwnRow DEF Written, SameCounts, IndInv, TypeOK

\* The rows UPDATEs write keep the counters.
LEMMA RowCounts ==
  ASSUME NEW r \in Rows
  PROVE  /\ \A s : /\ UpdateTransferState(r, s).retryCount = r.retryCount
                   /\ UpdateTransferState(r, s).retryMax = r.retryMax
         /\ \A s : /\ UpdateTransferStrategy(r, s).retryCount = r.retryCount
                   /\ UpdateTransferStrategy(r, s).retryMax = r.retryMax
         /\ \A e : /\ UpdateTransferFailed(r, e).retryCount = r.retryCount
                   /\ UpdateTransferFailed(r, e).retryMax = r.retryMax
         /\ UpdateTransferStarted(r).retryCount = r.retryCount
         /\ UpdateTransferStarted(r).retryMax = r.retryMax
         /\ UpdateTransferCompleted(r).retryCount = r.retryCount
         /\ UpdateTransferCompleted(r).retryMax = r.retryMax
BY DEF Rows, UpdateTransferState, UpdateTransferStrategy, UpdateTransferFailed,
       UpdateTransferStarted, UpdateTransferCompleted

\* A repository call with a handled error, outside the retry path.
LEMMA StatementQuiet ==
  ASSUME IndInv, NEW h \in Handlers, NEW from, from # "idle", NEW to, NEW r,
         to \notin RetryPCs \/ from \in RetryPCs, Statement(h, from, r, to),
         r.retryCount = row[tid[h]].retryCount, r.retryMax = row[tid[h]].retryMax
  PROVE  NoNewGrant /\ SameCounts
<1>1. PICK out \in DBOutcomes :
        /\ row' = Written(tid[h], r, out)
        /\ Advance(h, IF out = "ok" THEN to ELSE "idle")
  BY DEF Statement
<1>2. pc[h] = from
  BY DEF Statement
<1> QED BY <1>1, <1>2, AdvanceGrantsNothing, WriteCounts DEF RetryPCs

\* The same for a call whose error is dropped.
LEMMA IgnoredStatementQuiet ==
  ASSUME IndInv, NEW h \in Handlers, NEW from, from # "idle", NEW to, NEW r,
         to \notin RetryPCs, IgnoredStatement(h, from, r, to),
         r.retryCount = row[tid[h]].retryCount, r.retryMax = row[tid[h]].retryMax
  PROVE  NoNewGrant /\ SameCounts
<1>1. PICK out \in DBOutcomes : row' = Written(tid[h], r, out)
  BY DEF IgnoredStatement
<1>2. pc[h] = from /\ Advance(h, to)
  BY DEF IgnoredStatement
<1> QED BY <1>1, <1>2, AdvanceGrantsNothing, WriteCounts

\* A call that leaves the table alone.
LEMMA CallQuiet ==
  ASSUME IndInv, NEW h \in Handlers, NEW p, p \notin RetryPCs, row' = row,
         Advance(h, p)
  PROVE  NoNewGrant /\ SameCounts
BY AdvanceGrantsNothing DEF SameCounts

\* Every step of a handler but IncrementRetry grants and counts nothing.
LEMMA StepQuiet ==
  ASSUME IndInv, NEW h \in Handlers, Step(h), ~IncrementRetry(h)
  PROVE  NoNewGrant /\ SameCounts
<1>0. ASSUME pc[h] # "idle" PROVE row[tid[h]] \in Rows
  BY <1>0, OwnRow
<1>1. CASE CreateStep(h)
  <2>1. CASE SetValidating(h) \/ SetStrategy(h) \/ SetTransferring(h) \/ SetStarted(h)
    <3>1. row[tid[h]] \in Rows
      BY <1>0, <2>1 DEF SetValidating, SetStrategy, SetTransferring, SetStarted, Statement
    <3> QED BY <2>1, <3>1, RowCounts, StatementQuiet
            DEF SetValidating, SetStrategy, SetTransferring, SetStarted, RetryPCs
  <2>2. CASE FailValidation(h) \/ FailStrategy(h) \/ FailCommand(h)
    <3>1. row[tid[h]] \in Rows
      BY <1>0, <2>2 DEF FailValidation, FailStrategy, FailCommand, IgnoredStatement
    <3> QED BY <2>2, <3>1, RowCounts, IgnoredStatementQuiet
            DEF FailValidation, FailStrategy, FailCommand, RetryPCs
  <2>3. CASE CommandSource(h) \/ CommandDest(h) \/ CreateFailedEvent(h)
    <3>1. /\ row' = row
          /\ \E p : p \notin RetryPCs /\ Advance(h, p)
      BY <2>3 DEF CommandSource, CommandDest, CreateFailedEvent, SendTransferCommand,
                  Event, RetryPCs
    <3> QED BY <3>1, CallQuiet
  <2>4. CASE Validate(h)
    BY <2>4 DEF Validate, Goto, local, NoNewGrant, SameCounts, RetryPCs, IndInv, TypeOK
  <2> QED BY <1>1, <2>1, <2>2, <2>3, <2>4 DEF CreateStep
<1>2. CASE CancelStep(h)
  <2>1. CASE SetCancelled(h) \/ StampCancelled(h)
    <3>1. row[tid[h]] \in Rows
      BY <1>0, <2>1 DEF SetCancelled, StampCancelled, Statement
    <3> QED BY <2>1, <3>1, RowCounts, StatementQuiet
            DEF SetCancelled, StampCancelled, RetryPCs
  <2>2. CASE CancelledEvent(h) \/ CloseCancelled(h) \/ CancelSource(h) \/ CancelDest(h)
    <3>1. /\ row' = row
          /\ \E p : p \notin RetryPCs /\ Advance(h, p)
      BY <2>2 DEF CancelledEvent, CloseCancelled, CancelSource, CancelDest, Event,
                  CloseStream, SendCancelCommand, Advance, RetryPCs
    <3> QED BY <3>1, CallQuiet
  <2> QED BY <1>2, <2>1, <2>2 DEF CancelStep
<1>3. CASE ProgressStep(h)
  <2>1. CASE SetCompleted(h) \/ StampCompleted(h) \/ SetFailed(h)
    <3>1. row[tid[h]] \in Rows
      BY <1>0, <2>1 DEF SetCompleted, StampCompleted, SetFailed, Statement
    <3> QED BY <2>1, <3>1, RowCounts, StatementQuiet
            DEF SetCompleted, StampCompleted, SetFailed, RetryPCs
  <2>2. CASE UpdateProgress(h)
    BY <2>2, StatementQuiet DEF UpdateProgress, RetryPCs
  <2>3. CASE CompletedEvent(h) \/ CloseCompleted(h) \/ FailedEvent(h) \/ CloseFailed(h)
    <3>1. /\ row' = row
          /\ \E p : p \notin RetryPCs /\ Advance(h, p)
      BY <2>3 DEF CompletedEvent, CloseCompleted, FailedEvent, CloseFailed, Event,
                  CloseStream, Advance, RetryPCs
    <3> QED BY <3>1, CallQuiet
  <2> QED BY <1>3, <2>1, <2>2, <2>3 DEF ProgressStep
<1>4. CASE CleanupStep(h)
  <2>1. /\ row' = row
        /\ \E p : p \notin RetryPCs /\ Advance(h, p)
    BY <1>4 DEF CleanupStep, CleanSource, CleanDest, Cleanup, RetryPCs
  <2> QED BY <2>1, CallQuiet
<1> QED BY <1>1, <1>2, <1>3, <1>4 DEF Step

\* Counting a retry spends the grant of the handler that counts it.
LEMMA IncrementRetrySpends ==
  ASSUME IndInv, GrantsBounded, NEW h \in Handlers, IncrementRetry(h)
  PROVE  GrantsBounded'
<1>1. pc[h] = "incrementRetry"
  BY DEF IncrementRetry, Statement
<1>2. PICK u \in Transfers : u = tid[h] /\ row[u] \in Rows
  BY <1>1, OwnRow
<1>3. h \in Granted(u)
  BY <1>1, <1>2 DEF Granted, IndInv, ReporterPhase, ProgressPCs
<1>4. PICK out \in DBOutcomes : row' = Written(u, IncrementRetryCount(row[u]), out)
  BY <1>2 DEF IncrementRetry, Statement
<1>5. Return(h)
  BY DEF IncrementRetry, Statement, Advance
<1>6. /\ \A t \in Transfers : Granted(t)' \subseteq Granted(t)
      /\ h \notin Granted(u)'
  BY <1>5 DEF Return, Granted, IndInv, TypeOK
<1>7. ASSUME NEW t \in Transfers, t # u PROVE BoundedAt(t)'
  <2>1. row'[t] = row[t]
    BY <1>2, <1>4, <1>7 DEF Written, IndInv, TypeOK
  <2> QED BY <2>1, <1>6, FewerGrants DEF GrantsBounded, BoundedAt
<1>8. BoundedAt(u)'
  <2>1. /\ row'[u].retryMax = row[u].retryMax
        /\ row'[u].retryCount \in {row[u].retryCount, row[u].retryCount + 1}
    BY <1>2, <1>4 DEF Written, IncrementRetryCount, Rows, IndInv, TypeOK
  <2>2. row[u].retryCount \in Nat /\ row[u].retryMax \in Nat
    BY <1>2 DEF Rows
  <2>3. Cardinality(Granted(u)') < Cardinality(Granted(u))
    <3>1. Granted(u)' \subseteq Granted(u) \ {h}
      BY <1>2, <1>6
    <3>2. /\ IsFiniteSet(Granted(u) \ {h})
          /\ Cardinality(Granted(u) \ {h}) = Cardinality(Granted(u)) - 1
      BY <1>3, GrantedFinite, FS_RemoveElement
    <3>3. Cardinality(Granted(u)') <= Cardinality(Granted(u) \ {h})
      BY <3>1, <3>2, FS_Subset
    <3> QED BY <3>2, <3>3, GrantedFinite, GrantedFiniteNext
  <2>4. BoundedAt(u)
    BY <1>2 DEF GrantsBounded, BoundedAt
  <2> QED BY <2>1, <2>2, <2>3, <2>4, GrantedFinite, GrantedFiniteNext DEF BoundedAt
<1> QED BY <1>7, <1>8 DEF GrantsBounded, BoundedAt

\* A report is granted a retry only while the budget lasts.
LEMMA ProgressLoadGrants ==
  ASSUME IndInv, GrantsBounded, NEW h \in Handlers, NEW u \in Transfers,
         NEW side \in Sides, NEW status \in Statuses, ProgressLoad(h, u, side, status)
  PROVE  GrantsBounded'
<1>1. /\ row' = row
      /\ pc' = [pc EXCEPT ![h] = "updateProgress"]
      /\ tid' = [tid EXCEPT ![h] = u]
      /\ copy' = [copy EXCEPT ![h] = Loaded(row[u])]
  BY DEF ProgressLoad
<1>2. row[u] \in Rows
  BY DEF IndInv, TypeOK
<1>3. Loaded(row[u]).retryCount = row[u].retryCount /\ Loaded(row[u]).retryMax = row[u].retryMax
  BY <1>2, LoadedType
<1> SUFFICES ASSUME NEW t \in Transfers, ~(row[t].retryCount < row[t].retryMax)
             PROVE  BoundedAt(t)'
  BY <1>1 DEF GrantsBounded, BoundedAt
<1>4. Granted(t)' \subseteq Granted(t)
  BY <1>1, <1>3 DEF Granted, IndInv, TypeOK
<1> QED BY <1>1, <1>4, FewerGrants DEF GrantsBounded, BoundedAt

\* A transfer that is inserted has no grants and has counted nothing.
LEMMA CreateInsertGrants ==
  ASSUME IndInv, GrantsBounded, NEW h \in Handlers, NEW u \in Transfers,
         NEW rq \in Requests, CreateInsert(h, u, rq)
  PROVE  GrantsBounded'
<1>1. PICK m, out : row' = Written(u, InsertTransfer(m), out)
  BY DEF CreateInsert
<1>2. NoNewGrant
  BY DEF CreateInsert, Return, NoNewGrant, RetryPCs, IndInv, TypeOK
<1>3. \A t \in Transfers : Granted(t)' \subseteq Granted(t)
  BY <1>2 DEF Granted, NoNewGrant, RetryPCs
<1>4. row[u].state = "absent"
  BY DEF CreateInsert
<1>5. Granted(u) = {}
  BY <1>4 DEF Granted, IndInv, HandlerHasRow
<1> SUFFICES ASSUME NEW t \in Transfers PROVE BoundedAt(t)'
  BY DEF GrantsBounded, BoundedAt
<1>6. CASE row'[t] = row[t]
  BY <1>3, <1>6, FewerGrants DEF GrantsBounded, BoundedAt
<1>7. CASE row'[t] # row[t]
  <2>1. t = u /\ row'[t] = InsertTransfer(m)
    BY <1>1, <1>7 DEF Written, IndInv, TypeOK
  <2>2. Granted(t)' = {}
    BY <1>3, <1>5, <2>1
  <2>3. row'[t].retryCount = 0
    BY <2>1 DEF InsertTransfer, AbsentRow
  <2>4. row'[t].retryMax \in Nat
    BY CreateInsertKeeps DEF IndInv, TypeOK, Rows
  <2>5. Cardinality(Granted(t)') = 0
    BY <2>2, FS_EmptySet
  <2> QED BY <2>3, <2>4, <2>5, GrantedFinite DEF BoundedAt
<1> QED BY <1>6, <1>7

\* The bound is inductive together with IndInv.
LEMMA NextBounded == IndInv /\ GrantsBounded /\ [Next]_vars => GrantsBounded'
<1> SUFFICES ASSUME IndInv, GrantsBounded, [Next]_vars PROVE GrantsBounded'
  OBVIOUS
<1>1. ASSUME NEW h \in Handlers, Step(h) PROVE GrantsBounded'
  BY <1>1, StepQuiet, QuietStep, IncrementRetrySpends
<1>2. ASSUME NEW h \in Handlers, NEW t \in Transfers, CancelLoad(h, t) PROVE GrantsBounded'
  <2>1. NoNewGrant /\ SameCounts
    BY <1>2 DEF CancelLoad, NoNewGrant, SameCounts, RetryPCs, IndInv, TypeOK
  <2> QED BY <2>1, QuietStep
<1>3. ASSUME NEW h \in Handlers, Arrive(h) PROVE GrantsBounded'
  BY <1>2, <1>3, CreateInsertGrants, ProgressLoadGrants DEF Arrive
<1>4. CASE Crash
  <2>1. NoNewGrant /\ SameCounts
    BY <1>4 DEF Crash, NoNewGrant, SameCounts, RetryPCs
  <2> QED BY <2>1, QuietStep
<1>5. CASE UNCHANGED vars
  <2>1. NoNewGrant /\ SameCounts
    BY <1>5 DEF vars, NoNewGrant, SameCounts
  <2> QED BY <2>1, QuietStep
<1> QED BY <1>1, <1>3, <1>4, <1>5 DEF Next

\* orchestrator.go:327-447: HandleProgress checks the budget on the row it loaded and
\* increments retry_count three calls later, so n handlers in flight together count
\* at most n - 1 retries too many, for every n.
THEOREM OvershootAlwaysBounded == Spec => []RetryOvershootBounded
<1>1. Init => GrantsBounded
  <2> SUFFICES ASSUME Init, NEW t \in Transfers PROVE BoundedAt(t)
    BY DEF GrantsBounded, BoundedAt
  <2>1. Granted(t) = {}
    BY DEF Init, Granted
  <2>2. Cardinality(Granted(t)) = 0
    BY <2>1, FS_EmptySet
  <2>3. row[t].retryCount = 0 /\ row[t].retryMax = 0
    BY DEF Init, AbsentRow
  <2> QED BY <2>2, <2>3, GrantedFinite DEF BoundedAt
<1>2. IndInv /\ GrantsBounded => RetryOvershootBounded
  <2> SUFFICES ASSUME IndInv, GrantsBounded, NEW t \in Transfers
               PROVE  row[t].retryCount < row[t].retryMax + Cardinality(Handlers)
    BY DEF RetryOvershootBounded
  <2>1. row[t].retryCount \in Nat /\ row[t].retryMax \in Nat
    BY DEF IndInv, TypeOK, Rows
  <2> QED BY <2>1, GrantedFinite DEF GrantsBounded
<1> QED BY <1>1, <1>2, Invariance, NextBounded, PTL DEF Spec
=============================================================================
