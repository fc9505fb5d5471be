---------------------- MODULE ExecutionLifecycleProofs ----------------------
(***************************************************************************)
(* Theorems about ExecutionLifecycle, for every number of executions,      *)
(* workers, steps, retries, requests and faults.                           *)
(***************************************************************************)
EXTENDS ExecutionLifecycle, FiniteSetTheorems, TLAPS

USE DEF Busy, ExecOf, Loses, Moves, Ends, Leaves

-----------------------------------------------------------------------------
(* Type correctness *)

\* The parts of the type invariant that hold record-valued functions.
LEMMA FaultType ==
    ASSUME TypeOK, Fault
    PROVE  bounds' \in [cancels : Nat, retries : Nat, faults : Nat]
<1>1. bounds.faults + 1 \in Nat
  BY DEF TypeOK
<1> QED
  BY <1>1 DEF TypeOK, Fault

LEMMA NewMessageType ==
    ASSUME TypeOK, NEW e \in Executions, NEW kind \in {"execute", "retry"}
    PROVE  NewMessage(e, kind) \in Messages /\ nextId + 1 \in Nat
BY ConstantsAssumption DEF TypeOK, NewMessage, Messages

LEMMA RepeatsType ==
    ASSUME TypeOK, NEW w \in Workers, Busy(w), Repeats(w)
    PROVE  queue' \subseteq Messages /\ copies' \in [Executions -> Nat]
<1>1. task[w] \in Messages
  BY DEF TypeOK
<1>2. copies[ExecOf(w)] + 1 \in Nat
  BY <1>1 DEF TypeOK, Messages
<1>3. [task[w] EXCEPT !.copy = copies[ExecOf(w)] + 1] \in Messages
  BY <1>1, <1>2 DEF Messages
<1> QED
  BY <1>2, <1>3 DEF Repeats, TypeOK

(* What a cancel keeps is its place and the status it read. *)
Cancels == [pc : {"idle", "revoke", "flag", "commit"}, id : Nat]

LEMMA CancelMoves ==
    ASSUME NEW t \in Cancels, NEW p \in {"idle", "revoke", "flag", "commit"}
    PROVE  [t EXCEPT !.pc = p] \in Cancels
BY DEF Cancels

LEMMA TypeStep == TypeOK /\ [Next]_vars => TypeOK'
<1> USE ConstantsAssumption
<1> SUFFICES ASSUME TypeOK, [Next]_vars PROVE TypeOK'
  OBVIOUS
<1> USE DEF TypeOK
<1>1. ASSUME NEW e \in Executions, RequestStep(e) PROVE TypeOK'
  <2>1. CASE TriggerCreate(e)
    <3> DEFINE T == [pc : {"idle", "created", "enqueued", "done", "failed"}, id : Nat]
    <3>1. ASSUME NEW t \in T PROVE [t EXCEPT !.pc = "created"] \in T
      OBVIOUS
    <3>2. trigger \in [Executions -> T]
      BY DEF TypeOK
    <3>3. trigger' \in [Executions -> T]
      <4> HIDE DEF T
      <4> QED
        BY <2>1, <3>1, <3>2 DEF TriggerCreate
    <3> QED
      BY <2>1, <3>3 DEF TriggerCreate, Statuses, worker, broker, history
  <2>2. CASE TriggerEnqueue(e)
    BY <2>2, NewMessageType DEF TriggerEnqueue, db, worker, history
  <2>3. CASE TriggerConfirm(e)
    BY <2>3 DEF TriggerConfirm, Statuses, worker, broker, history
  <2>4. CASE TriggerFail(e)
    BY <2>4, FaultType DEF TriggerFail, db, worker, broker, history
  <2>5. CASE CancelRead(e)
    <3>1. [pc |-> "revoke", id |-> taskId[e]] \in Cancels
      BY DEF Cancels
    <3>2. cancel \in [Executions -> Cancels]
      BY DEF Cancels
    <3>3. cancel' \in [Executions -> Cancels]
      BY <2>5, <3>1, <3>2 DEF CancelRead
    <3>4. bounds' \in [cancels : Nat, retries : Nat, faults : Nat]
      <4>1. bounds.cancels + 1 \in Nat
        OBVIOUS
      <4>2. bounds' = [bounds EXCEPT !.cancels = bounds.cancels + 1]
        BY <2>5 DEF CancelRead
      <4> QED
        BY <4>1, <4>2
    <3> QED
      BY <2>5, <3>3, <3>4 DEF CancelRead, Cancels, db, worker, broker, history
  <2>6. CASE CancelRevoke(e)
    BY <2>6 DEF CancelRevoke, db, worker, history
  <2>7. CASE CancelFlag(e)
    <3>1. cancel \in [Executions -> Cancels]
      BY DEF Cancels
    <3>2. [cancel[e] EXCEPT !.pc = "commit"] \in Cancels
      BY <3>1, CancelMoves
    <3>3. cancel' \in [Executions -> Cancels]
      BY <2>7, <3>1, <3>2 DEF CancelFlag
    <3> QED
      BY <2>7, <3>3 DEF CancelFlag, Cancels, db, worker, broker, history
  <2>8. CASE CancelCommit(e)
    BY <2>8 DEF CancelCommit, Statuses, Terminal, worker, broker, history
  <2>9. CASE CancelFail(e)
    BY <2>9, FaultType DEF CancelFail, db, worker, broker, history
  <2>10. CASE FlagExpires(e)
    BY <2>10 DEF FlagExpires, db, api, worker, broker, history
  <2>11. CASE RetryRequest(e)
    BY <2>11, NewMessageType DEF RetryRequest, db, api, worker, history
  <2>12. CASE Age(e)
    BY <2>12 DEF Age, api, worker, broker, history
  <2> QED
    BY <1>1, <2>1, <2>2, <2>3, <2>4, <2>5, <2>6, <2>7, <2>8, <2>9, <2>10, <2>11,
       <2>12 DEF RequestStep
<1>2. ASSUME NEW w \in Workers, WorkerStep(w) PROVE TypeOK'
  <2>1. CASE Receive(w)
    BY <2>1 DEF Receive, Messages, PCs, InGraph, db, api, history
  <2>2. CASE Discard(w)
    BY <2>2 DEF Discard, Messages, db, api, worker
  <2>3. CASE Load(w)
    BY <2>3 DEF Load, FreshRun, Runs, Messages, PCs, InGraph, Statuses, api, broker, history
  <2>4. CASE LoadFails(w)
    BY <2>4 DEF LoadFails, PCs, db, api, broker, history
  <2>5. CASE GraphSteps(w)
    <3>1. ASSUME NEW r \in Runs, NEW to \in InGraph, pc[w] # "idle", GraphStep(w, r, to)
          PROVE TypeOK'
      BY <3>1 DEF GraphStep, PCs, db, api, broker, history
    <3>2. \A r : \A b \in BOOLEAN : AfterAgent(r, b) \in InGraph
      BY DEF AfterAgent, InGraph
    <3>3. /\ run[w] \in Runs
          /\ [run[w] EXCEPT !.cancelled = TRUE, !.error = TRUE] \in Runs
          /\ [run[w] EXCEPT !.steps = @ + 1] \in Runs
          /\ [run[w] EXCEPT !.error = TRUE] \in Runs
          /\ [run[w] EXCEPT !.cancelled = TRUE] \in Runs
          /\ \A failed \in BOOLEAN : [run[w] EXCEPT !.error = @ \/ failed] \in Runs
      <4> DEFINE r == run[w]
      <4>1. r \in Runs
        OBVIOUS
      <4>2. /\ r.steps + 1 \in Nat
            /\ \A failed \in BOOLEAN : (r.error \/ failed) \in BOOLEAN
        BY <4>1 DEF Runs
      <4> HIDE DEF r
      <4>3. /\ [r EXCEPT !.cancelled = TRUE, !.error = TRUE] \in Runs
            /\ [r EXCEPT !.error = TRUE] \in Runs
            /\ [r EXCEPT !.cancelled = TRUE] \in Runs
        BY <4>1 DEF Runs
      <4>4. [r EXCEPT !.steps = @ + 1] \in Runs
        BY <4>1, <4>2 DEF Runs
      <4>5. \A failed \in BOOLEAN : [r EXCEPT !.error = @ \/ failed] \in Runs
        BY <4>1, <4>2 DEF Runs
      <4> QED
        BY <4>1, <4>3, <4>4, <4>5 DEF r
    <3>4. CASE AgentChecks(w) \/ ToolChecks(w)
      BY <3>1, <3>3, <3>4 DEF AgentChecks, ToolChecks, InGraph
    <3>5. CASE AgentCancelled(w)
      BY <3>1, <3>2, <3>3, <3>5 DEF AgentCancelled
    <3>6. CASE LLMAnswers(w)
      BY <3>1, <3>2, <3>3, <3>6 DEF LLMAnswers
    <3>7. CASE LLMFails(w)
      BY <3>1, <3>2, <3>3, <3>7 DEF LLMFails
    <3>8. CASE ToolCancelled(w) \/ ToolReturns(w)
      BY <3>1, <3>3, <3>8 DEF ToolCancelled, ToolReturns, InGraph
    <3> QED
      BY <2>5, <3>4, <3>5, <3>6, <3>7, <3>8 DEF GraphSteps
  <2>6. CASE Finish(w)
    BY <2>6 DEF Finish, Announced, Terminal, Messages, PCs, InGraph, db, api, broker
  <2>7. CASE Store(w)
    BY <2>7 DEF Store, Outcome, Statuses, Terminal, Messages, PCs, FreshRun, Runs, api,
       broker, history
  <2>8. CASE Raises(w)
    BY <2>8 DEF Raises, PCs, InGraph, FreshRun, Runs, db, api, broker, history
  <2>9. CASE Retry(w)
    <3>1. [task[w] EXCEPT !.attempt = @ + 1] \in Messages
      <4>1. task[w] \in Messages /\ task[w].attempt < MaxRetries
        BY <2>9 DEF Retry
      <4>2. task[w].attempt + 1 \in 0..MaxRetries
        BY <4>1 DEF Messages
      <4> QED
        BY <4>1, <4>2 DEF Messages
    <3> QED
      BY <2>9, <3>1 DEF Retry, PCs, db, api, history
  <2>10. CASE GiveUp(w)
    BY <2>10 DEF GiveUp, PCs, db, api, broker, history
  <2>11. CASE MarkFailed(w)
    BY <2>11 DEF MarkFailed, Statuses, Terminal, Messages, PCs, api, broker, history
  <2>12. CASE MarkFailedFails(w)
    BY <2>12 DEF MarkFailedFails, Messages, PCs, db, api, broker
  <2>13. CASE Ack(w)
    BY <2>13 DEF Ack, FreshRun, Runs, PCs, db, api, broker, history
  <2>14. CASE RetryRead(w)
    <3>1. [run[w] EXCEPT !.seen = retries[ExecOf(w)]] \in Runs
      <4>1. run[w] \in Runs /\ retries[ExecOf(w)] \in Nat
        BY <2>14 DEF RetryRead, Messages
      <4>2. ASSUME NEW r \in Runs, NEW n \in Nat PROVE [r EXCEPT !.seen = n] \in Runs
        BY DEF Runs
      <4> QED
        BY <4>1, <4>2
    <3> QED
      BY <2>14, <3>1 DEF RetryRead, PCs, db, api, broker, history
  <2>15. CASE RetryRow(w)
    BY <2>15 DEF RetryRow, FreshRun, Runs, Messages, Statuses, PCs, api, broker, history
  <2>16. CASE RetryEnqueue(w)
    BY <2>16 DEF RetryEnqueue, NewMessage, Messages, PCs, db, api, history
  <2>17. CASE RetryTaskFails(w)
    BY <2>17 DEF RetryTaskFails, FreshRun, Runs, Messages, PCs, db, api, broker
  <2> QED
    BY <1>2, <2>1, <2>2, <2>3, <2>4, <2>5, <2>6, <2>7, <2>8, <2>9, <2>10, <2>11,
       <2>12, <2>13, <2>14, <2>15, <2>16, <2>17 DEF WorkerStep
<1>3. ASSUME NEW w \in Workers, WorkerCrash(w) PROVE TypeOK'
  BY <1>3, FaultType, RepeatsType DEF WorkerCrash, FreshRun, Runs, PCs, db, api
<1>4. ASSUME NEW w \in Workers, ChildLost(w) PROVE TypeOK'
  BY <1>4, FaultType DEF ChildLost, Messages, FreshRun, Runs, PCs, db, api, broker
<1>5. ASSUME NEW w \in Workers, Redeliver(w) PROVE TypeOK'
  BY <1>5, FaultType, RepeatsType DEF Redeliver, db, api, worker
<1>6. ASSUME NEW t \in revoking, RevokeDelivered(t) PROVE TypeOK'
  BY <1>6 DEF RevokeDelivered, FreshRun, Runs, PCs, db, api
<1>7. ASSUME NEW t \in revoking, RevokeLost(t) PROVE TypeOK'
  BY <1>7, FaultType DEF RevokeLost, db, api, worker, history
<1>8. CASE CleanupExpired
  BY <1>8 DEF CleanupExpired, Statuses, Terminal, api, worker, broker, history
<1>9. CASE UNCHANGED vars
  BY <1>9 DEF vars, db, api, worker, broker, history
<1> QED
  BY <1>1, <1>2, <1>3, <1>4, <1>5, <1>6, <1>7, <1>8, <1>9 DEF Next

\* The values of every variable stay in their types: attempts never exceed
\* max_retries, and a worker that is not idle holds a real message.
THEOREM TypeCorrect == Spec => []TypeOK
<1> USE ConstantsAssumption
<1>1. Init => TypeOK
  BY DEF Init, TypeOK, Statuses, Terminal, Messages, NoTask, Runs, FreshRun, PCs, InGraph
<1> QED
  BY <1>1, TypeStep, PTL DEF Spec

-----------------------------------------------------------------------------
(* The agent loop of a run *)

InLoop == {"agent", "llm", "tool", "effect"}
LoopRun(r) == [steps |-> r.steps, error |-> r.error, cancelled |-> r.cancelled]

\* What a step can do to one worker: leave its position and run alone, take it
\* out of the loop, start a run, or be one step of the graph.
LEMMA LoopSteps ==
    ASSUME TypeOK, [Next]_vars, NEW w \in Workers
    PROVE  \/ pc'[w] = pc[w] /\ LoopRun(run'[w]) = LoopRun(run[w])
           \/ pc'[w] \notin InLoop /\ LoopRun(run'[w]) \in {LoopRun(run[w]), LoopRun(FreshRun)}
           \/ pc'[w] = "agent" /\ LoopRun(run'[w]) = LoopRun(FreshRun)
           \/ GraphSteps(w)
<1> USE DEF InLoop
<1> DEFINE Goal == \/ pc'[w] = pc[w] /\ LoopRun(run'[w]) = LoopRun(run[w])
                   \/ pc'[w] \notin InLoop
                        /\ LoopRun(run'[w]) \in {LoopRun(run[w]), LoopRun(FreshRun)}
                   \/ pc'[w] = "agent" /\ LoopRun(run'[w]) = LoopRun(FreshRun)
                   \/ GraphSteps(w)
<1>1. ASSUME UNCHANGED worker PROVE Goal
  BY <1>1 DEF worker
<1>2. ASSUME NEW e \in Executions, RequestStep(e) PROVE UNCHANGED worker
  BY <1>2 DEF RequestStep, TriggerCreate, TriggerEnqueue, TriggerConfirm, TriggerFail,
     CancelRead, CancelRevoke, CancelFlag, CancelCommit, CancelFail, FlagExpires,
     RetryRequest, Age
<1>3. ASSUME NEW v \in Workers, WorkerStep(v), v # w PROVE Goal
  <2>1. pc'[w] = pc[w] /\ run'[w] = run[w]
    BY <1>3 DEF WorkerStep, Receive, Discard, Load, LoadFails, GraphSteps, GraphStep,
       AgentChecks, AgentCancelled, LLMAnswers, LLMFails, ToolChecks, ToolCancelled,
       ToolReturns, Finish, Store, Raises, Retry, GiveUp, MarkFailed, MarkFailedFails,
       Ack, RetryRead, RetryRow, RetryEnqueue, RetryTaskFails, TypeOK, worker
  <2> QED
    BY <2>1
<1>4. ASSUME WorkerStep(w), ~GraphSteps(w) PROVE Goal
  <2>1. CASE Receive(w) \/ Discard(w)
    BY <2>1 DEF Receive, Discard, TypeOK, worker
  <2>2. CASE Load(w)
    BY <2>2 DEF Load, TypeOK
  <2>3. CASE LoadFails(w) \/ Finish(w) \/ Store(w) \/ Raises(w) \/ Retry(w) \/ GiveUp(w)
    BY <2>3 DEF LoadFails, Finish, Store, Raises, Retry, GiveUp, TypeOK
  <2>4. CASE MarkFailed(w) \/ MarkFailedFails(w) \/ Ack(w) \/ RetryRow(w)
                \/ RetryEnqueue(w) \/ RetryTaskFails(w)
    BY <2>4 DEF MarkFailed, MarkFailedFails, Ack, RetryRow, RetryEnqueue, RetryTaskFails,
       TypeOK
  <2>5. CASE RetryRead(w)
    <3>1. ASSUME NEW r \in Runs, NEW n PROVE LoopRun([r EXCEPT !.seen = n]) = LoopRun(r)
      BY DEF Runs, LoopRun
    <3> QED
      BY <2>5, <3>1 DEF RetryRead, TypeOK
  <2> QED
    BY <1>4, <2>1, <2>2, <2>3, <2>4, <2>5 DEF WorkerStep
<1>5. ASSUME NEW v \in Workers, WorkerCrash(v) \/ ChildLost(v) \/ Redeliver(v) PROVE Goal
  BY <1>5 DEF WorkerCrash, ChildLost, Redeliver, TypeOK, worker
<1>6. ASSUME NEW t \in revoking, RevokeDelivered(t) PROVE Goal
  BY <1>6 DEF RevokeDelivered
<1>7. ASSUME NEW t \in revoking, RevokeLost(t) PROVE UNCHANGED worker
  BY <1>7 DEF RevokeLost
<1>8. ASSUME CleanupExpired \/ UNCHANGED vars PROVE UNCHANGED worker
  BY <1>8 DEF CleanupExpired, vars
<1> HIDE DEF Goal
<1>9. Goal
  BY <1>1, <1>2, <1>3, <1>4, <1>5, <1>6, <1>7, <1>8 DEF Next, Goal
<1> QED
  BY <1>9 DEF Goal

\* A worker inside the loop has calls left, and only an unharmed run reaches a
\* tool node: with the bound on the calls this is inductive.
LoopInv ==
    \A w \in Workers :
        /\ run[w].steps <= MaxSteps
        /\ pc[w] \in InLoop => run[w].steps < MaxSteps
        /\ run[w].error \/ run[w].cancelled => pc[w] \notin {"tool", "effect"}

LEMMA LoopStep == TypeOK /\ LoopInv /\ [Next]_vars => LoopInv'
<1> SUFFICES ASSUME TypeOK, LoopInv, [Next]_vars, NEW w \in Workers
             PROVE  /\ run'[w].steps <= MaxSteps
                    /\ pc'[w] \in InLoop => run'[w].steps < MaxSteps
                    /\ run'[w].error \/ run'[w].cancelled => pc'[w] \notin {"tool", "effect"}
  BY DEF LoopInv
<1>1. TypeOK'
  BY TypeStep
<1>2. run[w] \in Runs /\ run'[w] \in Runs
  BY <1>1 DEF TypeOK
<1>3. ASSUME NEW r \in Runs, NEW s \in Runs, LoopRun(r) = LoopRun(s)
      PROVE  r.steps = s.steps /\ r.error = s.error /\ r.cancelled = s.cancelled
  BY <1>3 DEF LoopRun
<1>4. CASE ~GraphSteps(w)
  <2>1. /\ FreshRun \in Runs
        /\ FreshRun.steps = 0 /\ ~FreshRun.error /\ ~FreshRun.cancelled
        /\ 0 < MaxSteps /\ 0 <= MaxSteps
    BY ConstantsAssumption DEF FreshRun, Runs
  <2>2. CASE pc'[w] = pc[w] /\ LoopRun(run'[w]) = LoopRun(run[w])
    BY <1>2, <1>3, <2>2 DEF LoopInv
  <2>3. CASE /\ pc'[w] \notin InLoop
             /\ LoopRun(run'[w]) \in {LoopRun(run[w]), LoopRun(FreshRun)}
    <3>1. \/ run'[w].steps = run[w].steps
          \/ run'[w].steps = 0
      BY <1>2, <1>3, <2>1, <2>3
    <3> QED
      BY <2>1, <2>3, <3>1 DEF LoopInv, InLoop
  <2>4. CASE pc'[w] = "agent" /\ LoopRun(run'[w]) = LoopRun(FreshRun)
    BY <1>2, <1>3, <2>1, <2>4
  <2> QED
    BY <1>4, <2>2, <2>3, <2>4, LoopSteps
<1>5. CASE GraphSteps(w)
  <2>1. CASE AgentChecks(w) \/ ToolChecks(w)
    BY <2>1, <1>2 DEF AgentChecks, ToolChecks, GraphStep, TypeOK, LoopInv, InLoop, Runs
  <2>2. CASE AgentCancelled(w)
    BY <2>2, <1>2 DEF AgentCancelled, GraphStep, AfterAgent, ShouldContinue, TypeOK,
       LoopInv, InLoop, Runs
  <2>3. CASE LLMAnswers(w)
    BY <2>3, <1>2, ConstantsAssumption DEF LLMAnswers, GraphStep, AfterAgent,
       ShouldContinue, TypeOK, LoopInv, InLoop, Runs
  <2>4. CASE LLMFails(w)
    BY <2>4, <1>2 DEF LLMFails, GraphStep, AfterAgent, ShouldContinue, TypeOK, LoopInv,
       InLoop, Runs
  <2>5. CASE ToolCancelled(w)
    BY <2>5, <1>2 DEF ToolCancelled, GraphStep, TypeOK, LoopInv, InLoop, Runs
  <2>6. CASE ToolReturns(w)
    BY <2>6, <1>2 DEF ToolReturns, GraphStep, TypeOK, LoopInv, InLoop, Runs
  <2> QED
    BY <1>5, <2>1, <2>2, <2>3, <2>4, <2>5, <2>6 DEF GraphSteps
<1> QED
  BY <1>4, <1>5

LEMMA LoopInvariant == Spec => []LoopInv
<1>1. Init => LoopInv
  BY ConstantsAssumption DEF Init, LoopInv, InLoop, FreshRun
<1> QED
  BY <1>1, LoopStep, TypeCorrect, PTL DEF Spec

\* A run that failed or saw the cancel flag enters no further tool node.
THEOREM NoToolAfterStop == Spec => []StoppedRunsNoTool
<1>1. LoopInv => StoppedRunsNoTool
  BY DEF LoopInv, StoppedRunsNoTool
<1> QED
  BY <1>1, LoopInvariant, PTL

\* No run calls the model more often than max_execution_steps.
THEOREM CallsBounded == Spec => []StepsBounded
<1>1. LoopInv => StepsBounded
  BY DEF LoopInv, StepsBounded
<1> QED
  BY <1>1, LoopInvariant, PTL

\* Both limits of a run.
THEOREM RunsContained == Spec => []RunsAreContained
<1>1. RunsAreContained <=> StoppedRunsNoTool /\ StepsBounded
  BY DEF RunsAreContained
<1> QED
  BY <1>1, NoToolAfterStop, CallsBounded, PTL

-----------------------------------------------------------------------------
(* Who attends to an execution *)

LEMMA LostStays ==
    ASSUME TypeOK, [Next]_vars, NEW e \in Executions, lost[e]
    PROVE  lost'[e]
<1>1. ASSUME NEW x \in Executions, RequestStep(x) PROVE lost' = lost
  BY <1>1 DEF RequestStep, TriggerCreate, TriggerEnqueue, TriggerConfirm, TriggerFail,
     CancelRead, CancelRevoke, CancelFlag, CancelCommit, CancelFail, FlagExpires,
     RetryRequest, Age, history
<1>2. ASSUME NEW w \in Workers, WorkerStep(w) PROVE lost'[e]
  BY <1>2 DEF WorkerStep, Receive, Discard, Load, LoadFails, GraphSteps, GraphStep,
     AgentChecks, AgentCancelled, LLMAnswers, LLMFails, ToolChecks, ToolCancelled,
     ToolReturns, Finish, Store, Raises, Retry, GiveUp, MarkFailed, MarkFailedFails,
     Ack, RetryRead, RetryRow, RetryEnqueue, RetryTaskFails, TypeOK, history
<1>3. ASSUME NEW w \in Workers, WorkerCrash(w) \/ ChildLost(w) \/ Redeliver(w)
      PROVE  lost'[e]
  BY <1>3 DEF WorkerCrash, ChildLost, Redeliver, TypeOK
<1>4. ASSUME NEW t \in revoking, RevokeDelivered(t) \/ RevokeLost(t) PROVE lost'[e]
  BY <1>4 DEF RevokeDelivered, RevokeLost, history
<1>5. ASSUME CleanupExpired \/ UNCHANGED vars PROVE lost' = lost
  BY <1>5 DEF CleanupExpired, vars, history
<1> QED
  BY <1>1, <1>2, <1>3, <1>4, <1>5 DEF Next

\* A queued message stays queued, or a worker takes it, or it is discarded.
LEMMA QueuedStep ==
    ASSUME TypeOK, [Next]_vars, NEW e \in Executions, Queued(e)
    PROVE  Attended(e)' \/ lost'[e]
<1> PICK m \in queue : m.exec = e
  BY DEF Queued
<1>1. CASE m \in queue'
  BY <1>1 DEF Attended, Queued
<1>2. CASE m \notin queue'
  <2>1. ASSUME NEW w \in Workers, Receive(w) PROVE Working(w, e)'
    <3>1. task'[w] = m
      BY <1>2, <2>1 DEF Receive, TypeOK
    <3>2. pc'[w] \in {"load", "retryRead"}
      BY <2>1 DEF Receive, TypeOK
    <3> QED
      BY <3>1, <3>2 DEF Working
  <2>2. ASSUME NEW w \in Workers, Discard(w) PROVE lost'[e]
    BY <1>2, <2>2 DEF Discard, TypeOK
  <2>3. ASSUME NEW w \in Workers, WorkerStep(w), ~Receive(w), ~Discard(w)
        PROVE  queue \subseteq queue'
    BY <2>3 DEF WorkerStep, Load, LoadFails, GraphSteps, GraphStep,
       AgentChecks, AgentCancelled, LLMAnswers, LLMFails, ToolChecks, ToolCancelled,
       ToolReturns, Finish, Store, Raises, Retry, GiveUp, MarkFailed, MarkFailedFails,
       Ack, RetryRead, RetryRow, RetryEnqueue, RetryTaskFails, broker
  <2>4. ASSUME NEW x \in Executions, RequestStep(x) PROVE queue \subseteq queue'
    BY <2>4 DEF RequestStep, TriggerCreate, TriggerEnqueue, TriggerConfirm, TriggerFail,
       CancelRead, CancelRevoke, CancelFlag, CancelCommit, CancelFail, FlagExpires,
       RetryRequest, Age, broker
  <2>5. ASSUME NEW w \in Workers, WorkerCrash(w) \/ ChildLost(w) \/ Redeliver(w)
        PROVE  queue \subseteq queue'
    BY <2>5 DEF WorkerCrash, ChildLost, Redeliver, Repeats, broker
  <2>6. ASSUME NEW t \in revoking, RevokeDelivered(t) \/ RevokeLost(t)
        PROVE  queue \subseteq queue'
    BY <2>6 DEF RevokeDelivered, RevokeLost
  <2>7. ASSUME CleanupExpired \/ UNCHANGED vars PROVE queue \subseteq queue'
    BY <2>7 DEF CleanupExpired, vars, broker
  <2> QED
    BY <1>2, <2>1, <2>2, <2>3, <2>4, <2>5, <2>6, <2>7 DEF Next, Attended
<1> QED
  BY <1>1, <1>2

\* A worker that leaves an execution has stored its end, has left a message
\* behind, or is counted as a loss.
LEMMA WorkingStep ==
    ASSUME TypeOK, [Next]_vars, NEW e \in Executions, NEW w \in Workers, Working(w, e)
    PROVE  Attended(e)' \/ lost'[e] \/ status'[e] # "running"
<1>1. task[w] \in Messages /\ task[w].exec = e
  BY DEF Working, TypeOK
<1>2. ASSUME pc'[w] \notin {"idle", "ack"}, task'[w] = task[w] PROVE Attended(e)'
  BY <1>1, <1>2 DEF Attended, Working
<1>3. ASSUME NEW m \in queue', m.exec = e PROVE Attended(e)'
  BY <1>3 DEF Attended, Queued
<1>4. CASE WorkerStep(w)
  <2>1. CASE Receive(w) \/ Discard(w) \/ Ack(w)
    BY <2>1 DEF Receive, Discard, Ack, Working
  <2>2. CASE Load(w) \/ LoadFails(w) \/ Finish(w) \/ Raises(w) \/ GiveUp(w)
                \/ RetryRead(w) \/ RetryRow(w)
    BY <2>2, <1>2 DEF Load, LoadFails, Finish, Raises, GiveUp, RetryRead, RetryRow, TypeOK
  <2>3. CASE GraphSteps(w)
    BY <2>3, <1>2 DEF GraphSteps, GraphStep, AgentChecks, AgentCancelled, LLMAnswers,
       LLMFails, ToolChecks, ToolCancelled, ToolReturns, AfterAgent, TypeOK
  <2>4. CASE Store(w) \/ MarkFailed(w)
    BY <2>4, <1>1 DEF Store, MarkFailed, Outcome, TypeOK
  <2>5. CASE Retry(w)
    <3>1. [task[w] EXCEPT !.attempt = @ + 1].exec = e
      BY <1>1 DEF Messages
    <3> QED
      BY <2>5, <3>1, <1>3 DEF Retry
  <2>6. CASE RetryEnqueue(w)
    <3>1. NewMessage(e, "execute").exec = e
      BY DEF NewMessage
    <3> QED
      BY <2>6, <3>1, <1>1, <1>3 DEF RetryEnqueue
  <2>7. CASE MarkFailedFails(w) \/ RetryTaskFails(w)
    BY <2>7, <1>1 DEF MarkFailedFails, RetryTaskFails, TypeOK
  <2> QED
    BY <1>4, <2>1, <2>2, <2>3, <2>4, <2>5, <2>6, <2>7 DEF WorkerStep
<1>5. ASSUME NEW v \in Workers, WorkerStep(v), v # w PROVE Attended(e)'
  <2>1. pc'[w] = pc[w] /\ task'[w] = task[w]
    BY <1>5 DEF WorkerStep, Receive, Discard, Load, LoadFails, GraphSteps, GraphStep,
       AgentChecks, AgentCancelled, LLMAnswers, LLMFails, ToolChecks, ToolCancelled,
       ToolReturns, Finish, Store, Raises, Retry, GiveUp, MarkFailed, MarkFailedFails,
       Ack, RetryRead, RetryRow, RetryEnqueue, RetryTaskFails, TypeOK, worker
  <2> QED
    BY <1>2, <2>1 DEF Working
<1>6. ASSUME NEW v \in Workers, WorkerCrash(v) \/ ChildLost(v) \/ Redeliver(v)
      PROVE  Attended(e)' \/ lost'[e]
  <2>1. CASE v # w \/ Redeliver(v)
    BY <1>2, <1>6, <2>1 DEF WorkerCrash, ChildLost, Redeliver, Working, TypeOK, worker
  <2>2. CASE WorkerCrash(w)
    <3>1. [task[w] EXCEPT !.copy = copies[ExecOf(w)] + 1].exec = e
      BY <1>1 DEF Messages
    <3> QED
      BY <2>2, <3>1, <1>3 DEF WorkerCrash, Repeats
  <2>3. CASE ChildLost(w)
    BY <2>3, <1>1 DEF ChildLost, TypeOK
  <2> QED
    BY <1>6, <2>1, <2>2, <2>3
<1>7. ASSUME NEW t \in revoking, RevokeDelivered(t) PROVE Attended(e)' \/ lost'[e]
  BY <1>1, <1>2, <1>7 DEF RevokeDelivered, Working
<1>8. ASSUME UNCHANGED worker PROVE Attended(e)'
  BY <1>2, <1>8 DEF worker, Working
<1>9. ASSUME NEW x \in Executions, RequestStep(x) PROVE UNCHANGED worker
  BY <1>9 DEF RequestStep, TriggerCreate, TriggerEnqueue, TriggerConfirm, TriggerFail,
     CancelRead, CancelRevoke, CancelFlag, CancelCommit, CancelFail, FlagExpires,
     RetryRequest, Age
<1>10. ASSUME NEW t \in revoking, RevokeLost(t) PROVE UNCHANGED worker
  BY <1>10 DEF RevokeLost
<1>11. ASSUME CleanupExpired \/ UNCHANGED vars PROVE UNCHANGED worker
  BY <1>11 DEF CleanupExpired, vars
<1> QED
  BY <1>4, <1>5, <1>6, <1>7, <1>8, <1>9, <1>10, <1>11 DEF Next

\* What a step can do to the status of one execution.
LEMMA StatusStep ==
    ASSUME TypeOK, [Next]_vars, NEW e \in Executions
    PROVE  \/ status'[e] = status[e]
           \/ status'[e] \in {"pending", "failed", "cancelled"}
           \/ \E w \in Workers : Load(w) /\ ExecOf(w) = e
           \/ \E w \in Workers :
                 Store(w) /\ ExecOf(w) = e /\ status'[e] = Outcome(run[w])
<1>1. ASSUME NEW x \in Executions, RequestStep(x)
      PROVE  status'[e] = status[e] \/ status'[e] \in {"pending", "failed", "cancelled"}
  BY <1>1 DEF RequestStep, TriggerCreate, TriggerEnqueue, TriggerConfirm, TriggerFail,
     CancelRead, CancelRevoke, CancelFlag, CancelCommit, CancelFail, FlagExpires,
     RetryRequest, Age, TypeOK, db
<1>2. ASSUME NEW w \in Workers, WorkerStep(w), ~Load(w), ~Store(w)
      PROVE  status'[e] = status[e] \/ status'[e] \in {"pending", "failed", "cancelled"}
  BY <1>2 DEF WorkerStep, Receive, Discard, LoadFails, GraphSteps, GraphStep,
     AgentChecks, AgentCancelled, LLMAnswers, LLMFails, ToolChecks, ToolCancelled,
     ToolReturns, Finish, Raises, Retry, GiveUp, MarkFailed, MarkFailedFails,
     Ack, RetryRead, RetryRow, RetryEnqueue, RetryTaskFails, TypeOK, db
<1>3. ASSUME NEW w \in Workers, Load(w) PROVE status'[e] = status[e] \/ ExecOf(w) = e
  BY <1>3 DEF Load, TypeOK
<1>4. ASSUME NEW w \in Workers, Store(w)
      PROVE  \/ status'[e] = status[e]
             \/ ExecOf(w) = e /\ status'[e] = Outcome(run[w])
  BY <1>4 DEF Store, TypeOK
<1>5. ASSUME NEW w \in Workers, WorkerCrash(w) \/ ChildLost(w) \/ Redeliver(w)
      PROVE  status' = status
  BY <1>5 DEF WorkerCrash, ChildLost, Redeliver, db
<1>6. ASSUME NEW t \in revoking, RevokeDelivered(t) \/ RevokeLost(t) PROVE status' = status
  BY <1>6 DEF RevokeDelivered, RevokeLost, db
<1>7. ASSUME CleanupExpired \/ UNCHANGED vars
      PROVE  status'[e] = status[e] \/ status'[e] = "failed"
  BY <1>7 DEF CleanupExpired, vars, db
<1> QED
  BY <1>1, <1>2, <1>3, <1>4, <1>5, <1>6, <1>7 DEF Next

\* A row says "running" only while the execution is attended to, or a task of
\* it was lost.  The invariant is inductive beside the types.
THEOREM RunningAttended == Spec => []RunningIsAttended
<1>1. Init => RunningIsAttended
  BY DEF Init, RunningIsAttended
<1>2. TypeOK /\ RunningIsAttended /\ [Next]_vars => RunningIsAttended'
  <2> SUFFICES ASSUME TypeOK, RunningIsAttended, [Next]_vars, NEW e \in Executions,
                      status'[e] = "running"
               PROVE  Attended(e)' \/ lost'[e]
    BY DEF RunningIsAttended
  <2>1. CASE status[e] = "running"
    BY <2>1, LostStays, QueuedStep, WorkingStep DEF RunningIsAttended, Attended
  <2>2. CASE status[e] # "running"
    <3>1. PICK w \in Workers : Load(w) /\ ExecOf(w) = e
      BY <2>2, StatusStep DEF Outcome
    <3>2. Working(w, e)'
      BY <3>1 DEF Load, Working, TypeOK
    <3> QED
      BY <3>2 DEF Attended
  <2> QED
    BY <2>1, <2>2
<1> QED
  BY <1>1, <1>2, TypeCorrect, PTL DEF Spec

-----------------------------------------------------------------------------
(* A completion is announced before it is stored *)

LEMMA EventsStay ==
    ASSUME TypeOK, [Next]_vars, NEW e \in Executions
    PROVE  events[e] \subseteq events'[e]
<1>1. ASSUME NEW x \in Executions, RequestStep(x) PROVE events' = events
  BY <1>1 DEF RequestStep, TriggerCreate, TriggerEnqueue, TriggerConfirm, TriggerFail,
     CancelRead, CancelRevoke, CancelFlag, CancelCommit, CancelFail, FlagExpires,
     RetryRequest, Age, history
<1>2. ASSUME NEW w \in Workers, WorkerStep(w), ~Finish(w) PROVE events' = events
  BY <1>2 DEF WorkerStep, Receive, Discard, Load, LoadFails, GraphSteps, GraphStep,
     AgentChecks, AgentCancelled, LLMAnswers, LLMFails, ToolChecks, ToolCancelled,
     ToolReturns, Store, Raises, Retry, GiveUp, MarkFailed, MarkFailedFails,
     Ack, RetryRead, RetryRow, RetryEnqueue, RetryTaskFails, history
<1>3. ASSUME NEW w \in Workers, Finish(w) PROVE events[e] \subseteq events'[e]
  BY <1>3 DEF Finish, TypeOK
<1>4. ASSUME NEW w \in Workers, WorkerCrash(w) \/ ChildLost(w) \/ Redeliver(w)
      PROVE  events' = events
  BY <1>4 DEF WorkerCrash, ChildLost, Redeliver
<1>5. ASSUME NEW t \in revoking, RevokeDelivered(t) \/ RevokeLost(t) PROVE events' = events
  BY <1>5 DEF RevokeDelivered, RevokeLost, history
<1>6. ASSUME CleanupExpired \/ UNCHANGED vars PROVE events' = events
  BY <1>6 DEF CleanupExpired, vars, history
<1> QED
  BY <1>1, <1>2, <1>3, <1>4, <1>5, <1>6 DEF Next

\* A worker comes to "store" only by finishing the graph.
LEMMA StorePosition ==
    ASSUME TypeOK, [Next]_vars, NEW w \in Workers, pc'[w] = "store"
    PROVE  \/ Finish(w)
           \/ pc[w] = "store" /\ run'[w] = run[w] /\ task'[w] = task[w]
<1>1. ASSUME UNCHANGED worker PROVE pc[w] = "store" /\ run'[w] = run[w] /\ task'[w] = task[w]
  BY <1>1 DEF worker
<1>2. ASSUME NEW e \in Executions, RequestStep(e) PROVE UNCHANGED worker
  BY <1>2 DEF RequestStep, TriggerCreate, TriggerEnqueue, TriggerConfirm, TriggerFail,
     CancelRead, CancelRevoke, CancelFlag, CancelCommit, CancelFail, FlagExpires,
     RetryRequest, Age
<1>3. ASSUME NEW v \in Workers, WorkerStep(v), v # w
      PROVE  pc[w] = "store" /\ run'[w] = run[w] /\ task'[w] = task[w]
  <2>1. CASE GraphSteps(v)
    <3>1. ASSUME NEW r, NEW to, GraphStep(v, r, to)
          PROVE  pc[w] = "store" /\ run'[w] = run[w] /\ task'[w] = task[w]
      BY <1>3, <3>1 DEF GraphStep, TypeOK
    <3> QED
      BY <2>1, <3>1 DEF GraphSteps, AgentChecks, AgentCancelled, LLMAnswers, LLMFails,
         ToolChecks, ToolCancelled, ToolReturns
  <2>2. CASE ~GraphSteps(v)
    BY <1>3, <2>2 DEF WorkerStep, Receive, Discard, Load, LoadFails, Finish, Store, Raises,
       Retry, GiveUp, MarkFailed, MarkFailedFails, Ack, RetryRead, RetryRow, RetryEnqueue,
       RetryTaskFails, TypeOK, worker
  <2> QED
    BY <2>1, <2>2
<1>4. ASSUME WorkerStep(w), ~Finish(w) PROVE UNCHANGED worker
  <2>1. CASE GraphSteps(w)
    <3>1. \A r : \A b : AfterAgent(r, b) # "store"
      BY DEF AfterAgent
    <3>2. ASSUME NEW r, NEW to, to # "store" PROVE ~GraphStep(w, r, to)
      BY <3>2 DEF GraphStep, TypeOK
    <3> QED
      BY <2>1, <3>1, <3>2 DEF GraphSteps, AgentChecks, AgentCancelled, LLMAnswers,
         LLMFails, ToolChecks, ToolCancelled, ToolReturns
  <2>2. CASE ~GraphSteps(w)
    BY <1>4, <2>2 DEF WorkerStep, Receive, Discard, Load, LoadFails, Store, Raises,
       Retry, GiveUp, MarkFailed, MarkFailedFails, Ack, RetryRead, RetryRow, RetryEnqueue,
       RetryTaskFails, TypeOK
  <2> QED
    BY <2>1, <2>2
<1>5. ASSUME NEW v \in Workers, WorkerCrash(v) \/ ChildLost(v) \/ Redeliver(v)
      PROVE  pc[w] = "store" /\ run'[w] = run[w] /\ task'[w] = task[w]
  BY <1>5 DEF WorkerCrash, ChildLost, Redeliver, TypeOK, worker
<1>6. ASSUME NEW t \in revoking, RevokeDelivered(t)
      PROVE  pc[w] = "store" /\ run'[w] = run[w] /\ task'[w] = task[w]
  BY <1>6 DEF RevokeDelivered
<1>7. ASSUME NEW t \in revoking, RevokeLost(t) PROVE UNCHANGED worker
  BY <1>7 DEF RevokeLost
<1>8. ASSUME CleanupExpired \/ UNCHANGED vars PROVE UNCHANGED worker
  BY <1>8 DEF CleanupExpired, vars
<1> QED
  BY <1>1, <1>2, <1>3, <1>4, <1>5, <1>6, <1>7, <1>8 DEF Next

\* The strengthening: a result about to be stored as "complete" is announced.
AnnouncedInv ==
    /\ CompleteWasAnnounced
    /\ \A w \in Workers :
          pc[w] = "store" /\ Outcome(run[w]) = "complete"
              => "complete" \in events[ExecOf(w)]

\* No row is "complete" before its completion event was published.
THEOREM CompletionAnnounced == Spec => []CompleteWasAnnounced
<1>1. Init => AnnouncedInv
  BY DEF Init, AnnouncedInv, CompleteWasAnnounced
<1>2. TypeOK /\ AnnouncedInv /\ [Next]_vars => AnnouncedInv'
  <2> SUFFICES ASSUME TypeOK, AnnouncedInv, [Next]_vars PROVE AnnouncedInv'
    OBVIOUS
  <2>1. ASSUME NEW e \in Executions, status'[e] = "complete"
        PROVE  "complete" \in events'[e]
    <3>1. CASE status[e] = "complete"
      BY <3>1, EventsStay DEF AnnouncedInv, CompleteWasAnnounced
    <3>2. CASE \E w \in Workers :
                  Store(w) /\ ExecOf(w) = e /\ status'[e] = Outcome(run[w])
      BY <2>1, <3>2, EventsStay DEF AnnouncedInv, Store
    <3>3. CASE \E w \in Workers : Load(w) /\ ExecOf(w) = e
      BY <2>1, <3>3 DEF Load, TypeOK
    <3> QED
      BY <2>1, <3>1, <3>2, <3>3, StatusStep
  <2>2. ASSUME NEW w \in Workers, pc'[w] = "store", Outcome(run'[w]) = "complete"
        PROVE  "complete" \in events'[task'[w].exec]
    <3>1. CASE Finish(w)
      <4>1. run' = run /\ task' = task
        BY <3>1 DEF Finish
      <4>2. Announced(run[w]) = "complete"
        BY <2>2, <4>1 DEF Outcome, Announced
      <4>3. task[w].exec \in Executions
        BY <3>1 DEF Finish, TypeOK, Messages
      <4> QED
        BY <3>1, <4>1, <4>2, <4>3 DEF Finish, TypeOK
    <3>2. CASE pc[w] = "store" /\ run'[w] = run[w] /\ task'[w] = task[w]
      <4>1. task[w].exec \in Executions
        BY <3>2 DEF TypeOK, Messages
      <4> QED
        BY <2>2, <3>2, <4>1, EventsStay DEF AnnouncedInv
    <3> QED
      BY <2>2, <3>1, <3>2, StorePosition
  <2> QED
    BY <2>1, <2>2 DEF AnnouncedInv, CompleteWasAnnounced
<1>3. AnnouncedInv => CompleteWasAnnounced
  BY DEF AnnouncedInv
<1> QED
  BY <1>1, <1>2, <1>3, TypeCorrect, PTL DEF Spec

-----------------------------------------------------------------------------
(* Every delivery goes back to a request or to the broker *)

QueuedOf(e) == {m \in queue : m.exec = e}
WorkersOf(e) == {w \in Workers : Working(w, e)}

\* The delivery the trigger request has issued.
Issued(e) == IF trigger[e].pc \in {"idle", "created"} THEN 0 ELSE 1
Allowed(e) == Issued(e) + bounds.retries + copies[e]

\* One set loses what the other may gain, or nothing is gained, or what is gained is
\* allowed: with the sets known to be finite this is inductive.
AccountInv ==
    \A e \in Executions :
        /\ IsFiniteSet(QueuedOf(e)) /\ IsFiniteSet(WorkersOf(e))
        /\ Cardinality(QueuedOf(e)) + Cardinality(WorkersOf(e)) <= Allowed(e)

LEMMA FewerCount ==
    ASSUME NEW S, IsFiniteSet(S), NEW T, T \subseteq S
    PROVE  IsFiniteSet(T) /\ Cardinality(T) <= Cardinality(S)
BY FS_Subset

LEMMA OneMoreCount ==
    ASSUME NEW S, IsFiniteSet(S), NEW x, NEW T, T \subseteq S \cup {x}
    PROVE  IsFiniteSet(T) /\ Cardinality(T) <= Cardinality(S) + 1
<1>1. /\ IsFiniteSet(S \cup {x})
      /\ Cardinality(S \cup {x}) \in {Cardinality(S), Cardinality(S) + 1}
  BY FS_AddElement
<1>2. IsFiniteSet(T) /\ Cardinality(T) <= Cardinality(S \cup {x})
  BY <1>1, FewerCount
<1>3. Cardinality(S) \in Nat /\ Cardinality(T) \in Nat
  BY <1>2, FS_CardinalityType
<1> QED
  BY <1>1, <1>2, <1>3

LEMMA OneLessCount ==
    ASSUME NEW S, IsFiniteSet(S), NEW x \in S, NEW T, T \subseteq S \ {x}
    PROVE  IsFiniteSet(T) /\ Cardinality(T) + 1 <= Cardinality(S)
<1>1. IsFiniteSet(S \ {x}) /\ Cardinality(S \ {x}) = Cardinality(S) - 1
  BY FS_RemoveElement
<1>2. IsFiniteSet(T) /\ Cardinality(T) <= Cardinality(S \ {x})
  BY <1>1, FewerCount
<1>3. Cardinality(S) \in Nat /\ Cardinality(T) \in Nat
  BY <1>2, FS_CardinalityType
<1> QED
  BY <1>1, <1>2, <1>3

\* The four things a step can do to the deliveries of one execution.
Kept(e) ==
    /\ QueuedOf(e)' \subseteq QueuedOf(e)
    /\ WorkersOf(e)' \subseteq WorkersOf(e)
    /\ Allowed(e) <= Allowed(e)'
Added(e) ==
    /\ \E m : QueuedOf(e)' \subseteq QueuedOf(e) \cup {m}
    /\ WorkersOf(e)' \subseteq WorkersOf(e)
    /\ Allowed(e) + 1 <= Allowed(e)'
Taken(e) ==
    /\ \E m \in QueuedOf(e) : QueuedOf(e)' \subseteq QueuedOf(e) \ {m}
    /\ \E w : WorkersOf(e)' \subseteq WorkersOf(e) \cup {w}
    /\ Allowed(e) <= Allowed(e)'
PutBack(e) ==
    /\ \E m : QueuedOf(e)' \subseteq QueuedOf(e) \cup {m}
    /\ \E w \in WorkersOf(e) : WorkersOf(e)' \subseteq WorkersOf(e) \ {w}
    /\ Allowed(e) <= Allowed(e)'

LEMMA AllowedType ==
    ASSUME TypeOK, NEW e \in Executions
    PROVE  Allowed(e) \in Nat /\ bounds.retries \in Nat /\ copies[e] \in Nat
BY DEF TypeOK, Allowed, Issued

\* A request adds at most one delivery, the one it is allowed.
LEMMA RequestDeliveries ==
    ASSUME TypeOK, NEW x \in Executions, RequestStep(x), NEW e \in Executions
    PROVE  Kept(e) \/ Added(e)
<1>1. WorkersOf(e)' = WorkersOf(e) /\ copies' = copies
  <2>1. UNCHANGED worker /\ copies' = copies
    BY DEF RequestStep, TriggerCreate, TriggerEnqueue, TriggerConfirm, TriggerFail,
       CancelRead, CancelRevoke, CancelFlag, CancelCommit, CancelFail, FlagExpires,
       RetryRequest, Age, history
  <2> QED
    BY <2>1 DEF WorkersOf, Working, worker
<1>2. bounds.retries \in Nat /\ copies[e] \in Nat
  BY AllowedType
<1>3. CASE TriggerEnqueue(x)
  <2>1. bounds' = bounds /\ queue' = queue \cup {NewMessage(x, "execute")}
    BY <1>3 DEF TriggerEnqueue
  <2>2. CASE e = x
    <3>1. Issued(e) = 0 /\ Issued(e)' = 1
      BY <1>3, <2>2 DEF TriggerEnqueue, Issued, TypeOK
    <3>2. Allowed(e) + 1 <= Allowed(e)'
      BY <1>1, <1>2, <2>1, <3>1 DEF Allowed
    <3>3. QueuedOf(e)' \subseteq QueuedOf(e) \cup {NewMessage(x, "execute")}
      BY <2>1 DEF QueuedOf
    <3> QED
      BY <1>1, <3>2, <3>3 DEF Added
  <2>3. CASE e # x
    <3>1. Issued(e)' = Issued(e)
      BY <1>3, <2>3 DEF TriggerEnqueue, Issued, TypeOK
    <3>2. Allowed(e) <= Allowed(e)'
      BY <1>1, <1>2, <2>1, <3>1 DEF Allowed, Issued
    <3>3. NewMessage(x, "execute").exec # e
      BY <2>3 DEF NewMessage
    <3>4. QueuedOf(e)' \subseteq QueuedOf(e)
      BY <2>1, <3>3 DEF QueuedOf
    <3> QED
      BY <1>1, <3>2, <3>4 DEF Kept
  <2> QED
    BY <2>2, <2>3
<1>4. CASE RetryRequest(x)
  <2>1. Issued(e)' = Issued(e)
    BY <1>4 DEF RetryRequest, Issued, api
  <2>2. bounds'.retries = bounds.retries + 1
    BY <1>4 DEF RetryRequest, TypeOK
  <2>3. Allowed(e) + 1 <= Allowed(e)'
    BY <1>1, <1>2, <2>1, <2>2 DEF Allowed, Issued
  <2>4. QueuedOf(e)' \subseteq QueuedOf(e) \cup {NewMessage(x, "retry")}
    BY <1>4 DEF RetryRequest, QueuedOf
  <2> QED
    BY <1>1, <2>3, <2>4 DEF Added
<1>5. CASE ~TriggerEnqueue(x) /\ ~RetryRequest(x)
  <2>1. queue' = queue /\ bounds'.retries = bounds.retries
    <3>1. queue' = queue
      BY <1>5 DEF RequestStep, TriggerCreate, TriggerConfirm, TriggerFail,
         CancelRead, CancelRevoke, CancelFlag, CancelCommit, CancelFail, FlagExpires,
         Age, broker
    <3>2. CASE CancelRead(x)
      BY <3>1, <3>2 DEF CancelRead, TypeOK
    <3>3. CASE TriggerFail(x) \/ CancelFail(x)
      BY <3>1, <3>3 DEF TriggerFail, CancelFail, Fault, TypeOK
    <3>4. CASE ~CancelRead(x) /\ ~TriggerFail(x) /\ ~CancelFail(x)
      <4>1. bounds' = bounds
        BY <1>5, <3>4 DEF RequestStep, TriggerCreate, TriggerConfirm, CancelRevoke,
           CancelFlag, CancelCommit, FlagExpires, Age
      <4> QED
        BY <3>1, <4>1
    <3> QED
      BY <3>2, <3>3, <3>4
  <2>2. \/ trigger'[e].pc = trigger[e].pc
        \/ trigger[e].pc = "idle" /\ trigger'[e].pc = "created"
        \/ trigger'[e].pc \in {"done", "failed"}
    <3>1. CASE TriggerCreate(x)
      <4>1. [trigger[x] EXCEPT !.pc = "created"].pc = "created"
        BY <3>1 DEF TriggerCreate, TypeOK
      <4>2. trigger' = [trigger EXCEPT ![x] = [trigger[x] EXCEPT !.pc = "created"]]
        BY <3>1 DEF TriggerCreate
      <4> QED
        BY <3>1, <4>1, <4>2 DEF TriggerCreate, TypeOK
    <3>2. CASE TriggerConfirm(x) \/ TriggerFail(x)
      <4>1. PICK last \in {"done", "failed"} :
                trigger' = [trigger EXCEPT ![x] = [pc |-> last, id |-> 0]]
        BY <3>2 DEF TriggerConfirm, TriggerFail
      <4>2. CASE e = x
        <5>1. trigger'[e] = [pc |-> last, id |-> 0]
          BY <4>1, <4>2 DEF TypeOK
        <5> QED
          BY <5>1
      <4>3. CASE e # x
        BY <4>1, <4>3 DEF TypeOK
      <4> QED
        BY <4>2, <4>3
    <3>3. CASE ~TriggerCreate(x) /\ ~TriggerConfirm(x) /\ ~TriggerFail(x)
      <4>1. trigger' = trigger
        BY <1>5, <3>3 DEF RequestStep, CancelRead, CancelRevoke, CancelFlag, CancelCommit,
           CancelFail, FlagExpires, Age, api
      <4> QED
        BY <4>1
    <3> QED
      BY <3>1, <3>2, <3>3
  <2>3. Issued(e) \in {0, 1} /\ Issued(e)' \in {0, 1} /\ Issued(e) <= Issued(e)'
    BY <2>2 DEF Issued
  <2>4. Allowed(e) <= Allowed(e)'
    BY <1>1, <1>2, <2>1, <2>3 DEF Allowed
  <2> QED
    BY <1>1, <2>1, <2>4 DEF Kept, QueuedOf
<1> QED
  BY <1>3, <1>4, <1>5

\* A worker passes deliveries on; it makes none.
LEMMA WorkerDeliveries ==
    ASSUME TypeOK, NEW w \in Workers, WorkerStep(w), NEW e \in Executions
    PROVE  Kept(e) \/ Taken(e) \/ PutBack(e)
<1>1. Allowed(e)' = Allowed(e) /\ Allowed(e) \in Nat
  <2>1. UNCHANGED <<trigger, bounds, copies>>
    BY DEF WorkerStep, Receive, Discard, Load, LoadFails, GraphSteps, GraphStep,
       AgentChecks, AgentCancelled, LLMAnswers, LLMFails, ToolChecks, ToolCancelled,
       ToolReturns, Finish, Store, Raises, Retry, GiveUp, MarkFailed, MarkFailedFails,
       Ack, RetryRead, RetryRow, RetryEnqueue, RetryTaskFails, api, history
  <2> QED
    BY <2>1, AllowedType DEF Allowed, Issued
<1>2. \A v \in Workers : v # w => pc'[v] = pc[v] /\ task'[v] = task[v]
  BY DEF WorkerStep, Receive, Discard, Load, LoadFails, GraphSteps, GraphStep,
     AgentChecks, AgentCancelled, LLMAnswers, LLMFails, ToolChecks, ToolCancelled,
     ToolReturns, Finish, Store, Raises, Retry, GiveUp, MarkFailed, MarkFailedFails,
     Ack, RetryRead, RetryRow, RetryEnqueue, RetryTaskFails, TypeOK, worker
<1>3. WorkersOf(e)' \subseteq WorkersOf(e) \cup {w}
  BY <1>2 DEF WorkersOf, Working
<1>4. CASE Receive(w)
  <2> PICK m \in queue : /\ queue' = queue \ {m}
                         /\ task' = [task EXCEPT ![w] = m]
    BY <1>4 DEF Receive
  <2>1. CASE m.exec = e
    <3>1. m \in QueuedOf(e) /\ QueuedOf(e)' \subseteq QueuedOf(e) \ {m}
      BY <2>1 DEF QueuedOf
    <3> QED
      BY <1>1, <1>3, <3>1 DEF Taken
  <2>2. CASE m.exec # e
    <3>1. w \notin WorkersOf(e)'
      BY <2>2 DEF WorkersOf, Working, TypeOK
    <3>2. WorkersOf(e)' \subseteq WorkersOf(e)
      BY <1>3, <3>1
    <3> QED
      BY <1>1, <3>2 DEF Kept, QueuedOf
  <2> QED
    BY <2>1, <2>2
<1>5. CASE Retry(w) \/ RetryEnqueue(w)
  <2>1. pc'[w] = "ack" /\ pc[w] \in {"raised", "retryEnqueue"}
    BY <1>5 DEF Retry, RetryEnqueue, TypeOK
  <2>2. WorkersOf(e)' \subseteq WorkersOf(e) \ {w}
    BY <1>2, <2>1 DEF WorkersOf, Working
  <2>3. PICK m : queue' = queue \cup {m} /\ m.exec = task[w].exec
    <3>1. CASE Retry(w)
      <4>1. [task[w] EXCEPT !.attempt = @ + 1].exec = task[w].exec
        BY <2>1 DEF TypeOK, Messages
      <4> QED
        BY <3>1, <4>1 DEF Retry
    <3>2. CASE RetryEnqueue(w)
      <4>1. NewMessage(task[w].exec, "execute").exec = task[w].exec
        BY DEF NewMessage
      <4> QED
        BY <3>2, <4>1 DEF RetryEnqueue
    <3> QED
      BY <1>5, <3>1, <3>2
  <2>4. CASE task[w].exec = e
    <3>1. w \in WorkersOf(e)
      BY <2>1, <2>4 DEF WorkersOf, Working
    <3>2. QueuedOf(e)' \subseteq QueuedOf(e) \cup {m}
      BY <2>3 DEF QueuedOf
    <3> QED
      BY <1>1, <2>2, <3>1, <3>2 DEF PutBack
  <2>5. CASE task[w].exec # e
    <3>1. QueuedOf(e)' \subseteq QueuedOf(e)
      BY <2>3, <2>5 DEF QueuedOf
    <3> QED
      BY <1>1, <2>2, <3>1 DEF Kept
  <2> QED
    BY <2>4, <2>5
<1>6. CASE ~Receive(w) /\ ~Retry(w) /\ ~RetryEnqueue(w)
  <2>1. queue' \subseteq queue
    BY <1>6 DEF WorkerStep, Discard, Load, LoadFails, GraphSteps, GraphStep,
       AgentChecks, AgentCancelled, LLMAnswers, LLMFails, ToolChecks, ToolCancelled,
       ToolReturns, Finish, Store, Raises, GiveUp, MarkFailed, MarkFailedFails,
       Ack, RetryRead, RetryRow, RetryTaskFails, broker
  <2>2. \/ pc'[w] = pc[w] /\ task'[w] = task[w]
        \/ pc'[w] \in {"idle", "ack"}
        \/ pc[w] \notin {"idle", "ack"} /\ task'[w] = task[w]
    <3>1. CASE GraphSteps(w)
      BY <3>1 DEF GraphSteps, GraphStep, AgentChecks, AgentCancelled, LLMAnswers, LLMFails,
         ToolChecks, ToolCancelled, ToolReturns
    <3>2. CASE ~GraphSteps(w)
      BY <1>6, <3>2 DEF WorkerStep, Discard, Load, LoadFails, Finish, Store, Raises, GiveUp,
         MarkFailed, MarkFailedFails, Ack, RetryRead, RetryRow, RetryTaskFails, worker,
         InGraph, TypeOK
    <3> QED
      BY <3>1, <3>2
  <2>3. WorkersOf(e)' \subseteq WorkersOf(e)
    BY <1>2, <2>2 DEF WorkersOf, Working
  <2> QED
    BY <1>1, <2>1, <2>3 DEF Kept, QueuedOf
<1> QED
  BY <1>4, <1>5, <1>6

\* A fault repeats a delivery, which is counted, or loses one.
LEMMA FaultDeliveries ==
    ASSUME TypeOK, NEW w \in Workers, WorkerCrash(w) \/ ChildLost(w) \/ Redeliver(w),
           NEW e \in Executions
    PROVE  Kept(e) \/ Added(e)
<1>1. WorkersOf(e)' \subseteq WorkersOf(e)
  BY DEF WorkerCrash, ChildLost, Redeliver, WorkersOf, Working, TypeOK, worker
<1>2. Issued(e)' = Issued(e) /\ Issued(e) \in {0, 1}
  BY DEF WorkerCrash, ChildLost, Redeliver, Issued, api
<1>3. bounds'.retries = bounds.retries
  BY DEF WorkerCrash, ChildLost, Redeliver, Fault, TypeOK
<1>4. bounds.retries \in Nat /\ copies[e] \in Nat
  BY AllowedType
<1>5. CASE ChildLost(w)
  BY <1>1, <1>2, <1>3, <1>4, <1>5 DEF ChildLost, Kept, Allowed, QueuedOf, broker
<1>6. CASE WorkerCrash(w) \/ Redeliver(w)
  <2>1. task[w] \in Messages /\ Repeats(w)
    BY <1>6 DEF WorkerCrash, Redeliver, TypeOK
  <2> DEFINE m == [task[w] EXCEPT !.copy = copies[ExecOf(w)] + 1]
  <2>2. m.exec = task[w].exec
    BY <2>1 DEF Messages
  <2>3. /\ queue' = queue \cup {m}
        /\ copies' = [copies EXCEPT ![task[w].exec] = @ + 1]
    BY <2>1 DEF Repeats
  <2> HIDE DEF m
  <2>4. CASE task[w].exec = e
    <3>1. copies'[e] = copies[e] + 1
      BY <2>3, <2>4 DEF TypeOK
    <3>2. Allowed(e) + 1 <= Allowed(e)'
      BY <1>2, <1>3, <1>4, <3>1 DEF Allowed
    <3>3. QueuedOf(e)' \subseteq QueuedOf(e) \cup {m}
      BY <2>3 DEF QueuedOf
    <3> QED
      BY <1>1, <3>2, <3>3 DEF Added
  <2>5. CASE task[w].exec # e
    <3>1. copies'[e] = copies[e]
      BY <2>3, <2>5 DEF TypeOK
    <3>2. Allowed(e) <= Allowed(e)'
      BY <1>2, <1>3, <1>4, <3>1 DEF Allowed
    <3>3. QueuedOf(e)' \subseteq QueuedOf(e)
      BY <2>2, <2>3, <2>5 DEF QueuedOf
    <3> QED
      BY <1>1, <3>2, <3>3 DEF Kept
  <2> QED
    BY <2>4, <2>5
<1> QED
  BY <1>5, <1>6

LEMMA DeliveryStep ==
    ASSUME TypeOK, [Next]_vars, NEW e \in Executions
    PROVE  Kept(e) \/ Added(e) \/ Taken(e) \/ PutBack(e)
<1>1. ASSUME NEW t \in revoking, RevokeDelivered(t) PROVE Kept(e)
  <2>1. WorkersOf(e)' \subseteq WorkersOf(e)
    BY <1>1 DEF RevokeDelivered, WorkersOf, Working
  <2>2. Allowed(e)' = Allowed(e) /\ Allowed(e) \in Nat
    BY <1>1, AllowedType DEF RevokeDelivered, Allowed, Issued, api
  <2> QED
    BY <1>1, <2>1, <2>2 DEF RevokeDelivered, Kept, QueuedOf
<1>2. ASSUME NEW t \in revoking, RevokeLost(t) PROVE Kept(e)
  <2>1. bounds'.retries = bounds.retries
    BY <1>2 DEF RevokeLost, Fault, TypeOK
  <2>2. Allowed(e)' = Allowed(e) /\ Allowed(e) \in Nat
    BY <1>2, <2>1, AllowedType DEF RevokeLost, Allowed, Issued, api, history
  <2> QED
    BY <1>2, <2>2 DEF RevokeLost, Kept, QueuedOf, WorkersOf, Working, worker
<1>3. ASSUME CleanupExpired \/ UNCHANGED vars PROVE Kept(e)
  <2>1. Allowed(e)' = Allowed(e) /\ Allowed(e) \in Nat
    BY <1>3, AllowedType DEF CleanupExpired, vars, Allowed, Issued, api, history
  <2> QED
    BY <1>3, <2>1 DEF CleanupExpired, vars, Kept, QueuedOf, WorkersOf, Working, worker,
       broker
<1> QED
  BY <1>1, <1>2, <1>3, RequestDeliveries, WorkerDeliveries, FaultDeliveries DEF Next

LEMMA AccountStep == TypeOK /\ AccountInv /\ [Next]_vars => AccountInv'
<1> SUFFICES ASSUME TypeOK, AccountInv, [Next]_vars, NEW e \in Executions
             PROVE  /\ IsFiniteSet(QueuedOf(e)') /\ IsFiniteSet(WorkersOf(e)')
                    /\ Cardinality(QueuedOf(e)') + Cardinality(WorkersOf(e)') <= Allowed(e)'
  BY DEF AccountInv
<1> DEFINE Q == QueuedOf(e)
           W == WorkersOf(e)
<1>1. /\ IsFiniteSet(Q) /\ IsFiniteSet(W)
      /\ Cardinality(Q) + Cardinality(W) <= Allowed(e)
  BY DEF AccountInv
<1>2. Allowed(e) \in Nat /\ Allowed(e)' \in Nat
  <2>1. TypeOK'
    BY TypeStep
  <2> QED
    BY <2>1, AllowedType DEF Allowed, Issued, TypeOK
<1>3. /\ IsFiniteSet(Q') => Cardinality(Q') \in Nat
      /\ IsFiniteSet(W') => Cardinality(W') \in Nat
      /\ Cardinality(Q) \in Nat /\ Cardinality(W) \in Nat
  BY <1>1, FS_CardinalityType
<1> HIDE DEF Q, W
<1>4. CASE Kept(e)
  <2>1. Q' \subseteq Q /\ W' \subseteq W /\ Allowed(e) <= Allowed(e)'
    BY <1>4 DEF Kept, Q, W
  <2>2. /\ IsFiniteSet(Q') /\ Cardinality(Q') <= Cardinality(Q)
        /\ IsFiniteSet(W') /\ Cardinality(W') <= Cardinality(W)
    BY <1>1, <2>1, FewerCount
  <2> QED
    BY <1>1, <1>2, <1>3, <2>1, <2>2 DEF Q, W
<1>5. CASE Added(e)
  <2>1. PICK m : Q' \subseteq Q \cup {m}
    BY <1>5 DEF Added, Q
  <2>2. W' \subseteq W /\ Allowed(e) + 1 <= Allowed(e)'
    BY <1>5 DEF Added, W
  <2>3. IsFiniteSet(Q') /\ Cardinality(Q') <= Cardinality(Q) + 1
    BY <1>1, <2>1, OneMoreCount
  <2>4. IsFiniteSet(W') /\ Cardinality(W') <= Cardinality(W)
    BY <1>1, <2>2, FewerCount
  <2> QED
    BY <1>1, <1>2, <1>3, <2>2, <2>3, <2>4 DEF Q, W
<1>6. CASE Taken(e)
  <2>1. PICK m \in Q : Q' \subseteq Q \ {m}
    BY <1>6 DEF Taken, Q
  <2>2. PICK w : W' \subseteq W \cup {w}
    BY <1>6 DEF Taken, W
  <2>3. IsFiniteSet(Q') /\ Cardinality(Q') + 1 <= Cardinality(Q)
    BY <1>1, <2>1, OneLessCount
  <2>4. IsFiniteSet(W') /\ Cardinality(W') <= Cardinality(W) + 1
    BY <1>1, <2>2, OneMoreCount
  <2>5. Allowed(e) <= Allowed(e)'
    BY <1>6 DEF Taken
  <2> QED
    BY <1>1, <1>2, <1>3, <2>3, <2>4, <2>5 DEF Q, W
<1>7. CASE PutBack(e)
  <2>1. PICK m : Q' \subseteq Q \cup {m}
    BY <1>7 DEF PutBack, Q
  <2>2. PICK w \in W : W' \subseteq W \ {w}
    BY <1>7 DEF PutBack, W
  <2>3. IsFiniteSet(Q') /\ Cardinality(Q') <= Cardinality(Q) + 1
    BY <1>1, <2>1, OneMoreCount
  <2>4. IsFiniteSet(W') /\ Cardinality(W') + 1 <= Cardinality(W)
    BY <1>1, <2>2, OneLessCount
  <2>5. Allowed(e) <= Allowed(e)'
    BY <1>7 DEF PutBack
  <2> QED
    BY <1>1, <1>2, <1>3, <2>3, <2>4, <2>5 DEF Q, W
<1> QED
  BY <1>4, <1>5, <1>6, <1>7, DeliveryStep

\* However deliveries are retried, repeated and revoked, an execution never has more
\* of them than its trigger, the retry requests and the broker's repetitions account
\* for: Celery's own retries put back the delivery they take.
THEOREM DeliveriesBounded == Spec => []DeliveriesAccounted
<1>1. Init => AccountInv
  <2> SUFFICES ASSUME Init, NEW e \in Executions
               PROVE  /\ IsFiniteSet(QueuedOf(e)) /\ IsFiniteSet(WorkersOf(e))
                      /\ Cardinality(QueuedOf(e)) + Cardinality(WorkersOf(e)) <= Allowed(e)
    BY DEF AccountInv
  <2>1. QueuedOf(e) = {} /\ WorkersOf(e) = {} /\ Allowed(e) = 0
    BY DEF Init, QueuedOf, WorkersOf, Working, Allowed, Issued
  <2> QED
    BY <2>1, FS_EmptySet
<1>2. TypeOK /\ AccountInv => DeliveriesAccounted
  <2> SUFFICES ASSUME TypeOK, AccountInv, NEW e \in Executions
               PROVE  Deliveries(e) <= 1 + bounds.retries + copies[e]
    BY DEF DeliveriesAccounted
  <2>1. Deliveries(e) <= Allowed(e) /\ Deliveries(e) \in Nat
    BY FS_CardinalityType DEF AccountInv, Deliveries, QueuedOf, WorkersOf
  <2>2. Allowed(e) <= 1 + bounds.retries + copies[e] /\ Allowed(e) \in Nat
    BY AllowedType DEF Allowed, Issued
  <2>3. bounds.retries \in Nat /\ copies[e] \in Nat
    BY AllowedType
  <2> QED
    BY <2>1, <2>2, <2>3
<1> QED
  BY <1>1, <1>2, AccountStep, TypeCorrect, PTL DEF Spec
=============================================================================
