------------------------- MODULE ExecutionLifecycle -------------------------
(***************************************************************************)
(* One execution from the API call that triggers it to the status that is *)
(* finally stored: the endpoints of internal_api and queue (trigger,      *)
(* cancel, retry), the Celery tasks of queue/tasks.py and the agent/tool  *)
(* loop of workflow/engine.py that a task runs.                           *)
(*                                                                        *)
(* Every action is what happens between two awaits that touch shared      *)
(* state: one committed database statement, one Redis command or one      *)
(* broker message.  Executions share nothing but the workers.             *)
(***************************************************************************)
EXTENDS Naturals, FiniteSets

CONSTANTS
    Executions,        \* rows of the executions table
    Workers,           \* worker nodes consuming ai_heavy, one task at a time each
    NoExecution,       \* the execution of an idle worker
    MaxSteps,          \* settings.max_execution_steps
    MaxRetries,        \* max_retries of execute_workflow
    MaxCancels,        \* bound: cancel requests
    MaxRetryRequests,  \* bound: POST /queue/retry requests
    MaxFaults          \* bound: crashes, lost calls and redeliveries

ASSUME ConstantsAssumption ==
    /\ NoExecution \notin Executions
    /\ MaxSteps \in Nat \ {0}
    /\ MaxRetries \in Nat
    /\ MaxCancels \in Nat
    /\ MaxRetryRequests \in Nat
    /\ MaxFaults \in Nat

VARIABLES
    status, taskId, retries, startedAt,  \* columns of an executions row
    old,         \* executions created more than 30 days ago
    flag,        \* the Redis key cancel:{id}
    trigger,     \* where the trigger request stands, and the task it issued
    cancel,      \* where the cancel request stands, and the task id it read
    queue,       \* messages of ai_heavy that no worker holds
    revoking,    \* revoke broadcasts on their way to the workers
    revoked,     \* per worker: the task ids it knows to be revoked
    nextId,      \* next Celery task id
    pc, task, run,   \* per worker: position, message held, graph state
    events,      \* terminal events published for the execution
    lost,        \* a task of the execution vanished without writing its row
    copies,      \* deliveries of the execution that the broker repeated
    bounds       \* how much of each bound is used

db == <<status, taskId, retries, startedAt, old>>
api == <<trigger, cancel>>
broker == <<queue, revoking, revoked, nextId>>
worker == <<pc, task, run>>
history == <<events, lost, copies>>
vars == <<db, flag, api, broker, worker, history, bounds>>

Terminal == {"complete", "failed", "cancelled"}
Statuses == {"none", "pending", "running"} \cup Terminal

Messages ==
    [id : Nat, exec : Executions, kind : {"execute", "retry"},
     attempt : 0..MaxRetries, copy : Nat]
NoTask ==
    [id |-> 0, exec |-> NoExecution, kind |-> "execute", attempt |-> 0, copy |-> 0]
NewMessage(e, kind) ==
    [id |-> nextId, exec |-> e, kind |-> kind, attempt |-> 0, copy |-> 0]

\* The fields of ExecutionState that routing and the stored outcome depend on.
\* "seen" is the retry_count that increment_retry has loaded.
Runs == [steps : Nat, error : BOOLEAN, cancelled : BOOLEAN, seen : Nat]
FreshRun == [steps |-> 0, error |-> FALSE, cancelled |-> FALSE, seen |-> 0]

InGraph == {"agent", "llm", "tool", "effect", "finish"}
PCs == {"idle", "load", "store", "raised", "markFailed", "ack",
        "retryRead", "retryRow", "retryEnqueue"} \cup InGraph

Busy(w) == pc[w] # "idle"
ExecOf(w) == task[w].exec

-----------------------------------------------------------------------------
Init ==
    /\ status = [e \in Executions |-> "none"]
    /\ taskId = [e \in Executions |-> 0]
    /\ retries = [e \in Executions |-> 0]
    /\ startedAt = [e \in Executions |-> FALSE]
    /\ old = {}
    /\ flag = [e \in Executions |-> FALSE]
    /\ trigger = [e \in Executions |-> [pc |-> "idle", id |-> 0]]
    /\ cancel = [e \in Executions |-> [pc |-> "idle", id |-> 0]]
    /\ queue = {}
    /\ revoking = {}
    /\ revoked = [w \in Workers |-> {}]
    /\ nextId = 1
    /\ pc = [w \in Workers |-> "idle"]
    /\ task = [w \in Workers |-> NoTask]
    /\ run = [w \in Workers |-> FreshRun]
    /\ events = [e \in Executions |-> {}]
    /\ lost = [e \in Executions |-> FALSE]
    /\ copies = [e \in Executions |-> 0]
    /\ bounds = [cancels |-> 0, retries |-> 0, faults |-> 0]

Fault ==
    /\ bounds.faults < MaxFaults
    /\ bounds' = [bounds EXCEPT !.faults = @ + 1]

-----------------------------------------------------------------------------
(* POST /internal/executions/trigger *)

\* The row is created and committed before the task exists.
TriggerCreate(e) ==
    /\ trigger[e].pc = "idle"
    /\ status' = [status EXCEPT ![e] = "pending"]
    /\ trigger' = [trigger EXCEPT ![e].pc = "created"]
    /\ UNCHANGED <<taskId, retries, startedAt, old, flag, cancel, broker, worker,
                   history, bounds>>

TriggerEnqueue(e) ==
    /\ trigger[e].pc = "created"
    /\ queue' = queue \cup {NewMessage(e, "execute")}
    /\ nextId' = nextId + 1
    /\ trigger' = [trigger EXCEPT ![e] = [pc |-> "enqueued", id |-> nextId]]
    /\ UNCHANGED <<db, flag, cancel, revoking, revoked, worker, history, bounds>>

\* "Store the Celery task ID": status and task id are written in one commit.
TriggerConfirm(e) ==
    /\ trigger[e].pc = "enqueued"
    /\ status' = [status EXCEPT ![e] = "pending"]
    /\ taskId' = [taskId EXCEPT ![e] = trigger[e].id]
    /\ trigger' = [trigger EXCEPT ![e] = [pc |-> "done", id |-> 0]]
    /\ UNCHANGED <<retries, startedAt, old, flag, cancel, broker, worker, history,
                   bounds>>

\* The broker refuses the message, or the API process dies between two steps.
TriggerFail(e) ==
    /\ trigger[e].pc \in {"created", "enqueued"}
    /\ Fault
    /\ trigger' = [trigger EXCEPT ![e] = [pc |-> "failed", id |-> 0]]
    /\ UNCHANGED <<db, flag, cancel, broker, worker, history>>

-----------------------------------------------------------------------------
(* POST /internal/executions/{id}/cancel; a terminal row is answered 409. *)

\* The id is a fresh uuid that only the trigger's response makes known.
KnownToClients(e) == trigger[e].pc = "done"

CancelRead(e) ==
    /\ bounds.cancels < MaxCancels
    /\ cancel[e].pc = "idle"
    /\ KnownToClients(e)
    /\ status[e] \notin Terminal
    /\ cancel' = [cancel EXCEPT ![e] = [pc |-> "revoke", id |-> taskId[e]]]
    /\ bounds' = [bounds EXCEPT !.cancels = @ + 1]
    /\ UNCHANGED <<db, flag, trigger, broker, worker, history>>

CancelRevoke(e) ==
    /\ cancel[e].pc = "revoke"
    /\ revoking' = IF cancel[e].id = 0 THEN revoking ELSE revoking \cup {cancel[e].id}
    /\ cancel' = [cancel EXCEPT ![e] = [pc |-> "flag", id |-> 0]]
    /\ UNCHANGED <<db, flag, trigger, queue, revoked, nextId, worker, history, bounds>>

CancelFlag(e) ==
    /\ cancel[e].pc = "flag"
    /\ flag' = [flag EXCEPT ![e] = TRUE]
    /\ cancel' = [cancel EXCEPT ![e].pc = "commit"]
    /\ UNCHANGED <<db, trigger, broker, worker, history, bounds>>

CancelCommit(e) ==
    /\ cancel[e].pc = "commit"
    /\ status' = [status EXCEPT ![e] = "cancelled"]
    /\ cancel' = [cancel EXCEPT ![e] = [pc |-> "idle", id |-> 0]]
    /\ UNCHANGED <<taskId, retries, startedAt, old, flag, trigger, broker, worker,
                   history, bounds>>

CancelFail(e) ==
    /\ cancel[e].pc # "idle"
    /\ Fault
    /\ cancel' = [cancel EXCEPT ![e] = [pc |-> "idle", id |-> 0]]
    /\ UNCHANGED <<db, flag, trigger, broker, worker, history>>

\* The flag is written with ex=3600.
FlagExpires(e) ==
    /\ flag[e]
    /\ flag' = [flag EXCEPT ![e] = FALSE]
    /\ UNCHANGED <<db, api, broker, worker, history, bounds>>

\* The revoke broadcast reaches the workers: the id is remembered, and a child
\* that runs the task is terminated without running its failure handler.
RevokeDelivered(t) ==
    /\ t \in revoking
    /\ revoking' = revoking \ {t}
    /\ revoked' = [w \in Workers |-> revoked[w] \cup {t}]
    /\ LET killed == {w \in Workers : Busy(w) /\ task[w].id = t}
       IN  /\ pc' = [w \in Workers |-> IF w \in killed THEN "idle" ELSE pc[w]]
           /\ task' = [w \in Workers |-> IF w \in killed THEN NoTask ELSE task[w]]
           /\ run' = [w \in Workers |-> IF w \in killed THEN FreshRun ELSE run[w]]
           /\ lost' = [e \in Executions |->
                          lost[e] \/ \E w \in killed : ExecOf(w) = e]
    /\ UNCHANGED <<db, flag, api, queue, nextId, events, copies, bounds>>

RevokeLost(t) ==
    /\ t \in revoking
    /\ Fault
    /\ revoking' = revoking \ {t}
    /\ UNCHANGED <<db, flag, api, queue, revoked, nextId, worker, history>>

-----------------------------------------------------------------------------
(* POST /internal/queue/retry/{id} and the periodic clean-up *)

\* The endpoint does not look at the row.
RetryRequest(e) ==
    /\ bounds.retries < MaxRetryRequests
    /\ KnownToClients(e)
    /\ queue' = queue \cup {NewMessage(e, "retry")}
    /\ nextId' = nextId + 1
    /\ bounds' = [bounds EXCEPT !.retries = @ + 1]
    /\ UNCHANGED <<db, flag, api, revoking, revoked, worker, history>>

\* No request and no run lasts 30 days.
Age(e) ==
    /\ e \notin old
    /\ trigger[e].pc \in {"done", "failed"}
    /\ cancel[e].pc = "idle"
    /\ \A w \in Workers : ExecOf(w) # e
    /\ old' = old \cup {e}
    /\ UNCHANGED <<status, taskId, retries, startedAt, flag, api, broker, worker,
                   history, bounds>>

\* cleanup_expired_executions: one UPDATE over every pending row that is old.
CleanupExpired ==
    /\ \E e \in old : status[e] = "pending"
    /\ status' = [e \in Executions |->
                     IF e \in old /\ status[e] = "pending" THEN "failed" ELSE status[e]]
    /\ UNCHANGED <<taskId, retries, startedAt, old, flag, api, broker, worker, history,
                   bounds>>

-----------------------------------------------------------------------------
(* A worker and the messages of its queue *)

Moves(w, to) ==
    /\ pc' = [pc EXCEPT ![w] = to]
    /\ UNCHANGED task

\* The run's graph state dies with the coroutine that held it.
Ends(w, to) ==
    /\ Moves(w, to)
    /\ run' = [run EXCEPT ![w] = FreshRun]

Leaves(w) ==
    /\ pc' = [pc EXCEPT ![w] = "idle"]
    /\ task' = [task EXCEPT ![w] = NoTask]
    /\ run' = [run EXCEPT ![w] = FreshRun]

Loses(e) == lost' = [lost EXCEPT ![e] = TRUE]

Receive(w) ==
    /\ ~Busy(w)
    /\ \E m \in queue :
          /\ m.id \notin revoked[w]
          /\ queue' = queue \ {m}
          /\ task' = [task EXCEPT ![w] = m]
          /\ pc' = [pc EXCEPT ![w] = IF m.kind = "execute" THEN "load" ELSE "retryRead"]
    /\ UNCHANGED <<db, flag, api, revoking, revoked, nextId, run, history, bounds>>

\* A revoked message is acknowledged without running the task.
Discard(w) ==
    /\ ~Busy(w)
    /\ \E m \in queue :
          /\ m.id \in revoked[w]
          /\ queue' = queue \ {m}
          /\ Loses(m.exec)
    /\ UNCHANGED <<db, flag, api, revoking, revoked, nextId, worker, events, copies,
                   bounds>>

\* First database session of _execute_workflow_async.
Load(w) ==
    /\ pc[w] = "load"
    /\ status' = [status EXCEPT ![ExecOf(w)] = "running"]
    /\ startedAt' = [startedAt EXCEPT ![ExecOf(w)] = TRUE]
    /\ run' = [run EXCEPT ![w] = FreshRun]
    /\ Moves(w, "agent")
    /\ UNCHANGED <<taskId, retries, old, flag, api, broker, history, bounds>>

\* The workflow does not exist, or the session fails: this is outside the try
\* block, so the task is not retried and on_failure marks the row.
LoadFails(w) ==
    /\ pc[w] = "load"
    /\ Moves(w, "markFailed")
    /\ UNCHANGED <<db, flag, api, broker, run, history, bounds>>

-----------------------------------------------------------------------------
(* The graph: agent -> should_continue -> tool node -> agent *)

\* (mutant) One call of the model more than paid for.
ContinueOneMore(r, toolCalls) ==
    ~r.cancelled /\ ~r.error /\ r.steps <= MaxSteps /\ toolCalls

ShouldContinue(r, toolCalls) ==
    /\ ~r.cancelled
    /\ ~r.error
    /\ r.steps < MaxSteps
    /\ toolCalls

AfterAgent(r, toolCalls) == IF ShouldContinue(r, toolCalls) THEN "tool" ELSE "finish"

GraphStep(w, r, to) ==
    /\ run' = [run EXCEPT ![w] = r]
    /\ Moves(w, to)
    /\ UNCHANGED <<db, flag, api, broker, history, bounds>>

\* The agent node reads the flag before it calls the model.
AgentChecks(w) ==
    /\ pc[w] = "agent"
    /\ ~flag[ExecOf(w)]
    /\ GraphStep(w, run[w], "llm")

AgentCancelled(w) ==
    /\ pc[w] = "agent"
    /\ flag[ExecOf(w)]
    /\ \E toolCalls \in BOOLEAN :
          LET r == [run[w] EXCEPT !.cancelled = TRUE, !.error = TRUE]
          IN  GraphStep(w, r, AfterAgent(r, toolCalls))

\* The reply either calls tools or not.
LLMAnswers(w) ==
    /\ pc[w] = "llm"
    /\ \E toolCalls \in BOOLEAN :
          LET r == [run[w] EXCEPT !.steps = @ + 1]
          IN  GraphStep(w, r, AfterAgent(r, toolCalls))

\* No API key, or an exception of the model call, which the node catches.  The last
\* message is then still the one before: it has tool calls if its tool node left
\* them without an answer.
LLMFails(w) ==
    /\ pc[w] = "llm"
    /\ \E toolCalls \in BOOLEAN :
          LET r == [run[w] EXCEPT !.error = TRUE]
          IN  GraphStep(w, r, AfterAgent(r, toolCalls))

\* cancellable_node: the flag is read once, before the node's own work.
ToolChecks(w) ==
    /\ pc[w] = "tool"
    /\ ~flag[ExecOf(w)]
    /\ GraphStep(w, run[w], "effect")

ToolCancelled(w) ==
    /\ pc[w] = "tool"
    /\ flag[ExecOf(w)]
    /\ GraphStep(w, [run[w] EXCEPT !.cancelled = TRUE], "agent")

\* An MCP failure becomes a tool message; research, sandbox and device
\* failures become state["error"].
ToolReturns(w) ==
    /\ pc[w] = "effect"
    /\ \E failed \in BOOLEAN :
          GraphStep(w, [run[w] EXCEPT !.error = @ \/ failed], "agent")

\* WorkflowEngine.run tests cancelled before error.
Announced(r) ==
    IF r.cancelled THEN "cancelled" ELSE IF r.error THEN "failed" ELSE "complete"

\* Mutant: the terminal event is left to the caller.
FinishSilently(w) ==
    /\ pc[w] = "finish"
    /\ Moves(w, "store")
    /\ UNCHANGED <<db, flag, api, broker, run, history, bounds>>

Finish(w) ==
    /\ pc[w] = "finish"
    /\ events' = [events EXCEPT ![ExecOf(w)] = @ \cup {Announced(run[w])}]
    /\ Moves(w, "store")
    /\ UNCHANGED <<db, flag, api, broker, run, lost, copies, bounds>>

\* _execute_workflow_async tests error before cancelled.
Outcome(r) ==
    IF r.error THEN "failed" ELSE IF r.cancelled THEN "cancelled" ELSE "complete"

Store(w) ==
    /\ pc[w] = "store"
    /\ status' = [status EXCEPT ![ExecOf(w)] = Outcome(run[w])]
    /\ Ends(w, "ack")
    /\ UNCHANGED <<taskId, retries, startedAt, old, flag, api, broker, history, bounds>>

-----------------------------------------------------------------------------
(* Failure of the task body, retries and the failure handler *)

\* Redis, the checkpointer or the second database session raises.
Raises(w) ==
    /\ pc[w] \in InGraph \cup {"store"}
    /\ Ends(w, "raised")
    /\ UNCHANGED <<db, flag, api, broker, history, bounds>>

\* Mutants of the retry: no limit; not published; the coroutine goes on after
\* publishing; the attempt is not counted.
RetryWithoutLimit(w) ==
    /\ pc[w] = "raised"
    /\ queue' = queue \cup {[task[w] EXCEPT !.attempt = @ + 1]}
    /\ Moves(w, "ack")
    /\ UNCHANGED <<db, flag, api, revoking, revoked, nextId, run, history, bounds>>
RetryUnpublished(w) ==
    /\ pc[w] = "raised"
    /\ Moves(w, "ack")
    /\ UNCHANGED <<db, flag, api, broker, run, history, bounds>>
RetryFallsThrough(w) ==
    /\ pc[w] = "raised"
    /\ queue' = queue \cup {task[w]}
    /\ Moves(w, "markFailed")
    /\ UNCHANGED <<db, flag, api, revoking, revoked, nextId, run, history, bounds>>
RetryUncounted(w) ==
    /\ pc[w] = "raised"
    /\ queue' = queue \cup {task[w]}
    /\ Moves(w, "ack")
    /\ UNCHANGED <<db, flag, api, revoking, revoked, nextId, run, history, bounds>>

\* task.retry: the same task id is published again; the row stays "running".
Retry(w) ==
    /\ pc[w] = "raised"
    /\ task[w].attempt < MaxRetries
    /\ queue' = queue \cup {[task[w] EXCEPT !.attempt = @ + 1]}
    /\ Moves(w, "ack")
    /\ UNCHANGED <<db, flag, api, revoking, revoked, nextId, run, history, bounds>>

\* retry() re-raises the original exception, so on_failure runs.
GiveUp(w) ==
    /\ pc[w] = "raised"
    /\ task[w].attempt >= MaxRetries
    /\ Moves(w, "markFailed")
    /\ UNCHANGED <<db, flag, api, broker, run, history, bounds>>

MarkFailed(w) ==
    /\ pc[w] = "markFailed"
    /\ status' = [status EXCEPT ![ExecOf(w)] = "failed"]
    /\ Moves(w, "ack")
    /\ UNCHANGED <<taskId, retries, startedAt, old, flag, api, broker, run, history,
                   bounds>>

\* _mark_failed swallows its own exception.
MarkFailedFails(w) ==
    /\ pc[w] = "markFailed"
    /\ Moves(w, "ack")
    /\ Loses(ExecOf(w))
    /\ UNCHANGED <<db, flag, api, broker, run, events, copies, bounds>>

\* acks_late: the message is acknowledged when the task has returned or failed.
Ack(w) ==
    /\ pc[w] = "ack"
    /\ Leaves(w)
    /\ UNCHANGED <<db, flag, api, broker, history, bounds>>

-----------------------------------------------------------------------------
(* retry_failed_execution *)

\* increment_retry adds one to the count it has loaded, without a row lock.
RetryRead(w) ==
    /\ pc[w] = "retryRead"
    /\ run' = [run EXCEPT ![w].seen = retries[ExecOf(w)]]
    /\ Moves(w, "retryRow")
    /\ UNCHANGED <<db, flag, api, broker, history, bounds>>

RetryRow(w) ==
    /\ pc[w] = "retryRow"
    /\ retries' = [retries EXCEPT ![ExecOf(w)] = run[w].seen + 1]
    /\ status' = [status EXCEPT ![ExecOf(w)] = "pending"]
    /\ Ends(w, "retryEnqueue")
    /\ UNCHANGED <<taskId, startedAt, old, flag, api, broker, history, bounds>>

\* The new task's id is not written to the row.
RetryEnqueue(w) ==
    /\ pc[w] = "retryEnqueue"
    /\ queue' = queue \cup {NewMessage(ExecOf(w), "execute")}
    /\ nextId' = nextId + 1
    /\ Moves(w, "ack")
    /\ UNCHANGED <<db, flag, api, revoking, revoked, run, history, bounds>>

RetryTaskFails(w) ==
    /\ pc[w] \in {"retryRead", "retryRow", "retryEnqueue"}
    /\ Ends(w, "ack")
    /\ Loses(ExecOf(w))
    /\ UNCHANGED <<db, flag, api, broker, events, copies, bounds>>

-----------------------------------------------------------------------------
(* What acks_late means: Celery and its Redis transport, external *)

\* The broker delivers the message of a busy worker again.
Repeats(w) ==
    /\ copies' = [copies EXCEPT ![ExecOf(w)] = @ + 1]
    /\ queue' = queue \cup {[task[w] EXCEPT !.copy = copies[ExecOf(w)] + 1]}

\* The worker node dies: its unacknowledged message returns to the queue, and
\* the ids it knew to be revoked are forgotten.
WorkerCrash(w) ==
    /\ Busy(w)
    /\ Fault
    /\ Repeats(w)
    /\ revoked' = [revoked EXCEPT ![w] = {}]
    /\ Leaves(w)
    /\ UNCHANGED <<db, flag, api, revoking, nextId, events, lost>>

\* Only the pool child dies: reject_on_worker_lost is not set, so the message
\* is acknowledged and the task class's on_failure does not run.
ChildLost(w) ==
    /\ Busy(w)
    /\ Fault
    /\ Leaves(w)
    /\ Loses(ExecOf(w))
    /\ UNCHANGED <<db, flag, api, broker, events, copies>>

\* A task outlives the visibility timeout: the message is delivered again
\* while the first delivery is still being worked on.
Redeliver(w) ==
    /\ Busy(w)
    /\ Fault
    /\ Repeats(w)
    /\ UNCHANGED <<db, flag, api, revoking, revoked, nextId, worker, events, lost>>

-----------------------------------------------------------------------------
RequestStep(e) ==
    \/ TriggerCreate(e) \/ TriggerEnqueue(e) \/ TriggerConfirm(e) \/ TriggerFail(e)
    \/ CancelRead(e) \/ CancelRevoke(e) \/ CancelFlag(e) \/ CancelCommit(e)
    \/ CancelFail(e) \/ FlagExpires(e) \/ RetryRequest(e) \/ Age(e)

GraphSteps(w) ==
    \/ AgentChecks(w) \/ AgentCancelled(w) \/ LLMAnswers(w) \/ LLMFails(w)
    \/ ToolChecks(w) \/ ToolCancelled(w) \/ ToolReturns(w)

WorkerStep(w) ==
    \/ Receive(w) \/ Discard(w) \/ Load(w) \/ LoadFails(w) \/ GraphSteps(w)
    \/ Finish(w) \/ Store(w) \/ Raises(w) \/ Retry(w) \/ GiveUp(w)
    \/ MarkFailed(w) \/ MarkFailedFails(w) \/ Ack(w)
    \/ RetryRead(w) \/ RetryRow(w) \/ RetryEnqueue(w) \/ RetryTaskFails(w)

Next ==
    \/ \E e \in Executions : RequestStep(e)
    \/ \E w \in Workers : WorkerStep(w)
    \/ \E w \in Workers : WorkerCrash(w) \/ ChildLost(w) \/ Redeliver(w)
    \/ \E t \in revoking : RevokeDelivered(t) \/ RevokeLost(t)
    \/ CleanupExpired

Spec == Init /\ [][Next]_vars

\* A worker process that is up takes messages and finishes what it awaits;
\* nothing obliges a client to send requests or the beat queue to be consumed.
FairSpec == Spec /\ \A w \in Workers : WF_vars(WorkerStep(w))

-----------------------------------------------------------------------------
(* Properties *)

TypeOK ==
    /\ status \in [Executions -> Statuses]
    /\ taskId \in [Executions -> Nat]
    /\ retries \in [Executions -> Nat]
    /\ startedAt \in [Executions -> BOOLEAN]
    /\ old \subseteq Executions
    /\ flag \in [Executions -> BOOLEAN]
    /\ trigger \in [Executions ->
          [pc : {"idle", "created", "enqueued", "done", "failed"}, id : Nat]]
    /\ cancel \in [Executions -> [pc : {"idle", "revoke", "flag", "commit"}, id : Nat]]
    /\ queue \subseteq Messages
    /\ revoking \subseteq Nat
    /\ revoked \in [Workers -> SUBSET Nat]
    /\ nextId \in Nat
    /\ pc \in [Workers -> PCs]
    /\ task \in [Workers -> Messages \cup {NoTask}]
    /\ \A w \in Workers : Busy(w) => task[w] \in Messages
    /\ run \in [Workers -> Runs]
    /\ events \in [Executions -> SUBSET Terminal]
    /\ lost \in [Executions -> BOOLEAN]
    /\ copies \in [Executions -> Nat]
    /\ bounds \in [cancels : Nat, retries : Nat, faults : Nat]

Working(w, e) == pc[w] \notin {"idle", "ack"} /\ ExecOf(w) = e
Queued(e) == \E m \in queue : m.exec = e
Attended(e) == Queued(e) \/ \E w \in Workers : Working(w, e)

\* A row says "running" only while a delivery of the execution is queued or
\* being worked on, however deliveries are retried, repeated or overlap; a row
\* stuck in "running" always goes back to a task that vanished: terminated by a
\* revoke, discarded as revoked, its child killed, or its failure handler
\* itself failing (queue/tasks.py).
RunningIsAttended ==
    \A e \in Executions : status[e] = "running" => Attended(e) \/ lost[e]

\* A run that failed or saw the cancel flag enters no further tool node: the
\* only step left to it is the agent node (workflow/engine.py, should_continue).
StoppedRunsNoTool ==
    \A w \in Workers :
        run[w].error \/ run[w].cancelled => pc[w] \notin {"tool", "effect"}

\* The agent loop calls the model at most max_execution_steps times in a run,
\* and ends with that many although the model still asks for tools.
StepsBounded == \A w \in Workers : run[w].steps <= MaxSteps

\* Both: however a run fails, sees the flag or is asked for tools, it spends no
\* more of the tools and the model than that.
RunsAreContained == StoppedRunsNoTool /\ StepsBounded

\* A row becomes "complete" only after subscribers were told so: no client
\* reads a finished row whose completion event is still to come.
CompleteWasAnnounced ==
    \A e \in Executions : status[e] = "complete" => "complete" \in events[e]

\* Deliveries of an execution that are queued or being worked on: each goes back
\* to the trigger, to one retry request, or to the broker repeating a delivery.
\* Celery's own retries never multiply them.
Deliveries(e) ==
    Cardinality({m \in queue : m.exec = e})
        + Cardinality({w \in Workers : Working(w, e)})

DeliveriesAccounted ==
    \A e \in Executions : Deliveries(e) <= 1 + bounds.retries + copies[e]

\* A running row leaves that status: every run ends, through its result, its
\* retries or its failure handler, unless a task vanished.
RunningEnds ==
    \A e \in Executions : status[e] = "running" ~> status[e] # "running" \/ lost[e]

-----------------------------------------------------------------------------
(* What comments and responses of the code say, and the code does not do *)

\* "Execution is already in terminal state": without a retry request a terminal
\* status is final.
TerminalIsFinal ==
    [][\A e \in Executions : status[e] \in Terminal => status'[e] = status[e]]_status
=============================================================================
