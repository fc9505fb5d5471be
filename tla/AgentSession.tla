---------------------------- MODULE AgentSession ----------------------------
(***************************************************************************)
(* How a session keeps its block agents: the receive loop of               *)
(* session/router.py, which starts, stops, resumes and instructs agents,   *)
(* the two maps it keeps them in (_agents: block to loop object,           *)
(* _agent_tasks: block to task), the tasks that run the loops, the         *)
(* callbacks that tidy up after them, and the clean-up of the session.     *)
(*                                                                         *)
(* Everything runs on one event loop: an action is what one coroutine does *)
(* between two awaits.  What a loop does inside its run is BlockAgentLoop; *)
(* here a run only works, asks the user, and ends.                         *)
(***************************************************************************)
EXTENDS Naturals, Sequences

CONSTANTS
    Blocks,
    MaxLoops,    \* bound: loop objects built in the session
    MaxRuns      \* bound: tasks created in the session

ASSUME SessionConstants ==
    /\ MaxLoops \in Nat
    /\ MaxRuns \in Nat

VARIABLES
    agents,      \* _agents: the loop registered for a block, 0 if none
    tasks,       \* _agent_tasks: the run registered for a block, 0 if none
    loops,       \* the loop objects, in the order they were built
    runs,        \* the tasks, in the order they were created
    handler      \* where the receive loop stands

vars == <<agents, tasks, loops, runs, handler>>

LoopStates == {"idle", "running", "finished", "stopped", "error"}
Loops == [block : Blocks, state : LoopStates, stopping : BOOLEAN, detached : BOOLEAN]

\* "starting": run() sends the state "running", before its try block; "closing": the
\* loop's state is set and a last step is being sent; "reporting": the finally
\* clause is sending the state; "done": the task is done and its
\* callback is queued; "gone": the callback has run.
RunPCs == {"created", "starting", "working", "asking", "closing", "reporting",
           "done", "gone"}
Runs == [loop : 1..MaxLoops, pc : RunPCs, cancelled : BOOLEAN,
         question : {"none", "open", "expired"}]

LoopOf(r) == loops[runs[r].loop]
BlockOf(r) == LoopOf(r).block
Done(r) == runs[r].pc \in {"done", "gone"}
Live(r) == ~Done(r)

-----------------------------------------------------------------------------
Init ==
    /\ agents = [b \in Blocks |-> 0]
    /\ tasks = [b \in Blocks |-> 0]
    /\ loops = << >>
    /\ runs = << >>
    /\ handler = [at |-> "idle"]

-----------------------------------------------------------------------------
(* Starting and stopping agents *)

NewRun(l) == [loop |-> l, pc |-> "created", cancelled |-> FALSE, question |-> "none"]

\* The end of _start_block_agent: ls and rs are the loops and runs, as and ts the
\* maps, that stopping the previous agent has left.
Build(b, as, ts, ls, rs) ==
    /\ Len(ls) < MaxLoops /\ Len(rs) < MaxRuns
    /\ loops' = Append(ls, [block |-> b, state |-> "idle",
                            stopping |-> FALSE, detached |-> FALSE])
    /\ runs' = Append(rs, NewRun(Len(ls) + 1))
    /\ agents' = [as EXCEPT ![b] = Len(ls) + 1]
    /\ tasks' = [ts EXCEPT ![b] = Len(rs) + 1]
    /\ handler' = [at |-> "idle"]

\* (mutant) Only half of detach: the loop still speaks.
OnlyStop(l) == [loops EXCEPT ![l].stopping = TRUE]

\* BlockAgentLoop.detach.
DetachLoop(l) == [loops EXCEPT ![l].stopping = TRUE, ![l].detached = TRUE]

Pop(map, b) == [map EXCEPT ![b] = 0]

\* The task _stop_block_agent has to wait for, 0 if none.
Waited(b) == IF tasks[b] # 0 /\ Live(tasks[b]) THEN tasks[b] ELSE 0

\* task.cancel(), which a task that is done ignores.
Cancel(r) == [runs EXCEPT ![r].cancelled = @ \/ Live(r)]

\* The previous agent of the block is stopped, without a message to the client,
\* and a new one built once the old run has ended.  The gate of
\* _start_block_agent may say no on any press, by the account's plan of the moment;
\* it then returns before anything is touched, which is no step here.
PressAgent(b) ==
    /\ handler.at = "idle"
    /\ \/ agents[b] = 0 /\ Build(b, agents, tasks, loops, runs)
       \/ /\ agents[b] # 0 /\ Waited(b) = 0
          /\ Build(b, Pop(agents, b), Pop(tasks, b), DetachLoop(agents[b]), runs)
       \/ /\ agents[b] # 0 /\ Waited(b) # 0
          /\ agents' = Pop(agents, b)
          /\ tasks' = Pop(tasks, b)
          /\ loops' = DetachLoop(agents[b])
          /\ handler' = [at |-> "replacing", block |-> b, run |-> Waited(b)]
          /\ UNCHANGED runs

\* The old run has ended and its callback has run, or 2 seconds have passed and
\* its task is cancelled; the handler does not wait for the cancellation.
Replace ==
    /\ handler.at = "replacing"
    /\ Build(handler.block, agents, tasks, loops, Cancel(handler.run))

\* (mutant) The agent stays in _agents.
StopInPlace(b, rest) ==
    /\ agents[b] # 0
    /\ tasks' = Pop(tasks, b)
    /\ loops' = DetachLoop(agents[b])
    /\ handler' = [at |-> "stopping", run |-> Waited(b), rest |-> rest]
    /\ UNCHANGED agents

\* One round of _stop_block_agent, up to the wait.
StopOne(b, rest) ==
    /\ agents[b] # 0
    /\ agents' = Pop(agents, b)
    /\ tasks' = Pop(tasks, b)
    /\ loops' = DetachLoop(agents[b])
    /\ handler' = [at |-> "stopping", run |-> Waited(b), rest |-> rest]

\* stop_block_agent for one block, or for every block that has an agent.
PressStop ==
    /\ handler.at = "idle"
    /\ \E b \in Blocks : \E rest \in {{}, {c \in Blocks \ {b} : agents[c] # 0}} :
          StopOne(b, rest)
    /\ UNCHANGED runs

\* The wait is over: cancel, tell the client, and go on with the next block.
StopNext ==
    /\ handler.at = "stopping"
    /\ runs' = IF handler.run = 0 THEN runs ELSE Cancel(handler.run)
    /\ \/ /\ handler.rest = {}
          /\ handler' = [at |-> "idle"]
          /\ UNCHANGED <<agents, tasks, loops>>
       \/ \E b \in handler.rest : StopOne(b, handler.rest \ {b})

-----------------------------------------------------------------------------
(* Messages typed by the user *)

\* (mutant) An agent that is running is resumed as well.
InstructAnyway(b) ==
    LET l == agents[b] IN
    IF l = 0
    THEN UNCHANGED <<tasks, loops, runs>>
    ELSE /\ Len(runs) < MaxRuns
         /\ loops' = [loops EXCEPT ![l].stopping = FALSE]
         /\ runs' = Append(runs, NewRun(l))
         /\ tasks' = [tasks EXCEPT ![b] = Len(runs) + 1]

\* The routing of a message that answers no open question, and the resume of the
\* block's agent unless it is running.
Instruct(b) ==
    LET l == agents[b] IN
    IF l = 0 \/ (l # 0 /\ loops[l].state = "running")
    THEN UNCHANGED <<tasks, loops, runs>>
    ELSE /\ Len(runs) < MaxRuns
         /\ loops' = [loops EXCEPT ![l].stopping = FALSE]
         /\ runs' = Append(runs, NewRun(l))
         /\ tasks' = [tasks EXCEPT ![b] = Len(runs) + 1]

\* agent_user_message without the id of a question.
UserInstructs(b) ==
    /\ handler.at = "idle"
    /\ Instruct(b)
    /\ UNCHANGED <<agents, handler>>

\* agent_user_message with the id of the question that run r asked.
UserAnswers(r) ==
    /\ handler.at = "idle"
    /\ runs[r].question # "none"
    /\ IF runs[r].question = "open"
       THEN /\ runs' = [runs EXCEPT ![r].question = "none", ![r].pc = "working"]
            /\ UNCHANGED <<tasks, loops>>
       ELSE Instruct(BlockOf(r))
    /\ UNCHANGED <<agents, handler>>

-----------------------------------------------------------------------------
(* The end of the session *)

\* _fail_pending: every open question is resolved with an empty answer.
FailPending ==
    [r \in DOMAIN runs |->
        IF runs[r].question = "open"
        THEN [runs[r] EXCEPT !.question = "expired", !.pc = "working"] ELSE runs[r]]

Registered == {agents[b] : b \in Blocks} \ {0}

\* (mutant) _stop_all_agents drops its maps without telling the loops to stop.
StopAllForgotten == loops

StopAll ==
    [l \in DOMAIN loops |->
        [loops[l] EXCEPT !.stopping = @ \/ l \in Registered]]

\* The client is gone: cleanup up to the first task it waits for.
Disconnect ==
    /\ handler.at = "idle"
    /\ runs' = FailPending
    /\ loops' = StopAll
    /\ handler' = [at |-> "closing",
                   left |-> {r \in DOMAIN runs : Live(r) /\ \E b \in Blocks : tasks[b] = r}]
    /\ agents' = [b \in Blocks |-> 0]
    /\ tasks' = [b \in Blocks |-> 0]

\* Each tracked task gets 2 seconds, then it is cancelled.
CloseNext ==
    /\ handler.at = "closing"
    /\ \/ /\ handler.left = {}
          /\ handler' = [at |-> "closed"]
          /\ UNCHANGED runs
       \/ \E r \in handler.left :
             /\ runs' = Cancel(r)
             /\ handler' = [handler EXCEPT !.left = @ \ {r}]
    /\ UNCHANGED <<agents, tasks, loops>>

-----------------------------------------------------------------------------
(* The tasks of the loops *)

Moves(r, from, to) ==
    /\ runs[r].pc = from
    /\ ~runs[r].cancelled
    /\ runs' = [runs EXCEPT ![r].pc = to]

SetState(r, state) == loops' = [loops EXCEPT ![runs[r].loop].state = state]

RunBegins(r) ==
    /\ Moves(r, "created", "starting")
    /\ SetState(r, "running")
    /\ UNCHANGED tasks

RunOpens(r) ==
    /\ Moves(r, "starting", "working")
    /\ UNCHANGED <<tasks, loops>>

\* ask_user: at most one question of a run is followed here.
RunAsks(r) ==
    /\ runs[r].pc = "working" /\ ~runs[r].cancelled
    /\ runs[r].question = "none"
    /\ runs' = [runs EXCEPT ![r].pc = "asking", ![r].question = "open"]
    /\ UNCHANGED <<tasks, loops>>

\* 600 seconds without an answer.
QuestionExpires(r) ==
    /\ runs[r].pc = "asking" /\ ~runs[r].cancelled
    /\ runs' = [runs EXCEPT ![r].pc = "working", ![r].question = "expired"]
    /\ UNCHANGED <<tasks, loops>>

\* _loop returns: by finish, by an error, or at a checkpoint that saw the stop.
RunCloses(r) ==
    /\ Moves(r, "working", "closing")
    /\ \/ SetState(r, "finished")
       \/ SetState(r, "error")
       \/ LoopOf(r).stopping /\ SetState(r, "stopped")
    /\ UNCHANGED tasks

\* (mutant) A state no client knows.
SettleAsCancelled(r) ==
    SetState(r, IF LoopOf(r).state = "running" THEN "cancelled" ELSE LoopOf(r).state)

\* The finally clause of run().
Settle(r) == SetState(r, IF LoopOf(r).state = "running" THEN "stopped" ELSE LoopOf(r).state)

RunReports(r) ==
    /\ Moves(r, "closing", "reporting")
    /\ Settle(r)
    /\ UNCHANGED tasks

\* CancelledError arrives at the await the run is at.  A task that has not begun
\* never runs at all, a report that is being sent is given up, and one that is
\* cancelled at its first report leaves its loop "running".
RunCancelled(r) ==
    /\ runs[r].cancelled
    /\ \/ /\ runs[r].pc \in {"created", "starting", "reporting"}
          /\ runs' = [runs EXCEPT ![r].pc = "done"]
          /\ UNCHANGED loops
       \/ /\ runs[r].pc \in {"working", "asking", "closing"}
          /\ runs' = [runs EXCEPT ![r].pc = "reporting", ![r].cancelled = FALSE,
                                  ![r].question = IF @ = "open" THEN "expired" ELSE @]
          /\ Settle(r)
    /\ UNCHANGED tasks

RunDone(r) ==
    /\ Moves(r, "reporting", "done")
    /\ UNCHANGED <<tasks, loops>>

\* The done callback pops whatever task is registered for the block by now.
Callback(r) ==
    /\ runs[r].pc = "done"
    /\ runs' = [runs EXCEPT ![r].pc = "gone"]
    /\ tasks' = Pop(tasks, BlockOf(r))
    /\ UNCHANGED loops

RunStep(r) ==
    /\ \/ RunBegins(r) \/ RunOpens(r) \/ RunAsks(r) \/ QuestionExpires(r) \/ RunCloses(r)
       \/ RunReports(r) \/ RunCancelled(r) \/ RunDone(r) \/ Callback(r)
    /\ UNCHANGED <<agents, handler>>

-----------------------------------------------------------------------------
Next ==
    \/ \E b \in Blocks : PressAgent(b) \/ UserInstructs(b)
    \/ Replace \/ PressStop \/ StopNext
    \/ \E r \in DOMAIN runs : UserAnswers(r) \/ RunStep(r)
    \/ Disconnect \/ CloseNext

Spec == Init /\ [][Next]_vars

-----------------------------------------------------------------------------
(* Properties *)

TypeOK ==
    /\ agents \in [Blocks -> 0..Len(loops)]
    /\ tasks \in [Blocks -> 0..Len(runs)]
    /\ loops \in Seq(Loops) /\ Len(loops) <= MaxLoops
    /\ runs \in Seq(Runs) /\ Len(runs) <= MaxRuns
    /\ handler.at \in {"idle", "replacing", "stopping", "closing", "closed"}

Connected == handler.at \notin {"closing", "closed"}

\* While the client is connected, only the agent registered for a block can still
\* send it something: a replaced or stopped loop that is unwinding is detached
\* (block_agent.py, detach; router.py, _stop_block_agent).
OnlyCurrentSpeaks ==
    Connected =>
        \A r \in DOMAIN runs :
            Live(r) /\ ~LoopOf(r).detached => agents[BlockOf(r)] = runs[r].loop

\* Every run that is alive is the registered agent's, which Stop reaches, or its
\* loop has already been told to stop: none escapes, not even through the clean-up.
NoRunBeyondStop ==
    \A r \in DOMAIN runs :
        Live(r) => agents[BlockOf(r)] = runs[r].loop \/ LoopOf(r).stopping

\* The task registered for a block runs the loop registered for it, so that a stop
\* waits for, and cancels, the agent it has detached and no other.
TaskRunsAgent ==
    \A b \in Blocks : tasks[b] # 0 => agents[b] = runs[tasks[b]].loop

\* A registered agent that says it is running, and so refuses instructions, has a
\* coroutine that will end that state, whatever restarts, resumes and cancellations
\* overlap.  (A cancelled run may leave its loop "running" for good, but never one
\* the session still holds.)
RunningHasRun ==
    \A b \in Blocks :
        agents[b] # 0 /\ loops[agents[b]].state = "running" =>
            \E r \in DOMAIN runs :
                /\ runs[r].loop = agents[b]
                /\ runs[r].pc \in {"starting", "working", "asking", "closing"}

\* Both: what the session has registered for a block is one agent, and the run that
\* is its own.
RegistrationsMatch == TaskRunsAgent /\ RunningHasRun

\* An agent that was stopped or replaced is never set going again: only the
\* registered loop can be resumed.
DetachedStaysStopped == \A l \in DOMAIN loops : loops[l].detached => loops[l].stopping

\* Both: a stop reaches every run, and nothing takes it back.
StopsAreFinal == NoRunBeyondStop /\ DetachedStaysStopped

(* How far the coroutines of a loop are, by the tasks that may run it. *)
Stage == [created |-> "called", starting |-> "starting", working |-> "working",
          asking |-> "working", closing |-> "closing", reporting |-> "away",
          done |-> "away", gone |-> "away"]

Crew(l) ==
    [r \in 1..MaxRuns |->
        IF r \in DOMAIN runs /\ runs[r].loop = l THEN Stage[runs[r].pc] ELSE "away"]

Built(l) == l \in DOMAIN loops

(* Each loop the session builds is treated as BlockAgentLoop takes for     *)
(* granted, whatever presses, instructions, stops, timeouts and the end of *)
(* the session overlap, and also with two tasks on one loop: work comes    *)
(* only to a loop that is held and not running, letting go of it is final  *)
(* and tells it to stop, and none of its tasks is cancelled before. TLC    *)
(* checks it of the first loop: loops are built alike, one after another. *)
Life(l) == INSTANCE AgentLife WITH
    Seats <- 1..MaxRuns,
    state <- IF Built(l) THEN loops[l].state ELSE "idle",
    stopping <- Built(l) /\ loops[l].stopping,
    detached <- Built(l) /\ loops[l].detached,
    held <- Built(l) => agents[loops[l].block] = l,
    crew <- Crew(l)

FirstLivesAsAgreed ==
    Life(1)!LifeInit /\ [][UNCHANGED Life(1)!lifeVars \/ Life(1)!LifeNext]_vars

-----------------------------------------------------------------------------
(* What comments of the code say, and the code does not do *)

Active(r) == runs[r].pc \in {"working", "asking"} /\ ~runs[r].cancelled

\* Presses alone, and in turn: no agent has been instructed, and each that was replaced
\* had been at work and has settled as stopped.
PressesAlone ==
    /\ \A r, s \in DOMAIN runs : runs[r].loop = runs[s].loop => r = s
    /\ \A l \in DOMAIN loops : loops[l].detached => loops[l].state = "stopped"

\* "A second press replaces the first rather than racing it": a press that puts an agent
\* to work on a block leaves no other agent of that block at work and not cancelled.
SecondPressReplaces ==
    [][Len(loops') > Len(loops) /\ PressesAlone =>
          \A r \in DOMAIN runs :
              BlockOf(r) = loops'[Len(loops')].block => ~Active(r)']_vars
=============================================================================
