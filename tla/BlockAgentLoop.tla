--------------------------- MODULE BlockAgentLoop ---------------------------
(***************************************************************************)
(* One block's agent: the loop of session/block_agent.py, with its         *)
(* budgets, its policy and its transcript, over the life of the loop       *)
(* object: a first instruction, the follow-ups that resume it, and the     *)
(* stop, the detach or the cancellation that can arrive at any await.      *)
(*                                                                         *)
(* One coroutine runs the loop here.  AgentSession models the session that *)
(* may start a second one on the same object.                              *)
(***************************************************************************)
EXTENDS Integers

CONSTANTS
    MaxSteps,           \* policy.max_steps
    MaxBlockRuns,       \* policy.max_block_runs
    MaxExpensiveRuns,   \* policy.max_expensive_runs
    OwnIsExpensive,     \* the block's type is one of EXPENSIVE_BLOCK_TYPES
    MaxCalls,           \* bound: tool calls in one turn of the model
    MaxInstructions     \* bound: instructions given to one loop

ASSUME LoopConstants ==
    /\ MaxSteps \in Nat
    /\ MaxBlockRuns \in Nat
    /\ MaxExpensiveRuns \in Nat
    /\ OwnIsExpensive \in BOOLEAN
    /\ MaxCalls \in Nat \ {0}
    /\ MaxInstructions \in Nat \ {0}

VARIABLES
    policy,        \* the flags of AgentPolicy, fixed when the loop is built
    registered,    \* the session still holds the loop in _agents
    state, goalMet, stopping, detached,    \* fields of BlockAgentLoop
    steps, runs, expensive,                \* steps_used, runs_used, expensive_runs_used
    late,          \* max_wall_clock_s has passed since this run began
    pc,            \* the await the coroutine is at
    turn,          \* how many tool calls of the turn are still to be dispatched
    results,       \* results of the turn not yet in the transcript
    unanswered,    \* tool calls in _messages without a result in _messages
    sent,          \* runs put on the canvas for this instruction, by tool
    changed,       \* the other canvas tools used for this instruction
    instructions   \* instructions given so far

budget == <<steps, runs, expensive, late>>
status == <<state, goalMet, stopping, detached, registered>>
transcript == <<turn, results, unanswered>>
canvas == <<sent, changed>>
vars == <<policy, status, budget, pc, transcript, canvas, instructions>>

\* The tools the rules tell apart.  "edit" is any tool that changes ports, wires
\* or blocks other than by deleting; a run is aimed at the agent's own block or
\* at a neighbour, whose type the server does not know.
RunTools == {"run_own", "run_other"}
ChangeTools == {"edit", "delete_block"}
OnCanvas == ChangeTools \cup RunTools

Policies == [may_edit : BOOLEAN, may_delete : BOOLEAN,
             may_run : BOOLEAN, may_run_expensive : BOOLEAN]
States == {"idle", "running", "finished", "stopped", "error"}

\* _is_expensive: a call aimed elsewhere is judged as ordinary.
Expensive(call) == call = "run_own" /\ OwnIsExpensive

-----------------------------------------------------------------------------
Init ==
    /\ policy \in Policies
    /\ registered = TRUE
    /\ state = "idle" /\ goalMet = FALSE
    /\ stopping = FALSE /\ detached = FALSE
    /\ steps = 0 /\ runs = 0 /\ expensive = 0 /\ late = FALSE
    /\ pc = "away"
    /\ turn = 0 /\ results = 0
    /\ unanswered = 0
    /\ sent = [t \in RunTools |-> 0] /\ changed = {}
    /\ instructions = 0

-----------------------------------------------------------------------------
(* What the session does to the loop *)

\* run(): the opening of a coroutine, up to the report that it runs.
Begin ==
    /\ state' = "running"
    /\ pc' = "start"
    /\ late' = FALSE
    /\ turn' = 0 /\ results' = 0
    /\ instructions' = instructions + 1
    /\ sent' = [t \in RunTools |-> 0] /\ changed' = {}

\* The first run of a new loop.  A stop may have come before the task got to run.
Start ==
    /\ instructions = 0
    /\ pc = "away"
    /\ Begin
    /\ UNCHANGED <<policy, registered, goalMet, stopping, detached,
                   steps, runs, expensive, unanswered>>

\* resume_budget and a run with the follow-up.  The session only gets here for a
\* loop it still holds and that is not running.
Resume ==
    /\ instructions \in 1..MaxInstructions - 1
    /\ pc = "away"
    /\ registered
    /\ state # "running"
    /\ stopping' = FALSE
    /\ goalMet' = FALSE
    /\ steps' = 0 /\ runs' = 0 /\ expensive' = 0
    /\ Begin
    /\ UNCHANGED <<policy, registered, detached, unanswered>>

\* _stop_all_agents: the session is closing.
Stop ==
    /\ registered
    /\ registered' = FALSE
    /\ stopping' = TRUE
    /\ UNCHANGED <<policy, state, goalMet, detached, budget, pc, transcript,
                   canvas, instructions>>

\* _stop_block_agent: the agent is stopped or replaced, and silenced for good.
Detach ==
    /\ registered
    /\ registered' = FALSE
    /\ stopping' = TRUE
    /\ detached' = TRUE
    /\ UNCHANGED <<policy, state, goalMet, budget, pc, transcript,
                   canvas, instructions>>

\* (mutant) The finally clause reports the state as it finds it.
CancelTaskUnsettled ==
    /\ ~registered
    /\ pc # "away"
    /\ pc' = "away"
    /\ turn' = 0 /\ results' = 0
    /\ UNCHANGED <<policy, status, budget, unanswered, canvas, instructions>>

\* The session waited 2 seconds for the loop and cancelled its task: the finally
\* clause of run() is all that still runs, if the try block was entered.
CancelTask ==
    /\ ~registered
    /\ pc # "away"
    /\ state' = IF state = "running" /\ pc # "start" THEN "stopped" ELSE state
    /\ pc' = "away"
    /\ turn' = 0 /\ results' = 0
    /\ UNCHANGED <<policy, registered, goalMet, stopping, detached, budget,
                   unanswered, canvas, instructions>>

WallClockPasses ==
    /\ pc # "away"
    /\ ~late
    /\ late' = TRUE
    /\ UNCHANGED <<policy, status, steps, runs, expensive, pc, transcript, canvas, instructions>>

-----------------------------------------------------------------------------
(* The checkpoint at the top of _loop *)

\* The state is reported and the instruction joins the transcript.
Open ==
    /\ pc = "start"
    /\ pc' = "top"
    /\ UNCHANGED <<policy, status, budget, transcript, canvas, instructions>>

\* (mutant) The budget check is one step late.
ExhaustedLate == steps > MaxSteps \/ late

Exhausted == steps >= MaxSteps \/ late

\* The loop is over: what is left is the finally clause of run().
Close(end, met) ==
    /\ state' = end
    /\ goalMet' = met
    /\ pc' = "final"
    /\ turn' = 0 /\ results' = 0

HonourStop ==
    /\ pc = "top"
    /\ stopping
    /\ Close("stopped", goalMet)
    /\ UNCHANGED <<policy, stopping, detached, registered, budget, unanswered,
                   canvas, instructions>>

BudgetSpent ==
    /\ pc = "top"
    /\ ~stopping
    /\ Exhausted
    /\ pc' = "wrapUp"
    /\ UNCHANGED <<policy, status, budget, transcript, canvas, instructions>>

\* (mutant) The step budget is only checked, never spent.
CallModelFree ==
    /\ pc = "top"
    /\ ~stopping
    /\ ~Exhausted
    /\ pc' = "llm"
    /\ UNCHANGED <<policy, status, steps, runs, expensive, late, transcript, canvas, instructions>>

CallModel ==
    /\ pc = "top"
    /\ ~stopping
    /\ ~Exhausted
    /\ steps' = steps + 1
    /\ pc' = "llm"
    /\ UNCHANGED <<policy, status, runs, expensive, late, transcript, canvas, instructions>>

\* _wrap_up: one last call without tools, whether or not it succeeds.
WrapUp ==
    /\ pc = "wrapUp"
    /\ Close("finished", FALSE)
    /\ UNCHANGED <<policy, stopping, detached, registered, budget, unanswered,
                   canvas, instructions>>

-----------------------------------------------------------------------------
(* The model's turn *)

\* A refusal, an exception of the provider, or a turn without tool calls.
TurnEndsRun ==
    /\ pc = "llm"
    /\ \/ Close("error", goalMet)
       \/ Close("finished", FALSE)
    /\ UNCHANGED <<policy, stopping, detached, registered, budget, unanswered,
                   canvas, instructions>>

\* The turn goes into the transcript before any of its calls is dispatched.
TurnCallsTools ==
    /\ pc = "llm"
    /\ turn' \in 1..MaxCalls
    /\ unanswered' = unanswered + turn'
    /\ pc' = "dispatch"
    /\ UNCHANGED <<policy, status, budget, results, canvas, instructions>>

\* All calls dispatched: their results join the transcript in one block.
ExtendTranscript ==
    /\ pc = "dispatch"
    /\ turn = 0
    /\ unanswered' = unanswered - results
    /\ results' = 0
    /\ pc' = "top"
    /\ UNCHANGED <<policy, status, budget, turn, canvas, instructions>>

\* The next call is dispatched; which tool it calls is the model's choice.
Dispatching == pc = "dispatch" /\ turn > 0

\* finish returns from the loop at once: the results gathered so far in the turn
\* and the calls after it are dropped.
Finish ==
    /\ Dispatching
    /\ \E met \in BOOLEAN : Close("finished", met)
    /\ UNCHANGED <<policy, stopping, detached, registered, budget, unanswered,
                   canvas, instructions>>

\* ask_user and read_port_value: a round trip that no policy or budget limits.
AskOrRead ==
    /\ Dispatching
    /\ pc' = "waiting"
    /\ UNCHANGED <<policy, status, budget, transcript, canvas, instructions>>

\* (mutant) The paid-machine flag is left to the prompt.
DeniedWithoutExpensive(call) ==
    \/ /\ call \in RunTools
       /\ \/ ~policy.may_run
          \/ runs >= MaxBlockRuns
          \/ Expensive(call) /\ expensive >= MaxExpensiveRuns
    \/ call = "delete_block" /\ ~policy.may_delete

\* _deny
Denied(call) ==
    \/ /\ call \in RunTools
       /\ \/ ~policy.may_run
          \/ runs >= MaxBlockRuns
          \/ Expensive(call) /\ (~policy.may_run_expensive \/ expensive >= MaxExpensiveRuns)
    \/ call = "delete_block" /\ ~policy.may_delete

\* (mutant) A denial leaves its call without a result.
NextCallUnanswered == turn' = turn - 1 /\ UNCHANGED results

NextCall == turn' = turn - 1 /\ results' = results + 1

Deny ==
    /\ Dispatching
    /\ \E call \in OnCanvas : Denied(call)
    /\ NextCall
    /\ UNCHANGED <<policy, status, budget, pc, unanswered, canvas, instructions>>

RunBlock ==
    /\ Dispatching
    /\ \E call \in RunTools :
         /\ ~Denied(call)
         /\ runs' = runs + 1
         /\ expensive' = IF Expensive(call) THEN expensive + 1 ELSE expensive
         /\ sent' = [sent EXCEPT ![call] = @ + 1]
    /\ pc' = "waiting"
    /\ UNCHANGED <<policy, status, steps, late, transcript, changed, instructions>>

Change ==
    /\ Dispatching
    /\ \E call \in ChangeTools : ~Denied(call) /\ changed' = changed \cup {call}
    /\ pc' = "waiting"
    /\ UNCHANGED <<policy, status, budget, transcript, sent, instructions>>

\* The observation or the answer comes back, possibly as a failure; the call's
\* result is an entry of results either way.
Observe ==
    /\ pc = "waiting"
    /\ NextCall
    /\ pc' = "dispatch"
    /\ UNCHANGED <<policy, status, budget, unanswered, canvas, instructions>>

\* An exception while a call is dispatched ends the run as an error.
DispatchFails ==
    /\ pc = "waiting"
    /\ Close("error", goalMet)
    /\ UNCHANGED <<policy, stopping, detached, registered, budget, unanswered,
                   canvas, instructions>>

\* The finally clause of run(): the state is reported and the coroutine is gone.
Final ==
    /\ pc = "final"
    /\ state' = IF state = "running" THEN "stopped" ELSE state
    /\ pc' = "away"
    /\ UNCHANGED <<policy, registered, goalMet, stopping, detached, budget, transcript,
                   canvas, instructions>>

-----------------------------------------------------------------------------
LoopStep ==
    \/ Open \/ HonourStop \/ BudgetSpent \/ CallModel \/ WrapUp
    \/ TurnEndsRun \/ TurnCallsTools \/ ExtendTranscript
    \/ Finish \/ AskOrRead \/ Deny \/ RunBlock \/ Change \/ Observe \/ DispatchFails
    \/ Final

Next ==
    \/ Start \/ Resume \/ Stop \/ Detach \/ CancelTask \/ WallClockPasses
    \/ LoopStep

Spec == Init /\ [][Next]_vars

\* The coroutine is scheduled whenever it can go on: call_llm_tools returns or
\* raises within the provider client's timeout, and act, ask and read_port return
\* within the hard timeout of their round trip.
FairSpec == Spec /\ WF_vars(LoopStep)

-----------------------------------------------------------------------------
(* Properties *)

TypeOK ==
    /\ policy \in Policies
    /\ registered \in BOOLEAN
    /\ state \in States
    /\ goalMet \in BOOLEAN /\ stopping \in BOOLEAN /\ detached \in BOOLEAN
    /\ steps \in 0..MaxSteps
    /\ runs \in 0..MaxBlockRuns
    /\ expensive \in 0..MaxExpensiveRuns
    /\ late \in BOOLEAN
    /\ pc \in {"away", "start", "top", "llm", "dispatch", "waiting", "wrapUp", "final"}
    /\ turn \in 0..MaxCalls /\ results \in 0..MaxCalls
    /\ unanswered \in Nat
    /\ sent \in [RunTools -> Nat] /\ changed \subseteq ChangeTools
    /\ instructions \in 0..MaxInstructions

\* What reached the canvas for one instruction, counted where it is sent: no more
\* runs than the run budget, and no more paid runs of the own block than the
\* budget of paid runs, whatever turns the model makes and however it is stopped
\* or resumed (block_agent.py, _deny and _dispatch).
RunBudgetsHold ==
    /\ sent["run_own"] + sent["run_other"] <= MaxBlockRuns
    /\ OwnIsExpensive => sent["run_own"] <= MaxExpensiveRuns

\* Runs, paid runs and deletions reach the canvas only when the policy allows
\* them, although the model may call a tool it was not offered.
PolicyHolds ==
    /\ "delete_block" \in changed => policy.may_delete
    /\ sent["run_own"] + sent["run_other"] > 0 => policy.may_run
    /\ sent["run_own"] > 0 /\ OwnIsExpensive => policy.may_run_expensive

\* Both: what a loop spends and destroys is what it was allowed, and no more.
SpendsAsAllowed == RunBudgetsHold /\ PolicyHolds

\* A loop that was told to stop makes no further call of the model: at most the
\* rest of the turn it is in still happens.
NoTurnAfterStop == [][stopping /\ pc # "llm" => pc' # "llm"]_vars

\* Only a loop that ended by finish, in the run of the latest instruction, says
\* that the goal is met.
VerdictIsFinal == goalMet => state = "finished"

\* Within the first instruction every tool call the model made has its result in
\* the transcript when the model is called again.
FirstRunIsAnswered == instructions = 1 /\ pc = "llm" => unanswered = 0

\* Both: what a loop has to show for its run is that run's, and its tools did answer.
HistoryIsSound == VerdictIsFinal /\ FirstRunIsAnswered

\* A run that has begun ends: its budget, the timeouts of its round trips and the
\* provider's see to it.
RunEnds == pc # "away" ~> pc = "away"

\* How far the coroutine is, as the session sees it: the task of the first
\* instruction was created with the loop.
Stage ==
    CASE pc = "away"  -> IF instructions = 0 THEN "called" ELSE "away"
      [] pc = "start" -> "starting"
      [] pc = "final" -> "closing"
      [] OTHER        -> "working"

\* The loop does what AgentSession takes a loop to do, wherever a stop, a detach or
\* a cancellation meets it: it is set going only while it is held, says that it was
\* stopped only if it was, and is left "running" by no coroutine but one that was
\* cancelled, after a stop, before its work began (block_agent.py, run).
Life == INSTANCE AgentLife WITH
    Seats <- {1}, held <- registered, crew <- [s \in {1} |-> Stage]

LivesAsAgreed == Life!LifeSpec

-----------------------------------------------------------------------------
(* What comments of the code say, and the code does not do *)

\* "Anthropic wants every tool_result for one assistant turn in a SINGLE user
\* message", and resuming is "keeping its transcript": each call of the model
\* carries a transcript in which every tool call is followed by its result.
TranscriptIsAnswered == pc = "llm" => unanswered = 0
=============================================================================
