------------------------ MODULE BlockAgentLoopProofs ------------------------
(***************************************************************************)
(* Safety of the agent loop for every budget, every policy and any number  *)
(* of tool calls in a turn.                                                *)
(*                                                                         *)
(* One inductive invariant carries all theorems, in three parts that are   *)
(* proved apart: the flags and the verdict; the counters, which agree with *)
(* what was sent for the instruction and with the calls of the turn that   *)
(* still lack a result in the transcript; and the policy.                  *)
(***************************************************************************)
EXTENDS BlockAgentLoop, TLAPS

Flags ==
    /\ policy \in Policies
    /\ registered \in BOOLEAN /\ stopping \in BOOLEAN /\ detached \in BOOLEAN
    /\ late \in BOOLEAN /\ goalMet \in BOOLEAN
    /\ state \in States
    /\ VerdictIsFinal
    /\ goalMet => pc \in {"away", "final"}
    /\ instructions = 0 => pc = "away" /\ ~goalMet

InTurn == pc \in {"dispatch", "waiting"}

Counters ==
    /\ pc \in {"away", "start", "top", "llm", "dispatch", "waiting", "wrapUp", "final"}
    /\ steps \in 0..MaxSteps /\ runs \in 0..MaxBlockRuns
    /\ expensive \in 0..MaxExpensiveRuns
    /\ turn \in 0..MaxCalls /\ results \in 0..MaxCalls /\ unanswered \in Nat
    /\ sent \in [RunTools -> Nat] /\ changed \subseteq ChangeTools
    /\ instructions \in 0..MaxInstructions

\* What was sent for the instruction is what the loop has charged for it.
Metered ==
    /\ runs = sent["run_own"] + sent["run_other"]
    /\ OwnIsExpensive => expensive = sent["run_own"]
    /\ instructions = 0 => runs = 0 /\ expensive = 0

\* The calls of the turn in hand are among those without a result in the
\* transcript, and in the first instruction there are no others.
TurnAccounted ==
    /\ turn + results <= MaxCalls
    /\ turn + results <= unanswered
    /\ ~InTurn => turn = 0 /\ results = 0
    /\ pc = "waiting" => turn > 0
    /\ instructions = 0 => pc = "away" /\ unanswered = 0
    /\ instructions = 1 /\ (InTurn \/ pc \in {"start", "top", "llm"}) => unanswered = turn + results

Numbers == Counters /\ Metered /\ TurnAccounted

IInv == Flags /\ Numbers /\ PolicyHolds

USE DEF RunTools, ChangeTools, OnCanvas

\* The initial states satisfy the inductive invariant.
LEMMA InitIInv == Init => IInv
  <1> SUFFICES ASSUME Init PROVE IInv
    OBVIOUS
  <1> USE DEF Init
  <1>1. Flags
    BY DEF Flags, States, VerdictIsFinal
  <1>2. Numbers
    BY LoopConstants DEF LoopConstants, Numbers, Counters, Metered, TurnAccounted, InTurn
  <1>3. PolicyHolds
    BY DEF PolicyHolds
  <1> QED BY <1>1, <1>2, <1>3 DEF IInv

\* The flags, the verdict and the state stay well-formed.
LEMMA FlagsStep == Flags /\ Numbers /\ Next => Flags'
  <1> SUFFICES ASSUME Flags, Numbers, Next PROVE Flags'
    OBVIOUS
  <1>a. Begin => instructions' # 0
    BY LoopConstants DEF LoopConstants, Begin, Numbers, Counters
  <1> USE DEF Flags, States, VerdictIsFinal, status, budget, Close, Begin, Dispatching
  <1>1. CASE Start
    <2>1. state' = "running" /\ pc' = "start" /\ late' = FALSE /\ instructions' # 0
          /\ ~goalMet
          /\ UNCHANGED <<policy, registered, stopping, detached, goalMet>>
      BY <1>1, <1>a DEF Start
    <2> QED BY <2>1
  <1>2. CASE Resume
    <2>1. state' = "running" /\ pc' = "start" /\ late' = FALSE /\ instructions' # 0
          /\ stopping' = FALSE /\ goalMet' = FALSE
          /\ UNCHANGED <<policy, registered, detached>>
      BY <1>2, <1>a DEF Resume
    <2> QED BY <2>1
  <1>3. CASE Stop
    BY <1>3 DEF Stop
  <1>4. CASE Detach
    BY <1>4 DEF Detach
  <1>5. CASE CancelTask
    BY <1>5 DEF CancelTask
  <1>6. CASE WallClockPasses
    BY <1>6 DEF WallClockPasses
  <1>7. CASE HonourStop
    BY <1>7 DEF HonourStop
  <1>8. CASE BudgetSpent
    BY <1>8 DEF BudgetSpent
  <1>9. CASE CallModel
    BY <1>9 DEF CallModel
  <1>10. CASE WrapUp
    BY <1>10 DEF WrapUp
  <1>11. CASE TurnEndsRun
    <2>1. CASE Close("error", goalMet)
      BY <1>11, <2>1 DEF TurnEndsRun
    <2>2. CASE Close("finished", FALSE)
      BY <1>11, <2>2 DEF TurnEndsRun
    <2> QED BY <1>11, <2>1, <2>2 DEF TurnEndsRun
  <1>12. CASE TurnCallsTools
    BY <1>12 DEF TurnCallsTools
  <1>13. CASE ExtendTranscript
    BY <1>13 DEF ExtendTranscript
  <1>14. CASE Finish
    <2>1. PICK met \in BOOLEAN : Close("finished", met)
      BY <1>14 DEF Finish
    <2>2. goalMet' \in BOOLEAN
      BY <2>1
    <2> QED BY <1>14, <2>1, <2>2 DEF Finish
  <1>15. CASE AskOrRead
    BY <1>15 DEF AskOrRead
  <1>16. CASE Deny
    BY <1>16 DEF Deny
  <1>17. CASE RunBlock
    BY <1>17 DEF RunBlock
  <1>18. CASE Change
    BY <1>18 DEF Change
  <1>19. CASE Observe
    BY <1>19 DEF Observe
  <1>20. CASE DispatchFails
    BY <1>20 DEF DispatchFails
  <1>21. CASE Final
    BY <1>21 DEF Final
  <1>22. CASE Open
    BY <1>22 DEF Open
  <1> QED BY <1>1, <1>2, <1>3, <1>4, <1>5, <1>6, <1>7, <1>8, <1>9, <1>10, <1>11, <1>12, <1>13, <1>14, <1>15, <1>16, <1>17, <1>18, <1>19, <1>20, <1>21, <1>22 DEF Next, LoopStep

\* A run is charged to the budgets it was checked against.
LEMMA RunIsMetered == Numbers /\ RunBlock => Numbers'
  <1> SUFFICES ASSUME Numbers, RunBlock PROVE Numbers'
    OBVIOUS
  <1> USE LoopConstants DEF LoopConstants, Numbers, Counters, Metered, TurnAccounted, InTurn
  <1>1. PICK call \in RunTools :
          /\ ~Denied(call)
          /\ runs' = runs + 1
          /\ expensive' = IF Expensive(call) THEN expensive + 1 ELSE expensive
          /\ sent' = [sent EXCEPT ![call] = @ + 1]
    BY DEF RunBlock
  <1>2. /\ pc = "dispatch" /\ turn > 0 /\ pc' = "waiting"
        /\ UNCHANGED <<steps, turn, results, unanswered, changed, instructions>>
    BY DEF RunBlock, Dispatching, transcript
  <1>3. runs < MaxBlockRuns /\ (Expensive(call) => expensive < MaxExpensiveRuns)
    BY <1>1 DEF Denied
  <1>4. Counters' /\ TurnAccounted'
    BY <1>1, <1>2, <1>3
  <1>5. Metered'
    BY <1>1, <1>2 DEF Expensive
  <1> QED BY <1>4, <1>5

\* The counters agree with what was sent and with the turn after every step.
LEMMA NumbersStep == Numbers /\ Next => Numbers'
  <1> SUFFICES ASSUME Numbers, Next PROVE Numbers'
    OBVIOUS
  <1> USE LoopConstants
          DEF LoopConstants, Numbers, Counters, Metered, TurnAccounted, InTurn, status,
              budget, transcript, canvas
  <1>1. CASE Start
    BY <1>1 DEF Start, Begin
  <1>2. CASE Resume
    BY <1>2 DEF Resume, Begin
  <1>3. CASE Stop
    BY <1>3 DEF Stop
  <1>4. CASE Detach
    BY <1>4 DEF Detach
  <1>5. CASE CancelTask
    BY <1>5 DEF CancelTask
  <1>6. CASE WallClockPasses
    BY <1>6 DEF WallClockPasses
  <1>7. CASE HonourStop
    BY <1>7 DEF HonourStop, Close
  <1>8. CASE BudgetSpent
    BY <1>8 DEF BudgetSpent
  <1>9. CASE CallModel
    BY <1>9 DEF CallModel, Exhausted
  <1>10. CASE WrapUp
    BY <1>10 DEF WrapUp, Close
  <1>11. CASE TurnEndsRun
    BY <1>11 DEF TurnEndsRun, Close
  <1>12. CASE TurnCallsTools
    <2>1. PICK n \in 1..MaxCalls : turn' = n /\ unanswered' = unanswered + n
      BY <1>12 DEF TurnCallsTools
    <2>2. pc = "llm" /\ pc' = "dispatch" /\ turn = 0 /\ results = 0 /\ results' = 0
      BY <1>12 DEF TurnCallsTools
    <2>3. UNCHANGED <<steps, runs, expensive, sent, changed, instructions>>
      BY <1>12 DEF TurnCallsTools
    <2>4. n \in Nat /\ n > 0 /\ n <= MaxCalls /\ unanswered' \in Nat
      BY <2>1
    <2> QED BY <2>1, <2>2, <2>3, <2>4
  <1>13. CASE ExtendTranscript
    BY <1>13 DEF ExtendTranscript
  <1>14. CASE Finish
    BY <1>14 DEF Finish, Close, Dispatching
  <1>15. CASE AskOrRead
    BY <1>15 DEF AskOrRead, Dispatching
  <1>16. CASE Deny
    BY <1>16 DEF Deny, Dispatching, NextCall
  <1>17. CASE Change
    BY <1>17 DEF Change, Dispatching
  <1>18. CASE Observe
    BY <1>18 DEF Observe, NextCall
  <1>19. CASE DispatchFails
    BY <1>19 DEF DispatchFails, Close
  <1>20. CASE Final
    BY <1>20 DEF Final
  <1>21. CASE Open
    BY <1>21 DEF Open
  <1> QED BY <1>1, <1>2, <1>3, <1>4, <1>5, <1>6, <1>7, <1>8, <1>9, <1>10, <1>11, <1>12, <1>13, <1>14, <1>15, <1>16, <1>17, <1>18, <1>19, <1>20, <1>21, RunIsMetered DEF Next, LoopStep

\* What reaches the canvas is allowed: only RunBlock and Change put anything
\* there, and both ask _deny first.
LEMMA PolicyStep == Numbers /\ PolicyHolds /\ Next => PolicyHolds'
  <1> SUFFICES ASSUME Numbers, PolicyHolds, Next PROVE PolicyHolds'
    OBVIOUS
  <1> USE DEF Numbers, Counters, PolicyHolds
  <1>1. CASE RunBlock
    <2>1. PICK call \in RunTools : /\ ~Denied(call)
                                   /\ sent' = [sent EXCEPT ![call] = @ + 1]
      BY <1>1 DEF RunBlock
    <2>2. UNCHANGED <<policy, changed>>
      BY <1>1 DEF RunBlock
    <2>3. policy.may_run /\ (Expensive(call) => policy.may_run_expensive)
      BY <2>1 DEF Denied
    <2> QED BY <2>1, <2>2, <2>3 DEF Expensive
  <1>2. CASE Change
    BY <1>2 DEF Change, Denied
  <1>3. CASE Start \/ Resume
    BY <1>3 DEF Start, Resume, Begin
  <1>4. CASE UNCHANGED <<policy, sent, changed>>
    BY <1>4
  <1>5. UNCHANGED <<policy, sent, changed>> \/ RunBlock \/ Change \/ Start \/ Resume
    BY DEF Next, LoopStep, Stop, Detach, CancelTask, WallClockPasses, Open, HonourStop,
           BudgetSpent, CallModel, WrapUp, TurnEndsRun, TurnCallsTools,
           ExtendTranscript, Finish, AskOrRead, Deny, Observe, DispatchFails, Final,
           canvas
  <1> QED BY <1>1, <1>2, <1>3, <1>4, <1>5

\* Every step of the loop or of its session keeps the inductive invariant.
LEMMA StepIInv == IInv /\ [Next]_vars => IInv'
  <1> SUFFICES ASSUME IInv, [Next]_vars PROVE IInv'
    OBVIOUS
  <1>1. CASE Next
    BY <1>1, FlagsStep, NumbersStep, PolicyStep DEF IInv
  <1>2. CASE UNCHANGED vars
    <2> USE DEF vars, status, budget, transcript, canvas
    <2>1. Flags'
      BY <1>2 DEF IInv, Flags, VerdictIsFinal
    <2>2. Numbers' /\ PolicyHolds'
      BY <1>2 DEF IInv, Numbers, Counters, Metered, TurnAccounted, InTurn, PolicyHolds
    <2> QED BY <2>1, <2>2 DEF IInv
  <1> QED BY <1>1, <1>2

LEMMA Invariance == Spec => []IInv
  BY InitIInv, StepIInv, PTL DEF Spec

-----------------------------------------------------------------------------
\* The counters of the loop stay within the budgets of its policy.
THEOREM TypeCorrect == Spec => []TypeOK
  <1>1. IInv => TypeOK
    BY DEF IInv, Flags, Numbers, Counters, TypeOK
  <1> QED BY <1>1, Invariance, PTL

\* No instruction puts more runs, or more paid runs, on the canvas than its
\* budget has, however the turns of the model are made up.
THEOREM RunBudgets == Spec => []RunBudgetsHold
  <1>1. IInv => RunBudgetsHold
    BY LoopConstants DEF LoopConstants, IInv, Numbers, Counters, Metered, RunBudgetsHold
  <1> QED BY <1>1, Invariance, PTL

\* Runs, paid runs and deletions that reach the canvas are within the policy.
THEOREM PolicyRespected == Spec => []PolicyHolds
  <1>1. IInv => PolicyHolds
    BY DEF IInv
  <1> QED BY <1>1, Invariance, PTL

\* Both.
THEOREM SpendingAllowed == Spec => []SpendsAsAllowed
  <1>1. SpendsAsAllowed <=> RunBudgetsHold /\ PolicyHolds
    BY DEF SpendsAsAllowed
  <1> QED BY <1>1, RunBudgets, PolicyRespected, PTL

\* Only a finished loop holds a positive verdict.
THEOREM VerdictFinal == Spec => []VerdictIsFinal
  <1>1. IInv => VerdictIsFinal
    BY DEF IInv, Flags
  <1> QED BY <1>1, Invariance, PTL

\* In its first instruction a loop never calls the model with an unanswered call.
THEOREM FirstRunAnswered == Spec => []FirstRunIsAnswered
  <1>1. IInv => FirstRunIsAnswered
    BY DEF IInv, Numbers, Counters, TurnAccounted, InTurn, FirstRunIsAnswered
  <1> QED BY <1>1, Invariance, PTL

\* What a loop carries from turn to turn is sound: both of the above.
THEOREM HistorySound == Spec => []HistoryIsSound
  <1>1. HistoryIsSound <=> VerdictIsFinal /\ FirstRunIsAnswered
    BY DEF HistoryIsSound
  <1> QED BY <1>1, VerdictFinal, FirstRunAnswered, PTL

\* A loop that was told to stop makes no further call of the model.
THEOREM StopEndsTurns == Spec => NoTurnAfterStop
  <1>1. Next => [stopping /\ pc # "llm" => pc' # "llm"]_vars
    BY DEF Next, LoopStep, Open, HonourStop, BudgetSpent, CallModel, WrapUp, TurnEndsRun,
           TurnCallsTools, ExtendTranscript, Finish, AskOrRead, Deny, RunBlock,
           Change, Observe, DispatchFails, Final, Close, Dispatching,
           Start, Resume, Begin, Stop, Detach, CancelTask, WallClockPasses
  <1>2. [Next]_vars => [stopping /\ pc # "llm" => pc' # "llm"]_vars
    BY <1>1
  <1> QED BY <1>2, PTL DEF Spec, NoTurnAfterStop

-----------------------------------------------------------------------------
(* The loop and its session *)

(* Its one coroutine goes on, from one stage to another. *)
LEMMA CrewGoes ==
    ASSUME NEW from, NEW to, Stage = from, Stage' = to
    PROVE  Life!Goes(1, from, to)
  BY DEF Life!Goes

(* What the coroutine does between entering its loop and leaving it        *)
(* changes nothing the session goes by. *)
LEMMA WorkStutters ==
    ASSUME Open \/ BudgetSpent \/ CallModel \/ TurnCallsTools \/ ExtendTranscript \/ AskOrRead
           \/ Deny \/ RunBlock \/ Change \/ Observe \/ WallClockPasses
    PROVE  Life!Open(1) \/ UNCHANGED Life!lifeVars
  <1>1. CASE Open
    <2>1. Stage = "starting" /\ Stage' = "working" /\ UNCHANGED status
      BY <1>1 DEF Open, Stage
    <2>2. QED
      BY <2>1, CrewGoes DEF Life!Open, status
  <1>2. CASE ~Open
    <2>1. UNCHANGED status /\ Stage' = Stage
      BY <1>2 DEF Stage, BudgetSpent, CallModel, TurnCallsTools, ExtendTranscript, AskOrRead,
                  Deny, RunBlock, Change, Observe, WallClockPasses, Dispatching, NextCall
    <2>2. QED
      BY <2>1 DEF Life!lifeVars, status
  <1>3. QED
    BY <1>1, <1>2

LEMMA LifeStep == IInv /\ [Next]_vars => Life!LifeNext \/ UNCHANGED Life!lifeVars
  <1> SUFFICES ASSUME IInv, [Next]_vars
               PROVE  Life!LifeNext \/ UNCHANGED Life!lifeVars
    OBVIOUS
  <1>0. /\ (instructions = 0 => pc = "away") /\ instructions \in 0..MaxInstructions
        /\ detached \in BOOLEAN /\ registered \in BOOLEAN /\ stopping \in BOOLEAN
    BY DEF IInv, Flags, Numbers, Counters
  <1>1. CASE Start
    <2>1. Stage = "called" /\ Stage' = "starting" /\ state' = "running"
          /\ UNCHANGED <<stopping, detached, registered>>
      BY <1>1 DEF Start, Begin, Stage
    <2>2. QED
      BY <2>1, CrewGoes DEF Life!Begin, Life!LifeNext
  <1>2. CASE Resume
    <2>1. Stage = "away" /\ Stage' = "starting" /\ state' = "running" /\ registered
          /\ state # "running" /\ stopping' = FALSE /\ UNCHANGED <<detached, registered>>
      BY <1>2, LoopConstants DEF LoopConstants, Resume, Begin, Stage
    <2>2. QED
      BY <2>1, CrewGoes DEF Life!Begin, Life!Instructed, Life!LifeNext
  <1>3. CASE Stop \/ Detach
    <2>1. /\ registered /\ registered' = FALSE /\ stopping' = TRUE
          /\ detached' \in {detached, TRUE} /\ state' = state /\ Stage' = Stage
      BY <1>3 DEF Stop, Detach, Stage
    <2>2. QED
      BY <2>1 DEF Life!Drop, Life!LifeNext
  <1>4. CASE CancelTask
    <2>1. /\ ~registered /\ Stage' = "away" /\ UNCHANGED <<stopping, detached, registered>>
          /\ \/ Stage = "starting" /\ state' = state
             \/ Stage \in {"working", "closing"}
                /\ state' = IF state = "running" THEN "stopped" ELSE state
      BY <1>0, <1>4 DEF CancelTask, Stage
    <2>2. QED
      BY <2>1, CrewGoes DEF Life!Cancelled, Life!Settled, Life!LifeNext
  <1>5. CASE HonourStop \/ WrapUp \/ TurnEndsRun \/ Finish \/ DispatchFails
    <2>1. /\ Stage = "working" /\ Stage' = "closing"
          /\ UNCHANGED <<stopping, detached, registered>>
          /\ state' \in {"finished", "error", "stopped"} /\ (state' = "stopped" => stopping)
      BY <1>0, <1>5 DEF HonourStop, WrapUp, TurnEndsRun, Finish, DispatchFails, Close,
                        Dispatching, Stage
    <2>2. QED
      BY <2>1, CrewGoes DEF Life!Close, Life!LifeNext
  <1>6. CASE Final
    <2>1. /\ Stage = "closing" /\ Stage' = "away"
          /\ UNCHANGED <<stopping, detached, registered>>
          /\ state' = IF state = "running" THEN "stopped" ELSE state
      BY <1>0, <1>6 DEF Final, Stage
    <2>2. QED
      BY <2>1, CrewGoes DEF Life!End, Life!Settled, Life!LifeNext
  <1>7. CASE Open \/ BudgetSpent \/ CallModel \/ TurnCallsTools \/ ExtendTranscript
             \/ AskOrRead \/ Deny \/ RunBlock \/ Change \/ Observe \/ WallClockPasses
    BY <1>7, WorkStutters DEF IInv, Life!LifeNext
  <1>8. CASE UNCHANGED vars
    BY <1>8 DEF vars, status, Stage, Life!lifeVars
  <1>9. QED
    BY <1>1, <1>2, <1>3, <1>4, <1>5, <1>6, <1>7, <1>8 DEF Next, LoopStep

(* The loop of BlockAgentLoop keeps AgentLife, the contract it has with    *)
(* its session, for every budget, model, policy and moment of              *)
(* interruption: run() reports "running" first, says "stopped" only when   *)
(* it was told to stop or was cut off, never leaves "running" behind once  *)
(* it has entered its loop, and a dropped loop is not resumed. *)
THEOREM LifeKept == Spec => LivesAsAgreed
  <1>1. Init => Life!LifeInit
    <2>1. Init => Stage = "called"
      BY DEF Init, Stage
    <2>2. QED
      BY <2>1 DEF Init, Life!LifeInit
  <1>2. QED
    BY Invariance, <1>1, LifeStep, PTL DEF Spec, LivesAsAgreed, Life!LifeSpec
=============================================================================
