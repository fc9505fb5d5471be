----------------------------- MODULE AgentLife -----------------------------
(***************************************************************************)
(* What a block agent's loop object and its session take each other to do: *)
(* who may set the loop going, what its state says of the coroutines that  *)
(* run it, and what is left of it when the session has dropped it.  The    *)
(* loop as it is written (BlockAgentLoop) and the session that keeps many  *)
(* of them (AgentSession) both implement this.                             *)
(***************************************************************************)
CONSTANT Seats      \* the coroutines that may ever run the loop

VARIABLES
    state,          \* what the loop says of itself
    stopping,       \* it has been told to stop
    detached,       \* it has been silenced
    held,           \* its session has not dropped it
    crew            \* how far each of its coroutines is

lifeVars == <<state, stopping, detached, held, crew>>

Stages == {"away", "called", "starting", "working", "closing"}

(* A loop is built for a first coroutine, which may be called with it. *)
LifeInit ==
    /\ state = "idle"
    /\ stopping = FALSE /\ detached = FALSE /\ held = TRUE
    /\ crew \in [Seats -> {"away", "called"}]

Goes(s, from, to) ==
    /\ crew[s] = from
    /\ crew' = [crew EXCEPT ![s] = to]

(* Only a loop that is held and not running is given work, and then no     *)
(* stop of before counts. *)
Instructed ==
    /\ held
    /\ state # "running"
    /\ stopping' = FALSE
    /\ UNCHANGED <<detached, held>>

Call(s) ==
    /\ Goes(s, "away", "called")
    /\ Instructed
    /\ UNCHANGED state

(* A coroutine begins when it was called, or with the call. *)
Begin(s) ==
    /\ state' = "running"
    /\ \/ Goes(s, "called", "starting") /\ UNCHANGED <<stopping, detached, held>>
       \/ Goes(s, "away", "starting") /\ Instructed

Open(s) ==
    /\ Goes(s, "starting", "working")
    /\ UNCHANGED <<state, stopping, detached, held>>

(* The work is finished or failed; it is stopped only if that was asked. *)
Close(s) ==
    /\ Goes(s, "working", "closing")
    /\ state' \in {"finished", "error", "stopped"}
    /\ state' = "stopped" => stopping
    /\ UNCHANGED <<stopping, detached, held>>

(* Whoever leaves after the work does not leave it running. *)
Settled == IF state = "running" THEN "stopped" ELSE state

End(s) ==
    /\ Goes(s, "closing", "away")
    /\ state' = Settled
    /\ UNCHANGED <<stopping, detached, held>>

(* Only a loop that was dropped loses a coroutine in the middle; one that  *)
(* was lost before its work began leaves the state behind. *)
Cancelled(s) ==
    /\ ~held
    /\ \/ \E from \in {"called", "starting"} : Goes(s, from, "away") /\ UNCHANGED state
       \/ \E from \in {"working", "closing"} : Goes(s, from, "away") /\ state' = Settled
    /\ UNCHANGED <<stopping, detached, held>>

(* The session lets go of a loop for good, and tells it to stop. *)
Drop ==
    /\ held
    /\ held' = FALSE
    /\ stopping' = TRUE
    /\ detached' \in {detached, TRUE}
    /\ UNCHANGED <<state, crew>>

LifeNext ==
    \/ \E s \in Seats : Call(s) \/ Begin(s) \/ Open(s) \/ Close(s) \/ End(s) \/ Cancelled(s)
    \/ Drop

LifeSpec == LifeInit /\ [][LifeNext]_lifeVars
=============================================================================
