----------------------------- MODULE Enrichment -----------------------------
(***************************************************************************)
(* Filling created blocks.  A turn of the chat or of the voice relay shows *)
(* the blocks it creates at once, the fillable ones as placeholders; a     *)
(* background task then runs one generator per block and streams every     *)
(* result to the client as it is ready.  A block agent fills its block     *)
(* first and shows it whole.  Clean-up cancels the background tasks, but   *)
(* not the generators they started, and not the voice relay, which is      *)
(* cancelled after them.                                                   *)
(*                                                                         *)
(* What a generator writes on a block is the operator Outcome of Enrichers.*)
(***************************************************************************)
EXTENDS Enrichers

CONSTANTS
    Blocks,     \* the create_block actions, one per block
    Turns,      \* chat turns, voice turns and actions of block agents
    NoTurn,
    Menu        \* what the blocks may be created with, as functions of the block

ASSUME EnrichmentAssumption == NoTurn \notin Turns /\ Menu \subseteq [Blocks -> Request]

(***************************************************************************)
(* The session.                                                            *)
(***************************************************************************)
VARIABLES
    turn,       \* per turn: who took it and how far its streaming task is
    owner,      \* the turn that created a block
    request,    \* what a block was created with, as its enricher reads it
    work,       \* per block: its generator
    reply,      \* how the model answered the generator
    shown,      \* what the client shows of the block
    tracked,    \* _enrich_tasks
    phase,      \* the receive loop, then the steps of cleanup
    linked      \* the client is connected

enrichVars == <<turn, owner, request, work, reply, shown, tracked, phase, linked>>

Stages == {"idle", "sending", "spawned", "streaming", "cancelled", "ended", "lost"}

Phases == {"open", "stopping", "cancelling", "closing", "closed"}

Absent == [type |-> "custom", named |-> FALSE, described |-> FALSE, said |-> {},
           odd |-> FALSE]

EnrichmentTypeOK ==
    /\ turn \in [Turns -> [via : Vias, stage : Stages]]
    /\ owner \in [Blocks -> Turns \cup {NoTurn}]
    /\ request \in [Blocks -> Request]
    /\ work \in [Blocks -> {"none", "running", "done", "taken"}]
    /\ reply \in [Blocks -> Replies \cup {"none"}]
    /\ shown \in [Blocks -> {"absent", "whole", "pending", "filled", "failed"}]
    /\ tracked \subseteq Turns
    /\ phase \in Phases
    /\ linked \in BOOLEAN

EnrichmentInit ==
    /\ turn = [t \in Turns |-> [via |-> "chat", stage |-> "idle"]]
    /\ owner = [b \in Blocks |-> NoTurn]
    /\ request = [b \in Blocks |-> Absent]
    /\ work = [b \in Blocks |-> "none"]
    /\ reply = [b \in Blocks |-> "none"]
    /\ shown = [b \in Blocks |-> "absent"]
    /\ tracked = {}
    /\ phase = "open"
    /\ linked = TRUE

Fillable(b) == request[b].type \in Enrichers

Owned(t) == {b \in Blocks : owner[b] = t}

ToFill(t) == {b \in Owned(t) : Fillable(b)}

Produced(b) == Outcome(request[b], reply[b])

Moves(t, stage) == turn' = [turn EXCEPT ![t].stage = stage]

(* The receive loop is inside a chat turn until the turn has been sent and *)
(* its task started: it notices no disconnect before. *)
InChatTurn == \E t \in Turns : turn[t].via = "chat" /\ turn[t].stage = "sending"

MaySpeak(via) ==
    CASE via = "chat"  -> phase = "open" /\ ~InChatTurn
      [] via = "voice" -> phase \in {"open", "stopping", "cancelling"}
      [] OTHER         -> phase \in {"open", "stopping"}

(* b is created on behalf of turn t with the keys that reach its action. *)
Create(t, via, bs) ==
    /\ turn[t].stage = "idle"
    /\ MaySpeak(via)
    /\ bs # {} /\ \A b \in bs : owner[b] = NoTurn
    /\ owner' = [b \in Blocks |-> IF b \in bs THEN t ELSE owner[b]]
    /\ \E wanted \in {[b \in bs |-> f[b]] : f \in Menu} :
          request' = [b \in Blocks |->
              IF b \in bs THEN [wanted[b] EXCEPT !.said = Heard(via, @)] ELSE request[b]]

(* _stamp_actions and turn_complete: placeholders for what will be filled. *)
TurnCompletes(t, via, bs) ==
    /\ via \in {"chat", "voice"}
    /\ Create(t, via, bs)
    /\ turn' = [turn EXCEPT ![t] = [via |-> via, stage |-> "sending"]]
    /\ shown' = [b \in Blocks |->
          IF b \in bs /\ linked
          THEN IF request'[b].type \in Enrichers THEN "pending" ELSE "whole"
          ELSE shown[b]]
    /\ UNCHANGED <<work, reply, tracked, phase, linked>>

(* _spawn_enrichment, once turn_complete has been sent. *)
Spawns(t) ==
    /\ turn[t].stage = "sending"
    /\ turn[t].via = "voice" => phase # "closing"
    /\ Moves(t, IF ToFill(t) = {} THEN "ended" ELSE "spawned")
    /\ tracked' = IF ToFill(t) = {} THEN tracked ELSE tracked \cup {t}
    /\ UNCHANGED <<owner, request, work, reply, shown, phase, linked>>

(* The voice relay is cancelled, by a stop of the user that timed out or   *)
(* by clean-up, while it waits for the client to take turn_complete. *)
RelayCancelled(t) ==
    /\ turn[t].via = "voice" /\ turn[t].stage = "sending"
    /\ phase \in {"open", "closing"}
    /\ Moves(t, "lost")
    /\ UNCHANGED <<owner, request, work, reply, shown, tracked, phase, linked>>

(* The streaming task starts one generator per fillable block. *)
StreamBegins(t) ==
    /\ turn[t].stage = "spawned"
    /\ Moves(t, "streaming")
    /\ work' = [b \in Blocks |-> IF b \in ToFill(t) THEN "running" ELSE work[b]]
    /\ UNCHANGED <<owner, request, reply, shown, tracked, phase, linked>>

(* _dispatch: a generator ends, whether anybody still waits for it or not. *)
Generates(b) ==
    /\ work[b] = "running"
    /\ work' = [work EXCEPT ![b] = "done"]
    /\ \E answer \in Replies : reply' = [reply EXCEPT ![b] = answer]
    /\ UNCHANGED <<turn, owner, request, shown, tracked, phase, linked>>

(* action_enriched: the patch and the status of a finished generator. *)
Streams(b) ==
    LET t == owner[b] IN
    /\ work[b] = "done"
    /\ turn[t].via # "agent" /\ turn[t].stage = "streaming"
    /\ work' = [work EXCEPT ![b] = "taken"]
    /\ shown' = [shown EXCEPT ![b] =
          IF ~linked THEN @ ELSE IF Produced(b).status = "failed" THEN "failed" ELSE "filled"]
    /\ UNCHANGED <<turn, owner, request, reply, tracked, phase, linked>>

(* (mutant) The first result ends the task. *)
StreamEndsEarly(t) ==
    /\ turn[t].via # "agent" /\ turn[t].stage = "streaming"
    /\ \E b \in ToFill(t) : work[b] = "taken"
    /\ Moves(t, "ended")
    /\ tracked' = tracked \ {t}
    /\ UNCHANGED <<owner, request, work, reply, shown, phase, linked>>

StreamEnds(t) ==
    /\ turn[t].via # "agent" /\ turn[t].stage = "streaming"
    /\ \A b \in ToFill(t) : work[b] = "taken"
    /\ Moves(t, "ended")
    /\ tracked' = tracked \ {t}
    /\ UNCHANGED <<owner, request, work, reply, shown, phase, linked>>

(* The cancellation reaches the streaming task; the generators, tasks of   *)
(* their own, go on. *)
StreamCancelled(t) ==
    /\ turn[t].stage = "cancelled"
    /\ Moves(t, "ended")
    /\ UNCHANGED <<owner, request, work, reply, shown, tracked, phase, linked>>

(* act: an agent has its block filled before the client sees it. *)
AgentCreates(t, b) ==
    /\ Create(t, "agent", {b})
    /\ request'[b].type \in Enrichers
    /\ turn' = [turn EXCEPT ![t] = [via |-> "agent", stage |-> "streaming"]]
    /\ work' = [work EXCEPT ![b] = "running"]
    /\ UNCHANGED <<reply, shown, tracked, phase, linked>>

(* The status is not looked at: the block is created as the action is. *)
AgentApplies(b) ==
    LET t == owner[b] IN
    /\ work[b] = "done"
    /\ turn[t].via = "agent" /\ turn[t].stage = "streaming"
    /\ Moves(t, "ended")
    /\ work' = [work EXCEPT ![b] = "taken"]
    /\ shown' = [shown EXCEPT ![b] = IF linked THEN "whole" ELSE @]
    /\ UNCHANGED <<owner, request, reply, tracked, phase, linked>>

(* An agent's run is cancelled, by a press of its button or by clean-up. *)
AgentCancelled(t) ==
    /\ turn[t].via = "agent" /\ turn[t].stage = "streaming"
    /\ Moves(t, "ended")
    /\ UNCHANGED <<owner, request, work, reply, shown, tracked, phase, linked>>

ClientGoes ==
    /\ linked
    /\ linked' = FALSE
    /\ UNCHANGED <<turn, owner, request, work, reply, shown, tracked, phase>>

(* cleanup, step by step: the agents first. *)
CleanupBegins ==
    /\ phase = "open" /\ ~linked /\ ~InChatTurn
    /\ phase' = "stopping"
    /\ UNCHANGED <<turn, owner, request, work, reply, shown, tracked, linked>>

(* (mutant) Only what streams already is cancelled. *)
CancelsStreaming ==
    /\ phase = "stopping"
    /\ \A t \in Turns : ~(turn[t].via = "agent" /\ turn[t].stage = "streaming")
    /\ turn' = [t \in Turns |->
          IF t \in tracked /\ turn[t].stage = "streaming"
          THEN [turn[t] EXCEPT !.stage = "cancelled"] ELSE turn[t]]
    /\ tracked' = {}
    /\ phase' = "cancelling"
    /\ UNCHANGED <<owner, request, work, reply, shown, linked>>

(* _cancel_enrichment: it yields only when there is something to cancel. *)
CancelsEnrichment ==
    /\ phase = "stopping"
    /\ \A t \in Turns : ~(turn[t].via = "agent" /\ turn[t].stage = "streaming")
    /\ turn' = [t \in Turns |->
          IF t \in tracked THEN [turn[t] EXCEPT !.stage = "cancelled"] ELSE turn[t]]
    /\ tracked' = {}
    /\ phase' = IF tracked = {} THEN "closing" ELSE "cancelling"
    /\ UNCHANGED <<owner, request, work, reply, shown, linked>>

(* The cancelled tasks have ended; the voice relay is cancelled last. *)
CancelsVoice ==
    /\ phase = "cancelling"
    /\ \A t \in Turns : turn[t].stage # "cancelled"
    /\ phase' = "closing"
    /\ UNCHANGED <<turn, owner, request, work, reply, shown, tracked, linked>>

Closes ==
    /\ phase = "closing"
    /\ \A t \in Turns : turn[t].stage # "sending"
    /\ phase' = "closed"
    /\ UNCHANGED <<turn, owner, request, work, reply, shown, tracked, linked>>

BlocksAppear ==
    \/ \E t \in Turns, via \in Vias, bs \in SUBSET Blocks : TurnCompletes(t, via, bs)
    \/ \E t \in Turns, b \in Blocks : AgentCreates(t, b)

BlocksAreFilled ==
    \/ \E t \in Turns : \/ Spawns(t) \/ RelayCancelled(t) \/ StreamBegins(t)
                        \/ StreamEnds(t) \/ StreamCancelled(t) \/ AgentCancelled(t)
    \/ \E b \in Blocks : Generates(b) \/ Streams(b) \/ AgentApplies(b)
    \/ ClientGoes \/ CleanupBegins \/ CancelsEnrichment \/ CancelsVoice \/ Closes

EnrichmentNext == BlocksAppear \/ BlocksAreFilled

EnrichmentSpec == EnrichmentInit /\ [][EnrichmentNext]_enrichVars

(* Every coroutine and every call of the model gets on. *)
TurnGoesOn(t) == Spawns(t) \/ StreamBegins(t) \/ StreamEnds(t) \/ StreamCancelled(t)

BlockGoesOn(b) == Generates(b) \/ Streams(b) \/ AgentApplies(b)

(***************************************************************************)
(* Properties.                                                             *)
(***************************************************************************)
(* The promise to the client, of which the session is an implementation:   *)
(* a turn that lost its relay abandons its placeholders. *)
Promise == INSTANCE Placeholders WITH
    open <- linked,
    abandoned <- {b \in Blocks : owner[b] # NoTurn /\ turn[owner[b]].stage = "lost"}

PlaceholdersAreSettled == Promise!ShownSpec

(* enrichment.py says that "ok" means content produced or nothing to do.   *)
(* It does, but for an empty reply to a code or written block, which is    *)
(* reported as ok; and what failed brings no content. *)
OkMeansContent ==
    \A b \in Blocks : work[b] = "done" =>
        /\ (Produced(b).status = "ok" /\ Asks(request[b])) =>
              \/ Produced(b).content
              \/ reply[b] = "nothing" /\ request[b].type \in Written \cup {"code"}
        /\ Produced(b).status = "failed" => ~Produced(b).content

(* What the user said about a block is on the block whenever it has ports: *)
(* neither a description, nor a default, nor a failed generation displaces *)
(* it, but for the cases of MayBeLost; and a block that is laid out        *)
(* without a model has its ports, as has a written block unless a call     *)
(* raised something that its enricher does not catch. *)
SaidIsKept ==
    \A b \in Blocks :
        LET r == request[b]
            made == Produced(b)
        IN  (work[b] = "done" /\ r.named) =>
              /\ made.ports # "none" =>
                    \A m \in Promised(r.type) :
                        (m[1] \in r.said /\ ~MayBeLost(r, reply[b], m[1])) =>
                            <<m[2], "said">> \in made.filled
              /\ r.type \in Drawn \cup {"claw", "memory"} => made.ports = "scaffold"
              /\ (r.type \in Written /\ made.ports = "none") =>
                    reply[b] = "outage" \/ (r.type = "testbench" /\ reply[b] = "valueError")

(* Both. *)
OutcomesAreHonest == OkMeansContent /\ SaidIsKept

(* router.py says that the background tasks are cancelled on clean-up and  *)
(* do not outlive the session.  Of the tasks themselves only those of the  *)
(* voice relay do, which is cancelled after them. *)
OnlyVoiceOutlives ==
    phase \in {"closing", "closed"} =>
        \A t \in Turns : turn[t].stage \in {"spawned", "streaming"} => turn[t].via = "voice"
=============================================================================
