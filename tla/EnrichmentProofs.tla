-------------------------- MODULE EnrichmentProofs --------------------------
(***************************************************************************)
(* Theorems about Enrichment, for any number of blocks and turns and any   *)
(* menu of requests.                                                       *)
(***************************************************************************)
EXTENDS Enrichment, TLAPS

Begun == {"spawned", "streaming"}

(* What a turn rests on: agents stream at once; a chat turn is sent while  *)
(* the receive loop is open; and until the clean-up cancels, the tracked   *)
(* tasks are those that fill something for a turn. *)
TurnSound(t) ==
    /\ turn[t].via = "agent" => turn[t].stage \in {"streaming", "ended"}
    /\ turn[t].via = "chat" /\ turn[t].stage = "sending" => phase = "open"
    /\ t \in tracked => turn[t].stage \in Begun /\ turn[t].via # "agent"
    /\ turn[t].stage \in Begun =>
          \/ phase \in {"open", "stopping"} /\ (t \in tracked \/ turn[t].via = "agent")
          \/ phase \in {"cancelling", "closing", "closed"} /\ turn[t].via = "voice"

TurnsSound == \A t \in Turns : TurnSound(t)

(* What a block rests on: nothing of it is seen or done before a turn owns *)
(* it; it is generated only in a turn that streams, or that did; to a      *)
(* client that stays a turn's fillable block is a placeholder until its    *)
(* result is taken, and an agent's is not there. *)
BlockSound(b) ==
    /\ owner[b] = NoTurn => shown[b] = "absent" /\ work[b] = "none"
    /\ owner[b] # NoTurn => turn[owner[b]].stage # "idle"
    /\ work[b] # "none" =>
          Fillable(b) /\ turn[owner[b]].stage \in {"streaming", "cancelled", "ended"}
    /\ shown[b] \in {"filled", "failed"} => work[b] = "taken"
    /\ (owner[b] # NoTurn /\ work[b] # "taken" /\ turn[owner[b]].via = "agent")
          => shown[b] = "absent"
    /\ (linked /\ owner[b] # NoTurn /\ work[b] # "taken" /\ Fillable(b)
          /\ turn[owner[b]].via # "agent") => shown[b] = "pending"

BlocksSound == \A b \in Blocks : BlockSound(b)

IInv == EnrichmentTypeOK /\ TurnsSound /\ BlocksSound

-----------------------------------------------------------------------------
(* Types *)

(* A created block has a request, whoever asked for it. *)
LEMMA RequestTyped ==
    ASSUME EnrichmentTypeOK, NEW t \in Turns, NEW via \in Vias, NEW bs \in SUBSET Blocks,
           Create(t, via, bs)
    PROVE  /\ request' \in [Blocks -> Request]
           /\ owner' \in [Blocks -> Turns \cup {NoTurn}]
  <1>1. ASSUME NEW r \in Request
        PROVE  [r EXCEPT !.said = Heard(via, @)] \in Request
    BY DEF Request, Heard
  <1>2. PICK wanted \in {[b \in bs |-> f[b]] : f \in Menu} :
            request' = [b \in Blocks |->
                IF b \in bs THEN [wanted[b] EXCEPT !.said = Heard(via, @)] ELSE request[b]]
    BY DEF Create
  <1>3. ASSUME NEW b \in bs
        PROVE  wanted[b] \in Request
    BY EnrichmentAssumption
  <1>4. request' \in [Blocks -> Request]
    BY <1>1, <1>2, <1>3 DEF EnrichmentTypeOK
  <1>5. QED
    BY <1>4 DEF Create, EnrichmentTypeOK

LEMMA TypeStep == EnrichmentTypeOK /\ [EnrichmentNext]_enrichVars => EnrichmentTypeOK'
  <1> SUFFICES ASSUME EnrichmentTypeOK, [EnrichmentNext]_enrichVars
               PROVE  EnrichmentTypeOK'
    OBVIOUS
  <1>1. ASSUME NEW t \in Turns, NEW via \in Vias, NEW bs \in SUBSET Blocks,
               TurnCompletes(t, via, bs)
        PROVE  EnrichmentTypeOK'
    <2>1. request' \in [Blocks -> Request] /\ owner' \in [Blocks -> Turns \cup {NoTurn}]
      BY <1>1, RequestTyped DEF TurnCompletes
    <2>2. QED
      BY <1>1, <2>1 DEF TurnCompletes, EnrichmentTypeOK, Stages
  <1>2. ASSUME NEW t \in Turns, NEW b \in Blocks, AgentCreates(t, b)
        PROVE  EnrichmentTypeOK'
    <2>1. "agent" \in Vias /\ {b} \in SUBSET Blocks
      BY DEF Vias
    <2>2. request' \in [Blocks -> Request] /\ owner' \in [Blocks -> Turns \cup {NoTurn}]
      BY <1>2, <2>1, RequestTyped DEF AgentCreates
    <2>3. QED
      BY <1>2, <2>1, <2>2 DEF AgentCreates, EnrichmentTypeOK, Stages
  <1>3. ASSUME NEW t \in Turns, Spawns(t)
        PROVE  EnrichmentTypeOK'
    BY <1>3 DEF Spawns, Moves, EnrichmentTypeOK, Stages
  <1>4. ASSUME NEW t \in Turns,
               RelayCancelled(t) \/ StreamCancelled(t) \/ AgentCancelled(t) \/ StreamEnds(t)
        PROVE  EnrichmentTypeOK'
    BY <1>4 DEF RelayCancelled, StreamCancelled, AgentCancelled, StreamEnds, Moves,
                EnrichmentTypeOK, Stages
  <1>5. ASSUME NEW t \in Turns, StreamBegins(t)
        PROVE  EnrichmentTypeOK'
    BY <1>5 DEF StreamBegins, Moves, EnrichmentTypeOK, Stages
  <1>6. ASSUME NEW b \in Blocks, Generates(b)
        PROVE  EnrichmentTypeOK'
    BY <1>6 DEF Generates, EnrichmentTypeOK
  <1>7. ASSUME NEW b \in Blocks, Streams(b)
        PROVE  EnrichmentTypeOK'
    BY <1>7 DEF Streams, EnrichmentTypeOK
  <1>8. ASSUME NEW b \in Blocks, AgentApplies(b)
        PROVE  EnrichmentTypeOK'
    BY <1>8 DEF AgentApplies, Moves, EnrichmentTypeOK, Stages
  <1>9. CASE ClientGoes \/ CleanupBegins \/ CancelsVoice \/ Closes
    BY <1>9 DEF ClientGoes, CleanupBegins, CancelsVoice, Closes, EnrichmentTypeOK, Phases
  <1>10. CASE CancelsEnrichment
    BY <1>10 DEF CancelsEnrichment, EnrichmentTypeOK, Phases, Stages
  <1>11. CASE UNCHANGED enrichVars
    BY <1>11 DEF enrichVars, EnrichmentTypeOK
  <1>12. QED
    BY <1>1, <1>2, <1>3, <1>4, <1>5, <1>6, <1>7, <1>8, <1>9, <1>10, <1>11
       DEF EnrichmentNext, BlocksAppear, BlocksAreFilled

-----------------------------------------------------------------------------
(* Turns *)

LEMMA TurnsStep ==
    EnrichmentTypeOK /\ TurnsSound /\ [EnrichmentNext]_enrichVars => TurnsSound'
  <1> SUFFICES ASSUME EnrichmentTypeOK, TurnsSound, [EnrichmentNext]_enrichVars
               PROVE  TurnsSound'
    OBVIOUS
  <1> USE DEF EnrichmentTypeOK, TurnsSound, TurnSound, Begun
  <1>1. ASSUME NEW t \in Turns, NEW via \in Vias, NEW bs \in SUBSET Blocks,
               TurnCompletes(t, via, bs)
        PROVE  TurnsSound'
    BY <1>1 DEF TurnCompletes, Create, MaySpeak
  <1>2. ASSUME NEW t \in Turns, NEW b \in Blocks, AgentCreates(t, b)
        PROVE  TurnsSound'
    BY <1>2 DEF AgentCreates, Create, MaySpeak
  <1>3. ASSUME NEW t \in Turns, Spawns(t)
        PROVE  TurnsSound'
    BY <1>3, TypeStep DEF Spawns, Moves, Stages, Phases, Vias
  <1>4. ASSUME NEW t \in Turns,
               RelayCancelled(t) \/ StreamCancelled(t) \/ AgentCancelled(t) \/ StreamEnds(t)
        PROVE  TurnsSound'
    BY <1>4 DEF RelayCancelled, StreamCancelled, AgentCancelled, StreamEnds, Moves
  <1>5. ASSUME NEW t \in Turns, StreamBegins(t)
        PROVE  TurnsSound'
    BY <1>5 DEF StreamBegins, Moves
  <1>6. ASSUME NEW b \in Blocks, Generates(b) \/ Streams(b)
        PROVE  TurnsSound'
    BY <1>6 DEF Generates, Streams
  <1>7. ASSUME NEW b \in Blocks, AgentApplies(b)
        PROVE  TurnsSound'
    BY <1>7 DEF AgentApplies, Moves
  <1>8. CASE ClientGoes
    BY <1>8 DEF ClientGoes
  <1>9. CASE CleanupBegins
    BY <1>9 DEF CleanupBegins, InChatTurn
  <1>10. CASE CancelsEnrichment
    BY <1>10 DEF CancelsEnrichment
  <1>11. CASE CancelsVoice \/ Closes
    BY <1>11 DEF CancelsVoice, Closes
  <1>12. CASE UNCHANGED enrichVars
    BY <1>12 DEF enrichVars
  <1>13. QED
    BY <1>1, <1>2, <1>3, <1>4, <1>5, <1>6, <1>7, <1>8, <1>9, <1>10, <1>11, <1>12
       DEF EnrichmentNext, BlocksAppear, BlocksAreFilled

-----------------------------------------------------------------------------
(* Blocks *)

(* A turn that is idle owns nothing. *)
LEMMA IdleOwnsNothing ==
    ASSUME EnrichmentTypeOK, BlocksSound, NEW t \in Turns, turn[t].stage = "idle",
           NEW b \in Blocks
    PROVE  owner[b] # t
  BY EnrichmentAssumption DEF BlocksSound, BlockSound

(* A turn whose blocks are created keeps the other blocks as they are. *)
LEMMA CreateKeepsOthers ==
    ASSUME EnrichmentTypeOK, BlocksSound, NEW t \in Turns, NEW via \in Vias,
           NEW bs \in SUBSET Blocks, Create(t, via, bs),
           turn' = [turn EXCEPT ![t] = turn'[t]],
           NEW b \in Blocks, b \notin bs,
           work'[b] = work[b], shown'[b] = shown[b], linked' = linked
    PROVE  BlockSound(b)'
  <1>1. owner'[b] = owner[b] /\ request'[b] = request[b]
    BY DEF Create
  <1>2. owner[b] # t
    BY IdleOwnsNothing DEF Create
  <1>3. owner[b] # NoTurn => turn'[owner[b]] = turn[owner[b]]
    BY <1>2 DEF EnrichmentTypeOK
  <1>4. QED
    BY <1>1, <1>3 DEF BlocksSound, BlockSound, Fillable

LEMMA BlocksStep ==
    EnrichmentTypeOK /\ TurnsSound /\ BlocksSound /\ [EnrichmentNext]_enrichVars
        => BlocksSound'
  <1> SUFFICES ASSUME EnrichmentTypeOK, TurnsSound, BlocksSound, [EnrichmentNext]_enrichVars
               PROVE  BlocksSound'
    OBVIOUS
  <1> USE DEF EnrichmentTypeOK
  <1>1. ASSUME NEW t \in Turns, NEW via \in Vias, NEW bs \in SUBSET Blocks,
               TurnCompletes(t, via, bs)
        PROVE  BlocksSound'
    <2> SUFFICES ASSUME NEW b \in Blocks PROVE BlockSound(b)'
      BY DEF BlocksSound
    <2>1. CASE b \notin bs
      BY <1>1, <2>1, CreateKeepsOthers DEF TurnCompletes
    <2>2. CASE b \in bs
      <3>1. owner[b] = NoTurn /\ owner'[b] = t /\ work'[b] = "none" /\ shown[b] = "absent"
        BY <1>1, <2>2 DEF TurnCompletes, Create, BlocksSound, BlockSound
      <3>2. turn'[t].via = via /\ turn'[t].stage = "sending" /\ via # "agent"
        BY <1>1 DEF TurnCompletes
      <3>3. shown'[b] = IF linked THEN IF Fillable(b)' THEN "pending" ELSE "whole" ELSE "absent"
        BY <1>1, <2>2, <3>1 DEF TurnCompletes, Fillable
      <3>4. QED
        BY <1>1, <3>1, <3>2, <3>3, EnrichmentAssumption DEF TurnCompletes, BlockSound
    <2>3. QED
      BY <2>1, <2>2
  <1>2. ASSUME NEW t \in Turns, NEW c \in Blocks, AgentCreates(t, c)
        PROVE  BlocksSound'
    <2> SUFFICES ASSUME NEW b \in Blocks PROVE BlockSound(b)'
      BY DEF BlocksSound
    <2>1. "agent" \in Vias /\ {c} \in SUBSET Blocks
      BY DEF Vias
    <2>2. CASE b # c
      <3>1. Create(t, "agent", {c}) /\ b \notin {c}
        BY <1>2, <2>2 DEF AgentCreates
      <3>2. turn' = [turn EXCEPT ![t] = turn'[t]]
        BY <1>2 DEF AgentCreates
      <3>3. work'[b] = work[b] /\ shown'[b] = shown[b] /\ linked' = linked
        BY <1>2, <2>2 DEF AgentCreates
      <3>4. QED
        BY <2>1, <3>1, <3>2, <3>3, CreateKeepsOthers
    <2>3. CASE b = c
      <3>1. owner[b] = NoTurn /\ owner'[b] = t /\ work'[b] = "running" /\ shown'[b] = "absent"
        BY <1>2, <2>3 DEF AgentCreates, Create, BlocksSound, BlockSound
      <3>2. turn'[t].via = "agent" /\ turn'[t].stage = "streaming" /\ Fillable(b)'
        BY <1>2, <2>3 DEF AgentCreates, Fillable
      <3>3. QED
        BY <3>1, <3>2, EnrichmentAssumption DEF BlockSound
    <2>4. QED
      BY <2>2, <2>3
  <1>3. ASSUME NEW t \in Turns,
               \/ Spawns(t) \/ RelayCancelled(t) \/ StreamCancelled(t)
               \/ AgentCancelled(t) \/ StreamEnds(t)
        PROVE  BlocksSound'
    <2> SUFFICES ASSUME NEW b \in Blocks PROVE BlockSound(b)'
      BY DEF BlocksSound
    <2>1. owner' = owner /\ work' = work /\ shown' = shown /\ linked' = linked /\ request' = request
      BY <1>3 DEF Spawns, RelayCancelled, StreamCancelled, AgentCancelled, StreamEnds
    <2>2. PICK stage \in Stages \ {"idle"} : Moves(t, stage)
      BY <1>3 DEF Spawns, RelayCancelled, StreamCancelled, AgentCancelled, StreamEnds, Stages
    <2>3. stage \in {"streaming", "cancelled", "ended"}
              \/ turn[t].stage \notin {"streaming", "cancelled", "ended"}
      BY <1>3, <2>2 DEF Spawns, RelayCancelled, StreamCancelled, AgentCancelled, StreamEnds, Moves
    <2>4. \A o \in Turns : /\ turn'[o].via = turn[o].via
                           /\ turn'[o].stage = IF o = t THEN stage ELSE turn[o].stage
      BY <2>2 DEF Moves
    <2>5. QED
      BY <2>1, <2>2, <2>3, <2>4 DEF BlocksSound, BlockSound, Fillable
  <1>4. ASSUME NEW t \in Turns, StreamBegins(t)
        PROVE  BlocksSound'
    BY <1>4, EnrichmentAssumption
       DEF StreamBegins, Moves, BlocksSound, BlockSound, Fillable, ToFill, Owned
  <1>5. ASSUME NEW b \in Blocks, Generates(b)
        PROVE  BlocksSound'
    BY <1>5 DEF Generates, BlocksSound, BlockSound, Fillable
  <1>6. ASSUME NEW b \in Blocks, Streams(b)
        PROVE  BlocksSound'
    BY <1>6 DEF Streams, BlocksSound, BlockSound, Fillable
  <1>7. ASSUME NEW b \in Blocks, AgentApplies(b)
        PROVE  BlocksSound'
    BY <1>7 DEF AgentApplies, Moves, BlocksSound, BlockSound, Fillable
  <1>8. CASE ClientGoes \/ CleanupBegins \/ CancelsVoice \/ Closes
    BY <1>8 DEF ClientGoes, CleanupBegins, CancelsVoice, Closes,
                BlocksSound, BlockSound, Fillable
  <1>9. CASE CancelsEnrichment
    BY <1>9, EnrichmentAssumption
       DEF CancelsEnrichment, TurnsSound, TurnSound, Begun, BlocksSound, BlockSound, Fillable
  <1>10. CASE UNCHANGED enrichVars
    BY <1>10 DEF enrichVars, BlocksSound, BlockSound, Fillable
  <1>11. QED
    BY <1>1, <1>2, <1>3, <1>4, <1>5, <1>6, <1>7, <1>8, <1>9, <1>10
       DEF EnrichmentNext, BlocksAppear, BlocksAreFilled

-----------------------------------------------------------------------------
(* Theorems *)

LEMMA Initially == EnrichmentInit => IInv
  <1> SUFFICES ASSUME EnrichmentInit PROVE IInv
    OBVIOUS
  <1>1. Absent \in Request
    BY DEF Absent, Request, Types
  <1>2. EnrichmentTypeOK
    BY <1>1 DEF EnrichmentInit, EnrichmentTypeOK, Vias, Stages, Phases
  <1>3. TurnsSound /\ BlocksSound
    BY <1>2, EnrichmentAssumption
       DEF EnrichmentInit, TurnsSound, TurnSound, Begun, BlocksSound, BlockSound
  <1>4. QED
    BY <1>2, <1>3 DEF IInv

LEMMA Inductive == IInv /\ [EnrichmentNext]_enrichVars => IInv'
  BY TypeStep, TurnsStep, BlocksStep DEF IInv

LEMMA Invariance == EnrichmentSpec => []IInv
  BY Initially, Inductive, PTL DEF EnrichmentSpec

(* The state has its type: a turn is at one of the stages of its streaming *)
(* task, and a created block keeps a request its enricher can read. *)
THEOREM TypeCorrect == EnrichmentSpec => []EnrichmentTypeOK
  <1>1. IInv => EnrichmentTypeOK
    BY DEF IInv
  <1>2. QED
    BY Invariance, <1>1, PTL

(* Once clean-up has cancelled the enrichment of a session, every task     *)
(* that still fills blocks belongs to a turn of the voice relay, however   *)
(* many turns and blocks there are. *)
THEOREM OnlyVoice == EnrichmentSpec => []OnlyVoiceOutlives
  <1>1. IInv => OnlyVoiceOutlives
    BY DEF IInv, EnrichmentTypeOK, TurnsSound, TurnSound, Begun, OnlyVoiceOutlives
  <1>2. QED
    BY Invariance, <1>1, PTL

-----------------------------------------------------------------------------
(* The promise to the client *)

Lost == {b \in Blocks : owner[b] # NoTurn /\ turn[owner[b]].stage = "lost"}

(* A turn that creates blocks was never lost. *)
LEMMA CreateLosesNone ==
    ASSUME IInv, NEW t \in Turns, NEW via \in Vias, NEW bs \in SUBSET Blocks,
           Create(t, via, bs), turn' = [turn EXCEPT ![t] = turn'[t]],
           turn'[t].stage # "lost"
    PROVE  Lost' = Lost
  <1>1. ASSUME NEW b \in Blocks
        PROVE  b \in Lost' <=> b \in Lost
    <2>1. owner[b] # t
      BY IdleOwnsNothing DEF IInv, Create
    <2>2. CASE b \in bs
      BY <2>2, EnrichmentAssumption DEF Lost, Create
    <2>3. CASE b \notin bs
      <3>1. owner'[b] = owner[b]
        BY <2>3 DEF Create
      <3>2. owner[b] # NoTurn => turn'[owner[b]] = turn[owner[b]]
        BY <2>1 DEF IInv, EnrichmentTypeOK
      <3>3. QED
        BY <3>1, <3>2 DEF Lost
    <2>4. QED
      BY <2>2, <2>3
  <1>2. QED
    BY <1>1 DEF Lost

(* A turn that appears is one step of the promise, or none to a client     *)
(* that has gone. *)
LEMMA TurnAppears ==
    ASSUME IInv, NEW t \in Turns, NEW via \in Vias, NEW bs \in SUBSET Blocks,
           TurnCompletes(t, via, bs)
    PROVE  Promise!Appear \/ UNCHANGED Promise!shownVars
  <1>1. Lost' = Lost
    BY CreateLosesNone DEF TurnCompletes, IInv, EnrichmentTypeOK
  <1>2. \A b \in bs : shown[b] = "absent"
    BY DEF TurnCompletes, Create, IInv, BlocksSound, BlockSound
  <1>3. CASE linked
    <2> DEFINE pending == {b \in bs : request'[b].type \in Enrichers}
               whole   == bs \ pending
    <2>1. /\ whole \in SUBSET {b \in Blocks : shown[b] = "absent"}
          /\ pending \in SUBSET {b \in Blocks : shown[b] = "absent"}
          /\ whole \cap pending = {} /\ whole \cup pending = bs /\ bs # {}
      BY <1>2 DEF TurnCompletes, Create
    <2>2. shown' = [b \in Blocks |-> IF b \in whole THEN "whole"
                                     ELSE IF b \in pending THEN "pending" ELSE shown[b]]
      BY <1>3 DEF TurnCompletes
    <2> HIDE DEF pending, whole
    <2>3. linked' = linked
      BY DEF TurnCompletes
    <2>4. QED
      BY <1>1, <1>3, <2>1, <2>2, <2>3 DEF Promise!Appear, Lost
  <1>4. CASE ~linked
    <2>1. shown' = shown /\ linked' = linked
      BY <1>4 DEF TurnCompletes, IInv, EnrichmentTypeOK
    <2>2. QED
      BY <1>1, <2>1 DEF Promise!shownVars, Lost
  <1>5. QED
    BY <1>3, <1>4

(* A result that is streamed settles a placeholder of a turn that was not  *)
(* cut off. *)
LEMMA ResultSettles ==
    ASSUME IInv, NEW b \in Blocks, Streams(b)
    PROVE  Promise!Settle(b) \/ UNCHANGED Promise!shownVars
  <1>1. Lost' = Lost
    BY DEF Streams, Lost
  <1>2. owner[b] # NoTurn /\ b \notin Lost /\ linked' = linked
    BY DEF Streams, Lost, IInv, BlocksSound, BlockSound
  <1>3. CASE linked
    <2>1. shown[b] = "pending"
      BY <1>2, <1>3 DEF Streams, IInv, BlocksSound, BlockSound
    <2>2. PICK view \in {"filled", "failed"} : shown' = [shown EXCEPT ![b] = view]
      BY <1>3 DEF Streams
    <2>3. QED
      BY <1>1, <1>2, <1>3, <2>1, <2>2 DEF Promise!Settle, Promise!SettlesAs, Lost
  <1>4. CASE ~linked
    <2>1. shown' = shown
      BY <1>4 DEF Streams, IInv, EnrichmentTypeOK
    <2>2. QED
      BY <1>1, <1>2, <2>1 DEF Promise!shownVars, Lost
  <1>5. QED
    BY <1>3, <1>4

(* An agent's block appears once, whole. *)
LEMMA AgentsBlockAppears ==
    ASSUME IInv, NEW b \in Blocks, AgentApplies(b)
    PROVE  Promise!Appear \/ UNCHANGED Promise!shownVars
  <1>1. owner[b] # NoTurn /\ shown[b] = "absent" /\ linked' = linked
    BY DEF AgentApplies, IInv, BlocksSound, BlockSound
  <1>2. ASSUME NEW o \in Turns
        PROVE  turn'[o].stage = "lost" <=> turn[o].stage = "lost"
    BY <1>1 DEF AgentApplies, Moves, IInv, EnrichmentTypeOK
  <1>3. Lost' = Lost
    BY <1>2 DEF AgentApplies, Lost, IInv, EnrichmentTypeOK
  <1>4. CASE linked
    <2>1. /\ {b} \in SUBSET {c \in Blocks : shown[c] = "absent"}
          /\ {} \in SUBSET {c \in Blocks : shown[c] = "absent"}
          /\ {b} \cap {} = {} /\ {b} \cup {} # {}
      BY <1>1
    <2>2. shown' = [c \in Blocks |-> IF c \in {b} THEN "whole"
                                     ELSE IF c \in {} THEN "pending" ELSE shown[c]]
      BY <1>4 DEF AgentApplies, IInv, EnrichmentTypeOK
    <2>3. QED
      BY <1>1, <1>3, <1>4, <2>1, <2>2 DEF Promise!Appear, Lost
  <1>5. CASE ~linked
    <2>1. shown' = shown
      BY <1>5 DEF AgentApplies, IInv, EnrichmentTypeOK
    <2>2. QED
      BY <1>1, <1>3, <2>1 DEF Promise!shownVars, Lost
  <1>6. QED
    BY <1>4, <1>5

(* A turn whose relay is cancelled had settled nothing yet. *)
LEMMA LostTurnCutsOff ==
    ASSUME IInv, NEW t \in Turns, RelayCancelled(t)
    PROVE  Promise!CutOff
  <1>1. Lost' = Lost \cup Owned(t)
    BY EnrichmentAssumption
       DEF RelayCancelled, Moves, Lost, Owned, IInv, EnrichmentTypeOK
  <1>2. \A b \in Owned(t) : shown[b] \notin {"filled", "failed"}
    BY EnrichmentAssumption
       DEF RelayCancelled, Owned, IInv, EnrichmentTypeOK, BlocksSound, BlockSound
  <1>3. Owned(t) \in SUBSET Blocks
    BY DEF Owned
  <1>4. shown' = shown /\ linked' = linked
    BY DEF RelayCancelled
  <1>5. QED
    BY <1>1, <1>2, <1>3, <1>4 DEF Promise!CutOff, Lost

(* The other steps of a turn are not seen by the client. *)
LEMMA TurnStutters ==
    ASSUME IInv, NEW t \in Turns,
           \/ Spawns(t) \/ StreamBegins(t) \/ StreamEnds(t)
           \/ StreamCancelled(t) \/ AgentCancelled(t)
    PROVE  UNCHANGED Promise!shownVars
  <1>1. shown' = shown /\ linked' = linked /\ owner' = owner
    BY DEF Spawns, StreamBegins, StreamEnds, StreamCancelled, AgentCancelled
  <1>2. ASSUME NEW o \in Turns
        PROVE  turn'[o].stage = "lost" <=> turn[o].stage = "lost"
    BY DEF Spawns, StreamBegins, StreamEnds, StreamCancelled, AgentCancelled, Moves,
           IInv, EnrichmentTypeOK
  <1>3. QED
    BY <1>1, <1>2 DEF Promise!shownVars, IInv, EnrichmentTypeOK

(* Nor are the steps of clean-up. *)
LEMMA CleanupStutters ==
    ASSUME IInv, CleanupBegins \/ CancelsEnrichment \/ CancelsVoice \/ Closes
    PROVE  UNCHANGED Promise!shownVars
  <1>1. shown' = shown /\ linked' = linked /\ owner' = owner
    BY DEF CleanupBegins, CancelsEnrichment, CancelsVoice, Closes
  <1>2. ASSUME NEW o \in Turns
        PROVE  turn'[o].stage = "lost" <=> turn[o].stage = "lost"
    BY DEF CleanupBegins, CancelsEnrichment, CancelsVoice, Closes,
           IInv, EnrichmentTypeOK, TurnsSound, TurnSound, Begun
  <1>3. QED
    BY <1>1, <1>2 DEF Promise!shownVars, IInv, EnrichmentTypeOK

LEMMA PromiseStep ==
    IInv /\ [EnrichmentNext]_enrichVars => [Promise!ShownNext]_(Promise!shownVars)
  <1> SUFFICES ASSUME IInv, [EnrichmentNext]_enrichVars
               PROVE  Promise!ShownNext \/ UNCHANGED Promise!shownVars
    OBVIOUS
  <1>1. ASSUME NEW t \in Turns, NEW via \in Vias, NEW bs \in SUBSET Blocks,
               TurnCompletes(t, via, bs)
        PROVE  Promise!ShownNext \/ UNCHANGED Promise!shownVars
    BY <1>1, TurnAppears DEF Promise!ShownNext
  <1>2. ASSUME NEW t \in Turns, NEW b \in Blocks, AgentCreates(t, b)
        PROVE  UNCHANGED Promise!shownVars
    <2>1. "agent" \in Vias /\ {b} \in SUBSET Blocks
      BY DEF Vias
    <2>2. Create(t, "agent", {b}) /\ turn'[t].stage # "lost"
      BY <1>2 DEF AgentCreates, IInv, EnrichmentTypeOK
    <2>3. turn' = [turn EXCEPT ![t] = turn'[t]]
      BY <1>2 DEF AgentCreates, IInv, EnrichmentTypeOK
    <2>4. Lost' = Lost
      BY <2>1, <2>2, <2>3, CreateLosesNone
    <2>5. QED
      BY <1>2, <2>4 DEF AgentCreates, Promise!shownVars, Lost
  <1>3. ASSUME NEW t \in Turns,
               \/ Spawns(t) \/ StreamBegins(t) \/ StreamEnds(t)
               \/ StreamCancelled(t) \/ AgentCancelled(t)
        PROVE  UNCHANGED Promise!shownVars
    BY <1>3, TurnStutters
  <1>4. ASSUME NEW t \in Turns, RelayCancelled(t)
        PROVE  Promise!ShownNext
    BY <1>4, LostTurnCutsOff DEF Promise!ShownNext
  <1>5. ASSUME NEW b \in Blocks, Generates(b)
        PROVE  UNCHANGED Promise!shownVars
    BY <1>5 DEF Generates, Promise!shownVars
  <1>6. ASSUME NEW b \in Blocks, Streams(b)
        PROVE  Promise!ShownNext \/ UNCHANGED Promise!shownVars
    BY <1>6, ResultSettles DEF Promise!ShownNext
  <1>7. ASSUME NEW b \in Blocks, AgentApplies(b)
        PROVE  Promise!ShownNext \/ UNCHANGED Promise!shownVars
    BY <1>7, AgentsBlockAppears DEF Promise!ShownNext
  <1>8. CASE ClientGoes
    BY <1>8 DEF ClientGoes, Promise!ShownNext, Promise!Leave
  <1>9. CASE CleanupBegins \/ CancelsEnrichment \/ CancelsVoice \/ Closes
    BY <1>9, CleanupStutters
  <1>10. CASE UNCHANGED enrichVars
    BY <1>10 DEF enrichVars, Promise!shownVars
  <1>11. QED
    BY <1>1, <1>2, <1>3, <1>4, <1>5, <1>6, <1>7, <1>8, <1>9, <1>10
       DEF EnrichmentNext, BlocksAppear, BlocksAreFilled

(* The session keeps the promise of Placeholders to its client, but for    *)
(* its liveness: every block appears once, whole or as a placeholder, a    *)
(* placeholder is settled once, and nothing reaches a client that left.    *)
THEOREM PromiseIsKept == EnrichmentSpec => Promise!ShownSafe
  <1>1. EnrichmentInit => Promise!ShownInit
    BY DEF EnrichmentInit, Promise!ShownInit
  <1>2. QED
    BY Invariance, <1>1, PromiseStep, PTL DEF EnrichmentSpec, Promise!ShownSafe

-----------------------------------------------------------------------------
(* What a generator writes *)

(* A seed fills its port, whatever else the scaffolder puts in. *)
LEMMA SeedsFill ==
    ASSUME NEW type, NEW seeds, NEW described, NEW k, NEW p, NEW v,
           <<k, p>> \in SeedMap(type), <<k, v>> \in seeds
    PROVE  /\ <<p, v>> \in Seeded(type, seeds)
           /\ <<p, v>> \in Scaffold(type, seeds, described)
  <1>1. <<p, v>> \in Seeded(type, seeds)
    <2> DEFINE x == <<<<k, p>>, <<k, v>>>>
    <2>1. x \in SeedMap(type) \X seeds /\ x[1][1] = x[2][1] /\ <<x[1][2], x[2][2]>> = <<p, v>>
      OBVIOUS
    <2>2. QED
      BY <2>1 DEF Seeded
  <1>2. QED
    BY <1>1 DEF Scaffold

(* The keys a kind of block is promised to heed, one by one. *)
LEMMA PromisesOfWritten ==
    /\ Promised("testbench") = {<<"top", "top">>, <<"spec", "spec">>}
    /\ Promised("code_hdl") = {<<"top", "top">>, <<"spec", "spec">>, <<"language", "language">>}
    /\ Promised("spec_hdl") = {<<"top", "top">>, <<"spec", "explanation">>,
                               <<"language", "language">>, <<"explanation", "explanation">>}
    /\ Promised("code_fix") = {<<"fix", "fix">>, <<"language", "language">>,
                               <<"source_code", "code">>}
    /\ Promised("post_silicon_verification") = {<<"explanation", "explanation">>,
                                                <<"language", "language">>}
  <1>1. Promised("testbench") = {<<"top", "top">>, <<"spec", "spec">>}
    BY DEF Promised, SeedMap, PlainSeeds, ChipSeeds, WrittenSeeds
  <1>2. Promised("code_hdl") = {<<"top", "top">>, <<"spec", "spec">>, <<"language", "language">>}
    BY DEF Promised, SeedMap, PlainSeeds, ChipSeeds, WrittenSeeds
  <1>3. Promised("spec_hdl") = {<<"top", "top">>, <<"spec", "explanation">>,
                               <<"language", "language">>, <<"explanation", "explanation">>}
    BY DEF Promised, SeedMap, PlainSeeds, ChipSeeds, WrittenSeeds
  <1>4. Promised("code_fix") = {<<"fix", "fix">>, <<"language", "language">>,
                               <<"source_code", "code">>}
    BY DEF Promised, SeedMap, PlainSeeds, ChipSeeds, WrittenSeeds
  <1>5. Promised("post_silicon_verification") = {<<"explanation", "explanation">>,
                                                <<"language", "language">>}
    BY DEF Promised, SeedMap, PlainSeeds, ChipSeeds, WrittenSeeds
  <1>6. QED
    BY <1>1, <1>2, <1>3, <1>4, <1>5

LEMMA OtherPromises ==
    /\ Promised("tools") = {} /\ Promised("custom") = {}
    /\ \A type \in Search : Promised(type) = {}
    /\ Promised("code") = {<<"language", "language">>}
    /\ Promised("memory") = {<<"memory_mode", "memory_mode">>}
    /\ Promised("claw") = {<<"connections", "connections">>}
  BY DEF Promised, SeedMap, PlainSeeds, ChipSeeds, WrittenSeeds, Search

LEMMA DrawnPromises ==
    ASSUME NEW type \in Drawn, NEW m \in Promised(type), m[1] # "word_size"
    PROVE  \E k \in SeedKeys : \E p : m = <<k, p>> /\ m \in SeedMap(type)
  <1>1. m \in SeedMap(type)
    BY DEF Promised, Drawn
  <1>2. \A x \in PlainSeeds(type) : \E k \in SeedKeys : \E p : x = <<k, p>>
    BY DEF PlainSeeds, SeedKeys
  <1>3. \A x \in ChipSeeds(type) : \E k \in SeedKeys : \E p : x = <<k, p>>
    BY DEF ChipSeeds, SeedKeys
  <1>4. \A x \in WrittenSeeds(type) : \E k \in SeedKeys : \E p : x = <<k, p>>
    BY DEF WrittenSeeds, SeedKeys, Drawn
  <1>5. QED
    BY <1>1, <1>2, <1>3, <1>4 DEF SeedMap

(* What was said reaches the seeds of a written block under the key of its *)
(* port. *)
LEMMA RecipeHears ==
    ASSUME NEW r \in Request, r.type \in Written, NEW m \in Promised(r.type), m[1] \in r.said
    PROVE  \E k : /\ <<k, m[2]>> \in SeedMap(r.type) /\ <<k, "said">> \in Recipe(r).seeds
                  /\ k = "language" => m[1] = "language"
  <1>1. CASE r.type = "testbench"
    <2>1. Recipe(r).seeds = TopSeed(r) \cup From(r, "spec", {"spec"})
      BY <1>1 DEF Recipe, Testbench
    <2>2. <<"top", "top">> \in SeedMap(r.type) /\ <<"spec", "spec">> \in SeedMap(r.type)
      BY <1>1 DEF SeedMap, WrittenSeeds
    <2>3. m \in {<<"top", "top">>, <<"spec", "spec">>}
      BY <1>1, PromisesOfWritten
    <2>4. CASE m = <<"top", "top">>
      BY <2>1, <2>2, <2>4 DEF TopSeed
    <2>5. CASE m = <<"spec", "spec">>
      BY <2>1, <2>2, <2>5 DEF From
    <2>6. QED
      BY <2>3, <2>4, <2>5
  <1>2. CASE r.type = "code_hdl"
    <2>1. Recipe(r).seeds = (IF "top" \in r.said THEN TopSeed(r) ELSE {<<"top", "name">>})
               \cup From(r, "spec", {"spec"}) \cup LanguageSeed(r)
      BY <1>2 DEF Recipe, CodeHdl
    <2>2. /\ <<"top", "top">> \in SeedMap(r.type) /\ <<"spec", "spec">> \in SeedMap(r.type)
          /\ <<"language", "language">> \in SeedMap(r.type)
      BY <1>2 DEF SeedMap, WrittenSeeds
    <2>3. m \in {<<"top", "top">>, <<"spec", "spec">>, <<"language", "language">>}
      BY <1>2, PromisesOfWritten
    <2>4. CASE m = <<"top", "top">>
      BY <2>1, <2>2, <2>4 DEF TopSeed
    <2>5. CASE m = <<"spec", "spec">>
      BY <2>1, <2>2, <2>5 DEF From
    <2>6. CASE m = <<"language", "language">>
      BY <2>1, <2>2, <2>6 DEF LanguageSeed
    <2>7. QED
      BY <2>3, <2>4, <2>5, <2>6
  <1>3. CASE r.type = "spec_hdl"
    <2>1. Recipe(r).seeds = TopSeed(r) \cup From(r, "spec", {"explanation", "spec"})
                                \cup LanguageSeed(r)
      BY <1>3 DEF Recipe, SpecHdl
    <2>2. /\ <<"top", "top">> \in SeedMap(r.type) /\ <<"spec", "explanation">> \in SeedMap(r.type)
          /\ <<"language", "language">> \in SeedMap(r.type)
      BY <1>3 DEF SeedMap, WrittenSeeds
    <2>3. m \in {<<"top", "top">>, <<"spec", "explanation">>, <<"language", "language">>,
                 <<"explanation", "explanation">>}
      BY <1>3, PromisesOfWritten
    <2>4. CASE m = <<"top", "top">>
      BY <2>1, <2>2, <2>4 DEF TopSeed
    <2>5. CASE m \in {<<"spec", "explanation">>, <<"explanation", "explanation">>}
      <3>1. m[2] = "explanation" /\ {"explanation", "spec"} \cap r.said # {}
        BY <2>5
      <3>2. <<"spec", "said">> \in Recipe(r).seeds
        BY <2>1, <3>1 DEF From
      <3>3. <<"spec", m[2]>> \in SeedMap(r.type) /\ "spec" # "language"
        BY <2>2, <3>1
      <3>4. QED
        BY <3>2, <3>3
    <2>6. CASE m = <<"language", "language">>
      BY <2>1, <2>2, <2>6 DEF LanguageSeed
    <2>7. QED
      BY <2>3, <2>4, <2>5, <2>6
  <1>4. CASE r.type = "code_fix"
    <2>1. Recipe(r).seeds =
              (IF "source_code" \in r.said THEN {<<"code", "said">>} ELSE {})
               \cup From(r, "fix", {"fix"})
               \cup (IF "language" \in r.said THEN {<<"language", "said">>} ELSE {})
      BY <1>4 DEF Recipe, CodeFix
    <2>2. /\ <<"code", "code">> \in SeedMap(r.type) /\ <<"fix", "fix">> \in SeedMap(r.type)
          /\ <<"language", "language">> \in SeedMap(r.type)
      BY <1>4 DEF SeedMap, WrittenSeeds
    <2>3. m \in {<<"fix", "fix">>, <<"language", "language">>, <<"source_code", "code">>}
      BY <1>4, PromisesOfWritten
    <2>4. CASE m = <<"fix", "fix">>
      BY <2>1, <2>2, <2>4 DEF From
    <2>5. CASE m = <<"source_code", "code">>
      <3>1. <<"code", "said">> \in Recipe(r).seeds
        BY <2>1, <2>5
      <3>2. <<"code", m[2]>> \in SeedMap(r.type) /\ "code" # "language"
        BY <2>2, <2>5
      <3>3. QED
        BY <3>1, <3>2
    <2>6. CASE m = <<"language", "language">>
      BY <2>1, <2>2, <2>6
    <2>7. QED
      BY <2>3, <2>4, <2>5, <2>6
  <1>5. CASE r.type = "post_silicon_verification"
    <2>1. Recipe(r).seeds = From(r, "explanation", {"explanation"}) \cup LanguageSeed(r)
      BY <1>5 DEF Recipe, PostSilicon
    <2>2. /\ <<"explanation", "explanation">> \in SeedMap(r.type)
          /\ <<"language", "language">> \in SeedMap(r.type)
      BY <1>5 DEF SeedMap, WrittenSeeds
    <2>3. m \in {<<"explanation", "explanation">>, <<"language", "language">>}
      BY <1>5, PromisesOfWritten
    <2>4. CASE m = <<"explanation", "explanation">>
      BY <2>1, <2>2, <2>4 DEF From
    <2>5. CASE m = <<"language", "language">>
      BY <2>1, <2>2, <2>5 DEF LanguageSeed
    <2>6. QED
      BY <2>3, <2>4, <2>5
  <1>6. QED
    BY <1>1, <1>2, <1>3, <1>4, <1>5 DEF Written

(* A written block keeps what was said, whichever way it is written. *)
LEMMA WrittenKeeps ==
    ASSUME NEW r \in Request, r.type \in Written, r.named, NEW answer \in Replies,
           WrittenOutcome(r, answer).ports # "none",
           NEW m \in Promised(r.type), m[1] \in r.said, ~MayBeLost(r, answer, m[1])
    PROVE  <<m[2], "said">> \in WrittenOutcome(r, answer).filled
  <1>1. PICK k : /\ <<k, m[2]>> \in SeedMap(r.type) /\ <<k, "said">> \in Recipe(r).seeds
                 /\ k = "language" => m[1] = "language"
    BY RecipeHears
  <1> DEFINE recipe == Recipe(r)
             made == WrittenOutcome(r, answer)
             resets == Rejects(r, answer) /\ recipe.resets
             seeds == IF resets THEN ResetLanguage(recipe.seeds) ELSE recipe.seeds
  <1>2. resets => m[1] # "language"
    <2> SUFFICES ASSUME resets, m[1] = "language"
                 PROVE  FALSE
      OBVIOUS
    <2>1. ~r.odd /\ ~(answer = "valueError" /\
              r.type \in {"code_hdl", "spec_hdl", "post_silicon_verification"})
      BY DEF MayBeLost
    <2>2. recipe.fits
      BY <2>1 DEF Recipe, Fits, Testbench, CodeHdl, SpecHdl, CodeFix, PostSilicon
    <2>3. answer = "valueError"
      BY <2>2 DEF Rejects
    <2>4. r.type \in {"code_hdl", "spec_hdl", "post_silicon_verification"}
      BY DEF Recipe, Testbench, CodeHdl, SpecHdl, CodeFix, PostSilicon, Written
    <2>5. QED
      BY <2>1, <2>3, <2>4
  <1>3. <<k, "said">> \in ResetLanguage(recipe.seeds) \/ ~resets
    <2>1. CASE resets
      <3>1. <<k, "said">> # <<"language", "said">>
        BY <1>1, <1>2, <2>1
      <3>2. QED
        BY <1>1, <3>1 DEF ResetLanguage
    <2>2. QED
      BY <2>1
  <1>4. made.filled \in {Scaffold(r.type, recipe.seeds, r.described), Seeded(r.type, recipe.seeds)}
        \/ (made.filled = Scaffold(r.type, ResetLanguage(recipe.seeds), r.described) /\ resets)
    BY DEF WrittenOutcome, Result, Ok, Failed
  <1> HIDE DEF recipe, made, resets
  <1>5. <<k, "said">> \in recipe.seeds
    BY <1>1 DEF recipe
  <1>6. QED
    BY <1>1, <1>3, <1>4, <1>5, SeedsFill DEF made

(* A block keeps what was said, whatever its kind. *)
LEMMA OutcomeKeeps ==
    ASSUME NEW r \in Request, r.type \in Enrichers, r.named, NEW answer \in Replies,
           Outcome(r, answer).ports # "none",
           NEW m \in Promised(r.type), m[1] \in r.said, ~MayBeLost(r, answer, m[1])
    PROVE  <<m[2], "said">> \in Outcome(r, answer).filled
  <1>1. CASE r.type \in Written
    <2>1. Outcome(r, answer) = WrittenOutcome(r, answer)
      BY <1>1 DEF Outcome, Written, Search
    <2>2. QED
      BY <1>1, <2>1, WrittenKeeps
  <1>2. CASE r.type \in Drawn
    <2>1. Outcome(r, answer) = DrawnOutcome(r)
      BY <1>2 DEF Outcome, Written, Search, Drawn
    <2>2. Outcome(r, answer).filled = Scaffold(r.type, SaidSeeds(r), r.described)
      BY <2>1 DEF DrawnOutcome, Result
    <2>3. m[1] # "word_size"
      BY DEF MayBeLost
    <2>4. PICK k \in SeedKeys : \E p : m = <<k, p>> /\ m \in SeedMap(r.type)
      BY <1>2, <2>3, DrawnPromises
    <2>5. PICK p : m = <<k, p>> /\ m \in SeedMap(r.type)
      BY <2>4
    <2>6. <<k, "said">> \in SaidSeeds(r)
      BY <2>5 DEF SaidSeeds
    <2>7. QED
      BY <2>2, <2>5, <2>6, SeedsFill
  <1>3. CASE r.type = "code"
    <2>1. m = <<"language", "language">>
      BY <1>3, OtherPromises
    <2>2. Outcome(r, answer) = CodeOutcome(r, answer)
      BY <1>3 DEF Outcome, Search, Written
    <2>3. Outcome(r, answer).filled = LanguageSeed(r)
      BY <2>2 DEF CodeOutcome, Result, Ok, Failed
    <2>4. QED
      BY <2>1, <2>3 DEF LanguageSeed
  <1>4. CASE r.type = "memory"
    <2>1. m = <<"memory_mode", "memory_mode">> /\ ~r.odd
      BY <1>4, OtherPromises DEF MayBeLost
    <2>2. Outcome(r, answer) = MemoryOutcome(r)
      BY <1>4 DEF Outcome, Search, Written
    <2>3. QED
      BY <2>1, <2>2 DEF MemoryOutcome, Result
  <1>5. CASE r.type = "claw"
    <2>1. m = <<"connections", "connections">> /\ answer # "partial"
      BY <1>5, OtherPromises DEF MayBeLost
    <2>2. Outcome(r, answer) = ClawOutcome(r, answer)
      BY <1>5 DEF Outcome, Search, Written
    <2>3. <<"connections", "said">> \in ClawOutcome(r, answer).filled
      BY <2>1 DEF ClawOutcome, Result
    <2>4. QED
      BY <2>1, <2>2, <2>3
  <1>6. CASE r.type \in Search \cup {"tools"}
    BY <1>6, OtherPromises
  <1>7. QED
    BY <1>1, <1>2, <1>3, <1>4, <1>5, <1>6 DEF Enrichers

(* Which outcomes have ports. *)
LEMMA OutcomePorts ==
    ASSUME NEW r \in Request, r.named, NEW answer \in Replies
    PROVE  /\ r.type \in Drawn \cup {"claw", "memory"} => Outcome(r, answer).ports = "scaffold"
           /\ (r.type \in Written /\ Outcome(r, answer).ports = "none") =>
                  answer = "outage" \/ (r.type = "testbench" /\ answer = "valueError")
  <1>1. ASSUME r.type \in Drawn
        PROVE  Outcome(r, answer).ports = "scaffold"
    <2>1. Outcome(r, answer) = DrawnOutcome(r)
      BY <1>1 DEF Outcome, Written, Search, Drawn
    <2>2. QED
      BY <2>1 DEF DrawnOutcome, Result
  <1>2. r.type = "claw" => Outcome(r, answer).ports = "scaffold"
    BY DEF Outcome, Search, Written, ClawOutcome, Result
  <1>3. r.type = "memory" => Outcome(r, answer).ports = "scaffold"
    BY DEF Outcome, Search, Written, MemoryOutcome, Result
  <1>4. ASSUME r.type \in Written, Outcome(r, answer).ports = "none", answer # "outage"
        PROVE  r.type = "testbench" /\ answer = "valueError"
    <2>1. Outcome(r, answer) = WrittenOutcome(r, answer)
      BY <1>4 DEF Outcome, Written, Search
    <2>2. Rejects(r, answer) /\ ~Recipe(r).catches
      BY <1>4, <2>1 DEF WrittenOutcome, Result
    <2>3. r.type = "testbench" /\ Recipe(r).fits
      BY <1>4, <2>2 DEF Written, Recipe, Testbench, CodeHdl, SpecHdl, CodeFix, PostSilicon
    <2>4. QED
      BY <2>2, <2>3 DEF Rejects
  <1>5. QED
    BY <1>1, <1>2, <1>3, <1>4

(* What is reported as ok has content, or had nothing to ask, or an empty  *)
(* reply; what failed has none. *)
LEMMA OutcomeStatus ==
    ASSUME NEW r \in Request, r.type \in Enrichers, NEW answer \in Replies
    PROVE  /\ (Outcome(r, answer).status = "ok" /\ Asks(r)) =>
                  \/ Outcome(r, answer).content
                  \/ answer = "nothing" /\ r.type \in Written \cup {"code"}
           /\ Outcome(r, answer).status = "failed" => ~Outcome(r, answer).content
  <1>1. CASE r.type \in Written
    <2>1. Outcome(r, answer) = WrittenOutcome(r, answer) /\ (Asks(r) => r.named /\ Recipe(r).asks)
      BY <1>1 DEF Outcome, Asks, Written, Search
    <2>2. CASE answer = "nothing"
      BY <1>1, <2>1, <2>2 DEF WrittenOutcome, Result, Ok, Failed
    <2>3. CASE answer # "nothing"
      <3>1. (WrittenOutcome(r, answer).status = "ok" /\ r.named /\ Recipe(r).asks) =>
                WrittenOutcome(r, answer) =
                    Result("ok", answer # "nothing", "generated", Seeded(r.type, Recipe(r).seeds))
        BY DEF WrittenOutcome, Result, Failed
      <3>2. WrittenOutcome(r, answer).status = "failed" => ~WrittenOutcome(r, answer).content
        BY DEF WrittenOutcome, Result, Ok, Failed
      <3>3. Result("ok", answer # "nothing", "generated", Seeded(r.type, Recipe(r).seeds)).content
        BY <2>3 DEF Result
      <3>4. QED
        BY <2>1, <3>1, <3>2, <3>3
    <2>4. QED
      BY <2>2, <2>3
  <1>2. CASE r.type \in Drawn \cup {"claw", "memory"}
    <2>1. ~Asks(r)
      BY <1>2 DEF Asks, Drawn, Written, Search
    <2>2. Outcome(r, answer).status = "ok"
      <3>1. r.type \in Drawn => Outcome(r, answer) = DrawnOutcome(r)
        BY DEF Outcome, Written, Search, Drawn
      <3>2. r.type = "claw" => Outcome(r, answer) = ClawOutcome(r, answer)
        BY DEF Outcome, Search, Written
      <3>3. r.type = "memory" => Outcome(r, answer) = MemoryOutcome(r)
        BY DEF Outcome, Search, Written
      <3>4. /\ DrawnOutcome(r).status = "ok" /\ ClawOutcome(r, answer).status = "ok"
            /\ MemoryOutcome(r).status = "ok"
        BY DEF DrawnOutcome, ClawOutcome, MemoryOutcome, Result, Ok
      <3>5. QED
        BY <1>2, <3>1, <3>2, <3>3, <3>4
    <2>3. QED
      BY <2>1, <2>2
  <1>3. CASE r.type = "code"
    <2>1. Outcome(r, answer) = CodeOutcome(r, answer) /\ (Asks(r) => r.named /\ r.described)
      BY <1>3 DEF Outcome, Asks, Search, Written
    <2>2. CASE answer = "nothing"
      BY <1>3, <2>1, <2>2 DEF CodeOutcome, Result, Ok, Failed
    <2>3. CASE answer # "nothing"
      <3>1. (CodeOutcome(r, answer).status = "ok" /\ r.named /\ r.described) =>
                CodeOutcome(r, answer) =
                    Result("ok", answer # "nothing", "generated", LanguageSeed(r))
        BY DEF CodeOutcome, Result, Failed
      <3>2. CodeOutcome(r, answer).status = "failed" => ~CodeOutcome(r, answer).content
        BY DEF CodeOutcome, Result, Ok, Failed
      <3>3. Result("ok", answer # "nothing", "generated", LanguageSeed(r)).content
        BY <2>3 DEF Result
      <3>4. QED
        BY <2>1, <3>1, <3>2, <3>3
    <2>4. QED
      BY <2>2, <2>3
  <1>4. CASE r.type = "tools"
    <2>1. Outcome(r, answer) = ToolOutcome(r, answer) /\ (Asks(r) => r.named /\ r.described)
      BY <1>4 DEF Outcome, Asks, Search, Written
    <2>2. QED
      BY <2>1 DEF ToolOutcome, Result, Ok, Failed
  <1>5. CASE r.type \in Search
    <2>1. Outcome(r, answer) = SearchOutcome(r, answer) /\ (Asks(r) => r.named)
      BY <1>5 DEF Outcome, Asks, Search, Written
    <2>2. QED
      BY <2>1 DEF SearchOutcome, Result, Ok, Failed
  <1>6. QED
    BY <1>1, <1>2, <1>3, <1>4, <1>5 DEF Enrichers

(* A generator that is done was answered somehow. *)
Replied == \A b \in Blocks : work[b] \in {"done", "taken"} => reply[b] \in Replies

LEMMA RepliedStep == IInv /\ Replied /\ [EnrichmentNext]_enrichVars => Replied'
  <1> SUFFICES ASSUME IInv, Replied, [EnrichmentNext]_enrichVars
               PROVE  Replied'
    OBVIOUS
  <1>1. CASE \E b \in Blocks : Generates(b)
    BY <1>1 DEF Generates, IInv, EnrichmentTypeOK, Replied
  <1>2. CASE \E b \in Blocks : Streams(b) \/ AgentApplies(b)
    BY <1>2 DEF Streams, AgentApplies, IInv, EnrichmentTypeOK, Replied
  <1>3. CASE BlocksAppear
    BY <1>3 DEF BlocksAppear, TurnCompletes, AgentCreates, IInv, EnrichmentTypeOK, Replied
  <1>4. CASE \E t \in Turns : StreamBegins(t)
    BY <1>4 DEF StreamBegins, IInv, EnrichmentTypeOK, Replied
  <1>5. CASE UNCHANGED <<work, reply>>
    BY <1>5 DEF Replied
  <1>6. QED
    BY <1>1, <1>2, <1>3, <1>4, <1>5
       DEF EnrichmentNext, BlocksAreFilled, Spawns, RelayCancelled, StreamEnds, StreamCancelled,
           AgentCancelled, ClientGoes, CleanupBegins, CancelsEnrichment, CancelsVoice, Closes,
           enrichVars

(* enrichment.py: for any menu of blocks and however their turns and tasks *)
(* interleave, what is reported as ok brought content unless there was     *)
(* nothing to ask or an empty reply, and what the user said about a block  *)
(* is on it, but for the losses that MayBeLost lists. *)
THEOREM HonestOutcomes == EnrichmentSpec => []OutcomesAreHonest
  <1>1. EnrichmentInit => Replied
    BY DEF EnrichmentInit, Replied
  <1>2. EnrichmentSpec => []Replied
    BY <1>1, RepliedStep, Invariance, PTL DEF EnrichmentSpec
  <1>3. IInv /\ Replied => OutcomesAreHonest
    <2> SUFFICES ASSUME IInv, Replied, NEW b \in Blocks, work[b] = "done"
                 PROVE  /\ (Produced(b).status = "ok" /\ Asks(request[b])) =>
                              \/ Produced(b).content
                              \/ reply[b] = "nothing" /\ request[b].type \in Written \cup {"code"}
                        /\ Produced(b).status = "failed" => ~Produced(b).content
                        /\ request[b].named =>
                              /\ Produced(b).ports # "none" =>
                                    \A m \in Promised(request[b].type) :
                                        (m[1] \in request[b].said
                                            /\ ~MayBeLost(request[b], reply[b], m[1])) =>
                                            <<m[2], "said">> \in Produced(b).filled
                              /\ request[b].type \in Drawn \cup {"claw", "memory"} =>
                                    Produced(b).ports = "scaffold"
                              /\ (request[b].type \in Written /\ Produced(b).ports = "none") =>
                                    reply[b] = "outage"
                                        \/ (request[b].type = "testbench" /\ reply[b] = "valueError")
      BY DEF OutcomesAreHonest, OkMeansContent, SaidIsKept
    <2>1. /\ request[b] \in Request /\ reply[b] \in Replies /\ request[b].type \in Enrichers
          /\ Produced(b) = Outcome(request[b], reply[b])
      BY DEF IInv, EnrichmentTypeOK, BlocksSound, BlockSound, Fillable, Replied, Produced
    <2>2. QED
      BY <2>1, OutcomeStatus, OutcomeKeeps, OutcomePorts
  <1>4. QED
    BY Invariance, <1>2, <1>3, PTL
=============================================================================
