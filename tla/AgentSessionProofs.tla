------------------------- MODULE AgentSessionProofs -------------------------
(***************************************************************************)
(* Theorems about AgentSession, for any blocks and any number of loops and *)
(* runs.                                                                   *)
(***************************************************************************)
EXTENDS AgentSession, SequenceTheorems, TLAPS

(* What the receive loop carries from one await to the next. *)
Handlers ==
         [at : {"idle", "closed"}]
    \cup [at : {"replacing"}, block : Blocks, run : 1..MaxRuns]
    \cup [at : {"stopping"}, run : 0..MaxRuns, rest : SUBSET Blocks]
    \cup [at : {"closing"}, left : SUBSET (1..MaxRuns)]

Typed == TypeOK /\ handler \in Handlers

(* The loop that a run is of has been built, and a question is open only   *)
(* while its run waits for it. *)
RunsSound ==
    \A r \in DOMAIN runs :
        /\ runs[r].loop \in DOMAIN loops
        /\ runs[r].question = "open" => runs[r].pc = "asking"

(* The loop registered for a block is a loop of that block, not detached.  *)
AgentsSound ==
    \A b \in Blocks :
        agents[b] # 0 => loops[agents[b]].block = b /\ ~loops[agents[b]].detached

(* The session no longer holds the agent of run r. *)
Dropped(r) == agents[BlockOf(r)] # runs[r].loop

(* Only runs of agents that are no longer registered are cancelled: what   *)
(* the receive loop waits for is a run of an agent it has dropped. *)
HandlerSound ==
    /\ handler.at = "replacing" =>
          /\ agents[handler.block] = 0
          /\ handler.run \in DOMAIN runs /\ Dropped(handler.run)
    /\ (handler.at = "stopping" /\ handler.run # 0) =>
          handler.run \in DOMAIN runs /\ Dropped(handler.run)
    /\ handler.at = "closing" => handler.left \subseteq DOMAIN runs
    /\ ~Connected => \A b \in Blocks : agents[b] = 0

CancelledAreDropped == \A r \in DOMAIN runs : runs[r].cancelled => Dropped(r)

IInv ==
    /\ Typed /\ RunsSound /\ AgentsSound /\ HandlerSound /\ CancelledAreDropped
    /\ OnlyCurrentSpeaks /\ RegistrationsMatch /\ StopsAreFinal

-----------------------------------------------------------------------------
(* Sequences of loops and runs *)

LEMMA Update ==
    ASSUME NEW S, NEW s \in Seq(S), NEW i \in DOMAIN s, NEW e \in S
    PROVE  [s EXCEPT ![i] = e] \in Seq(S) /\ Len([s EXCEPT ![i] = e]) = Len(s)
  BY ExceptSeq

LEMMA FunctionIsSeq ==
    ASSUME NEW S, NEW n \in Nat, NEW s \in [1..n -> S]
    PROVE  s \in Seq(S) /\ Len(s) = n
  OBVIOUS

LEMMA Appended ==
    ASSUME NEW S, NEW s \in Seq(S), NEW e \in S
    PROVE  /\ Append(s, e) \in Seq(S)
           /\ Len(Append(s, e)) = Len(s) + 1
           /\ Append(s, e)[Len(s) + 1] = e
           /\ \A i \in DOMAIN s : Append(s, e)[i] = s[i]
           /\ DOMAIN Append(s, e) = DOMAIN s \cup {Len(s) + 1}
           /\ DOMAIN s = 1..Len(s) /\ Len(s) \in Nat
  BY AppendProperties, LenProperties

(* What the type of the state says of its members. *)
LEMMA Members ==
    ASSUME Typed
    PROVE  /\ Len(loops) \in Nat /\ DOMAIN loops = 1..Len(loops)
           /\ Len(runs) \in Nat /\ DOMAIN runs = 1..Len(runs)
           /\ \A l \in DOMAIN loops : loops[l] \in Loops /\ l # 0
           /\ \A r \in DOMAIN runs : runs[r] \in Runs /\ r # 0
           /\ \A b \in Blocks : agents[b] # 0 => agents[b] \in DOMAIN loops
           /\ \A b \in Blocks : tasks[b] # 0 => tasks[b] \in DOMAIN runs
           /\ DOMAIN loops \subseteq 1..MaxLoops /\ DOMAIN runs \subseteq 1..MaxRuns
  <1>1. /\ Len(loops) \in Nat /\ DOMAIN loops = 1..Len(loops)
        /\ Len(runs) \in Nat /\ DOMAIN runs = 1..Len(runs)
        /\ \A l \in DOMAIN loops : loops[l] \in Loops
        /\ \A r \in DOMAIN runs : runs[r] \in Runs
    BY LenProperties, ElementOfSeq DEF Typed, TypeOK
  <1>2. QED
    BY <1>1, SessionConstants DEF Typed, TypeOK

(* Detaching a loop changes its two flags and nothing else. *)
LEMMA Detaches ==
    ASSUME Typed, NEW l \in DOMAIN loops
    PROVE  /\ DetachLoop(l) \in Seq(Loops) /\ Len(DetachLoop(l)) = Len(loops)
           /\ DOMAIN DetachLoop(l) = DOMAIN loops
           /\ \A k \in DOMAIN loops :
                 /\ DetachLoop(l)[k].block = loops[k].block
                 /\ DetachLoop(l)[k].state = loops[k].state
                 /\ DetachLoop(l)[k].stopping <=> (loops[k].stopping \/ k = l)
                 /\ DetachLoop(l)[k].detached <=> (loops[k].detached \/ k = l)
  <1>1. loops \in Seq(Loops) /\ \A k \in DOMAIN loops : loops[k] \in Loops
    BY Members DEF Typed, TypeOK
  <1> DEFINE e == [[loops[l] EXCEPT !.stopping = TRUE] EXCEPT !.detached = TRUE]
  <1>2. e \in Loops /\ e.block = loops[l].block /\ e.state = loops[l].state
            /\ e.stopping = TRUE /\ e.detached = TRUE
    BY <1>1 DEF Loops
  <1>3. DetachLoop(l) = [loops EXCEPT ![l] = e]
    BY <1>1 DEF DetachLoop
  <1> HIDE DEF e
  <1>4. DetachLoop(l) \in Seq(Loops) /\ Len(DetachLoop(l)) = Len(loops)
    BY <1>1, <1>2, <1>3, Update
  <1>5. DOMAIN DetachLoop(l) = DOMAIN loops
        /\ \A k \in DOMAIN loops : DetachLoop(l)[k] = IF k = l THEN e ELSE loops[k]
    BY <1>3
  <1>6. QED
    BY <1>1, <1>2, <1>4, <1>5 DEF Loops

(* Cancelling a run changes its flag, if it is alive, and nothing else. *)
LEMMA Cancels ==
    ASSUME Typed, NEW r \in DOMAIN runs
    PROVE  /\ Cancel(r) \in Seq(Runs) /\ Len(Cancel(r)) = Len(runs)
           /\ DOMAIN Cancel(r) = DOMAIN runs
           /\ \A q \in DOMAIN runs :
                 /\ Cancel(r)[q].loop = runs[q].loop
                 /\ Cancel(r)[q].pc = runs[q].pc
                 /\ Cancel(r)[q].question = runs[q].question
                 /\ Cancel(r)[q].cancelled => (runs[q].cancelled \/ q = r)
  <1>1. runs \in Seq(Runs) /\ \A q \in DOMAIN runs : runs[q] \in Runs
    BY Members DEF Typed, TypeOK
  <1> DEFINE e == [runs[r] EXCEPT !.cancelled = @ \/ Live(r)]
  <1>2. e \in Runs /\ e.loop = runs[r].loop /\ e.pc = runs[r].pc
            /\ e.question = runs[r].question
    BY <1>1 DEF Runs, Live, Done
  <1>3. Cancel(r) = [runs EXCEPT ![r] = e]
    BY <1>1 DEF Cancel
  <1> HIDE DEF e
  <1>4. Cancel(r) \in Seq(Runs) /\ Len(Cancel(r)) = Len(runs)
    BY <1>1, <1>2, <1>3, Update
  <1>5. DOMAIN Cancel(r) = DOMAIN runs
        /\ \A q \in DOMAIN runs : Cancel(r)[q] = IF q = r THEN e ELSE runs[q]
    BY <1>3
  <1>6. QED
    BY <1>1, <1>2, <1>4, <1>5 DEF Runs

(* A new run of a loop, at its beginning. *)
LEMMA NewRunTyped ==
    ASSUME NEW l \in 1..MaxLoops
    PROVE  /\ NewRun(l) \in Runs /\ NewRun(l).loop = l /\ NewRun(l).pc = "created"
           /\ ~NewRun(l).cancelled /\ NewRun(l).question = "none"
  BY DEF NewRun, Runs, RunPCs

-----------------------------------------------------------------------------
(* Starting and stopping *)

(* The maps, loops and runs that stopping the agent of b may leave: only   *)
(* that agent is popped and detached, only dropped runs are cancelled. *)
LeftBy(b, as, ts, ls, rs) ==
    /\ as \in [Blocks -> 0..Len(loops)] /\ \A c \in Blocks \ {b} : as[c] = agents[c]
    /\ ts \in [Blocks -> 0..Len(runs)] /\ \A c \in Blocks \ {b} : ts[c] = tasks[c]
    /\ ls \in Seq(Loops) /\ Len(ls) = Len(loops) /\ DOMAIN ls = DOMAIN loops
    /\ \A k \in DOMAIN loops :
          /\ ls[k].block = loops[k].block
          /\ ls[k].state = loops[k].state
          /\ ls[k].stopping <=> (loops[k].stopping \/ k = agents[b])
          /\ ls[k].detached <=> (loops[k].detached \/ k = agents[b])
    /\ rs \in Seq(Runs) /\ Len(rs) = Len(runs) /\ DOMAIN rs = DOMAIN runs
    /\ \A q \in DOMAIN runs :
          /\ rs[q].loop = runs[q].loop
          /\ rs[q].pc = runs[q].pc
          /\ rs[q].question = runs[q].question
          /\ rs[q].cancelled => Dropped(q)

(* A new agent takes the place that the previous one has left. *)
LEMMA Builds ==
    ASSUME IInv, NEW b \in Blocks, NEW as, NEW ts, NEW ls, NEW rs,
           Connected, LeftBy(b, as, ts, ls, rs), Build(b, as, ts, ls, rs)
    PROVE  IInv'
  <1> DEFINE n == Len(loops) + 1
             m == Len(runs) + 1
             fresh == [block |-> b, state |-> "idle", stopping |-> FALSE, detached |-> FALSE]
  <1>1. /\ Typed /\ RunsSound /\ AgentsSound /\ CancelledAreDropped
        /\ OnlyCurrentSpeaks /\ RegistrationsMatch /\ StopsAreFinal
    BY DEF IInv
  <1>2. /\ Len(loops) \in Nat /\ DOMAIN loops = 1..Len(loops)
        /\ Len(runs) \in Nat /\ DOMAIN runs = 1..Len(runs)
        /\ n \in 1..MaxLoops /\ m \in 1..MaxRuns
    BY <1>1, Members, SessionConstants DEF LeftBy, Build
  <1>3. fresh \in Loops /\ NewRun(n) \in Runs
    BY <1>2, NewRunTyped DEF Loops, LoopStates
  <1>4. /\ loops' = Append(ls, fresh) /\ runs' = Append(rs, NewRun(n))
        /\ agents' = [as EXCEPT ![b] = n] /\ tasks' = [ts EXCEPT ![b] = m]
        /\ handler' = [at |-> "idle"]
    BY DEF Build, LeftBy
  <1>5. /\ loops' \in Seq(Loops) /\ Len(loops') = n /\ DOMAIN loops' = DOMAIN loops \cup {n}
        /\ loops'[n] = fresh /\ \A k \in DOMAIN loops : loops'[k] = ls[k]
    BY <1>3, <1>4, Appended DEF LeftBy
  <1>6. /\ runs' \in Seq(Runs) /\ Len(runs') = m /\ DOMAIN runs' = DOMAIN runs \cup {m}
        /\ runs'[m] = NewRun(n) /\ \A q \in DOMAIN runs : runs'[q] = rs[q]
    BY <1>3, <1>4, Appended DEF LeftBy
  <1>7. agents'[b] = n /\ tasks'[b] = m
        /\ \A c \in Blocks \ {b} : agents'[c] = agents[c] /\ tasks'[c] = tasks[c]
    BY <1>4 DEF LeftBy
  <1>8. /\ n \notin DOMAIN loops /\ m \notin DOMAIN runs /\ n # 0 /\ m # 0
        /\ \A c \in Blocks : agents[c] # n /\ (agents[c] # 0 => agents[c] \in DOMAIN loops)
        /\ \A c \in Blocks : tasks[c] # m /\ (tasks[c] # 0 => tasks[c] \in DOMAIN runs)
    BY <1>1, <1>2 DEF Typed, TypeOK
  <1>9. /\ runs'[m].loop = n /\ runs'[m].pc = "created"
        /\ ~runs'[m].cancelled /\ runs'[m].question = "none"
        /\ loops'[n].block = b /\ loops'[n].state = "idle"
        /\ ~loops'[n].stopping /\ ~loops'[n].detached
    <2>1. /\ fresh.block = b /\ fresh.state = "idle" /\ ~fresh.stopping /\ ~fresh.detached
      OBVIOUS
    <2> HIDE DEF fresh
    <2>2. QED
      BY <1>2, <1>5, <1>6, <2>1, NewRunTyped
  <1>10. \A q \in DOMAIN runs :
           /\ runs'[q].loop = runs[q].loop /\ runs'[q].pc = runs[q].pc
           /\ runs'[q].question = runs[q].question
           /\ runs'[q].cancelled => Dropped(q)
           /\ runs[q].loop \in DOMAIN loops
           /\ loops[runs[q].loop].block \in Blocks
    BY <1>1, <1>6, Members DEF LeftBy, RunsSound, Loops
  <1>11. \A k \in DOMAIN loops :
           /\ loops'[k].block = loops[k].block
           /\ loops'[k].state = loops[k].state
           /\ loops'[k].stopping <=> (loops[k].stopping \/ k = agents[b])
           /\ loops'[k].detached <=> (loops[k].detached \/ k = agents[b])
    BY <1>5 DEF LeftBy
  <1>12. Typed'
    <2>1. agents' \in [Blocks -> 0..Len(loops')]
      <3>1. 0..Len(loops) \subseteq 0..n /\ n \in 0..n
        BY <1>2
      <3>2. as \in [Blocks -> 0..n]
        BY <3>1 DEF LeftBy
      <3>3. QED
        BY <1>4, <1>5, <3>1, <3>2
    <2>2. tasks' \in [Blocks -> 0..Len(runs')]
      <3>1. 0..Len(runs) \subseteq 0..m /\ m \in 0..m
        BY <1>2
      <3>2. ts \in [Blocks -> 0..m]
        BY <3>1 DEF LeftBy
      <3>3. QED
        BY <1>4, <1>6, <3>1, <3>2
    <2>3. handler' \in Handlers /\ handler'.at = "idle"
      BY <1>4 DEF Handlers
    <2>4. QED
      BY <1>2, <1>5, <1>6, <2>1, <2>2, <2>3, SessionConstants DEF Typed, TypeOK
  <1> HIDE DEF n, m, fresh
  <1>13. RunsSound'
    BY <1>1, <1>5, <1>6, <1>9, <1>10 DEF RunsSound
  <1>14. AgentsSound'
    BY <1>1, <1>7, <1>8, <1>9, <1>11 DEF AgentsSound
  <1>15. HandlerSound'
    BY <1>4 DEF HandlerSound, Connected
  <1>16. CancelledAreDropped'
    BY <1>6, <1>7, <1>8, <1>9, <1>10, <1>11 DEF CancelledAreDropped, Dropped, BlockOf, LoopOf
  <1>17. OnlyCurrentSpeaks'
    BY <1>1, <1>6, <1>7, <1>8, <1>9, <1>10, <1>11
       DEF OnlyCurrentSpeaks, Live, Done, BlockOf, LoopOf
  <1>18. TaskRunsAgent'
    BY <1>1, <1>6, <1>7, <1>8, <1>9, <1>10 DEF RegistrationsMatch, TaskRunsAgent
  <1>19. RunningHasRun'
    <2> SUFFICES ASSUME NEW c \in Blocks, agents'[c] # 0, loops'[agents'[c]].state = "running"
                 PROVE  \E r \in DOMAIN runs' :
                           /\ runs'[r].loop = agents'[c]
                           /\ runs'[r].pc \in {"starting", "working", "asking", "closing"}
      BY DEF RunningHasRun
    <2>1. c # b /\ agents'[c] = agents[c] /\ loops[agents[c]].state = "running"
      BY <1>7, <1>8, <1>9, <1>11
    <2>2. PICK r \in DOMAIN runs :
              /\ runs[r].loop = agents[c]
              /\ runs[r].pc \in {"starting", "working", "asking", "closing"}
      BY <1>1, <2>1 DEF RegistrationsMatch, RunningHasRun
    <2>3. QED
      BY <1>6, <1>10, <2>1, <2>2
  <1>20. NoRunBeyondStop'
    BY <1>1, <1>6, <1>7, <1>8, <1>9, <1>10, <1>11
       DEF StopsAreFinal, NoRunBeyondStop, Live, Done, BlockOf, LoopOf
  <1>21. DetachedStaysStopped'
    BY <1>1, <1>5, <1>9, <1>11 DEF StopsAreFinal, DetachedStaysStopped
  <1>22. QED
    BY <1>12, <1>13, <1>14, <1>15, <1>16, <1>17, <1>18, <1>19, <1>20, <1>21
       DEF IInv, RegistrationsMatch, StopsAreFinal

(* A run of the agent that is popped and detached is dropped. *)
LEMMA RegisteredRun ==
    ASSUME IInv, NEW b \in Blocks, Waited(b) # 0
    PROVE  /\ Waited(b) \in DOMAIN runs
           /\ runs[Waited(b)].loop = agents[b] /\ BlockOf(Waited(b)) = b
           /\ agents[b] # 0
  <1>1. tasks[b] # 0 /\ Waited(b) = tasks[b] /\ tasks[b] \in DOMAIN runs
    BY Members DEF Waited, IInv
  <1>2. runs[tasks[b]].loop = agents[b] /\ agents[b] # 0
    BY <1>1, Members DEF IInv, RegistrationsMatch, TaskRunsAgent, RunsSound
  <1>3. QED
    BY <1>1, <1>2 DEF IInv, AgentsSound, BlockOf, LoopOf

LEMMA DropsRegistered ==
    ASSUME IInv, NEW b \in Blocks, NEW r, r = Waited(b), r # 0,
           LeftBy(b, agents', tasks', loops', runs'), agents'[b] = 0
    PROVE  r \in DOMAIN runs /\ r \in DOMAIN runs' /\ Dropped(r)'
  <1>1. r \in DOMAIN runs /\ runs[r].loop = agents[b] /\ BlockOf(r) = b /\ agents[b] # 0
    BY RegisteredRun
  <1>2. r \in DOMAIN runs' /\ runs'[r].loop = runs[r].loop
    BY <1>1 DEF LeftBy
  <1>3. loops'[runs'[r].loop].block = b
    BY <1>1, <1>2, Members DEF LeftBy, BlockOf, LoopOf, IInv
  <1>4. QED
    BY <1>1, <1>2, <1>3 DEF Dropped, BlockOf, LoopOf

(* An agent is popped and detached, and nothing is built: the rest is      *)
(* sound, provided that the handler goes on with what it may. *)
LEMMA Stops ==
    ASSUME IInv, NEW b \in Blocks, Connected, Connected',
           LeftBy(b, agents', tasks', loops', runs'), agents'[b] = 0, tasks'[b] = 0,
           handler' \in Handlers, HandlerSound'
    PROVE  IInv'
  <1>1. /\ Typed /\ RunsSound /\ AgentsSound /\ CancelledAreDropped
        /\ OnlyCurrentSpeaks /\ RegistrationsMatch /\ StopsAreFinal
    BY DEF IInv
  <1>2. \A c \in Blocks \ {b} : agents'[c] = agents[c] /\ tasks'[c] = tasks[c]
    BY DEF LeftBy
  <1>3. DOMAIN runs' = DOMAIN runs /\ DOMAIN loops' = DOMAIN loops
    BY DEF LeftBy
  <1>4. \A q \in DOMAIN runs :
           /\ runs'[q].loop = runs[q].loop /\ runs'[q].pc = runs[q].pc
           /\ runs'[q].question = runs[q].question
           /\ runs'[q].cancelled => Dropped(q)
           /\ runs[q].loop \in DOMAIN loops /\ runs[q].loop # 0
           /\ loops[runs[q].loop].block \in Blocks
    BY <1>1, Members DEF LeftBy, RunsSound, Loops
  <1>5. \A k \in DOMAIN loops :
           /\ loops'[k].block = loops[k].block
           /\ loops'[k].state = loops[k].state
           /\ loops'[k].stopping <=> (loops[k].stopping \/ k = agents[b])
           /\ loops'[k].detached <=> (loops[k].detached \/ k = agents[b])
    BY DEF LeftBy
  <1>6. \A c \in Blocks : /\ agents[c] # 0 => agents[c] \in DOMAIN loops
                          /\ tasks[c] # 0 => tasks[c] \in DOMAIN runs
    BY <1>1, Members
  <1>7. Typed'
    <2>1. handler'.at \in {"idle", "replacing", "stopping", "closing", "closed"}
      BY DEF Handlers
    <2>2. Len(loops') = Len(loops) /\ Len(runs') = Len(runs)
      BY DEF LeftBy
    <2>3. QED
      BY <1>1, <2>1, <2>2 DEF Typed, TypeOK, LeftBy
  <1>8. RunsSound'
    BY <1>1, <1>3, <1>4 DEF RunsSound
  <1>9. AgentsSound'
    BY <1>1, <1>2, <1>5, <1>6 DEF AgentsSound
  <1>10. CancelledAreDropped'
    BY <1>2, <1>3, <1>4, <1>5 DEF CancelledAreDropped, Dropped, BlockOf, LoopOf
  <1>11. OnlyCurrentSpeaks'
    BY <1>1, <1>2, <1>3, <1>4, <1>5 DEF OnlyCurrentSpeaks, Live, Done, BlockOf, LoopOf
  <1>12. TaskRunsAgent'
    BY <1>1, <1>2, <1>4, <1>6 DEF RegistrationsMatch, TaskRunsAgent
  <1>13. RunningHasRun'
    <2> SUFFICES ASSUME NEW c \in Blocks, agents'[c] # 0, loops'[agents'[c]].state = "running"
                 PROVE  \E r \in DOMAIN runs' :
                           /\ runs'[r].loop = agents'[c]
                           /\ runs'[r].pc \in {"starting", "working", "asking", "closing"}
      BY DEF RunningHasRun
    <2>1. c # b /\ agents'[c] = agents[c] /\ loops[agents[c]].state = "running"
      BY <1>2, <1>5, <1>6
    <2>2. PICK r \in DOMAIN runs :
              /\ runs[r].loop = agents[c]
              /\ runs[r].pc \in {"starting", "working", "asking", "closing"}
      BY <1>1, <2>1 DEF RegistrationsMatch, RunningHasRun
    <2>3. QED
      BY <1>3, <1>4, <2>1, <2>2
  <1>14. NoRunBeyondStop'
    BY <1>1, <1>2, <1>3, <1>4, <1>5
       DEF StopsAreFinal, NoRunBeyondStop, Live, Done, BlockOf, LoopOf
  <1>15. DetachedStaysStopped'
    BY <1>1, <1>3, <1>5 DEF StopsAreFinal, DetachedStaysStopped
  <1>16. QED
    BY <1>7, <1>8, <1>9, <1>10, <1>11, <1>12, <1>13, <1>14, <1>15
       DEF IInv, RegistrationsMatch, StopsAreFinal

(* Nothing is popped, detached or cancelled. *)
LEMMA LeavesAsIs ==
    ASSUME IInv, NEW b \in Blocks, agents[b] = 0
    PROVE  LeftBy(b, agents, tasks, loops, runs)
  BY Members DEF IInv, Typed, TypeOK, LeftBy, CancelledAreDropped

(* The run that was waited for is cancelled. *)
LEMMA LeavesCancelled ==
    ASSUME IInv, NEW b \in Blocks, agents[b] = 0, NEW r \in DOMAIN runs, Dropped(r)
    PROVE  LeftBy(b, agents, tasks, loops, Cancel(r))
  BY Members, Cancels DEF IInv, Typed, TypeOK, LeftBy, CancelledAreDropped

(* The agent is popped and detached; a run of an agent that was dropped    *)
(* before may be cancelled with it. *)
LEMMA LeavesPopped ==
    ASSUME IInv, NEW b \in Blocks, agents[b] # 0, NEW rs,
           rs = runs \/ \E r \in DOMAIN runs : Dropped(r) /\ rs = Cancel(r)
    PROVE  LeftBy(b, Pop(agents, b), Pop(tasks, b), DetachLoop(agents[b]), rs)
  <1>1. Typed /\ agents[b] \in DOMAIN loops
    BY Members DEF IInv
  <1>2. /\ Pop(agents, b) \in [Blocks -> 0..Len(loops)]
        /\ Pop(tasks, b) \in [Blocks -> 0..Len(runs)]
        /\ \A c \in Blocks \ {b} : Pop(agents, b)[c] = agents[c] /\ Pop(tasks, b)[c] = tasks[c]
    BY <1>1, Members DEF Typed, TypeOK, Pop
  <1>3. /\ rs \in Seq(Runs) /\ Len(rs) = Len(runs) /\ DOMAIN rs = DOMAIN runs
        /\ \A q \in DOMAIN runs :
              /\ rs[q].loop = runs[q].loop
              /\ rs[q].pc = runs[q].pc
              /\ rs[q].question = runs[q].question
              /\ rs[q].cancelled => Dropped(q)
    BY <1>1, Cancels DEF IInv, CancelledAreDropped, Typed, TypeOK
  <1>4. QED
    BY <1>1, <1>2, <1>3, Detaches DEF LeftBy

LEMMA PressStep ==
    ASSUME IInv, NEW b \in Blocks, PressAgent(b)
    PROVE  IInv'
  <1>1. handler.at = "idle" /\ Connected
    BY DEF PressAgent, Connected
  <1>2. CASE agents[b] = 0 /\ Build(b, agents, tasks, loops, runs)
    BY <1>1, <1>2, LeavesAsIs, Builds
  <1>3. CASE agents[b] # 0 /\ Build(b, Pop(agents, b), Pop(tasks, b), DetachLoop(agents[b]), runs)
    BY <1>1, <1>3, LeavesPopped, Builds
  <1>4. CASE /\ agents[b] # 0 /\ Waited(b) # 0
             /\ agents' = Pop(agents, b)
             /\ tasks' = Pop(tasks, b)
             /\ loops' = DetachLoop(agents[b])
             /\ handler' = [at |-> "replacing", block |-> b, run |-> Waited(b)]
             /\ UNCHANGED runs
    <2>1. LeftBy(b, agents', tasks', loops', runs')
      BY <1>4, LeavesPopped
    <2>2. agents'[b] = 0 /\ tasks'[b] = 0
      BY <1>4 DEF IInv, Typed, TypeOK, Pop
    <2>3. PICK w \in DOMAIN runs : w = Waited(b) /\ w \in 1..MaxRuns
      BY <1>4, RegisteredRun, Members DEF IInv
    <2>4. handler' = [at |-> "replacing", block |-> b, run |-> w]
      BY <1>4, <2>3
    <2>5. handler' \in Handlers /\ Connected'
      BY <2>3, <2>4 DEF Handlers, Connected
    <2>6. Dropped(w)'
      BY <1>4, <2>1, <2>2, <2>3, DropsRegistered
    <2>7. HandlerSound'
      BY <2>1, <2>2, <2>3, <2>4, <2>5, <2>6 DEF HandlerSound, LeftBy
    <2>8. QED
      BY <1>1, <2>1, <2>2, <2>5, <2>7, Stops
  <1>5. QED
    BY <1>2, <1>3, <1>4 DEF PressAgent

LEMMA ReplaceStep == IInv /\ Replace => IInv'
  <1> SUFFICES ASSUME IInv, Replace PROVE IInv'
    OBVIOUS
  <1>1. handler.at = "replacing" /\ Connected /\ handler.block \in Blocks
    BY DEF Replace, Connected, IInv, Typed, Handlers
  <1>2. agents[handler.block] = 0 /\ handler.run \in DOMAIN runs /\ Dropped(handler.run)
    BY <1>1 DEF IInv, HandlerSound
  <1>3. LeftBy(handler.block, agents, tasks, loops, Cancel(handler.run))
    BY <1>1, <1>2, LeavesCancelled
  <1>4. QED
    BY <1>1, <1>3, Builds DEF Replace

(* One round of _stop_block_agent, and the wait for a run it begins. *)
LEMMA StopOneStep ==
    ASSUME IInv, Connected, NEW b \in Blocks, NEW rest \in SUBSET Blocks, StopOne(b, rest),
           runs' = runs \/ \E r \in DOMAIN runs : Dropped(r) /\ runs' = Cancel(r)
    PROVE  IInv'
  <1>1. LeftBy(b, agents', tasks', loops', runs')
    BY LeavesPopped DEF StopOne
  <1>2. agents'[b] = 0 /\ tasks'[b] = 0
    BY DEF StopOne, IInv, Typed, TypeOK, Pop
  <1>3. PICK w : w = Waited(b)
    OBVIOUS
  <1>4. handler' = [at |-> "stopping", run |-> w, rest |-> rest]
    BY <1>3 DEF StopOne
  <1>5. w # 0 => w \in DOMAIN runs /\ w \in DOMAIN runs' /\ Dropped(w)'
    BY <1>1, <1>2, <1>3, DropsRegistered
  <1>6. w \in 0..MaxRuns
    BY <1>5, Members, SessionConstants DEF IInv
  <1>7. handler' \in Handlers /\ Connected'
    BY <1>4, <1>6 DEF Handlers, Connected
  <1>8. HandlerSound'
    BY <1>4, <1>5, <1>7 DEF HandlerSound
  <1>9. QED
    BY <1>1, <1>2, <1>7, <1>8, Stops

LEMMA PressStopStep == IInv /\ PressStop => IInv'
  <1> SUFFICES ASSUME IInv, PressStop PROVE IInv'
    OBVIOUS
  <1>1. Connected /\ runs' = runs
    BY DEF PressStop, Connected
  <1>2. PICK b \in Blocks, rest \in SUBSET Blocks : StopOne(b, rest)
    BY DEF PressStop
  <1>3. QED
    BY <1>1, <1>2, StopOneStep

LEMMA StopNextStep == IInv /\ StopNext => IInv'
  <1> SUFFICES ASSUME IInv, StopNext PROVE IInv'
    OBVIOUS
  <1>1. handler.at = "stopping" /\ Connected /\ handler.rest \in SUBSET Blocks
    BY DEF StopNext, Connected, IInv, Typed, Handlers
  <1>2. runs' = runs \/ \E r \in DOMAIN runs : Dropped(r) /\ runs' = Cancel(r)
    BY <1>1 DEF StopNext, IInv, HandlerSound
  <1>3. CASE \E b \in handler.rest : StopOne(b, handler.rest \ {b})
    BY <1>1, <1>2, <1>3, StopOneStep
  <1>4. CASE handler' = [at |-> "idle"] /\ UNCHANGED <<agents, tasks, loops>>
    <2>1. /\ runs' \in Seq(Runs) /\ Len(runs') = Len(runs) /\ DOMAIN runs' = DOMAIN runs
          /\ \A q \in DOMAIN runs :
                /\ runs'[q].loop = runs[q].loop
                /\ runs'[q].pc = runs[q].pc
                /\ runs'[q].question = runs[q].question
                /\ runs'[q].cancelled => Dropped(q)
      BY <1>2, Cancels DEF IInv, CancelledAreDropped, Typed, TypeOK
    <2>2. Typed'
      BY <1>4, <2>1 DEF IInv, Typed, TypeOK, Handlers
    <2>3. RunsSound' /\ AgentsSound' /\ HandlerSound' /\ CancelledAreDropped'
      BY <1>4, <2>1 DEF IInv, RunsSound, AgentsSound, HandlerSound, Connected,
                        CancelledAreDropped, Dropped, BlockOf, LoopOf
    <2>4. OnlyCurrentSpeaks' /\ StopsAreFinal'
      BY <1>1, <1>4, <2>1 DEF IInv, OnlyCurrentSpeaks, StopsAreFinal, NoRunBeyondStop,
                              DetachedStaysStopped, Live, Done, BlockOf, LoopOf
    <2>5. RegistrationsMatch'
      BY <1>4, <2>1, Members DEF IInv, RegistrationsMatch, TaskRunsAgent, RunningHasRun
    <2>6. QED
      BY <2>2, <2>3, <2>4, <2>5 DEF IInv
  <1>5. QED
    BY <1>3, <1>4 DEF StopNext

-----------------------------------------------------------------------------
(* The runs *)

AtWork == {"starting", "working", "asking", "closing"}

(* What run r may become: a run of the same loop, not newly cancelled nor  *)
(* alive again, with a question open only while it asks. *)
MayBecome(r, e) ==
    /\ e \in Runs /\ e.loop = runs[r].loop
    /\ e.cancelled => runs[r].cancelled
    /\ e.pc \notin {"done", "gone"} => Live(r)
    /\ e.question = "open" => e.pc = "asking"

(* The rest: the run's own loop may change its state, and it says that it  *)
(* is running only while the run works, unless another run may be meant. *)
Advances(r) ==
    /\ agents' = agents /\ handler' = handler
    /\ tasks' \in [Blocks -> 0..Len(runs)]
    /\ \A b \in Blocks : tasks'[b] \in {0, tasks[b]}
    /\ \E e \in Runs : MayBecome(r, e) /\ runs' = [runs EXCEPT ![r] = e]
    /\ loops' = loops \/ \E state \in LoopStates : SetState(r, state)
    /\ loops'[runs[r].loop].state = "running" =>
          \/ runs[r].cancelled
          \/ runs'[r].pc \in AtWork
          \/ loops' = loops /\ runs[r].pc \notin AtWork

(* Setting the state of a run's loop changes nothing else of it. *)
LEMMA SetsState ==
    ASSUME Typed, RunsSound, NEW r \in DOMAIN runs, NEW state \in LoopStates, SetState(r, state)
    PROVE  /\ loops' \in Seq(Loops) /\ Len(loops') = Len(loops) /\ DOMAIN loops' = DOMAIN loops
           /\ \A k \in DOMAIN loops :
                 /\ loops'[k].block = loops[k].block
                 /\ loops'[k].stopping <=> loops[k].stopping
                 /\ loops'[k].detached <=> loops[k].detached
                 /\ k # runs[r].loop => loops'[k].state = loops[k].state
           /\ loops'[runs[r].loop].state = state
  <1>1. loops \in Seq(Loops) /\ \A k \in DOMAIN loops : loops[k] \in Loops
    BY Members DEF Typed, TypeOK
  <1>2. runs[r].loop \in DOMAIN loops
    BY DEF RunsSound
  <1> DEFINE l == runs[r].loop
             e == [loops[l] EXCEPT !.state = state]
  <1>3. e \in Loops /\ e.block = loops[l].block /\ e.state = state
            /\ (e.stopping <=> loops[l].stopping) /\ (e.detached <=> loops[l].detached)
    BY <1>1, <1>2 DEF Loops
  <1>4. loops' = [loops EXCEPT ![l] = e]
    BY <1>1 DEF SetState
  <1> HIDE DEF e
  <1>5. loops' \in Seq(Loops) /\ Len(loops') = Len(loops)
    BY <1>1, <1>2, <1>3, <1>4, Update
  <1>6. DOMAIN loops' = DOMAIN loops
        /\ \A k \in DOMAIN loops : loops'[k] = IF k = l THEN e ELSE loops[k]
    BY <1>4
  <1>7. QED
    BY <1>2, <1>3, <1>5, <1>6

LEMMA AdvanceStep ==
    ASSUME IInv, NEW r \in DOMAIN runs, Advances(r)
    PROVE  IInv'
  <1>1. /\ Typed /\ RunsSound /\ AgentsSound /\ CancelledAreDropped /\ HandlerSound
        /\ OnlyCurrentSpeaks /\ RegistrationsMatch /\ StopsAreFinal
    BY DEF IInv
  <1>2. PICK e \in Runs : MayBecome(r, e) /\ runs' = [runs EXCEPT ![r] = e]
    BY DEF Advances
  <1>3. /\ runs' \in Seq(Runs) /\ Len(runs') = Len(runs) /\ DOMAIN runs' = DOMAIN runs
        /\ runs'[r] = e /\ \A q \in DOMAIN runs \ {r} : runs'[q] = runs[q]
    BY <1>1, <1>2, Update DEF Typed, TypeOK
  <1>4. /\ loops' \in Seq(Loops) /\ Len(loops') = Len(loops) /\ DOMAIN loops' = DOMAIN loops
        /\ \A k \in DOMAIN loops :
              /\ loops'[k].block = loops[k].block
              /\ loops'[k].stopping <=> loops[k].stopping
              /\ loops'[k].detached <=> loops[k].detached
              /\ k # runs[r].loop => loops'[k].state = loops[k].state
    <2>1. CASE loops' = loops
      BY <1>1, <2>1 DEF Typed, TypeOK
    <2>2. CASE \E state \in LoopStates : SetState(r, state)
      BY <1>1, <2>2, SetsState
    <2>3. QED
      BY <2>1, <2>2 DEF Advances
  <1>5. \A q \in DOMAIN runs :
           /\ runs'[q].loop = runs[q].loop /\ runs[q].loop \in DOMAIN loops
           /\ runs'[q].cancelled => runs[q].cancelled
           /\ Live(q)' => Live(q)
           /\ runs'[q].question = "open" => runs'[q].pc = "asking"
    BY <1>1, <1>2, <1>3 DEF MayBecome, RunsSound, Live, Done
  <1>6. agents' = agents /\ handler' = handler /\ \A b \in Blocks : tasks'[b] \in {0, tasks[b]}
    BY DEF Advances
  <1>7. Typed'
    BY <1>1, <1>3, <1>4, <1>6 DEF Typed, TypeOK, Advances
  <1>8. RunsSound' /\ AgentsSound'
    <2>1. RunsSound'
      BY <1>3, <1>4, <1>5 DEF RunsSound
    <2>2. \A b \in Blocks : agents[b] # 0 => agents[b] \in DOMAIN loops
      BY <1>1, Members
    <2>3. AgentsSound'
      BY <1>1, <1>4, <1>6, <2>2 DEF AgentsSound
    <2>4. QED
      BY <2>1, <2>3
  <1>9. \A q \in DOMAIN runs : Dropped(q)' <=> Dropped(q)
    BY <1>4, <1>5, <1>6 DEF Dropped, BlockOf, LoopOf
  <1>10. HandlerSound' /\ CancelledAreDropped'
    <2>1. CancelledAreDropped'
      BY <1>1, <1>3, <1>5, <1>9 DEF CancelledAreDropped
    <2>2. ASSUME handler.at = "replacing"
          PROVE  handler.run \in DOMAIN runs' /\ Dropped(handler.run)'
      <3>1. PICK q \in DOMAIN runs : q = handler.run /\ Dropped(q)
        BY <1>1, <2>2 DEF HandlerSound
      <3>2. handler'.run = q
        BY <1>6, <3>1
      <3>3. QED
        BY <1>3, <1>9, <3>1, <3>2 DEF Dropped, BlockOf, LoopOf
    <2>3. ASSUME handler.at = "stopping", handler.run # 0
          PROVE  handler.run \in DOMAIN runs' /\ Dropped(handler.run)'
      <3>1. PICK q \in DOMAIN runs : q = handler.run /\ Dropped(q)
        BY <1>1, <2>3 DEF HandlerSound
      <3>2. handler'.run = q
        BY <1>6, <3>1
      <3>3. QED
        BY <1>3, <1>9, <3>1, <3>2 DEF Dropped, BlockOf, LoopOf
    <2>4. QED
      BY <1>1, <1>3, <1>6, <2>1, <2>2, <2>3 DEF HandlerSound, Connected
  <1>11. OnlyCurrentSpeaks' /\ StopsAreFinal'
    <2>1. \A q \in DOMAIN runs :
             /\ BlockOf(q)' = BlockOf(q)
             /\ LoopOf(q).detached' <=> LoopOf(q).detached
             /\ LoopOf(q).stopping' <=> LoopOf(q).stopping
      BY <1>4, <1>5 DEF BlockOf, LoopOf
    <2>2. OnlyCurrentSpeaks'
      BY <1>1, <1>3, <1>5, <1>6, <2>1 DEF OnlyCurrentSpeaks, Connected
    <2>3. NoRunBeyondStop'
      BY <1>1, <1>3, <1>5, <1>6, <2>1 DEF StopsAreFinal, NoRunBeyondStop
    <2>4. DetachedStaysStopped'
      BY <1>1, <1>4 DEF StopsAreFinal, DetachedStaysStopped
    <2>5. QED
      BY <2>2, <2>3, <2>4 DEF StopsAreFinal
  <1>12. TaskRunsAgent'
    BY <1>1, <1>5, <1>6, Members DEF RegistrationsMatch, TaskRunsAgent
  <1>13. RunningHasRun'
    <2> SUFFICES ASSUME NEW c \in Blocks, agents[c] # 0, loops'[agents[c]].state = "running"
                 PROVE  \E q \in DOMAIN runs' :
                           runs'[q].loop = agents[c] /\ runs'[q].pc \in AtWork
      BY <1>6 DEF RunningHasRun, AtWork
    <2>1. CASE loops[agents[c]].state = "running" /\ (runs[r].loop # agents[c] \/ runs[r].pc \notin AtWork)
      <3>1. PICK q \in DOMAIN runs : runs[q].loop = agents[c] /\ runs[q].pc \in AtWork
        BY <1>1, <2>1 DEF RegistrationsMatch, RunningHasRun, AtWork
      <3>2. QED
        BY <1>3, <2>1, <3>1
    <2>2. CASE runs[r].loop = agents[c]
      <3>1. ~runs[r].cancelled
        BY <1>1, <2>2 DEF CancelledAreDropped, Dropped, AgentsSound, BlockOf, LoopOf
      <3>2. runs'[r].pc \in AtWork \/ (loops' = loops /\ runs[r].pc \notin AtWork)
        BY <2>2, <3>1 DEF Advances
      <3>3. QED
        BY <1>3, <1>5, <2>1, <2>2, <3>2
    <2>3. CASE runs[r].loop # agents[c]
      BY <1>1, <1>4, <2>1, <2>3, Members
    <2>4. QED
      BY <2>2, <2>3
  <1>14. QED
    BY <1>7, <1>8, <1>10, <1>11, <1>12, <1>13 DEF IInv, RegistrationsMatch

LEMMA RunsAdvance ==
    ASSUME IInv, NEW r \in DOMAIN runs, RunStep(r)
    PROVE  Advances(r)
  <1>1. /\ Typed /\ RunsSound /\ runs[r] \in Runs /\ runs[r].loop \in DOMAIN loops
        /\ tasks \in [Blocks -> 0..Len(runs)]
        /\ \A l \in DOMAIN loops : loops[l] \in Loops
    BY Members DEF IInv, RunsSound, Typed, TypeOK
  <1>2. agents' = agents /\ handler' = handler
    BY DEF RunStep
  <1>3. runs[r].question = "open" => runs[r].pc = "asking"
    BY <1>1 DEF RunsSound
  <1> USE DEF Advances, MayBecome, Moves, AtWork, Live, Done
  <1>4. CASE RunBegins(r)
    <2> DEFINE e == [runs[r] EXCEPT !.pc = "starting"]
    <2>1. MayBecome(r, e) /\ e.pc = "starting" /\ runs' = [runs EXCEPT ![r] = e]
      BY <1>1, <1>3, <1>4 DEF RunBegins, Runs, RunPCs
    <2> HIDE DEF e
    <2>2. SetState(r, "running") /\ "running" \in LoopStates /\ tasks' = tasks
      BY <1>4 DEF RunBegins, LoopStates
    <2>3. QED
      BY <1>1, <1>2, <2>1, <2>2
  <1>5. CASE RunOpens(r)
    <2> DEFINE e == [runs[r] EXCEPT !.pc = "working"]
    <2>1. MayBecome(r, e) /\ e.pc = "working" /\ runs' = [runs EXCEPT ![r] = e]
      BY <1>1, <1>3, <1>5 DEF RunOpens, Runs, RunPCs
    <2> HIDE DEF e
    <2>2. QED
      BY <1>1, <1>2, <1>5, <2>1 DEF RunOpens
  <1>6. CASE RunAsks(r)
    <2> DEFINE e == [runs[r] EXCEPT !.pc = "asking", !.question = "open"]
    <2>1. MayBecome(r, e) /\ e.pc = "asking" /\ runs' = [runs EXCEPT ![r] = e]
      BY <1>1, <1>6 DEF RunAsks, Runs, RunPCs
    <2> HIDE DEF e
    <2>2. QED
      BY <1>1, <1>2, <1>6, <2>1 DEF RunAsks
  <1>7. CASE QuestionExpires(r)
    <2> DEFINE e == [runs[r] EXCEPT !.pc = "working", !.question = "expired"]
    <2>1. MayBecome(r, e) /\ e.pc = "working" /\ runs' = [runs EXCEPT ![r] = e]
      BY <1>1, <1>7 DEF QuestionExpires, Runs, RunPCs
    <2> HIDE DEF e
    <2>2. QED
      BY <1>1, <1>2, <1>7, <2>1 DEF QuestionExpires
  <1>8. CASE RunCloses(r)
    <2> DEFINE e == [runs[r] EXCEPT !.pc = "closing"]
    <2>1. MayBecome(r, e) /\ e.pc = "closing" /\ runs' = [runs EXCEPT ![r] = e]
      BY <1>1, <1>3, <1>8 DEF RunCloses, Runs, RunPCs
    <2> HIDE DEF e
    <2>2. \E state \in LoopStates : SetState(r, state)
      BY <1>8 DEF RunCloses, LoopStates
    <2>3. QED
      BY <1>1, <1>2, <1>8, <2>1, <2>2 DEF RunCloses
  <1>9. \E state \in LoopStates \ {"running"} : Settle(r) => SetState(r, state)
    BY <1>1 DEF Settle, LoopOf, Loops, LoopStates
  <1>10. CASE RunReports(r)
    <2> DEFINE e == [runs[r] EXCEPT !.pc = "reporting"]
    <2>1. MayBecome(r, e) /\ e.pc = "reporting" /\ runs' = [runs EXCEPT ![r] = e]
      BY <1>1, <1>3, <1>10 DEF RunReports, Runs, RunPCs
    <2> HIDE DEF e
    <2>2. PICK state \in LoopStates \ {"running"} : SetState(r, state)
      BY <1>9, <1>10 DEF RunReports
    <2>3. loops'[runs[r].loop].state # "running"
      BY <1>1, <2>2, SetsState
    <2>4. QED
      BY <1>1, <1>2, <1>10, <2>1, <2>2, <2>3 DEF RunReports
  <1>11. CASE RunCancelled(r)
    <2>1. tasks' = tasks /\ runs[r].cancelled
      BY <1>11 DEF RunCancelled
    <2>2. CASE /\ runs[r].pc \in {"created", "starting", "reporting"}
               /\ runs' = [runs EXCEPT ![r].pc = "done"]
               /\ UNCHANGED loops
      <3> DEFINE e == [runs[r] EXCEPT !.pc = "done"]
      <3>1. MayBecome(r, e) /\ runs' = [runs EXCEPT ![r] = e]
        BY <1>1, <1>3, <2>2 DEF Runs, RunPCs
      <3>2. QED
        BY <1>1, <1>2, <2>1, <2>2, <3>1
    <2>3. CASE /\ runs[r].pc \in {"working", "asking", "closing"}
               /\ runs' = [runs EXCEPT ![r].pc = "reporting", ![r].cancelled = FALSE,
                                  ![r].question = IF @ = "open" THEN "expired" ELSE @]
               /\ Settle(r)
      <3> DEFINE q == IF runs[r].question = "open" THEN "expired" ELSE runs[r].question
                 e == [runs[r] EXCEPT !.pc = "reporting", !.cancelled = FALSE, !.question = q]
      <3>1. q \in {"none", "expired"}
        BY <1>1 DEF Runs
      <3>2. runs' = [runs EXCEPT ![r] = e]
        BY <1>1, <2>3
      <3> HIDE DEF q
      <3>3. MayBecome(r, e)
        BY <1>1, <2>3, <3>1 DEF Runs, RunPCs
      <3>4. QED
        BY <1>1, <1>2, <1>9, <2>1, <2>3, <3>2, <3>3
    <2>4. QED
      BY <1>11, <2>2, <2>3 DEF RunCancelled
  <1>12. CASE RunDone(r)
    <2> DEFINE e == [runs[r] EXCEPT !.pc = "done"]
    <2>1. MayBecome(r, e) /\ e.pc = "done" /\ runs' = [runs EXCEPT ![r] = e]
      BY <1>1, <1>3, <1>12 DEF RunDone, Runs, RunPCs
    <2> HIDE DEF e
    <2>2. QED
      BY <1>1, <1>2, <1>12, <2>1 DEF RunDone
  <1>13. CASE Callback(r)
    <2> DEFINE e == [runs[r] EXCEPT !.pc = "gone"]
    <2>1. MayBecome(r, e) /\ e.pc = "gone" /\ runs' = [runs EXCEPT ![r] = e]
      BY <1>1, <1>3, <1>13 DEF Callback, Runs, RunPCs
    <2> HIDE DEF e
    <2>2. tasks' = [tasks EXCEPT ![BlockOf(r)] = 0] /\ 0 \in 0..Len(runs)
      BY <1>1, <1>13, Members DEF Callback, Pop
    <2>3. tasks' \in [Blocks -> 0..Len(runs)] /\ \A b \in Blocks : tasks'[b] \in {0, tasks[b]}
      BY <1>1, <2>2
    <2>4. QED
      BY <1>1, <1>2, <1>13, <2>1, <2>3 DEF Callback
  <1>14. QED
    BY <1>4, <1>5, <1>6, <1>7, <1>8, <1>10, <1>11, <1>12, <1>13 DEF RunStep

-----------------------------------------------------------------------------
(* Messages of the user *)

(* A resumed agent is the one registered: its new run is the one the       *)
(* session waits for, and only its own earlier runs go on. *)
LEMMA InstructStep ==
    ASSUME IInv, NEW b \in Blocks, Instruct(b), agents' = agents, handler' = handler
    PROVE  IInv'
  <1>1. /\ Typed /\ RunsSound /\ AgentsSound /\ CancelledAreDropped /\ HandlerSound
        /\ OnlyCurrentSpeaks /\ RegistrationsMatch /\ StopsAreFinal
    BY DEF IInv
  <1>2. CASE UNCHANGED <<tasks, loops, runs>>
    BY <1>1, <1>2 DEF IInv, Typed, TypeOK, RunsSound, AgentsSound, CancelledAreDropped,
          HandlerSound, Dropped, OnlyCurrentSpeaks, RegistrationsMatch, TaskRunsAgent,
          RunningHasRun, StopsAreFinal, NoRunBeyondStop, DetachedStaysStopped, Connected,
          Live, Done, BlockOf, LoopOf
  <1>3. CASE ~UNCHANGED <<tasks, loops, runs>>
    <2> DEFINE l == agents[b]
               m == Len(runs) + 1
    <2>1. /\ l # 0 /\ Len(runs) < MaxRuns
          /\ loops' = [loops EXCEPT ![l].stopping = FALSE]
          /\ runs' = Append(runs, NewRun(l))
          /\ tasks' = [tasks EXCEPT ![b] = m]
      BY <1>3 DEF Instruct
    <2>2. /\ l \in DOMAIN loops /\ l \in 1..MaxLoops /\ loops[l] \in Loops
          /\ Len(runs) \in Nat /\ m \in 1..MaxRuns /\ m # 0 /\ m \notin DOMAIN runs
      BY <1>1, <2>1, Members, SessionConstants
    <2>3. /\ runs' \in Seq(Runs) /\ Len(runs') = m /\ DOMAIN runs' = DOMAIN runs \cup {m}
          /\ runs'[m] = NewRun(l) /\ \A q \in DOMAIN runs : runs'[q] = runs[q]
      BY <1>1, <2>1, <2>2, NewRunTyped, Appended DEF Typed, TypeOK
    <2>4. /\ runs'[m].loop = l /\ runs'[m].pc = "created"
          /\ ~runs'[m].cancelled /\ runs'[m].question = "none"
      BY <2>2, <2>3, NewRunTyped
    <2>5. /\ loops' \in Seq(Loops) /\ Len(loops') = Len(loops) /\ DOMAIN loops' = DOMAIN loops
          /\ \A k \in DOMAIN loops :
                /\ loops'[k].block = loops[k].block
                /\ loops'[k].state = loops[k].state
                /\ loops'[k].detached <=> loops[k].detached
                /\ k # l => loops'[k] = loops[k]
      <3> DEFINE e == [loops[l] EXCEPT !.stopping = FALSE]
      <3>1. e \in Loops /\ e.block = loops[l].block /\ e.state = loops[l].state
                /\ (e.detached <=> loops[l].detached)
        BY <2>2 DEF Loops
      <3>2. loops' = [loops EXCEPT ![l] = e]
        BY <2>1
      <3> HIDE DEF e
      <3>3. loops' \in Seq(Loops) /\ Len(loops') = Len(loops)
        BY <1>1, <2>2, <3>1, <3>2, Update DEF Typed, TypeOK
      <3>4. DOMAIN loops' = DOMAIN loops
            /\ \A k \in DOMAIN loops : loops'[k] = IF k = l THEN e ELSE loops[k]
        BY <3>2
      <3>5. QED
        BY <3>1, <3>3, <3>4
    <2>6. loops[l].block = b /\ ~loops[l].detached
      BY <1>1, <2>1 DEF AgentsSound
    <2>7. tasks'[b] = m /\ \A c \in Blocks \ {b} : tasks'[c] = tasks[c]
      BY <1>1, <2>1 DEF Typed, TypeOK
    <2>8. \A c \in Blocks : tasks[c] # 0 => tasks[c] \in DOMAIN runs
      BY <1>1, Members
    <2>9. Typed'
      <3>1. 0..Len(runs) \subseteq 0..m /\ m \in 0..m
        BY <2>2
      <3>2. tasks \in [Blocks -> 0..m]
        BY <1>1, <3>1 DEF Typed, TypeOK
      <3>3. tasks' \in [Blocks -> 0..m]
        BY <2>1, <3>1, <3>2
      <3>4. QED
        BY <1>1, <2>2, <2>3, <2>5, <3>3 DEF Typed, TypeOK
    <2> HIDE DEF m
    <2>10. RunsSound' /\ AgentsSound'
      BY <1>1, <2>2, <2>3, <2>4, <2>5, Members DEF RunsSound, AgentsSound
    <2>11. \A q \in DOMAIN runs : Dropped(q)' <=> Dropped(q)
      BY <1>1, <2>3, <2>5 DEF Dropped, BlockOf, LoopOf, RunsSound
    <2>12. CancelledAreDropped'
      BY <1>1, <2>3, <2>4, <2>11 DEF CancelledAreDropped
    <2>13. HandlerSound'
      <3>1. ASSUME handler.at = "replacing" \/ (handler.at = "stopping" /\ handler.run # 0)
            PROVE  handler.run \in DOMAIN runs' /\ Dropped(handler.run)'
        <4>1. PICK q \in DOMAIN runs : q = handler.run /\ Dropped(q)
          BY <1>1, <3>1 DEF HandlerSound
        <4>2. handler'.run = q
          BY <4>1
        <4>3. QED
          BY <2>3, <2>11, <4>1, <4>2 DEF Dropped, BlockOf, LoopOf
      <3>2. QED
        BY <1>1, <2>3, <3>1 DEF HandlerSound, Connected
    <2>14. OnlyCurrentSpeaks'
      BY <1>1, <2>2, <2>3, <2>4, <2>5, <2>6
         DEF OnlyCurrentSpeaks, Connected, RunsSound, Live, Done, BlockOf, LoopOf
    <2>15. NoRunBeyondStop'
      <3> SUFFICES ASSUME NEW q \in DOMAIN runs', Live(q)'
                   PROVE  (agents[BlockOf(q)] = runs[q].loop \/ LoopOf(q).stopping)'
        BY DEF NoRunBeyondStop
      <3>1. CASE runs'[q].loop = l
        BY <2>2, <2>5, <2>6, <3>1 DEF BlockOf, LoopOf
      <3>2. CASE runs'[q].loop # l
        <4>1. q \in DOMAIN runs /\ runs'[q] = runs[q] /\ runs[q].loop \in DOMAIN loops
          BY <1>1, <2>3, <2>4, <3>2 DEF RunsSound
        <4>2. loops'[runs[q].loop] = loops[runs[q].loop]
          BY <2>5, <3>2, <4>1
        <4>3. QED
          BY <1>1, <4>1, <4>2 DEF StopsAreFinal, NoRunBeyondStop, Live, Done, BlockOf, LoopOf
      <3>3. QED
        BY <3>1, <3>2
    <2>16. DetachedStaysStopped'
      BY <1>1, <2>5, <2>6 DEF StopsAreFinal, DetachedStaysStopped
    <2>17. TaskRunsAgent'
      BY <1>1, <2>3, <2>4, <2>7, <2>8 DEF RegistrationsMatch, TaskRunsAgent
    <2>18. RunningHasRun'
      <3> SUFFICES ASSUME NEW c \in Blocks, agents[c] # 0, loops'[agents[c]].state = "running"
                   PROVE  \E q \in DOMAIN runs' :
                              /\ runs'[q].loop = agents[c]
                              /\ runs'[q].pc \in {"starting", "working", "asking", "closing"}
        BY DEF RunningHasRun
      <3>1. agents[c] \in DOMAIN loops
        BY <1>1, Members
      <3>2. loops[agents[c]].state = "running"
        BY <2>5, <3>1
      <3>3. PICK q \in DOMAIN runs :
                /\ runs[q].loop = agents[c]
                /\ runs[q].pc \in {"starting", "working", "asking", "closing"}
        BY <1>1, <3>2 DEF RegistrationsMatch, RunningHasRun
      <3>4. QED
        BY <2>3, <3>3
    <2>19. QED
      BY <2>9, <2>10, <2>12, <2>13, <2>14, <2>15, <2>16, <2>17, <2>18
         DEF IInv, RegistrationsMatch, StopsAreFinal
  <1>4. QED
    BY <1>2, <1>3

LEMMA AnswerStep ==
    ASSUME IInv, NEW r \in DOMAIN runs, UserAnswers(r)
    PROVE  IInv'
  <1>1. /\ Typed /\ RunsSound /\ runs[r] \in Runs /\ BlockOf(r) \in Blocks
        /\ tasks \in [Blocks -> 0..Len(runs)]
    BY Members DEF IInv, RunsSound, BlockOf, LoopOf, Loops, Typed, TypeOK
  <1>2. CASE runs[r].question = "open"
    <2> DEFINE e == [runs[r] EXCEPT !.question = "none", !.pc = "working"]
    <2>1. runs[r].pc = "asking"
      BY <1>1, <1>2 DEF RunsSound
    <2>2. MayBecome(r, e) /\ e.pc = "working" /\ runs' = [runs EXCEPT ![r] = e]
      BY <1>1, <1>2, <2>1 DEF UserAnswers, MayBecome, Live, Done, Runs, RunPCs
    <2> HIDE DEF e
    <2>3. e \in Runs /\ runs'[r].pc \in AtWork
      BY <1>1, <2>2 DEF MayBecome, AtWork
    <2>4. agents' = agents /\ handler' = handler /\ tasks' = tasks /\ loops' = loops
      BY <1>2 DEF UserAnswers
    <2>5. Advances(r)
      BY <1>1, <2>2, <2>3, <2>4 DEF Advances
    <2>6. QED
      BY <2>5, AdvanceStep
  <1>3. CASE runs[r].question # "open"
    <2>1. PICK b \in Blocks : Instruct(b)
      BY <1>1, <1>3 DEF UserAnswers
    <2>2. QED
      BY <2>1, InstructStep DEF UserAnswers
  <1>4. QED
    BY <1>2, <1>3

-----------------------------------------------------------------------------
(* The end of the session *)

LEMMA DisconnectStep == IInv /\ Disconnect => IInv'
  <1> SUFFICES ASSUME IInv, Disconnect PROVE IInv'
    OBVIOUS
  <1>1. /\ Typed /\ RunsSound /\ AgentsSound /\ CancelledAreDropped /\ HandlerSound
        /\ OnlyCurrentSpeaks /\ RegistrationsMatch /\ StopsAreFinal
    BY DEF IInv
  <1>2. /\ Len(loops) \in Nat /\ DOMAIN loops = 1..Len(loops)
        /\ Len(runs) \in Nat /\ DOMAIN runs = 1..Len(runs)
        /\ \A l \in DOMAIN loops : loops[l] \in Loops /\ l # 0
        /\ \A r \in DOMAIN runs : runs[r] \in Runs /\ r # 0
        /\ DOMAIN runs \subseteq 1..MaxRuns
    BY <1>1, Members
  <1>3. /\ runs' \in Seq(Runs) /\ Len(runs') = Len(runs) /\ DOMAIN runs' = DOMAIN runs
        /\ \A r \in DOMAIN runs :
              /\ runs'[r].loop = runs[r].loop /\ (runs'[r].cancelled => runs[r].cancelled)
              /\ Live(r)' => Live(r)
              /\ runs'[r].question = "open" => runs'[r].pc = "asking"
    <2> DEFINE f(r) == IF runs[r].question = "open"
                       THEN [runs[r] EXCEPT !.question = "expired", !.pc = "working"]
                       ELSE runs[r]
    <2>1. runs' = [r \in 1..Len(runs) |-> f(r)]
      BY <1>2 DEF Disconnect, FailPending
    <2>2. \A r \in DOMAIN runs :
            /\ f(r) \in Runs /\ f(r).loop = runs[r].loop
            /\ f(r).cancelled => runs[r].cancelled
            /\ f(r).pc \notin {"done", "gone"} => runs[r].pc \notin {"done", "gone"}
            /\ f(r).question = "open" => f(r).pc = "asking"
      BY <1>1, <1>2 DEF RunsSound, Runs, RunPCs
    <2> HIDE DEF f
    <2>3. DOMAIN runs' = DOMAIN runs /\ \A r \in DOMAIN runs : runs'[r] = f(r)
      BY <1>2, <2>1
    <2>4. runs' \in Seq(Runs) /\ Len(runs') = Len(runs)
      <3>1. runs' \in [1..Len(runs) -> Runs]
        BY <1>2, <2>1, <2>2
      <3>2. QED
        BY <1>2, <3>1, FunctionIsSeq
    <2>5. QED
      BY <2>2, <2>3, <2>4 DEF Live, Done
  <1>4. /\ loops' \in Seq(Loops) /\ Len(loops') = Len(loops) /\ DOMAIN loops' = DOMAIN loops
        /\ \A l \in DOMAIN loops :
              /\ loops'[l].block = loops[l].block
              /\ loops'[l].detached <=> loops[l].detached
              /\ loops'[l].stopping <=> (loops[l].stopping \/ l \in Registered)
    <2> DEFINE f(l) == [loops[l] EXCEPT !.stopping = @ \/ l \in Registered]
    <2>1. loops' = [l \in 1..Len(loops) |-> f(l)]
      BY <1>2 DEF Disconnect, StopAll
    <2>2. \A l \in DOMAIN loops :
            /\ f(l) \in Loops /\ f(l).block = loops[l].block
            /\ f(l).detached <=> loops[l].detached
            /\ f(l).stopping <=> (loops[l].stopping \/ l \in Registered)
      BY <1>2 DEF Loops
    <2> HIDE DEF f
    <2>3. DOMAIN loops' = DOMAIN loops /\ \A l \in DOMAIN loops : loops'[l] = f(l)
      BY <1>2, <2>1
    <2>4. loops' \in Seq(Loops) /\ Len(loops') = Len(loops)
      <3>1. loops' \in [1..Len(loops) -> Loops]
        BY <1>2, <2>1, <2>2
      <3>2. QED
        BY <1>2, <3>1, FunctionIsSeq
    <2>5. QED
      BY <2>2, <2>3, <2>4
  <1>5. \A b \in Blocks : agents'[b] = 0 /\ tasks'[b] = 0
    BY DEF Disconnect
  <1>6. handler'.at = "closing" /\ handler'.left \subseteq DOMAIN runs /\ handler' \in Handlers
        /\ ~Connected'
    BY <1>2 DEF Disconnect, Handlers, Connected
  <1>7. Typed'
    BY <1>1, <1>2, <1>3, <1>4, <1>6 DEF Typed, TypeOK, Disconnect
  <1>8. RunsSound' /\ AgentsSound'
    BY <1>1, <1>3, <1>4, <1>5 DEF RunsSound, AgentsSound
  <1>9. \A r \in DOMAIN runs : BlockOf(r)' = BlockOf(r) /\ BlockOf(r) \in Blocks
    BY <1>1, <1>2, <1>3, <1>4 DEF RunsSound, BlockOf, LoopOf, Loops
  <1>10. HandlerSound' /\ CancelledAreDropped'
    BY <1>1, <1>2, <1>3, <1>5, <1>6, <1>9
       DEF HandlerSound, CancelledAreDropped, Dropped, RunsSound
  <1>11. OnlyCurrentSpeaks' /\ RegistrationsMatch'
    BY <1>5, <1>6 DEF OnlyCurrentSpeaks, RegistrationsMatch, TaskRunsAgent, RunningHasRun
  <1>12. NoRunBeyondStop'
    <2> SUFFICES ASSUME NEW r \in DOMAIN runs, Live(r) PROVE loops'[runs[r].loop].stopping
      BY <1>3 DEF NoRunBeyondStop, LoopOf
    <2>1. runs[r].loop \in DOMAIN loops
      BY <1>1 DEF RunsSound
    <2>2. CASE agents[BlockOf(r)] = runs[r].loop
      BY <1>2, <1>4, <1>9, <2>1, <2>2 DEF Registered
    <2>3. CASE loops[runs[r].loop].stopping
      BY <1>4, <2>1, <2>3
    <2>4. QED
      BY <1>1, <2>2, <2>3 DEF StopsAreFinal, NoRunBeyondStop, LoopOf
  <1>13. DetachedStaysStopped'
    BY <1>1, <1>4 DEF StopsAreFinal, DetachedStaysStopped
  <1>14. QED
    BY <1>7, <1>8, <1>10, <1>11, <1>12, <1>13 DEF IInv, StopsAreFinal

LEMMA CloseStep == IInv /\ CloseNext => IInv'
  <1> SUFFICES ASSUME IInv, CloseNext PROVE IInv'
    OBVIOUS
  <1>1. /\ Typed /\ RunsSound /\ AgentsSound /\ CancelledAreDropped /\ HandlerSound
        /\ OnlyCurrentSpeaks /\ RegistrationsMatch /\ StopsAreFinal
    BY DEF IInv
  <1>2. handler.at = "closing" /\ handler.left \subseteq DOMAIN runs
        /\ handler.left \subseteq 1..MaxRuns /\ \A b \in Blocks : agents[b] = 0
    BY <1>1 DEF CloseNext, HandlerSound, Connected, Typed, Handlers
  <1>3. UNCHANGED <<agents, tasks, loops>>
    BY DEF CloseNext
  <1>4. handler' \in Handlers /\ handler'.at \in {"closing", "closed"}
        /\ (handler'.at = "closing" => handler'.left \subseteq DOMAIN runs)
    <2>1. CASE handler' = [at |-> "closed"]
      BY <2>1 DEF Handlers
    <2>2. CASE \E r \in handler.left : handler' = [handler EXCEPT !.left = @ \ {r}]
      <3>1. handler \in [at : {"closing"}, left : SUBSET (1..MaxRuns)]
        BY <1>1, <1>2 DEF Typed, Handlers
      <3>2. QED
        BY <1>2, <2>2, <3>1 DEF Handlers
    <2>3. QED
      BY <2>1, <2>2 DEF CloseNext
  <1>5. /\ runs' \in Seq(Runs) /\ Len(runs') = Len(runs) /\ DOMAIN runs' = DOMAIN runs
        /\ \A q \in DOMAIN runs :
              /\ runs'[q].loop = runs[q].loop
              /\ runs'[q].pc = runs[q].pc
              /\ runs'[q].question = runs[q].question
    BY <1>1, <1>2, Cancels DEF CloseNext, Typed, TypeOK
  <1>6. Typed'
    BY <1>1, <1>3, <1>4, <1>5 DEF Typed, TypeOK
  <1>7. RunsSound' /\ AgentsSound'
    BY <1>1, <1>3, <1>5 DEF RunsSound, AgentsSound
  <1>8. \A r \in DOMAIN runs : Dropped(r)'
    <2>1. \A r \in DOMAIN runs : BlockOf(r) \in Blocks /\ runs[r].loop # 0
      BY <1>1, Members DEF RunsSound, BlockOf, LoopOf, Loops
    <2>2. QED
      BY <1>2, <1>3, <1>5, <2>1 DEF Dropped, BlockOf, LoopOf
  <1>9. HandlerSound' /\ CancelledAreDropped'
    BY <1>2, <1>3, <1>4, <1>5, <1>8 DEF HandlerSound, CancelledAreDropped
  <1>10. OnlyCurrentSpeaks'
    BY <1>4 DEF OnlyCurrentSpeaks, Connected
  <1>11. RegistrationsMatch' /\ StopsAreFinal'
    BY <1>1, <1>2, <1>3, <1>5, Members
       DEF RegistrationsMatch, TaskRunsAgent, RunningHasRun, StopsAreFinal, NoRunBeyondStop,
           DetachedStaysStopped, Live, Done, BlockOf, LoopOf
  <1>12. QED
    BY <1>6, <1>7, <1>9, <1>10, <1>11 DEF IInv

-----------------------------------------------------------------------------
(* Theorems *)

LEMMA Initially == Init => IInv
  <1> SUFFICES ASSUME Init PROVE IInv
    OBVIOUS
  <1>1. /\ loops = << >> /\ runs = << >> /\ DOMAIN loops = {} /\ DOMAIN runs = {}
        /\ loops \in Seq(Loops) /\ runs \in Seq(Runs) /\ Len(loops) = 0 /\ Len(runs) = 0
        /\ \A b \in Blocks : agents[b] = 0 /\ tasks[b] = 0
        /\ agents \in [Blocks -> 0..0] /\ tasks \in [Blocks -> 0..0]
    BY DEF Init
  <1>2. handler \in Handlers /\ handler.at = "idle"
    BY DEF Init, Handlers
  <1>3. Typed
    BY <1>1, <1>2, SessionConstants DEF Typed, TypeOK
  <1>4. QED
    BY <1>1, <1>2, <1>3
       DEF IInv, RunsSound, AgentsSound, HandlerSound, Connected, CancelledAreDropped,
           OnlyCurrentSpeaks, RegistrationsMatch, TaskRunsAgent, RunningHasRun, StopsAreFinal,
           NoRunBeyondStop, DetachedStaysStopped

LEMMA Inductive == IInv /\ [Next]_vars => IInv'
  <1> SUFFICES ASSUME IInv, [Next]_vars PROVE IInv'
    OBVIOUS
  <1>1. ASSUME NEW b \in Blocks, PressAgent(b) PROVE IInv'
    BY <1>1, PressStep
  <1>2. ASSUME NEW b \in Blocks, UserInstructs(b) PROVE IInv'
    BY <1>2, InstructStep DEF UserInstructs
  <1>3. CASE Replace \/ PressStop \/ StopNext \/ Disconnect \/ CloseNext
    BY <1>3, ReplaceStep, PressStopStep, StopNextStep, DisconnectStep, CloseStep
  <1>4. ASSUME NEW r \in DOMAIN runs, UserAnswers(r) PROVE IInv'
    BY <1>4, AnswerStep
  <1>5. ASSUME NEW r \in DOMAIN runs, RunStep(r) PROVE IInv'
    BY <1>5, RunsAdvance, AdvanceStep
  <1>6. CASE UNCHANGED vars
    BY <1>6 DEF vars, IInv, Typed, TypeOK, RunsSound, AgentsSound, CancelledAreDropped,
          HandlerSound, Dropped, OnlyCurrentSpeaks, RegistrationsMatch, TaskRunsAgent,
          RunningHasRun, StopsAreFinal, NoRunBeyondStop, DetachedStaysStopped, Connected,
          Live, Done, BlockOf, LoopOf
  <1>7. QED
    BY <1>1, <1>2, <1>3, <1>4, <1>5, <1>6 DEF Next

LEMMA Invariance == Spec => []IInv
  BY Initially, Inductive, PTL DEF Spec

(* The maps point to loops and runs there are, and these have their types. *)
THEOREM TypeCorrect == Spec => []TypeOK
  <1>1. IInv => TypeOK
    BY DEF IInv, Typed
  <1>2. QED
    BY Invariance, <1>1, PTL

(* While the client is connected, only the agent that is registered for a  *)
(* block can still send it something, however often agents are replaced,   *)
(* stopped, resumed and cancelled. *)
THEOREM CurrentSpeaks == Spec => []OnlyCurrentSpeaks
  <1>1. IInv => OnlyCurrentSpeaks
    BY DEF IInv
  <1>2. QED
    BY Invariance, <1>1, PTL

(* The task registered for a block runs its agent, and an agent that is    *)
(* held and says that it is running has a coroutine that works. *)
THEOREM RegistrationsHold == Spec => []RegistrationsMatch
  <1>1. IInv => RegistrationsMatch
    BY DEF IInv
  <1>2. QED
    BY Invariance, <1>1, PTL

(* No run escapes a stop or the end of the session, and no agent that was  *)
(* stopped or replaced is set going again. *)
THEOREM StopsFinal == Spec => []StopsAreFinal
  <1>1. IInv => StopsAreFinal
    BY DEF IInv
  <1>2. QED
    BY Invariance, <1>1, PTL

-----------------------------------------------------------------------------
(* Each loop lives as AgentLife says: its tasks are the crew. *)

(* How far run r is, seen from loop l. *)
Seat(l, r) ==
    IF r \in DOMAIN runs /\ runs[r].loop = l THEN Stage[runs[r].pc] ELSE "away"

SameCrew(l) == \A q \in 1..MaxRuns : Seat(l, q)' = Seat(l, q)

(* Of the tasks that run l, only r goes on. *)
CrewMoves(l, r, from, to) ==
    /\ r \in 1..MaxRuns
    /\ Seat(l, r) = from /\ Seat(l, r)' = to
    /\ \A q \in 1..MaxRuns \ {r} : Seat(l, q)' = Seat(l, q)

LEMMA CrewStays ==
    ASSUME NEW l, SameCrew(l)
    PROVE  Crew(l)' = Crew(l)
  BY DEF SameCrew, Crew, Seat

LEMMA CrewGoes ==
    ASSUME NEW l, NEW r, NEW from, NEW to, CrewMoves(l, r, from, to)
    PROVE  Life(l)!Goes(r, from, to)
  <1>1. Crew(l) = [q \in 1..MaxRuns |-> Seat(l, q)]
    BY DEF Crew, Seat
  <1>2. Crew(l)' = [q \in 1..MaxRuns |-> Seat(l, q)']
    BY DEF Crew, Seat
  <1>3. QED
    BY <1>1, <1>2 DEF Life!Goes, CrewMoves

LEMMA Stages ==
    /\ Stage["created"] = "called" /\ Stage["starting"] = "starting"
    /\ Stage["working"] = "working" /\ Stage["asking"] = "working"
    /\ Stage["closing"] = "closing" /\ Stage["reporting"] = "away"
    /\ Stage["done"] = "away" /\ Stage["gone"] = "away"
  BY DEF Stage

(* What AgentLife sees of l. *)
StateOf(l) == IF Built(l) THEN loops[l].state ELSE "idle"
StoppingOf(l) == Built(l) /\ loops[l].stopping
DetachedOf(l) == Built(l) /\ loops[l].detached
Held(l) == Built(l) => agents[loops[l].block] = l

(* The steps of AgentLife, by what changes of l.                           *)
LEMMA Stutters ==
    ASSUME NEW l, SameCrew(l), StateOf(l)' = StateOf(l), StoppingOf(l)' <=> StoppingOf(l),
           DetachedOf(l)' <=> DetachedOf(l), Held(l)' <=> Held(l)
    PROVE  UNCHANGED Life(l)!lifeVars
  BY CrewStays DEF Life!lifeVars, StateOf, StoppingOf, DetachedOf, Held

LEMMA Drops ==
    ASSUME NEW l, SameCrew(l), StateOf(l)' = StateOf(l), StoppingOf(l)',
           DetachedOf(l) => DetachedOf(l)', Held(l), ~Held(l)'
    PROVE  Life(l)!LifeNext
  <1>1. Life(l)!Drop
    BY CrewStays DEF Life!Drop, StateOf, StoppingOf, DetachedOf, Held
  <1>2. QED
    BY <1>1 DEF Life!LifeNext

LEMMA IsCalled ==
    ASSUME NEW l, NEW r, CrewMoves(l, r, "away", "called"), StateOf(l)' = StateOf(l),
           StateOf(l) # "running", ~StoppingOf(l)', DetachedOf(l)' <=> DetachedOf(l),
           Held(l), Held(l)'
    PROVE  Life(l)!LifeNext
  <1>1. Life(l)!Call(r)
    BY CrewGoes DEF Life!Call, Life!Instructed, StateOf, StoppingOf, DetachedOf, Held
  <1>2. QED
    BY <1>1 DEF Life!LifeNext, CrewMoves

(* A task of l moves, and only the state may change with it. *)
LEMMA WorksOn ==
    ASSUME NEW l, NEW r, NEW from, NEW to, CrewMoves(l, r, from, to),
           StoppingOf(l)' <=> StoppingOf(l), DetachedOf(l)' <=> DetachedOf(l), Held(l)' <=> Held(l),
           \/ from = "called" /\ to = "starting" /\ StateOf(l)' = "running"
           \/ from = "starting" /\ to = "working" /\ StateOf(l)' = StateOf(l)
           \/ /\ from = "working" /\ to = "closing"
              /\ StateOf(l)' \in {"finished", "error"} \/ (StateOf(l)' = "stopped" /\ StoppingOf(l))
           \/ /\ from = "closing" /\ to = "away"
              /\ StateOf(l)' = IF StateOf(l) = "running" THEN "stopped" ELSE StateOf(l)
           \/ /\ from \in {"called", "starting"} /\ to = "away" /\ ~Held(l)
              /\ StateOf(l)' = StateOf(l)
           \/ /\ from \in {"working", "closing"} /\ to = "away" /\ ~Held(l)
              /\ StateOf(l)' = IF StateOf(l) = "running" THEN "stopped" ELSE StateOf(l)
    PROVE  Life(l)!LifeNext
  <1>1. Life(l)!Goes(r, from, to) /\ r \in 1..MaxRuns
    BY CrewGoes DEF CrewMoves
  <1> USE DEF StateOf, StoppingOf, DetachedOf, Held
  <1>2. CASE from = "called" /\ to = "starting" /\ StateOf(l)' = "running"
    BY <1>1, <1>2 DEF Life!Begin, Life!LifeNext
  <1>3. CASE from = "starting" /\ to = "working" /\ StateOf(l)' = StateOf(l)
    BY <1>1, <1>3 DEF Life!Open, Life!LifeNext
  <1>4. CASE /\ from = "working" /\ to = "closing"
             /\ StateOf(l)' \in {"finished", "error"} \/ (StateOf(l)' = "stopped" /\ StoppingOf(l))
    BY <1>1, <1>4 DEF Life!Close, Life!LifeNext
  <1>5. CASE /\ from = "closing" /\ to = "away"
             /\ StateOf(l)' = IF StateOf(l) = "running" THEN "stopped" ELSE StateOf(l)
    BY <1>1, <1>5 DEF Life!End, Life!Settled, Life!LifeNext
  <1>6. CASE /\ from \in {"called", "starting"} /\ to = "away" /\ ~Held(l)
             /\ StateOf(l)' = StateOf(l)
    BY <1>1, <1>6 DEF Life!Cancelled, Life!LifeNext
  <1>7. CASE /\ from \in {"working", "closing"} /\ to = "away" /\ ~Held(l)
             /\ StateOf(l)' = IF StateOf(l) = "running" THEN "stopped" ELSE StateOf(l)
    BY <1>1, <1>7 DEF Life!Cancelled, Life!Settled, Life!LifeNext
  <1>8. QED
    BY <1>2, <1>3, <1>4, <1>5, <1>6, <1>7

-----------------------------------------------------------------------------
(* A loop there is, when a block's agent is let go or replaced: it is      *)
(* dropped if it is that agent, and nothing happens to it otherwise.        *)
LEMMA LetGo ==
    ASSUME IInv, NEW b \in Blocks, NEW l \in DOMAIN loops, SameCrew(l),
           l \in DOMAIN loops', agents'[b] # l,
           \A c \in Blocks \ {b} : agents'[c] = agents[c],
           loops'[l].block = loops[l].block, loops'[l].state = loops[l].state,
           loops'[l].stopping <=> (loops[l].stopping \/ l = agents[b]),
           loops'[l].detached <=> (loops[l].detached \/ l = agents[b])
    PROVE  Life(l)!LifeNext \/ UNCHANGED Life(l)!lifeVars
  <1>1. /\ Built(l) /\ Built(l)' /\ l # 0 /\ loops[l].block \in Blocks
        /\ \A c \in Blocks : agents[c] # 0 => loops[agents[c]].block = c
    BY Members DEF Built, IInv, AgentsSound, Loops
  <1>2. CASE l = agents[b]
    <2>1. loops[l].block = b
      BY <1>1, <1>2
    <2>2. /\ StateOf(l)' = StateOf(l) /\ StoppingOf(l)'
          /\ DetachedOf(l) => DetachedOf(l)'
          /\ Held(l) /\ ~Held(l)'
      BY <1>1, <1>2, <2>1 DEF StateOf, StoppingOf, DetachedOf, Held
    <2>3. QED
      BY <2>2, Drops
  <1>3. CASE l # agents[b]
    <2>1. /\ StateOf(l)' = StateOf(l) /\ (StoppingOf(l)' <=> StoppingOf(l))
          /\ (DetachedOf(l)' <=> DetachedOf(l)) /\ (Held(l)' <=> Held(l))
      BY <1>1, <1>3 DEF StateOf, StoppingOf, DetachedOf, Held
    <2>2. QED
      BY <2>1, Stutters
  <1>4. QED
    BY <1>2, <1>3

(* The crews are those of before when the tasks stay with their loops. *)
LEMMA CrewsStay ==
    ASSUME NEW l, DOMAIN runs' = DOMAIN runs,
           \A q \in DOMAIN runs : /\ runs'[q].loop = runs[q].loop
                                  /\ Stage[runs'[q].pc] = Stage[runs[q].pc]
    PROVE  SameCrew(l)
  BY DEF SameCrew, Seat

(* A loop that is not built yet stays as it is. *)
LEMMA NotBuiltStutters ==
    ASSUME NEW l, SameCrew(l), ~Built(l), ~Built(l)'
    PROVE  UNCHANGED Life(l)!lifeVars
  BY Stutters DEF StateOf, StoppingOf, DetachedOf, Held

(* Each action of the session, seen from loop l. *)
LEMMA LivesThroughStop ==
    ASSUME IInv, NEW l, NEW b \in Blocks,
           LeftBy(b, agents', tasks', loops', runs'), agents'[b] = 0
    PROVE  Life(l)!LifeNext \/ UNCHANGED Life(l)!lifeVars
  <1>1. SameCrew(l)
    BY CrewsStay DEF LeftBy
  <1>2. CASE l \in DOMAIN loops
    BY <1>1, <1>2, LetGo, Members DEF LeftBy, IInv
  <1>3. CASE l \notin DOMAIN loops
    BY <1>1, <1>3, NotBuiltStutters DEF LeftBy, Built
  <1>4. QED
    BY <1>2, <1>3

LEMMA LivesThroughBuild ==
    ASSUME IInv, NEW l, NEW b \in Blocks, NEW as, NEW ts, NEW ls, NEW rs,
           LeftBy(b, as, ts, ls, rs), Build(b, as, ts, ls, rs)
    PROVE  Life(l)!LifeNext \/ UNCHANGED Life(l)!lifeVars
  <1>0. PICK n, m : n = Len(loops) + 1 /\ m = Len(runs) + 1
    OBVIOUS
  <1> DEFINE fresh == [block |-> b, state |-> "idle", stopping |-> FALSE, detached |-> FALSE]
  <1>1. Typed /\ RunsSound
    BY DEF IInv
  <1>2. /\ Len(loops) \in Nat /\ DOMAIN loops = 1..Len(loops)
        /\ Len(runs) \in Nat /\ DOMAIN runs = 1..Len(runs)
        /\ n \in 1..MaxLoops /\ m \in 1..MaxRuns
    BY <1>0, <1>1, Members, SessionConstants DEF LeftBy, Build
  <1>3. fresh \in Loops /\ NewRun(n) \in Runs
    BY <1>2, NewRunTyped DEF Loops, LoopStates
  <1>4. /\ loops' = Append(ls, fresh) /\ runs' = Append(rs, NewRun(n))
        /\ agents' = [as EXCEPT ![b] = n]
    BY <1>0 DEF Build, LeftBy
  <1>5. /\ DOMAIN loops' = DOMAIN loops \cup {n}
        /\ loops'[n] = fresh /\ \A k \in DOMAIN loops : loops'[k] = ls[k]
    BY <1>0, <1>3, <1>4, Appended DEF LeftBy
  <1>6. /\ DOMAIN runs' = DOMAIN runs \cup {m}
        /\ runs'[m] = NewRun(n) /\ \A q \in DOMAIN runs : runs'[q] = rs[q]
    BY <1>0, <1>3, <1>4, Appended DEF LeftBy
  <1>7. agents'[b] = n /\ \A c \in Blocks \ {b} : agents'[c] = agents[c]
    BY <1>4 DEF LeftBy
  <1>8. n \notin DOMAIN loops /\ m \notin DOMAIN runs
    BY <1>0, <1>2
  <1>9. /\ runs'[m].loop = n /\ runs'[m].pc = "created"
        /\ loops'[n].block = b /\ loops'[n].state = "idle"
        /\ ~loops'[n].stopping /\ ~loops'[n].detached
    <2>1. fresh.block = b /\ fresh.state = "idle" /\ ~fresh.stopping /\ ~fresh.detached
      OBVIOUS
    <2> HIDE DEF fresh
    <2>2. QED
      BY <1>2, <1>5, <1>6, <2>1, NewRunTyped
  <1>10. /\ \A q \in DOMAIN runs :
              /\ runs'[q].loop = runs[q].loop /\ runs'[q].pc = runs[q].pc
              /\ runs[q].loop \in DOMAIN loops
         /\ \A k \in DOMAIN loops :
              /\ loops'[k].block = loops[k].block
              /\ loops'[k].state = loops[k].state
              /\ loops'[k].stopping <=> (loops[k].stopping \/ k = agents[b])
              /\ loops'[k].detached <=> (loops[k].detached \/ k = agents[b])
    BY <1>1, <1>5, <1>6 DEF LeftBy, RunsSound
  <1> HIDE DEF fresh
  <1>11. CASE l = n
    <2>1. CrewMoves(l, m, "away", "called")
      <3>1. \A q \in DOMAIN runs : runs[q].loop # l /\ runs'[q].loop # l
        BY <1>8, <1>10, <1>11
      <3>2. Seat(l, m) = "away" /\ Seat(l, m)' = "called"
        BY <1>6, <1>8, <1>9, <1>11, Stages DEF Seat
      <3>3. \A q \in 1..MaxRuns \ {m} : Seat(l, q)' = Seat(l, q)
        BY <1>6, <3>1 DEF Seat
      <3>4. QED
        BY <1>2, <3>2, <3>3 DEF CrewMoves
    <2>2. /\ ~Built(l) /\ Built(l)'
      BY <1>5, <1>8, <1>11 DEF Built
    <2>3. /\ StateOf(l)' = StateOf(l) /\ StateOf(l) # "running" /\ ~StoppingOf(l)'
          /\ (DetachedOf(l)' <=> DetachedOf(l)) /\ Held(l) /\ Held(l)'
      BY <1>7, <1>9, <1>11, <2>2 DEF StateOf, StoppingOf, DetachedOf, Held
    <2>4. QED
      BY <2>1, <2>3, IsCalled
  <1>12. CASE l # n
    <2>1. SameCrew(l)
      BY <1>6, <1>8, <1>9, <1>10, <1>12 DEF SameCrew, Seat
    <2>2. CASE l \in DOMAIN loops
      BY <1>5, <1>7, <1>10, <1>12, <2>1, <2>2, LetGo
    <2>3. CASE l \notin DOMAIN loops
      BY <1>5, <1>12, <2>1, <2>3, NotBuiltStutters DEF Built
    <2>4. QED
      BY <2>2, <2>3
  <1>13. QED
    BY <1>11, <1>12

(* Nothing of loop l changes. *)
LEMMA Untouched ==
    ASSUME NEW l, SameCrew(l), loops' = loops \/ ~Built(l), DOMAIN loops' = DOMAIN loops,
           agents' = agents
    PROVE  UNCHANGED Life(l)!lifeVars
  <1>1. Built(l)' = Built(l) /\ (Built(l) => loops'[l] = loops[l])
    BY DEF Built
  <1>2. QED
    BY <1>1, Stutters DEF StateOf, StoppingOf, DetachedOf, Held

LEMMA LivesThroughInstruct ==
    ASSUME IInv, NEW l, NEW b \in Blocks, Instruct(b), agents' = agents
    PROVE  Life(l)!LifeNext \/ UNCHANGED Life(l)!lifeVars
  <1>1. Typed /\ RunsSound /\ AgentsSound
    BY DEF IInv
  <1>2. CASE UNCHANGED <<tasks, loops, runs>>
    <2>1. SameCrew(l)
      BY <1>2 DEF SameCrew, Seat
    <2>2. QED
      BY <1>2, <2>1, Untouched
  <1>3. CASE ~UNCHANGED <<tasks, loops, runs>>
    <2>1. PICK k, m : k = agents[b] /\ m = Len(runs) + 1
      OBVIOUS
    <2>2. /\ k # 0 /\ Len(runs) < MaxRuns /\ loops[k].state # "running"
          /\ loops' = [loops EXCEPT ![k].stopping = FALSE]
          /\ runs' = Append(runs, NewRun(k))
      BY <1>3, <2>1 DEF Instruct
    <2>3. /\ k \in DOMAIN loops /\ k \in 1..MaxLoops /\ loops[k] \in Loops
          /\ m \in 1..MaxRuns /\ m \notin DOMAIN runs
          /\ loops[k].block = b
      BY <1>1, <2>1, <2>2, Members, SessionConstants DEF AgentsSound
    <2>4. /\ DOMAIN runs' = DOMAIN runs \cup {m}
          /\ runs'[m] = NewRun(k) /\ \A q \in DOMAIN runs : runs'[q] = runs[q]
      BY <1>1, <2>1, <2>2, <2>3, NewRunTyped, Appended DEF Typed, TypeOK
    <2>5. runs'[m].loop = k /\ runs'[m].pc = "created"
      BY <2>3, <2>4, NewRunTyped
    <2>6. /\ DOMAIN loops' = DOMAIN loops /\ \A j \in DOMAIN loops \ {k} : loops'[j] = loops[j]
          /\ loops'[k].block = b /\ loops'[k].state = loops[k].state
          /\ (loops'[k].detached <=> loops[k].detached) /\ ~loops'[k].stopping
      BY <2>2, <2>3 DEF Loops
    <2>7. CASE l = k
      <3>1. CrewMoves(l, m, "away", "called")
        <4>1. Seat(l, m) = "away" /\ Seat(l, m)' = "called"
          BY <2>3, <2>4, <2>5, <2>7, Stages DEF Seat
        <4>2. \A q \in 1..MaxRuns \ {m} : Seat(l, q)' = Seat(l, q)
          BY <2>4 DEF Seat
        <4>3. QED
          BY <2>3, <4>1, <4>2 DEF CrewMoves
      <3>2. Built(l) /\ Built(l)'
        BY <2>3, <2>6, <2>7 DEF Built
      <3>3. /\ StateOf(l)' = StateOf(l) /\ StateOf(l) # "running" /\ ~StoppingOf(l)'
            /\ (DetachedOf(l)' <=> DetachedOf(l)) /\ Held(l) /\ Held(l)'
        BY <2>1, <2>2, <2>3, <2>6, <2>7, <3>2 DEF StateOf, StoppingOf, DetachedOf, Held
      <3>4. QED
        BY <3>1, <3>3, IsCalled
    <2>8. CASE l # k
      <3>1. SameCrew(l)
        BY <2>3, <2>4, <2>5, <2>8 DEF SameCrew, Seat
      <3>2. Built(l)' = Built(l) /\ (Built(l) => loops'[l] = loops[l])
        BY <2>6, <2>8 DEF Built
      <3>3. QED
        BY <3>1, <3>2, Stutters DEF StateOf, StoppingOf, DetachedOf, Held
    <2>9. QED
      BY <2>7, <2>8
  <1>4. QED
    BY <1>2, <1>3

LEMMA LivesThroughAnswer ==
    ASSUME IInv, NEW l, NEW r \in DOMAIN runs, UserAnswers(r)
    PROVE  Life(l)!LifeNext \/ UNCHANGED Life(l)!lifeVars
  <1>1. /\ Typed /\ RunsSound /\ runs[r] \in Runs /\ BlockOf(r) \in Blocks /\ agents' = agents
    BY Members DEF IInv, RunsSound, BlockOf, LoopOf, Loops, UserAnswers
  <1>2. CASE runs[r].question = "open"
    <2>1. /\ runs[r].pc = "asking" /\ loops' = loops
          /\ runs' = [runs EXCEPT ![r].question = "none", ![r].pc = "working"]
      BY <1>1, <1>2 DEF RunsSound, UserAnswers
    <2>2. /\ DOMAIN runs' = DOMAIN runs
          /\ \A q \in DOMAIN runs : /\ runs'[q].loop = runs[q].loop
                                    /\ runs'[q].pc = IF q = r THEN "working" ELSE runs[q].pc
      BY <1>1, <2>1 DEF Runs
    <2>3. SameCrew(l)
      BY <2>1, <2>2, CrewsStay, Stages
    <2>4. QED
      BY <1>1, <2>1, <2>3, Untouched
  <1>3. CASE runs[r].question # "open"
    BY <1>1, <1>3, LivesThroughInstruct DEF UserAnswers
  <1>4. QED
    BY <1>2, <1>3

(* A task may be cancelled, and nothing else happens. *)
LEMMA LivesThroughCancel ==
    ASSUME IInv, NEW l, agents' = agents, loops' = loops,
           runs' = runs \/ \E r \in DOMAIN runs : runs' = Cancel(r)
    PROVE  UNCHANGED Life(l)!lifeVars
  <1>1. DOMAIN runs' = DOMAIN runs
        /\ \A q \in DOMAIN runs : runs'[q].loop = runs[q].loop /\ runs'[q].pc = runs[q].pc
    BY Cancels DEF IInv
  <1>2. SameCrew(l)
    BY <1>1, CrewsStay
  <1>3. QED
    BY <1>2, Untouched

LEMMA LivesThroughDisconnect ==
    ASSUME IInv, NEW l, Disconnect
    PROVE  Life(l)!LifeNext \/ UNCHANGED Life(l)!lifeVars
  <1>1. Typed /\ RunsSound /\ AgentsSound
    BY DEF IInv
  <1>2. /\ \A k \in DOMAIN loops : loops[k] \in Loops /\ k # 0
        /\ \A r \in DOMAIN runs : runs[r] \in Runs
        /\ \A b \in Blocks : agents'[b] = 0
    BY <1>1, Members DEF Disconnect
  <1>3. SameCrew(l)
    <2> DEFINE f(r) == IF runs[r].question = "open"
                       THEN [runs[r] EXCEPT !.question = "expired", !.pc = "working"]
                       ELSE runs[r]
    <2>1. runs' = [r \in DOMAIN runs |-> f(r)]
      BY DEF Disconnect, FailPending
    <2>2. \A r \in DOMAIN runs :
             f(r).loop = runs[r].loop /\ (f(r).pc = runs[r].pc \/ (runs[r].pc = "asking" /\ f(r).pc = "working"))
      BY <1>1, <1>2 DEF RunsSound, Runs
    <2> HIDE DEF f
    <2>3. DOMAIN runs' = DOMAIN runs /\ \A r \in DOMAIN runs : runs'[r] = f(r)
      BY <2>1
    <2>4. QED
      BY <2>2, <2>3, Stages, CrewsStay
  <1>4. /\ DOMAIN loops' = DOMAIN loops
        /\ \A k \in DOMAIN loops :
              /\ loops'[k].block = loops[k].block /\ loops'[k].state = loops[k].state
              /\ loops'[k].detached <=> loops[k].detached
              /\ loops'[k].stopping <=> (loops[k].stopping \/ k \in Registered)
    <2> DEFINE f(k) == [loops[k] EXCEPT !.stopping = @ \/ k \in Registered]
    <2>1. loops' = [k \in DOMAIN loops |-> f(k)]
      BY DEF Disconnect, StopAll
    <2>2. \A k \in DOMAIN loops :
            /\ f(k).block = loops[k].block /\ f(k).state = loops[k].state
            /\ f(k).detached <=> loops[k].detached
            /\ f(k).stopping <=> (loops[k].stopping \/ k \in Registered)
      BY <1>2 DEF Loops
    <2> HIDE DEF f
    <2>3. DOMAIN loops' = DOMAIN loops /\ \A k \in DOMAIN loops : loops'[k] = f(k)
      BY <2>1
    <2>4. QED
      BY <2>2, <2>3
  <1>5. CASE l \in DOMAIN loops
    <2>1. Built(l) /\ Built(l)' /\ ~Held(l)' /\ (Held(l) <=> l \in Registered)
      <3>1. loops[l].block \in Blocks /\ l # 0 /\ loops'[l].block = loops[l].block
        BY <1>2, <1>4, <1>5 DEF Loops
      <3>2. Built(l) /\ Built(l)' /\ ~Held(l)'
        BY <1>2, <1>4, <1>5, <3>1 DEF Built, Held
      <3>3. Held(l) <=> l \in Registered
        BY <1>1, <3>1, <3>2 DEF Held, Registered, AgentsSound
      <3>4. QED
        BY <3>2, <3>3
    <2>2. /\ StateOf(l)' = StateOf(l) /\ (DetachedOf(l)' <=> DetachedOf(l))
          /\ StoppingOf(l)' <=> (StoppingOf(l) \/ l \in Registered)
      BY <1>4, <1>5, <2>1 DEF StateOf, StoppingOf, DetachedOf
    <2>3. QED
      BY <1>3, <2>1, <2>2, Drops, Stutters
  <1>6. CASE l \notin DOMAIN loops
    BY <1>3, <1>4, <1>6, NotBuiltStutters DEF Built
  <1>7. QED
    BY <1>5, <1>6

(* The tasks are those of before, and r has gone on to p. *)
Reaches(r, p) ==
    /\ DOMAIN runs' = DOMAIN runs
    /\ \A q \in DOMAIN runs : /\ runs'[q].loop = runs[q].loop
                              /\ runs'[q].pc = IF q = r THEN p ELSE runs[q].pc

(* A step of task r: its own loop may change its state, and every other    *)
(* loop is left alone. *)
LEMMA RunMoves ==
    ASSUME IInv, NEW l, NEW r \in DOMAIN runs, NEW p, UNCHANGED agents, Reaches(r, p),
           loops' = loops \/ \E state \in LoopStates : SetState(r, state)
    PROVE  /\ l # runs[r].loop => UNCHANGED Life(l)!lifeVars
           /\ (l = runs[r].loop /\ loops' = loops /\ Stage[p] = Stage[runs[r].pc]) =>
                 UNCHANGED Life(l)!lifeVars
           /\ l = runs[r].loop =>
                 /\ CrewMoves(l, r, Stage[runs[r].pc], Stage[p]) /\ Built(l) /\ Built(l)'
                 /\ StoppingOf(l)' <=> StoppingOf(l)
                 /\ DetachedOf(l)' <=> DetachedOf(l)
                 /\ Held(l)' <=> Held(l)
  <1>1. Typed /\ RunsSound /\ runs[r].loop \in DOMAIN loops /\ r \in 1..MaxRuns
    BY Members DEF IInv, RunsSound
  <1>2. /\ DOMAIN loops' = DOMAIN loops
        /\ \A k \in DOMAIN loops :
              /\ loops'[k].block = loops[k].block
              /\ loops'[k].stopping <=> loops[k].stopping
              /\ loops'[k].detached <=> loops[k].detached
              /\ k # runs[r].loop => loops'[k].state = loops[k].state
    BY <1>1, SetsState
  <1>3. Built(l)' = Built(l)
    BY <1>2 DEF Built
  <1>4. /\ StoppingOf(l)' <=> StoppingOf(l)
        /\ DetachedOf(l)' <=> DetachedOf(l)
        /\ Held(l)' <=> Held(l)
    BY <1>2, <1>3 DEF Built, StoppingOf, DetachedOf, Held
  <1>5. CASE l # runs[r].loop
    <2>1. StateOf(l)' = StateOf(l)
      BY <1>2, <1>3, <1>5 DEF Built, StateOf
    <2>2. SameCrew(l)
      BY <1>5 DEF SameCrew, Seat, Reaches
    <2>3. QED
      BY <1>4, <1>5, <2>1, <2>2, Stutters
  <1>6. CASE l = runs[r].loop
    <2>1. CrewMoves(l, r, Stage[runs[r].pc], Stage[p])
      <3>1. PICK s, t : s = Stage[runs[r].pc] /\ t = Stage[p]
        OBVIOUS
      <3>2. Seat(l, r) = s /\ Seat(l, r)' = t
        BY <1>6, <3>1 DEF Seat, Reaches
      <3>3. \A q \in 1..MaxRuns \ {r} : Seat(l, q)' = Seat(l, q)
        BY DEF Seat, Reaches
      <3>4. QED
        BY <1>1, <3>1, <3>2, <3>3 DEF CrewMoves
    <2>2. ASSUME loops' = loops, Stage[p] = Stage[runs[r].pc]
          PROVE  UNCHANGED Life(l)!lifeVars
      BY <1>3, <1>4, <2>2, CrewsStay, Stutters DEF StateOf, Reaches
    <2>3. QED
      BY <1>1, <1>3, <1>4, <1>6, <2>1, <2>2 DEF Built
  <1>7. QED
    BY <1>5, <1>6

(* What a task of l does to its state s, and when it may. *)
Allowed(r, from, to, s) ==
    \/ from = "called" /\ to = "starting" /\ s = "running"
    \/ from = "starting" /\ to = "working" /\ s = LoopOf(r).state
    \/ /\ from = "working" /\ to = "closing"
       /\ s \in {"finished", "error"} \/ (s = "stopped" /\ LoopOf(r).stopping)
    \/ /\ from = "closing" /\ to = "away"
       /\ s = IF LoopOf(r).state = "running" THEN "stopped" ELSE LoopOf(r).state
    \/ /\ from \in {"called", "starting"} /\ to = "away" /\ runs[r].cancelled
       /\ s = LoopOf(r).state
    \/ /\ from \in {"working", "closing"} /\ to = "away" /\ runs[r].cancelled
       /\ s = IF LoopOf(r).state = "running" THEN "stopped" ELSE LoopOf(r).state

LEMMA LivesThroughMove ==
    ASSUME IInv, NEW l, NEW r \in DOMAIN runs, NEW p, NEW s, UNCHANGED agents, Reaches(r, p),
           NEW from, NEW to, from = Stage[runs[r].pc], to = Stage[p], Allowed(r, from, to, s),
           \/ s \in LoopStates /\ SetState(r, s)
           \/ s = LoopOf(r).state /\ loops' = loops
    PROVE  Life(l)!LifeNext \/ UNCHANGED Life(l)!lifeVars
  <1>1. /\ Typed /\ RunsSound /\ runs[r].loop \in DOMAIN loops
    BY DEF IInv, RunsSound
  <1>2. CASE l # runs[r].loop
    BY <1>2, RunMoves
  <1>3. CASE l = runs[r].loop
    <2>1. /\ CrewMoves(l, r, from, to) /\ Built(l) /\ Built(l)'
          /\ StoppingOf(l)' <=> StoppingOf(l)
          /\ DetachedOf(l)' <=> DetachedOf(l)
          /\ Held(l)' <=> Held(l)
      BY <1>3, RunMoves
    <2>2. loops'[l].state = s
      BY <1>1, <1>3, SetsState DEF LoopOf
    <2>3. StateOf(l)' = s /\ StateOf(l) = LoopOf(r).state
      BY <1>3, <2>1, <2>2 DEF StateOf, LoopOf
    <2>4. LoopOf(r).stopping <=> StoppingOf(l)
      BY <1>3, <2>1 DEF LoopOf, StoppingOf
    <2>5. runs[r].cancelled => ~Held(l)
      BY <1>3, <2>1 DEF IInv, CancelledAreDropped, Dropped, BlockOf, LoopOf, Held
    <2>6. QED
      BY <2>1, <2>3, <2>4, <2>5, WorksOn DEF Allowed
  <1>4. QED
    BY <1>2, <1>3

LEMMA LivesThroughRun ==
    ASSUME IInv, NEW l, NEW r \in DOMAIN runs, RunStep(r)
    PROVE  Life(l)!LifeNext \/ UNCHANGED Life(l)!lifeVars
  <1>1. /\ Typed /\ RunsSound /\ runs[r] \in Runs /\ LoopOf(r) \in Loops
        /\ \A q \in DOMAIN runs : runs[q] \in Runs
    BY Members DEF IInv, RunsSound, LoopOf
  <1>2. UNCHANGED agents
    BY DEF RunStep
  <1>3. PICK from : from = Stage[runs[r].pc]
    OBVIOUS
  \* steps that no loop sees
  <1>4. ASSUME NEW p, Reaches(r, p), loops' = loops, Stage[p] = from
        PROVE  UNCHANGED Life(l)!lifeVars
    BY <1>2, <1>3, <1>4, RunMoves
  <1>5. CASE RunAsks(r) \/ QuestionExpires(r) \/ RunDone(r) \/ Callback(r)
    <2>1. PICK p \in {"asking", "working", "done", "gone"} :
              Reaches(r, p) /\ Stage[p] = from
      BY <1>1, <1>3, <1>5, Stages
         DEF Reaches, RunAsks, QuestionExpires, RunDone, Callback, Moves, Runs
    <2>2. loops' = loops
      BY <1>5 DEF RunAsks, QuestionExpires, RunDone, Callback
    <2>3. QED
      BY <1>4, <2>1, <2>2
  <1>6. CASE RunBegins(r)
    <2>1. Reaches(r, "starting") /\ from = "called" /\ SetState(r, "running")
      BY <1>1, <1>3, <1>6, Stages DEF Reaches, RunBegins, Moves, Runs
    <2>2. QED
      BY <1>2, <1>3, <2>1, Stages, LivesThroughMove DEF Allowed, LoopStates
  <1>7. CASE RunOpens(r)
    <2>1. Reaches(r, "working") /\ from = "starting" /\ loops' = loops
      BY <1>1, <1>3, <1>7, Stages DEF Reaches, RunOpens, Moves, Runs
    <2>2. QED
      BY <1>2, <1>3, <2>1, Stages, LivesThroughMove DEF Allowed
  <1>8. CASE RunCloses(r)
    <2>1. Reaches(r, "closing") /\ from = "working"
      BY <1>1, <1>3, <1>8, Stages DEF Reaches, RunCloses, Moves, Runs
    <2>2. PICK s \in LoopStates :
              /\ SetState(r, s)
              /\ s \in {"finished", "error"} \/ (s = "stopped" /\ LoopOf(r).stopping)
      BY <1>8 DEF RunCloses, LoopStates
    <2>3. QED
      BY <1>2, <1>3, <2>1, <2>2, Stages, LivesThroughMove DEF Allowed
  <1>9. PICK ends : ends = IF LoopOf(r).state = "running" THEN "stopped" ELSE LoopOf(r).state
    OBVIOUS
  <1>10. ends \in LoopStates /\ (Settle(r) => SetState(r, ends))
    BY <1>1, <1>9 DEF Settle, Loops, LoopStates
  <1>11. CASE RunReports(r)
    <2>1. Reaches(r, "reporting") /\ from = "closing"
      BY <1>1, <1>3, <1>11, Stages DEF Reaches, RunReports, Moves, Runs
    <2>2. SetState(r, ends)
      BY <1>10, <1>11 DEF RunReports
    <2>3. QED
      BY <1>2, <1>3, <1>9, <1>10, <2>1, <2>2, Stages, LivesThroughMove DEF Allowed
  <1>12. CASE RunCancelled(r)
    <2>1. CASE /\ runs[r].pc \in {"created", "starting", "reporting"}
               /\ runs' = [runs EXCEPT ![r].pc = "done"]
               /\ UNCHANGED loops
      <3>1. Reaches(r, "done") /\ from \in {"called", "starting", "away"} /\ runs[r].cancelled
        BY <1>1, <1>3, <1>12, <2>1, Stages DEF Reaches, RunCancelled, Runs
      <3>2. CASE from = "away"
        BY <1>4, <2>1, <3>1, <3>2, Stages
      <3>3. CASE from \in {"called", "starting"}
        BY <1>2, <1>3, <2>1, <3>1, <3>3, Stages, LivesThroughMove DEF Allowed
      <3>4. QED
        BY <3>1, <3>2, <3>3
    <2>2. CASE /\ runs[r].pc \in {"working", "asking", "closing"}
               /\ runs' = [runs EXCEPT ![r].pc = "reporting", ![r].cancelled = FALSE,
                                  ![r].question = IF @ = "open" THEN "expired" ELSE @]
               /\ Settle(r)
      <3>1. Reaches(r, "reporting") /\ from \in {"working", "closing"} /\ runs[r].cancelled
        BY <1>1, <1>3, <1>12, <2>2, Stages DEF Reaches, RunCancelled, Runs
      <3>2. QED
        BY <1>2, <1>3, <1>9, <1>10, <2>2, <3>1, Stages, LivesThroughMove DEF Allowed
    <2>3. QED
      BY <1>12, <2>1, <2>2 DEF RunCancelled
  <1>13. QED
    BY <1>5, <1>6, <1>7, <1>8, <1>11, <1>12 DEF RunStep

LEMMA LifeStep ==
    ASSUME NEW l
    PROVE  IInv /\ [Next]_vars => Life(l)!LifeNext \/ UNCHANGED Life(l)!lifeVars
  <1> SUFFICES ASSUME IInv, [Next]_vars
               PROVE  Life(l)!LifeNext \/ UNCHANGED Life(l)!lifeVars
    OBVIOUS
  <1>1. ASSUME NEW b \in Blocks, PressAgent(b)
        PROVE  Life(l)!LifeNext \/ UNCHANGED Life(l)!lifeVars
    <2>1. CASE agents[b] = 0 /\ Build(b, agents, tasks, loops, runs)
      BY <2>1, LeavesAsIs, LivesThroughBuild
    <2>2. CASE agents[b] # 0 /\ Build(b, Pop(agents, b), Pop(tasks, b), DetachLoop(agents[b]), runs)
      BY <2>2, LeavesPopped, LivesThroughBuild
    <2>3. CASE /\ agents[b] # 0
               /\ agents' = Pop(agents, b)
               /\ tasks' = Pop(tasks, b)
               /\ loops' = DetachLoop(agents[b])
               /\ UNCHANGED runs
      <3>1. agents'[b] = 0
        BY <2>3 DEF IInv, Typed, TypeOK, Pop
      <3>2. QED
        BY <2>3, <3>1, LeavesPopped, LivesThroughStop
    <2>4. QED
      BY <1>1, <2>1, <2>2, <2>3 DEF PressAgent
  <1>2. CASE Replace
    <2>1. handler.at = "replacing" /\ handler.block \in Blocks
      BY <1>2 DEF Replace, IInv, Typed, Handlers
    <2>2. agents[handler.block] = 0 /\ handler.run \in DOMAIN runs /\ Dropped(handler.run)
      BY <2>1 DEF IInv, HandlerSound
    <2>3. PICK b \in Blocks : b = handler.block
      BY <2>1
    <2>4. LeftBy(b, agents, tasks, loops, Cancel(handler.run))
      BY <2>2, <2>3, LeavesCancelled
    <2>5. Build(b, agents, tasks, loops, Cancel(handler.run))
      BY <1>2, <2>3 DEF Replace
    <2>6. QED
      BY <2>4, <2>5, LivesThroughBuild
  <1>3. ASSUME NEW b \in Blocks, NEW rest \in SUBSET Blocks, StopOne(b, rest),
               runs' = runs \/ \E r \in DOMAIN runs : Dropped(r) /\ runs' = Cancel(r)
        PROVE  Life(l)!LifeNext \/ UNCHANGED Life(l)!lifeVars
    <2>1. LeftBy(b, agents', tasks', loops', runs') /\ agents'[b] = 0
      BY <1>3, LeavesPopped DEF StopOne, IInv, Typed, TypeOK, Pop
    <2>2. QED
      BY <2>1, LivesThroughStop
  <1>4. CASE PressStop
    BY <1>3, <1>4 DEF PressStop
  <1>5. CASE StopNext
    <2>1. handler.at = "stopping" /\ handler.rest \in SUBSET Blocks
      BY <1>5 DEF StopNext, IInv, Typed, Handlers
    <2>2. runs' = runs \/ \E r \in DOMAIN runs : Dropped(r) /\ runs' = Cancel(r)
      BY <1>5, <2>1 DEF StopNext, IInv, HandlerSound
    <2>3. CASE \E b \in handler.rest : StopOne(b, handler.rest \ {b})
      BY <1>3, <2>1, <2>2, <2>3
    <2>4. CASE UNCHANGED <<agents, tasks, loops>>
      BY <2>2, <2>4, LivesThroughCancel
    <2>5. QED
      BY <1>5, <2>3, <2>4 DEF StopNext
  <1>6. ASSUME NEW b \in Blocks, UserInstructs(b)
        PROVE  Life(l)!LifeNext \/ UNCHANGED Life(l)!lifeVars
    BY <1>6, LivesThroughInstruct DEF UserInstructs
  <1>7. CASE CloseNext
    <2>1. handler.at = "closing" /\ handler.left \subseteq DOMAIN runs
      BY <1>7 DEF CloseNext, IInv, HandlerSound
    <2>2. QED
      BY <1>7, <2>1, LivesThroughCancel DEF CloseNext
  <1>8. ASSUME NEW r \in DOMAIN runs, UserAnswers(r) \/ RunStep(r)
        PROVE  Life(l)!LifeNext \/ UNCHANGED Life(l)!lifeVars
    BY <1>8, LivesThroughAnswer, LivesThroughRun
  <1>9. CASE Disconnect
    BY <1>9, LivesThroughDisconnect
  <1>10. CASE UNCHANGED vars
    <2>1. UNCHANGED <<agents, loops, runs>>
      BY <1>10 DEF vars
    <2>2. QED
      BY <2>1, LivesThroughCancel
  <1>11. QED
    BY <1>1, <1>2, <1>4, <1>5, <1>6, <1>7, <1>8, <1>9, <1>10 DEF Next

LEMMA LifeBegins ==
    ASSUME NEW l
    PROVE  Init => Life(l)!LifeInit
  <1> SUFFICES ASSUME Init PROVE Life(l)!LifeInit
    OBVIOUS
  <1>1. ~Built(l) /\ DOMAIN runs = {}
    BY DEF Init, Built
  <1>2. Crew(l) = [r \in 1..MaxRuns |-> "away"]
    BY <1>1 DEF Crew
  <1>3. QED
    BY <1>1, <1>2 DEF Life!LifeInit

(* Every loop object the session builds (_start_block_agent) lives as      *)
(* AgentLife says and BlockAgentLoop takes for granted, for any number of  *)
(* presses, instructions, stops and cancellations: the session gives work  *)
(* only to a loop it holds and that is not running, lets go of it once,    *)
(* telling it to stop, and cancels none of its tasks before that. *)
THEOREM EveryLoopLives ==
    ASSUME NEW l \in 1..MaxLoops
    PROVE  Spec => Life(l)!LifeSpec
  <1>1. Init => Life(l)!LifeInit
    BY LifeBegins
  <1>2. IInv /\ [Next]_vars => [Life(l)!LifeNext]_(Life(l)!lifeVars)
    BY LifeStep
  <1>3. QED
    BY Invariance, <1>1, <1>2, PTL DEF Spec, Life!LifeSpec

(* The same of the first loop, in the form in which TLC checks it. *)
THEOREM FirstLives == Spec => FirstLivesAsAgreed
  <1>1. Init => Life(1)!LifeInit
    BY LifeBegins
  <1>2. IInv /\ [Next]_vars => [UNCHANGED Life(1)!lifeVars \/ Life(1)!LifeNext]_vars
    BY LifeStep
  <1>3. QED
    BY Invariance, <1>1, <1>2, PTL DEF Spec, FirstLivesAsAgreed
=============================================================================
