-------------------------- MODULE VoiceRelayProofs --------------------------
(***************************************************************************)
(* Theorems about VoiceRelay, for any number of relays and changes.        *)
(***************************************************************************)
EXTENDS VoiceRelay, TLAPS

\* The inductive invariant behind VoiceHasOneRelay: what the receive loop is waiting
\* for says whether voice is on, and who may have been cancelled.
Attended ==
    /\ VoiceHasOneRelay
    /\ active => handler \in {"idle", "starting"}
    /\ handler = "starting" => active /\ Len(relays) < MaxRelays
    /\ handler = "starting" \/ (handler = "idle" /\ ~active)
         => \A r \in DOMAIN relays : ~Working(r)
    /\ \A r \in DOMAIN relays :
          Working(r) /\ relays[r].cancelled => handler \in {"cutting", "closing", "closed"}

\* No relay carries a context newer than the canvas.
ContextsExist == \A r \in DOMAIN relays : relays[r].carries \in 0..canvas

IInv == TypeOK /\ Attended /\ ContextsExist

-----------------------------------------------------------------------------
(* Types *)

\* A relay in the list is a relay, and changing one keeps the list one of relays.
LEMMA ListOfRelays ==
    ASSUME NEW rs \in Seq(Relays)
    PROVE  /\ \A r \in DOMAIN rs : rs[r] \in Relays
           /\ \A r \in DOMAIN rs, q \in Relays :
                 /\ [rs EXCEPT ![r] = q] \in Seq(Relays)
                 /\ Len([rs EXCEPT ![r] = q]) = Len(rs)
  OBVIOUS

RefPlaces == {"off", "waiting", "woken", "settling", "stirred", "telling", "ended"}

LEMMA RefTyped ==
    ASSUME NEW q \in Relays, NEW place \in RefPlaces
    PROVE  /\ [q EXCEPT !.ref = place] \in Relays
           /\ [q EXCEPT !.ref = place].at = q.at
           /\ [q EXCEPT !.ref = place].cancelled = q.cancelled
           /\ [q EXCEPT !.ref = place].carries = q.carries
  BY DEF Relays, RefPlaces

\* Setting the event changes the refreshers only.
LEMMA WokenKeeps ==
    ASSUME TypeOK
    PROVE  /\ Woken(relays) \in Seq(Relays) /\ Len(Woken(relays)) = Len(relays)
           /\ DOMAIN Woken(relays) = DOMAIN relays
           /\ \A r \in DOMAIN relays :
                 /\ Woken(relays)[r].at = relays[r].at
                 /\ Woken(relays)[r].cancelled = relays[r].cancelled
                 /\ Woken(relays)[r].carries = relays[r].carries
  <1> DEFINE place(r) == CASE relays[r].ref = "waiting" -> "woken"
                           [] relays[r].ref = "settling" -> "stirred"
                           [] OTHER -> relays[r].ref
  <1>1. relays \in Seq(Relays)
    BY DEF TypeOK
  <1>2. Woken(relays) = [r \in DOMAIN relays |-> [relays[r] EXCEPT !.ref = place(r)]]
    BY DEF Woken
  <1>3. ASSUME NEW r \in DOMAIN relays
        PROVE  /\ Woken(relays)[r] \in Relays
               /\ Woken(relays)[r].at = relays[r].at
               /\ Woken(relays)[r].cancelled = relays[r].cancelled
               /\ Woken(relays)[r].carries = relays[r].carries
    <2>1. relays[r] \in Relays
      BY <1>1
    <2>2. place(r) \in RefPlaces
      BY <2>1 DEF Relays, RefPlaces
    <2>3. Woken(relays)[r] = [relays[r] EXCEPT !.ref = place(r)]
      BY <1>2
    <2> HIDE DEF place
    <2> QED
      BY <2>1, <2>2, <2>3, RefTyped
  <1>4. DOMAIN relays = 1..Len(relays) /\ Len(relays) \in Nat
    BY <1>1
  <1>5. Woken(relays) = [r \in 1..Len(relays) |-> Woken(relays)[r]]
    BY <1>2, <1>4
  <1>6. Woken(relays) \in Seq(Relays) /\ Len(Woken(relays)) = Len(relays)
    BY <1>3, <1>4, <1>5
  <1> QED
    BY <1>2, <1>3, <1>6

LEMMA CancelledTyped ==
    ASSUME NEW q \in Relays
    PROVE  [q EXCEPT !.cancelled = TRUE, !.short = TRUE] \in Relays
  BY Zenon DEF Relays

\* Cancelling a relay, too.
LEMMA CancelTyped ==
    ASSUME NEW rs \in Seq(Relays), NEW r \in DOMAIN rs
    PROVE  /\ Cancel(rs, r) \in Seq(Relays) /\ Len(Cancel(rs, r)) = Len(rs)
           /\ DOMAIN Cancel(rs, r) = DOMAIN rs
           /\ \A s \in DOMAIN rs \ {r} : Cancel(rs, r)[s] = rs[s]
           /\ \A s \in DOMAIN rs : Cancel(rs, r)[s].at = rs[s].at
           /\ \A s \in DOMAIN rs : Cancel(rs, r)[s].carries = rs[s].carries
  <1> DEFINE q == [rs[r] EXCEPT !.cancelled = TRUE, !.short = TRUE]
  <1>1. rs[r] \in Relays
    BY ListOfRelays
  <1>2. q \in Relays /\ q.at = rs[r].at /\ q.carries = rs[r].carries
    BY <1>1, CancelledTyped DEF Relays
  <1>3. Cancel(rs, r) = [rs EXCEPT ![r] = q]
    BY DEF Cancel
  <1> HIDE DEF q
  <1> QED
    BY <1>2, <1>3, ListOfRelays

LEMMA WaitTyped == Wait \in {"ended", "woken", "waiting"}
  BY DEF Wait

LEMMA InitIInv == Init => IInv
  <1> SUFFICES ASSUME Init PROVE IInv
    OBVIOUS
  <1>1. relays = << >> /\ queue = << >> /\ Len(relays) = 0 /\ DOMAIN relays = {}
    BY DEF Init
  <1>2. TypeOK
    <2>1. << >> \in Seq(Relays) /\ << >> \in Seq({"audio", "end"})
      OBVIOUS
    <2>2. /\ Len(relays) <= MaxRelays /\ task \in 0..Len(relays)
          /\ canvas \in 0..MaxEdits /\ announced \in 0..canvas /\ noted \in 0..canvas
      BY <1>1, VoiceConstants DEF Init, VoiceConstants
    <2> QED
      BY <1>1, <2>1, <2>2 DEF Init, TypeOK
  <1>3. Attended /\ ContextsExist
    BY <1>1 DEF Init, Attended, VoiceHasOneRelay, ContextsExist
  <1> QED
    BY <1>2, <1>3 DEF IInv

-----------------------------------------------------------------------------
(* The receive loop *)

HandlerStep ==
    \/ Start \/ Started \/ Stop \/ StopTimesOut \/ Stopped
    \/ Microphone \/ CanvasUpdate \/ TextMessage
    \/ Disconnect \/ Closed

LEMMA HandlerTypeOK ==
    ASSUME IInv, HandlerStep PROVE TypeOK'
  <1>t. /\ active \in BOOLEAN /\ dirty \in BOOLEAN
        /\ task \in 0..Len(relays)
        /\ queue \in Seq({"audio", "end"})
        /\ canvas \in 0..MaxEdits /\ announced \in 0..canvas /\ noted \in 0..canvas
        /\ relays \in Seq(Relays) /\ Len(relays) <= MaxRelays
        /\ handler \in {"idle", "starting", "stopping", "cutting", "closing", "closed"}
        /\ handler \in {"stopping", "cutting", "closing"} => task # 0
        /\ MaxEdits \in Nat /\ MaxRelays \in Nat
    BY VoiceConstants DEF IInv, TypeOK, VoiceConstants
  <1>q. /\ Append(queue, "end") \in Seq({"audio", "end"})
        /\ Append(queue, "audio") \in Seq({"audio", "end"})
    BY <1>t
  <1>w. Woken(relays) \in Seq(Relays) /\ Len(Woken(relays)) = Len(relays)
    BY WokenKeeps DEF IInv
  <1>c. task # 0 => /\ Cancel(relays, task) \in Seq(Relays)
                    /\ Len(Cancel(relays, task)) = Len(relays)
                    /\ Cancel(Woken(relays), task) \in Seq(Relays)
                    /\ Len(Cancel(Woken(relays), task)) = Len(relays)
    <2> SUFFICES ASSUME task # 0
                 PROVE  task \in DOMAIN relays /\ task \in DOMAIN Woken(relays)
      BY <1>t, <1>w, CancelTyped
    <2> QED
      BY <1>t, <1>w
  <1>1. CASE Start
    BY <1>1, <1>t DEF Start, TypeOK
  <1>2. CASE Started
    <2>1. NewRelay \in Relays
      BY <1>t DEF NewRelay, Relays
    <2>2. relays' \in Seq(Relays) /\ Len(relays') = Len(relays) + 1
      BY <1>2, <1>t, <2>1 DEF Started
    <2>3. Len(relays) < MaxRelays
      BY <1>2 DEF IInv, Attended, Started
    <2> QED
      BY <1>2, <1>t, <2>2, <2>3 DEF Started, TypeOK
  <1>3. CASE Stop
    <2>1. /\ task' \in 0..Len(relays) /\ handler' \in {"idle", "stopping"}
          /\ handler' = "stopping" => task' # 0
      BY <1>3, <1>t DEF Stop, TaskLive
    <2>2. /\ relays' = Woken(relays) /\ queue' = Append(queue, "end")
          /\ active' = FALSE /\ dirty' = TRUE /\ UNCHANGED <<canvas, announced, noted>>
      BY <1>3 DEF Stop, SignalEnd
    <2> QED
      BY <2>1, <2>2, <1>t, <1>q, <1>w DEF TypeOK
  <1>4. CASE StopTimesOut
    BY <1>4, <1>t, <1>c DEF StopTimesOut, TypeOK
  <1>5. CASE Stopped
    BY <1>5, <1>t DEF Stopped, TypeOK
  <1>6. CASE Microphone
    BY <1>6, <1>t, <1>q DEF Microphone, TypeOK
  <1>7. CASE CanvasUpdate
    <2>1. /\ UNCHANGED <<active, task, queue, noted, handler>>
          /\ canvas' = canvas + 1 /\ canvas < MaxEdits
      BY <1>7 DEF CanvasUpdate
    <2>2. /\ relays' \in Seq(Relays) /\ Len(relays') = Len(relays)
          /\ dirty' \in BOOLEAN /\ announced' \in {announced, canvas + 1}
      BY <1>7, <1>t, <1>w DEF CanvasUpdate
    <2> QED
      BY <2>1, <2>2, <1>t DEF TypeOK
  <1>8. CASE TextMessage
    BY <1>8, <1>t DEF TextMessage, TypeOK
  <1>9. CASE Disconnect
    <2>1. CASE TaskLive
      BY <1>9, <2>1, <1>t, <1>q, <1>c DEF Disconnect, SignalEnd, TaskLive, TypeOK
    <2>2. CASE ~TaskLive
      BY <1>9, <2>2, <1>t DEF Disconnect, TypeOK
    <2> QED
      BY <2>1, <2>2
  <1>10. CASE Closed
    BY <1>10, <1>t, <1>c DEF Closed, TypeOK
  <1> QED
    BY <1>1, <1>2, <1>3, <1>4, <1>5, <1>6, <1>7, <1>8, <1>9, <1>10 DEF HandlerStep

\* A press starts a relay only when none is at work; a stop ends voice first and waits
\* for the relay, whatever it takes.
LEMMA HandlerAttended ==
    ASSUME IInv, HandlerStep PROVE Attended'
  <1> USE DEF IInv, Attended, VoiceHasOneRelay, Working
  <1>0. relays \in Seq(Relays) /\ task \in 0..Len(relays)
    BY DEF TypeOK
  <1>w. /\ Len(Woken(relays)) = Len(relays) /\ DOMAIN Woken(relays) = DOMAIN relays
        /\ \A r \in DOMAIN relays : /\ Woken(relays)[r].at = relays[r].at
                                   /\ Woken(relays)[r].cancelled = relays[r].cancelled
                 /\ Woken(relays)[r].carries = relays[r].carries
    BY WokenKeeps
  <1>1. CASE Start
    BY <1>1 DEF Start
  <1>2. CASE Started
    <2>1. /\ DOMAIN relays' = 1..(Len(relays) + 1)
          /\ \A r \in DOMAIN relays : relays'[r] = relays[r]
          /\ relays'[Len(relays) + 1] = NewRelay
      BY <1>2, <1>0 DEF Started
    <2> QED
      <3>1. /\ relays'[Len(relays) + 1].at = "created"
            /\ relays'[Len(relays) + 1].cancelled = FALSE
        BY <2>1 DEF NewRelay
      <3>2. \A r \in DOMAIN relays : ~Working(r)
        BY <1>2 DEF Started
      <3>3. /\ task' = Len(relays) + 1 /\ handler' = "idle" /\ active' = active /\ active
            /\ task' # 0
        BY <1>2, <1>0 DEF Started
      <3>4. \A r \in DOMAIN relays' : r = Len(relays) + 1 \/ r \in DOMAIN relays
        BY <2>1, <1>0
      <3> QED
        BY <2>1, <3>1, <3>2, <3>3, <3>4
  <1>3. CASE Stop
    BY <1>3, <1>w DEF Stop, SignalEnd, TaskLive, Live
  <1>4. CASE StopTimesOut
    BY <1>4, <1>0, CancelTyped DEF StopTimesOut, TypeOK
  <1>5. CASE Stopped
    BY <1>5, <1>0 DEF Stopped, Live
  <1>6. CASE Microphone
    BY <1>6 DEF Microphone
  <1>7. CASE CanvasUpdate
    <2>1. /\ DOMAIN relays' = DOMAIN relays /\ Len(relays') = Len(relays)
          /\ \A r \in DOMAIN relays : /\ relays'[r].at = relays[r].at
                                     /\ relays'[r].cancelled = relays[r].cancelled
      BY <1>7, <1>w DEF CanvasUpdate
    <2> QED
      <3>1. UNCHANGED <<active, task, handler>>
        BY <1>7 DEF CanvasUpdate
      <3>2. \A r \in DOMAIN relays : Working(r)' <=> Working(r)
        BY <2>1
      <3>3. \A r \in DOMAIN relays : relays'[r].cancelled = relays[r].cancelled
        BY <2>1
      <3>4. DOMAIN relays' = DOMAIN relays /\ Len(relays') = Len(relays) /\ task \in 0..Len(relays)
        BY <2>1, <1>0
      <3> QED
        BY <3>1, <3>2, <3>3, <3>4, <2>1
  <1>8. CASE TextMessage
    BY <1>8 DEF TextMessage
  <1>9. CASE Disconnect
    <2>1. CASE TaskLive
      <3>1. /\ DOMAIN relays' = DOMAIN relays
            /\ \A r \in DOMAIN relays : relays'[r].at = relays[r].at
        BY <1>9, <1>0, <2>1, WokenKeeps, CancelTyped DEF Disconnect, TaskLive
      <3> QED
        BY <1>9, <2>1, <3>1 DEF Disconnect, SignalEnd
    <2>2. CASE ~TaskLive
      BY <1>9, <2>2 DEF Disconnect, TaskLive, Live
    <2> QED
      BY <2>1, <2>2
  <1>10. CASE Closed
    <2>1. /\ DOMAIN relays' = DOMAIN relays
          /\ \A r \in DOMAIN relays : relays'[r].at = relays[r].at
      BY <1>10, <1>0, CancelTyped DEF Closed, TypeOK
    <2> QED
      BY <1>10, <2>1 DEF Closed
  <1> QED
    BY <1>1, <1>2, <1>3, <1>4, <1>5, <1>6, <1>7, <1>8, <1>9, <1>10 DEF HandlerStep

-----------------------------------------------------------------------------
(* The relays *)

\* The messages that the receive loop handles start no new context.
LEMMA HandlerContexts ==
    ASSUME IInv, HandlerStep PROVE ContextsExist'
  <1>t. /\ relays \in Seq(Relays) /\ task \in 0..Len(relays) /\ canvas \in 0..MaxEdits
        /\ \A r \in DOMAIN relays : relays[r].carries \in 0..canvas
        /\ handler \in {"stopping", "cutting", "closing"} => task # 0
    BY DEF IInv, TypeOK, ContextsExist
  <1>w. /\ DOMAIN Woken(relays) = DOMAIN relays /\ Woken(relays) \in Seq(Relays)
        /\ \A r \in DOMAIN relays : Woken(relays)[r].carries = relays[r].carries
    BY WokenKeeps DEF IInv
  <1>c. task # 0 =>
           /\ DOMAIN Cancel(relays, task) = DOMAIN relays
           /\ DOMAIN Cancel(Woken(relays), task) = DOMAIN relays
           /\ \A r \in DOMAIN relays :
                 /\ Cancel(relays, task)[r].carries = relays[r].carries
                 /\ Cancel(Woken(relays), task)[r].carries = relays[r].carries
    <2> SUFFICES ASSUME task # 0
                 PROVE  task \in DOMAIN relays
      BY <1>t, <1>w, CancelTyped
    <2> QED
      BY <1>t
  <1>n. canvas' \in {canvas, canvas + 1}
    BY DEF HandlerStep, Start, Started, Stop, StopTimesOut, Stopped, Microphone, CanvasUpdate,
           TextMessage, Disconnect, Closed
  <1>1. CASE Started
    <2>1. /\ DOMAIN relays' = 1..(Len(relays) + 1)
          /\ \A r \in DOMAIN relays : relays'[r] = relays[r]
          /\ relays'[Len(relays) + 1].carries = 0
      BY <1>1, <1>t DEF Started, NewRelay
    <2> QED
      BY <1>1, <1>t, <2>1 DEF Started, ContextsExist
  <1>2. CASE ~Started
    <2>1. /\ DOMAIN relays' = DOMAIN relays
          /\ \A r \in DOMAIN relays : relays'[r].carries = relays[r].carries
      BY <1>2, <1>t, <1>w, <1>c
         DEF HandlerStep, Start, Stop, StopTimesOut, Stopped, Microphone, CanvasUpdate,
             TextMessage, Disconnect, Closed, TaskLive
    <2> QED
      BY <1>t, <1>n, <2>1 DEF ContextsExist
  <1> QED
    BY <1>1, <1>2

-----------------------------------------------------------------------------
(* The relays *)

\* A relay's own step changes its record only.
LEMMA RelayRecord ==
    ASSUME IInv, NEW r \in DOMAIN relays, Relay(r)
    PROVE  /\ relays' = [relays EXCEPT ![r] = relays'[r]]
           /\ relays'[r] \in Relays /\ relays'[r].carries \in 0..canvas
  <1>t. /\ relays \in Seq(Relays) /\ relays[r] \in Relays
        /\ canvas \in 0..MaxEdits /\ MaxEdits \in Nat
        /\ relays[r].carries \in 0..canvas
    BY VoiceConstants DEF IInv, TypeOK, ContextsExist, VoiceConstants
  <1>1. CASE Begins(r)
    <2>1. relays' = [relays EXCEPT ![r].at = "connecting", ![r].carries = canvas]
      BY <1>1 DEF Begins
    <2>2. relays' = [relays EXCEPT ![r] = relays'[r]] /\ relays'[r] \in Relays
      BY <2>1, <1>t DEF Relays
    <2>3. relays'[r].carries = canvas
      BY <2>1, <1>t DEF Relays
    <2> QED
      BY <2>2, <2>3, <1>t
  <1>2. CASE Connects(r)
    <2> DEFINE q == relays[r]
               streams == IF active THEN "receiving" ELSE "ended"
               e == [q EXCEPT !.at = "running", !.knows = q.carries, !.fwd = "taking",
                              !.str = streams, !.ref = Wait]
    <2>1. relays' = [relays EXCEPT ![r] = e]
      BY <1>2 DEF Connects
    <2>2. /\ streams \in {"off", "receiving", "handling", "ended", "failed"}
          /\ Wait \in {"off", "waiting", "woken", "settling", "stirred", "telling", "ended"}
          /\ q \in Relays /\ q.carries \in 0..MaxEdits
      BY <1>t DEF Wait, Relays
    <2> HIDE DEF q, streams
    <2>3. e \in Relays /\ e.carries = q.carries
      <3> DEFINE known == [q EXCEPT !.at = "running", !.knows = q.carries]
                 taking == [known EXCEPT !.fwd = "taking", !.str = streams]
      <3>1. e = [taking EXCEPT !.ref = Wait]
        OBVIOUS
      <3> HIDE DEF e
      <3>2. known \in Relays /\ known.carries = q.carries
        BY <2>2 DEF Relays
      <3> HIDE DEF known
      <3>3. taking \in Relays /\ taking.carries = q.carries
        BY <2>2, <3>2 DEF Relays
      <3> HIDE DEF taking
      <3> QED
        BY <2>2, <3>1, <3>3 DEF Relays
    <2> HIDE DEF e
    <2>4. relays'[r] = e
      BY <1>t, <2>1
    <2> QED
      BY <1>t, <2>1, <2>3, <2>4 DEF q
  <1>3. CASE Raises(r)
    BY <1>3, <1>t DEF Raises, Relays
  <1>4. CASE Ends(r)
    BY <1>4, <1>t DEF Ends, Goes, Relays
  <1>5. CASE Reports(r)
    BY <1>5, <1>t DEF Reports, Goes, Relays
  <1>6. CASE IsCancelled(r)
    <2>1. CASE relays' = [relays EXCEPT ![r].at = "done", ![r].cancelled = FALSE]
      BY <2>1, <1>t DEF Relays
    <2>2. CASE relays' = [relays EXCEPT ![r] = Unwound(relays[r])]
      <3>1. /\ Unwound(relays[r]) \in Relays
            /\ Unwound(relays[r]).carries = relays[r].carries
        <4> DEFINE q == relays[r]
                   forwards == Halted(q.fwd)
                   streams == Halted(q.str)
        <4>1. q \in Relays
          BY <1>t
        <4>2. /\ forwards \in {"off", "taking", "sending", "ended", "failed"}
              /\ streams \in {"off", "receiving", "handling", "ended", "failed"}
          BY <4>1 DEF Halted, Relays
        <4>3. Unwound(q) = IF q.at = "running"
                           THEN [q EXCEPT !.at = "ending", !.cancelled = FALSE,
                                          !.fwd = forwards, !.str = streams, !.ref = "ended"]
                           ELSE [q EXCEPT !.at = "ending", !.cancelled = FALSE]
          BY DEF Unwound
        <4> HIDE DEF q, forwards, streams
        <4>4. Unwound(q) \in Relays /\ Unwound(q).carries = q.carries
          <5> DEFINE stopped == [q EXCEPT !.at = "ending", !.cancelled = FALSE]
                     halted == [stopped EXCEPT !.fwd = forwards, !.str = streams,
                                               !.ref = "ended"]
          <5>s. stopped \in Relays /\ stopped.carries = q.carries
            BY <4>1 DEF Relays
          <5>1. CASE q.at = "running"
            <6>1. Unwound(q) = halted
              BY <4>3, <5>1
            <6> DEFINE silent == [stopped EXCEPT !.fwd = forwards]
                       deaf == [silent EXCEPT !.str = streams]
            <6>2. halted = [deaf EXCEPT !.ref = "ended"]
              OBVIOUS
            <6> HIDE DEF stopped, halted
            <6>3. silent \in Relays /\ silent.carries = q.carries
              BY <4>2, <5>s DEF Relays
            <6> HIDE DEF silent
            <6>4. deaf \in Relays /\ deaf.carries = q.carries
              BY <4>2, <6>3 DEF Relays
            <6> HIDE DEF deaf
            <6>5. halted \in Relays /\ halted.carries = q.carries
              BY <6>2, <6>4 DEF Relays
            <6> QED
              BY <6>1, <6>5
          <5>2. CASE q.at # "running"
            <6>1. Unwound(q) = stopped
              BY <4>3, <5>2
            <6> QED
              BY <5>s, <6>1
          <5> QED
            BY <5>1, <5>2
        <4> QED
          BY <4>4 DEF q
      <3> QED
        BY <1>t, <2>2, <3>1
    <2> QED
      BY <1>6, <2>1, <2>2 DEF IsCancelled
  <1> QED
    BY <1>1, <1>2, <1>3, <1>4, <1>5, <1>6 DEF Relay

LEMMA RelayTypeOK ==
    ASSUME IInv, NEW r \in DOMAIN relays, Relay(r) PROVE TypeOK' /\ ContextsExist'
  <1>t. /\ relays \in Seq(Relays) /\ active \in BOOLEAN /\ noted \in 0..canvas
        /\ \A s \in DOMAIN relays : relays[s].carries \in 0..canvas
    BY DEF IInv, TypeOK, ContextsExist
  <1>1. /\ relays' = [relays EXCEPT ![r] = relays'[r]]
        /\ relays'[r] \in Relays /\ relays'[r].carries \in 0..canvas
    BY RelayRecord
  <1>2. /\ active' \in BOOLEAN /\ noted' \in 0..canvas
        /\ UNCHANGED <<task, queue, dirty, canvas, announced, handler>>
    BY <1>t DEF Relay, Begins, Connects, Raises, Ends, Reports, IsCancelled, Finally
  <1>3. relays' \in Seq(Relays) /\ Len(relays') = Len(relays)
    BY <1>1, <1>t, ListOfRelays
  <1>4. TypeOK'
    BY <1>2, <1>3 DEF IInv, TypeOK
  <1>5. ContextsExist'
    BY <1>1, <1>2, <1>t DEF ContextsExist
  <1> QED
    BY <1>4, <1>5

\* A relay ends voice with its own work, and voice has no other relay.
LEMMA RelayAttended ==
    ASSUME IInv, NEW r \in DOMAIN relays, Relay(r) PROVE Attended'
  <1>t. relays \in Seq(Relays) /\ relays[r] \in Relays /\ active \in BOOLEAN
    BY DEF IInv, TypeOK
  <1>a. Attended
    BY DEF IInv
  <1>1. /\ DOMAIN relays' = DOMAIN relays /\ Len(relays') = Len(relays)
        /\ \A s \in DOMAIN relays \ {r} : relays'[s] = relays[s]
        /\ UNCHANGED <<task, handler>>
    BY RelayRecord, <1>t DEF Relay
  <1>2. Working(r)' => /\ Working(r) /\ active' = active
                       /\ relays'[r].cancelled = relays[r].cancelled
    <2>1. CASE Begins(r)
      BY <2>1, <1>t DEF Begins, Uncancelled, Working, Relays
    <2>2. CASE Connects(r)
      BY <2>2, <1>t DEF Connects, Uncancelled, Working, Relays
    <2>3. CASE Raises(r)
      BY <2>3, <1>t DEF Raises, Uncancelled, Working, Relays
    <2>4. CASE Ends(r)
      BY <2>4, <1>t DEF Ends, Goes, Working, Relays
    <2>5. CASE Reports(r)
      BY <2>5, <1>t DEF Reports, Goes, Working, Relays
    <2>6. CASE IsCancelled(r)
      <3>1. relays'[r].at \in {"done", "ending"}
        <4>1. Unwound(relays[r]).at = "ending"
          BY <1>t DEF Unwound, Relays
        <4>2. CASE relays' = [relays EXCEPT ![r] = Unwound(relays[r])]
          BY <4>1, <4>2, <1>t
        <4>3. CASE relays' = [relays EXCEPT ![r].at = "done", ![r].cancelled = FALSE]
          BY <4>3, <1>t DEF Relays
        <4> QED
          BY <2>6, <4>2, <4>3 DEF IsCancelled
      <3> QED
        BY <3>1 DEF Working
    <2> QED
      BY <2>1, <2>2, <2>3, <2>4, <2>5, <2>6 DEF Relay
  <1>3. /\ ~Working(r)' /\ Working(r) => active' = FALSE \/ relays[r].cancelled
        /\ active' \in {active, FALSE}
        /\ ~Working(r) => active' = active
    <2>1. CASE Begins(r)
      BY <2>1, <1>t DEF Begins, Uncancelled, Working, Relays
    <2>2. CASE Connects(r)
      BY <2>2, <1>t DEF Connects, Uncancelled, Working, Relays
    <2>3. CASE Raises(r)
      BY <2>3, <1>t DEF Raises, Uncancelled, Working, Relays
    <2>4. CASE Ends(r)
      BY <2>4, <1>t DEF Ends, Finally, Uncancelled, Goes, Working, Relays
    <2>5. CASE Reports(r)
      BY <2>5, <1>t DEF Reports, Uncancelled, Goes, Working, Relays
    <2>6. CASE IsCancelled(r)
      BY <2>6, <1>t DEF IsCancelled, Finally, Working, Relays
    <2> QED
      BY <2>1, <2>2, <2>3, <2>4, <2>5, <2>6 DEF Relay
  <1>4. active' => active /\ (Working(r) => Working(r)')
    BY <1>3, <1>a DEF Attended, VoiceHasOneRelay
  <1>5. \A s \in DOMAIN relays : Working(s)' => Working(s) /\ relays'[s].cancelled = relays[s].cancelled
    BY <1>1, <1>2 DEF Working
  <1>6. \A s \in DOMAIN relays : active' /\ Working(s) => Working(s)'
    BY <1>1, <1>4 DEF Working
  <1>7. task \in 0..Len(relays) /\ DOMAIN relays = 1..Len(relays)
    BY <1>t DEF IInv, TypeOK
  <1>8. handler = "starting" => active'
    BY <1>3, <1>a DEF Attended
  <1>9. handler = "idle" /\ ~active' => \A s \in DOMAIN relays : ~Working(s)'
    <2> SUFFICES ASSUME handler = "idle", ~active', NEW s \in DOMAIN relays, Working(s)'
                 PROVE  FALSE
      OBVIOUS
    <2>1. active
      BY <1>5, <1>a DEF Attended
    <2>2. Working(r) /\ r = task /\ s = task
      BY <2>1, <1>3, <1>5, <1>a DEF Attended, VoiceHasOneRelay
    <2> QED
      BY <2>1, <2>2, <1>2
  <1>10. VoiceHasOneRelay'
    BY <1>1, <1>4, <1>5, <1>6, <1>7, <1>a DEF Attended, VoiceHasOneRelay
  <1> QED
    BY <1>1, <1>4, <1>5, <1>8, <1>9, <1>10, <1>a DEF Attended

-----------------------------------------------------------------------------
(* The coroutines *)

\* A coroutine's step changes its own record, but not where the relay is.
LEMMA CoroutineRecord ==
    ASSUME IInv, NEW r \in DOMAIN relays, Coroutine(r)
    PROVE  /\ relays' = [relays EXCEPT ![r] = relays'[r]]
           /\ relays'[r] \in Relays /\ relays'[r].carries \in 0..canvas
           /\ relays'[r].at = relays[r].at /\ relays'[r].cancelled = relays[r].cancelled
  <1>t. /\ relays \in Seq(Relays) /\ relays[r] \in Relays
        /\ canvas \in 0..MaxEdits /\ MaxEdits \in Nat
        /\ relays[r].carries \in 0..canvas
    BY VoiceConstants DEF IInv, TypeOK, ContextsExist, VoiceConstants
  <1>1. CASE Takes(r)
    BY <1>1, <1>t DEF Takes, Relays
  <1>2. CASE Forwards(r)
    <2>1. CASE relays' = [relays EXCEPT ![r].fwd = "taking"]
      BY <2>1, <1>t DEF Relays
    <2>2. CASE relays' = [relays EXCEPT ![r].fwd = "failed", ![r].short = TRUE]
      BY <2>2, <1>t DEF Relays
    <2> QED
      BY <1>2, <2>1, <2>2 DEF Forwards
  <1>3. CASE Receives(r)
    <2>1. CASE relays' = [relays EXCEPT ![r].str = "handling"]
      BY <2>1, <1>t DEF Relays
    <2>2. CASE relays' = [relays EXCEPT ![r].str = "ended"]
      BY <2>2, <1>t DEF Relays
    <2>3. CASE relays' = [relays EXCEPT ![r].str = "failed", ![r].short = TRUE]
      BY <2>3, <1>t DEF Relays
    <2> QED
      BY <1>3, <2>1, <2>2, <2>3 DEF Receives
  <1>4. CASE Handles(r)
    <2>1. CASE relays' = [relays EXCEPT ![r].str = "receiving"]
      BY <2>1, <1>t DEF Relays
    <2>2. CASE relays' = [relays EXCEPT ![r].str = "ended"]
      BY <2>2, <1>t DEF Relays
    <2> QED
      BY <1>4, <2>1, <2>2 DEF Handles
  <1>5. CASE Settles(r)
    BY <1>5, <1>t DEF Settles, Relays
  <1>6. CASE Tells(r)
    <2>1. CASE relays' = [relays EXCEPT ![r].ref = "telling", ![r].carries = canvas]
      <3>1. relays' = [relays EXCEPT ![r] = relays'[r]] /\ relays'[r] \in Relays
        BY <2>1, <1>t DEF Relays
      <3>2. /\ relays'[r].carries = canvas
            /\ relays'[r].at = relays[r].at /\ relays'[r].cancelled = relays[r].cancelled
        BY <2>1, <1>t DEF Relays
      <3> QED
        BY <3>1, <3>2, <1>t
    <2>2. CASE relays' = [relays EXCEPT ![r].ref = Wait]
      BY <2>2, <1>t, WaitTyped DEF Relays
    <2> QED
      BY <1>6, <2>1, <2>2 DEF Tells
  <1>7. CASE Told(r)
    <2>1. CASE relays' = [relays EXCEPT ![r].ref = Wait, ![r].knows = relays[r].carries]
      BY <2>1, <1>t, WaitTyped DEF Relays
    <2>2. CASE relays' = [relays EXCEPT ![r].ref = Wait, ![r].missed = TRUE]
      BY <2>2, <1>t, WaitTyped DEF Relays
    <2> QED
      BY <1>7, <2>1, <2>2 DEF Told
  <1> QED
    BY <1>1, <1>2, <1>3, <1>4, <1>5, <1>6, <1>7 DEF Coroutine

LEMMA TailTyped ==
    ASSUME NEW S, NEW q \in Seq(S), q # << >> PROVE Tail(q) \in Seq(S)
  OBVIOUS

LEMMA CoroutineIInv ==
    ASSUME IInv, NEW r \in DOMAIN relays, Coroutine(r) PROVE IInv'
  <1>t. /\ relays \in Seq(Relays) /\ queue \in Seq({"audio", "end"}) /\ dirty \in BOOLEAN
        /\ noted \in 0..canvas /\ canvas \in 0..MaxEdits /\ MaxEdits \in Nat
        /\ \A s \in DOMAIN relays : relays[s].carries \in 0..canvas
    BY VoiceConstants DEF IInv, TypeOK, ContextsExist, VoiceConstants
  <1>1. /\ relays' = [relays EXCEPT ![r] = relays'[r]]
        /\ relays'[r] \in Relays /\ relays'[r].carries \in 0..canvas
        /\ relays'[r].at = relays[r].at /\ relays'[r].cancelled = relays[r].cancelled
    BY CoroutineRecord
  <1>2. relays' \in Seq(Relays) /\ Len(relays') = Len(relays)
    <2>1. PICK q \in Relays : relays' = [relays EXCEPT ![r] = q]
      BY <1>1
    <2> QED
      BY <1>t, <2>1, ListOfRelays
  <1>3. UNCHANGED <<active, task, canvas, announced, handler>>
    BY DEF Coroutine
  <1>4. queue' \in Seq({"audio", "end"})
    <2>1. queue' = queue \/ (queue # << >> /\ queue' = Tail(queue))
      BY DEF Coroutine, Takes, Forwards, Receives, Handles
    <2> QED
      BY <1>t, <2>1, TailTyped
  <1>5. dirty' \in BOOLEAN /\ noted' \in 0..canvas
    <2>1. dirty' = dirty \/ dirty' = (dirty /\ ~active)
      BY DEF Coroutine, Settles, Tells, Told
    <2>2. noted' \in {noted, canvas}
      BY DEF Coroutine, Settles, Tells, Told
    <2>3. dirty' \in BOOLEAN
      BY <1>t, <2>1, Zenon
    <2> QED
      BY <1>t, <2>2, <2>3
  <1>6. TypeOK'
    BY <1>2, <1>3, <1>4, <1>5 DEF IInv, TypeOK
  <1>7. ContextsExist'
    BY <1>1, <1>3, <1>t DEF ContextsExist
  <1>8. /\ DOMAIN relays' = DOMAIN relays /\ task \in 0..Len(relays)
        /\ \A s \in DOMAIN relays : /\ relays'[s].at = relays[s].at
                                   /\ relays'[s].cancelled = relays[s].cancelled
    BY <1>1, <1>t DEF IInv, TypeOK
  <1>9. \A s \in DOMAIN relays : Working(s)' <=> Working(s)
    BY <1>8 DEF Working
  <1>10. Attended'
    BY <1>2, <1>3, <1>8, <1>9, <1>t DEF IInv, Attended, VoiceHasOneRelay
  <1> QED
    BY <1>6, <1>7, <1>10 DEF IInv

-----------------------------------------------------------------------------
LEMMA NextIInv == IInv /\ [Next]_vars => IInv'
  <1>1. ASSUME IInv, HandlerStep PROVE IInv'
    BY <1>1, HandlerTypeOK, HandlerAttended, HandlerContexts DEF IInv
  <1>2. ASSUME IInv, NEW r \in DOMAIN relays, Relay(r) PROVE IInv'
    BY <1>2, RelayTypeOK, RelayAttended DEF IInv
  <1>3. ASSUME IInv, UNCHANGED vars PROVE IInv'
    BY <1>3 DEF vars, IInv, TypeOK, Attended, ContextsExist, VoiceHasOneRelay, Working
  <1> QED
    BY <1>1, <1>2, <1>3, CoroutineIInv DEF Next, HandlerStep

\* The inductive invariant holds of every reachable state.
LEMMA Invariance == Spec => []IInv
  BY InitIInv, NextIInv, PTL DEF Spec

\* The state has its type, a stop waits for a registered relay, and no context is newer
\* than the canvas.
THEOREM TypeCorrect == Spec => []TypeOK
  BY Invariance, PTL DEF IInv

\* Voice that is on has exactly one relay at work, the registered one.
THEOREM OneRelay == Spec => []VoiceHasOneRelay
  <1>1. IInv => VoiceHasOneRelay
    BY DEF IInv, Attended
  <1> QED
    BY <1>1, Invariance, PTL

-----------------------------------------------------------------------------
(* End markers and contexts *)

\* A relay that nothing has cut short is not being cancelled, none of its parts has
\* raised, and it is at its end only when all of them are.
Orderly ==
    \A r \in DOMAIN relays : ~relays[r].short =>
        /\ ~relays[r].cancelled /\ relays[r].at # "failing"
        /\ relays[r].fwd # "failed" /\ relays[r].str # "failed"
        /\ relays[r].at \in {"ending", "done"} => relays[r].fwd = "ended"

NoMarker == \A i \in DOMAIN queue : queue[i] # "end"
NoneShort == \A r \in DOMAIN relays : ~relays[r].short

\* As long as no relay has been cut short, the queue has an end marker only while a
\* stop waits, it is the last item, and the relay that is stopped has yet to take it.
MarkerIsLast ==
    NoneShort =>
        /\ handler \in {"idle", "starting"} =>
              NoMarker /\ \A r \in DOMAIN relays : Working(r) => relays[r].fwd # "ended"
        /\ handler = "stopping" =>
              /\ \A i \in DOMAIN queue : i # Len(queue) => queue[i] # "end"
              /\ relays[task].fwd = "ended" => NoMarker
        /\ handler # "cutting"

\* No refresher but that of relay r is about.
Alone(r) == \A s \in DOMAIN relays : s # r => relays[s].ref \in {"off", "ended"}

\* What the one refresher of an active session knows, carries and has noted.
Informed(r) ==
    /\ relays[r].at = "connecting" /\ ~dirty => relays[r].carries >= announced
    /\ relays[r].at = "running" /\ ~relays[r].missed =>
          /\ relays[r].ref # "telling" => relays[r].knows = noted
          /\ relays[r].ref = "waiting" => relays[r].knows >= announced
          /\ relays[r].ref = "telling" =>
                relays[r].carries = noted /\ (~dirty => relays[r].carries >= announced)

RefreshersInformed ==
    \A r \in DOMAIN relays : active /\ Working(r) /\ Alone(r) => Informed(r)

\* Nobody at work waits for an event that has been set for good.
WaitersAreActive ==
    \A r \in DOMAIN relays : relays[r].at = "running" /\ relays[r].ref = "waiting" => active

\* The refresher starts with the connection.
NoEarlyRefresher ==
    \A r \in DOMAIN relays :
        relays[r].at \in {"created", "connecting"} => relays[r].ref = "off"

FlowInv ==
    Orderly /\ MarkerIsLast /\ RefreshersInformed /\ WaitersAreActive /\ NoEarlyRefresher

-----------------------------------------------------------------------------
(* What the steps do to the fields of a relay *)

SameParts(q, e) ==
    /\ e.fwd = q.fwd /\ e.str = q.str /\ e.ref = q.ref
    /\ e.knows = q.knows /\ (e.missed <=> q.missed)

SameFlags(q, e) == (e.short <=> q.short) /\ (e.cancelled <=> q.cancelled)

\* Setting the event, field by field.
WokenFrom(q, e) ==
    /\ e.at = q.at /\ e.fwd = q.fwd /\ e.str = q.str
    /\ e.carries = q.carries /\ e.knows = q.knows /\ (e.missed <=> q.missed)
    /\ SameFlags(q, e)
    /\ \/ q.ref = "waiting" /\ e.ref = "woken"
       \/ q.ref = "settling" /\ e.ref = "stirred"
       \/ q.ref \notin {"waiting", "settling"} /\ e.ref = q.ref

LEMMA WokenFields ==
    ASSUME TypeOK, NEW r \in DOMAIN relays
    PROVE  /\ WokenFrom(relays[r], Woken(relays)[r])
           /\ r \in DOMAIN Woken(relays) /\ Woken(relays)[r] \in Relays
  <1>1. relays[r] \in Relays
    BY DEF TypeOK
  <1> DEFINE place == CASE relays[r].ref = "waiting" -> "woken"
                        [] relays[r].ref = "settling" -> "stirred"
                        [] OTHER -> relays[r].ref
             e == [relays[r] EXCEPT !.ref = place]
  <1>2. Woken(relays)[r] = e /\ r \in DOMAIN Woken(relays)
    BY DEF Woken
  <1>3. place \in RefPlaces
    BY <1>1 DEF Relays, RefPlaces
  <1>4. \/ relays[r].ref = "waiting" /\ place = "woken"
        \/ relays[r].ref = "settling" /\ place = "stirred"
        \/ relays[r].ref \notin {"waiting", "settling"} /\ place = relays[r].ref
    OBVIOUS
  <1> HIDE DEF place
  <1>5. e \in Relays
    BY <1>1, <1>3, RefTyped
  <1>6. WokenFrom(relays[r], e)
    BY <1>1, <1>4 DEF Relays, WokenFrom, SameFlags
  <1>7. QED
    BY <1>2, <1>5, <1>6

\* Cancelling, field by field.
LEMMA CancelFields ==
    ASSUME NEW rs \in Seq(Relays), NEW r \in DOMAIN rs, NEW s \in DOMAIN rs
    PROVE  /\ Cancel(rs, r)[s].at = rs[s].at
           /\ Cancel(rs, r)[s].carries = rs[s].carries
           /\ SameParts(rs[s], Cancel(rs, r)[s])
           /\ Cancel(rs, r)[r].short
           /\ rs[s].short => Cancel(rs, r)[s].short
           /\ Cancel(rs, r)[s].cancelled => Cancel(rs, r)[s].short \/ rs[s].cancelled
  <1> DEFINE q == [rs[r] EXCEPT !.cancelled = TRUE, !.short = TRUE]
  <1>1. rs[r] \in Relays
    BY ListOfRelays
  <1>2. /\ q.at = rs[r].at /\ q.carries = rs[r].carries /\ SameParts(rs[r], q)
        /\ q.short
    BY <1>1 DEF Relays, SameParts
  <1>3. Cancel(rs, r) = [rs EXCEPT ![r] = q]
    BY DEF Cancel
  <1> HIDE DEF q
  <1>4. Cancel(rs, r)[s] = IF s = r THEN q ELSE rs[s]
    BY <1>3
  <1>5. Cancel(rs, r)[r] = q
    BY <1>3
  <1>6. QED
    BY <1>2, <1>4, <1>5 DEF SameParts

\* The steps that set or reset a flag.
LEMMA FailingFields ==
    ASSUME NEW q \in Relays, NEW e, e = [q EXCEPT !.at = "failing", !.short = TRUE]
    PROVE  e.at = "failing" /\ e.short /\ SameParts(q, e)
  BY Zenon DEF Relays, SameParts

LEMMA DoneFields ==
    ASSUME NEW q \in Relays, NEW e, e = [q EXCEPT !.at = "done", !.cancelled = FALSE]
    PROVE  e.at = "done" /\ e.ref = q.ref /\ (e.short <=> q.short)
  BY Zenon DEF Relays

LEMMA EndingFields ==
    ASSUME NEW q \in Relays, NEW e, e = [q EXCEPT !.at = "ending", !.cancelled = FALSE]
    PROVE  e.at = "ending" /\ e.ref = q.ref /\ (e.short <=> q.short)
  BY Zenon DEF Relays

LEMMA ForwarderFails ==
    ASSUME NEW q \in Relays, NEW e, e = [q EXCEPT !.fwd = "failed", !.short = TRUE]
    PROVE  /\ e.fwd = "failed" /\ e.str = q.str /\ e.ref = q.ref /\ e.knows = q.knows
           /\ e.carries = q.carries /\ (e.missed <=> q.missed) /\ e.short
  BY Zenon DEF Relays

LEMMA StreamFails ==
    ASSUME NEW q \in Relays, NEW e, e = [q EXCEPT !.str = "failed", !.short = TRUE]
    PROVE  /\ e.fwd = q.fwd /\ e.ref = q.ref /\ e.knows = q.knows
           /\ e.carries = q.carries /\ (e.missed <=> q.missed) /\ e.short
  BY Zenon DEF Relays

\* A relay's own step, action by action.
LEMMA RelayFields ==
    ASSUME IInv, NEW r \in DOMAIN relays, Relay(r), NEW q, q = relays[r], NEW e, e = relays'[r]
    PROVE  /\ q \in Relays /\ e \in Relays
           /\ q.short => e.short
           /\ \/ /\ Begins(r) /\ q.at = "created" /\ e.at = "connecting" /\ e.carries = canvas
                 /\ SameParts(q, e) /\ SameFlags(q, e) /\ UNCHANGED <<active, noted>>
              \/ /\ Connects(r) /\ q.at = "connecting" /\ e.at = "running"
                 /\ e.carries = q.carries /\ e.knows = q.carries /\ noted' = q.carries
                 /\ e.fwd = "taking" /\ e.str \in {"receiving", "ended"} /\ e.ref = Wait
                 /\ SameFlags(q, e) /\ active' = active
              \/ /\ Raises(r) /\ e.at = "failing" /\ e.short /\ SameParts(q, e)
                 /\ UNCHANGED <<active, noted>>
              \/ /\ Ends(r) /\ e.at = "ending" /\ SameParts(q, e) /\ SameFlags(q, e)
                 /\ (q.at = "running" /\ q.fwd = "ended") \/ q.at = "failing"
                 /\ ~active' /\ noted' = noted
              \/ /\ Reports(r) /\ q.at = "ending" /\ e.at = "done"
                 /\ SameParts(q, e) /\ SameFlags(q, e)
                 /\ UNCHANGED <<active, noted>>
              \/ /\ IsCancelled(r) /\ q.cancelled /\ e.at \in {"ending", "done"}
                 /\ (e.short <=> q.short)
                 /\ e.ref = q.ref \/ (e.ref = "ended" /\ q.at = "running")
                 /\ (active' = active \/ ~active') /\ noted' = noted
  <1>1. q \in Relays /\ e \in Relays
    BY RelayRecord DEF IInv, TypeOK
  <1>2. CASE Begins(r)
    <2>1. relays' = [relays EXCEPT ![r].at = "connecting", ![r].carries = canvas]
      BY <1>2 DEF Begins
    <2>2. e = [q EXCEPT !.at = "connecting", !.carries = canvas]
      BY <2>1
    <2>3. QED
      BY <1>1, <1>2, <2>2 DEF Begins, Uncancelled, Relays, SameParts, SameFlags
  <1>3. CASE Connects(r)
    <2> DEFINE str == IF active THEN "receiving" ELSE "ended"
    <2>1. e = [q EXCEPT !.at = "running", !.knows = q.carries, !.fwd = "taking",
                        !.str = str, !.ref = Wait]
      BY <1>3 DEF Connects
    <2>2. str \in {"receiving", "ended"}
      OBVIOUS
    <2> HIDE DEF str
    <2>3. QED
      BY <1>1, <1>3, <2>1, <2>2 DEF Connects, Uncancelled, Relays, SameFlags
  <1>4. CASE Raises(r)
    <2>1. e = [q EXCEPT !.at = "failing", !.short = TRUE]
      BY <1>4 DEF Raises
    <2>2. e.at = "failing" /\ e.short /\ SameParts(q, e)
      BY <1>1, <2>1, FailingFields
    <2>3. QED
      BY <1>1, <1>4, <2>2 DEF Raises
  <1>5. CASE Ends(r)
    <2>1. e = [q EXCEPT !.at = "ending"]
      BY <1>5 DEF Ends, Goes
    <2>2. (q.at = "running" /\ q.fwd = "ended") \/ q.at = "failing"
      BY <1>5 DEF Ends, Uncancelled
    <2>3. QED
      BY <1>1, <1>5, <2>1, <2>2 DEF Ends, Finally, Relays, SameParts, SameFlags
  <1>6. CASE Reports(r)
    <2>1. e = [q EXCEPT !.at = "done"]
      BY <1>6 DEF Reports, Goes
    <2>2. QED
      BY <1>1, <1>6, <2>1 DEF Reports, Uncancelled, Relays, SameParts, SameFlags
  <1>7. CASE IsCancelled(r)
    <2>1. CASE /\ q.at \in {"created", "ending"} /\ UNCHANGED active
               /\ relays' = [relays EXCEPT ![r].at = "done", ![r].cancelled = FALSE]
      <3>1. e = [q EXCEPT !.at = "done", !.cancelled = FALSE]
        BY <2>1
      <3>2. e.at = "done" /\ e.ref = q.ref /\ (e.short <=> q.short)
        BY <1>1, <3>1, DoneFields
      <3>3. QED
        BY <1>1, <1>7, <2>1, <3>2 DEF IsCancelled
    <2>2. CASE /\ q.at \in {"connecting", "running", "failing"} /\ Finally(r)
               /\ relays' = [relays EXCEPT ![r] = Unwound(relays[r])]
      <3>1. e = Unwound(q)
        BY <2>2
      <3>2. /\ e.at = "ending" /\ (e.short <=> q.short)
            /\ e.ref = q.ref \/ (e.ref = "ended" /\ q.at = "running")
        <4>1. CASE q.at = "running"
          BY <1>1, <3>1, <4>1 DEF Unwound, Halted, Relays
        <4>2. CASE q.at # "running"
          <5>1. e = [q EXCEPT !.at = "ending", !.cancelled = FALSE]
            BY <3>1, <4>2 DEF Unwound
          <5>2. QED
            BY <1>1, <5>1, EndingFields
        <4>3. QED
          BY <4>1, <4>2
      <3>3. QED
        BY <1>1, <1>7, <2>2, <3>2 DEF IsCancelled, Finally
    <2>3. QED
      BY <1>7, <2>1, <2>2 DEF IsCancelled
  <1>8. QED
    BY <1>2, <1>3, <1>4, <1>5, <1>6, <1>7 DEF Relay

\* A coroutine's step, by the coroutine.
LEMMA CoroutineFields ==
    ASSUME IInv, NEW r \in DOMAIN relays, Coroutine(r), NEW q, q = relays[r], NEW e, e = relays'[r]
    PROVE  /\ q \in Relays /\ e \in Relays
           /\ e.at = q.at /\ (e.cancelled <=> q.cancelled)
           /\ q.short => e.short
           /\ UNCHANGED <<active, task, canvas, announced, handler>>
           /\ \/ /\ Takes(r) /\ q.fwd = "taking" /\ e.ref = q.ref /\ e.str = q.str
                 /\ e.fwd = IF Head(queue) = "end" THEN "ended" ELSE "sending"
                 /\ queue # << >> /\ queue' = Tail(queue)
                 /\ e.carries = q.carries /\ e.knows = q.knows /\ (e.missed <=> q.missed)
                 /\ (e.short <=> q.short) /\ UNCHANGED <<dirty, noted>>
              \/ /\ Forwards(r) \/ Receives(r) \/ Handles(r)
                 /\ \/ e.fwd = q.fwd
                    \/ e.fwd = "taking" /\ q.fwd # "ended" /\ e.str = q.str
                    \/ e.short
                 /\ e.fwd = "ended" => q.fwd = "ended"
                 /\ e.str = q.str \/ (e.str # "failed" /\ e.fwd = q.fwd) \/ e.short
                 /\ e.ref = q.ref
                 /\ e.carries = q.carries /\ e.knows = q.knows /\ (e.missed <=> q.missed)
                 /\ q.at \in {"ending", "done"} /\ q.fwd = "ended" => e.fwd = "ended"
                 /\ UNCHANGED <<queue, dirty, noted>>
              \/ /\ e.fwd = q.fwd /\ e.str = q.str /\ (e.short <=> q.short) /\ queue' = queue
                 /\ \/ /\ Settles(r) /\ e.ref = IF active THEN "settling" ELSE "ended"
                       /\ e.carries = q.carries /\ e.knows = q.knows /\ (e.missed <=> q.missed)
                       /\ q.ref \in {"woken", "stirred"} /\ noted' = noted
                    \/ /\ Tells(r) /\ q.ref = "settling"
                       /\ dirty' = dirty /\ e.knows = q.knows /\ (e.missed <=> q.missed)
                       /\ \/ /\ active /\ canvas # noted /\ noted' = canvas
                             /\ e.ref = "telling" /\ e.carries = canvas
                          \/ /\ ~active \/ canvas = noted
                             /\ noted' = noted /\ e.ref = Wait /\ e.carries = q.carries
                    \/ /\ Told(r) /\ q.ref = "telling" /\ e.ref = Wait
                       /\ UNCHANGED <<dirty, noted>> /\ e.carries = q.carries
                       /\ \/ e.knows = q.carries /\ (e.missed <=> q.missed)
                          \/ e.missed
  <1>1. /\ q \in Relays /\ e \in Relays /\ e.at = q.at /\ (e.cancelled <=> q.cancelled)
        /\ UNCHANGED <<active, task, canvas, announced, handler>>
    BY CoroutineRecord DEF IInv, TypeOK, Coroutine
  <1>2. CASE Takes(r) /\ UNCHANGED <<dirty, noted>>
    <2> DEFINE place == IF Head(queue) = "end" THEN "ended" ELSE "sending"
    <2>1. e = [q EXCEPT !.fwd = place]
      BY <1>2 DEF Takes
    <2> HIDE DEF place
    <2>2. e.fwd = place /\ e.ref = q.ref /\ e.str = q.str /\ e.carries = q.carries
          /\ e.knows = q.knows /\ (e.missed <=> q.missed) /\ (e.short <=> q.short)
      BY <1>1, <2>1 DEF Relays
    <2>3. QED
      BY <1>1, <1>2, <2>2 DEF Takes, place
  <1>3. CASE Forwards(r) /\ UNCHANGED <<dirty, noted>>
    <2>1. \/ e = [q EXCEPT !.fwd = "taking"]
          \/ e = [q EXCEPT !.fwd = "failed", !.short = TRUE]
      BY <1>3 DEF Forwards
    <2>2. q.fwd = "sending" /\ queue' = queue
      BY <1>3 DEF Forwards
    <2>3. QED
      <3>1. CASE e = [q EXCEPT !.fwd = "failed", !.short = TRUE]
        <4>1. /\ e.fwd = "failed" /\ e.str = q.str /\ e.ref = q.ref /\ e.knows = q.knows
              /\ e.carries = q.carries /\ (e.missed <=> q.missed) /\ e.short
          BY <1>1, <3>1, ForwarderFails
        <4>2. QED
          BY <1>1, <1>3, <2>2, <4>1
      <3>2. CASE e # [q EXCEPT !.fwd = "failed", !.short = TRUE]
        BY <1>1, <1>3, <2>1, <2>2, <3>2 DEF Relays
      <3>3. QED
        BY <3>1, <3>2
  <1>4. CASE (Receives(r) \/ Handles(r)) /\ UNCHANGED <<dirty, noted>>
    <2>1. \/ e = [q EXCEPT !.str = "handling"]
          \/ e = [q EXCEPT !.str = "receiving"]
          \/ e = [q EXCEPT !.str = "ended"]
          \/ e = [q EXCEPT !.str = "failed", !.short = TRUE]
      BY <1>4 DEF Receives, Handles
    <2>2. queue' = queue
      BY <1>4 DEF Receives, Handles
    <2>3. QED
      <3>1. CASE e = [q EXCEPT !.str = "failed", !.short = TRUE]
        <4>1. /\ e.fwd = q.fwd /\ e.ref = q.ref /\ e.knows = q.knows
              /\ e.carries = q.carries /\ (e.missed <=> q.missed) /\ e.short
          BY <1>1, <3>1, StreamFails
        <4>2. QED
          BY <1>1, <1>4, <2>2, <4>1
      <3>2. CASE e # [q EXCEPT !.str = "failed", !.short = TRUE]
        BY <1>1, <1>4, <2>1, <2>2, <3>2 DEF Relays
      <3>3. QED
        BY <3>1, <3>2
  <1>5. CASE Settles(r) /\ queue' = queue
    <2> DEFINE place == IF active THEN "settling" ELSE "ended"
    <2>1. e = [q EXCEPT !.ref = place]
      BY <1>5 DEF Settles
    <2> HIDE DEF place
    <2>2. e.ref = place /\ e.fwd = q.fwd /\ e.str = q.str /\ e.carries = q.carries
          /\ e.knows = q.knows /\ (e.missed <=> q.missed) /\ (e.short <=> q.short)
      BY <1>1, <2>1 DEF Relays
    <2>3. QED
      BY <1>1, <1>5, <2>2 DEF Settles, place
  <1>6. CASE Tells(r) /\ queue' = queue
    <2>1. CASE active /\ canvas # noted
      <3>1. e = [q EXCEPT !.ref = "telling", !.carries = canvas] /\ noted' = canvas
        BY <1>6, <2>1 DEF Tells
      <3>2. QED
        BY <1>1, <1>6, <2>1, <3>1 DEF Tells, Relays
    <2>2. CASE ~(active /\ canvas # noted)
      <3>1. e = [q EXCEPT !.ref = Wait] /\ noted' = noted
        BY <1>6, <2>2 DEF Tells
      <3>2. QED
        BY <1>1, <1>6, <2>2, <3>1 DEF Tells, Relays
    <2>3. QED
      BY <2>1, <2>2
  <1>7. CASE Told(r) /\ queue' = queue
    <2>1. \/ e = [q EXCEPT !.ref = Wait, !.knows = q.carries]
          \/ e = [q EXCEPT !.ref = Wait, !.missed = TRUE]
      BY <1>7 DEF Told
    <2>2. q.ref = "telling" /\ UNCHANGED <<dirty, noted>>
      BY <1>7 DEF Told
    <2>3. CASE e = [q EXCEPT !.ref = Wait, !.knows = q.carries]
      <3>1. /\ e.ref = Wait /\ e.fwd = q.fwd /\ e.str = q.str /\ e.carries = q.carries
            /\ e.knows = q.carries /\ (e.missed <=> q.missed) /\ (e.short <=> q.short)
        BY <1>1, <2>3 DEF Relays
      <3>2. QED
        BY <1>1, <1>7, <2>2, <3>1
    <2>4. CASE e = [q EXCEPT !.ref = Wait, !.missed = TRUE]
      <3>1. /\ e.ref = Wait /\ e.fwd = q.fwd /\ e.str = q.str /\ e.carries = q.carries
            /\ e.knows = q.knows /\ e.missed /\ (e.short <=> q.short)
        BY <1>1, <2>4 DEF Relays
      <3>2. QED
        BY <1>1, <1>7, <2>2, <3>1
    <2>5. QED
      BY <2>1, <2>3, <2>4
  <1>8. QED
    BY <1>2, <1>3, <1>4, <1>5, <1>6, <1>7 DEF Coroutine

LEMMA RelayAtRest ==
    ASSUME IInv, NEW r \in DOMAIN relays, Relay(r), ~Working(r)
    PROVE  active' = active /\ relays'[r].ref = relays[r].ref /\ noted' = noted
  <1>1. relays[r] \in Relays
    BY DEF IInv, TypeOK
  <1>2. CASE Reports(r)
    BY <1>1, <1>2 DEF Reports, Goes, Relays
  <1>3. CASE IsCancelled(r)
    <2>1. relays' = [relays EXCEPT ![r].at = "done", ![r].cancelled = FALSE]
          /\ active' = active /\ noted' = noted
      BY <1>3 DEF IsCancelled, Working
    <2>2. relays'[r] = [relays[r] EXCEPT !.at = "done", !.cancelled = FALSE]
      BY <2>1
    <2>3. QED
      BY <1>1, <2>1, <2>2, DoneFields
  <1>4. QED
    BY <1>2, <1>3 DEF Relay, Begins, Connects, Raises, Ends, Uncancelled, Working

-----------------------------------------------------------------------------
(* The flow of markers and contexts is kept *)

LEMMA RelayFlow ==
    ASSUME IInv, FlowInv, NEW r \in DOMAIN relays, Relay(r)
    PROVE  FlowInv'
  <1> DEFINE q == relays[r]
             e == relays'[r]
  <1>1. /\ DOMAIN relays' = DOMAIN relays
        /\ \A s \in DOMAIN relays \ {r} : relays'[s] = relays[s]
        /\ UNCHANGED <<task, queue, dirty, canvas, announced, handler>>
    BY RelayRecord DEF Relay
  <1>2. /\ q \in Relays /\ e \in Relays /\ (q.short => e.short)
        /\ \/ /\ Begins(r) /\ q.at = "created" /\ e.at = "connecting" /\ e.carries = canvas
              /\ SameParts(q, e) /\ SameFlags(q, e) /\ UNCHANGED <<active, noted>>
           \/ /\ Connects(r) /\ q.at = "connecting" /\ e.at = "running"
              /\ e.carries = q.carries /\ e.knows = q.carries /\ noted' = q.carries
              /\ e.fwd = "taking" /\ e.str \in {"receiving", "ended"} /\ e.ref = Wait
              /\ SameFlags(q, e) /\ active' = active
           \/ /\ Raises(r) /\ e.at = "failing" /\ e.short /\ SameParts(q, e)
              /\ UNCHANGED <<active, noted>>
           \/ /\ Ends(r) /\ e.at = "ending" /\ SameParts(q, e) /\ SameFlags(q, e)
              /\ (q.at = "running" /\ q.fwd = "ended") \/ q.at = "failing"
              /\ ~active' /\ noted' = noted
           \/ /\ Reports(r) /\ q.at = "ending" /\ e.at = "done"
              /\ SameParts(q, e) /\ SameFlags(q, e)
              /\ UNCHANGED <<active, noted>>
           \/ /\ IsCancelled(r) /\ q.cancelled /\ e.at \in {"ending", "done"}
              /\ e.short <=> q.short
              /\ e.ref = q.ref \/ (e.ref = "ended" /\ q.at = "running")
              /\ (active' = active \/ ~active') /\ noted' = noted
    BY RelayFields
  <1>3. /\ Orderly /\ MarkerIsLast /\ RefreshersInformed /\ WaitersAreActive
        /\ NoEarlyRefresher
        /\ \A s \in DOMAIN relays : Working(s) => s = task
        /\ canvas \in Nat /\ announced \in Nat /\ announced <= canvas
    BY VoiceConstants DEF FlowInv, IInv, Attended, VoiceHasOneRelay, TypeOK
  <1>4. ~Working(r) => active' = active /\ e.ref = q.ref /\ noted' = noted
    BY RelayAtRest
  <1>5. q.at = "created" \/ q.at = "connecting" => Working(r)
    BY DEF Working
  <1> HIDE DEF q, e
  <1>6. q = relays[r] /\ e = relays'[r]
    BY DEF q, e
  <1>7. Orderly'
    <2>1. ~e.short => /\ ~e.cancelled /\ e.at # "failing"
                      /\ e.fwd # "failed" /\ e.str # "failed"
                      /\ e.at \in {"ending", "done"} => e.fwd = "ended"
      <3>1. ~q.short => /\ ~q.cancelled /\ q.at # "failing"
                        /\ q.fwd # "failed" /\ q.str # "failed"
                        /\ q.at \in {"ending", "done"} => q.fwd = "ended"
        BY <1>3, <1>6 DEF Orderly
      <3>2. QED
        BY <1>2, <3>1 DEF SameParts, SameFlags
    <2>2. QED
      BY <1>1, <1>3, <1>6, <2>1 DEF Orderly
  <1>8. NoneShort' => NoneShort /\ ~q.short /\ ~e.short /\ ~q.cancelled
    BY <1>1, <1>2, <1>3, <1>6 DEF NoneShort, Orderly
  <1>9. MarkerIsLast'
    <2> SUFFICES ASSUME NoneShort'
                 PROVE  /\ handler \in {"idle", "starting"} =>
                              NoMarker /\ \A s \in DOMAIN relays : Working(s)' => relays'[s].fwd # "ended"
                        /\ handler = "stopping" =>
                              /\ \A i \in DOMAIN queue : i # Len(queue) => queue[i] # "end"
                              /\ relays'[task].fwd = "ended" => NoMarker
                        /\ handler # "cutting"
      BY <1>1 DEF MarkerIsLast, NoMarker
    <2>1. e.fwd = q.fwd \/ e.fwd # "ended"
      BY <1>2, <1>8 DEF SameParts
    <2>2. Working(r)' => Working(r)
      BY <1>2, <1>6, <1>8 DEF Working
    <2>3. \A s \in DOMAIN relays : /\ relays'[s].fwd = "ended" => relays[s].fwd = "ended"
                                   /\ Working(s)' => Working(s)
      BY <1>1, <1>6, <2>1, <2>2 DEF Working
    <2>4. handler = "stopping" => task \in DOMAIN relays
      BY DEF IInv, TypeOK
    <2>5. /\ handler \in {"idle", "starting"} =>
                NoMarker /\ \A s \in DOMAIN relays : Working(s) => relays[s].fwd # "ended"
          /\ handler = "stopping" =>
                /\ \A i \in DOMAIN queue : i # Len(queue) => queue[i] # "end"
                /\ relays[task].fwd = "ended" => NoMarker
          /\ handler # "cutting"
      BY <1>3, <1>8 DEF MarkerIsLast
    <2>6. ASSUME handler \in {"idle", "starting"}, NEW s \in DOMAIN relays, Working(s)'
          PROVE  relays'[s].fwd # "ended"
      BY <2>3, <2>5, <2>6 DEF Working
    <2>7. QED
      BY <2>3, <2>4, <2>5, <2>6 DEF Working
  <1>10. RefreshersInformed'
    <2> SUFFICES ASSUME NEW s \in DOMAIN relays, active', Working(s)', Alone(s)'
                 PROVE  Informed(s)'
      BY <1>1 DEF RefreshersInformed
    <2>1. CASE s = r
      <3>1. CASE Begins(r) /\ e.at = "connecting" /\ e.carries = canvas
        BY <1>1, <1>3, <1>6, <2>1, <3>1 DEF Informed
      <3>2. CASE /\ Connects(r) /\ q.at = "connecting" /\ e.at = "running"
                 /\ e.carries = q.carries /\ e.knows = q.carries /\ noted' = q.carries
                 /\ e.ref = Wait /\ active' = active
        <4>1. Alone(r) /\ Working(r)
          BY <1>1, <1>5, <2>1, <3>2 DEF Alone
        <4>2. ~dirty => q.carries >= announced
          BY <1>3, <1>6, <3>2, <4>1 DEF RefreshersInformed, Informed
        <4>3. e.ref = IF dirty THEN "woken" ELSE "waiting"
          BY <3>2 DEF Wait
        <4>4. QED
          BY <1>1, <1>6, <2>1, <3>2, <4>2, <4>3 DEF Informed
      <3>3. CASE e.at \notin {"connecting", "running"}
        BY <1>6, <2>1, <3>3 DEF Informed
      <3>4. QED
        BY <1>2, <3>1, <3>2, <3>3
    <2>2. CASE s # r
      <3>1. Working(s) /\ relays'[s] = relays[s]
        BY <1>1, <2>2 DEF Working
      <3>2. active' = active /\ e.ref = q.ref /\ noted' = noted
        BY <1>3, <1>4, <2>2, <3>1
      <3>3. Alone(s)
        BY <1>1, <1>6, <3>2 DEF Alone
      <3>4. Informed(s)
        BY <1>3, <3>1, <3>2, <3>3 DEF RefreshersInformed
      <3>5. QED
        BY <1>1, <3>1, <3>2, <3>4 DEF Informed
    <2>3. QED
      BY <2>1, <2>2
  <1>11. WaitersAreActive'
    <2> SUFFICES ASSUME NEW s \in DOMAIN relays, relays'[s].at = "running", relays'[s].ref = "waiting"
                 PROVE  active'
      BY <1>1 DEF WaitersAreActive
    <2>1. CASE s = r
      BY <1>2, <1>6, <2>1 DEF Wait
    <2>2. CASE s # r
      <3>1. relays'[s] = relays[s] /\ Working(s) /\ active
        BY <1>1, <1>3, <2>2 DEF Working, WaitersAreActive
      <3>2. QED
        BY <1>3, <1>4, <2>2, <3>1
    <2>3. QED
      BY <2>1, <2>2
  <1>12. NoEarlyRefresher'
    <2>1. e.at \in {"created", "connecting"} => e.ref = "off"
      BY <1>2, <1>3, <1>6 DEF NoEarlyRefresher, SameParts
    <2>2. QED
      BY <1>1, <1>3, <1>6, <2>1 DEF NoEarlyRefresher
  <1>13. QED
    BY <1>7, <1>9, <1>10, <1>11, <1>12 DEF FlowInv

LEMMA TailItems ==
    ASSUME NEW S, NEW w \in Seq(S), w # << >>
    PROVE  /\ Head(w) = w[1] /\ 1 \in DOMAIN w /\ Len(w) \in Nat /\ DOMAIN w = 1..Len(w)
           /\ DOMAIN Tail(w) = 1..(Len(w) - 1) /\ Len(Tail(w)) = Len(w) - 1
           /\ \A i \in DOMAIN Tail(w) : i + 1 \in DOMAIN w /\ Tail(w)[i] = w[i + 1]
  OBVIOUS

LEMMA CoroutineFlow ==
    ASSUME IInv, FlowInv, NEW r \in DOMAIN relays, Coroutine(r)
    PROVE  FlowInv'
  <1> DEFINE q == relays[r]
             e == relays'[r]
             Informs ==
                 \/ /\ Settles(r) /\ e.ref = IF active THEN "settling" ELSE "ended"
                    /\ e.carries = q.carries /\ e.knows = q.knows /\ (e.missed <=> q.missed)
                    /\ q.ref \in {"woken", "stirred"} /\ noted' = noted
                 \/ /\ Tells(r) /\ q.ref = "settling"
                    /\ dirty' = dirty /\ e.knows = q.knows /\ (e.missed <=> q.missed)
                    /\ \/ /\ active /\ canvas # noted /\ noted' = canvas
                          /\ e.ref = "telling" /\ e.carries = canvas
                       \/ /\ ~active \/ canvas = noted
                          /\ noted' = noted /\ e.ref = Wait /\ e.carries = q.carries
                 \/ /\ Told(r) /\ q.ref = "telling" /\ e.ref = Wait
                    /\ UNCHANGED <<dirty, noted>> /\ e.carries = q.carries
                    /\ \/ e.knows = q.carries /\ (e.missed <=> q.missed)
                       \/ e.missed
             SameView ==
                 /\ e.ref = q.ref /\ e.carries = q.carries /\ e.knows = q.knows
                 /\ (e.missed <=> q.missed) /\ UNCHANGED <<dirty, noted>>
             Pops ==
                 /\ q.fwd = "taking" /\ e.str = q.str
                 /\ e.fwd = IF Head(queue) = "end" THEN "ended" ELSE "sending"
                 /\ queue # << >> /\ queue' = Tail(queue)
  <1>1. /\ DOMAIN relays' = DOMAIN relays
        /\ \A s \in DOMAIN relays \ {r} : relays'[s] = relays[s]
    BY CoroutineRecord
  <1>2. /\ q \in Relays /\ e \in Relays
        /\ e.at = q.at /\ (e.cancelled <=> q.cancelled)
        /\ q.short => e.short
        /\ UNCHANGED <<active, task, canvas, announced, handler>>
        /\ SameView \/ Informs
        /\ \/ Pops
           \/ /\ queue' = queue
              /\ \/ e.fwd = q.fwd
                 \/ e.fwd = "taking" /\ q.fwd # "ended" /\ e.str = q.str
                 \/ e.short
              /\ e.fwd = "ended" => q.fwd = "ended"
              /\ e.str = q.str \/ (e.str # "failed" /\ e.fwd = q.fwd) \/ e.short
    BY CoroutineFields
  <1>3. /\ Orderly /\ MarkerIsLast /\ RefreshersInformed /\ WaitersAreActive
        /\ NoEarlyRefresher
        /\ \A s \in DOMAIN relays : Working(s) => s = task
        /\ canvas \in Nat /\ announced \in Nat /\ announced <= canvas
        /\ queue \in Seq({"audio", "end"})
    BY VoiceConstants DEF FlowInv, IInv, Attended, VoiceHasOneRelay, TypeOK
  <1>4. q = relays[r] /\ e = relays'[r]
    OBVIOUS
  <1> HIDE DEF q, e, Informs, SameView, Pops
  <1>5. ~q.short => /\ ~q.cancelled /\ q.at # "failing"
                    /\ q.fwd # "failed" /\ q.str # "failed"
                    /\ q.at \in {"ending", "done"} => q.fwd = "ended"
    BY <1>3, <1>4 DEF Orderly
  <1>6. Orderly'
    <2>1. ~e.short => /\ ~e.cancelled /\ e.at # "failing"
                      /\ e.fwd # "failed" /\ e.str # "failed"
                      /\ e.at \in {"ending", "done"} => e.fwd = "ended"
      BY <1>2, <1>5 DEF Pops
    <2>2. QED
      BY <1>1, <1>3, <1>4, <2>1 DEF Orderly
  <1>7. MarkerIsLast'
    <2> SUFFICES ASSUME NoneShort'
                 PROVE  /\ handler \in {"idle", "starting"} =>
                              NoMarker' /\ \A s \in DOMAIN relays : Working(s)' => relays'[s].fwd # "ended"
                        /\ handler = "stopping" =>
                              /\ \A i \in DOMAIN queue' : i # Len(queue') => queue'[i] # "end"
                              /\ relays'[task].fwd = "ended" => NoMarker'
                        /\ handler # "cutting"
      BY <1>1, <1>2 DEF MarkerIsLast
    <2>1. NoneShort /\ ~q.short /\ ~e.short
      BY <1>1, <1>2, <1>4 DEF NoneShort
    <2>2. \A s \in DOMAIN relays : Working(s)' <=> Working(s)
      BY <1>1, <1>2, <1>4 DEF Working
    <2>3. /\ handler \in {"idle", "starting"} =>
                NoMarker /\ \A s \in DOMAIN relays : Working(s) => relays[s].fwd # "ended"
          /\ handler = "stopping" =>
                /\ \A i \in DOMAIN queue : i # Len(queue) => queue[i] # "end"
                /\ relays[task].fwd = "ended" => NoMarker
          /\ handler # "cutting"
      BY <1>3, <2>1 DEF MarkerIsLast
    <2>4. CASE Pops
      <3>1. /\ Head(queue) = queue[1] /\ 1 \in DOMAIN queue /\ Len(queue) \in Nat
            /\ DOMAIN queue = 1..Len(queue)
            /\ DOMAIN queue' = 1..(Len(queue) - 1) /\ Len(queue') = Len(queue) - 1
            /\ \A i \in DOMAIN queue' : i + 1 \in DOMAIN queue /\ queue'[i] = queue[i + 1]
        BY <1>3, <2>4, TailItems DEF Pops
      <3>2. NoMarker => NoMarker' /\ e.fwd = "sending"
        BY <2>4, <3>1 DEF NoMarker, Pops
      <3>3. r = task
        BY <1>2, <1>3, <1>4, <1>5, <2>1, <2>4 DEF Pops, Working, Relays
      <3>4. CASE handler = "stopping"
        <4>1. \A i \in DOMAIN queue' : i # Len(queue') => queue'[i] # "end"
          BY <2>3, <3>1, <3>4
        <4>2. queue[1] = "end" => Len(queue) = 1
          BY <2>3, <3>1, <3>4
        <4>3. queue[1] = "end" => NoMarker'
          <5>1. Len(queue) = 1 => DOMAIN queue' = {}
            BY <3>1
          <5>2. QED
            BY <4>2, <5>1 DEF NoMarker
        <4>4. e.fwd = "ended" => queue[1] = "end"
          BY <2>4, <3>1 DEF Pops
        <4>5. QED
          BY <1>4, <3>3, <3>4, <4>1, <4>3, <4>4
      <3>5. CASE handler \in {"idle", "starting"}
        <4>1. \A s \in DOMAIN relays : Working(s) => relays'[s].fwd # "ended"
          BY <1>1, <1>4, <2>3, <3>2, <3>5
        <4>2. QED
          BY <2>2, <2>3, <3>2, <3>5, <4>1
      <3>6. QED
        BY <2>3, <3>4, <3>5
    <2>5. CASE ~Pops
      <3>1. queue' = queue /\ (e.fwd = "ended" => q.fwd = "ended")
        BY <1>2, <2>5
      <3>2. \A s \in DOMAIN relays : relays'[s].fwd = "ended" => relays[s].fwd = "ended"
        BY <1>1, <1>4, <3>1
      <3>3. handler = "stopping" => task \in DOMAIN relays
        BY DEF IInv, TypeOK
      <3>4. \A s \in DOMAIN relays : handler \in {"idle", "starting"} /\ Working(s)'
                                        => relays'[s].fwd # "ended"
        BY <2>2, <2>3, <3>2
      <3>5. NoMarker' <=> NoMarker
        BY <3>1 DEF NoMarker
      <3>6. QED
        BY <2>3, <3>1, <3>2, <3>3, <3>4, <3>5
    <2>6. QED
      BY <2>4, <2>5
  <1>8. RefreshersInformed'
    <2> SUFFICES ASSUME NEW s \in DOMAIN relays, active, Working(s)', Alone(s)'
                 PROVE  Informed(s)'
      BY <1>1, <1>2 DEF RefreshersInformed
    <2>1. Working(s)
      BY <1>1, <1>2, <1>4 DEF Working
    <2>2. CASE SameView
      <3>1. Alone(s)
        BY <1>1, <1>4, <2>2 DEF Alone, SameView
      <3>2. Informed(s)
        BY <1>3, <2>1, <3>1 DEF RefreshersInformed
      <3>3. QED
        BY <1>1, <1>2, <1>4, <2>2, <3>2 DEF Informed, SameView
    <2>3. CASE Informs /\ s = r
      <3>1. Alone(r)
        BY <1>1, <2>3 DEF Alone
      <3>2. Informed(r)
        BY <1>3, <2>1, <2>3, <3>1 DEF RefreshersInformed
      <3>3. q.at # "connecting"
        BY <1>3, <1>4, <2>3 DEF NoEarlyRefresher, Informs
      <3>4. e.at = "running" /\ ~e.missed =>
                /\ e.ref # "telling" => e.knows = noted'
                /\ e.ref = "waiting" => e.knows >= announced
                /\ e.ref = "telling" =>
                      e.carries = noted' /\ (~dirty' => e.carries >= announced)
        <4>1. q.at = "running" /\ ~q.missed =>
                /\ q.ref # "telling" => q.knows = noted
                /\ q.ref = "waiting" => q.knows >= announced
                /\ q.ref = "telling" =>
                      q.carries = noted /\ (~dirty => q.carries >= announced)
          BY <1>4, <3>2 DEF Informed
        <4>2. CASE Settles(r) /\ e.ref = "settling" /\ e.knows = q.knows
                      /\ (e.missed <=> q.missed)
                      /\ q.ref \in {"woken", "stirred"} /\ noted' = noted
          BY <1>2, <4>1, <4>2
        <4>3. CASE /\ active /\ canvas # noted /\ noted' = canvas
                   /\ e.ref = "telling" /\ e.carries = canvas
          BY <1>3, <4>3
        <4>4. CASE /\ canvas = noted /\ noted' = noted /\ e.ref = Wait /\ e.knows = q.knows
                   /\ q.ref = "settling" /\ (e.missed <=> q.missed)
          BY <1>2, <1>3, <4>1, <4>4 DEF Wait
        <4>5. CASE /\ q.ref = "telling" /\ e.ref = Wait /\ UNCHANGED <<dirty, noted>>
                   /\ (e.knows = q.carries /\ (e.missed <=> q.missed)) \/ e.missed
          BY <1>2, <4>1, <4>5 DEF Wait
        <4>6. QED
          BY <2>3, <4>2, <4>3, <4>4, <4>5 DEF Informs
      <3>5. QED
        BY <1>2, <1>4, <2>3, <3>3, <3>4 DEF Informed
    <2>4. CASE Informs /\ s # r
      <3>1. e.ref \in {"off", "ended"}
        BY <1>1, <1>4, <2>4 DEF Alone
      <3>2. QED
        BY <2>4, <3>1 DEF Informs, Wait
    <2>5. QED
      BY <1>2, <2>2, <2>3, <2>4
  <1>9. WaitersAreActive'
    <2>1. e.at = "running" /\ e.ref = "waiting" => active
      BY <1>2, <1>3, <1>4 DEF WaitersAreActive, SameView, Informs, Wait
    <2>2. QED
      BY <1>1, <1>2, <1>3, <1>4, <2>1 DEF WaitersAreActive
  <1>10. NoEarlyRefresher'
    <2>1. e.at \in {"created", "connecting"} => e.ref = "off"
      BY <1>2, <1>3, <1>4 DEF NoEarlyRefresher, SameView, Informs
    <2>2. QED
      BY <1>1, <1>3, <1>4, <2>1 DEF NoEarlyRefresher
  <1>11. QED
    BY <1>6, <1>7, <1>8, <1>9, <1>10 DEF FlowInv

\* What a message may do to a relay: wake its refresher, or cancel its task.
Alike(q, e) ==
    /\ e.at = q.at /\ e.fwd = q.fwd /\ e.str = q.str
    /\ e.carries = q.carries /\ e.knows = q.knows /\ (e.missed <=> q.missed)
    /\ (q.short => e.short) /\ (e.cancelled => e.short \/ q.cancelled)

Rests(q, e) == e.ref = q.ref
Wakes(q, e) ==
    \/ q.ref = "waiting" /\ e.ref = "woken"
    \/ q.ref = "settling" /\ e.ref = "stirred"
    \/ q.ref \notin {"waiting", "settling"} /\ e.ref = q.ref

LEMMA AfterWoken ==
    ASSUME IInv, NEW r \in DOMAIN relays
    PROVE  Alike(relays[r], Woken(relays)[r]) /\ Wakes(relays[r], Woken(relays)[r])
  BY WokenFields DEF IInv, WokenFrom, Alike, Wakes, SameFlags

LEMMA AfterCancel ==
    ASSUME IInv, task # 0, NEW r \in DOMAIN relays
    PROVE  /\ Alike(relays[r], Cancel(relays, task)[r]) /\ Rests(relays[r], Cancel(relays, task)[r])
           /\ Cancel(relays, task)[task].short /\ task \in DOMAIN relays
           /\ Alike(relays[r], Cancel(Woken(relays), task)[r])
           /\ Wakes(relays[r], Cancel(Woken(relays), task)[r])
  <1>1. /\ relays \in Seq(Relays) /\ task \in DOMAIN relays
        /\ Woken(relays) \in Seq(Relays) /\ task \in DOMAIN Woken(relays)
        /\ r \in DOMAIN Woken(relays)
    BY WokenKeeps DEF IInv, TypeOK
  <1>2. /\ Alike(relays[r], Cancel(relays, task)[r]) /\ Rests(relays[r], Cancel(relays, task)[r])
        /\ Cancel(relays, task)[task].short
    BY <1>1, CancelFields DEF Alike, Rests, SameParts
  <1>3. WokenFrom(relays[r], Woken(relays)[r])
    BY WokenFields DEF IInv
  <1>4. LET rs == Woken(relays) IN
        /\ Cancel(rs, task)[r].at = rs[r].at
        /\ Cancel(rs, task)[r].carries = rs[r].carries
        /\ SameParts(rs[r], Cancel(rs, task)[r])
        /\ rs[r].short => Cancel(rs, task)[r].short
        /\ Cancel(rs, task)[r].cancelled => Cancel(rs, task)[r].short \/ rs[r].cancelled
    BY <1>1, CancelFields
  <1>5. /\ Alike(relays[r], Cancel(Woken(relays), task)[r])
        /\ Wakes(relays[r], Cancel(Woken(relays), task)[r])
    BY <1>3, <1>4 DEF WokenFrom, Alike, Wakes, SameFlags, SameParts
  <1>6. QED
    BY <1>1, <1>2, <1>5

\* A message that starts no relay.
LEMMA HandlerFlow ==
    ASSUME IInv, FlowInv, HandlerStep, ~Started
    PROVE  FlowInv'
  <1>1. /\ Orderly /\ MarkerIsLast /\ RefreshersInformed /\ WaitersAreActive
        /\ NoEarlyRefresher /\ VoiceHasOneRelay
        /\ active => handler \in {"idle", "starting"}
        /\ handler = "idle" /\ ~active => \A r \in DOMAIN relays : ~Working(r)
        /\ canvas \in Nat /\ announced \in Nat /\ announced <= canvas
        /\ queue \in Seq({"audio", "end"}) /\ relays \in Seq(Relays)
        /\ task \in 0..Len(relays)
        /\ handler \in {"stopping", "cutting", "closing"} => task # 0
        /\ active \in BOOLEAN
    BY VoiceConstants DEF FlowInv, IInv, Attended, TypeOK
  <1>2. \/ /\ relays' = relays /\ (Start \/ Stopped \/ Microphone \/ TextMessage)
        \/ /\ relays' = Woken(relays) /\ Stop
        \/ /\ CanvasUpdate /\ relays' = IF active THEN Woken(relays) ELSE relays
        \/ /\ StopTimesOut /\ relays' = Cancel(relays, task)
        \/ /\ Disconnect /\ relays' = IF TaskLive THEN Cancel(Woken(relays), task) ELSE relays
        \/ /\ Closed /\ relays' = IF Live(task) THEN Cancel(relays, task) ELSE relays
    BY DEF HandlerStep, Start, Stop, StopTimesOut, Stopped, Microphone, CanvasUpdate,
           TextMessage, Disconnect, Closed
  <1>c. \/ relays' = relays
        \/ relays' = Woken(relays)
        \/ task # 0 /\ relays' = Cancel(relays, task)
        \/ task # 0 /\ relays' = Cancel(Woken(relays), task)
    <2>1. CASE Closed
      BY <1>1, <2>1 DEF Closed
    <2>2. CASE StopTimesOut
      BY <1>1, <2>2 DEF StopTimesOut
    <2>3. CASE Disconnect
      BY <1>1, <2>3 DEF Disconnect, TaskLive
    <2>4. CASE Start \/ Stop \/ Stopped \/ Microphone \/ CanvasUpdate \/ TextMessage
      BY <2>4 DEF Start, Stop, Stopped, Microphone, CanvasUpdate, TextMessage
    <2>5. QED
      BY <2>1, <2>2, <2>3, <2>4 DEF HandlerStep
  <1>3. DOMAIN relays' = DOMAIN relays
    <2>1. /\ Woken(relays) \in Seq(Relays) /\ DOMAIN Woken(relays) = DOMAIN relays
          /\ task # 0 => task \in DOMAIN relays
      BY <1>1, WokenKeeps DEF IInv
    <2>2. QED
      BY <1>1, <1>c, <2>1, CancelTyped
  <1>4. \A r \in DOMAIN relays :
           /\ Alike(relays[r], relays'[r])
           /\ Rests(relays[r], relays'[r]) \/ Wakes(relays[r], relays'[r])
    <2> SUFFICES ASSUME NEW r \in DOMAIN relays
                 PROVE  /\ Alike(relays[r], relays'[r])
                        /\ Rests(relays[r], relays'[r]) \/ Wakes(relays[r], relays'[r])
      OBVIOUS
    <2>1. Alike(relays[r], relays[r]) /\ Rests(relays[r], relays[r])
      BY DEF Alike, Rests
    <2>2. QED
      BY <1>c, <2>1, AfterWoken, AfterCancel
  <1>5. \A r \in DOMAIN relays : /\ Working(r)' <=> Working(r)
                                 /\ Alone(r)' => Alone(r)
    BY <1>3, <1>4 DEF Alike, Rests, Wakes, Working, Alone
  <1>6. NoneShort' => NoneShort
    BY <1>3, <1>4 DEF NoneShort, Alike
  <1>7. Orderly'
    BY <1>1, <1>3, <1>4 DEF Orderly, Alike
  <1>8. NoEarlyRefresher'
    BY <1>1, <1>3, <1>4 DEF NoEarlyRefresher, Alike, Rests, Wakes
  <1>9. active /\ handler # "starting" => task # 0 /\ Working(task)
        /\ task \in DOMAIN relays /\ relays[task].at # "done"
    BY <1>1 DEF VoiceHasOneRelay, Working
  <1>10. MarkerIsLast'
    <2> SUFFICES ASSUME NoneShort'
                 PROVE  /\ handler' \in {"idle", "starting"} =>
                              NoMarker' /\ \A r \in DOMAIN relays : Working(r)' => relays'[r].fwd # "ended"
                        /\ handler' = "stopping" =>
                              /\ \A i \in DOMAIN queue' : i # Len(queue') => queue'[i] # "end"
                              /\ relays'[task'].fwd = "ended" => NoMarker'
                        /\ handler' # "cutting"
      BY <1>3 DEF MarkerIsLast
    <2>1. /\ handler \in {"idle", "starting"} =>
                NoMarker /\ \A r \in DOMAIN relays : Working(r) => relays[r].fwd # "ended"
          /\ handler = "stopping" =>
                /\ \A i \in DOMAIN queue : i # Len(queue) => queue[i] # "end"
                /\ relays[task].fwd = "ended" => NoMarker
          /\ handler # "cutting"
      BY <1>1, <1>6 DEF MarkerIsLast
    <2>2. \A r \in DOMAIN relays : relays'[r].fwd = relays[r].fwd
      BY <1>4 DEF Alike
    <2>3. ASSUME NEW x \in {"audio", "end"}, queue' = Append(queue, x)
          PROVE  /\ DOMAIN queue' = 1..Len(queue') /\ Len(queue') = Len(queue) + 1
                 /\ Len(queue) \in Nat /\ queue'[Len(queue')] = x
                 /\ \A i \in DOMAIN queue' : i # Len(queue') =>
                        i \in DOMAIN queue /\ queue'[i] = queue[i]
      BY <1>1, <2>3
    <2>4. queue' = queue => (NoMarker' <=> NoMarker)
      BY DEF NoMarker
    <2>5. \A r \in DOMAIN relays :
             handler \in {"idle", "starting"} /\ Working(r)' => relays'[r].fwd # "ended"
      BY <1>5, <2>1, <2>2
    <2>6. CASE Start \/ CanvasUpdate \/ TextMessage
      <3>1. handler = "idle" /\ handler' \in {"idle", "starting"} /\ queue' = queue
        BY <2>6 DEF Start, CanvasUpdate, TextMessage
      <3>2. QED
        BY <2>1, <2>4, <2>5, <3>1
    <2>7. CASE Microphone
      <3>1. handler = "idle" /\ handler' = "idle" /\ queue' = Append(queue, "audio")
        BY <2>7 DEF Microphone
      <3>2. NoMarker'
        BY <2>1, <2>3, <3>1 DEF NoMarker
      <3>3. QED
        BY <2>5, <3>1, <3>2
    <2>8. CASE Stop
      <3>1. handler = "idle" /\ active /\ queue' = Append(queue, "end")
        BY <2>8 DEF Stop, SignalEnd
      <3>2. handler' = "stopping" /\ task' = task
        BY <1>9, <2>8, <3>1 DEF Stop, TaskLive, Live
      <3>3. relays'[task].fwd # "ended"
        BY <1>9, <2>1, <2>2, <3>1
      <3>4. \A i \in DOMAIN queue' : i # Len(queue') => queue'[i] # "end"
        BY <2>1, <2>3, <3>1 DEF NoMarker
      <3>5. QED
        BY <3>2, <3>3, <3>4
    <2>9. CASE StopTimesOut
      <3>1. task # 0 /\ relays' = Cancel(relays, task)
        BY <1>1, <2>9 DEF StopTimesOut
      <3>2. task \in DOMAIN relays /\ relays'[task].short
        BY <1>1, <3>1, AfterCancel
      <3>3. QED
        BY <1>3, <3>2 DEF NoneShort
    <2>10. CASE Stopped
      <3>1. /\ handler = "stopping" /\ handler' = "idle" /\ relays' = relays /\ queue' = queue
            /\ task \in DOMAIN relays /\ relays[task].at = "done"
        BY <1>1, <2>1, <2>10 DEF Stopped, Live
      <3>2. relays[task].fwd = "ended"
        BY <1>1, <1>6, <3>1 DEF NoneShort, Orderly
      <3>3. \A r \in DOMAIN relays : ~Working(r)
        BY <1>1, <3>1 DEF VoiceHasOneRelay, Working
      <3>4. QED
        BY <1>5, <2>1, <2>4, <3>1, <3>2, <3>3
    <2>11. CASE Disconnect \/ Closed
      BY <2>11 DEF Disconnect, Closed
    <2>12. QED
      BY <1>2, <2>6, <2>7, <2>8, <2>9, <2>10, <2>11
  <1>11. RefreshersInformed'
    <2> SUFFICES ASSUME NEW r \in DOMAIN relays, active', Working(r)', Alone(r)'
                 PROVE  Informed(r)'
      BY <1>3 DEF RefreshersInformed
    <2>1. Working(r) /\ Alone(r)
      BY <1>5
    <2>2. CASE active /\ UNCHANGED <<dirty, noted, announced>>
      <3>1. Informed(r)
        BY <1>1, <2>1, <2>2 DEF RefreshersInformed
      <3>2. Alike(relays[r], relays'[r])
            /\ (Rests(relays[r], relays'[r]) \/ Wakes(relays[r], relays'[r]))
        BY <1>4
      <3>3. QED
        BY <2>2, <3>1, <3>2 DEF Informed, Alike, Rests, Wakes
    <2>3. CASE CanvasUpdate
      <3>1. active /\ dirty' = TRUE /\ noted' = noted /\ relays' = Woken(relays)
        BY <2>3 DEF CanvasUpdate
      <3>2. Informed(r) /\ Alike(relays[r], relays'[r]) /\ Wakes(relays[r], relays'[r])
        BY <1>1, <2>1, <3>1, AfterWoken DEF RefreshersInformed
      <3>3. QED
        BY <3>1, <3>2 DEF Informed, Alike, Wakes
    <2>4. CASE ~active
      BY <1>1, <2>1, <2>4 DEF HandlerStep, Start, Stop, SignalEnd, StopTimesOut, Stopped, Microphone,
         CanvasUpdate, TextMessage, Disconnect, Closed
    <2>5. ASSUME active, ~CanvasUpdate
          PROVE  UNCHANGED <<dirty, noted, announced>>
      BY <1>1, <1>9, <2>5 DEF HandlerStep, Start, Stop, SignalEnd, StopTimesOut, Stopped, Microphone,
         TextMessage, Disconnect, Closed, TaskLive, Live
    <2>6. QED
      BY <2>2, <2>3, <2>4, <2>5
  <1>12. WaitersAreActive'
    <2> SUFFICES ASSUME NEW r \in DOMAIN relays, relays'[r].at = "running",
                        relays'[r].ref = "waiting"
                 PROVE  active'
      BY <1>3 DEF WaitersAreActive
    <2>1. relays[r].at = "running" /\ relays[r].ref = "waiting" /\ ~Wakes(relays[r], relays'[r])
      BY <1>4 DEF Alike, Rests, Wakes
    <2>2. active
      BY <1>1, <2>1 DEF WaitersAreActive
    <2>3. ~Stop /\ ~(Disconnect /\ TaskLive)
      BY <1>2, <2>1, AfterWoken, AfterCancel DEF Stop, Disconnect, TaskLive, SignalEnd
    <2>4. QED
      BY <2>2, <2>3 DEF HandlerStep, Start, StopTimesOut, Stopped, Microphone,
         CanvasUpdate, TextMessage, Disconnect, Closed
  <1>13. QED
    BY <1>7, <1>8, <1>10, <1>11, <1>12 DEF FlowInv

\* A relay is started when no other is at work.
LEMMA StartedFlow ==
    ASSUME IInv, FlowInv, Started
    PROVE  FlowInv'
  <1> DEFINE n == Len(relays) + 1
  <1>1. /\ Orderly /\ MarkerIsLast /\ WaitersAreActive /\ NoEarlyRefresher
        /\ relays \in Seq(Relays) /\ handler = "starting"
        /\ \A r \in DOMAIN relays : ~Working(r)
        /\ handler' = "idle" /\ relays' = Append(relays, NewRelay)
        /\ UNCHANGED <<active, queue, dirty, canvas, announced, noted>>
    BY DEF FlowInv, IInv, Attended, TypeOK, Started
  <1>2. /\ DOMAIN relays' = DOMAIN relays \cup {n} /\ relays'[n] = NewRelay
        /\ \A r \in DOMAIN relays : relays'[r] = relays[r]
    BY <1>1
  <1>3. /\ NewRelay.at = "created" /\ ~NewRelay.cancelled /\ NewRelay.fwd = "off"
        /\ NewRelay.str = "off" /\ NewRelay.ref = "off" /\ ~NewRelay.short
    BY DEF NewRelay
  <1> HIDE DEF n
  <1>4. \A r \in DOMAIN relays : ~Working(r)'
    BY <1>1, <1>2 DEF Working
  <1>5. Orderly' /\ NoEarlyRefresher' /\ WaitersAreActive'
    BY <1>1, <1>2, <1>3 DEF Orderly, NoEarlyRefresher, WaitersAreActive
  <1>6. RefreshersInformed'
    BY <1>2, <1>3, <1>4 DEF RefreshersInformed, Informed
  <1>7. MarkerIsLast'
    <2>1. NoneShort' => NoneShort
      BY <1>2 DEF NoneShort
    <2>2. NoneShort' => NoMarker'
      BY <1>1, <2>1 DEF MarkerIsLast, NoMarker
    <2>3. \A r \in DOMAIN relays' : Working(r)' => relays'[r].fwd # "ended"
      BY <1>2, <1>3, <1>4
    <2>4. QED
      BY <1>1, <2>2, <2>3 DEF MarkerIsLast
  <1>8. QED
    BY <1>5, <1>6, <1>7 DEF FlowInv

LEMMA FlowInvariance == Spec => [](IInv /\ FlowInv)
  <1>1. Init => IInv /\ FlowInv
    <2>1. Init => FlowInv
      BY DEF Init, FlowInv, Orderly, MarkerIsLast, NoMarker, RefreshersInformed,
             WaitersAreActive, NoEarlyRefresher
    <2>2. QED
      BY <2>1, InitIInv
  <1>2. IInv /\ FlowInv /\ [Next]_vars => FlowInv'
    <2> SUFFICES ASSUME IInv, FlowInv, [Next]_vars PROVE FlowInv'
      OBVIOUS
    <2>1. CASE HandlerStep
      BY <2>1, HandlerFlow, StartedFlow
    <2>2. ASSUME NEW r \in DOMAIN relays, Relay(r) \/ Coroutine(r)
          PROVE  FlowInv'
      BY <2>2, RelayFlow, CoroutineFlow
    <2>3. CASE UNCHANGED vars
      BY <2>3 DEF vars, FlowInv, Orderly, MarkerIsLast, NoneShort, NoMarker, Working, Alone,
                  Informed, RefreshersInformed, WaitersAreActive, NoEarlyRefresher
    <2>4. QED
      BY <2>1, <2>2, <2>3 DEF Next, HandlerStep
  <1>3. QED
    BY <1>1, <1>2, NextIInv, PTL DEF Spec

\* An end marker is left in the queue, where it would end a later relay, only after a
\* relay that was cut short.
THEOREM MarkersTaken == Spec => []MarkersAreTaken
  <1>1. FlowInv => MarkersAreTaken
    BY DEF FlowInv, MarkerIsLast, MarkersAreTaken, NoneShort, NoMarker
  <1>2. QED
    BY <1>1, FlowInvariance, PTL

\* A refresher that rests, alone and without a refresh that was lost, has told Gemini
\* of every change announced, however many changes and relays there were.
THEOREM ContextFresh == Spec => []ContextIsFresh
  <1>1. IInv /\ FlowInv => ContextIsFresh
    <2> SUFFICES ASSUME IInv, FlowInv, NEW r \in DOMAIN relays,
                        relays[r].at = "running", relays[r].ref = "waiting", ~relays[r].missed,
                        \A s \in DOMAIN relays : s # r => relays[s].ref \in {"off", "ended"}
                 PROVE  relays[r].knows >= announced
      BY DEF ContextIsFresh
    <2>1. active
      BY DEF FlowInv, WaitersAreActive
    <2>2. Working(r) /\ Alone(r)
      BY DEF Working, Alone
    <2>3. Informed(r)
      BY <2>1, <2>2 DEF FlowInv, RefreshersInformed
    <2>4. QED
      BY <2>3 DEF Informed
  <1>2. QED
    BY <1>1, FlowInvariance, PTL
=============================================================================
