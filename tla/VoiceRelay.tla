----------------------------- MODULE VoiceRelay -----------------------------
(***************************************************************************)
(* The voice relay of a session, session/router.py: _start_voice,          *)
(* _stop_voice, the clean-up, and _gemini_voice_relay with its three       *)
(* coroutines, which forward the microphone, stream the answers and        *)
(* refresh Gemini's view of the canvas.                                    *)
(*                                                                         *)
(* The session has one audio queue, one event and one last context for all *)
(* its relays.  asyncio.gather raises the first exception of a coroutine   *)
(* and lets the others run on, without their connection.                   *)
(***************************************************************************)
EXTENDS Naturals, Sequences

CONSTANTS
    MaxRelays,      \* bound: relays started in the session
    MaxAudio,       \* bound: items in the audio queue when audio arrives
    MaxEdits        \* bound: changes of the canvas

ASSUME VoiceConstants == MaxRelays \in Nat /\ MaxAudio \in Nat /\ MaxEdits \in Nat

VARIABLES
    active,         \* _voice_active
    task,           \* _voice_task: the relay registered, 0 if none
    queue,          \* _audio_queue: chunks of audio and the None that ends a relay
    dirty,          \* _canvas_dirty
    canvas,         \* the version of the canvas the session holds
    announced,      \* (history) the version of the last change that set _canvas_dirty
    noted,          \* the version in _last_voice_context
    relays,         \* the relays, in the order they were started
    handler         \* where the receive loop is

vars == <<active, task, queue, dirty, canvas, announced, noted, relays, handler>>

\* at: "created", "connecting" (and sending the seed), "running" (in gather),
\* "failing" (reporting an error), "ending" (in the finally clause), "done".
\* fwd, str, ref: the three coroutines, "off" before gather.  ref is "waiting" for the
\* event or "settling" for a second of quiet; "woken" and "stirred" are those two
\* once the event was set.  carries: the version in the message it is sending;
\* knows: the version Gemini was last told; missed: a refresh that was not delivered;
\* short: (history) it was cancelled, or something raised.
NewRelay == [at |-> "created", cancelled |-> FALSE, fwd |-> "off", str |-> "off", ref |-> "off",
             carries |-> 0, knows |-> 0, missed |-> FALSE, short |-> FALSE]

Relays == [at : {"created", "connecting", "running", "failing", "ending", "done"},
           cancelled : BOOLEAN,
           fwd : {"off", "taking", "sending", "ended", "failed"},
           str : {"off", "receiving", "handling", "ended", "failed"},
           ref : {"off", "waiting", "woken", "settling", "stirred", "telling", "ended"},
           carries : 0..MaxEdits, knows : 0..MaxEdits, missed : BOOLEAN, short : BOOLEAN]

Live(r) == relays[r].at # "done"
TaskLive == task # 0 /\ Live(task)

Init ==
    /\ active = FALSE /\ task = 0
    /\ queue = << >>
    /\ dirty = FALSE
    /\ canvas = 0 /\ announced = 0 /\ noted = 0
    /\ relays = << >>
    /\ handler = "idle"

-----------------------------------------------------------------------------
(* The event *)

\* set() wakes every coroutine that waits, whatever becomes of the flag meanwhile.
Woken(rs) ==
    [r \in DOMAIN rs |-> [rs[r] EXCEPT !.ref = CASE @ = "waiting" -> "woken"
                                                 [] @ = "settling" -> "stirred"
                                                 [] OTHER -> @]]

\* (mutant) The event is cleared on the way to the wait.
WaitAfresh == IF active THEN "waiting" ELSE "ended"

\* The head of the refresh loop: its condition, then wait(), which returns at once
\* when the event is set.
Wait == IF ~active THEN "ended" ELSE IF dirty THEN "woken" ELSE "waiting"

-----------------------------------------------------------------------------
(* The receive loop *)

\* (mutant) A press while a relay is active starts another.
StartAgain ==
    /\ handler = "idle" /\ Len(relays) < MaxRelays
    /\ active' = TRUE /\ dirty' = FALSE
    /\ handler' = "starting"
    /\ UNCHANGED <<task, queue, canvas, announced, noted, relays>>

\* start_voice, with a key configured, up to the message voice_started; nothing
\* happens while voice is active.
Start ==
    /\ handler = "idle" /\ Len(relays) < MaxRelays
    /\ ~active
    /\ active' = TRUE /\ dirty' = FALSE
    /\ handler' = "starting"
    /\ UNCHANGED <<task, queue, canvas, announced, noted, relays>>

\* The message is sent and the task created.
Started ==
    /\ handler = "starting"
    /\ relays' = Append(relays, NewRelay)
    /\ task' = Len(relays) + 1
    /\ handler' = "idle"
    /\ UNCHANGED <<active, queue, dirty, canvas, announced, noted>>

\* Both ways to end a relay set the event and put the end marker in the queue.
SignalEnd ==
    /\ active' = FALSE
    /\ dirty' = TRUE
    /\ queue' = Append(queue, "end")

\* (mutant) stop_voice without its early return.
StopAnyway ==
    /\ handler = "idle"
    /\ SignalEnd
    /\ relays' = Woken(relays)
    /\ handler' = IF TaskLive THEN "stopping" ELSE "idle"
    /\ task' = IF TaskLive THEN task ELSE 0
    /\ UNCHANGED <<canvas, announced, noted>>

\* (mutant) _voice_task is cleared before the wait.
StopForgetting ==
    /\ handler = "idle" /\ active
    /\ SignalEnd
    /\ relays' = Woken(relays)
    /\ handler' = IF TaskLive THEN "stopping" ELSE "idle"
    /\ task' = 0
    /\ UNCHANGED <<canvas, announced, noted>>

\* stop_voice up to the wait for the relay; nothing happens unless voice is active.
Stop ==
    /\ handler = "idle"
    /\ active
    /\ SignalEnd
    /\ relays' = Woken(relays)
    /\ handler' = IF TaskLive THEN "stopping" ELSE "idle"
    /\ task' = IF TaskLive THEN task ELSE 0
    /\ UNCHANGED <<canvas, announced, noted>>

\* task.cancel()
Cancel(rs, r) == [rs EXCEPT ![r].cancelled = TRUE, ![r].short = TRUE]

\* Three seconds, in which the relay has at least begun: wait_for cancels it, and waits
\* for it to end all the same.
StopTimesOut ==
    /\ handler = "stopping" /\ relays[task].at \notin {"created", "done"}
    /\ relays' = Cancel(relays, task)
    /\ handler' = "cutting"
    /\ UNCHANGED <<active, task, queue, dirty, canvas, announced, noted>>

Stopped ==
    /\ handler \in {"stopping", "cutting"} /\ ~Live(task)
    /\ task' = 0
    /\ handler' = "idle"
    /\ UNCHANGED <<active, queue, dirty, canvas, announced, noted, relays>>

\* A binary frame: audio, dropped while voice is not active.
Microphone ==
    /\ handler = "idle" /\ active /\ Len(queue) < MaxAudio
    /\ queue' = Append(queue, "audio")
    /\ UNCHANGED <<active, task, dirty, canvas, announced, noted, relays, handler>>

\* canvas_update or set_active_blocks.
CanvasUpdate ==
    /\ handler = "idle" /\ canvas < MaxEdits
    /\ canvas' = canvas + 1
    /\ IF active
       THEN dirty' = TRUE /\ relays' = Woken(relays) /\ announced' = canvas + 1
       ELSE UNCHANGED <<dirty, relays, announced>>
    /\ UNCHANGED <<active, task, queue, noted, handler>>

\* A text message brings the canvas along, and does not set the event.
TextMessage ==
    /\ handler = "idle" /\ canvas < MaxEdits
    /\ canvas' = canvas + 1
    /\ UNCHANGED <<active, task, queue, dirty, announced, noted, relays, handler>>

\* The client is gone: clean-up of a relay that is alive.
Disconnect ==
    /\ handler = "idle"
    /\ IF TaskLive
       THEN SignalEnd /\ relays' = Cancel(Woken(relays), task) /\ handler' = "closing"
       ELSE handler' = "closed" /\ UNCHANGED <<active, dirty, queue, relays>>
    /\ UNCHANGED <<task, canvas, announced, noted>>

\* It has ended, or three seconds have passed and wait_for cancels it again.
Closed ==
    /\ handler = "closing"
    /\ relays' = IF Live(task) THEN Cancel(relays, task) ELSE relays
    /\ handler' = "closed"
    /\ UNCHANGED <<active, task, queue, dirty, canvas, announced, noted>>

-----------------------------------------------------------------------------
(* The relay's own coroutine *)

Goes(r, place) == relays' = [relays EXCEPT ![r].at = place]
Uncancelled(r, place) == relays[r].at = place /\ ~relays[r].cancelled

\* The context is rendered before the connection is made.
Begins(r) ==
    /\ Uncancelled(r, "created")
    /\ relays' = [relays EXCEPT ![r].at = "connecting", ![r].carries = canvas]
    /\ UNCHANGED <<active, noted>>

\* Connected and seeded: the three coroutines start.
Connects(r) ==
    /\ Uncancelled(r, "connecting")
    /\ noted' = relays[r].carries
    /\ relays' = [relays EXCEPT ![r].at = "running", ![r].knows = relays[r].carries,
                                ![r].fwd = "taking",
                                ![r].str = IF active THEN "receiving" ELSE "ended",
                                ![r].ref = Wait]
    /\ UNCHANGED active

\* The connection or the seed fails, or gather hands on a coroutine's exception.
Raises(r) ==
    /\ \/ Uncancelled(r, "connecting")
       \/ Uncancelled(r, "running") /\ "failed" \in {relays[r].fwd, relays[r].str}
    /\ relays' = [relays EXCEPT ![r].at = "failing", ![r].short = TRUE]
    /\ UNCHANGED <<active, noted>>

\* (mutant) The finally clause reports before it clears _voice_active.
FinallyLate(r) == UNCHANGED active

\* The finally clause clears _voice_active before it reports voice_stopped.
Finally(r) == active' = FALSE

\* gather returns, or the error has been reported.
Ends(r) ==
    /\ \/ /\ Uncancelled(r, "running")
          /\ \A c \in {relays[r].fwd, relays[r].str, relays[r].ref} : c = "ended"
       \/ Uncancelled(r, "failing")
    /\ Finally(r)
    /\ Goes(r, "ending")
    /\ UNCHANGED noted

Reports(r) ==
    /\ Uncancelled(r, "ending")
    /\ Goes(r, "done")
    /\ UNCHANGED <<active, noted>>

\* CancelledError goes to the finally clause, by way of gather, which cancels its
\* coroutines.
Halted(coroutine) == IF coroutine = "failed" THEN "failed" ELSE "ended"
Unwound(q) ==
    IF q.at = "running"
    THEN [q EXCEPT !.at = "ending", !.cancelled = FALSE,
                   !.fwd = Halted(@), !.str = Halted(@), !.ref = "ended"]
    ELSE [q EXCEPT !.at = "ending", !.cancelled = FALSE]

\* A task that has not begun never runs, its finally clause neither; a report that is
\* being sent is given up.
IsCancelled(r) ==
    /\ relays[r].cancelled
    /\ \/ /\ relays[r].at \in {"created", "ending"}
          /\ relays' = [relays EXCEPT ![r].at = "done", ![r].cancelled = FALSE]
          /\ UNCHANGED active
       \/ /\ relays[r].at \in {"connecting", "running", "failing"}
          /\ relays' = [relays EXCEPT ![r] = Unwound(@)]
          /\ Finally(r)
    /\ UNCHANGED noted

-----------------------------------------------------------------------------
(* Its three coroutines, which run on when the relay has failed *)

\* Gemini is connected as long as the relay is in its gather.
Connected(r) == relays[r].at = "running"

\* Of several coroutines that wait for the queue, the one that has waited longest.
Takes(r) ==
    /\ relays[r].fwd = "taking" /\ queue # << >>
    /\ \A s \in 1..(r - 1) : relays[s].fwd # "taking"
    /\ queue' = Tail(queue)
    /\ relays' = [relays EXCEPT ![r].fwd = IF Head(queue) = "end" THEN "ended" ELSE "sending"]

Forwards(r) ==
    /\ relays[r].fwd = "sending"
    /\ \/ Connected(r) /\ relays' = [relays EXCEPT ![r].fwd = "taking"]
       \/ relays' = [relays EXCEPT ![r].fwd = "failed", ![r].short = TRUE]
    /\ UNCHANGED queue

\* A response of Gemini: dropped when voice is no longer active; or the receive
\* raises, as it must without a connection.
Receives(r) ==
    /\ relays[r].str = "receiving"
    /\ \/ /\ Connected(r)
          /\ relays' = [relays EXCEPT ![r].str = IF active THEN "handling" ELSE "ended"]
       \/ relays' = [relays EXCEPT ![r].str = "failed", ![r].short = TRUE]
    /\ UNCHANGED queue

\* The response has been dealt with (port reads, audio, actions, transcript); or the
\* client could not be sent the audio.  Between turns voice may have been stopped.
Handles(r) ==
    /\ relays[r].str = "handling"
    /\ \/ relays' = [relays EXCEPT ![r].str = "receiving"]
       \/ relays' = [relays EXCEPT ![r].str = "ended"]
    /\ UNCHANGED queue

\* Awake: the event is cleared and a second of quiet awaited, unless voice is off.
Settles(r) ==
    /\ relays[r].ref \in {"woken", "stirred"}
    /\ relays' = [relays EXCEPT ![r].ref = IF active THEN "settling" ELSE "ended"]
    /\ dirty' = (dirty /\ ~active)
    /\ UNCHANGED noted

\* A quiet second: Gemini is told if the context is not the one last noted.
Tells(r) ==
    /\ relays[r].ref = "settling"
    /\ IF active /\ canvas # noted
       THEN /\ noted' = canvas
            /\ relays' = [relays EXCEPT ![r].ref = "telling", ![r].carries = canvas]
       ELSE relays' = [relays EXCEPT ![r].ref = Wait] /\ UNCHANGED noted
    /\ UNCHANGED dirty

\* A refresh that cannot be sent is logged and not repeated.
Told(r) ==
    /\ relays[r].ref = "telling"
    /\ \/ /\ Connected(r)
          /\ relays' = [relays EXCEPT ![r].ref = Wait, ![r].knows = relays[r].carries]
       \/ relays' = [relays EXCEPT ![r].ref = Wait, ![r].missed = TRUE]
    /\ UNCHANGED <<noted, dirty>>

-----------------------------------------------------------------------------
Relay(r) ==
    /\ Begins(r) \/ Connects(r) \/ Raises(r) \/ Ends(r) \/ Reports(r) \/ IsCancelled(r)
    /\ UNCHANGED <<task, queue, dirty, canvas, announced, handler>>

Coroutine(r) ==
    /\ \/ /\ Takes(r) \/ Forwards(r) \/ Receives(r) \/ Handles(r)
          /\ UNCHANGED <<dirty, noted>>
       \/ /\ Settles(r) \/ Tells(r) \/ Told(r)
          /\ UNCHANGED queue
    /\ UNCHANGED <<active, task, canvas, announced, handler>>

Next ==
    \/ Start \/ Started \/ Stop \/ StopTimesOut \/ Stopped
    \/ Microphone \/ CanvasUpdate \/ TextMessage
    \/ Disconnect \/ Closed
    \/ \E r \in DOMAIN relays : Relay(r) \/ Coroutine(r)

Spec == Init /\ [][Next]_vars

-----------------------------------------------------------------------------
(* Properties *)

\* Types; a stop waits for the relay that is registered, and no context is newer than
\* the canvas.
TypeOK ==
    /\ active \in BOOLEAN /\ dirty \in BOOLEAN
    /\ task \in 0..Len(relays)
    /\ queue \in Seq({"audio", "end"})
    /\ canvas \in 0..MaxEdits /\ announced \in 0..canvas /\ noted \in 0..canvas
    /\ relays \in Seq(Relays) /\ Len(relays) <= MaxRelays
    /\ handler \in {"idle", "starting", "stopping", "cutting", "closing", "closed"}
    /\ handler \in {"stopping", "cutting", "closing"} => task # 0

\* A relay that has not come to its finally clause.
Working(r) == relays[r].at \in {"created", "connecting", "running", "failing"}

\* Voice that is active, and so refuses to be started, has a relay that will end it,
\* and only one relay is ever at work, the one that a stop waits for: a start that
\* meets a failing, a stopped or a cancelled relay does not race it
\* (_start_voice, _stop_voice, the finally clause of the relay).
VoiceHasOneRelay ==
    /\ active /\ handler # "starting" => task # 0 /\ Working(task)
    /\ \A r \in DOMAIN relays : Working(r) => r = task

\* An end marker stays in the queue, where it would end a later relay, only after a
\* relay that was cut short; the early return of stop_voice and the forwarder of an
\* orderly relay see to it otherwise.
MarkersAreTaken ==
    handler = "idle" /\ ~active /\ "end" \in {queue[i] : i \in DOMAIN queue} =>
        \E r \in DOMAIN relays : relays[r].short

\* The refresher at rest means that Gemini knows the canvas as of the last change
\* announced, whatever arrived while it settled, compared or sent: unless a refresh
\* could not be sent, or the refresher of a failed relay is still about.
ContextIsFresh ==
    \A r \in DOMAIN relays :
        /\ relays[r].at = "running" /\ relays[r].ref = "waiting" /\ ~relays[r].missed
        /\ \A s \in DOMAIN relays : s # r => relays[s].ref \in {"off", "ended"}
        => relays[r].knows >= announced

=============================================================================
