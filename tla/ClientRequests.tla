--------------------------- MODULE ClientRequests ---------------------------
(***************************************************************************)
(* The requests a session makes of its client, session/router.py: one map  *)
(* of outstanding requests (_pending), the two clocks of _await_client,    *)
(* the canvas lock of act, and the receive loop that brings the client's   *)
(* answers and progress messages, and that itself waits for the client     *)
(* when a text turn reads a port.                                          *)
(*                                                                         *)
(* Time is counted in ticks.  The event loop keeps up: time passes only    *)
(* while every coroutine waits for something (Tick).                       *)
(***************************************************************************)
EXTENDS Naturals, Sequences, FiniteSets

CONSTANTS
    Agents,          \* coroutines of block agents
    Turn,            \* the text turn, which runs inside the receive loop
    Nobody,
    Idle, Hard,      \* idle_timeout and hard_timeout of each kind of request, in ticks
    MaxRequests,     \* bound: requests made in the session
    MaxTurns,        \* bound: text turns
    MaxInbox,        \* bound: frames from the client not yet received
    MaxCancels       \* bound: agents cancelled

\* "read" is a port read or a question to the user: both take no lock, and their two
\* clocks are equal.
Kinds == {"read", "edit", "run"}

ASSUME RequestConstants ==
    /\ Turn \notin Agents /\ Nobody \notin Agents \cup {Turn}
    /\ Idle \in [Kinds -> Nat \ {0}] /\ Hard \in [Kinds -> Nat \ {0}]
    /\ MaxRequests \in Nat /\ MaxTurns \in Nat /\ MaxInbox \in Nat /\ MaxCancels \in Nat

Callers == Agents \cup {Turn}
Requests == 1..MaxRequests

VARIABLES
    at,          \* where a caller stands
    doing,       \* the kind of request a caller makes; "read" while it is away
    lock,        \* the holder of _canvas_lock
    reqs,        \* the requests made so far; the position is the request_id
    pending,     \* the keys of _pending
    tracked,     \* the keys of _progress and _last_seen
    inbox,       \* frames from the client, in the order of the socket
    reader,      \* the receive loop: free, in a text turn, or over
    bounds       \* text turns and cancellations so far

vars == <<at, doing, lock, reqs, pending, tracked, inbox, reader, bounds>>

\* "abandoned": the caller was cancelled while it was sending; "stalled": the send
\* alone took the idle window; "error": a KeyError.
Results == {"none", "answer", "failed", "timeout", "stalled", "cancelled", "abandoned", "error"}

\* "fut" is the future; "beat" the progress event; "silent" and "age" the time since
\* _last_seen and since the wait began; "window" what is left of asyncio.wait's
\* timeout; "told" that the client has reported progress since the last tick.  Three
\* are history, which no step reads: "reply" is when the client answered ("early" while
\* the frame was still being sent, "timely" while the caller waited, "late" when a clock
\* had run out), "quiet" the ticks since it last reported in time, as the client counts
\* them, and "orphan" a request made after the session had ended.
NewRequest(c) ==
    [by |-> c, kind |-> doing[c], fut |-> "pending", result |-> "none", beat |-> FALSE,
     silent |-> 0, age |-> 0, window |-> 0, told |-> FALSE,
     reply |-> "none", quiet |-> 0, orphan |-> reader = "over"]

Open(c) == {r \in DOMAIN reqs : reqs[r].by = c /\ reqs[r].result = "none"}
Current(c) == CHOOSE r \in Open(c) : TRUE

Least(a, b) == IF a <= b THEN a ELSE b
IdleLeft(q) == Idle[q.kind] - q.silent
HardLeft(q) == Hard[q.kind] - q.age

-----------------------------------------------------------------------------
Init ==
    /\ at = [c \in Callers |-> "away"]
    /\ doing = [c \in Callers |-> "read"]
    /\ lock = Nobody
    /\ reqs = << >>
    /\ pending = {} /\ tracked = {}
    /\ inbox = << >>
    /\ reader = "free"
    /\ bounds = [turns |-> 0, cancels |-> 0]

Goes(c, place) == at' = [at EXCEPT ![c] = place] /\ UNCHANGED doing
Leaves(c) == at' = [at EXCEPT ![c] = "away"] /\ doing' = [doing EXCEPT ![c] = "read"]

-----------------------------------------------------------------------------
(* Making a request *)

\* read_port and ask: _dispatch_client registers the request and sends it.
Register(c) ==
    /\ Len(reqs) < MaxRequests
    /\ reqs' = Append(reqs, NewRequest(c))
    /\ pending' = pending \cup {Len(reqs) + 1}
    /\ tracked' = tracked \cup {Len(reqs) + 1}
    /\ Goes(c, "sending")

\* What an agent calls next, or what the text turn reads.
Calls(c) ==
    /\ at[c] = "away"
    /\ c = Turn => reader = "turn"
    /\ Len(reqs) < MaxRequests
    /\ \E k \in (IF c = Turn THEN {"read"} ELSE Kinds) :
          /\ doing' = [doing EXCEPT ![c] = k]
          /\ at' = [at EXCEPT ![c] = IF k \in {"edit", "run"} THEN "locking" ELSE "asking"]
    /\ UNCHANGED <<lock, reqs, pending, tracked, inbox, reader, bounds>>

Sends(c) ==
    /\ at[c] = "asking"
    /\ Register(c)
    /\ UNCHANGED <<lock, inbox, reader, bounds>>

\* (mutant) The action is sent without the lock.
LocksNothing(c) ==
    /\ at[c] = "locking"
    /\ Register(c)
    /\ UNCHANGED <<lock, inbox, reader, bounds>>

\* act: the lock is taken first.
Locks(c) ==
    /\ at[c] = "locking"
    /\ lock = Nobody
    /\ lock' = c
    /\ Register(c)
    /\ UNCHANGED <<inbox, reader, bounds>>

Forget(r) == pending' = pending \ {r} /\ tracked' = tracked \ {r}

\* The way out of _await_client, through its finally clause, and out of act's lock.
Returns(c, result) ==
    LET r == Current(c) IN
    /\ reqs' = [reqs EXCEPT ![r].result = result, ![r].beat = FALSE,
                            ![r].silent = 0, ![r].age = 0, ![r].window = 0,
                            ![r].told = FALSE, ![r].quiet = 0]
    /\ Forget(r)
    /\ lock' = IF lock = c THEN Nobody ELSE lock
    /\ Leaves(c)

\* One pass of the loop of _await_client, with the request as q: give up, or park
\* until the nearer clock.
Park(c, q) ==
    /\ reqs' = [reqs EXCEPT ![Current(c)] =
                   [q EXCEPT !.beat = FALSE, !.window = Least(IdleLeft(q), HardLeft(q))]]
    /\ Goes(c, "waiting")

\* act releases the lock over a run before it waits for it.
AfterSend(c) == IF lock = c /\ doing[c] = "run" THEN Nobody ELSE lock

\* setdefault: a session that closed during the send has cleared the maps.
Tracks(r) == tracked \cup {r}

\* The frame is sent: _await_client begins.  A send that took the whole idle window
\* ends the request before the future is looked at.
Waits(c) ==
    /\ at[c] = "sending"
    /\ LET r == Current(c)
           q == reqs[r]
       IN  IF r \notin Tracks(r) THEN Returns(c, "error")
           ELSE IF q.silent >= Idle[q.kind] THEN Returns(c, "stalled")
           ELSE /\ Park(c, q)
                /\ tracked' = Tracks(r)
                /\ lock' = AfterSend(c)
                /\ UNCHANGED pending
    /\ UNCHANGED <<inbox, reader, bounds>>

\* The future is done: its result is returned, even if the window has also lapsed.
Answered(c) ==
    /\ at[c] = "waiting"
    /\ reqs[Current(c)].fut # "pending"
    /\ Returns(c, reqs[Current(c)].fut)
    /\ UNCHANGED <<inbox, reader, bounds>>

GiveUp(q) == HardLeft(q) = 0 \/ IdleLeft(q) = 0

MayRecheck(q) == q.fut = "pending" /\ (q.beat \/ q.window = 0)

\* Progress arrived or the window lapsed: the clocks say which.
Rechecks(c) ==
    /\ at[c] = "waiting"
    /\ LET q == reqs[Current(c)]
       IN  /\ MayRecheck(q)
           /\ IF Current(c) \notin tracked THEN Returns(c, "error")
              ELSE IF GiveUp(q) THEN Returns(c, "timeout")
              ELSE Park(c, q) /\ UNCHANGED <<lock, pending, tracked>>
    /\ UNCHANGED <<inbox, reader, bounds>>

\* A stopped agent's task is cancelled at its await.  Only _await_client cleans up
\* after itself: a request that was being sent keeps its entries.
Cancelled(c) ==
    /\ c \in Agents
    /\ bounds.cancels < MaxCancels
    /\ bounds' = [bounds EXCEPT !.cancels = @ + 1]
    /\ \/ /\ at[c] \in {"asking", "locking"}
          /\ Leaves(c)
          /\ UNCHANGED <<lock, reqs, pending, tracked>>
       \/ /\ at[c] = "sending"
          /\ reqs' = [reqs EXCEPT ![Current(c)].result = "abandoned",
                                  ![Current(c)].silent = 0, ![Current(c)].told = FALSE,
                                  ![Current(c)].quiet = 0]
          /\ lock' = IF lock = c THEN Nobody ELSE lock
          /\ Leaves(c)
          /\ UNCHANGED <<pending, tracked>>
       \/ at[c] = "waiting" /\ Returns(c, "cancelled")
    /\ UNCHANGED <<inbox, reader>>

-----------------------------------------------------------------------------
(* The client *)

ClientSends(kind, r) ==
    /\ reader # "over"
    /\ Len(inbox) < MaxInbox
    /\ inbox' = Append(inbox, [kind |-> kind, id |-> r])
    /\ UNCHANGED <<at, doing, lock, pending, tracked, reader>>

InTime(q) == q.result = "none" /\ IdleLeft(q) > 0 /\ HardLeft(q) > 0

Reply(q) ==
    IF ~InTime(q) THEN "late" ELSE IF at[q.by] = "sending" THEN "early" ELSE "timely"

\* The client answers a request, once; it may be long after the server gave up.
ClientAnswers(r) ==
    /\ reqs[r].reply = "none"
    /\ reqs' = [reqs EXCEPT ![r].reply = Reply(reqs[r])]
    /\ ClientSends("answer", r)
    /\ UNCHANGED bounds

\* agent_action_progress, or agent_action_result with the status "started".
ClientReports(r) ==
    /\ reqs[r].result = "none" /\ ~reqs[r].told
    /\ reqs' = [reqs EXCEPT ![r].told = TRUE,
                            ![r].quiet = IF InTime(reqs[r]) THEN 0 ELSE @]
    /\ ClientSends("progress", r)
    /\ UNCHANGED bounds

UserWrites ==
    /\ bounds.turns < MaxTurns
    /\ bounds' = [bounds EXCEPT !.turns = @ + 1]
    /\ ClientSends("text", 0)
    /\ UNCHANGED reqs

-----------------------------------------------------------------------------
(* The receive loop *)

\* (mutant) The future exists only once the caller waits for it.
ResolveWaiting(r) ==
    reqs' = IF r \in pending /\ reqs[r].fut = "pending" /\ at[reqs[r].by] = "waiting"
            THEN [reqs EXCEPT ![r].fut = "answer"] ELSE reqs

\* _resolve_pending.
Resolve(r) ==
    reqs' = IF r \in pending /\ reqs[r].fut = "pending"
            THEN [reqs EXCEPT ![r].fut = "answer"] ELSE reqs

\* (mutant) Progress extends both clocks.
NoteFresh(r) ==
    reqs' = IF r \in tracked THEN [reqs EXCEPT ![r].silent = 0, ![r].age = 0, ![r].beat = TRUE]
            ELSE reqs

\* (mutant) The event is set, and _last_seen is not.
NoteEvent(r) ==
    reqs' = IF r \in tracked THEN [reqs EXCEPT ![r].beat = TRUE] ELSE reqs

\* _note_progress.
Note(r) ==
    reqs' = IF r \in tracked THEN [reqs EXCEPT ![r].silent = 0, ![r].beat = TRUE]
            ELSE reqs

\* One frame is dispatched; the next is received when its handler has returned.
Receives ==
    /\ reader = "free"
    /\ inbox # << >>
    /\ inbox' = Tail(inbox)
    /\ LET f == Head(inbox) IN
         \/ f.kind = "answer" /\ Resolve(f.id) /\ UNCHANGED reader
         \/ f.kind = "progress" /\ Note(f.id) /\ UNCHANGED reader
         \/ f.kind = "text" /\ reader' = "turn" /\ UNCHANGED reqs
    /\ UNCHANGED <<at, doing, lock, pending, tracked, bounds>>

\* _run_text_turn returns, between two reads or without any.
TurnEnds ==
    /\ reader = "turn"
    /\ at[Turn] = "away"
    /\ reader' = "free"
    /\ UNCHANGED <<at, doing, lock, reqs, pending, tracked, inbox, bounds>>

\* (mutant) The futures are cancelled instead of resolved.
CancelAll == [r \in DOMAIN reqs |->
                IF r \in pending /\ reqs[r].fut = "pending"
                THEN [reqs[r] EXCEPT !.fut = "cancelled"] ELSE reqs[r]]

\* (mutant) The maps are cleared, and the futures forgotten with them.
FailNobody == reqs

FailAll == [r \in DOMAIN reqs |->
              IF r \in pending /\ reqs[r].fut = "pending"
              THEN [reqs[r] EXCEPT !.fut = "failed"] ELSE reqs[r]]

\* The socket is closed: _fail_pending.  Agents may still make requests.
Disconnects ==
    /\ reader = "free"
    /\ reader' = "over"
    /\ inbox' = << >>
    /\ reqs' = FailAll
    /\ pending' = {} /\ tracked' = {}
    /\ UNCHANGED <<at, doing, lock, bounds>>

-----------------------------------------------------------------------------
Busy ==
    \/ reader = "free" /\ inbox # << >>
    \/ \E c \in Callers :
          \/ at[c] = "asking" /\ Len(reqs) < MaxRequests
          \/ at[c] = "locking" /\ lock = Nobody /\ Len(reqs) < MaxRequests
          \/ at[c] = "waiting" /\ (reqs[Current(c)].fut # "pending"
                                      \/ MayRecheck(reqs[Current(c)]))

Later(q, waiting) ==
    [q EXCEPT !.told = FALSE,
              !.silent = Least(@ + 1, Idle[q.kind]),
              !.quiet = Least(@ + 1, Idle[q.kind]),
              !.age = IF waiting THEN Least(@ + 1, Hard[q.kind]) ELSE @,
              !.window = IF @ = 0 THEN 0 ELSE @ - 1]

\* Time passes for the requests that are being sent or waited for.
Tick ==
    /\ ~Busy
    /\ \E c \in Callers : at[c] \in {"sending", "waiting"}
    /\ reqs' = [r \in DOMAIN reqs |->
                  IF reqs[r].result = "none"
                  THEN Later(reqs[r], at[reqs[r].by] = "waiting") ELSE reqs[r]]
    /\ UNCHANGED <<at, doing, lock, pending, tracked, inbox, reader, bounds>>

CallerStep(c) == Sends(c) \/ Locks(c) \/ Waits(c) \/ Answered(c) \/ Rechecks(c)

Next ==
    \/ \E c \in Callers : Calls(c) \/ CallerStep(c) \/ Cancelled(c)
    \/ \E r \in DOMAIN reqs : ClientAnswers(r) \/ ClientReports(r)
    \/ UserWrites \/ Receives \/ TurnEnds \/ Disconnects
    \/ Tick

Spec == Init /\ [][Next]_vars

\* The event loop runs every coroutine that can go on, and time passes.
FairSpec ==
    /\ Spec
    /\ \A c \in Callers : WF_vars(CallerStep(c))
    /\ WF_vars(Receives) /\ WF_vars(Tick)

-----------------------------------------------------------------------------
(* Properties *)

TypeOK ==
    /\ at \in [Callers -> {"away", "asking", "locking", "sending", "waiting"}]
    /\ doing \in [Callers -> Kinds]
    /\ lock \in Agents \cup {Nobody}
    /\ Len(reqs) <= MaxRequests
    /\ \A r \in DOMAIN reqs :
          /\ reqs[r].by \in Callers /\ reqs[r].kind \in Kinds
          /\ reqs[r].fut \in {"pending", "answer", "failed"}
          /\ reqs[r].result \in Results
          /\ reqs[r].silent \in 0..Idle[reqs[r].kind]
          /\ reqs[r].age \in 0..Hard[reqs[r].kind]
          /\ reqs[r].reply \in {"none", "early", "timely", "late"}
          /\ reqs[r].quiet \in 0..Idle[reqs[r].kind]
    /\ pending \subseteq Requests /\ tracked \subseteq Requests
    /\ reader \in {"free", "turn", "over"}

\* An entry of the maps belongs to a caller that is sending or waiting, except for
\* those of a caller that was cancelled while it was sending: nothing else leaks.
EntriesHaveCaller ==
    \A r \in pending \cup tracked :
        \/ r \in Open(reqs[r].by) /\ at[reqs[r].by] \in {"sending", "waiting"}
        \/ reqs[r].result = "abandoned"

\* No pass of _await_client finds its _last_seen entry gone, although the session
\* may clear the maps at any await.
NoKeyError == \A r \in DOMAIN reqs : reqs[r].result # "error"

\* An answer that was received while the caller waited is what the caller gets.
AnswerIsKept ==
    \A r \in DOMAIN reqs : reqs[r].result = "timeout" => reqs[r].fut # "answer"

Unanswered(r) == reqs[r].result = "none" /\ reqs[r].fut = "pending"

\* A caller whose future is open has it in the maps, where an answer, progress and the
\* clean-up find it; and the clean-up leaves nobody "parked on futures that can never be
\* resolved": what is still waited for after it was asked for after it.
NobodyIsParked ==
    \A r \in DOMAIN reqs :
        Unanswered(r) => r \in pending \cap tracked /\ (reader = "over" => reqs[r].orphan)

\* All four: the entries of a request are there while its caller needs them and go
\* when it does, the answer that fills one is not lost, and none is forgotten at the end.
EntriesAreSound == EntriesHaveCaller /\ NoKeyError /\ AnswerIsKept /\ NobodyIsParked

\* Two agents never have canvas edits outstanding at once, and no run is sent while
\* an edit is outstanding.
EditsExclusive ==
    \A c, d \in Agents :
        /\ c # d
        /\ doing[c] = "edit" /\ at[c] \in {"sending", "waiting"}
        /\ doing[d] \in {"edit", "run"}
        => at[d] # "sending" /\ (doing[d] = "edit" => at[d] # "waiting")

\* The lock is never held over a run: other agents edit while it goes on.
RunsFreeTheCanvas ==
    lock # Nobody => doing[lock] = "edit" \/ at[lock] = "sending"

\* Both: the lock keeps edits apart, and keeps nothing else waiting.
LockGuardsEdits == EditsExclusive /\ RunsFreeTheCanvas

\* Every wait for the client ends, however much progress it reports.
WaitEnds == \A c \in Callers : at[c] = "waiting" ~> at[c] # "waiting"

\* An agent that waits, and whose client answers while both clocks run, gets the answer,
\* unless the session ends or the agent is cancelled: no clock that lapses, no progress
\* and no later frame comes between.  A client may also answer before the agent waits,
\* while the frame is still being sent; then the wait does not drop the answer, but a
\* send that takes the whole idle window does ("stalled").  All as long as no text turn
\* occupies the receive loop.
TimelyAnswerIsUsed ==
    \A r \in DOMAIN reqs : reqs[r].by \in Agents =>
        /\ reqs[r].reply = "timely" => reqs[r].result \in {"none", "answer", "failed", "cancelled"}
        /\ reqs[r].reply = "early" => reqs[r].result # "timeout"

\* A client that reports progress in every idle window is waited for up to the hard
\* limit, however its reports, their receipt and the lapse of a window interleave, and
\* also while its request is still being sent ("idle_timeout ... is re-armed by every
\* progress message").  As long as no text turn occupies the receive loop.
ReportsAreHeeded ==
    [][reader # "over" =>
          \A r \in DOMAIN reqs :
              reqs[r].result = "none" /\ reqs'[r].result \in {"timeout", "stalled"} =>
                  reqs[r].quiet = Idle[reqs[r].kind] \/ HardLeft(reqs[r]) = 0]_vars

-----------------------------------------------------------------------------
(* What comments of the code say, and the code does not do *)

\* "the model may call read_port_value (resolved via a round-trip to the client)":
\* a text turn's read that the client answers in time is answered.
TurnReadIsAnswered ==
    \A r \in DOMAIN reqs :
        reqs[r].by = Turn /\ reqs[r].reply = "timely" => reqs[r].result # "timeout"
=============================================================================
