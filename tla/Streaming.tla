------------------------------ MODULE Streaming ------------------------------
(***************************************************************************)
(* The events of executions on their way to the clients that watch them.   *)
(* Workers publish to channels of Redis, which keeps nothing; one listener *)
(* per server process is subscribed to all of them and hands every event   *)
(* to the sockets registered for its execution, one socket after another.  *)
(* The listener reconnects after a failure; sockets come and go meanwhile. *)
(***************************************************************************)
EXTENDS Naturals, Sequences, SequencesExt

CONSTANTS
    Executions,
    Sockets,    \* connections of clients, each for one execution
    Watches,    \* the execution a socket asks for
    NoEvent,
    MaxEvents,  \* bound on the events published
    MaxDrops    \* bound on the failures of the subscription

ASSUME StreamingAssumption ==
    /\ Watches \in [Sockets -> Executions]
    /\ MaxEvents \in Nat /\ MaxDrops \in Nat /\ NoEvent \notin Nat

VARIABLES
    published,  \* the execution of each event, in the order of publishing
    buffer,     \* the events Redis has pushed and the listener has not read
    listener,   \* "listening", or in its pause before it subscribes again
    subscribed, \* Redis knows of the subscription
    fanout,     \* the event being handed out, the sockets still to come and
                \* those that raised
    registered, \* _connections
    socket,     \* how far a socket is
    received,   \* what a client has been sent
    unheard,    \* history: events that were never read by the listener
    drops

streamVars == <<published, buffer, listener, subscribed, fanout, registered, socket,
                received, unheard, drops>>

Events == 1..MaxEvents

AtEase == [event |-> NoEvent, todo |-> {}, dead |-> {}]

StreamingTypeOK ==
    /\ published \in Seq(Executions) /\ Len(published) <= MaxEvents
    /\ buffer \in Seq(Events)
    /\ listener \in {"listening", "pausing"}
    /\ subscribed \in BOOLEAN
    /\ fanout \in [event : Events \cup {NoEvent}, todo : SUBSET Sockets, dead : SUBSET Sockets]
    /\ registered \in [Executions -> SUBSET Sockets]
    /\ socket \in [Sockets -> {"none", "accepted", "open", "gone", "closed"}]
    /\ received \in [Sockets -> Seq(Events)]
    /\ unheard \subseteq Events
    /\ drops \in 0..MaxDrops

StreamingInit ==
    /\ published = <<>> /\ buffer = <<>>
    /\ listener = "listening" /\ subscribed = TRUE
    /\ fanout = AtEase
    /\ registered = [x \in Executions |-> {}]
    /\ socket = [s \in Sockets |-> "none"]
    /\ received = [s \in Sockets |-> <<>>]
    /\ unheard = {} /\ drops = 0

listening == <<buffer, listener, subscribed, fanout, unheard, drops>>

(***************************************************************************)
(* Sockets: execution_stream and the connection manager.                   *)
(***************************************************************************)
Accepts(s) ==
    /\ socket[s] = "none"
    /\ socket' = [socket EXCEPT ![s] = "accepted"]
    /\ UNCHANGED <<published, registered, received, listening>>

Registers(s) ==
    /\ socket[s] = "accepted"
    /\ socket' = [socket EXCEPT ![s] = "open"]
    /\ registered' = [registered EXCEPT ![Watches[s]] = @ \cup {s}]
    /\ UNCHANGED <<published, received, listening>>

(* The client goes, or its network does. *)
ClientLeaves(s) ==
    /\ socket[s] = "open"
    /\ socket' = [socket EXCEPT ![s] = "gone"]
    /\ UNCHANGED <<published, registered, received, listening>>

(* (mutant) An execution that lost a socket is forgotten. *)
WithoutAny(entries, gone) ==
    [x \in Executions |-> IF \E s \in gone : Watches[s] = x THEN {} ELSE entries[x]]

(* disconnect: the entry of an execution goes with its last socket, and a  *)
(* socket that has gone before is no error. *)
Without(entries, gone) == [x \in Executions |-> entries[x] \ gone]

(* The endpoint is told of the disconnect and runs its finally clause. *)
EndpointLeaves(s) ==
    /\ socket[s] = "gone"
    /\ socket' = [socket EXCEPT ![s] = "closed"]
    /\ registered' = Without(registered, {s})
    /\ UNCHANGED <<published, received, listening>>

(***************************************************************************)
(* Redis and the listener.                                                 *)
(***************************************************************************)
(* emit: an event without a subscriber is lost. *)
Emits(x) ==
    LET n == Len(published) + 1 IN
    /\ n <= MaxEvents
    /\ published' = Append(published, x)
    /\ IF subscribed THEN buffer' = Append(buffer, n) /\ UNCHANGED unheard
       ELSE unheard' = unheard \cup {n} /\ UNCHANGED buffer
    /\ UNCHANGED <<listener, subscribed, fanout, registered, socket, received, drops>>

(* The sockets are those of this moment, whoever joins meanwhile. *)
Reads ==
    /\ listener = "listening" /\ fanout = AtEase
    /\ buffer # <<>>
    /\ fanout' = [event |-> Head(buffer), todo |-> registered[published[Head(buffer)]],
                  dead |-> {}]
    /\ buffer' = Tail(buffer)
    /\ UNCHANGED <<published, listener, subscribed, registered, socket, received, unheard, drops>>

(* One send at a time, in no particular order; one to a socket that has    *)
(* gone raises, or is dropped by the server without a word. *)
Sends(s) ==
    /\ s \in fanout.todo
    /\ \/ /\ socket[s] = "open"
          /\ received' = [received EXCEPT ![s] = Append(@, fanout.event)]
          /\ fanout' = [fanout EXCEPT !.todo = @ \ {s}]
       \/ /\ socket[s] # "open"
          /\ \E raised \in BOOLEAN :
                fanout' = [fanout EXCEPT !.todo = @ \ {s},
                                         !.dead = IF raised THEN @ \cup {s} ELSE @]
          /\ UNCHANGED received
    /\ UNCHANGED <<published, buffer, listener, subscribed, registered, socket, unheard, drops>>

(* The sockets that raised are disconnected. *)
FanoutEnds ==
    /\ fanout.event # NoEvent /\ fanout.todo = {}
    /\ registered' = Without(registered, fanout.dead)
    /\ fanout' = AtEase
    /\ UNCHANGED <<published, buffer, listener, subscribed, socket, received, unheard, drops>>

(* External: Redis fails, or drops a listener that reads too slowly.  What *)
(* has arrived is still read. *)
SubscriptionDrops ==
    /\ subscribed /\ drops < MaxDrops
    /\ subscribed' = FALSE
    /\ drops' = drops + 1
    /\ \E n \in 0..Len(buffer) :
          /\ buffer' = SubSeq(buffer, 1, n)
          /\ unheard' = unheard \cup {buffer[i] : i \in (n + 1)..Len(buffer)}
    /\ UNCHANGED <<published, listener, fanout, registered, socket, received>>

(* listen() raises; two seconds later the listener subscribes again. *)
ListenerFails ==
    /\ listener = "listening" /\ fanout = AtEase
    /\ ~subscribed /\ buffer = <<>>
    /\ listener' = "pausing"
    /\ UNCHANGED <<published, buffer, subscribed, fanout, registered, socket, received,
                   unheard, drops>>

Subscribes ==
    /\ listener = "pausing"
    /\ listener' = "listening" /\ subscribed' = TRUE
    /\ UNCHANGED <<published, buffer, fanout, registered, socket, received, unheard, drops>>

StreamingNext ==
    \/ \E s \in Sockets : \/ Accepts(s) \/ Registers(s) \/ ClientLeaves(s)
                          \/ EndpointLeaves(s) \/ Sends(s)
    \/ \E x \in Executions : Emits(x)
    \/ Reads \/ FanoutEnds \/ SubscriptionDrops \/ ListenerFails \/ Subscribes

StreamingSpec == StreamingInit /\ [][StreamingNext]_streamVars

(***************************************************************************)
(* Properties.                                                             *)
(***************************************************************************)
(* The events of the execution a socket watches, from its first on. *)
FromFirst(s) ==
    {n \in DOMAIN published : published[n] = Watches[s] /\ n >= received[s][1]}

(* The events on their way: in the buffer, or being handed to the socket. *)
Coming(s) == Range(buffer) \cup (IF s \in fanout.todo THEN {fanout.event} ELSE {})

(* broadcaster.py: a client is sent the events of its execution, each once *)
(* and in the order they were published, and, while it stays, none is left *)
(* out between two others, but for what was published while the listener   *)
(* had no subscription or was lost with it; and whatever other sockets of  *)
(* its execution do, a client that stays stays registered. *)
StreamIsFaithful ==
    \A s \in Sockets :
        /\ \A i \in 1..(Len(received[s]) - 1) : received[s][i] < received[s][i + 1]
        /\ Range(received[s]) \subseteq {n \in DOMAIN published : published[n] = Watches[s]}
        /\ socket[s] = "open" =>
              /\ s \in registered[Watches[s]]
              /\ received[s] # <<>> =>
                    FromFirst(s) \subseteq Range(received[s]) \cup unheard \cup Coming(s)
        /\ socket[s] = "closed" => s \notin registered[Watches[s]]
=============================================================================
