------------------------ MODULE ClientRequestsProofs ------------------------
(***************************************************************************)
(* Theorems about ClientRequests, for any agents, timeouts and bounds.     *)
(***************************************************************************)
EXTENDS ClientRequests, SequenceTheorems, TLAPS

Replies == {"none", "early", "timely", "late"}

Request == [by : Callers, kind : Kinds, fut : {"pending", "answer", "failed"},
            result : Results, beat : BOOLEAN, silent : Nat, age : Nat, window : Nat,
            told : BOOLEAN, reply : Replies, quiet : Nat, orphan : BOOLEAN]

Frame == [kind : {"answer", "progress", "text"}, id : Nat]

Typed ==
    /\ TypeOK
    /\ reqs \in Seq(Request)
    /\ inbox \in Seq(Frame)
    /\ pending \subseteq DOMAIN reqs /\ tracked \subseteq DOMAIN reqs
    /\ bounds \in [turns : 0..MaxTurns, cancels : Nat]

(* A request whose clocks do not run beyond their windows. *)
Timed(q) ==
    /\ q \in Request
    /\ q.silent \in 0..Idle[q.kind] /\ q.age \in 0..Hard[q.kind]
    /\ q.quiet \in 0..Idle[q.kind]

Away == {"sending", "waiting"}

(* A caller that sends or waits has one open request, of the kind it makes; *)
(* nobody else has any; and nothing is sent without the lock that needs it. *)
CallersSound ==
    /\ \A c \in Callers : at[c] \in Away =>
          \E r \in DOMAIN reqs : reqs[r].by = c /\ reqs[r].result = "none"
    /\ \A r \in DOMAIN reqs : reqs[r].result = "none" =>
          at[reqs[r].by] \in Away /\ reqs[r].kind = doing[reqs[r].by]
    /\ \A r, q \in DOMAIN reqs :
          (reqs[r].result = "none" /\ reqs[q].result = "none" /\ reqs[r].by = reqs[q].by)
              => r = q

NeedsLock(c) ==
    \/ doing[c] \in {"edit", "run"} /\ at[c] = "sending"
    \/ doing[c] = "edit" /\ at[c] = "waiting"

LockSound ==
    /\ \A c \in Callers : lock = c <=> NeedsLock(c)
    /\ \A c \in Callers : at[c] = "locking" => doing[c] \in {"edit", "run"}
    /\ \A c \in Callers : at[c] = "asking" => doing[c] = "read"
    /\ doing[Turn] = "read"

(* An unanswered request is in both maps: the session fails what it clears. *)
UnansweredAreKept ==
    \A r \in DOMAIN reqs : Unanswered(r) => r \in pending \cap tracked

IInv == Typed /\ CallersSound /\ LockSound /\ UnansweredAreKept /\ EntriesAreSound

-----------------------------------------------------------------------------
(* The requests of the session *)

LEMMA Update ==
    ASSUME NEW S, NEW s \in Seq(S), NEW i \in DOMAIN s, NEW e \in S
    PROVE  [s EXCEPT ![i] = e] \in Seq(S) /\ Len([s EXCEPT ![i] = e]) = Len(s)
  BY ExceptSeq

LEMMA FunctionIsSeq ==
    ASSUME NEW S, NEW n \in Nat, NEW s \in [1..n -> S]
    PROVE  s \in Seq(S) /\ Len(s) = n
  OBVIOUS

LEMMA Appended ==
    ASSUME NEW S, NEW s \in Seq(S), NEW e \in S
    PROVE  /\ Append(s, e) \in Seq(S)
           /\ Len(Append(s, e)) = Len(s) + 1
           /\ Append(s, e)[Len(s) + 1] = e
           /\ \A i \in DOMAIN s : Append(s, e)[i] = s[i]
           /\ DOMAIN Append(s, e) = DOMAIN s \cup {Len(s) + 1}
           /\ DOMAIN s = 1..Len(s) /\ Len(s) \in Nat
  BY AppendProperties, LenProperties

(* What the type of the state says of the requests and of their clocks. *)
LEMMA Members ==
    ASSUME Typed
    PROVE  /\ Len(reqs) \in Nat /\ DOMAIN reqs = 1..Len(reqs)
           /\ DOMAIN reqs \subseteq Requests
           /\ \A r \in DOMAIN reqs : Timed(reqs[r])
           /\ \A k \in Kinds : Idle[k] \in Nat \ {0} /\ Hard[k] \in Nat \ {0}
           /\ MaxRequests \in Nat
  <1>1. Len(reqs) \in Nat /\ DOMAIN reqs = 1..Len(reqs)
        /\ \A r \in DOMAIN reqs : reqs[r] \in Request
    BY LenProperties, ElementOfSeq DEF Typed
  <1>2. \A r \in DOMAIN reqs : Timed(reqs[r])
    BY <1>1 DEF Typed, TypeOK, Timed
  <1>3. QED
    BY <1>1, <1>2, RequestConstants DEF Typed, TypeOK, Requests

(* The request a caller is away for is its only open one. *)
LEMMA CurrentIs ==
    ASSUME IInv, NEW c \in Callers, at[c] \in Away
    PROVE  /\ Current(c) \in DOMAIN reqs
           /\ reqs[Current(c)].by = c /\ reqs[Current(c)].result = "none"
           /\ reqs[Current(c)].kind = doing[c]
           /\ \A r \in DOMAIN reqs : reqs[r].by = c /\ reqs[r].result = "none" => r = Current(c)
  <1>1. Open(c) # {}
    BY DEF IInv, CallersSound, Open
  <1>2. Current(c) \in Open(c)
    BY <1>1 DEF Current
  <1>3. QED
    BY <1>2 DEF IInv, CallersSound, Open

(* The lock is the reason why edits exclude each other. *)
LEMMA LockExcludes ==
    ASSUME Typed, LockSound
    PROVE  LockGuardsEdits
  <1>1. EditsExclusive
    BY DEF EditsExclusive, LockSound, NeedsLock, Callers
  <1>2. RunsFreeTheCanvas
    BY DEF RunsFreeTheCanvas, LockSound, NeedsLock, Typed, TypeOK, Callers
  <1>3. QED
    BY <1>1, <1>2 DEF LockGuardsEdits

-----------------------------------------------------------------------------
(* What a step may do to the requests *)

(* No request is made or ended: rs are the same ones, perhaps answered. *)
Kept(rs) ==
    /\ rs \in Seq(Request) /\ Len(rs) = Len(reqs) /\ DOMAIN rs = DOMAIN reqs
    /\ \A r \in DOMAIN reqs :
          /\ Timed(rs[r])
          /\ rs[r].by = reqs[r].by /\ rs[r].kind = reqs[r].kind
          /\ rs[r].result = reqs[r].result /\ rs[r].orphan = reqs[r].orphan
          /\ rs[r].fut = "pending" => reqs[r].fut = "pending"
          /\ rs[r].fut = "answer" => reqs[r].fut = "answer" \/ r \in pending

LEMMA SameIsKept ==
    ASSUME Typed
    PROVE  Kept(reqs)
  BY Members DEF Kept, Typed

LEMMA Amends ==
    ASSUME Typed, NEW r \in DOMAIN reqs, NEW e, Timed(e),
           e.by = reqs[r].by, e.kind = reqs[r].kind, e.result = reqs[r].result,
           e.orphan = reqs[r].orphan,
           e.fut = "pending" => reqs[r].fut = "pending",
           e.fut = "answer" => reqs[r].fut = "answer" \/ r \in pending
    PROVE  Kept([reqs EXCEPT ![r] = e])
  <1> DEFINE rs == [reqs EXCEPT ![r] = e]
  <1>1. rs \in Seq(Request) /\ Len(rs) = Len(reqs) /\ DOMAIN rs = DOMAIN reqs
    BY Update DEF Typed, Timed
  <1>2. \A q \in DOMAIN reqs : rs[q] = IF q = r THEN e ELSE reqs[q]
    OBVIOUS
  <1> HIDE DEF rs
  <1>3. Kept(rs)
    BY <1>1, <1>2, Members DEF Kept
  <1>4. QED
    BY <1>3 DEF rs

(* The callers that are away stay away, with the requests they have. *)
LEMMA Keeps ==
    ASSUME IInv, Kept(reqs'), LockSound',
           at' \in [Callers -> {"away", "asking", "locking", "sending", "waiting"}],
           doing' \in [Callers -> Kinds], lock' \in Agents \cup {Nobody},
           reader' \in {"free", "turn", "over"}, inbox' \in Seq(Frame),
           bounds' \in [turns : 0..MaxTurns, cancels : Nat],
           \A c \in Callers : at'[c] \in Away <=> at[c] \in Away,
           \A c \in Callers : at[c] \in Away => doing'[c] = doing[c],
           pending' \subseteq DOMAIN reqs, tracked' \subseteq DOMAIN reqs,
           \A r \in pending' \cup tracked' :
               r \in pending \cup tracked \/ reqs[r].result = "none",
           \A r \in DOMAIN reqs :
               reqs[r].result = "none" /\ reqs'[r].fut = "pending" =>
                   /\ r \in pending' \cap tracked'
                   /\ reader' = "over" => reader = "over"
    PROVE  IInv'
  <1>1. Typed /\ CallersSound /\ UnansweredAreKept /\ EntriesAreSound
    BY DEF IInv
  <1>2. \A r \in DOMAIN reqs : Timed(reqs[r]) /\ Timed(reqs'[r])
    BY <1>1, Members DEF Kept
  <1>3. Typed'
    <2>1. Len(reqs') <= MaxRequests /\ pending' \subseteq Requests /\ tracked' \subseteq Requests
      BY <1>1, Members DEF Kept, Typed, TypeOK
    <2>2. TypeOK'
      BY <1>2, <2>1 DEF TypeOK, Kept, Timed, Request, Replies
    <2>3. QED
      BY <2>2 DEF Typed, Kept
  <1>4. CallersSound'
    <2>1. \A c \in Callers : at'[c] \in Away =>
              \E r \in DOMAIN reqs' : reqs'[r].by = c /\ reqs'[r].result = "none"
      BY <1>1 DEF CallersSound, Kept
    <2>2. \A r \in DOMAIN reqs' : reqs'[r].result = "none" =>
              at'[reqs'[r].by] \in Away /\ reqs'[r].kind = doing'[reqs'[r].by]
      <3> SUFFICES ASSUME NEW r \in DOMAIN reqs, reqs[r].result = "none"
                   PROVE  at'[reqs[r].by] \in Away /\ reqs[r].kind = doing'[reqs[r].by]
        BY DEF Kept
      <3>1. reqs[r].by \in Callers
        BY <1>2 DEF Timed, Request
      <3>2. at[reqs[r].by] \in Away /\ reqs[r].kind = doing[reqs[r].by]
        BY <1>1 DEF CallersSound
      <3>3. QED
        BY <3>1, <3>2
    <2>3. \A r, q \in DOMAIN reqs' :
              (reqs'[r].result = "none" /\ reqs'[q].result = "none"
                  /\ reqs'[r].by = reqs'[q].by) => r = q
      BY <1>1 DEF CallersSound, Kept
    <2>4. QED
      BY <2>1, <2>2, <2>3 DEF CallersSound, Away
  <1>5. UnansweredAreKept' /\ NobodyIsParked'
    BY <1>1 DEF UnansweredAreKept, NobodyIsParked, Unanswered, EntriesAreSound, Kept
  <1>6. EntriesHaveCaller'
    <2> SUFFICES ASSUME NEW r \in pending' \cup tracked'
                 PROVE  \/ r \in Open(reqs[r].by)' /\ at'[reqs'[r].by] \in {"sending", "waiting"}
                        \/ reqs'[r].result = "abandoned"
      BY DEF EntriesHaveCaller, Kept, Open
    <2>1. r \in DOMAIN reqs
      OBVIOUS
    <2>2. reqs[r].result = "none" \/ reqs[r].result = "abandoned"
      BY <1>1 DEF EntriesAreSound, EntriesHaveCaller, Open
    <2>3. QED
      BY <1>4, <2>1, <2>2 DEF Kept, CallersSound, Open, Away
  <1>7. NoKeyError' /\ AnswerIsKept'
    <2>1. NoKeyError'
      BY <1>1 DEF EntriesAreSound, NoKeyError, Kept
    <2>2. AnswerIsKept'
      <3> SUFFICES ASSUME NEW r \in DOMAIN reqs, reqs[r].result = "timeout"
                   PROVE  reqs'[r].fut # "answer"
        BY DEF AnswerIsKept, Kept
      <3>1. reqs[r].fut # "answer" /\ r \notin pending
        BY <1>1 DEF EntriesAreSound, AnswerIsKept, EntriesHaveCaller, Open
      <3>2. QED
        BY <3>1 DEF Kept
    <2>3. QED
      BY <2>1, <2>2
  <1>8. QED
    BY <1>3, <1>4, <1>5, <1>6, <1>7 DEF IInv, EntriesAreSound

(* A caller makes a request: it is sent, in both maps, and the lock held. *)
LEMMA Registers ==
    ASSUME IInv, NEW c \in Callers, Register(c), at[c] \in {"asking", "locking"}, LockSound',
           lock' \in Agents \cup {Nobody}, UNCHANGED <<inbox, reader, bounds>>
    PROVE  IInv'
  <1> DEFINE n == Len(reqs) + 1
  <1>1. Typed /\ CallersSound /\ UnansweredAreKept /\ EntriesAreSound
    BY DEF IInv
  <1>2. /\ Len(reqs) \in Nat /\ DOMAIN reqs = 1..Len(reqs)
        /\ \A r \in DOMAIN reqs : Timed(reqs[r]) /\ reqs[r].by \in Callers
        /\ n \in Requests /\ n \notin DOMAIN reqs /\ DOMAIN reqs \subseteq Requests
    BY <1>1, Members DEF Timed, Request, Requests, Register
  <1>3. /\ NewRequest(c) \in Request /\ Timed(NewRequest(c))
        /\ NewRequest(c).by = c /\ NewRequest(c).kind = doing[c]
        /\ NewRequest(c).fut = "pending" /\ NewRequest(c).result = "none"
        /\ reader = "over" => NewRequest(c).orphan
    <2>1. doing[c] \in Kinds /\ \A k \in Kinds : Idle[k] \in Nat /\ Hard[k] \in Nat
      BY <1>1, Members DEF Typed, TypeOK
    <2>2. NewRequest(c) \in Request
      BY <2>1 DEF NewRequest, Request, Results, Replies
    <2>3. /\ NewRequest(c).by = c /\ NewRequest(c).kind = doing[c]
          /\ NewRequest(c).fut = "pending" /\ NewRequest(c).result = "none"
          /\ NewRequest(c).silent = 0 /\ NewRequest(c).age = 0 /\ NewRequest(c).quiet = 0
          /\ reader = "over" => NewRequest(c).orphan
      BY DEF NewRequest
    <2>4. QED
      BY <2>1, <2>2, <2>3 DEF Timed
  <1>4. /\ reqs' = Append(reqs, NewRequest(c))
        /\ pending' = pending \cup {n} /\ tracked' = tracked \cup {n}
        /\ at' = [at EXCEPT ![c] = "sending"] /\ doing' = doing /\ n <= MaxRequests
    BY <1>2, Members DEF Register, Goes, Requests
  <1>5. /\ reqs' \in Seq(Request) /\ Len(reqs') = n
        /\ DOMAIN reqs' = DOMAIN reqs \cup {n}
        /\ reqs'[n] = NewRequest(c) /\ \A r \in DOMAIN reqs : reqs'[r] = reqs[r]
    BY <1>1, <1>3, <1>4, Appended DEF Typed
  <1>6. at'[c] = "sending" /\ \A d \in Callers \ {c} : at'[d] = at[d]
    BY <1>1, <1>4 DEF Typed, TypeOK
  <1> HIDE DEF n
  <1>7. \A r \in DOMAIN reqs : reqs[r].result = "none" => reqs[r].by # c
    BY <1>1, <1>2 DEF CallersSound, Away
  <1>8. \A r \in DOMAIN reqs' : Timed(reqs'[r])
    BY <1>2, <1>3, <1>5
  <1>9. Typed'
    <2>1. Len(reqs') <= MaxRequests /\ pending' \subseteq DOMAIN reqs'
          /\ tracked' \subseteq DOMAIN reqs' /\ DOMAIN reqs' \subseteq Requests
      BY <1>1, <1>2, <1>4, <1>5 DEF Typed
    <2>2. at' \in [Callers -> {"away", "asking", "locking", "sending", "waiting"}]
      BY <1>1, <1>4 DEF Typed, TypeOK
    <2>3. TypeOK'
      BY <1>1, <1>4, <1>8, <2>1, <2>2 DEF Typed, TypeOK, Timed, Request, Replies
    <2>4. QED
      BY <1>1, <1>5, <2>1, <2>3 DEF Typed
  <1>10. CallersSound'
    <2>1. \A d \in Callers : at'[d] \in Away =>
              \E r \in DOMAIN reqs' : reqs'[r].by = d /\ reqs'[r].result = "none"
      BY <1>1, <1>3, <1>5, <1>6 DEF CallersSound
    <2>2. \A r \in DOMAIN reqs' : reqs'[r].result = "none" =>
              at'[reqs'[r].by] \in Away /\ reqs'[r].kind = doing'[reqs'[r].by]
      BY <1>1, <1>2, <1>3, <1>4, <1>5, <1>6, <1>7 DEF CallersSound, Away
    <2>3. \A r, q \in DOMAIN reqs' :
              (reqs'[r].result = "none" /\ reqs'[q].result = "none"
                  /\ reqs'[r].by = reqs'[q].by) => r = q
      BY <1>1, <1>3, <1>5, <1>7 DEF CallersSound
    <2>4. QED
      BY <2>1, <2>2, <2>3 DEF CallersSound, Away
  <1>11. UnansweredAreKept' /\ NobodyIsParked'
    BY <1>1, <1>3, <1>4, <1>5
       DEF UnansweredAreKept, NobodyIsParked, Unanswered, EntriesAreSound
  <1>12. EntriesHaveCaller'
    <2>1. \A r \in pending' \cup tracked' : r \in DOMAIN reqs'
             /\ (reqs'[r].result = "none" \/ reqs'[r].result = "abandoned")
      BY <1>1, <1>3, <1>4, <1>5 DEF EntriesAreSound, EntriesHaveCaller, Open, Typed
    <2>2. QED
      BY <1>10, <2>1 DEF CallersSound, EntriesHaveCaller, Open, Away
  <1>13. NoKeyError' /\ AnswerIsKept'
    BY <1>1, <1>3, <1>5 DEF EntriesAreSound, NoKeyError, AnswerIsKept
  <1>14. QED
    BY <1>9, <1>10, <1>11, <1>12, <1>13 DEF IInv, EntriesAreSound

(* A caller comes back with the result of its request, and takes the       *)
(* entries of no other request with it. *)
LEMMA ComesBack ==
    ASSUME IInv, NEW c \in Callers, at[c] \in Away, NEW r, r = Current(c),
           NEW e, NEW result \in Results \ {"none", "error"},
           Timed(e), e.by = reqs[r].by, e.kind = reqs[r].kind, e.fut = reqs[r].fut,
           e.result = result, result = "timeout" => e.fut # "answer",
           reqs' = [reqs EXCEPT ![r] = e],
           pending' \subseteq pending, tracked' \subseteq tracked,
           pending \ {r} \subseteq pending', tracked \ {r} \subseteq tracked',
           result # "abandoned" => r \notin pending' \cup tracked',
           Leaves(c), lock' = IF lock = c THEN Nobody ELSE lock,
           bounds' \in [turns : 0..MaxTurns, cancels : Nat],
           UNCHANGED <<inbox, reader>>
    PROVE  IInv'
  <1>1. Typed /\ CallersSound /\ LockSound /\ UnansweredAreKept /\ EntriesAreSound
    BY DEF IInv
  <1>2. /\ r \in DOMAIN reqs /\ reqs[r].by = c /\ reqs[r].result = "none"
        /\ \A q \in DOMAIN reqs : reqs[q].by = c /\ reqs[q].result = "none" => q = r
    BY CurrentIs
  <1>3. /\ reqs' \in Seq(Request) /\ Len(reqs') = Len(reqs) /\ DOMAIN reqs' = DOMAIN reqs
    BY <1>1, <1>2, Update DEF Typed, Timed
  <1>4. reqs'[r] = e /\ \A q \in DOMAIN reqs : q # r => reqs'[q] = reqs[q]
    BY <1>2
  <1>5. /\ at' = [at EXCEPT ![c] = "away"] /\ doing' = [doing EXCEPT ![c] = "read"]
        /\ at'[c] = "away" /\ doing'[c] = "read"
        /\ \A d \in Callers \ {c} : at'[d] = at[d] /\ doing'[d] = doing[d]
    BY <1>1 DEF Leaves, Typed, TypeOK
  <1>6. \A q \in DOMAIN reqs : Timed(reqs'[q]) /\ reqs[q].by \in Callers
    BY <1>1, <1>2, <1>4, Members DEF Timed, Request
  <1>7. Typed'
    <2>1. Len(reqs') <= MaxRequests /\ pending' \subseteq Requests /\ tracked' \subseteq Requests
      BY <1>1, <1>3, Members DEF Typed, TypeOK
    <2>2. at' \in [Callers -> {"away", "asking", "locking", "sending", "waiting"}]
          /\ doing' \in [Callers -> Kinds]
      BY <1>1, <1>5 DEF Typed, TypeOK, Kinds
    <2>3. TypeOK'
      BY <1>1, <1>3, <1>6, <2>1, <2>2 DEF Typed, TypeOK, Timed, Request, Replies
    <2>4. QED
      BY <1>1, <1>3, <2>3 DEF Typed
  <1>8. CallersSound'
    <2>1. \A d \in Callers : at'[d] \in Away =>
              \E q \in DOMAIN reqs' : reqs'[q].by = d /\ reqs'[q].result = "none"
      <3> SUFFICES ASSUME NEW d \in Callers, at'[d] \in Away
                   PROVE  \E q \in DOMAIN reqs' : reqs'[q].by = d /\ reqs'[q].result = "none"
        OBVIOUS
      <3>1. d # c /\ at[d] \in Away
        BY <1>5 DEF Away
      <3>2. PICK q \in DOMAIN reqs : reqs[q].by = d /\ reqs[q].result = "none"
        BY <1>1, <3>1 DEF CallersSound
      <3>3. QED
        BY <1>2, <1>3, <1>4, <3>1, <3>2
    <2>2. \A q \in DOMAIN reqs' : reqs'[q].result = "none" =>
              at'[reqs'[q].by] \in Away /\ reqs'[q].kind = doing'[reqs'[q].by]
      <3> SUFFICES ASSUME NEW q \in DOMAIN reqs, reqs'[q].result = "none"
                   PROVE  at'[reqs'[q].by] \in Away /\ reqs'[q].kind = doing'[reqs'[q].by]
        BY <1>3
      <3>1. q # r /\ reqs'[q] = reqs[q] /\ reqs[q].by # c /\ reqs[q].by \in Callers
        BY <1>2, <1>4, <1>6
      <3>2. QED
        BY <1>1, <1>5, <3>1 DEF CallersSound
    <2>3. \A p, q \in DOMAIN reqs' :
              (reqs'[p].result = "none" /\ reqs'[q].result = "none"
                  /\ reqs'[p].by = reqs'[q].by) => p = q
      BY <1>1, <1>3, <1>4 DEF CallersSound
    <2>4. QED
      BY <2>1, <2>2, <2>3 DEF CallersSound, Away
  <1>9. LockSound'
    <2>1. /\ NeedsLock(c)' <=> FALSE
          /\ \A d \in Callers \ {c} : NeedsLock(d)' <=> NeedsLock(d)
      BY <1>5 DEF NeedsLock
    <2>2. \A d \in Callers : lock' = d <=> NeedsLock(d)'
      BY <1>1, <2>1, RequestConstants DEF LockSound, Callers
    <2>3. QED
      BY <1>1, <1>5, <2>2 DEF LockSound, NeedsLock, Callers
  <1>10. UnansweredAreKept' /\ NobodyIsParked'
    BY <1>1, <1>3, <1>4 DEF UnansweredAreKept, NobodyIsParked, Unanswered, EntriesAreSound
  <1>11. EntriesHaveCaller'
    <2>1. \A q \in pending' \cup tracked' : q \in DOMAIN reqs'
             /\ (reqs'[q].result = "none" \/ reqs'[q].result = "abandoned")
      BY <1>1, <1>3, <1>4 DEF EntriesAreSound, EntriesHaveCaller, Open, Typed
    <2>2. QED
      BY <1>8, <2>1 DEF CallersSound, EntriesHaveCaller, Open, Away
  <1>12. NoKeyError' /\ AnswerIsKept'
    BY <1>1, <1>3, <1>4 DEF EntriesAreSound, NoKeyError, AnswerIsKept
  <1>13. QED
    BY <1>7, <1>8, <1>9, <1>10, <1>11, <1>12 DEF IInv, EntriesAreSound

(* The way out of _await_client. *)
LEMMA ReturnsSound ==
    ASSUME IInv, NEW c \in Callers, at[c] \in Away,
           NEW result \in Results \ {"none", "error", "abandoned"}, Returns(c, result),
           result = "timeout" => reqs[Current(c)].fut # "answer",
           bounds' \in [turns : 0..MaxTurns, cancels : Nat],
           UNCHANGED <<inbox, reader>>
    PROVE  IInv'
  <1> DEFINE r == Current(c)
             e == [reqs[r] EXCEPT !.result = result, !.beat = FALSE, !.silent = 0,
                                  !.age = 0, !.window = 0, !.told = FALSE, !.quiet = 0]
  <1>1. r \in DOMAIN reqs /\ Timed(reqs[r])
    BY CurrentIs, Members DEF IInv
  <1>2. /\ Timed(e) /\ e.by = reqs[r].by /\ e.kind = reqs[r].kind /\ e.fut = reqs[r].fut
        /\ e.result = result
    <2>1. e \in Request
      BY <1>1 DEF Timed, Request
    <2>2. /\ e.by = reqs[r].by /\ e.kind = reqs[r].kind /\ e.fut = reqs[r].fut
          /\ e.result = result /\ e.silent = 0 /\ e.age = 0 /\ e.quiet = 0
      BY <1>1 DEF Timed, Request
    <2> HIDE DEF e
    <2>3. reqs[r].kind \in Kinds
      BY <1>1 DEF Timed, Request
    <2>4. Idle[e.kind] \in Nat /\ Hard[e.kind] \in Nat
      BY <2>2, <2>3, RequestConstants
    <2>5. Timed(e)
      BY <2>1, <2>2, <2>4 DEF Timed
    <2>6. QED
      BY <2>2, <2>5
  <1>3. reqs' = [reqs EXCEPT ![r] = e]
    BY <1>1 DEF Returns
  <1>4. pending' = pending \ {r} /\ tracked' = tracked \ {r} /\ Leaves(c)
        /\ lock' = IF lock = c THEN Nobody ELSE lock
    BY DEF Returns, Forget
  <1>5. result = "timeout" => e.fut # "answer"
    BY <1>2
  <1> HIDE DEF e, r
  <1>6. r = Current(c)
    BY DEF r
  <1>7. QED
    BY <1>2, <1>3, <1>4, <1>5, <1>6, ComesBack

(* Another pass of the loop: the request is parked, and its entries are    *)
(* there. *)
LEMMA ParkSound ==
    ASSUME IInv, NEW c \in Callers, at[c] \in Away, Park(c, reqs[Current(c)]),
           IdleLeft(reqs[Current(c)]) \in Nat, HardLeft(reqs[Current(c)]) \in Nat,
           lock' \in Agents \cup {Nobody}, LockSound',
           pending' = pending, tracked' \in {tracked, tracked \cup {Current(c)}},
           UNCHANGED <<inbox, reader, bounds>>
    PROVE  IInv'
  <1> DEFINE r == Current(c)
             e == [reqs[r] EXCEPT !.beat = FALSE,
                                  !.window = Least(IdleLeft(reqs[r]), HardLeft(reqs[r]))]
  <1>1. Typed /\ UnansweredAreKept /\ r \in DOMAIN reqs /\ Timed(reqs[r])
        /\ reqs[r].result = "none"
    BY CurrentIs, Members DEF IInv
  <1>2. Least(IdleLeft(reqs[r]), HardLeft(reqs[r])) \in Nat
    BY DEF Least
  <1>3. /\ Timed(e) /\ e.by = reqs[r].by /\ e.kind = reqs[r].kind /\ e.fut = reqs[r].fut
        /\ e.result = reqs[r].result /\ e.orphan = reqs[r].orphan
    BY <1>1, <1>2 DEF Timed, Request
  <1>4. reqs' = [reqs EXCEPT ![r] = e] /\ at' = [at EXCEPT ![c] = "waiting"] /\ doing' = doing
    BY DEF Park, Goes
  <1> HIDE DEF e
  <1>5. Kept(reqs')
    BY <1>1, <1>3, <1>4, Amends
  <1>6. /\ at' \in [Callers -> {"away", "asking", "locking", "sending", "waiting"}]
        /\ doing' \in [Callers -> Kinds]
        /\ reader' \in {"free", "turn", "over"} /\ inbox' \in Seq(Frame)
        /\ bounds' \in [turns : 0..MaxTurns, cancels : Nat]
    BY <1>1, <1>4 DEF Typed, TypeOK
  <1>7. \A d \in Callers : (at'[d] \in Away <=> at[d] \in Away) /\ doing'[d] = doing[d]
    BY <1>1, <1>4 DEF Typed, TypeOK, Away
  <1>8. /\ pending' \subseteq DOMAIN reqs /\ tracked' \subseteq DOMAIN reqs
        /\ \A q \in pending' \cup tracked' : q \in pending \cup tracked \/ reqs[q].result = "none"
    BY <1>1 DEF Typed
  <1>9. \A q \in DOMAIN reqs :
           reqs[q].result = "none" /\ reqs'[q].fut = "pending" => q \in pending' \cap tracked'
    BY <1>1, <1>5 DEF UnansweredAreKept, Unanswered, Kept
  <1>10. QED
    BY <1>5, <1>6, <1>7, <1>8, <1>9, Keeps

-----------------------------------------------------------------------------
(* A clock within its window leaves a number of ticks. *)
LEMMA LeftTyped ==
    ASSUME NEW q, Timed(q)
    PROVE  IdleLeft(q) \in Nat /\ HardLeft(q) \in Nat
  <1>1. /\ q.silent \in Nat /\ q.age \in Nat
        /\ Idle[q.kind] \in Nat /\ Hard[q.kind] \in Nat
        /\ q.silent <= Idle[q.kind] /\ q.age <= Hard[q.kind]
    BY RequestConstants DEF Timed, Request
  <1>2. QED
    BY <1>1 DEF IdleLeft, HardLeft

(* The actions *)

LEMMA CallsSound ==
    ASSUME IInv, NEW c \in Callers, Calls(c)
    PROVE  IInv'
  <1>1. Typed /\ LockSound /\ UnansweredAreKept
    BY DEF IInv
  <1>2. PICK k \in (IF c = Turn THEN {"read"} ELSE Kinds) :
           /\ doing' = [doing EXCEPT ![c] = k]
           /\ at' = [at EXCEPT ![c] = IF k \in {"edit", "run"} THEN "locking" ELSE "asking"]
    BY DEF Calls
  <1>3. /\ at[c] = "away" /\ UNCHANGED <<lock, reqs, pending, tracked, inbox, reader, bounds>>
    BY DEF Calls
  <1>4. /\ at'[c] \in {"locking", "asking"} /\ doing'[c] = k /\ k \in Kinds
        /\ at'[c] = "locking" => k \in {"edit", "run"}
        /\ at'[c] = "asking" => k = "read"
        /\ c = Turn => k = "read"
        /\ \A d \in Callers \ {c} : at'[d] = at[d] /\ doing'[d] = doing[d]
        /\ at' \in [Callers -> {"away", "asking", "locking", "sending", "waiting"}]
        /\ doing' \in [Callers -> Kinds]
    BY <1>1, <1>2 DEF Typed, TypeOK, Kinds
  <1>5. LockSound'
    <2>1. \A d \in Callers : NeedsLock(d)' <=> NeedsLock(d)
      BY <1>3, <1>4 DEF NeedsLock
    <2>2. QED
      BY <1>1, <1>3, <1>4, <2>1 DEF LockSound, Callers
  <1>6. Kept(reqs')
    BY <1>1, <1>3, SameIsKept
  <1>7. QED
    BY <1>1, <1>3, <1>4, <1>5, <1>6, Keeps DEF Typed, TypeOK, Away, UnansweredAreKept, Unanswered

LEMMA SendsSound ==
    ASSUME IInv, NEW c \in Callers, Sends(c)
    PROVE  IInv'
  <1>1. Typed /\ LockSound
    BY DEF IInv
  <1>2. /\ at[c] = "asking" /\ at' = [at EXCEPT ![c] = "sending"] /\ doing' = doing
        /\ lock' = lock /\ doing[c] = "read"
    BY <1>1 DEF Sends, Register, Goes, LockSound
  <1>3. LockSound'
    <2>1. \A d \in Callers : NeedsLock(d)' <=> NeedsLock(d)
      BY <1>1, <1>2 DEF NeedsLock, Typed, TypeOK
    <2>2. QED
      BY <1>1, <1>2, <2>1 DEF LockSound, Typed, TypeOK
  <1>4. QED
    BY <1>1, <1>2, <1>3, Registers DEF Sends, Typed, TypeOK

LEMMA LocksSound ==
    ASSUME IInv, NEW c \in Callers, Locks(c)
    PROVE  IInv'
  <1>1. Typed /\ LockSound
    BY DEF IInv
  <1>2. /\ at[c] = "locking" /\ at' = [at EXCEPT ![c] = "sending"] /\ doing' = doing
        /\ lock = Nobody /\ lock' = c /\ doing[c] \in {"edit", "run"}
    BY <1>1 DEF Locks, Register, Goes, LockSound
  <1>3. c \in Agents
    BY <1>1, <1>2 DEF LockSound, Callers
  <1>4. LockSound'
    <2>1. /\ NeedsLock(c)'
          /\ \A d \in Callers \ {c} : (NeedsLock(d)' <=> NeedsLock(d)) /\ ~NeedsLock(d)
      BY <1>1, <1>2, RequestConstants DEF NeedsLock, LockSound, Typed, TypeOK, Callers
    <2>2. QED
      BY <1>1, <1>2, <2>1 DEF LockSound, Typed, TypeOK
  <1>5. QED
    BY <1>1, <1>2, <1>3, <1>4, Registers DEF Locks

LEMMA WaitsSound ==
    ASSUME IInv, NEW c \in Callers, Waits(c)
    PROVE  IInv'
  <1> DEFINE r == Current(c)
  <1>1. Typed /\ LockSound /\ at[c] = "sending" /\ at[c] \in Away /\ r \in Tracks(r)
        /\ UNCHANGED <<inbox, reader, bounds>>
    BY DEF IInv, Waits, Tracks, Away
  <1>2. CASE reqs[r].silent >= Idle[reqs[r].kind]
    <2>1. Returns(c, "stalled") /\ "stalled" \in Results \ {"none", "error", "abandoned"}
      BY <1>1, <1>2 DEF Waits, Results
    <2>2. QED
      BY <1>1, <2>1, ReturnsSound DEF Typed
  <1>3. CASE ~(reqs[r].silent >= Idle[reqs[r].kind])
    <2>1. Park(c, reqs[r]) /\ tracked' = tracked \cup {r} /\ lock' = AfterSend(c)
          /\ pending' = pending
      BY <1>1, <1>3 DEF Waits, Tracks
    <2>2. at' = [at EXCEPT ![c] = "waiting"] /\ doing' = doing
      BY <2>1 DEF Park, Goes
    <2>3. Timed(reqs[r])
      BY <1>1, CurrentIs, Members
    <2>4. IdleLeft(reqs[r]) \in Nat /\ HardLeft(reqs[r]) \in Nat
      BY <2>3, LeftTyped
    <2>5. LockSound'
      <3>1. \A d \in Callers \ {c} : NeedsLock(d)' <=> NeedsLock(d)
        BY <1>1, <2>2 DEF NeedsLock, Typed, TypeOK
      <3>2. NeedsLock(c)' <=> doing[c] = "edit"
        BY <1>1, <2>2 DEF NeedsLock, Typed, TypeOK
      <3>3. lock = c <=> doing[c] \in {"edit", "run"}
        BY <1>1 DEF NeedsLock, LockSound
      <3>4. \A d \in Callers : lock' = d <=> NeedsLock(d)'
        BY <1>1, <2>1, <3>1, <3>2, <3>3, RequestConstants
           DEF LockSound, AfterSend, Callers, Typed, TypeOK, Kinds
      <3>5. QED
        BY <1>1, <2>2, <3>4 DEF LockSound, Typed, TypeOK
    <2>6. lock' \in Agents \cup {Nobody}
      BY <1>1, <2>1 DEF AfterSend, Typed, TypeOK
    <2>7. QED
      BY <1>1, <2>1, <2>4, <2>5, <2>6, ParkSound
  <1>4. QED
    BY <1>2, <1>3

LEMMA AnsweredSound ==
    ASSUME IInv, NEW c \in Callers, Answered(c)
    PROVE  IInv'
  <1>1. at[c] \in Away /\ Typed /\ reqs[Current(c)].fut # "pending"
        /\ Returns(c, reqs[Current(c)].fut) /\ UNCHANGED <<inbox, reader, bounds>>
    BY DEF Answered, Away, IInv
  <1>2. Timed(reqs[Current(c)])
    BY <1>1, CurrentIs, Members
  <1>3. reqs[Current(c)].fut \in {"answer", "failed"}
    BY <1>1, <1>2 DEF Timed, Request
  <1>4. reqs[Current(c)].fut \in Results \ {"none", "error", "abandoned"}
    BY <1>3 DEF Results
  <1>5. QED
    BY <1>1, <1>3, <1>4, ReturnsSound DEF Typed

(* The entries of a request that is rechecked are there. *)
LEMMA RechecksFinds ==
    ASSUME IInv, NEW c \in Callers, at[c] = "waiting", MayRecheck(reqs[Current(c)])
    PROVE  Current(c) \in tracked
  BY CurrentIs DEF MayRecheck, IInv, UnansweredAreKept, Unanswered, Away

LEMMA RechecksSound ==
    ASSUME IInv, NEW c \in Callers, Rechecks(c)
    PROVE  IInv'
  <1> DEFINE r == Current(c)
  <1>1. /\ Typed /\ LockSound /\ at[c] = "waiting" /\ at[c] \in Away
        /\ MayRecheck(reqs[r]) /\ UNCHANGED <<inbox, reader, bounds>>
    BY DEF Rechecks, Away, IInv
  <1>2. r \in tracked
    BY <1>1, RechecksFinds
  <1>3. CASE GiveUp(reqs[r])
    <2>1. Returns(c, "timeout") /\ "timeout" \in Results \ {"none", "error", "abandoned"}
      BY <1>2, <1>3 DEF Rechecks, Results
    <2>2. QED
      BY <1>1, <2>1, ReturnsSound DEF Typed, MayRecheck
  <1>4. CASE ~GiveUp(reqs[r])
    <2>1. Park(c, reqs[r]) /\ UNCHANGED <<lock, pending, tracked>>
      BY <1>2, <1>4 DEF Rechecks
    <2>2. at' = [at EXCEPT ![c] = "waiting"] /\ doing' = doing
      BY <2>1 DEF Park, Goes
    <2>3. Timed(reqs[r])
      BY <1>1, CurrentIs, Members
    <2>4. IdleLeft(reqs[r]) \in Nat /\ HardLeft(reqs[r]) \in Nat
      BY <2>3, LeftTyped
    <2>5. LockSound'
      <3>1. at' = at
        BY <1>1, <2>2 DEF Typed, TypeOK
      <3>2. QED
        BY <1>1, <2>1, <2>2, <3>1 DEF LockSound, NeedsLock
    <2>6. QED
      BY <1>1, <2>1, <2>4, <2>5, ParkSound DEF Typed, TypeOK
  <1>5. QED
    BY <1>3, <1>4

LEMMA CancelledSound ==
    ASSUME IInv, NEW c \in Callers, Cancelled(c)
    PROVE  IInv'
  <1> DEFINE r == Current(c)
  <1>1. /\ Typed /\ LockSound /\ UnansweredAreKept /\ UNCHANGED <<inbox, reader>>
        /\ bounds' = [bounds EXCEPT !.cancels = @ + 1]
    BY DEF Cancelled, IInv
  <1>2. bounds' \in [turns : 0..MaxTurns, cancels : Nat]
    BY <1>1 DEF Typed
  <1>3. CASE at[c] \in {"asking", "locking"}
    <2>1. Leaves(c) /\ UNCHANGED <<lock, reqs, pending, tracked>>
      BY <1>3 DEF Cancelled
    <2>2. /\ at'[c] = "away" /\ doing'[c] = "read"
          /\ \A d \in Callers \ {c} : at'[d] = at[d] /\ doing'[d] = doing[d]
          /\ at' \in [Callers -> {"away", "asking", "locking", "sending", "waiting"}]
          /\ doing' \in [Callers -> Kinds]
      BY <1>1, <2>1 DEF Leaves, Typed, TypeOK, Kinds
    <2>3. LockSound'
      <3>1. \A d \in Callers : NeedsLock(d)' <=> NeedsLock(d)
        BY <1>3, <2>2 DEF NeedsLock
      <3>2. QED
        BY <1>1, <2>1, <2>2, <3>1 DEF LockSound, Callers
    <2>4. Kept(reqs')
      BY <1>1, <2>1, SameIsKept
    <2>5. QED
      BY <1>1, <1>2, <1>3, <2>1, <2>2, <2>3, <2>4, Keeps
         DEF Typed, TypeOK, Away, UnansweredAreKept, Unanswered
  <1>4. CASE at[c] = "sending"
    <2> DEFINE e == [reqs[r] EXCEPT !.result = "abandoned", !.silent = 0, !.told = FALSE,
                                    !.quiet = 0]
    <2>1. at[c] \in Away
      BY <1>4 DEF Away
    <2>2. r \in DOMAIN reqs /\ Timed(reqs[r]) /\ "abandoned" \in Results \ {"none", "error"}
      BY <1>1, <2>1, CurrentIs, Members DEF Results
    <2>3. reqs' = [reqs EXCEPT ![r] = e]
      BY <1>4, <2>2 DEF Cancelled
    <2>4. /\ Leaves(c) /\ lock' = (IF lock = c THEN Nobody ELSE lock)
          /\ UNCHANGED <<pending, tracked>>
      BY <1>4 DEF Cancelled
    <2>5. /\ e \in Request /\ e.by = reqs[r].by /\ e.kind = reqs[r].kind
          /\ e.fut = reqs[r].fut /\ e.result = "abandoned"
          /\ e.silent = 0 /\ e.age = reqs[r].age /\ e.quiet = 0
      BY <2>2 DEF Timed, Request
    <2> HIDE DEF e
    <2>6. Timed(e)
      BY <2>2, <2>5, Members, RequestConstants DEF Timed, Request
    <2> HIDE DEF r
    <2>7. r = Current(c)
      BY DEF r
    <2>8. QED
      BY <1>1, <1>2, <2>1, <2>2, <2>3, <2>4, <2>5, <2>6, <2>7, ComesBack
  <1>5. CASE at[c] = "waiting"
    <2>1. at[c] \in Away /\ Returns(c, "cancelled")
          /\ "cancelled" \in Results \ {"none", "error", "abandoned"}
      BY <1>5 DEF Away, Cancelled, Results
    <2>2. QED
      BY <1>1, <1>2, <2>1, ReturnsSound
  <1>6. QED
    BY <1>3, <1>4, <1>5 DEF Cancelled

(* A step of the client, of the receive loop or of time: no caller moves. *)
LEMMA NobodyMoves ==
    ASSUME IInv, Kept(reqs'), UNCHANGED <<at, doing, lock>>,
           reader' \in {"free", "turn", "over"}, inbox' \in Seq(Frame),
           bounds' \in [turns : 0..MaxTurns, cancels : Nat],
           \/ UNCHANGED <<pending, tracked>> /\ (reader' = "over" => reader = "over")
           \/ pending' = {} /\ tracked' = {} /\ \A r \in DOMAIN reqs : reqs[r].result = "none"
                                                   => reqs'[r].fut # "pending"
    PROVE  IInv'
  <1>1. Typed /\ LockSound /\ UnansweredAreKept
    BY DEF IInv
  <1>2. LockSound'
    BY <1>1 DEF LockSound, NeedsLock
  <1>3. /\ at' \in [Callers -> {"away", "asking", "locking", "sending", "waiting"}]
        /\ doing' \in [Callers -> Kinds] /\ lock' \in Agents \cup {Nobody}
    BY <1>1 DEF Typed, TypeOK
  <1>4. \A r \in DOMAIN reqs :
           reqs[r].result = "none" /\ reqs'[r].fut = "pending" =>
               /\ r \in pending' \cap tracked'
               /\ reader' = "over" => reader = "over"
    BY <1>1 DEF UnansweredAreKept, Unanswered, Kept
  <1>5. /\ pending' \subseteq DOMAIN reqs /\ tracked' \subseteq DOMAIN reqs
        /\ \A r \in pending' \cup tracked' : r \in pending \cup tracked
    BY <1>1 DEF Typed
  <1>6. QED
    BY <1>2, <1>3, <1>4, <1>5, Keeps

LEMMA ClientSendsTyped ==
    ASSUME Typed, NEW kind \in {"answer", "progress", "text"}, NEW r \in Nat,
           ClientSends(kind, r)
    PROVE  /\ inbox' = Append(inbox, [kind |-> kind, id |-> r]) /\ inbox' \in Seq(Frame)
           /\ UNCHANGED <<at, doing, lock, pending, tracked, reader>>
           /\ reader' \in {"free", "turn", "over"}
  <1>1. [kind |-> kind, id |-> r] \in Frame
    BY DEF Frame
  <1>2. QED
    BY <1>1, Appended DEF ClientSends, Typed, TypeOK

LEMMA ClientAnswersSound ==
    ASSUME IInv, NEW r \in DOMAIN reqs, ClientAnswers(r)
    PROVE  IInv'
  <1>1. Typed /\ Timed(reqs[r]) /\ r \in Nat
    BY Members DEF IInv
  <1> DEFINE e == [reqs[r] EXCEPT !.reply = Reply(reqs[r])]
  <1>2. reqs' = [reqs EXCEPT ![r] = e] /\ ClientSends("answer", r) /\ bounds' = bounds
    BY DEF ClientAnswers
  <1>3. /\ Timed(e) /\ e.by = reqs[r].by /\ e.kind = reqs[r].kind /\ e.fut = reqs[r].fut
        /\ e.result = reqs[r].result /\ e.orphan = reqs[r].orphan
    <2>1. Reply(reqs[r]) \in Replies
      BY DEF Reply, Replies
    <2>2. QED
      BY <1>1, <2>1 DEF Timed, Request
  <1> HIDE DEF e
  <1>4. Kept(reqs')
    BY <1>1, <1>2, <1>3, Amends
  <1>5. QED
    BY <1>1, <1>2, <1>4, ClientSendsTyped, NobodyMoves DEF Typed

LEMMA ClientReportsSound ==
    ASSUME IInv, NEW r \in DOMAIN reqs, ClientReports(r)
    PROVE  IInv'
  <1>1. Typed /\ Timed(reqs[r]) /\ r \in Nat
    BY Members DEF IInv
  <1> DEFINE k == IF InTime(reqs[r]) THEN 0 ELSE reqs[r].quiet
             e == [reqs[r] EXCEPT !.told = TRUE, !.quiet = k]
  <1>2. reqs' = [reqs EXCEPT ![r] = e] /\ ClientSends("progress", r) /\ bounds' = bounds
    BY <1>1 DEF ClientReports, Timed, Request
  <1>3. k \in 0..Idle[reqs[r].kind] /\ k \in Nat
    BY <1>1, Members DEF Timed, Request
  <1> HIDE DEF k
  <1>4. /\ Timed(e) /\ e.by = reqs[r].by /\ e.kind = reqs[r].kind /\ e.fut = reqs[r].fut
        /\ e.result = reqs[r].result /\ e.orphan = reqs[r].orphan
    BY <1>1, <1>3 DEF Timed, Request
  <1> HIDE DEF e
  <1>5. Kept(reqs')
    BY <1>1, <1>2, <1>4, Amends
  <1>6. QED
    BY <1>1, <1>2, <1>5, ClientSendsTyped, NobodyMoves DEF Typed

LEMMA UserWritesSound ==
    ASSUME IInv, UserWrites
    PROVE  IInv'
  <1>1. /\ Typed /\ reqs' = reqs /\ ClientSends("text", 0)
        /\ bounds.turns < MaxTurns /\ bounds' = [bounds EXCEPT !.turns = @ + 1]
    BY DEF IInv, UserWrites
  <1>2. bounds' \in [turns : 0..MaxTurns, cancels : Nat]
    BY <1>1, RequestConstants DEF Typed
  <1>3. Kept(reqs')
    BY <1>1, SameIsKept
  <1>4. QED
    BY <1>1, <1>2, <1>3, ClientSendsTyped, NobodyMoves

LEMMA ResolveKept ==
    ASSUME Typed, NEW r, Resolve(r)
    PROVE  Kept(reqs')
  <1>1. CASE r \in pending /\ reqs[r].fut = "pending"
    <2> DEFINE e == [reqs[r] EXCEPT !.fut = "answer"]
    <2>1. r \in DOMAIN reqs /\ Timed(reqs[r])
      BY <1>1, Members DEF Typed
    <2>2. reqs' = [reqs EXCEPT ![r] = e]
      BY <1>1 DEF Resolve
    <2>3. /\ Timed(e) /\ e.by = reqs[r].by /\ e.kind = reqs[r].kind
          /\ e.result = reqs[r].result /\ e.orphan = reqs[r].orphan /\ e.fut = "answer"
      BY <2>1 DEF Timed, Request
    <2> HIDE DEF e
    <2>4. QED
      BY <1>1, <2>1, <2>2, <2>3, Amends
  <1>2. CASE ~(r \in pending /\ reqs[r].fut = "pending")
    BY <1>2, SameIsKept DEF Resolve
  <1>3. QED
    BY <1>1, <1>2

LEMMA NoteKept ==
    ASSUME Typed, NEW r, Note(r)
    PROVE  Kept(reqs')
  <1>1. CASE r \in tracked
    <2> DEFINE e == [reqs[r] EXCEPT !.silent = 0, !.beat = TRUE]
    <2>1. r \in DOMAIN reqs /\ Timed(reqs[r])
      BY <1>1, Members DEF Typed
    <2>2. reqs' = [reqs EXCEPT ![r] = e]
      BY <1>1, <2>1 DEF Note
    <2>3. /\ e \in Request /\ e.by = reqs[r].by /\ e.kind = reqs[r].kind
          /\ e.result = reqs[r].result /\ e.fut = reqs[r].fut
          /\ e.silent = 0 /\ e.age = reqs[r].age
          /\ e.quiet = reqs[r].quiet /\ e.orphan = reqs[r].orphan
      BY <2>1 DEF Timed, Request
    <2> HIDE DEF e
    <2>4. Timed(e)
      BY <2>1, <2>3, Members DEF Timed, Request
    <2>5. QED
      BY <1>1, <2>1, <2>2, <2>3, <2>4, Amends
  <1>2. CASE r \notin tracked
    BY <1>2, SameIsKept DEF Note
  <1>3. QED
    BY <1>1, <1>2

LEMMA ReceivesSound ==
    ASSUME IInv, Receives
    PROVE  IInv'
  <1>1. Typed /\ inbox # << >> /\ inbox' = Tail(inbox)
        /\ UNCHANGED <<at, doing, lock, pending, tracked, bounds>>
    BY DEF IInv, Receives
  <1>2. inbox' \in Seq(Frame)
    BY <1>1, HeadTailProperties DEF Typed
  <1>3. Kept(reqs')
    BY <1>1, ResolveKept, NoteKept, SameIsKept DEF Receives
  <1>4. reader' \in {"free", "turn", "over"} /\ (reader' = "over" => reader = "over")
    BY <1>1 DEF Receives, Typed, TypeOK
  <1>5. QED
    BY <1>1, <1>2, <1>3, <1>4, NobodyMoves DEF Typed

LEMMA TurnEndsSound ==
    ASSUME IInv, TurnEnds
    PROVE  IInv'
  <1>1. Typed /\ Kept(reqs')
    BY SameIsKept DEF IInv, TurnEnds
  <1>2. QED
    BY <1>1, NobodyMoves DEF TurnEnds, Typed

(* Closing the session fails what nobody has answered. *)
LEMMA FailAllKept ==
    ASSUME Typed
    PROVE  /\ Kept(FailAll)
           /\ \A r \in pending : FailAll[r].fut # "pending"
  <1>1. \A r \in DOMAIN reqs : Timed(reqs[r])
    BY Members
  <1>2. \A r \in DOMAIN reqs :
           /\ Timed(FailAll[r]) /\ FailAll[r].by = reqs[r].by /\ FailAll[r].kind = reqs[r].kind
           /\ FailAll[r].result = reqs[r].result /\ FailAll[r].orphan = reqs[r].orphan
           /\ FailAll[r].fut = "pending" => reqs[r].fut = "pending" /\ r \notin pending
           /\ FailAll[r].fut = "answer" => reqs[r].fut = "answer"
    <2> SUFFICES ASSUME NEW r \in DOMAIN reqs
                 PROVE  /\ Timed(FailAll[r]) /\ FailAll[r].by = reqs[r].by
                        /\ FailAll[r].kind = reqs[r].kind
                        /\ FailAll[r].result = reqs[r].result
                        /\ FailAll[r].orphan = reqs[r].orphan
                        /\ FailAll[r].fut = "pending" => reqs[r].fut = "pending" /\ r \notin pending
                        /\ FailAll[r].fut = "answer" => reqs[r].fut = "answer"
      OBVIOUS
    <2> DEFINE e == [reqs[r] EXCEPT !.fut = "failed"]
    <2>1. /\ Timed(e) /\ e.by = reqs[r].by /\ e.kind = reqs[r].kind
          /\ e.result = reqs[r].result /\ e.orphan = reqs[r].orphan /\ e.fut = "failed"
      BY <1>1 DEF Timed, Request
    <2>2. FailAll[r] = IF r \in pending /\ reqs[r].fut = "pending" THEN e ELSE reqs[r]
      BY DEF FailAll
    <2> HIDE DEF e
    <2>3. QED
      BY <1>1, <2>1, <2>2
  <1>3. FailAll \in [1..Len(reqs) -> Request] /\ DOMAIN FailAll = DOMAIN reqs
    BY <1>2, Members DEF FailAll, Timed
  <1>4. FailAll \in Seq(Request) /\ Len(FailAll) = Len(reqs)
    BY <1>3, Members, FunctionIsSeq
  <1>5. QED
    BY <1>2, <1>3, <1>4 DEF Kept, Typed

LEMMA DisconnectsSound ==
    ASSUME IInv, Disconnects
    PROVE  IInv'
  <1>1. /\ Typed /\ UnansweredAreKept /\ reqs' = FailAll
        /\ inbox' = << >> /\ reader' = "over" /\ pending' = {} /\ tracked' = {}
        /\ UNCHANGED <<at, doing, lock, bounds>>
    BY DEF IInv, Disconnects
  <1>2. Kept(reqs') /\ \A r \in pending : reqs'[r].fut # "pending"
    BY <1>1, FailAllKept
  <1>3. \A r \in DOMAIN reqs : reqs[r].result = "none" => reqs'[r].fut # "pending"
    BY <1>1, <1>2 DEF UnansweredAreKept, Unanswered, Kept
  <1>4. inbox' \in Seq(Frame) /\ bounds' \in [turns : 0..MaxTurns, cancels : Nat]
    BY <1>1 DEF Typed
  <1>5. QED
    BY <1>1, <1>2, <1>3, <1>4, NobodyMoves

(* A tick moves no clock beyond its window. *)
LEMMA LaterTimed ==
    ASSUME NEW q, Timed(q), NEW waiting \in BOOLEAN
    PROVE  /\ Timed(Later(q, waiting))
           /\ Later(q, waiting).by = q.by /\ Later(q, waiting).kind = q.kind
           /\ Later(q, waiting).result = q.result /\ Later(q, waiting).fut = q.fut
           /\ Later(q, waiting).reply = q.reply /\ Later(q, waiting).orphan = q.orphan
           /\ Later(q, waiting).silent = Least(q.silent + 1, Idle[q.kind])
           /\ Later(q, waiting).quiet = Least(q.quiet + 1, Idle[q.kind])
  <1>1. /\ q.silent \in Nat /\ q.age \in Nat /\ q.window \in Nat /\ q.quiet \in Nat
        /\ Idle[q.kind] \in Nat /\ Hard[q.kind] \in Nat
        /\ q.silent <= Idle[q.kind] /\ q.age <= Hard[q.kind]
    BY RequestConstants DEF Timed, Request
  <1> DEFINE s == Least(q.silent + 1, Idle[q.kind])
             h == Least(q.quiet + 1, Idle[q.kind])
             a == IF waiting THEN Least(q.age + 1, Hard[q.kind]) ELSE q.age
             w == IF q.window = 0 THEN 0 ELSE q.window - 1
             e == Later(q, waiting)
  <1>2. /\ s \in 0..Idle[q.kind] /\ h \in 0..Idle[q.kind]
        /\ a \in 0..Hard[q.kind] /\ w \in Nat
    BY <1>1 DEF Least
  <1>3. e = [q EXCEPT !.told = FALSE, !.silent = s, !.quiet = h, !.age = a, !.window = w]
    BY DEF Later, Timed, Request
  <1> HIDE DEF s, h, a, w, e
  <1>4. /\ e = [by |-> q.by, kind |-> q.kind, fut |-> q.fut, result |-> q.result,
               beat |-> q.beat, silent |-> s, age |-> a, window |-> w, told |-> FALSE,
               reply |-> q.reply, quiet |-> h, orphan |-> q.orphan]
    BY <1>3 DEF Timed, Request
  <1>5. s \in Nat /\ h \in Nat /\ a \in Nat
    BY <1>1, <1>2
  <1>6. e \in Request
    BY <1>2, <1>4, <1>5 DEF Timed, Request
  <1>7. /\ e.silent = s /\ e.quiet = h /\ e.age = a
        /\ e.by = q.by /\ e.kind = q.kind /\ e.result = q.result /\ e.fut = q.fut
        /\ e.reply = q.reply /\ e.orphan = q.orphan
    BY <1>4
  <1>8. Timed(e)
    BY <1>2, <1>6, <1>7 DEF Timed
  <1>9. QED
    BY <1>7, <1>8 DEF e, s, h

LEMMA TickKept ==
    ASSUME Typed, Tick
    PROVE  Kept(reqs')
  <1>1. reqs' = [r \in DOMAIN reqs |->
                    IF reqs[r].result = "none"
                    THEN Later(reqs[r], at[reqs[r].by] = "waiting") ELSE reqs[r]]
    BY DEF Tick
  <1>2. \A r \in DOMAIN reqs :
           /\ Timed(reqs'[r]) /\ reqs'[r].by = reqs[r].by /\ reqs'[r].kind = reqs[r].kind
           /\ reqs'[r].result = reqs[r].result /\ reqs'[r].fut = reqs[r].fut
           /\ reqs'[r].orphan = reqs[r].orphan
    BY <1>1, Members, LaterTimed
  <1>3. reqs' \in [1..Len(reqs) -> Request] /\ DOMAIN reqs' = DOMAIN reqs
    BY <1>1, <1>2, Members DEF Timed
  <1>4. reqs' \in Seq(Request) /\ Len(reqs') = Len(reqs)
    BY <1>1, <1>3, Members, FunctionIsSeq
  <1>5. QED
    BY <1>2, <1>3, <1>4 DEF Kept

LEMMA TickSound ==
    ASSUME IInv, Tick
    PROVE  IInv'
  BY TickKept, NobodyMoves DEF Tick, IInv, Typed, TypeOK

-----------------------------------------------------------------------------
LEMMA InitSound == Init => IInv
  <1> SUFFICES ASSUME Init PROVE IInv
    OBVIOUS
  <1>1. reqs = << >> /\ DOMAIN reqs = {} /\ Len(reqs) = 0 /\ inbox = << >>
    BY DEF Init
  <1>2. Typed
    BY <1>1, RequestConstants DEF Init, Typed, TypeOK, Kinds
  <1>3. CallersSound /\ UnansweredAreKept
    BY <1>1 DEF Init, CallersSound, UnansweredAreKept, Unanswered, Away
  <1>4. LockSound
    BY RequestConstants DEF Init, LockSound, NeedsLock, Callers
  <1>5. EntriesAreSound
    BY <1>1 DEF Init, EntriesAreSound, EntriesHaveCaller, NoKeyError, AnswerIsKept,
                NobodyIsParked
  <1>6. QED
    BY <1>2, <1>3, <1>4, <1>5 DEF IInv

LEMMA StepSound == IInv /\ [Next]_vars => IInv'
  <1> SUFFICES ASSUME IInv, [Next]_vars PROVE IInv'
    OBVIOUS
  <1>1. ASSUME NEW c \in Callers, Calls(c) \/ CallerStep(c) \/ Cancelled(c)
        PROVE  IInv'
    BY <1>1, CallsSound, SendsSound, LocksSound, WaitsSound, AnsweredSound, RechecksSound,
       CancelledSound DEF CallerStep
  <1>2. ASSUME NEW r \in DOMAIN reqs, ClientAnswers(r) \/ ClientReports(r)
        PROVE  IInv'
    BY <1>2, ClientAnswersSound, ClientReportsSound
  <1>3. CASE UserWrites \/ Receives \/ TurnEnds \/ Disconnects \/ Tick
    BY <1>3, UserWritesSound, ReceivesSound, TurnEndsSound, DisconnectsSound, TickSound
  <1>4. CASE UNCHANGED vars
    BY <1>4 DEF vars, IInv, Typed, TypeOK, CallersSound, LockSound, NeedsLock,
               UnansweredAreKept, EntriesAreSound, EntriesHaveCaller, NoKeyError, AnswerIsKept,
               NobodyIsParked, Unanswered, Open
  <1>5. QED
    BY <1>1, <1>2, <1>3, <1>4 DEF Next

THEOREM Invariance == Spec => []IInv
  BY InitSound, StepSound, PTL DEF Spec

(* The state keeps its types: the clocks of a request stay within its      *)
(* windows, whatever progress the client reports. *)
THEOREM TypeCorrect == Spec => []TypeOK
  <1>1. IInv => TypeOK
    BY DEF IInv, Typed
  <1>2. QED
    BY <1>1, Invariance, PTL

(* The entries of a request are there while its caller needs them and go   *)
(* with it, for any number of callers, requests and cancellations. *)
THEOREM EntriesSound == Spec => []EntriesAreSound
  <1>1. IInv => EntriesAreSound
    BY DEF IInv
  <1>2. QED
    BY <1>1, Invariance, PTL

(* Agents never edit the canvas at once, nor does a run hold the lock. *)
THEOREM LockGuards == Spec => []LockGuardsEdits
  <1>1. IInv => LockGuardsEdits
    BY LockExcludes DEF IInv
  <1>2. QED
    BY <1>1, Invariance, PTL

-----------------------------------------------------------------------------
(* What a caller's own step does to the requests *)

(* A request of another caller, or one whose caller does not touch it. *)
Untouched(r) ==
    /\ r \in DOMAIN reqs /\ reqs'[r] = reqs[r]
    /\ reqs[r].result = "none" /\ r \in tracked => r \in tracked'

Made(r) ==
    r \notin DOMAIN reqs /\ reqs'[r].reply = "none" /\ reqs'[r].silent = 0 /\ r \in tracked'

ParkedAgain(r) ==
    /\ reqs'[r].kind = reqs[r].kind /\ reqs'[r].fut = reqs[r].fut
    /\ reqs'[r].result = reqs[r].result /\ reqs'[r].quiet = reqs[r].quiet
    /\ reqs'[r].silent = reqs[r].silent /\ reqs'[r].age = reqs[r].age
    /\ r \in tracked'

Ends(c, r) ==
    \/ at[c] = "waiting" /\ reqs'[r].result \in {"answer", "failed", "cancelled"}
    \/ /\ at[c] = "waiting" /\ reqs'[r].result = "timeout"
       /\ GiveUp(reqs[r]) /\ MayRecheck(reqs[r])
    \/ at[c] = "sending" /\ reqs'[r].result = "abandoned"
    \/ /\ at[c] = "sending" /\ reqs'[r].result = "stalled"
       /\ reqs[r].silent >= Idle[reqs[r].kind]

(* The request its caller is away for: parked once more, or ended. *)
Handled(c, r) ==
    /\ at[c] \in Away /\ r = Current(c) /\ r \in DOMAIN reqs
    /\ reqs'[r].reply = reqs[r].reply /\ reqs'[r].by = reqs[r].by
    /\ ParkedAgain(r) \/ Ends(c, r)

LEMMA RegistersOne ==
    ASSUME IInv, NEW c \in Callers, Register(c)
    PROVE  /\ DOMAIN reqs \subseteq DOMAIN reqs'
           /\ \A r \in DOMAIN reqs' : Untouched(r) \/ Made(r)
  <1>1. Typed
    BY DEF IInv
  <1>2. /\ NewRequest(c) \in Request /\ NewRequest(c).reply = "none"
        /\ NewRequest(c).silent = 0
    BY <1>1 DEF NewRequest, Request, Results, Replies, Typed, TypeOK
  <1>3. reqs' = Append(reqs, NewRequest(c)) /\ tracked' = tracked \cup {Len(reqs) + 1}
    BY DEF Register
  <1>4. /\ DOMAIN reqs' = DOMAIN reqs \cup {Len(reqs) + 1}
        /\ reqs'[Len(reqs) + 1] = NewRequest(c)
        /\ \A r \in DOMAIN reqs : reqs'[r] = reqs[r]
        /\ DOMAIN reqs = 1..Len(reqs) /\ Len(reqs) \in Nat
    BY <1>1, <1>2, <1>3, Appended DEF Typed
  <1>5. QED
    BY <1>2, <1>3, <1>4 DEF Untouched, Made

LEMMA ReturnsOne ==
    ASSUME IInv, NEW c \in Callers, at[c] \in Away, NEW result, Returns(c, result)
    PROVE  /\ \A r \in DOMAIN reqs' :
                 r \in DOMAIN reqs /\ (r # Current(c) => Untouched(r))
           /\ DOMAIN reqs' = DOMAIN reqs /\ Current(c) \in DOMAIN reqs
           /\ reqs'[Current(c)].reply = reqs[Current(c)].reply
           /\ reqs'[Current(c)].by = reqs[Current(c)].by
           /\ reqs'[Current(c)].result = result
  <1> DEFINE r == Current(c)
             e == [reqs[r] EXCEPT !.result = result, !.beat = FALSE, !.silent = 0,
                                  !.age = 0, !.window = 0, !.told = FALSE, !.quiet = 0]
  <1>1. r \in DOMAIN reqs /\ reqs[r] \in Request
    BY CurrentIs, Members DEF IInv, Timed
  <1>2. reqs' = [reqs EXCEPT ![r] = e] /\ tracked' = tracked \ {r}
    BY <1>1 DEF Returns, Forget
  <1>3. e.reply = reqs[r].reply /\ e.by = reqs[r].by /\ e.result = result
    BY <1>1 DEF Request
  <1> HIDE DEF e
  <1>4. QED
    BY <1>1, <1>2, <1>3 DEF Untouched

LEMMA ParksOne ==
    ASSUME IInv, NEW c \in Callers, at[c] \in Away, Park(c, reqs[Current(c)]),
           tracked \subseteq tracked', Current(c) \in tracked'
    PROVE  /\ DOMAIN reqs' = DOMAIN reqs
           /\ \A r \in DOMAIN reqs' : Untouched(r) \/ Handled(c, r)
  <1> DEFINE r == Current(c)
             e == [reqs[r] EXCEPT !.beat = FALSE,
                                  !.window = Least(IdleLeft(reqs[r]), HardLeft(reqs[r]))]
  <1>1. r \in DOMAIN reqs /\ reqs[r] \in Request
    BY CurrentIs, Members DEF IInv, Timed
  <1>2. reqs' = [reqs EXCEPT ![r] = e]
    BY DEF Park
  <1>3. /\ e.reply = reqs[r].reply /\ e.by = reqs[r].by /\ e.kind = reqs[r].kind
        /\ e.fut = reqs[r].fut /\ e.result = reqs[r].result /\ e.quiet = reqs[r].quiet
        /\ e.silent = reqs[r].silent /\ e.age = reqs[r].age
    BY <1>1 DEF Request
  <1> HIDE DEF e
  <1>4. QED
    BY <1>1, <1>2, <1>3 DEF Untouched, Handled, ParkedAgain

(* It leaves the receive loop and the other callers alone. *)
LEMMA CallerStepsQuietly ==
    ASSUME IInv, NEW c \in Callers, Calls(c) \/ CallerStep(c) \/ Cancelled(c)
    PROVE  /\ inbox' = inbox /\ reader' = reader
           /\ \A d \in Callers : d # c => at'[d] = at[d]
           /\ at[c] = "waiting" => at'[c] \in {"waiting", "away"}
           /\ DOMAIN reqs \subseteq DOMAIN reqs'
           /\ \A r \in DOMAIN reqs' : Untouched(r) \/ Made(r) \/ Handled(c, r)
  <1>1. Typed
    BY DEF IInv
  <1>2. /\ inbox' = inbox /\ reader' = reader
        /\ \A d \in Callers : d # c => at'[d] = at[d]
        /\ at[c] = "waiting" => at'[c] \in {"waiting", "away"}
    BY <1>1 DEF Calls, CallerStep, Sends, Locks, Waits, Answered, Rechecks, Cancelled,
                Register, Park, Returns, Leaves, Goes, Typed, TypeOK
  <1>3. CASE Calls(c)
    BY <1>2, <1>3 DEF Calls, Untouched
  <1>4. CASE Sends(c) \/ Locks(c)
    BY <1>2, <1>4, RegistersOne DEF Sends, Locks
  <1>5. CASE Waits(c)
    <2>1. at[c] = "sending" /\ at[c] \in Away /\ Current(c) \in Tracks(Current(c))
      BY <1>5 DEF Waits, Away, Tracks
    <2>2. CASE reqs[Current(c)].silent >= Idle[reqs[Current(c)].kind]
      BY <1>2, <1>5, <2>1, <2>2, ReturnsOne DEF Waits, Handled, Ends
    <2>3. CASE ~(reqs[Current(c)].silent >= Idle[reqs[Current(c)].kind])
      BY <1>2, <1>5, <2>1, <2>3, ParksOne DEF Waits, Tracks
    <2>4. QED
      BY <2>2, <2>3
  <1>6. CASE Answered(c)
    <2>1. at[c] = "waiting" /\ at[c] \in Away /\ Returns(c, reqs[Current(c)].fut)
      BY <1>6 DEF Answered, Away
    <2>2. reqs[Current(c)].fut \in {"answer", "failed"}
      BY <1>1, <1>6, <2>1, CurrentIs, Members DEF Answered, Timed, Request
    <2>3. QED
      BY <1>2, <2>1, <2>2, ReturnsOne DEF Handled, Ends
  <1>7. CASE Rechecks(c)
    <2>1. at[c] = "waiting" /\ at[c] \in Away /\ Current(c) \in tracked
          /\ MayRecheck(reqs[Current(c)])
      BY <1>7, RechecksFinds DEF Rechecks, Away
    <2>2. CASE GiveUp(reqs[Current(c)])
      BY <1>2, <1>7, <2>1, <2>2, ReturnsOne DEF Rechecks, Handled, Ends
    <2>3. CASE ~GiveUp(reqs[Current(c)])
      BY <1>2, <1>7, <2>1, <2>3, ParksOne DEF Rechecks
    <2>4. QED
      BY <2>2, <2>3
  <1>8. CASE Cancelled(c) /\ at[c] = "sending"
    <2>1. at[c] \in Away /\ tracked' = tracked
          /\ reqs' = [reqs EXCEPT ![Current(c)].result = "abandoned",
                                  ![Current(c)].silent = 0, ![Current(c)].told = FALSE,
                                  ![Current(c)].quiet = 0]
      BY <1>8 DEF Cancelled, Away
    <2>2. Current(c) \in DOMAIN reqs /\ reqs[Current(c)] \in Request
      BY <1>1, <2>1, CurrentIs, Members DEF Timed
    <2>3. /\ DOMAIN reqs' = DOMAIN reqs
          /\ reqs'[Current(c)].result = "abandoned"
          /\ reqs'[Current(c)].reply = reqs[Current(c)].reply
          /\ reqs'[Current(c)].by = reqs[Current(c)].by
          /\ \A r \in DOMAIN reqs : r # Current(c) => reqs'[r] = reqs[r]
      BY <2>1, <2>2 DEF Request
    <2>4. QED
      BY <1>2, <1>8, <2>1, <2>2, <2>3 DEF Untouched, Handled, Ends
  <1>9. CASE Cancelled(c) /\ at[c] = "waiting"
    <2>1. at[c] \in Away /\ Returns(c, "cancelled")
      BY <1>9 DEF Cancelled, Away
    <2>2. QED
      BY <1>2, <1>9, <2>1, ReturnsOne DEF Handled, Ends
  <1>10. CASE Cancelled(c) /\ at[c] \in {"asking", "locking"}
    BY <1>2, <1>10 DEF Cancelled, Untouched
  <1>11. QED
    BY <1>3, <1>4, <1>5, <1>6, <1>7, <1>8, <1>9, <1>10 DEF CallerStep, Cancelled

-----------------------------------------------------------------------------
(* Timely answers, while no text turn occupies the receive loop *)

(* A frame of this kind for the request stands in the inbox. *)
InInbox(kind, r) == \E i \in 1..Len(inbox) : inbox[i].kind = kind /\ inbox[i].id = r

(* An answer that came in time and is not yet handed over stands in the    *)
(* inbox, and its clocks have not run out. *)
OnTheWay(r) == IdleLeft(reqs[r]) > 0 /\ HardLeft(reqs[r]) > 0 /\ InInbox("answer", r)

Soon == {"early", "timely"}

AnswersOnTheWay ==
    \A r \in DOMAIN reqs : reqs[r].reply \in Soon /\ Unanswered(r) => OnTheWay(r)

NoTurn ==
    /\ reader # "turn" /\ \A i \in 1..Len(inbox) : inbox[i].kind # "text"
    /\ reader = "over" => inbox = << >>

(* A caller that was answered while it waited is still waiting, or was     *)
(* given an outcome that is not a lapse of its clocks. *)
AnswersUsed ==
    \A r \in DOMAIN reqs :
        /\ reqs[r].reply = "timely" =>
              /\ reqs[r].result \in {"none", "answer", "failed", "cancelled"}
              /\ reqs[r].result = "none" => at[reqs[r].by] = "waiting"
        /\ reqs[r].reply = "early" => reqs[r].result # "timeout"

TimelyInv == NoTurn /\ AnswersOnTheWay /\ AnswersUsed

(* Nothing on the way is taken off it: what is still unanswered was, and   *)
(* its clocks have not moved on. *)
LEMMA StaysOnTheWay ==
    ASSUME IInv, IInv', TimelyInv, NoTurn', AnswersUsed',
           \A i \in 1..Len(inbox) : \E j \in 1..Len(inbox') : inbox'[j] = inbox[i],
           \A r \in DOMAIN reqs' : reqs'[r].reply \in Soon /\ Unanswered(r)' =>
               /\ r \in DOMAIN reqs /\ reqs[r].reply \in Soon /\ Unanswered(r)
               /\ reqs'[r].kind = reqs[r].kind
               /\ reqs'[r].silent <= reqs[r].silent /\ reqs'[r].age <= reqs[r].age
    PROVE  TimelyInv'
  <1>1. ASSUME NEW r \in DOMAIN reqs', reqs'[r].reply \in Soon, Unanswered(r)'
        PROVE  OnTheWay(r)'
    <2>1. /\ r \in DOMAIN reqs /\ OnTheWay(r) /\ reqs'[r].kind = reqs[r].kind
          /\ reqs'[r].silent <= reqs[r].silent /\ reqs'[r].age <= reqs[r].age
      BY <1>1 DEF TimelyInv, AnswersOnTheWay
    <2>2. /\ Timed(reqs[r]) /\ Timed(reqs'[r])
          /\ \A k \in Kinds : Idle[k] \in Nat /\ Hard[k] \in Nat
      <3>1. Typed /\ \A k \in Kinds : Idle[k] \in Nat /\ Hard[k] \in Nat
        BY Members DEF IInv
      <3>2. Timed(reqs[r])
        BY <2>1, <3>1, Members
      <3>3. reqs' \in Seq(Request) /\ TypeOK'
        BY DEF IInv, Typed
      <3>4. Timed(reqs'[r])
        BY <1>1, <3>3, ElementOfSeq DEF TypeOK, Timed
      <3>5. QED
        BY <3>1, <3>2, <3>4
    <2>3. IdleLeft(reqs'[r]) > 0 /\ HardLeft(reqs'[r]) > 0
      <3>1. /\ reqs[r].kind \in Kinds
            /\ reqs[r].silent \in Nat /\ reqs[r].age \in Nat
            /\ reqs'[r].silent \in Nat /\ reqs'[r].age \in Nat
        BY <2>2 DEF Timed, Request
      <3>2. Idle[reqs[r].kind] - reqs[r].silent > 0 /\ Hard[reqs[r].kind] - reqs[r].age > 0
        BY <2>1 DEF OnTheWay, IdleLeft, HardLeft
      <3>3. Idle[reqs[r].kind] - reqs'[r].silent > 0 /\ Hard[reqs[r].kind] - reqs'[r].age > 0
        BY <2>1, <2>2, <3>1, <3>2
      <3>4. QED
        BY <2>1, <3>3 DEF IdleLeft, HardLeft
    <2>4. InInbox("answer", r)'
      BY <2>1 DEF OnTheWay, InInbox
    <2>5. QED
      BY <2>3, <2>4 DEF OnTheWay
  <1>2. QED
    BY <1>1 DEF TimelyInv, AnswersOnTheWay

(* No caller moves and no request ends. *)
LEMMA StillUsed ==
    ASSUME AnswersUsed, Kept(reqs'), at' = at,
           \A r \in DOMAIN reqs : reqs'[r].reply = reqs[r].reply
    PROVE  AnswersUsed'
  BY DEF AnswersUsed, Kept

LEMMA CallersTimely ==
    ASSUME IInv, IInv', TimelyInv, NEW c \in Callers, Calls(c) \/ CallerStep(c) \/ Cancelled(c)
    PROVE  TimelyInv'
  <1>1. /\ inbox' = inbox /\ reader' = reader
        /\ \A d \in Callers : d # c => at'[d] = at[d]
        /\ at[c] = "waiting" => at'[c] \in {"waiting", "away"}
        /\ \A r \in DOMAIN reqs' : Untouched(r) \/ Made(r) \/ Handled(c, r)
    BY CallerStepsQuietly
  <1>2. ASSUME NEW r \in DOMAIN reqs, at[c] \in Away, r = Current(c),
               GiveUp(reqs[r]), MayRecheck(reqs[r])
        PROVE  reqs[r].reply \notin Soon
    BY <1>2, CurrentIs DEF GiveUp, MayRecheck, TimelyInv, AnswersOnTheWay, Unanswered, OnTheWay
  <1>3. NoTurn'
    BY <1>1 DEF NoTurn, TimelyInv
  <1>4. \A i \in 1..Len(inbox) : \E j \in 1..Len(inbox') : inbox'[j] = inbox[i]
    BY <1>1
  <1>5. /\ \A r \in DOMAIN reqs : reqs[r].silent \in Nat /\ reqs[r].age \in Nat
        /\ \A r \in DOMAIN reqs : reqs[r].by \in Callers
    BY Members DEF IInv, Timed, Request
  <1>6. \A r \in DOMAIN reqs' : reqs'[r].reply \in Soon /\ Unanswered(r)' =>
           /\ r \in DOMAIN reqs /\ reqs[r].reply \in Soon /\ Unanswered(r)
           /\ reqs'[r].kind = reqs[r].kind
           /\ reqs'[r].silent <= reqs[r].silent /\ reqs'[r].age <= reqs[r].age
    BY <1>1, <1>5 DEF Unanswered, Untouched, Made, Handled, ParkedAgain, Ends, Soon
  <1>7. AnswersUsed'
    <2> SUFFICES ASSUME NEW r \in DOMAIN reqs', reqs'[r].reply \in Soon
                 PROVE  /\ reqs'[r].reply = "timely" =>
                              /\ reqs'[r].result \in {"none", "answer", "failed", "cancelled"}
                              /\ reqs'[r].result = "none" => at'[reqs'[r].by] = "waiting"
                        /\ reqs'[r].reply = "early" => reqs'[r].result # "timeout"
      BY DEF AnswersUsed, Soon
    <2>1. /\ r \in DOMAIN reqs /\ reqs'[r].reply = reqs[r].reply /\ reqs'[r].by = reqs[r].by
          /\ reqs[r].by \in Callers /\ (Untouched(r) \/ Handled(c, r))
      BY <1>1, <1>5 DEF Untouched, Made, Handled, Soon
    <2>2. /\ reqs[r].reply = "timely" =>
                /\ reqs[r].result \in {"none", "answer", "failed", "cancelled"}
                /\ reqs[r].result = "none" => at[reqs[r].by] = "waiting"
          /\ reqs[r].reply = "early" => reqs[r].result # "timeout"
      BY <2>1 DEF TimelyInv, AnswersUsed
    <2>3. CASE Untouched(r)
      <3>1. reqs'[r].result = "none" => at'[reqs'[r].by] \in Away
        BY DEF IInv, CallersSound
      <3>2. QED
        BY <1>1, <2>1, <2>2, <2>3, <3>1 DEF Untouched, Away
    <2>4. CASE Handled(c, r)
      <3>1. r = Current(c) /\ at[c] \in Away /\ reqs[r].by = c /\ reqs[r].result = "none"
        BY <2>4, CurrentIs DEF Handled
      <3>2. reqs'[r].result = "none" => at'[c] \in Away
        BY <2>1, <3>1 DEF IInv, CallersSound
      <3>3. CASE ParkedAgain(r)
        BY <1>1, <2>1, <2>2, <3>1, <3>2, <3>3 DEF ParkedAgain, Away
      <3>4. CASE Ends(c, r)
        BY <1>2, <2>1, <2>2, <3>1, <3>4 DEF Ends, Soon
      <3>5. QED
        BY <2>4, <3>3, <3>4 DEF Handled
    <2>5. QED
      BY <2>1, <2>3, <2>4
  <1>8. QED
    BY <1>3, <1>4, <1>6, <1>7, StaysOnTheWay

(* A frame joins the end of the inbox. *)
LEMMA InboxGrows ==
    ASSUME Typed, NoTurn, NEW kind \in {"answer", "progress"}, NEW r \in Nat,
           ClientSends(kind, r)
    PROVE  /\ NoTurn' /\ at' = at /\ tracked' = tracked /\ reader' = reader
           /\ \A i \in 1..Len(inbox) : \E j \in 1..Len(inbox') : inbox'[j] = inbox[i]
           /\ InInbox(kind, r)'
  <1> DEFINE f == [kind |-> kind, id |-> r]
  <1>1. f \in Frame /\ f.kind = kind /\ f.id = r
    BY DEF Frame
  <1>2. /\ inbox' = Append(inbox, f) /\ reader' = reader /\ reader # "over"
        /\ at' = at /\ tracked' = tracked
    BY DEF ClientSends
  <1> HIDE DEF f
  <1>3. /\ Len(inbox) \in Nat /\ Len(inbox') = Len(inbox) + 1 /\ inbox'[Len(inbox) + 1] = f
        /\ \A i \in 1..Len(inbox) : inbox'[i] = inbox[i]
    BY <1>1, <1>2, Appended DEF Typed
  <1>4. QED
    BY <1>1, <1>2, <1>3 DEF NoTurn, InInbox

LEMMA ClientAnswersTimely ==
    ASSUME IInv, IInv', TimelyInv, NEW r \in DOMAIN reqs, ClientAnswers(r)
    PROVE  TimelyInv'
  <1>1. Typed /\ Timed(reqs[r]) /\ r \in Nat
    BY Members DEF IInv
  <1> DEFINE e == [reqs[r] EXCEPT !.reply = Reply(reqs[r])]
  <1>2. reqs' = [reqs EXCEPT ![r] = e] /\ ClientSends("answer", r) /\ reqs[r].reply = "none"
    BY DEF ClientAnswers
  <1>3. /\ e.kind = reqs[r].kind /\ e.fut = reqs[r].fut /\ e.result = reqs[r].result
        /\ e.silent = reqs[r].silent /\ e.age = reqs[r].age /\ e.by = reqs[r].by
        /\ e.reply = Reply(reqs[r])
    BY <1>1 DEF Timed, Request
  <1> HIDE DEF e
  <1>4. /\ e.reply \in Soon => InTime(reqs[r])
        /\ e.reply = "timely" => at[reqs[r].by] # "sending"
    BY <1>3 DEF Reply, Soon
  <1>5. /\ NoTurn' /\ at' = at
        /\ \A i \in 1..Len(inbox) : \E j \in 1..Len(inbox') : inbox'[j] = inbox[i]
        /\ InInbox("answer", r)'
    BY <1>1, <1>2, InboxGrows DEF TimelyInv
  <1>6. /\ DOMAIN reqs' = DOMAIN reqs /\ reqs'[r] = e
        /\ \A q \in DOMAIN reqs : q # r => reqs'[q] = reqs[q]
    BY <1>2
  <1>7. ASSUME NEW q \in DOMAIN reqs', reqs'[q].reply \in Soon, Unanswered(q)'
        PROVE  OnTheWay(q)'
    <2>1. CASE q = r
      <3>1. IdleLeft(e) > 0 /\ HardLeft(e) > 0
        BY <1>3, <1>4, <1>6, <1>7, <2>1 DEF InTime, IdleLeft, HardLeft
      <3>2. QED
        BY <1>5, <1>6, <2>1, <3>1 DEF OnTheWay
    <2>2. CASE q # r
      <3>1. OnTheWay(q) /\ reqs'[q] = reqs[q]
        BY <1>6, <1>7, <2>2 DEF TimelyInv, AnswersOnTheWay, Unanswered
      <3>2. QED
        BY <1>5, <3>1 DEF OnTheWay, InInbox
    <2>3. QED
      BY <2>1, <2>2
  <1>8. AnswersUsed'
    <2>1. InTime(reqs[r]) => reqs[r].result = "none" /\ at[reqs[r].by] \in Away
      BY DEF InTime, IInv, CallersSound
    <2>2. QED
      BY <1>3, <1>4, <1>5, <1>6, <2>1 DEF TimelyInv, AnswersUsed, Soon, Away
  <1>9. QED
    BY <1>5, <1>7, <1>8 DEF TimelyInv, AnswersOnTheWay

(* The client's report leaves the request as it was, but for the history. *)
LEMMA ClientReportsOne ==
    ASSUME IInv, NoTurn, NEW r \in DOMAIN reqs, ClientReports(r)
    PROVE  /\ Kept(reqs') /\ NoTurn' /\ at' = at /\ tracked' = tracked /\ reader' = reader
           /\ \A i \in 1..Len(inbox) : \E j \in 1..Len(inbox') : inbox'[j] = inbox[i]
           /\ InInbox("progress", r)'
           /\ \A q \in DOMAIN reqs :
                 /\ reqs'[q].reply = reqs[q].reply
                 /\ reqs'[q].silent = reqs[q].silent /\ reqs'[q].age = reqs[q].age
                 /\ \/ reqs'[q].quiet = reqs[q].quiet
                    \/ q = r /\ InTime(reqs[r]) /\ reqs'[r].quiet = 0
  <1>1. Typed /\ r \in Nat /\ \A q \in DOMAIN reqs : Timed(reqs[q])
    BY Members DEF IInv
  <1> DEFINE k == IF InTime(reqs[r]) THEN 0 ELSE reqs[r].quiet
             e == [reqs[r] EXCEPT !.told = TRUE, !.quiet = k]
  <1>2. reqs' = [reqs EXCEPT ![r] = e] /\ ClientSends("progress", r)
    BY <1>1 DEF ClientReports, Timed, Request
  <1>3. k \in 0..Idle[reqs[r].kind] /\ k \in Nat
    BY <1>1, Members DEF Timed, Request
  <1>4. k = reqs[r].quiet \/ (InTime(reqs[r]) /\ k = 0)
    OBVIOUS
  <1> HIDE DEF k
  <1>5. /\ Timed(e) /\ e.by = reqs[r].by /\ e.kind = reqs[r].kind /\ e.fut = reqs[r].fut
        /\ e.result = reqs[r].result /\ e.orphan = reqs[r].orphan
        /\ e.reply = reqs[r].reply /\ e.silent = reqs[r].silent /\ e.age = reqs[r].age
        /\ e.quiet = k
    BY <1>1, <1>3 DEF Timed, Request
  <1> HIDE DEF e
  <1>6. Kept(reqs')
    BY <1>1, <1>2, <1>5, Amends
  <1>7. /\ NoTurn' /\ at' = at /\ tracked' = tracked /\ reader' = reader
        /\ \A i \in 1..Len(inbox) : \E j \in 1..Len(inbox') : inbox'[j] = inbox[i]
        /\ InInbox("progress", r)'
    BY <1>1, <1>2, InboxGrows
  <1>8. \A q \in DOMAIN reqs : reqs'[q] = IF q = r THEN e ELSE reqs[q]
    BY <1>2
  <1>9. QED
    BY <1>4, <1>5, <1>6, <1>7, <1>8

LEMMA ClientReportsTimely ==
    ASSUME IInv, IInv', TimelyInv, NEW r \in DOMAIN reqs, ClientReports(r)
    PROVE  TimelyInv'
  <1>1. /\ Kept(reqs') /\ NoTurn' /\ at' = at
        /\ \A i \in 1..Len(inbox) : \E j \in 1..Len(inbox') : inbox'[j] = inbox[i]
        /\ \A q \in DOMAIN reqs :
              /\ reqs'[q].reply = reqs[q].reply
              /\ reqs'[q].silent = reqs[q].silent /\ reqs'[q].age = reqs[q].age
    BY ClientReportsOne DEF TimelyInv
  <1>2. AnswersUsed'
    BY <1>1, StillUsed DEF TimelyInv
  <1>3. \A q \in DOMAIN reqs : reqs[q].silent \in Nat /\ reqs[q].age \in Nat
    BY Members DEF IInv, Timed, Request
  <1>4. QED
    BY <1>1, <1>2, <1>3, StaysOnTheWay DEF Unanswered, Kept

(* What the receive loop does to the requests and to the inbox: the frame  *)
(* at its head is used, and the others move up. *)
LEMMA ReceivesOne ==
    ASSUME IInv, NoTurn, Receives
    PROVE  /\ Kept(reqs') /\ NoTurn' /\ at' = at /\ tracked' = tracked /\ reader' = reader
           /\ \A r \in DOMAIN reqs :
                 /\ reqs'[r].reply = reqs[r].reply /\ reqs'[r].age = reqs[r].age
                 /\ reqs'[r].quiet = reqs[r].quiet
                 /\ reqs'[r].silent = reqs[r].silent \/ reqs'[r].silent = 0
           /\ \A r \in DOMAIN reqs :
                 /\ InInbox("answer", r) => InInbox("answer", r)' \/ Resolve(r)
                 /\ InInbox("progress", r) => InInbox("progress", r)' \/ Note(r)
  <1>1. /\ Typed /\ \A q \in DOMAIN reqs : Timed(reqs[q])
        /\ inbox \in Seq(Frame) /\ inbox # << >> /\ inbox' = Tail(inbox)
        /\ at' = at /\ tracked' = tracked /\ reader = "free"
    BY Members DEF IInv, Receives, Typed
  <1>2. /\ Len(inbox) \in Nat /\ Len(inbox) > 0 /\ Len(inbox') = Len(inbox) - 1
        /\ Head(inbox) = inbox[1]
        /\ \A i \in 1..Len(inbox') : inbox'[i] = inbox[i + 1]
    BY <1>1, HeadTailProperties, LenProperties, EmptySeq
  <1>3. Head(inbox).kind # "text"
    BY <1>2 DEF NoTurn
  <1>4. /\ reader' = reader
        /\ \/ Head(inbox).kind = "answer" /\ Resolve(Head(inbox).id)
           \/ Head(inbox).kind = "progress" /\ Note(Head(inbox).id)
    BY <1>3 DEF Receives
  <1>5. NoTurn'
    BY <1>1, <1>2, <1>4 DEF NoTurn
  <1>6. Kept(reqs')
    BY <1>1, <1>4, ResolveKept, NoteKept
  <1>7. \A r \in DOMAIN reqs :
           /\ reqs'[r].reply = reqs[r].reply /\ reqs'[r].age = reqs[r].age
           /\ reqs'[r].quiet = reqs[r].quiet
           /\ reqs'[r].silent = reqs[r].silent \/ reqs'[r].silent = 0
    <2>1. ASSUME NEW n, Resolve(n), NEW r \in DOMAIN reqs
          PROVE  /\ reqs'[r].reply = reqs[r].reply /\ reqs'[r].age = reqs[r].age
                 /\ reqs'[r].quiet = reqs[r].quiet /\ reqs'[r].silent = reqs[r].silent
      BY <1>1, <2>1 DEF Resolve, Timed, Request, Typed
    <2>2. ASSUME NEW n, Note(n), NEW r \in DOMAIN reqs
          PROVE  /\ reqs'[r].reply = reqs[r].reply /\ reqs'[r].age = reqs[r].age
                 /\ reqs'[r].quiet = reqs[r].quiet
                 /\ reqs'[r].silent = reqs[r].silent \/ reqs'[r].silent = 0
      BY <1>1, <2>2 DEF Note, Timed, Request, Typed
    <2>3. QED
      BY <1>4, <2>1, <2>2
  <1>8. ASSUME NEW r \in DOMAIN reqs, NEW kind \in {"answer", "progress"}, InInbox(kind, r)
        PROVE  InInbox(kind, r)' \/ (Head(inbox).kind = kind /\ Head(inbox).id = r)
    <2>1. PICK i \in 1..Len(inbox) : inbox[i].kind = kind /\ inbox[i].id = r
      BY <1>8 DEF InInbox
    <2>2. CASE i = 1
      BY <1>2, <2>1, <2>2
    <2>3. CASE i # 1
      <3>1. i - 1 \in 1..Len(inbox') /\ inbox'[i - 1] = inbox[i]
        BY <1>2, <2>1, <2>3
      <3>2. QED
        BY <2>1, <3>1 DEF InInbox
    <2>4. QED
      BY <2>2, <2>3
  <1>9. \A r \in DOMAIN reqs :
           /\ InInbox("answer", r) => InInbox("answer", r)' \/ Resolve(r)
           /\ InInbox("progress", r) => InInbox("progress", r)' \/ Note(r)
    BY <1>4, <1>8
  <1>10. QED
    BY <1>1, <1>4, <1>5, <1>6, <1>7, <1>9

(* The frame that is received is the answer of one request, and hands it   *)
(* over, or it is not an answer. *)
LEMMA ReceivesTimely ==
    ASSUME IInv, IInv', TimelyInv, Receives
    PROVE  TimelyInv'
  <1>1. /\ Kept(reqs') /\ NoTurn' /\ at' = at
        /\ \A r \in DOMAIN reqs :
              /\ reqs'[r].reply = reqs[r].reply /\ reqs'[r].age = reqs[r].age
              /\ reqs'[r].silent = reqs[r].silent \/ reqs'[r].silent = 0
              /\ InInbox("answer", r) => InInbox("answer", r)' \/ Resolve(r)
    BY ReceivesOne DEF TimelyInv
  <1>2. /\ Typed /\ UnansweredAreKept
        /\ \A r \in DOMAIN reqs : reqs[r] \in Request /\ reqs[r].kind \in Kinds
        /\ \A k \in Kinds : Idle[k] \in Nat \ {0}
    BY Members DEF IInv, Timed, Request
  <1>3. ASSUME NEW r \in DOMAIN reqs', reqs'[r].reply \in Soon, Unanswered(r)'
        PROVE  OnTheWay(r)'
    <2>1. /\ r \in DOMAIN reqs /\ reqs[r].reply \in Soon /\ Unanswered(r)
          /\ reqs'[r].kind = reqs[r].kind
      BY <1>1, <1>3 DEF Kept, Unanswered
    <2>2. OnTheWay(r) /\ r \in pending
      BY <1>2, <2>1 DEF TimelyInv, AnswersOnTheWay, UnansweredAreKept
    <2>3. IdleLeft(reqs'[r]) > 0 /\ HardLeft(reqs'[r]) > 0
      <3>1. HardLeft(reqs'[r]) = HardLeft(reqs[r])
        BY <1>1, <2>1 DEF HardLeft
      <3>2. \/ IdleLeft(reqs'[r]) = IdleLeft(reqs[r])
            \/ IdleLeft(reqs'[r]) = Idle[reqs[r].kind] - 0
        BY <1>1, <2>1 DEF IdleLeft
      <3>3. QED
        BY <1>2, <2>1, <2>2, <3>1, <3>2 DEF OnTheWay
    <2>4. ~Resolve(r)
      <3> SUFFICES ASSUME Resolve(r) PROVE FALSE
        OBVIOUS
      <3>1. reqs'[r].fut = "answer"
        BY <1>2, <2>1, <2>2 DEF Resolve, Unanswered, Request, Typed
      <3>2. QED
        BY <1>3, <3>1 DEF Unanswered
    <2>5. QED
      BY <1>1, <2>1, <2>2, <2>3, <2>4 DEF OnTheWay
  <1>4. AnswersUsed'
    BY <1>1, StillUsed DEF TimelyInv
  <1>5. QED
    BY <1>1, <1>3, <1>4 DEF TimelyInv, AnswersOnTheWay

LEMMA DisconnectsTimely ==
    ASSUME IInv, IInv', TimelyInv, Disconnects
    PROVE  TimelyInv'
  <1>1. /\ Typed /\ UnansweredAreKept /\ reqs' = FailAll /\ inbox' = << >> /\ reader' = "over"
        /\ at' = at /\ \A q \in DOMAIN reqs : Timed(reqs[q])
    BY Members DEF IInv, Disconnects
  <1>2. Kept(reqs') /\ \A r \in pending : reqs'[r].fut # "pending"
    BY <1>1, FailAllKept
  <1>3. \A r \in DOMAIN reqs' : ~Unanswered(r)'
    BY <1>1, <1>2 DEF UnansweredAreKept, Unanswered, Kept
  <1>4. \A r \in DOMAIN reqs : reqs'[r].reply = reqs[r].reply
    BY <1>1 DEF FailAll, Timed, Request
  <1>5. NoTurn'
    BY <1>1 DEF NoTurn
  <1>6. AnswersUsed'
    BY <1>1, <1>2, <1>4, StillUsed DEF TimelyInv
  <1>7. QED
    BY <1>3, <1>5, <1>6 DEF TimelyInv, AnswersOnTheWay

(* Time passes only when the inbox of a session that still reads is empty: *)
(* no frame is then on its way. *)
LEMMA TickOne ==
    ASSUME IInv, NoTurn, Tick
    PROVE  /\ Kept(reqs') /\ NoTurn' /\ at' = at /\ tracked' = tracked /\ reader' = reader
           /\ \A kind, r : ~InInbox(kind, r)
           /\ \A r \in DOMAIN reqs :
                 /\ reqs'[r].reply = reqs[r].reply /\ reqs'[r].fut = reqs[r].fut
                 /\ reqs[r].result = "none" =>
                       /\ reqs'[r].silent = Least(reqs[r].silent + 1, Idle[reqs[r].kind])
                       /\ reqs'[r].quiet = Least(reqs[r].quiet + 1, Idle[reqs[r].kind])
  <1>1. /\ \A r \in DOMAIN reqs : Timed(reqs[r])
        /\ reqs' = [r \in DOMAIN reqs |->
                       IF reqs[r].result = "none"
                       THEN Later(reqs[r], at[reqs[r].by] = "waiting") ELSE reqs[r]]
        /\ inbox' = inbox /\ reader' = reader /\ at' = at /\ tracked' = tracked
        /\ inbox \in Seq(Frame) /\ reader \in {"free", "turn", "over"}
    BY Members DEF IInv, Tick, Typed, TypeOK
  <1>2. Len(inbox) = 0
    <2>1. reader = "free" => inbox = << >>
      BY DEF Tick, Busy
    <2>2. QED
      BY <1>1, <2>1 DEF NoTurn
  <1>3. \A kind, r : ~InInbox(kind, r)
    BY <1>2 DEF InInbox
  <1>4. \A r \in DOMAIN reqs :
           /\ reqs'[r].reply = reqs[r].reply /\ reqs'[r].fut = reqs[r].fut
           /\ reqs[r].result = "none" =>
                 /\ reqs'[r].silent = Least(reqs[r].silent + 1, Idle[reqs[r].kind])
                 /\ reqs'[r].quiet = Least(reqs[r].quiet + 1, Idle[reqs[r].kind])
    BY <1>1, LaterTimed
  <1>5. Kept(reqs')
    BY TickKept DEF IInv
  <1>6. NoTurn'
    BY <1>1 DEF NoTurn
  <1>7. QED
    BY <1>1, <1>3, <1>4, <1>5, <1>6

LEMMA TickTimely ==
    ASSUME IInv, IInv', TimelyInv, Tick
    PROVE  TimelyInv'
  <1>1. /\ Kept(reqs') /\ NoTurn' /\ at' = at /\ \A kind, r : ~InInbox(kind, r)
        /\ \A r \in DOMAIN reqs : reqs'[r].reply = reqs[r].reply /\ reqs'[r].fut = reqs[r].fut
    BY TickOne DEF TimelyInv
  <1>2. \A r \in DOMAIN reqs : ~(reqs[r].reply \in Soon /\ Unanswered(r))
    BY <1>1 DEF TimelyInv, AnswersOnTheWay, OnTheWay
  <1>3. AnswersOnTheWay'
    BY <1>1, <1>2 DEF AnswersOnTheWay, Unanswered, Kept
  <1>4. AnswersUsed'
    BY <1>1, StillUsed DEF TimelyInv
  <1>5. QED
    BY <1>1, <1>3, <1>4 DEF TimelyInv

LEMMA TimelyInvariance ==
    ASSUME MaxTurns = 0
    PROVE  Spec => []TimelyInv
  <1>1. Init => TimelyInv
    BY DEF Init, TimelyInv, NoTurn, AnswersOnTheWay, AnswersUsed
  <1>2. IInv /\ IInv' /\ TimelyInv /\ [Next]_vars => TimelyInv'
    <2> SUFFICES ASSUME IInv, IInv', TimelyInv, [Next]_vars PROVE TimelyInv'
      OBVIOUS
    <2>1. ~UserWrites /\ ~TurnEnds
      BY DEF UserWrites, TurnEnds, TimelyInv, NoTurn, IInv, Typed
    <2>2. ASSUME NEW c \in Callers, Calls(c) \/ CallerStep(c) \/ Cancelled(c)
          PROVE  TimelyInv'
      BY <2>2, CallersTimely
    <2>3. ASSUME NEW r \in DOMAIN reqs, ClientAnswers(r) \/ ClientReports(r)
          PROVE  TimelyInv'
      BY <2>3, ClientAnswersTimely, ClientReportsTimely
    <2>4. CASE Receives \/ Disconnects \/ Tick
      BY <2>4, ReceivesTimely, DisconnectsTimely, TickTimely
    <2>5. CASE UNCHANGED vars
      BY <2>5 DEF vars, TimelyInv, NoTurn, AnswersOnTheWay, AnswersUsed, OnTheWay, InInbox,
                 Unanswered
    <2>6. QED
      BY <2>1, <2>2, <2>3, <2>4, <2>5 DEF Next
  <1>3. QED
    BY <1>1, <1>2, Invariance, PTL DEF Spec

(* As long as no text turn occupies the receive loop, an agent that waits  *)
(* and is answered in time gets that answer, unless the session ends or it *)
(* is cancelled, for any timeouts, however close; and the wait does not    *)
(* drop an answer that came before it began. *)
THEOREM TimelyUsed ==
    ASSUME MaxTurns = 0
    PROVE  Spec => []TimelyAnswerIsUsed
  <1>1. TimelyInv => TimelyAnswerIsUsed
    BY DEF TimelyInv, AnswersUsed, TimelyAnswerIsUsed
  <1>2. QED
    BY <1>1, TimelyInvariance, PTL

-----------------------------------------------------------------------------
(* Progress, while no text turn occupies the receive loop *)

(* The server has heard nothing for longer than the client has said        *)
(* nothing only while a report is in the inbox, and the window still open. *)
Heard(r) ==
    reqs[r].quiet < reqs[r].silent => IdleLeft(reqs[r]) > 0 /\ InInbox("progress", r)

HeardInv ==
    reader # "over" =>
        \A r \in DOMAIN reqs : reqs[r].result = "none" => r \in tracked /\ Heard(r)

(* The clocks are numbers within their windows. *)
LEMMA ClocksTyped ==
    ASSUME Typed
    PROVE  \A r \in DOMAIN reqs :
              /\ reqs[r].silent \in Nat /\ reqs[r].quiet \in Nat
              /\ Idle[reqs[r].kind] \in Nat
              /\ reqs[r].silent <= Idle[reqs[r].kind] /\ reqs[r].quiet <= Idle[reqs[r].kind]
  BY Members DEF Timed, Request

LEMMA CallersHeard ==
    ASSUME IInv, IInv', HeardInv, NEW c \in Callers, Calls(c) \/ CallerStep(c) \/ Cancelled(c)
    PROVE  HeardInv'
  <1> SUFFICES ASSUME reader' # "over", NEW r \in DOMAIN reqs', reqs'[r].result = "none"
               PROVE  r \in tracked' /\ Heard(r)'
    BY DEF HeardInv
  <1>1. /\ inbox' = inbox /\ reader' = reader
        /\ Untouched(r) \/ Made(r) \/ Handled(c, r)
    BY CallerStepsQuietly
  <1>2. CASE Untouched(r)
    BY <1>1, <1>2 DEF Untouched, HeardInv, Heard, InInbox, IdleLeft
  <1>3. CASE Made(r)
    <2>1. reqs'[r] \in Request
      <3>1. reqs' \in Seq(Request)
        BY DEF IInv, Typed
      <3>2. QED
        BY <3>1, ElementOfSeq
    <2>2. reqs'[r].quiet \in Nat
      BY <2>1 DEF Request
    <2>3. QED
      BY <1>3, <2>2 DEF Made, Heard
  <1>4. CASE Handled(c, r)
    <2>1. reqs[r].result = "none" /\ r \in DOMAIN reqs /\ ParkedAgain(r)
      BY <1>4, CurrentIs DEF Handled, Ends
    <2>2. QED
      BY <1>1, <2>1 DEF ParkedAgain, HeardInv, Heard, InInbox, IdleLeft
  <1>5. QED
    BY <1>1, <1>2, <1>3, <1>4

LEMMA ClientAnswersHeard ==
    ASSUME IInv, NoTurn, HeardInv, NEW r \in DOMAIN reqs, ClientAnswers(r)
    PROVE  HeardInv'
  <1>1. /\ Typed /\ r \in Nat /\ ClientSends("answer", r)
        /\ reqs' = [reqs EXCEPT ![r].reply = Reply(reqs[r])]
    BY Members DEF IInv, ClientAnswers
  <1>2. /\ tracked' = tracked /\ reader' = reader
        /\ \A i \in 1..Len(inbox) : \E j \in 1..Len(inbox') : inbox'[j] = inbox[i]
    BY <1>1, InboxGrows
  <1>3. \A q \in DOMAIN reqs :
           /\ reqs'[q].result = reqs[q].result /\ reqs'[q].kind = reqs[q].kind
           /\ reqs'[q].silent = reqs[q].silent /\ reqs'[q].quiet = reqs[q].quiet
    BY <1>1, Members DEF Timed, Request
  <1>4. DOMAIN reqs' = DOMAIN reqs
    BY <1>1
  <1>5. QED
    BY <1>2, <1>3, <1>4 DEF HeardInv, Heard, InInbox, IdleLeft

LEMMA ClientReportsHeard ==
    ASSUME IInv, NoTurn, HeardInv, NEW r \in DOMAIN reqs, ClientReports(r)
    PROVE  HeardInv'
  <1>1. /\ Kept(reqs') /\ tracked' = tracked /\ reader' = reader
        /\ \A i \in 1..Len(inbox) : \E j \in 1..Len(inbox') : inbox'[j] = inbox[i]
        /\ InInbox("progress", r)'
        /\ \A q \in DOMAIN reqs :
              /\ reqs'[q].silent = reqs[q].silent
              /\ \/ reqs'[q].quiet = reqs[q].quiet
                 \/ q = r /\ InTime(reqs[r])
    BY ClientReportsOne
  <1> SUFFICES ASSUME reader' # "over", NEW q \in DOMAIN reqs', reqs'[q].result = "none"
               PROVE  q \in tracked' /\ Heard(q)'
    BY DEF HeardInv
  <1>2. /\ q \in DOMAIN reqs /\ q \in tracked' /\ Heard(q)
        /\ IdleLeft(reqs'[q]) = IdleLeft(reqs[q])
    BY <1>1 DEF HeardInv, Kept, IdleLeft
  <1>3. CASE reqs'[q].quiet = reqs[q].quiet
    BY <1>1, <1>2, <1>3 DEF Heard, InInbox
  <1>4. CASE q = r /\ InTime(reqs[r])
    BY <1>1, <1>2, <1>4 DEF Heard, InTime
  <1>5. QED
    BY <1>1, <1>2, <1>3, <1>4

LEMMA ReceivesHeard ==
    ASSUME IInv, NoTurn, HeardInv, Receives
    PROVE  HeardInv'
  <1>1. /\ Kept(reqs') /\ tracked' = tracked /\ reader' = reader
        /\ \A r \in DOMAIN reqs :
              /\ reqs'[r].quiet = reqs[r].quiet
              /\ reqs'[r].silent = reqs[r].silent \/ reqs'[r].silent = 0
              /\ InInbox("progress", r) => InInbox("progress", r)' \/ Note(r)
    BY ReceivesOne
  <1> SUFFICES ASSUME reader' # "over", NEW r \in DOMAIN reqs', reqs'[r].result = "none"
               PROVE  r \in tracked' /\ Heard(r)'
    BY DEF HeardInv
  <1>2. /\ r \in DOMAIN reqs /\ r \in tracked /\ Heard(r) /\ reqs'[r].kind = reqs[r].kind
    BY <1>1 DEF HeardInv, Kept
  <1>3. /\ reqs[r].silent \in Nat /\ reqs[r].quiet \in Nat /\ reqs[r] \in Request
    BY <1>2, Members DEF IInv, Timed, Request
  <1>4. CASE reqs'[r].silent = 0
    BY <1>1, <1>2, <1>3, <1>4 DEF Heard
  <1>5. CASE reqs'[r].silent = reqs[r].silent /\ ~Note(r)
    BY <1>1, <1>2, <1>5 DEF Heard, IdleLeft
  <1>6. Note(r) => reqs'[r].silent = 0
    BY <1>2, <1>3 DEF Note, Request
  <1>7. QED
    BY <1>1, <1>2, <1>4, <1>5, <1>6

LEMMA TickHeard ==
    ASSUME IInv, NoTurn, HeardInv, Tick
    PROVE  HeardInv'
  <1>1. /\ Kept(reqs') /\ tracked' = tracked /\ reader' = reader
        /\ \A kind, r : ~InInbox(kind, r)
        /\ \A r \in DOMAIN reqs : reqs[r].result = "none" =>
              /\ reqs'[r].silent = Least(reqs[r].silent + 1, Idle[reqs[r].kind])
              /\ reqs'[r].quiet = Least(reqs[r].quiet + 1, Idle[reqs[r].kind])
    BY TickOne
  <1> SUFFICES ASSUME reader' # "over", NEW r \in DOMAIN reqs', reqs'[r].result = "none"
               PROVE  r \in tracked' /\ Heard(r)'
    BY DEF HeardInv
  <1>2. r \in DOMAIN reqs /\ reqs[r].result = "none" /\ r \in tracked /\ Heard(r)
    BY <1>1 DEF HeardInv, Kept
  <1>3. /\ reqs[r].silent \in Nat /\ reqs[r].quiet \in Nat /\ Idle[reqs[r].kind] \in Nat
    BY <1>2, ClocksTyped DEF IInv
  <1>4. ~(reqs[r].quiet < reqs[r].silent)
    BY <1>1, <1>2 DEF Heard
  <1>5. ~(reqs'[r].quiet < reqs'[r].silent)
    BY <1>1, <1>2, <1>3, <1>4 DEF Least
  <1>6. QED
    BY <1>1, <1>2, <1>5 DEF Heard

(* Whoever is given up as silent had been silent, by its client's count. *)
LEMMA StepHeeds ==
    ASSUME IInv, TimelyInv, HeardInv, [Next]_vars, reader # "over",
           NEW r \in DOMAIN reqs, reqs[r].result = "none",
           reqs'[r].result \in {"timeout", "stalled"}
    PROVE  reqs[r].quiet = Idle[reqs[r].kind] \/ HardLeft(reqs[r]) = 0
  <1>1. ASSUME Kept(reqs') PROVE FALSE
    BY <1>1 DEF Kept
  <1>2. ASSUME NEW c \in Callers, Calls(c) \/ CallerStep(c) \/ Cancelled(c)
        PROVE  reqs[r].silent = Idle[reqs[r].kind] \/ HardLeft(reqs[r]) = 0
    <2>1. reqs[r].silent \in Nat /\ Idle[reqs[r].kind] \in Nat
          /\ reqs[r].silent <= Idle[reqs[r].kind]
      BY ClocksTyped DEF IInv
    <2>2. r \in DOMAIN reqs'
      BY <1>2, CallerStepsQuietly
    <2>3. Untouched(r) \/ Made(r) \/ Handled(c, r)
      BY <1>2, <2>2, CallerStepsQuietly
    <2>4. Ends(c, r)
      BY <2>3 DEF Untouched, Made, Handled, ParkedAgain
    <2>5. QED
      BY <2>1, <2>4 DEF Ends, GiveUp, IdleLeft
  <1>3. ASSUME NEW c \in Callers, Calls(c) \/ CallerStep(c) \/ Cancelled(c)
        PROVE  reqs[r].quiet = Idle[reqs[r].kind] \/ HardLeft(reqs[r]) = 0
    <2>1. Heard(r) /\ (reqs[r].silent = Idle[reqs[r].kind] \/ HardLeft(reqs[r]) = 0)
      BY <1>2, <1>3 DEF HeardInv
    <2>2. /\ reqs[r].silent \in Nat /\ reqs[r].quiet \in Nat /\ Idle[reqs[r].kind] \in Nat
          /\ reqs[r].silent <= Idle[reqs[r].kind] /\ reqs[r].quiet <= Idle[reqs[r].kind]
      BY ClocksTyped DEF IInv
    <2>3. QED
      BY <2>1, <2>2 DEF Heard, IdleLeft
  <1>4. ASSUME NEW q \in DOMAIN reqs, ClientAnswers(q)
        PROVE  FALSE
    BY <1>4, Members DEF ClientAnswers, IInv, Timed, Request
  <1>5. ASSUME NEW q \in DOMAIN reqs, ClientReports(q)
        PROVE  FALSE
    BY <1>1, <1>5, ClientReportsOne DEF TimelyInv
  <1>6. CASE UserWrites \/ TurnEnds \/ UNCHANGED vars
    BY <1>6 DEF UserWrites, TurnEnds, vars
  <1>7. CASE Receives
    BY <1>1, <1>7, ReceivesOne DEF TimelyInv
  <1>8. CASE Disconnects
    BY <1>1, <1>8, FailAllKept DEF Disconnects, IInv
  <1>9. CASE Tick
    BY <1>1, <1>9, TickOne DEF TimelyInv
  <1>10. QED
    BY <1>3, <1>4, <1>5, <1>6, <1>7, <1>8, <1>9 DEF Next

(* As long as no text turn occupies the receive loop, a client that        *)
(* reports in every idle window is waited for up to the hard limit, for    *)
(* any timeouts and any number of callers. *)
THEOREM ReportsHeeded ==
    ASSUME MaxTurns = 0
    PROVE  Spec => ReportsAreHeeded
  <1>1. Init => HeardInv
    BY DEF Init, HeardInv
  <1>2. IInv /\ IInv' /\ TimelyInv /\ HeardInv /\ [Next]_vars => HeardInv'
    <2> SUFFICES ASSUME IInv, IInv', TimelyInv, HeardInv, [Next]_vars PROVE HeardInv'
      OBVIOUS
    <2>1. NoTurn /\ ~UserWrites /\ ~TurnEnds
      BY DEF UserWrites, TurnEnds, TimelyInv, NoTurn, IInv, Typed
    <2>2. ASSUME NEW c \in Callers, Calls(c) \/ CallerStep(c) \/ Cancelled(c)
          PROVE  HeardInv'
      BY <2>2, CallersHeard
    <2>3. ASSUME NEW r \in DOMAIN reqs, ClientAnswers(r) \/ ClientReports(r)
          PROVE  HeardInv'
      BY <2>1, <2>3, ClientAnswersHeard, ClientReportsHeard
    <2>4. CASE Receives \/ Tick
      BY <2>1, <2>4, ReceivesHeard, TickHeard
    <2>5. CASE Disconnects
      BY <2>5 DEF Disconnects, HeardInv
    <2>6. CASE UNCHANGED vars
      BY <2>6 DEF vars, HeardInv, Heard, InInbox, IdleLeft
    <2>7. QED
      BY <2>1, <2>2, <2>3, <2>4, <2>5, <2>6 DEF Next
  <1>3. IInv /\ TimelyInv /\ HeardInv /\ [Next]_vars =>
          [reader # "over" =>
              \A r \in DOMAIN reqs :
                  reqs[r].result = "none" /\ reqs'[r].result \in {"timeout", "stalled"} =>
                      reqs[r].quiet = Idle[reqs[r].kind] \/ HardLeft(reqs[r]) = 0]_vars
    BY StepHeeds
  <1>4. QED
    BY <1>1, <1>2, <1>3, Invariance, TimelyInvariance, PTL DEF Spec, ReportsAreHeeded
=============================================================================
