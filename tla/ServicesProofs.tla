--------------------------- MODULE ServicesProofs ---------------------------
(***************************************************************************)
(* Theorems about the parts a session leans on, for any number of callers, *)
(* presses, agents, runs, sockets and events: the entitlement of a user,   *)
(* the routing of model calls, the agents of an execution and the          *)
(* streaming of its events; and about their composition with the filling   *)
(* of blocks, of which EnrichmentProofs has the theorems.                  *)
(***************************************************************************)
EXTENDS MCServices, EnrichmentProofs, FiniteSetTheorems, SequenceTheorems, NaturalsInduction,
        TLAPS

LEMMA FunctionIsSeq ==
    ASSUME NEW S, NEW n \in Nat, NEW s \in [1..n -> S]
    PROVE  s \in Seq(S) /\ Len(s) = n
  OBVIOUS

LEMMA ElementsOf ==
    ASSUME NEW S, NEW s \in Seq(S)
    PROVE  \A i \in DOMAIN s : s[i] \in S
  OBVIOUS

LEMMA LengthZero == ASSUME NEW S, NEW q \in Seq(S), Len(q) = 0 PROVE q = << >>
  OBVIOUS

LEMMA ConcatItems ==
    ASSUME NEW S, NEW u \in Seq(S), NEW r \in Seq(S)
    PROVE  /\ u \o r \in Seq(S) /\ Len(u \o r) = Len(u) + Len(r)
           /\ \A i \in 1..Len(u) : (u \o r)[i] = u[i]
           /\ \A i \in 1..Len(r) : (u \o r)[Len(u) + i] = r[i]
  OBVIOUS

LEMMA AppendItems ==
    ASSUME NEW S, NEW q \in Seq(S), NEW e \in S
    PROVE  /\ Len(q) \in Nat /\ DOMAIN q = 1..Len(q)
           /\ Append(q, e) \in Seq(S) /\ Append(q, e) # <<>>
           /\ Len(Append(q, e)) = Len(q) + 1 /\ DOMAIN Append(q, e) = 1..(Len(q) + 1)
           /\ Append(q, e)[Len(q) + 1] = e
           /\ \A i \in 1..Len(q) : Append(q, e)[i] = q[i]
  OBVIOUS

LEMMA PlaceBeyond ==
    ASSUME NEW n \in Nat, NEW k \in Nat, NEW i \in 1..(n + k), i > n
    PROVE  \E j \in 1..k : i = n + j
  <1>1. i - n \in 1..k /\ i = n + (i - n)
    OBVIOUS
  <1>2. QED
    BY <1>1

(* Every set of naturals that is not empty has a least element. *)
LEMMA LeastNatural ==
    ASSUME NEW T \in SUBSET Nat, T # {}
    PROVE  \E x \in T : \A y \in T : x <= y
  <1>1. PICK x \in T : \A y \in T : ~(<<y, x>> \in OpToRel(<, Nat))
    BY NatLessThanWellFounded, WFMin
  <1>2. ASSUME NEW y \in T
        PROVE  x <= y
    <2>1. ~(y < x)
      BY <1>1 DEF OpToRel
    <2>2. QED
      BY <2>1
  <1>3. QED
    BY <1>2

(* What holds of zero, and of a successor whenever of its predecessor,     *)
(* holds of every natural. *)
LEMMA NatBySteps ==
    ASSUME NEW S \in SUBSET Nat, 0 \in S, \A n \in S : n + 1 \in S
    PROVE  S = Nat
  <1>1. ASSUME Nat \ S # {}
        PROVE  FALSE
    <2>1. PICK x \in Nat \ S : \A y \in Nat \ S : x <= y
      BY <1>1, LeastNatural
    <2>2. x - 1 \in Nat /\ (x - 1) + 1 = x /\ ~(x <= x - 1)
      BY <2>1
    <2>3. x - 1 \in S
      BY <2>1, <2>2
    <2>4. QED
      BY <2>2, <2>3
  <1>2. \A n \in Nat : n \in S
    BY <1>1
  <1>3. QED
    BY <1>2

-----------------------------------------------------------------------------
(* The entitlement of a user *)

(* What a press knows on its way: a paid press still has its plan; an      *)
(* answer it is storing came from the backend, and says yes to a user who  *)
(* has paid; a second look never decides by the hot entry; and a refusal   *)
(* is the end of a press. *)
Honest(q) ==
    /\ q.paid => plan
    /\ q.at \in {"storeHot", "storeLkg"} => q.basis = "backend"
    /\ (q.paid /\ q.basis = "backend" /\ q.at \in {"storeHot", "storeLkg", "decide"}) => q.got.yes
    /\ (q.look = 2 /\ q.at = "decide") => q.basis \in {"backend", "known", "fallback"}
    /\ q.look = 2 => q.at # "hot"
    /\ q.verdict = "refused" => /\ q.at = "done"
                                /\ q.basis # "hot"
                                /\ q.paid => q.basis \in {"known", "fallback"}

PressesHonest == \A p \in Presses : Honest(press[p])

(* While nothing overlapped and nothing failed, at most one press is       *)
(* between its answer and its second write; its answer is the latest; and  *)
(* an entry that is not about to be written holds the latest answer. *)
CachesOnTheirWay ==
    (~raced /\ ~failed) =>
        /\ \A p, q \in Presses : Resolving(p) /\ Resolving(q) => p = q
        /\ \A p \in Presses : Resolving(p) => press[p].got.at = answered.count
        /\ Cached(cached.hot) => \/ cached.hot.at = answered.count
                                 \/ \E p \in Presses : press[p].at = "storeHot"
        /\ Cached(cached.lkg) => \/ cached.lkg.at = answered.count
                                 \/ \E p \in Presses : Resolving(p)

AccessInv == EntitlementsTypeOK /\ PressesHonest /\ CachesOnTheirWay

LEMMA EntryTyped == Empty \in Entry
  BY EntitlementsAssumption DEF Empty, Entry

LEMMA AccessInitTyped == EntitlementsInit => EntitlementsTypeOK
  <1> SUFFICES ASSUME EntitlementsInit
               PROVE  EntitlementsTypeOK
    OBVIOUS
  <1>1. answered \in [count : 0..MaxAnswers, yes : BOOLEAN] /\ changes \in 0..MaxChanges
    BY EntitlementsAssumption DEF EntitlementsInit
  <1>2. cached \in [hot : Entry, lkg : Entry]
    BY EntryTyped DEF EntitlementsInit
  <1>3. press \in [Presses -> [at : Steps, look : 1..3, got : Entry, basis : Bases,
                              verdict : {"none", "allowed", "refused"}, paid : BOOLEAN]]
    BY EntryTyped DEF EntitlementsInit, Steps, Bases
  <1>4. QED
    BY <1>1, <1>2, <1>3 DEF EntitlementsInit, EntitlementsTypeOK

Press == [at : Steps, look : 1..3, got : Entry, basis : Bases,
          verdict : {"none", "allowed", "refused"}, paid : BOOLEAN]

(* What a press may become. *)
LEMMA PressTyped ==
    ASSUME NEW q \in Press
    PROVE  /\ \A step \in Steps : [q EXCEPT !.at = step] \in Press
           /\ \A step \in Steps, verdict \in {"none", "allowed", "refused"} :
                  [q EXCEPT !.at = step, !.verdict = verdict] \in Press
           /\ \A step \in Steps, look \in 1..3 :
                  [q EXCEPT !.at = step, !.look = look] \in Press
           /\ \A known \in BOOLEAN : [q EXCEPT !.paid = known] \in Press
  BY DEF Press

(* The two ways a step writes its press. *)
LEMMA GoesTyped ==
    ASSUME NEW p \in Presses, NEW step \in Steps, press \in [Presses -> Press], Goes(p, step)
    PROVE  press' \in [Presses -> Press]
  <1>1. [press[p] EXCEPT !.at = step] \in Press
    BY PressTyped
  <1>2. QED
    BY <1>1 DEF Goes

LEMMA GetsTyped ==
    ASSUME NEW p \in Presses, NEW step \in Steps, NEW entry \in Entry, NEW basis \in Bases,
           press \in [Presses -> Press], Gets(p, entry, basis, step)
    PROVE  press' \in [Presses -> Press]
  <1>1. [press[p] EXCEPT !.got = entry, !.basis = basis, !.at = step] \in Press
    <2>1. press[p] \in Press
      OBVIOUS
    <2>2. QED
      BY <2>1 DEF Press
  <1>2. QED
    BY <1>1 DEF Gets

LEMMA AccessTypeStep == EntitlementsTypeOK /\ [EntitlementsNext]_accessVars => EntitlementsTypeOK'
  <1> SUFFICES ASSUME EntitlementsTypeOK, [EntitlementsNext]_accessVars
               PROVE  EntitlementsTypeOK'
    OBVIOUS
  <1> USE EntitlementsAssumption
  <1>t. /\ press \in [Presses -> Press]
        /\ cached \in [hot : Entry, lkg : Entry]
        /\ answered \in [count : 0..MaxAnswers, yes : BOOLEAN]
        /\ plan \in BOOLEAN /\ failed \in BOOLEAN
    BY DEF EntitlementsTypeOK, Press
  <1>c. /\ {"fetch", "storeHot", "storeLkg", "known", "decide"} \subseteq Steps
        /\ {"hot", "backend", "known", "fallback"} \subseteq Bases
    BY DEF Steps, Bases
  <1>1. ASSUME NEW p \in Presses, Pressed(p)
        PROVE  EntitlementsTypeOK'
    <2>1. press[p] \in Press
      BY DEF EntitlementsTypeOK, Press
    <2>2. PICK look \in 1..3, verdict \in {"none", "allowed", "refused"} :
              press' = [press EXCEPT ![p].at = "hot", ![p].paid = plan,
                                     ![p].look = look, ![p].verdict = verdict]
      <3>1. CASE policy.enforced
        <4> WITNESS 1 \in 1..3, "none" \in {"none", "allowed", "refused"}
        <4> QED
          BY <1>1, <3>1 DEF Pressed
      <3>2. CASE ~policy.enforced
        <4> WITNESS 3 \in 1..3, "allowed" \in {"none", "allowed", "refused"}
        <4> QED
          BY <1>1, <3>2 DEF Pressed
      <3>3. QED
        BY <3>1, <3>2
    <2>3. press' \in [Presses -> Press]
      BY <2>1, <2>2 DEF EntitlementsTypeOK, Press, Steps
    <2>4. QED
      BY <1>1, <2>3 DEF Pressed, EntitlementsTypeOK, Press
  <1>2. ASSUME NEW p \in Presses, ReadsHot(p)
        PROVE  EntitlementsTypeOK'
    <2>1. cached.hot \in Entry
      BY <1>t
    <2>2. press' \in [Presses -> Press]
      <3>1. CASE Gets(p, cached.hot, "hot", "decide")
        BY <1>t, <1>c, <2>1, <3>1, GetsTyped
      <3>2. CASE Goes(p, "fetch")
        BY <1>t, <1>c, <3>2, GoesTyped
      <3>3. QED
        BY <1>2, <3>1, <3>2 DEF ReadsHot
    <2>3. QED
      BY <1>2, <2>2 DEF ReadsHot, EntitlementsTypeOK, Press
  <1>3. ASSUME NEW p \in Presses, BackendAnswers(p)
        PROVE  EntitlementsTypeOK'
    <2>1. answered.count + 1 \in 0..MaxAnswers
      BY <1>3 DEF BackendAnswers, EntitlementsTypeOK
    <2>2. answered' \in [count : 0..MaxAnswers, yes : BOOLEAN]
      BY <1>3, <1>t, <2>1 DEF BackendAnswers
    <2>3. [yes |-> plan, at |-> answered'.count] \in Entry
      BY <1>3, <1>t, <2>1 DEF BackendAnswers, Entry
    <2>4. press' \in [Presses -> Press]
      BY <1>3, <1>t, <1>c, <2>3, GetsTyped DEF BackendAnswers
    <2>5. raced' \in BOOLEAN
      BY <1>3 DEF BackendAnswers
    <2>6. QED
      BY <1>3, <2>2, <2>4, <2>5 DEF BackendAnswers, EntitlementsTypeOK, Press
  <1>4. ASSUME NEW p \in Presses, BackendFails(p)
        PROVE  EntitlementsTypeOK'
    <2>1. press' \in [Presses -> Press]
      BY <1>4, <1>t, <1>c, GoesTyped DEF BackendFails
    <2>2. QED
      BY <1>4, <2>1 DEF BackendFails, EntitlementsTypeOK, Press
  <1>5. ASSUME NEW p \in Presses, StoresHot(p)
        PROVE  EntitlementsTypeOK'
    <2>1. cached' \in [hot : Entry, lkg : Entry] /\ failed' \in BOOLEAN
      BY <1>5, <1>t DEF StoresHot, EntitlementsTypeOK, Press
    <2>2. press' \in [Presses -> Press]
      BY <1>5, <1>t, <1>c, GoesTyped DEF StoresHot
    <2>3. QED
      BY <1>5, <2>1, <2>2 DEF StoresHot, EntitlementsTypeOK, Press
  <1>6. ASSUME NEW p \in Presses, StoresLkg(p)
        PROVE  EntitlementsTypeOK'
    <2>1. cached' \in [hot : Entry, lkg : Entry] /\ failed' \in BOOLEAN
      BY <1>6, <1>t DEF StoresLkg, EntitlementsTypeOK, Press
    <2>2. press' \in [Presses -> Press]
      BY <1>6, <1>t, <1>c, GoesTyped DEF StoresLkg
    <2>3. QED
      BY <1>6, <2>1, <2>2 DEF StoresLkg, EntitlementsTypeOK, Press
  <1>7. ASSUME NEW p \in Presses, ReadsLkg(p)
        PROVE  EntitlementsTypeOK'
    <2>1. [Empty EXCEPT !.yes = policy.fallback] \in Entry
      BY EntryTyped DEF EntitlementsTypeOK, Entry, Empty
    <2>2. press' \in [Presses -> Press]
      <3>1. CASE Gets(p, cached.lkg, "known", "decide")
        <4>1. cached.lkg \in Entry
          BY <1>t
        <4>2. QED
          BY <1>t, <1>c, <3>1, <4>1, GetsTyped
      <3>2. CASE Gets(p, [Empty EXCEPT !.yes = policy.fallback], "fallback", "decide")
        BY <1>t, <1>c, <2>1, <3>2, GetsTyped
      <3>3. QED
        BY <1>7, <3>1, <3>2 DEF ReadsLkg
    <2>3. QED
      BY <1>7, <2>2 DEF ReadsLkg, EntitlementsTypeOK, Press
  <1>8. ASSUME NEW p \in Presses, Decides(p)
        PROVE  EntitlementsTypeOK'
    <2>1. press[p] \in Press
      BY DEF EntitlementsTypeOK, Press
    <2>2. PICK q \in Press : press' = [press EXCEPT ![p] = q]
      <3>1. /\ {"done", "fetch"} \subseteq Steps /\ 2 \in 1..3
            /\ {"allowed", "refused"} \subseteq {"none", "allowed", "refused"}
        BY DEF Steps
      <3>2. /\ [press[p] EXCEPT !.at = "done"] \in Press
            /\ [press[p] EXCEPT !.at = "done", !.verdict = "allowed"] \in Press
            /\ [press[p] EXCEPT !.at = "done", !.verdict = "refused"] \in Press
            /\ [press[p] EXCEPT !.at = "fetch", !.look = 2] \in Press
        BY <2>1, <3>1, PressTyped
      <3>3. QED
        BY <1>8, <3>2 DEF Decides
    <2>3. press' \in [Presses -> Press]
      BY <2>2 DEF EntitlementsTypeOK, Press
    <2>4. QED
      BY <1>8, <2>3 DEF Decides, EntitlementsTypeOK, Press
  <1>9. CASE HotExpires \/ LkgExpires
    BY <1>9, EntryTyped DEF HotExpires, LkgExpires, EntitlementsTypeOK
  <1>10. CASE PlanChanges
    <2>1. \A p \in Presses : [press[p] EXCEPT !.paid = FALSE] \in Press
      BY <1>t, PressTyped
    <2>2. press' \in [Presses -> Press]
      BY <1>10, <2>1 DEF PlanChanges
    <2>3. changes' \in 0..MaxChanges /\ plan' \in BOOLEAN
      BY <1>10 DEF PlanChanges, EntitlementsTypeOK
    <2>4. QED
      BY <1>10, <2>2, <2>3 DEF PlanChanges, EntitlementsTypeOK, Press
  <1>11. CASE UNCHANGED accessVars
    BY <1>11 DEF accessVars, EntitlementsTypeOK
  <1>12. QED
    BY <1>1, <1>2, <1>3, <1>4, <1>5, <1>6, <1>7, <1>8, <1>9, <1>10, <1>11 DEF EntitlementsNext

LEMMA HonestStep ==
    EntitlementsTypeOK /\ PressesHonest /\ [EntitlementsNext]_accessVars => PressesHonest'
  <1> SUFFICES ASSUME EntitlementsTypeOK, PressesHonest, [EntitlementsNext]_accessVars,
                      NEW r \in Presses
               PROVE  Honest(press[r])'
    BY DEF PressesHonest
  <1> USE DEF EntitlementsTypeOK, PressesHonest, Honest
  <1>1. ASSUME NEW p \in Presses, Pressed(p)
        PROVE  Honest(press[r])'
    BY <1>1 DEF Pressed
  <1>2. ASSUME NEW p \in Presses, ReadsHot(p)
        PROVE  Honest(press[r])'
    BY <1>2 DEF ReadsHot, Gets, Goes
  <1>3. ASSUME NEW p \in Presses, BackendAnswers(p)
        PROVE  Honest(press[r])'
    BY <1>3 DEF BackendAnswers, Gets
  <1>4. ASSUME NEW p \in Presses, BackendFails(p)
        PROVE  Honest(press[r])'
    BY <1>4 DEF BackendFails, Goes
  <1>5. ASSUME NEW p \in Presses, StoresHot(p)
        PROVE  Honest(press[r])'
    BY <1>5 DEF StoresHot, Goes
  <1>6. ASSUME NEW p \in Presses, StoresLkg(p)
        PROVE  Honest(press[r])'
    BY <1>6 DEF StoresLkg, Goes
  <1>7. ASSUME NEW p \in Presses, ReadsLkg(p)
        PROVE  Honest(press[r])'
    BY <1>7 DEF ReadsLkg, Gets
  <1>8. ASSUME NEW p \in Presses, Decides(p)
        PROVE  Honest(press[r])'
    BY <1>8 DEF Decides
  <1>9. CASE HotExpires \/ LkgExpires
    BY <1>9 DEF HotExpires, LkgExpires
  <1>10. CASE PlanChanges
    BY <1>10 DEF PlanChanges
  <1>11. CASE UNCHANGED accessVars
    BY <1>11 DEF accessVars
  <1>12. QED
    BY <1>1, <1>2, <1>3, <1>4, <1>5, <1>6, <1>7, <1>8, <1>9, <1>10, <1>11 DEF EntitlementsNext

LEMMA CacheStep ==
    EntitlementsTypeOK /\ CachesOnTheirWay /\ [EntitlementsNext]_accessVars => CachesOnTheirWay'
  <1> SUFFICES ASSUME EntitlementsTypeOK, CachesOnTheirWay, [EntitlementsNext]_accessVars,
                      ~raced', ~failed'
               PROVE  CachesOnTheirWay'
    BY DEF CachesOnTheirWay
  <1> USE DEF EntitlementsTypeOK, CachesOnTheirWay, Resolving, Cached
  <1>1. ASSUME NEW p \in Presses, Pressed(p)
        PROVE  CachesOnTheirWay'
    BY <1>1 DEF Pressed
  <1>2. ASSUME NEW p \in Presses, ReadsHot(p)
        PROVE  CachesOnTheirWay'
    <2>1. /\ press[p].at = "hot" /\ press'[p].at \in {"decide", "fetch"}
          /\ UNCHANGED <<answered, cached, raced, failed>>
      BY <1>2 DEF ReadsHot, Gets, Goes
    <2>2. \A q \in Presses \ {p} : press'[q] = press[q]
      BY <1>2 DEF ReadsHot, Gets, Goes
    <2>3. \A q \in Presses : /\ Resolving(q)' <=> Resolving(q)
                             /\ Resolving(q) => press'[q] = press[q]
                             /\ press'[q].at = "storeHot" <=> press[q].at = "storeHot"
      BY <2>1, <2>2
    <2>4. QED
      BY <2>1, <2>3
  <1>3. ASSUME NEW p \in Presses, BackendAnswers(p)
        PROVE  CachesOnTheirWay'
    BY <1>3 DEF BackendAnswers, Gets
  <1>4. ASSUME NEW p \in Presses, BackendFails(p)
        PROVE  CachesOnTheirWay'
    BY <1>4 DEF BackendFails, Goes
  <1>5. ASSUME NEW p \in Presses, StoresHot(p)
        PROVE  CachesOnTheirWay'
    BY <1>5 DEF StoresHot, Goes
  <1>6. ASSUME NEW p \in Presses, StoresLkg(p)
        PROVE  CachesOnTheirWay'
    BY <1>6 DEF StoresLkg, Goes
  <1>7. ASSUME NEW p \in Presses, ReadsLkg(p)
        PROVE  CachesOnTheirWay'
    BY <1>7 DEF ReadsLkg, Gets
  <1>8. ASSUME NEW p \in Presses, Decides(p)
        PROVE  CachesOnTheirWay'
    BY <1>8 DEF Decides
  <1>9. CASE HotExpires \/ LkgExpires
    BY <1>9 DEF HotExpires, LkgExpires, Empty
  <1>10. CASE PlanChanges
    BY <1>10 DEF PlanChanges
  <1>11. CASE UNCHANGED accessVars
    BY <1>11 DEF accessVars
  <1>12. QED
    BY <1>1, <1>2, <1>3, <1>4, <1>5, <1>6, <1>7, <1>8, <1>9, <1>10, <1>11 DEF EntitlementsNext

LEMMA AccessInvariant == EntitlementsSpec => []AccessInv
  <1>1. EntitlementsInit => AccessInv
    <2> SUFFICES ASSUME EntitlementsInit
                 PROVE  PressesHonest /\ CachesOnTheirWay
      BY AccessInitTyped DEF AccessInv
    <2>1. PressesHonest
      BY DEF EntitlementsInit, PressesHonest, Honest
    <2>2. CachesOnTheirWay
      BY DEF EntitlementsInit, CachesOnTheirWay, Resolving, Cached, Empty
    <2>3. QED
      BY <2>1, <2>2
  <1>2. AccessInv /\ [EntitlementsNext]_accessVars => AccessInv'
    BY AccessTypeStep, HonestStep, CacheStep DEF AccessInv
  <1>3. QED
    BY <1>1, <1>2, PTL DEF EntitlementsSpec

(* Every reachable state has the types its variables claim. *)
THEOREM AccessTyped == EntitlementsSpec => []EntitlementsTypeOK
  <1>1. AccessInv => EntitlementsTypeOK
    BY DEF AccessInv
  <1>2. QED
    BY AccessInvariant, <1>1, PTL

(* may_run_block_agents: however many sessions press, cache and fail at    *)
(* once, no refusal rests on the hot cache, and none befalls a user whose  *)
(* plan had included agents since the press while the backend answered;    *)
(* and _cache_write: at rest, resolutions that neither overlapped nor      *)
(* failed leave nothing in either cache but the backend's latest answer.   *)
THEOREM CurrentEntitlement == EntitlementsSpec => []EntitlementIsCurrent
  <1>1. AccessInv => PaymentIsHonoured
    BY DEF AccessInv, PressesHonest, Honest, PaymentIsHonoured
  <1>2. AccessInv => CachesFollowAnswers
    BY DEF AccessInv, CachesOnTheirWay, CachesFollowAnswers, AtRest, Resolving
  <1>3. QED
    BY AccessInvariant, <1>1, <1>2, PTL DEF EntitlementIsCurrent

-----------------------------------------------------------------------------
(* The routing of model calls *)

(* The latch is the cooldown of the latest rejection, if there was one. *)
LatchSound ==
    IF latch = 0 THEN Rejections = {}
    ELSE \E r \in Rejections : latch = r + Cooldown /\ \A q \in Rejections : q <= r

(* A caller's rejections are a cooldown apart, and over when it is with    *)
(* Claude again; with OpenAI it is for want of a key or in a cooldown. *)
CallSound(p) ==
    /\ \A i \in DOMAIN paid[p] : paid[p][i] <= now
    /\ \A i, j \in DOMAIN paid[p] : i < j => paid[p][i] + Cooldown <= paid[p][j]
    /\ call[p].since <= now
    /\ call[p].stage = "anthropic" =>
          /\ call[p].model = "claude" /\ keys.anthropic
          /\ \A i \in DOMAIN paid[p] : paid[p][i] + Cooldown <= call[p].since
    /\ (call[p].stage = "openai" /\ call[p].model = "claude") =>
          ~keys.anthropic \/ \E r \in Rejections : call[p].since < r + Cooldown

(* A run is answered by the model it asked for or by OpenAI's; by Claude   *)
(* only outside of every cooldown, so that whatever brings it to OpenAI    *)
(* after that is a rejection since it began; and before its first answer   *)
(* it is at its first step, which tells. *)
RunSound(p) ==
    /\ run[p].since <= now
    /\ call[p].stage # "idle" => run[p].going /\ call[p].kind = "tools"
    /\ ~run[p].going => run[p].ran = "none"
    /\ \/ run[p].ran \in {"none", OpenaiModel(call[p].model)}
       \/ run[p].ran = "claude" /\ call[p].model = "claude" /\ keys.anthropic
    /\ (run[p].going /\ run[p].ran = "none") =>
          run[p].steps = IF call[p].stage = "idle" THEN 0 ELSE 1
    /\ (run[p].ran = "claude" \/ call[p].stage = "anthropic") =>
          \A r \in Rejections : r >= run[p].since \/ r + Cooldown <= now
    /\ (run[p].ran = "claude" /\ call[p].stage = "openai") =>
          \E r \in Rejections : r >= run[p].since
    /\ (run[p].ran # "none" /\ call[p].model \notin {"blank", run[p].ran}) =>
          run[p].told \/ \E r \in Rejections : r >= run[p].since

RoutingInv ==
    /\ RoutingTypeOK /\ LatchSound
    /\ \A p \in Callers : CallSound(p)
    /\ \A p \in Talkers : RunSound(p)

LEMMA RoutingClocked ==
    ASSUME RoutingInv
    PROVE  /\ now \in Nat /\ Cooldown \in Nat /\ Cooldown > 0
           /\ Rejections \subseteq Nat /\ \A r \in Rejections : r <= now
           /\ \A p \in Callers : \A i \in DOMAIN paid[p] :
                  paid[p][i] \in Rejections /\ paid[p][i] \in Nat
           /\ \A p \in Callers : call[p].since \in Nat /\ call[p] \in Calls
           /\ \A p \in Talkers : p \in Callers /\ run[p].since \in Nat
  <1> USE DEF RoutingInv, RoutingTypeOK
  <1>1. now \in Nat /\ Cooldown \in Nat /\ Cooldown > 0 /\ Talkers \subseteq Callers
        /\ 0..MaxTime \subseteq Nat
    BY RoutingAssumption
  <1>2. ASSUME NEW p \in Callers
        PROVE  \A i \in DOMAIN paid[p] : paid[p][i] \in Nat
    <2>1. paid[p] \in Seq(0..MaxTime)
      OBVIOUS
    <2>2. \A i \in DOMAIN paid[p] : paid[p][i] \in 0..MaxTime
      BY <2>1, ElementsOf
    <2>3. QED
      BY <1>1, <2>2
  <1>3. \A p \in Callers : \A i \in DOMAIN paid[p] : paid[p][i] \in Rejections
    BY DEF Rejections
  <1>4. Rejections \subseteq Nat /\ \A r \in Rejections : r <= now
    BY <1>2 DEF Rejections, CallSound
  <1>5. \A p \in Callers : call[p].since \in Nat /\ call[p] \in Calls
    BY DEF Calls
  <1>6. \A p \in Talkers : p \in Callers /\ run[p].since \in Nat
    <2>1. \A p \in Talkers : run[p].since \in 0..MaxTime
      OBVIOUS
    <2>2. QED
      BY <1>1, <2>1
  <1>7. QED
    BY <1>1, <1>2, <1>3, <1>4, <1>5, <1>6

(* Where a call goes that was not tried yet: to Claude only outside of     *)
(* every cooldown; from Claude's model to OpenAI only without a key or     *)
(* within one. *)
Fresh(c, p, kind, model) ==
    /\ c.stage = "idle" =>
          c.model = (IF p \in Talkers THEN call[p].model ELSE "blank") /\ c.since = 0
    /\ c.stage # "idle" => c.model = model /\ c.since = now /\ c.kind = kind
    /\ c.stage = "anthropic" =>
          /\ model = "claude" /\ keys.anthropic
          /\ \A r \in Rejections : r + Cooldown <= now
    /\ (c.stage = "openai" /\ model = "claude") =>
          ~keys.anthropic \/ \E r \in Rejections : now < r + Cooldown

LEMMA FreshCall ==
    ASSUME RoutingInv, NEW p \in Callers, NEW kind \in Kinds, NEW model \in Models,
           Tries(p, kind, model, FALSE)
    PROVE  \E c \in Calls : call' = [call EXCEPT ![p] = c] /\ Fresh(c, p, kind, model)
  <1> DEFINE began(stage) == [stage |-> stage, kind |-> kind, model |-> model,
                              since |-> now, rejected |-> FALSE]
             quiet == Quiet(IF p \in Talkers THEN call[p].model ELSE "blank")
  <1>1. /\ began("anthropic") \in Calls /\ began("openai") \in Calls
        /\ began("anthropic").stage = "anthropic" /\ began("openai").stage = "openai"
        /\ began("anthropic").model = model /\ began("openai").model = model
        /\ began("anthropic").since = now /\ began("openai").since = now
        /\ began("anthropic").kind = kind /\ began("openai").kind = kind
    BY RoutingClocked DEF Calls
  <1>2. /\ quiet \in Calls /\ quiet.stage = "idle" /\ quiet.since = 0
        /\ quiet.model = (IF p \in Talkers THEN call[p].model ELSE "blank")
    <2>1. call[p].model \in Models /\ "blank" \in Models /\ "text" \in Kinds
      BY RoutingClocked DEF Calls, Models, Kinds
    <2>2. QED
      BY <2>1 DEF Quiet, Calls
  <1>3. \/ Available(model) /\ call' = [call EXCEPT ![p] = began("anthropic")]
        \/ ~Available(model) /\ call' = [call EXCEPT ![p] = began("openai")]
        \/ ~Available(model) /\ call' = [call EXCEPT ![p] = quiet]
    BY DEF Tries, Ends, RoutingInv, RoutingTypeOK
  <1> HIDE DEF began, quiet
  <1>4. CASE Available(model) /\ call' = [call EXCEPT ![p] = began("anthropic")]
    <2>1. model = "claude" /\ keys.anthropic /\ now >= latch
      BY <1>4 DEF Available, Provider
    <2>2. \A r \in Rejections : r + Cooldown <= now
      <3>1. CASE latch = 0
        BY <3>1 DEF RoutingInv, LatchSound
      <3>2. CASE latch # 0
        <4>1. PICK q \in Rejections : latch = q + Cooldown /\ \A r \in Rejections : r <= q
          BY <3>2 DEF RoutingInv, LatchSound
        <4>2. QED
          BY <2>1, <4>1, RoutingClocked
      <3>3. QED
        BY <3>1, <3>2
    <2>3. QED
      BY <1>1, <1>4, <2>1, <2>2 DEF Fresh
  <1>5. CASE ~Available(model) /\ call' = [call EXCEPT ![p] = began("openai")]
    <2>1. ASSUME model = "claude", keys.anthropic
          PROVE  \E r \in Rejections : now < r + Cooldown
      <3>1. ~(now >= latch)
        BY <1>5, <2>1 DEF Available, Provider
      <3>2. now \in Nat /\ latch \in Nat
        BY RoutingClocked, RoutingAssumption DEF RoutingInv, RoutingTypeOK
      <3>3. latch # 0
        BY <3>1, <3>2
      <3>4. PICK r \in Rejections : latch = r + Cooldown
        BY <3>3 DEF RoutingInv, LatchSound
      <3>5. QED
        BY <3>1, <3>2, <3>4
    <2>2. QED
      BY <1>1, <1>5, <2>1 DEF Fresh
  <1>6. CASE call' = [call EXCEPT ![p] = quiet]
    BY <1>2, <1>6 DEF Fresh
  <1>7. QED
    BY <1>3, <1>4, <1>5, <1>6

(* What a step does not touch stays sound as time goes on and others are   *)
(* rejected. *)
LEMMA OthersRouted ==
    ASSUME RoutingInv, keys' = keys, now' \in Nat, now <= now',
           Rejections \subseteq Rejections', Rejections' \subseteq Rejections \cup {now},
           NEW p \in Callers, call'[p] = call[p], paid'[p] = paid[p],
           p \in Talkers => run'[p] = run[p]
    PROVE  CallSound(p)' /\ (p \in Talkers => RunSound(p)')
  <1>1. CallSound(p)'
    BY RoutingClocked DEF RoutingInv, CallSound
  <1>2. ASSUME p \in Talkers
        PROVE  RunSound(p)'
    <2>1. RunSound(p)
      BY <1>2 DEF RoutingInv
    <2>2. run'[p] = run[p] /\ run[p].since \in Nat /\ run[p].since <= now
      BY <1>2, <2>1, RoutingClocked DEF RunSound
    <2>3. (run[p].ran = "claude" \/ call[p].stage = "anthropic") =>
              \A r \in Rejections' : r >= run[p].since \/ r + Cooldown <= now'
      BY <2>1, <2>2, RoutingClocked DEF RunSound
    <2>4. QED
      BY <2>1, <2>2, <2>3, RoutingClocked DEF RunSound
  <1>3. QED
    BY <1>1, <1>2

(* A caller that rests between calls. *)
LEMMA RestsSound ==
    ASSUME RoutingInv, keys' = keys, now' = now, paid' = paid, NEW p \in Callers,
           call'[p].stage = "idle", call'[p].since = 0
    PROVE  CallSound(p)'
  <1>1. Rejections' = Rejections
    BY DEF Rejections
  <1>2. QED
    BY <1>1, RoutingClocked DEF RoutingInv, CallSound

(* A step of one caller that leaves the latch alone. *)
LEMMA CallerStep ==
    ASSUME RoutingInv, RoutingTypeOK', NEW p \in Callers,
           UNCHANGED <<keys, now, latch, paid>>,
           \A q \in Callers \ {p} : call'[q] = call[q],
           \A q \in Talkers \ {p} : run'[q] = run[q],
           CallSound(p)', p \in Talkers => RunSound(p)'
    PROVE  RoutingInv'
  <1>1. Rejections' = Rejections
    BY DEF Rejections
  <1>2. LatchSound'
    BY <1>1 DEF RoutingInv, LatchSound
  <1>3. now' \in Nat /\ now <= now' /\ Talkers \subseteq Callers
    BY RoutingClocked
  <1>4. ASSUME NEW q \in Callers, q # p
        PROVE  CallSound(q)' /\ (q \in Talkers => RunSound(q)')
    <2>1. call'[q] = call[q] /\ paid'[q] = paid[q] /\ (q \in Talkers => run'[q] = run[q])
      BY <1>4
    <2>2. QED
      BY <1>1, <1>3, <2>1, OthersRouted
  <1>5. QED
    BY <1>2, <1>3, <1>4 DEF RoutingInv

LEMMA CallStartStep ==
    ASSUME RoutingInv, NEW p \in Callers, NEW kind \in Kinds, NEW model \in Models,
           CallStarts(p, kind, model)
    PROVE  RoutingInv'
  <1>1. /\ p \notin Talkers /\ Tries(p, kind, model, FALSE)
        /\ UNCHANGED <<keys, accepted, now, latch, paid, talk, run>>
    BY DEF CallStarts
  <1>2. PICK c \in Calls : call' = [call EXCEPT ![p] = c] /\ Fresh(c, p, kind, model)
    BY <1>1, FreshCall
  <1>3. call'[p] = c /\ \A q \in Callers \ {p} : call'[q] = call[q]
    BY <1>2 DEF RoutingInv, RoutingTypeOK
  <1>4. RoutingTypeOK'
    BY <1>1, <1>2 DEF RoutingInv, RoutingTypeOK
  <1>5. Rejections' = Rejections
    BY <1>1 DEF Rejections
  <1>6. CallSound(p)'
    BY <1>1, <1>2, <1>3, <1>5, RoutingClocked DEF RoutingInv, CallSound, Fresh
  <1>7. QED
    BY <1>1, <1>3, <1>4, <1>6, CallerStep

Runnings == [going : BOOLEAN, since : 0..MaxTime, steps : Nat, told : BOOLEAN,
             ran : {"none", "claude", "gpt", "default"}]

LEMMA RunTyped ==
    /\ Idle \in Runnings
    /\ ~Idle.going /\ Idle.since = 0 /\ Idle.steps = 0 /\ Idle.ran = "none"
  BY RoutingAssumption DEF Idle, Runnings

LEMMA StepCounted ==
    ASSUME NEW q \in Runnings, NEW n \in Nat
    PROVE  [q EXCEPT !.steps = n] \in Runnings
  BY Zenon DEF Runnings

(* A block agent that rests has nothing to answer for. *)
LEMMA RestingRun ==
    ASSUME RoutingInv, NEW p \in Talkers, run'[p] = Idle, call'[p].stage = "idle", now' \in Nat
    PROVE  RunSound(p)'
  BY RunTyped DEF RunSound

LEMMA InstructedStep ==
    ASSUME RoutingInv, NEW p \in Talkers, NEW model \in Models, Instructed(p, model)
    PROVE  RoutingInv'
  <1> USE DEF RoutingInv, RoutingTypeOK
  <1>1. /\ ~run[p].going
        /\ talk' = [talk EXCEPT ![p] = Append(@, User)]
        /\ run' = [run EXCEPT ![p] = [Idle EXCEPT !.going = TRUE, !.since = now]]
        /\ call' = [call EXCEPT ![p].model = model]
        /\ UNCHANGED <<keys, accepted, now, latch, paid>>
    BY DEF Instructed
  <1>2. p \in Callers /\ call[p] \in Calls
    BY RoutingClocked
  <1>3. /\ \A q \in Callers \ {p} : call'[q] = call[q]
        /\ call'[p].model = model /\ call'[p].stage = call[p].stage
        /\ call'[p].since = call[p].since /\ call'[p].kind = call[p].kind
        /\ call' \in [Callers -> Calls]
    BY <1>1, <1>2 DEF Calls
  <1> DEFINE new == [Idle EXCEPT !.going = TRUE, !.since = now]
  <1>4. /\ new \in Runnings
        /\ new.going /\ new.since = now /\ new.steps = 0 /\ new.ran = "none"
    BY RunTyped DEF Idle, Runnings
  <1> HIDE DEF new
  <1>5. /\ \A q \in Talkers \ {p} : run'[q] = run[q]
        /\ run'[p] = new
        /\ run' \in [Talkers -> Runnings]
    BY <1>1, <1>4 DEF new, Runnings
  <1>6. talk' \in [Talkers -> Seq(Entries)]
    <2>1. User \in Entries
      BY DEF User, Entries
    <2>2. Append(talk[p], User) \in Seq(Entries)
      BY <2>1
    <2>3. QED
      BY <1>1, <2>2
  <1>7. RoutingTypeOK'
    BY <1>1, <1>3, <1>5, <1>6 DEF Runnings
  <1>8. call[p].stage = "idle"
    BY <1>1 DEF RunSound
  <1>9. Rejections' = Rejections
    BY <1>1 DEF Rejections
  <1>10. CallSound(p)'
    BY <1>1, <1>2, <1>3, <1>8, <1>9 DEF CallSound
  <1>11. RunSound(p)'
    <2>1. /\ run'[p].going /\ run'[p].since = now /\ run'[p].steps = 0
          /\ run'[p].ran = "none" /\ call'[p].stage = "idle" /\ now' = now /\ now \in Nat
      BY <1>1, <1>3, <1>4, <1>5, <1>8, RoutingClocked
    <2>2. QED
      BY <2>1 DEF RunSound
  <1>12. QED
    BY <1>1, <1>2, <1>3, <1>5, <1>7, <1>10, <1>11, CallerStep

LEMMA StepStartStep ==
    ASSUME RoutingInv, NEW p \in Talkers, StepStarts(p)
    PROVE  RoutingInv'
  <1> USE DEF RoutingInv, RoutingTypeOK
  <1> DEFINE model == call[p].model
  <1>1. /\ run[p].going /\ call[p].stage = "idle"
        /\ Tries(p, "tools", model, FALSE)
        /\ run' = IF call'[p].stage = "idle" THEN [run EXCEPT ![p] = Idle]
                  ELSE [run EXCEPT ![p].steps = @ + 1]
        /\ UNCHANGED <<keys, accepted, now, latch, paid, talk>>
    BY DEF StepStarts
  <1>2. p \in Callers /\ call[p] \in Calls /\ model \in Models /\ "tools" \in Kinds
    BY RoutingClocked DEF Calls, Kinds
  <1> HIDE DEF model
  <1>3. PICK c \in Calls : call' = [call EXCEPT ![p] = c] /\ Fresh(c, p, "tools", model)
    BY <1>1, <1>2, FreshCall
  <1>4. /\ call'[p] = c /\ c.model = call[p].model
        /\ \A q \in Callers \ {p} : call'[q] = call[q]
        /\ call' \in [Callers -> Calls]
    BY <1>2, <1>3 DEF model, Fresh
  <1> DEFINE next == IF c.stage = "idle" THEN Idle
                     ELSE [run[p] EXCEPT !.steps = run[p].steps + 1]
  <1>5. run' = [run EXCEPT ![p] = next]
    <2>1. CASE c.stage = "idle"
      BY <1>1, <1>4, <2>1
    <2>2. CASE c.stage # "idle"
      <3>1. run' = [run EXCEPT ![p].steps = @ + 1]
        BY <1>1, <1>4, <2>2
      <3>2. QED
        BY <2>2, <3>1
    <2>3. QED
      BY <2>1, <2>2
  <1>6. /\ next \in Runnings
        /\ c.stage # "idle" =>
              /\ next.going = run[p].going /\ next.since = run[p].since
              /\ next.steps = run[p].steps + 1 /\ next.ran = run[p].ran
              /\ next.told = run[p].told
        /\ c.stage = "idle" => next = Idle
    <2>1. run[p] \in Runnings
      BY DEF Runnings
    <2>2. run[p].steps + 1 \in Nat
      BY <2>1 DEF Runnings
    <2>4. [run[p] EXCEPT !.steps = run[p].steps + 1] \in Runnings
      BY <2>1, <2>2, StepCounted
    <2>3. QED
      BY <2>1, <2>4, RunTyped DEF Runnings
  <1> HIDE DEF next
  <1>7. /\ run'[p] = next /\ \A q \in Talkers \ {p} : run'[q] = run[q]
        /\ run' \in [Talkers -> Runnings]
    BY <1>5, <1>6 DEF Runnings
  <1>8. RoutingTypeOK'
    BY <1>1, <1>4, <1>7 DEF Runnings
  <1>9. Rejections' = Rejections
    BY <1>1 DEF Rejections
  <1>10. CallSound(p)'
    BY <1>1, <1>2, <1>3, <1>4, <1>9, RoutingClocked DEF CallSound, model, Fresh
  <1>11. RunSound(p)'
    <2>1. CASE c.stage = "idle"
      BY <1>1, <1>4, <1>6, <1>7, <2>1, RestingRun, RoutingClocked
    <2>2. CASE c.stage # "idle"
      <3>1. RunSound(p) /\ run[p].since <= now /\ run[p].since \in Nat
        BY RoutingClocked DEF RunSound
      <3>2. next.ran = "none" => next.steps = 1
        <4>1. run[p].ran = "none" => run[p].steps = 0
          BY <1>1, <3>1 DEF RunSound
        <4>2. QED
          BY <1>6, <2>2, <4>1
      <3>3. (next.ran = "claude" \/ c.stage = "anthropic") =>
                \A r \in Rejections : r >= run[p].since \/ r + Cooldown <= now
        BY <1>3, <1>6, <2>2, <3>1 DEF RunSound, Fresh
      <3>4. ASSUME next.ran = "claude", c.stage = "openai"
            PROVE  \E r \in Rejections : r >= run[p].since
        <4>1. model = "claude" /\ keys.anthropic
          BY <1>6, <2>2, <3>1, <3>4 DEF RunSound, model, OpenaiModel
        <4>2. PICK r \in Rejections : now < r + Cooldown
          BY <1>3, <3>4, <4>1 DEF Fresh
        <4>3. r \in Nat /\ now \in Nat /\ Cooldown \in Nat
          BY RoutingClocked
        <4>4. QED
          BY <3>3, <3>4, <4>2, <4>3
      <3>5. c.kind = "tools"
        BY <1>3, <2>2 DEF Fresh
      <3>6. QED
        BY <1>1, <1>4, <1>6, <1>7, <1>9, <2>2, <3>1, <3>2, <3>3, <3>4, <3>5 DEF RunSound
    <2>3. QED
      BY <2>1, <2>2
  <1>12. QED
    BY <1>1, <1>2, <1>4, <1>7, <1>8, <1>10, <1>11, CallerStep

(* What a run is after an answer: over, or told of the model that gave it. *)
Noted(x, p, by) ==
    LET ran == IF by = "anthropic" THEN "claude" ELSE OpenaiModel(call[p].model)
    IN  /\ x.going = run[p].going /\ x.since = run[p].since /\ x.ran = ran
        /\ run[p].told => x.told
        /\ (run[p].steps = 1 /\ call[p].model \notin {"blank", ran}) => x.told

LEMMA AnswerTaken ==
    ASSUME RoutingInv, NEW p \in Talkers, NEW by \in {"anthropic", "openai"},
           NEW calls \in 0..2, NEW finishes \in BOOLEAN, Answered(p, by, calls, finishes)
    PROVE  /\ talk' \in [Talkers -> Seq(Entries)]
           /\ \E x \in Runnings : /\ run' = [run EXCEPT ![p] = x]
                                  /\ x = Idle \/ Noted(x, p, by)
  <1> DEFINE n == Len(talk[p]) + 1
             results == IF finishes THEN <<>> ELSE [i \in 1..calls |-> ResultOf(n, i)]
             ran == IF by = "anthropic" THEN "claude" ELSE OpenaiModel(call[p].model)
             announced == run[p].steps = 1 /\ call[p].model \notin {"blank", ran}
  <1>1. /\ talk' = [talk EXCEPT ![p] =
              IF calls = 0 THEN @ ELSE Append(@, Turn(n, calls, by = "anthropic")) \o results]
        /\ run' = IF results = <<>> THEN [run EXCEPT ![p] = Idle]
                  ELSE [run EXCEPT ![p].ran = ran, ![p].told = @ \/ announced]
    BY DEF Answered
  <1>2. /\ talk[p] \in Seq(Entries) /\ talk \in [Talkers -> Seq(Entries)]
        /\ run[p] \in Runnings /\ run \in [Talkers -> Runnings]
    BY DEF RoutingInv, RoutingTypeOK, Runnings
  <1>3. n \in Nat /\ calls \in Nat
    BY <1>2
  <1> HIDE DEF n
  <1>4. talk' \in [Talkers -> Seq(Entries)]
    <2>1. results \in Seq(Entries)
      <3>1. <<>> \in Seq(Entries)
        OBVIOUS
      <3>2. ASSUME NEW i \in 1..calls
            PROVE  ResultOf(n, i) \in Entries
        BY <1>3 DEF ResultOf, Entries
      <3>3. [i \in 1..calls |-> ResultOf(n, i)] \in [1..calls -> Entries]
        BY <3>2
      <3>4. [i \in 1..calls |-> ResultOf(n, i)] \in Seq(Entries)
        BY <1>3, <3>3, FunctionIsSeq
      <3>5. QED
        BY <3>1, <3>4
    <2>2. Turn(n, calls, by = "anthropic") \in Entries
      <3>1. (by = "anthropic") \in BOOLEAN
        OBVIOUS
      <3>2. QED
        BY <1>3, <3>1 DEF Turn, Entries
    <2>3. Append(talk[p], Turn(n, calls, by = "anthropic")) \in Seq(Entries)
      BY <1>2, <2>2
    <2> HIDE DEF results
    <2>4. Append(talk[p], Turn(n, calls, by = "anthropic")) \o results \in Seq(Entries)
      BY <2>1, <2>3
    <2>5. QED
      BY <1>1, <1>2, <2>4
  <1> HIDE DEF results
  <1>5. ran \in {"none", "claude", "gpt", "default"} /\ announced \in BOOLEAN
        /\ (run[p].told \/ announced) \in BOOLEAN
    BY DEF OpenaiModel
  <1>6. \E x \in Runnings : run' = [run EXCEPT ![p] = x] /\ (x = Idle \/ Noted(x, p, by))
    <2>1. CASE results = <<>>
      BY <1>1, <2>1, RunTyped
    <2>2. CASE results # <<>>
      <3> DEFINE told == run[p].told \/ announced
                 x == [run[p] EXCEPT !.ran = ran, !.told = told]
      <3>1. run' = [run EXCEPT ![p] = x]
        BY <1>1, <1>2, <2>2
      <3>2. ran \in {"none", "claude", "gpt", "default"} /\ told \in BOOLEAN
        BY <1>5
      <3> HIDE DEF told, ran
      <3>6. run[p] \in Runnings
        BY <1>2
      <3>3. /\ x \in Runnings
            /\ x.going = run[p].going
            /\ x.since = run[p].since
            /\ x.steps = run[p].steps
            /\ x.ran = ran
            /\ x.told = told
        BY <3>2, <3>6, Zenon DEF Runnings
      <3> HIDE DEF x
      <3>4. Noted(x, p, by)
        BY <3>3 DEF Noted, ran, told
      <3>5. QED
        BY <3>1, <3>3, <3>4
    <2>3. QED
      BY <2>1, <2>2
  <1>7. QED
    BY <1>4, <1>6

(* A call that ends leaves its caller at rest. *)
LEMMA CallEnds ==
    ASSUME RoutingInv, NEW p \in Callers, Ends(p)
    PROVE  /\ call' \in [Callers -> Calls]
           /\ \A q \in Callers \ {p} : call'[q] = call[q]
           /\ call'[p].stage = "idle" /\ call'[p].since = 0
           /\ p \in Talkers => call'[p].model = call[p].model
  <1> DEFINE quiet == Quiet(IF p \in Talkers THEN call[p].model ELSE "blank")
  <1>1. call[p].model \in Models /\ "blank" \in Models /\ "text" \in Kinds
    BY RoutingClocked DEF Calls, Models, Kinds
  <1>2. /\ quiet \in Calls /\ quiet.stage = "idle" /\ quiet.since = 0
        /\ quiet.model = (IF p \in Talkers THEN call[p].model ELSE "blank")
    BY <1>1 DEF Quiet, Calls
  <1>3. call \in [Callers -> Calls] /\ call' = [call EXCEPT ![p] = quiet]
    BY DEF Ends, RoutingInv, RoutingTypeOK
  <1> HIDE DEF quiet
  <1>4. QED
    BY <1>2, <1>3

LEMMA ReplyStep ==
    ASSUME RoutingInv, NEW p \in Callers, ClaudeReplies(p) \/ OpenaiReplies(p)
    PROVE  RoutingInv'
  <1> USE DEF RoutingInv, RoutingTypeOK
  <1>1. PICK by \in {"anthropic", "openai"}, outcome \in Answers(call[p].kind) :
            call[p].stage = by /\ Ends(p) /\ Takes(p, outcome, by)
    BY DEF ClaudeReplies, OpenaiReplies
  <1>2. UNCHANGED <<keys, accepted, now, latch, paid>>
    BY DEF ClaudeReplies, OpenaiReplies
  <1>3. /\ call' \in [Callers -> Calls]
        /\ \A q \in Callers \ {p} : call'[q] = call[q]
        /\ call'[p].stage = "idle" /\ call'[p].since = 0
        /\ p \in Talkers => call'[p].model = call[p].model
    BY <1>1, CallEnds
  <1>4. CallSound(p)'
    BY <1>2, <1>3, RestsSound
  <1>5. CASE p \notin Talkers
    <2>1. UNCHANGED <<talk, run>>
      BY <1>1, <1>5 DEF Takes
    <2>2. RoutingTypeOK'
      BY <1>2, <1>3, <2>1
    <2>3. QED
      BY <1>2, <1>3, <1>4, <1>5, <2>1, <2>2, CallerStep
  <1>6. CASE p \in Talkers
    <2>1. /\ talk' \in [Talkers -> Seq(Entries)]
          /\ \E x \in Runnings : /\ run' = [run EXCEPT ![p] = x]
                                 /\ x = Idle \/ Noted(x, p, by)
      <3>1. CASE outcome = "answer"
        <4>1. PICK calls \in 0..2, finishes \in BOOLEAN : Answered(p, by, calls, finishes)
          BY <1>1, <1>6, <3>1 DEF Takes
        <4>2. QED
          BY <1>6, <4>1, AnswerTaken
      <3>2. CASE outcome # "answer"
        BY <1>1, <1>6, <3>2, RunTyped DEF Takes
      <3>3. QED
        BY <3>1, <3>2
    <2>2. PICK x \in Runnings : run' = [run EXCEPT ![p] = x] /\ (x = Idle \/ Noted(x, p, by))
      BY <2>1
    <2>3. /\ run'[p] = x /\ \A q \in Talkers \ {p} : run'[q] = run[q]
          /\ run' \in [Talkers -> Runnings]
      BY <1>6, <2>2 DEF Runnings
    <2>4. RoutingTypeOK'
      BY <1>2, <1>3, <2>1, <2>3 DEF Runnings
    <2>5. RunSound(p)'
      <3>1. CASE x = Idle
        BY <1>2, <1>3, <1>6, <2>3, <3>1, RestingRun, RoutingClocked
      <3>2. CASE Noted(x, p, by)
        <4>1. RunSound(p) /\ CallSound(p)
          BY <1>6
        <4>2. Rejections' = Rejections
          BY <1>2 DEF Rejections
        <4>3. x.since = run[p].since /\ x.going /\ x.ran # "none"
          BY <1>1, <3>2, <4>1 DEF Noted, RunSound, OpenaiModel
        <4>4. CASE by = "anthropic"
          <5>1. call[p].model = "claude" /\ keys.anthropic /\ x.ran = "claude"
            BY <1>1, <3>2, <4>1, <4>4 DEF Noted, CallSound
          <5>2. \A r \in Rejections : r >= run[p].since \/ r + Cooldown <= now
            BY <1>1, <4>1, <4>4 DEF RunSound
          <5>3. QED
            BY <1>2, <1>3, <1>6, <2>3, <4>1, <4>2, <4>3, <5>1, <5>2 DEF RunSound
        <4>5. CASE by = "openai"
          <5>1. x.ran = OpenaiModel(call[p].model) /\ x.ran # "claude"
            BY <3>2, <4>5 DEF Noted, OpenaiModel
          <5>2. call[p].model \notin {"blank", x.ran} =>
                    x.told \/ \E r \in Rejections : r >= run[p].since
            <6> SUFFICES ASSUME call[p].model \notin {"blank", x.ran}
                         PROVE  x.told \/ \E r \in Rejections : r >= run[p].since
              OBVIOUS
            <6>1. CASE run[p].ran = "none"
              BY <1>1, <3>2, <4>1, <4>5, <5>1, <6>1 DEF Noted, RunSound
            <6>2. CASE run[p].ran = "claude"
              BY <1>1, <4>1, <4>5, <6>2 DEF RunSound
            <6>3. CASE run[p].ran = OpenaiModel(call[p].model) /\ run[p].ran # "none"
              BY <3>2, <4>1, <5>1, <6>3 DEF Noted, RunSound
            <6>4. QED
              BY <4>1, <6>1, <6>2, <6>3 DEF RunSound
          <5>3. QED
            BY <1>2, <1>3, <1>6, <2>3, <4>1, <4>2, <4>3, <5>1, <5>2 DEF RunSound
        <4>6. QED
          BY <4>4, <4>5
      <3>3. QED
        BY <2>2, <3>1, <3>2
    <2>6. QED
      BY <1>2, <1>3, <1>4, <1>6, <2>3, <2>4, <2>5, CallerStep
  <1>7. QED
    BY <1>5, <1>6

LEMMA ChainStep ==
    ASSUME RoutingInv, NEW p \in Callers, ChainRejected(p)
    PROVE  RoutingInv'
  <1> USE DEF RoutingInv, RoutingTypeOK
  <1>1. /\ call[p].stage = "anthropic" /\ call[p].kind = "chain" /\ Ends(p)
        /\ UNCHANGED <<keys, accepted, now, latch, paid, talk, run>>
    BY DEF ChainRejected
  <1>2. p \notin Talkers
    BY <1>1 DEF RunSound
  <1>3. /\ call' \in [Callers -> Calls]
        /\ \A q \in Callers \ {p} : call'[q] = call[q]
        /\ call'[p].stage = "idle" /\ call'[p].since = 0
    BY <1>1, CallEnds
  <1>4. RoutingTypeOK' /\ CallSound(p)'
    BY <1>1, <1>3, RestsSound
  <1>5. QED
    BY <1>1, <1>2, <1>3, <1>4, CallerStep

LEMMA RejectStep ==
    ASSUME RoutingInv, NEW p \in Callers, ClaudeRejects(p)
    PROVE  RoutingInv'
  <1> USE DEF RoutingInv, RoutingTypeOK
  <1>1. /\ call[p].stage = "anthropic"
        /\ latch' = now + Cooldown
        /\ paid' = [paid EXCEPT ![p] = Append(@, now)]
        /\ Tries(p, call[p].kind, call[p].model, TRUE)
        /\ run' = IF p \in Talkers /\ call'[p].stage = "idle"
                  THEN [run EXCEPT ![p] = Idle] ELSE run
        /\ UNCHANGED <<keys, accepted, now, talk>>
    BY DEF ClaudeRejects
  <1>2. /\ call[p] \in Calls /\ now \in Nat /\ call[p].since \in Nat
        /\ now \in 0..MaxTime /\ paid[p] \in Seq(0..MaxTime)
        /\ Cooldown \in Nat /\ Cooldown > 0 /\ MaxTime \in Nat
    BY RoutingClocked, RoutingAssumption
  <1>3. /\ call' \in [Callers -> Calls]
        /\ \A q \in Callers \ {p} : call'[q] = call[q]
        /\ \/ /\ call'[p].stage = "idle" /\ call'[p].since = 0
              /\ p \in Talkers => call'[p].model = call[p].model
           \/ /\ call'[p].stage = "openai" /\ call'[p].model = call[p].model
              /\ call'[p].since = call[p].since /\ call'[p].kind = call[p].kind
    <2> DEFINE new == [stage |-> "openai", kind |-> call[p].kind, model |-> call[p].model,
                       since |-> call[p].since, rejected |-> TRUE]
    <2>1. new \in Calls
      BY <1>2 DEF Calls
    <2>2. call' = [call EXCEPT ![p] = new] \/ Ends(p)
      BY <1>1 DEF Tries
    <2>3. CASE call' = [call EXCEPT ![p] = new]
      BY <2>1, <2>3
    <2>4. CASE Ends(p)
      BY <2>4, CallEnds
    <2>5. QED
      BY <2>2, <2>3, <2>4
  <1>4. /\ \A q \in Callers \ {p} : paid'[q] = paid[q]
        /\ paid'[p] = Append(paid[p], now)
        /\ paid' \in [Callers -> Seq(0..MaxTime)]
    <2>1. Append(paid[p], now) \in Seq(0..MaxTime)
      BY <1>2
    <2>2. QED
      BY <1>1, <2>1
  <1>5. /\ DOMAIN paid'[p] = DOMAIN paid[p] \cup {Len(paid[p]) + 1}
        /\ paid'[p][Len(paid[p]) + 1] = now
        /\ \A i \in DOMAIN paid[p] : paid'[p][i] = paid[p][i]
    BY <1>2, <1>4
  <1>6. Rejections' = Rejections \cup {now}
    <2>1. ASSUME NEW r \in Rejections'
          PROVE  r \in Rejections \cup {now}
      <3>1. PICK q \in Callers : \E i \in DOMAIN paid'[q] : r = paid'[q][i]
        BY <2>1 DEF Rejections
      <3>2. PICK i \in DOMAIN paid'[q] : r = paid'[q][i]
        BY <3>1
      <3>3. CASE q = p /\ i = Len(paid[p]) + 1
        BY <1>5, <3>2, <3>3
      <3>4. CASE ~(q = p /\ i = Len(paid[p]) + 1)
        <4>1. i \in DOMAIN paid[q] /\ paid'[q][i] = paid[q][i]
          <5>1. CASE q = p
            <6>1. i \in DOMAIN paid[p] \cup {Len(paid[p]) + 1}
              BY <1>5, <3>2, <5>1
            <6>2. i \in DOMAIN paid[p]
              BY <3>4, <5>1, <6>1
            <6>3. QED
              BY <1>5, <5>1, <6>2
          <5>2. CASE q # p
            <6>1. paid'[q] = paid[q]
              BY <1>4, <3>1, <5>2
            <6>2. QED
              BY <3>2, <6>1
          <5>3. QED
            BY <5>1, <5>2
        <4>2. QED
          BY <3>2, <4>1 DEF Rejections
      <3>5. QED
        BY <3>3, <3>4
    <2>2. ASSUME NEW r \in Rejections
          PROVE  r \in Rejections'
      <3>1. PICK q \in Callers : \E i \in DOMAIN paid[q] : r = paid[q][i]
        BY <2>2 DEF Rejections
      <3>2. PICK i \in DOMAIN paid[q] : r = paid[q][i]
        BY <3>1
      <3>3. i \in DOMAIN paid'[q] /\ r = paid'[q][i]
        BY <1>4, <1>5, <3>2
      <3>4. QED
        BY <3>3 DEF Rejections
    <2>3. now \in Rejections'
      BY <1>5 DEF Rejections
    <2>4. QED
      BY <2>1, <2>2, <2>3
  <1>7. latch' \in 0..(MaxTime + Cooldown) /\ latch' # 0
    BY <1>1, <1>2
  <1>8. run' \in [Talkers -> Runnings] /\ \A q \in Talkers \ {p} : run'[q] = run[q]
    BY <1>1, RunTyped DEF Runnings
  <1>9. RoutingTypeOK'
    BY <1>1, <1>3, <1>4, <1>7, <1>8 DEF Runnings
  <1>10. LatchSound'
    BY <1>1, <1>2, <1>6, <1>7, RoutingClocked DEF LatchSound
  <1>11. CallSound(p)'
    <2>1. CallSound(p) /\ call[p].since <= now
      BY DEF CallSound
    <2>2. \A i \in DOMAIN paid[p] : paid[p][i] \in Nat /\ paid[p][i] + Cooldown <= now
      BY <1>1, <1>2, <2>1, RoutingClocked DEF CallSound
    <2>3. \A i \in DOMAIN paid'[p] : paid'[p][i] <= now
      BY <1>2, <1>5, <2>2
    <2>4. \A i, j \in DOMAIN paid'[p] : i < j => paid'[p][i] + Cooldown <= paid'[p][j]
      <3> SUFFICES ASSUME NEW i \in DOMAIN paid'[p], NEW j \in DOMAIN paid'[p], i < j
                   PROVE  paid'[p][i] + Cooldown <= paid'[p][j]
        OBVIOUS
      <3>1. DOMAIN paid[p] = 1..Len(paid[p]) /\ Len(paid[p]) \in Nat
        BY <1>2
      <3>2. i \in DOMAIN paid[p]
        BY <1>5, <3>1
      <3>3. QED
        BY <1>5, <2>1, <2>2, <3>2 DEF CallSound
    <2>5. call'[p].since <= now
      BY <1>2, <1>3, <2>1
    <2>6. call'[p].stage = "openai" => \E r \in Rejections' : call'[p].since < r + Cooldown
      <3> SUFFICES ASSUME call'[p].stage = "openai"
                   PROVE  call'[p].since < now + Cooldown
        BY <1>6
      <3>1. call'[p].since = call[p].since
        BY <1>3
      <3>2. QED
        BY <1>2, <2>1, <3>1
    <2>7. call'[p].stage # "anthropic"
      BY <1>3
    <2>8. QED
      BY <1>1, <2>3, <2>4, <2>5, <2>6, <2>7 DEF CallSound
  <1>12. ASSUME p \in Talkers
         PROVE  RunSound(p)'
    <2>1. CASE call'[p].stage = "idle"
      <3>1. run'[p] = Idle
        BY <1>1, <1>12, <2>1
      <3>2. QED
        BY <1>1, <1>2, <1>12, <2>1, <3>1, RestingRun
    <2>2. CASE call'[p].stage # "idle"
      <3>1. run' = run /\ RunSound(p) /\ run[p].since \in Nat /\ run[p].since <= now
        BY <1>1, <1>12, <2>2, RoutingClocked DEF RunSound
      <3>2. now \in Rejections' /\ now >= run[p].since
        BY <1>2, <1>6, <3>1
      <3>3. call'[p].model = call[p].model /\ call'[p].kind = call[p].kind
        BY <1>3, <2>2
      <3>4. \A r \in Rejections' : r >= run[p].since \/ r + Cooldown <= now
        BY <1>1, <1>6, <3>1, <3>2 DEF RunSound
      <3>5. QED
        BY <1>1, <2>2, <3>1, <3>2, <3>3, <3>4 DEF RunSound
    <2>3. QED
      BY <2>1, <2>2
  <1>13. ASSUME NEW q \in Callers, q # p
         PROVE  CallSound(q)' /\ (q \in Talkers => RunSound(q)')
    <2>1. call'[q] = call[q] /\ paid'[q] = paid[q] /\ (q \in Talkers => run'[q] = run[q])
      BY <1>3, <1>4, <1>8, <1>13
    <2>2. keys' = keys /\ now' \in Nat /\ now <= now'
      BY <1>1, <1>2
    <2>3. QED
      BY <1>6, <2>1, <2>2, OthersRouted
  <1>14. QED
    BY <1>9, <1>10, <1>11, <1>12, <1>13, RoutingClocked

LEMMA RoutingStep == RoutingInv /\ [RoutingNext]_routingVars => RoutingInv'
  <1> SUFFICES ASSUME RoutingInv, [RoutingNext]_routingVars
               PROVE  RoutingInv'
    OBVIOUS
  <1>1. CASE KeyChanges \/ Tick \/ UNCHANGED routingVars
    <2>1. /\ UNCHANGED <<keys, latch, call, paid, talk, run>>
          /\ accepted' \in BOOLEAN /\ now' \in 0..MaxTime /\ now <= now' /\ now' \in Nat
      <3>1. now \in 0..MaxTime /\ MaxTime \in Nat /\ accepted \in BOOLEAN
        BY RoutingAssumption DEF RoutingInv, RoutingTypeOK
      <3>2. CASE Tick
        BY <3>1, <3>2 DEF Tick
      <3>3. CASE KeyChanges \/ UNCHANGED routingVars
        <4>1. UNCHANGED <<keys, latch, call, paid, talk, run>> /\ now' = now
          BY <3>3 DEF KeyChanges, routingVars
        <4>2. accepted' \in BOOLEAN
          BY <3>1, <3>3 DEF KeyChanges, routingVars
        <4>3. now' \in 0..MaxTime /\ now <= now' /\ now' \in Nat
          BY <3>1, <4>1
        <4>4. QED
          BY <4>1, <4>2, <4>3
      <3>4. QED
        BY <1>1, <3>2, <3>3
    <2>2. RoutingTypeOK'
      BY <2>1 DEF RoutingInv, RoutingTypeOK
    <2>3. Rejections' = Rejections
      BY <2>1 DEF Rejections
    <2>4. LatchSound'
      BY <2>1, <2>3 DEF RoutingInv, LatchSound
    <2>5. ASSUME NEW q \in Callers
          PROVE  CallSound(q)' /\ (q \in Talkers => RunSound(q)')
      BY <2>1, <2>3, OthersRouted
    <2>6. QED
      BY <2>2, <2>4, <2>5, RoutingClocked DEF RoutingInv
  <1>2. \A p \in Talkers : p \in Callers
    BY RoutingClocked
  <1>3. QED
    BY <1>1, <1>2, CallStartStep, InstructedStep, StepStartStep, ReplyStep, ChainStep, RejectStep
       DEF RoutingNext

LEMMA RoutingInitially == RoutingInit => RoutingInv
  <1> SUFFICES ASSUME RoutingInit
               PROVE  RoutingInv
    OBVIOUS
  <1>1. /\ Quiet("blank") \in Calls /\ Quiet("blank").stage = "idle"
        /\ Quiet("blank").since = 0 /\ Quiet("blank").model = "blank"
    BY DEF Quiet, Calls, Models, Kinds
  <1>2. RoutingTypeOK
    <2>1. <<>> \in Seq(0..MaxTime) /\ <<>> \in Seq(Entries)
      OBVIOUS
    <2>2. QED
      BY <1>1, <2>1, RunTyped, RoutingAssumption DEF RoutingInit, RoutingTypeOK, Runnings
  <1>3. Rejections = {}
    BY DEF RoutingInit, Rejections
  <1>4. LatchSound
    BY <1>3 DEF RoutingInit, LatchSound
  <1>5. \A p \in Callers : CallSound(p)
    BY <1>1 DEF RoutingInit, CallSound
  <1>6. \A p \in Talkers : RunSound(p)
    BY <1>1, RunTyped, RoutingAssumption DEF RoutingInit, RunSound
  <1>7. QED
    BY <1>2, <1>4, <1>5, <1>6 DEF RoutingInv

LEMMA RoutingInvariant == RoutingSpec => []RoutingInv
  BY RoutingInitially, RoutingStep, PTL DEF RoutingSpec

(* llm.py: whatever calls are in flight when the vendor rejects the key,   *)
(* only a rejection moves calls to the other vendor and only for its       *)
(* cooldown, a caller pays for one once in a cooldown, and a run says that *)
(* another model answers it unless the key was rejected since it began. *)
THEOREM RoutingHonest == RoutingSpec => []RoutingIsHonest
  <1>1. RoutingInv => RoutingIsHonest
    <2> SUFFICES ASSUME RoutingInv
                 PROVE  OnlyRejectionsReroute /\ PaysOncePerCooldown /\ FallbackIsTold
      BY DEF RoutingIsHonest
    <2>1. OnlyRejectionsReroute
      BY DEF RoutingInv, CallSound, LatchSound, OnlyRejectionsReroute
    <2>2. PaysOncePerCooldown
      BY DEF RoutingInv, CallSound, PaysOncePerCooldown
    <2>3. FallbackIsTold
      BY DEF RoutingInv, RunSound, FallbackIsTold
    <2>4. QED
      BY <2>1, <2>2, <2>3
  <1>2. QED
    BY RoutingInvariant, <1>1, PTL

-----------------------------------------------------------------------------
(* The transcript of a block agent on the wire *)

(* The loop of _to_anthropic_messages is defined on every transcript: it   *)
(* starts with two empty lists, and goes from entry to entry. *)
LEMMA TranslationStep ==
    ASSUME NEW entries, Len(entries) \in Nat
    PROVE  /\ Translation(entries)[0] = [out |-> <<>>, waiting |-> <<>>]
           /\ \A n \in 1..Len(entries) :
                  Translation(entries)[n] = Translate(Translation(entries)[n - 1], entries[n])
  <1> DEFINE start == [out |-> <<>>, waiting |-> <<>>]
             Unrolls(f, m) == f = [n \in 0..m |-> IF n = 0 THEN start
                                               ELSE Translate(f[n - 1], entries[n])]
             S == {m \in Nat : \E f : Unrolls(f, m)}
  <1>1. 0 \in S
    <2> DEFINE f == [n \in 0..0 |-> start]
    <2>1. f = [n \in 0..0 |-> IF n = 0 THEN start ELSE Translate(f[n - 1], entries[n])]
      <3> HIDE DEF start
      <3>1. \A n \in 0..0 : n = 0
        OBVIOUS
      <3>2. QED
        BY <3>1
    <2>2. QED
      BY <2>1
  <1>2. ASSUME NEW m \in S
        PROVE  m + 1 \in S
    <2>1. m \in Nat /\ \E f : Unrolls(f, m)
      OBVIOUS
    <2>2. PICK f : Unrolls(f, m)
      BY <2>1
    <2> DEFINE g == [n \in 0..(m + 1) |-> IF n = m + 1 THEN Translate(f[m], entries[m + 1])
                                          ELSE f[n]]
    <2> HIDE DEF start
    <2>3. \A n \in 0..m : f[n] = IF n = 0 THEN start ELSE Translate(f[n - 1], entries[n])
      BY <2>2
    <2>4. /\ \A n \in 0..m : g[n] = f[n]
          /\ g[m + 1] = Translate(f[m], entries[m + 1])
      BY <2>1
    <2>5. ASSUME NEW n \in 0..(m + 1)
          PROVE  g[n] = IF n = 0 THEN start ELSE Translate(g[n - 1], entries[n])
      <3>1. CASE n = m + 1
        <4>1. n # 0 /\ n - 1 = m /\ m \in 0..m
          BY <2>1, <3>1
        <4> HIDE DEF g
        <4>2. QED
          BY <2>4, <3>1, <4>1
      <3>2. CASE n # m + 1
        <4>1. n \in 0..m /\ (n # 0 => n - 1 \in 0..m)
          BY <2>1, <3>2
        <4> HIDE DEF g
        <4>2. QED
          BY <2>3, <2>4, <4>1
      <3>3. QED
        BY <3>1, <3>2
    <2>6. Unrolls(g, m + 1)
      <3>1. g = [n \in 0..(m + 1) |-> g[n]]
        OBVIOUS
      <3> HIDE DEF g
      <3>2. QED
        BY <2>5, <3>1
    <2>7. QED
      <3> HIDE DEF g, Unrolls
      <3> QED
        BY <2>1, <2>6
  <1>3. S = Nat
    <2> HIDE DEF Unrolls
    <2>1. S \in SUBSET Nat
      OBVIOUS
    <2> HIDE DEF S
    <2>2. QED
      BY <1>1, <1>2, <2>1, NatBySteps
  <1>4. Unrolls(Translation(entries), Len(entries))
    <2>1. \E f : Unrolls(f, Len(entries))
      BY <1>3
    <2>2. QED
      BY <2>1 DEF Translation
  <1>5. 0 \in 0..Len(entries) /\ \A n \in 1..Len(entries) : n \in 0..Len(entries) /\ n # 0
    OBVIOUS
  <1>6. QED
    BY <1>4, <1>5

(* An entry of a block agent's transcript: an instruction; a turn that     *)
(* calls tools, at its own place; or the result of a call of a turn, as    *)
(* far after it as the call's number, and after the results of the earlier *)
(* calls. *)
TalkEntry(t, i) ==
    \/ t[i] = User
    \/ t[i].role = "assistant" /\ t[i].turn = i /\ t[i].calls > 0
    \/ /\ t[i].calls > 0 /\ t[i].calls < i
       /\ t[i] = ResultOf(i - t[i].calls, t[i].calls)
       /\ t[i - t[i].calls].role = "assistant"
       /\ t[i].calls <= t[i - t[i].calls].calls
       /\ t[i].calls > 1 => t[i - 1] = ResultOf(i - t[i].calls, t[i].calls - 1)

TalkSound(t) ==
    /\ t # <<>> => t[1] = User
    /\ \A i \in DOMAIN t : TalkEntry(t, i)

(* A run begins with an instruction. *)
TalkInv ==
    /\ \A p \in Talkers : TalkSound(talk[p])
    /\ \A p \in Talkers : run[p].going => talk[p] # <<>>

(* An entry depends on what comes before it only. *)
LEMMA EntryKept ==
    ASSUME NEW t, NEW s, NEW i \in Nat, TalkEntry(t, i),
           t[i] \in Entries, \A j \in 1..i : s[j] = t[j], i > 0
    PROVE  TalkEntry(s, i)
  <1>1. s[i] = t[i] /\ t[i].calls \in Nat
    BY DEF Entries
  <1>2. CASE t[i].calls > 0 /\ t[i].calls < i
    <2>1. /\ i - t[i].calls \in 1..i
          /\ t[i].calls > 1 => i - 1 \in 1..i
      BY <1>1, <1>2
    <2>2. /\ s[i - t[i].calls] = t[i - t[i].calls]
          /\ t[i].calls > 1 => s[i - 1] = t[i - 1]
      BY <2>1
    <2>3. QED
      BY <1>1, <2>2 DEF TalkEntry
  <1>3. CASE ~(t[i].calls > 0 /\ t[i].calls < i)
    BY <1>1, <1>3 DEF TalkEntry
  <1>4. QED
    BY <1>2, <1>3

LEMMA InstructionJoins ==
    ASSUME NEW t \in Seq(Entries), TalkSound(t)
    PROVE  TalkSound(Append(t, User)) /\ Append(t, User) # <<>>
  <1> DEFINE s == Append(t, User)
             n == Len(t) + 1
  <1>1. /\ Len(t) \in Nat /\ n \in Nat /\ DOMAIN t = 1..Len(t)
        /\ User \in Entries
    BY DEF User, Entries
  <1>2. /\ s \in Seq(Entries) /\ Len(s) = n /\ DOMAIN s = 1..n /\ s # <<>>
        /\ s[n] = User /\ \A j \in 1..Len(t) : s[j] = t[j]
    BY <1>1
  <1> HIDE DEF s
  <1>3. s[1] = User
    <2>1. CASE Len(t) = 0
      BY <1>2, <2>1
    <2>2. CASE Len(t) # 0
      BY <1>1, <1>2, <2>2 DEF TalkSound
    <2>3. QED
      BY <2>1, <2>2
  <1>4. ASSUME NEW i \in DOMAIN s
        PROVE  TalkEntry(s, i)
    <2>1. CASE i = n
      BY <1>2, <2>1 DEF TalkEntry
    <2>2. CASE i # n
      <3>1. i \in DOMAIN t /\ i \in Nat /\ i > 0 /\ \A j \in 1..i : s[j] = t[j]
        BY <1>1, <1>2, <1>4, <2>2
      <3>2. TalkEntry(t, i) /\ t[i] \in Entries
        BY <3>1, ElementsOf DEF TalkSound
      <3>3. QED
        BY <3>1, <3>2, EntryKept
    <2>3. QED
      BY <2>1, <2>2
  <1>5. TalkSound(s) /\ s # <<>>
    BY <1>2, <1>3, <1>4 DEF TalkSound
  <1>6. QED
    BY <1>5 DEF s

(* A turn joins with as many results as it has calls, or with none. *)
LEMMA TurnJoins ==
    ASSUME NEW t \in Seq(Entries), TalkSound(t), t # <<>>, NEW n, n = Len(t) + 1,
           NEW calls \in Nat, NEW k \in 0..calls, calls > 0, NEW raw \in BOOLEAN,
           NEW s \in Seq(Entries), Len(s) = n + k,
           \A i \in 1..Len(t) : s[i] = t[i],
           s[n] = Turn(n, calls, raw),
           \A i \in 1..k : s[n + i] = ResultOf(n, i)
    PROVE  TalkSound(s) /\ s # <<>>
  <1>1. /\ Len(t) \in Nat /\ n \in Nat /\ n > 1 /\ DOMAIN t = 1..Len(t) /\ k \in Nat
        /\ DOMAIN s = 1..(n + k) /\ s # <<>> /\ 1 \in DOMAIN t
    <2>1. Len(t) \in Nat /\ Len(t) # 0 /\ DOMAIN t = 1..Len(t) /\ DOMAIN s = 1..Len(s)
      BY LengthZero
    <2>2. QED
      BY <2>1
  <1>2. s[n].role = "assistant" /\ s[n].turn = n /\ s[n].calls = calls
    BY DEF Turn
  <1>3. ASSUME NEW j \in 1..k
        PROVE  s[n + j].role = "tool" /\ s[n + j].calls = j /\ s[n + j] = ResultOf(n, j)
    BY <1>3 DEF ResultOf
  <1>4. s[1] = User
    BY <1>1 DEF TalkSound
  <1>5. ASSUME NEW i \in DOMAIN s
        PROVE  TalkEntry(s, i)
    <2>1. CASE i < n
      <3>1. i \in DOMAIN t /\ i \in Nat /\ i > 0 /\ \A j \in 1..i : s[j] = t[j]
        BY <1>1, <2>1
      <3>2. TalkEntry(t, i) /\ t[i] \in Entries
        BY <3>1, ElementsOf DEF TalkSound
      <3>3. QED
        BY <3>1, <3>2, EntryKept
    <2>2. CASE i = n
      BY <1>2, <2>2 DEF TalkEntry
    <2>3. CASE i > n
      <3>1. PICK j \in 1..k : i = n + j
        <4>1. n \in Nat /\ k \in Nat /\ i \in 1..(n + k) /\ i > n
          BY <1>1, <1>5, <2>3
        <4>2. QED
          BY <4>1, PlaceBeyond
      <3>5. /\ i \in Nat /\ n \in Nat /\ k \in Nat /\ j \in Nat
            /\ j > 0 /\ i - j = n /\ j < i /\ j <= calls
        BY <1>1, <3>1
      <3>2. s[i].calls = j /\ s[i] = ResultOf(n, j)
        BY <1>3, <3>1
      <3>3. ASSUME j > 1
            PROVE  s[i - 1] = ResultOf(n, j - 1)
        <4>1. j - 1 \in 1..k /\ i - 1 = n + (j - 1)
          BY <3>1, <3>3, <3>5
        <4>2. QED
          BY <1>3, <4>1
      <3>4. QED
        BY <1>2, <3>2, <3>3, <3>5 DEF TalkEntry
    <2>4. QED
      BY <1>1, <2>1, <2>2, <2>3
  <1>6. QED
    BY <1>1, <1>4, <1>5 DEF TalkSound

(* What leaves the transcripts alone, and begins no run. *)
LEMMA TalkKept ==
    ASSUME TalkInv, talk' = talk, \A p \in Talkers : run'[p].going => run[p].going
    PROVE  TalkInv'
  BY DEF TalkInv

LEMMA TalkGrows ==
    ASSUME RoutingInv, TalkInv, NEW p \in Talkers, NEW s, talk' = [talk EXCEPT ![p] = s],
           TalkSound(s), \A q \in Talkers \ {p} : run'[q].going => run[q].going,
           s # <<>>
    PROVE  TalkInv'
  <1>1. talk'[p] = s /\ \A q \in Talkers \ {p} : talk'[q] = talk[q]
    BY DEF RoutingInv, RoutingTypeOK
  <1>2. QED
    BY <1>1 DEF TalkInv

LEMMA TalkAnswered ==
    ASSUME RoutingInv, TalkInv, NEW p \in Talkers, call[p].stage # "idle",
           NEW by, NEW calls \in 0..2, NEW finishes \in BOOLEAN,
           Answered(p, by, calls, finishes)
    PROVE  TalkInv'
  <1> DEFINE t == talk[p]
             n == Len(t) + 1
             results == IF finishes THEN <<>> ELSE [i \in 1..calls |-> ResultOf(n, i)]
             raw == by = "anthropic"
             s == Append(t, Turn(n, calls, raw)) \o results
             k == IF finishes THEN 0 ELSE calls
  <1>1. /\ talk' = [talk EXCEPT ![p] = IF calls = 0 THEN @ ELSE s]
        /\ \E e : run' = [run EXCEPT ![p] = e]
    <2> DEFINE ran == IF by = "anthropic" THEN "claude" ELSE OpenaiModel(call[p].model)
               announced == run[p].steps = 1 /\ call[p].model \notin {"blank", ran}
    <2>1. /\ talk' = [talk EXCEPT ![p] =
                IF calls = 0 THEN @ ELSE Append(@, Turn(n, calls, raw)) \o results]
          /\ run' = IF results = <<>> THEN [run EXCEPT ![p] = Idle]
                    ELSE [run EXCEPT ![p].ran = ran, ![p].told = @ \/ announced]
      BY DEF Answered
    <2> HIDE DEF results, n
    <2>2. \E e : run' = [run EXCEPT ![p] = e]
      <3> HIDE DEF ran, announced
      <3> QED
        BY <2>1
    <2>3. QED
      BY <2>1, <2>2 DEF RoutingInv, RoutingTypeOK
  <1>2. /\ t \in Seq(Entries) /\ TalkSound(t) /\ t # <<>> /\ run[p].going
        /\ talk \in [Talkers -> Seq(Entries)]
        /\ run \in [Talkers -> Runnings]
    BY DEF RoutingInv, RoutingTypeOK, RunSound, TalkInv, Runnings
  <1>3. n \in Nat /\ calls \in Nat /\ raw \in BOOLEAN /\ k \in 0..calls /\ Len(t) \in Nat
    BY <1>2
  <1>4. \A q \in Talkers \ {p} : run'[q] = run[q]
    BY <1>1, <1>2
  <1>6. results \in Seq(Entries) /\ Len(results) = k /\ \A i \in 1..k : results[i] = ResultOf(n, i)
    <2>1. CASE finishes
      BY <2>1
    <2>2. CASE ~finishes
      <3> DEFINE r == [i \in 1..calls |-> ResultOf(n, i)]
      <3>1. \A i \in 1..calls : ResultOf(n, i) \in Entries
        BY <1>3 DEF ResultOf, Entries
      <3>2. r \in [1..calls -> Entries] /\ \A i \in 1..calls : r[i] = ResultOf(n, i)
        BY <3>1
      <3>3. results = r /\ k = calls
        BY <2>2
      <3> HIDE DEF r, results, k
      <3>4. r \in Seq(Entries) /\ Len(r) = calls
        BY <1>3, <3>2, FunctionIsSeq
      <3>5. QED
        BY <3>2, <3>3, <3>4
    <2>3. QED
      BY <2>1, <2>2
  <1>7. CASE calls = 0
    <2>1. talk' = talk
      BY <1>1, <1>2, <1>7
    <2>2. QED
      BY <1>2, <1>4, <2>1, TalkKept
  <1>8. CASE calls # 0
    <2> DEFINE joined == Turn(n, calls, raw)
    <2>1. joined \in Entries
      BY <1>3 DEF Turn, Entries
    <2>3. talk' = [talk EXCEPT ![p] = s]
      BY <1>1, <1>8
    <2> HIDE DEF n, results, k, raw
    <2>4. /\ Append(t, joined) \in Seq(Entries) /\ Len(Append(t, joined)) = Len(t) + 1
          /\ Append(t, joined)[Len(t) + 1] = joined
          /\ \A i \in 1..Len(t) : Append(t, joined)[i] = t[i]
      <3> HIDE DEF joined, t
      <3> QED
        BY <1>2, <2>1
    <2> DEFINE u == Append(t, joined)
    <2>5. s = u \o results /\ n = Len(t) + 1
      BY DEF n
    <2> HIDE DEF u, s, joined
    <2>6. /\ s \in Seq(Entries) /\ Len(s) = n + k
          /\ \A i \in 1..Len(t) : s[i] = t[i]
          /\ s[n] = joined
          /\ \A i \in 1..k : s[n + i] = ResultOf(n, i)
      <3>1. u \in Seq(Entries) /\ Len(u) = n /\ u[n] = joined /\ \A i \in 1..Len(t) : u[i] = t[i]
        BY <2>4, <2>5 DEF u
      <3>2. /\ s \in Seq(Entries) /\ Len(s) = n + k
            /\ \A i \in 1..n : s[i] = u[i]
            /\ \A i \in 1..k : s[n + i] = results[i]
        BY <1>3, <1>6, <2>5, <3>1, ConcatItems
      <3>3. n \in 1..n /\ \A i \in 1..Len(t) : i \in 1..n
        BY <1>3, <2>5
      <3>4. QED
        BY <1>6, <3>1, <3>2, <3>3
    <2>7. calls > 0
      BY <1>3, <1>8
    <2> HIDE DEF t
    <2>8. TalkSound(s) /\ s # <<>>
      <3>1. t \in Seq(Entries) /\ TalkSound(t) /\ t # <<>>
        BY <1>2
      <3>2. s[n] = Turn(n, calls, raw)
        BY <2>6 DEF joined
      <3>3. QED
        BY <1>3, <2>5, <2>6, <2>7, <3>1, <3>2, TurnJoins
    <2>9. QED
      BY <1>4, <2>3, <2>8, TalkGrows
  <1>9. QED
    BY <1>7, <1>8

LEMMA TalkStep == RoutingInv /\ TalkInv /\ [RoutingNext]_routingVars => TalkInv'
  <1> SUFFICES ASSUME RoutingInv, TalkInv, [RoutingNext]_routingVars
               PROVE  TalkInv'
    OBVIOUS
  <1>0. run \in [Talkers -> Runnings] /\ Talkers \subseteq Callers
    BY RoutingAssumption DEF RoutingInv, RoutingTypeOK, Runnings
  <1>1. ASSUME NEW p \in Callers, NEW kind \in Kinds, NEW model \in Models,
               CallStarts(p, kind, model)
        PROVE  TalkInv'
    BY <1>1, TalkKept DEF CallStarts
  <1>2. ASSUME NEW p \in Talkers, NEW model \in Models, Instructed(p, model)
        PROVE  TalkInv'
    <2>1. talk[p] \in Seq(Entries) /\ TalkSound(talk[p])
      BY DEF RoutingInv, RoutingTypeOK, TalkInv
    <2>2. TalkSound(Append(talk[p], User)) /\ Append(talk[p], User) # <<>>
      BY <2>1, InstructionJoins
    <2>3. talk' = [talk EXCEPT ![p] = Append(talk[p], User)]
      BY <1>2 DEF Instructed
    <2>4. \A q \in Talkers \ {p} : run'[q] = run[q]
      BY <1>0, <1>2 DEF Instructed
    <2>5. QED
      BY <2>2, <2>3, <2>4, TalkGrows
  <1>3. ASSUME NEW p \in Talkers, StepStarts(p)
        PROVE  TalkInv'
    <2>1. talk' = talk /\ run[p].going
      BY <1>3 DEF StepStarts
    <2>2. \A q \in Talkers \ {p} : run'[q] = run[q]
      BY <1>0, <1>3 DEF StepStarts
    <2>3. QED
      BY <2>1, <2>2, TalkKept
  <1>4. ASSUME NEW p \in Callers, ClaudeReplies(p) \/ OpenaiReplies(p)
        PROVE  TalkInv'
    <2>1. PICK by \in {"anthropic", "openai"}, outcome \in Answers(call[p].kind) :
              call[p].stage = by /\ Takes(p, outcome, by)
      BY <1>4 DEF ClaudeReplies, OpenaiReplies
    <2>2. CASE p \notin Talkers
      BY <2>1, <2>2, TalkKept DEF Takes
    <2>3. CASE p \in Talkers /\ outcome = "answer"
      <3>1. PICK calls \in 0..2, finishes \in BOOLEAN : Answered(p, by, calls, finishes)
        BY <2>1, <2>3 DEF Takes
      <3>2. QED
        BY <2>1, <2>3, <3>1, TalkAnswered
    <2>4. CASE p \in Talkers /\ outcome # "answer"
      <3>1. talk' = talk /\ run' = [run EXCEPT ![p] = Idle]
        BY <2>1, <2>4 DEF Takes
      <3>2. \A q \in Talkers : run'[q].going => run[q].going
        BY <1>0, <3>1, RunTyped
      <3>3. QED
        BY <3>1, <3>2, TalkKept
    <2>5. QED
      BY <2>2, <2>3, <2>4
  <1>5. ASSUME NEW p \in Callers, ClaudeRejects(p)
        PROVE  TalkInv'
    <2>1. talk' = talk /\ run' \in {run, [run EXCEPT ![p] = Idle]}
      BY <1>5 DEF ClaudeRejects
    <2>2. \A q \in Talkers : run'[q].going => run[q].going
      BY <1>0, <2>1, RunTyped
    <2>3. QED
      BY <2>1, <2>2, TalkKept
  <1>6. ASSUME NEW p \in Callers, ChainRejected(p)
        PROVE  TalkInv'
    BY <1>6, TalkKept DEF ChainRejected
  <1>7. CASE KeyChanges \/ Tick
    BY <1>7, TalkKept DEF KeyChanges, Tick
  <1>8. CASE UNCHANGED routingVars
    BY <1>8, TalkKept DEF routingVars
  <1>9. QED
    BY <1>1, <1>2, <1>3, <1>4, <1>5, <1>6, <1>7, <1>8 DEF RoutingNext

LEMMA TalkInvariant == RoutingSpec => [](RoutingInv /\ TalkInv)
  <1>1. RoutingInit => TalkInv
    BY DEF RoutingInit, TalkInv, TalkSound, Idle
  <1>2. QED
    BY RoutingInvariant, RoutingInitially, RoutingStep, <1>1, TalkStep, PTL DEF RoutingSpec

(* What the loop makes of an entry that is no result, and of results. *)
MessageOf(e) ==
    [role |-> e.role, turn |-> e.turn, results |-> <<>>, raw |-> e.raw, calls |-> e.calls]

ResultsAs(waiting) ==
    [role |-> "user", turn |-> waiting[1].turn, results |-> waiting, raw |-> FALSE, calls |-> 0]

Messages == [role : {"user", "assistant", "tool", "system"}, turn : Nat,
             results : Seq(Entries), raw : BOOLEAN, calls : Nat]

(* Every message answers the one before it, beginning with the user's. *)
Answering(out) ==
    /\ out # <<>> => out[1].role = "user"
    /\ \A i \in DOMAIN out : AnswersPrevious(out, i)

(* A message before the canvas is the user's, or a turn as it is in t. *)
Spoken(t, m) ==
    /\ m.role \in {"user", "assistant"}
    /\ m.role = "assistant" =>
          \E e \in Range(t) : e.role = "assistant" /\ e.turn = m.turn /\ e.raw = m.raw

(* The results that wait are the first k of the turn that is the last      *)
(* message, and the last k entries of t up to the n-th. *)
TurnWaits(t, n, acc, k) ==
    /\ Len(acc.waiting) = k /\ n - k \in DOMAIN t /\ acc.out # <<>>
    /\ t[n - k].role = "assistant" /\ k <= t[n - k].calls
    /\ acc.out[Len(acc.out)] = MessageOf(t[n - k])
    /\ t[n] = ResultOf(n - k, k)
    /\ \A j \in 1..k : acc.waiting[j] = ResultOf(n - k, j)

(* Where the loop is after n entries of t. *)
Carried(t, n, acc) ==
    /\ acc \in [out : Seq(Messages), waiting : Seq(Entries)]
    /\ Answering(acc.out)
    /\ \A i \in DOMAIN acc.out : Spoken(t, acc.out[i])
    /\ \/ n = 0 /\ acc.waiting = <<>> /\ acc.out = <<>>
       \/ /\ n \in DOMAIN t /\ acc.waiting = <<>> /\ acc.out # <<>>
          /\ t[n].role # "tool" /\ acc.out[Len(acc.out)] = MessageOf(t[n])
       \/ \E k \in 1..n : TurnWaits(t, n, acc, k)

LEMMA AnsweringExtends ==
    ASSUME NEW out \in Seq(Messages), Answering(out), NEW m \in Messages,
           IF out = <<>> THEN m.role = "user" /\ Len(m.results) = 0
           ELSE LET last == out[Len(out)] IN
                /\ Len(m.results) = last.calls
                /\ \A k \in 1..last.calls :
                      m.role = "user" /\ m.results[k] = ResultOf(last.turn, k)
    PROVE  Answering(Append(out, m))
  <1> DEFINE s == Append(out, m)
             n == Len(out) + 1
  <1>1. /\ Len(out) \in Nat /\ DOMAIN out = 1..Len(out) /\ DOMAIN s = 1..n /\ s # <<>>
        /\ s[n] = m /\ \A i \in 1..Len(out) : s[i] = out[i]
    BY AppendItems
  <1>0. out = <<>> <=> Len(out) = 0
    BY LengthZero
  <1> HIDE DEF s
  <1>2. s[1].role = "user"
    <2>1. CASE Len(out) = 0
      BY <1>0, <1>1, <2>1
    <2>2. CASE Len(out) # 0
      BY <1>0, <1>1, <2>2 DEF Answering
    <2>3. QED
      BY <2>1, <2>2
  <1>3. ASSUME NEW i \in DOMAIN s
        PROVE  AnswersPrevious(s, i)
    <2>1. CASE i # n
      <3>1. i \in 1..Len(out) /\ (i # 1 => i - 1 \in 1..Len(out))
        BY <1>1, <1>3, <2>1
      <3>2. AnswersPrevious(out, i)
        BY <1>1, <3>1 DEF Answering
      <3>3. s[i] = out[i] /\ (i # 1 => s[i - 1] = out[i - 1])
        BY <1>1, <3>1
      <3>4. QED
        BY <3>2, <3>3 DEF AnswersPrevious
    <2>2. CASE i = n /\ Len(out) = 0
      <3>1. i = 1 /\ s[i] = m /\ Len(m.results) = 0
        BY <1>0, <1>1, <2>2
      <3>2. QED
        BY <3>1 DEF AnswersPrevious
    <2>3. CASE i = n /\ Len(out) # 0
      <3>1. i # 1 /\ i - 1 = Len(out) /\ s[i - 1] = out[Len(out)] /\ s[i] = m /\ out # <<>>
        BY <1>0, <1>1, <2>3
      <3>2. QED
        BY <3>1 DEF AnswersPrevious
    <2>4. QED
      BY <2>1, <2>2, <2>3
  <1>4. Answering(s)
    BY <1>2, <1>3 DEF Answering
  <1>5. QED
    BY <1>4 DEF s

LEMMA MessagesTyped ==
    /\ \A e \in Entries : /\ MessageOf(e) \in Messages
                          /\ MessageOf(e).role = e.role /\ MessageOf(e).turn = e.turn
                          /\ MessageOf(e).raw = e.raw /\ MessageOf(e).calls = e.calls
                          /\ Len(MessageOf(e).results) = 0
    /\ \A w \in Seq(Entries) : w # <<>> =>
          /\ ResultsAs(w) \in Messages /\ ResultsAs(w).role = "user"
          /\ ResultsAs(w).results = w /\ ResultsAs(w).calls = 0
  <1>1. ASSUME NEW e \in Entries
        PROVE  /\ MessageOf(e) \in Messages
               /\ MessageOf(e).role = e.role /\ MessageOf(e).turn = e.turn
               /\ MessageOf(e).raw = e.raw /\ MessageOf(e).calls = e.calls
               /\ Len(MessageOf(e).results) = 0
    <2>1. <<>> \in Seq(Entries) /\ Len(<<>>) = 0
      OBVIOUS
    <2>2. QED
      BY <2>1 DEF MessageOf, Messages, Entries
  <1>2. ASSUME NEW w \in Seq(Entries), w # <<>>
        PROVE  /\ ResultsAs(w) \in Messages /\ ResultsAs(w).role = "user"
               /\ ResultsAs(w).results = w /\ ResultsAs(w).calls = 0
    <2>1. 1 \in DOMAIN w
      <3>1. Len(w) # 0
        BY <1>2, LengthZero
      <3>2. QED
        BY <3>1
    <2>2. w[1].turn \in Nat
      <3>1. w[1] \in Entries
        BY <2>1, ElementsOf
      <3>2. QED
        BY <3>1 DEF Entries
    <2>3. QED
      BY <2>2 DEF ResultsAs, Messages
  <1>3. QED
    BY <1>1, <1>2

(* What an entry of a transcript is, by its role. *)
LEMMA EntryByRole ==
    ASSUME NEW t \in Seq(Entries), TalkSound(t), NEW i \in DOMAIN t
    PROVE  /\ i \in Nat /\ i > 0 /\ t[i] \in Entries
           /\ t[i].role \in {"user", "assistant", "tool"}
           /\ t[i].role = "user" => t[i] = User
           /\ t[i].role = "assistant" => t[i].turn = i /\ t[i].calls > 0
           /\ t[i].role = "tool" =>
                 LET c == t[i].calls IN
                 /\ c \in Nat /\ c > 0 /\ c < i /\ t[i] = ResultOf(i - c, c)
                 /\ t[i - c].role = "assistant" /\ c <= t[i - c].calls
                 /\ c > 1 => t[i - 1] = ResultOf(i - c, c - 1)
  <1>1. i \in Nat /\ i > 0 /\ t[i] \in Entries
    BY ElementsOf
  <1>2. TalkEntry(t, i)
    BY DEF TalkSound
  <1>3. t[i].calls \in Nat
    BY <1>1 DEF Entries
  <1>4. CASE t[i] = User
    BY <1>1, <1>4 DEF User
  <1>5. CASE t[i].role = "assistant" /\ t[i].turn = i /\ t[i].calls > 0
    BY <1>1, <1>5
  <1>6. CASE /\ t[i].calls > 0 /\ t[i].calls < i
             /\ t[i] = ResultOf(i - t[i].calls, t[i].calls)
             /\ t[i - t[i].calls].role = "assistant"
             /\ t[i].calls <= t[i - t[i].calls].calls
             /\ t[i].calls > 1 => t[i - 1] = ResultOf(i - t[i].calls, t[i].calls - 1)
    <2>1. t[i].role = "tool"
      BY <1>6 DEF ResultOf
    <2>2. QED
      BY <1>1, <1>3, <1>6, <2>1
  <1>7. QED
    BY <1>2, <1>4, <1>5, <1>6 DEF TalkEntry

(* All results of the turn wait when no further result follows. *)
LEMMA AllWait ==
    ASSUME NEW t \in Seq(Entries), TalkSound(t), Complete(t), NEW n \in Nat, NEW acc,
           n = Len(t) \/ t[n + 1].role # "tool", NEW k \in 1..n, TurnWaits(t, n, acc, k)
    PROVE  k = t[n - k].calls /\ t[n - k].turn = n - k
  <1>1. /\ n - k \in DOMAIN t /\ t[n - k].role = "assistant" /\ k <= t[n - k].calls
        /\ k \in Nat /\ n - k \in Nat
    BY DEF TurnWaits
  <1>2. t[n - k].turn = n - k /\ t[n - k] \in Entries /\ t[n - k].calls \in Nat
    BY <1>1, EntryByRole DEF Entries
  <1> DEFINE m == t[n - k].calls
  <1>3. \A j \in 1..m : (n - k) + j \in DOMAIN t /\ t[(n - k) + j] = ResultOf(n - k, j)
    BY <1>1, <1>2 DEF Complete
  <1>4. ASSUME k < m
        PROVE  FALSE
    <2>1. k + 1 \in 1..m /\ (n - k) + (k + 1) = n + 1
      BY <1>1, <1>2, <1>4
    <2>2. n + 1 \in DOMAIN t /\ t[n + 1] = ResultOf(n - k, k + 1)
      BY <1>3, <2>1
    <2>3. n + 1 # Len(t) + 1
      BY <2>2
    <2>4. t[n + 1].role = "tool"
      BY <2>2 DEF ResultOf
    <2>5. QED
      BY <2>3, <2>4
  <1>5. k = m
    BY <1>1, <1>2, <1>4
  <1>6. QED
    BY <1>2, <1>5

(* What _flush leaves when no further result follows: messages that answer *)
(* each other, of which the last is the user's and calls nothing. *)
LEMMA Flushed ==
    ASSUME NEW t \in Seq(Entries), TalkSound(t), Complete(t), NEW n \in 0..Len(t), NEW acc,
           n = Len(t) \/ t[n + 1].role # "tool", Carried(t, n, acc)
    PROVE  /\ Flush(acc) \in Seq(Messages) /\ Answering(Flush(acc))
           /\ \A i \in DOMAIN Flush(acc) : Spoken(t, Flush(acc)[i])
           /\ Flush(acc) = <<>> <=> n = 0
           /\ n # 0 => LET last == Flush(acc)[Len(Flush(acc))] IN
                       last.role = "user" /\ last.calls = 0
  <1>1. /\ acc.out \in Seq(Messages) /\ acc.waiting \in Seq(Entries) /\ Answering(acc.out)
        /\ \A i \in DOMAIN acc.out : Spoken(t, acc.out[i])
        /\ Len(t) \in Nat /\ n \in Nat /\ DOMAIN t = 1..Len(t)
    BY DEF Carried
  <1>2. CASE n = 0 /\ acc.waiting = <<>> /\ acc.out = <<>>
    BY <1>1, <1>2 DEF Flush
  <1>3. CASE /\ n \in DOMAIN t /\ acc.waiting = <<>> /\ acc.out # <<>>
             /\ t[n].role # "tool" /\ acc.out[Len(acc.out)] = MessageOf(t[n])
    <2>1. Flush(acc) = acc.out /\ n # 0
      <3>1. acc.waiting = <<>> /\ n \in 1..Len(t)
        BY <1>1, <1>3
      <3>2. Flush(acc) = acc.out
        BY <3>1 DEF Flush
      <3>3. QED
        BY <3>1, <3>2
    <2>2. t[n] \in Entries /\ t[n].role \in {"user", "assistant"}
          /\ (t[n].role = "user" => t[n] = User)
      <3>1. /\ t[n] \in Entries /\ t[n].role \in {"user", "assistant", "tool"}
            /\ t[n].role = "user" => t[n] = User
        BY <1>3, EntryByRole
      <3>2. QED
        BY <1>3, <3>1
    <2>3. t[n].role # "assistant"
      <3>1. ASSUME t[n].role = "assistant"
            PROVE  FALSE
        <4>1. t[n].turn = n /\ t[n].calls > 0 /\ t[n].calls \in Nat
          BY <1>3, <2>2, <3>1, EntryByRole DEF Entries
        <4>2. 1 \in 1..t[n].calls
          BY <4>1
        <4>3. n + 1 \in DOMAIN t /\ t[n + 1] = ResultOf(n, 1)
          BY <1>3, <3>1, <4>1, <4>2 DEF Complete
        <4>4. n # Len(t) /\ t[n + 1].role = "tool"
          BY <1>1, <4>3 DEF ResultOf
        <4>5. QED
          BY <4>4
      <3>2. QED
        BY <3>1
    <2>4. MessageOf(t[n]).role = "user" /\ MessageOf(t[n]).calls = 0
      BY <2>2, <2>3, MessagesTyped DEF User
    <2>5. QED
      BY <1>1, <1>3, <2>1, <2>4
  <1>4. ASSUME NEW k \in 1..n, TurnWaits(t, n, acc, k)
        PROVE  /\ Flush(acc) \in Seq(Messages) /\ Answering(Flush(acc))
               /\ \A i \in DOMAIN Flush(acc) : Spoken(t, Flush(acc)[i])
               /\ Flush(acc) # <<>> /\ n # 0
               /\ LET last == Flush(acc)[Len(Flush(acc))] IN
                  last.role = "user" /\ last.calls = 0
    <2> DEFINE m == ResultsAs(acc.waiting)
               last == acc.out[Len(acc.out)]
    <2>1. /\ Len(acc.waiting) = k /\ n - k \in DOMAIN t /\ acc.out # <<>>
          /\ last = MessageOf(t[n - k])
          /\ \A j \in 1..k : acc.waiting[j] = ResultOf(n - k, j)
      BY <1>4 DEF TurnWaits
    <2>2. acc.waiting # <<>> /\ n # 0
      BY <2>1
    <2>3. k = t[n - k].calls /\ t[n - k].turn = n - k
      BY <1>1, <1>4, AllWait
    <2>4. last.calls = k /\ last.turn = n - k
      <3>1. t[n - k] \in Entries
        BY <2>1, ElementsOf
      <3>2. QED
        BY <2>1, <2>3, <3>1, MessagesTyped
    <2>5. /\ m \in Messages /\ m.role = "user" /\ m.results = acc.waiting /\ m.calls = 0
      BY <1>1, <2>2, MessagesTyped
    <2>6. Flush(acc) = Append(acc.out, m)
      BY <2>2 DEF Flush, ResultsAs
    <2> HIDE DEF m
    <2>7. Answering(Append(acc.out, m))
      BY <1>1, <2>1, <2>4, <2>5, AnsweringExtends
    <2>8. Spoken(t, m)
      BY <2>5 DEF Spoken
    <2>9. /\ Append(acc.out, m) \in Seq(Messages) /\ Append(acc.out, m) # <<>>
          /\ Len(Append(acc.out, m)) = Len(acc.out) + 1
          /\ DOMAIN Append(acc.out, m) = 1..(Len(acc.out) + 1)
          /\ Append(acc.out, m)[Len(acc.out) + 1] = m
          /\ \A i \in 1..Len(acc.out) : Append(acc.out, m)[i] = acc.out[i]
          /\ Len(acc.out) \in Nat /\ DOMAIN acc.out = 1..Len(acc.out)
      <3>1. acc.out \in Seq(Messages) /\ m \in Messages
        BY <1>1, <2>5
      <3>2. QED
        BY <3>1, AppendItems
    <2>10. \A i \in 1..(Len(acc.out) + 1) : i \in 1..Len(acc.out) \/ i = Len(acc.out) + 1
      BY <2>9
    <2>11. \A i \in DOMAIN Append(acc.out, m) : Spoken(t, Append(acc.out, m)[i])
      BY <1>1, <2>8, <2>9, <2>10
    <2>12. QED
      BY <2>2, <2>5, <2>6, <2>7, <2>9, <2>11
  <1>5. QED
    BY <1>2, <1>3, <1>4 DEF Carried

(* A result joins those that wait for the next message. *)
LEMMA ResultWaits ==
    ASSUME NEW t \in Seq(Entries), TalkSound(t), NEW n \in DOMAIN t, NEW acc,
           Carried(t, n - 1, acc), t[n].role = "tool"
    PROVE  Carried(t, n, Translate(acc, t[n]))
  <1> DEFINE c == t[n].calls
             w == Append(acc.waiting, t[n])
             next == Translate(acc, t[n])
  <1>1. /\ n \in Nat /\ t[n] \in Entries /\ c \in Nat /\ c > 0 /\ c < n
        /\ t[n] = ResultOf(n - c, c) /\ t[n - c].role = "assistant" /\ c <= t[n - c].calls
        /\ c > 1 => t[n - 1] = ResultOf(n - c, c - 1)
    BY EntryByRole
  <1>2. /\ acc \in [out : Seq(Messages), waiting : Seq(Entries)]
        /\ Answering(acc.out) /\ \A i \in DOMAIN acc.out : Spoken(t, acc.out[i])
    BY DEF Carried
  <1>3. next \in [out : Seq(Messages), waiting : Seq(Entries)]
        /\ next.out = acc.out /\ next.waiting = w
    <2>1. next = [acc EXCEPT !.waiting = Append(@, t[n])]
      BY DEF Translate
    <2>2. w \in Seq(Entries)
      <3>1. acc.waiting \in Seq(Entries)
        BY <1>2
      <3>2. QED
        BY <1>1, <3>1, AppendItems
    <2>3. QED
      BY <1>2, <2>1, <2>2
  <1>4. /\ Len(acc.waiting) \in Nat /\ Len(w) = Len(acc.waiting) + 1
        /\ w[Len(acc.waiting) + 1] = t[n]
        /\ \A j \in 1..Len(acc.waiting) : w[j] = acc.waiting[j]
    <2>1. acc.waiting \in Seq(Entries)
      BY <1>2
    <2>2. QED
      BY <1>1, <2>1, AppendItems
  <1> HIDE DEF c, w, next
  <1>5. n - c \in DOMAIN t /\ n \in 1..Len(t) /\ n # 1 /\ c \in 1..n
    <2>1. n \in 1..Len(t) /\ Len(t) \in Nat /\ DOMAIN t = 1..Len(t)
      OBVIOUS
    <2>2. QED
      BY <1>1, <2>1
  <1>6. ASSUME c = Len(acc.waiting) + 1, acc.out # <<>>,
               acc.out[Len(acc.out)] = MessageOf(t[n - c]),
               \A j \in 1..Len(acc.waiting) : acc.waiting[j] = ResultOf(n - c, j)
        PROVE  TurnWaits(t, n, next, c)
    <2>1. ASSUME NEW j \in 1..c
          PROVE  w[j] = ResultOf(n - c, j)
      <3>1. CASE j = c
        BY <1>1, <1>4, <1>6, <3>1
      <3>2. CASE j # c
        <4>1. j \in 1..Len(acc.waiting)
          BY <1>4, <1>6, <2>1, <3>2
        <4>2. QED
          BY <1>4, <1>6, <4>1
      <3>3. QED
        BY <3>1, <3>2
    <2>2. Len(w) = c
      BY <1>4, <1>6
    <2>3. QED
      BY <1>1, <1>3, <1>5, <1>6, <2>1, <2>2 DEF TurnWaits
  <1>7. ASSUME acc.waiting = <<>>, acc.out # <<>>, t[n - 1].role # "tool",
               acc.out[Len(acc.out)] = MessageOf(t[n - 1])
        PROVE  TurnWaits(t, n, next, c)
    <2>1. c = 1
      <3>1. ~(c > 1)
        BY <1>1, <1>7 DEF ResultOf
      <3>2. QED
        BY <1>1, <3>1
    <2>2. Len(acc.waiting) = 0
      BY <1>7
    <2>3. /\ c = Len(acc.waiting) + 1 /\ acc.out[Len(acc.out)] = MessageOf(t[n - c])
          /\ \A j \in 1..Len(acc.waiting) : acc.waiting[j] = ResultOf(n - c, j)
      BY <1>7, <2>1, <2>2
    <2>4. QED
      BY <1>6, <1>7, <2>3
  <1>8. ASSUME NEW k \in 1..(n - 1), TurnWaits(t, n - 1, acc, k)
        PROVE  TurnWaits(t, n, next, c)
    <2>1. /\ Len(acc.waiting) = k /\ acc.out # <<>>
          /\ acc.out[Len(acc.out)] = MessageOf(t[(n - 1) - k])
          /\ t[n - 1] = ResultOf((n - 1) - k, k)
          /\ \A j \in 1..k : acc.waiting[j] = ResultOf((n - 1) - k, j)
      BY <1>8 DEF TurnWaits
    <2>2. t[n - 1].role = "tool" /\ t[n - 1].calls = k
      BY <2>1 DEF ResultOf
    <2>3. c > 1
      BY <1>1, <2>2
    <2>4. t[n - 1].calls = c - 1
      BY <1>1, <2>3 DEF ResultOf
    <2>5. k \in Nat /\ c = k + 1 /\ (n - 1) - k = n - c
      <3>1. k \in Nat
        BY <1>1, <1>8
      <3>2. QED
        BY <1>1, <2>2, <2>4, <3>1
    <2>6. /\ c = Len(acc.waiting) + 1 /\ acc.out[Len(acc.out)] = MessageOf(t[n - c])
          /\ \A j \in 1..Len(acc.waiting) : acc.waiting[j] = ResultOf(n - c, j)
      BY <2>1, <2>5
    <2>7. QED
      BY <1>6, <2>1, <2>6
  <1>9. TurnWaits(t, n, next, c)
    <2>1. n - 1 # 0
      BY <1>1, <1>5
    <2>2. \/ n - 1 = 0
          \/ /\ acc.waiting = <<>> /\ acc.out # <<>>
             /\ t[n - 1].role # "tool" /\ acc.out[Len(acc.out)] = MessageOf(t[n - 1])
          \/ \E k \in 1..(n - 1) : TurnWaits(t, n - 1, acc, k)
      BY DEF Carried
    <2>3. QED
      BY <1>7, <1>8, <2>1, <2>2
  <1>10. QED
    BY <1>2, <1>3, <1>5, <1>9 DEF Carried, next

(* Any other entry makes a message, after those that waited. *)
LEMMA MessageJoins ==
    ASSUME NEW t \in Seq(Entries), TalkSound(t), Complete(t), NEW n \in DOMAIN t, NEW acc,
           Carried(t, n - 1, acc), t[n].role # "tool"
    PROVE  Carried(t, n, Translate(acc, t[n]))
  <1> DEFINE f == Flush(acc)
             m == MessageOf(t[n])
             next == Translate(acc, t[n])
  <1>1. /\ n \in 1..Len(t) /\ Len(t) \in Nat /\ DOMAIN t = 1..Len(t)
        /\ n - 1 \in 0..Len(t) /\ (n - 1) + 1 = n
    <2>1. Len(t) \in Nat /\ DOMAIN t = 1..Len(t)
      OBVIOUS
    <2>2. QED
      BY <2>1
  <1>2. /\ t[n] \in Entries /\ t[n].role \in {"user", "assistant"}
        /\ t[n].role = "assistant" => t[n].turn = n
    BY EntryByRole
  <1>3. /\ m \in Messages /\ m.role = t[n].role /\ m.turn = t[n].turn /\ m.raw = t[n].raw
        /\ Len(m.results) = 0
    BY <1>2, MessagesTyped
  <1>4. /\ f \in Seq(Messages) /\ Answering(f)
        /\ \A i \in DOMAIN f : Spoken(t, f[i])
        /\ f = <<>> <=> n - 1 = 0
        /\ n - 1 # 0 => f[Len(f)].role = "user" /\ f[Len(f)].calls = 0
    <2>1. n - 1 = Len(t) \/ t[(n - 1) + 1].role # "tool"
      BY <1>1
    <2>2. QED
      BY <1>1, <2>1, Flushed
  <1>5. next = [out |-> Append(f, m), waiting |-> <<>>]
    BY DEF Translate, MessageOf
  <1> HIDE DEF f, m, next
  <1>6. f = <<>> => m.role = "user"
    <2>1. t # <<>>
      BY <1>1
    <2>2. t[1] = User
      BY <2>1 DEF TalkSound
    <2>3. QED
      BY <1>1, <1>3, <1>4, <2>2 DEF User
  <1>7. Answering(Append(f, m))
    <2>1. f # <<>> => f[Len(f)].calls = 0
      BY <1>4
    <2>2. \A k \in 1..0 : FALSE
      OBVIOUS
    <2>3. IF f = <<>> THEN m.role = "user" /\ Len(m.results) = 0
          ELSE LET last == f[Len(f)] IN
               /\ Len(m.results) = last.calls
               /\ \A k \in 1..last.calls :
                     m.role = "user" /\ m.results[k] = ResultOf(last.turn, k)
      BY <1>3, <1>6, <2>1, <2>2
    <2>4. QED
      BY <1>3, <1>4, <2>3, AnsweringExtends
  <1>8. Spoken(t, m)
    <2>1. t[n] \in Range(t)
      BY DEF Range
    <2>2. QED
      BY <1>2, <1>3, <2>1 DEF Spoken
  <1>9. /\ Append(f, m) \in Seq(Messages) /\ Append(f, m) # <<>>
        /\ Len(Append(f, m)) = Len(f) + 1 /\ Len(f) \in Nat /\ DOMAIN f = 1..Len(f)
        /\ DOMAIN Append(f, m) = 1..(Len(f) + 1)
        /\ Append(f, m)[Len(f) + 1] = m
        /\ \A i \in 1..Len(f) : Append(f, m)[i] = f[i]
    <2>1. f \in Seq(Messages) /\ m \in Messages
      BY <1>3, <1>4
    <2>2. QED
      BY <2>1, AppendItems
  <1>10. \A i \in DOMAIN Append(f, m) : Spoken(t, Append(f, m)[i])
    <2>1. \A i \in 1..(Len(f) + 1) : i \in 1..Len(f) \/ i = Len(f) + 1
      BY <1>9
    <2>2. QED
      BY <1>4, <1>8, <1>9, <2>1
  <1>11. /\ next \in [out : Seq(Messages), waiting : Seq(Entries)]
         /\ next.out = Append(f, m) /\ next.waiting = <<>>
    <2>1. <<>> \in Seq(Entries)
      OBVIOUS
    <2>2. QED
      BY <1>5, <1>9, <2>1
  <1>12. next.out[Len(next.out)] = MessageOf(t[n]) /\ next.out # <<>>
    BY <1>9, <1>11 DEF m
  <1>13. Carried(t, n, next)
    BY <1>7, <1>10, <1>11, <1>12 DEF Carried
  <1>14. QED
    BY <1>13 DEF next

(* The loop is carried through every transcript, whatever follows it. *)
LEMMA LoopCarries ==
    ASSUME NEW t \in Seq(Entries), TalkSound(t), Complete(t), NEW s, Len(s) \in Nat,
           Len(t) <= Len(s), \A i \in 1..Len(t) : s[i] = t[i]
    PROVE  \A n \in 0..Len(t) : Carried(t, n, Translation(s)[n])
  <1> DEFINE S == {n \in Nat : n > Len(t) \/ Carried(t, n, Translation(s)[n])}
  <1>1. Len(t) \in Nat /\ DOMAIN t = 1..Len(t)
    OBVIOUS
  <1>2. /\ Translation(s)[0] = [out |-> <<>>, waiting |-> <<>>]
        /\ \A n \in 1..Len(s) : Translation(s)[n] = Translate(Translation(s)[n - 1], s[n])
    BY TranslationStep
  <1>3. 0 \in S
    <2>1. /\ Translation(s)[0] \in [out : Seq(Messages), waiting : Seq(Entries)]
          /\ Translation(s)[0].out = <<>> /\ Translation(s)[0].waiting = <<>>
      BY <1>2
    <2>2. DOMAIN <<>> = {}
      OBVIOUS
    <2>3. Carried(t, 0, Translation(s)[0])
      BY <2>1, <2>2 DEF Carried, Answering
    <2>4. QED
      BY <2>3
  <1>4. ASSUME NEW n \in S
        PROVE  n + 1 \in S
    <2>1. n \in Nat /\ (n > Len(t) \/ Carried(t, n, Translation(s)[n]))
      OBVIOUS
    <2>2. CASE n >= Len(t)
      BY <1>1, <2>1, <2>2
    <2>3. CASE n < Len(t)
      <3>1. /\ Carried(t, n, Translation(s)[n]) /\ n + 1 \in DOMAIN t
            /\ (n + 1) - 1 = n /\ n + 1 \in 1..Len(s) /\ n + 1 \in 1..Len(t)
        BY <1>1, <2>1, <2>3
      <3>2. Translation(s)[n + 1] = Translate(Translation(s)[n], t[n + 1])
        BY <1>2, <3>1
      <3>3. Carried(t, n + 1, Translation(s)[n + 1])
        BY <3>1, <3>2, ResultWaits, MessageJoins
      <3>4. QED
        BY <2>1, <3>3
    <2>4. QED
      BY <1>1, <2>1, <2>2, <2>3
  <1>5. S = Nat
    <2>1. S \in SUBSET Nat
      OBVIOUS
    <2> HIDE DEF S
    <2>2. QED
      BY <1>3, <1>4, <2>1, NatBySteps
  <1>6. ASSUME NEW n \in 0..Len(t)
        PROVE  Carried(t, n, Translation(s)[n])
    <2>1. n \in Nat /\ ~(n > Len(t))
      BY <1>1, <1>6
    <2>2. QED
      BY <1>5, <2>1
  <1>7. QED
    BY <1>6

(* The canvas makes the last message, after what _flush left. *)
LEMMA CanvasIsLast ==
    ASSUME NEW t \in Seq(Entries), TalkSound(t), Complete(t)
    PROVE  \E acc : /\ Carried(t, Len(t), acc)
                    /\ ToAnthropicMessages(Append(t, Canvas)) =
                          Append(Flush(acc), MessageOf(Canvas))
  <1> DEFINE s == Append(t, Canvas)
             acc == Translation(s)[Len(t)]
             n == Len(t) + 1
  <1>1. /\ Len(t) \in Nat /\ n \in 1..n /\ n - 1 = Len(t) /\ n \in Nat /\ Len(t) <= n
        /\ Len(t) \in 0..Len(t)
    OBVIOUS
  <1>2. Canvas \in Entries /\ Canvas.role # "tool"
    BY DEF Canvas, Entries
  <1>3. Len(s) = n /\ s[n] = Canvas /\ \A i \in 1..Len(t) : s[i] = t[i]
    BY <1>2, AppendItems
  <1> HIDE DEF s, n
  <1>4. Carried(t, Len(t), acc)
    <2>1. \A i \in 0..Len(t) : Carried(t, i, Translation(s)[i])
      BY <1>1, <1>3, LoopCarries
    <2>2. QED
      BY <1>1, <2>1
  <1>5. Translation(s)[n] = Translate(acc, Canvas)
    <2>1. Translation(s)[n] = Translate(Translation(s)[n - 1], s[n])
      BY <1>1, <1>3, TranslationStep
    <2>2. QED
      BY <1>1, <1>3, <2>1
  <1> HIDE DEF acc
  <1>6. Translate(acc, Canvas) = [out |-> Append(Flush(acc), MessageOf(Canvas)),
                                  waiting |-> <<>>]
    BY <1>2 DEF Translate, MessageOf
  <1>7. Flush(Translate(acc, Canvas)) = Append(Flush(acc), MessageOf(Canvas))
    <2>1. /\ Translate(acc, Canvas).waiting = <<>>
          /\ Translate(acc, Canvas).out = Append(Flush(acc), MessageOf(Canvas))
      BY <1>6
    <2>2. Flush(Translate(acc, Canvas)) = Translate(acc, Canvas).out
      BY <2>1 DEF Flush
    <2>3. QED
      BY <2>1, <2>2
  <1>8. ToAnthropicMessages(s) = Append(Flush(acc), MessageOf(Canvas))
    BY <1>3, <1>5, <1>7 DEF ToAnthropicMessages
  <1>9. QED
    BY <1>4, <1>8 DEF s

(* Claude's wire. *)
LEMMA ClaudeWire ==
    ASSUME NEW t \in Seq(Entries), TalkSound(t), Complete(t), t # <<>>, NEW claude,
           claude = ToAnthropicMessages(Append(t, Canvas))
    PROVE  /\ claude[1].role = "user"
           /\ \A i \in DOMAIN claude :
                 /\ AnswersPrevious(claude, i)
                 /\ claude[i].role = "system" =>
                       i = Len(claude) /\ claude[i - 1].role = "user"
                 /\ claude[i].role = "assistant" =>
                       \E e \in Range(t) : e.role = "assistant"
                           /\ e.turn = claude[i].turn /\ e.raw = claude[i].raw
           /\ Last(claude).calls = 0
  <1>1. PICK acc : /\ Carried(t, Len(t), acc)
                   /\ claude = Append(Flush(acc), MessageOf(Canvas))
    BY CanvasIsLast
  <1> DEFINE f == Flush(acc)
             m == MessageOf(Canvas)
  <1>2. /\ Len(t) \in 0..Len(t) /\ Len(t) # 0
    <2>1. Len(t) # 0 /\ Len(t) \in Nat
      BY LengthZero
    <2>2. QED
      BY <2>1
  <1>3. /\ f \in Seq(Messages) /\ Answering(f)
        /\ \A i \in DOMAIN f : Spoken(t, f[i])
        /\ f # <<>>
        /\ f[Len(f)].role = "user" /\ f[Len(f)].calls = 0
    BY <1>1, <1>2, Flushed
  <1>4. m \in Messages /\ m.role = "system" /\ m.calls = 0 /\ Len(m.results) = 0
    <2>1. /\ Canvas \in Entries /\ Canvas.role = "system" /\ Canvas.calls = 0
      BY DEF Canvas, Entries
    <2>2. QED
      BY <2>1, MessagesTyped
  <1> HIDE DEF f, m
  <1>5. claude = Append(f, m)
    BY <1>1 DEF f, m
  <1>6. Answering(claude)
    <2>1. IF f = <<>> THEN m.role = "user" /\ Len(m.results) = 0
          ELSE LET last == f[Len(f)] IN
               /\ Len(m.results) = last.calls
               /\ \A k \in 1..last.calls :
                     m.role = "user" /\ m.results[k] = ResultOf(last.turn, k)
      <3>1. \A k \in 1..0 : FALSE
        OBVIOUS
      <3>2. QED
        BY <1>3, <1>4, <3>1
    <2>2. QED
      BY <1>3, <1>4, <1>5, <2>1, AnsweringExtends
  <1>7. /\ Len(f) \in Nat /\ claude # <<>> /\ Len(claude) = Len(f) + 1
        /\ DOMAIN claude = 1..(Len(f) + 1) /\ DOMAIN f = 1..Len(f)
        /\ claude[Len(f) + 1] = m /\ \A i \in 1..Len(f) : claude[i] = f[i]
    <2>1. f \in Seq(Messages) /\ m \in Messages
      BY <1>3, <1>4
    <2>2. QED
      BY <1>5, <2>1, AppendItems
  <1>8. Last(claude).calls = 0
    BY <1>4, <1>7 DEF Last
  <1>9. Len(f) # 0
    BY <1>3, LengthZero
  <1>10. ASSUME NEW i \in DOMAIN claude
         PROVE  /\ claude[i].role = "system" =>
                      i = Len(claude) /\ claude[i - 1].role = "user"
                /\ claude[i].role = "assistant" =>
                      \E e \in Range(t) : e.role = "assistant"
                          /\ e.turn = claude[i].turn /\ e.raw = claude[i].raw
    <2>1. CASE i = Len(f) + 1
      <3>1. /\ claude[i] = m /\ i = Len(claude) /\ i - 1 = Len(f) /\ Len(f) \in 1..Len(f)
        BY <1>7, <1>9, <2>1
      <3>2. claude[i - 1] = f[Len(f)]
        BY <1>7, <3>1
      <3>3. QED
        BY <1>3, <1>4, <3>1, <3>2
    <2>2. CASE i # Len(f) + 1
      <3>1. i \in 1..Len(f)
        BY <1>7, <1>10, <2>2
      <3>2. claude[i] = f[i] /\ Spoken(t, f[i])
        BY <1>3, <1>7, <3>1
      <3>3. QED
        BY <3>2 DEF Spoken
    <2>3. QED
      BY <2>1, <2>2
  <1>11. QED
    BY <1>6, <1>7, <1>8, <1>10 DEF Answering

(* OpenAI's wire: one message for each entry, a place further on. *)
LEMMA OpenaiWire ==
    ASSUME NEW t \in Seq(Entries), TalkSound(t), NEW openai,
           openai = ToOpenaiMessages(Append(t, Canvas))
    PROVE  \A i \in DOMAIN openai :
               /\ ~openai[i].raw
               /\ openai[i].role = "tool" =>
                     LET at0 == i - openai[i].calls IN
                     openai[at0].role = "assistant" /\ openai[at0].turn = openai[i].turn
  <1> DEFINE s == Append(t, Canvas)
             n == Len(t) + 1
             plain == [i \in DOMAIN s |-> [s[i] EXCEPT !.raw = FALSE]]
  <1>1. Canvas \in Entries /\ Canvas.role = "system" /\ ~Canvas.raw
    BY DEF Canvas, Entries
  <1>2. /\ s \in Seq(Entries) /\ Len(s) = n /\ DOMAIN s = 1..n /\ s[n] = Canvas
        /\ Len(t) \in Nat /\ DOMAIN t = 1..Len(t) /\ \A i \in 1..Len(t) : s[i] = t[i]
    BY <1>1, AppendItems
  <1> HIDE DEF s
  <1>3. \A i \in DOMAIN s : s[i] \in Entries
    BY <1>2, ElementsOf
  <1>4. \A i \in DOMAIN s : /\ plain[i] \in Entries /\ plain[i].role = s[i].role
                            /\ plain[i].turn = s[i].turn /\ plain[i].calls = s[i].calls
                            /\ ~plain[i].raw
    BY <1>3 DEF Entries
  <1>5. plain \in Seq(Entries) /\ Len(plain) = n
    <2>1. plain \in [1..n -> Entries]
      BY <1>2, <1>4
    <2>2. n \in Nat
      BY <1>2
    <2> HIDE DEF plain, n
    <2>3. QED
      BY <2>1, <2>2, FunctionIsSeq
  <1>6. openai = <<Canvas>> \o plain
    BY <1>2 DEF ToOpenaiMessages, s
  <1> HIDE DEF plain
  <1>7. /\ openai[1] = Canvas /\ DOMAIN openai = 1..(n + 1)
        /\ \A i \in 1..n : openai[i + 1] = plain[i]
    <2>1. <<Canvas>> \in Seq(Entries) /\ Len(<<Canvas>>) = 1 /\ <<Canvas>>[1] = Canvas
      BY <1>1
    <2> DEFINE one == <<Canvas>>
    <2> HIDE DEF one
    <2>2. QED
      BY <1>2, <1>5, <1>6, <2>1, ConcatItems
  <1>8. ASSUME NEW i \in DOMAIN openai, i # 1
        PROVE  /\ ~openai[i].raw
               /\ openai[i].role = "tool" =>
                     LET at0 == i - openai[i].calls IN
                     openai[at0].role = "assistant" /\ openai[at0].turn = openai[i].turn
    <2> DEFINE j == i - 1
    <2>1. j \in 1..n /\ j \in Nat /\ i = j + 1 /\ openai[i] = plain[j]
      <3>1. j \in 1..n /\ i = j + 1
        BY <1>2, <1>7, <1>8
      <3>2. QED
        BY <1>7, <3>1
    <2> HIDE DEF j
    <2>2. /\ openai[i].role = s[j].role /\ openai[i].turn = s[j].turn
          /\ openai[i].calls = s[j].calls /\ ~openai[i].raw
      BY <1>2, <1>4, <2>1
    <2>3. ASSUME s[j].role = "tool"
          PROVE  LET at0 == i - s[j].calls IN
                 openai[at0].role = "assistant" /\ openai[at0].turn = s[j].turn
      <3> DEFINE c == s[j].calls
      <3>1. j \in DOMAIN t /\ s[j] = t[j]
        <4>1. j # n
          BY <1>1, <1>2, <2>3
        <4>2. QED
          BY <1>2, <2>1, <4>1
      <3>2. /\ c \in Nat /\ c > 0 /\ c < j /\ t[j] = ResultOf(j - c, c)
            /\ t[j - c].role = "assistant"
        BY <2>3, <3>1, EntryByRole
      <3> HIDE DEF c
      <3>3. /\ j - c \in 1..Len(t) /\ j - c \in DOMAIN t /\ j - c \in 1..n
            /\ i - c = (j - c) + 1
        BY <1>2, <2>1, <3>1, <3>2
      <3>4. t[j - c].turn = j - c
        BY <3>2, <3>3, EntryByRole
      <3>5. openai[i - c] = plain[j - c] /\ s[j - c] = t[j - c]
        BY <1>2, <1>7, <3>3
      <3>6. openai[i - c].role = "assistant" /\ openai[i - c].turn = j - c
        BY <1>2, <1>4, <3>2, <3>3, <3>4, <3>5
      <3>7. s[j].turn = j - c
        BY <3>1, <3>2 DEF ResultOf
      <3>8. QED
        BY <3>6, <3>7 DEF c
    <2>4. QED
      BY <2>2, <2>3
  <1>9. QED
    BY <1>1, <1>7, <1>8

(* Whatever vendors have answered the turns of an agent before, what       *)
(* _to_anthropic_messages and _to_openai_messages (llm.py) make of its     *)
(* transcript is what the vendor asks for, and nothing is lost or forged:  *)
(* for transcripts of any length that answer their own calls. *)
THEOREM WireSound == RoutingSpec => []WireIsWellFormed
  <1>1. ASSUME RoutingInv, TalkInv
        PROVE  WireIsWellFormed
    <2>1. ASSUME NEW p \in Talkers, call[p].stage # "idle", Complete(talk[p])
          PROVE  talk[p] \in Seq(Entries) /\ TalkSound(talk[p]) /\ talk[p] # <<>>
      <3>1. talk[p] \in Seq(Entries)
        BY <1>1 DEF RoutingInv, RoutingTypeOK
      <3>2. run[p].going
        BY <1>1, <2>1 DEF RoutingInv, RunSound
      <3>3. QED
        BY <1>1, <3>1, <3>2 DEF TalkInv
    <2>2. QED
      BY <2>1, ClaudeWire, OpenaiWire DEF WireIsWellFormed, Sent
  <1>2. QED
    BY <1>1, TalkInvariant, PTL

-----------------------------------------------------------------------------
(* The agents of an execution *)

(* The n-th assigned sub-task is one, and has n of them up to itself. *)
LEMMA AssignedKnown ==
    ASSUME NEW tasks \in Seq(Agents \cup {Stranger}), NEW n \in DOMAIN Assigned(tasks)
    PROVE  /\ Assigned(tasks)[n] \in Known(tasks)
           /\ Cardinality(Known(tasks) \cap 1..Assigned(tasks)[n]) = n
           /\ n \in 1..Len(tasks)
  <1> DEFINE K == Known(tasks)
             C(k) == Cardinality(K \cap 1..k)
  <1>1. K \in SUBSET (1..Len(tasks)) /\ Len(tasks) \in Nat
    BY DEF Known
  <1>2. IsFiniteSet(K) /\ Cardinality(K) <= Len(tasks) /\ Cardinality(K) \in Nat
    <2>1. IsFiniteSet(1..Len(tasks)) /\ Cardinality(1..Len(tasks)) <= Len(tasks)
      BY <1>1, FS_Interval
    <2>2. IsFiniteSet(K) /\ Cardinality(K) <= Cardinality(1..Len(tasks))
      BY <1>1, <2>1, FS_Subset
    <2>3. Cardinality(K) \in Nat /\ Cardinality(1..Len(tasks)) \in Nat
      BY <2>1, <2>2, FS_CardinalityType
    <2>4. QED
      BY <1>1, <2>1, <2>2, <2>3
  <1>3. n \in 1..Cardinality(K)
    BY DEF Assigned
  <1>6. Assigned(tasks)[n] = CHOOSE i \in K : C(i) = n
    BY <1>3 DEF Assigned
  <1> HIDE DEF K
  <1>4. ASSUME NEW k \in Nat
        PROVE  IsFiniteSet(K \cap 1..k) /\ C(k) \in Nat
    BY <1>2, FS_Subset, FS_CardinalityType
  <1>5. n \in Nat
    BY <1>2, <1>3
  <1>7. C(0) = 0
    <2>1. K \cap 1..0 = {}
      OBVIOUS
    <2>2. QED
      BY <2>1, FS_EmptySet
  <1>8. C(Len(tasks)) = Cardinality(K)
    <2>1. K \cap 1..Len(tasks) = K
      BY <1>1
    <2>2. QED
      BY <2>1
  <1>9. ASSUME NEW k \in Nat
        PROVE  /\ k + 1 \in K => C(k + 1) <= C(k) + 1
               /\ k + 1 \notin K => C(k + 1) = C(k)
    <2>1. \A i \in 1..(k + 1) : i \in 1..k \/ i = k + 1
      OBVIOUS
    <2>2. 1..k \subseteq 1..(k + 1)
      OBVIOUS
    <2>3. CASE k + 1 \in K
      <3>1. IsFiniteSet(K \cap 1..k) /\ C(k) \in Nat
        BY <1>4
      <3>2. K \cap 1..(k + 1) = (K \cap 1..k) \cup {k + 1}
        BY <2>1, <2>2, <2>3
      <3>3. Cardinality((K \cap 1..k) \cup {k + 1})
              = IF k + 1 \in (K \cap 1..k) THEN C(k) ELSE C(k) + 1
        BY <3>1, FS_AddElement
      <3>4. C(k + 1) \in {C(k), C(k) + 1}
        BY <3>2, <3>3
      <3> HIDE DEF C
      <3>5. QED
        BY <2>3, <3>1, <3>4
    <2>4. CASE k + 1 \notin K
      <3>1. K \cap 1..(k + 1) = K \cap 1..k
        BY <2>1, <2>2, <2>4
      <3>2. QED
        BY <2>4, <3>1
    <2>5. QED
      BY <2>3, <2>4
  <1>10. \A k \in Nat : C(k) \in Nat
    BY <1>4
  <1> HIDE DEF C
  <1>11. \E i \in K : C(i) = n
    <2> DEFINE T == {k \in Nat : n <= C(k)}
    <2>1. Len(tasks) \in T
      BY <1>1, <1>2, <1>3, <1>8
    <2>2. PICK k \in T : \A y \in T : k <= y
      BY <2>1, LeastNatural
    <2>3. k \in Nat /\ n <= C(k) /\ k # 0
      BY <1>3, <1>5, <1>7
    <2>4. PICK j \in Nat : k = j + 1
      BY <2>3
    <2>5. ~(n <= C(j))
      BY <2>2, <2>4
    <2>6. C(k) \in Nat /\ C(j) \in Nat
      BY <1>10, <2>3
    <2>7. CASE k \in K
      <3>1. C(k) <= C(j) + 1
        BY <1>9, <2>4, <2>7
      <3>2. C(k) = n
        BY <1>5, <2>3, <2>5, <2>6, <3>1
      <3>3. QED
        BY <2>7, <3>2
    <2>8. CASE k \notin K
      <3>1. C(k) = C(j)
        BY <1>9, <2>4, <2>8
      <3>2. QED
        BY <2>3, <2>5, <3>1
    <2>9. QED
      BY <2>7, <2>8
  <1>12. Assigned(tasks)[n] \in K /\ C(Assigned(tasks)[n]) = n
    BY <1>11, <1>6
  <1>13. n \in 1..Len(tasks)
    BY <1>1, <1>2, <1>3
  <1>14. QED
    BY <1>12, <1>13 DEF K, C

(* The n-th is the n-th of all while none before it is skipped. *)
LEMMA AssignedPrefix ==
    ASSUME NEW tasks \in Seq(Agents \cup {Stranger}), NEW n \in DOMAIN Assigned(tasks),
           \A j \in 1..n : tasks[j] \in Agents
    PROVE  Assigned(tasks)[n] = n
  <1> DEFINE K == Known(tasks)
             a == Assigned(tasks)[n]
  <1>1. a \in K /\ Cardinality(K \cap 1..a) = n /\ n \in 1..Len(tasks)
    BY AssignedKnown
  <1>7. Len(tasks) \in Nat
    OBVIOUS
  <1>2. a \in 1..Len(tasks) /\ 1..n \subseteq K
    BY <1>1, <1>7 DEF Known
  <1> HIDE DEF K, a
  <1>3. IsFiniteSet(1..a) /\ Cardinality(1..a) = a /\ IsFiniteSet(K \cap 1..a)
    <2>1. IsFiniteSet(1..a) /\ Cardinality(1..a) = a
      BY <1>2, FS_Interval
    <2>2. QED
      BY <2>1, FS_Subset
  <1>4. CASE a < n
    <2>1. Cardinality(K \cap 1..a) <= a
      BY <1>3, FS_Subset
    <2>2. QED
      BY <1>1, <1>2, <1>3, <1>4, <1>7, <2>1
  <1>5. CASE a > n
    <2>1. (1..n) \cup {a} \in SUBSET (K \cap 1..a)
      BY <1>1, <1>2, <1>5
    <2>2. IsFiniteSet(1..n) /\ Cardinality(1..n) = n
      BY <1>1, <1>7, FS_Interval
    <2>3. a \notin 1..n
      BY <1>1, <1>2, <1>5, <1>7
    <2>4. Cardinality((1..n) \cup {a}) = n + 1
      BY <2>2, <2>3, FS_AddElement
    <2>5. n + 1 <= n
      BY <1>1, <1>3, <2>1, <2>4, FS_Subset
    <2>6. QED
      BY <1>1, <1>7, <2>5
  <1>6. QED
    BY <1>1, <1>2, <1>4, <1>5, <1>7 DEF a

LEMMA FirstReplaced ==
    ASSUME NEW S, NEW s \in Seq(S), NEW e \in S
    PROVE  [s EXCEPT ![1] = e] \in Seq(S)
  <1> DEFINE t == [s EXCEPT ![1] = e]
  <1>1. Len(s) \in Nat /\ s \in [1..Len(s) -> S]
    OBVIOUS
  <1>2. t \in [1..Len(s) -> S]
    BY <1>1
  <1> HIDE DEF t
  <1>3. t \in Seq(S)
    BY <1>1, <1>2, FunctionIsSeq
  <1>4. QED
    BY <1>3 DEF t

LEMMA TaskListsAreSeqs ==
    ASSUME NEW tasks \in TaskLists
    PROVE  tasks \in Seq(Agents \cup {Stranger}) /\ Len(tasks) <= MaxSubTasks
  <1>1. PICK n \in 0..MaxSubTasks : tasks \in [1..n -> Agents \cup {Stranger}]
    BY DEF TaskLists
  <1>2. n \in Nat
    BY TeamAssumption
  <1>3. QED
    BY <1>1, <1>2, FunctionIsSeq, TeamAssumption

(* The sub-tasks that are run are runs, of agents there are. *)
LEMMA AssignedAreRuns ==
    ASSUME NEW tasks \in Seq(Agents \cup {Stranger}), Len(tasks) <= MaxSubTasks,
           NEW r \in Range(Assigned(tasks))
    PROVE  r \in Runs /\ r \in 1..MaxSubTasks /\ r \notin Alone /\ tasks[r] \in Agents
  <1>1. PICK n \in DOMAIN Assigned(tasks) : r = Assigned(tasks)[n]
    BY DEF Range
  <1>2. r \in Known(tasks)
    BY <1>1, AssignedKnown
  <1>3. r \in 1..Len(tasks) /\ Len(tasks) \in Nat /\ tasks[r] \in Agents
    BY <1>2 DEF Known
  <1>4. QED
    BY <1>3, TeamAssumption DEF Runs

LEMMA LabelledIsSeq ==
    ASSUME NEW tasks \in Seq(Agents \cup {Stranger}), Len(tasks) <= MaxSubTasks
    PROVE  /\ Labelled(tasks, Assigned(tasks)) \in Seq([names : Agents \cup {Stranger}, run : Runs])
           /\ DOMAIN Labelled(tasks, Assigned(tasks)) = DOMAIN Assigned(tasks)
  <1> DEFINE runs == Assigned(tasks)
             m == Cardinality(Known(tasks))
  <1>1. DOMAIN runs = 1..m
    BY DEF Assigned
  <1>2. m \in Nat
    <2>1. IsFiniteSet(1..Len(tasks))
      BY FS_Interval
    <2>2. IsFiniteSet(Known(tasks))
      BY <2>1, FS_Subset DEF Known
    <2>3. QED
      BY <2>2, FS_CardinalityType
  <1>3. ASSUME NEW i \in DOMAIN runs
        PROVE  tasks[i] \in Agents \cup {Stranger} /\ runs[i] \in Runs
    <2>1. i \in 1..Len(tasks)
      BY <1>3, AssignedKnown
    <2>2. runs[i] \in Range(runs)
      BY DEF Range
    <2>3. QED
      BY <2>1, <2>2, AssignedAreRuns
  <1> HIDE DEF runs, m
  <1>4. Labelled(tasks, runs) \in [1..m -> [names : Agents \cup {Stranger}, run : Runs]]
    BY <1>1, <1>3 DEF Labelled
  <1>5. QED
    BY <1>1, <1>2, <1>4, FunctionIsSeq DEF runs

(* What Begin does to the runs and to the agents at work. *)
LEMMA BegunRuns ==
    ASSUME TeamTypeOK, NEW bs \in SUBSET Runs, NEW f, DOMAIN f = bs, Begin(f),
           \A r \in bs : f[r] \in Agents /\ at[r] = "none"
    PROVE  /\ agentOf' \in [Runs -> Agents \cup {Nothing}]
           /\ at' \in [Runs -> RunSteps]
           /\ overlapped' \subseteq Agents /\ overlapped \subseteq overlapped'
           /\ \A r \in bs : agentOf'[r] = f[r] /\ at'[r] = "load"
           /\ \A r \in Runs \ bs : agentOf'[r] = agentOf[r] /\ at'[r] = at[r]
  <1>1. /\ agentOf' = [r \in Runs |-> IF r \in bs THEN f[r] ELSE agentOf[r]]
        /\ at' = [r \in Runs |-> IF r \in bs THEN "load" ELSE at[r]]
        /\ overlapped' = overlapped \cup
              {a \in Agents : \E r \in bs : f[r] = a /\
                  (AtWork(a) # {} \/ \E s \in bs \ {r} : f[s] = a)}
    BY DEF Begin
  <1>2. agentOf' \in [Runs -> Agents \cup {Nothing}] /\ at' \in [Runs -> RunSteps]
    BY <1>1 DEF TeamTypeOK, RunSteps
  <1>3. overlapped' \subseteq Agents /\ overlapped \subseteq overlapped'
    BY <1>1 DEF TeamTypeOK
  <1>4. \A r \in bs : agentOf'[r] = f[r] /\ at'[r] = "load"
    BY <1>1
  <1>5. \A r \in Runs \ bs : agentOf'[r] = agentOf[r] /\ at'[r] = at[r]
    BY <1>1
  <1>6. QED
    BY <1>2, <1>3, <1>4, <1>5

Late == {"select", "insert", "update"}

(* While its runs come one after another and every write succeeds, an      *)
(* agent has one row, which the cache agrees with but for the run that is  *)
(* between the two writes. *)
AgentSound(a) ==
    /\ \A r, s \in AtWork(a) : r = s
    /\ Len(rows[a]) <= 1
    /\ (\A r \in AtWork(a) : at[r] \notin Late) =>
          (cache[a] # Nothing => rows[a] = <<cache[a]>>)
    /\ \A r \in AtWork(a) : at[r] \in Late =>
          /\ cache[a] \in {r, Nothing}
          /\ at[r] = "insert" => Len(rows[a]) = 0
          /\ at[r] = "update" => Len(rows[a]) = 1
    /\ (\E r \in Runs : agentOf[r] = a /\ result[r] = "output") => Len(rows[a]) = 1

MemorySound == \A a \in Agents \ (overlapped \cup mishap) : AgentSound(a)

(* A run has an agent once it began; the runs of the coordinator begin     *)
(* with the decomposition and are those of its sub-tasks; and what it      *)
(* reports is what it labelled. *)
RunsSound ==
    /\ \A r \in Runs : IF at[r] = "none" THEN result[r] = "none" ELSE agentOf[r] \in Agents
    /\ coordinator = "idle" => \A r \in Runs \ Alone : at[r] = "none"
    /\ coordinator \in {"running", "done"} =>
          \A r \in Range(Assigned(subTasks)) : agentOf[r] = subTasks[r] /\ at[r] # "none"
    /\ coordinator = "done" => outputs = Labelled(subTasks, Assigned(subTasks))

TeamInv == TeamTypeOK /\ RunsSound /\ MemorySound

(* What leaves an agent's stores alone, but for an expiry, and its late    *)
(* runs, and brings no second run, keeps the agent sound. *)
LEMMA AgentFrame ==
    ASSUME NEW a \in Agents, AgentSound(a),
           cache'[a] \in {cache[a], Nothing}, rows'[a] = rows[a],
           \A r, s \in AtWork(a)' : r = s,
           \A r \in AtWork(a)' : at'[r] \in Late => r \in AtWork(a) /\ at'[r] = at[r],
           \A r \in AtWork(a) : at[r] \in Late => r \in AtWork(a)' /\ at'[r] = at[r],
           (\E r \in Runs : agentOf'[r] = a /\ result'[r] = "output") =>
              \E r \in Runs : agentOf[r] = a /\ result[r] = "output"
    PROVE  AgentSound(a)'
  <1>1. Len(rows'[a]) <= 1
    BY DEF AgentSound
  <1>2. (\A r \in AtWork(a)' : at'[r] \notin Late) => (\A r \in AtWork(a) : at[r] \notin Late)
    OBVIOUS
  <1>3. (\A r \in AtWork(a)' : at'[r] \notin Late) =>
            (cache'[a] # Nothing => rows'[a] = <<cache'[a]>>)
    BY <1>2 DEF AgentSound
  <1>4. \A r \in AtWork(a)' : at'[r] \in Late =>
          /\ cache'[a] \in {r, Nothing}
          /\ at'[r] = "insert" => Len(rows'[a]) = 0
          /\ at'[r] = "update" => Len(rows'[a]) = 1
    BY DEF AgentSound
  <1>5. (\E r \in Runs : agentOf'[r] = a /\ result'[r] = "output") => Len(rows'[a]) = 1
    BY DEF AgentSound
  <1>6. QED
    BY <1>1, <1>3, <1>4, <1>5 DEF AgentSound

(* New runs begin early, and their agents were idle or overlap. *)
LEMMA BegunSound ==
    ASSUME TeamInv, NEW bs \in SUBSET Runs, NEW f, DOMAIN f = bs, Begin(f),
           \A r \in bs : f[r] \in Agents /\ at[r] = "none",
           UNCHANGED <<result, memory, mishap>>
    PROVE  MemorySound'
  <1> SUFFICES ASSUME NEW a \in Agents \ (overlapped' \cup mishap')
               PROVE  AgentSound(a)'
    BY DEF MemorySound
  <1>1. /\ overlapped \subseteq overlapped'
        /\ \A r \in bs : agentOf'[r] = f[r] /\ at'[r] = "load"
        /\ \A r \in Runs \ bs : agentOf'[r] = agentOf[r] /\ at'[r] = at[r]
    BY BegunRuns DEF TeamInv
  <1>11. \/ AtWork(a)' = AtWork(a)
         \/ AtWork(a) = {} /\ \E r \in bs : AtWork(a)' = {r} /\ at'[r] = "load"
    <2>1. AtWork(a)' = AtWork(a) \cup {r \in bs : f[r] = a}
      BY <1>1 DEF AtWork
    <2>2. CASE \E r \in bs : f[r] = a
      <3>1. PICK r \in bs : f[r] = a
        BY <2>2
      <3>2. AtWork(a) = {} /\ \A s \in bs \ {r} : f[s] # a
        BY <3>1 DEF Begin
      <3>3. AtWork(a)' = {r}
        BY <2>1, <3>1, <3>2
      <3>4. QED
        BY <1>1, <3>2, <3>3
    <2>3. CASE ~\E r \in bs : f[r] = a
      BY <2>1, <2>3
    <2>4. QED
      BY <2>2, <2>3
  <1>2. AgentSound(a)
    BY <1>1 DEF TeamInv, MemorySound
  <1>3. \A r \in bs : r \notin AtWork(a) /\ result[r] = "none"
    BY DEF AtWork, TeamInv, RunsSound
  <1>4. \A r, s \in AtWork(a)' : r = s
    BY <1>1, <1>2, <1>11 DEF AgentSound
  <1>5. \A r \in AtWork(a) : r \in Runs \ bs
    BY <1>3 DEF AtWork
  <1>6. \A r \in AtWork(a)' : at'[r] \in Late => r \in AtWork(a) /\ at'[r] = at[r]
    BY <1>1, <1>5, <1>11 DEF Late
  <1>7. \A r \in AtWork(a) : at[r] \in Late => r \in AtWork(a)' /\ at'[r] = at[r]
    BY <1>1, <1>5, <1>11
  <1>8. (\E r \in Runs : agentOf'[r] = a /\ result'[r] = "output") =>
              \E r \in Runs : agentOf[r] = a /\ result[r] = "output"
    BY <1>1, <1>3
  <1>9. cache'[a] = cache[a] /\ rows'[a] = rows[a]
    BY DEF memory
  <1>10. QED
    BY <1>2, <1>4, <1>6, <1>7, <1>8, <1>9, AgentFrame

(* A step of one run that changes only how far it is and what it returned, *)
(* and that is early, concerns its own agent alone and leaves it sound. *)
LEMMA EarlySound ==
    ASSUME TeamInv, NEW r \in Runs, at[r] \notin Late \cup {"none", "ended"}, NEW step \in RunSteps \ Late,
           StepsTo(r, step), NEW what \in {"none", "error", "raised"},
           result' \in {result, [result EXCEPT ![r] = what]},
           UNCHANGED <<agentOf, cache, rows, overlapped>>, mishap \subseteq mishap'
    PROVE  MemorySound'
  <1> SUFFICES ASSUME NEW a \in Agents \ (overlapped' \cup mishap')
               PROVE  AgentSound(a)'
    BY DEF MemorySound
  <1>1. AgentSound(a)
    BY DEF TeamInv, MemorySound
  <1>2. \A s \in Runs : at'[s] = IF s = r THEN step ELSE at[s]
    BY DEF StepsTo, TeamInv, TeamTypeOK
  <1>3. AtWork(a)' \subseteq AtWork(a)
    BY <1>2 DEF AtWork
  <1>4. \A s \in AtWork(a)' : at'[s] \in Late => s \in AtWork(a) /\ at'[s] = at[s]
    BY <1>2, <1>3 DEF AtWork
  <1>5. \A s \in AtWork(a) : at[s] \in Late => s \in AtWork(a)' /\ at'[s] = at[s]
    BY <1>2 DEF AtWork, Late
  <1>6. \A s \in Runs : result'[s] = "output" => result[s] = "output"
    BY DEF TeamInv, TeamTypeOK
  <1>7. \A s, t \in AtWork(a)' : s = t
    BY <1>1, <1>3 DEF AgentSound
  <1>8. (\E s \in Runs : agentOf'[s] = a /\ result'[s] = "output") =>
              \E s \in Runs : agentOf[s] = a /\ result[s] = "output"
    BY <1>6
  <1>9. QED
    BY <1>1, <1>4, <1>5, <1>7, <1>8, AgentFrame

(* A late step of a run r leaves the agents of other runs alone. *)
LEMMA OthersSound ==
    ASSUME TeamInv, NEW r \in Runs, at[r] # "none", NEW step \in RunSteps \ {"none"},
           StepsTo(r, step), NEW what \in Results,
           result' \in {result, [result EXCEPT ![r] = what]},
           agentOf' = agentOf, overlapped' = overlapped, mishap \subseteq mishap',
           NEW a \in Agents \ (overlapped' \cup mishap'), a # agentOf[r],
           cache'[a] = cache[a], rows'[a] = rows[a]
    PROVE  AgentSound(a)'
  <1>1. AgentSound(a)
    BY DEF TeamInv, MemorySound
  <1>2. \A s \in Runs : s # r => at'[s] = at[s]
    BY DEF StepsTo, TeamInv, TeamTypeOK
  <1>3. AtWork(a)' = AtWork(a) /\ r \notin AtWork(a)
    BY <1>2 DEF AtWork
  <1>4. \A s \in AtWork(a) : at'[s] = at[s]
    BY <1>2, <1>3 DEF AtWork
  <1>5. \A s \in Runs : s # r => result'[s] = result[s]
    BY DEF TeamInv, TeamTypeOK
  <1>6. (\E s \in Runs : agentOf'[s] = a /\ result'[s] = "output") =>
              \E s \in Runs : agentOf[s] = a /\ result[s] = "output"
    BY <1>5
  <1>7. \A s, t \in AtWork(a)' : s = t
    BY <1>1, <1>3 DEF AgentSound
  <1>8. QED
    BY <1>1, <1>3, <1>4, <1>6, <1>7, AgentFrame

(* The agent of a run that takes a late step has no other run at work. *)
LEMMA LateSound ==
    ASSUME TeamInv, NEW r \in Runs, Saves(r) \/ Selects(r) \/ Commits(r)
    PROVE  MemorySound'
  <1> SUFFICES ASSUME NEW a \in Agents \ (overlapped' \cup mishap')
               PROVE  AgentSound(a)'
    BY DEF MemorySound
  <1> USE DEF TeamInv, TeamTypeOK
  <1> DEFINE b == agentOf[r]
  <1>1. /\ overlapped' = overlapped /\ agentOf' = agentOf /\ mishap \subseteq mishap'
        /\ at[r] # "none" /\ b \in Agents
    BY DEF Saves, Selects, Commits, RunsSound
  <1>2. PICK step \in RunSteps \ {"none"}, what \in Results :
            StepsTo(r, step) /\ result' \in {result, [result EXCEPT ![r] = what]}
    BY DEF Saves, Selects, Commits, Returns, RunSteps, Results
  <1>3. AgentSound(a)
    BY <1>1 DEF MemorySound
  <1>4. CASE a # b
    <2>1. cache'[a] = cache[a] /\ rows'[a] = rows[a]
      BY <1>1, <1>4 DEF Saves, Selects, Commits, memory
    <2>2. QED
      BY <1>1, <1>2, <1>4, <2>1, OthersSound
  <1>5. CASE a = b
    <2>1. r \in AtWork(a) /\ AtWork(a) = {r}
      <3>1. r \in AtWork(a)
        BY <1>5 DEF AtWork, Saves, Selects, Commits
      <3>2. QED
        BY <1>3, <3>1 DEF AgentSound
    <2>2. \A s \in Runs : at'[s] = IF s = r THEN step ELSE at[s]
      BY <1>2 DEF StepsTo
    <2>3. AtWork(a)' = IF step = "ended" THEN {} ELSE {r}
      BY <1>1, <1>2, <1>5, <2>1, <2>2 DEF AtWork
    <2>4. rows[a] \in Seq(Runs) /\ rows[a] = rows[b] /\ cache[a] = cache[b]
      BY <1>5
    <2>5. CASE Saves(r)
      <3>1. redis /\ cache'[a] = r /\ rows'[a] = rows[a] /\ at'[r] = "select" /\ result' = result
        BY <1>5, <2>5 DEF Saves, StepsTo
      <3>2. step = "select"
        BY <2>2, <3>1
      <3>3. (\E s \in Runs : agentOf'[s] = a /\ result'[s] = "output") => Len(rows'[a]) = 1
        BY <1>1, <1>3, <3>1 DEF AgentSound
      <3>4. QED
        BY <1>3, <2>3, <3>1, <3>2, <3>3 DEF AgentSound, Late
    <2>6. CASE Selects(r)
      <3>1. /\ cache'[a] = cache[a] /\ rows'[a] = rows[a] /\ result' = result
            /\ at[r] = "select"
            /\ \/ at'[r] = "insert" /\ Len(rows[a]) = 0
               \/ at'[r] = "update" /\ Len(rows[a]) = 1
        BY <1>5, <2>6 DEF Selects, StepsTo, memory
      <3>2. AtWork(a)' = {r}
        BY <2>2, <2>3, <3>1
      <3>3. cache[a] \in {r, Nothing}
        BY <1>3, <2>1, <3>1 DEF AgentSound, Late
      <3>4. (\E s \in Runs : agentOf'[s] = a /\ result'[s] = "output") => Len(rows'[a]) = 1
        BY <1>1, <1>3, <3>1 DEF AgentSound
      <3>5. QED
        BY <1>3, <3>1, <3>2, <3>3, <3>4 DEF AgentSound, Late
    <2>7. CASE Commits(r)
      <3>1. cache'[a] = cache[a] /\ cache[a] \in {r, Nothing}
        BY <1>3, <2>1, <2>7 DEF AgentSound, Late, Commits
      <3>2. rows'[a] = <<r>>
        <4>1. CASE at[r] = "insert"
          <5>1. rows'[a] = Append(rows[a], r) /\ Len(rows[a]) = 0
            BY <1>3, <1>5, <2>1, <2>7, <4>1 DEF AgentSound, Late, Commits
          <5>2. rows[a] = << >>
            BY <2>4, <5>1, LengthZero
          <5>3. QED
            BY <5>1, <5>2
        <4>2. CASE at[r] = "update"
          <5>1. rows'[a] = [rows[a] EXCEPT ![1] = r] /\ Len(rows[a]) = 1
            BY <1>3, <1>5, <2>1, <2>7, <4>2 DEF AgentSound, Late, Commits
          <5>2. QED
            BY <2>4, <5>1
        <4>3. QED
          BY <2>7, <4>1, <4>2 DEF Commits
      <3>3. AtWork(a)' = {}
        BY <2>2, <2>3, <2>7 DEF Commits, Returns, StepsTo
      <3>4. Len(rows'[a]) = 1
        BY <3>2
      <3>5. QED
        BY <3>1, <3>2, <3>3, <3>4 DEF AgentSound
    <2>8. QED
      BY <2>5, <2>6, <2>7
  <1>6. QED
    BY <1>4, <1>5

(* A step of one run leaves what the coordinator counts on. *)
LEMMA RunsSoundFrame ==
    ASSUME TeamInv, NEW r \in Runs, at[r] # "none", NEW step \in RunSteps \ {"none"},
           StepsTo(r, step), NEW what \in Results,
           result' \in {result, [result EXCEPT ![r] = what]},
           UNCHANGED <<coordinator, subTasks, outputs, agentOf>>
    PROVE  /\ RunsSound'
           /\ at' \in [Runs -> RunSteps] /\ result' \in [Runs -> Results]
  <1> USE DEF TeamInv, TeamTypeOK
  <1>1. at' = [at EXCEPT ![r] = step]
    BY DEF StepsTo
  <1>2. at' \in [Runs -> RunSteps] /\ result' \in [Runs -> Results]
    BY <1>1
  <1>3. /\ \A s \in Runs : at'[s] = IF s = r THEN step ELSE at[s]
        /\ \A s \in Runs : s # r => result'[s] = result[s]
    BY <1>1
  <1>4. \A s \in Runs : IF at'[s] = "none" THEN result'[s] = "none" ELSE agentOf'[s] \in Agents
    BY <1>3 DEF RunsSound
  <1>5. coordinator' = "idle" => \A s \in Runs \ Alone : at'[s] = "none"
    BY <1>3 DEF RunsSound
  <1>6. ASSUME coordinator' \in {"running", "done"}, NEW s \in Range(Assigned(subTasks'))
        PROVE  agentOf'[s] = subTasks'[s] /\ at'[s] # "none"
    <2>1. s \in Runs
      BY <1>6, AssignedAreRuns
    <2>2. QED
      BY <1>3, <1>6, <2>1 DEF RunsSound
  <1>7. coordinator' = "done" => outputs' = Labelled(subTasks', Assigned(subTasks'))
    BY DEF RunsSound
  <1>8. QED
    BY <1>2, <1>4, <1>5, <1>6, <1>7 DEF RunsSound

LEMMA TeamStep == TeamInv /\ [TeamNext]_teamVars => TeamInv'
  <1> SUFFICES ASSUME TeamInv, [TeamNext]_teamVars
               PROVE  TeamInv'
    OBVIOUS
  <1> USE DEF TeamInv
  <1>1. ASSUME NEW tasks \in TaskLists, Decomposes(tasks)
        PROVE  TeamInv'
    <2>1. tasks \in Seq(Agents \cup {Stranger}) /\ Len(tasks) <= MaxSubTasks
      BY TaskListsAreSeqs
    <2> DEFINE bs == Range(Assigned(tasks))
               f == [r \in bs |-> tasks[r]]
    <2>2. \A r \in bs : r \in Runs \ Alone /\ f[r] = tasks[r] /\ tasks[r] \in Agents /\ at[r] = "none"
      BY <1>1, <2>1, AssignedAreRuns DEF Decomposes, RunsSound
    <2>3. DOMAIN f = bs /\ Begin(f)
      BY <1>1 DEF Decomposes
    <2> HIDE DEF bs, f
    <2>4. /\ agentOf' \in [Runs -> Agents \cup {Nothing}] /\ at' \in [Runs -> RunSteps]
          /\ overlapped' \subseteq Agents
          /\ \A r \in bs : agentOf'[r] = f[r] /\ at'[r] = "load"
          /\ \A r \in Runs \ bs : agentOf'[r] = agentOf[r] /\ at'[r] = at[r]
      BY <2>2, <2>3, BegunRuns
    <2>5. /\ subTasks' = tasks /\ coordinator' = "running"
          /\ outputs' = outputs /\ result' = result /\ memory' = memory /\ mishap' = mishap
      BY <1>1 DEF Decomposes
    <2>6. TeamTypeOK'
      BY <2>1, <2>4, <2>5 DEF TeamTypeOK, memory
    <2>7. RunsSound'
      <3>1. \A r \in Runs : IF at'[r] = "none" THEN result'[r] = "none" ELSE agentOf'[r] \in Agents
        BY <2>2, <2>4, <2>5 DEF RunsSound
      <3>2. \A r \in Range(Assigned(subTasks')) : agentOf'[r] = subTasks'[r] /\ at'[r] # "none"
        BY <2>2, <2>4, <2>5 DEF bs
      <3>3. QED
        BY <2>5, <3>1, <3>2 DEF RunsSound
    <2>8. MemorySound'
      BY <2>2, <2>3, <2>5, BegunSound
    <2>9. QED
      BY <2>6, <2>7, <2>8
  <1>2. ASSUME NEW tasks \in TaskLists, DecomposesBadly(tasks)
        PROVE  TeamInv'
    <2>1. tasks \in Seq(Agents \cup {Stranger}) /\ Len(tasks) <= MaxSubTasks
      BY TaskListsAreSeqs
    <2>2. TeamTypeOK'
      BY <1>2, <2>1 DEF DecomposesBadly, TeamTypeOK, memory
    <2>3. RunsSound'
      BY <1>2 DEF DecomposesBadly, RunsSound
    <2>4. MemorySound'
      BY <1>2 DEF DecomposesBadly, MemorySound, AgentSound, AtWork, memory
    <2>5. QED
      BY <2>2, <2>3, <2>4
  <1>3. CASE Gathers
    <2>1. outputs' \in Seq([names : Agents \cup {Stranger}, run : Runs])
      BY <1>3, LabelledIsSeq DEF Gathers, TeamTypeOK
    <2>2. TeamTypeOK'
      BY <1>3, <2>1 DEF Gathers, TeamTypeOK, memory
    <2>3. RunsSound'
      BY <1>3 DEF Gathers, RunsSound
    <2>4. MemorySound'
      BY <1>3 DEF Gathers, MemorySound, AgentSound, AtWork, memory
    <2>5. QED
      BY <2>2, <2>3, <2>4
  <1>4. ASSUME NEW r \in Runs, NEW a \in Agents, RunAlone(r, a)
        PROVE  TeamInv'
    <2> DEFINE f == [s \in {r} |-> a]
    <2>1. DOMAIN f = {r} /\ f[r] = a /\ Begin(f) /\ r \in Alone /\ at[r] = "none"
      BY <1>4 DEF RunAlone
    <2> HIDE DEF f
    <2>2. /\ agentOf' \in [Runs -> Agents \cup {Nothing}] /\ at' \in [Runs -> RunSteps]
          /\ overlapped' \subseteq Agents
          /\ agentOf'[r] = a /\ at'[r] = "load"
          /\ \A s \in Runs \ {r} : agentOf'[s] = agentOf[s] /\ at'[s] = at[s]
      <3>1. \A s \in {r} : f[s] \in Agents /\ at[s] = "none"
        BY <2>1
      <3>2. {r} \in SUBSET Runs /\ TeamTypeOK
        OBVIOUS
      <3>3. /\ \A s \in {r} : agentOf'[s] = f[s] /\ at'[s] = "load"
            /\ agentOf' \in [Runs -> Agents \cup {Nothing}] /\ at' \in [Runs -> RunSteps]
            /\ overlapped' \subseteq Agents
            /\ \A s \in Runs \ {r} : agentOf'[s] = agentOf[s] /\ at'[s] = at[s]
        BY <2>1, <3>1, <3>2, BegunRuns
      <3>4. QED
        BY <2>1, <3>3
    <2>3. UNCHANGED <<coordinator, subTasks, outputs, result, memory, mishap>>
      BY <1>4 DEF RunAlone
    <2>4. TeamTypeOK'
      BY <2>2, <2>3 DEF TeamTypeOK, memory
    <2>5. RunsSound'
      <3>1. \A s \in Runs : IF at'[s] = "none" THEN result'[s] = "none" ELSE agentOf'[s] \in Agents
        BY <2>2, <2>3 DEF RunsSound
      <3>2. coordinator' = "idle" => \A s \in Runs \ Alone : at'[s] = "none"
        BY <2>1, <2>2, <2>3 DEF RunsSound
      <3>3. ASSUME coordinator' \in {"running", "done"}, NEW s \in Range(Assigned(subTasks'))
            PROVE  agentOf'[s] = subTasks'[s] /\ at'[s] # "none"
        <4>1. s \in Runs /\ s \notin Alone
          BY <2>3, <3>3, AssignedAreRuns DEF TeamTypeOK
        <4>2. QED
          BY <2>1, <2>2, <2>3, <3>3, <4>1 DEF RunsSound
      <3>4. QED
        BY <2>3, <3>1, <3>2, <3>3 DEF RunsSound
    <2>6. MemorySound'
      <3>1. {r} \in SUBSET Runs /\ \A s \in {r} : f[s] \in Agents /\ at[s] = "none"
        BY <2>1
      <3>2. QED
        BY <2>1, <2>3, <3>1, BegunSound
    <2>7. QED
      BY <2>4, <2>5, <2>6
  <1>5. ASSUME NEW r \in Runs, Loads(r) \/ Acts(r) \/ Reloads(r)
        PROVE  TeamInv'
    <2>1. /\ UNCHANGED <<coordinator, subTasks, outputs, agentOf, redis, cache, rows, overlapped>>
          /\ at[r] \in {"load", "act", "reload"} /\ agentOf[r] \in Agents
          /\ mishap' \in {mishap, mishap \cup {agentOf[r]}}
      BY <1>5 DEF Loads, Acts, Reloads, memory, RunsSound
    <2>2. PICK step \in RunSteps \ (Late \cup {"none"}), what \in {"error", "raised"} :
              /\ StepsTo(r, step)
              /\ result' \in {result, [result EXCEPT ![r] = what]}
      BY <1>5 DEF Loads, Acts, Reloads, Returns, RunSteps, Late
    <2>3. RunsSound' /\ at' \in [Runs -> RunSteps] /\ result' \in [Runs -> Results]
      <3>1. what \in Results /\ step \in RunSteps \ {"none"} /\ at[r] # "none"
        BY <2>1 DEF Results
      <3>2. QED
        BY <2>1, <2>2, <3>1, RunsSoundFrame
    <2>4. MemorySound'
      <3>1. /\ step \in RunSteps \ Late /\ what \in {"none", "error", "raised"}
            /\ at[r] \notin Late \cup {"none", "ended"} /\ mishap \subseteq mishap'
        BY <2>1 DEF Late
      <3>2. QED
        BY <2>1, <2>2, <3>1, EarlySound
    <2>5. TeamTypeOK'
      BY <2>1, <2>3 DEF TeamTypeOK
    <2>6. QED
      BY <2>3, <2>4, <2>5
  <1>6. ASSUME NEW r \in Runs, Saves(r) \/ Selects(r) \/ Commits(r)
        PROVE  TeamInv'
    <2>1. /\ UNCHANGED <<coordinator, subTasks, outputs, agentOf, redis, overlapped>>
          /\ at[r] # "none" /\ agentOf[r] \in Agents
          /\ mishap' \in {mishap, mishap \cup {agentOf[r]}}
      BY <1>6 DEF Saves, Selects, Commits, memory, RunsSound
    <2>2. PICK step \in RunSteps \ {"none"}, what \in Results :
              StepsTo(r, step) /\ result' \in {result, [result EXCEPT ![r] = what]}
      BY <1>6 DEF Saves, Selects, Commits, Returns, RunSteps, Results
    <2>3. RunsSound' /\ at' \in [Runs -> RunSteps] /\ result' \in [Runs -> Results]
      BY <2>1, <2>2, RunsSoundFrame
    <2>4. cache' \in [Agents -> Runs \cup {Nothing}]
      BY <1>6, <2>1 DEF Saves, Selects, Commits, memory, TeamTypeOK
    <2>5. rows' \in [Agents -> Seq(Runs)]
      <3>1. rows[agentOf[r]] \in Seq(Runs)
        BY <2>1 DEF TeamTypeOK
      <3>2. Append(rows[agentOf[r]], r) \in Seq(Runs)
        BY <3>1
      <3>3. [rows[agentOf[r]] EXCEPT ![1] = r] \in Seq(Runs)
        BY <3>1, FirstReplaced
      <3>4. QED
        BY <1>6, <3>2, <3>3 DEF Saves, Selects, Commits, memory, TeamTypeOK
    <2>6. TeamTypeOK'
      BY <2>1, <2>3, <2>4, <2>5 DEF TeamTypeOK
    <2>7. QED
      BY <1>6, <2>3, <2>6, LateSound
  <1>7. ASSUME NEW a \in Agents, Clear(a) \/ Expires(a)
        PROVE  TeamInv'
    <2>1. /\ UNCHANGED <<coordinator, subTasks, outputs, agentOf, at, result, redis, rows, overlapped>>
          /\ cache' = [cache EXCEPT ![a] = Nothing]
          /\ mishap \subseteq mishap' /\ mishap' \subseteq Agents
      BY <1>7 DEF Clear, Expires, TeamTypeOK
    <2>2. TeamTypeOK'
      BY <2>1 DEF TeamTypeOK
    <2>3. RunsSound'
      BY <2>1 DEF RunsSound
    <2>4. MemorySound'
      <3> SUFFICES ASSUME NEW c \in Agents \ (overlapped' \cup mishap')
                   PROVE  AgentSound(c)'
        BY DEF MemorySound
      <3>1. AgentSound(c)
        BY <2>1 DEF MemorySound
      <3>2. cache'[c] \in {cache[c], Nothing}
        BY <2>1 DEF TeamTypeOK
      <3>3. AtWork(c)' = AtWork(c) /\ at' = at /\ rows' = rows /\ result' = result /\ agentOf' = agentOf
        BY <2>1 DEF AtWork
      <3>4. \A r, s \in AtWork(c)' : r = s
        BY <3>1, <3>3 DEF AgentSound
      <3>5. QED
        BY <3>1, <3>2, <3>3, <3>4, AgentFrame
    <2>5. QED
      BY <2>2, <2>3, <2>4
  <1>8. CASE RedisTurns \/ UNCHANGED teamVars
    <2>1. UNCHANGED <<coordinator, subTasks, outputs, agentOf, at, result, cache, rows,
                      overlapped, mishap>>
      BY <1>8 DEF RedisTurns, teamVars, memory
    <2>2. redis' \in BOOLEAN
      BY <1>8 DEF RedisTurns, teamVars, memory, TeamTypeOK
    <2>3. TeamTypeOK' /\ RunsSound'
      BY <2>1, <2>2 DEF TeamTypeOK, RunsSound
    <2>4. MemorySound'
      BY <2>1 DEF MemorySound, AgentSound, AtWork
    <2>5. QED
      BY <2>3, <2>4
  <1>9. QED
    BY <1>1, <1>2, <1>3, <1>4, <1>5, <1>6, <1>7, <1>8 DEF TeamNext

LEMMA TeamInitially == TeamInit => TeamInv
  <1> SUFFICES ASSUME TeamInit
               PROVE  TeamInv
    OBVIOUS
  <1>1. TeamTypeOK
    BY TeamAssumption DEF TeamInit, TeamTypeOK, RunSteps, Results
  <1>2. RunsSound
    BY DEF TeamInit, RunsSound
  <1>3. MemorySound
    BY DEF TeamInit, MemorySound, AgentSound, AtWork
  <1>4. QED
    BY <1>1, <1>2, <1>3 DEF TeamInv

LEMMA TeamInvariant == TeamSpec => []TeamInv
  BY TeamInitially, TeamStep, PTL DEF TeamSpec

(* coordinator.py: every result that is reported is reported under the     *)
(* agent that produced it, unless a sub-task before it was skipped. *)
THEOREM ResultsOwned == TeamSpec => []ResultsAttributed
  <1>1. TeamInv => ResultsAttributed
    <2> SUFFICES ASSUME TeamInv, coordinator = "done"
                 PROVE  /\ {o.run : o \in Range(outputs)} = Range(Assigned(subTasks))
                        /\ \A i \in DOMAIN outputs :
                              \/ outputs[i].names = agentOf[outputs[i].run]
                              \/ \E j \in 1..i : subTasks[j] = Stranger
      BY DEF ResultsAttributed
    <2> DEFINE runs == Assigned(subTasks)
    <2>1. /\ subTasks \in Seq(Agents \cup {Stranger}) /\ Len(subTasks) <= MaxSubTasks
          /\ outputs = Labelled(subTasks, runs)
          /\ \A r \in Range(runs) : agentOf[r] = subTasks[r]
      BY DEF TeamInv, TeamTypeOK, RunsSound
    <2>2. DOMAIN outputs = DOMAIN runs
      BY <2>1, LabelledIsSeq
    <2>3. \A i \in DOMAIN runs : outputs[i].names = subTasks[i] /\ outputs[i].run = runs[i]
      BY <2>1 DEF Labelled
    <2>4. {o.run : o \in Range(outputs)} = Range(runs)
      BY <2>2, <2>3 DEF Range
    <2>5. ASSUME NEW i \in DOMAIN runs, ~\E j \in 1..i : subTasks[j] = Stranger
          PROVE  outputs[i].names = agentOf[outputs[i].run]
      <3>1. i \in 1..Len(subTasks) /\ Len(subTasks) \in Nat
        <4>1. i \in DOMAIN Assigned(subTasks) /\ subTasks \in Seq(Agents \cup {Stranger})
          BY <2>1
        <4>2. i \in 1..Len(subTasks)
          BY <4>1, AssignedKnown
        <4>3. Len(subTasks) \in Nat
          BY <4>1
        <4>4. QED
          BY <4>2, <4>3
      <3>2. \A j \in 1..i : subTasks[j] \in Agents
        BY <2>1, <2>5, <3>1
      <3>3. runs[i] = i
        BY <2>1, <3>2, AssignedPrefix
      <3>4. runs[i] \in Range(runs)
        BY DEF Range
      <3>5. QED
        BY <2>1, <2>3, <3>3, <3>4
    <2>6. QED
      BY <2>2, <2>4, <2>5
  <1>2. QED
    BY TeamInvariant, <1>1, PTL

(* memory.py: as long as no two runs of an agent were at work at once and  *)
(* no write failed, its memory is that of a finished run, one row, and the *)
(* cache does not contradict it. *)
THEOREM MemoryKept == TeamSpec => []MemoryAgrees
  <1>1. TeamInv => MemoryAgrees
    <2> SUFFICES ASSUME TeamInv, NEW a \in Agents \ (overlapped \cup mishap), AtWork(a) = {}
                 PROVE  /\ Len(rows[a]) <= 1
                        /\ cache[a] # Nothing => rows[a] = <<cache[a]>>
                        /\ (\E r \in Runs : agentOf[r] = a /\ result[r] = "output")
                              => Remembered(a) # Nothing
      BY DEF MemoryAgrees
    <2>1. AgentSound(a) /\ rows[a] \in Seq(Runs)
      BY DEF TeamInv, TeamTypeOK, MemorySound
    <2>2. Nothing \notin Runs
      BY TeamAssumption DEF Runs
    <2>3. Len(rows[a]) = 1 => rows[a][1] \in Runs
      BY <2>1
    <2>4. QED
      BY <2>1, <2>2, <2>3 DEF AgentSound, Remembered
  <1>2. QED
    BY TeamInvariant, <1>1, PTL

(* Both: the coordinator and the memory keep what the agents produce. *)
THEOREM ResultsKept == TeamSpec => []ResultsAreKept
  <1>1. ResultsAreKept <=> ResultsAttributed /\ MemoryAgrees
    BY DEF ResultsAreKept
  <1>2. QED
    BY <1>1, ResultsOwned, MemoryKept, PTL

-----------------------------------------------------------------------------
(* The events of executions *)

Increasing(q) == \A i, j \in DOMAIN q : i < j => q[i] < q[j]

LEMMA AppendedEvent ==
    ASSUME NEW S, NEW q \in Seq(S), NEW e \in S
    PROVE  /\ Append(q, e) \in Seq(S) /\ Append(q, e) # <<>>
           /\ DOMAIN Append(q, e) = DOMAIN q \cup {Len(q) + 1}
           /\ Append(q, e)[Len(q) + 1] = e
           /\ \A i \in DOMAIN q : Append(q, e)[i] = q[i]
           /\ Range(Append(q, e)) = Range(q) \cup {e}
  <1>1. /\ Append(q, e) \in Seq(S) /\ Append(q, e) # <<>>
        /\ DOMAIN Append(q, e) = DOMAIN q \cup {Len(q) + 1}
        /\ Append(q, e)[Len(q) + 1] = e
        /\ \A i \in DOMAIN q : Append(q, e)[i] = q[i]
    OBVIOUS
  <1>2. Range(Append(q, e)) = Range(q) \cup {e}
    BY <1>1 DEF Range
  <1>3. QED
    BY <1>1, <1>2

LEMMA AppendIncreases ==
    ASSUME NEW q \in Seq(Nat), NEW e \in Nat, Increasing(q), \A n \in Range(q) : n < e
    PROVE  Increasing(Append(q, e))
  <1> SUFFICES ASSUME NEW i \in DOMAIN Append(q, e), NEW j \in DOMAIN Append(q, e), i < j
               PROVE  Append(q, e)[i] < Append(q, e)[j]
    BY DEF Increasing
  <1>1. Len(q) \in Nat /\ DOMAIN q = 1..Len(q) /\ DOMAIN Append(q, e) = 1..(Len(q) + 1)
    OBVIOUS
  <1>2. i \in DOMAIN q /\ Append(q, e)[i] = q[i] /\ q[i] \in Range(q)
    BY <1>1 DEF Range
  <1>3. CASE j \in DOMAIN q
    BY <1>2, <1>3, AppendedEvent DEF Increasing
  <1>4. CASE j = Len(q) + 1
    BY <1>2, <1>4, AppendedEvent
  <1>5. QED
    BY <1>1, <1>3, <1>4

LEMMA TailIncreases ==
    ASSUME NEW q \in Seq(Nat), q # <<>>, Increasing(q)
    PROVE  /\ Increasing(Tail(q)) /\ Head(q) \in Range(q)
           /\ Range(q) = {Head(q)} \cup Range(Tail(q))
           /\ \A n \in Range(Tail(q)) : Head(q) < n
  <1>1. /\ Len(q) \in Nat /\ Len(q) > 0 /\ DOMAIN q = 1..Len(q)
        /\ DOMAIN Tail(q) = 1..(Len(q) - 1)
        /\ \A i \in 1..(Len(q) - 1) : Tail(q)[i] = q[i + 1]
        /\ Head(q) = q[1]
    OBVIOUS
  <1>2. Increasing(Tail(q))
    <2> SUFFICES ASSUME NEW i \in DOMAIN Tail(q), NEW j \in DOMAIN Tail(q), i < j
                 PROVE  Tail(q)[i] < Tail(q)[j]
      BY DEF Increasing
    <2>1. /\ i + 1 \in DOMAIN q /\ j + 1 \in DOMAIN q /\ i + 1 < j + 1
          /\ i \in 1..(Len(q) - 1) /\ j \in 1..(Len(q) - 1)
      BY <1>1
    <2>2. q[i + 1] < q[j + 1]
      BY <2>1 DEF Increasing
    <2>3. QED
      BY <1>1, <2>1, <2>2
  <1>3. \A n \in Range(Tail(q)) : n \in Range(q) /\ Head(q) < n
    <2> SUFFICES ASSUME NEW i \in DOMAIN Tail(q)
                 PROVE  Tail(q)[i] \in Range(q) /\ Head(q) < Tail(q)[i]
      BY DEF Range
    <2>1. /\ i \in 1..(Len(q) - 1) /\ i + 1 \in DOMAIN q /\ 1 \in DOMAIN q /\ 1 < i + 1
      BY <1>1
    <2>2. Tail(q)[i] = q[i + 1]
      BY <1>1, <2>1
    <2>3. q[1] < q[i + 1]
      BY <2>1 DEF Increasing
    <2>4. q[i + 1] \in Range(q)
      BY <2>1 DEF Range
    <2>5. QED
      BY <1>1, <2>2, <2>3, <2>4
  <1>4. Head(q) \in Range(q)
    BY <1>1 DEF Range
  <1>5. ASSUME NEW i \in DOMAIN q
        PROVE  q[i] \in {Head(q)} \cup Range(Tail(q))
    <2>1. CASE i = 1
      BY <1>1, <2>1
    <2>2. CASE i # 1
      <3>1. i - 1 \in 1..(Len(q) - 1) /\ (i - 1) + 1 = i
        BY <1>1, <2>2
      <3>2. q[i] = Tail(q)[i - 1]
        BY <1>1, <3>1
      <3>3. QED
        BY <1>1, <3>1, <3>2 DEF Range
    <2>3. QED
      BY <2>1, <2>2
  <1>6. Range(q) \subseteq {Head(q)} \cup Range(Tail(q))
    BY <1>5 DEF Range
  <1>7. QED
    BY <1>2, <1>3, <1>4, <1>6

LEMMA PrefixIncreases ==
    ASSUME NEW q \in Seq(Nat), NEW k \in 0..Len(q), Increasing(q)
    PROVE  /\ Increasing(SubSeq(q, 1, k))
           /\ Range(SubSeq(q, 1, k)) \subseteq Range(q)
           /\ Range(q) = Range(SubSeq(q, 1, k)) \cup {q[i] : i \in (k + 1)..Len(q)}
           /\ \A n \in Range(q) \ Range(SubSeq(q, 1, k)), m \in Range(SubSeq(q, 1, k)) : m < n
  <1>1. /\ Len(q) \in Nat /\ DOMAIN q = 1..Len(q)
        /\ DOMAIN SubSeq(q, 1, k) = 1..k
        /\ \A i \in 1..k : SubSeq(q, 1, k)[i] = q[i]
    OBVIOUS
  <1>2. Range(SubSeq(q, 1, k)) = {q[i] : i \in 1..k}
    BY <1>1 DEF Range
  <1>3. Range(q) = {q[i] : i \in 1..Len(q)}
    BY <1>1 DEF Range
  <1>4. Increasing(SubSeq(q, 1, k))
    BY <1>1 DEF Increasing
  <1>5. 1..Len(q) = (1..k) \cup ((k + 1)..Len(q))
    BY <1>1
  <1>6. Range(q) = Range(SubSeq(q, 1, k)) \cup {q[i] : i \in (k + 1)..Len(q)}
    BY <1>2, <1>3, <1>5
  <1>7. \A n \in Range(q) \ Range(SubSeq(q, 1, k)), m \in Range(SubSeq(q, 1, k)) : m < n
    <2>1. ASSUME NEW i \in (k + 1)..Len(q), NEW j \in 1..k
          PROVE  q[j] < q[i]
      BY <1>1 DEF Increasing
    <2>2. QED
      BY <1>2, <1>6, <2>1
  <1>8. QED
    BY <1>2, <1>4, <1>6, <1>7

(* What was published and neither waits nor was lost came before all that  *)
(* waits, which waits in order. *)
BufferSound ==
    /\ Increasing(buffer) /\ Range(buffer) \subseteq DOMAIN published
    /\ \A n \in DOMAIN published \ (Range(buffer) \cup unheard) : \A m \in Range(buffer) : n < m

(* The event being handed out is the latest that does not wait, for        *)
(* sockets that asked for its execution; those it could not be sent to     *)
(* have gone. *)
FanoutSound ==
    IF fanout.event = NoEvent THEN fanout = AtEase
    ELSE /\ fanout.event \in DOMAIN published
         /\ \A m \in Range(buffer) : fanout.event < m
         /\ \A n \in DOMAIN published \ (Range(buffer) \cup unheard) : n <= fanout.event
         /\ \A s \in fanout.todo : /\ Watches[s] = published[fanout.event]
                                   /\ socket[s] \in {"open", "gone", "closed"}
         /\ \A s \in fanout.dead : socket[s] \in {"gone", "closed"}

(* What a client got is of its execution, in order, and before all that    *)
(* may still come. *)
ReceivedSound(s) ==
    /\ Increasing(received[s])
    /\ \A n \in Range(received[s]) :
          /\ n \in DOMAIN published /\ published[n] = Watches[s]
          /\ \A m \in Range(buffer) : n < m
          /\ fanout.event # NoEvent => /\ n <= fanout.event
                                       /\ s \in fanout.todo => n < fanout.event

SocketSound(s) ==
    /\ \A x \in Executions : s \in registered[x] => x = Watches[s]
    /\ socket[s] = "open" => s \in registered[Watches[s]]
    /\ s \in registered[Watches[s]] => socket[s] \in {"open", "gone"}
    /\ socket[s] \in {"none", "accepted"} => received[s] = <<>>
    /\ (socket[s] = "open" /\ received[s] # <<>>) =>
          FromFirst(s) \subseteq Range(received[s]) \cup unheard \cup Coming(s)

StreamInv ==
    /\ StreamingTypeOK /\ BufferSound /\ FanoutSound
    /\ \A s \in Sockets : ReceivedSound(s) /\ SocketSound(s)

LEMMA SubscriberStep ==
    ASSUME StreamInv, NEW r \in Sockets,
           Accepts(r) \/ Registers(r) \/ ClientLeaves(r) \/ EndpointLeaves(r)
    PROVE  StreamInv'
  <1> USE DEF StreamInv, StreamingTypeOK
  <1>1. UNCHANGED <<published, buffer, listener, subscribed, fanout, received, unheard, drops>>
    BY DEF Accepts, Registers, ClientLeaves, EndpointLeaves, listening
  <1>2. /\ Watches[r] \in Executions
        /\ \A s \in Sockets : Watches[s] \in Executions
    BY StreamingAssumption
  <1>3. PICK to \in {"accepted", "open", "gone", "closed"} :
            /\ socket' = [socket EXCEPT ![r] = to]
            /\ to = "accepted" => socket[r] = "none" /\ registered' = registered
            /\ to = "open" => /\ socket[r] = "accepted"
                              /\ registered' = [registered EXCEPT ![Watches[r]] = @ \cup {r}]
            /\ to = "gone" => socket[r] = "open" /\ registered' = registered
            /\ to = "closed" => socket[r] = "gone" /\ registered' = Without(registered, {r})
    BY DEF Accepts, Registers, ClientLeaves, EndpointLeaves
  <1>4. \A s \in Sockets : socket'[s] = IF s = r THEN to ELSE socket[s]
    BY <1>3
  <1>5. \A x \in Executions, s \in Sockets :
            (s \in registered'[x]) = ((to = "open" /\ x = Watches[r] /\ s = r)
                                      \/ (s \in registered[x] /\ ~(to = "closed" /\ s = r)))
    <2> SUFFICES ASSUME NEW x \in Executions, NEW s \in Sockets
                 PROVE  (s \in registered'[x]) =
                          ((to = "open" /\ x = Watches[r] /\ s = r)
                              \/ (s \in registered[x] /\ ~(to = "closed" /\ s = r)))
      OBVIOUS
    <2>1. CASE to = "open"
      BY <1>3, <2>1
    <2>2. CASE to = "closed"
      BY <1>3, <2>2 DEF Without
    <2>3. CASE to \in {"accepted", "gone"}
      BY <1>3, <2>3
    <2>4. QED
      BY <2>1, <2>2, <2>3
  <1>6. StreamingTypeOK'
    <2>1. socket' \in [Sockets -> {"none", "accepted", "open", "gone", "closed"}]
      BY <1>3
    <2>2. registered' \in [Executions -> SUBSET Sockets]
      BY <1>3 DEF Without
    <2>3. QED
      BY <1>1, <2>1, <2>2
  <1>7. BufferSound'
    BY <1>1 DEF BufferSound
  <1>8. FanoutSound'
    BY <1>1, <1>3, <1>4 DEF FanoutSound, AtEase
  <1>9. ASSUME NEW s \in Sockets
        PROVE  ReceivedSound(s)' /\ SocketSound(s)'
    <2>1. ReceivedSound(s)'
      BY <1>1 DEF ReceivedSound
    <2>2. \A x \in Executions : s \in registered'[x] => x = Watches[s]
      BY <1>2, <1>5 DEF SocketSound
    <2>3. /\ socket'[s] = "open" => s \in registered'[Watches[s]]
          /\ s \in registered'[Watches[s]] => socket'[s] \in {"open", "gone"}
      BY <1>2, <1>3, <1>4, <1>5 DEF SocketSound
    <2>4. socket'[s] \in {"none", "accepted"} => received'[s] = <<>>
      BY <1>1, <1>3, <1>4 DEF SocketSound
    <2>5. (socket'[s] = "open" /\ received'[s] # <<>>) =>
             FromFirst(s)' \subseteq Range(received'[s]) \cup unheard' \cup Coming(s)'
      <3>1. (socket'[s] = "open" /\ received'[s] # <<>>) => socket[s] = "open"
        BY <1>1, <1>3, <1>4 DEF SocketSound
      <3>2. FromFirst(s)' = FromFirst(s) /\ Coming(s)' = Coming(s)
        BY <1>1 DEF FromFirst, Coming
      <3>3. QED
        BY <1>1, <3>1, <3>2 DEF SocketSound
    <2>6. QED
      BY <2>1, <2>2, <2>3, <2>4, <2>5 DEF SocketSound
  <1>10. QED
    BY <1>6, <1>7, <1>8, <1>9

(* Every event is numbered. *)
LEMMA EventsAreNumbers ==
    ASSUME StreamInv
    PROVE  /\ Len(published) \in Nat /\ DOMAIN published = 1..Len(published)
           /\ DOMAIN published \subseteq Events /\ Events \subseteq Nat
           /\ buffer \in Seq(Nat) /\ Range(buffer) \subseteq Events
           /\ \A s \in Sockets : received[s] \in Seq(Nat) /\ Range(received[s]) \subseteq Events
           /\ NoEvent \notin Events
  <1> USE DEF StreamInv, StreamingTypeOK
  <1>1. /\ Len(published) \in Nat /\ DOMAIN published = 1..Len(published)
        /\ Len(published) <= MaxEvents /\ MaxEvents \in Nat
    BY StreamingAssumption
  <1>2. Events \subseteq Nat /\ NoEvent \notin Events
    BY StreamingAssumption DEF Events
  <1>3. DOMAIN published \subseteq Events
    BY <1>1 DEF Events
  <1>4. ASSUME NEW q \in Seq(Events)
        PROVE  q \in Seq(Nat) /\ Range(q) \subseteq Events
    <2>1. \A i \in DOMAIN q : q[i] \in Events
      OBVIOUS
    <2>2. q \in Seq(Nat)
      <3>1. Len(q) \in Nat /\ q \in [1..Len(q) -> Events]
        OBVIOUS
      <3>2. q \in [1..Len(q) -> Nat]
        BY <1>2, <3>1
      <3>3. QED
        BY <3>1, <3>2, FunctionIsSeq
    <2>3. QED
      BY <2>1, <2>2 DEF Range
  <1>5. QED
    BY <1>1, <1>2, <1>3, <1>4

LEMMA EmitStep ==
    ASSUME StreamInv, NEW x \in Executions, Emits(x)
    PROVE  StreamInv'
  <1> USE DEF StreamInv, StreamingTypeOK
  <1> DEFINE n == Len(published) + 1
  <1>1. /\ n \in Events /\ n \notin DOMAIN published
        /\ published' \in Seq(Executions) /\ Len(published') <= MaxEvents
        /\ DOMAIN published' = DOMAIN published \cup {n}
        /\ published'[n] = x /\ \A i \in DOMAIN published : published'[i] = published[i]
    <2>1. n \in Events /\ n \notin DOMAIN published /\ published' = Append(published, x)
      BY EventsAreNumbers, StreamingAssumption DEF Emits, Events
    <2>2. /\ published' \in Seq(Executions) /\ Len(published') <= MaxEvents
      BY <2>1, AppendProperties DEF Emits
    <2>3. QED
      BY <2>1, <2>2, AppendedEvent
  <1>2. n \in Nat /\ \A i \in DOMAIN published : i \in Nat /\ i < n
    BY EventsAreNumbers
  <1>3. UNCHANGED <<listener, subscribed, fanout, registered, socket, received, drops>>
    BY DEF Emits
  <1>4. \/ buffer' = Append(buffer, n) /\ unheard' = unheard
        \/ buffer' = buffer /\ unheard' = unheard \cup {n}
    BY DEF Emits
  <1>5. \A m \in Range(buffer) : m \in DOMAIN published
    BY DEF BufferSound
  <1> HIDE DEF n
  <1>6. /\ buffer' \in Seq(Events) /\ unheard' \subseteq Events
        /\ Increasing(buffer')
        /\ Range(buffer') \cup unheard' = Range(buffer) \cup unheard \cup {n}
        /\ Range(buffer) \subseteq Range(buffer') /\ Range(buffer') \subseteq Range(buffer) \cup {n}
    <2>1. CASE buffer' = Append(buffer, n) /\ unheard' = unheard
      <3>1. buffer' \in Seq(Events) /\ Range(buffer') = Range(buffer) \cup {n}
        BY <1>1, <2>1, AppendedEvent
      <3>2. Increasing(buffer')
        BY <1>2, <1>5, <2>1, EventsAreNumbers, AppendIncreases DEF BufferSound
      <3>3. QED
        BY <2>1, <3>1, <3>2
    <2>2. CASE buffer' = buffer /\ unheard' = unheard \cup {n}
      BY <1>1, <2>2 DEF BufferSound
    <2>3. QED
      BY <1>4, <2>1, <2>2
  <1>7. StreamingTypeOK'
    BY <1>1, <1>3, <1>6
  <1>8. BufferSound'
    <2>1. Range(buffer') \subseteq DOMAIN published'
      BY <1>1, <1>5, <1>6
    <2>2. ASSUME NEW k \in DOMAIN published' \ (Range(buffer') \cup unheard'), NEW m \in Range(buffer')
          PROVE  k < m
      <3>1. k \in DOMAIN published \ (Range(buffer) \cup unheard)
        BY <1>1, <1>6, <2>2
      <3>2. QED
        BY <1>2, <1>6, <3>1 DEF BufferSound
    <2>3. QED
      BY <1>6, <2>1, <2>2 DEF BufferSound
  <1>9. FanoutSound'
    <2>1. CASE fanout.event = NoEvent
      BY <1>3, <2>1 DEF FanoutSound, AtEase
    <2>2. CASE fanout.event # NoEvent
      <3>1. fanout.event \in DOMAIN published
        BY <2>2 DEF FanoutSound
      <3>2. \A m \in Range(buffer') : fanout.event < m
        BY <1>2, <1>6, <2>2, <3>1 DEF FanoutSound
      <3>3. \A k \in DOMAIN published' \ (Range(buffer') \cup unheard') : k <= fanout.event
        BY <1>1, <1>6, <2>2 DEF FanoutSound
      <3>4. \A s \in fanout.todo : /\ Watches[s] = published'[fanout.event]
                                   /\ socket[s] \in {"open", "gone", "closed"}
        BY <1>1, <2>2, <3>1 DEF FanoutSound
      <3>5. \A s \in fanout.dead : socket[s] \in {"gone", "closed"}
        BY <2>2 DEF FanoutSound
      <3>6. QED
        BY <1>1, <1>3, <2>2, <3>1, <3>2, <3>3, <3>4, <3>5 DEF FanoutSound
    <2>3. QED
      BY <2>1, <2>2
  <1>10. ASSUME NEW s \in Sockets
         PROVE  ReceivedSound(s)' /\ SocketSound(s)'
    <2>1. ReceivedSound(s)'
      BY <1>1, <1>2, <1>3, <1>6 DEF ReceivedSound
    <2>2. /\ \A y \in Executions : s \in registered'[y] => y = Watches[s]
          /\ socket'[s] = "open" => s \in registered'[Watches[s]]
          /\ s \in registered'[Watches[s]] => socket'[s] \in {"open", "gone"}
          /\ socket'[s] \in {"none", "accepted"} => received'[s] = <<>>
      BY <1>3 DEF SocketSound
    <2>3. ASSUME socket'[s] = "open", received'[s] # <<>>
          PROVE  FromFirst(s)' \subseteq Range(received'[s]) \cup unheard' \cup Coming(s)'
      <3>1. FromFirst(s) \subseteq Range(received[s]) \cup unheard \cup Coming(s)
        BY <1>3, <2>3 DEF SocketSound
      <3>2. FromFirst(s)' \subseteq FromFirst(s) \cup {n}
        BY <1>1, <1>3 DEF FromFirst
      <3>3. unheard \cup Coming(s) \cup {n} \subseteq unheard' \cup Coming(s)'
        BY <1>3, <1>6 DEF Coming
      <3>4. QED
        BY <1>3, <3>1, <3>2, <3>3
    <2>4. QED
      BY <2>1, <2>2, <2>3 DEF SocketSound
  <1>11. QED
    BY <1>7, <1>8, <1>9, <1>10

LEMMA ReadStep ==
    ASSUME StreamInv, Reads
    PROVE  StreamInv'
  <1> USE DEF StreamInv, StreamingTypeOK
  <1> DEFINE h == Head(buffer)
  <1>1. /\ fanout = AtEase /\ buffer # <<>> /\ buffer' = Tail(buffer)
        /\ fanout' = [event |-> h, todo |-> registered[published[h]], dead |-> {}]
        /\ UNCHANGED <<published, listener, subscribed, registered, socket, received,
                       unheard, drops>>
    BY DEF Reads
  <1>2. /\ Increasing(buffer') /\ h \in Range(buffer)
        /\ Range(buffer) = {h} \cup Range(buffer')
        /\ \A m \in Range(buffer') : h < m
    BY <1>1, EventsAreNumbers, TailIncreases DEF BufferSound
  <1>3. h \in DOMAIN published /\ h \in Events /\ h # NoEvent /\ h \in Nat
    BY <1>2, EventsAreNumbers DEF BufferSound
  <1>4. published[h] \in Executions
    BY <1>3
  <1> HIDE DEF h
  <1>5. buffer' \in Seq(Events)
    BY <1>1
  <1>6. StreamingTypeOK'
    BY <1>1, <1>3, <1>4, <1>5
  <1>7. \A k \in DOMAIN published \ (Range(buffer') \cup unheard) : k <= h
    <2> SUFFICES ASSUME NEW k \in DOMAIN published \ (Range(buffer') \cup unheard)
                 PROVE  k <= h
      OBVIOUS
    <2>1. k \in Nat
      BY EventsAreNumbers
    <2>2. k = h \/ k < h
      BY <1>2 DEF BufferSound
    <2>3. QED
      BY <1>3, <2>1, <2>2
  <1>8. BufferSound'
    <2>1. \A k \in DOMAIN published \ (Range(buffer') \cup unheard) : \A m \in Range(buffer') : k < m
      BY <1>2, <1>3, <1>7, EventsAreNumbers DEF BufferSound
    <2>2. QED
      BY <1>1, <1>2, <2>1 DEF BufferSound
  <1>9. FanoutSound'
    <2>1. \A s \in registered[published[h]] : /\ Watches[s] = published[h]
                                              /\ socket[s] \in {"open", "gone", "closed"}
      BY <1>4 DEF SocketSound
    <2>2. QED
      BY <1>1, <1>2, <1>3, <1>7, <2>1 DEF FanoutSound
  <1>10. ASSUME NEW s \in Sockets
         PROVE  ReceivedSound(s)' /\ SocketSound(s)'
    <2>1. \A k \in Range(received[s]) : k < h /\ k \in Nat
      BY <1>2, EventsAreNumbers DEF ReceivedSound
    <2>2. ReceivedSound(s)'
      BY <1>1, <1>2, <1>3, <2>1 DEF ReceivedSound
    <2>3. /\ \A y \in Executions : s \in registered'[y] => y = Watches[s]
          /\ socket'[s] = "open" => s \in registered'[Watches[s]]
          /\ s \in registered'[Watches[s]] => socket'[s] \in {"open", "gone"}
          /\ socket'[s] \in {"none", "accepted"} => received'[s] = <<>>
      BY <1>1 DEF SocketSound
    <2>4. ASSUME socket'[s] = "open", received'[s] # <<>>,
                 NEW k \in FromFirst(s)'
          PROVE  k \in Range(received'[s]) \cup unheard' \cup Coming(s)'
      <3>1. k \in FromFirst(s) /\ published[k] = Watches[s]
        BY <1>1, <2>4 DEF FromFirst
      <3>2. k \in Range(received[s]) \cup unheard \cup Range(buffer)
        BY <1>1, <2>4, <3>1 DEF SocketSound, Coming, AtEase
      <3>3. k = h => s \in fanout'.todo /\ fanout'.event = h
        BY <1>1, <2>4, <3>1 DEF SocketSound
      <3>4. QED
        BY <1>1, <1>2, <3>2, <3>3 DEF Coming
    <2>5. QED
      BY <2>2, <2>3, <2>4 DEF SocketSound
  <1>11. QED
    BY <1>6, <1>8, <1>9, <1>10

LEMMA SendStep ==
    ASSUME StreamInv, NEW r \in Sockets, Sends(r)
    PROVE  StreamInv'
  <1> USE DEF StreamInv, StreamingTypeOK
  <1> DEFINE e == fanout.event
  <1>1. /\ UNCHANGED <<published, buffer, listener, subscribed, registered, socket,
                       unheard, drops>>
        /\ r \in fanout.todo
    BY DEF Sends
  <1>2. e # NoEvent
    BY <1>1 DEF FanoutSound, AtEase
  <1>3. /\ e \in DOMAIN published /\ e \in Events /\ e \in Nat
        /\ published[e] = Watches[r]
        /\ \A m \in Range(buffer) : e < m
        /\ socket[r] \in {"open", "gone", "closed"}
    BY <1>1, <1>2, EventsAreNumbers DEF FanoutSound
  <1>4. /\ fanout' \in [event : Events \cup {NoEvent}, todo : SUBSET Sockets, dead : SUBSET Sockets]
        /\ fanout'.event = e /\ fanout'.todo = fanout.todo \ {r}
        /\ fanout'.dead \subseteq fanout.dead \cup {r}
        /\ socket[r] = "open" => fanout'.dead = fanout.dead
    <2>1. CASE socket[r] = "open"
      <3>1. fanout' = [fanout EXCEPT !.todo = @ \ {r}]
        BY <2>1 DEF Sends
      <3>2. QED
        BY <2>1, <3>1
    <2>2. CASE socket[r] # "open"
      <3>1. PICK raised \in BOOLEAN :
                fanout' = [fanout EXCEPT !.todo = @ \ {r},
                                         !.dead = IF raised THEN @ \cup {r} ELSE @]
        BY <2>2 DEF Sends
      <3>2. fanout'.dead = IF raised THEN fanout.dead \cup {r} ELSE fanout.dead
        BY <3>1
      <3>3. QED
        BY <2>2, <3>1, <3>2
    <2>3. QED
      BY <2>1, <2>2
  <1>5. \A s \in Sockets : received'[s] = IF s = r /\ socket[r] = "open"
                                          THEN Append(received[s], e) ELSE received[s]
    BY DEF Sends
  <1>6. received' \in [Sockets -> Seq(Events)]
    <2>1. CASE socket[r] = "open"
      <3>1. received' = [received EXCEPT ![r] = Append(@, e)]
        BY <2>1 DEF Sends
      <3>2. Append(received[r], e) \in Seq(Events)
        BY <1>3
      <3>3. QED
        BY <3>1, <3>2
    <2>2. CASE socket[r] # "open"
      BY <2>2 DEF Sends
    <2>3. QED
      BY <2>1, <2>2
  <1>7. StreamingTypeOK'
    BY <1>1, <1>4, <1>6
  <1>8. BufferSound'
    BY <1>1 DEF BufferSound
  <1>9. FanoutSound'
    BY <1>1, <1>2, <1>3, <1>4 DEF FanoutSound
  <1>10. ASSUME NEW s \in Sockets
         PROVE  ReceivedSound(s)' /\ SocketSound(s)'
    <2>1. CASE s = r /\ socket[r] = "open"
      <3>1. received'[s] = Append(received[s], e) /\ received[s] \in Seq(Nat)
        BY <1>5, <2>1, EventsAreNumbers
      <3>2. Range(received'[s]) = Range(received[s]) \cup {e} /\ received'[s] # <<>>
        BY <1>3, <3>1, AppendedEvent
      <3>3. \A n \in Range(received[s]) : n < e
        BY <1>1, <1>2, <2>1 DEF ReceivedSound
      <3>4. Increasing(received'[s])
        BY <1>3, <3>1, <3>3, AppendIncreases DEF ReceivedSound
      <3>5. \A n \in Range(received'[s]) : n \in Nat /\ n <= e
        BY <1>3, <3>2, <3>3, EventsAreNumbers
      <3>6. s \notin fanout'.todo
        BY <1>4, <2>1
      <3>7. ReceivedSound(s)'
        BY <1>1, <1>2, <1>3, <1>4, <2>1, <3>2, <3>4, <3>5, <3>6 DEF ReceivedSound
      <3>8. ASSUME NEW n \in FromFirst(s)'
            PROVE  n \in Range(received'[s]) \cup unheard' \cup Coming(s)'
        <4>1. n \in DOMAIN published /\ published[n] = Watches[s] /\ n >= received'[s][1]
          BY <1>1, <3>8 DEF FromFirst
        <4>2. CASE received[s] # <<>>
          <5>1. received'[s][1] = received[s][1]
            BY <3>1, <4>2
          <5>2. n \in FromFirst(s)
            BY <4>1, <5>1 DEF FromFirst
          <5>3. n \in Range(received[s]) \cup unheard \cup Range(buffer) \cup {e}
            BY <2>1, <4>2, <5>2 DEF SocketSound, Coming
          <5>4. QED
            BY <1>1, <3>2, <5>3 DEF Coming
        <4>3. CASE received[s] = <<>>
          <5>1. received'[s][1] = e
            BY <3>1, <4>3
          <5>2. n \in Nat /\ n >= e
            BY <4>1, <5>1, EventsAreNumbers
          <5>3. n \in Range(buffer) \cup unheard \/ n <= e
            BY <1>2, <4>1 DEF FanoutSound
          <5>4. n \in Range(buffer) \cup unheard \cup {e}
            BY <1>3, <5>2, <5>3
          <5>5. QED
            BY <1>1, <3>2, <5>4 DEF Coming
        <4>4. QED
          BY <4>2, <4>3
      <3>9. SocketSound(s)'
        BY <1>1, <2>1, <3>8 DEF SocketSound
      <3>10. QED
        BY <3>7, <3>9
    <2>2. CASE ~(s = r /\ socket[r] = "open")
      <3>1. received'[s] = received[s]
        BY <1>5, <2>2
      <3>2. ReceivedSound(s)'
        BY <1>1, <1>4, <3>1 DEF ReceivedSound
      <3>3. socket[s] = "open" => s # r
        BY <2>2
      <3>4. s # r => Coming(s)' = Coming(s)
        BY <1>1, <1>4 DEF Coming
      <3>5. FromFirst(s)' = FromFirst(s)
        BY <1>1, <3>1 DEF FromFirst
      <3>6. SocketSound(s)'
        BY <1>1, <3>1, <3>3, <3>4, <3>5 DEF SocketSound
      <3>7. QED
        BY <3>2, <3>6
    <2>3. QED
      BY <2>1, <2>2
  <1>11. QED
    BY <1>7, <1>8, <1>9, <1>10

LEMMA FanoutEndStep ==
    ASSUME StreamInv, FanoutEnds
    PROVE  StreamInv'
  <1> USE DEF StreamInv, StreamingTypeOK
  <1>1. /\ UNCHANGED <<published, buffer, listener, subscribed, socket, received, unheard, drops>>
        /\ fanout.event # NoEvent /\ fanout.todo = {} /\ fanout' = AtEase
    BY DEF FanoutEnds
  <1>2. \A x \in Executions : registered'[x] = registered[x] \ fanout.dead
    BY DEF FanoutEnds, Without
  <1>3. registered' \in [Executions -> SUBSET Sockets]
    BY DEF FanoutEnds, Without
  <1>4. AtEase.event = NoEvent /\ AtEase.todo = {}
        /\ AtEase \in [event : Events \cup {NoEvent}, todo : SUBSET Sockets, dead : SUBSET Sockets]
    BY DEF AtEase
  <1>5. StreamingTypeOK'
    BY <1>1, <1>3, <1>4
  <1>6. BufferSound' /\ FanoutSound'
    BY <1>1, <1>4 DEF BufferSound, FanoutSound
  <1>7. ASSUME NEW s \in Sockets
        PROVE  ReceivedSound(s)' /\ SocketSound(s)'
    <2>1. Watches[s] \in Executions
      BY StreamingAssumption
    <2>2. socket[s] = "open" => s \notin fanout.dead
      BY <1>1 DEF FanoutSound
    <2>3. ReceivedSound(s)'
      BY <1>1, <1>4 DEF ReceivedSound
    <2>4. FromFirst(s)' = FromFirst(s) /\ Coming(s)' = Coming(s)
      BY <1>1, <1>4 DEF FromFirst, Coming
    <2>5. SocketSound(s)'
      BY <1>1, <1>2, <2>1, <2>2, <2>4 DEF SocketSound
    <2>6. QED
      BY <2>3, <2>5
  <1>8. QED
    BY <1>5, <1>6, <1>7

(* What the subscription loses is unheard from then on. *)
LEMMA DropStep ==
    ASSUME StreamInv, SubscriptionDrops
    PROVE  StreamInv'
  <1> USE DEF StreamInv, StreamingTypeOK
  <1>1. UNCHANGED <<published, listener, fanout, registered, socket, received>>
    BY DEF SubscriptionDrops
  <1>2. PICK k \in 0..Len(buffer) :
            /\ buffer' = SubSeq(buffer, 1, k)
            /\ unheard' = unheard \cup {buffer[i] : i \in (k + 1)..Len(buffer)}
    BY DEF SubscriptionDrops
  <1>3. /\ Increasing(buffer') /\ Range(buffer') \subseteq Range(buffer)
        /\ Range(buffer) \cup unheard = Range(buffer') \cup unheard'
    BY <1>2, EventsAreNumbers, PrefixIncreases DEF BufferSound
  <1>4. buffer' \in Seq(Events)
    BY <1>2
  <1>5. unheard' \subseteq Events
    BY <1>3, EventsAreNumbers
  <1>6. subscribed' \in BOOLEAN /\ drops' \in 0..MaxDrops
    <2>1. subscribed' = FALSE /\ drops < MaxDrops /\ drops' = drops + 1
      BY DEF SubscriptionDrops
    <2>2. subscribed' \in BOOLEAN
      BY <2>1
    <2>3. drops \in 0..MaxDrops /\ MaxDrops \in Nat
      BY StreamingAssumption
    <2>4. drops' \in 0..MaxDrops
      BY <2>1, <2>3
    <2>5. QED
      BY <2>2, <2>4
  <1>7. StreamingTypeOK'
    BY <1>1, <1>4, <1>5, <1>6
  <1>8. BufferSound'
    BY <1>1, <1>3 DEF BufferSound
  <1>9. FanoutSound'
    BY <1>1, <1>3 DEF FanoutSound
  <1>10. ASSUME NEW s \in Sockets
         PROVE  ReceivedSound(s)' /\ SocketSound(s)'
    <2>1. ReceivedSound(s)'
      BY <1>1, <1>3 DEF ReceivedSound
    <2>2. FromFirst(s)' = FromFirst(s)
      BY <1>1 DEF FromFirst
    <2>3. unheard \cup Coming(s) = unheard' \cup Coming(s)'
      BY <1>1, <1>3 DEF Coming
    <2>4. SocketSound(s)'
      BY <1>1, <2>2, <2>3 DEF SocketSound
    <2>5. QED
      BY <2>1, <2>4
  <1>11. QED
    BY <1>7, <1>8, <1>9, <1>10

LEMMA StreamStep == StreamInv /\ [StreamingNext]_streamVars => StreamInv'
  <1> SUFFICES ASSUME StreamInv, [StreamingNext]_streamVars
               PROVE  StreamInv'
    OBVIOUS
  <1>1. CASE ListenerFails \/ Subscribes \/ UNCHANGED streamVars
    <2>1. /\ UNCHANGED <<published, buffer, fanout, registered, socket, received, unheard, drops>>
          /\ listener' \in {"listening", "pausing"} /\ subscribed' \in BOOLEAN
      BY <1>1 DEF ListenerFails, Subscribes, streamVars, StreamInv, StreamingTypeOK
    <2>2. StreamingTypeOK' /\ BufferSound' /\ FanoutSound'
      BY <2>1 DEF StreamInv, StreamingTypeOK, BufferSound, FanoutSound
    <2>3. ASSUME NEW s \in Sockets
          PROVE  ReceivedSound(s)' /\ SocketSound(s)'
      BY <2>1 DEF StreamInv, ReceivedSound, SocketSound, FromFirst, Coming
    <2>4. QED
      BY <2>2, <2>3 DEF StreamInv
  <1>2. QED
    BY <1>1, SubscriberStep, EmitStep, ReadStep, SendStep, FanoutEndStep, DropStep
       DEF StreamingNext

LEMMA StreamInitially == StreamingInit => StreamInv
  <1> SUFFICES ASSUME StreamingInit
               PROVE  StreamInv
    OBVIOUS
  <1>1. AtEase.event = NoEvent /\ AtEase.todo = {}
        /\ AtEase \in [event : Events \cup {NoEvent}, todo : SUBSET Sockets, dead : SUBSET Sockets]
    BY DEF AtEase
  <1>2. StreamingTypeOK
    BY <1>1, StreamingAssumption DEF StreamingInit, StreamingTypeOK
  <1>3. BufferSound /\ FanoutSound
    BY <1>1 DEF StreamingInit, BufferSound, FanoutSound, Increasing, Range
  <1>4. ASSUME NEW s \in Sockets
        PROVE  ReceivedSound(s) /\ SocketSound(s)
    <2>1. Watches[s] \in Executions
      BY StreamingAssumption
    <2>2. QED
      BY <2>1 DEF StreamingInit, ReceivedSound, SocketSound, Increasing, Range
  <1>5. QED
    BY <1>2, <1>3, <1>4 DEF StreamInv

LEMMA StreamInvariant == StreamingSpec => []StreamInv
  BY StreamInitially, StreamStep, PTL DEF StreamingSpec

(* broadcaster.py: however many sockets come and go while the listener     *)
(* hands events out and loses its subscription, a client gets the events   *)
(* of its execution in order, each once, and while it stays none is left   *)
(* out but those that no listener heard. *)
THEOREM StreamFaithful == StreamingSpec => []StreamIsFaithful
  <1>1. StreamInv => StreamIsFaithful
    <2> SUFFICES ASSUME StreamInv, NEW s \in Sockets
                 PROVE  /\ \A i \in 1..(Len(received[s]) - 1) : received[s][i] < received[s][i + 1]
                        /\ Range(received[s]) \subseteq
                              {n \in DOMAIN published : published[n] = Watches[s]}
                        /\ socket[s] = "open" =>
                              /\ s \in registered[Watches[s]]
                              /\ received[s] # <<>> =>
                                    FromFirst(s) \subseteq
                                        Range(received[s]) \cup unheard \cup Coming(s)
                        /\ socket[s] = "closed" => s \notin registered[Watches[s]]
      BY DEF StreamIsFaithful
    <2>1. ReceivedSound(s) /\ SocketSound(s)
      BY DEF StreamInv
    <2>2. \A i \in 1..(Len(received[s]) - 1) : received[s][i] < received[s][i + 1]
      <3>1. received[s] \in Seq(Nat)
        BY EventsAreNumbers
      <3>2. \A i \in 1..(Len(received[s]) - 1) :
                i \in DOMAIN received[s] /\ i + 1 \in DOMAIN received[s] /\ i < i + 1
        BY <3>1
      <3>3. QED
        BY <2>1, <3>2 DEF ReceivedSound, Increasing
    <2>3. QED
      BY <2>1, <2>2 DEF ReceivedSound, SocketSound
  <1>2. QED
    BY StreamInvariant, <1>1, PTL

-----------------------------------------------------------------------------
(* The composition *)

(* Whatever the composition does, and for whatever bounds, each part does  *)
(* what its own specification allows, so that its theorems hold there too. *)
LEMMA PartsBegin ==
    MCInit => EnrichmentInit /\ RoutingInit /\ EntitlementsInit /\ TeamInit /\ StreamingInit
  BY DEF MCInit

LEMMA PartsStep ==
    [MCNext]_servicesVars =>
        /\ [EnrichmentNext]_enrichVars /\ [RoutingNext]_routingVars
        /\ [EntitlementsNext]_accessVars /\ [TeamNext]_teamVars /\ [StreamingNext]_streamVars
  <1> SUFFICES ASSUME [MCNext]_servicesVars
               PROVE  /\ EnrichmentNext \/ UNCHANGED enrichVars
                      /\ RoutingNext \/ UNCHANGED routingVars
                      /\ EntitlementsNext \/ UNCHANGED accessVars
                      /\ TeamNext \/ UNCHANGED teamVars
                      /\ StreamingNext \/ UNCHANGED streamVars
    OBVIOUS
  <1>1. CASE MCNext
    BY <1>1 DEF MCNext, EnrichmentNext, othersRest
  <1>2. CASE UNCHANGED servicesVars
    BY <1>2 DEF servicesVars
  <1>3. QED
    BY <1>1, <1>2

LEMMA PartsKeepTheirSpecs ==
    MCInit /\ [][MCNext]_servicesVars =>
        EnrichmentSpec /\ RoutingSpec /\ EntitlementsSpec /\ TeamSpec /\ StreamingSpec
  BY PartsBegin, PartsStep, PTL
     DEF EnrichmentSpec, RoutingSpec, EntitlementsSpec, TeamSpec, StreamingSpec

(* Every variable of the five parts has its type in every state of their   *)
(* composition, whatever the order of answers, cancellations and failures. *)
THEOREM ServicesTyped == MCSpec => []ServicesTypeOK
  <1>1. MCSpec => MCInit /\ [][MCNext]_servicesVars
    BY PTL DEF MCSpec
  <1>2. IInv /\ RoutingInv /\ AccessInv /\ TeamInv /\ StreamInv => ServicesTypeOK
    BY DEF IInv, RoutingInv, AccessInv, TeamInv, StreamInv, ServicesTypeOK
  <1>3. QED
    BY <1>1, <1>2, PartsKeepTheirSpecs, Invariance, RoutingInvariant, AccessInvariant,
       TeamInvariant, StreamInvariant, PTL

(* And each part keeps its own promises there: outcomes are told honestly, *)
(* calls are answered by the vendor the rejections allow, an entitlement   *)
(* is the latest known, results are attributed to whoever produced them,   *)
(* memory agrees with its rows, streams are ordered and complete, and only *)
(* the voice relay fills blocks beyond the session. *)
THEOREM ServicesKeepPromises ==
    MCSpec => [](/\ OutcomesAreHonest /\ RoutingIsHonest /\ WireIsWellFormed
                 /\ EntitlementIsCurrent /\ ResultsAreKept
                 /\ StreamIsFaithful /\ OnlyVoiceOutlives)
  <1>1. MCSpec => MCInit /\ [][MCNext]_servicesVars
    BY PTL DEF MCSpec
  <1>2. QED
    BY <1>1, PartsKeepTheirSpecs, HonestOutcomes, RoutingHonest, WireSound, CurrentEntitlement,
       ResultsKept, StreamFaithful, OnlyVoice, PTL
=============================================================================
