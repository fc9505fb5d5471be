---------------------------- MODULE Entitlements ----------------------------
(***************************************************************************)
(* Whether a user may run block agents.  The backend knows the plan; the   *)
(* gate asks it through two caches in Redis that all sessions and          *)
(* processes share: a short-lived hot one, and a long-lived one with what  *)
(* was last known, for when the backend does not answer.  The state is     *)
(* that of one user, who may press the Agent button in several sessions.   *)
(***************************************************************************)
EXTENDS Naturals

CONSTANTS
    Presses,    \* presses of the Agent button that reach the gate
    MaxAnswers, \* bound on the answers of the backend
    MaxChanges  \* bound on the changes of the plan

ASSUME EntitlementsAssumption == MaxAnswers \in Nat /\ MaxChanges \in Nat

VARIABLES
    policy,     \* settings: the gate is enforced; what stands in for no answer
    plan,       \* external: whether the plan includes block agents
    changes,    \* how often it changed
    answered,   \* the number of answers of the backend, and the latest one
    cached,     \* the hot and the last-known-good entry
    press,      \* per press: how far it is
    raced,      \* history: two resolutions overlapped between question and store
    failed      \* history: a write to Redis failed

accessVars == <<policy, plan, changes, answered, cached, press, raced, failed>>

Empty == [yes |-> FALSE, at |-> 0]

Entry == [yes : BOOLEAN, at : 0..MaxAnswers]

Steps == {"idle", "hot", "fetch", "storeHot", "storeLkg", "known", "decide", "done"}

(* Where the answer of a look came from. *)
Bases == {"none", "hot", "backend", "known", "fallback"}

EntitlementsTypeOK ==
    /\ policy \in [enforced : BOOLEAN, fallback : BOOLEAN]
    /\ plan \in BOOLEAN
    /\ changes \in 0..MaxChanges
    /\ answered \in [count : 0..MaxAnswers, yes : BOOLEAN]
    /\ cached \in [hot : Entry, lkg : Entry]
    /\ press \in [Presses -> [at : Steps, look : 1..3, got : Entry, basis : Bases,
                              verdict : {"none", "allowed", "refused"}, paid : BOOLEAN]]
    /\ raced \in BOOLEAN /\ failed \in BOOLEAN

EntitlementsInit ==
    /\ policy \in [enforced : BOOLEAN, fallback : BOOLEAN]
    /\ plan \in BOOLEAN
    /\ changes = 0
    /\ answered = [count |-> 0, yes |-> FALSE]
    /\ cached = [hot |-> Empty, lkg |-> Empty]
    /\ press = [p \in Presses |-> [at |-> "idle", look |-> 1, got |-> Empty, basis |-> "none",
                                   verdict |-> "none", paid |-> FALSE]]
    /\ raced = FALSE /\ failed = FALSE

Cached(entry) == entry.at > 0

(* Between its question to the backend and the end of its writes. *)
Resolving(p) == press[p].at \in {"storeHot", "storeLkg"}

Goes(p, step) == press' = [press EXCEPT ![p].at = step]

Gets(p, entry, basis, step) ==
    press' = [press EXCEPT ![p].got = entry, ![p].basis = basis, ![p].at = step]

(* Off, the gate allows at once, and one look is taken for the log only. *)
Pressed(p) ==
    /\ press[p].at = "idle"
    /\ press' = [press EXCEPT
          ![p].at = "hot", ![p].paid = plan,
          ![p].look = IF policy.enforced THEN 1 ELSE 3,
          ![p].verdict = IF policy.enforced THEN "none" ELSE "allowed"]
    /\ UNCHANGED <<policy, plan, changes, answered, cached, raced, failed>>

(* The first look at the hot entry; a cache that cannot be read is empty. *)
ReadsHot(p) ==
    /\ press[p].at = "hot"
    /\ \/ Cached(cached.hot) /\ Gets(p, cached.hot, "hot", "decide")
       \/ Goes(p, "fetch")
    /\ UNCHANGED <<policy, plan, changes, answered, cached, raced, failed>>

(* The backend answers with the plan of that moment. *)
BackendAnswers(p) ==
    /\ press[p].at = "fetch"
    /\ answered.count < MaxAnswers
    /\ answered' = [count |-> answered.count + 1, yes |-> plan]
    /\ Gets(p, [yes |-> plan, at |-> answered'.count], "backend", "storeHot")
    /\ raced' = (raced \/ \E q \in Presses \ {p} : Resolving(q))
    /\ UNCHANGED <<policy, plan, changes, cached, failed>>

(* A timeout, a 4xx or 5xx, or a body of no known shape is no answer. *)
BackendFails(p) ==
    /\ press[p].at = "fetch"
    /\ Goes(p, "known")
    /\ UNCHANGED <<policy, plan, changes, answered, cached, raced, failed>>

(* _cache_write: two writes, each on its own and each best effort. *)
StoresHot(p) ==
    /\ press[p].at = "storeHot"
    /\ \/ cached' = [cached EXCEPT !.hot = press[p].got] /\ UNCHANGED failed
       \/ failed' = TRUE /\ UNCHANGED cached
    /\ Goes(p, "storeLkg")
    /\ UNCHANGED <<policy, plan, changes, answered, raced>>

(* (mutant) Only a yes is worth keeping. *)
StoresLkgYes(p) ==
    /\ press[p].at = "storeLkg"
    /\ cached' = [cached EXCEPT !.lkg = IF press[p].got.yes THEN press[p].got ELSE @]
    /\ Goes(p, "decide")
    /\ UNCHANGED <<policy, plan, changes, answered, raced, failed>>

StoresLkg(p) ==
    /\ press[p].at = "storeLkg"
    /\ \/ cached' = [cached EXCEPT !.lkg = press[p].got] /\ UNCHANGED failed
       \/ failed' = TRUE /\ UNCHANGED cached
    /\ Goes(p, "decide")
    /\ UNCHANGED <<policy, plan, changes, answered, raced>>

(* Nothing from the backend: what was last known, or else the fallback. *)
ReadsLkg(p) ==
    /\ press[p].at = "known"
    /\ \/ Cached(cached.lkg) /\ Gets(p, cached.lkg, "known", "decide")
       \/ Gets(p, [Empty EXCEPT !.yes = policy.fallback], "fallback", "decide")
    /\ UNCHANGED <<policy, plan, changes, answered, cached, raced, failed>>

(* (mutant) A no is asked for again and again. *)
DecidesAgain(p) ==
    /\ press[p].at = "decide"
    /\ press' = [press EXCEPT ![p] =
          IF @.got.yes THEN [@ EXCEPT !.at = "done", !.verdict = "allowed"]
          ELSE [@ EXCEPT !.at = "fetch", !.look = @ + 1]]
    /\ UNCHANGED <<policy, plan, changes, answered, cached, raced, failed>>

(* (mutant) The second look goes through the cache as the first. *)
DecidesByCache(p) ==
    /\ press[p].at = "decide"
    /\ press' = [press EXCEPT ![p] =
          IF @.look = 3 THEN [@ EXCEPT !.at = "done"]
          ELSE IF @.got.yes THEN [@ EXCEPT !.at = "done", !.verdict = "allowed"]
          ELSE IF @.look = 1 THEN [@ EXCEPT !.at = "hot", !.look = 2]
          ELSE [@ EXCEPT !.at = "done", !.verdict = "refused"]]
    /\ UNCHANGED <<policy, plan, changes, answered, cached, raced, failed>>

(* A first look that says no is followed by one straight past the cache. *)
Decides(p) ==
    /\ press[p].at = "decide"
    /\ press' = [press EXCEPT ![p] =
          IF @.look = 3 THEN [@ EXCEPT !.at = "done"]
          ELSE IF @.got.yes THEN [@ EXCEPT !.at = "done", !.verdict = "allowed"]
          ELSE IF @.look = 1 THEN [@ EXCEPT !.at = "fetch", !.look = 2]
          ELSE [@ EXCEPT !.at = "done", !.verdict = "refused"]]
    /\ UNCHANGED <<policy, plan, changes, answered, cached, raced, failed>>

HotExpires ==
    /\ Cached(cached.hot)
    /\ cached' = [cached EXCEPT !.hot = Empty]
    /\ UNCHANGED <<policy, plan, changes, answered, press, raced, failed>>

LkgExpires ==
    /\ Cached(cached.lkg)
    /\ cached' = [cached EXCEPT !.lkg = Empty]
    /\ UNCHANGED <<policy, plan, changes, answered, press, raced, failed>>

(* External: the user pays, or the subscription ends. *)
PlanChanges ==
    /\ changes < MaxChanges
    /\ changes' = changes + 1
    /\ plan' = ~plan
    /\ press' = [p \in Presses |-> [press[p] EXCEPT !.paid = FALSE]]
    /\ UNCHANGED <<policy, answered, cached, raced, failed>>

EntitlementsNext ==
    \/ \E p \in Presses : \/ Pressed(p) \/ ReadsHot(p) \/ BackendAnswers(p) \/ BackendFails(p)
                          \/ StoresHot(p) \/ StoresLkg(p) \/ ReadsLkg(p) \/ Decides(p)
    \/ HotExpires \/ LkgExpires \/ PlanChanges

EntitlementsSpec == EntitlementsInit /\ [][EntitlementsNext]_accessVars

(***************************************************************************)
(* Properties.                                                             *)
(***************************************************************************)
AtRest == \A p \in Presses : ~Resolving(p)

(* entitlements.py: a stale yes must never outlive a real no.  Once every  *)
(* answer has been stored, neither cache says anything but the backend's   *)
(* latest answer, as long as no two resolutions overlapped and no write    *)
(* failed: the writes are not ordered, and each may be lost alone. *)
CachesFollowAnswers ==
    (AtRest /\ ~raced /\ ~failed) =>
        /\ Cached(cached.hot) => cached.hot.at = answered.count
        /\ Cached(cached.lkg) => cached.lkg.at = answered.count

(* entitlements.py: a user who has just paid is not told to pay again.  A  *)
(* refusal never rests on the hot cache, and never befalls a user whose    *)
(* plan had included agents since the press, unless the backend did not    *)
(* answer the second look. *)
PaymentIsHonoured ==
    \A p \in Presses : press[p].verdict = "refused" =>
        /\ press[p].basis # "hot"
        /\ press[p].paid => press[p].basis \in {"known", "fallback"}

(* Both: what the caches say, and what a user who has paid is told. *)
EntitlementIsCurrent == CachesFollowAnswers /\ PaymentIsHonoured
=============================================================================
