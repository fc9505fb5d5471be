----------------------------- MODULE LlmRouting -----------------------------
(***************************************************************************)
(* Which vendor answers a call of a language model.  One process serves    *)
(* many callers at once; they share its keys and its latch: the time until *)
(* which Claude is not tried, because it rejected this process's key.  A   *)
(* block agent calls with a transcript that grows over its steps and is    *)
(* translated anew for whichever vendor the step goes to.                  *)
(***************************************************************************)
EXTENDS Naturals, Sequences, SequencesExt

CONSTANTS
    Callers,    \* coroutines that call a model, one call at a time
    Talkers,    \* those of them that are block agents
    Cooldown,   \* ticks for which a rejection latches
    MaxTime,    \* bound on the clock
    MaxTurns    \* bound on the entries of a transcript

ASSUME RoutingAssumption ==
    /\ Talkers \subseteq Callers
    /\ Cooldown \in Nat \ {0} /\ MaxTime \in Nat /\ MaxTurns \in Nat

VARIABLES
    keys,       \* which vendors' keys this server is configured with
    accepted,   \* Claude's vendor accepts the key
    now,        \* the monotonic clock
    latch,      \* _anthropic_disabled_until
    call,       \* per caller: the call in flight
    paid,       \* per caller: when its calls were rejected and latched
    talk,       \* per block agent: its transcript, provider-neutral
    run         \* per block agent: whether it runs, since when, the steps of this
                \* run, the model of the last one, and whether the run said that
                \* another model than the requested one answers

routingVars == <<keys, accepted, now, latch, call, paid, talk, run>>

(* Model ids by what their prefix says; "blank" is no model at all. *)
Models == {"claude", "gpt", "gemini", "unknown", "blank"}

(* resolve_provider: what is not known is OpenAI's default. *)
Provider(model) ==
    CASE model = "claude" -> "anthropic"
      [] model = "gemini" -> "gemini"
      [] OTHER -> "openai"

(* The model that OpenAI runs: its own if it was asked for, or the default.*)
OpenaiModel(model) == IF model = "gpt" THEN "gpt" ELSE "default"

Kinds == {"text", "json", "chain", "tools"}

(* What a vendor makes of a call: "busy" is a 429 or a 5xx, "contract" a   *)
(* 400, "unparsable" an answer that is not the JSON asked for. *)
Answers(kind) ==
    {"answer", "busy", "contract"}
      \cup (IF kind = "json" THEN {"unparsable"} ELSE {})
      \cup (IF kind = "tools" THEN {"refusal"} ELSE {})

Calls == [stage : {"idle", "anthropic", "openai"}, kind : Kinds, model : Models,
          since : Nat, rejected : BOOLEAN]

Entries == [role : {"user", "assistant", "tool", "system"}, turn : Nat,
            calls : Nat, raw : BOOLEAN]

RoutingTypeOK ==
    /\ keys \in [anthropic : BOOLEAN, openai : BOOLEAN]
    /\ accepted \in BOOLEAN
    /\ now \in 0..MaxTime
    /\ latch \in 0..(MaxTime + Cooldown)
    /\ call \in [Callers -> Calls]
    /\ paid \in [Callers -> Seq(0..MaxTime)]
    /\ talk \in [Talkers -> Seq(Entries)]
    /\ run \in [Talkers -> [going : BOOLEAN, since : 0..MaxTime, steps : Nat,
                           told : BOOLEAN, ran : {"none", "claude", "gpt", "default"}]]

(* No call in flight; a block agent's model is set for its whole run. *)
Quiet(model) == [stage |-> "idle", kind |-> "text", model |-> model, since |-> 0,
                 rejected |-> FALSE]

Idle == [going |-> FALSE, since |-> 0, steps |-> 0, told |-> FALSE, ran |-> "none"]

RoutingInit ==
    /\ keys \in [anthropic : BOOLEAN, openai : BOOLEAN]
    /\ accepted \in BOOLEAN
    /\ now = 0
    /\ latch = 0
    /\ call = [p \in Callers |-> Quiet("blank")]
    /\ paid = [p \in Callers |-> <<>>]
    /\ talk = [p \in Talkers |-> <<>>]
    /\ run = [p \in Talkers |-> Idle]

(***************************************************************************)
(* The transcript on the wire.                                             *)
(***************************************************************************)
User == [role |-> "user", turn |-> 0, calls |-> 0, raw |-> FALSE]
Canvas == [role |-> "system", turn |-> 0, calls |-> 0, raw |-> FALSE]
Turn(n, calls, raw) == [role |-> "assistant", turn |-> n, calls |-> calls, raw |-> raw]
ResultOf(n, i) == [role |-> "tool", turn |-> n, calls |-> i, raw |-> FALSE]

(* The canvas goes with every step, after the transcript. *)
Sent(p) == Append(talk[p], Canvas)

(* The results that wait become one user message. *)
Flush(acc) ==
    IF acc.waiting = <<>> THEN acc.out
    ELSE Append(acc.out, [role |-> "user", turn |-> acc.waiting[1].turn,
                          results |-> acc.waiting, raw |-> FALSE, calls |-> 0])

(* (mutant) Every result makes a message of its own. *)
TranslateEach(acc, entry) ==
    [out |-> Append(acc.out, [role |-> IF entry.role = "tool" THEN "user" ELSE entry.role,
                              turn |-> entry.turn, raw |-> entry.raw,
                              results |-> IF entry.role = "tool" THEN <<entry>> ELSE <<>>,
                              calls |-> IF entry.role = "tool" THEN 0 ELSE entry.calls]),
     waiting |-> <<>>]

Translate(acc, entry) ==
    IF entry.role = "tool"
    THEN [acc EXCEPT !.waiting = Append(@, entry)]
    ELSE [out |-> Append(Flush(acc), [role |-> entry.role, turn |-> entry.turn,
                                      results |-> <<>>, raw |-> entry.raw,
                                      calls |-> entry.calls]),
          waiting |-> <<>>]

(* The loop's two lists after the first n entries. *)
Translation(entries) ==
    LET after[n \in 0..Len(entries)] ==
          IF n = 0 THEN [out |-> <<>>, waiting |-> <<>>]
          ELSE Translate(after[n - 1], entries[n])
    IN  after

ToAnthropicMessages(entries) == Flush(Translation(entries)[Len(entries)])

(* One for one, after the system prompt; what a vendor sent is rebuilt. *)
ToOpenaiMessages(entries) ==
    <<Canvas>> \o [i \in DOMAIN entries |-> [entries[i] EXCEPT !.raw = FALSE]]

(***************************************************************************)
(* Routing.                                                                *)
(***************************************************************************)
(* (mutant) The latch is not looked at. *)
AvailableAnyway(model) == Provider(model) = "anthropic" /\ keys.anthropic

(* _anthropic_available *)
Available(model) ==
    /\ Provider(model) = "anthropic"
    /\ keys.anthropic
    /\ now >= latch

Ends(p) == call' = [call EXCEPT ![p] = Quiet(IF p \in Talkers THEN @.model ELSE "blank")]

(* Claude if it is available and was not just tried, or else OpenAI, whose *)
(* client raises at once without a key. *)
Tries(p, kind, model, rejected) ==
    LET began(stage) == [stage |-> stage, kind |-> kind, model |-> model,
                         since |-> IF rejected THEN call[p].since ELSE now,
                         rejected |-> rejected]
    IN  IF ~rejected /\ Available(model)
        THEN call' = [call EXCEPT ![p] = began("anthropic")]
        ELSE IF keys.openai
        THEN call' = [call EXCEPT ![p] = began("openai")]
        ELSE Ends(p)

(* call_llm_text, call_llm_json, make_chat_model. *)
CallStarts(p, kind, model) ==
    /\ p \notin Talkers /\ kind # "tools"
    /\ call[p].stage = "idle"
    /\ Tries(p, kind, model, FALSE)
    /\ UNCHANGED <<keys, accepted, now, latch, paid, talk, run>>

(* A new instruction: the transcript is kept, the steps start again. *)
Instructed(p, model) ==
    /\ ~run[p].going
    /\ Len(talk[p]) < MaxTurns
    /\ talk' = [talk EXCEPT ![p] = Append(@, User)]
    /\ run' = [run EXCEPT ![p] = [Idle EXCEPT !.going = TRUE, !.since = now]]
    /\ call' = [call EXCEPT ![p].model = model]
    /\ UNCHANGED <<keys, accepted, now, latch, paid>>

(* The next step of a block agent, which an error ends. *)
StepStarts(p) ==
    /\ run[p].going /\ call[p].stage = "idle"
    /\ Len(talk[p]) < MaxTurns
    /\ Tries(p, "tools", call[p].model, FALSE)
    /\ run' = IF call'[p].stage = "idle" THEN [run EXCEPT ![p] = Idle]
              ELSE [run EXCEPT ![p].steps = @ + 1]
    /\ UNCHANGED <<keys, accepted, now, latch, paid, talk>>

(* A turn that calls tools joins the transcript with their results, unless *)
(* the last of its calls is finish; a turn without calls does not join it. *)
Answered(p, by, calls, finishes) ==
    LET n == Len(talk[p]) + 1
        results == IF finishes THEN <<>> ELSE [i \in 1..calls |-> ResultOf(n, i)]
        ran == IF by = "anthropic" THEN "claude" ELSE OpenaiModel(call[p].model)
        announced == run[p].steps = 1 /\ call[p].model \notin {"blank", ran}
    IN  /\ finishes => calls > 0
        /\ talk' = [talk EXCEPT ![p] =
              IF calls = 0 THEN @ ELSE Append(@, Turn(n, calls, by = "anthropic")) \o results]
        /\ run' = IF results = <<>> THEN [run EXCEPT ![p] = Idle]
                  ELSE [run EXCEPT ![p].ran = ran, ![p].told = @ \/ announced]

(* An answer that is none ends the run, as an exception does. *)
Takes(p, outcome, by) ==
    IF p \notin Talkers THEN UNCHANGED <<talk, run>>
    ELSE IF outcome = "answer"
    THEN \E calls \in 0..2, finishes \in BOOLEAN : Answered(p, by, calls, finishes)
    ELSE run' = [run EXCEPT ![p] = Idle] /\ UNCHANGED talk

(* _with_anthropic_fallback: whatever Claude made of the call is the       *)
(* caller's, but for a rejection of the key. *)
ClaudeReplies(p) ==
    /\ call[p].stage = "anthropic"
    /\ \E outcome \in Answers(call[p].kind) :
          /\ outcome \in {"answer", "unparsable", "refusal", "contract"} => accepted
          /\ Ends(p)
          /\ Takes(p, outcome, "anthropic")
    /\ UNCHANGED <<keys, accepted, now, latch, paid>>

(* The first rejection latches, and the call goes to OpenAI; no other      *)
(* failure does either. *)
ClaudeRejects(p) ==
    /\ call[p].stage = "anthropic" /\ call[p].kind # "chain"
    /\ ~accepted
    /\ latch' = now + Cooldown
    /\ paid' = [paid EXCEPT ![p] = Append(@, now)]
    /\ Tries(p, call[p].kind, call[p].model, TRUE)
    /\ run' = IF p \in Talkers /\ call'[p].stage = "idle"
              THEN [run EXCEPT ![p] = Idle] ELSE run
    /\ UNCHANGED <<keys, accepted, now, talk>>

(* A LangChain model fails where it is used, far from the factory. *)
ChainRejected(p) ==
    /\ call[p].stage = "anthropic" /\ call[p].kind = "chain"
    /\ ~accepted
    /\ Ends(p)
    /\ UNCHANGED <<keys, accepted, now, latch, paid, talk, run>>

OpenaiReplies(p) ==
    /\ call[p].stage = "openai"
    /\ \E outcome \in Answers(call[p].kind) \ {"refusal"} :
          Ends(p) /\ Takes(p, outcome, "openai")
    /\ UNCHANGED <<keys, accepted, now, latch, paid>>

(* External: the vendor revokes the key, or takes it again. *)
KeyChanges ==
    /\ accepted' = ~accepted
    /\ UNCHANGED <<keys, now, latch, call, paid, talk, run>>

Tick ==
    /\ now < MaxTime
    /\ now' = now + 1
    /\ UNCHANGED <<keys, accepted, latch, call, paid, talk, run>>

RoutingNext ==
    \/ \E p \in Callers, kind \in Kinds, model \in Models : CallStarts(p, kind, model)
    \/ \E p \in Talkers, model \in Models : Instructed(p, model)
    \/ \E p \in Talkers : StepStarts(p)
    \/ \E p \in Callers : \/ ClaudeReplies(p) \/ ClaudeRejects(p)
                          \/ ChainRejected(p) \/ OpenaiReplies(p)
    \/ KeyChanges \/ Tick

RoutingSpec == RoutingInit /\ [][RoutingNext]_routingVars

(***************************************************************************)
(* Properties.                                                             *)
(***************************************************************************)
(* When a rejection of any caller latched. *)
Rejections == UNION {{paid[p][i] : i \in DOMAIN paid[p]} : p \in Callers}

(* llm.py: only a rejected key may be answered by another vendor, and only *)
(* for the cooldown.  A call for Claude is with OpenAI only if there is no *)
(* key, or if the cooldown of some rejection had not passed when the call  *)
(* began; and the latch is always the cooldown of the latest rejection,    *)
(* whichever call in flight met it. *)
OnlyRejectionsReroute ==
    /\ \A p \in Callers :
          (call[p].stage = "openai" /\ call[p].model = "claude") =>
              ~keys.anthropic \/ \E r \in Rejections : call[p].since < r + Cooldown
    /\ latch # 0 => \E r \in Rejections : latch = r + Cooldown /\ \A q \in Rejections : q <= r

(* llm.py: an agent pays the doomed round trip once, not once per step.  A *)
(* caller's rejections are at least a cooldown apart, although calls of    *)
(* others in flight may be rejected at any time in between. *)
PaysOncePerCooldown ==
    \A p \in Callers : \A i, j \in DOMAIN paid[p] :
        i < j => paid[p][i] + Cooldown <= paid[p][j]

(* block_agent.py: a fallback is fine, being unable to tell that it        *)
(* happened is not.  A run whose latest step was answered by another model *)
(* than the one it asked for has said so, unless the key was rejected      *)
(* since the run began: only the first step says which model answers. *)
FallbackIsTold ==
    \A p \in Talkers :
        (run[p].ran # "none" /\ call[p].model \notin {"blank", run[p].ran}) =>
            run[p].told \/ \E r \in Rejections : r >= run[p].since

(* All three: what another vendor answers, for how long, and whether the   *)
(* user can tell. *)
RoutingIsHonest == OnlyRejectionsReroute /\ PaysOncePerCooldown /\ FallbackIsTold

(* A conversation whose turns have all been answered; one that was resumed *)
(* after finish has not. *)
Complete(entries) ==
    \A i \in DOMAIN entries : entries[i].role = "assistant" =>
        \A k \in 1..entries[i].calls :
            i + k \in DOMAIN entries /\ entries[i + k] = ResultOf(entries[i].turn, k)

(* A message of Claude's wire answers the one before it: all results of a  *)
(* turn in the single user message after it, in order, and no others. *)
AnswersPrevious(wire, i) ==
    LET calls == IF i = 1 THEN 0 ELSE wire[i - 1].calls IN
    /\ Len(wire[i].results) = calls
    /\ \A k \in 1..calls :
          wire[i].role = "user" /\ wire[i].results[k] = ResultOf(wire[i - 1].turn, k)

(* Both translations keep the rules that llm.py quotes of the vendors,     *)
(* whatever mixture of vendors wrote the transcript: on Claude's wire the  *)
(* results of a turn make one user message right after it, the canvas is   *)
(* last and after a user message, and exactly Claude's own turns are       *)
(* replayed as they were received; on OpenAI's wire every result has its   *)
(* turn before it with nothing but results between, none of it raw. *)
WireIsWellFormed ==
    \A p \in Talkers :
        LET claude == ToAnthropicMessages(Sent(p))
            openai == ToOpenaiMessages(Sent(p))
        IN  (call[p].stage # "idle" /\ Complete(talk[p])) =>
              /\ claude[1].role = "user"
              /\ \A i \in DOMAIN claude :
                    /\ AnswersPrevious(claude, i)
                    /\ claude[i].role = "system" =>
                          i = Len(claude) /\ claude[i - 1].role = "user"
                    /\ claude[i].role = "assistant" =>
                          \E e \in Range(talk[p]) : e.role = "assistant"
                              /\ e.turn = claude[i].turn /\ e.raw = claude[i].raw
              /\ Last(claude).calls = 0
              /\ \A i \in DOMAIN openai :
                    /\ ~openai[i].raw
                    /\ openai[i].role = "tool" =>
                          LET t == i - openai[i].calls IN
                          openai[t].role = "assistant" /\ openai[t].turn = openai[i].turn
=============================================================================
