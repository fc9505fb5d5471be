# Grafux-orchestrator in TLA+

Grafux-orchestrator is a FastAPI service with Celery workers. It executes
workflows that Grafux-backend triggers (an LLM agent with tools), and it serves
interactive sessions over a WebSocket to the Grafux desktop client: a chat that
edits a block diagram, a voice relay, and *block agents*, LLM loops that work on
one block of the diagram each. The modules here model the parts in which several
processes, coroutines or messages meet. Paths below are relative to `src/app`.

## Inventory

| Component | State it keeps | Operations | Talks to | What is hard |
|---|---|---|---|---|
| Internal API, queue endpoints (`modules/internal_api`, `modules/queue/router.py`) | rows of `executions`, Redis key `cancel:{id}` | trigger, cancel, retry, read | Postgres, Celery broker, Redis | three stores written one after the other, racing the worker |
| Celery tasks (`modules/queue/tasks.py`, `core/celery_app.py`) | the task's attempt count, the row | execute, retry, clean-up, scheduled, research, sandbox | the engine, Postgres | late acknowledgement, redelivery, revoke, crash, retry, failure handler |
| Workflow engine (`modules/workflow/engine.py`) | graph state: messages, iteration, error, cancelled | agent node, tool nodes, routing | LLMs, tools, Redis | a cancel flag read between awaits, a step budget, an event before the store |
| Block agent loop (`modules/session/block_agent.py`) | transcript, three counters, verdict, `_stopping`, `_detached` | run, stop, detach, resume | the LLM, the session | stops at any await, budgets across turns, a transcript that outlives a run |
| Session: agents (`modules/session/router.py` 497-694) | `_agents`, `_agent_tasks` | start, refuse, stop, instruct, resume, clean-up | loops, client | replaced tasks still unwinding, done callbacks, cancellation |
| Session: requests (`router.py` 351-485, 698-775) | `_pending`, `_progress`, `_last_seen`, `_canvas_lock` | send, wait, resolve, note progress, fail all | client | answers, progress, expiry, cancellation and disconnect in any order; a receive loop that waits for itself |
| Session: voice relay (`router.py` 1033-1333) | `_audio_queue`, `_voice_active`, `_voice_task`, `_canvas_dirty` | start, stop, forward, stream, refresh | Gemini Live | three coroutines of which one may end alone, a queue that outlives a relay |
| Session: enrichment (`router.py` 812-863, `modules/session/enrichment.py`) | `_enrich_tasks` | stamp, generate, stream, cancel | block generators | results that arrive after the turn, cancellation |
| Canvas tools and context (`modules/session/canvas_tools.py`, `canvas_context.py`) | none | map calls to actions, render | - | many cases |
| Block generation (`modules/blocks`) | a small generation cache | draft, check, repair, envelope per block type | LLMs | bounded repair rounds, which draft is kept, directives |
| Entitlements (`core/entitlements.py`) | two Redis keys per user | resolve, cache, fall back | backend, Redis | stale answers, concurrent resolutions, outages |
| LLM routing (`core/llm.py`) | provider latch, pooled clients | text, JSON, tool turns | providers | which failures latch, when the latch lifts |
| Streaming (`modules/streaming`) | connections per execution | publish, fan out | Redis pub/sub, clients | lossy delivery, dead sockets |
| Agent runtime, coordinator, memory (`modules/agent`) | memory in Redis and Postgres | run, coordinate, load, save | LLMs | lost updates, partial failures |
| Scheduler (`modules/queue/scheduler.py`) | beat schedule | daily clean-up, poll of schedules | broker | a poll id that names no task row; queues without a worker |
| Rate limit, auth (`main.py`, `core/security.py`, `core/resilience.py`) | counters in Redis | count, verify, retry | Redis, backend | expiry set after the count |
| Research, sandbox, devices, MCP | none | forward to services | HTTP services | failures only |
| Workflow CRUD, persistence, configuration, prompts | tables, settings | CRUD | Postgres | nothing to check |

What makes each modelled component correct:

- *Executions.* A row that says "running" is attended by a delivery or a task of
  it vanished; deliveries come from a trigger, a retry request or the broker and
  from nothing else; a run that failed or was cancelled uses no tool; model calls
  are bounded; completion is announced before it is stored; every run ends.
- *Block agent.* What reaches the canvas respects policy and budgets; a stop
  allows no new model call; the verdict is the latest run's; the transcript
  answers every tool call; every run ends.
- *Session agents.* Only the registered agent speaks; a stop reaches every live
  run; the two maps agree; what was detached stays stopped; an agent that says it
  is running has a coroutine.
- *Client requests.* A timely answer is used; a client that goes on reporting is
  waited for up to the hard limit; every wait ends; no map entry leaks or is
  missed, and no caller of the session stays parked once the client has gone;
  edits exclude each other and runs do not hold the canvas.
- *Voice relay.* Voice that is on has one relay at work, the registered one;
  everything a stop puts in the queue is taken by the relay it was put for, unless
  that relay was cut short; no change of the canvas is lost on the way to Gemini.
- *Enrichment.* A block that was announced as a placeholder is settled once, as
  filled or as failed, whatever finishes first and whoever leaves; what the user
  said about a block reaches its port whatever the model answers; a status says
  whether there is content; background tasks end with the session.
- *LLM routing.* Only a rejected key sends a call to another vendor, and only for
  the cooldown; a caller pays for the rejection once per cooldown; a transcript
  written by both vendors is well formed for each.
- *Entitlements.* The caches say what the backend said last; a user who has paid
  is not refused on the word of a cache.
- *Agents of an execution.* A result is reported under the agent that produced it;
  the two stores of a memory agree.
- *Streaming.* A client hears the events of its execution in order and without
  holes, and stays registered while it stays.
- *Block generation.* A text reported as clean passed, itself, every check of its
  request; a clean repair keeps the module's name and ports; a revision is never
  shown an empty draft in place of the text it revises; a failure hands back what
  it was given; a block that sent its text is not blanked; the rounds are bounded.

## Modules

| Module | Models | Composed with |
|---|---|---|
| `ExecutionLifecycle` | endpoints, tasks, engine, broker and worker faults | - |
| `ExecutionLifecycleProofs` | its theorems | extends it |
| `BlockAgentLoop` | one loop object over its life | the session's part is three actions (`Stop`, `Detach`, `CancelTask`); implements `AgentLife` |
| `BlockAgentLoopProofs` | its theorems | extends it |
| `AgentSession` | `_agents`, `_agent_tasks`, loops, tasks, callbacks, clean-up | the loop's part is reduced to working, asking and ending; implements `AgentLife` for each loop |
| `AgentSessionProofs` | its theorems | extends it |
| `AgentLife` | what a loop object and its session take each other to do | abstract specification, for both |
| `ClientRequests` | the request map, its clocks, the lock, the receive loop | callers are agents that only make requests |
| `ClientRequestsProofs` | its theorems | extends it |
| `VoiceRelay` | `_voice_active`, `_voice_task`, `_audio_queue`, `_canvas_dirty`, the relay and its three coroutines | the receive loop is reduced to the messages that concern voice |
| `VoiceRelayProofs` | its theorems | extends it |
| `BlockGeneration` | the seven `POST /generate/...` handlers of `modules/blocks/router.py` that write or repair the text on a block | the desktop app is reduced to writing what it is handed |
| `BlockGenerationProofs` | its theorems | extends it |
| `Enrichers` | which keys of a `create_block` action reach which port, and with which status, for every type of `modules/session/enrichment.py` and the scaffolder it calls (`blocks/router.py`) | pure operators |
| `Enrichment` | turns, placeholders, the streaming tasks and their generators, agents that fill their block first, clean-up | uses `Enrichers`; implements `Placeholders` |
| `EnrichmentProofs` | its theorems, and that it implements the safe part of `Placeholders` | extends it |
| `Placeholders` | what the session promises its client about created blocks | abstract specification |
| `LlmRouting` | `core/llm.py`: providers, the latch, the fallback, both wire formats, and the steps of a block agent that use them | - |
| `Entitlements` | `core/entitlements.py` for one user, pressed for in several sessions | `AgentSession` has only the answer of the gate |
| `AgentTeam` | `modules/agent`: coordinator, runs, the two stores of the memory | - |
| `Streaming` | `modules/streaming` and the socket endpoint of `workflow/router.py` | events are those that `ExecutionLifecycle` publishes |
| `MCServices` | one instance of `Enrichment`, `LlmRouting`, `Entitlements`, `AgentTeam`, `Streaming` side by side | `focus` says which of them moves |
| `ServicesProofs` | theorems of `LlmRouting`, `Entitlements`, `AgentTeam`, `Streaming` and of the composition | extends `MCServices` and `EnrichmentProofs` |
| `MC...` | finite instances for TLC | extend their module |

**Grain.** The service runs on asyncio, so an action is what one coroutine does
between two awaits; across processes it is one committed database statement, one
Redis command or one broker message. Code that runs without an await is one
action.

**ExecutionLifecycle.** `status`, `taskId`, `retries`, `startedAt` are columns of
`executions`; `flag` is the Redis key; `trigger` and `cancel` say where a request
stands; `queue`, `revoking`, `revoked` are the broker and what workers know to be
revoked; `pc`, `task`, `run` are the worker slots with the graph state that
routing depends on (`steps`, `error`, `cancelled`). `Retry` republishes the task
under its own id, `GiveUp` is what `retry()` does when the attempts are used up:
it re-raises, and `on_failure` runs `MarkFailed`. `WorkerCrash`, `ChildLost`,
`Redeliver`, `RevokeDelivered`, `RevokeLost` and `Discard` are Celery's and
Redis's, modelled from the options `core/celery_app.py` and `cancel_execution`
set (late acknowledgement, terminate with SIGTERM). `events`, `lost`, `copies`
are history variables. The code reports failures of the graph in the state and
failures of the infrastructure as exceptions; `Raises` may happen at any await of
the run.

**BlockAgentLoop.** `pc` is the await at which `run` stands; a stop sets a flag
that only `HonourStop` reads, at the top of the loop. The policy's tools are
reduced to the kinds that `_deny` and `_is_expensive` tell apart. `sent` and
`changed` record what reached the canvas for the current instruction, apart from
the loop's own counters, so that the budgets are checked against effects.
`unanswered` counts tool calls in the transcript without a result. Cancellation
before the `try` block leaves the state "running" (`CancelTask`).

**AgentSession.** `agents` and `tasks` are the two dictionaries (0: no entry),
`loops` and `runs` the objects in creation order. `handler` is the receive loop:
while it waits 2 seconds for a task it handles no other message, but loops,
callbacks and plan changes go on. `Callback` is the lambda of
`add_done_callback`, which pops by block id. A press that is refused changes
nothing in the maps (the gate returns first), so it is no action of its own, and
the plan of the account, which may change at any time, is no variable.

**ClientRequests.** A request record holds the future, the event and the clocks.
`Tick` lets time pass only when no coroutine can go on: timeouts of seconds
against callbacks of microseconds. One tick is about the idle window of an edit;
the constants keep what matters, which clock is the nearer one for each kind. A
slow send is a tick in "sending". `reader = "turn"` is the receive loop inside
`_run_text_turn`. Three fields of a request are history that no step reads:
`reply` (when the client answered: "early" while the frame was still being sent,
"timely" while both clocks ran, "late" after one had run out), `quiet` (the ticks
since it last reported in time) and `orphan` (made after the session had ended).

**VoiceRelay.** `relays` holds every relay task started in the session, with the
await it is at (`at`) and the places of its three coroutines (`fwd` the
microphone, `str` the answers, `ref` the refresher). `asyncio.gather` raises the
first exception and leaves the other coroutines running without a connection, so
they outlive their relay and share queue, event and `_last_voice_context` with
the next one; only a cancelled relay takes its coroutines along. `Woken` is
`Event.set`, which wakes a waiter even if the event is cleared before it runs.
`handler` is the receive loop: a stop occupies it until the relay has ended, at
once or cancelled after 3 seconds (`StopTimesOut`; by then the task has at least
begun). A text message changes the canvas without setting the event, as the code
does. `announced`, `short` and `missed` are history. What is done with one
response of Gemini (reads, audio, actions) is one step between two awaits.

**BlockGeneration.** The handlers share one shape (draft, check, send back with
the faults, hand back with a verdict) and differ in how many rounds they pay for,
which text the next round is shown, what they check and what they do about an
empty answer. Each is one record of these decisions (`WriteCode`, `RepairCode`,
...), and `Ask`, `Repair`, `Conclude` and `CallFails` are the loop. `code` and
`code_hdl` choose between writing and repairing by what the request carries
(`CodeGenerator`, `DesignGenerator`). A text is a model value known by what the
checks see of it: whether its kind's validator passes it (`Sound`) or warns
(`Doubtful`), whether it is cut off (`Whole`), the module it declares last and
its ports, and the instructions it honours (`Meets`; for a specification it
stands for the document and its ports together). The verdict is the block's
status port; a code block has none, and its verdict is whether the description
carries a "Validation:" note. VHDL is always left for review, and a repair of it
is held to the Verilog check (`hdl.py:208` wants `endmodule`). The app is not
in the repository: it writes the port it is handed, loses a reply, and its user
types on the port at any time, also while a request is out.

**Enrichers.** A port's content is reduced to where it came from: a key of the
action ("said"), the description, the name, a default, or a default put over a
said value ("reset"). `Scaffold` is `generate_scaffold_payload` (seeds, then the
description, then the defaults); `Outcome` is the registry and the dispatcher that
turns an exception into "failed". A reply is content, less than was asked,
nothing, no key, a `ValueError` or another exception. `Heard` is what
`function_call_to_action` copies of a tool call; the JSON of a chat turn is taken
whole. `Promised` is what the tool declarations and the chat prompt say a key
does, written down apart from the enrichers so that the two can be compared.

**Enrichment.** `turn` holds a chat turn, a voice turn or a block agent's action
and how far its streaming task is; `work` is a block's generator, a task of its
own that no cancellation reaches; `tracked` is `_enrich_tasks`; `phase` is the
receive loop and then the steps of `cleanup`. The receive loop is inside a chat
turn until its task is spawned (`InChatTurn`), which is why only the voice relay,
cancelled last, can be cut off between its placeholders and its task (`"lost"`)
or spawn a task while the others are being cancelled. An agent creates its block
whole, after filling it, and does not look at the status. The refinement: `shown`
is the client's view, a lost turn's placeholders are `abandoned`, and
`PlaceholdersAreSettled` is the abstract specification with its fairness.

**LlmRouting.** `latch` is `_anthropic_disabled_until`, `call` the one call a
coroutine has in flight, with the time it began; `paid` (history) when its calls
were rejected. A block agent's `talk` is its transcript: entries carry the turn
they belong to, so that `ToAnthropicMessages` and `ToOpenaiMessages`, folds over
it, can be held to the vendors' rules. A turn that ends with finish joins the
transcript without results, as the code has it (`TranscriptIsAnswered`), and is
excluded from `WireIsWellFormed` by `Complete`. `run.told` is the announcement of
another model, which only the first step of a run makes.

**Entitlements.** `cached` holds the hot and the last-known-good entry with the
number of the answer they came from; `press` is one press of the Agent button on
its way through `get_entitlements`, a second look straight past the cache when the
first says no, and the look for the log alone when the gate is switched off
(`look = 3`). Reads and writes of Redis fail one by one; `raced` and `failed` are
history.

**AgentTeam.** A run is a sub-task of the coordinator or one requested alone. Its
memory is read at the start and, once it has an output, read again and written to
Redis and then to the database by a select and an insert or update in one session
(`Selects`, `Commits`), in a table that does not forbid two rows of one agent
(`persistence/models.py:169`). What is remembered is named after the run that
wrote it. `overlapped` and `mishap` are history.

**Streaming.** `buffer` is what Redis has pushed to the listener; `fanout` is
`send_to_execution`, with the snapshot of sockets it goes through one await at a
time. `Without` is `disconnect`, called by the endpoint and by the fan-out, for
the same socket if it comes to that. `unheard` records what was published while
there was no subscription, or lost with it.

## Runs

| Run | Bounds | Shows |
|---|---|---|
| `Lifecycle` | 1 execution, 2 workers, 2 steps, 1 Celery retry, 1 fault, a cancel or a retry request; a retried execution that also meets a fault has one worker at a time (`Within`) | safety under every order of the request, a fault, a retry and a repeated delivery; deliveries accounted for; every run ends |
| `AgentLoop` | 2 steps, 2 runs, 1 paid run, up to 3 calls in a turn, 2 instructions, every policy | budgets, policy, verdict, stops, termination, the loop's side of `AgentLife` |
| `SessionAgents` | 2 blocks, 2 loops, 3 tasks | the maps, the speaker, resumes against restarts, stop-all and disconnect across blocks, the session's side of `AgentLife` for one loop |
| `RequestsKept` | 2 agents and a text turn, 2 requests, 1 frame in flight, 1 cancellation | maps, nobody left parked, lock |
| `RequestsEnd` | 2 agents, 2 requests | waits end, timely answers are used, reports are heeded |
| `Voice` | 2 relays, 1 chunk of audio in the queue, 2 changes of the canvas | one relay at a time, markers, refreshes |
| `Generation` | one block of each kind, 5 texts and the empty one, 1 instruction, 2 names, every round | verdicts, frozen interfaces, blanking, termination of all nine generators |
| `Services` | filling: 2 blocks and 2 turns of chat, voice or an agent, one block of every type with none, one or all of its keys and every reply; routing: 2 callers, one a block agent, a cooldown of 2 in 2 ticks, a key that changes at either, 5 entries of transcript; access: 2 presses in order, 3 answers, 1 change of plan; agents: 2 sub-tasks of 2 agents or an unknown one, 1 run of one of them alone; streaming: 3 sockets of 2 executions, 3 events, 1 lost subscription | outcomes and placeholders of created blocks, routing and wires, caches, attribution and memory, order and completeness of streams |
| `TerminalIsFinal`, `TranscriptIsAnswered`, `SecondPressReplaces`, `TurnReadIsAnswered` | smallest that show it | what a comment says and the code does not do |

*Why these bounds are enough to mean something.* Executions share nothing but
workers, so one execution with two workers shows every interference of a
duplicate delivery; a second fault or retry repeats a situation already reached.
Two steps make the budget bind after a tool, three calls in a turn put a denial
between two others. Two loops and three tasks let one object have two overlapping
runs, or be replaced and have its old task's callback run late; the third task is
a resume on top. Two agents are what the canvas lock and the maps can confuse,
and a turn is the third caller. Two relays are one that leaves something behind
and one that meets it; a second change of the canvas is one that arrives while
the first is being told. A generator serves one request at a time and
requests share only the text on the port, so one block of each kind suffices; the
five texts are two sound designs that differ in their ports, one of another name,
one whose header cannot be read and that ignores the instruction, and one cut
off, so that every check has a text that only it rejects. In `Services` the parts share no state, so exploring one at a time (`focus`) loses
no behaviour of any. The large menu of requests is explored with its block alone
and a client that stays (`LargeAlone`), since what a generator writes depends on
its block only; the order of turns, results, cancellations and departures is
explored with blocks of two types, one fillable and one not, and turns taken in
order (`InOrder`). `FewModels` keeps one of several models that are routed alike
and lets the key change at two ticks; two ticks are one cooldown, in which a caller is
rejected as it begins and again as it ends, and another caller's call, begun before, in
between; transcripts of three entries hold a turn of
one vendor, its results and the next instruction, those of five a turn with two
calls. Two presses are two resolutions that overlap (they are alike and come in order,
`PressesInOrder`, as agents are alike and one of them is asked alone, `SingleAlone`), three answers a first and a
second look and another session's. Two sockets of one execution are one that
leaves during the fan-out to the other; `FewElsewhere` keeps the socket of the
other execution from moving. All counters are bounded in guards
(`MaxFaults`, `MaxCancels`, `MaxRetryRequests`, `MaxInstructions`, `MaxLoops`,
`MaxRuns`, `MaxRequests`, `MaxTurns`, `MaxInbox`, `MaxRelays`, `MaxAudio`,
`MaxEdits`, `MaxTime`, `MaxAnswers`, `MaxChanges`, `MaxSubTasks`, `MaxEvents`,
`MaxDrops`). Deadlock checking is off: every
system here really may stop, with its requests served and nothing sent to it.

**Fairness.** `Lifecycle`: weak fairness of each worker's steps. A worker
that is up takes messages and its awaits return, since HTTP clients, LLM SDKs and
the sandbox have timeouts; requests, clean-up and faults are not fair. `AgentLoop`:
weak fairness of the coroutine's steps; the provider client and the round trips
have timeouts. The session's stop is not fair. `RequestsEnd`: weak fairness of
each caller's coroutine, of the receive loop and of time. `Generation`: weak
fairness of the model's answer, whatever it is: the provider's client returns or
raises within its timeout. Requests, edits and the app are not fair. `Services`:
weak fairness of every turn's coroutine (spawn, start, end, unwind) and of every
block's generator and its message to the client, in `Enrichment` only; turns,
clean-up, departures and cancellations are not fair. The abstract `Placeholders`
asks for weak fairness of settling each block, which is then implied.

**Properties that name several hazards at once.** Some runs check a conjunction of
properties that are also stated, and proved, one by one: `RunsAreContained`
(`StoppedRunsNoTool`, `StepsBounded`), `SpendsAsAllowed` (`RunBudgetsHold`,
`PolicyHolds`), `RegistrationsMatch` (`TaskRunsAgent`, `RunningHasRun`),
`StopsAreFinal` (`NoRunBeyondStop`, `DetachedStaysStopped`), `EntriesAreSound`
(`EntriesHaveCaller`, `NoKeyError`, `AnswerIsKept`, `NobodyIsParked`), `LockGuardsEdits`
(`EditsExclusive`, `RunsFreeTheCanvas`), `RepairsFit` (`RepairSeesText`,
`InterfaceKept`, `BlanksOnly`), `OutcomesAreHonest` (`OkMeansContent`, `SaidIsKept`),
`RoutingIsHonest` (`OnlyRejectionsReroute`, `PaysOncePerCooldown`,
`FallbackIsTold`), `EntitlementIsCurrent` (`CachesFollowAnswers`,
`PaymentIsHonoured`), `HistoryIsSound` (`VerdictIsFinal`,
`FirstRunIsAnswered`), `ResultsAreKept` (`ResultsAttributed`, `MemoryAgrees`). `NoTurnAfterStop` is proved and not run.

## Proofs

TLAPS proves, for every value of the constants that satisfies the modules'
assumptions (`ConstantsAssumption`, `LoopConstants`, `SessionConstants`,
`RequestConstants`, `VoiceConstants`, `TextsAssumption`, `EnrichmentAssumption`,
`RoutingAssumption`, `EntitlementsAssumption`, `TeamAssumption`,
`StreamingAssumption`: bounds are natural numbers, markers are not what they mark,
timeouts are positive):

- `ExecutionLifecycleProofs`: `TypeCorrect`, `NoToolAfterStop`, `CallsBounded`,
  `RunsContained`, `RunningAttended`, `CompletionAnnounced`, `DeliveriesBounded`.
- `BlockAgentLoopProofs`: `TypeCorrect`, `RunBudgets`, `PolicyRespected`,
  `SpendingAllowed`, `VerdictFinal`, `FirstRunAnswered`, `HistorySound`,
  `StopEndsTurns`, and `LifeKept`:
  the loop implements `AgentLife`.
- `AgentSessionProofs`: `TypeCorrect`, `CurrentSpeaks`, `RegistrationsHold`,
  `StopsFinal`, and `EveryLoopLives`: the session implements `AgentLife` for each of its
  loops; for any blocks and any number of loops and runs.
- `ClientRequestsProofs`: `TypeCorrect`, `EntriesSound`, `LockGuards`, and,
  while no text turn occupies the receive loop, `TimelyUsed` and the action property
  `ReportsHeeded`, for any agents and timeouts.
- `VoiceRelayProofs`: `TypeCorrect`, `OneRelay`, `MarkersTaken`, `ContextFresh`.
- `BlockGenerationProofs`: `TypeCorrect`, `OkEarned`, `FailureNeutral`,
  `RepairShownText`, `RepairKeepsInterface`, `RepairsAreFit`, `OnlyTheseBlank`, for any texts,
  instructions, validators and port lists.
- `EnrichmentProofs`: `TypeCorrect`, `OnlyVoice`, `HonestOutcomes`, `PromiseIsKept` (the
  safe part of the refinement of `Placeholders`), for any blocks, turns and requests.
- `ServicesProofs`: `AccessTyped` and `CurrentEntitlement`, for any number of presses,
  answers and changes of the plan; `RoutingHonest`, for any callers and cooldown, and `WireSound`, for transcripts of any
  length;
  `ResultsOwned`, `MemoryKept` and `ResultsKept`, for any agents and sub-tasks; `StreamFaithful`, for
  any sockets, executions and events; and, of the composition, `ServicesTyped` and
  `ServicesKeepPromises`.

*Lifecycle.* `TypeOK` is inductive. `StoppedRunsNoTool` needs that only
`ShouldContinue` enters the tool node and that it looks at the very record that
is stored; `StepsBounded` needs that every model call starts below the limit,
that is, that "llm" is entered from "tool" only with fewer steps. The heart is
`RunningIsAttended`: the step that ends a worker's attendance without writing a
terminal status either publishes the task again (`Retry`, `WorkerCrash`) or sets
`lost`, and the proof goes action by action through which workers still attend.
`CompleteWasAnnounced` is inductive together with: a worker at "store" whose
outcome is "complete" has published the completion event. `DeliveriesAccounted` is
an inequality between cardinalities, inductive once the sets are known to be finite
(`AccountInv`). Every action either leaves an execution's deliveries be (`Kept`), moves
one from the queue to a worker (`Taken`) or back (`PutBack`), or adds one for which a
trigger, a request or a copy pays (`Added`); one lemma each says that the inequality
survives.

*Agent loop.* The invariant is `IInv`: flags (the type part), numbers, and the
policy. The numbers carry the strengthening: `sent` never exceeds `runs`, and
paid own runs never exceed `expensive`, since both are charged before sending and
reset only together with `sent`; in the first run `unanswered` equals the results
gathered plus the calls still to be dispatched (plus the one being waited for),
and is zero at the top of the loop. `StopEndsTurns` is an action property from
the guards of `CallModel`.

*Session agents.* The three properties carry each other. `AgentsSound` adds that the
loop registered for a block is a loop of that block and not detached, and
`CancelledAreDropped` that only runs of loops that are no longer registered are
cancelled, which rests on `HandlerSound`: what the receive loop waits for between two
awaits, and cancels when 2 seconds have passed, is a run of an agent it has dropped
before it began to wait. Without it a cancellation could leave a registered agent
"running" with nobody behind it. `DetachLoop` and `Cancel` are shown once to change
their flags and nothing else.

*The loop and its session.* `BlockAgentLoop` has one coroutine and a session of three
actions; `AgentSession` has many loops, each with any number of tasks, and a loop of
four places. What each leaves out of the other is written once, in `AgentLife`: a loop
is given work only while its session holds it and it is not running; it is dropped for
good, and told to stop then; only a dropped loop loses a coroutine; a coroutine begins
by saying "running" and does not leave that behind once it works; it says "stopped"
only when it was told to stop, or was cut off. `LifeKept` maps the places of the
coroutine (`Stage`) and needs of `IInv` only that a loop without an instruction is away.
`EveryLoopLives` maps, for each loop, its tasks to the crew (`Crew`): `Stutters`,
`Drops`, `IsCalled` and `WorksOn` say what a step of `AgentLife` looks like in the
session's variables, and each action is one of these for the loop it is about and a
stutter for the others, those not built yet included. The invariant enters at two
places: a task is cancelled only when its loop is dropped (`CancelledAreDropped`, which
rests on what the receive loop carries between two awaits), and a loop is held exactly
while it is registered for its block (`AgentsSound`). Two tasks on one loop, which two
instructions in a row can start, are within the contract, and so is the loop that a
task cancelled at its first report leaves "running".

*Client requests.* `CallersSound`: a caller that sends or waits has exactly one open
request, of the kind it makes, so that `Current` means something; `LockSound`: the
lock is held by a caller exactly when it needs it (`NeedsLock`), from which both parts
of `LockGuardsEdits` follow; `UnansweredAreKept`: an open request without an answer is
in both maps, so a pass of `_await_client` finds its clock, and the clean-up, which
resolves what is in the maps, finds every future somebody is parked on; it is open
after the session's end only if it was asked for after it (`NobodyIsParked`).
`TimelyUsed` and `ReportsHeeded` are proved for `MaxTurns = 0`, as the run checks them:
a text turn inside the receive loop does keep frames from being read
(`TurnReadIsAnswered` below). `CallerStepsQuietly` says once what a caller's step does
to the requests: it makes one, parks its own again, or ends it in one of five ways. For
the first, an answer that came while both clocks ran stands in the inbox until it is
handed over, with clocks that have still not run out (`AnswersOnTheWay`), since time
does not pass while the inbox holds a frame; so no recheck finds them run out, and a
caller that waited when it was answered can only end with that answer, the end of the
session or its own cancellation (`AnswersUsed`). For the second, `HeardInv`: the server
counts a longer silence than the client only while a report stands in the inbox and
the window is still open, and the entry that the report refreshes is there. When a
window has run out, the client's own count (`quiet`) has therefore run out too.

*Voice relay.* `VoiceHasOneRelay` is not inductive: a start must know that no
relay is left at work when voice is off, and a cancelled relay must not be the one
that voice counts on. `Attended` adds both, with what they rest on: voice is on
only while the receive loop is free or starting a relay, and a relay at work is
cancelled only while a stop or the clean-up waits for it. `ContextsExist` (no
message carries a context newer than the canvas) is what `TypeOK` needs for
`noted`. Coroutines change neither a relay's place nor its cancellation
(`CoroutineRecord`), so their steps are dealt with together. For markers and contexts
`FlowInv` adds that a relay which was not cut short is neither cancelled nor failing and
ends only after its forwarder (`Orderly`), that while none was cut short the only marker in
the queue is its last entry, there while a stop waits and its relay has not taken it
(`MarkerIsLast`). A refresher
whose predecessors are gone carries or knows what was last noted, and at rest knows what
was announced (`RefreshersInformed`); one that waits belongs to voice that is on
(`WaitersAreActive`).

*Block generation.* The invariant is `IInv`: `TypeOK`, the state properties the
run checks, and three strengthenings. `StubFits`: only a testbench
block uses the generator whose stub is empty. `RepairIsClean`: the text of a clean repair has
no `RepairFault` against the design of its own request, which is what
`InterfaceKept` needs once the app writes it. `EmptyReply`: an empty reply to a
request that carried a text comes from one of the generators in `Blanking`.
`GeneratorFacts` settles once which decisions each of the nine records makes, so
that the steps compare records by name only there.

*Enrichment.* `TurnsSound` says where a turn may be: agents stream at once, a chat
turn is being sent only while the receive loop is open, and a task is tracked
exactly while it fills something for a turn, until clean-up cancels; from then on
what fills is of the voice relay. `BlocksSound` says that nothing of a block is seen
or done before a turn owns it, that it is generated only in a turn that streams or
did, and that to a client that stays a fillable block of a turn is a placeholder until
its result is taken, and an agent's is not there. With both, each step maps: a turn or
an agent's result to `Appear`, a streamed result to `SettlesAs`, a cancelled relay to
`CutOff`, a departure to `Leave`, everything else, and everything after the client
has gone, to a stutter. `HonestOutcomes` is a case analysis over the kinds of blocks:
the seeds of a type fill the ports that the declarations promise for it (`SeedsFill`,
`RecipeHears`), and each kind of enricher keeps what they filled, whatever was replied,
unless the case is one of `MayBeLost` (`OutcomeKeeps`); the invariant only adds that a
finished block has been replied to (`Replied`).

*Routing.* `LatchSound`: the latch is the cooldown of the latest rejection. A call is
with Claude only if it began outside of every cooldown of its caller (`CallSound`), so
its own rejections are a cooldown apart whichever others fall in between. `RunSound`
follows a run of a block agent: until its first answer it is at its first step; while
Claude answers it, no rejection is on its cooldown but those since the run began; and so
whatever takes a run from Claude to OpenAI is a rejection since it began. `Fresh`
says what a call may look like as it begins.

*The wire.* `TalkInv`: every entry of a transcript is an instruction, a turn at its own
place, or a result as far after its turn as its call's number, with the results of the
earlier calls between (`TalkEntry`), although a run may end in the middle of a turn.
`Carried` is the invariant of the loop in `_to_anthropic_messages`: what is out already
answers itself, message by message, and the results that wait are the first of the last
turn's. `ResultCarried` and `TurnCarried` show that an entry keeps it, of which the
second needs that the turn before was answered in full (`Complete`). That it holds after
any number of entries goes by `NatBySteps`, induction as a statement about a set of
naturals, from its least element; that `Translation` is defined at every length goes the
same way (`Unrolls`). OpenAI's wire is an image of the transcript, one message for an
entry, and needs `TalkInv` only.

*Entitlements.* `CachesFollowAnswers` and `PaymentIsHonoured` are not inductive.
`CachesOnTheirWay` adds that, while nothing overlapped or failed, at most one press is
between its answer and its second write, with the latest answer in hand, and that an
entry which is not about to be written holds that answer. `Honest` adds what a press
knows on its way: what it is storing came from the backend, says yes to a user who has
paid, and a second look never decides by the hot entry.

*Agents of an execution.* `RunsSound`: each sub-task of a known agent becomes one run
of that agent, and what the coordinator reports at the end is the pairing of
`Labelled`. That the n-th run carries the n-th name, as long as no sub-task before it
is an unknown agent's, is a fact about `Assigned`, proved with a least counterexample (a
least element of a set of naturals is a theorem of the library, where its induction
theorems cannot be used). `AgentSound` says, of an agent that neither overlapped nor failed, what
its two stores hold at each await of its single run: they agree up to the write to
Redis, and between the two writes the run that writes knows whether there is a row.

*Streaming.* Three orders are kept apart: what neither waits in the buffer nor was lost
precedes all that waits (`BufferSound`); the event being handed out is the latest of
those (`FanoutSound`); and what a socket received is in order, and before all that
it may still get (`ReceivedSound`). `SocketSound` adds that an open socket is
registered, and that what came since its first event and was heard has reached it or is
coming to it (`Coming`).

*Composition.* Each step of `MCNext`, whatever `focus` and the bounds on it, is a step of
one part and a stutter of the others (`PartsStep`), so a behaviour of `MCServices` is a
behaviour of each part (`PartsKeepTheirSpecs`), and what is proved of a part is proved
there: the bounds that keep TLC within its time do not enter the proofs.

**Only model-checked:** liveness (`RunningEnds`, `RunEnds`, `WaitEnds`,
`RequestEnds`, the fairness of `PlaceholdersAreSettled`), which the prover does not
handle. `FirstLivesAsAgreed` is the first loop's part of what is proved of every loop:
loops are built alike, one after the other, and checking all of them at once takes
TLC longer than a run may last.

## Where the code differs from what it says

Four runs end in a counterexample (see `findings` in `PROJECT.json`):

1. `TerminalIsFinal`: the trigger endpoint writes "pending" again after the task
   was enqueued and may overwrite a finished row.
2. `TranscriptIsAnswered`: `_loop` returns at `finish` with the turn's calls already in
   the transcript and no result for `finish`, so a turn that calls it, even alone (the
   run's trace), leaves an unanswered call in what a resumed agent sends; beside other
   calls it drops their results as well.
3. `SecondPressReplaces`, with presses alone and no agent instructed: the second press
   cancels the first agent's run after 2 seconds, that run's done callback comes late
   and unregisters the second agent's task, and the third press then neither waits for
   nor cancels the second agent's run.
4. `TurnReadIsAnswered`: a text turn's port read waits for a frame that the
   receive loop, which runs the turn, cannot receive.

Seen while modelling, without a run of their own: a cancelled run is announced as
cancelled and stored as failed (`engine.py:386`, `tasks.py:107`); a retried
execution runs under a task id that is not stored, so cancelling revokes nothing
(`tasks.py:262`); the clean-up says "never started" of rows that ran
(`tasks.py:238`); `_deny` does not check the mutate, wire and create switches
that the tool declarations leave out (`block_agent.py:597`); the loop's state is
set by its task, so two instructions in a row may start two runs of one loop
(`session/router.py:654`); the beat schedule sends `__poll__`, which
`run_scheduled_workflow` looks up as a task row (`queue/scheduler.py:21`); a
refused press keeps the previous agent registered, and a typed message resumes it
(`session/router.py:510`); an answer to a question that has just timed out becomes a
new instruction (`session/router.py:638`); a scheduled workflow runs under an
execution id that no row has, so none of its status writes changes anything
(`queue/tasks.py:203`).

Seen in the parts of `MCServices`, each left out of a property by a condition that
the property names:

- `OutcomesAreHonest`: `enrichment.py:27` says of a status that "ok" means "content
  produced or nothing to do", but an empty reply to a code, HDL, code fix,
  post-silicon or testbench block is "ok" as well (`OkMeansContent`);
  `blocks/router.py:2742` says that the scaffold keeps "their own language on the
  port", but the HDL and post-silicon enrichers reset the language after any
  `ValueError` (`enrichment.py:474`, `:552`); the word size that the declarations promise for
  a memory compiler reaches no port (`MayBeLost`); the apps that were said for a
  claw block are dropped when others are drafted without connections; a testbench
  has no handler of `ValueError` and is left without ports.
- `OnlyVoiceOutlives`: `session/router.py:176` says that enrichment tasks "don't
  outlive the session", but a voice turn that completes while the others are being
  cancelled spawns another, and generators go on in any case.
- `CachesFollowAnswers`: `entitlements.py:12` says that "a stale yes must never
  outlive a real no", but two overlapping resolutions, or a failed write of the second
  key, leave one (`raced`, `failed`).
- `FallbackIsTold`: `block_agent.py:475` says "The fallback is fine; being unable to
  tell it happened is not", but only the first step of a run announces the model.
- `ResultsAttributed`: the coordinator pairs results with sub-tasks by position
  (`coordinator.py:61`), so after a sub-task of an unknown agent every result is
  reported under its predecessor's name; the decomposition is asked for as a list,
  in a mode that only allows an object.
- `MemoryAgrees`: `clear` deletes the key in Redis only (`memory.py:54`), the endpoint
  says "cleared", and the next load finds the row; two first runs of one agent insert
  two rows, after which the database is no memory at all (`scalar_one_or_none`
  raises); a failed write of the memory discards the output of its run; a runtime
  error is gathered as an empty output.
- A key that is rejected inside a LangChain model never latches (`ChainRejected`).

Seen in the requests to the client: `_await_client` looks at its idle clock before it
looks at the future, so after a send that took the whole idle window it replies "The app
did not respond ..." although the app's answer may already be in the future
(`session/router.py:428`). The silence began with the request, not with its arrival.
Such a caller ends as "stalled"; `TimelyAnswerIsUsed` promises nothing of it but that
its answer was given "early", that is before the wait began, and `ReportsAreHeeded`
that the app had not reported within the window either.

Seen in the voice relay: a relay that is cancelled while it connects, or whose
forwarder failed, leaves the end marker of its stop in the queue ("signal relay to
exit", `session/router.py:1054`), and the next relay's forwarder exits on it: voice
is on and deaf (the state is excluded from `MarkersAreTaken` by `short`). The
refresher of a failed relay stays about, and may take a change of the canvas from
its successor by noting the context before it fails to send it (excluded from
`ContextIsFresh`). A text message's canvas does not reach a live voice session
until the next `canvas_update` (`session/router.py:266`).

Seen in `modules/blocks` while modelling: the interface of a `code_hdl` repair is
meant to be read from the design "rather than from the (possibly stale) port"
(`router.py:1884`), but a non-empty `top` port wins, so a stale one demands a
renaming and leaves no ports to compare (the premise `job.top = Module[port]` of
`InterfaceKept`); a code repair, a testbench and a new `code_hdl` design may hand
back an empty text for a block that had one (`Blanking`); the comment "the draft
before it is worth more than nothing" (`router.py:2801`) stands over code that
returns the request's text, not the draft before; `code_prompt_section` says that
`[create_code]` takes feedback as requirement text (`router.py:521`), but the
message built for it receives none; a repaired VHDL design has no `endmodule` for
the check to find (`hdl.py:208`), so every VHDL repair uses up its rounds.

## Not modelled, and why

- *Research, sandbox, devices, MCP*: one HTTP call or a sequence of them without
  shared state; their failure is one outcome of `ToolReturns`.
- *Scheduler, workflow CRUD, persistence*: what an execution needs of them is in
  `ExecutionLifecycle`; the rest is tables and statements.
- *The rate limit* (`main.py:140`): one counter with two commands. A failure between
  them leaves a counter that never expires; nothing else interacts with it.
- *Token checks, retry helper, configuration, prompts, logging*: no state.
- *The text of things*: what prompts say, how a canvas is rendered
  (`canvas_context.py`), how instructions are found in prose (`blocks/directives.py`)
  and modules in HDL (`blocks/hdl.py`). `BlockGeneration` takes the verdicts of these
  functions as constants about texts.
- *One-call generators of* `modules/blocks` (topics, images, merge, filter, fixes):
  a reply or a failure, which is how `Enrichers` sees them; and the small cache of
  generated tools.

## Plan

*Done:* all modules above; every safety property the runs check is a theorem, and so
are the two refinements of `AgentLife` and the safe part of the one of `Placeholders`.

What is left:

1. A run for the deaf relay and one for the stale `top` port, when runs that show
   the same shape of fault are traded for them.
2. An abstract execution (pending, running, one terminal status) that
   `ExecutionLifecycle` implements when the late write of the trigger is left out
   of account.
