----------------------------- MODULE AgentTeam -----------------------------
(***************************************************************************)
(* The agents of one execution: a coordinator splits a task, runs the      *)
(* agents of its sub-tasks at once, and gathers their results; agents are  *)
(* also run alone.  Each run reads its agent's memory when it starts and   *)
(* writes it when it ends: in Redis for a day, and in a row of the         *)
(* database, whose table does not keep two rows of one agent apart.        *)
(***************************************************************************)
EXTENDS Naturals, Sequences, FiniteSets, SequencesExt

CONSTANTS
    Agents,         \* the agents of the configuration
    Stranger,       \* an agent_id the decomposition invents
    Nothing,        \* no memory, no key
    MaxSubTasks,
    Alone           \* the runs requested one by one

ASSUME TeamAssumption ==
    /\ Stranger \notin Agents /\ MaxSubTasks \in Nat
    /\ Alone \cap Nat = {} /\ Nothing \notin Alone \cup Nat

(* A run of an agent: a sub-task, by its place in the decomposition, or    *)
(* one requested alone.  What a run remembers is named after it. *)
Runs == 1..MaxSubTasks \cup Alone

VARIABLES
    coordinator,    \* how far the multi-agent request is
    subTasks,       \* the agent_id of each sub-task
    outputs,        \* the agent named for each result that was gathered
    agentOf,        \* the agent of a run
    at,             \* how far a run is
    result,         \* what the run returned
    redis,          \* Redis answers
    cache,          \* the memory of an agent in Redis
    rows,           \* the memories of an agent in the database
    overlapped,     \* history: agents of which two runs were at work at once
    mishap          \* history: agents with a write that failed, or with a
                    \* memory that was cleared

teamVars == <<coordinator, subTasks, outputs, agentOf, at, result, redis, cache, rows,
              overlapped, mishap>>

RunSteps == {"none", "load", "act", "reload", "setex", "select", "insert", "update", "ended"}

Results == {"none", "output", "error", "raised"}

TeamTypeOK ==
    /\ coordinator \in {"idle", "running", "done", "failed"}
    /\ subTasks \in Seq(Agents \cup {Stranger}) /\ Len(subTasks) <= MaxSubTasks
    /\ outputs \in Seq([names : Agents \cup {Stranger}, run : Runs])
    /\ agentOf \in [Runs -> Agents \cup {Nothing}]
    /\ at \in [Runs -> RunSteps]
    /\ result \in [Runs -> Results]
    /\ redis \in BOOLEAN
    /\ cache \in [Agents -> Runs \cup {Nothing}]
    /\ rows \in [Agents -> Seq(Runs)]
    /\ overlapped \subseteq Agents /\ mishap \subseteq Agents

TeamInit ==
    /\ coordinator = "idle"
    /\ subTasks = <<>>
    /\ outputs = <<>>
    /\ agentOf = [r \in Runs |-> Nothing]
    /\ at = [r \in Runs |-> "none"]
    /\ result = [r \in Runs |-> "none"]
    /\ redis = TRUE
    /\ cache = [a \in Agents |-> Nothing]
    /\ rows = [a \in Agents |-> <<>>]
    /\ overlapped = {} /\ mishap = {}

memory == <<redis, cache, rows>>

AtWork(a) == {r \in Runs : agentOf[r] = a /\ at[r] \notin {"none", "ended"}}

(* Runs begin, each of the agent that the function names; those of one     *)
(* agent that are at work together overlap. *)
Begin(agentFor) ==
    LET begun == DOMAIN agentFor IN
    /\ agentOf' = [r \in Runs |-> IF r \in begun THEN agentFor[r] ELSE agentOf[r]]
    /\ at' = [r \in Runs |-> IF r \in begun THEN "load" ELSE at[r]]
    /\ overlapped' = overlapped \cup
          {a \in Agents : \E r \in begun : agentFor[r] = a /\
              (AtWork(a) # {} \/ \E s \in begun \ {r} : agentFor[s] = a)}

(***************************************************************************)
(* The coordinator.                                                        *)
(***************************************************************************)
(* The indices of the sub-tasks that are run, those of an agent there is,  *)
(* in order: the n-th of them has n of them up to itself. *)
Known(tasks) == {i \in DOMAIN tasks : tasks[i] \in Agents}

Assigned(tasks) ==
    [n \in 1..Cardinality(Known(tasks)) |->
        CHOOSE i \in Known(tasks) : Cardinality(Known(tasks) \cap 1..i) = n]

(* The decomposition: any list of the model; the first agent with the      *)
(* whole task, without a key or without an answer; nothing at all for an   *)
(* object that lists no tasks.  A sub-task without text fails the request. *)
Decomposes(tasks) ==
    /\ coordinator = "idle"
    /\ subTasks' = tasks
    /\ coordinator' = "running"
    /\ Begin([r \in Range(Assigned(tasks)) |-> tasks[r]])
    /\ UNCHANGED <<outputs, result, memory, mishap>>

DecomposesBadly(tasks) ==
    /\ coordinator = "idle"
    /\ tasks # <<>>
    /\ subTasks' = tasks
    /\ coordinator' = "failed"
    /\ UNCHANGED <<outputs, agentOf, at, result, memory, overlapped, mishap>>

(* The results, in the order of the runs, beside the sub-tasks, in the     *)
(* order of the decomposition: one for one from the first. *)
Labelled(tasks, runs) == [i \in DOMAIN runs |-> [names |-> tasks[i], run |-> runs[i]]]

Gathers ==
    /\ coordinator = "running"
    /\ \A r \in Range(Assigned(subTasks)) : at[r] = "ended"
    /\ outputs' = Labelled(subTasks, Assigned(subTasks))
    /\ coordinator' = "done"
    /\ UNCHANGED <<subTasks, agentOf, at, result, memory, overlapped, mishap>>

(***************************************************************************)
(* A run.                                                                  *)
(***************************************************************************)
RunAlone(r, a) ==
    /\ r \in Alone /\ at[r] = "none"
    /\ Begin([s \in {r} |-> a])
    /\ UNCHANGED <<coordinator, subTasks, outputs, result, memory, mishap>>

StepsTo(r, step) == at' = [at EXCEPT ![r] = step]

Returns(r, what) ==
    /\ StepsTo(r, "ended")
    /\ result' = [result EXCEPT ![r] = what]

(* Without any key; or the first read of the memory and the choice of the  *)
(* model, which nothing guards. *)
Loads(r) ==
    /\ at[r] = "load"
    /\ \/ Returns(r, "error")
       \/ Returns(r, "raised")
       \/ redis /\ StepsTo(r, "act") /\ UNCHANGED result
    /\ UNCHANGED <<coordinator, subTasks, outputs, agentOf, memory, overlapped, mishap>>

(* The model and its tools. *)
Acts(r) ==
    /\ at[r] = "act"
    /\ \/ Returns(r, "error")
       \/ StepsTo(r, "reload") /\ UNCHANGED result
    /\ UNCHANGED <<coordinator, subTasks, outputs, agentOf, memory, overlapped, mishap>>

(* update: the memory is read again, then saved; an exception of Redis     *)
(* here loses the output of the run. *)
Reloads(r) ==
    /\ at[r] = "reload"
    /\ IF redis THEN StepsTo(r, "setex") /\ UNCHANGED <<result, mishap>>
       ELSE Returns(r, "error") /\ mishap' = mishap \cup {agentOf[r]}
    /\ UNCHANGED <<coordinator, subTasks, outputs, agentOf, memory, overlapped>>

Saves(r) ==
    /\ at[r] = "setex"
    /\ IF redis
       THEN /\ cache' = [cache EXCEPT ![agentOf[r]] = r]
            /\ StepsTo(r, "select") /\ UNCHANGED <<result, mishap>>
       ELSE /\ Returns(r, "error")
            /\ mishap' = mishap \cup {agentOf[r]}
            /\ UNCHANGED cache
    /\ UNCHANGED <<coordinator, subTasks, outputs, agentOf, redis, rows, overlapped>>

(* (mutant) A row for every save. *)
SelectsNothing(r) ==
    /\ at[r] = "select"
    /\ StepsTo(r, "insert")
    /\ UNCHANGED <<coordinator, subTasks, outputs, agentOf, result, memory, overlapped, mishap>>

(* _save_to_db: more than one row is an error, and errors are swallowed. *)
Selects(r) ==
    LET a == agentOf[r] IN
    /\ at[r] = "select"
    /\ \/ Len(rows[a]) = 0 /\ StepsTo(r, "insert") /\ UNCHANGED <<result, mishap>>
       \/ Len(rows[a]) = 1 /\ StepsTo(r, "update") /\ UNCHANGED <<result, mishap>>
       \/ Returns(r, "output") /\ mishap' = mishap \cup {a}
    /\ UNCHANGED <<coordinator, subTasks, outputs, agentOf, memory, overlapped>>

Commits(r) ==
    LET a == agentOf[r] IN
    /\ at[r] \in {"insert", "update"}
    /\ rows' = [rows EXCEPT ![a] =
          IF at[r] = "insert" THEN Append(@, r) ELSE [@ EXCEPT ![1] = r]]
    /\ Returns(r, "output")
    /\ UNCHANGED <<coordinator, subTasks, outputs, agentOf, redis, cache, overlapped, mishap>>

(***************************************************************************)
(* The rest.                                                               *)
(***************************************************************************)
(* DELETE of the memory. *)
Clear(a) ==
    /\ redis
    /\ cache' = [cache EXCEPT ![a] = Nothing]
    /\ mishap' = mishap \cup {a}
    /\ UNCHANGED <<coordinator, subTasks, outputs, agentOf, at, result, redis, rows, overlapped>>

Expires(a) ==
    /\ cache[a] # Nothing
    /\ cache' = [cache EXCEPT ![a] = Nothing]
    /\ UNCHANGED <<coordinator, subTasks, outputs, agentOf, at, result, redis, rows, overlapped,
                   mishap>>

(* External: Redis goes away and comes back. *)
RedisTurns ==
    /\ redis' = ~redis
    /\ UNCHANGED <<coordinator, subTasks, outputs, agentOf, at, result, cache, rows, overlapped,
                   mishap>>

TaskLists == UNION {[1..n -> Agents \cup {Stranger}] : n \in 0..MaxSubTasks}

TeamNext ==
    \/ \E tasks \in TaskLists : Decomposes(tasks) \/ DecomposesBadly(tasks)
    \/ Gathers
    \/ \E r \in Runs, a \in Agents : RunAlone(r, a)
    \/ \E r \in Runs : \/ Loads(r) \/ Acts(r) \/ Reloads(r) \/ Saves(r)
                       \/ Selects(r) \/ Commits(r)
    \/ \E a \in Agents : Clear(a) \/ Expires(a)
    \/ RedisTurns

TeamSpec == TeamInit /\ [][TeamNext]_teamVars

(***************************************************************************)
(* Properties.                                                             *)
(***************************************************************************)
(* load: Redis, or else the one row there is. *)
Remembered(a) ==
    IF cache[a] # Nothing THEN cache[a]
    ELSE IF Len(rows[a]) = 1 THEN rows[a][1]
    ELSE Nothing

(* The coordinator reports every result under the agent that produced it,  *)
(* unless a sub-task before it was skipped: results are matched with the   *)
(* sub-tasks by position, and a skipped one has no result. *)
ResultsAttributed ==
    coordinator = "done" =>
        /\ {o.run : o \in Range(outputs)} = Range(Assigned(subTasks))
        /\ \A i \in DOMAIN outputs :
              outputs[i].names = agentOf[outputs[i].run] \/ \E j \in 1..i : subTasks[j] = Stranger

(* An agent remembers its latest finished run, whichever of the two stores *)
(* is asked, as long as no two of its runs were at work at once and no     *)
(* write failed: then there is one row, and the cache agrees with it. *)
MemoryAgrees ==
    \A a \in Agents \ (overlapped \cup mishap) :
        AtWork(a) = {} =>
            /\ Len(rows[a]) <= 1
            /\ cache[a] # Nothing => rows[a] = <<cache[a]>>
            /\ (\E r \in Runs : agentOf[r] = a /\ result[r] = "output") => Remembered(a) # Nothing

(* Both: what an agent produces is reported as its own, and remembered. *)
ResultsAreKept == ResultsAttributed /\ MemoryAgrees
=============================================================================
