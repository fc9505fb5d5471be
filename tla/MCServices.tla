----------------------------- MODULE MCServices -----------------------------
(* Finite instances, for TLC, of the parts a session leans on: the filling  *)
(* of blocks, the routing of model calls, the entitlement of a user, the    *)
(* agents of an execution and the streaming of its events.  They share no   *)
(* state; focus says which of them a behaviour shows, the others rest. *)
EXTENDS Enrichment, LlmRouting, Entitlements, AgentTeam, Streaming

CONSTANTS
    Block,      \* the block that is created with anything; others with little
    Later,      \* the second of two turns
    Plain,      \* the caller of a model that is no block agent
    Watched,    \* the execution that all sockets ask for, but
    Elsewhere,  \* the one that asks for another
    Second,     \* the second of two presses
    Single      \* the agent that is also asked alone

VARIABLE focus

servicesVars == <<focus, enrichVars, routingVars, accessVars, teamVars, streamVars>>

(* Requests: every type, with none, one or all of the keys a type takes. *)
Saids(type) ==
    LET keysOf == {m[1] : m \in Promised(type)}
    IN  {s \in SUBSET keysOf : Cardinality(s) <= 1} \cup {keysOf}

RequestsFor(type) ==
    {r \in [type : {type}, named : BOOLEAN, described : BOOLEAN, said : Saids(type),
            odd : BOOLEAN] :
        /\ r.odd => r.said \cap {"language", "memory_mode"} # {}
        /\ ~r.named => r.said = {} /\ r.described}

Little == {[type |-> type, named |-> TRUE, described |-> TRUE, said |-> {}, odd |-> FALSE] :
              type \in {"image", "custom"}}

Custom == [type |-> "custom", named |-> TRUE, described |-> TRUE, said |-> {}, odd |-> FALSE]

MCMenu ==
    [Blocks -> Little]
      \cup {[b \in Blocks |-> IF b = Block THEN r ELSE Custom] :
               r \in UNION {RequestsFor(type) : type \in Types}}

MCWatches ==
    [s \in Sockets |-> IF s = Elsewhere THEN CHOOSE x \in Executions : x # Watched ELSE Watched]

(* Bound: beside a block of the large menu there is no other block, and the *)
(* client stays; the order of events is explored with the small one. *)
NoneLarge == request[Block] \in Little \cup {Absent}

LargeAlone ==
    NoneLarge \/ ((\A b \in Blocks \ {Block} : owner[b] = NoTurn) /\ linked)

(* Bound: the turns are taken in order. *)
InOrder == turn[Later].stage = "idle" \/ \A t \in Turns : turn[t].stage # "idle"

(* Bound: the key changes at a tick only; models and kinds that are routed  *)
(* alike occur once; a transcript grows past three entries only by a turn   *)
(* with two calls. *)
FewModels ==
    /\ accepted' # accepted => now \in {1, 2}
    /\ call'[Plain].kind # "json" /\ call'[Plain].model \in {"blank", "claude"}
    /\ \A p \in Talkers : /\ call'[p].model \in {"blank", "claude"}
                          /\ Len(talk'[p]) > 3 => Last(talk'[p]).calls = 2

(* Bound: one event of another execution, whose socket is there from the   *)
(* first event on and stays. *)
FewElsewhere ==
    /\ Cardinality({n \in DOMAIN published : published[n] # Watched}) <= 1
    /\ socket[Elsewhere] \in IF published = <<>> THEN {"none", "accepted", "open"} ELSE {"open"}

(* Bound: presses are alike, so they come in order. *)
PressesInOrder == press[Second].at = "idle" \/ \A p \in Presses : press[p].at # "idle"

(* Bound: agents are alike, so one of them is asked alone. *)
SingleAlone == \A r \in Alone : at[r] # "none" => agentOf[r] = Single

(* What rests has one initial state. *)
MCInit ==
    /\ focus \in {"enrichment", "routing", "access", "team", "stream"}
    /\ EnrichmentInit /\ RoutingInit /\ EntitlementsInit /\ TeamInit /\ StreamingInit
    /\ focus # "routing" => accepted /\ keys = [anthropic |-> TRUE, openai |-> TRUE]
    /\ focus # "access" => plan /\ policy = [enforced |-> TRUE, fallback |-> TRUE]

othersRest == UNCHANGED <<focus, routingVars, accessVars, teamVars, streamVars>>

MCNext ==
    \/ /\ focus = "enrichment" /\ othersRest
       /\ \/ NoneLarge /\ BlocksAppear /\ InOrder'
          \/ BlocksAreFilled
       /\ LargeAlone'
    \/ /\ focus = "routing" /\ RoutingNext /\ FewModels
       /\ UNCHANGED <<focus, enrichVars, accessVars, teamVars, streamVars>>
    \/ /\ focus = "access" /\ EntitlementsNext /\ PressesInOrder'
       /\ UNCHANGED <<focus, enrichVars, routingVars, teamVars, streamVars>>
    \/ /\ focus = "team" /\ TeamNext /\ SingleAlone'
       /\ UNCHANGED <<focus, enrichVars, routingVars, accessVars, streamVars>>
    \/ /\ focus = "stream" /\ StreamingNext /\ FewElsewhere'
       /\ UNCHANGED <<focus, enrichVars, routingVars, accessVars, teamVars>>

MCSpec ==
    /\ MCInit /\ [][MCNext]_servicesVars
    /\ \A t \in Turns : WF_enrichVars(TurnGoesOn(t) /\ othersRest)
    /\ \A b \in Blocks : WF_enrichVars(BlockGoesOn(b) /\ othersRest)

(* Every variable of the five parts has its type, whatever the order of     *)
(* answers, cancellations and failures. *)
ServicesTypeOK == EnrichmentTypeOK /\ RoutingTypeOK /\ EntitlementsTypeOK /\ TeamTypeOK
                  /\ StreamingTypeOK
=============================================================================
