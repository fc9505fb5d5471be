---------------------------- MODULE Placeholders ----------------------------
(***************************************************************************)
(* What a session promises its client about the blocks a turn creates,     *)
(* whatever fills them and in whatever order: a block appears once, whole  *)
(* or as a placeholder; a placeholder is settled once, as filled or as     *)
(* failed; nothing reaches a client that has gone; and, unless the turn    *)
(* itself was cut off, every placeholder of a client that stays is         *)
(* settled in the end.                                                     *)
(***************************************************************************)
EXTENDS FiniteSets

CONSTANT Blocks

VARIABLES
    shown,      \* what the client shows of each block
    open,       \* the client is connected
    abandoned   \* placeholders of turns that were cut off before filling began

shownVars == <<shown, open, abandoned>>

Views == {"absent", "whole", "pending", "filled", "failed"}

ShownInit ==
    /\ shown = [b \in Blocks |-> "absent"]
    /\ open = TRUE
    /\ abandoned = {}

(* A turn, or an agent, puts new blocks on the canvas. *)
Appear ==
    /\ open
    /\ \E whole, pending \in SUBSET {b \in Blocks : shown[b] = "absent"} :
          /\ whole \cap pending = {}
          /\ whole \cup pending # {}
          /\ shown' = [b \in Blocks |-> IF b \in whole THEN "whole"
                                        ELSE IF b \in pending THEN "pending"
                                        ELSE shown[b]]
    /\ UNCHANGED <<open, abandoned>>

SettlesAs(b, view) ==
    /\ open
    /\ shown[b] = "pending"
    /\ b \notin abandoned
    /\ shown' = [shown EXCEPT ![b] = view]
    /\ UNCHANGED <<open, abandoned>>

Settle(b) == \E view \in {"filled", "failed"} : SettlesAs(b, view)

CutOff ==
    /\ \E gone \in SUBSET Blocks : abandoned' = abandoned \cup gone
    /\ \A b \in abandoned' \ abandoned : shown[b] \notin {"filled", "failed"}
    /\ UNCHANGED <<shown, open>>

Leave ==
    /\ open
    /\ open' = FALSE
    /\ UNCHANGED <<shown, abandoned>>

ShownNext == Appear \/ (\E b \in Blocks : Settle(b)) \/ CutOff \/ Leave

ShownSafe == ShownInit /\ [][ShownNext]_shownVars

ShownSpec == ShownSafe /\ \A b \in Blocks : WF_shownVars(Settle(b))
=============================================================================
