------------------------- MODULE MCBlockGeneration -------------------------
(* Finite instance of BlockGeneration for TLC.  The texts cover what the    *)
(* checks tell apart: two clean designs that differ in their ports, one of  *)
(* another name, one whose header does not parse, that ignores the rule    *)
(* and draws a warning, and one that is cut off.                            *)
EXTENDS BlockGeneration

CONSTANTS clean, wider, renamed, loose, cut, rule, m1, m2, ports1, ports2

MCTexts == {clean, wider, renamed, loose, cut}
MCModule == [t \in MCTexts |-> IF t = renamed THEN m2 ELSE m1]
MCPorts == [t \in MCTexts |-> CASE t = wider -> ports2
                                [] t \in {loose, cut} -> NoPorts
                                [] OTHER -> ports1]
MCMeets == [t \in MCTexts \cup {NoText} |-> IF t \in {NoText, loose} THEN {} ELSE {rule}]
=============================================================================
