--------------------------- MODULE MCAgentSession ---------------------------
(* Finite instance of AgentSession for TLC. *)
EXTENDS AgentSession, TLC

Symmetry == Permutations(Blocks)
=============================================================================
