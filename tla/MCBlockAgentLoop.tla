-------------------------- MODULE MCBlockAgentLoop --------------------------
(* Finite instance of BlockAgentLoop for TLC. *)
EXTENDS BlockAgentLoop

=============================================================================
