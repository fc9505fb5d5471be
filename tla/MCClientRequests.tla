-------------------------- MODULE MCClientRequests --------------------------
(* Finite instance of ClientRequests for TLC: one tick is about the idle   *)
(* window of an edit.                                                      *)
EXTENDS ClientRequests, TLC

MCIdle == [read |-> 1, edit |-> 1, run |-> 2]
MCHard == [read |-> 1, edit |-> 2, run |-> 3]

Symmetry == Permutations(Agents)
=============================================================================
