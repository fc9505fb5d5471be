---------------------------- MODULE MCVoiceRelay ----------------------------
(* Finite instance of VoiceRelay for TLC: the cfg gives the bounds. *)
EXTENDS VoiceRelay
=============================================================================
