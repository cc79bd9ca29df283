----------------------------- MODULE MCHostGame -----------------------------
(* HostGame for TLC: two remote players, so that turns overlap and one can *)
(* leave while the other plays, and two rounds, so that something can be   *)
(* left over from the first.                                               *)
EXTENDS HostGame
=============================================================================
