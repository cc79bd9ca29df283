---------------------------- MODULE MCMoveStream ----------------------------
(* MoveStream for TLC: two distinguishable lines, a queue of up to three.  *)
EXTENDS MoveStream
=============================================================================
