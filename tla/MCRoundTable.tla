---------------------------- MODULE MCRoundTable ----------------------------
(* RoundTable for TLC: every table of up to MaxSeats participants.         *)
EXTENDS RoundTable
=============================================================================
