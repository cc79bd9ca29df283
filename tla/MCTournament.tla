---------------------------- MODULE MCTournament ----------------------------
(* Tournament for TLC: four participants are two pairs and a final, five a *)
(* pair, a group of three and a final.                                     *)
EXTENDS Tournament
=============================================================================
