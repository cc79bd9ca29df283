--------------------------- MODULE MCRegularGame ----------------------------
(* RegularGame for TLC.  Three "Finish" clicks during one turn forfeit the *)
(* round and the fourth ends the game.                                     *)
EXTENDS RegularGame
=============================================================================
