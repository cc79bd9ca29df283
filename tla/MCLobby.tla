------------------------------ MODULE MCLobby -------------------------------
(* Lobby for TLC: a player who can lose a connection and come back on a    *)
(* second one while the server still holds the first, so that the server   *)
(* has up to two clients.                                                  *)
EXTENDS Lobby
=============================================================================
