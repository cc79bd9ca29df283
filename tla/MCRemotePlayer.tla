--------------------------- MODULE MCRemotePlayer ---------------------------
(* RemotePlayer for TLC, with all four moves.                              *)
EXTENDS RemotePlayer
=============================================================================
