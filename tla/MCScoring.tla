----------------------------- MODULE MCScoring -----------------------------
(* Scoring for TLC: the player, the Zhejiang bot, a guest and, where the   *)
(* names differ, a random bot.                                             *)
EXTENDS Scoring

\* Everybody has a name of his own.
OwnNames == <<"host", "zhejiang", "guest", "bot">>

\* Host and guest kept the name SetupDialog proposes to everybody.
SharedName == <<"host", "zhejiang", "host">>
=============================================================================
