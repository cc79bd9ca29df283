----------------------------- MODULE GameWindow -----------------------------
(***************************************************************************)
(* RockPaperScissors/GameWindow: the state machine behind the buttons, and *)
(* the score table.  The window is a component of every composition: each  *)
(* conjoins these handlers with what they make the session do.  Handlers   *)
(* run on the GUI thread, one at a time.                                   *)
(*                                                                         *)
(* A table's contents are the sums of the deltas of the rounds it counts,  *)
(* so the number of those rounds stands for it.                            *)
(***************************************************************************)
EXTENDS Naturals

CONSTANTS ManualRounds,  \* mManualRounds: a local regular game or the host
          Tournament     \* mTournament

VARIABLES mState, table

WindowState == {"Idle", "Waiting", "AwaitingMove", "GameOver"}

Init == /\ mState = IF ManualRounds THEN "Idle" ELSE "Waiting"
        /\ table = 0

setState(s) == mState' = s /\ UNCHANGED table

-----------------------------------------------------------------------------
(* Plausible mistakes, used only to show that properties notice them.      *)

onStartRoundUnguarded == mState # "GameOver" /\ setState("Waiting")

pushMoveUnguarded == setState("Waiting")

onFinishButtonEndsAtOnce == /\ mState # "GameOver"
                            /\ ~Tournament
                            /\ setState("GameOver")

onRoundFinishedWaits == setState(IF mState = "GameOver" THEN "GameOver" ELSE "Waiting")

-----------------------------------------------------------------------------
(* Clicks.  setState enables the buttons with the same conditions that the *)
(* handlers check.                                                         *)

onStartRound == mState = "Idle" /\ setState("Waiting")

pushMove == mState = "AwaitingMove" /\ setState("Waiting")

\* "Finish game": the primary button while a game without a bracket is not over.
onFinishButton == /\ mState # "GameOver"
                  /\ ~Tournament
                  /\ setState("Waiting")

-----------------------------------------------------------------------------
(* Signals of the session.                                                 *)

onMovePrompt == setState("AwaitingMove")

onScores(t) == table' = t /\ UNCHANGED mState

onRoundFinished ==
  setState(IF mState = "GameOver" THEN "GameOver"
           ELSE IF ManualRounds THEN "Idle" ELSE "Waiting")

onGameFinished == setState("GameOver")

=============================================================================
