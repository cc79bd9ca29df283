------------------------------ MODULE Scoring ------------------------------
(***************************************************************************)
(* The data of a regular game: what GameController::PlayRound keeps from   *)
(* round to round.                                                         *)
(*                                                                         *)
(* Two scoreboards are kept at once.  The controller adds the deltas by    *)
(* position (mPlayerScore, mBotScores) and shows them when the game ends.  *)
(* QtView::ShowRoundResult adds the same deltas by display name            *)
(* (mScoreNames, mScoreValues) and shows them after every round.  The      *)
(* Zhejiang bot remembers its own move and delta between rounds.           *)
(*                                                                         *)
(* RegularGame and HostGame model when a round happens; here a round is    *)
(* one step and the moves are the point.                                   *)
(***************************************************************************)
EXTENDS GameEngine, SequencesExt

CONSTANTS
  Names,           \* display names by seat; seat 1 is the local player
  ZhejiangSeats,   \* the seats of ZhejiangBot strategies
  RemoteSeats,     \* the seats of RemotePlayerStrategy, which may forfeit
  MaxRounds        \* bound: rounds played

Seats == DOMAIN Names
BotSeats == Seats \ {1}

ASSUME NamesAssumption == /\ Names \in Seq(STRING) \ {<<>>}
                          /\ ZhejiangSeats \subseteq BotSeats
                          /\ RemoteSeats \subseteq BotSeats \ ZhejiangSeats
ASSUME MaxRoundsAssumption == MaxRounds \in Nat

VARIABLES
  scores,    \* mPlayerScore and mBotScores, by seat
  board,     \* QtView's rows: [name |-> mScoreNames[k], value |-> mScoreValues[k]]
  bots,      \* ZhejiangBot members by seat
  last       \* the moves and the result of the last round (history)

vars == <<scores, board, bots, last>>

NoRound == [moves |-> <<>>, outcome |-> "None", deltas |-> <<>>]

-----------------------------------------------------------------------------
(* ZhejiangBot: win-stay, lose-shift.                                      *)

\* Plausible mistake: the shift goes to the move that m itself beats.
ShiftCounterClockwise(m) == CASE m = "Rock"     -> "Scissors"
                              [] m = "Paper"    -> "Rock"
                              [] m = "Scissors" -> "Paper"

ShiftClockwise(m) == CASE m = "Rock"     -> "Paper"
                       [] m = "Paper"    -> "Scissors"
                       [] m = "Scissors" -> "Rock"

NewBot == [mLastMove |-> "Rock", mLastDelta |-> 1, mHasPlayed |-> FALSE]

\* The moves PickMove may return.
PickMove(b) == IF ~b.mHasPlayed \/ b.mLastDelta = 1 THEN ValidMove
               ELSE IF b.mLastDelta = 2 THEN {b.mLastMove}
               ELSE {ShiftClockwise(b.mLastMove)}

\* The bot after PickMove returned m and NotifyResult(delta) was called.
PlayedAndNotified(b, m, delta) ==
  [b EXCEPT !.mLastMove = m, !.mHasPlayed = TRUE, !.mLastDelta = delta]

-----------------------------------------------------------------------------
(* QtView's running scoreboard.                                            *)

\* scoreIndexOf inserts a row of 0 for a name it has not seen.
withRow(rows, name) ==
  IF \E k \in DOMAIN rows : rows[k].name = name
  THEN rows
  ELSE Append(rows, [name |-> name, value |-> 0])

\* Plausible mistake: the row shows the last delta instead of the total.
addScoreOverwrites(rows, name, delta) ==
  LET all == withRow(rows, name)
  IN  [k \in DOMAIN all |->
         IF all[k].name = name THEN [all[k] EXCEPT !.value = delta] ELSE all[k]]

addScore(rows, name, delta) ==
  LET all == withRow(rows, name)
  IN  [k \in DOMAIN all |->
         IF all[k].name = name THEN [all[k] EXCEPT !.value = @ + delta] ELSE all[k]]

\* The player's row first, then the bots' in seat order.
ShowRoundResult(rows, deltas) ==
  LET shown[n \in 0..Len(Names)] ==
        IF n = 0 THEN rows ELSE addScore(shown[n - 1], Names[n], deltas[n])
  IN  shown[Len(Names)]

-----------------------------------------------------------------------------
Init == /\ scores = [i \in Seats |-> 0]
        /\ board = <<>>
        /\ bots = [z \in ZhejiangSeats |-> NewBot]
        /\ last = NoRound

\* The answers a strategy, or ReadPlayerMove, can give.
Answers(i) == IF i \in ZhejiangSeats THEN PickMove(bots[i])
              ELSE IF i \in {1} \union RemoteSeats THEN Move
              ELSE ValidMove

PlayRound(ms) ==
  LET result == EvaluateRound(ms)
  IN  /\ \A i \in Seats : ms[i] \in Answers(i)
      /\ board' = ShowRoundResult(board, result.deltas)
      /\ scores' = [i \in Seats |-> scores[i] + result.deltas[i]]
      /\ bots' = [z \in ZhejiangSeats |->
                    PlayedAndNotified(bots[z], ms[z], result.deltas[z])]
      /\ last' = [moves |-> ms, outcome |-> result.outcome, deltas |-> result.deltas]

\* No participant's score exceeds two points a round: the bound on rounds is
\* a bound on the scores.
Next == /\ \A i \in Seats : scores[i] + 2 <= 2 * MaxRounds
        /\ \E ms \in [Seats -> Move] : PlayRound(ms)

Spec == Init /\ [][Next]_vars

-----------------------------------------------------------------------------
TypeOK ==
  /\ scores \in [Seats -> 0 .. 2 * MaxRounds]
  /\ \A k \in DOMAIN board : /\ board[k].name \in Range(Names)
                             /\ board[k].value \in Nat
  /\ bots \in [ZhejiangSeats -> [mLastMove : ValidMove, mLastDelta : 0..2,
                                 mHasPlayed : BOOLEAN]]
  /\ last = NoRound \/ last.moves \in [Seats -> Move]

\* QtView.h:56, "parallel lists of participant names and score strings": once a
\* round has been played, the running scoreboard has one row per participant,
\* in seat order, with the score the controller will announce at the end.  The
\* two are accumulated independently, by name and by position.
BoardShowsScores ==
  last # NoRound => board = [i \in Seats |-> [name |-> Names[i], value |-> scores[i]]]

\* ZhejiangBot.h:4-7: win-stay and lose-shift are one rule seen from the table.
\* After a round somebody won, a Zhejiang bot plays the move that won it,
\* because the clockwise neighbour of a losing move is the only move that can
\* have beaten it.  The engine's outcome, the delta handed back and the
\* direction of the shift must agree over two rounds for this to hold.
PlaysWhatWon ==
  [][last.outcome \in {"PlayerWins", "BotWins"} =>
       \A z \in ZhejiangSeats : \A i \in Seats :
         last.deltas[i] = 2 => last'.moves[z] = last.moves[i]]_vars

=============================================================================
