----------------------------- MODULE RoundTable -----------------------------
(***************************************************************************)
(* One round's table, filled seat by seat, and what GameEngine makes of    *)
(* it.  GameController::PlayRound collects the opponents' moves and the    *)
(* player's move in this shape before it evaluates them; a state of this   *)
(* module is one input of EvaluateRound.                                   *)
(***************************************************************************)
EXTENDS GameEngine

CONSTANT MaxSeats      \* bound: the size of the largest table

ASSUME MaxSeatsAssumption == MaxSeats \in Nat \ {0}

VARIABLE seats

TableInit == \E m \in Move : seats = <<m>>

TakeSeat(m) == /\ Len(seats) < MaxSeats
               /\ seats' = Append(seats, m)

TableNext == \E m \in Move : TakeSeat(m)

TableSpec == TableInit /\ [][TableNext]_seats

-----------------------------------------------------------------------------
Round == EvaluateRound(seats)

Decided == Round.outcome \in {"PlayerWins", "BotWins"}

TableType == /\ seats \in Seq(Move) \ {<<>>}
             /\ Len(seats) <= MaxSeats

\* The two points of a decided round go exactly to the seats that played a
\* move no other seat beats: counting wins pairing by pairing, with forfeiters
\* handing a win to every valid seat, never ranks a beaten move on top and
\* never leaves out one of several winners.  Seat 1 has no privilege.
WinnersAreUnbeaten ==
  Decided =>
    \A i \in DOMAIN seats :
      Round.deltas[i] = 2 <=> /\ seats[i] # "Invalid"
                              /\ \A l \in DOMAIN seats : ~Beats(seats[l], seats[i])

\* GameEngine.cpp:84-86: "Draw" is announced exactly when every participant is
\* valid and chose the same move; a forfeiter turns unanimity into a win.
DrawMeansUnanimous ==
  Round.outcome = "Draw" <=>
    seats[1] # "Invalid" /\ \A i \in DOMAIN seats : seats[i] = seats[1]

\* Whoever forfeits scores nothing as long as the player at seat 1 has a valid
\* move, whatever the other moves are and whichever way the round is decided.
ForfeiterScoresNothing ==
  seats[1] # "Invalid" =>
    \A i \in DOMAIN seats : seats[i] = "Invalid" => Round.deltas[i] = 0

\* TournamentManager::RunMatch replays on "largest delta is 1" and otherwise
\* narrows the group to the seats with the largest delta.  A decided round has
\* a winner and a loser, so narrowing makes progress, and a group of at most
\* three is left with one winner or with two co-winners.
DecidedRoundNarrows ==
  LET best == {i \in DOMAIN seats : Round.deltas[i] = 2}
  IN  Decided => /\ best # {}
                 /\ best # DOMAIN seats
                 /\ Len(seats) = 2 => Cardinality(best) = 1

\* GameEngine.cpp:45-47 says of a bot that forfeits: "Such participants lose
\* every pairing and never award/score points".
ForfeiterNeverScores ==
  \A i \in DOMAIN seats : seats[i] = "Invalid" => Round.deltas[i] = 0

=============================================================================
