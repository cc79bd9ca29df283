----------------------------- MODULE GameEngine -----------------------------
(***************************************************************************)
(* Round evaluation: Backend/Move.h and Backend/GameEngine.cpp.            *)
(*                                                                         *)
(* A round is the sequence ms of the moves of its participants.  Seat 1 is *)
(* the participant the code calls "player" (index 0 of RoundResult): the   *)
(* local human in a regular game, the first member of the group in a       *)
(* tournament.                                                             *)
(***************************************************************************)
EXTENDS Naturals, Sequences, FiniteSets

ValidMove == {"Rock", "Paper", "Scissors"}
Move == ValidMove \cup {"Invalid"}

Beats(m1, m2) == \/ m1 = "Rock"     /\ m2 = "Scissors"
                 \/ m1 = "Paper"    /\ m2 = "Rock"
                 \/ m1 = "Scissors" /\ m2 = "Paper"

\* 2: m1 wins over m2, 1: tie, 0: m1 loses.  "throws" is std::invalid_argument.
GetScore(m1, m2) ==
  CASE m1 = m2                   -> 1
    [] m1 # m2 /\ m1 = "Invalid" -> "throws"
    [] OTHER                     -> IF Beats(m1, m2) THEN 2 ELSE 0

-----------------------------------------------------------------------------
(* The round robin.  Every unordered pairing is scored once, from the side *)
(* of its lower seat; a pairing with a forfeiter is decided without        *)
(* GetScore.                                                               *)

\* Plausible mistakes, used only to show that properties notice them: the
\* "else if" of the inner loop became an "else", a tie is credited to both
\* sides, forfeiters are skipped altogether.
TakesElse(ms, i, l) ==
  /\ ms[i] # "Invalid"
  /\ \/ ms[l] = "Invalid"
     \/ i < l /\ GetScore(ms[i], ms[l]) = 2
     \/ l < i /\ GetScore(ms[l], ms[i]) # 2

TakesOnTie(ms, i, l) ==
  /\ ms[i] # "Invalid"
  /\ \/ ms[l] = "Invalid"
     \/ i < l /\ GetScore(ms[i], ms[l]) # 0
     \/ l < i /\ GetScore(ms[l], ms[i]) # 2

TakesFromValidOnly(ms, i, l) ==
  /\ {ms[i], ms[l]} \subseteq ValidMove
  /\ \/ i < l /\ GetScore(ms[i], ms[l]) = 2
     \/ l < i /\ GetScore(ms[l], ms[i]) = 0

\* Seat i is credited with its pairing against seat l.
Takes(ms, i, l) ==
  /\ ms[i] # "Invalid"
  /\ \/ ms[l] = "Invalid"
     \/ i < l /\ GetScore(ms[i], ms[l]) = 2
     \/ l < i /\ GetScore(ms[l], ms[i]) = 0

Wins(ms, i) == Cardinality({l \in DOMAIN ms \ {i} : Takes(ms, i, l)})

\* The seats whose number of wins is the maximum (std::max_element).
TopSeats(ms) == {i \in DOMAIN ms : \A l \in DOMAIN ms : Wins(ms, l) <= Wins(ms, i)}

Played(ms) == {ms[i] : i \in DOMAIN ms}

\* Plausible mistake: the seats that forfeited are awarded too.
awardAll(ms) == [i \in DOMAIN ms |-> 1]

\* A three-way draw: one point to every seat that did not forfeit.
awardValid(ms) == [i \in DOMAIN ms |-> IF ms[i] # "Invalid" THEN 1 ELSE 0]

\* A decided round: two points to the top seats.
awardTop(ms) == [i \in DOMAIN ms |-> IF i \in TopSeats(ms) THEN 2 ELSE 0]

EvaluateRound(ms) ==
  LET result(o, d) == [outcome |-> o, deltas |-> d]
  IN  CASE ms[1] = "Invalid" ->
             result("InvalidInput", [i \in DOMAIN ms |-> IF i = 1 THEN 0 ELSE 2])
        [] ms[1] # "Invalid" /\ ValidMove \subseteq Played(ms) ->
             result("ThreeWayDraw", awardValid(ms))
        [] OTHER ->
             IF \A i \in DOMAIN ms : Wins(ms, i) = 0
             THEN result("Draw", [i \in DOMAIN ms |-> 1])
             ELSE result(IF 1 \in TopSeats(ms) THEN "PlayerWins" ELSE "BotWins",
                         awardTop(ms))

=============================================================================
