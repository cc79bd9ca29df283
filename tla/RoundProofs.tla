----------------------------- MODULE RoundProofs -----------------------------
(***************************************************************************)
(* Rounds of any number of participants.                                   *)
(*                                                                         *)
(* RoundTable: the engine's result for every table.  CommonLemmas has the  *)
(* argument.                                                               *)
(*                                                                         *)
(* Scoring: the Zhejiang bot plays what won.  Two facts meet.  What a bot  *)
(* remembers is the last round's move and delta, an invariant over the     *)
(* calls of PickMove and NotifyResult.  And in a decided round only one    *)
(* valid move is unbeaten, the clockwise neighbour of the other one on the *)
(* table, which the engine's lemmas give.                                  *)
(*                                                                         *)
(* Scoring: the two scoreboards.  Rows are found by name; when the names   *)
(* differ, the n-th turn of the loop over the participants finds the n-th  *)
(* row or appends it, and so the rows are in seat order from the first     *)
(* round on and get what the controller's scores get.                      *)
(***************************************************************************)
EXTENDS RoundTable, Scoring, CommonLemmas

-----------------------------------------------------------------------------
(* RoundTable.                                                             *)

\* Every table RoundTable reaches is a table of moves (the first conjunct of
\* TableType is what the operators above are applied to).
LEMMA TableInvariant == TableSpec => []TableType
<1>1. TableInit => TableType
  BY MaxSeatsAssumption DEF TableInit, TableType
<1>2. TableType /\ [TableNext]_seats => TableType'
  BY MaxSeatsAssumption DEF TableType, TableNext, TakeSeat
<1> QED
  BY <1>1, <1>2, PTL DEF TableSpec

\* For tables of every size: the winners of a decided round are the seats whose
\* valid move no seat beats (GameEngine.cpp:68-98).
THEOREM WinnersAreAlwaysUnbeaten == TableSpec => []WinnersAreUnbeaten
<1>1. TableType => WinnersAreUnbeaten
  <2> SUFFICES ASSUME TableType, Decided, NEW i \in DOMAIN seats
               PROVE  Round.deltas[i] = 2 <=> Unbeaten(seats, i)
    BY DEF WinnersAreUnbeaten, Unbeaten
  <2>1. seats \in Seq(Move)
    BY DEF TableType
  <2>2. Round.deltas[i] = IF Unbeaten(seats, i) THEN 2 ELSE 0
    BY <2>1, DecidedDeltas DEF Decided, Round
  <2> QED
    BY <2>2
<1> QED
  BY <1>1, TableInvariant, PTL

\* For tables of every size: a draw is announced exactly for one unanimous valid
\* move (GameEngine.cpp:84-91).
THEOREM DrawAlwaysMeansUnanimous == TableSpec => []DrawMeansUnanimous
<1>1. TableType => DrawMeansUnanimous
  <2> SUFFICES ASSUME TableType  PROVE  DrawMeansUnanimous
    OBVIOUS
  <2>1. CASE seats[1] = "Invalid"
    BY <2>1 DEF DrawMeansUnanimous, Round, EvaluateRound
  <2>2. CASE seats[1] # "Invalid" /\ ValidMove \subseteq Played(seats)
    BY <2>2 DEF DrawMeansUnanimous, Round, EvaluateRound, Played, ValidMove
  <2>3. CASE seats[1] # "Invalid" /\ ~(ValidMove \subseteq Played(seats))
    <3>1. Round.outcome = "Draw" <=> \A i \in DOMAIN seats : Wins(seats, i) = 0
      BY <2>3 DEF Round, EvaluateRound
    <3> QED
      BY <2>3, <3>1, NoWinsMeansUnanimous DEF DrawMeansUnanimous, TableType
  <2> QED
    BY <2>1, <2>2, <2>3
<1> QED
  BY <1>1, TableInvariant, PTL

\* For tables of every size: with a valid move at seat 1, a forfeiter's delta is
\* 0 in all three branches, decided, drawn or three-way (GameEngine.cpp:45-48).
THEOREM ForfeitersScoreNothing == TableSpec => []ForfeiterScoresNothing
<1>1. TableType => ForfeiterScoresNothing
  <2> SUFFICES ASSUME TableType, seats[1] # "Invalid",
                      NEW i \in DOMAIN seats, seats[i] = "Invalid"
               PROVE  Round.deltas[i] = 0
    BY DEF ForfeiterScoresNothing
  <2>1. seats \in Seq(Move)
    BY DEF TableType
  <2>2. CASE ValidMove \subseteq Played(seats)
    BY <2>2 DEF Round, EvaluateRound, awardValid
  <2>3. CASE /\ ~(ValidMove \subseteq Played(seats))
             /\ \A l \in DOMAIN seats : Wins(seats, l) = 0
    <3>1. \A l \in DOMAIN seats : seats[l] = seats[1]
      BY <2>1, <2>3, NoWinsMeansUnanimous DEF TableType
    <3> QED
      BY <3>1
  <2>4. CASE /\ ~(ValidMove \subseteq Played(seats))
             /\ ~ \A l \in DOMAIN seats : Wins(seats, l) = 0
    <3>1. Credits(seats, i) = {}
      BY DEF Credits, Takes
    <3>2. Wins(seats, i) = 0
      BY <2>1, <3>1, CreditsFinite, FS_EmptySet
    <3>3. PICK l \in DOMAIN seats : Wins(seats, l) # 0
      BY <2>4
    <3>4. Wins(seats, l) \in Nat
      BY <2>1, CreditsFinite
    <3>5. ~(Wins(seats, l) <= Wins(seats, i))
      BY <3>2, <3>3, <3>4
    <3>6. i \notin TopSeats(seats)
      BY <3>5 DEF TopSeats
    <3> QED
      BY <2>4, <3>6 DEF Round, EvaluateRound, awardTop
  <2> QED
    BY <2>2, <2>3, <2>4
<1> QED
  BY <1>1, TableInvariant, PTL

\* For tables of every size: a decided round has a winner and a loser, and of two
\* participants exactly one wins (TournamentManager.cpp:59-76 narrows the group to
\* the winners and goes on with them).
THEOREM DecidedRoundsNarrow == TableSpec => []DecidedRoundNarrows
<1>1. TableType => DecidedRoundNarrows
  <2> SUFFICES ASSUME TableType, Decided  PROVE DecidedRoundNarrows
    BY DEF DecidedRoundNarrows
  <2> DEFINE best == {i \in DOMAIN seats : Round.deltas[i] = 2}
  <2>1. seats \in Seq(Move) \ {<<>>} /\ 1 \in DOMAIN seats
    BY DEF TableType
  <2>2. /\ seats[1] # "Invalid" /\ ~(ValidMove \subseteq Played(seats))
        /\ \A i \in DOMAIN seats : i \in best <=> Unbeaten(seats, i)
    BY <2>1, DecidedDeltas DEF Decided, Round
  <2>3. best # {}
    BY <2>1, <2>2, SomebodyIsUnbeaten
  <2>4. best # DOMAIN seats
    <3>1. ~ \A i \in DOMAIN seats : Wins(seats, i) = 0
      BY <2>2 DEF Decided, Round, EvaluateRound
    <3> QED
      BY <2>1, <2>2, <3>1, SomebodyIsBeaten
  <2>5. ASSUME Len(seats) = 2  PROVE Cardinality(best) = 1
    <3>1. DOMAIN seats = {1, 2}
      BY <2>1, <2>5
    <3>2. best = {1} \/ best = {2}
      BY <2>3, <2>4, <3>1
    <3> QED
      BY <3>2, FS_Singleton
  <2> QED
    BY <2>3, <2>4, <2>5 DEF DecidedRoundNarrows
<1> QED
  BY <1>1, TableInvariant, PTL

-----------------------------------------------------------------------------
(* Scoring.                                                                *)

BotType == [mLastMove : ValidMove, mLastDelta : Nat, mHasPlayed : BOOLEAN]

Result(ms) == [moves   |-> ms, outcome |-> EvaluateRound(ms).outcome,
               deltas |-> EvaluateRound(ms).deltas]

\* What the bots remember is what the last round was.
BotsRemember ==
  /\ bots \in [ZhejiangSeats -> BotType]
  /\ last # NoRound =>
       /\ last.moves \in [Seats -> Move]
       /\ last = Result(last.moves)
       /\ \A z \in ZhejiangSeats : /\ bots[z].mHasPlayed
                                   /\ bots[z].mLastMove = last.moves[z]
                                   /\ bots[z].mLastDelta = last.deltas[z]

\* A table of moves is a sequence with one move per participant.
LEMMA TablesAreSequences ==
  ASSUME NEW ms \in [Seats -> Move]
  PROVE  ms \in Seq(Move) \ {<<>>} /\ DOMAIN ms = Seats
BY NamesAssumption DEF Seats

\* The engine hands every participant 0, 1 or 2 points.
LEMMA DeltasAreNumbers ==
  ASSUME NEW ms \in Seq(Move), NEW i \in DOMAIN ms
  PROVE  EvaluateRound(ms).deltas[i] \in Nat
<1>1. CASE ms[1] = "Invalid"
  BY <1>1 DEF EvaluateRound
<1>2. CASE ms[1] # "Invalid" /\ ValidMove \subseteq Played(ms)
  BY <1>2 DEF EvaluateRound, awardValid
<1>3. CASE ms[1] # "Invalid" /\ ~(ValidMove \subseteq Played(ms))
  <2>1. CASE \A l \in DOMAIN ms : Wins(ms, l) = 0
    BY <1>3, <2>1 DEF EvaluateRound
  <2>2. CASE ~ \A l \in DOMAIN ms : Wins(ms, l) = 0
    BY <1>3, <2>2 DEF EvaluateRound, awardTop
  <2> QED
    BY <2>1, <2>2
<1> QED
  BY <1>1, <1>2, <1>3

\* In a decided round the valid moves on the table are the winning one and the one
\* it beats.
LEMMA OneMoveWins ==
  ASSUME NEW ms \in Seq(Move) \ {<<>>}, NEW i \in DOMAIN ms, NEW z \in DOMAIN ms,
         ~(ValidMove \subseteq Played(ms)), Unbeaten(ms, i), ms[z] \in ValidMove
  PROVE  ms[i] = IF Unbeaten(ms, z) THEN ms[z] ELSE ShiftClockwise(ms[z])
<1>1. ms[i] \in ValidMove /\ ~Beats(ms[z], ms[i])
  BY DEF Unbeaten, Move
<1>2. CASE Unbeaten(ms, z)
  BY <1>1, <1>2 DEF Unbeaten, Beats, ValidMove
<1>3. CASE ~Unbeaten(ms, z)
  <2>1. PICK l \in DOMAIN ms : Beats(ms[l], ms[z])
    BY <1>3 DEF Unbeaten, ValidMove
  <2>2. ~Beats(ms[l], ms[i])
    BY DEF Unbeaten
  <2>3. CASE ms[z] = "Rock"
    BY <1>1, <1>3, <2>1, <2>2, <2>3 DEF Beats, ValidMove, ShiftClockwise
  <2>4. CASE ms[z] = "Paper"
    BY <1>1, <1>3, <2>1, <2>2, <2>4 DEF Beats, ValidMove, ShiftClockwise
  <2>5. CASE ms[z] = "Scissors"
    BY <1>1, <1>3, <2>1, <2>2, <2>5 DEF Beats, ValidMove, ShiftClockwise
  <2> QED
    BY <2>3, <2>4, <2>5 DEF ValidMove
<1> QED
  BY <1>2, <1>3

\* PickMove returns valid moves only.
LEMMA BotsMoveValidly ==
  ASSUME NEW b \in BotType  PROVE PickMove(b) \subseteq ValidMove
<1>1. ShiftClockwise(b.mLastMove) \in ValidMove
  BY DEF BotType, ShiftClockwise, ValidMove
<1> QED
  BY <1>1 DEF BotType, PickMove

\* What a bot answers is taken from its memory.
LEMMA BotAnswers ==
  ASSUME BotsRemember, NEW ms, PlayRound(ms), NEW z \in ZhejiangSeats
  PROVE  ms[z] \in PickMove(bots[z]) /\ ms[z] \in ValidMove
<1>1. z \in Seats /\ z # 1
  BY NamesAssumption DEF BotSeats
<1>2. ms[z] \in PickMove(bots[z])
  BY <1>1 DEF PlayRound, Answers
<1> QED
  BY <1>2, BotsMoveValidly DEF BotsRemember

\* The bots remember the last round, at all times.
LEMMA MemoryInvariant == Spec => []BotsRemember
<1>1. Init => BotsRemember
  BY DEF Init, BotsRemember, BotType, NewBot, ValidMove
<1>2. BotsRemember /\ [Next]_vars => BotsRemember'
  <2> SUFFICES ASSUME BotsRemember, [Next]_vars  PROVE BotsRemember'
    OBVIOUS
  <2>1. CASE UNCHANGED vars
    BY <2>1 DEF vars, BotsRemember
  <2>2. ASSUME NEW ms \in [Seats -> Move], PlayRound(ms)  PROVE BotsRemember'
    <3>1. last' = Result(ms) /\ last'.moves = ms /\ last'.deltas = EvaluateRound(ms).deltas
      BY <2>2 DEF PlayRound, Result
    <3>2. ASSUME NEW z \in ZhejiangSeats
          PROVE  /\ bots[z] \in BotType
                 /\ ms[z] \in ValidMove /\ EvaluateRound(ms).deltas[z] \in Nat
                 /\ bots'[z] = PlayedAndNotified(bots[z], ms[z], EvaluateRound(ms).deltas[z])
      BY <2>2, BotAnswers, DeltasAreNumbers, TablesAreSequences, NamesAssumption
         DEF BotsRemember, BotSeats, PlayRound
    <3>3. bots' \in [ZhejiangSeats -> BotType]
      <4>1. ASSUME NEW z \in ZhejiangSeats
            PROVE  PlayedAndNotified(bots[z], ms[z], EvaluateRound(ms).deltas[z]) \in BotType
        BY <3>2 DEF PlayedAndNotified, BotType
      <4> QED
        BY <2>2, <4>1 DEF PlayRound
    <3>4. ASSUME NEW z \in ZhejiangSeats
          PROVE  /\ bots'[z].mHasPlayed
                 /\ bots'[z].mLastMove = ms[z]
                 /\ bots'[z].mLastDelta = EvaluateRound(ms).deltas[z]
      BY <3>2 DEF PlayedAndNotified, BotType
    <3> QED
      BY <2>2, <3>1, <3>3, <3>4 DEF BotsRemember
  <2> QED
    BY <2>1, <2>2 DEF Next
<1> QED
  BY <1>1, <1>2, PTL DEF Spec

\* For any participants: after a decided round every Zhejiang bot plays the move
\* that won it (ZhejiangBot.h:4-7, "win-stay, lose-shift").
THEOREM PlaysWhatWonAlways == Spec => PlaysWhatWon
<1>1. ASSUME BotsRemember, NEW ms \in [Seats -> Move], PlayRound(ms),
             last.outcome \in {"PlayerWins", "BotWins"},
             NEW z \in ZhejiangSeats, NEW i \in Seats, last.deltas[i] = 2
      PROVE  ms[z] = last.moves[i]
  <2> DEFINE lm == last.moves
  <2>1. /\ last # NoRound /\ z \in Seats
        /\ lm \in Seq(Move) \ {<<>>} /\ DOMAIN lm = Seats
        /\ last.outcome = EvaluateRound(lm).outcome
        /\ last.deltas = EvaluateRound(lm).deltas
    <3>1. last # NoRound
      BY <1>1 DEF NoRound
    <3>2. lm \in [Seats -> Move] /\ last = Result(lm)
      BY <1>1, <3>1 DEF BotsRemember
    <3>3. last.outcome = EvaluateRound(lm).outcome /\ last.deltas = EvaluateRound(lm).deltas
      BY <3>2 DEF Result
    <3> QED
      BY <3>1, <3>2, <3>3, TablesAreSequences, NamesAssumption DEF BotSeats
  <2>2. /\ ~(ValidMove \subseteq Played(lm))
        /\ last.deltas[i] = IF Unbeaten(lm, i) THEN 2 ELSE 0
        /\ last.deltas[z] = IF Unbeaten(lm, z) THEN 2 ELSE 0
    BY <1>1, <2>1, DecidedDeltas
  <2>3. /\ bots[z] \in BotType /\ bots[z].mHasPlayed
        /\ bots[z].mLastMove = lm[z] /\ bots[z].mLastDelta = last.deltas[z]
    BY <1>1, <2>1 DEF BotsRemember
  <2>4. lm[z] \in ValidMove
    BY <2>3 DEF BotType
  <2>5. lm[i] = IF Unbeaten(lm, z) THEN lm[z] ELSE ShiftClockwise(lm[z])
    BY <1>1, <2>1, <2>2, <2>4, OneMoveWins
  <2>6. PickMove(bots[z]) = {IF Unbeaten(lm, z) THEN lm[z] ELSE ShiftClockwise(lm[z])}
    BY <2>2, <2>3 DEF PickMove
  <2> QED
    BY <1>1, <2>5, <2>6, BotAnswers
<1>2. ASSUME BotsRemember, [Next]_vars
      PROVE  [last.outcome \in {"PlayerWins", "BotWins"} =>
                \A z \in ZhejiangSeats : \A i \in Seats :
                  last.deltas[i] = 2 => last'.moves[z] = last.moves[i]]_vars
  <2>1. ASSUME NEW ms \in [Seats -> Move], PlayRound(ms)  PROVE last'.moves = ms
    BY <2>1 DEF PlayRound
  <2> QED
    BY <1>1, <1>2, <2>1 DEF Next
<1> QED
  BY <1>2, MemoryInvariant, PTL DEF Spec, PlaysWhatWon

-----------------------------------------------------------------------------
(* Scoring: the two scoreboards.                                           *)

\* A row of the running scoreboard.
Row(k, value) == [name |-> Names[k], value |-> value]

\* The scoreboard of h rows that shows v.
Rows(h, v) == [k \in 1..h |-> Row(k, v[k])]

\* The scoreboard of h rows while a round is entered, after the first n seats: v are
\* the scores before the round, d its deltas.
Entered(h, v, d, n) ==
  [k \in 1 .. (IF n <= h THEN h ELSE n) |-> Row(k, IF k <= n THEN v[k] + d[k] ELSE v[k])]

\* Entering the next seat's delta: the row is there, or it is the one appended,
\* because no earlier seat has the same name.
LEMMA NextSeatEntered ==
  ASSUME IsInjective(Names), NEW h \in {0, Len(Names)}, NEW n \in 1..Len(Names),
         NEW v \in [Seats -> Nat], NEW d \in [Seats -> Nat], h = 0 => \A k \in Seats : v[k] = 0
  PROVE  Entered(h, v, d, n) = addScore(Entered(h, v, d, n - 1), Names[n], d[n])
<1> DEFINE rows == Entered(h, v, d, n - 1)
           all == withRow(rows, Names[n])
           top == IF n <= h THEN h ELSE n
<1>1. /\ Len(Names) \in Nat /\ Seats = 1..Len(Names)
      /\ \A a, b \in Seats : Names[a] = Names[b] => a = b
  BY NamesAssumption DEF Seats, IsInjective
<1>2. all = [k \in 1..top |-> Row(k, IF k <= n - 1 THEN v[k] + d[k] ELSE v[k])]
  <2>1. CASE h = Len(Names)
    <3>1. rows = [k \in 1..h |-> Row(k, IF k <= n - 1 THEN v[k] + d[k] ELSE v[k])] /\ top = h
      BY <1>1, <2>1 DEF Entered
    <3>2. n \in DOMAIN rows /\ rows[n].name = Names[n]
      BY <1>1, <2>1, <3>1 DEF Row
    <3> QED
      BY <3>1, <3>2 DEF withRow
  <2>2. CASE h = 0
    <3>1. /\ rows = [k \in 1..(n - 1) |-> Row(k, v[k] + d[k])]
          /\ top = n
      BY <1>1, <2>2 DEF Entered
    <3>2. \A k \in DOMAIN rows : rows[k].name # Names[n]
      BY <1>1, <3>1 DEF Row
    <3>3. all = Append(rows, [name |-> Names[n], value |-> 0])
      BY <3>2 DEF withRow
    <3>4. [name |-> Names[n], value |-> 0] = Row(n, v[n])
      BY <1>1, <2>2 DEF Row
    <3>5. \A k \in 1..(n - 1) : rows[k] = Row(k, v[k] + d[k])
      BY <3>1
    <3>6. DOMAIN rows = 1..(n - 1) /\ Len(rows) = n - 1
      BY <1>1, <3>1
    <3>7. Append(rows, Row(n, v[n])) = [k \in 1..n |-> IF k = n THEN Row(n, v[n]) ELSE rows[k]]
      BY <1>1, <3>1, <3>6
    <3>8. \A k \in 1..n : (IF k = n THEN Row(n, v[n]) ELSE rows[k])
                            = Row(k, IF k <= n - 1 THEN v[k] + d[k] ELSE v[k])
      BY <1>1, <3>5
    <3> QED
      BY <3>1, <3>3, <3>4, <3>7, <3>8
  <2> QED
    BY <2>1, <2>2
<1>3. ASSUME NEW k \in 1..top
      PROVE  /\ k \in Seats
             /\ (IF all[k].name = Names[n] THEN [all[k] EXCEPT !.value = @ + d[n]] ELSE all[k])
                = Row(k, IF k <= n THEN v[k] + d[k] ELSE v[k])
  <2>1. k \in Seats /\ n \in Seats /\ v[k] \in Nat /\ d[k] \in Nat
    BY <1>1
  <2>2. all[k] = Row(k, IF k <= n - 1 THEN v[k] + d[k] ELSE v[k])
    BY <1>2
  <2>3. all[k].name = Names[n] <=> k = n
    BY <1>1, <2>1, <2>2 DEF Row
  <2>4. CASE k = n
    BY <2>1, <2>2, <2>3, <2>4 DEF Row
  <2>5. CASE k # n
    BY <2>1, <2>2, <2>3, <2>5
  <2> QED
    BY <2>1, <2>4, <2>5
<1>4. DOMAIN all = 1..top
  BY <1>2
<1> HIDE DEF all, top
<1>5. addScore(rows, Names[n], d[n])
      = [k \in 1..top |-> IF all[k].name = Names[n] THEN [all[k] EXCEPT !.value = @ + d[n]] ELSE all[k]]
  BY <1>4 DEF addScore, all
<1> QED
  BY <1>3, <1>5 DEF Entered, top

\* ShowRoundResult enters every seat's delta in its row.
LEMMA RoundShown ==
  ASSUME IsInjective(Names), NEW h \in {0, Len(Names)},
         NEW v \in [Seats -> Nat], NEW d \in [Seats -> Nat], h = 0 => \A k \in Seats : v[k] = 0
  PROVE  ShowRoundResult(Rows(h, v), d) = [k \in Seats |-> Row(k, v[k] + d[k])]
<1> DEFINE m == Len(Names)
           rows == Rows(h, v)
           Shown(f) == f = [n \in 0..m |-> IF n = 0 THEN rows ELSE addScore(f[n - 1], Names[n], d[n])]
           e == [n \in 0..m |-> Entered(h, v, d, n)]
<1>1. m \in Nat /\ Seats = 1..m
  BY NamesAssumption DEF Seats
<1>2. Entered(h, v, d, 0) = rows
  BY <1>1 DEF Entered, Rows
<1>3. ASSUME NEW n \in 1..m  PROVE Entered(h, v, d, n) = addScore(Entered(h, v, d, n - 1), Names[n], d[n])
  BY NextSeatEntered
<1>4. Shown(e)
  <2>1. ASSUME NEW n \in 0..m
        PROVE  Entered(h, v, d, n) = IF n = 0 THEN rows ELSE addScore(e[n - 1], Names[n], d[n])
    <3>1. CASE n = 0
      BY <1>2, <3>1
    <3>2. CASE n # 0
      <4>1. n \in 1..m /\ n - 1 \in 0..m
        BY <1>1, <3>2
      <4>2. e[n - 1] = Entered(h, v, d, n - 1)
        BY <4>1
      <4> QED
        BY <1>3, <3>2, <4>1, <4>2
    <3> QED
      BY <3>1, <3>2
  <2> QED
    BY <2>1
<1> DEFINE shown == CHOOSE f : Shown(f)
<1>5. Shown(shown)
  <2> HIDE DEF e, Shown
  <2> QED
    BY <1>4
<1>6. ShowRoundResult(rows, d) = shown[m]
  BY DEF ShowRoundResult
<1>7. \A n \in 0..m : shown[n] = IF n = 0 THEN rows ELSE addScore(shown[n - 1], Names[n], d[n])
  <2> HIDE DEF shown
  <2> QED
    BY <1>5
<1> HIDE DEF shown, rows, m
<1> DEFINE T == {n \in 0..m : shown[n] = Entered(h, v, d, n)}
<1>8. T \in SUBSET (0..m) /\ 0 \in T
  BY <1>1, <1>2, <1>7
<1>9. ASSUME NEW i \in T, i < m  PROVE i + 1 \in T
  <2>1. i + 1 \in 1..m /\ i + 1 # 0 /\ (i + 1) - 1 = i
    BY <1>1, <1>9
  <2>2. shown[i + 1] = addScore(shown[i], Names[i + 1], d[i + 1])
    BY <1>7, <2>1
  <2>3. Entered(h, v, d, i + 1) = addScore(Entered(h, v, d, i), Names[i + 1], d[i + 1])
    BY <1>3, <2>1
  <2> QED
    BY <2>1, <2>2, <2>3
<1>10. m \in T
  <2> HIDE DEF T
  <2>1. T = 0..m
    BY <1>1, <1>8, <1>9, BoundedInduction
  <2> QED
    BY <1>1, <2>1
<1>11. Entered(h, v, d, m) = [k \in Seats |-> Row(k, v[k] + d[k])]
  BY <1>1 DEF Entered, m
<1> QED
  BY <1>6, <1>10, <1>11 DEF rows

\* Before the first round both scoreboards say nothing, afterwards the same.
BoardFollowsScores ==
  /\ scores \in [Seats -> Nat]
  /\ \/ board = <<>> /\ last = NoRound /\ \A i \in Seats : scores[i] = 0
     \/ board = [i \in Seats |-> Row(i, scores[i])]

\* When all display names differ, the scoreboard kept by name shows the scores kept
\* by position, for any number of participants (QtView.h:56).  The run MCSharedName
\* shows that the hypothesis is needed.
THEOREM BoardAlwaysShowsScores == IsInjective(Names) => (Spec => []BoardShowsScores)
<1> SUFFICES ASSUME IsInjective(Names)  PROVE Spec => []BoardShowsScores
  OBVIOUS
<1>1. Init => BoardFollowsScores
  BY DEF Init, BoardFollowsScores
<1>2. BoardFollowsScores /\ [Next]_vars => BoardFollowsScores'
  <2> SUFFICES ASSUME BoardFollowsScores, [Next]_vars  PROVE BoardFollowsScores'
    OBVIOUS
  <2>1. CASE UNCHANGED vars
    BY <2>1 DEF vars, BoardFollowsScores
  <2>2. ASSUME NEW ms \in [Seats -> Move], PlayRound(ms)  PROVE BoardFollowsScores'
    <3> DEFINE d == [i \in Seats |-> EvaluateRound(ms).deltas[i]]
    <3>1. d \in [Seats -> Nat] /\ EvaluateRound(ms).deltas = d
      <4>1. ms \in Seq(Move) /\ DOMAIN ms = Seats
        BY TablesAreSequences
      <4>2. \A i \in Seats : EvaluateRound(ms).deltas[i] \in Nat
        BY <4>1, DeltasAreNumbers
      <4>3. EvaluateRound(ms).deltas = [i \in DOMAIN ms |-> EvaluateRound(ms).deltas[i]]
        BY DEF EvaluateRound, awardValid, awardTop
      <4> QED
        BY <4>1, <4>2, <4>3
    <3> HIDE DEF d
    <3>2. /\ board' = ShowRoundResult(board, d)
          /\ scores' = [i \in Seats |-> scores[i] + d[i]]
          /\ scores \in [Seats -> Nat]
      BY <2>2, <3>1 DEF PlayRound, BoardFollowsScores
    <3>3. PICK h \in {0, Len(Names)} : /\ board = [k \in 1..h |-> Row(k, scores[k])]
                                       /\ h = 0 => \A k \in Seats : scores[k] = 0
      <4>1. CASE board = <<>> /\ \A i \in Seats : scores[i] = 0
        <5>1. board = [k \in 1..0 |-> Row(k, scores[k])]
          BY <4>1
        <5> QED
          BY <4>1, <5>1
      <4>2. CASE board = [i \in Seats |-> Row(i, scores[i])]
        <5>1. Seats = 1..Len(Names) /\ Len(Names) # 0
          BY NamesAssumption DEF Seats
        <5> QED
          BY <4>2, <5>1
      <4> QED
        BY <4>1, <4>2 DEF BoardFollowsScores
    <3>4. board' = [k \in Seats |-> Row(k, scores[k] + d[k])]
      <4>1. PICK v \in [Seats -> Nat] : v = scores
        BY <3>2
      <4>2. ShowRoundResult(Rows(h, v), d) = [k \in Seats |-> Row(k, v[k] + d[k])]
        <5>1. h = 0 => \A k \in Seats : v[k] = 0
          BY <3>3, <4>1
        <5> QED
          BY <3>1, <5>1, RoundShown
      <4> QED
        BY <3>2, <3>3, <4>1, <4>2 DEF Rows
    <3>5. /\ scores' \in [Seats -> Nat]
          /\ \A i \in Seats : scores'[i] = scores[i] + d[i]
      BY <3>1, <3>2
    <3> QED
      BY <3>4, <3>5 DEF BoardFollowsScores, Row
  <2> QED
    BY <2>1, <2>2 DEF Next
<1>3. BoardFollowsScores => BoardShowsScores
  BY DEF BoardFollowsScores, BoardShowsScores, Row
<1> QED
  BY <1>1, <1>2, <1>3, PTL DEF Spec

==============================================================================
