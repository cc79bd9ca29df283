---------------------------- MODULE CommonLemmas ----------------------------
(***************************************************************************)
(* What the proofs of several components need.                             *)
(*                                                                         *)
(* Induction over numbers and sequences, stated for sets instead of        *)
(* operators, so that the provers can use it: a set of numbers that        *)
(* contains 0 and every successor is Nat, and a set of sequences that      *)
(* contains <<>> and every longer sequence is Seq.  From the first follows *)
(* that a loop of n turns has a result, which is what makes a recursive    *)
(* function over 0..n equal to its definition.                             *)
(*                                                                         *)
(* What GameEngine's operators return, for sequences of moves of every     *)
(* length.  Writing Credits(ms, i) for the set of seats that seat i is     *)
(* credited with, Wins is its cardinality, so set inclusion between two    *)
(* credit sets orders two seats.  A valid move that no seat beats is       *)
(* credited with everything any seat is credited with; a beaten one,       *)
(* unless all three moves are on the table, with strictly less than the    *)
(* seat that beats it.                                                     *)
(***************************************************************************)
EXTENDS GameEngine, Integers, FiniteSetTheorems, SequenceTheorems, WellFoundedInduction, TLAPS

-----------------------------------------------------------------------------
(* Induction, and sequences.                                               *)

Below == OpToRel(<, Nat)

\* Every set of numbers has a least element.
LEMMA LeastNumber ==
  ASSUME NEW T \in SUBSET Nat, T # {}
  PROVE  \E x \in T : \A y \in T : x <= y
<1>1. IsWellFoundedOn(Below, Nat)
  BY NatLessThanWellFounded DEF Below
<1>2. PICK x \in T : \A y \in T : ~(<<y, x>> \in Below)
  BY <1>1, WFMin
<1>3. \A m, n \in Nat : <<m, n>> \in Below <=> m < n
  BY DEF Below, OpToRel
<1>4. ASSUME NEW y \in T  PROVE x <= y
  <2>1. ~(<<y, x>> \in Below)
    BY <1>2
  <2>2. ~(y < x)
    BY <2>1, <1>3
  <2> QED
    BY <2>2
<1> QED
  BY <1>4

\* Induction over the numbers.
LEMMA NumberInduction ==
  ASSUME NEW T \in SUBSET Nat, 0 \in T, \A n \in T : n + 1 \in T
  PROVE  T = Nat
<1> SUFFICES ASSUME Nat \ T # {}  PROVE FALSE
  OBVIOUS
<1>1. PICK x \in Nat \ T : \A y \in Nat \ T : x <= y
  BY LeastNumber
<1>2. x - 1 \in T
  BY <1>1
<1> QED
  BY <1>1, <1>2

\* Induction up to a bound.
LEMMA BoundedInduction ==
  ASSUME NEW n \in Nat, NEW T \in SUBSET (0..n), 0 \in T,
         \A i \in T : i < n => i + 1 \in T
  PROVE  T = 0..n
<1> DEFINE U == T \cup {i \in Nat : i > n}
<1>1. 0 \in U /\ \A i \in U : i \in Nat
  OBVIOUS
<1>2. \A i \in U : i + 1 \in U
  OBVIOUS
<1>3. U = Nat
  <2> HIDE DEF U
  <2> QED
    BY <1>1, <1>2, NumberInduction
<1>4. ASSUME NEW i \in 0..n  PROVE i \in T
  BY <1>3
<1> QED
  BY <1>4

\* Induction over sequences, element by element.
LEMMA SequenceInduction ==
  ASSUME NEW S, NEW T \in SUBSET Seq(S), <<>> \in T,
         \A s \in T, x \in S : Append(s, x) \in T
  PROVE  T = Seq(S)
<1> DEFINE Known == {n \in Nat : \A s \in Seq(S) : Len(s) = n => s \in T}
<1>1. 0 \in Known
  OBVIOUS
<1>2. ASSUME NEW n \in Known  PROVE n + 1 \in Known
  <2> SUFFICES ASSUME NEW s \in Seq(S), Len(s) = n + 1  PROVE s \in T
    OBVIOUS
  <2>1. PICK front \in Seq(S), x \in S : s = Append(front, x)
    <3>1. s # <<>>
      OBVIOUS
    <3> HIDE DEF Known
    <3> QED
      BY <3>1, SequenceEmptyOrAppend
  <2>2. front \in T
    BY <2>1
  <2> QED
    BY <2>1, <2>2
<1>3. Known = Nat
  <2>1. Known \in SUBSET Nat
    OBVIOUS
  <2> HIDE DEF Known
  <2> QED
    BY <1>1, <1>2, <2>1, NumberInduction
<1>4. ASSUME NEW s \in Seq(S)  PROVE s \in T
  <2>1. Len(s) \in Known
    BY <1>3
  <2> QED
    BY <2>1
<1> QED
  BY <1>4

\* A loop of n turns that starts from a, and whose i-th turn takes x to step[i][x],
\* passes through one value after the other.
LEMMA LoopsHaveResults ==
  ASSUME NEW S, NEW a \in S, NEW n \in Nat, NEW step \in [1..n -> [S -> S]]
  PROVE  \E f \in [0..n -> S] : f[0] = a /\ \A i \in 1..n : f[i] = step[i][f[i - 1]]
<1> DEFINE Runs(f, m) == /\ f \in [0..m -> S]
                         /\ f[0] = a
                         /\ \A i \in 1..m : f[i] = step[i][f[i - 1]]
           Known == {m \in 0..n : \E f : Runs(f, m)}
<1>1. 0 \in Known
  <2>1. Runs([i \in 0..0 |-> a], 0)
    OBVIOUS
  <2> HIDE DEF Runs
  <2> QED
    BY <2>1
<1>2. ASSUME NEW m \in Known, m < n  PROVE m + 1 \in Known
  <2>1. PICK f : Runs(f, m)
    OBVIOUS
  <2> DEFINE g == [i \in 0..(m + 1) |-> IF i <= m THEN f[i] ELSE step[m + 1][f[m]]]
  <2>2. step[m + 1] \in [S -> S] /\ f[m] \in S
    BY <1>2, <2>1
  <2>3. g \in [0..(m + 1) -> S] /\ g[0] = a
    BY <2>1, <2>2
  <2>4. ASSUME NEW i \in 1..(m + 1)  PROVE g[i] = step[i][g[i - 1]]
    <3>1. CASE i <= m
      BY <2>1, <3>1
    <3>2. CASE i = m + 1
      BY <3>2
    <3> QED
      BY <3>1, <3>2
  <2>5. Runs(g, m + 1)
    BY <2>3, <2>4
  <2> HIDE DEF g, Runs
  <2> QED
    BY <2>5, <1>2
<1>3. Known = 0..n
  <2>1. Known \in SUBSET (0..n)
    OBVIOUS
  <2> HIDE DEF Known
  <2> QED
    BY <1>1, <1>2, <2>1, BoundedInduction
<1>4. PICK f : Runs(f, n)
  BY <1>3
<1> QED
  BY <1>4

\* What is put before a sequence and what is put after it do not meet.
LEMMA PrependAppend ==
  ASSUME NEW E, NEW x \in E, NEW q \in Seq(E), NEW e \in E
  PROVE  /\ Append(<<x>> \o q, e) = <<x>> \o Append(q, e)
         /\ <<x>> \o <<>> = Append(<<>>, x)
         /\ <<x>> \o q # <<>> /\ Head(<<x>> \o q) = x /\ Tail(<<x>> \o q) = q
<1>1. /\ Append(<<x>> \o q, e) \in Seq(E) /\ <<x>> \o Append(q, e) \in Seq(E)
      /\ Len(Append(<<x>> \o q, e)) = Len(q) + 2 /\ Len(<<x>> \o Append(q, e)) = Len(q) + 2
  OBVIOUS
<1>2. \A i \in 1..(Len(q) + 2) : Append(<<x>> \o q, e)[i] = (<<x>> \o Append(q, e))[i]
  OBVIOUS
<1>3. Append(<<x>> \o q, e) = <<x>> \o Append(q, e)
  BY <1>1, <1>2, SeqEqual
<1>4. <<x>> \o <<>> = Append(<<>>, x)
  OBVIOUS
<1>5. <<x>> \o q # <<>> /\ Head(<<x>> \o q) = x
  OBVIOUS
<1>6. Tail(<<x>> \o q) = q
  <2>1. /\ Tail(<<x>> \o q) \in Seq(E) /\ Len(Tail(<<x>> \o q)) = Len(q)
        /\ \A i \in 1..Len(q) : Tail(<<x>> \o q)[i] = q[i]
    OBVIOUS
  <2> QED
    BY <2>1, SeqEqual
<1> QED
  BY <1>3, <1>4, <1>5, <1>6

-----------------------------------------------------------------------------
(* The round engine.                                                       *)

Credits(ms, i) == {l \in DOMAIN ms \ {i} : Takes(ms, i, l)}

\* The two halves of the double loop agree: a seat is credited with a pairing
\* exactly when its move is valid and the other forfeited or is beaten by it,
\* whichever of the two has the lower index.
LEMMA TakesMeans ==
  ASSUME NEW ms \in Seq(Move), NEW i \in DOMAIN ms, NEW l \in DOMAIN ms, i # l
  PROVE  Takes(ms, i, l) <=>
           ms[i] # "Invalid" /\ (ms[l] = "Invalid" \/ Beats(ms[i], ms[l]))
<1>1. i \in Nat /\ l \in Nat /\ (i < l \/ l < i)
  OBVIOUS
<1>2. ms[i] \in Move /\ ms[l] \in Move
  OBVIOUS
<1> QED
  BY <1>1, <1>2 DEF Takes, GetScore, Beats, Move, ValidMove

\* Credit sets are finite, so Wins counts them.
LEMMA CreditsFinite ==
  ASSUME NEW ms \in Seq(Move), NEW i \in DOMAIN ms
  PROVE  /\ IsFiniteSet(Credits(ms, i))
         /\ Wins(ms, i) = Cardinality(Credits(ms, i))
         /\ Wins(ms, i) \in Nat
<1>1. IsFiniteSet(1 .. Len(ms))
  BY FS_Interval
<1>2. Credits(ms, i) \in SUBSET (1 .. Len(ms))
  BY DEF Credits
<1>3. IsFiniteSet(Credits(ms, i))
  BY <1>1, <1>2, FS_Subset
<1> QED
  BY <1>3, FS_CardinalityType DEF Wins, Credits

\* A larger credit set means at least as many wins, a strictly larger one more.
LEMMA MoreCredits ==
  ASSUME NEW ms \in Seq(Move), NEW i \in DOMAIN ms, NEW l \in DOMAIN ms,
         Credits(ms, i) \subseteq Credits(ms, l)
  PROVE  /\ Wins(ms, i) <= Wins(ms, l)
         /\ Credits(ms, i) # Credits(ms, l) => Wins(ms, i) < Wins(ms, l)
<1>1. /\ Cardinality(Credits(ms, i)) <= Cardinality(Credits(ms, l))
      /\ Cardinality(Credits(ms, l)) = Cardinality(Credits(ms, i))
           => Credits(ms, l) = Credits(ms, i)
  BY CreditsFinite, FS_Subset
<1> QED
  BY <1>1, CreditsFinite

Unbeaten(ms, i) == ms[i] # "Invalid" /\ \A l \in DOMAIN ms : ~Beats(ms[l], ms[i])

\* An unbeaten valid seat is credited with everything any seat is credited with.
LEMMA UnbeatenIsTop ==
  ASSUME NEW ms \in Seq(Move), NEW i \in DOMAIN ms, Unbeaten(ms, i)
  PROVE  i \in TopSeats(ms)
<1>1. ASSUME NEW l \in DOMAIN ms  PROVE  Credits(ms, l) \subseteq Credits(ms, i)
  <2> SUFFICES ASSUME NEW k \in Credits(ms, l)  PROVE  k \in Credits(ms, i)
    OBVIOUS
  <2>1. k \in DOMAIN ms /\ k # l /\ Takes(ms, l, k)
    BY DEF Credits
  <2>2. ms[l] # "Invalid" /\ (ms[k] = "Invalid" \/ Beats(ms[l], ms[k]))
    BY <1>1, <2>1, TakesMeans
  <2>3. ms[i] \in ValidMove /\ ms[l] \in ValidMove /\ ms[k] \in Move
    BY <2>1, <2>2 DEF Unbeaten, Move
  <2>4. ~Beats(ms[l], ms[i]) /\ ~Beats(ms[k], ms[i])
    BY <1>1, <2>1 DEF Unbeaten
  <2>5. ms[k] = "Invalid" \/ Beats(ms[i], ms[k])
    \* ms[i] is ms[l], or beats it; in the second case ms[k] would beat ms[i]
    BY <2>2, <2>3, <2>4 DEF Beats, Move, ValidMove
  <2>6. k # i
    BY <2>3, <2>5 DEF Beats, ValidMove
  <2> QED
    BY <2>1, <2>3, <2>5, <2>6, TakesMeans DEF Credits, ValidMove
<1> QED
  BY <1>1, MoreCredits DEF TopSeats

\* A seat whose move is beaten has strictly fewer wins than the seat beating it.
LEMMA BeatenIsNotTop ==
  ASSUME NEW ms \in Seq(Move), NEW i \in DOMAIN ms, NEW l \in DOMAIN ms,
         Beats(ms[l], ms[i]), ~(ValidMove \subseteq Played(ms))
  PROVE  Wins(ms, i) < Wins(ms, l)
<1>1. ms[i] \in ValidMove /\ ms[l] \in ValidMove /\ i # l
  BY DEF Beats, ValidMove
<1>2. Credits(ms, i) \subseteq Credits(ms, l)
  <2> SUFFICES ASSUME NEW k \in Credits(ms, i)  PROVE  k \in Credits(ms, l)
    OBVIOUS
  <2>1. k \in DOMAIN ms /\ k # i /\ Takes(ms, i, k)
    BY DEF Credits
  <2>2. ms[k] = "Invalid" \/ Beats(ms[i], ms[k])
    BY <2>1, TakesMeans
  <2>3. ms[k] = "Invalid"
    \* if ms[i] beat ms[k], the seats l, i and k would hold all three moves
    <3>1. ms[k] \in Move /\ {ms[i], ms[l], ms[k]} \subseteq Played(ms)
      BY <2>1 DEF Played
    <3> QED
      BY <1>1, <2>2, <3>1 DEF Beats, Move, ValidMove
  <2> QED
    BY <1>1, <2>1, <2>3, TakesMeans DEF Credits, ValidMove
<1>3. i \in Credits(ms, l) /\ i \notin Credits(ms, i)
  BY <1>1, TakesMeans DEF Credits, ValidMove
<1> QED
  BY <1>2, <1>3, MoreCredits

\* The closed form of a decided round.
LEMMA TopIsUnbeaten ==
  ASSUME NEW ms \in Seq(Move), NEW i \in DOMAIN ms, ms[1] # "Invalid",
         ~(ValidMove \subseteq Played(ms)), ~ \A l \in DOMAIN ms : Wins(ms, l) = 0
  PROVE  i \in TopSeats(ms) <=> Unbeaten(ms, i)
<1>1. CASE Unbeaten(ms, i)
  BY <1>1, UnbeatenIsTop
<1>2. CASE ms[i] = "Invalid"
  <2>1. Credits(ms, i) = {}
    BY <1>2 DEF Credits, Takes
  <2>2. Wins(ms, i) = 0
    BY <2>1, CreditsFinite, FS_EmptySet
  <2>3. PICK l \in DOMAIN ms : Wins(ms, l) # 0
    OBVIOUS
  <2>4. Wins(ms, i) < Wins(ms, l)
    BY <2>2, <2>3, CreditsFinite
  <2> QED
    BY <1>2, <2>2, <2>3, <2>4, CreditsFinite DEF TopSeats, Unbeaten
<1>3. ASSUME NEW l \in DOMAIN ms, Beats(ms[l], ms[i])
      PROVE  i \in TopSeats(ms) <=> Unbeaten(ms, i)
  <2>1. Wins(ms, i) < Wins(ms, l)
    BY <1>3, BeatenIsNotTop
  <2> QED
    BY <1>3, <2>1, CreditsFinite DEF TopSeats, Unbeaten
<1> QED
  BY <1>1, <1>2, <1>3 DEF Unbeaten

\* No pairing has a winner exactly when all participants hold one valid move.
LEMMA NoWinsMeansUnanimous ==
  ASSUME NEW ms \in Seq(Move) \ {<<>>}, ms[1] # "Invalid"
  PROVE  (\A i \in DOMAIN ms : Wins(ms, i) = 0) <=> (\A i \in DOMAIN ms : ms[i] = ms[1])
<1>1. 1 \in DOMAIN ms
  OBVIOUS
<1>2. ASSUME NEW i \in DOMAIN ms
      PROVE  Wins(ms, i) = 0 <=> Credits(ms, i) = {}
  BY <1>2, CreditsFinite, FS_EmptySet
<1>3. ASSUME \A i \in DOMAIN ms : ms[i] = ms[1], NEW i \in DOMAIN ms
      PROVE  Credits(ms, i) = {}
  <2>1. ASSUME NEW l \in Credits(ms, i)  PROVE FALSE
    <3>1. l \in DOMAIN ms /\ i # l /\ Takes(ms, i, l)
      BY <2>1 DEF Credits
    <3>2. ms[l] = "Invalid" \/ Beats(ms[i], ms[l])
      BY <1>3, <3>1, TakesMeans
    <3> QED
      BY <1>3, <3>1, <3>2 DEF Beats
  <2> QED
    BY <2>1
<1>4. ASSUME NEW i \in DOMAIN ms, ms[i] # ms[1]
      PROVE  Credits(ms, i) # {} \/ Credits(ms, 1) # {}
  <2>1. i # 1 /\ ms[i] \in Move /\ ms[1] \in ValidMove
    BY <1>1, <1>4 DEF Move
  <2>2. CASE ms[i] = "Invalid" \/ Beats(ms[1], ms[i])
    BY <1>1, <2>1, <2>2, TakesMeans DEF Credits
  <2>3. CASE Beats(ms[i], ms[1])
    BY <1>1, <2>1, <2>3, TakesMeans DEF Credits, Beats
  <2> QED
    BY <1>4, <2>1, <2>2, <2>3 DEF Beats, Move, ValidMove
<1> QED
  BY <1>1, <1>2, <1>3, <1>4

\* In a decided round the unbeaten seats get two points and the others none.
LEMMA DecidedDeltas ==
  ASSUME NEW ms \in Seq(Move), NEW i \in DOMAIN ms,
         EvaluateRound(ms).outcome \in {"PlayerWins", "BotWins"}
  PROVE  /\ ms[1] # "Invalid" /\ ~(ValidMove \subseteq Played(ms))
         /\ EvaluateRound(ms).deltas[i] = IF Unbeaten(ms, i) THEN 2 ELSE 0
<1>1. /\ ms[1] # "Invalid"
      /\ ~(ValidMove \subseteq Played(ms))
      /\ ~ \A l \in DOMAIN ms : Wins(ms, l) = 0
  BY DEF EvaluateRound
<1>2. EvaluateRound(ms).deltas[i] = IF i \in TopSeats(ms) THEN 2 ELSE 0
  BY <1>1 DEF EvaluateRound, awardTop
<1> QED
  BY <1>1, <1>2, TopIsUnbeaten

\* Where a pairing has a winner, somebody is not unbeaten.
LEMMA SomebodyIsBeaten ==
  ASSUME NEW ms \in Seq(Move) \ {<<>>}, ms[1] # "Invalid", ~ \A i \in DOMAIN ms : Wins(ms, i) = 0
  PROVE  \E i \in DOMAIN ms : ~Unbeaten(ms, i)
<1>1. SUFFICES ASSUME \A i \in DOMAIN ms : Unbeaten(ms, i)  PROVE FALSE
  OBVIOUS
<1>2. 1 \in DOMAIN ms
  OBVIOUS
<1>3. \A i \in DOMAIN ms : ms[i] = ms[1]
  \* of two different valid moves one beats the other
  BY <1>1, <1>2 DEF Unbeaten, Beats, Move, ValidMove
<1> QED
  BY <1>3, NoWinsMeansUnanimous

\* Unless all three moves are on the table, somebody is unbeaten.
LEMMA SomebodyIsUnbeaten ==
  ASSUME NEW ms \in Seq(Move) \ {<<>>}, ms[1] # "Invalid", ~(ValidMove \subseteq Played(ms))
  PROVE  \E i \in DOMAIN ms : Unbeaten(ms, i)
<1>1. 1 \in DOMAIN ms /\ ms[1] \in ValidMove
  BY DEF Move
<1>2. CASE \A l \in DOMAIN ms : ~Beats(ms[l], ms[1])
  BY <1>1, <1>2 DEF Unbeaten
<1>3. ASSUME NEW l \in DOMAIN ms, Beats(ms[l], ms[1])
      PROVE  Unbeaten(ms, l)
  <2>1. ASSUME NEW k \in DOMAIN ms, Beats(ms[k], ms[l])  PROVE FALSE
    <3>1. {ms[1], ms[l], ms[k]} \subseteq Played(ms)
      BY <1>1, <1>3, <2>1 DEF Played
    <3> QED
      BY <1>1, <1>3, <2>1, <3>1 DEF Beats, ValidMove
  <2> QED
    BY <1>3, <2>1 DEF Unbeaten, Beats
<1> QED
  BY <1>2, <1>3

=============================================================================
