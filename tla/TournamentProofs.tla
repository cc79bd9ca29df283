-------------------------- MODULE TournamentProofs --------------------------
(***************************************************************************)
(* Tournaments of any number of participants.                              *)
(*                                                                         *)
(* Tokens.  The line that answers "Press Enter" and the player's move      *)
(* never meet in the stream they share.  Each is one token, made by the    *)
(* worker as a signal, turned into a line by the GUI thread (by itself, or *)
(* when the player clicks) and taken by the worker, which does nothing     *)
(* else meanwhile.  While the window is open the worker leaves the place   *)
(* where it waits only with the token, and so nothing is ever left over.   *)
(* After closing, nothing is pushed.                                       *)
(*                                                                         *)
(* Places.  The groups still to play, the group that plays and the winners *)
(* are lists that share no member.  Shuffling keeps the members (an        *)
(* injection between finite sets of one size is onto), cutting into pairs  *)
(* and a last group keeps them too, and so does each step of a match but   *)
(* one: after a decided round the winners, found by the loop over the      *)
(* seats, go on.  That nobody else leaves, and that a deciding match has   *)
(* two players at least, rests on the engine: every round is either one    *)
(* point for everybody or two for some and none for the others.            *)
(***************************************************************************)
EXTENDS Tournament, CommonLemmas

-----------------------------------------------------------------------------
(* Tokens.                                                                 *)

IsOnly(s, x) == Len(s) = 1 /\ s[1] = x

TypeInv == events \in Seq({"enter", "prompt", "over"}) /\ lines \in Seq(Line)

ClosedInv == /\ closed \in BOOLEAN /\ eof \in BOOLEAN
             /\ phase = "open" <=> ~closed
             /\ eof => closed /\ Len(lines) = 0
             /\ forfeited => closed

\* What is in the stream is for the reader that the worker is at.
StreamInv == \/ Len(lines) = 0
             \/ pc = "enter" /\ IsOnly(lines, "enter")
             \/ pc = "reading" /\ IsOnly(lines, "move")

\* Where the token is while the window is open.
Nowhere        == Len(events) = 0 /\ Len(lines) = 0 /\ mState # "AwaitingMove"
Signalled(s)   == IsOnly(events, s) /\ Len(lines) = 0 /\ mState # "AwaitingMove"
AskedToMove    == Len(events) = 0 /\ Len(lines) = 0 /\ mState = "AwaitingMove"
Pushed(l)      == Len(events) = 0 /\ IsOnly(lines, l) /\ mState # "AwaitingMove"

TokenInv ==
  phase = "open" =>
    IF pc = "enter" THEN Signalled("enter") \/ Pushed("enter")
    ELSE IF pc = "reading" THEN Signalled("prompt") \/ AskedToMove \/ Pushed("move")
    ELSE IF pc = "finished" THEN Signalled("over") \/ Nowhere
    ELSE Nowhere

IInv == TypeInv /\ ClosedInv /\ StreamInv /\ TokenInv

\* Nothing is on its way when the worker starts.
LEMMA InitInvariant == Init => IInv
<1> SUFFICES ASSUME Init  PROVE IInv
  OBVIOUS
<1> USE DEF Init, Window!Init, Stream!Init
<1>1. TypeInv /\ StreamInv
  BY DEF TypeInv, StreamInv
<1>2. phase = "open" /\ closed = FALSE /\ eof = FALSE /\ forfeited = FALSE
  OBVIOUS
<1>3. ClosedInv
  BY <1>2 DEF ClosedInv
<1>4. TokenInv
  BY DEF TokenInv, Nowhere
<1> QED
  BY <1>1, <1>3, <1>4 DEF IInv

\* Every step keeps the tokens.
LEMMA StepInvariant == IInv /\ [Next]_vars => IInv'
<1> SUFFICES ASSUME IInv, [Next]_vars  PROVE IInv'
  OBVIOUS
<1> USE DEF IInv, TypeInv, ClosedInv, StreamInv, TokenInv, IsOnly, Nowhere, Signalled, AskedToMove,
            Pushed, Line, gui, stream, matches, reader
<1>1. CASE StartRound \/ StartMatch \/ EndRound \/ PlayWithoutHuman \/ ReplayDraw
  BY <1>1 DEF StartRound, StartMatch, EndRound, PlayWithoutHuman, ReplayDraw
<1>2. CASE ShowTournamentWinner
  BY <1>2 DEF ShowTournamentWinner
<1>3. CASE AskForEnter
  BY <1>3 DEF AskForEnter
<1>4. CASE ReadEnter
  <2>1. CASE Stream!Getline
    BY <1>4, <2>1 DEF ReadEnter, Stream!Getline
  <2>2. CASE Stream!GetlineFails
    BY <1>4, <2>2 DEF ReadEnter, Stream!GetlineFails
  <2> QED
    BY <1>4, <2>1, <2>2 DEF ReadEnter
<1>5. ASSUME NEW b \in Bots, BotDecides(b)  PROVE IInv'
  BY <1>5 DEF BotDecides
<1>6. CASE ShowMovePrompt
  BY <1>6 DEF ShowMovePrompt
<1>7. CASE ReadAttempt
  <2>1. /\ pc = "reading" /\ lines # <<>> /\ line' = Head(lines) /\ lines' = Tail(lines)
        /\ UNCHANGED <<closed, eof, events, phase, mState>>
    BY <1>7 DEF ReadAttempt, Stream!Getline
  <2>2. IsOnly(lines, "move") /\ line' = "move"
    BY <2>1
  <2>3. pc' = "scoring" /\ UNCHANGED forfeited
    BY <1>7, <2>2 DEF ReadAttempt
  <2> QED
    BY <2>1, <2>2, <2>3
<1>8. CASE ReadEof
  BY <1>8 DEF ReadEof, Stream!GetlineFails
<1>9. CASE ScoreRound
  BY <1>9 DEF ScoreRound
<1>10. CASE DecideRound
  <2>1. pc = "scored" /\ pc' \in {"match", "round"} /\ UNCHANGED <<gui, events, stream, forfeited>>
    BY <1>10 DEF DecideRound, NarrowGroup, EndMatch, DecidingMatch
  <2> QED
    BY <2>1
<1>11. CASE DeliverEnter
  BY <1>11 DEF DeliverEnter, Stream!PushLine
<1>12. CASE DeliverPrompt
  BY <1>12 DEF DeliverPrompt, Window!onMovePrompt, Window!setState
<1>13. CASE DeliverGameFinished
  BY <1>13 DEF DeliverGameFinished, Window!onGameFinished, Window!setState
<1>14. CASE ClickMove
  BY <1>14 DEF ClickMove, Window!pushMove, Window!setState, Stream!PushLine
<1>15. CASE CloseWindow
  BY <1>15 DEF CloseWindow, Stream!Close
<1>16. CASE Join
  BY <1>16 DEF Join
<1>17. CASE UNCHANGED vars
  BY <1>17 DEF vars
<1> QED
  BY <1>1, <1>2, <1>3, <1>4, <1>5, <1>6, <1>7, <1>8, <1>9, <1>10, <1>11, <1>12, <1>13, <1>14,
     <1>15, <1>16, <1>17 DEF Next, Worker, Deliver

\* For any participants: "Press Enter" is never answered by a move nor a prompt by
\* an empty line, so a player who stays never forfeits.
THEOREM LinesAlwaysReachTheirReader == Spec => []LinesReachTheirReader
<1>1. IInv => LinesReachTheirReader
  <2> SUFFICES ASSUME IInv  PROVE LinesReachTheirReader
    OBVIOUS
  <2>1. forfeited => closed
    BY DEF IInv, ClosedInv
  <2>2. Len(lines) = 0 => lines = <<>> /\ ToSet(lines) = {}
    BY DEF IInv, TypeInv, ToSet
  <2>3. ASSUME NEW l, IsOnly(lines, l)  PROVE ToSet(lines) \subseteq {l}
    BY <2>3 DEF IInv, TypeInv, ToSet, IsOnly
  <2> QED
    BY <2>1, <2>2, <2>3 DEF IInv, StreamInv, LinesReachTheirReader
<1> QED
  BY InitInvariant, StepInvariant, <1>1, PTL DEF Spec

-----------------------------------------------------------------------------
(* Lists of participants.                                                  *)

\* Who is on the lists, place by place.
LEMMA MembersAre ==
  ASSUME NEW lists, NEW x
  PROVE  x \in Members(lists) <=> \E k \in DOMAIN lists : \E i \in DOMAIN lists[k] : lists[k][i] = x
BY DEF Members, ToSet

\* Lists, no two of which share a member.
Apart(lists, g, won) ==
  /\ OnePlaceEach(lists)
  /\ IsInjective(g) /\ IsInjective(won) /\ ToSet(g) \cap ToSet(won) = {}
  /\ Members(lists) \cap (ToSet(g) \cup ToSet(won)) = {}

\* Two more lists put after the others.
LEMMA TwoMoreLists ==
  ASSUME NEW P, NEW lists \in Seq(Seq(P)), NEW g \in Seq(P), NEW won \in Seq(P)
  PROVE  /\ Members(lists \o <<g, won>>) = Members(lists) \cup ToSet(g) \cup ToSet(won)
         /\ Apart(lists, g, won) => OnePlaceEach(lists \o <<g, won>>)
<1> DEFINE n == Len(lists)
           all == lists \o <<g, won>>
<1>0. n \in Nat /\ DOMAIN lists = 1..n /\ DOMAIN all = 1..(n + 2)
  OBVIOUS
<1>1. /\ \A k \in DOMAIN lists : all[k] = lists[k]
      /\ all[n + 1] = g /\ all[n + 2] = won
  OBVIOUS
<1> HIDE DEF n, all
<1>2. ASSUME NEW k \in DOMAIN all  PROVE k \in DOMAIN lists \/ k = n + 1 \/ k = n + 2
  BY <1>0
<1>3. /\ n + 1 \in DOMAIN all /\ n + 2 \in DOMAIN all
      /\ \A k \in DOMAIN lists : k \in DOMAIN all
  BY <1>0
<1>4. Members(all) = Members(lists) \cup ToSet(g) \cup ToSet(won)
  <2>1. ASSUME NEW x \in Members(all)  PROVE x \in Members(lists) \cup ToSet(g) \cup ToSet(won)
    <3>1. PICK k \in DOMAIN all : \E i \in DOMAIN all[k] : all[k][i] = x
      BY <2>1, MembersAre
    <3>2. CASE k \in DOMAIN lists
      BY <3>1, <3>2, <1>1, MembersAre
    <3>3. CASE k = n + 1
      BY <3>1, <3>3, <1>1 DEF ToSet
    <3>4. CASE k = n + 2
      BY <3>1, <3>4, <1>1 DEF ToSet
    <3> QED
      BY <1>2, <3>2, <3>3, <3>4
  <2>2. ASSUME NEW x \in Members(lists)  PROVE x \in Members(all)
    <3>1. PICK k \in DOMAIN lists : \E i \in DOMAIN lists[k] : lists[k][i] = x
      BY <2>2, MembersAre
    <3>2. k \in DOMAIN all /\ all[k] = lists[k]
      BY <1>1, <1>3
    <3> QED
      BY <3>1, <3>2, MembersAre
  <2>3. ASSUME NEW x \in ToSet(g) \cup ToSet(won)  PROVE x \in Members(all)
    BY <2>3, <1>1, <1>3, MembersAre DEF ToSet
  <2> QED
    BY <2>1, <2>2, <2>3
<1>5. ASSUME Apart(lists, g, won)  PROVE OnePlaceEach(all)
  <2> SUFFICES ASSUME NEW k \in DOMAIN all, NEW l \in DOMAIN all,
                      NEW i \in DOMAIN all[k], NEW j \in DOMAIN all[l], all[k][i] = all[l][j]
               PROVE  k = l /\ i = j
    BY DEF OnePlaceEach
  <2>1. /\ k \in DOMAIN lists => all[k][i] \in Members(lists)
        /\ k = n + 1 => all[k][i] \in ToSet(g)
        /\ k = n + 2 => all[k][i] \in ToSet(won)
        /\ l \in DOMAIN lists => all[l][j] \in Members(lists)
        /\ l = n + 1 => all[l][j] \in ToSet(g)
        /\ l = n + 2 => all[l][j] \in ToSet(won)
    BY <1>1, MembersAre DEF ToSet
  <2>2. CASE k \in DOMAIN lists /\ l \in DOMAIN lists
    BY <1>1, <1>5, <2>2 DEF Apart, OnePlaceEach
  <2>3. CASE k = n + 1 /\ l = n + 1
    BY <1>1, <1>5, <2>3 DEF Apart, IsInjective
  <2>4. CASE k = n + 2 /\ l = n + 2
    BY <1>1, <1>5, <2>4 DEF Apart, IsInjective
  <2> QED
    BY <1>2, <1>5, <2>1, <2>2, <2>3, <2>4 DEF Apart
<1> QED
  BY <1>4, <1>5 DEF all

\* The first list taken away from the others.
LEMMA FirstList ==
  ASSUME NEW P, NEW lists \in Seq(Seq(P)), lists # <<>>
  PROVE  /\ Head(lists) \in Seq(P) /\ Tail(lists) \in Seq(Seq(P))
         /\ ToSet(lists) = {Head(lists)} \cup ToSet(Tail(lists))
         /\ Members(lists) = ToSet(Head(lists)) \cup Members(Tail(lists))
         /\ OnePlaceEach(lists) => /\ IsInjective(Head(lists)) /\ OnePlaceEach(Tail(lists))
                                   /\ ToSet(Head(lists)) \cap Members(Tail(lists)) = {}
<1> DEFINE n == Len(lists)
           rest == Tail(lists)
           first == Head(lists)
<1>1. /\ n \in Nat \ {0} /\ DOMAIN lists = 1..n /\ DOMAIN rest = 1..(n - 1)
      /\ \A k \in 1..(n - 1) : rest[k] = lists[k + 1]
      /\ first = lists[1]
      /\ first \in Seq(P) /\ rest \in Seq(Seq(P))
  OBVIOUS
<1> HIDE DEF n, rest, first
<1>2. ASSUME NEW k \in 1..n, k # 1  PROVE k - 1 \in 1..(n - 1) /\ rest[k - 1] = lists[k]
  BY <1>1, <1>2
<1>3. 1 \in 1..n /\ \A k \in 1..(n - 1) : k + 1 \in 1..n /\ k + 1 # 1
  BY <1>1
<1>4. ToSet(lists) = {first} \cup ToSet(rest)
  <2>1. ASSUME NEW k \in 1..n  PROVE lists[k] \in {first} \cup ToSet(rest)
    BY <1>1, <1>2 DEF ToSet
  <2>2. ASSUME NEW k \in 1..(n - 1)  PROVE rest[k] \in ToSet(lists)
    BY <1>1, <1>3 DEF ToSet
  <2>3. first \in ToSet(lists)
    BY <1>1, <1>3 DEF ToSet
  <2> QED
    BY <1>1, <2>1, <2>2, <2>3 DEF ToSet
<1>5. Members(lists) = ToSet(first) \cup Members(rest)
  BY <1>4 DEF Members
<1>6. ASSUME OnePlaceEach(lists)
      PROVE  /\ IsInjective(first) /\ OnePlaceEach(rest)
             /\ ToSet(first) \cap Members(rest) = {}
  <2>1. IsInjective(first)
    <3>1. 1 \in DOMAIN lists /\ first = lists[1]
      BY <1>1, <1>3
    <3> QED
      BY <1>6, <3>1 DEF IsInjective, OnePlaceEach
  <2>2. OnePlaceEach(rest)
    <3> SUFFICES ASSUME NEW k \in 1..(n - 1), NEW l \in 1..(n - 1),
                        NEW i \in DOMAIN rest[k], NEW j \in DOMAIN rest[l], rest[k][i] = rest[l][j]
                 PROVE  k = l /\ i = j
      BY <1>1 DEF OnePlaceEach
    <3>1. k + 1 \in DOMAIN lists /\ l + 1 \in DOMAIN lists
      BY <1>1, <1>3
    <3>2. rest[k] = lists[k + 1] /\ rest[l] = lists[l + 1]
      BY <1>1
    <3>3. k + 1 = l + 1 /\ i = j
      BY <1>6, <3>1, <3>2 DEF OnePlaceEach
    <3> QED
      BY <3>3
  <2>3. ASSUME NEW x \in ToSet(first), x \in Members(rest)  PROVE FALSE
    <3>1. PICK i \in DOMAIN first : first[i] = x
      BY <2>3 DEF ToSet
    <3>2. PICK k \in DOMAIN rest : \E j \in DOMAIN rest[k] : rest[k][j] = x
      BY <2>3, MembersAre
    <3>3. PICK j \in DOMAIN rest[k] : rest[k][j] = x
      BY <3>2
    <3>4. k + 1 \in DOMAIN lists /\ 1 \in DOMAIN lists /\ lists[k + 1] = rest[k] /\ k + 1 # 1
      BY <1>1, <1>3
    <3> QED
      BY <1>1, <1>6, <3>1, <3>3, <3>4 DEF OnePlaceEach
  <2> QED
    BY <2>1, <2>2, <2>3
<1> QED
  BY <1>1, <1>4, <1>5, <1>6 DEF first, rest

\* A shuffle holds the same participants.
LEMMA ShufflesKeepMembers ==
  ASSUME NEW P, NEW s \in Seq(P), IsInjective(s), NEW t \in Shuffles(s)
  PROVE  t \in Seq(P) /\ Len(t) = Len(s) /\ IsInjective(t) /\ ToSet(t) = ToSet(s)
<1> DEFINE D == 1..Len(s)
           T == ToSet(s)
<1>1. s \in [D -> T] /\ DOMAIN s = D /\ T = {s[i] : i \in D} /\ T \subseteq P
  BY DEF ToSet
<1>2. t \in [D -> T] /\ IsInjective(t)
  BY <1>1 DEF Shuffles
<1>3. IsFiniteSet(D)
  BY FS_Interval
<1>4. s \in Injection(D, T) /\ s \in Surjection(D, T) /\ t \in Injection(D, T)
  BY <1>1, <1>2 DEF Injection, Surjection, IsInjective
<1> HIDE DEF D, T
<1>6. IsFiniteSet(T)
  BY <1>3, <1>4, FS_Surjection
<1>7. Cardinality(D) = Cardinality(T)
  BY <1>4, <1>6, FS_Injection
<1>8. t \in Surjection(D, T)
  BY <1>4, <1>6, <1>7, FS_Injection
<1>9. \A x \in T : \E i \in D : t[i] = x
  BY <1>8 DEF Surjection
<1>10. t \in Seq(P) /\ Len(t) = Len(s) /\ DOMAIN t = D
  BY <1>1, <1>2 DEF D
<1>11. ToSet(t) = T
  BY <1>2, <1>9, <1>10 DEF ToSet
<1> QED
  BY <1>2, <1>10, <1>11 DEF T

\* The length of the k-th group when n participants make p pairs and a last group.
GroupSize(n, p, k) == IF k <= p THEN 2 ELSE n - 2 * p

\* Pairs, and a last group of two or three: everybody of the shuffle has one place.
LEMMA BracketOf ==
  ASSUME NEW P, NEW s \in Seq(P), Len(s) > 1, IsInjective(s)
  PROVE  /\ CreateBracket(s) \in Seq(Seq(P))
         /\ \A g \in ToSet(CreateBracket(s)) : Len(g) \in {2, 3}
         /\ OnePlaceEach(CreateBracket(s))
         /\ Members(CreateBracket(s)) = ToSet(s)
<1> DEFINE n == Len(s)
           b == CreateBracket(s)
<1>1. PICK p \in Nat : p = (n - 2) \div 2 /\ 2 * p <= n - 2 /\ n - 2 <= 2 * p + 1
  OBVIOUS
<1>2. b = [k \in 1 .. p + 1 |-> IF k <= p THEN SubSeq(s, 2 * k - 1, 2 * k)
                                         ELSE SubSeq(s, 2 * p + 1, n)]
  BY <1>1 DEF CreateBracket
<1> HIDE DEF b, n
<1>3. n \in Nat /\ n > 1 /\ DOMAIN s = 1..n
  BY DEF n
<1> DEFINE len(k) == GroupSize(n, p, k)
<1> HIDE DEF len
\* the i-th member of the k-th group is number 2 * (k - 1) + i of s
<1>4. ASSUME NEW k \in 1 .. p + 1
      PROVE  /\ b[k] \in Seq(P) /\ DOMAIN b[k] = 1..len(k) /\ Len(b[k]) = len(k)
             /\ \A i \in 1..len(k) : 2 * (k - 1) + i \in 1..n /\ b[k][i] = s[2 * (k - 1) + i]
  <2>1. CASE k <= p
    <3>1. b[k] = SubSeq(s, 2 * k - 1, 2 * k)
      BY <1>2, <2>1
    <3>2. 2 * k - 1 \in 1..n /\ 2 * k \in 1..n /\ 2 * k - (2 * k - 1) + 1 = 2 /\ 2 * k - 1 <= 2 * k + 1
      BY <1>1, <1>3, <2>1
    <3>3. /\ b[k] \in Seq(P) /\ Len(b[k]) = 2
          /\ \A i \in 1..2 : b[k][i] = s[2 * k - 1 + i - 1]
      <4>1. \A i \in (2 * k - 1)..(2 * k) : s[i] \in P
        BY <1>1, <1>3, <2>1
      <4>2. 2 * k - 1 \in Int /\ 2 * k \in Int /\ 2 * k - 1 <= 2 * k /\ 2 * k - (2 * k - 1) + 1 = 2
        OBVIOUS
      <4> QED
        BY <3>1, <4>1, <4>2, SubSeqProperties
    <3>4. \A i \in 1..2 : 2 * (k - 1) + i \in 1..n /\ 2 * (k - 1) + i = 2 * k - 1 + i - 1
      BY <1>1, <1>3, <2>1
    <3>5. len(k) = 2
      BY <2>1 DEF len, GroupSize
    <3>6. DOMAIN b[k] = 1..2
      BY <3>3
    <3> QED
      BY <3>3, <3>4, <3>5, <3>6
  <2>2. CASE k = p + 1
    <3>1. b[k] = SubSeq(s, 2 * p + 1, n)
      <4>1. p + 1 \in 1 .. p + 1 /\ ~(p + 1 <= p)
        BY <1>1
      <4> QED
        BY <1>2, <2>2, <4>1
    <3>2. 2 * p + 1 \in 1..n /\ n \in 1..n /\ n - (2 * p + 1) + 1 = n - 2 * p /\ 2 * p + 1 <= n + 1
      BY <1>1, <1>3
    <3>3. /\ b[k] \in Seq(P) /\ Len(b[k]) = n - 2 * p
          /\ \A i \in 1..(n - 2 * p) : b[k][i] = s[2 * p + 1 + i - 1]
      <4>1. \A i \in (2 * p + 1)..n : s[i] \in P
        BY <1>1, <1>3
      <4>2. 2 * p + 1 \in Int /\ n \in Int /\ 2 * p + 1 <= n /\ n - (2 * p + 1) + 1 = n - 2 * p
        BY <1>1, <1>3
      <4> QED
        BY <3>1, <4>1, <4>2, SubSeqProperties
    <3>4. \A i \in 1..(n - 2 * p) : 2 * (k - 1) + i \in 1..n /\ 2 * (k - 1) + i = 2 * p + 1 + i - 1
      BY <1>1, <1>3, <2>2
    <3>5. len(k) = n - 2 * p
      BY <2>2, <1>1 DEF len, GroupSize
    <3>6. DOMAIN b[k] = 1..(n - 2 * p)
      BY <3>3
    <3> QED
      BY <3>3, <3>4, <3>5, <3>6
  <2> QED
    BY <2>1, <2>2, <1>1
<1>5. DOMAIN b = 1 .. p + 1
  BY <1>2
<1>6. b \in Seq(Seq(P))
  <2>1. b \in [1 .. p + 1 -> Seq(P)]
    BY <1>2, <1>4
  <2> QED
    BY <1>1, <2>1
<1>7. \A k \in 1 .. p + 1 : len(k) \in {2, 3} /\ (k < p + 1 => len(k) = 2)
  BY <1>1, <1>3 DEF len, GroupSize
<1>8. \A g \in ToSet(b) : Len(g) \in {2, 3}
  <2> SUFFICES ASSUME NEW k \in 1 .. p + 1  PROVE Len(b[k]) \in {2, 3}
    BY <1>5 DEF ToSet
  <2> QED
    BY <1>4, <1>7
<1>9. OnePlaceEach(b)
  <2> SUFFICES ASSUME NEW k \in DOMAIN b, NEW l \in DOMAIN b,
                      NEW i \in DOMAIN b[k], NEW j \in DOMAIN b[l], b[k][i] = b[l][j]
               PROVE  k = l /\ i = j
    BY DEF OnePlaceEach
  <2>0. k \in 1 .. p + 1 /\ l \in 1 .. p + 1 /\ i \in 1..len(k) /\ j \in 1..len(l)
    BY <1>4, <1>5
  <2>1. 2 * (k - 1) + i = 2 * (l - 1) + j
    <3>1. /\ 2 * (k - 1) + i \in DOMAIN s /\ 2 * (l - 1) + j \in DOMAIN s
          /\ s[2 * (k - 1) + i] = s[2 * (l - 1) + j]
      BY <1>3, <1>4, <2>0
    <3> QED
      BY <3>1 DEF IsInjective
  <2>2. /\ len(k) \in Nat /\ len(l) \in Nat
        /\ k < l => len(k) = 2
        /\ l < k => len(l) = 2
    BY <1>1, <1>7, <2>0
  <2>3. ~(k < l) /\ ~(l < k)
    BY <1>1, <2>0, <2>1, <2>2
  <2> QED
    BY <1>1, <2>0, <2>1, <2>3
<1>10. Members(b) = ToSet(s)
  <2>1. ASSUME NEW x \in Members(b)  PROVE x \in ToSet(s)
    <3>1. PICK k \in 1 .. p + 1 : \E i \in 1..len(k) : b[k][i] = x
      BY <2>1, <1>4, <1>5, MembersAre
    <3> QED
      BY <1>3, <1>4, <3>1 DEF ToSet
  <2>2. ASSUME NEW m \in 1..n  PROVE s[m] \in Members(b)
    <3>1. PICK q \in Nat : 2 * q + 1 <= m /\ m <= 2 * q + 2
      <4>1. (m - 1) \div 2 \in Nat /\ 2 * ((m - 1) \div 2) <= m - 1 /\ m - 1 <= 2 * ((m - 1) \div 2) + 1
        BY <1>3
      <4> QED
        BY <4>1
    <3>2. CASE q < p
      <4>1. q + 1 \in 1 .. p + 1 /\ len(q + 1) = 2 /\ m - 2 * q \in 1..2 /\ 2 * ((q + 1) - 1) + (m - 2 * q) = m
        BY <1>1, <1>3, <1>7, <3>1, <3>2
      <4>2. b[q + 1][m - 2 * q] = s[m] /\ m - 2 * q \in DOMAIN b[q + 1] /\ q + 1 \in DOMAIN b
        BY <1>4, <1>5, <4>1
      <4> QED
        BY <4>2, MembersAre
    <3>3. CASE ~(q < p)
      <4>1. p + 1 \in 1 .. p + 1 /\ len(p + 1) = n - 2 * p /\ m - 2 * p \in 1..(n - 2 * p)
            /\ 2 * ((p + 1) - 1) + (m - 2 * p) = m
        BY <1>1, <1>3, <3>1, <3>3 DEF len, GroupSize
      <4>2. b[p + 1][m - 2 * p] = s[m] /\ m - 2 * p \in DOMAIN b[p + 1] /\ p + 1 \in DOMAIN b
        BY <1>4, <1>5, <4>1
      <4> QED
        BY <4>2, MembersAre
    <3> QED
      BY <3>2, <3>3
  <2> QED
    BY <1>3, <2>1, <2>2 DEF ToSet
<1> QED
  BY <1>6, <1>8, <1>9, <1>10 DEF b

\* One list alone.
LEMMA OneList ==
  ASSUME NEW P, NEW c \in Seq(P)
  PROVE  Members(<<c>>) = ToSet(c) /\ (IsInjective(c) => OnePlaceEach(<<c>>))
<1> DEFINE all == <<c>>
<1>1. DOMAIN all = {1} /\ all[1] = c
  OBVIOUS
<1> HIDE DEF all
<1>2. ToSet(all) = {c}
  BY <1>1 DEF ToSet
<1> QED
  BY <1>1, <1>2 DEF Members, OnePlaceEach, IsInjective, all

-----------------------------------------------------------------------------
(* The deltas of a round, and its winners.                                 *)

\* A round is drawn, one point for everybody, or decided, two points for some.
Drawn(d)   == \A i \in DOMAIN d : d[i] = 1
Decided(d) == /\ \A i \in DOMAIN d : d[i] \in {0, 2}
              /\ \E i \in DOMAIN d : d[i] = 2
              /\ \E i \in DOMAIN d : d[i] = 0

\* Rounds of valid moves.
LEMMA ValidRounds ==
  ASSUME NEW n \in Nat \ {0}, NEW ms \in [1..n -> ValidMove]
  PROVE  LET d == EvaluateRound(ms).deltas
         IN  d \in [1..n -> 0..2] /\ (Drawn(d) \/ Decided(d))
<1> DEFINE d == EvaluateRound(ms).deltas
<1>1. ms \in Seq(Move) \ {<<>>} /\ DOMAIN ms = 1..n /\ ms[1] # "Invalid"
  BY DEF Move, ValidMove
<1>2. \A i \in 1..n : ms[i] # "Invalid"
  BY DEF ValidMove
<1>3. CASE ValidMove \subseteq Played(ms)
  <2>1. d = [i \in 1..n |-> 1]
    BY <1>1, <1>2, <1>3 DEF EvaluateRound, awardValid
  <2> QED
    BY <2>1 DEF Drawn
<1>4. CASE ~(ValidMove \subseteq Played(ms)) /\ \A i \in DOMAIN ms : Wins(ms, i) = 0
  <2>1. d = [i \in 1..n |-> 1]
    BY <1>1, <1>4 DEF EvaluateRound
  <2> QED
    BY <2>1 DEF Drawn
<1>5. CASE ~(ValidMove \subseteq Played(ms)) /\ ~ \A i \in DOMAIN ms : Wins(ms, i) = 0
  <2>1. EvaluateRound(ms).outcome \in {"PlayerWins", "BotWins"} /\ d = awardTop(ms)
    BY <1>1, <1>5 DEF EvaluateRound
  <2>2. DOMAIN d = 1..n
    BY <1>1, <2>1 DEF awardTop
  <2>3. \A i \in 1..n : d[i] = IF Unbeaten(ms, i) THEN 2 ELSE 0
    BY <1>1, <2>1, DecidedDeltas
  <2>4. PICK i \in 1..n : Unbeaten(ms, i)
    BY <1>1, <1>5, SomebodyIsUnbeaten
  <2>5. PICK l \in 1..n : ~Unbeaten(ms, l)
    BY <1>1, <1>5, SomebodyIsBeaten
  <2>6. d \in [1..n -> 0..2]
    BY <2>1, <2>2, <2>3 DEF awardTop
  <2>7. Decided(d)
    <3> HIDE DEF d
    <3> QED
      BY <2>2, <2>3, <2>4, <2>5 DEF Decided
  <2> QED
    BY <2>6, <2>7
<1> QED
  BY <1>3, <1>4, <1>5

\* Rounds of a group whose human forfeits or does not.
LEMMA RoundsAreDrawnOrDecided ==
  ASSUME group \in Seq(Participants), Len(group) \in {2, 3}, IsInjective(group),
         forfeited => ContainsHuman(group), NEW d \in RoundDeltas
  PROVE  d \in [DOMAIN group -> 0..2] /\ (Drawn(d) \/ Decided(d))
<1>1. DOMAIN group = 1..Len(group) /\ Len(group) \in Nat \ {0} /\ {1, 2} \subseteq DOMAIN group
  OBVIOUS
<1>2. CASE forfeited
  <2>1. d = [i \in DOMAIN group |-> IF group[i] = Human THEN 0 ELSE 2]
    BY <1>2 DEF RoundDeltas
  <2>2. \E i \in DOMAIN group : group[i] # Human
    BY <1>1 DEF IsInjective
  <2>3. \E i \in DOMAIN group : group[i] = Human
    BY <1>2 DEF ContainsHuman, ToSet
  <2> QED
    BY <2>1, <2>2, <2>3 DEF Decided
<1>3. CASE ~forfeited
  <2>1. PICK ms \in [DOMAIN group -> ValidMove] : d = EvaluateRound(ms).deltas
    BY <1>3 DEF RoundDeltas
  <2> QED
    BY <1>1, <2>1, ValidRounds
<1> QED
  BY <1>2, <1>3

\* The largest delta says which of the two it was.
LEMMA MaxDeltaIs ==
  ASSUME NEW n \in Nat \ {0}, NEW d \in [1..n -> 0..2], Drawn(d) \/ Decided(d)
  PROVE  (Drawn(d) /\ MaxDelta(d) = 1) \/ (Decided(d) /\ MaxDelta(d) = 2)
<1> DEFINE Is(m) == m \in ToSet(d) /\ \A i \in DOMAIN d : d[i] <= m
<1>1. ToSet(d) = {d[i] : i \in 1..n} /\ DOMAIN d = 1..n /\ 1 \in 1..n
  BY DEF ToSet
<1>2. (\E m : Is(m)) => Is(MaxDelta(d))
  BY DEF MaxDelta
<1>3. CASE Drawn(d)
  <2>1. Is(1)
    BY <1>1, <1>3 DEF Drawn
  <2>2. Is(MaxDelta(d))
    BY <1>2, <2>1
  <2> QED
    BY <1>1, <1>3, <2>2 DEF Drawn
<1>4. CASE Decided(d)
  <2>1. Is(2)
    BY <1>1, <1>4 DEF Decided
  <2>2. Is(MaxDelta(d))
    BY <1>2, <2>1
  <2> QED
    BY <1>1, <1>4, <2>2 DEF Decided
<1> QED
  BY <1>3, <1>4

\* One more at the end of a list.
LEMMA OneMore ==
  ASSUME NEW P, NEW w \in Seq(P), IsInjective(w), NEW x \in P, x \notin ToSet(w)
  PROVE  /\ Append(w, x) \in Seq(P) /\ IsInjective(Append(w, x))
         /\ Len(Append(w, x)) = Len(w) + 1
         /\ ToSet(Append(w, x)) = ToSet(w) \cup {x}
<1> DEFINE v == Append(w, x)
<1>1. /\ v \in Seq(P) /\ Len(v) = Len(w) + 1
      /\ \A k \in 1..Len(w) : v[k] = w[k]
      /\ v[Len(w) + 1] = x
      /\ DOMAIN w = 1..Len(w) /\ DOMAIN v = 1..(Len(w) + 1) /\ Len(w) \in Nat
  OBVIOUS
<1> HIDE DEF v
<1>2. ToSet(v) = ToSet(w) \cup {x}
  <2>1. \A k \in DOMAIN v : v[k] \in ToSet(w) \cup {x}
    BY <1>1 DEF ToSet
  <2>2. \A k \in DOMAIN w : w[k] \in ToSet(v)
    BY <1>1 DEF ToSet
  <2>3. x \in ToSet(v)
    BY <1>1 DEF ToSet
  <2> QED
    BY <2>1, <2>2, <2>3 DEF ToSet
<1>3. IsInjective(v)
  <2>1. \A k \in 1..Len(w) : w[k] # x
    BY <1>1 DEF ToSet
  <2>2. \A k, l \in 1..Len(w) : w[k] = w[l] => k = l
    BY <1>1 DEF IsInjective
  <2> QED
    BY <1>1, <2>1, <2>2 DEF IsInjective
<1> QED
  BY <1>1, <1>2, <1>3 DEF v

\* The loop over the seats collects everybody with the largest delta, once.
LEMMA WinnersAre ==
  ASSUME NEW P, NEW players \in Seq(P), IsInjective(players), NEW d
  PROVE  /\ Winners(players, d) \in Seq(P)
         /\ IsInjective(Winners(players, d))
         /\ Len(Winners(players, d)) <= Len(players)
         /\ ToSet(Winners(players, d))
              = {players[i] : i \in {i \in DOMAIN players : d[i] = MaxDelta(d)}}
<1> DEFINE m == Len(players)
           max == MaxDelta(d)
           step == [i \in 1..m |-> [w \in Seq(P) |-> IF d[i] = max THEN Append(w, players[i]) ELSE w]]
           Won(f) == f = [n \in 0..m |-> IF n = 0 THEN <<>>
                                         ELSE IF d[n] = max THEN Append(f[n - 1], players[n])
                                         ELSE f[n - 1]]
           S == Seq(P)
<1>1. /\ m \in Nat /\ DOMAIN players = 1..m
      /\ \A i \in 1..m : players[i] \in P
      /\ step \in [1..m -> [S -> S]]
  OBVIOUS
<1>2. \A i \in 1..m : \A w \in S : step[i][w] = IF d[i] = max THEN Append(w, players[i]) ELSE w
  OBVIOUS
<1> HIDE DEF step, m, max, S
<1>3. PICK f \in [0..m -> S] : f[0] = <<>> /\ \A i \in 1..m : f[i] = step[i][f[i - 1]]
  <2> DEFINE a == <<>>
  <2>1. a \in S
    BY DEF S
  <2> HIDE DEF a
  <2>2. \E f \in [0..m -> S] : f[0] = a /\ \A i \in 1..m : f[i] = step[i][f[i - 1]]
    BY <1>1, <2>1, LoopsHaveResults
  <2> QED
    BY <2>2 DEF a
<1>4. ASSUME NEW n \in 1..m
      PROVE  /\ f[n - 1] \in S
             /\ f[n] = IF d[n] = max THEN Append(f[n - 1], players[n]) ELSE f[n - 1]
  <2>1. n - 1 \in 0..m
    BY <1>1
  <2>2. f[n - 1] \in S
    BY <1>3, <2>1
  <2> QED
    BY <1>2, <1>3, <2>2
<1>5. Won(f)
  <2>1. \A n \in 0..m : f[n] = IF n = 0 THEN <<>>
                               ELSE IF d[n] = max THEN Append(f[n - 1], players[n]) ELSE f[n - 1]
    <3>1. \A n \in 0..m : n = 0 \/ n \in 1..m
      BY <1>1
    <3>2. ~(0 \in 1..m)
      BY <1>1
    <3> QED
      BY <1>3, <1>4, <3>1, <3>2
  <2> QED
    BY <1>3, <2>1
<1> DEFINE won == CHOOSE g : Won(g)
<1>6. Won(won)
  <2> HIDE DEF Won
  <2> QED
    BY <1>5
<1>7. Winners(players, d) = won[m]
  BY DEF Winners, m, max
<1>8. \A n \in 0..m : won[n] = IF n = 0 THEN <<>>
                               ELSE IF d[n] = max THEN Append(won[n - 1], players[n]) ELSE won[n - 1]
  <2> HIDE DEF won
  <2> QED
    BY <1>6
<1> HIDE DEF won
<1> DEFINE Best(n) == {i \in 1..n : d[i] = max}
           Collected(n) == /\ won[n] \in Seq(P) /\ Len(won[n]) <= n
                           /\ IsInjective(won[n])
                           /\ ToSet(won[n]) = {players[i] : i \in Best(n)}
           T == {n \in 0..m : Collected(n)}
<1>9. 0 \in T
  <2>1. won[0] = <<>> /\ 0 \in 0..m
    BY <1>1, <1>8
  <2>2. Best(0) = {}
    OBVIOUS
  <2> DEFINE e == <<>>
  <2>3. e \in Seq(P) /\ Len(e) <= 0 /\ DOMAIN e = {}
    OBVIOUS
  <2> HIDE DEF e, Best
  <2>4. IsInjective(e) /\ ToSet(e) = {players[i] : i \in Best(0)}
    BY <2>2, <2>3 DEF IsInjective, ToSet
  <2> QED
    BY <2>1, <2>3, <2>4 DEF e
<1>10. ASSUME NEW i \in T, i < m  PROVE i + 1 \in T
  <2>1. i \in Nat /\ i + 1 \in 1..m /\ i + 1 \in 0..m /\ i + 1 # 0 /\ (i + 1) - 1 = i
    BY <1>1, <1>10
  <2>2. Collected(i)
    OBVIOUS
  <2>3. won[i + 1] = IF d[i + 1] = max THEN Append(won[i], players[i + 1]) ELSE won[i]
    BY <1>8, <2>1
  <2>4. CASE d[i + 1] # max
    <3>1. Best(i + 1) = Best(i)
      BY <2>1, <2>4
    <3>2. won[i + 1] = won[i]
      BY <2>3, <2>4
    <3> HIDE DEF Best
    <3> QED
      BY <2>1, <2>2, <3>1, <3>2
  <2>5. CASE d[i + 1] = max
    <3>1. Best(i + 1) = Best(i) \cup {i + 1}
      BY <2>1, <2>5
    <3>2. PICK w \in Seq(P) : w = won[i]
      BY <2>2
    <3>3. PICK x \in P : x = players[i + 1]
      BY <1>1, <2>1
    <3>4. won[i + 1] = Append(w, x)
      BY <2>3, <2>5, <3>2, <3>3
    <3>5. x \notin ToSet(w)
      <4>1. \A k \in Best(i) : players[k] # x
        <5>1. \A k \in Best(i) : k \in 1..m /\ k # i + 1
          BY <1>1, <1>10, <2>1
        <5>2. \A k \in 1..m : players[k] = players[i + 1] => k = i + 1
          BY <1>1, <2>1 DEF IsInjective
        <5> HIDE DEF Best
        <5> QED
          BY <3>3, <5>1, <5>2
      <4> HIDE DEF Best
      <4> QED
        BY <2>2, <3>2, <4>1
    <3>6. IsInjective(w)
      BY <2>2, <3>2
    <3>7. /\ Append(w, x) \in Seq(P) /\ IsInjective(Append(w, x))
          /\ Len(Append(w, x)) = Len(w) + 1 /\ Len(w) \in Nat
          /\ ToSet(Append(w, x)) = ToSet(w) \cup {x}
      BY <3>5, <3>6, OneMore
    <3>9. ToSet(w) = {players[k] : k \in Best(i)}
      BY <2>2, <3>2
    <3>10. ToSet(won[i + 1]) = {players[k] : k \in Best(i + 1)}
      <4> HIDE DEF Best
      <4> QED
        BY <3>1, <3>3, <3>4, <3>7, <3>9
    <3>11. Len(won[i + 1]) <= i + 1
      BY <2>1, <2>2, <3>2, <3>4, <3>7
    <3> HIDE DEF Best
    <3> QED
      BY <2>1, <3>4, <3>7, <3>10, <3>11
  <2> QED
    BY <2>4, <2>5
<1>11. Collected(m)
  <2>1. T \in SUBSET (0..m)
    OBVIOUS
  <2> HIDE DEF T
  <2>2. T = 0..m
    BY <1>1, <1>9, <1>10, <2>1, BoundedInduction
  <2>3. m \in T
    BY <1>1, <2>2
  <2> QED
    BY <2>3 DEF T
<1> QED
  BY <1>1, <1>7, <1>11 DEF m, max

-----------------------------------------------------------------------------
(* The bracket.                                                            *)

Between == {"bracket", "finished"}
InMatch == {"round", "enter", "thinking", "reading", "scoring", "scored"}

\* Nobody is in two places, and whoever plays has an opponent.
Places ==
  /\ pc \in Between \cup {"match"} \cup InMatch
  /\ current \in Seq(Participants) /\ bracket \in Seq(Seq(Participants))
  /\ group \in Seq(Participants) /\ nextRound \in Seq(Participants)
  /\ IF pc \in Between THEN IsInjective(current) /\ bracket = <<>> /\ nextRound = <<>>
     ELSE Apart(bracket, group, nextRound)
  /\ \A g \in ToSet(bracket) : Len(g) \in {2, 3}
  /\ IF pc \in InMatch THEN Len(group) \in {2, 3} ELSE group = <<>>

\* What a round in progress knows.
Rounds ==
  /\ pc \in {"enter", "thinking", "reading"} => ContainsHuman(group)
  /\ forfeited \in BOOLEAN
  /\ forfeited => pc = "scoring" /\ ContainsHuman(group)
  /\ IF pc = "scored" THEN deltas \in [DOMAIN group -> 0..2] /\ (Drawn(deltas) \/ Decided(deltas))
     ELSE deltas = <<>>

\* The participants before the first round.
LEMMA EverybodyEntered ==
  LET all == <<Human>> \o SetToSeq(Bots)
  IN  all \in Seq(Participants) /\ IsInjective(all)
<1> DEFINE b == SetToSeq(Bots)
           all == <<Human>> \o b
<1>1. b \in [1..Cardinality(Bots) -> Bots] /\ IsInjective(b) /\ Cardinality(Bots) \in Nat
  <2>1. Cardinality(Bots) \in Nat /\ ExistsBijection(1..Cardinality(Bots), Bots)
    BY ParticipantsAssumption, FS_CardinalityType
  <2>2. PICK f : f \in Bijection(1..Cardinality(Bots), Bots)
    BY <2>1 DEF ExistsBijection
  <2>3. f \in [1..Cardinality(Bots) -> Bots] /\ IsInjective(f)
    BY <2>2 DEF Bijection, Injection, IsInjective
  <2> QED
    BY <2>1, <2>3 DEF SetToSeq
<1> HIDE DEF b
<1>2. PICK n \in Nat : n = Len(b) /\ DOMAIN b = 1..n
  BY <1>1
<1>3. b \in Seq(Bots) /\ \A i \in 1..n : b[i] \in Bots
  BY <1>1, <1>2
<1>4. /\ all \in Seq(Participants) /\ DOMAIN all = 1..(n + 1) /\ all[1] = Human
      /\ \A i \in 1..n : all[i + 1] = b[i]
  BY <1>2, <1>3 DEF Participants
<1> HIDE DEF all
<1>5. ASSUME NEW i \in 1..(n + 1), NEW j \in 1..(n + 1), all[i] = all[j]  PROVE i = j
  <2>1. \A k \in 1..(n + 1) : k # 1 => k - 1 \in 1..n /\ all[k] = b[k - 1]
    <3> SUFFICES ASSUME NEW k \in 1..(n + 1), k # 1  PROVE k - 1 \in 1..n /\ all[k] = b[k - 1]
      OBVIOUS
    <3>1. k - 1 \in 1..n /\ (k - 1) + 1 = k
      BY <1>2
    <3> QED
      BY <1>4, <3>1
  <2>2. CASE i = 1 /\ j = 1
    BY <2>2
  <2>3. CASE i # 1 /\ j # 1
    BY <1>1, <1>2, <1>5, <2>1, <2>3 DEF IsInjective
  <2>4. CASE (i = 1 /\ j # 1) \/ (i # 1 /\ j = 1)
    BY <1>3, <1>4, <1>5, <2>1, <2>4, ParticipantsAssumption
  <2> QED
    BY <2>2, <2>3, <2>4
<1> QED
  <2>1. IsInjective(all)
    BY <1>4, <1>5 DEF IsInjective
  <2> QED
    BY <1>4, <2>1 DEF all, b

\* Everybody has a place before the first round.
LEMMA PlacesInit == Init => Places /\ Rounds
<1> SUFFICES ASSUME Init  PROVE Places /\ Rounds
  OBVIOUS
<1>1. /\ pc = "bracket" /\ current = <<Human>> \o SetToSeq(Bots)
      /\ bracket = <<>> /\ group = <<>> /\ nextRound = <<>>
      /\ forfeited = FALSE /\ deltas = <<>>
  BY DEF Init
<1>2. current \in Seq(Participants) /\ IsInjective(current)
  BY <1>1, EverybodyEntered
<1> QED
  <2>1. bracket \in Seq(Seq(Participants)) /\ group \in Seq(Participants) /\ nextRound \in Seq(Participants)
    BY <1>1
  <2>2. ToSet(bracket) = {}
    BY <1>1 DEF ToSet
  <2> QED
    BY <1>1, <1>2, <2>1, <2>2 DEF Places, Rounds, Between, InMatch

\* Those still in, list by list.
Standing(p, c, b, g, w) == IF p \in Between THEN ToSet(c)
                           ELSE Members(b) \cup ToSet(g) \cup ToSet(w)

LEMMA ListsAre ==
  ASSUME NEW p, NEW c \in Seq(Participants), NEW b \in Seq(Seq(Participants)),
         NEW g \in Seq(Participants), NEW w \in Seq(Participants)
  PROVE  LET all == IF p \in {"bracket", "finished"} THEN <<c>> ELSE b \o <<g, w>>
         IN  /\ Members(all) = Standing(p, c, b, g, w)
             /\ (IF p \in Between THEN IsInjective(c) ELSE Apart(b, g, w)) => OnePlaceEach(all)
<1>1. CASE p \in Between
  BY <1>1, OneList DEF Between, Standing
<1>2. CASE p \notin Between
  BY <1>2, TwoMoreLists DEF Between, Standing
<1> QED
  BY <1>1, <1>2

\* A step of a round among the same group keeps everybody where they are.
LEMMA SameGroup ==
  ASSUME Places, UNCHANGED <<bracket, group, nextRound, current>>,
         (pc \in InMatch /\ pc' \in InMatch) \/ (pc \in Between /\ pc' \in Between) \/ pc' = pc
  PROVE  /\ Places'
         /\ Standing(pc', current', bracket', group', nextRound')
              = Standing(pc, current, bracket, group, nextRound)
BY DEF Places, Between, InMatch, Standing

\* The participants of a round are dealt out to its groups.
LEMMA StartRoundPlaces ==
  ASSUME Places, StartRound
  PROVE  /\ Places'
         /\ Standing(pc', current', bracket', group', nextRound')
              = Standing(pc, current, bracket, group, nextRound)
<1>1. /\ pc = "bracket" /\ pc' = "match" /\ current \in Seq(Participants) /\ Len(current) > 1
      /\ IsInjective(current) /\ group = <<>> /\ nextRound = <<>>
      /\ UNCHANGED <<current, group, nextRound>>
  BY DEF Places, StartRound, matches, Between, InMatch
<1>2. PICK order \in Shuffles(current) : bracket' = CreateBracket(order)
  BY DEF StartRound
<1>3. /\ order \in Seq(Participants) /\ Len(order) > 1 /\ IsInjective(order)
      /\ ToSet(order) = ToSet(current)
  BY <1>1, ShufflesKeepMembers
<1>4. /\ bracket' \in Seq(Seq(Participants))
      /\ \A g \in ToSet(bracket') : Len(g) \in {2, 3}
      /\ OnePlaceEach(bracket')
      /\ Members(bracket') = ToSet(current)
  BY <1>2, <1>3, BracketOf
<1>5. IsInjective(<<>>) /\ ToSet(<<>>) = {}
  BY DEF IsInjective, ToSet
<1>6. Apart(bracket', group', nextRound')
  BY <1>1, <1>4, <1>5 DEF Apart
<1> QED
  BY <1>1, <1>4, <1>5, <1>6 DEF Places, Standing, Between, InMatch

\* The next group sits down.
LEMMA StartMatchPlaces ==
  ASSUME Places, StartMatch
  PROVE  /\ Places'
         /\ Standing(pc', current', bracket', group', nextRound')
              = Standing(pc, current, bracket, group, nextRound)
<1>1. /\ pc = "match" /\ pc' = "round" /\ bracket # <<>> /\ group = <<>>
      /\ group' = Head(bracket) /\ bracket' = Tail(bracket)
      /\ UNCHANGED <<current, nextRound>>
      /\ bracket \in Seq(Seq(Participants)) /\ Apart(bracket, group, nextRound)
      /\ \A g \in ToSet(bracket) : Len(g) \in {2, 3}
  BY DEF Places, StartMatch, Between, InMatch
<1>2. OnePlaceEach(bracket)
  BY <1>1 DEF Apart
<1>3. /\ group' \in Seq(Participants) /\ bracket' \in Seq(Seq(Participants))
      /\ ToSet(bracket) = {group'} \cup ToSet(bracket')
      /\ Members(bracket) = ToSet(group') \cup Members(bracket')
      /\ IsInjective(group') /\ OnePlaceEach(bracket')
      /\ ToSet(group') \cap Members(bracket') = {}
  BY <1>1, <1>2, FirstList
<1>4. Apart(bracket', group', nextRound')
  BY <1>1, <1>3 DEF Apart
<1>5. ToSet(<<>>) = {}
  BY DEF ToSet
<1> QED
  BY <1>1, <1>3, <1>4, <1>5 DEF Places, Standing, Between, InMatch

\* The winners of the matches are the participants of the next round.
LEMMA EndRoundPlaces ==
  ASSUME Places, EndRound
  PROVE  /\ Places'
         /\ Standing(pc', current', bracket', group', nextRound')
              = Standing(pc, current, bracket, group, nextRound)
<1>1. /\ pc = "match" /\ pc' = "bracket" /\ bracket = <<>> /\ group = <<>>
      /\ current' = nextRound /\ nextRound' = <<>> /\ UNCHANGED <<bracket, group>>
      /\ Apart(bracket, group, nextRound)
  BY DEF Places, EndRound, Between, InMatch
<1>2. ToSet(<<>>) = {} /\ Members(<<>>) = {}
  BY DEF ToSet, Members
<1>3. IsInjective(current')
  BY <1>1 DEF Apart
<1> QED
  BY <1>1, <1>2, <1>3 DEF Places, Standing, Between, InMatch

\* A decided round sends exactly its losers home.
LEMMA DecideRoundPlaces ==
  ASSUME Places, Rounds, DecideRound
  PROVE  /\ Places'
         /\ pc = "scored" /\ pc' # "scored" /\ MaxDelta(deltas) = 2
         /\ Standing(pc, current, bracket, group, nextRound)
              \ Standing(pc', current', bracket', group', nextRound')
            = {group[i] : i \in {i \in DOMAIN group : deltas[i] = 0}}
         /\ {group[i] : i \in {i \in DOMAIN group : deltas[i] = 0}} # {}
         /\ Standing(pc', current', bracket', group', nextRound') # {}
<1> DEFINE won == Winners(group, deltas)
           losers == {group[i] : i \in {i \in DOMAIN group : deltas[i] = 0}}
<1>1. /\ pc = "scored" /\ group \in Seq(Participants) /\ Len(group) \in {2, 3}
      /\ Apart(bracket, group, nextRound) /\ UNCHANGED <<bracket, current>>
      /\ deltas \in [DOMAIN group -> 0..2] /\ (Drawn(deltas) \/ Decided(deltas))
      /\ MaxDelta(deltas) # 1 /\ nextRound \in Seq(Participants)
      /\ NarrowGroup
  BY DEF Places, Rounds, DecideRound, Between, InMatch
<1>2. DOMAIN group = 1..Len(group) /\ Len(group) \in Nat \ {0}
  <2>1. group \in Seq(Participants) /\ Len(group) \in {2, 3}
    BY <1>1
  <2> QED
    BY <2>1
<1>3. Decided(deltas) /\ MaxDelta(deltas) = 2
  BY <1>1, <1>2, MaxDeltaIs
<1>4. IsInjective(group)
  BY <1>1 DEF Apart
<1>5. /\ won \in Seq(Participants) /\ IsInjective(won) /\ Len(won) <= Len(group)
      /\ ToSet(won) = {group[i] : i \in {i \in DOMAIN group : deltas[i] = 2}}
  <2>1. group \in Seq(Participants)
    BY <1>1
  <2>2. /\ won \in Seq(Participants) /\ IsInjective(won) /\ Len(won) <= Len(group)
        /\ ToSet(won) = {group[i] : i \in {i \in DOMAIN group : deltas[i] = MaxDelta(deltas)}}
    BY <2>1, <1>4, WinnersAre
  <2> QED
    BY <1>3, <2>2
<1> HIDE DEF won
<1>6. ToSet(won) \subseteq ToSet(group) /\ ToSet(group) \ ToSet(won) = losers
  <2>1. DOMAIN deltas = DOMAIN group
    BY <1>1
  <2>2. \A i \in DOMAIN group : deltas[i] \in {0, 2}
    BY <1>3, <2>1 DEF Decided
  <2>3. ToSet(group) = {group[i] : i \in DOMAIN group}
    BY DEF ToSet
  <2>4. \A i, j \in DOMAIN group : group[i] = group[j] => i = j
    BY <1>4 DEF IsInjective
  <2> QED
    BY <1>5, <2>2, <2>3, <2>4
<1>7. ToSet(won) # {} /\ Len(won) # 0
  <2>1. \E i \in DOMAIN group : deltas[i] = 2
    BY <1>1, <1>3 DEF Decided
  <2>2. ToSet(won) # {}
    BY <1>5, <2>1
  <2> QED
    BY <1>5, <2>2 DEF ToSet
<1>8. /\ (ToSet(group) \cup ToSet(nextRound)) \cap Members(bracket) = {}
      /\ ToSet(group) \cap ToSet(nextRound) = {}
      /\ OnePlaceEach(bracket) /\ IsInjective(nextRound)
  BY <1>1 DEF Apart
<1>9. losers \cap ToSet(won) = {} /\ losers # {}
  <2>1. \E i \in DOMAIN group : deltas[i] = 0
    BY <1>1, <1>3 DEF Decided
  <2>2. losers # {}
    BY <2>1
  <2> QED
    BY <1>6, <2>2
<1> HIDE DEF losers
<1>10. CASE Len(won) = 1
  <2>1. /\ nextRound' = Append(nextRound, won[1]) /\ group' = <<>> /\ pc' = "match"
    BY <1>1, <1>10 DEF NarrowGroup, EndMatch, won
  <2>2. ToSet(won) = {won[1]} /\ won[1] \in Participants
    BY <1>5, <1>10 DEF ToSet
  <2>3. won[1] \notin ToSet(nextRound)
    BY <1>6, <1>8, <2>2
  <2>4. /\ nextRound' \in Seq(Participants) /\ IsInjective(nextRound')
        /\ ToSet(nextRound') = ToSet(nextRound) \cup {won[1]}
    BY <1>1, <1>8, <2>1, <2>2, <2>3, OneMore
  <2>5. ToSet(group') = {} /\ IsInjective(group')
    BY <2>1 DEF ToSet, IsInjective
  <2>6. Apart(bracket', group', nextRound')
    BY <1>1, <1>6, <1>8, <2>2, <2>4, <2>5 DEF Apart
  <2>7. Places'
    BY <1>1, <2>1, <2>4, <2>6 DEF Places, Between, InMatch
  <2>8. /\ Standing(pc, current, bracket, group, nextRound)
             = Members(bracket) \cup ToSet(group) \cup ToSet(nextRound)
        /\ Standing(pc', current', bracket', group', nextRound')
             = Members(bracket) \cup {won[1]} \cup ToSet(nextRound)
    BY <1>1, <2>1, <2>4, <2>5 DEF Standing, Between
  <2>9. pc' # "scored"
    BY <2>1
  <2> QED
    BY <1>1, <1>3, <1>6, <1>8, <1>9, <2>2, <2>7, <2>8, <2>9 DEF losers
<1>11. CASE Len(won) # 1
  <2>1. group' = won /\ pc' = "round" /\ UNCHANGED nextRound
    BY <1>1, <1>11 DEF NarrowGroup, DecidingMatch, won
  <2>2. Len(won) \in {2, 3}
    <3>1. Len(won) \in Nat /\ Len(won) <= Len(group) /\ Len(group) \in {2, 3}
      BY <1>1, <1>5
    <3>2. PICK n \in Nat : n = Len(won)
      BY <3>1
    <3>3. n # 0
      BY <3>2, <1>7
    <3>4. n # 1
      BY <3>2, <1>11
    <3>5. n <= 3
      <4>1. n <= Len(group)
        BY <3>1, <3>2
      <4>2. CASE Len(group) = 2
        BY <4>1, <4>2
      <4>3. CASE Len(group) = 3
        BY <4>1, <4>3
      <4> QED
        BY <3>1, <4>2, <4>3
    <3>6. n \in {2, 3}
      BY <3>3, <3>4, <3>5
    <3> QED
      BY <3>2, <3>6
  <2>3. Apart(bracket', group', nextRound')
    BY <1>1, <1>5, <1>6, <1>8, <2>1 DEF Apart
  <2>4. Places'
    BY <1>1, <1>5, <2>1, <2>2, <2>3 DEF Places, Between, InMatch
  <2>5. /\ Standing(pc, current, bracket, group, nextRound)
             = Members(bracket) \cup ToSet(group) \cup ToSet(nextRound)
        /\ Standing(pc', current', bracket', group', nextRound')
             = Members(bracket) \cup ToSet(won) \cup ToSet(nextRound)
    BY <1>1, <2>1 DEF Standing, Between
  <2>6. pc' # "scored"
    BY <2>1
  <2> QED
    BY <1>1, <1>3, <1>6, <1>7, <1>8, <1>9, <2>4, <2>5, <2>6 DEF losers
<1> QED
  BY <1>10, <1>11

\* Steps that move nobody.
StaysPut == Standing(pc', current', bracket', group', nextRound')
              = Standing(pc, current, bracket, group, nextRound)

\* Who leaves in a step.
Leaves ==
  IF pc = "scored" /\ pc' # "scored" /\ MaxDelta(deltas) = 2
  THEN Standing(pc, current, bracket, group, nextRound)
         \ Standing(pc', current', bracket', group', nextRound')
       = {group[i] : i \in {i \in DOMAIN group : deltas[i] = 0}}
       /\ {group[i] : i \in {i \in DOMAIN group : deltas[i] = 0}} # {}
       /\ Standing(pc', current', bracket', group', nextRound') # {}
  ELSE StaysPut

\* Every step of the worker keeps the bracket, and only a decided round sends
\* anybody home.
LEMMA WorkerPlaces == Places /\ Rounds /\ Worker => Places' /\ Rounds' /\ Leaves
<1> SUFFICES ASSUME Places, Rounds, Worker  PROVE Places' /\ Rounds' /\ Leaves
  OBVIOUS
<1>1. CASE StartRound
  <2>1. Places' /\ StaysPut
    BY <1>1, StartRoundPlaces DEF StaysPut
  <2>2. pc = "bracket" /\ pc' = "match" /\ UNCHANGED reader
    BY <1>1 DEF StartRound
  <2> QED
    BY <2>1, <2>2 DEF Rounds, Leaves, reader
<1>2. CASE ShowTournamentWinner
  <2>1. pc = "bracket" /\ pc' = "finished" /\ UNCHANGED <<matches, reader>>
    BY <1>2 DEF ShowTournamentWinner
  <2>2. Places' /\ StaysPut
    BY <2>1, SameGroup DEF Between, matches, StaysPut
  <2> QED
    BY <2>1, <2>2 DEF Rounds, Leaves, reader
<1>3. CASE StartMatch
  <2>1. Places' /\ StaysPut
    BY <1>3, StartMatchPlaces DEF StaysPut
  <2>2. pc = "match" /\ pc' = "round" /\ UNCHANGED reader
    BY <1>3 DEF StartMatch
  <2> QED
    BY <2>1, <2>2 DEF Rounds, Leaves, reader
<1>4. CASE EndRound
  <2>1. Places' /\ StaysPut
    BY <1>4, EndRoundPlaces DEF StaysPut
  <2>2. pc = "match" /\ pc' = "bracket" /\ UNCHANGED reader
    BY <1>4 DEF EndRound
  <2> QED
    BY <2>1, <2>2 DEF Rounds, Leaves, reader
<1>5. CASE AskForEnter \/ ReadEnter \/ (\E b \in Bots : BotDecides(b)) \/ ShowMovePrompt
  <2>1. /\ pc \in {"round", "enter", "thinking"} /\ pc' \in {"enter", "thinking", "reading"}
        /\ UNCHANGED <<matches, forfeited, deltas>>
        /\ pc = "round" => ContainsHuman(group)
    BY <1>5 DEF AskForEnter, ReadEnter, BotDecides, ShowMovePrompt, reader
  <2>2. Places' /\ StaysPut
    BY <2>1, SameGroup DEF InMatch, matches, StaysPut
  <2>3. ContainsHuman(group)'
    BY <2>1 DEF Rounds, matches, ContainsHuman
  <2> QED
    BY <2>1, <2>2, <2>3 DEF Rounds, Leaves
<1>6. CASE ReadAttempt \/ ReadEof
  <2>1. /\ pc = "reading" /\ pc' \in {"reading", "scoring"} /\ UNCHANGED <<matches, deltas>>
        /\ forfeited' \in BOOLEAN /\ (forfeited' => pc' = "scoring")
    <3>1. CASE ReadEof
      BY <3>1 DEF ReadEof
    <3>2. CASE ReadAttempt /\ line' = "move"
      BY <3>2 DEF ReadAttempt, Rounds
    <3>3. CASE ReadAttempt /\ line' # "move"
      <4>1. /\ pc = "reading" /\ UNCHANGED <<matches, deltas>>
            /\ pc' = IF remaining > 1 THEN "reading" ELSE "scoring"
            /\ forfeited' = (remaining = 1)
        BY <3>3 DEF ReadAttempt
      <4>2. CASE remaining = 1
        BY <4>1, <4>2
      <4>3. CASE remaining # 1
        BY <4>1, <4>3
      <4> QED
        BY <4>2, <4>3
    <3> QED
      BY <1>6, <3>1, <3>2, <3>3
  <2>2. Places' /\ StaysPut
    BY <2>1, SameGroup DEF InMatch, matches, StaysPut
  <2>3. ContainsHuman(group)'
    BY <2>1 DEF Rounds, matches, ContainsHuman
  <2> QED
    BY <2>1, <2>2, <2>3 DEF Rounds, Leaves
<1>7. CASE PlayWithoutHuman
  <2>1. pc = "round" /\ pc' = "scoring" /\ UNCHANGED <<matches, reader>>
    BY <1>7 DEF PlayWithoutHuman
  <2>2. Places' /\ StaysPut
    BY <2>1, SameGroup DEF InMatch, matches, StaysPut
  <2> QED
    BY <2>1, <2>2 DEF Rounds, Leaves, reader
<1>8. CASE ScoreRound
  <2>1. /\ pc = "scoring" /\ pc' = "scored" /\ forfeited' = FALSE
        /\ deltas' \in RoundDeltas /\ UNCHANGED matches
    BY <1>8 DEF ScoreRound
  <2>2. Places' /\ StaysPut
    BY <2>1, SameGroup DEF InMatch, matches, StaysPut
  <2>3. /\ group \in Seq(Participants) /\ Len(group) \in {2, 3} /\ IsInjective(group)
        /\ forfeited => ContainsHuman(group)
    BY <2>1 DEF Places, Rounds, InMatch, Between, Apart
  <2>4. deltas' \in [DOMAIN group -> 0..2] /\ (Drawn(deltas') \/ Decided(deltas'))
    BY <2>1, <2>3, RoundsAreDrawnOrDecided
  <2>5. UNCHANGED group
    BY <2>1 DEF matches
  <2> QED
    BY <2>1, <2>2, <2>4, <2>5 DEF Rounds, Leaves
<1>9. CASE ReplayDraw
  <2>1. /\ pc = "scored" /\ pc' = "round" /\ MaxDelta(deltas) = 1 /\ deltas' = <<>>
        /\ UNCHANGED <<matches, forfeited>>
    BY <1>9 DEF ReplayDraw
  <2>2. Places' /\ StaysPut
    BY <2>1, SameGroup DEF InMatch, matches, StaysPut
  <2> QED
    BY <2>1, <2>2 DEF Rounds, Leaves
<1>10. CASE DecideRound
  <2>1. pc' \in {"match", "round"} /\ deltas' = <<>> /\ UNCHANGED forfeited
    BY <1>10 DEF DecideRound, NarrowGroup, EndMatch, DecidingMatch
  <2> QED
    BY <1>10, <2>1, DecideRoundPlaces DEF Rounds, Leaves
<1> QED
  BY <1>1, <1>2, <1>3, <1>4, <1>5, <1>6, <1>7, <1>8, <1>9, <1>10 DEF Worker

\* The other threads leave the bracket alone.
LEMMA StepPlaces == Places /\ Rounds /\ [Next]_vars => Places' /\ Rounds' /\ Leaves
<1> SUFFICES ASSUME Places, Rounds, [Next]_vars  PROVE Places' /\ Rounds' /\ Leaves
  OBVIOUS
<1>1. CASE Worker
  BY <1>1, WorkerPlaces
<1>2. CASE Deliver \/ ClickMove \/ CloseWindow \/ Join \/ UNCHANGED vars
  <2>1. UNCHANGED <<pc, matches, reader>>
    BY <1>2 DEF Deliver, DeliverEnter, DeliverPrompt, DeliverGameFinished, ClickMove, CloseWindow,
                Join, vars
  <2>2. Places' /\ StaysPut
    BY <2>1, SameGroup DEF matches, StaysPut
  <2> QED
    BY <2>1, <2>2 DEF Rounds, Leaves, reader, matches, ContainsHuman
<1> QED
  BY <1>1, <1>2 DEF Next

\* Somebody is still in.
Somebody == Standing(pc, current, bracket, group, nextRound) # {}

\* The bracket of every state.
LEMMA BracketInvariant == Spec => [](Places /\ Rounds /\ Somebody)
<1>1. Init => Somebody
  <2> SUFFICES ASSUME Init  PROVE Somebody
    OBVIOUS
  <2>1. pc = "bracket" /\ current = <<Human>> \o SetToSeq(Bots)
    BY DEF Init
  <2>2. current \in Seq(Participants) /\ Len(current) > 0
    <3>1. Places
      BY PlacesInit
    <3>2. current # <<>>
      BY <2>1, EverybodyEntered
    <3> QED
      BY <3>1, <3>2 DEF Places
  <2>3. 1 \in DOMAIN current
    BY <2>2
  <2>4. ToSet(current) # {}
    BY <2>3 DEF ToSet
  <2> QED
    BY <2>1, <2>4 DEF Somebody, Standing, Between
<1>2. Places /\ Rounds /\ Somebody /\ [Next]_vars => Somebody'
  BY StepPlaces DEF Somebody, Leaves, StaysPut
<1> QED
  BY <1>1, <1>2, PlacesInit, StepPlaces, PTL DEF Spec

\* Those still in, as the module names them.
LEMMA StillInIs == Places => /\ StillIn = Standing(pc, current, bracket, group, nextRound)
                             /\ OnePlaceEach(Lists)
BY ListsAre DEF Places, StillIn, Lists

\* For any number of participants: nobody meets an empty chair, nobody is in two
\* matches, a deciding match has two players (TournamentManager.cpp:26), and
\* somebody is left to be the champion (line 117).
THEOREM MatchesAreAlwaysPlayable == Spec => []MatchesArePlayable
<1>1. Places /\ Somebody => MatchesArePlayable
  BY StillInIs DEF Places, Somebody, MatchesArePlayable, InMatch
<1> QED
  BY <1>1, BracketInvariant, PTL

\* For any number of participants: whoever leaves has just lost a round, everybody
\* who lost it leaves, and every decided round has a loser
\* (TournamentManager.cpp:55-75).
THEOREM LosersAlwaysDropOut == Spec => LosersDropOut
<1> DEFINE Out == LET out == StillIn \ StillIn'
                  IN  IF pc = "scored" /\ pc' # "scored" /\ MaxDelta(deltas) = 2
                      THEN out # {} /\ out = {group[i] : i \in {i \in DOMAIN group : deltas[i] = 0}}
                      ELSE out = {}
<1>0. Places' => StillIn' = Standing(pc', current', bracket', group', nextRound')
  BY ListsAre DEF Places, StillIn, Lists
<1>1. ASSUME Places, Places', Leaves  PROVE Out
  <2>1. StillIn = Standing(pc, current, bracket, group, nextRound)
    BY <1>1, StillInIs
  <2>2. StillIn' = Standing(pc', current', bracket', group', nextRound')
    BY <1>1, <1>0
  <2> QED
    BY <1>1, <2>1, <2>2 DEF Leaves, StaysPut
<1>2. Places /\ Rounds /\ [Next]_vars => [Out]_vars
  BY <1>1, StepPlaces
<1> QED
  BY <1>2, BracketInvariant, PTL DEF Spec, LosersDropOut

-----------------------------------------------------------------------------
(* Types.                                                                  *)

\* What the tokens and the bracket leave open.
Kinds == /\ mState \in Window!WindowState /\ table = 0
         /\ phase \in {"open", "joining", "gone"}
         /\ line \in Line \cup {NoLine}
         /\ thinking \subseteq Bots
         /\ remaining \in 0..3 /\ (pc = "reading" => remaining \in 1..3)

\* Every step keeps the kinds.
LEMMA StepKinds == IInv /\ Places /\ Kinds /\ [Next]_vars => Kinds'
<1> SUFFICES ASSUME IInv, Places, Kinds, [Next]_vars  PROVE Kinds'
  OBVIOUS
<1> USE DEF Kinds, gui, stream, reader, Window!WindowState
<1>1. CASE StartRound \/ StartMatch \/ EndRound \/ PlayWithoutHuman \/ ReplayDraw \/ ScoreRound
  BY <1>1 DEF StartRound, StartMatch, EndRound, PlayWithoutHuman, ReplayDraw, ScoreRound
<1>2. CASE ShowTournamentWinner \/ AskForEnter
  BY <1>2 DEF ShowTournamentWinner, AskForEnter
<1>3. CASE ReadEnter
  <2>1. line' \in Line \cup {NoLine}
    <3>1. CASE Stream!Getline
      <4>1. lines \in Seq(Line) /\ lines # <<>> /\ line' = Head(lines)
        BY <3>1 DEF IInv, TypeInv, Stream!Getline
      <4> QED
        BY <4>1
    <3>2. CASE Stream!GetlineFails
      BY <3>2 DEF Stream!GetlineFails
    <3> QED
      BY <1>3, <3>1, <3>2 DEF ReadEnter
  <2>2. thinking' \subseteq Bots
    <3>1. thinking' = ToSet(group) \ {Human} /\ group \in Seq(Participants)
      BY <1>3 DEF ReadEnter, Places
    <3> QED
      BY <3>1 DEF ToSet, Participants
  <2> QED
    BY <1>3, <2>1, <2>2 DEF ReadEnter
<1>4. ASSUME NEW b \in Bots, BotDecides(b)  PROVE Kinds'
  BY <1>4 DEF BotDecides
<1>5. CASE ShowMovePrompt
  BY <1>5 DEF ShowMovePrompt
<1>6. CASE ReadAttempt
  <2>1. lines \in Seq(Line) /\ lines # <<>> /\ line' = Head(lines)
    BY <1>6 DEF ReadAttempt, Stream!Getline, IInv, TypeInv
  <2>2. line' \in Line
    BY <2>1
  <2>3. remaining \in 1..3
    BY <1>6 DEF ReadAttempt
  <2>4. CASE line' = "move"
    BY <1>6, <2>2, <2>4 DEF ReadAttempt
  <2>5. CASE line' # "move"
    BY <1>6, <2>2, <2>3, <2>5 DEF ReadAttempt
  <2> QED
    BY <2>4, <2>5
<1>7. CASE ReadEof
  BY <1>7 DEF ReadEof, Stream!GetlineFails
<1>8. CASE DecideRound
  BY <1>8 DEF DecideRound, NarrowGroup, EndMatch, DecidingMatch
<1>9. CASE DeliverEnter
  BY <1>9 DEF DeliverEnter, Stream!PushLine
<1>10. CASE DeliverPrompt \/ DeliverGameFinished
  BY <1>10 DEF DeliverPrompt, DeliverGameFinished, Window!onMovePrompt, Window!onGameFinished, Window!setState
<1>11. CASE ClickMove
  BY <1>11 DEF ClickMove, Window!pushMove, Window!setState, Stream!PushLine
<1>12. CASE CloseWindow
  BY <1>12 DEF CloseWindow, Stream!Close
<1>13. CASE Join
  BY <1>13 DEF Join
<1>14. CASE UNCHANGED vars
  BY <1>14 DEF vars
<1> QED
  BY <1>1, <1>2, <1>3, <1>4, <1>5, <1>6, <1>7, <1>8, <1>9, <1>10, <1>11, <1>12, <1>13, <1>14
     DEF Next, Worker, Deliver

\* A list of two or three participants is a group.
LEMMA GroupsAre ==
  ASSUME NEW g \in Seq(Participants), Len(g) \in {2, 3}
  PROVE  g \in Groups
<1>1. PICK n \in 1..3 : n = Len(g)
  OBVIOUS
<1>2. g \in [1..n -> Participants]
  BY <1>1
<1> QED
  BY <1>2 DEF Groups

\* For any number of participants: the types of all variables; in particular only
\* bots are waited for (GameController.cpp:132-153).
THEOREM TournamentTypes == Spec => []TypeOK
<1>1. Init => Kinds
  BY DEF Init, Window!Init, Stream!Init, Kinds, Window!WindowState
<1>2. IInv /\ Places /\ Rounds /\ Kinds => TypeOK
  <2> SUFFICES ASSUME IInv, Places, Rounds, Kinds  PROVE TypeOK
    OBVIOUS
  <2>1. /\ ToSet(events) \subseteq {"enter", "prompt", "over"}
        /\ ToSet(lines) \subseteq Line
        /\ closed \in BOOLEAN /\ eof \in BOOLEAN
    <3>1. \A i \in DOMAIN events : events[i] \in {"enter", "prompt", "over"}
      BY DEF IInv, TypeInv
    <3>2. \A i \in DOMAIN lines : lines[i] \in Line
      BY DEF IInv, TypeInv
    <3> QED
      BY <3>1, <3>2 DEF ToSet, IInv, ClosedInv
  <2>2. ToSet(current) \subseteq Participants /\ ToSet(nextRound) \subseteq Participants
    BY DEF Places, ToSet
  <2>3. ToSet(bracket) \subseteq Groups
    <3>1. \A k \in DOMAIN bracket : bracket[k] \in Seq(Participants) /\ Len(bracket[k]) \in {2, 3}
      BY DEF Places, ToSet
    <3> QED
      BY <3>1, GroupsAre DEF ToSet
  <2>4. group = <<>> \/ group \in Groups
    BY GroupsAre DEF Places
  <2>5. deltas = <<>> \/ deltas \in [DOMAIN group -> 0..2]
    BY DEF Rounds
  <2>6. pc \in {"bracket", "match", "round", "enter", "thinking", "reading", "scoring", "scored",
                "finished"}
    BY DEF Places, Between, InMatch
  <2> QED
    BY <2>1, <2>2, <2>3, <2>4, <2>5, <2>6 DEF TypeOK, Kinds, Rounds
<1> QED
  BY <1>1, <1>2, InitInvariant, StepInvariant, PlacesInit, StepPlaces, StepKinds, PTL DEF Spec

=============================================================================
