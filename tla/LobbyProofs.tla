----------------------------- MODULE LobbyProofs -----------------------------
(***************************************************************************)
(* For any number of players and connections: what a lobby and the game    *)
(* after it promise to those who join.                                     *)
(*                                                                         *)
(* Everything rests on FrameOf.  Of the bytes that a reader holds and      *)
(* those that are on their way to it, the first few may be left over from  *)
(* an earlier connection; the rest are the messages written and not yet    *)
(* handled, in order, two symbols each.  So a line that a reader takes is  *)
(* the first message that is owed, alone, unless it is the first line of   *)
(* its connection and ran into the left-over bytes.  What the screens say  *)
(* then follows from what the messages still owed may be, given what the   *)
(* host has done: game_started goes to those it seats, welcome to those    *)
(* whose name it knows, nothing is asked after the end.                    *)
(***************************************************************************)
EXTENDS Lobby, CommonLemmas

-----------------------------------------------------------------------------
(* The inductive invariant: what holds of the connections, and of each     *)
(* player's program.                                                       *)

\* What is written are messages, cut only where the stream ends.
WireInv ==
  \A c \in Connection :
    /\ Bytes(down[c]) \in Seq(Symbol)
    /\ down[c] = IF Open(down[c]) THEN Bytes(down[c]) ELSE Append(Bytes(down[c]), Closed)

\* Where a connection can be, and what it can carry there: nothing before it is
\* made, no messages before the server has accepted it.
PlaceInv ==
  /\ host = "setup" => mClients = {} /\ backlog = {}
  /\ seats = IF host = "game" THEN mClients ELSE {}
  /\ \A c \in Connection : c > made =>
       /\ c \notin mClients \cup backlog
       /\ down[c] = <<>> /\ owed[c] = <<>> /\ up[c] = <<>>
  /\ \A c \in backlog : Bytes(down[c]) = <<>> /\ owed[c] = <<>>

\* Before the game, only those whose name the server has are welcomed.
WelcomeInv ==
  host \in {"setup", "lobby"} =>
    \A c \in (mClients \cup backlog) \ named :
      \A i \in DOMAIN owed[c] : owed[c][i] # "welcome"

\* Nothing is asked after the end.
TurnInv ==
  \A c \in Connection :
    \A i \in DOMAIN owed[c] : owed[c][i] = "game_finished" =>
      over /\ \A j \in DOMAIN owed[c] : j > i => owed[c][j] # "your_turn"

\* A socket stands for a connection of its own.
Distinct ==
  \A p, q \in Players : p # q /\ program[p].link # NoLink => program[p].link # program[q].link

LinkOf(p) ==
  LET prog == program[p]
      c == prog.link
  IN  /\ c \in 0..made
      /\ prog.socket = "unconnected" <=> c = NoLink
      /\ prog.socket = "connecting" =>
           /\ c \notin mClients \cup backlog
           /\ down[c] = <<>> /\ owed[c] = <<>> /\ up[c] = <<>>
           /\ ~prog.welcomed
      /\ Connected(prog) /\ Open(down[c]) =>
           /\ Open(up[c])
           /\ host # "gone" => c \in mClients \cup backlog

\* The bytes of buffer and bytes are junk symbols from before, then the messages
\* ms, the last of which may be cut off.
Framed(buffer, bytes, junk, ms) ==
  LET all == buffer \o bytes
  IN  /\ junk <= Len(buffer)
      /\ Len(all) <= junk + 2 * Len(ms)
      /\ \A k \in 1..Len(ms) : /\ junk + 2 * k - 1 <= Len(all) => all[junk + 2 * k - 1] = ms[k]
                               /\ junk + 2 * k <= Len(all) => all[junk + 2 * k] = NewLine

NoLines(buffer) == \A i \in DOMAIN buffer : buffer[i] # NewLine

FrameOf(p) ==
  LET prog == program[p]
      c == prog.link
  IN  /\ NoLines(prog.mBuffer)
      /\ prog.socket = "connecting" /\ prog.fresh => prog.mBuffer = <<>>
      /\ Connected(prog) =>
           \E junk \in 0..Len(prog.mBuffer) :
             /\ Framed(prog.mBuffer, Bytes(down[c]), junk, owed[c])
             /\ Open(down[c]) =>
                  Len(prog.mBuffer) + Len(Bytes(down[c])) = junk + 2 * Len(owed[c])
             /\ prog.fresh => junk = 0

\* What a screen can be: the session begins and ends only at the window.
ScreenOf(p) ==
  LET prog == program[p]
  IN  /\ prog.screen \in {"dialog", "window", "gone"}
      /\ prog.screen = "dialog" => ~prog.mEnded /\ ~prog.finished
      /\ prog.screen = "window" => prog.socket # "connecting"
      /\ prog.screen = "gone" => prog.socket = "unconnected"
      /\ prog.screen = "window" /\ Connected(prog) => prog.link \notin backlog /\ ~prog.finished
      /\ prog.finished => prog.mEnded

\* Whoever has a seat has been told, or will be.
SeatOf(p) ==
  LET prog == program[p]
      c == prog.link
  IN  Connected(prog) /\ Open(down[c]) /\ c \in seats /\ prog.screen = "dialog" =>
        \/ \E i \in DOMAIN owed[c] : owed[c][i] = "game_started"
        \/ "game_started" \in prog.missed

\* A player hears the welcome before the game starts only if the server has its
\* name by then.
NameOf(p) ==
  LET prog == program[p]
      c == prog.link
  IN  prog.screen = "dialog" =>
        /\ host \in {"setup", "lobby"} /\ c \in (mClients \cup backlog) \ named =>
             ~prog.welcomed
        /\ c \in seats \ ownName =>
             \/ "game_started" \in prog.missed
             \/ /\ ~prog.welcomed
                /\ \A i \in DOMAIN owed[c] : owed[c][i] = "welcome" =>
                     \E j \in DOMAIN owed[c] : j < i /\ owed[c][j] = "game_started"

\* What an ended session shows, and that no turn can follow.
EndOf(p) ==
  LET prog == program[p]
  IN  prog.screen = "window" /\ prog.mEnded =>
        /\ prog.mState = IF prog.finished THEN "Waiting" ELSE "GameOver"
        /\ Connected(prog) =>
             over /\ \A i \in DOMAIN owed[prog.link] : owed[prog.link][i] # "your_turn"

PlayerInv(p) == LinkOf(p) /\ FrameOf(p) /\ ScreenOf(p) /\ SeatOf(p) /\ NameOf(p) /\ EndOf(p)

IInv == /\ TypeOK /\ WireInv /\ PlaceInv /\ WelcomeInv /\ TurnInv /\ Distinct
        /\ \A p \in Players : PlayerInv(p)

-----------------------------------------------------------------------------
(* The bytes of messages, and the lines among them.                        *)

\* A message is two symbols: its text, and the end of the line.
LEMMA EncodedIs ==
  ASSUME NEW ms \in Seq(Message)
  PROVE  /\ Encoded(ms) \in Seq(Symbol)
         /\ Len(Encoded(ms)) = 2 * Len(ms)
         /\ \A k \in 1..Len(ms) : /\ Encoded(ms)[2 * k - 1] = ms[k]
                                  /\ Encoded(ms)[2 * k] = NewLine
<1> DEFINE n == 2 * Len(ms)
           text(i) == encode(ms[(i + 1) \div 2])[2 - (i % 2)]
<1>1. Encoded(ms) = [i \in 1..n |-> text(i)]
  BY DEF Encoded
<1>2. ASSUME NEW k \in 1..Len(ms)
      PROVE  /\ (2 * k - 1) \in 1..n /\ 2 * k \in 1..n
             /\ (2 * k - 1 + 1) \div 2 = k /\ 2 - ((2 * k - 1) % 2) = 1
             /\ (2 * k + 1) \div 2 = k /\ 2 - ((2 * k) % 2) = 2
  OBVIOUS
<1>3. ASSUME NEW k \in 1..Len(ms)
      PROVE  text(2 * k - 1) = ms[k] /\ text(2 * k) = NewLine
  <2>1. text(2 * k - 1) = encode(ms[k])[1]
    BY <1>2
  <2>2. text(2 * k) = encode(ms[k])[2]
    BY <1>2
  <2> HIDE DEF text
  <2> QED
    BY <2>1, <2>2 DEF encode
<1>4. ASSUME NEW i \in 1..n
      PROVE  \E k \in 1..Len(ms) : i = 2 * k - 1 \/ i = 2 * k
  <2>1. CASE i % 2 = 0
    <3>1. i = 2 * (i \div 2) /\ i \div 2 \in 1..Len(ms)
      BY <2>1
    <3> QED
      BY <3>1
  <2>2. CASE i % 2 = 1
    <3>1. i = 2 * ((i + 1) \div 2) - 1 /\ (i + 1) \div 2 \in 1..Len(ms)
      BY <2>2
    <3> QED
      BY <3>1
  <2> QED
    BY <2>1, <2>2
<1>5. ASSUME NEW i \in 1..n  PROVE text(i) \in Symbol
  <2>1. PICK k \in 1..Len(ms) : i = 2 * k - 1 \/ i = 2 * k
    BY <1>4
  <2>2. ms[k] \in Symbol /\ NewLine \in Symbol
    BY DEF Symbol
  <2> HIDE DEF text, n
  <2> QED
    BY <2>1, <2>2, <1>3
<1>6. n \in Nat
  OBVIOUS
<1> HIDE DEF text, n
<1>7. Encoded(ms) \in Seq(Symbol) /\ Len(Encoded(ms)) = n
  BY <1>1, <1>5, <1>6
<1>8. \A k \in 1..Len(ms) : /\ Encoded(ms)[2 * k - 1] = ms[k]
                            /\ Encoded(ms)[2 * k] = NewLine
  BY <1>1, <1>2, <1>3
<1> QED
  BY <1>7, <1>8 DEF n

\* The lines within the first n bytes are those within the first n - 1, and one
\* more if the n-th byte ends one.
LEMMA LinesAmongIs ==
  ASSUME NEW bytes \in Seq(Symbol)
  PROVE  /\ LinesAmong(bytes) \in [0..Len(bytes) -> Nat]
         /\ LinesAmong(bytes)[0] = 0
         /\ \A n \in 1..Len(bytes) :
              LinesAmong(bytes)[n] = LinesAmong(bytes)[n - 1] + (IF bytes[n] = NewLine THEN 1 ELSE 0)
<1> DEFINE m == Len(bytes)
           more(i) == IF bytes[i] = NewLine THEN 1 ELSE 0
           step == [i \in 1..m |-> [x \in Nat |-> x + more(i)]]
           Lines(f) == f = [n \in 0..m |-> IF n = 0 THEN 0 ELSE f[n - 1] + more(n)]
<1>1. m \in Nat /\ step \in [1..m -> [Nat -> Nat]]
  OBVIOUS
<1>2. \A i \in 1..m : \A x \in Nat : step[i][x] = x + more(i)
  OBVIOUS
<1>3. \A i \in 1..m : more(i) \in Nat
  OBVIOUS
<1> DEFINE S == Nat
<1> HIDE DEF step, m, more
<1>4. PICK f \in [0..m -> Nat] : f[0] = 0 /\ \A i \in 1..m : f[i] = step[i][f[i - 1]]
  <2> DEFINE a == 0
  <2>1. a \in S /\ m \in Nat /\ step \in [1..m -> [S -> S]]
    BY <1>1
  <2> HIDE DEF S, a
  <2>2. \E f \in [0..m -> S] : f[0] = a /\ \A i \in 1..m : f[i] = step[i][f[i - 1]]
    BY <2>1, LoopsHaveResults
  <2> QED
    BY <2>2 DEF S, a
<1>5. ASSUME NEW n \in 1..m  PROVE f[n - 1] \in Nat /\ f[n] = f[n - 1] + more(n)
  <2>1. n - 1 \in 0..m
    BY <1>1
  <2>2. f[n - 1] \in Nat
    BY <2>1, <1>4
  <2>3. f[n] = step[n][f[n - 1]]
    BY <1>4
  <2> QED
    BY <2>2, <2>3, <1>2
<1>6. \E g : Lines(g)
  <2>1. f = [n \in 0..m |-> IF n = 0 THEN 0 ELSE f[n - 1] + more(n)]
    BY <1>1, <1>4, <1>5
  <2> QED
    BY <2>1
<1>7. Lines(LinesAmong(bytes))
  BY <1>6 DEF LinesAmong, more, m
<1> DEFINE lines == LinesAmong(bytes)
<1>8. \A n \in 0..m : lines[n] = IF n = 0 THEN 0 ELSE lines[n - 1] + more(n)
  BY <1>1, <1>7
<1> HIDE DEF lines
<1>9. lines[0] = 0 /\ \A n \in 1..m : lines[n] = lines[n - 1] + more(n)
  BY <1>1, <1>8
<1>10. \A n \in 0..m : lines[n] \in Nat
  <2> DEFINE T == {n \in 0..m : lines[n] \in Nat}
  <2>1. T \in SUBSET (0..m) /\ 0 \in T
    BY <1>1, <1>9
  <2>2. \A i \in T : i < m => i + 1 \in T
    <3> SUFFICES ASSUME NEW i \in T, i < m  PROVE i + 1 \in T
      OBVIOUS
    <3>1. i + 1 \in 1..m /\ (i + 1) - 1 = i
      BY <1>1
    <3>2. lines[i + 1] = lines[i] + more(i + 1)
      BY <1>9, <3>1
    <3> QED
      BY <3>1, <3>2, <1>3
  <2> HIDE DEF T
  <2>3. T = 0..m
    BY <2>1, <2>2, <1>1, BoundedInduction
  <2> QED
    BY <2>3 DEF T
<1> QED
  <2>1. lines = [n \in 0..m |-> IF n = 0 THEN 0 ELSE lines[n - 1] + more(n)]
    BY <1>7 DEF lines
  <2>2. lines \in [0..m -> Nat]
    BY <2>1, <1>10
  <2> QED
    BY <2>2, <1>9 DEF lines, more, m

\* The loop of onReadyRead turns once for each line.
LEMMA HeardAfterIs ==
  ASSUME NEW prog \in Program, NEW bytes \in Seq(Symbol)
  PROVE  /\ HeardAfter(prog, bytes)[0] = [prog EXCEPT !.mBuffer = @ \o bytes]
         /\ \A n \in 1..Len(bytes) :
              HeardAfter(prog, bytes)[n] = IF bytes[n] = NewLine
                                           THEN next(HeardAfter(prog, bytes)[n - 1])
                                           ELSE HeardAfter(prog, bytes)[n - 1]
<1> DEFINE m == Len(bytes)
           start == [prog EXCEPT !.mBuffer = @ \o bytes]
           turn(n, x) == IF bytes[n] = NewLine THEN next(x) ELSE x
           Hears(f, k) == f = [n \in 0..k |-> IF n = 0 THEN start ELSE turn(n, f[n - 1])]
           Known == {k \in 0..m : \E f : Hears(f, k)}
<1>1. m \in Nat
  OBVIOUS
<1> HIDE DEF m, start, turn
<1>2. 0 \in Known
  <2>1. Hears([n \in 0..0 |-> start], 0)
    OBVIOUS
  <2> HIDE DEF Hears
  <2> QED
    BY <2>1, <1>1
<1>3. ASSUME NEW k \in Known, k < m  PROVE k + 1 \in Known
  <2>1. k \in Nat /\ k + 1 \in 0..m
    BY <1>1, <1>3
  <2>2. PICK f : Hears(f, k)
    OBVIOUS
  <2> DEFINE g == [n \in 0..(k + 1) |-> IF n <= k THEN f[n] ELSE turn(n, f[k])]
  <2>3. ASSUME NEW n \in 0..(k + 1)
        PROVE  g[n] = IF n = 0 THEN start ELSE turn(n, g[n - 1])
    <3>1. CASE n = 0
      BY <3>1, <2>1, <2>2
    <3>2. CASE n \in 1..k
      <4>1. n \in 0..k /\ n - 1 \in 0..k /\ n # 0
        BY <3>2, <2>1
      <4>2. f[n] = turn(n, f[n - 1])
        BY <4>1, <2>2
      <4>3. g[n] = f[n] /\ g[n - 1] = f[n - 1]
        BY <4>1, <2>1
      <4> QED
        BY <4>1, <4>2, <4>3
    <3>3. CASE n = k + 1
      <4>1. n # 0 /\ ~(n <= k) /\ n - 1 = k /\ k \in 0..(k + 1) /\ k <= k
        BY <3>3, <2>1
      <4>2. g[n] = turn(n, f[k]) /\ g[k] = f[k]
        BY <4>1
      <4> QED
        BY <4>1, <4>2
    <3> QED
      BY <3>1, <3>2, <3>3, <2>1
  <2>4. g = [n \in 0..(k + 1) |-> g[n]]
    OBVIOUS
  <2> HIDE DEF g
  <2>5. Hears(g, k + 1)
    BY <2>3, <2>4
  <2> HIDE DEF Hears
  <2> QED
    BY <2>1, <2>5
<1>4. Known = 0..m
  <2>1. Known \in SUBSET (0..m)
    OBVIOUS
  <2> HIDE DEF Known
  <2> QED
    BY <1>1, <1>2, <1>3, <2>1, BoundedInduction
<1>5. \E f : Hears(f, m)
  <2>1. m \in Known
    <3> HIDE DEF Known
    <3> QED
      BY <1>1, <1>4
  <2> HIDE DEF Hears
  <2> QED
    BY <2>1
<1>6. Hears(HeardAfter(prog, bytes), m)
  BY <1>5 DEF HeardAfter, start, turn, m
<1>7. ASSUME NEW n \in 1..m
      PROVE  HeardAfter(prog, bytes)[n] = turn(n, HeardAfter(prog, bytes)[n - 1])
  BY <1>1, <1>6
<1>8. HeardAfter(prog, bytes)[0] = start
  BY <1>1, <1>6
<1> QED
  BY <1>7, <1>8 DEF turn, start, m

\* What is left of s after its first n elements.
Rest(s, n) == SubSeq(s, n + 1, Len(s))

\* What Rest returns, position by position.
LEMMA RestIs ==
  ASSUME NEW S, NEW s \in Seq(S), NEW n \in 0..Len(s)
  PROVE  /\ Rest(s, n) \in Seq(S)
         /\ Len(Rest(s, n)) = Len(s) - n
         /\ \A i \in 1..(Len(s) - n) : Rest(s, n)[i] = s[n + i]
<1>1. n + 1 \in Int /\ Len(s) \in Int /\ \A i \in (n + 1)..Len(s) : s[i] \in S
  OBVIOUS
<1>2. \A i \in 1..(Len(s) - n) : (n + 1) + i - 1 = n + i
  OBVIOUS
<1>3. /\ Rest(s, n) \in Seq(S)
      /\ Len(Rest(s, n)) = IF n + 1 <= Len(s) THEN Len(s) - (n + 1) + 1 ELSE 0
      /\ \A i \in 1..(Len(s) - (n + 1) + 1) : Rest(s, n)[i] = s[(n + 1) + i - 1]
  BY <1>1, SubSeqProperties DEF Rest
<1> QED
  BY <1>2, <1>3

\* The end of a stream is seen as such, and the bytes before it as they are.
LEMMA WireIs ==
  ASSUME NEW b \in Seq(Symbol)
  PROVE  /\ Open(b) /\ Bytes(b) = b
         /\ ~Open(Append(b, Closed)) /\ Bytes(Append(b, Closed)) = b
<1>1. \A x \in Symbol : x # Closed
  BY DEF Symbol, Message, NewLine, Closed
<1>2. Open(b)
  BY <1>1 DEF Open
<1> DEFINE s == Append(b, Closed)
<1>3. s \in Seq(Symbol \cup {Closed}) /\ Len(s) = Len(b) + 1 /\ s[Len(b) + 1] = Closed
  OBVIOUS
<1>4. ~Open(s)
  <2>1. Len(b) + 1 \in DOMAIN s
    BY <1>3
  <2> QED
    BY <2>1, <1>3 DEF Open
<1>5. Front(s) = b
  <2>1. Front(s) = SubSeq(s, 1, Len(b))
    BY <1>3 DEF Front
  <2>2. \A i \in 1..Len(b) : s[i] = b[i]
    OBVIOUS
  <2>3. /\ SubSeq(s, 1, Len(b)) \in Seq(Symbol)
        /\ Len(SubSeq(s, 1, Len(b))) = Len(b)
        /\ \A i \in 1..Len(b) : SubSeq(s, 1, Len(b))[i] = b[i]
    OBVIOUS
  <2> QED
    BY <2>1, <2>3, SeqEqual
<1> QED
  BY <1>2, <1>4, <1>5 DEF Bytes

\* The first line of a buffer ends at its first '\n'.
LEMMA NextLineIs ==
  ASSUME NEW B, NEW k \in DOMAIN B, DOMAIN B \subseteq Nat \ {0}, B[k] = NewLine,
         \A j \in 1..(k - 1) : B[j] # NewLine
  PROVE  LineOf(B) = SubSeq(B, 1, k - 1) /\ AfterLine(B) = Rest(B, k)
<1>1. \A i \in DOMAIN B : B[i] = NewLine /\ (\A j \in 1..(i - 1) : B[j] # NewLine) => i = k
  OBVIOUS
<1>2. indexOf(B) = k
  BY <1>1 DEF indexOf
<1> QED
  BY <1>2 DEF LineOf, AfterLine, Rest

\* Where the lines end among bytes that follow a buffer without any: the k-th at
\* the end of the k-th message.
LEMMA LinesAre ==
  ASSUME NEW buffer \in Seq(Symbol), NoLines(buffer),
         NEW bytes \in Seq(Symbol), NEW ms \in Seq(Message), NEW junk \in Nat,
         Framed(buffer, bytes, junk, ms)
  PROVE  /\ \A i \in 0..Len(bytes) :
              /\ LinesAmong(bytes)[i] \in 0..Len(ms)
              /\ junk + 2 * LinesAmong(bytes)[i] <= Len(buffer) + i
              /\ Len(buffer) + i <= junk + 2 * LinesAmong(bytes)[i] + 1
         /\ \A i \in 1..Len(bytes) :
              IF bytes[i] = NewLine
              THEN /\ LinesAmong(bytes)[i] = LinesAmong(bytes)[i - 1] + 1
                   /\ Len(buffer) + i = junk + 2 * LinesAmong(bytes)[i]
              ELSE LinesAmong(bytes)[i] = LinesAmong(bytes)[i - 1]
<1> DEFINE L == Len(buffer)
           n == Len(bytes)
           m == Len(ms)
           all == buffer \o bytes
           N == LinesAmong(bytes)
           Among(i) == /\ N[i] \in 0..m
                       /\ junk + 2 * N[i] <= L + i
                       /\ L + i <= junk + 2 * N[i] + 1
<1>1. L \in Nat /\ n \in Nat /\ m \in Nat /\ junk <= L /\ Len(all) = L + n
  BY DEF Framed
<1>2. L + n <= junk + 2 * m
  BY <1>1 DEF Framed
<1>3. \A i \in 1..L : all[i] = buffer[i] /\ all[i] # NewLine
  BY DEF NoLines
<1>4. \A i \in 1..n : all[L + i] = bytes[i]
  OBVIOUS
<1>5. \A k \in 1..m : /\ junk + 2 * k - 1 <= L + n => all[junk + 2 * k - 1] # NewLine
                      /\ junk + 2 * k <= L + n => all[junk + 2 * k] = NewLine
  <2>1. \A k \in 1..m : ms[k] # NewLine
    BY DEF Message, NewLine
  <2> QED
    BY <2>1, <1>1 DEF Framed
<1>6. N[0] = 0 /\ \A i \in 1..n : N[i] = N[i - 1] + (IF bytes[i] = NewLine THEN 1 ELSE 0)
  BY LinesAmongIs
<1> HIDE DEF L, n, m, all, N
<1>7. Among(0)
  <2>1. L <= junk + 1
    <3> SUFFICES ASSUME L >= junk + 2  PROVE FALSE
      BY <1>1
    <3>1. 1 \in 1..m /\ junk + 2 * 1 <= L + n /\ junk + 2 * 1 \in 1..L
      BY <1>1, <1>2
    <3> QED
      BY <3>1, <1>3, <1>5
  <2> QED
    BY <2>1, <1>1, <1>6
<1>8. ASSUME NEW i \in 1..n, Among(i - 1)
      PROVE  /\ Among(i)
             /\ bytes[i] = NewLine => N[i] = N[i - 1] + 1 /\ L + i = junk + 2 * N[i]
             /\ bytes[i] # NewLine => N[i] = N[i - 1]
  <2>1. PICK k \in 0..m : k = N[i - 1]
    BY <1>8
  <2>2. junk + 2 * k <= L + i - 1 /\ L + i - 1 <= junk + 2 * k + 1
    BY <1>8, <2>1, <1>1
  <2>3. k + 1 \in 1..m
    BY <1>1, <1>2, <2>2
  <2>4. CASE L + i = junk + 2 * k + 1
    <3>1. L + i = junk + 2 * (k + 1) - 1 /\ L + i <= L + n
      BY <2>4, <1>1
    <3>2. bytes[i] # NewLine
      BY <3>1, <2>3, <1>4, <1>5
    <3>3. N[i] = k
      BY <3>2, <2>1, <1>6
    <3> QED
      BY <3>2, <3>3, <2>1, <2>4, <1>1
  <2>5. CASE L + i = junk + 2 * k + 2
    <3>1. L + i = junk + 2 * (k + 1) /\ L + i <= L + n
      BY <2>5, <1>1
    <3>2. bytes[i] = NewLine
      BY <3>1, <2>3, <1>4, <1>5
    <3>3. N[i] = k + 1
      BY <3>2, <2>1, <1>6
    <3>4. k + 1 \in 0..m /\ junk + 2 * (k + 1) <= L + i /\ L + i <= junk + 2 * (k + 1) + 1
      BY <2>3, <2>5, <1>1
    <3>5. Among(i)
      BY <3>3, <3>4
    <3> HIDE DEF Among
    <3> QED
      BY <3>1, <3>2, <3>3, <3>5, <2>1
  <2> QED
    BY <2>2, <2>4, <2>5, <1>1
<1>9. \A i \in 0..n : Among(i)
  <2> DEFINE T == {i \in 0..n : Among(i)}
  <2>1. T \in SUBSET (0..n) /\ 0 \in T
    BY <1>1, <1>7
  <2>2. \A i \in T : i < n => i + 1 \in T
    <3> SUFFICES ASSUME NEW i \in T, i < n  PROVE i + 1 \in T
      OBVIOUS
    <3>1. i + 1 \in 1..n /\ (i + 1) - 1 = i /\ i + 1 \in 0..n
      BY <1>1
    <3>2. Among((i + 1) - 1)
      BY <3>1
    <3> HIDE DEF Among
    <3>3. Among(i + 1)
      BY <3>1, <3>2, <1>8
    <3> QED
      BY <3>1, <3>3
  <2> HIDE DEF T
  <2>3. T = 0..n
    BY <2>1, <2>2, <1>1, BoundedInduction
  <2> QED
    BY <2>3 DEF T
<1>10. ASSUME NEW i \in 1..n
       PROVE  /\ bytes[i] = NewLine => N[i] = N[i - 1] + 1 /\ L + i = junk + 2 * N[i]
              /\ bytes[i] # NewLine => N[i] = N[i - 1]
  <2>1. i - 1 \in 0..n
    BY <1>1
  <2> HIDE DEF Among
  <2> QED
    BY <2>1, <1>8, <1>9
<1> QED
  BY <1>9, <1>10 DEF L, n, m, N

-----------------------------------------------------------------------------
(* What a program makes of the bytes it reads.                             *)

\* The message m, at the end of a line, is handled, or lost with what ran into it.
Turned(left, m, y) ==
  \/ y = handle(left, m)
  \/ \E lost \in SUBSET Message : /\ {m} \ {"lobby"} \subseteq lost
                                 /\ y = [left EXCEPT !.missed = @ \cup lost]

\* A turn of the loop takes the line up to the next '\n', at e, and handles the
\* message if the line is nothing else.
LEMMA TurnIs ==
  ASSUME NEW x \in Program, NEW all \in Seq(Symbol), NEW start \in 0..Len(all),
         x.mBuffer = Rest(all, start),
         NEW e \in 1..Len(all), e >= start + 2, all[e] = NewLine, all[e - 1] \in Message,
         \A j \in (start + 1)..(e - 1) : all[j] # NewLine
  PROVE  Turned([x EXCEPT !.mBuffer = Rest(all, e)], all[e - 1], next(x))
<1> DEFINE B == x.mBuffer
           k == e - start
           l == LineOf(B)
           left == [x EXCEPT !.mBuffer = Rest(all, e)]
<1>1. /\ B \in Seq(Symbol) /\ Len(B) = Len(all) - start
      /\ \A i \in 1..Len(B) : B[i] = all[start + i]
  <2>1. /\ Rest(all, start) \in Seq(Symbol) /\ Len(Rest(all, start)) = Len(all) - start
        /\ \A i \in 1..(Len(all) - start) : Rest(all, start)[i] = all[start + i]
    BY RestIs
  <2> QED
    BY <2>1
<1>2. /\ k \in 1..Len(B) /\ k >= 2 /\ start + k = e /\ start + (k - 1) = e - 1
      /\ k - 1 \in 1..Len(B) /\ start \in Nat /\ Len(B) \in Nat
  BY <1>1
<1>3. B[k] = NewLine /\ B[k - 1] = all[e - 1]
  BY <1>1, <1>2
<1>4. \A j \in 1..(k - 1) : B[j] # NewLine
  BY <1>1, <1>2
<1>5. DOMAIN B = 1..Len(B)
  BY <1>1
<1>6. l = SubSeq(B, 1, k - 1) /\ AfterLine(B) = Rest(B, k)
  <2>1. k \in DOMAIN B /\ DOMAIN B \subseteq Nat \ {0}
    BY <1>2, <1>5
  <2> HIDE DEF B, k
  <2> QED
    BY <2>1, <1>3, <1>4, NextLineIs
<1>7. Len(l) = k - 1 /\ l \in Seq(Symbol) /\ \A i \in 1..(k - 1) : l[i] = B[i]
  BY <1>1, <1>2, <1>6
<1>8. AfterLine(B) = Rest(all, e)
  <2>1. /\ Rest(B, k) \in Seq(Symbol) /\ Len(Rest(B, k)) = Len(B) - k
        /\ \A i \in 1..(Len(B) - k) : Rest(B, k)[i] = B[k + i]
    <3>1. k \in 0..Len(B)
      BY <1>2
    <3> HIDE DEF B, k
    <3> QED
      BY <3>1, <1>1, RestIs
  <2>2. /\ Rest(all, e) \in Seq(Symbol) /\ Len(Rest(all, e)) = Len(all) - e
        /\ \A i \in 1..(Len(all) - e) : Rest(all, e)[i] = all[e + i]
    <3>1. e \in 0..Len(all)
      OBVIOUS
    <3> QED
      BY <3>1, RestIs
  <2>3. Len(B) - k = Len(all) - e
    BY <1>1, <1>2
  <2>4. \A i \in 1..(Len(B) - k) : B[k + i] = all[e + i]
    <3> SUFFICES ASSUME NEW i \in 1..(Len(B) - k)  PROVE B[k + i] = all[e + i]
      OBVIOUS
    <3>1. k + i \in 1..Len(B) /\ start + (k + i) = e + i
      BY <1>2
    <3> QED
      BY <3>1, <1>1
  <2>5. \A i \in 1..(Len(B) - k) : Rest(B, k)[i] = Rest(all, e)[i]
    BY <2>1, <2>2, <2>3, <2>4
  <2> HIDE DEF B, k
  <2>6. Rest(B, k) = Rest(all, e)
    BY <2>1, <2>2, <2>3, <2>5, SeqEqual
  <2> QED
    BY <2>6, <1>6
<1>9. [x EXCEPT !.mBuffer = AfterLine(@)] = left
  BY <1>8
<1>10. CASE k = 2
  <2>1. decode(l) = all[e - 1]
    BY <1>3, <1>7, <1>10 DEF decode
  <2>2. decode(l) # NoMessage
    BY <2>1 DEF Message, NoMessage
  <2>3. next(x) = handle(left, all[e - 1])
    <3> HIDE DEF left
    <3> QED
      BY <2>1, <2>2, <1>9 DEF next
  <2> QED
    BY <2>3 DEF Turned
<1>11. CASE k # 2
  <2> DEFINE lost == {l[i] : i \in 2..Len(l)} \ {"lobby"}
  <2>1. decode(l) = NoMessage
    BY <1>2, <1>7, <1>11 DEF decode
  <2>2. lost \in SUBSET Message
    <3> SUFFICES ASSUME NEW i \in 2..Len(l)  PROVE l[i] \in Message
      OBVIOUS
    <3>1. i \in 1..(k - 1) /\ i \in 1..Len(B)
      BY <1>2, <1>7
    <3>2. B[i] \in Symbol /\ B[i] # NewLine /\ l[i] = B[i]
      BY <3>1, <1>1, <1>4, <1>7
    <3> QED
      BY <3>2 DEF Symbol
  <2>3. l[k - 1] = all[e - 1] /\ k - 1 \in 2..Len(l)
    BY <1>2, <1>3, <1>7, <1>11
  <2>4. {all[e - 1]} \ {"lobby"} \subseteq lost
    BY <2>3
  <2>5. next(x) = [left EXCEPT !.missed = @ \cup lost]
    <3> HIDE DEF left
    <3> QED
      BY <2>1, <1>9 DEF next
  <2> HIDE DEF left, lost
  <2>6. Turned(left, all[e - 1], next(x))
    BY <2>2, <2>4, <2>5 DEF Turned
  <2> QED
    BY <2>6 DEF left
<1> QED
  BY <1>10, <1>11

\* Which fields a message can change, and how.
LEMMA HandleIs ==
  ASSUME NEW x \in Program, NEW m \in Message
  PROVE  LET y == handle(x, m)
         IN  /\ y \in Program
             /\ y.mBuffer = x.mBuffer /\ y.canConnect = x.canConnect /\ y.socket = x.socket
             /\ y.link = x.link /\ y.fresh = x.fresh /\ y.finished = x.finished
             /\ x.missed \subseteq y.missed
             /\ x.screen # "window" => y.mEnded = x.mEnded /\ y.mState = x.mState
             /\ x.screen # "dialog" => y.screen = x.screen
             /\ x.screen = "dialog" =>
                  /\ y.screen = IF m = "game_started" THEN "accepted" ELSE "dialog"
                  /\ m # "welcome" => y.welcomed = x.welcomed
             /\ x.screen = "window" =>
                  /\ m # "game_finished" => y.mEnded = x.mEnded
                  /\ y.mState = IF m = "your_turn" THEN "AwaitingMove"
                                ELSE IF m = "game_finished" THEN "GameOver" ELSE x.mState
<1> DEFINE y == handle(x, m)
           Same == /\ y.mBuffer = x.mBuffer /\ y.canConnect = x.canConnect /\ y.socket = x.socket
                   /\ y.link = x.link /\ y.fresh = x.fresh /\ y.finished = x.finished
<1>1. CASE x.screen = "dialog" /\ m = "welcome"
  <2>1. y = [x EXCEPT !.welcomed = TRUE]
    BY <1>1 DEF handle
  <2> HIDE DEF y
  <2>2. y \in Program
    BY <2>1 DEF Program
  <2>3. /\ Same /\ y.missed = x.missed /\ y.mEnded = x.mEnded /\ y.mState = x.mState
        /\ y.screen = x.screen
    BY <2>1 DEF Program
  <2> QED
    BY <1>1, <2>2, <2>3 DEF y
<1>2. CASE x.screen = "dialog" /\ m = "game_started"
  <2>1. y = [x EXCEPT !.screen = "accepted"]
    BY <1>2 DEF handle
  <2> HIDE DEF y
  <2>2. y \in Program
    BY <2>1 DEF Program
  <2>3. /\ Same /\ y.missed = x.missed /\ y.mEnded = x.mEnded /\ y.mState = x.mState
        /\ y.screen = "accepted" /\ y.welcomed = x.welcomed
    BY <2>1 DEF Program
  <2> QED
    BY <1>2, <2>2, <2>3 DEF y
<1>3. CASE x.screen = "accepted" /\ m \in InGame
  <2>1. y = [x EXCEPT !.missed = @ \cup {m}]
    BY <1>3 DEF handle
  <2> HIDE DEF y
  <2>2. y \in Program
    BY <2>1 DEF Program
  <2>3. /\ Same /\ x.missed \subseteq y.missed /\ y.mEnded = x.mEnded /\ y.mState = x.mState
        /\ y.screen = x.screen
    BY <2>1 DEF Program
  <2> QED
    BY <1>3, <2>2, <2>3 DEF y
<1>4. CASE x.screen = "window" /\ m = "your_turn"
  <2>1. y = [x EXCEPT !.mState = "AwaitingMove"]
    BY <1>4 DEF handle
  <2> HIDE DEF y
  <2>2. y \in Program
    BY <2>1 DEF Program
  <2>3. /\ Same /\ y.missed = x.missed /\ y.mEnded = x.mEnded /\ y.mState = "AwaitingMove"
        /\ y.screen = x.screen
    BY <2>1 DEF Program
  <2> QED
    BY <1>4, <2>2, <2>3 DEF y
<1>5. CASE x.screen = "window" /\ m = "game_finished"
  <2>1. y = [x EXCEPT !.mEnded = TRUE, !.mState = "GameOver"]
    BY <1>5 DEF handle
  <2> HIDE DEF y
  <2>2. y \in Program
    BY <2>1 DEF Program
  <2>3. Same /\ y.missed = x.missed /\ y.mState = "GameOver" /\ y.screen = x.screen
    BY <2>1 DEF Program
  <2> QED
    BY <1>5, <2>2, <2>3 DEF y
<1>6. CASE /\ ~(x.screen = "dialog" /\ m = "welcome") /\ ~(x.screen = "dialog" /\ m = "game_started")
           /\ ~(x.screen = "accepted" /\ m \in InGame)
           /\ ~(x.screen = "window" /\ m = "your_turn")
           /\ ~(x.screen = "window" /\ m = "game_finished")
  <2>1. y = x
    BY <1>6 DEF handle
  <2> HIDE DEF y
  <2> QED
    BY <1>6, <2>1 DEF y
<1> QED
  BY <1>1, <1>2, <1>3, <1>4, <1>5, <1>6

\* What a program x that has handled the first k of the messages ms has become of
\* the program prog.
Heard(prog, x, ms, k) ==
  /\ x.canConnect = prog.canConnect /\ x.socket = prog.socket /\ x.link = prog.link
  /\ x.fresh = prog.fresh /\ x.finished = prog.finished /\ prog.missed \subseteq x.missed
  /\ prog.screen = "dialog" =>
       /\ x.screen # "gone" /\ x.mEnded = prog.mEnded
       /\ x.screen = "dialog" =>
            /\ \A j \in 1..k : ms[j] = "game_started" => "game_started" \in x.missed
            /\ (\A j \in 1..k : ms[j] # "welcome") => x.welcomed = prog.welcomed
  /\ prog.screen = "window" =>
       /\ x.screen = "window"
       /\ (\A j \in 1..k : ms[j] # "game_finished") => x.mEnded = prog.mEnded
       /\ /\ x.mEnded
          /\ prog.mEnded => prog.mState = "GameOver"
          /\ \A j \in 1..k : ms[j] = "your_turn" =>
               ~prog.mEnded /\ \A i \in 1..(j - 1) : ms[i] # "game_finished"
          => x.mState = "GameOver"

\* It is so after one more message, handled or lost.
LEMMA HeardMore ==
  ASSUME NEW prog \in Program, prog.screen \in {"dialog", "window"},
         NEW ms \in Seq(Message), NEW k \in Nat, k + 1 \in 1..Len(ms),
         NEW x \in Program, Heard(prog, x, ms, k), NEW b \in Seq(Symbol), NEW y,
         prog.screen = "dialog" => x.screen # "window",
         Turned([x EXCEPT !.mBuffer = b], ms[k + 1], y)
  PROVE  /\ y \in Program /\ y.mBuffer = b /\ Heard(prog, y, ms, k + 1)
         /\ prog.screen = "dialog" => y.screen # "window"
<1> DEFINE left == [x EXCEPT !.mBuffer = b]
           m == ms[k + 1]
<1>1. left \in Program /\ m \in Message
  <2>1. left \in Program
    BY DEF Program
  <2>2. m \in Message
    OBVIOUS
  <2> QED
    BY <2>1, <2>2
<1>2. /\ left.mBuffer = b /\ left.screen = x.screen /\ left.canConnect = x.canConnect
      /\ left.welcomed = x.welcomed /\ left.socket = x.socket /\ left.link = x.link
      /\ left.fresh = x.fresh /\ left.mEnded = x.mEnded /\ left.mState = x.mState
      /\ left.finished = x.finished /\ left.missed = x.missed
  BY DEF Program
<1>3. \A j : j \in 1..(k + 1) <=> j \in 1..k \/ j = k + 1
  OBVIOUS
<1>4. k + 1 \in 1..(k + 1) /\ (k + 1) - 1 = k
  OBVIOUS
<1> HIDE DEF left
<1>5. CASE y = handle(left, m)
  <2>1. /\ y \in Program /\ y.mBuffer = b /\ y.canConnect = x.canConnect /\ y.socket = x.socket
        /\ y.link = x.link /\ y.fresh = x.fresh /\ y.finished = x.finished
        /\ x.missed \subseteq y.missed
        /\ x.screen # "window" => y.mEnded = x.mEnded /\ y.mState = x.mState
        /\ x.screen # "dialog" => y.screen = x.screen
        /\ x.screen = "dialog" =>
             /\ y.screen = IF m = "game_started" THEN "accepted" ELSE "dialog"
             /\ m # "welcome" => y.welcomed = x.welcomed
        /\ x.screen = "window" =>
             /\ m # "game_finished" => y.mEnded = x.mEnded
             /\ y.mState = IF m = "your_turn" THEN "AwaitingMove"
                           ELSE IF m = "game_finished" THEN "GameOver" ELSE x.mState
    <3> HIDE DEF m
    <3> DEFINE z == handle(left, m)
    <3>1. /\ z \in Program
          /\ z.mBuffer = left.mBuffer /\ z.canConnect = left.canConnect /\ z.socket = left.socket
          /\ z.link = left.link /\ z.fresh = left.fresh /\ z.finished = left.finished
          /\ left.missed \subseteq z.missed
          /\ left.screen # "window" => z.mEnded = left.mEnded /\ z.mState = left.mState
          /\ left.screen # "dialog" => z.screen = left.screen
          /\ left.screen = "dialog" =>
               /\ z.screen = IF m = "game_started" THEN "accepted" ELSE "dialog"
               /\ m # "welcome" => z.welcomed = left.welcomed
          /\ left.screen = "window" =>
               /\ m # "game_finished" => z.mEnded = left.mEnded
               /\ z.mState = IF m = "your_turn" THEN "AwaitingMove"
                             ELSE IF m = "game_finished" THEN "GameOver" ELSE left.mState
      BY <1>1, HandleIs
    <3> HIDE DEF z
    <3>2. z = y
      BY <1>5 DEF z
    <3> QED
      BY <3>1, <3>2, <1>2
  <2> HIDE DEF m
  <2>2. prog.screen = "dialog" =>
          /\ y.screen \in {"dialog", "accepted"} /\ y.mEnded = prog.mEnded
          /\ y.screen = "dialog" =>
               /\ \A j \in 1..(k + 1) : ms[j] = "game_started" => "game_started" \in y.missed
               /\ (\A j \in 1..(k + 1) : ms[j] # "welcome") => y.welcomed = prog.welcomed
    <3> SUFFICES ASSUME prog.screen = "dialog"
                 PROVE  /\ y.screen \in {"dialog", "accepted"} /\ y.mEnded = prog.mEnded
                        /\ y.screen = "dialog" =>
                             /\ \A j \in 1..(k + 1) : ms[j] = "game_started" =>
                                                        "game_started" \in y.missed
                             /\ (\A j \in 1..(k + 1) : ms[j] # "welcome") =>
                                  y.welcomed = prog.welcomed
      OBVIOUS
    <3>1. x.screen \in {"dialog", "accepted"} /\ x.mEnded = prog.mEnded
      BY <1>1, <1>2 DEF Heard, Program
    <3>2. y.screen \in {"dialog", "accepted"} /\ y.mEnded = prog.mEnded
      BY <2>1, <3>1
    <3>3. ASSUME y.screen = "dialog"
          PROVE  /\ x.screen = "dialog" /\ m # "game_started"
                 /\ \A j \in 1..k : ms[j] = "game_started" => "game_started" \in x.missed
                 /\ (\A j \in 1..k : ms[j] # "welcome") => x.welcomed = prog.welcomed
      BY <2>1, <3>1, <3>3 DEF Heard
    <3>4. ASSUME y.screen = "dialog", NEW j \in 1..(k + 1), ms[j] = "game_started"
          PROVE  "game_started" \in y.missed
      BY <3>3, <3>4, <2>1, <1>3 DEF m
    <3>5. ASSUME y.screen = "dialog", \A j \in 1..(k + 1) : ms[j] # "welcome"
          PROVE  y.welcomed = prog.welcomed
      <4>1. m # "welcome" /\ \A j \in 1..k : ms[j] # "welcome"
        BY <3>5, <1>3 DEF m
      <4> QED
        BY <4>1, <3>3, <3>5, <2>1
    <3> QED
      BY <3>2, <3>4, <3>5
  <2>3. prog.screen = "window" =>
          /\ y.screen = "window"
          /\ (\A j \in 1..(k + 1) : ms[j] # "game_finished") => y.mEnded = prog.mEnded
          /\ /\ y.mEnded
             /\ prog.mEnded => prog.mState = "GameOver"
             /\ \A j \in 1..(k + 1) : ms[j] = "your_turn" =>
                  ~prog.mEnded /\ \A i \in 1..(j - 1) : ms[i] # "game_finished"
             => y.mState = "GameOver"
    <3> SUFFICES ASSUME prog.screen = "window"
                 PROVE  /\ y.screen = "window"
                        /\ (\A j \in 1..(k + 1) : ms[j] # "game_finished") => y.mEnded = prog.mEnded
                        /\ /\ y.mEnded
                           /\ prog.mEnded => prog.mState = "GameOver"
                           /\ \A j \in 1..(k + 1) : ms[j] = "your_turn" =>
                                ~prog.mEnded /\ \A i \in 1..(j - 1) : ms[i] # "game_finished"
                           => y.mState = "GameOver"
      OBVIOUS
    <3>1. x.screen = "window"
      BY DEF Heard
    <3>2. y.screen = "window"
      BY <2>1, <3>1
    <3>3. ASSUME \A j \in 1..(k + 1) : ms[j] # "game_finished"  PROVE y.mEnded = prog.mEnded
      <4>1. m # "game_finished" /\ \A j \in 1..k : ms[j] # "game_finished"
        BY <3>3, <1>3 DEF m
      <4>2. x.mEnded = prog.mEnded
        BY <4>1 DEF Heard
      <4> QED
        BY <4>1, <4>2, <2>1, <3>1
    <3>4. ASSUME y.mEnded, prog.mEnded => prog.mState = "GameOver",
                 \A j \in 1..(k + 1) : ms[j] = "your_turn" =>
                   ~prog.mEnded /\ \A i \in 1..(j - 1) : ms[i] # "game_finished"
          PROVE  y.mState = "GameOver"
      <4>1. CASE m = "your_turn"
        <5>1. ~prog.mEnded /\ \A i \in 1..k : ms[i] # "game_finished"
          BY <4>1, <3>4, <1>4 DEF m
        <5>2. x.mEnded = prog.mEnded
          BY <5>1 DEF Heard
        <5>3. y.mEnded = x.mEnded
          BY <4>1, <2>1, <3>1
        <5> QED
          BY <5>1, <5>2, <5>3, <3>4
      <4>2. CASE m = "game_finished"
        BY <4>2, <2>1, <3>1
      <4>3. CASE m # "your_turn" /\ m # "game_finished"
        <5>1. y.mEnded = x.mEnded /\ y.mState = x.mState
          BY <4>3, <2>1, <3>1
        <5>2. \A j \in 1..k : ms[j] = "your_turn" =>
                 ~prog.mEnded /\ \A i \in 1..(j - 1) : ms[i] # "game_finished"
          BY <3>4, <1>3
        <5>3. x.mEnded => x.mState = "GameOver"
          BY <5>2, <3>4 DEF Heard
        <5> QED
          BY <5>1, <5>3, <3>4
      <4> QED
        BY <4>1, <4>2, <4>3
    <3> QED
      BY <3>2, <3>3, <3>4
  <2>4. /\ y.canConnect = prog.canConnect /\ y.socket = prog.socket /\ y.link = prog.link
        /\ y.fresh = prog.fresh /\ y.finished = prog.finished /\ prog.missed \subseteq y.missed
    BY <2>1 DEF Heard
  <2> QED
    BY <2>1, <2>2, <2>3, <2>4 DEF Heard
<1>6. ASSUME NEW lost \in SUBSET Message, {m} \ {"lobby"} \subseteq lost,
             y = [left EXCEPT !.missed = @ \cup lost]
      PROVE  /\ y \in Program /\ y.mBuffer = b /\ Heard(prog, y, ms, k + 1)
             /\ prog.screen = "dialog" => y.screen # "window"
  <2>1. y \in Program
    BY <1>1, <1>6 DEF Program
  <2>2. /\ y.mBuffer = b /\ y.screen = x.screen /\ y.canConnect = x.canConnect
        /\ y.welcomed = x.welcomed /\ y.socket = x.socket /\ y.link = x.link
        /\ y.fresh = x.fresh /\ y.mEnded = x.mEnded /\ y.mState = x.mState
        /\ y.finished = x.finished /\ y.missed = x.missed \cup lost
    BY <1>1, <1>2, <1>6 DEF Program
  <2> HIDE DEF m
  <2>3. ASSUME prog.screen = "dialog"
        PROVE  /\ y.screen \in {"dialog", "accepted"} /\ y.mEnded = prog.mEnded
               /\ y.screen = "dialog" =>
                    /\ \A j \in 1..(k + 1) : ms[j] = "game_started" => "game_started" \in y.missed
                    /\ (\A j \in 1..(k + 1) : ms[j] # "welcome") => y.welcomed = prog.welcomed
    <3>1. x.screen \in {"dialog", "accepted"} /\ x.mEnded = prog.mEnded
      BY <2>3 DEF Heard, Program
    <3>2. ASSUME y.screen = "dialog", NEW j \in 1..(k + 1), ms[j] = "game_started"
          PROVE  "game_started" \in y.missed
      <4>1. CASE j = k + 1
        BY <4>1, <3>2, <1>6, <2>2 DEF m
      <4>2. CASE j \in 1..k
        BY <4>2, <3>2, <2>2, <2>3 DEF Heard
      <4> QED
        BY <4>1, <4>2, <1>3
    <3>3. ASSUME y.screen = "dialog", \A j \in 1..(k + 1) : ms[j] # "welcome"
          PROVE  y.welcomed = prog.welcomed
      <4>1. \A j \in 1..k : ms[j] # "welcome"
        BY <3>3, <1>3
      <4>2. x.welcomed = prog.welcomed
        BY <4>1, <3>3, <2>2, <2>3 DEF Heard
      <4> QED
        BY <4>2, <2>2
    <3> QED
      BY <3>1, <3>2, <3>3, <2>2
  <2>4. ASSUME prog.screen = "window"
        PROVE  /\ y.screen = "window"
               /\ (\A j \in 1..(k + 1) : ms[j] # "game_finished") => y.mEnded = prog.mEnded
               /\ /\ y.mEnded
                  /\ prog.mEnded => prog.mState = "GameOver"
                  /\ \A j \in 1..(k + 1) : ms[j] = "your_turn" =>
                       ~prog.mEnded /\ \A i \in 1..(j - 1) : ms[i] # "game_finished"
                  => y.mState = "GameOver"
    <3>1. y.screen = "window"
      BY <2>2, <2>4 DEF Heard
    <3>2. ASSUME \A j \in 1..(k + 1) : ms[j] # "game_finished"  PROVE y.mEnded = prog.mEnded
      <4>1. \A j \in 1..k : ms[j] # "game_finished"
        BY <3>2, <1>3
      <4>2. x.mEnded = prog.mEnded
        BY <4>1, <2>4 DEF Heard
      <4> QED
        BY <4>2, <2>2
    <3>3. ASSUME y.mEnded, prog.mEnded => prog.mState = "GameOver",
                 \A j \in 1..(k + 1) : ms[j] = "your_turn" =>
                   ~prog.mEnded /\ \A i \in 1..(j - 1) : ms[i] # "game_finished"
          PROVE  y.mState = "GameOver"
      <4>1. \A j \in 1..k : ms[j] = "your_turn" =>
               ~prog.mEnded /\ \A i \in 1..(j - 1) : ms[i] # "game_finished"
        BY <3>3, <1>3
      <4>2. x.mState = "GameOver"
        BY <4>1, <3>3, <2>2, <2>4 DEF Heard
      <4> QED
        BY <4>2, <2>2
    <3> QED
      BY <3>1, <3>2, <3>3
  <2>5. /\ y.canConnect = prog.canConnect /\ y.socket = prog.socket /\ y.link = prog.link
        /\ y.fresh = prog.fresh /\ y.finished = prog.finished /\ prog.missed \subseteq y.missed
    BY <2>2 DEF Heard
  <2> QED
    BY <2>1, <2>2, <2>3, <2>4, <2>5 DEF Heard
<1> QED
  BY <1>5, <1>6 DEF left, Turned

\* The loop of onReadyRead: after i bytes the program has handled the messages
\* that end among them, in order, and holds what comes after the last of them.
LEMMA HeardIs ==
  ASSUME NEW prog \in Program, prog.screen \in {"dialog", "window"}, NoLines(prog.mBuffer),
         NEW bytes \in Seq(Symbol), NEW ms \in Seq(Message), NEW junk \in Nat,
         Framed(prog.mBuffer, bytes, junk, ms)
  PROVE  \A i \in 0..Len(bytes) :
           LET k == LinesAmong(bytes)[i]
               x == HeardAfter(prog, bytes)[i]
           IN  /\ x \in Program /\ Heard(prog, x, ms, k)
               /\ prog.screen = "dialog" => x.screen # "window"
               /\ x.mBuffer = Rest(prog.mBuffer \o bytes, IF k = 0 THEN 0 ELSE junk + 2 * k)
<1> DEFINE L == Len(prog.mBuffer)
           n == Len(bytes)
           all == prog.mBuffer \o bytes
           N == LinesAmong(bytes)
           h == HeardAfter(prog, bytes)
           from(k) == IF k = 0 THEN 0 ELSE junk + 2 * k
           Good(i) == /\ h[i] \in Program /\ Heard(prog, h[i], ms, N[i])
                      /\ prog.screen = "dialog" => h[i].screen # "window"
                      /\ h[i].mBuffer = Rest(all, from(N[i]))
<1>1. /\ L \in Nat /\ n \in Nat /\ Len(ms) \in Nat /\ junk <= L
      /\ all \in Seq(Symbol) /\ Len(all) = L + n
  <2>1. prog.mBuffer \in Seq(Symbol)
    BY DEF Program
  <2> QED
    BY <2>1 DEF Framed
<1>2. /\ \A i \in 0..n : /\ N[i] \in 0..Len(ms) /\ junk + 2 * N[i] <= L + i
                         /\ L + i <= junk + 2 * N[i] + 1
      /\ \A i \in 1..n : IF bytes[i] = NewLine
                         THEN N[i] = N[i - 1] + 1 /\ L + i = junk + 2 * N[i]
                         ELSE N[i] = N[i - 1]
  <2>1. prog.mBuffer \in Seq(Symbol)
    BY DEF Program
  <2> QED
    BY <2>1, LinesAre
<1>3. /\ h[0] = [prog EXCEPT !.mBuffer = all]
      /\ \A i \in 1..n : h[i] = IF bytes[i] = NewLine THEN next(h[i - 1]) ELSE h[i - 1]
  BY HeardAfterIs
<1>4. \A i \in 1..L : all[i] # NewLine
  <2>1. prog.mBuffer \in Seq(Symbol)
    BY DEF Program
  <2> QED
    BY <2>1 DEF NoLines
<1>5. \A k \in 1..Len(ms) : /\ junk + 2 * k - 1 <= L + n => all[junk + 2 * k - 1] = ms[k]
                            /\ junk + 2 * k <= L + n => all[junk + 2 * k] = NewLine
  BY <1>1 DEF Framed
<1>6. \A k \in 1..Len(ms) : ms[k] \in Message /\ ms[k] # NewLine
  <2>1. \A k \in 1..Len(ms) : ms[k] \in Message
    OBVIOUS
  <2> QED
    BY <2>1 DEF Message, NewLine
<1> HIDE DEF L, n, all, N, h
<1>7. Good(0)
  <2>1. N[0] = 0
    BY LinesAmongIs DEF N
  <2>2. h[0] \in Program /\ h[0].mBuffer = all
    BY <1>1, <1>3 DEF Program
  <2>3. Rest(all, from(0)) = all
    BY <1>1, SubSeqFull DEF Rest
  <2>4. Heard(prog, h[0], ms, 0)
    <3>1. /\ h[0].screen = prog.screen /\ h[0].canConnect = prog.canConnect
          /\ h[0].welcomed = prog.welcomed /\ h[0].socket = prog.socket /\ h[0].link = prog.link
          /\ h[0].fresh = prog.fresh /\ h[0].mEnded = prog.mEnded /\ h[0].mState = prog.mState
          /\ h[0].finished = prog.finished /\ h[0].missed = prog.missed
      BY <1>3 DEF Program
    <3>2. \A j : j \notin 1..0
      OBVIOUS
    <3> QED
      BY <3>1, <3>2 DEF Heard
  <2>5. h[0].screen = prog.screen
    BY <1>3 DEF Program
  <2> QED
    BY <2>1, <2>2, <2>3, <2>4, <2>5
<1>8. ASSUME NEW i \in 1..n, Good(i - 1)
      PROVE  Good(i)
  <2>1. i - 1 \in 0..n /\ i \in 0..n
    BY <1>1
  <2>2. CASE bytes[i] # NewLine
    <3>1. h[i] = h[i - 1] /\ N[i] = N[i - 1]
      BY <2>2, <1>2, <1>3
    <3> QED
      BY <3>1, <1>8
  <2>3. CASE bytes[i] = NewLine
    <3> DEFINE k == N[i - 1]
               x == h[i - 1]
               start == from(k)
               e == L + i
    <3>1. /\ k \in Nat /\ N[i] = k + 1 /\ e = junk + 2 * (k + 1) /\ k + 1 \in 1..Len(ms)
          /\ h[i] = next(x) /\ from(k + 1) = e /\ from(N[i]) = e
      <4>1. k \in Nat /\ N[i] \in 0..Len(ms)
        BY <2>1, <1>1, <1>2
      <4>2. N[i] = k + 1 /\ e = junk + 2 * N[i]
        BY <2>3, <1>2
      <4>3. h[i] = next(x)
        BY <2>3, <1>3
      <4> HIDE DEF k, e, x
      <4>4. k + 1 \in 1..Len(ms) /\ from(k + 1) = e
        BY <4>1, <4>2, <1>1
      <4> QED
        BY <4>1, <4>2, <4>3, <4>4
    <3>10. /\ e \in Nat /\ e <= L + n /\ e - 1 = L + (i - 1)
          /\ start \in 0..Len(all) /\ start <= e - 2 /\ (k # 0 => e = start + 2)
      <4>1. e \in Nat /\ e <= L + n /\ e - 1 = L + (i - 1)
        BY <1>1
      <4> HIDE DEF k, e
      <4>2. start \in Nat /\ start <= e - 2 /\ (k # 0 => e = start + 2)
        BY <3>1, <4>1, <1>1
      <4> HIDE DEF start
      <4> QED
        BY <4>1, <4>2, <1>1
    <3>2. start \in 0..Len(all) /\ e \in 1..Len(all) /\ e >= start + 2
      <4> HIDE DEF e, start, k
      <4> QED
        BY <3>10, <1>1
    <3>3. all[e] = NewLine /\ all[e - 1] = ms[k + 1]
      <4>1. junk + 2 * (k + 1) <= L + n /\ junk + 2 * (k + 1) - 1 <= L + n
            /\ e - 1 = junk + 2 * (k + 1) - 1
        <5> HIDE DEF k, e
        <5> QED
          BY <3>1, <3>10, <1>1
      <4> HIDE DEF k, e
      <4> QED
        BY <4>1, <3>1, <1>5
    <3>4. \A j \in (start + 1)..(e - 1) : all[j] # NewLine
      <4>1. CASE k = 0
        <5> SUFFICES ASSUME NEW j \in (start + 1)..(e - 1)  PROVE all[j] # NewLine
          OBVIOUS
        <5>1. e = junk + 2 /\ start = 0
          BY <4>1, <3>1, <1>1
        <5>2. CASE j \in 1..L
          BY <5>2, <1>4
        <5>3. CASE j \notin 1..L
          <6>1. j = e - 1
            BY <5>1, <5>3, <1>1
          <6> QED
            BY <6>1, <3>1, <3>3, <1>6
        <5> QED
          BY <5>2, <5>3
      <4>2. CASE k # 0
        <5>1. e - 1 = start + 1
          <6>1. e = start + 2 /\ e \in Nat /\ start \in Nat
            BY <4>2, <3>10
          <6> HIDE DEF k, e, start
          <6> QED
            BY <6>1
        <5>2. \A j \in (start + 1)..(e - 1) : j = e - 1
          BY <5>1, <3>1, <3>2, <1>1
        <5> QED
          BY <5>2, <3>1, <3>3, <1>6
      <4> QED
        BY <4>1, <4>2
    <3>5. /\ x \in Program /\ Heard(prog, x, ms, k) /\ x.mBuffer = Rest(all, start)
          /\ prog.screen = "dialog" => x.screen # "window"
      BY <1>8
    <3>6. all[e - 1] \in Message
      BY <3>1, <3>3, <1>6
    <3>7. Turned([x EXCEPT !.mBuffer = Rest(all, e)], ms[k + 1], next(x))
      <4> HIDE DEF x, e, start, k
      <4>1. Turned([x EXCEPT !.mBuffer = Rest(all, e)], all[e - 1], next(x))
        BY <3>2, <3>3, <3>4, <3>5, <3>6, <1>1, TurnIs
      <4> QED
        BY <4>1, <3>3
    <3>8. Rest(all, e) \in Seq(Symbol)
      <4>1. e \in 0..Len(all)
        BY <3>2
      <4> HIDE DEF e
      <4> QED
        BY <4>1, <1>1, RestIs
    <3>9. /\ next(x) \in Program /\ next(x).mBuffer = Rest(all, e)
          /\ Heard(prog, next(x), ms, k + 1)
          /\ prog.screen = "dialog" => next(x).screen # "window"
      <4> DEFINE y == next(x)
                 b == Rest(all, e)
      <4>1. Turned([x EXCEPT !.mBuffer = b], ms[k + 1], y) /\ b \in Seq(Symbol)
        BY <3>7, <3>8
      <4> HIDE DEF x, e, start, k, y, b
      <4>2. /\ y \in Program /\ y.mBuffer = b /\ Heard(prog, y, ms, k + 1)
            /\ prog.screen = "dialog" => y.screen # "window"
        BY <4>1, <3>1, <3>5, HeardMore
      <4> QED
        BY <4>2 DEF y, b
    <3> QED
      BY <3>1, <3>9
  <2> QED
    BY <2>2, <2>3
<1>9. \A i \in 0..n : Good(i)
  <2> DEFINE T == {i \in 0..n : Good(i)}
  <2>1. T \in SUBSET (0..n) /\ 0 \in T
    BY <1>1, <1>7
  <2>2. \A i \in T : i < n => i + 1 \in T
    <3> SUFFICES ASSUME NEW i \in T, i < n  PROVE i + 1 \in T
      OBVIOUS
    <3>1. i + 1 \in 1..n /\ (i + 1) - 1 = i /\ i + 1 \in 0..n
      BY <1>1
    <3> HIDE DEF Good
    <3>2. Good((i + 1) - 1)
      BY <3>1
    <3>3. Good(i + 1)
      BY <3>1, <3>2, <1>8
    <3> QED
      BY <3>1, <3>3
  <2> HIDE DEF T
  <2>3. T = 0..n
    BY <2>1, <2>2, <1>1, BoundedInduction
  <2> QED
    BY <2>3 DEF T
<1> QED
  BY <1>9 DEF n, all, N, h

\* From prog to x, k of the messages ms leave the reader, which holds what comes after
\* them, with the bytes rest still on their way.
Taken(prog, x, k, b, rest, junk, ms) ==
  /\ k \in 0..Len(ms) /\ x \in Program
  /\ x.screen \in {"dialog", "window"} /\ Heard(prog, x, ms, k)
  /\ NoLines(x.mBuffer)
  /\ Framed(x.mBuffer, rest, IF k = 0 THEN junk ELSE 0, Rest(ms, k))
  /\ Len(prog.mBuffer) + Len(b) = junk + 2 * Len(ms) =>
       Len(x.mBuffer) + Len(rest) = (IF k = 0 THEN junk ELSE 0) + 2 * Len(Rest(ms, k))

\* A reader that takes n of the bytes b handles the messages that they complete,
\* and keeps what comes after; nothing that is owed then is lost or repeated.
LEMMA ReadingIs ==
  ASSUME NEW prog \in Program, prog.screen \in {"dialog", "window"}, NoLines(prog.mBuffer),
         NEW b \in Seq(Symbol), NEW n \in 1..Len(b), NEW ms \in Seq(Message),
         NEW junk \in Nat, Framed(prog.mBuffer, b, junk, ms),
         NEW bytes, bytes = SubSeq(b, 1, n)
  PROVE  Taken(prog, onReadyRead(prog, bytes), LinesAmong(bytes)[n], b, Rest(b, n), junk, ms)
<1> DEFINE L == Len(prog.mBuffer)
           k == LinesAmong(bytes)[n]
           from == IF k = 0 THEN 0 ELSE junk + 2 * k
           left == IF k = 0 THEN junk ELSE 0
           all == prog.mBuffer \o b
           near == prog.mBuffer \o bytes
           heard == HeardAfter(prog, bytes)[n]
           x == onReadyRead(prog, bytes)
<1>1. /\ prog.mBuffer \in Seq(Symbol) /\ bytes \in Seq(Symbol) /\ Len(bytes) = n
      /\ \A i \in 1..n : bytes[i] = b[i]
  BY DEF Program
<1>2. /\ L \in Nat /\ n \in Nat /\ Len(b) \in Nat /\ n <= Len(b) /\ n \in 0..n /\ n \in 0..Len(b)
      /\ Len(ms) \in Nat /\ junk <= L
      /\ all \in Seq(Symbol) /\ Len(all) = L + Len(b)
      /\ near \in Seq(Symbol) /\ Len(near) = L + n
      /\ L + Len(b) <= junk + 2 * Len(ms)
  BY <1>1 DEF Framed
<1>3. \A i \in 1..(L + n) : near[i] = all[i]
  <2> SUFFICES ASSUME NEW i \in 1..(L + n)  PROVE near[i] = all[i]
    OBVIOUS
  <2>1. CASE i <= L
    <3>1. near[i] = prog.mBuffer[i] /\ all[i] = prog.mBuffer[i]
      BY <2>1, <1>1, <1>2
    <3> QED
      BY <3>1
  <2>2. CASE ~(i <= L)
    <3>1. i - L \in 1..n /\ i - L \in 1..Len(b)
      BY <2>2, <1>2
    <3>2. near[i] = bytes[i - L] /\ all[i] = b[i - L]
      BY <2>2, <3>1, <1>1, <1>2
    <3> QED
      BY <3>1, <3>2, <1>1
  <2> QED
    BY <2>1, <2>2
<1>4. /\ \A i \in 1..L : all[i] # NewLine
      /\ \A j \in 1..Len(ms) :
           /\ junk + 2 * j - 1 <= L + Len(b) => all[junk + 2 * j - 1] = ms[j]
           /\ junk + 2 * j <= L + Len(b) => all[junk + 2 * j] = NewLine
  <2>1. \A i \in 1..L : all[i] # NewLine
    BY <1>1 DEF NoLines
  <2>2. Len(all) = L + Len(b)
    BY <1>2
  <2> QED
    BY <2>1, <2>2 DEF Framed
<1>5. \A i \in 1..Len(b) : all[L + i] = b[i]
  BY <1>1
<1> HIDE DEF L, all, near
<1>6. Framed(prog.mBuffer, bytes, junk, ms)
  <2>1. Len(near) <= junk + 2 * Len(ms)
    BY <1>2
  <2>2. ASSUME NEW j \in 1..Len(ms)
        PROVE  /\ junk + 2 * j - 1 <= Len(near) => near[junk + 2 * j - 1] = ms[j]
               /\ junk + 2 * j <= Len(near) => near[junk + 2 * j] = NewLine
    <3>1. /\ junk + 2 * j - 1 <= L + n => junk + 2 * j - 1 \in 1..(L + n)
          /\ junk + 2 * j <= L + n => junk + 2 * j \in 1..(L + n)
          /\ junk + 2 * j - 1 <= L + n => junk + 2 * j - 1 <= L + Len(b)
          /\ junk + 2 * j <= L + n => junk + 2 * j <= L + Len(b)
      BY <1>2
    <3> QED
      BY <3>1, <1>2, <1>3, <1>4
  <2> QED
    BY <2>1, <2>2, <1>2 DEF Framed, L, near
<1>7. /\ k \in 0..Len(ms) /\ junk + 2 * k <= L + n /\ L + n <= junk + 2 * k + 1
  BY <1>1, <1>2, <1>6, LinesAre DEF L
<1>8. /\ heard \in Program /\ Heard(prog, heard, ms, k) /\ heard.mBuffer = Rest(near, from)
      /\ prog.screen = "dialog" => heard.screen # "window"
  <2>1. \A i \in 0..Len(bytes) :
           /\ HeardAfter(prog, bytes)[i] \in Program
           /\ Heard(prog, HeardAfter(prog, bytes)[i], ms, LinesAmong(bytes)[i])
           /\ prog.screen = "dialog" => HeardAfter(prog, bytes)[i].screen # "window"
           /\ HeardAfter(prog, bytes)[i].mBuffer =
                Rest(near, IF LinesAmong(bytes)[i] = 0 THEN 0 ELSE junk + 2 * LinesAmong(bytes)[i])
    BY <1>1, <1>6, HeardIs DEF near
  <2> QED
    BY <2>1, <1>1, <1>2
<1>9. heard.screen \in {"dialog", "accepted", "window"}
  BY <1>8 DEF Program, Heard
<1>10. x = IF heard.screen = "accepted" THEN openWindow(heard) ELSE heard
  BY <1>1 DEF onReadyRead
<1> HIDE DEF k, x, heard
<1>11. /\ x \in Program /\ x.screen \in {"dialog", "window"} /\ x.mBuffer = heard.mBuffer
       /\ Heard(prog, x, ms, k)
  <2>1. CASE heard.screen = "accepted"
    <3>1. x = [heard EXCEPT !.screen = "window", !.mState = "Waiting"]
      BY <2>1, <1>10 DEF openWindow
    <3>2. prog.screen = "dialog"
      BY <2>1, <1>8 DEF Heard
    <3>3. x \in Program
      BY <3>1, <1>8 DEF Program
    <3>4. /\ x.screen = "window" /\ x.mBuffer = heard.mBuffer /\ x.canConnect = heard.canConnect
          /\ x.socket = heard.socket /\ x.link = heard.link /\ x.fresh = heard.fresh
          /\ x.finished = heard.finished /\ x.missed = heard.missed /\ x.mEnded = heard.mEnded
      BY <3>1, <1>8 DEF Program
    <3>5. Heard(prog, x, ms, k)
      BY <3>2, <3>4, <1>8 DEF Heard
    <3> QED
      BY <3>3, <3>4, <3>5
  <2>2. CASE heard.screen # "accepted"
    BY <2>2, <1>8, <1>9, <1>10
  <2> QED
    BY <2>1, <2>2
<1>12. from \in Nat /\ from <= L + n /\ left \in Nat /\ k \in Nat /\ k <= Len(ms)
  BY <1>2, <1>7
<1>13. from + left = junk + 2 * k
  <2>1. CASE k = 0
    BY <2>1
  <2>2. CASE k # 0
    BY <2>2, <1>12
  <2> QED
    BY <2>1, <2>2
<1>22. from \in 0..Len(near)
  BY <1>2, <1>12
<1> HIDE DEF from, left
<1> DEFINE mb == x.mBuffer
           rest == Rest(b, n)
           owing == Rest(ms, k)
<1>14. /\ mb \in Seq(Symbol) /\ Len(mb) = L + n - from
       /\ \A i \in 1..(L + n - from) : mb[i] = all[from + i]
  <2>1. /\ Rest(near, from) \in Seq(Symbol) /\ Len(Rest(near, from)) = Len(near) - from
        /\ \A i \in 1..(Len(near) - from) : Rest(near, from)[i] = near[from + i]
    BY <1>2, <1>22, RestIs
  <2>2. \A i \in 1..(L + n - from) : from + i \in 1..(L + n)
    BY <1>2, <1>12
  <2>3. mb = Rest(near, from)
    BY <1>8, <1>11
  <2> HIDE DEF mb
  <2>4. mb \in Seq(Symbol) /\ Len(mb) = L + n - from
    BY <2>1, <2>3, <1>2, <1>12
  <2>5. ASSUME NEW i \in 1..(L + n - from)  PROVE mb[i] = all[from + i]
    <3>1. mb[i] = near[from + i]
      BY <2>1, <2>3, <1>2, <1>12
    <3> QED
      BY <3>1, <2>2, <1>3
  <2> QED
    BY <2>4, <2>5
<1>15. /\ rest \in Seq(Symbol) /\ Len(rest) = Len(b) - n
       /\ \A i \in 1..(Len(b) - n) : rest[i] = b[n + i]
  BY <1>2, RestIs
<1>16. /\ owing \in Seq(Message) /\ Len(owing) = Len(ms) - k
       /\ \A j \in 1..(Len(ms) - k) : owing[j] = ms[k + j]
  BY <1>2, <1>7, RestIs
<1> HIDE DEF mb, rest, owing
<1>17. /\ mb \o rest \in Seq(Symbol) /\ Len(mb \o rest) = L + Len(b) - from
       /\ \A i \in 1..(L + Len(b) - from) : (mb \o rest)[i] = all[from + i]
  <2>1. mb \o rest \in Seq(Symbol) /\ Len(mb \o rest) = L + Len(b) - from
    <3>1. mb \o rest \in Seq(Symbol) /\ Len(mb \o rest) = Len(mb) + Len(rest)
      BY <1>14, <1>15
    <3> QED
      BY <3>1, <1>2, <1>12, <1>14, <1>15
  <2>2. ASSUME NEW i \in 1..(L + Len(b) - from)  PROVE (mb \o rest)[i] = all[from + i]
    <3>1. (mb \o rest)[i] = IF i <= Len(mb) THEN mb[i] ELSE rest[i - Len(mb)]
      <4>1. i \in 1..(Len(mb) + Len(rest))
        BY <1>2, <1>12, <1>14, <1>15
      <4> QED
        BY <4>1, <1>14, <1>15, ConcatProperties
    <3>2. CASE i <= Len(mb)
      <4>1. i \in 1..(L + n - from)
        BY <3>2, <1>2, <1>12, <1>14
      <4> QED
        BY <4>1, <3>1, <3>2, <1>14
    <3>3. CASE ~(i <= Len(mb))
      <4>1. /\ i - Len(mb) \in 1..(Len(b) - n) /\ n + (i - Len(mb)) \in 1..Len(b)
            /\ L + (n + (i - Len(mb))) = from + i
        BY <3>3, <1>2, <1>12, <1>14
      <4> QED
        BY <4>1, <3>1, <3>3, <1>5, <1>15
    <3> QED
      BY <3>2, <3>3
  <2> QED
    BY <2>1, <2>2
<1>18. NoLines(mb)
  <2> SUFFICES ASSUME NEW i \in 1..Len(mb)  PROVE mb[i] # NewLine
    BY <1>14 DEF NoLines
  <2>1. mb[i] = all[from + i] /\ from + i \in 1..(L + n)
    BY <1>2, <1>12, <1>14
  <2>2. CASE from + i \in 1..L
    BY <2>1, <2>2, <1>4
  <2>3. CASE from + i \notin 1..L
    <3>1. from + i = junk + 2 * (k + 1) - 1 /\ k + 1 \in 1..Len(ms) /\ from + i <= L + Len(b)
      <4>1. from + i > L /\ from + i <= L + n
        BY <2>1, <2>3, <1>2, <1>12
      <4>2. from + i >= junk + 2 * k + 1
        <5>1. CASE k = 0
          BY <4>1, <5>1, <1>2, <1>12
        <5>2. CASE k # 0
          <6>1. from = junk + 2 * k
            BY <5>2 DEF from
          <6> QED
            BY <6>1, <1>2, <1>12
        <5> QED
          BY <5>1, <5>2
      <4> QED
        BY <4>1, <4>2, <1>2, <1>7, <1>12
    <3>2. all[from + i] = ms[k + 1]
      BY <3>1, <1>4
    <3>3. ms[k + 1] \in Message
      BY <3>1
    <3> QED
      BY <2>1, <3>2, <3>3 DEF Message, NewLine
  <2> QED
    BY <2>2, <2>3
<1>19. Framed(mb, rest, left, owing)
  <2>1. left <= Len(mb) /\ Len(mb \o rest) <= left + 2 * Len(owing)
    BY <1>2, <1>7, <1>12, <1>13, <1>14, <1>16, <1>17
  <2>2. ASSUME NEW j \in 1..Len(owing)
        PROVE  /\ left + 2 * j - 1 <= Len(mb \o rest) => (mb \o rest)[left + 2 * j - 1] = owing[j]
               /\ left + 2 * j <= Len(mb \o rest) => (mb \o rest)[left + 2 * j] = NewLine
    <3>1. /\ k + j \in 1..Len(ms) /\ owing[j] = ms[k + j]
          /\ from + (left + 2 * j - 1) = junk + 2 * (k + j) - 1
          /\ from + (left + 2 * j) = junk + 2 * (k + j)
      BY <1>2, <1>7, <1>12, <1>13, <1>16
    <3>2. ASSUME left + 2 * j - 1 <= Len(mb \o rest)
          PROVE  (mb \o rest)[left + 2 * j - 1] = owing[j]
      <4>1. /\ left + 2 * j - 1 \in 1..(L + Len(b) - from)
            /\ junk + 2 * (k + j) - 1 <= L + Len(b)
        BY <3>1, <3>2, <1>2, <1>7, <1>12, <1>13, <1>16, <1>17
      <4> QED
        BY <4>1, <3>1, <1>4, <1>17
    <3>3. ASSUME left + 2 * j <= Len(mb \o rest)
          PROVE  (mb \o rest)[left + 2 * j] = NewLine
      <4>1. /\ left + 2 * j \in 1..(L + Len(b) - from)
            /\ junk + 2 * (k + j) <= L + Len(b)
        BY <3>1, <3>3, <1>2, <1>7, <1>12, <1>13, <1>16, <1>17
      <4> QED
        BY <4>1, <3>1, <1>4, <1>17
    <3> QED
      BY <3>2, <3>3
  <2> QED
    BY <2>1, <2>2 DEF Framed
<1>20. L + Len(b) = junk + 2 * Len(ms) => Len(mb) + Len(rest) = left + 2 * Len(owing)
  <2> SUFFICES ASSUME L + Len(b) = junk + 2 * Len(ms)
               PROVE  Len(mb) + Len(rest) = left + 2 * Len(owing)
    OBVIOUS
  <2>1. Len(mb) + Len(rest) = L + Len(b) - from
    BY <1>2, <1>12, <1>14, <1>15
  <2>2. 2 * Len(owing) = 2 * Len(ms) - 2 * k
    BY <1>2, <1>12, <1>16
  <2> QED
    BY <2>1, <2>2, <1>2, <1>12, <1>13
<1> QED
  BY <1>7, <1>11, <1>18, <1>19, <1>20 DEF L, k, x, mb, rest, owing, left, Taken

-----------------------------------------------------------------------------
(* What the host does to the connections.                                  *)

\* What is written to an open stream comes after what it holds.
LEMMA WriteIs ==
  ASSUME TypeOK, WireInv, NEW out \in [Connection -> Seq(Message)], Write(out)
  PROVE  /\ down' \in [Connection -> Seq(Symbol \cup {Closed})]
         /\ owed' \in [Connection -> Seq(Message)]
         /\ WireInv'
         /\ \A c \in Connection :
              IF Open(down[c])
              THEN /\ Open(down'[c]) /\ Bytes(down'[c]) = Bytes(down[c]) \o Encoded(out[c])
                   /\ owed'[c] = owed[c] \o out[c]
              ELSE down'[c] = down[c] /\ owed'[c] = owed[c]
         /\ \A c \in Connection : out[c] = <<>> => down'[c] = down[c] /\ owed'[c] = owed[c]
<1>1. /\ down \in [Connection -> Seq(Symbol \cup {Closed})]
      /\ owed \in [Connection -> Seq(Message)]
  BY DEF TypeOK
<1>2. /\ down' = [c \in Connection |->
                    IF Open(down[c]) THEN down[c] \o Encoded(out[c]) ELSE down[c]]
      /\ owed' = [c \in Connection |-> IF Open(down[c]) THEN owed[c] \o out[c] ELSE owed[c]]
  BY DEF Write
<1>3. ASSUME NEW c \in Connection, Open(down[c])
      PROVE  /\ down[c] = Bytes(down[c]) /\ down[c] \in Seq(Symbol)
             /\ Encoded(out[c]) \in Seq(Symbol) /\ Len(Encoded(out[c])) = 2 * Len(out[c])
             /\ down'[c] = down[c] \o Encoded(out[c]) /\ owed'[c] = owed[c] \o out[c]
             /\ owed'[c] \in Seq(Message)
  <2>1. Encoded(out[c]) \in Seq(Symbol) /\ Len(Encoded(out[c])) = 2 * Len(out[c])
    BY EncodedIs
  <2>2. down[c] = Bytes(down[c]) /\ down[c] \in Seq(Symbol)
    BY <1>3 DEF WireInv
  <2>3. owed'[c] = owed[c] \o out[c] /\ owed'[c] \in Seq(Message)
    BY <1>1, <1>2, <1>3
  <2> QED
    BY <2>1, <2>2, <2>3, <1>2, <1>3
<1>4. ASSUME NEW c \in Connection, Open(down[c])
      PROVE  /\ down'[c] \in Seq(Symbol) /\ Open(down'[c])
             /\ Bytes(down'[c]) = Bytes(down[c]) \o Encoded(out[c])
  <2>1. down'[c] \in Seq(Symbol)
    <3> DEFINE d == down[c]
               e == Encoded(out[c])
    <3>1. d \in Seq(Symbol) /\ e \in Seq(Symbol) /\ down'[c] = d \o e
      BY <1>3, <1>4
    <3> HIDE DEF d, e
    <3>2. d \o e \in Seq(Symbol)
      BY <3>1
    <3> QED
      BY <3>1, <3>2
  <2>2. Open(down'[c]) /\ Bytes(down'[c]) = down'[c]
    BY <2>1, WireIs
  <2> QED
    BY <2>1, <2>2, <1>3, <1>4
<1>5. ASSUME NEW c \in Connection, ~Open(down[c])
      PROVE  down'[c] = down[c] /\ owed'[c] = owed[c]
  BY <1>2, <1>5
<1>6. down' \in [Connection -> Seq(Symbol \cup {Closed})]
  <2>1. ASSUME NEW c \in Connection  PROVE down'[c] \in Seq(Symbol \cup {Closed})
    <3>1. CASE Open(down[c])
      BY <3>1, <1>4
    <3>2. CASE ~Open(down[c])
      BY <3>2, <1>1, <1>5
    <3> QED
      BY <3>1, <3>2
  <2> QED
    BY <2>1, <1>2
<1>7. owed' \in [Connection -> Seq(Message)]
  <2>1. ASSUME NEW c \in Connection  PROVE owed'[c] \in Seq(Message)
    BY <1>1, <1>3, <1>5
  <2> QED
    BY <2>1, <1>2
<1>8. WireInv'
  <2>1. ASSUME NEW c \in Connection
        PROVE  /\ Bytes(down'[c]) \in Seq(Symbol)
               /\ down'[c] = IF Open(down'[c]) THEN Bytes(down'[c])
                             ELSE Append(Bytes(down'[c]), Closed)
    <3>1. CASE Open(down[c])
      <4>1. down'[c] \in Seq(Symbol) /\ Open(down'[c])
        BY <3>1, <1>4
      <4> QED
        BY <4>1, WireIs
    <3>2. CASE ~Open(down[c])
      BY <3>2, <1>5 DEF WireInv
    <3> QED
      BY <3>1, <3>2
  <2> QED
    BY <2>1 DEF WireInv
<1>9. ASSUME NEW c \in Connection, out[c] = <<>>
      PROVE  down'[c] = down[c] /\ owed'[c] = owed[c]
  <2>1. CASE Open(down[c])
    <3>1. Encoded(out[c]) = <<>>
      BY <1>3, <1>9, <2>1
    <3>2. down[c] \in Seq(Symbol) /\ owed[c] \in Seq(Message)
      BY <1>1, <1>3, <2>1
    <3>3. down[c] \o <<>> = down[c] /\ owed[c] \o <<>> = owed[c]
      BY <3>2
    <3> QED
      BY <3>1, <3>3, <1>3, <1>9, <2>1
  <2>2. CASE ~Open(down[c])
    BY <2>2, <1>5
  <2> QED
    BY <2>1, <2>2
<1> QED
  BY <1>3, <1>4, <1>5, <1>6, <1>7, <1>8, <1>9

\* New messages at the end of a stream are owed after the others.
LEMMA FramedMore ==
  ASSUME NEW buffer \in Seq(Symbol), NEW bytes \in Seq(Symbol), NEW junk \in Nat,
         NEW ms \in Seq(Message), NEW more \in Seq(Message),
         Framed(buffer, bytes, junk, ms), Len(buffer) + Len(bytes) = junk + 2 * Len(ms)
  PROVE  /\ Framed(buffer, bytes \o Encoded(more), junk, ms \o more)
         /\ Len(buffer) + Len(bytes \o Encoded(more)) = junk + 2 * Len(ms \o more)
<1> DEFINE E == Encoded(more)
           n == Len(buffer) + Len(bytes)
           all == buffer \o bytes
           new == buffer \o (bytes \o E)
           both == ms \o more
<1>1. /\ E \in Seq(Symbol) /\ Len(E) = 2 * Len(more)
      /\ \A k \in 1..Len(more) : E[2 * k - 1] = more[k] /\ E[2 * k] = NewLine
  BY EncodedIs
<1> HIDE DEF E
<1>2. /\ n \in Nat /\ Len(ms) \in Nat /\ Len(more) \in Nat /\ junk <= Len(buffer)
      /\ n = junk + 2 * Len(ms) /\ Len(all) = n /\ all \in Seq(Symbol)
      /\ both \in Seq(Message) /\ Len(both) = Len(ms) + Len(more)
      /\ Len(bytes \o E) = Len(bytes) + 2 * Len(more)
      /\ new \in Seq(Symbol) /\ Len(new) = n + 2 * Len(more)
  <2>1. n \in Nat /\ Len(ms) \in Nat /\ Len(more) \in Nat /\ n = junk + 2 * Len(ms)
    OBVIOUS
  <2>2. Len(all) = n /\ all \in Seq(Symbol) /\ both \in Seq(Message)
        /\ Len(both) = Len(ms) + Len(more)
    OBVIOUS
  <2>3. Len(bytes \o E) = Len(bytes) + 2 * Len(more) /\ bytes \o E \in Seq(Symbol)
    <3>1. bytes \o E \in Seq(Symbol) /\ Len(bytes \o E) = Len(bytes) + Len(E)
      BY <1>1, ConcatProperties
    <3>2. Len(E) = 2 * Len(more)
      BY <1>1
    <3> QED
      BY <3>1, <3>2
  <2>4. new \in Seq(Symbol) /\ Len(new) = Len(buffer) + Len(bytes \o E)
    <3> DEFINE t == bytes \o E
    <3>1. t \in Seq(Symbol)
      BY <2>3
    <3> HIDE DEF t
    <3>2. buffer \o t \in Seq(Symbol) /\ Len(buffer \o t) = Len(buffer) + Len(t)
      BY <3>1
    <3> QED
      BY <3>2 DEF t
  <2>5. Len(new) = n + 2 * Len(more)
    BY <2>3, <2>4
  <2> QED
    BY <2>1, <2>2, <2>3, <2>4, <2>5 DEF Framed
<1>3. new = all \o E
  <2> DEFINE S == Symbol
  <2>1. buffer \in Seq(S) /\ bytes \in Seq(S) /\ E \in Seq(S)
    BY <1>1
  <2> HIDE DEF S
  <2>2. (buffer \o bytes) \o E = buffer \o (bytes \o E)
    BY <2>1, ConcatAssociative
  <2> QED
    BY <2>2
<1>4. /\ \A i \in 1..n : new[i] = all[i]
      /\ \A i \in 1..Len(E) : new[n + i] = E[i]
  <2> HIDE DEF new, all, n
  <2>1. ASSUME NEW i \in 1..n  PROVE new[i] = all[i]
    <3>1. i \in 1..Len(all)
      BY <1>2
    <3>2. (all \o E)[i] = all[i]
      BY <3>1, <1>1, <1>2
    <3> QED
      BY <3>2, <1>3
  <2>2. ASSUME NEW i \in 1..Len(E)  PROVE new[n + i] = E[i]
    <3>1. (all \o E)[Len(all) + i] = E[i]
      <4> DEFINE k == Len(all) + i
      <4>1. k \in 1..(Len(all) + Len(E)) /\ ~(k <= Len(all)) /\ k - Len(all) = i
        BY <1>1, <1>2
      <4> HIDE DEF k
      <4>2. (all \o E)[k] = IF k <= Len(all) THEN all[k] ELSE E[k - Len(all)]
        <5>1. all \in Seq(Symbol) /\ E \in Seq(Symbol)
          BY <1>1, <1>2
        <5> QED
          BY <4>1, <5>1, ConcatProperties
      <4>3. (all \o E)[k] = E[i]
        BY <4>1, <4>2
      <4> QED
        BY <4>3 DEF k
    <3> QED
      BY <3>1, <1>2, <1>3
  <2> QED
    BY <2>1, <2>2
<1>5. /\ \A k \in 1..Len(ms) : both[k] = ms[k]
      /\ \A k \in 1..Len(more) : both[Len(ms) + k] = more[k]
  OBVIOUS
<1>6. \A k \in 1..Len(ms) : /\ junk + 2 * k - 1 <= n => all[junk + 2 * k - 1] = ms[k]
                            /\ junk + 2 * k <= n => all[junk + 2 * k] = NewLine
  BY <1>2 DEF Framed
<1> HIDE DEF n, all, new, both
<1>7. ASSUME NEW k \in 1..Len(both)
      PROVE  new[junk + 2 * k - 1] = both[k] /\ new[junk + 2 * k] = NewLine
  <2>1. CASE k <= Len(ms)
    <3>1. k \in 1..Len(ms) /\ junk + 2 * k - 1 \in 1..n /\ junk + 2 * k \in 1..n
      BY <2>1, <1>2
    <3>2. junk + 2 * k - 1 <= n /\ junk + 2 * k <= n
      BY <3>1, <1>2
    <3> QED
      BY <3>1, <3>2, <1>4, <1>5, <1>6
  <2>2. CASE ~(k <= Len(ms))
    <3> DEFINE j == k - Len(ms)
    <3>1. /\ j \in 1..Len(more) /\ Len(ms) + j = k
          /\ 2 * j - 1 \in 1..Len(E) /\ 2 * j \in 1..Len(E)
          /\ n + (2 * j - 1) = junk + 2 * k - 1 /\ n + 2 * j = junk + 2 * k
      BY <2>2, <1>1, <1>2
    <3> HIDE DEF j
    <3>2. new[n + (2 * j - 1)] = E[2 * j - 1] /\ new[n + 2 * j] = E[2 * j]
      BY <3>1, <1>4
    <3>3. both[Len(ms) + j] = more[j]
      BY <3>1, <1>5
    <3> QED
      BY <3>1, <3>2, <3>3, <1>1
  <2> QED
    BY <2>1, <2>2
<1>8. Len(new) <= junk + 2 * Len(both)
  BY <1>2
<1>9. Framed(buffer, bytes \o E, junk, both)
  BY <1>2, <1>7, <1>8 DEF Framed, new
<1>10. Len(buffer) + Len(bytes \o E) = junk + 2 * Len(both)
  <2>1. Len(buffer) + Len(bytes \o E) = n + 2 * Len(more)
    BY <1>2 DEF n
  <2> QED
    BY <2>1, <1>2
<1> QED
  BY <1>9, <1>10 DEF E, both

\* What the host does to connections disturbs neither the streams nor the readers,
\* as long as it writes only to its clients and lets go of none but those that have
\* ended.
LEMMA HostKeeps ==
  ASSUME IInv, TypeOK', UNCHANGED <<made, program>>,
         \/ UNCHANGED <<down, owed>>
         \/ \E out \in [Connection -> Seq(Message)] :
              Write(out) /\ \A c \in Connection \ mClients : out[c] = <<>>,
         backlog' \subseteq backlog, mClients' \subseteq mClients \cup backlog,
         \A c \in Connection :
           up'[c] = up[c] \/ (c \in mClients /\ (Open(up[c]) => Open(up'[c]))),
         host' # "gone" =>
           /\ host # "gone"
           /\ \A c \in mClients \cup backlog : c \in mClients' \cup backlog' \/ ~Open(up[c]),
         host' = "setup" => mClients' = {} /\ backlog' = {},
         seats' = IF host' = "game" THEN mClients' ELSE {}
  PROVE  /\ WireInv' /\ PlaceInv' /\ Distinct'
         /\ \A p \in Players : (LinkOf(p) /\ FrameOf(p) /\ ScreenOf(p))'
<1>1. /\ WireInv'
      /\ \A c \in Connection :
           /\ Open(down'[c]) <=> Open(down[c])
           /\ ~Open(down[c]) => down'[c] = down[c] /\ owed'[c] = owed[c]
           /\ c \notin mClients => down'[c] = down[c] /\ owed'[c] = owed[c]
           /\ \/ down'[c] = down[c] /\ owed'[c] = owed[c]
              \/ \E more \in Seq(Message) : /\ Bytes(down'[c]) = Bytes(down[c]) \o Encoded(more)
                                            /\ owed'[c] = owed[c] \o more
  <2>1. CASE UNCHANGED <<down, owed>>
    BY <2>1 DEF IInv, WireInv
  <2>2. ASSUME NEW out \in [Connection -> Seq(Message)],
               Write(out), \A c \in Connection \ mClients : out[c] = <<>>
        PROVE  /\ WireInv'
               /\ \A c \in Connection :
                    /\ Open(down'[c]) <=> Open(down[c])
                    /\ ~Open(down[c]) => down'[c] = down[c] /\ owed'[c] = owed[c]
                    /\ c \notin mClients => down'[c] = down[c] /\ owed'[c] = owed[c]
                    /\ \/ down'[c] = down[c] /\ owed'[c] = owed[c]
                       \/ \E more \in Seq(Message) :
                            /\ Bytes(down'[c]) = Bytes(down[c]) \o Encoded(more)
                            /\ owed'[c] = owed[c] \o more
    <3>1. /\ WireInv'
          /\ \A c \in Connection :
               IF Open(down[c])
               THEN /\ Open(down'[c]) /\ Bytes(down'[c]) = Bytes(down[c]) \o Encoded(out[c])
                    /\ owed'[c] = owed[c] \o out[c]
               ELSE down'[c] = down[c] /\ owed'[c] = owed[c]
          /\ \A c \in Connection : out[c] = <<>> => down'[c] = down[c] /\ owed'[c] = owed[c]
      BY <2>2, WriteIs DEF IInv
    <3>2. \A c \in Connection : out[c] \in Seq(Message)
      OBVIOUS
    <3> QED
      BY <3>1, <3>2, <2>2
  <2> QED
    BY <2>1, <2>2
<1>2. program' = program /\ made' = made
  OBVIOUS
<1>3. /\ program \in [Players -> Program] /\ made \in 0..MaxConnections
      /\ mClients \subseteq Connection /\ backlog \subseteq Connection
      /\ \A c \in backlog : c \notin mClients
  BY DEF IInv, TypeOK
<1>4. PlaceInv'
  <2>1. ASSUME NEW c \in Connection, c > made
        PROVE  /\ c \notin mClients' \cup backlog'
               /\ down'[c] = <<>> /\ owed'[c] = <<>> /\ up'[c] = <<>>
    <3>1. /\ c \notin mClients \cup backlog
          /\ down[c] = <<>> /\ owed[c] = <<>> /\ up[c] = <<>>
      BY <2>1 DEF IInv, PlaceInv
    <3> QED
      BY <3>1, <1>1
  <2>2. ASSUME NEW c \in backlog'  PROVE Bytes(down'[c]) = <<>> /\ owed'[c] = <<>>
    <3>1. c \in Connection /\ c \notin mClients /\ Bytes(down[c]) = <<>> /\ owed[c] = <<>>
      BY <2>2, <1>3 DEF IInv, PlaceInv
    <3> QED
      BY <3>1, <1>1
  <2> QED
    BY <2>1, <2>2, <1>2 DEF PlaceInv
<1>5. Distinct'
  BY <1>2 DEF IInv, Distinct
<1>6. ASSUME NEW p \in Players  PROVE (LinkOf(p) /\ FrameOf(p) /\ ScreenOf(p))'
  <2> DEFINE prog == program[p]
             c == prog.link
  <2>1. LinkOf(p) /\ FrameOf(p) /\ ScreenOf(p)
    BY DEF IInv, PlayerInv
  <2>2. /\ prog \in Program /\ prog.socket \in {"unconnected", "connecting", "connected"}
        /\ prog.mBuffer \in Seq(Symbol)
    BY <1>3 DEF Program
  <2>3. prog.socket # "unconnected" => c \in Connection /\ c \in 1..made
    BY <2>1, <1>3, BoundsAssumption DEF LinkOf, Connection, NoLink
  <2>4. LinkOf(p)'
    <3>1. ASSUME prog.socket = "connecting"
          PROVE  /\ c \notin mClients' \cup backlog'
                 /\ down'[c] = <<>> /\ owed'[c] = <<>> /\ up'[c] = <<>>
      <4>1. /\ c \notin mClients \cup backlog /\ c \in Connection
            /\ down[c] = <<>> /\ owed[c] = <<>> /\ up[c] = <<>>
        BY <3>1, <2>1, <2>3 DEF LinkOf
      <4> QED
        BY <4>1, <1>1
    <3>2. ASSUME Connected(prog), Open(down'[c])
          PROVE  Open(up'[c]) /\ (host' # "gone" => c \in mClients' \cup backlog')
      <4>1. c \in Connection /\ Open(down[c])
        BY <3>2, <2>3, <1>1 DEF Connected
      <4>2. Open(up[c]) /\ (host # "gone" => c \in mClients \cup backlog)
        BY <4>1, <3>2, <2>1 DEF LinkOf
      <4> QED
        BY <4>1, <4>2
    <3> QED
      BY <3>1, <3>2, <2>1, <1>2 DEF LinkOf
  <2>5. FrameOf(p)'
    <3>1. ASSUME Connected(prog)
          PROVE  \E junk \in 0..Len(prog.mBuffer) :
                   /\ Framed(prog.mBuffer, Bytes(down'[c]), junk, owed'[c])
                   /\ Open(down'[c]) =>
                        Len(prog.mBuffer) + Len(Bytes(down'[c])) = junk + 2 * Len(owed'[c])
                   /\ prog.fresh => junk = 0
      <4>1. c \in Connection
        BY <3>1, <2>3 DEF Connected
      <4>2. PICK junk \in 0..Len(prog.mBuffer) :
              /\ Framed(prog.mBuffer, Bytes(down[c]), junk, owed[c])
              /\ Open(down[c]) =>
                   Len(prog.mBuffer) + Len(Bytes(down[c])) = junk + 2 * Len(owed[c])
              /\ prog.fresh => junk = 0
        BY <3>1, <2>1 DEF FrameOf
      <4>3. CASE down'[c] = down[c] /\ owed'[c] = owed[c]
        BY <4>2, <4>3
      <4>4. ASSUME Open(down[c]), NEW more \in Seq(Message),
                   Bytes(down'[c]) = Bytes(down[c]) \o Encoded(more),
                   owed'[c] = owed[c] \o more
            PROVE  /\ Framed(prog.mBuffer, Bytes(down'[c]), junk, owed'[c])
                   /\ Len(prog.mBuffer) + Len(Bytes(down'[c])) = junk + 2 * Len(owed'[c])
        <5> DEFINE buffer == prog.mBuffer
                   bytes == Bytes(down[c])
                   ms == owed[c]
        <5>1. /\ buffer \in Seq(Symbol) /\ bytes \in Seq(Symbol) /\ ms \in Seq(Message)
              /\ junk \in Nat
          BY <4>1, <2>2 DEF IInv, TypeOK, WireInv
        <5>2. Framed(buffer, bytes, junk, ms) /\ Len(buffer) + Len(bytes) = junk + 2 * Len(ms)
          BY <4>2, <4>4
        <5> HIDE DEF buffer, bytes, ms
        <5>3. /\ Framed(buffer, bytes \o Encoded(more), junk, ms \o more)
              /\ Len(buffer) + Len(bytes \o Encoded(more)) = junk + 2 * Len(ms \o more)
          BY <5>1, <5>2, FramedMore
        <5> QED
          BY <5>3, <4>4 DEF buffer, bytes, ms
      <4> QED
        BY <4>1, <4>2, <4>3, <4>4, <1>1
    <3> QED
      BY <3>1, <2>1, <1>2 DEF FrameOf
  <2>6. ScreenOf(p)'
    BY <2>1, <1>2 DEF ScreenOf
  <2> QED
    BY <2>4, <2>5, <2>6
<1> QED
  BY <1>1, <1>4, <1>5, <1>6

\* What is owed after something was written.
LEMMA OwedIs ==
  ASSUME TypeOK, WireInv, NEW out \in [Connection -> Seq(Message)], Write(out),
         NEW c \in Connection
  PROVE  /\ owed'[c] \in Seq(Message)
         /\ \A i \in DOMAIN owed[c] : i \in DOMAIN owed'[c] /\ owed'[c][i] = owed[c][i]
         /\ \A i \in DOMAIN owed'[c] :
              \/ i \in DOMAIN owed[c]
              \/ /\ Open(down[c]) /\ \A j \in DOMAIN owed[c] : j < i
                 /\ \E j \in DOMAIN out[c] : owed'[c][i] = out[c][j]
         /\ Open(down[c]) =>
              \A j \in DOMAIN out[c] : \E i \in DOMAIN owed'[c] : owed'[c][i] = out[c][j]
<1> DEFINE s == owed[c]
           t == out[c]
<1>1. s \in Seq(Message) /\ t \in Seq(Message) /\ owed'[c] \in Seq(Message)
      /\ (IF Open(down[c]) THEN owed'[c] = s \o t ELSE owed'[c] = s)
  BY WriteIs DEF TypeOK
<1> HIDE DEF s, t
<1>2. CASE Open(down[c])
  <2> DEFINE u == s \o t
  <2>1. /\ Len(s) \in Nat /\ Len(t) \in Nat /\ DOMAIN u = 1..(Len(s) + Len(t))
        /\ DOMAIN s = 1..Len(s) /\ DOMAIN t = 1..Len(t)
    BY <1>1
  <2>2. /\ \A i \in 1..Len(s) : u[i] = s[i]
        /\ \A j \in 1..Len(t) : u[Len(s) + j] = t[j]
    BY <1>1
  <2> HIDE DEF u
  <2>3. \A i \in DOMAIN s : i \in DOMAIN u /\ u[i] = s[i]
    BY <2>1, <2>2
  <2>4. ASSUME NEW i \in DOMAIN u, i \notin DOMAIN s
        PROVE  (\A j \in DOMAIN s : j < i) /\ \E j \in DOMAIN t : u[i] = t[j]
    <3>1. i - Len(s) \in 1..Len(t) /\ Len(s) + (i - Len(s)) = i
      BY <2>1, <2>4
    <3>2. u[i] = t[i - Len(s)]
      BY <3>1, <2>2
    <3>3. \A j \in DOMAIN s : j < i
      BY <2>1, <2>4
    <3> QED
      BY <3>1, <3>2, <3>3, <2>1
  <2>5. ASSUME NEW j \in DOMAIN t  PROVE \E i \in DOMAIN u : u[i] = t[j]
    <3>1. Len(s) + j \in DOMAIN u
      BY <2>1
    <3> QED
      BY <3>1, <2>1, <2>2
  <2> QED
    BY <2>3, <2>4, <2>5, <1>1, <1>2 DEF s, t, u
<1>3. CASE ~Open(down[c])
  BY <1>1, <1>3 DEF s, t
<1> QED
  BY <1>2, <1>3

\* Writing neither turns nor the end of the game leaves what is known of them.
LEMMA EndKeeps ==
  ASSUME IInv, UNCHANGED program, over' = over,
         \/ UNCHANGED <<down, owed>>
         \/ \E out \in [Connection -> Seq(Message)] :
              /\ Write(out)
              /\ \A c \in Connection : \A j \in DOMAIN out[c] :
                   out[c][j] \notin {"your_turn", "game_finished"}
  PROVE  TurnInv' /\ \A p \in Players : EndOf(p)'
<1>1. ASSUME NEW c \in Connection
      PROVE  /\ \A i \in DOMAIN owed[c] : i \in DOMAIN owed'[c] /\ owed'[c][i] = owed[c][i]
             /\ \A i \in DOMAIN owed'[c] :
                  i \in DOMAIN owed[c] \/ owed'[c][i] \notin {"your_turn", "game_finished"}
  <2>1. CASE UNCHANGED <<down, owed>>
    BY <2>1
  <2>2. ASSUME NEW out \in [Connection -> Seq(Message)], Write(out),
               \A d \in Connection : \A j \in DOMAIN out[d] :
                 out[d][j] \notin {"your_turn", "game_finished"}
        PROVE  /\ \A i \in DOMAIN owed[c] : i \in DOMAIN owed'[c] /\ owed'[c][i] = owed[c][i]
               /\ \A i \in DOMAIN owed'[c] :
                    i \in DOMAIN owed[c] \/ owed'[c][i] \notin {"your_turn", "game_finished"}
    <3>1. /\ \A i \in DOMAIN owed[c] : i \in DOMAIN owed'[c] /\ owed'[c][i] = owed[c][i]
          /\ \A i \in DOMAIN owed'[c] :
               i \in DOMAIN owed[c] \/ \E j \in DOMAIN out[c] : owed'[c][i] = out[c][j]
      <4>1. TypeOK /\ WireInv
        BY DEF IInv
      <4> QED
        BY <4>1, <2>2, OwedIs
    <3> QED
      BY <3>1, <2>2
  <2> QED
    BY <2>1, <2>2
<1>2. TurnInv'
  <2> SUFFICES ASSUME NEW c \in Connection, NEW i \in DOMAIN owed'[c],
                      owed'[c][i] = "game_finished"
               PROVE  over' /\ \A j \in DOMAIN owed'[c] : j > i => owed'[c][j] # "your_turn"
    BY DEF TurnInv
  <2>1. i \in DOMAIN owed[c] /\ owed[c][i] = "game_finished"
    BY <1>1
  <2>2. over /\ \A j \in DOMAIN owed[c] : j > i => owed[c][j] # "your_turn"
    BY <2>1 DEF IInv, TurnInv
  <2> QED
    BY <2>2, <1>1
<1>3. ASSUME NEW p \in Players  PROVE EndOf(p)'
  <2>1. EndOf(p) /\ LinkOf(p) /\ program' = program /\ made \in 0..MaxConnections
    BY DEF IInv, PlayerInv, TypeOK
  <2>2. Connected(program[p]) => program[p].link \in Connection
    BY <2>1, BoundsAssumption DEF LinkOf, Connected, Connection, NoLink
  <2> QED
    BY <2>1, <2>2, <1>1 DEF EndOf
<1> QED
  BY <1>2, <1>3

\* Writing no welcome, and seating nobody, leaves what is known of names and seats.
LEMMA NameKeeps ==
  ASSUME IInv, UNCHANGED <<program, ownName>>, seats' \subseteq seats,
         host' \in {"setup", "lobby"} =>
           /\ host \in {"setup", "lobby"}
           /\ (mClients' \cup backlog') \ named' \subseteq (mClients \cup backlog) \ named,
         \/ UNCHANGED <<down, owed>>
         \/ \E out \in [Connection -> Seq(Message)] :
              /\ Write(out)
              /\ \A c \in Connection : \A j \in DOMAIN out[c] : out[c][j] # "welcome"
  PROVE  WelcomeInv' /\ \A p \in Players : (SeatOf(p) /\ NameOf(p))'
<1>1. ASSUME NEW c \in Connection
      PROVE  /\ Open(down'[c]) => Open(down[c])
             /\ \A i \in DOMAIN owed[c] : i \in DOMAIN owed'[c] /\ owed'[c][i] = owed[c][i]
             /\ \A i \in DOMAIN owed'[c] : i \in DOMAIN owed[c] \/ owed'[c][i] # "welcome"
  <2>1. CASE UNCHANGED <<down, owed>>
    BY <2>1
  <2>2. ASSUME NEW out \in [Connection -> Seq(Message)], Write(out),
               \A d \in Connection : \A j \in DOMAIN out[d] : out[d][j] # "welcome"
        PROVE  /\ Open(down'[c]) => Open(down[c])
               /\ \A i \in DOMAIN owed[c] : i \in DOMAIN owed'[c] /\ owed'[c][i] = owed[c][i]
               /\ \A i \in DOMAIN owed'[c] : i \in DOMAIN owed[c] \/ owed'[c][i] # "welcome"
    <3>1. /\ \A i \in DOMAIN owed[c] : i \in DOMAIN owed'[c] /\ owed'[c][i] = owed[c][i]
          /\ \A i \in DOMAIN owed'[c] :
               i \in DOMAIN owed[c] \/ \E j \in DOMAIN out[c] : owed'[c][i] = out[c][j]
      BY <2>2, OwedIs DEF IInv
    <3>2. Open(down'[c]) => Open(down[c])
      BY <2>2, WriteIs DEF IInv
    <3> QED
      BY <3>1, <3>2, <2>2
  <2> QED
    BY <2>1, <2>2
<1>2. mClients \subseteq Connection /\ backlog \subseteq Connection /\ seats \subseteq Connection
  BY DEF IInv, TypeOK
<1>3. WelcomeInv'
  <2> SUFFICES ASSUME host' \in {"setup", "lobby"},
                      NEW c \in (mClients' \cup backlog') \ named',
                      NEW i \in DOMAIN owed'[c]
               PROVE  owed'[c][i] # "welcome"
    BY DEF WelcomeInv
  <2>1. c \in Connection /\ \A k \in DOMAIN owed[c] : owed[c][k] # "welcome"
    BY <1>2 DEF IInv, WelcomeInv
  <2> QED
    BY <2>1, <1>1
<1>4. ASSUME NEW p \in Players  PROVE (SeatOf(p) /\ NameOf(p))'
  <2>1. SeatOf(p) /\ NameOf(p) /\ program' = program /\ ownName' = ownName
    BY DEF IInv, PlayerInv
  <2>2. SeatOf(p)'
    BY <2>1, <1>1, <1>2 DEF SeatOf
  <2>3. NameOf(p)'
    <3> DEFINE prog == program[p]
               c == prog.link
    <3> SUFFICES ASSUME prog.screen = "dialog"
                 PROVE  /\ host' \in {"setup", "lobby"}
                             /\ c \in (mClients' \cup backlog') \ named' => ~prog.welcomed
                        /\ c \in seats' \ ownName =>
                             \/ "game_started" \in prog.missed
                             \/ /\ ~prog.welcomed
                                /\ \A i \in DOMAIN owed'[c] : owed'[c][i] = "welcome" =>
                                     \E j \in DOMAIN owed'[c] :
                                       j < i /\ owed'[c][j] = "game_started"
      BY <2>1 DEF NameOf
    <3>1. /\ host \in {"setup", "lobby"} /\ c \in (mClients \cup backlog) \ named =>
               ~prog.welcomed
          /\ c \in seats \ ownName =>
               \/ "game_started" \in prog.missed
               \/ /\ ~prog.welcomed
                  /\ \A i \in DOMAIN owed[c] : owed[c][i] = "welcome" =>
                       \E j \in DOMAIN owed[c] : j < i /\ owed[c][j] = "game_started"
      BY <2>1 DEF NameOf
    <3> HIDE DEF c, prog
    <3>2. host' \in {"setup", "lobby"} /\ c \in (mClients' \cup backlog') \ named' =>
            ~prog.welcomed
      BY <3>1
    <3>3. ASSUME c \in seats' \ ownName, "game_started" \notin prog.missed,
                 NEW i \in DOMAIN owed'[c], owed'[c][i] = "welcome"
          PROVE  \E j \in DOMAIN owed'[c] : j < i /\ owed'[c][j] = "game_started"
      <4>1. c \in Connection /\ c \in seats \ ownName
        BY <3>3, <1>2
      <4>2. i \in DOMAIN owed[c] /\ owed[c][i] = "welcome"
        BY <4>1, <3>3, <1>1
      <4>3. PICK j \in DOMAIN owed[c] : j < i /\ owed[c][j] = "game_started"
        BY <4>1, <4>2, <3>1, <3>3
      <4> QED
        BY <4>1, <4>3, <1>1
    <3> QED
      BY <3>1, <3>2, <3>3
  <2> QED
    BY <2>2, <2>3
<1> QED
  BY <1>3, <1>4

-----------------------------------------------------------------------------
(* The host's steps.                                                       *)

\* A broadcast writes messages, to those it is for.
LEMMA BroadcastIs ==
  ASSUME NEW C \in SUBSET Connection, NEW m \in Message
  PROVE  LET out == [c \in Connection |-> IF c \in C THEN <<m>> ELSE <<>>]
         IN  /\ out \in [Connection -> Seq(Message)]
             /\ \A c \in Connection \ C : out[c] = <<>>
             /\ \A c \in Connection : \A j \in DOMAIN out[c] : out[c][j] = m
             /\ \A c \in C : 1 \in DOMAIN out[c] /\ out[c][1] = m
  OBVIOUS

\* Listening says nothing about anybody yet.
LEMMA OpenLobbyKeeps ==
  ASSUME IInv, OpenLobby
  PROVE  IInv'
<1>1. /\ host = "setup" /\ host' = "lobby" /\ mClients' = mClients /\ named' = named
      /\ seats' = seats /\ ownName' = ownName /\ asked' = asked /\ turns' = turns
      /\ over' = over /\ made' = made /\ backlog' = backlog /\ down' = down /\ up' = up
      /\ owed' = owed /\ program' = program
  BY DEF OpenLobby, game, network
<1>2. TypeOK'
  BY <1>1 DEF IInv, TypeOK
<1>3. /\ WireInv' /\ PlaceInv' /\ Distinct'
      /\ \A p \in Players : (LinkOf(p) /\ FrameOf(p) /\ ScreenOf(p))'
  <2>1. mClients = {} /\ backlog = {} /\ seats = {}
    BY <1>1 DEF IInv, PlaceInv
  <2> QED
    BY <1>1, <1>2, <2>1, HostKeeps
<1>4. TurnInv' /\ \A p \in Players : EndOf(p)'
  BY <1>1, EndKeeps
<1>5. WelcomeInv' /\ \A p \in Players : (SeatOf(p) /\ NameOf(p))'
  BY <1>1, NameKeeps
<1> QED
  BY <1>2, <1>3, <1>4, <1>5 DEF IInv, PlayerInv

\* Accepting a connection makes a client without a name, to whom nothing is owed.
LEMMA OnNewConnectionKeeps ==
  ASSUME IInv, NEW c \in Connection, OnNewConnection(c)
  PROVE  IInv'
<1>1. /\ host = "lobby" /\ host' = host /\ c \in backlog /\ backlog' = backlog \ {c}
      /\ mClients' = mClients \cup {c} /\ named' = named
      /\ seats' = seats /\ ownName' = ownName /\ asked' = asked /\ turns' = turns
      /\ over' = over /\ made' = made /\ down' = down /\ up' = up
      /\ owed' = owed /\ program' = program
  BY DEF OnNewConnection, game
<1>2. TypeOK'
  BY <1>1 DEF IInv, TypeOK
<1>3. /\ WireInv' /\ PlaceInv' /\ Distinct'
      /\ \A p \in Players : (LinkOf(p) /\ FrameOf(p) /\ ScreenOf(p))'
  <2>1. seats = {}
    BY <1>1 DEF IInv, PlaceInv
  <2>2. /\ host' # "gone" /\ host # "gone" /\ host' # "setup" /\ host' # "game"
        /\ \A d \in mClients \cup backlog : d \in mClients' \cup backlog'
    BY <1>1
  <2> QED
    BY <1>1, <1>2, <2>1, <2>2, HostKeeps
<1>4. TurnInv' /\ \A p \in Players : EndOf(p)'
  BY <1>1, EndKeeps
<1>5. WelcomeInv' /\ \A p \in Players : (SeatOf(p) /\ NameOf(p))'
  BY <1>1, NameKeeps
<1> QED
  BY <1>2, <1>3, <1>4, <1>5 DEF IInv, PlayerInv

\* Every client gets a seat, under the name it has by now, and game_started is written
\* to every one of them.
LEMMA StartGameKeeps ==
  ASSUME IInv, StartGame
  PROVE  IInv'
<1>1. PICK out : out = [c \in Connection |-> IF c \in mClients THEN <<"game_started">> ELSE <<>>]
  OBVIOUS
<1>2. /\ host = "lobby" /\ host' = "game" /\ seats' = mClients /\ ownName' = named
      /\ Write(out) /\ mClients' = mClients /\ named' = named /\ asked' = asked
      /\ turns' = turns /\ over' = over /\ made' = made /\ backlog' = backlog /\ up' = up
      /\ program' = program
  BY <1>1 DEF StartGame, Broadcast
<1>3. mClients \subseteq Connection /\ TypeOK /\ WireInv
  BY DEF IInv, TypeOK
<1>4. /\ out \in [Connection -> Seq(Message)]
      /\ \A c \in Connection \ mClients : out[c] = <<>>
      /\ \A c \in Connection : \A j \in DOMAIN out[c] : out[c][j] = "game_started"
      /\ \A c \in mClients : 1 \in DOMAIN out[c] /\ out[c][1] = "game_started"
  <2>1. "game_started" \in Message
    BY DEF Message
  <2> QED
    BY <1>1, <1>3, <2>1, BroadcastIs
<1>5. TypeOK'
  <2>1. /\ down' \in [Connection -> Seq(Symbol \cup {Closed})]
        /\ owed' \in [Connection -> Seq(Message)]
    BY <1>2, <1>3, <1>4, WriteIs
  <2>2. asked = {}
    BY <1>2 DEF IInv, TypeOK, PlaceInv
  <2> QED
    BY <1>2, <1>3, <2>1, <2>2 DEF TypeOK
<1>6. /\ WireInv' /\ PlaceInv' /\ Distinct'
      /\ \A p \in Players : (LinkOf(p) /\ FrameOf(p) /\ ScreenOf(p))'
  BY <1>2, <1>4, <1>5, HostKeeps
<1>7. TurnInv' /\ \A p \in Players : EndOf(p)'
  BY <1>2, <1>4, EndKeeps
<1>8. WelcomeInv'
  BY <1>2 DEF WelcomeInv
<1>9. ASSUME NEW c \in Connection
      PROVE  /\ Open(down'[c]) => Open(down[c])
             /\ \A i \in DOMAIN owed'[c] : i \in DOMAIN owed[c] \/ owed'[c][i] # "welcome"
             /\ \A i \in DOMAIN owed[c] : owed'[c][i] = owed[c][i]
             /\ c \in mClients /\ Open(down[c]) =>
                  \E i \in DOMAIN owed'[c] : owed'[c][i] = "game_started"
  <2>1. /\ \A i \in DOMAIN owed[c] : i \in DOMAIN owed'[c] /\ owed'[c][i] = owed[c][i]
        /\ \A i \in DOMAIN owed'[c] :
             i \in DOMAIN owed[c] \/ \E j \in DOMAIN out[c] : owed'[c][i] = out[c][j]
        /\ Open(down[c]) =>
             \A j \in DOMAIN out[c] : \E i \in DOMAIN owed'[c] : owed'[c][i] = out[c][j]
    BY <1>2, <1>3, <1>4, OwedIs
  <2>2. Open(down'[c]) => Open(down[c])
    BY <1>2, <1>3, <1>4, WriteIs
  <2> QED
    BY <2>1, <2>2, <1>4
<1>10. ASSUME NEW p \in Players  PROVE (SeatOf(p) /\ NameOf(p))'
  <2>1. SeatOf(p)'
    BY <1>2, <1>3, <1>9 DEF SeatOf
  <2>2. NameOf(p)'
    <3> DEFINE prog == program[p]
               c == prog.link
    <3> SUFFICES ASSUME prog.screen = "dialog", c \in mClients \ named
                 PROVE  /\ ~prog.welcomed
                        /\ \A i \in DOMAIN owed'[c] : owed'[c][i] # "welcome"
      BY <1>2 DEF NameOf
    <3>1. ~prog.welcomed
      BY <1>2 DEF IInv, PlayerInv, NameOf
    <3>2. \A i \in DOMAIN owed[c] : owed[c][i] # "welcome"
      BY <1>2 DEF IInv, WelcomeInv
    <3> QED
      BY <3>1, <3>2, <1>3, <1>9
  <2> QED
    BY <2>1, <2>2
<1> QED
  BY <1>5, <1>6, <1>7, <1>8, <1>10 DEF IInv, PlayerInv

\* A host that quits has no clients any more; what it wrote is still on its way.
LEMMA HostQuitsKeeps ==
  ASSUME IInv, HostQuits
  PROVE  IInv'
<1>1. /\ host' = "gone" /\ mClients' = {} /\ named' = {} /\ seats' = {} /\ asked' = {}
      /\ ownName' = ownName /\ turns' = turns /\ over' = over
      /\ made' = made /\ backlog' = backlog /\ down' = down /\ up' = up
      /\ owed' = owed /\ program' = program
  BY DEF HostQuits, network
<1>2. TypeOK'
  BY <1>1 DEF IInv, TypeOK
<1>3. /\ WireInv' /\ PlaceInv' /\ Distinct'
      /\ \A p \in Players : (LinkOf(p) /\ FrameOf(p) /\ ScreenOf(p))'
  BY <1>1, <1>2, HostKeeps
<1>4. TurnInv' /\ \A p \in Players : EndOf(p)'
  BY <1>1, EndKeeps
<1>5. WelcomeInv' /\ \A p \in Players : (SeatOf(p) /\ NameOf(p))'
  BY <1>1, NameKeeps
<1> QED
  BY <1>2, <1>3, <1>4, <1>5 DEF IInv, PlayerInv

\* What is left of a stream after its first element.
LEMMA TailIs ==
  ASSUME NEW S, NEW s \in Seq(S), s # <<>>
  PROVE  Tail(s) \in Seq(S) /\ (Open(s) => Open(Tail(s)) /\ Head(s) # Closed)
<1>1. Tail(s) \in Seq(S) /\ Len(Tail(s)) = Len(s) - 1 /\ \A i \in 1..Len(Tail(s)) : Tail(s)[i] = s[i + 1]
  BY HeadTailProperties
<1>2. Head(s) = s[1] /\ 1 \in DOMAIN s
  OBVIOUS
<1>3. ASSUME NEW i \in DOMAIN Tail(s)  PROVE Tail(s)[i] = s[i + 1] /\ i + 1 \in DOMAIN s
  BY <1>1
<1> QED
  BY <1>1, <1>2, <1>3 DEF Open

\* Reading one message changes the stream to the host only.
LEMMA ReadIs ==
  ASSUME TypeOK, NEW c \in mClients, up[c] # <<>>, up' = [up EXCEPT ![c] = Tail(@)]
  PROVE  /\ up' \in [Connection -> Seq({"hello", "move", Closed})]
         /\ \A d \in Connection : up'[d] = up[d] \/ (d = c /\ (Open(up[d]) => Open(up'[d])))
         /\ Head(up[c]) = Closed => ~Open(up[c])
<1>1. /\ c \in Connection /\ up \in [Connection -> Seq({"hello", "move", Closed})]
      /\ up[c] \in Seq({"hello", "move", Closed})
  BY DEF TypeOK
<1>2. /\ Tail(up[c]) \in Seq({"hello", "move", Closed})
      /\ Open(up[c]) => Open(Tail(up[c])) /\ Head(up[c]) # Closed
  BY <1>1, TailIs
<1> QED
  BY <1>1, <1>2

\* A move ends the turn it was asked for, and writes nothing.
LEMMA SupplyMoveKeeps ==
  ASSUME IInv, NEW c \in Connection, ServerReads(c), SupplyMove(c)
  PROVE  IInv'
<1>1. /\ host' = host /\ mClients' = mClients /\ named' = named /\ seats' = seats
      /\ asked' \subseteq asked /\ ownName' = ownName /\ turns' = turns /\ over' = over
      /\ made' = made /\ backlog' = backlog /\ down' = down /\ owed' = owed
      /\ program' = program /\ c \in mClients /\ up[c] # <<>> /\ up' = [up EXCEPT ![c] = Tail(@)]
  BY DEF SupplyMove, ServerReads, lobby
<1>2. /\ up' \in [Connection -> Seq({"hello", "move", Closed})]
      /\ \A d \in Connection :
           up'[d] = up[d] \/ (d \in mClients /\ (Open(up[d]) => Open(up'[d])))
  BY <1>1, ReadIs DEF IInv
<1>3. TypeOK'
  BY <1>1, <1>2 DEF IInv, TypeOK
<1>4. /\ WireInv' /\ PlaceInv' /\ Distinct'
      /\ \A p \in Players : (LinkOf(p) /\ FrameOf(p) /\ ScreenOf(p))'
  <2>1. /\ seats' = IF host' = "game" THEN mClients' ELSE {}
        /\ host' = "setup" => mClients' = {} /\ backlog' = {}
    BY <1>1 DEF IInv, PlaceInv
  <2> QED
    BY <1>1, <1>2, <1>3, <2>1, HostKeeps
<1>5. TurnInv' /\ \A p \in Players : EndOf(p)'
  BY <1>1, EndKeeps
<1>6. WelcomeInv' /\ \A p \in Players : (SeatOf(p) /\ NameOf(p))'
  BY <1>1, NameKeeps
<1> QED
  BY <1>3, <1>4, <1>5, <1>6 DEF IInv, PlayerInv

\* A client that is gone takes its name and its seat along.
LEMMA OnDisconnectedKeeps ==
  ASSUME IInv, NEW c \in Connection, ServerReads(c), Head(up[c]) = Closed, OnDisconnected(c)
  PROVE  IInv'
<1>1. PICK out : out = [d \in Connection |-> IF d \in mClients' THEN <<"lobby">> ELSE <<>>]
  OBVIOUS
<1>2. /\ host' = host /\ mClients' = mClients \ {c} /\ named' = named \ {c}
      /\ seats' = seats \ {c} /\ asked' = asked \ {c} /\ ownName' = ownName
      /\ turns' = turns /\ over' = over /\ made' = made /\ backlog' = backlog
      /\ program' = program /\ c \in mClients /\ up[c] # <<>> /\ up' = [up EXCEPT ![c] = Tail(@)]
      /\ Write(out) \/ UNCHANGED <<down, owed>>
  BY <1>1 DEF OnDisconnected, ServerReads, BroadcastRoster, Broadcast
<1>3. /\ up' \in [Connection -> Seq({"hello", "move", Closed})]
      /\ \A d \in Connection :
           up'[d] = up[d] \/ (d \in mClients /\ (Open(up[d]) => Open(up'[d])))
      /\ ~Open(up[c])
  BY <1>2, ReadIs DEF IInv
<1>4. mClients' \subseteq Connection /\ TypeOK /\ WireInv
  BY <1>2 DEF IInv, TypeOK
<1>5. /\ out \in [Connection -> Seq(Message)]
      /\ \A d \in Connection \ mClients : out[d] = <<>>
      /\ \A d \in Connection : \A j \in DOMAIN out[d] : out[d][j] = "lobby"
  <2>1. "lobby" \in Message
    BY DEF Message
  <2>2. /\ out \in [Connection -> Seq(Message)]
        /\ \A d \in Connection \ mClients' : out[d] = <<>>
        /\ \A d \in Connection : \A j \in DOMAIN out[d] : out[d][j] = "lobby"
    <3> DEFINE C == mClients'
    <3>1. C \in SUBSET Connection /\ out = [d \in Connection |-> IF d \in C THEN <<"lobby">> ELSE <<>>]
      BY <1>1, <1>4
    <3> HIDE DEF C
    <3>2. /\ out \in [Connection -> Seq(Message)]
          /\ \A d \in Connection \ C : out[d] = <<>>
          /\ \A d \in Connection : \A j \in DOMAIN out[d] : out[d][j] = "lobby"
      BY <2>1, <3>1, BroadcastIs
    <3> QED
      BY <3>2 DEF C
  <2> QED
    BY <2>2, <1>2
<1>6. TypeOK'
  <2>1. /\ down' \in [Connection -> Seq(Symbol \cup {Closed})]
        /\ owed' \in [Connection -> Seq(Message)]
    <3>1. CASE Write(out)
      BY <3>1, <1>4, <1>5, WriteIs
    <3>2. CASE UNCHANGED <<down, owed>>
      BY <3>2 DEF IInv, TypeOK
    <3> QED
      BY <3>1, <3>2, <1>2
  <2> QED
    BY <1>2, <1>3, <1>4, <2>1 DEF TypeOK
<1>7. /\ WireInv' /\ PlaceInv' /\ Distinct'
      /\ \A p \in Players : (LinkOf(p) /\ FrameOf(p) /\ ScreenOf(p))'
  <2>1. /\ seats' = IF host' = "game" THEN mClients' ELSE {}
        /\ host' = "setup" => mClients' = {} /\ backlog' = {}
    BY <1>2 DEF IInv, PlaceInv
  <2>2. \A d \in mClients \cup backlog : d \in mClients' \cup backlog' \/ ~Open(up[d])
    BY <1>2, <1>3
  <2>3. mClients' \subseteq mClients \cup backlog /\ backlog' \subseteq backlog
    BY <1>2
  <2>4. \/ UNCHANGED <<down, owed>>
        \/ \E o \in [Connection -> Seq(Message)] :
             Write(o) /\ \A d \in Connection \ mClients : o[d] = <<>>
    BY <1>2, <1>5
  <2>5. UNCHANGED <<made, program>> /\ (host' # "gone" => host # "gone")
    BY <1>2
  <2> QED
    BY <1>3, <1>6, <2>1, <2>2, <2>3, <2>4, <2>5, HostKeeps
<1>8. TurnInv' /\ \A p \in Players : EndOf(p)'
  BY <1>2, <1>5, EndKeeps
<1>9. WelcomeInv' /\ \A p \in Players : (SeatOf(p) /\ NameOf(p))'
  <2>1. c \notin backlog
    BY <1>2 DEF IInv, TypeOK
  <2>2. (mClients' \cup backlog') \ named' \subseteq (mClients \cup backlog) \ named
    BY <1>2, <2>1
  <2> QED
    BY <1>2, <1>5, <2>2, NameKeeps
<1> QED
  BY <1>6, <1>7, <1>8, <1>9 DEF IInv, PlayerInv

\* A client is named in the same step that writes its welcome.
LEMMA HelloKeeps ==
  ASSUME IInv, NEW c \in Connection, ServerReads(c), Hello(c)
  PROVE  IInv'
<1>1. PICK out : out = [d \in Connection |-> IF d = c THEN <<"welcome", "lobby">>
                                             ELSE IF d \in mClients THEN <<"lobby">> ELSE <<>>]
  OBVIOUS
<1>2. /\ host' = host /\ mClients' = mClients /\ named' = named \cup {c}
      /\ seats' = seats /\ asked' = asked /\ ownName' = ownName
      /\ turns' = turns /\ over' = over /\ made' = made /\ backlog' = backlog
      /\ program' = program /\ c \in mClients /\ up[c] # <<>> /\ up' = [up EXCEPT ![c] = Tail(@)]
      /\ Write(out)
  BY <1>1 DEF Hello, ServerReads, game
<1>3. /\ up' \in [Connection -> Seq({"hello", "move", Closed})]
      /\ \A d \in Connection :
           up'[d] = up[d] \/ (d \in mClients /\ (Open(up[d]) => Open(up'[d])))
  BY <1>2, ReadIs DEF IInv
<1>4. TypeOK /\ WireInv /\ mClients \subseteq Connection /\ seats \subseteq mClients
  BY DEF IInv, TypeOK
<1>5. /\ out \in [Connection -> Seq(Message)]
      /\ \A d \in Connection \ mClients : out[d] = <<>>
      /\ \A d \in Connection : \A j \in DOMAIN out[d] :
           out[d][j] = "lobby" \/ (d = c /\ out[d][j] = "welcome")
  <2>1. <<"welcome", "lobby">> \in Seq(Message) /\ <<"lobby">> \in Seq(Message)
        /\ <<>> \in Seq(Message)
    BY DEF Message
  <2>2. \A j \in DOMAIN <<"welcome", "lobby">> : <<"welcome", "lobby">>[j] \in {"welcome", "lobby"}
    OBVIOUS
  <2>3. \A j \in DOMAIN <<"lobby">> : <<"lobby">>[j] = "lobby"
    OBVIOUS
  <2>4. out \in [Connection -> Seq(Message)]
    BY <1>1, <2>1
  <2>5. ASSUME NEW d \in Connection, NEW j \in DOMAIN out[d]
        PROVE  out[d][j] = "lobby" \/ (d = c /\ out[d][j] = "welcome")
    BY <1>1, <2>2, <2>3
  <2> QED
    BY <1>1, <1>2, <2>4, <2>5
<1>6. TypeOK'
  <2>1. /\ down' \in [Connection -> Seq(Symbol \cup {Closed})]
        /\ owed' \in [Connection -> Seq(Message)]
    BY <1>2, <1>4, <1>5, WriteIs
  <2> QED
    BY <1>2, <1>3, <1>4, <2>1 DEF TypeOK
<1>7. /\ WireInv' /\ PlaceInv' /\ Distinct'
      /\ \A p \in Players : (LinkOf(p) /\ FrameOf(p) /\ ScreenOf(p))'
  <2>1. /\ seats' = IF host' = "game" THEN mClients' ELSE {}
        /\ host' = "setup" => mClients' = {} /\ backlog' = {}
    BY <1>2 DEF IInv, PlaceInv
  <2> QED
    BY <1>2, <1>3, <1>5, <1>6, <2>1, HostKeeps
<1>8. TurnInv' /\ \A p \in Players : EndOf(p)'
  BY <1>2, <1>5, EndKeeps
<1>9. ASSUME NEW d \in Connection
      PROVE  /\ Open(down'[d]) => Open(down[d])
             /\ \A i \in DOMAIN owed[d] : i \in DOMAIN owed'[d] /\ owed'[d][i] = owed[d][i]
             /\ \A i \in DOMAIN owed'[d] :
                  \/ i \in DOMAIN owed[d]
                  \/ Open(down[d]) /\ \A j \in DOMAIN owed[d] : j < i
             /\ d # c => \A i \in DOMAIN owed'[d] : i \in DOMAIN owed[d] \/ owed'[d][i] # "welcome"
  <2>1. /\ \A i \in DOMAIN owed[d] : i \in DOMAIN owed'[d] /\ owed'[d][i] = owed[d][i]
        /\ \A i \in DOMAIN owed'[d] :
             \/ i \in DOMAIN owed[d]
             \/ /\ Open(down[d]) /\ \A j \in DOMAIN owed[d] : j < i
                /\ \E j \in DOMAIN out[d] : owed'[d][i] = out[d][j]
    BY <1>2, <1>4, <1>5, OwedIs
  <2>2. Open(down'[d]) => Open(down[d])
    BY <1>2, <1>4, <1>5, WriteIs
  <2> QED
    BY <2>1, <2>2, <1>5
<1>10. WelcomeInv'
  <2> SUFFICES ASSUME host \in {"setup", "lobby"}, NEW d \in (mClients \cup backlog) \ named,
                      d # c, NEW i \in DOMAIN owed'[d]
               PROVE  owed'[d][i] # "welcome"
    BY <1>2 DEF WelcomeInv
  <2>1. d \in Connection /\ \A k \in DOMAIN owed[d] : owed[d][k] # "welcome"
    BY <1>4 DEF IInv, WelcomeInv, TypeOK
  <2> QED
    BY <2>1, <1>9
<1>11. ASSUME NEW p \in Players  PROVE (SeatOf(p) /\ NameOf(p))'
  <2>1. SeatOf(p) /\ NameOf(p) /\ LinkOf(p)
    BY DEF IInv, PlayerInv
  <2>2. SeatOf(p)'
    BY <2>1, <1>2, <1>4, <1>9 DEF SeatOf
  <2>3. NameOf(p)'
    <3> DEFINE prog == program[p]
               d == prog.link
    <3>1. prog.screen = "dialog" =>
            (host' \in {"setup", "lobby"} /\ d \in (mClients' \cup backlog') \ named' =>
               ~prog.welcomed)
      BY <2>1, <1>2 DEF NameOf
    <3>2. ASSUME prog.screen = "dialog", d \in seats \ ownName, "game_started" \notin prog.missed
          PROVE  /\ ~prog.welcomed
                 /\ \A i \in DOMAIN owed'[d] : owed'[d][i] = "welcome" =>
                      \E j \in DOMAIN owed'[d] : j < i /\ owed'[d][j] = "game_started"
      <4>1. /\ ~prog.welcomed
            /\ \A i \in DOMAIN owed[d] : owed[d][i] = "welcome" =>
                 \E j \in DOMAIN owed[d] : j < i /\ owed[d][j] = "game_started"
        BY <2>1, <3>2 DEF NameOf
      <4>2. d \in Connection /\ d \in mClients
        BY <3>2, <1>4
      <4>3. Connected(prog)
        <5>1. prog \in Program
          BY DEF IInv, TypeOK
        <5> QED
          BY <5>1, <4>2, <2>1 DEF LinkOf, Connected, Program, NoLink, Connection
      <4>4. Open(down[d]) => \E j \in DOMAIN owed[d] : owed[d][j] = "game_started"
        BY <4>3, <3>2, <2>1 DEF SeatOf
      <4> HIDE DEF prog, d
      <4>5. ASSUME NEW i \in DOMAIN owed'[d], owed'[d][i] = "welcome"
            PROVE  \E j \in DOMAIN owed'[d] : j < i /\ owed'[d][j] = "game_started"
        <5>1. CASE i \in DOMAIN owed[d]
          <6>1. owed[d][i] = "welcome"
            BY <5>1, <4>2, <4>5, <1>9
          <6>2. PICK j \in DOMAIN owed[d] : j < i /\ owed[d][j] = "game_started"
            BY <5>1, <6>1, <4>1
          <6> QED
            BY <6>2, <4>2, <1>9
        <5>2. CASE i \notin DOMAIN owed[d]
          <6>1. Open(down[d]) /\ \A j \in DOMAIN owed[d] : j < i
            BY <5>2, <4>2, <4>5, <1>9
          <6>2. PICK j \in DOMAIN owed[d] : owed[d][j] = "game_started"
            BY <6>1, <4>4
          <6> QED
            BY <6>1, <6>2, <4>2, <1>9
        <5> QED
          BY <5>1, <5>2
      <4> QED
        BY <4>1, <4>5
    <3> QED
      BY <3>1, <3>2, <1>2 DEF NameOf
  <2> QED
    BY <2>2, <2>3
<1> QED
  BY <1>6, <1>7, <1>8, <1>10, <1>11 DEF IInv, PlayerInv

\* A turn is asked of a seat, and so of a client of the host.
LEMMA AskTurnKeeps ==
  ASSUME IInv, NEW c \in Connection, AskTurn(c)
  PROVE  IInv'
<1>1. PICK out : out = [d \in Connection |-> IF d \in {c} THEN <<"your_turn">> ELSE <<>>]
  OBVIOUS
<1>2. /\ host = "game" /\ ~over /\ c \in seats \ asked /\ turns[c] < MaxTurns
      /\ turns' = [turns EXCEPT ![c] = @ + 1] /\ asked' = asked \cup {c}
      /\ host' = host /\ mClients' = mClients /\ named' = named
      /\ seats' = seats /\ ownName' = ownName /\ over' = over /\ made' = made
      /\ backlog' = backlog /\ up' = up /\ program' = program /\ Write(out)
  BY <1>1 DEF AskTurn, Broadcast, lobby
<1>3. TypeOK /\ WireInv /\ seats \subseteq mClients /\ mClients \subseteq Connection
  BY DEF IInv, TypeOK
<1>4. /\ out \in [Connection -> Seq(Message)]
      /\ \A d \in Connection \ mClients : out[d] = <<>>
      /\ \A d \in Connection : \A j \in DOMAIN out[d] : out[d][j] = "your_turn"
  <2>1. "your_turn" \in Message /\ {c} \in SUBSET Connection
    BY DEF Message
  <2>2. /\ out \in [Connection -> Seq(Message)]
        /\ \A d \in Connection \ {c} : out[d] = <<>>
        /\ \A d \in Connection : \A j \in DOMAIN out[d] : out[d][j] = "your_turn"
    BY <1>1, <2>1, BroadcastIs
  <2> QED
    BY <2>2, <1>2, <1>3
<1>5. TypeOK'
  <2>1. /\ down' \in [Connection -> Seq(Symbol \cup {Closed})]
        /\ owed' \in [Connection -> Seq(Message)]
    BY <1>2, <1>3, <1>4, WriteIs
  <2>2. turns' \in [Connection -> 0..MaxTurns]
    BY <1>2, BoundsAssumption DEF IInv, TypeOK
  <2> QED
    BY <1>2, <1>3, <2>1, <2>2 DEF TypeOK
<1>6. /\ WireInv' /\ PlaceInv' /\ Distinct'
      /\ \A p \in Players : (LinkOf(p) /\ FrameOf(p) /\ ScreenOf(p))'
  <2>1. seats' = IF host' = "game" THEN mClients' ELSE {}
    BY <1>2 DEF IInv, PlaceInv
  <2> QED
    BY <1>2, <1>4, <1>5, <2>1, HostKeeps
<1>7. WelcomeInv' /\ \A p \in Players : (SeatOf(p) /\ NameOf(p))'
  BY <1>2, <1>4, NameKeeps
<1>8. TurnInv'
  <2> SUFFICES ASSUME NEW d \in Connection, NEW i \in DOMAIN owed'[d],
                      owed'[d][i] = "game_finished"
               PROVE  FALSE
    BY DEF TurnInv
  <2>1. i \in DOMAIN owed[d] \/ \E j \in DOMAIN out[d] : owed'[d][i] = out[d][j]
    BY <1>2, <1>3, <1>4, OwedIs
  <2>2. i \in DOMAIN owed[d] => owed[d][i] = "game_finished"
    BY <1>2, <1>3, <1>4, OwedIs
  <2> QED
    BY <2>1, <2>2, <1>2, <1>4 DEF IInv, TurnInv
<1>9. ASSUME NEW p \in Players  PROVE EndOf(p)'
  <2>1. EndOf(p)
    BY DEF IInv, PlayerInv
  <2> QED
    BY <2>1, <1>2 DEF EndOf
<1> QED
  BY <1>5, <1>6, <1>7, <1>8, <1>9 DEF IInv, PlayerInv

\* The end of the game is written to every client.
LEMMA FinishGameKeeps ==
  ASSUME IInv, FinishGame
  PROVE  IInv'
<1>1. PICK out : out = [d \in Connection |-> IF d \in mClients THEN <<"game_finished">> ELSE <<>>]
  OBVIOUS
<1>2. /\ host = "game" /\ ~over /\ over' = TRUE
      /\ host' = host /\ mClients' = mClients /\ named' = named /\ turns' = turns
      /\ asked' = asked /\ seats' = seats /\ ownName' = ownName /\ made' = made
      /\ backlog' = backlog /\ up' = up /\ program' = program /\ Write(out)
  BY <1>1 DEF FinishGame, Broadcast, lobby
<1>3. TypeOK /\ WireInv /\ mClients \subseteq Connection
  BY DEF IInv, TypeOK
<1>4. /\ out \in [Connection -> Seq(Message)]
      /\ \A d \in Connection \ mClients : out[d] = <<>>
      /\ \A d \in Connection : \A j \in DOMAIN out[d] : out[d][j] = "game_finished"
  <2>1. "game_finished" \in Message
    BY DEF Message
  <2> QED
    BY <1>1, <1>3, <2>1, BroadcastIs
<1>5. TypeOK'
  <2>1. /\ down' \in [Connection -> Seq(Symbol \cup {Closed})]
        /\ owed' \in [Connection -> Seq(Message)]
    BY <1>2, <1>3, <1>4, WriteIs
  <2> QED
    BY <1>2, <1>3, <2>1 DEF TypeOK
<1>6. /\ WireInv' /\ PlaceInv' /\ Distinct'
      /\ \A p \in Players : (LinkOf(p) /\ FrameOf(p) /\ ScreenOf(p))'
  <2>1. seats' = IF host' = "game" THEN mClients' ELSE {}
    BY <1>2 DEF IInv, PlaceInv
  <2> QED
    BY <1>2, <1>4, <1>5, <2>1, HostKeeps
<1>7. WelcomeInv' /\ \A p \in Players : (SeatOf(p) /\ NameOf(p))'
  BY <1>2, <1>4, NameKeeps
<1>8. TurnInv'
  <2> SUFFICES ASSUME NEW d \in Connection, NEW i \in DOMAIN owed'[d],
                      owed'[d][i] = "game_finished",
                      NEW j \in DOMAIN owed'[d], j > i, owed'[d][j] = "your_turn"
               PROVE  FALSE
    BY <1>2 DEF TurnInv
  <2>1. /\ i \in Nat /\ j \in Nat
        /\ \A k \in DOMAIN owed[d] : k \in DOMAIN owed'[d] /\ owed'[d][k] = owed[d][k]
        /\ \A k \in DOMAIN owed'[d] :
             \/ k \in DOMAIN owed[d]
             \/ /\ \A l \in DOMAIN owed[d] : l < k
                /\ \E l \in DOMAIN out[d] : owed'[d][k] = out[d][l]
    <3>1. owed'[d] \in Seq(Message)
      BY <1>2, <1>3, <1>4, OwedIs
    <3>2. i \in Nat /\ j \in Nat
      BY <3>1
    <3> QED
      BY <3>2, <1>2, <1>3, <1>4, OwedIs
  <2>2. j \in DOMAIN owed[d]
    BY <2>1, <1>4
  <2>3. i \in DOMAIN owed[d]
    BY <2>1, <2>2
  <2>4. owed[d][i] = "game_finished"
    BY <2>1, <2>3
  <2> QED
    BY <2>3, <2>4, <1>2 DEF IInv, TurnInv
<1>9. ASSUME NEW p \in Players  PROVE EndOf(p)'
  <2>1. EndOf(p)
    BY DEF IInv, PlayerInv
  <2> QED
    BY <2>1, <1>2 DEF EndOf
<1> QED
  BY <1>5, <1>6, <1>7, <1>8, <1>9 DEF IInv, PlayerInv

-----------------------------------------------------------------------------
(* The players' steps.                                                     *)

\* A step of one player leaves the others as they are.
LEMMA OthersKeep ==
  ASSUME IInv, UNCHANGED <<lobby, game>>, NEW p \in Players, NEW x,
         program' = [program EXCEPT ![p] = x],
         \A d \in Connection : d # program[p].link =>
           down'[d] = down[d] /\ owed'[d] = owed[d] /\ up'[d] = up[d],
         backlog \subseteq backlog', backlog' \subseteq backlog \cup {program[p].link},
         backlog' \subseteq Connection, made' \in Nat, made <= made'
  PROVE  \A q \in Players \ {p} : PlayerInv(q)'
<1> SUFFICES ASSUME NEW q \in Players, q # p  PROVE PlayerInv(q)'
  OBVIOUS
<1> DEFINE prog == program[q]
           c == prog.link
<1>1. /\ program'[q] = prog /\ prog \in Program /\ made \in Nat /\ made <= MaxConnections
      /\ mClients' = mClients /\ seats' = seats /\ named' = named /\ ownName' = ownName
      /\ over' = over /\ host' = host
      /\ seats \subseteq Connection /\ mClients \subseteq Connection
  BY BoundsAssumption DEF IInv, TypeOK, lobby, game
<1>2. LinkOf(q) /\ FrameOf(q) /\ ScreenOf(q) /\ SeatOf(q) /\ NameOf(q) /\ EndOf(q)
  BY DEF IInv, PlayerInv
<1>3. c # NoLink =>
        /\ c \in Connection /\ c # program[p].link
        /\ down'[c] = down[c] /\ owed'[c] = owed[c] /\ up'[c] = up[c]
        /\ (c \in backlog' <=> c \in backlog)
  BY <1>1, <1>2, BoundsAssumption DEF IInv, Distinct, LinkOf, Connection, NoLink
<1>4. c = NoLink => prog.socket = "unconnected" /\ c \notin Connection
  BY <1>2 DEF LinkOf, Connection, NoLink
<1>5. LinkOf(q)'
  BY <1>1, <1>2, <1>3, <1>4 DEF LinkOf, Connected
<1>6. FrameOf(q)'
  BY <1>1, <1>2, <1>3, <1>4 DEF FrameOf, Connected
<1>7. ScreenOf(q)'
  BY <1>1, <1>2, <1>3, <1>4 DEF ScreenOf, Connected
<1>8. SeatOf(q)'
  BY <1>1, <1>2, <1>3, <1>4 DEF SeatOf, Connected
<1>9. NameOf(q)'
  <2>1. CASE c = NoLink
    <3>1. c \notin seats' /\ c \notin mClients' \cup backlog'
      BY <2>1, <1>1, <1>4
    <3> QED
      BY <3>1, <1>1 DEF NameOf
  <2>2. CASE c # NoLink
    BY <2>2, <1>1, <1>2, <1>3 DEF NameOf
  <2> QED
    BY <2>1, <2>2
<1>10. EndOf(q)'
  BY <1>1, <1>2, <1>3, <1>4 DEF EndOf, Connected
<1> QED
  BY <1>5, <1>6, <1>7, <1>8, <1>9, <1>10 DEF PlayerInv


\* A step of one player keeps the invariant if it keeps what is said of that player
\* and of its connection, and if the player handles what is owed in order.
LEMMA PlayerKeeps ==
  ASSUME IInv, TypeOK', UNCHANGED <<lobby, game>>, NEW p \in Players, NEW x,
         program' = [program EXCEPT ![p] = x], PlayerInv(p)',
         \A d \in Connection : d # program[p].link =>
           down'[d] = down[d] /\ owed'[d] = owed[d] /\ up'[d] = up[d],
         backlog \subseteq backlog', backlog' \subseteq backlog \cup {program[p].link},
         host = "setup" => backlog' = backlog,
         made <= made', x.link \in {NoLink, program[p].link} \/ x.link > made,
         NEW c, c = program[p].link,
         c # NoLink =>
           /\ \E k \in 0..Len(owed[c]) : owed'[c] = Rest(owed[c], k)
           /\ Bytes(down'[c]) \in Seq(Symbol)
           /\ down'[c] = IF Open(down'[c]) THEN Bytes(down'[c])
                                           ELSE Append(Bytes(down'[c]), Closed)
           /\ c \in backlog' => Bytes(down'[c]) = <<>> /\ owed'[c] = <<>>
  PROVE  IInv'
<1>1. /\ host' = host /\ mClients' = mClients /\ named' = named /\ seats' = seats /\ over' = over
      /\ made \in Nat /\ made' \in Nat /\ made' <= MaxConnections
      /\ backlog' \subseteq Connection /\ backlog \subseteq Connection
      /\ mClients \subseteq Connection
      /\ \A q \in Players : program[q].link \in 0..made /\ program[q].link \in Int
      /\ owed \in [Connection -> Seq(Message)] /\ owed' \in [Connection -> Seq(Message)]
  <2>1. made \in 0..MaxConnections /\ made' \in 0..MaxConnections
    BY DEF IInv, TypeOK
  <2>2. ASSUME NEW q \in Players  PROVE program[q].link \in 0..made
    BY DEF IInv, PlayerInv, LinkOf
  <2> QED
    BY <2>1, <2>2, BoundsAssumption DEF IInv, TypeOK, lobby, game
<1>2. c \in 0..made /\ (c # NoLink => c \in Connection /\ c <= made)
  <2>1. c \in 0..made /\ c \in Int
    BY <1>1
  <2>2. made \in Nat /\ made <= MaxConnections
    BY DEF IInv, TypeOK
  <2> QED
    BY <2>1, <2>2, BoundsAssumption DEF Connection, NoLink
<1>3. \A q \in Players \ {p} : PlayerInv(q)'
  BY <1>1, OthersKeep
<1>4. WireInv'
  <2> SUFFICES ASSUME NEW d \in Connection
               PROVE  /\ Bytes(down'[d]) \in Seq(Symbol)
                      /\ down'[d] = IF Open(down'[d]) THEN Bytes(down'[d])
                                                      ELSE Append(Bytes(down'[d]), Closed)
    BY DEF WireInv
  <2>1. d # NoLink
    BY DEF Connection, NoLink
  <2>2. CASE d = c
    BY <2>1, <2>2
  <2>3. CASE d # c
    <3>1. down'[d] = down[d]
      BY <2>3
    <3> QED
      BY <3>1 DEF IInv, WireInv
  <2> QED
    BY <2>2, <2>3
<1>5. PlaceInv'
  <2>1. /\ host' = "setup" => mClients' = {} /\ backlog' = {}
        /\ seats' = IF host' = "game" THEN mClients' ELSE {}
    BY <1>1 DEF IInv, PlaceInv
  <2>2. ASSUME NEW d \in Connection, d > made'
        PROVE  /\ d \notin mClients' \cup backlog'
               /\ down'[d] = <<>> /\ owed'[d] = <<>> /\ up'[d] = <<>>
    <3>1. d \in Int /\ d > made /\ d # c
      BY <2>2, <1>1, <1>2 DEF Connection
    <3> QED
      BY <3>1, <1>1 DEF IInv, PlaceInv
  <2>3. ASSUME NEW d \in backlog'  PROVE Bytes(down'[d]) = <<>> /\ owed'[d] = <<>>
    <3>1. d \in Connection /\ d # NoLink
      BY <1>1 DEF Connection, NoLink
    <3>2. CASE d = c
      BY <3>1, <3>2
    <3>3. CASE d # c
      <4>1. d \in backlog /\ down'[d] = down[d] /\ owed'[d] = owed[d]
        BY <3>1, <3>3
      <4> QED
        BY <4>1 DEF IInv, PlaceInv
    <3> QED
      BY <3>2, <3>3
  <2> QED
    BY <2>1, <2>2, <2>3 DEF PlaceInv
<1>6. ASSUME NEW d \in Connection
      PROVE  \E k \in Nat : \A i \in DOMAIN owed'[d] :
               i \in Nat /\ k + i \in DOMAIN owed[d] /\ owed'[d][i] = owed[d][k + i]
  <2>1. owed[d] \in Seq(Message) /\ owed'[d] \in Seq(Message) /\ d # NoLink
    BY <1>1 DEF Connection, NoLink
  <2>2. CASE d = c
    <3>1. PICK k \in 0..Len(owed[d]) : owed'[d] = Rest(owed[d], k)
      BY <2>1, <2>2
    <3>2. /\ Len(owed'[d]) = Len(owed[d]) - k
          /\ \A i \in 1..(Len(owed[d]) - k) : owed'[d][i] = owed[d][k + i]
      <4>1. PICK ms : ms = owed[d]
        OBVIOUS
      <4>2. ms \in Seq(Message) /\ k \in 0..Len(ms)
        BY <2>1, <3>1, <4>1
      <4>3. /\ Len(Rest(ms, k)) = Len(ms) - k
            /\ \A i \in 1..(Len(ms) - k) : Rest(ms, k)[i] = ms[k + i]
        BY <4>2, RestIs
      <4> QED
        BY <3>1, <4>1, <4>3
    <3>3. ASSUME NEW i \in DOMAIN owed'[d]
          PROVE  i \in Nat /\ k + i \in DOMAIN owed[d] /\ owed'[d][i] = owed[d][k + i]
      <4>1. i \in 1..(Len(owed[d]) - k) /\ i \in Nat /\ k + i \in 1..Len(owed[d])
        BY <2>1, <3>2
      <4> QED
        BY <4>1, <2>1, <3>2
    <3>4. k \in Nat
      OBVIOUS
    <3> QED
      BY <3>3, <3>4
  <2>3. CASE d # c
    <3>1. owed'[d] = owed[d]
      BY <2>3
    <3>2. \A i \in DOMAIN owed[d] : i \in Nat /\ 0 + i = i
      BY <2>1
    <3> QED
      BY <3>1, <3>2
  <2> QED
    BY <2>2, <2>3
<1>7. WelcomeInv'
  <2> SUFFICES ASSUME host \in {"setup", "lobby"}, NEW d \in (mClients \cup backlog') \ named,
                      NEW i \in DOMAIN owed'[d]
               PROVE  owed'[d][i] # "welcome"
    BY <1>1 DEF WelcomeInv
  <2>1. d \in Connection /\ d # NoLink
    BY <1>1 DEF Connection, NoLink
  <2>2. CASE d \in backlog'
    BY <2>1, <2>2, <1>5 DEF PlaceInv
  <2>3. CASE d \notin backlog'
    <3>1. \A j \in DOMAIN owed[d] : owed[d][j] # "welcome"
      BY <2>3 DEF IInv, WelcomeInv
    <3> QED
      BY <2>1, <3>1, <1>6
  <2> QED
    BY <2>2, <2>3
<1>8. TurnInv'
  <2> SUFFICES ASSUME NEW d \in Connection, NEW i \in DOMAIN owed'[d],
                      owed'[d][i] = "game_finished"
               PROVE  over /\ \A j \in DOMAIN owed'[d] : j > i => owed'[d][j] # "your_turn"
    BY <1>1 DEF TurnInv
  <2>1. PICK k \in Nat : \A j \in DOMAIN owed'[d] :
               j \in Nat /\ k + j \in DOMAIN owed[d] /\ owed'[d][j] = owed[d][k + j]
    BY <1>6
  <2>2. over /\ \A j \in DOMAIN owed[d] : j > k + i => owed[d][j] # "your_turn"
    <3>1. k + i \in DOMAIN owed[d] /\ owed[d][k + i] = "game_finished"
      BY <2>1
    <3> QED
      BY <3>1 DEF IInv, TurnInv
  <2>3. ASSUME NEW j \in DOMAIN owed'[d], j > i  PROVE owed'[d][j] # "your_turn"
    <3>1. k + j \in DOMAIN owed[d] /\ k + j > k + i /\ owed'[d][j] = owed[d][k + j]
      BY <2>1, <2>3
    <3> QED
      BY <3>1, <2>2
  <2> QED
    BY <2>2, <2>3
<1>9. Distinct'
  <2>1. /\ \A q \in Players \ {p} : program'[q] = program[q]
        /\ program'[p] = x
    BY DEF IInv, TypeOK
  <2>2. ASSUME NEW q \in Players \ {p}, x.link # NoLink  PROVE x.link # program[q].link
    <3>1. CASE x.link = c
      BY <3>1, <2>2 DEF IInv, Distinct
    <3>2. CASE x.link > made
      BY <3>2, <1>1
    <3> QED
      BY <2>2, <3>1, <3>2
  <2>3. ASSUME NEW q \in Players, NEW r \in Players, q # r, program'[q].link # NoLink
        PROVE  program'[q].link # program'[r].link
    <3>1. CASE q = p
      BY <2>1, <2>2, <2>3, <3>1
    <3>2. CASE r = p /\ q # p
      <4>1. CASE x.link = NoLink
        BY <2>1, <2>3, <3>2, <4>1
      <4>2. CASE x.link # NoLink
        BY <2>1, <2>2, <3>2, <4>2
      <4> QED
        BY <4>1, <4>2
    <3>3. CASE q # p /\ r # p
      BY <2>1, <2>3, <3>3 DEF IInv, Distinct
    <3> QED
      BY <3>1, <3>2, <3>3
  <2> QED
    BY <2>3 DEF Distinct
<1> QED
  BY <1>3, <1>4, <1>5, <1>7, <1>8, <1>9 DEF IInv

\* A program without a connection needs only a buffer without complete frames.
LEMMA UnlinkedIs ==
  ASSUME TypeOK', NEW p \in Players, program'[p].link = NoLink,
         program'[p].socket = "unconnected", NoLines(program'[p].mBuffer)
  PROVE  (LinkOf(p) /\ FrameOf(p) /\ SeatOf(p) /\ NameOf(p))'
<1>1. /\ NoLink \notin Connection /\ made' \in 0..MaxConnections
      /\ seats' \subseteq Connection /\ mClients' \subseteq Connection
      /\ backlog' \subseteq Connection
  BY DEF TypeOK, Connection, NoLink
<1>2. LinkOf(p)'
  <2>1. NoLink \in 0..made'
    BY <1>1, BoundsAssumption DEF NoLink
  <2> QED
    BY <2>1 DEF LinkOf, Connected
<1>3. FrameOf(p)' /\ SeatOf(p)'
  BY DEF FrameOf, SeatOf, Connected
<1>4. NameOf(p)'
  BY <1>1 DEF NameOf
<1> QED
  BY <1>2, <1>3, <1>4

\* Closing the player's end of its connection drops all that is owed there.
LEMMA CloseLinkIs ==
  ASSUME IInv, NEW p \in Players, NEW n \in 0..Unread(p), CloseLink(p, n),
         NEW c, c = program[p].link
  PROVE  /\ down' \in [Connection -> Seq(Symbol \cup {Closed})]
         /\ owed' \in [Connection -> Seq(Message)]
         /\ up' \in [Connection -> Seq({"hello", "move", Closed})]
         /\ \A d \in Connection : d # c =>
              down'[d] = down[d] /\ owed'[d] = owed[d] /\ up'[d] = up[d]
         /\ c # NoLink =>
              /\ \E k \in 0..Len(owed[c]) : owed'[c] = Rest(owed[c], k)
              /\ Bytes(down'[c]) \in Seq(Symbol)
              /\ down'[c] = IF Open(down'[c]) THEN Bytes(down'[c])
                                              ELSE Append(Bytes(down'[c]), Closed)
              /\ c \in backlog => Bytes(down'[c]) = <<>> /\ owed'[c] = <<>>
<1>1. /\ down \in [Connection -> Seq(Symbol \cup {Closed})]
      /\ owed \in [Connection -> Seq(Message)]
      /\ up \in [Connection -> Seq({"hello", "move", Closed})]
  BY DEF IInv, TypeOK
<1>2. c # NoLink => c \in Connection
  BY BoundsAssumption DEF IInv, TypeOK, PlayerInv, LinkOf, Connection, NoLink
<1>3. CASE ~Connected(program[p])
  <2>1. UNCHANGED <<down, owed, up>>
    BY <1>3 DEF CloseLink
  <2>2. c # NoLink =>
              /\ \E k \in 0..Len(owed[c]) : owed[c] = Rest(owed[c], k)
    <3> SUFFICES ASSUME c # NoLink  PROVE owed[c] = Rest(owed[c], 0) /\ 0 \in 0..Len(owed[c])
      OBVIOUS
    <3>1. owed[c] \in Seq(Message)
      BY <1>1, <1>2
    <3>2. 0 \in 0..Len(owed[c]) /\ 0 + 1 = 1
      BY <3>1
    <3> QED
      BY <3>1, <3>2 DEF Rest
  <2> QED
    BY <2>1, <2>2, <1>1, <1>2 DEF IInv, WireInv, PlaceInv
<1>4. CASE Connected(program[p])
  <2>1. /\ down' = [down EXCEPT ![c] = <<Closed>>]
        /\ owed' = [owed EXCEPT ![c] = <<>>]
        /\ up' = [up EXCEPT ![c] = IF Open(@) THEN Append(SubSeq(@, 1, n), Closed) ELSE @]
    BY <1>4 DEF CloseLink
  <2>2. c \in Connection
    BY <1>2, <1>4 DEF IInv, PlayerInv, LinkOf, Connected
  <2>3. n \in 0..Len(Bytes(up[c]))
    BY <1>4 DEF Unread
  <2>4. <<Closed>> \in Seq(Symbol \cup {Closed}) /\ <<>> \in Seq(Message)
    OBVIOUS
  <2>5. Open(up[c]) =>
          Append(SubSeq(up[c], 1, n), Closed) \in Seq({"hello", "move", Closed})
    <3> SUFFICES ASSUME Open(up[c])
                 PROVE  Append(SubSeq(up[c], 1, n), Closed) \in Seq({"hello", "move", Closed})
      OBVIOUS
    <3>1. up[c] \in Seq({"hello", "move", Closed}) /\ n \in 0..Len(up[c])
      BY <1>1, <2>2, <2>3 DEF Bytes
    <3> QED
      BY <3>1
  <2>6. /\ ~Open(<<Closed>>) /\ Bytes(<<Closed>>) = <<>> /\ <<>> \in Seq(Symbol)
        /\ <<Closed>> = Append(<<>>, Closed)
    <3>1. <<>> \in Seq(Symbol) /\ <<Closed>> = Append(<<>>, Closed)
      OBVIOUS
    <3> QED
      BY <3>1, WireIs
  <2>7. <<>> = Rest(owed[c], Len(owed[c])) /\ Len(owed[c]) \in 0..Len(owed[c])
    <3>1. owed[c] \in Seq(Message)
      BY <1>1, <2>2
    <3>2. Len(owed[c]) \in 0..Len(owed[c])
      BY <3>1
    <3>3. Rest(owed[c], Len(owed[c])) = <<>>
      BY <3>1, <3>2 DEF Rest
    <3> QED
      BY <3>2, <3>3
  <2>8. down'[c] = <<Closed>> /\ owed'[c] = <<>>
    BY <2>1, <2>2, <1>1
  <2>9. up' \in [Connection -> Seq({"hello", "move", Closed})]
    BY <2>1, <2>5, <1>1
  <2>10. /\ down' \in [Connection -> Seq(Symbol \cup {Closed})]
         /\ owed' \in [Connection -> Seq(Message)]
    BY <2>1, <2>4, <1>1
  <2>11. \A d \in Connection : d # c =>
           down'[d] = down[d] /\ owed'[d] = owed[d] /\ up'[d] = up[d]
    BY <2>1, <1>1
  <2> QED
    BY <2>6, <2>7, <2>8, <2>9, <2>10, <2>11
<1> QED
  BY <1>3, <1>4

\* Nothing taken, nothing missing.
LEMMA RestOfAll ==
  ASSUME NEW S, NEW s \in Seq(S)
  PROVE  0 \in 0..Len(s) /\ Rest(s, 0) = s
BY DEF Rest

\* What PlayerKeeps asks of a connection holds if nothing is read there.
LEMMA StreamsStay ==
  ASSUME IInv, NEW p \in Players, UNCHANGED <<down, owed>>, NEW c, c = program[p].link,
         c # NoLink
  PROVE  /\ c \in Connection
         /\ \E k \in 0..Len(owed[c]) : owed'[c] = Rest(owed[c], k)
         /\ Bytes(down'[c]) \in Seq(Symbol)
         /\ down'[c] = IF Open(down'[c]) THEN Bytes(down'[c])
                                         ELSE Append(Bytes(down'[c]), Closed)
         /\ c \in backlog => Bytes(down'[c]) = <<>> /\ owed'[c] = <<>>
<1>1. c \in Connection /\ owed[c] \in Seq(Message)
  <2>1. c \in 0..made /\ made \in 0..MaxConnections
    BY DEF IInv, PlayerInv, LinkOf, TypeOK
  <2>2. c \in Connection
    BY <2>1, BoundsAssumption DEF Connection, NoLink
  <2> QED
    BY <2>2 DEF IInv, TypeOK
<1>2. \E k \in 0..Len(owed[c]) : owed[c] = Rest(owed[c], k)
  <2>1. PICK ms : ms = owed[c]
    OBVIOUS
  <2>2. ms \in Seq(Message)
    BY <1>1, <2>1
  <2>3. 0 \in 0..Len(ms) /\ Rest(ms, 0) = ms
    BY <2>2, RestOfAll
  <2> QED
    BY <2>1, <2>3
<1> QED
  BY <1>1, <1>2 DEF IInv, WireInv, PlaceInv

\* A player has a number of messages still to read.
LEMMA UnreadIs ==
  ASSUME IInv, NEW p \in Players
  PROVE  Unread(p) \in Nat
<1> DEFINE c == program[p].link
<1>1. CASE ~Connected(program[p])
  BY <1>1 DEF Unread
<1>2. CASE Connected(program[p])
  <2>1. c \in Connection
    <3>1. c \in 0..made /\ c # NoLink /\ made \in 0..MaxConnections
      BY <1>2 DEF IInv, PlayerInv, LinkOf, TypeOK, Connected
    <3> QED
      BY <3>1, BoundsAssumption DEF Connection, NoLink
  <2>2. up[c] \in Seq({"hello", "move", Closed})
    BY <2>1 DEF IInv, TypeOK
  <2>3. Open(up[c]) \/ up[c] # <<>>
    BY DEF Open
  <2>4. Bytes(up[c]) \in Seq({"hello", "move", Closed})
    <3>1. CASE Open(up[c])
      BY <2>2, <3>1 DEF Bytes
    <3>2. CASE ~Open(up[c])
      BY <2>2, <2>3, <3>2 DEF Bytes, Front
    <3> QED
      BY <3>1, <3>2
  <2> QED
    BY <1>2, <2>4 DEF Unread
<1> QED
  BY <1>1, <1>2

\* A connection that is made is the host's to accept, and nothing has come yet: what
\* the reader holds is left over from before.
LEMMA ConnectionMadeKeeps ==
  ASSUME IInv, NEW p \in Players, ConnectionMade(p)
  PROVE  IInv'
<1> DEFINE prog == program[p]
           x == [prog EXCEPT !.socket = "connected"]
<1>1. PICK c : c = prog.link
  OBVIOUS
<1>2. /\ prog.socket = "connecting" /\ host \in {"lobby", "game"}
      /\ program' = [program EXCEPT ![p] = x]
      /\ backlog' = backlog \cup {c} /\ up' = [up EXCEPT ![c] = <<"hello">>]
      /\ UNCHANGED <<lobby, game>> /\ made' = made /\ down' = down /\ owed' = owed
  BY <1>1 DEF ConnectionMade
<1>3. prog \in Program /\ PlayerInv(p) /\ TypeOK
  BY DEF IInv, TypeOK
<1>4. /\ c # NoLink /\ c \in 0..made /\ c \notin mClients \cup backlog /\ ~prog.welcomed
      /\ down[c] = <<>> /\ owed[c] = <<>>
  BY <1>1, <1>2, <1>3 DEF PlayerInv, LinkOf
<1>5. c \in Connection
  BY <1>1, <1>4, StreamsStay, <1>2
<1>6. /\ x \in Program /\ program'[p] = x
      /\ x.socket = "connected" /\ x.link = c /\ x.mBuffer = prog.mBuffer
      /\ x.fresh = prog.fresh /\ x.screen = prog.screen /\ x.welcomed = prog.welcomed
      /\ x.mEnded = prog.mEnded /\ x.finished = prog.finished
  BY <1>1, <1>2, <1>3 DEF Program, TypeOK
<1> HIDE DEF x
<1>7. TypeOK'
  <2>1. up' \in [Connection -> Seq({"hello", "move", Closed})]
    <3>1. <<"hello">> \in Seq({"hello", "move", Closed})
      OBVIOUS
    <3> QED
      BY <3>1, <1>2, <1>3 DEF TypeOK
  <2>2. program' \in [Players -> Program]
    BY <1>2, <1>3, <1>6 DEF TypeOK
  <2>3. backlog' \subseteq Connection \ mClients
    BY <1>2, <1>3, <1>4, <1>5 DEF TypeOK
  <2> QED
    BY <1>2, <1>3, <2>1, <2>2, <2>3 DEF TypeOK, lobby, game
<1>8. LinkOf(p)'
  <2>1. Open(up'[c])
    <3>1. up'[c] = <<"hello">>
      BY <1>2, <1>3, <1>5 DEF TypeOK
    <3>2. "hello" # Closed
      BY DEF Closed
    <3> QED
      BY <3>1, <3>2 DEF Open
  <2>2. c \in 0..made'
    BY <1>2, <1>4
  <2> QED
    BY <1>2, <1>4, <1>6, <2>1, <2>2 DEF LinkOf, Connected
<1>9. FrameOf(p)'
  <2> DEFINE junk == Len(prog.mBuffer)
  <2>1. /\ NoLines(prog.mBuffer) /\ (prog.fresh => prog.mBuffer = <<>>)
        /\ prog.mBuffer \in Seq(Symbol)
    BY <1>2, <1>3 DEF PlayerInv, FrameOf, Program
  <2>2. junk \in 0..Len(prog.mBuffer) /\ (prog.fresh => junk = 0)
    BY <2>1
  <2>3. Open(down'[c]) /\ Bytes(down'[c]) = <<>>
    BY <1>2, <1>4 DEF Open, Bytes
  <2>4. Framed(prog.mBuffer, <<>>, junk, <<>>)
    BY <2>1 DEF Framed
  <2>5. Len(prog.mBuffer) + Len(<<>>) = junk + 2 * Len(<<>>)
    BY <2>1
  <2> HIDE DEF junk
  <2>6. owed'[c] = <<>>
    BY <1>2, <1>4
  <2>7. \E j \in 0..Len(prog.mBuffer) :
          /\ Framed(prog.mBuffer, Bytes(down'[c]), j, owed'[c])
          /\ Open(down'[c]) =>
               Len(prog.mBuffer) + Len(Bytes(down'[c])) = j + 2 * Len(owed'[c])
          /\ prog.fresh => j = 0
    BY <2>2, <2>3, <2>4, <2>5, <2>6
  <2> QED
    BY <2>1, <2>7, <1>6 DEF FrameOf
<1>10. ScreenOf(p)' /\ EndOf(p)'
  <2>1. prog.screen = "dialog" /\ ~prog.mEnded /\ ~prog.finished
    BY <1>2, <1>3 DEF PlayerInv, ScreenOf
  <2> QED
    BY <2>1, <1>6 DEF ScreenOf, EndOf
<1>11. SeatOf(p)' /\ NameOf(p)'
  <2>1. c \notin seats'
    BY <1>2, <1>3, <1>4 DEF TypeOK, game
  <2> QED
    BY <2>1, <1>4, <1>6 DEF SeatOf, NameOf
<1>12. PlayerInv(p)'
  BY <1>8, <1>9, <1>10, <1>11 DEF PlayerInv
<1>13. /\ \E k \in 0..Len(owed[c]) : owed'[c] = Rest(owed[c], k)
       /\ Bytes(down'[c]) \in Seq(Symbol)
       /\ down'[c] = IF Open(down'[c]) THEN Bytes(down'[c])
                                       ELSE Append(Bytes(down'[c]), Closed)
       /\ c \in backlog' => Bytes(down'[c]) = <<>> /\ owed'[c] = <<>>
  <2>1. /\ \E k \in 0..Len(owed[c]) : owed'[c] = Rest(owed[c], k)
        /\ Bytes(down'[c]) \in Seq(Symbol)
        /\ down'[c] = IF Open(down'[c]) THEN Bytes(down'[c])
                                        ELSE Append(Bytes(down'[c]), Closed)
    BY <1>1, <1>2, <1>4, StreamsStay
  <2>2. Bytes(down'[c]) = <<>> /\ owed'[c] = <<>>
    BY <1>2, <1>4 DEF Open, Bytes
  <2> QED
    BY <2>1, <2>2
<1>14. /\ \A d \in Connection : d # program[p].link =>
            down'[d] = down[d] /\ owed'[d] = owed[d] /\ up'[d] = up[d]
       /\ backlog \subseteq backlog' /\ backlog' \subseteq backlog \cup {program[p].link}
       /\ host # "setup" /\ made <= made' /\ x.link \in {NoLink, program[p].link}
  BY <1>1, <1>2, <1>3, <1>6 DEF TypeOK
<1> HIDE DEF prog
<1> QED
  BY <1>1, <1>2, <1>7, <1>12, <1>13, <1>14, PlayerKeeps DEF prog

\* A connection that fails leaves the player without one.
LEMMA ConnectionFailsKeeps ==
  ASSUME IInv, NEW p \in Players, ConnectionFails(p)
  PROVE  IInv'
<1> DEFINE prog == program[p]
           x == onSocketError(prog)
<1>1. PICK c : c = prog.link
  OBVIOUS
<1>2. /\ prog.socket = "connecting" /\ program' = [program EXCEPT ![p] = x]
      /\ UNCHANGED <<lobby, game>> /\ made' = made /\ backlog' = backlog
      /\ down' = down /\ owed' = owed /\ up' = up
  BY DEF ConnectionFails, network
<1>3. prog \in Program /\ PlayerInv(p) /\ TypeOK
  BY DEF IInv, TypeOK
<1>4. /\ x \in Program /\ program'[p] = x
      /\ x.socket = "unconnected" /\ x.link = NoLink /\ x.mBuffer = prog.mBuffer
      /\ x.screen = prog.screen /\ x.mEnded = prog.mEnded /\ x.finished = prog.finished
  BY <1>2, <1>3 DEF Program, TypeOK, onSocketError, NoLink
<1> HIDE DEF x
<1>5. TypeOK'
  BY <1>2, <1>3, <1>4 DEF TypeOK, lobby, game
<1>6. (LinkOf(p) /\ FrameOf(p) /\ SeatOf(p) /\ NameOf(p))'
  BY <1>3, <1>4, <1>5, UnlinkedIs DEF PlayerInv, FrameOf
<1>7. ScreenOf(p)' /\ EndOf(p)'
  BY <1>2, <1>3, <1>4 DEF PlayerInv, ScreenOf, EndOf, Connected
<1>8. PlayerInv(p)'
  BY <1>6, <1>7 DEF PlayerInv
<1>9. c # NoLink =>
        /\ \E k \in 0..Len(owed[c]) : owed'[c] = Rest(owed[c], k)
        /\ Bytes(down'[c]) \in Seq(Symbol)
        /\ down'[c] = IF Open(down'[c]) THEN Bytes(down'[c])
                                        ELSE Append(Bytes(down'[c]), Closed)
        /\ c \in backlog' => Bytes(down'[c]) = <<>> /\ owed'[c] = <<>>
  BY <1>1, <1>2, StreamsStay
<1>10. made <= made'
  BY <1>2, <1>3 DEF TypeOK
<1> HIDE DEF prog
<1> QED
  BY <1>1, <1>2, <1>4, <1>5, <1>8, <1>9, <1>10, PlayerKeeps DEF prog

\* A new connection is one that nothing has happened to.
LEMMA ClickConnectKeeps ==
  ASSUME IInv, NEW p \in Players, ClickConnect(p)
  PROVE  IInv'
<1> DEFINE prog == program[p]
           x == connectToHost(prog, made + 1)
<1>1. PICK c : c = prog.link
  OBVIOUS
<1>2. /\ prog.screen = "dialog" /\ made < MaxConnections /\ made' = made + 1
      /\ program' = [program EXCEPT ![p] = x]
      /\ UNCHANGED <<lobby, game>> /\ backlog' = backlog
      /\ down' = down /\ owed' = owed /\ up' = up
  BY DEF ClickConnect
<1>3. prog \in Program /\ PlayerInv(p) /\ TypeOK /\ made \in Nat
  BY DEF IInv, TypeOK
<1>4. /\ x \in Program /\ program'[p] = x
      /\ x.socket = "connecting" /\ x.link = made + 1 /\ x.mBuffer = prog.mBuffer
      /\ (x.fresh => prog.mBuffer = <<>>) /\ x.screen = "dialog" /\ ~x.welcomed
      /\ x.mEnded = prog.mEnded /\ x.finished = prog.finished
  <2>1. PICK e \in BOOLEAN : e <=> prog.mBuffer = <<>>
    OBVIOUS
  <2>2. x = [prog EXCEPT !.canConnect = FALSE, !.welcomed = FALSE, !.socket = "connecting",
                         !.link = made + 1, !.fresh = e, !.missed = {}]
    <3>1. e = (prog.mBuffer = <<>>)
      BY <2>1
    <3> QED
      BY <3>1 DEF connectToHost
  <2>3. program'[p] = x
    BY <1>2, <1>3 DEF TypeOK
  <2> HIDE DEF x
  <2>4. /\ x \in Program /\ x.socket = "connecting" /\ x.link = made + 1
        /\ x.mBuffer = prog.mBuffer /\ x.screen = prog.screen
        /\ x.mEnded = prog.mEnded /\ x.finished = prog.finished
    <3>1. PICK y \in Program : y = prog
      BY <1>3
    <3>2. PICK n \in Nat : n = made + 1
      BY <1>3
    <3> DEFINE z == [y EXCEPT !.canConnect = FALSE, !.welcomed = FALSE,
                              !.socket = "connecting", !.link = n, !.fresh = e, !.missed = {}]
    <3>3. z \in Program
      BY <2>1, <3>1, <3>2 DEF Program
    <3>4. /\ z.socket = "connecting" /\ z.link = n /\ z.mBuffer = y.mBuffer
          /\ z.screen = y.screen /\ z.mEnded = y.mEnded /\ z.finished = y.finished
      BY <3>1 DEF Program
    <3>5. z = x
      BY <2>2, <3>1, <3>2
    <3> HIDE DEF z
    <3> QED
      BY <3>1, <3>2, <3>3, <3>4, <3>5
  <2>5. (x.fresh => e) /\ ~x.welcomed
    BY <2>2, <1>3 DEF Program
  <2> QED
    BY <2>1, <2>3, <2>4, <2>5, <1>2
<1> HIDE DEF x
<1>5. made + 1 \in Connection /\ made' \in 0..MaxConnections
  BY <1>2, <1>3, BoundsAssumption DEF Connection
<1>6. TypeOK'
  <2>1. program' \in [Players -> Program]
    BY <1>2, <1>3, <1>4 DEF TypeOK
  <2> QED
    BY <1>2, <1>3, <1>5, <2>1 DEF TypeOK, lobby, game
<1>7. /\ made + 1 \notin mClients \cup backlog
      /\ down[made + 1] = <<>> /\ owed[made + 1] = <<>> /\ up[made + 1] = <<>>
  BY <1>3, <1>5 DEF IInv, PlaceInv
<1>8. LinkOf(p)'
  <2>1. made + 1 \in 0..made' /\ made + 1 # NoLink
    BY <1>2, <1>3 DEF NoLink
  <2> QED
    BY <2>1, <1>2, <1>4, <1>7 DEF LinkOf, Connected, lobby
<1>9. FrameOf(p)'
  BY <1>3, <1>4 DEF PlayerInv, FrameOf, Connected
<1>10. ScreenOf(p)' /\ EndOf(p)'
  BY <1>2, <1>3, <1>4 DEF PlayerInv, ScreenOf, EndOf, Connected
<1>11. SeatOf(p)' /\ NameOf(p)'
  <2>1. made + 1 \notin seats'
    BY <1>2, <1>3, <1>7 DEF TypeOK, game
  <2> QED
    BY <2>1, <1>4 DEF SeatOf, NameOf, Connected
<1>12. PlayerInv(p)'
  BY <1>8, <1>9, <1>10, <1>11 DEF PlayerInv
<1>13. c # NoLink =>
        /\ \E k \in 0..Len(owed[c]) : owed'[c] = Rest(owed[c], k)
        /\ Bytes(down'[c]) \in Seq(Symbol)
        /\ down'[c] = IF Open(down'[c]) THEN Bytes(down'[c])
                                        ELSE Append(Bytes(down'[c]), Closed)
        /\ c \in backlog' => Bytes(down'[c]) = <<>> /\ owed'[c] = <<>>
  BY <1>1, <1>2, StreamsStay
<1>14. made <= made' /\ x.link > made
  BY <1>2, <1>3, <1>4
<1> HIDE DEF prog
<1> QED
  BY <1>1, <1>2, <1>4, <1>6, <1>12, <1>13, <1>14, PlayerKeeps DEF prog

\* A move is offered only before the session has ended.
LEMMA ClickMoveKeeps ==
  ASSUME IInv, NEW p \in Players, ClickMove(p)
  PROVE  IInv'
<1> DEFINE prog == program[p]
           x == pushMove(prog)
<1>1. PICK c : c = prog.link
  OBVIOUS
<1>2. /\ prog.screen = "window" /\ prog.mState = "AwaitingMove"
      /\ program' = [program EXCEPT ![p] = x]
      /\ up' = IF Connected(prog) /\ Open(up[c]) THEN [up EXCEPT ![c] = Append(@, "move")]
                                                 ELSE up
      /\ UNCHANGED <<lobby, game>> /\ backlog' = backlog /\ made' = made
      /\ down' = down /\ owed' = owed
  BY <1>1 DEF ClickMove
<1>3. prog \in Program /\ PlayerInv(p) /\ TypeOK
  BY DEF IInv, TypeOK
<1>4. /\ x \in Program /\ program'[p] = x
      /\ x.socket = prog.socket /\ x.link = prog.link /\ x.mBuffer = prog.mBuffer
      /\ x.fresh = prog.fresh /\ x.screen = prog.screen /\ x.welcomed = prog.welcomed
      /\ x.mEnded = prog.mEnded /\ x.finished = prog.finished /\ x.missed = prog.missed
  BY <1>2, <1>3 DEF Program, TypeOK, pushMove
<1> HIDE DEF x
<1>5. Connected(prog) => c \in Connection
  BY <1>1, <1>2, <1>3, StreamsStay DEF PlayerInv, LinkOf, Connected
<1>6. up' \in [Connection -> Seq({"hello", "move", Closed})]
  BY <1>2, <1>3, <1>5 DEF TypeOK
<1>7. TypeOK'
  <2>1. program' \in [Players -> Program]
    BY <1>2, <1>3, <1>4 DEF TypeOK
  <2> QED
    BY <1>2, <1>3, <1>6, <2>1 DEF TypeOK, lobby, game
<1>8. LinkOf(p)'
  <2>1. Connected(prog) /\ Open(up[c]) => Open(up'[c])
    <3> SUFFICES ASSUME Connected(prog), Open(up[c])  PROVE Open(up'[c])
      OBVIOUS
    <3>1. up[c] \in Seq({"hello", "move", Closed}) /\ up'[c] = Append(up[c], "move")
      BY <1>2, <1>3, <1>5 DEF TypeOK
    <3>2. /\ \A i \in 1..Len(up[c]) : Append(up[c], "move")[i] = up[c][i]
          /\ Append(up[c], "move")[Len(up[c]) + 1] = "move"
          /\ DOMAIN Append(up[c], "move") = 1..(Len(up[c]) + 1)
          /\ Len(up[c]) \in Nat /\ DOMAIN up[c] = 1..Len(up[c])
      BY <3>1
    <3>3. "move" # Closed
      BY DEF Closed
    <3> QED
      BY <3>1, <3>2, <3>3 DEF Open
  <2>2. prog.socket # "connecting"
    BY <1>2, <1>3 DEF PlayerInv, ScreenOf
  <2> QED
    BY <2>1, <2>2, <1>1, <1>2, <1>3, <1>4 DEF PlayerInv, LinkOf, Connected, lobby
<1>9. FrameOf(p)'
  BY <1>2, <1>3, <1>4 DEF PlayerInv, FrameOf, Connected
<1>10. ScreenOf(p)' /\ SeatOf(p)' /\ NameOf(p)'
  BY <1>2, <1>3, <1>4 DEF PlayerInv, ScreenOf, SeatOf, NameOf, Connected
<1>11. EndOf(p)'
  BY <1>2, <1>3, <1>4 DEF PlayerInv, EndOf
<1>12. PlayerInv(p)'
  BY <1>8, <1>9, <1>10, <1>11 DEF PlayerInv
<1>13. c # NoLink =>
        /\ \E k \in 0..Len(owed[c]) : owed'[c] = Rest(owed[c], k)
        /\ Bytes(down'[c]) \in Seq(Symbol)
        /\ down'[c] = IF Open(down'[c]) THEN Bytes(down'[c])
                                        ELSE Append(Bytes(down'[c]), Closed)
        /\ c \in backlog' => Bytes(down'[c]) = <<>> /\ owed'[c] = <<>>
  BY <1>1, <1>2, StreamsStay
<1>14. /\ made <= made' /\ x.link = c
       /\ \A d \in Connection : d # program[p].link => up'[d] = up[d]
  BY <1>1, <1>2, <1>3, <1>4 DEF TypeOK
<1> HIDE DEF prog
<1> QED
  BY <1>1, <1>2, <1>4, <1>7, <1>12, <1>13, <1>14, PlayerKeeps DEF prog

\* What is closed at the player's end concerns no screen any more.
LEMMA ClosingKeeps ==
  ASSUME IInv, NEW p \in Players, NEW x \in Program, NEW n \in 0..Unread(p),
         CloseLink(p, n), program' = [program EXCEPT ![p] = x],
         UNCHANGED <<lobby, game>>, made' = made, backlog' = backlog,
         x.socket = "unconnected", x.link = NoLink, NoLines(x.mBuffer),
         ScreenOf(p)', EndOf(p)'
  PROVE  IInv'
<1>1. PICK c : c = program[p].link
  OBVIOUS
<1>2. TypeOK /\ program'[p] = x
  BY DEF IInv, TypeOK
<1>3. /\ down' \in [Connection -> Seq(Symbol \cup {Closed})]
      /\ owed' \in [Connection -> Seq(Message)]
      /\ up' \in [Connection -> Seq({"hello", "move", Closed})]
      /\ \A d \in Connection : d # c =>
           down'[d] = down[d] /\ owed'[d] = owed[d] /\ up'[d] = up[d]
      /\ c # NoLink =>
           /\ \E k \in 0..Len(owed[c]) : owed'[c] = Rest(owed[c], k)
           /\ Bytes(down'[c]) \in Seq(Symbol)
           /\ down'[c] = IF Open(down'[c]) THEN Bytes(down'[c])
                                           ELSE Append(Bytes(down'[c]), Closed)
           /\ c \in backlog' => Bytes(down'[c]) = <<>> /\ owed'[c] = <<>>
  BY <1>1, CloseLinkIs
<1>4. TypeOK'
  <2>1. program' \in [Players -> Program]
    BY <1>2 DEF TypeOK
  <2> QED
    BY <1>2, <1>3, <2>1 DEF TypeOK, lobby, game
<1>5. PlayerInv(p)'
  BY <1>2, <1>4, UnlinkedIs DEF PlayerInv
<1>6. made <= made'
  BY <1>2 DEF TypeOK
<1> QED
  BY <1>1, <1>3, <1>4, <1>5, <1>6, PlayerKeeps

\* The player notices that its connection is gone: its session, if any, has ended.
LEMMA OnDisconnectKeeps ==
  ASSUME IInv, NEW p \in Players, OnDisconnect(p)
  PROVE  IInv'
<1> DEFINE prog == program[p]
           x == onDisconnected(prog)
<1>1. /\ Connected(prog) /\ program' = [program EXCEPT ![p] = x] /\ CloseLink(p, 0)
      /\ UNCHANGED <<lobby, game>> /\ made' = made /\ backlog' = backlog
  BY DEF OnDisconnect
<1>2. prog \in Program /\ PlayerInv(p) /\ 0 \in 0..Unread(p)
  BY UnreadIs DEF IInv, TypeOK
<1>3. /\ x \in Program /\ program'[p] = x
      /\ x.socket = "unconnected" /\ x.link = NoLink /\ x.mBuffer = prog.mBuffer
      /\ x.screen = prog.screen /\ x.finished = prog.finished
      /\ prog.screen = "dialog" => x.mEnded = prog.mEnded
      /\ prog.screen # "dialog" =>
           x.mEnded /\ x.mState = IF prog.mEnded THEN prog.mState ELSE "GameOver"
  BY <1>1, <1>2 DEF IInv, TypeOK, Program, onDisconnected, onSocketError, NoLink
<1> HIDE DEF x
<1>4. NoLines(x.mBuffer)
  BY <1>2, <1>3 DEF PlayerInv, FrameOf
<1>5. ScreenOf(p)' /\ EndOf(p)'
  BY <1>1, <1>2, <1>3 DEF PlayerInv, ScreenOf, EndOf, Connected
<1> QED
  BY <1>1, <1>2, <1>3, <1>4, <1>5, ClosingKeeps

\* Finish ends the session on the player's side.
LEMMA ClickFinishKeeps ==
  ASSUME IInv, NEW p \in Players, ClickFinish(p)
  PROVE  IInv'
<1> DEFINE prog == program[p]
           x == onPrimaryButton(prog)
<1>1. /\ prog.screen = "window" /\ program' = [program EXCEPT ![p] = x]
      /\ CloseLink(p, Unread(p))
      /\ UNCHANGED <<lobby, game>> /\ made' = made /\ backlog' = backlog
  BY DEF ClickFinish
<1>2. prog \in Program /\ PlayerInv(p) /\ Unread(p) \in 0..Unread(p)
  BY UnreadIs DEF IInv, TypeOK
<1>3. /\ x \in Program /\ program'[p] = x
      /\ x.socket = "unconnected" /\ x.link = NoLink /\ x.mBuffer = prog.mBuffer
      /\ x.screen = prog.screen /\ x.finished /\ x.mEnded /\ x.mState = "Waiting"
  BY <1>1, <1>2 DEF IInv, TypeOK, Program, onPrimaryButton, requestFinish,
                    disconnectFromHost, NoLink
<1> HIDE DEF x
<1>4. NoLines(x.mBuffer)
  BY <1>2, <1>3 DEF PlayerInv, FrameOf
<1>5. ScreenOf(p)' /\ EndOf(p)'
  BY <1>1, <1>3 DEF ScreenOf, EndOf, Connected
<1> QED
  BY <1>1, <1>2, <1>3, <1>4, <1>5, ClosingKeeps

\* A player who quits closes its end of the connection.
LEMMA QuitKeeps ==
  ASSUME IInv, NEW p \in Players, Quit(p)
  PROVE  IInv'
<1> DEFINE x == quit(program[p])
<1>1. /\ program' = [program EXCEPT ![p] = x]
      /\ UNCHANGED <<lobby, game>> /\ made' = made /\ backlog' = backlog
  BY DEF Quit
<1>2. PICK n \in 0..Unread(p) : CloseLink(p, n)
  BY UnreadIs DEF Quit
<1>3. /\ x \in Program /\ program'[p] = x
      /\ x.socket = "unconnected" /\ x.link = NoLink /\ x.mBuffer = <<>>
      /\ x.screen = "gone" /\ ~x.finished
  <2>1. JoinDialog \in Program /\ JoinDialog.mBuffer = <<>> /\ ~JoinDialog.finished
    <3>1. <<>> \in Seq(Symbol) /\ 0 \in Nat
      OBVIOUS
    <3> QED
      BY <3>1 DEF JoinDialog, Program, NoLink
  <2>2. /\ x \in Program /\ x.socket = "unconnected" /\ x.link = NoLink
        /\ x.mBuffer = JoinDialog.mBuffer /\ x.finished = JoinDialog.finished
        /\ x.screen = "gone"
    BY <2>1 DEF quit, disconnectFromHost, Program, NoLink
  <2>3. program'[p] = x
    BY <1>1 DEF IInv, TypeOK
  <2> QED
    BY <2>1, <2>2, <2>3
<1> HIDE DEF x
<1>4. NoLines(x.mBuffer)
  BY <1>3 DEF NoLines
<1>5. ScreenOf(p)' /\ EndOf(p)'
  BY <1>1, <1>3 DEF ScreenOf, EndOf, Connected
<1> QED
  BY <1>1, <1>2, <1>3, <1>4, <1>5, ClosingKeeps

\* Fewer bytes of the same messages.
LEMMA FramedLess ==
  ASSUME NEW buffer \in Seq(Symbol), NEW b \in Seq(Symbol), NEW n \in 0..Len(b),
         NEW junk \in Nat, NEW ms \in Seq(Message), Framed(buffer, b, junk, ms)
  PROVE  SubSeq(b, 1, n) \in Seq(Symbol) /\ Framed(buffer, SubSeq(b, 1, n), junk, ms)
<1> DEFINE L == Len(buffer)
           bytes == SubSeq(b, 1, n)
           all == buffer \o b
           near == buffer \o bytes
<1>1. bytes \in Seq(Symbol) /\ Len(bytes) = n /\ \A i \in 1..n : bytes[i] = b[i]
  OBVIOUS
<1> HIDE DEF bytes
<1>2. /\ L \in Nat /\ n \in Nat /\ n <= Len(b) /\ Len(b) \in Nat /\ Len(ms) \in Nat
      /\ near \in Seq(Symbol) /\ Len(near) = L + n
      /\ all \in Seq(Symbol) /\ Len(all) = L + Len(b)
  <2>1. L \in Nat /\ n \in Nat /\ n <= Len(b) /\ Len(b) \in Nat /\ Len(ms) \in Nat
    OBVIOUS
  <2>2. near \in Seq(Symbol) /\ Len(near) = L + Len(bytes)
    <3>1. bytes \in Seq(Symbol)
      BY <1>1
    <3> QED
      BY <3>1, ConcatProperties
  <2>3. all \in Seq(Symbol) /\ Len(all) = L + Len(b)
    OBVIOUS
  <2> QED
    BY <2>1, <2>2, <2>3, <1>1
<1>3. \A i \in 1..(L + n) : near[i] = all[i]
  <2> SUFFICES ASSUME NEW i \in 1..(L + n)  PROVE near[i] = all[i]
    OBVIOUS
  <2>1. CASE i <= L
    <3>1. near[i] = buffer[i] /\ all[i] = buffer[i]
      BY <2>1, <1>1, <1>2
    <3> QED
      BY <3>1
  <2>2. CASE ~(i <= L)
    <3> DEFINE j == i - L
    <3>1. j \in 1..n /\ L + j = i
      BY <2>2, <1>2
    <3>2. near[i] = bytes[j] /\ all[i] = b[j]
      BY <2>2, <3>1, <1>1, <1>2
    <3> QED
      BY <3>1, <3>2, <1>1
  <2> QED
    BY <2>1, <2>2
<1>4. /\ junk <= L /\ Len(all) <= junk + 2 * Len(ms)
      /\ \A k \in 1..Len(ms) : /\ junk + 2 * k - 1 <= Len(all) => all[junk + 2 * k - 1] = ms[k]
                               /\ junk + 2 * k <= Len(all) => all[junk + 2 * k] = NewLine
  BY DEF Framed
<1> HIDE DEF all, near, L
<1>5. ASSUME NEW k \in 1..Len(ms)
      PROVE  /\ junk + 2 * k - 1 <= Len(near) => near[junk + 2 * k - 1] = ms[k]
             /\ junk + 2 * k <= Len(near) => near[junk + 2 * k] = NewLine
  <2>1. ASSUME junk + 2 * k - 1 <= Len(near)  PROVE near[junk + 2 * k - 1] = ms[k]
    <3>1. junk + 2 * k - 1 \in 1..(L + n) /\ junk + 2 * k - 1 <= Len(all)
      BY <2>1, <1>2
    <3> QED
      BY <3>1, <1>3, <1>4
  <2>2. ASSUME junk + 2 * k <= Len(near)  PROVE near[junk + 2 * k] = NewLine
    <3>1. junk + 2 * k \in 1..(L + n) /\ junk + 2 * k <= Len(all)
      BY <2>2, <1>2
    <3> QED
      BY <3>1, <1>3, <1>4
  <2> QED
    BY <2>1, <2>2
<1>6. junk <= L /\ Len(near) <= junk + 2 * Len(ms)
  BY <1>2, <1>4
<1> QED
  BY <1>1, <1>5, <1>6 DEF Framed, L, near, bytes

\* A connection that breaks loses what is in flight, and says no more.
LEMMA BreakKeeps ==
  ASSUME IInv, NEW p \in Players, Break(p)
  PROVE  IInv'
<1>1. PICK prog, c : prog = program[p] /\ c = prog.link
  OBVIOUS
<1>2. PICK b : b = down[c]
  OBVIOUS
<1>3. /\ Connected(prog) /\ Open(b)
      /\ UNCHANGED <<lobby, game>> /\ made' = made /\ backlog' = backlog
      /\ owed' = owed /\ program' = program
  BY <1>1, <1>2 DEF Break
<1>4. PICK n \in 0..Len(b) : down' = [down EXCEPT ![c] = Append(SubSeq(@, 1, n), Closed)]
  BY <1>1, <1>2 DEF Break
<1>5. PICK m \in {0, Len(up[c])} : up' = [up EXCEPT ![c] = Append(SubSeq(@, 1, m), Closed)]
  BY <1>1 DEF Break
<1>6. TypeOK /\ PlayerInv(p) /\ prog \in Program
  BY <1>1 DEF IInv, TypeOK
<1>7. c \in Connection /\ c # NoLink
  <2>1. c \in 0..made /\ c # NoLink /\ made \in 0..MaxConnections
    BY <1>1, <1>3, <1>6 DEF PlayerInv, LinkOf, TypeOK, Connected
  <2> QED
    BY <2>1, BoundsAssumption DEF Connection, NoLink
<1>8. b \in Seq(Symbol) /\ Bytes(down[c]) = b
  BY <1>2, <1>3, <1>7 DEF IInv, WireInv, Bytes
<1>9. PICK less : less = SubSeq(b, 1, n)
  OBVIOUS
<1>10. less \in Seq(Symbol) /\ (b = <<>> => less = <<>>)
  BY <1>8, <1>9
<1>11. down'[c] = Append(less, Closed)
  BY <1>2, <1>4, <1>6, <1>7, <1>9 DEF TypeOK
<1>12. ~Open(down'[c]) /\ Bytes(down'[c]) = less
  BY <1>10, <1>11, WireIs
<1>13. TypeOK'
  <2>1. Append(less, Closed) \in Seq(Symbol \cup {Closed})
    BY <1>10
  <2>2. down' \in [Connection -> Seq(Symbol \cup {Closed})]
    BY <2>1, <1>2, <1>4, <1>6, <1>9 DEF TypeOK
  <2>3. Append(SubSeq(up[c], 1, m), Closed) \in Seq({"hello", "move", Closed})
    <3>1. up[c] \in Seq({"hello", "move", Closed})
      BY <1>6, <1>7 DEF TypeOK
    <3>2. m \in 0..Len(up[c])
      BY <3>1, <1>5
    <3> QED
      BY <3>1, <3>2
  <2>4. up' \in [Connection -> Seq({"hello", "move", Closed})]
    BY <2>3, <1>5, <1>6 DEF TypeOK
  <2> QED
    BY <2>2, <2>4, <1>3, <1>6 DEF TypeOK, lobby, game
<1>14. FrameOf(p)'
  <2>1. /\ NoLines(prog.mBuffer) /\ prog.mBuffer \in Seq(Symbol)
        /\ prog.socket = "connecting" /\ prog.fresh => prog.mBuffer = <<>>
    BY <1>1, <1>6 DEF PlayerInv, FrameOf, Program
  <2>2. PICK ms : ms = owed[c]
    OBVIOUS
  <2>3. ms \in Seq(Message)
    BY <2>2, <1>6, <1>7 DEF TypeOK
  <2>4. PICK junk \in 0..Len(prog.mBuffer) :
          Framed(prog.mBuffer, b, junk, ms) /\ (prog.fresh => junk = 0)
    BY <1>1, <1>3, <1>6, <1>8, <2>2 DEF PlayerInv, FrameOf
  <2>5. Framed(prog.mBuffer, less, junk, ms)
    <3>1. junk \in Nat
      BY <2>1
    <3> QED
      BY <3>1, <2>1, <2>3, <2>4, <1>8, <1>9, FramedLess
  <2> QED
    BY <2>1, <2>2, <2>4, <2>5, <1>1, <1>3, <1>12 DEF FrameOf
<1>15. LinkOf(p)' /\ ScreenOf(p)' /\ SeatOf(p)' /\ NameOf(p)' /\ EndOf(p)'
  <2>1. LinkOf(p)'
    BY <1>1, <1>3, <1>6, <1>12 DEF PlayerInv, LinkOf, Connected, lobby
  <2>2. ScreenOf(p)' /\ SeatOf(p)' /\ EndOf(p)'
    BY <1>1, <1>3, <1>6, <1>12 DEF PlayerInv, ScreenOf, SeatOf, EndOf, game
  <2>3. NameOf(p)'
    BY <1>3, <1>6 DEF PlayerInv, NameOf, lobby, game
  <2> QED
    BY <2>1, <2>2, <2>3
<1>16. PlayerInv(p)'
  BY <1>14, <1>15 DEF PlayerInv
<1>17. /\ \E k \in 0..Len(owed[c]) : owed'[c] = Rest(owed[c], k)
       /\ Bytes(down'[c]) \in Seq(Symbol)
       /\ down'[c] = IF Open(down'[c]) THEN Bytes(down'[c])
                                       ELSE Append(Bytes(down'[c]), Closed)
       /\ c \in backlog' => Bytes(down'[c]) = <<>> /\ owed'[c] = <<>>
  <2>1. PICK ms : ms = owed[c]
    OBVIOUS
  <2>2. ms \in Seq(Message)
    BY <2>1, <1>6, <1>7 DEF TypeOK
  <2>3. 0 \in 0..Len(ms) /\ Rest(ms, 0) = ms
    BY <2>2, RestOfAll
  <2>4. \E k \in 0..Len(owed[c]) : owed'[c] = Rest(owed[c], k)
    BY <2>1, <2>3, <1>3
  <2>5. c \in backlog' => Bytes(down'[c]) = <<>> /\ owed'[c] = <<>>
    BY <1>3, <1>8, <1>10, <1>12 DEF IInv, PlaceInv
  <2> QED
    BY <2>4, <2>5, <1>10, <1>11, <1>12
<1>18. /\ program' = [program EXCEPT ![p] = prog] /\ prog.link \in {NoLink, program[p].link}
       /\ \A d \in Connection : d # program[p].link =>
            down'[d] = down[d] /\ owed'[d] = owed[d] /\ up'[d] = up[d]
       /\ made <= made' /\ c = program[p].link
  BY <1>1, <1>3, <1>4, <1>5, <1>6 DEF TypeOK
<1> QED
  BY <1>3, <1>13, <1>16, <1>17, <1>18, PlayerKeeps

\* The first bytes of a stream, and what is left of it.
LEMMA StreamIs ==
  ASSUME NEW b \in Seq(Symbol), NEW n \in 1..Len(b), NEW s, s = b \/ s = Append(b, Closed)
  PROVE  /\ SubSeq(s, 1, n) = SubSeq(b, 1, n)
         /\ Rest(s, n) = IF s = b THEN Rest(b, n) ELSE Append(Rest(b, n), Closed)
         /\ Rest(b, n) \in Seq(Symbol)
<1>1. Rest(b, n) \in Seq(Symbol) /\ Len(Rest(b, n)) = Len(b) - n
      /\ \A i \in 1..(Len(b) - n) : Rest(b, n)[i] = b[n + i]
  <2>1. n \in 0..Len(b)
    OBVIOUS
  <2> QED
    BY <2>1, RestIs
<1>2. CASE s = b
  BY <1>1, <1>2
<1>3. CASE s # b
  <2> DEFINE S == Symbol \cup {Closed}
             r == Rest(b, n)
             t == Append(r, Closed)
  <2>1. s = Append(b, Closed)
    BY <1>3
  <2>2. /\ s \in Seq(S) /\ Len(s) = Len(b) + 1 /\ Len(b) \in Nat /\ n \in Nat /\ n <= Len(b)
        /\ s[Len(b) + 1] = Closed /\ \A i \in 1..Len(b) : s[i] = b[i]
    BY <2>1
  <2>3. SubSeq(s, 1, n) = SubSeq(b, 1, n)
    <3>1. /\ SubSeq(s, 1, n) \in Seq(S) /\ Len(SubSeq(s, 1, n)) = n
          /\ \A i \in 1..n : SubSeq(s, 1, n)[i] = s[i]
      BY <2>2
    <3>2. /\ SubSeq(b, 1, n) \in Seq(Symbol) /\ Len(SubSeq(b, 1, n)) = n
          /\ \A i \in 1..n : SubSeq(b, 1, n)[i] = b[i]
      BY <2>2
    <3>3. \A i \in 1..n : SubSeq(s, 1, n)[i] = SubSeq(b, 1, n)[i]
      BY <3>1, <3>2, <2>2
    <3> QED
      BY <3>1, <3>2, <3>3, SeqEqual
  <2>4. Rest(s, n) = t
    <3>1. /\ Rest(s, n) \in Seq(S) /\ Len(Rest(s, n)) = Len(b) + 1 - n
          /\ \A i \in 1..(Len(b) + 1 - n) : Rest(s, n)[i] = s[n + i]
      <4>1. n \in 0..Len(s)
        BY <2>2
      <4> HIDE DEF S
      <4>2. /\ Rest(s, n) \in Seq(S) /\ Len(Rest(s, n)) = Len(s) - n
            /\ \A i \in 1..(Len(s) - n) : Rest(s, n)[i] = s[n + i]
        BY <4>1, <2>2, RestIs
      <4> QED
        BY <4>2, <2>2
    <3> HIDE DEF r
    <3>2. /\ t \in Seq(S) /\ Len(t) = Len(b) - n + 1 /\ t[Len(b) - n + 1] = Closed
          /\ \A i \in 1..(Len(b) - n) : t[i] = r[i]
      <4>1. r \in Seq(Symbol) /\ Len(r) = Len(b) - n
        BY <1>1 DEF r
      <4>2. r \in Seq(S)
        BY <4>1
      <4>3. t \in Seq(S) /\ Len(t) = Len(r) + 1
        BY <4>2
      <4>4. t[Len(r) + 1] = Closed /\ \A i \in 1..Len(r) : t[i] = r[i]
        BY <4>2
      <4> QED
        BY <4>1, <4>3, <4>4
    <3>3. ASSUME NEW i \in 1..(Len(b) + 1 - n)  PROVE Rest(s, n)[i] = t[i]
      <4>1. CASE i = Len(b) + 1 - n
        <5>1. n + i = Len(b) + 1 /\ i = Len(b) - n + 1
          BY <4>1, <2>2
        <5> QED
          BY <5>1, <3>1, <3>2, <2>2
      <4>2. CASE i # Len(b) + 1 - n
        <5>1. i \in 1..(Len(b) - n) /\ n + i \in 1..Len(b)
          BY <4>2, <2>2
        <5>2. Rest(s, n)[i] = b[n + i] /\ t[i] = r[i] /\ r[i] = b[n + i]
          BY <5>1, <3>1, <3>2, <2>2, <1>1 DEF r
        <5> QED
          BY <5>2
      <4> QED
        BY <4>1, <4>2
    <3>4. Len(t) = Len(b) + 1 - n
      BY <3>2, <2>2
    <3> HIDE DEF t, S
    <3> QED
      BY <3>1, <3>2, <3>3, <3>4, SeqEqual
  <2> QED
    BY <2>3, <2>4, <1>1, <1>3
<1> QED
  BY <1>2, <1>3

\* What a player hears of a seat, of its name and of the end of the game agrees with
\* what it was told and with what it is still owed: a step that handles the first
\* k of the messages owed.
LEMMA ScreensKeep ==
  ASSUME IInv, UNCHANGED <<lobby, game, backlog>>, NEW p \in Players, NEW prog, prog = program[p],
         NEW c \in Connection, c = prog.link, Connected(prog), c \notin backlog,
         NEW ms \in Seq(Message), ms = owed[c], NEW k \in 0..Len(ms), owed'[c] = Rest(ms, k),
         Open(down'[c]) => Open(down[c]),
         NEW x \in Program, program'[p] = x, x.screen \in {"dialog", "window"},
         Heard(prog, x, ms, k)
  PROVE  (ScreenOf(p) /\ SeatOf(p) /\ NameOf(p) /\ EndOf(p))'
<1>1. PlayerInv(p) /\ TypeOK /\ prog \in Program
  BY DEF IInv, TypeOK
<1>2. /\ x.socket = prog.socket /\ x.link = c /\ x.finished = prog.finished
      /\ prog.missed \subseteq x.missed
      /\ prog.screen = "dialog" =>
           /\ x.mEnded = prog.mEnded
           /\ x.screen = "dialog" =>
                /\ \A j \in 1..k : ms[j] = "game_started" => "game_started" \in x.missed
                /\ (\A j \in 1..k : ms[j] # "welcome") => x.welcomed = prog.welcomed
      /\ prog.screen = "window" =>
           /\ x.screen = "window"
           /\ (\A j \in 1..k : ms[j] # "game_finished") => x.mEnded = prog.mEnded
           /\ /\ x.mEnded
              /\ prog.mEnded => prog.mState = "GameOver"
              /\ \A j \in 1..k : ms[j] = "your_turn" =>
                   ~prog.mEnded /\ \A i \in 1..(j - 1) : ms[i] # "game_finished"
              => x.mState = "GameOver"
  BY DEF Heard
<1>3. /\ prog.screen \in {"dialog", "window"} /\ ~prog.finished
      /\ prog.screen = "dialog" => ~prog.mEnded
  BY <1>1 DEF PlayerInv, ScreenOf, Connected
<1>4. /\ DOMAIN ms = 1..Len(ms) /\ Len(ms) \in Nat /\ k \in Nat
      /\ DOMAIN owed'[c] = 1..(Len(ms) - k)
      /\ \A i \in 1..(Len(ms) - k) : owed'[c][i] = ms[k + i]
  BY RestIs
<1>5. \A i \in DOMAIN ms : i \in 1..k \/ (i - k \in DOMAIN owed'[c] /\ owed'[c][i - k] = ms[i])
  <2> SUFFICES ASSUME NEW i \in DOMAIN ms, i \notin 1..k
               PROVE  i - k \in DOMAIN owed'[c] /\ owed'[c][i - k] = ms[i]
    OBVIOUS
  <2>1. i - k \in 1..(Len(ms) - k) /\ k + (i - k) = i
    BY <1>4
  <2> QED
    BY <2>1, <1>4
<1>6. ASSUME NEW i \in DOMAIN owed'[c]
      PROVE  i \in Nat /\ k + i \in DOMAIN ms /\ owed'[c][i] = ms[k + i]
  <2>1. i \in 1..(Len(ms) - k) /\ i \in Nat /\ k + i \in 1..Len(ms)
    BY <1>4
  <2> QED
    BY <2>1, <1>4
<1>7. ScreenOf(p)'
  BY <1>2, <1>3 DEF ScreenOf, Connected
<1>8. SeatOf(p)'
  <2> SUFFICES ASSUME Open(down'[c]), c \in seats, x.screen = "dialog"
               PROVE  \/ \E i \in DOMAIN owed'[c] : owed'[c][i] = "game_started"
                      \/ "game_started" \in x.missed
    BY <1>2 DEF SeatOf, game
  <2>1. prog.screen = "dialog"
    BY <1>2, <1>3
  <2>2. \/ \E i \in DOMAIN ms : ms[i] = "game_started"
        \/ "game_started" \in prog.missed
    BY <2>1, <1>1 DEF PlayerInv, SeatOf
  <2> QED
    BY <2>1, <2>2, <1>2, <1>5
<1>9. NameOf(p)'
  <2>1. ASSUME x.screen = "dialog", host \in {"setup", "lobby"}, c \in (mClients \cup backlog) \ named
        PROVE  ~x.welcomed
    <3>1. prog.screen = "dialog"
      BY <2>1, <1>2, <1>3
    <3>2. ~prog.welcomed
      BY <2>1, <3>1, <1>1 DEF PlayerInv, NameOf
    <3>3. \A j \in DOMAIN ms : ms[j] # "welcome"
      BY <2>1 DEF IInv, WelcomeInv
    <3>4. \A j \in 1..k : ms[j] # "welcome"
      BY <3>3, <1>4
    <3> QED
      BY <3>1, <3>2, <3>4, <2>1, <1>2
  <2>2. ASSUME x.screen = "dialog", c \in seats \ ownName, "game_started" \notin x.missed
        PROVE  /\ ~x.welcomed
               /\ \A i \in DOMAIN owed'[c] : owed'[c][i] = "welcome" =>
                    \E j \in DOMAIN owed'[c] : j < i /\ owed'[c][j] = "game_started"
    <3>1. prog.screen = "dialog"
      BY <2>2, <1>2, <1>3
    <3>2. /\ ~prog.welcomed
          /\ \A i \in DOMAIN ms : ms[i] = "welcome" =>
               \E j \in DOMAIN ms : j < i /\ ms[j] = "game_started"
      BY <2>2, <3>1, <1>1, <1>2 DEF PlayerInv, NameOf
    <3>3. \A j \in 1..k : ms[j] # "game_started"
      BY <2>2, <3>1, <1>2
    <3>4. ASSUME NEW j \in 1..k  PROVE ms[j] # "welcome"
      <4> SUFFICES ASSUME ms[j] = "welcome"  PROVE FALSE
        OBVIOUS
      <4>1. j \in DOMAIN ms
        BY <1>4
      <4>2. PICK i \in DOMAIN ms : i < j /\ ms[i] = "game_started"
        BY <4>1, <3>2
      <4>3. i \in 1..k
        BY <4>2, <1>4
      <4> QED
        BY <4>2, <4>3, <3>3
    <3>5. ~x.welcomed
      BY <2>2, <3>1, <3>2, <3>4, <1>2
    <3>6. ASSUME NEW i \in DOMAIN owed'[c], owed'[c][i] = "welcome"
          PROVE  \E j \in DOMAIN owed'[c] : j < i /\ owed'[c][j] = "game_started"
      <4>1. k + i \in DOMAIN ms /\ ms[k + i] = "welcome" /\ i \in Nat
        BY <3>6, <1>6
      <4>2. PICK j \in DOMAIN ms : j < k + i /\ ms[j] = "game_started"
        BY <4>1, <3>2
      <4>3. j - k \in DOMAIN owed'[c] /\ owed'[c][j - k] = "game_started"
        BY <4>2, <3>3, <1>5
      <4>4. j - k < i
        BY <4>1, <4>2, <1>4
      <4> QED
        BY <4>3, <4>4
    <3> QED
      BY <3>5, <3>6
  <2>3. /\ host' = host /\ mClients' = mClients /\ backlog' = backlog /\ named' = named
        /\ seats' = seats /\ ownName' = ownName
    BY DEF lobby, game
  <2> QED
    BY <2>1, <2>2, <2>3, <1>2 DEF NameOf
<1>10. EndOf(p)'
  <2> SUFFICES ASSUME x.screen = "window", x.mEnded
               PROVE  /\ x.mState = "GameOver" /\ over
                      /\ \A i \in DOMAIN owed'[c] : owed'[c][i] # "your_turn"
    BY <1>2, <1>3 DEF EndOf, game
  <2>1. prog.screen = "window"
    BY <1>2, <1>3
  <2>2. CASE prog.mEnded
    <3>1. prog.mState = "GameOver" /\ over /\ \A i \in DOMAIN ms : ms[i] # "your_turn"
      BY <2>1, <2>2, <1>1, <1>3 DEF PlayerInv, EndOf
    <3>2. \A j \in 1..k : ms[j] # "your_turn"
      BY <3>1, <1>4
    <3>3. x.mState = "GameOver"
      BY <2>1, <3>1, <3>2, <1>2
    <3> QED
      BY <3>1, <3>3, <1>6
  <2>3. CASE ~prog.mEnded
    <3>1. PICK e \in 1..k : ms[e] = "game_finished"
      BY <2>1, <2>3, <1>2
    <3>2. e \in DOMAIN ms /\ e \in Nat
      BY <1>4
    <3>3. over /\ \A j \in DOMAIN ms : j > e => ms[j] # "your_turn"
      BY <3>1, <3>2 DEF IInv, TurnInv
    <3>4. ASSUME NEW j \in 1..k, ms[j] = "your_turn", NEW i \in 1..(j - 1)
          PROVE  ms[i] # "game_finished"
      <4> SUFFICES ASSUME ms[i] = "game_finished"  PROVE FALSE
        OBVIOUS
      <4>1. i \in DOMAIN ms /\ j \in DOMAIN ms /\ j > i
        BY <1>4
      <4> QED
        BY <4>1, <3>4 DEF IInv, TurnInv
    <3>5. x.mState = "GameOver"
      BY <2>1, <2>3, <3>4, <1>2
    <3>6. ASSUME NEW i \in DOMAIN owed'[c]  PROVE owed'[c][i] # "your_turn"
      <4>1. k + i \in DOMAIN ms /\ owed'[c][i] = ms[k + i] /\ i \in Nat
        BY <1>6
      <4>2. i > 0 /\ k + i > e
        BY <1>4, <4>1
      <4> QED
        BY <4>1, <4>2, <3>3
    <3> QED
      BY <3>3, <3>5, <3>6
  <2> QED
    BY <2>2, <2>3
<1> QED
  BY <1>7, <1>8, <1>9, <1>10

\* Whatever has arrived is handled, in order, and the rest is still owed.
LEMMA OnReadyReadKeeps ==
  ASSUME IInv, NEW p \in Players, OnReadyRead(p)
  PROVE  IInv'
<1>1. PICK prog, c : prog = program[p] /\ c = prog.link
  OBVIOUS
<1>2. PICK s, b : s = down[c] /\ b = Bytes(down[c])
  OBVIOUS
<1>3. PICK n \in 1..Len(b) :
        LET bytes == SubSeq(s, 1, n)
            lines == LinesAmong(bytes)[n]
        IN  /\ down' = [down EXCEPT ![c] = SubSeq(@, n + 1, Len(@))]
            /\ owed' = [owed EXCEPT ![c] = SubSeq(@, lines + 1, Len(@))]
            /\ program' = [program EXCEPT ![p] = onReadyRead(prog, bytes)]
  BY <1>1, <1>2 DEF OnReadyRead
<1>4. PICK bytes : bytes = SubSeq(s, 1, n)
  OBVIOUS
<1>5. PICK k, x : k = LinesAmong(bytes)[n] /\ x = onReadyRead(prog, bytes)
  OBVIOUS
<1>6. /\ Connected(prog) /\ UNCHANGED <<lobby, game>> /\ made' = made /\ backlog' = backlog
      /\ up' = up
      /\ down' = [down EXCEPT ![c] = SubSeq(@, n + 1, Len(@))]
      /\ owed' = [owed EXCEPT ![c] = SubSeq(@, k + 1, Len(@))]
      /\ program' = [program EXCEPT ![p] = x]
  BY <1>1, <1>3, <1>4, <1>5 DEF OnReadyRead
<1>7. TypeOK /\ PlayerInv(p) /\ prog \in Program
  BY <1>1 DEF IInv, TypeOK
<1>8. c \in Connection /\ c # NoLink
  <2>1. c \in 0..made /\ c # NoLink /\ made \in 0..MaxConnections
    BY <1>1, <1>6, <1>7 DEF PlayerInv, LinkOf, TypeOK, Connected
  <2> QED
    BY <2>1, BoundsAssumption DEF Connection, NoLink
<1>9. /\ b \in Seq(Symbol) /\ s = IF Open(s) THEN b ELSE Append(b, Closed)
  BY <1>2, <1>8 DEF IInv, WireInv
<1>10. PICK ms : ms = owed[c]
  OBVIOUS
<1>11. ms \in Seq(Message)
  BY <1>7, <1>8, <1>10 DEF TypeOK
<1>12. /\ NoLines(prog.mBuffer) /\ prog.mBuffer \in Seq(Symbol)
       /\ prog.screen \in {"dialog", "window"}
  BY <1>1, <1>6, <1>7 DEF PlayerInv, FrameOf, ScreenOf, Program, Connected
<1>13. PICK junk \in 0..Len(prog.mBuffer) :
         /\ Framed(prog.mBuffer, b, junk, ms)
         /\ Open(s) => Len(prog.mBuffer) + Len(b) = junk + 2 * Len(ms)
         /\ prog.fresh => junk = 0
  BY <1>1, <1>2, <1>6, <1>7, <1>10 DEF PlayerInv, FrameOf
<1>14. PICK rest, owing : rest = Rest(b, n) /\ owing = Rest(ms, k)
  OBVIOUS
<1>15. /\ bytes = SubSeq(b, 1, n) /\ rest \in Seq(Symbol)
       /\ Rest(s, n) = IF Open(s) THEN rest ELSE Append(rest, Closed)
  <2>1. s = b \/ s = Append(b, Closed)
    BY <1>9
  <2>2. /\ SubSeq(s, 1, n) = SubSeq(b, 1, n) /\ Rest(b, n) \in Seq(Symbol)
        /\ Rest(s, n) = IF s = b THEN Rest(b, n) ELSE Append(Rest(b, n), Closed)
    BY <2>1, <1>9, StreamIs
  <2>3. s = b <=> Open(s)
    <3>1. Open(b) /\ ~Open(Append(b, Closed))
      BY <1>9, WireIs
    <3> QED
      BY <3>1, <1>9
  <2> QED
    BY <2>2, <2>3, <1>4, <1>14
<1>16. PICK left : left = IF k = 0 THEN junk ELSE 0
  OBVIOUS
<1>17. /\ k \in 0..Len(ms) /\ x \in Program
       /\ x.screen \in {"dialog", "window"} /\ Heard(prog, x, ms, k)
       /\ NoLines(x.mBuffer)
       /\ Framed(x.mBuffer, rest, left, owing)
       /\ Len(prog.mBuffer) + Len(b) = junk + 2 * Len(ms) =>
            Len(x.mBuffer) + Len(rest) = left + 2 * Len(owing)
  <2>1. junk \in Nat /\ bytes = SubSeq(b, 1, n) /\ Framed(prog.mBuffer, b, junk, ms)
    BY <1>12, <1>13, <1>15
  <2>2. b \in Seq(Symbol)
    BY <1>9
  <2>3. Taken(prog, onReadyRead(prog, bytes), LinesAmong(bytes)[n], b, Rest(b, n), junk, ms)
    BY <2>1, <2>2, <1>7, <1>11, <1>12, ReadingIs
  <2> QED
    BY <2>3, <1>5, <1>14, <1>16 DEF Taken
<1>18. /\ program'[p] = x /\ down'[c] = Rest(s, n) /\ owed'[c] = owing
       /\ owing \in Seq(Message)
  <2>1. /\ program'[p] = x /\ down'[c] = SubSeq(s, n + 1, Len(s))
        /\ owed'[c] = SubSeq(ms, k + 1, Len(ms))
    BY <1>2, <1>6, <1>7, <1>8, <1>10 DEF TypeOK
  <2>2. Rest(ms, k) \in Seq(Message)
    BY <1>11, <1>17, RestIs
  <2> QED
    BY <2>1, <2>2, <1>14 DEF Rest
<1>19. /\ Open(down'[c]) <=> Open(s)
       /\ Bytes(down'[c]) = rest
       /\ down'[c] = IF Open(down'[c]) THEN rest ELSE Append(rest, Closed)
       /\ down'[c] \in Seq(Symbol \cup {Closed})
  <2>1. /\ Open(rest) /\ Bytes(rest) = rest
        /\ ~Open(Append(rest, Closed)) /\ Bytes(Append(rest, Closed)) = rest
    BY <1>15, WireIs
  <2>2. rest \in Seq(Symbol \cup {Closed}) /\ Append(rest, Closed) \in Seq(Symbol \cup {Closed})
    BY <1>15
  <2> QED
    BY <2>1, <2>2, <1>15, <1>18
<1>20. c \notin backlog
  <2>1. b # <<>>
    BY <1>9
  <2> QED
    BY <2>1, <1>2 DEF IInv, PlaceInv
<1>21. TypeOK'
  <2>1. down' \in [Connection -> Seq(Symbol \cup {Closed})]
    BY <1>6, <1>7, <1>18, <1>19 DEF TypeOK
  <2>2. owed' \in [Connection -> Seq(Message)]
    BY <1>6, <1>7, <1>18 DEF TypeOK
  <2>3. program' \in [Players -> Program]
    BY <1>6, <1>7, <1>17 DEF TypeOK
  <2> QED
    BY <2>1, <2>2, <2>3, <1>6, <1>7 DEF TypeOK, lobby, game
<1>22. x.link = c /\ x.socket = prog.socket /\ x.fresh = prog.fresh
  BY <1>1, <1>17 DEF Heard
<1>23. LinkOf(p)'
  BY <1>1, <1>2, <1>6, <1>7, <1>18, <1>19, <1>22 DEF PlayerInv, LinkOf, Connected, lobby
<1>24. FrameOf(p)'
  <2>1. left \in 0..Len(x.mBuffer) /\ (prog.fresh => left = 0)
    <3>1. left <= Len(x.mBuffer)
      BY <1>17 DEF Framed
    <3>2. left \in Nat
      BY <1>12, <1>16
    <3>3. Len(x.mBuffer) \in Nat
      BY <1>17 DEF Program
    <3> QED
      BY <3>1, <3>2, <3>3, <1>13, <1>16
  <2> QED
    BY <2>1, <1>6, <1>13, <1>17, <1>18, <1>19, <1>22 DEF FrameOf, Connected
<1>25. (ScreenOf(p) /\ SeatOf(p) /\ NameOf(p) /\ EndOf(p))'
  BY <1>1, <1>2, <1>6, <1>8, <1>10, <1>11, <1>14, <1>17, <1>18, <1>19, <1>20, ScreensKeep
<1>26. PlayerInv(p)'
  BY <1>23, <1>24, <1>25 DEF PlayerInv
<1>27. /\ \E j \in 0..Len(owed[c]) : owed'[c] = Rest(owed[c], j)
       /\ Bytes(down'[c]) \in Seq(Symbol)
       /\ down'[c] = IF Open(down'[c]) THEN Bytes(down'[c])
                                       ELSE Append(Bytes(down'[c]), Closed)
       /\ c \in backlog' => Bytes(down'[c]) = <<>> /\ owed'[c] = <<>>
  BY <1>6, <1>10, <1>14, <1>15, <1>17, <1>18, <1>19, <1>20
<1>28. /\ x.link \in {NoLink, program[p].link} /\ c = program[p].link
       /\ \A d \in Connection : d # program[p].link =>
            down'[d] = down[d] /\ owed'[d] = owed[d] /\ up'[d] = up[d]
       /\ made <= made'
  BY <1>1, <1>6, <1>7, <1>22 DEF TypeOK
<1>29. /\ UNCHANGED <<lobby, game>> /\ program' = [program EXCEPT ![p] = x]
       /\ backlog' = backlog
  BY <1>6
<1> QED
  BY <1>21, <1>26, <1>27, <1>28, <1>29, PlayerKeeps

-----------------------------------------------------------------------------
(* The invariant holds of every behaviour.                                 *)

\* Before anybody does anything.
LEMMA InitIsFine ==
  ASSUME Init
  PROVE  IInv
<1>1. /\ host = "setup" /\ mClients = {} /\ named = {} /\ seats = {} /\ ownName = {}
      /\ asked = {} /\ turns = [c \in Connection |-> 0] /\ over = FALSE
      /\ made = 0 /\ backlog = {}
      /\ down = [c \in Connection |-> <<>>] /\ up = [c \in Connection |-> <<>>]
      /\ owed = [c \in Connection |-> <<>>]
      /\ program = [p \in Players |-> JoinDialog]
  BY DEF Init
<1>2. /\ JoinDialog \in Program /\ JoinDialog.mBuffer = <<>> /\ ~JoinDialog.finished
      /\ JoinDialog.screen = "dialog" /\ JoinDialog.socket = "unconnected"
      /\ JoinDialog.link = NoLink /\ ~JoinDialog.mEnded /\ ~JoinDialog.welcomed
  <2>1. <<>> \in Seq(Symbol) /\ 0 \in Nat
    OBVIOUS
  <2> QED
    BY <2>1 DEF JoinDialog, Program, NoLink
<1>3. TypeOK
  <2>1. /\ <<>> \in Seq(Symbol \cup {Closed}) /\ <<>> \in Seq(Message)
        /\ <<>> \in Seq({"hello", "move", Closed}) /\ 0 \in 0..MaxTurns /\ 0 \in 0..MaxConnections
    BY BoundsAssumption
  <2> QED
    BY <2>1, <1>1, <1>2 DEF TypeOK
<1>4. \A c \in Connection : Open(down[c]) /\ Bytes(down[c]) = <<>> /\ down[c] = <<>>
  BY <1>1 DEF Open, Bytes
<1>5. WireInv
  <2>1. <<>> \in Seq(Symbol)
    OBVIOUS
  <2> QED
    BY <2>1, <1>4 DEF WireInv
<1>6. PlaceInv /\ WelcomeInv /\ TurnInv
  BY <1>1 DEF PlaceInv, WelcomeInv, TurnInv
<1>7. Distinct
  BY <1>1, <1>2 DEF Distinct
<1>8. ASSUME NEW p \in Players  PROVE PlayerInv(p)
  <2>1. program[p] = JoinDialog
    BY <1>1
  <2>2. NoLink \in 0..made /\ NoLink \notin seats
    BY <1>1 DEF NoLink
  <2> QED
    BY <2>1, <2>2, <1>1, <1>2
       DEF PlayerInv, LinkOf, FrameOf, ScreenOf, SeatOf, NameOf, EndOf, Connected, NoLines
<1> QED
  BY <1>3, <1>5, <1>6, <1>7, <1>8 DEF IInv

\* Every step of the host's program.
LEMMA HostStepsKeep ==
  ASSUME IInv, Host
  PROVE  IInv'
<1>1. ASSUME NEW c \in Connection, ServerReads(c)  PROVE IInv'
  <2>1. \/ Head(up[c]) = "hello" /\ Hello(c)
        \/ Head(up[c]) = "move" /\ SupplyMove(c)
        \/ Head(up[c]) = Closed /\ OnDisconnected(c)
    BY <1>1 DEF ServerReads
  <2> QED
    BY <2>1, <1>1, HelloKeeps, SupplyMoveKeeps, OnDisconnectedKeeps
<1>2. ASSUME NEW c \in Connection, OnNewConnection(c)  PROVE IInv'
  BY <1>2, OnNewConnectionKeeps
<1>3. ASSUME NEW c \in Connection, AskTurn(c)  PROVE IInv'
  BY <1>3, AskTurnKeeps
<1>4. CASE OpenLobby
  BY <1>4, OpenLobbyKeeps
<1>5. CASE StartGame
  BY <1>5, StartGameKeeps
<1>6. CASE FinishGame
  BY <1>6, FinishGameKeeps
<1>7. CASE HostQuits
  BY <1>7, HostQuitsKeeps
<1> QED
  BY <1>1, <1>2, <1>3, <1>4, <1>5, <1>6, <1>7 DEF Host, ServerRuns

\* Every step.
LEMMA NextKeeps ==
  ASSUME IInv, [Next]_vars
  PROVE  IInv'
<1>1. CASE Host
  BY <1>1, HostStepsKeep
<1>2. ASSUME NEW p \in Players, Attempt(p)  PROVE IInv'
  BY <1>2, ConnectionMadeKeeps, ConnectionFailsKeeps DEF Attempt
<1>3. ASSUME NEW p \in Players, Break(p)  PROVE IInv'
  BY <1>3, BreakKeeps
<1>4. ASSUME NEW p \in Players, Reads(p)  PROVE IInv'
  BY <1>4, OnReadyReadKeeps, OnDisconnectKeeps DEF Reads
<1>5. ASSUME NEW p \in Players, ClickConnect(p)  PROVE IInv'
  BY <1>5, ClickConnectKeeps
<1>6. ASSUME NEW p \in Players, ClickMove(p)  PROVE IInv'
  BY <1>6, ClickMoveKeeps
<1>7. ASSUME NEW p \in Players, ClickFinish(p)  PROVE IInv'
  BY <1>7, ClickFinishKeeps
<1>8. ASSUME NEW p \in Players, Quit(p)  PROVE IInv'
  BY <1>8, QuitKeeps
<1>9. CASE UNCHANGED vars
  <2>1. /\ host' = host /\ mClients' = mClients /\ named' = named /\ seats' = seats
        /\ ownName' = ownName /\ asked' = asked /\ turns' = turns /\ over' = over
        /\ made' = made /\ backlog' = backlog /\ down' = down /\ up' = up /\ owed' = owed
        /\ program' = program
    BY <1>9 DEF vars, lobby, game, network
  <2>2. /\ TypeOK' /\ WireInv' /\ PlaceInv' /\ WelcomeInv' /\ TurnInv' /\ Distinct'
    BY <2>1 DEF IInv, TypeOK, WireInv, PlaceInv, WelcomeInv, TurnInv, Distinct
  <2>3. ASSUME NEW p \in Players  PROVE PlayerInv(p)'
    <3>1. PlayerInv(p)
      BY DEF IInv
    <3> QED
      BY <3>1, <2>1 DEF PlayerInv, LinkOf, FrameOf, ScreenOf, SeatOf, NameOf, EndOf
  <2> QED
    BY <2>2, <2>3 DEF IInv
<1> QED
  BY <1>1, <1>2, <1>3, <1>4, <1>5, <1>6, <1>7, <1>8, <1>9 DEF Next

\* The inductive invariant.
LEMMA LobbyInvariant == Spec => []IInv
<1>1. Init => IInv
  BY InitIsFine
<1>2. IInv /\ [Next]_vars => IInv'
  BY NextKeeps
<1> QED
  BY <1>1, <1>2, PTL DEF Spec

-----------------------------------------------------------------------------
(* What follows from it.                                                   *)

\* A socket or a session is never in a state that the code does not know: the seats
\* are those of clients, and the server waits only for those who hold one.
THEOREM LobbyTypes == Spec => []TypeOK
<1>1. IInv => TypeOK
  BY DEF IInv
<1> QED
  BY <1>1, LobbyInvariant, PTL

\* Those who hold a seat are those who see a game, for any number of players who
\* connect, come late, quit or break off (startGame, and the dialog's game_started).
THEOREM SeatsShow == Spec => []SeatsAreWindows
<1>1. ASSUME IInv, NEW p \in Players,
             Connected(program[p]), ~Ending(program[p].link), host = "game"
      PROVE  /\ program[p].screen = "window" => program[p].link \in seats
             /\ program[p].link \in seats /\ program[p].screen = "dialog" =>
                  \/ Contains(owed[program[p].link], "game_started")
                  \/ "game_started" \in program[p].missed
  <2> DEFINE c == program[p].link
  <2>1. PlayerInv(p) /\ Open(down[c]) /\ Open(up[c]) /\ seats = mClients
    BY <1>1 DEF IInv, PlaceInv, Ending
  <2>2. ASSUME program[p].screen = "window"  PROVE c \in seats
    <3>1. c \in mClients \cup backlog /\ c \notin backlog
      BY <1>1, <2>1, <2>2 DEF PlayerInv, LinkOf, ScreenOf
    <3> QED
      BY <3>1, <2>1
  <2>3. ASSUME c \in seats, program[p].screen = "dialog"
        PROVE  Contains(owed[c], "game_started") \/ "game_started" \in program[p].missed
    <3>1. \/ \E i \in DOMAIN owed[c] : owed[c][i] = "game_started"
          \/ "game_started" \in program[p].missed
      BY <1>1, <2>1, <2>3 DEF PlayerInv, SeatOf
    <3>2. owed[c] \in Seq(Message)
      BY <1>1, <2>3 DEF IInv, TypeOK
    <3> QED
      BY <3>1, <3>2 DEF Contains
  <2> QED
    BY <2>2, <2>3
<1>2. IInv => SeatsAreWindows
  BY <1>1 DEF SeatsAreWindows
<1> QED
  BY <1>2, LobbyInvariant, PTL

\* Whoever was told "Connected" plays under the name it chose (startGame takes the
\* names that have come by then, and the welcome is the answer to the name).
THEOREM WelcomedNames == Spec => []WelcomedPlayersKeepTheirName
<1>1. ASSUME IInv, NEW p \in Players, program[p].screen = "dialog", program[p].welcomed,
             program[p].link \in seats
      PROVE  program[p].link \in ownName \/ "game_started" \in program[p].missed
  BY <1>1 DEF IInv, PlayerInv, NameOf
<1>2. IInv => WelcomedPlayersKeepTheirName
  BY <1>1 DEF WelcomedPlayersKeepTheirName
<1> QED
  BY <1>2, LobbyInvariant, PTL

\* Nothing that arrives after the end of a session opens its window again: the host
\* asks for no move after game_finished, and "Finish game" stops the reading.
THEOREM SessionsEndOnce == Spec => []EndedSessionsStayEnded
<1>1. IInv => EndedSessionsStayEnded
  BY DEF IInv, PlayerInv, EndOf, EndedSessionsStayEnded
<1> QED
  BY <1>1, LobbyInvariant, PTL

\* A FrameReader neither loses, repeats nor joins messages, however the bytes are cut,
\* as long as it was empty when its connection began (FrameReader::feed and next).
THEOREM ReadersLoseNothing == Spec => []ReadsLoseNothing
<1>1. ASSUME IInv, NEW p \in Players, Connected(program[p]), program[p].fresh
      PROVE  LET c == program[p].link
                 arriving == program[p].mBuffer \o Bytes(down[c])
             IN  IF Open(down[c]) THEN arriving = Encoded(owed[c])
                                  ELSE IsPrefix(arriving, Encoded(owed[c]))
  <2>1. PICK prog, c : prog = program[p] /\ c = prog.link
    OBVIOUS
  <2>2. PICK ms, b : ms = owed[c] /\ b = Bytes(down[c])
    OBVIOUS
  <2>3. c \in Connection /\ prog \in Program
    <3>1. c \in 0..made /\ c # NoLink /\ made \in 0..MaxConnections
      BY <1>1, <2>1 DEF IInv, PlayerInv, LinkOf, TypeOK, Connected
    <3>2. c \in Connection
      BY <3>1, BoundsAssumption DEF Connection, NoLink
    <3> QED
      BY <3>2, <1>1, <2>1 DEF IInv, TypeOK
  <2>4. ms \in Seq(Message) /\ b \in Seq(Symbol) /\ prog.mBuffer \in Seq(Symbol)
    BY <1>1, <2>2, <2>3 DEF IInv, TypeOK, WireInv, Program
  <2>5. PICK arriving, all : arriving = prog.mBuffer \o b /\ all = Encoded(ms)
    OBVIOUS
  <2>6. /\ Framed(prog.mBuffer, b, 0, ms)
        /\ Open(down[c]) => Len(prog.mBuffer) + Len(b) = 0 + 2 * Len(ms)
    BY <1>1, <2>1, <2>2 DEF IInv, PlayerInv, FrameOf
  <2>7. /\ arriving \in Seq(Symbol) /\ Len(arriving) = Len(prog.mBuffer) + Len(b)
        /\ Len(ms) \in Nat /\ Len(arriving) \in Nat
    BY <2>4, <2>5
  <2>8. /\ all \in Seq(Symbol) /\ Len(all) = 2 * Len(ms)
        /\ \A k \in 1..Len(ms) : all[2 * k - 1] = ms[k] /\ all[2 * k] = NewLine
    BY <2>4, <2>5, EncodedIs
  <2>9. /\ Len(arriving) <= 2 * Len(ms)
        /\ \A k \in 1..Len(ms) : /\ 2 * k - 1 <= Len(arriving) => arriving[2 * k - 1] = ms[k]
                                 /\ 2 * k <= Len(arriving) => arriving[2 * k] = NewLine
    <3>1. /\ Len(arriving) <= 0 + 2 * Len(ms)
          /\ \A k \in 1..Len(ms) :
               /\ 0 + 2 * k - 1 <= Len(arriving) => arriving[0 + 2 * k - 1] = ms[k]
               /\ 0 + 2 * k <= Len(arriving) => arriving[0 + 2 * k] = NewLine
      BY <2>5, <2>6 DEF Framed
    <3>2. \A k \in 1..Len(ms) : 0 + 2 * k = 2 * k /\ 0 + 2 * k - 1 = 2 * k - 1
      BY <2>7
    <3> QED
      BY <3>1, <3>2, <2>7
  <2>10. ASSUME NEW i \in 1..Len(arriving)  PROVE arriving[i] = all[i]
    <3>1. i \in 1..(2 * Len(ms)) /\ i \in Nat /\ Len(ms) \in Nat /\ i <= Len(arriving)
      BY <2>7, <2>9
    <3>2. PICK k \in 1..Len(ms) : i = 2 * k - 1 \/ i = 2 * k
      <4>1. CASE i % 2 = 0
        <5>1. i = 2 * (i \div 2) /\ i \div 2 \in 1..Len(ms)
          BY <4>1, <3>1
        <5> QED
          BY <5>1
      <4>2. CASE i % 2 = 1
        <5>1. i = 2 * ((i + 1) \div 2) - 1 /\ (i + 1) \div 2 \in 1..Len(ms)
          BY <4>2, <3>1
        <5> QED
          BY <5>1
      <4> QED
        BY <4>1, <4>2, <3>1
    <3>3. CASE i = 2 * k - 1
      <4>1. arriving[2 * k - 1] = ms[k] /\ all[2 * k - 1] = ms[k]
        BY <3>1, <3>3, <2>8, <2>9
      <4> QED
        BY <4>1, <3>3
    <3>4. CASE i = 2 * k
      <4>1. arriving[2 * k] = NewLine /\ all[2 * k] = NewLine
        BY <3>1, <3>4, <2>8, <2>9
      <4> QED
        BY <4>1, <3>4
    <3> QED
      BY <3>2, <3>3, <3>4
  <2>11. CASE Open(down[c])
    <3>1. Len(arriving) = Len(all)
      BY <2>6, <2>7, <2>8, <2>11
    <3>2. arriving = all
      BY <3>1, <2>7, <2>8, <2>10, SeqEqual
    <3> QED
      BY <3>2, <2>1, <2>2, <2>5, <2>11
  <2>12. CASE ~Open(down[c])
    <3>1. Len(arriving) <= Len(all)
      BY <2>8, <2>9
    <3>2. PICK n : n = Len(arriving)
      OBVIOUS
    <3>3. /\ SubSeq(arriving, 1, n) \in Seq(Symbol) /\ Len(SubSeq(arriving, 1, n)) = n
          /\ \A i \in 1..n : SubSeq(arriving, 1, n)[i] = arriving[i]
      BY <3>2, <2>7
    <3>4. /\ SubSeq(all, 1, n) \in Seq(Symbol) /\ Len(SubSeq(all, 1, n)) = n
          /\ \A i \in 1..n : SubSeq(all, 1, n)[i] = all[i]
      BY <3>1, <3>2, <2>7, <2>8
    <3>5. \A i \in 1..n : SubSeq(arriving, 1, n)[i] = SubSeq(all, 1, n)[i]
      BY <3>2, <3>3, <3>4, <2>10
    <3>6. SubSeq(arriving, 1, n) = SubSeq(all, 1, n)
      BY <3>3, <3>4, <3>5, SeqEqual
    <3>7. IsPrefix(arriving, all)
      BY <3>1, <3>2, <3>6 DEF IsPrefix
    <3> QED
      BY <3>7, <2>1, <2>2, <2>5, <2>12
  <2> QED
    BY <2>11, <2>12
<1>2. IInv => ReadsLoseNothing
  BY <1>1 DEF ReadsLoseNothing
<1> QED
  BY <1>2, LobbyInvariant, PTL

=============================================================================
