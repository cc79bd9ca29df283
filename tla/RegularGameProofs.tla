------------------------- MODULE RegularGameProofs --------------------------
(***************************************************************************)
(* For any number of opponents, rounds and "Finish" clicks: the lines and  *)
(* signals crossing between the two threads never meet the wrong reader.   *)
(*                                                                         *)
(* The argument is a token.  A round is announced by a start line, played  *)
(* by the worker, and ended by a "round" signal; the window is Idle only   *)
(* when none of the three exists, and only an Idle window makes a new one. *)
(* So at most one exists at a time, and what belongs to a round (its       *)
(* prompt, the moves that answer it) lies between the first and the last.  *)
(***************************************************************************)
EXTENDS RegularGame, TLAPS

\* No signal of the kinds ss is queued for the window.
NoneQueued(ss) == \A e \in DOMAIN events : events[e].signal \notin ss

NoStartLine == \A i \in DOMAIN lines : lines[i].text # "start"

\* A start line in the stream: no round is on, the window waits, and no move
\* follows it.
StartPending ==
  \A i \in DOMAIN lines : lines[i].text = "start" =>
    /\ ~InRound
    /\ mState \in {"Waiting", "GameOver"}
    /\ NoneQueued({"prompt", "round"})
    /\ \A l \in DOMAIN lines : /\ lines[l].text = "start" => l = i
                               /\ lines[l].text = "move" => l < i

IdleMeansNoRound == mState = "Idle" => ~InRound /\ NoneQueued({"prompt", "round"})

RoundNotYetEnded == InRound => NoneQueued({"round"})

\* The "round" signal is unique and comes after the prompt.
RoundEndsLast ==
  \A d, e \in DOMAIN events :
    events[d].signal = "round" /\ events[e].signal \in {"prompt", "round"} => e <= d

NotYetPrompted ==
  pc = "thinking" => /\ NoneQueued({"prompt"})
                     /\ mState # "AwaitingMove"
                     /\ \A i \in DOMAIN lines : lines[i].text # "move"

PromptIsThisRounds ==
  pc = "reading" =>
    /\ \A e \in DOMAIN events : events[e].signal = "prompt" => events[e].round = rounds + 1
    /\ mState = "AwaitingMove" => prompted = rounds + 1

AttemptsLeft == pc = "reading" => remaining > 0

RoundsWereRequested == rounds + (IF InRound \/ ~NoStartLine THEN 1 ELSE 0) <= starts

\* The end of the game is the worker's last signal.
OverComesLast ==
  \A e \in DOMAIN events : events[e].signal = "over" => pc = "finished" /\ e = Len(events)

\* The scores that a round's end or the game's end is about are delivered first.
ScoresComeFirst ==
  /\ \A e \in DOMAIN events : events[e].signal \in {"round", "over"} =>
       IF e = 1 THEN table = rounds ELSE events[e - 1] = Signal("scores", rounds)
  /\ \A d, e \in DOMAIN events :
       d < e /\ events[d].signal = "round" /\ events[e].signal = "scores" =>
         events[e].round = rounds

QueuedScoresAreCurrent ==
  mState \in {"Idle", "GameOver"} =>
    \A e \in DOMAIN events : events[e].signal = "scores" => events[e].round = rounds

TokenInv  == /\ StartPending /\ IdleMeansNoRound /\ RoundNotYetEnded /\ RoundEndsLast
             /\ RoundsWereRequested
PromptInv == /\ NotYetPrompted /\ PromptIsThisRounds /\ MovesAnswerTheirPrompt
             /\ AttemptsLeft
OverInv   == OverComesLast /\ GameOverIsFinal
TableInv  == ScoresComeFirst /\ QueuedScoresAreCurrent /\ TableIsCurrent

\* On its way: a line of kind t to the worker, a signal of kind s to the window.
LineComes(t)   == \E i \in DOMAIN lines : lines[i].text = t
SignalComes(s) == \E e \in DOMAIN events : events[e].signal = s

LoopNewsComes == pc = "loop" =>
  mState = "Idle" \/ LineComes("start") \/ LineComes("exit") \/ SignalComes("round")

\* A prompt that is queued while the loop runs is followed by its round's end.
PromptThenRound == pc = "loop" /\ SignalComes("prompt") => SignalComes("round")

PromptNewsComes == pc = "reading" /\ remaining = 3 =>
  mState = "AwaitingMove" \/ LineComes("move") \/ LineComes("exit") \/ SignalComes("prompt")

OverNewsComes == pc = "finished" /\ phase # "gone" =>
  mState = "GameOver" \/ SignalComes("over")

NewsInv == LoopNewsComes /\ PromptThenRound /\ PromptNewsComes /\ OverNewsComes

IInv == TypeOK /\ TokenInv /\ PromptInv /\ OverInv /\ TableInv /\ NewsInv

\* A delivery shortens the signal queue at its front and touches nothing else of
\* the game.
LEMMA Delivery ==
  ASSUME events \in Seq(Event), NEW s, Delivers(s)
  PROVE  /\ Len(events) \in Nat \ {0} /\ events[1] \in Event
         /\ Head(events) = events[1] /\ events[1].signal = s
         /\ events' \in Seq(Event) /\ Len(events') = Len(events) - 1
         /\ \A e \in DOMAIN events' : e + 1 \in DOMAIN events /\ events'[e] = events[e + 1]
         /\ UNCHANGED <<phase, clicks, stream, worker>>
<1> USE DEF Delivers
<1>1. events # <<>> /\ events' = Tail(events) /\ Head(events).signal = s
  OBVIOUS
<1>2. Len(events) \in Nat \ {0} /\ Head(events) = events[1] /\ events[1] \in Event
  BY <1>1
<1>3. events' \in Seq(Event) /\ Len(events') = Len(events) - 1
  BY <1>1
<1>4. ASSUME NEW e \in DOMAIN events'
      PROVE  e + 1 \in DOMAIN events /\ events'[e] = events[e + 1]
  BY <1>1, <1>3
<1> QED
  BY <1>1, <1>2, <1>3, <1>4

\* A delivery that updates the table exactly if it delivers scores keeps the
\* scores in front of the signals they belong to.
LEMMA ScoresStayFirst ==
  ASSUME IInv, NEW s, Delivers(s),
         table' = IF s = "scores" THEN events[1].round ELSE table
  PROVE  ScoresComeFirst'
<1> USE DEF IInv, TypeOK, TableInv, ScoresComeFirst, worker
<1>1. ASSUME NEW e \in DOMAIN events', events'[e].signal \in {"round", "over"}
      PROVE  IF e = 1 THEN table' = rounds' ELSE events'[e - 1] = Signal("scores", rounds')
  <2>1. /\ e \in Nat \ {0} /\ e + 1 \in DOMAIN events /\ events[e + 1] = events'[e]
        /\ rounds' = rounds
    BY <1>1, Delivery
  <2>2. events[e] = Signal("scores", rounds)
    BY <1>1, <2>1
  <2>3. CASE e = 1
    BY <2>1, <2>2, <2>3, Delivery DEF Signal
  <2>4. CASE e # 1
    <3>1. e - 1 \in DOMAIN events' /\ events'[e - 1] = events[(e - 1) + 1]
      BY <1>1, <2>1, <2>4, Delivery
    <3> QED
      BY <2>1, <2>2, <2>4, <3>1
  <2> QED
    BY <2>3, <2>4
<1>2. ASSUME NEW d \in DOMAIN events', NEW e \in DOMAIN events', d < e,
             events'[d].signal = "round", events'[e].signal = "scores"
      PROVE  events'[e].round = rounds'
  <2>1. /\ d + 1 \in DOMAIN events /\ events'[d] = events[d + 1]
        /\ e + 1 \in DOMAIN events /\ events'[e] = events[e + 1]
        /\ rounds' = rounds /\ d + 1 < e + 1
    BY <1>2, Delivery
  <2> QED
    BY <1>2, <2>1
<1> QED
  BY <1>1, <1>2

\* The initial state satisfies the inductive invariant.
LEMMA InitInvariant == Init => IInv
<1> SUFFICES ASSUME Init  PROVE  IInv
  OBVIOUS
<1> USE BoundsAssumption DEF Init, Window!Init, Stream!Init
<1>1. TypeOK
  <2>1. closed \in BOOLEAN /\ eof \in BOOLEAN
    OBVIOUS
  <2>2. lines \in Seq(Line) /\ events \in Seq(Event)
    OBVIOUS
  <2> QED
    BY <2>1, <2>2 DEF TypeOK, Window!WindowState
<1>2. TokenInv /\ PromptInv
  BY DEF TokenInv, StartPending, IdleMeansNoRound, RoundNotYetEnded, RoundEndsLast,
         RoundsWereRequested, PromptInv, AttemptsLeft, NotYetPrompted, PromptIsThisRounds,
         MovesAnswerTheirPrompt, InRound, NoneQueued, NoStartLine
<1>3. OverInv /\ TableInv
  BY DEF OverInv, OverComesLast, GameOverIsFinal, TableInv, ScoresComeFirst,
         QueuedScoresAreCurrent, TableIsCurrent
<1>4. NewsInv
  BY DEF NewsInv, LoopNewsComes, PromptThenRound, PromptNewsComes, OverNewsComes,
         SignalComes
<1> QED
  BY <1>1, <1>2, <1>3, <1>4 DEF IInv

\* Every step keeps the types.
LEMMA TypeNext == IInv /\ [Next]_vars => TypeOK'
<1> SUFFICES ASSUME IInv, [Next]_vars  PROVE  TypeOK'
  OBVIOUS
<1> USE BoundsAssumption
    DEF IInv, TypeOK, Line, NoLine, Event, Signal, Text, Window!WindowState,
        Window!setState, window, gui, clicks, stream, worker, vars, PromptInv, AttemptsLeft
<1>1. CASE ClickStart
  BY <1>1 DEF ClickStart, Window!onStartRound, Stream!PushLine
<1>2. CASE ClickMove
  BY <1>2 DEF ClickMove, Window!pushMove, Stream!PushLine
<1>3. CASE ClickFinish
  BY <1>3 DEF ClickFinish, Window!onFinishButton, Stream!PushLine
<1>4. CASE Join
  BY <1>4 DEF Join
<1>5. CASE DeliverPrompt
  <2>1. Delivers("prompt")
    BY <1>5 DEF DeliverPrompt
  <2> QED
    BY <1>5, <2>1, Delivery DEF DeliverPrompt, Window!onMovePrompt
<1>6. CASE DeliverScores
  <2>1. Delivers("scores")
    BY <1>6 DEF DeliverScores
  <2> QED
    BY <1>6, <2>1, Delivery DEF DeliverScores, Window!onScores
<1>7. CASE DeliverRoundFinished
  <2>1. Delivers("round")
    BY <1>7 DEF DeliverRoundFinished
  <2> QED
    BY <1>7, <2>1, Delivery DEF DeliverRoundFinished, Window!onRoundFinished
<1>8. CASE DeliverGameFinished
  <2>1. Delivers("over")
    BY <1>8 DEF DeliverGameFinished
  <2> QED
    BY <1>8, <2>1, Delivery DEF DeliverGameFinished, Window!onGameFinished
<1>9. CASE LoopReadsLine
  BY <1>9 DEF LoopReadsLine, Stream!Getline
<1>10. CASE ShowResults
  BY <1>10 DEF ShowResults
<1>11. CASE ShowMovePrompt
  BY <1>11 DEF ShowMovePrompt
<1>12. CASE ReadAttempt
  <2>1. line' \in Line /\ lines' \in Seq(Line)
    BY <1>12 DEF ReadAttempt, Stream!Getline
  <2>2. CASE line'.text = "move"
    BY <1>12, <2>1, <2>2 DEF ReadAttempt, Stream!Getline
  <2>3. CASE line'.text # "move"
    BY <1>12, <2>1, <2>3 DEF ReadAttempt, Stream!Getline
  <2> QED
    BY <2>2, <2>3
<1>13. CASE ResolveRound
  BY <1>13 DEF ResolveRound
<1>14. CASE CloseWindow \/ LoopReadsEof \/ ReadEof
  BY <1>14 DEF CloseWindow, Stream!Close, LoopReadsEof, ReadEof, Stream!GetlineFails
<1>15. ASSUME NEW b \in Bots, BotDecides(b)  PROVE  TypeOK'
  BY <1>15 DEF BotDecides
<1>16. CASE UNCHANGED vars
  BY <1>16
<1> QED
  BY <1>1, <1>2, <1>3, <1>4, <1>5, <1>6, <1>7, <1>8, <1>9, <1>10, <1>11,
     <1>12, <1>13, <1>14, <1>15, <1>16
     DEF Next, Worker, Deliver

\* Every step keeps the round's token unique.
LEMMA TokenNext == IInv /\ [Next]_vars => TokenInv'
<1> SUFFICES ASSUME IInv, [Next]_vars  PROVE  TokenInv'
  OBVIOUS
<1> USE BoundsAssumption
    DEF IInv, TypeOK, Line, NoLine, Event, Signal, Text, Window!WindowState,
        Window!setState, window, gui, clicks, stream, worker, vars,
        TokenInv, StartPending, IdleMeansNoRound, RoundNotYetEnded,
        RoundEndsLast, RoundsWereRequested, InRound, NoStartLine,
        NoneQueued
<1>1. CASE ClickStart
  BY <1>1 DEF ClickStart, Window!onStartRound, Stream!PushLine
<1>2. CASE ClickMove
  BY <1>2 DEF ClickMove, Window!pushMove, Stream!PushLine
<1>3. CASE ClickFinish
  BY <1>3 DEF ClickFinish, Window!onFinishButton, Stream!PushLine
<1>4. CASE Join
  BY <1>4 DEF Join
<1>5. CASE DeliverPrompt
  <2>1. StartPending'
    BY <1>5 DEF DeliverPrompt, Delivers, Window!onMovePrompt
  <2>2. IdleMeansNoRound'
    BY <1>5 DEF DeliverPrompt, Delivers, Window!onMovePrompt
  <2>3. RoundNotYetEnded'
    BY <1>5 DEF DeliverPrompt, Delivers, Window!onMovePrompt
  <2>4. RoundEndsLast'
    BY <1>5 DEF DeliverPrompt, Delivers, Window!onMovePrompt
  <2>5. RoundsWereRequested'
    BY <1>5 DEF DeliverPrompt, Delivers, Window!onMovePrompt
  <2> QED
    BY <2>1, <2>2, <2>3, <2>4, <2>5
<1>6. CASE DeliverScores
  <2>1. StartPending'
    BY <1>6 DEF DeliverScores, Delivers, Window!onScores
  <2>2. IdleMeansNoRound'
    BY <1>6 DEF DeliverScores, Delivers, Window!onScores
  <2>3. RoundNotYetEnded'
    BY <1>6 DEF DeliverScores, Delivers, Window!onScores
  <2>4. RoundEndsLast'
    BY <1>6 DEF DeliverScores, Delivers, Window!onScores
  <2>5. RoundsWereRequested'
    BY <1>6 DEF DeliverScores, Delivers, Window!onScores
  <2> QED
    BY <2>1, <2>2, <2>3, <2>4, <2>5
<1>7. CASE DeliverRoundFinished
  BY <1>7 DEF DeliverRoundFinished, Delivers, Window!onRoundFinished
<1>8. CASE DeliverGameFinished
  <2>1. StartPending'
    BY <1>8 DEF DeliverGameFinished, Delivers, Window!onGameFinished
  <2>2. IdleMeansNoRound'
    BY <1>8 DEF DeliverGameFinished, Delivers, Window!onGameFinished
  <2>3. RoundNotYetEnded'
    BY <1>8 DEF DeliverGameFinished, Delivers, Window!onGameFinished
  <2>4. RoundEndsLast'
    BY <1>8 DEF DeliverGameFinished, Delivers, Window!onGameFinished
  <2>5. RoundsWereRequested'
    BY <1>8 DEF DeliverGameFinished, Delivers, Window!onGameFinished
  <2> QED
    BY <2>1, <2>2, <2>3, <2>4, <2>5
<1>9. CASE LoopReadsLine
  BY <1>9 DEF LoopReadsLine, Stream!Getline
<1>10. CASE ShowResults
  BY <1>10 DEF ShowResults
<1>11. CASE ShowMovePrompt
  BY <1>11 DEF ShowMovePrompt
<1>12. CASE ReadAttempt
  BY <1>12 DEF ReadAttempt, Stream!Getline
<1>13. CASE ResolveRound
  BY <1>13 DEF ResolveRound
<1>14. CASE CloseWindow \/ LoopReadsEof \/ ReadEof
  BY <1>14 DEF CloseWindow, Stream!Close, LoopReadsEof, ReadEof, Stream!GetlineFails
<1>15. ASSUME NEW b \in Bots, BotDecides(b)  PROVE  TokenInv'
  BY <1>15 DEF BotDecides
<1>16. CASE UNCHANGED vars
  BY <1>16
<1> QED
  BY <1>1, <1>2, <1>3, <1>4, <1>5, <1>6, <1>7, <1>8, <1>9, <1>10, <1>11,
     <1>12, <1>13, <1>14, <1>15, <1>16
     DEF Next, Worker, Deliver

\* Every step keeps prompts and moves within their round.
LEMMA PromptNext == IInv /\ [Next]_vars => PromptInv'
<1> SUFFICES ASSUME IInv, [Next]_vars  PROVE  PromptInv'
  OBVIOUS
<1> USE BoundsAssumption
    DEF IInv, TypeOK, Line, NoLine, Event, Signal, Text, Window!WindowState,
        Window!setState, window, gui, clicks, stream, worker, vars,
        PromptInv, AttemptsLeft, NotYetPrompted, PromptIsThisRounds,
        MovesAnswerTheirPrompt, TokenInv, StartPending,
        RoundNotYetEnded, IdleMeansNoRound, InRound, NoneQueued
<1>1. CASE ClickStart
  BY <1>1 DEF ClickStart, Window!onStartRound, Stream!PushLine
<1>2. CASE ClickMove
  BY <1>2 DEF ClickMove, Window!pushMove, Stream!PushLine
<1>3. CASE ClickFinish
  BY <1>3 DEF ClickFinish, Window!onFinishButton, Stream!PushLine
<1>4. CASE Join
  BY <1>4 DEF Join
<1>5. CASE DeliverPrompt
  BY <1>5 DEF DeliverPrompt, Delivers, Window!onMovePrompt
<1>6. CASE DeliverScores
  BY <1>6 DEF DeliverScores, Delivers, Window!onScores
<1>7. CASE DeliverRoundFinished
  BY <1>7 DEF DeliverRoundFinished, Delivers, Window!onRoundFinished
<1>8. CASE DeliverGameFinished
  BY <1>8 DEF DeliverGameFinished, Delivers, Window!onGameFinished
<1>9. CASE LoopReadsLine
  BY <1>9 DEF LoopReadsLine, Stream!Getline
<1>10. CASE ShowResults
  BY <1>10 DEF ShowResults
<1>11. CASE ShowMovePrompt
  BY <1>11 DEF ShowMovePrompt
<1>12. CASE ReadAttempt
  BY <1>12 DEF ReadAttempt, Stream!Getline
<1>13. CASE ResolveRound
  BY <1>13 DEF ResolveRound
<1>14. CASE CloseWindow \/ LoopReadsEof \/ ReadEof
  BY <1>14 DEF CloseWindow, Stream!Close, LoopReadsEof, ReadEof, Stream!GetlineFails
<1>15. ASSUME NEW b \in Bots, BotDecides(b)  PROVE  PromptInv'
  BY <1>15 DEF BotDecides
<1>16. CASE UNCHANGED vars
  BY <1>16
<1> QED
  BY <1>1, <1>2, <1>3, <1>4, <1>5, <1>6, <1>7, <1>8, <1>9, <1>10, <1>11,
     <1>12, <1>13, <1>14, <1>15, <1>16
     DEF Next, Worker, Deliver

\* Every step keeps the final result last.
LEMMA OverNext == IInv /\ [Next]_vars => OverInv'
<1> SUFFICES ASSUME IInv, [Next]_vars  PROVE  OverInv'
  OBVIOUS
<1> USE BoundsAssumption
    DEF IInv, TypeOK, Line, NoLine, Event, Signal, Text, Window!WindowState,
        Window!setState, window, gui, clicks, stream, worker, vars,
        OverInv, OverComesLast, GameOverIsFinal
<1>1. CASE ClickStart
  BY <1>1 DEF ClickStart, Window!onStartRound, Stream!PushLine
<1>2. CASE ClickMove
  BY <1>2 DEF ClickMove, Window!pushMove, Stream!PushLine
<1>3. CASE ClickFinish
  BY <1>3 DEF ClickFinish, Window!onFinishButton, Stream!PushLine
<1>4. CASE Join
  BY <1>4 DEF Join
<1>5. CASE DeliverPrompt
  BY <1>5 DEF DeliverPrompt, Delivers, Window!onMovePrompt
<1>6. CASE DeliverScores
  BY <1>6 DEF DeliverScores, Delivers, Window!onScores
<1>7. CASE DeliverRoundFinished
  BY <1>7 DEF DeliverRoundFinished, Delivers, Window!onRoundFinished
<1>8. CASE DeliverGameFinished
  BY <1>8 DEF DeliverGameFinished, Delivers, Window!onGameFinished
<1>9. CASE LoopReadsLine
  BY <1>9 DEF LoopReadsLine, Stream!Getline
<1>10. CASE ShowResults
  BY <1>10 DEF ShowResults
<1>11. CASE ShowMovePrompt
  BY <1>11 DEF ShowMovePrompt
<1>12. CASE ReadAttempt
  BY <1>12 DEF ReadAttempt, Stream!Getline
<1>13. CASE ResolveRound
  BY <1>13 DEF ResolveRound
<1>14. CASE CloseWindow \/ LoopReadsEof \/ ReadEof
  BY <1>14 DEF CloseWindow, Stream!Close, LoopReadsEof, ReadEof, Stream!GetlineFails
<1>15. ASSUME NEW b \in Bots, BotDecides(b)  PROVE  OverInv'
  BY <1>15 DEF BotDecides
<1>16. CASE UNCHANGED vars
  BY <1>16
<1> QED
  BY <1>1, <1>2, <1>3, <1>4, <1>5, <1>6, <1>7, <1>8, <1>9, <1>10, <1>11,
     <1>12, <1>13, <1>14, <1>15, <1>16
     DEF Next, Worker, Deliver

\* Every step keeps the score table in step with the rounds.
LEMMA TableNext == IInv /\ [Next]_vars => TableInv'
<1> SUFFICES ASSUME IInv, [Next]_vars  PROVE  TableInv'
  OBVIOUS
<1> USE BoundsAssumption
    DEF IInv, TypeOK, Line, NoLine, Event, Signal, Text, Window!WindowState,
        Window!setState, window, gui, clicks, stream, worker, vars,
        TableInv, ScoresComeFirst, QueuedScoresAreCurrent,
        TableIsCurrent, TokenInv, RoundNotYetEnded, IdleMeansNoRound,
        RoundEndsLast, OverInv, OverComesLast, GameOverIsFinal,
        InRound, NoneQueued
<1>1. CASE ClickStart
  BY <1>1 DEF ClickStart, Window!onStartRound, Stream!PushLine
<1>2. CASE ClickMove
  BY <1>2 DEF ClickMove, Window!pushMove, Stream!PushLine
<1>3. CASE ClickFinish
  BY <1>3 DEF ClickFinish, Window!onFinishButton, Stream!PushLine
<1>4. CASE Join
  BY <1>4 DEF Join
<1>5. CASE DeliverPrompt
  <2>1. ScoresComeFirst'
    <3>1. Delivers("prompt")
      BY <1>5 DEF DeliverPrompt
    <3>2. table' = table
      BY <1>5, <3>1, Delivery DEF DeliverPrompt, Window!onMovePrompt
    <3> QED
      BY <3>1, <3>2, ScoresStayFirst DEF IInv
  <2>2. QueuedScoresAreCurrent'
    BY <1>5 DEF DeliverPrompt, Delivers, Window!onMovePrompt
  <2>3. TableIsCurrent'
    BY <1>5 DEF DeliverPrompt, Delivers, Window!onMovePrompt
  <2> QED
    BY <2>1, <2>2, <2>3
<1>6. CASE DeliverScores
  <2>1. ScoresComeFirst'
    <3>1. Delivers("scores")
      BY <1>6 DEF DeliverScores
    <3>2. table' = events[1].round
      BY <1>6, <3>1, Delivery DEF DeliverScores, Window!onScores
    <3> QED
      BY <3>1, <3>2, ScoresStayFirst DEF IInv
  <2>2. QueuedScoresAreCurrent'
    BY <1>6 DEF DeliverScores, Delivers, Window!onScores
  <2>3. TableIsCurrent'
    BY <1>6 DEF DeliverScores, Delivers, Window!onScores
  <2> QED
    BY <2>1, <2>2, <2>3
<1>7. CASE DeliverRoundFinished
  <2>1. ScoresComeFirst'
    <3>1. Delivers("round")
      BY <1>7 DEF DeliverRoundFinished
    <3>2. table' = table
      BY <1>7, <3>1, Delivery DEF DeliverRoundFinished, Window!onRoundFinished
    <3> QED
      BY <3>1, <3>2, ScoresStayFirst DEF IInv
  <2>2. QueuedScoresAreCurrent'
    BY <1>7 DEF DeliverRoundFinished, Delivers, Window!onRoundFinished
  <2>3. TableIsCurrent'
    BY <1>7 DEF DeliverRoundFinished, Delivers, Window!onRoundFinished
  <2> QED
    BY <2>1, <2>2, <2>3
<1>8. CASE DeliverGameFinished
  BY <1>8 DEF DeliverGameFinished, Delivers, Window!onGameFinished
<1>9. CASE LoopReadsLine
  BY <1>9 DEF LoopReadsLine, Stream!Getline
<1>10. CASE ShowResults
  BY <1>10 DEF ShowResults
<1>11. CASE ShowMovePrompt
  BY <1>11 DEF ShowMovePrompt
<1>12. CASE ReadAttempt
  BY <1>12 DEF ReadAttempt, Stream!Getline
<1>13. CASE ResolveRound
  <2>1. ScoresComeFirst'
    BY <1>13 DEF ResolveRound
  <2>2. QueuedScoresAreCurrent'
    BY <1>13 DEF ResolveRound
  <2>3. TableIsCurrent'
    BY <1>13 DEF ResolveRound
  <2> QED
    BY <2>1, <2>2, <2>3
<1>14. CASE CloseWindow \/ LoopReadsEof \/ ReadEof
  BY <1>14 DEF CloseWindow, Stream!Close, LoopReadsEof, ReadEof, Stream!GetlineFails
<1>15. ASSUME NEW b \in Bots, BotDecides(b)  PROVE  TableInv'
  BY <1>15 DEF BotDecides
<1>16. CASE UNCHANGED vars
  BY <1>16
<1> QED
  BY <1>1, <1>2, <1>3, <1>4, <1>5, <1>6, <1>7, <1>8, <1>9, <1>10, <1>11,
     <1>12, <1>13, <1>14, <1>15, <1>16
     DEF Next, Worker, Deliver

\* A pushed line comes, and those before it still do.
LEMMA PushedLinesCome ==
  ASSUME lines \in Seq(Line), NEW l \in Line, Stream!PushLine(l)
  PROVE  \A t : LineComes(t)' <=> (LineComes(t) \/ t = l.text)
<1> USE DEF Stream!PushLine, LineComes
<1>1. ASSUME NEW t, LineComes(t)'  PROVE  LineComes(t) \/ t = l.text
  BY <1>1
<1>2. ASSUME NEW t, LineComes(t)  PROVE  LineComes(t)'
  <2>1. PICK i \in DOMAIN lines : lines[i].text = t
    BY <1>2
  <2>2. i \in DOMAIN lines' /\ lines'[i] = lines[i]
    BY <2>1
  <2> QED
    BY <2>1, <2>2
<1>3. LineComes(l.text)'
  <2>1. Len(lines) + 1 \in DOMAIN lines' /\ lines'[Len(lines) + 1] = l
    OBVIOUS
  <2> QED
    BY <2>1
<1> QED
  BY <1>1, <1>2, <1>3

\* A getline takes one line and leaves the others.
LEMMA OtherLinesStillCome ==
  ASSUME lines \in Seq(Line), Stream!Getline
  PROVE  \A t : LineComes(t) => LineComes(t)' \/ t = line'.text
<1> SUFFICES ASSUME NEW t, LineComes(t), t # line'.text  PROVE  LineComes(t)'
  OBVIOUS
<1> USE DEF Stream!Getline, LineComes
<1>1. PICK i \in DOMAIN lines : lines[i].text = t
  OBVIOUS
<1>2. i # 1
  BY <1>1
<1>3. i - 1 \in DOMAIN lines' /\ lines'[i - 1] = lines[i]
  BY <1>1, <1>2
<1> QED
  BY <1>1, <1>3

\* A delivery takes one signal and leaves the others.
LEMMA OtherSignalsStillCome ==
  ASSUME events \in Seq(Event), NEW s, Delivers(s)
  PROVE  \A t : /\ SignalComes(t) => SignalComes(t)' \/ t = s
                /\ SignalComes(t)' => SignalComes(t)
<1>1. ASSUME NEW t, SignalComes(t), t # s  PROVE  SignalComes(t)'
  <2>1. PICK e \in DOMAIN events : events[e].signal = t
    BY <1>1 DEF SignalComes
  <2>2. e # 1 /\ events # <<>> /\ events' = Tail(events)
    BY <1>1, <2>1 DEF Delivers
  <2>3. e - 1 \in DOMAIN events' /\ events'[e - 1] = events[e]
    BY <2>1, <2>2
  <2> QED
    BY <2>1, <2>3 DEF SignalComes
<1>2. ASSUME NEW t, SignalComes(t)'  PROVE  SignalComes(t)
  BY <1>2, Delivery DEF SignalComes
<1> QED
  BY <1>1, <1>2

\* Every step leaves the window up to date, or news for it on its way.
LEMMA NewsNext == IInv /\ [Next]_vars => NewsInv'
<1> SUFFICES ASSUME IInv, [Next]_vars  PROVE  NewsInv'
  OBVIOUS
<1> USE DEF NewsInv, LoopNewsComes, PromptThenRound, PromptNewsComes, OverNewsComes,
            window, gui, clicks, stream, worker, Window!setState
<1>0. /\ NewsInv /\ lines \in Seq(Line) /\ events \in Seq(Event) /\ remaining \in 0..3
      /\ Text("start") \in Line /\ Text("start").text = "start"
      /\ Text("exit") \in Line /\ Text("exit").text = "exit"
  BY DEF IInv, TypeOK, Text, Line
<1>a. ASSUME UNCHANGED lines  PROVE  \A t : LineComes(t)' <=> LineComes(t)
  BY <1>a DEF LineComes
<1>b. ASSUME UNCHANGED events  PROVE  \A t : SignalComes(t)' <=> SignalComes(t)
  BY <1>b DEF SignalComes
<1>1. CASE ClickStart
  <2>1. \A t : LineComes(t)' <=> (LineComes(t) \/ t = "start")
    BY <1>0, <1>1, PushedLinesCome DEF ClickStart
  <2> QED
    BY <1>0, <1>1, <1>b, <2>1 DEF ClickStart, Window!onStartRound
<1>2. CASE ClickMove
  <2>1. LET l == [text |-> "move", round |-> prompted]
        IN  l \in Line /\ l.text = "move" /\ Stream!PushLine(l)
    BY <1>2 DEF ClickMove, IInv, TypeOK, Line
  <2>2. \A t : LineComes(t)' <=> (LineComes(t) \/ t = "move")
    BY <1>0, <2>1, PushedLinesCome
  <2> QED
    BY <1>0, <1>2, <1>b, <2>2 DEF ClickMove, Window!pushMove
<1>3. CASE ClickFinish
  <2>1. \A t : LineComes(t)' <=> (LineComes(t) \/ t = "exit")
    BY <1>0, <1>3, PushedLinesCome DEF ClickFinish
  <2> QED
    BY <1>0, <1>3, <1>b, <2>1 DEF ClickFinish, Window!onFinishButton
<1>4. CASE Join
  BY <1>4 DEF Join
<1>5. CASE DeliverPrompt
  <2>1. Delivers("prompt")
    BY <1>5 DEF DeliverPrompt
  <2>2. SignalComes("prompt")
    BY <1>0, <2>1, Delivery DEF SignalComes
  <2>3. phase = "open" /\ mState # "GameOver"
    BY <2>1 DEF Delivers, IInv, OverInv, GameOverIsFinal
  <2>4. pc = "finished" => SignalComes("over")'
    BY <1>0, <2>1, <2>3, OtherSignalsStillCome
  <2> QED
    BY <1>0, <1>5, <1>a, <2>1, <2>2, <2>4, OtherSignalsStillCome
       DEF DeliverPrompt, Window!onMovePrompt, Delivers
<1>6. CASE DeliverScores
  BY <1>0, <1>6, <1>a, OtherSignalsStillCome DEF DeliverScores, Window!onScores, Delivers
<1>7. CASE DeliverRoundFinished
  <2>1. Delivers("round")
    BY <1>7 DEF DeliverRoundFinished
  <2>2. ~SignalComes("prompt")
    <3>1. 1 \in DOMAIN events /\ events[1].signal = "round"
      BY <1>0, <2>1, Delivery
    <3> QED
      BY <1>0, <3>1 DEF SignalComes, IInv, TokenInv, RoundEndsLast
  <2>3. ~InRound
    BY <1>0, <2>1, Delivery DEF IInv, TokenInv, RoundNotYetEnded, NoneQueued
  <2> QED
    BY <1>0, <1>7, <1>a, <2>1, <2>2, <2>3, OtherSignalsStillCome
       DEF DeliverRoundFinished, Window!onRoundFinished, Delivers, InRound, IInv, OverInv,
           GameOverIsFinal
<1>8. CASE DeliverGameFinished
  <2>1. Delivers("over")
    BY <1>8 DEF DeliverGameFinished
  <2>2. pc = "finished"
    BY <1>0, <2>1, Delivery DEF IInv, OverInv, OverComesLast
  <2> QED
    BY <1>8, <2>1, <2>2 DEF DeliverGameFinished, Window!onGameFinished, Delivers
<1>9. CASE LoopReadsLine
  <2>1. pc = "loop" /\ pc' \in {"loop", "thinking", "results"}
    BY <1>9 DEF LoopReadsLine
  <2>2. pc' = "loop" => line'.text = "move"
    BY <1>9 DEF LoopReadsLine
  <2> QED
    BY <1>0, <1>9, <1>b, <2>1, <2>2, OtherLinesStillCome DEF LoopReadsLine
<1>10. CASE ShowResults
  <2>1. Signal("over", rounds) \in Event /\ Signal("over", rounds).signal = "over"
    BY DEF IInv, TypeOK, Signal, Event
  <2>2. Append(events, Signal("scores", rounds)) \in Seq(Event)
    BY <1>0 DEF IInv, TypeOK, Signal, Event
  <2>3. SignalComes("over")'
    BY <1>10, <2>1, <2>2 DEF ShowResults, SignalComes
  <2> QED
    BY <1>10, <2>3 DEF ShowResults
<1>11. CASE ShowMovePrompt
  <2>1. Signal("prompt", rounds + 1) \in Event /\ Signal("prompt", rounds + 1).signal = "prompt"
    BY DEF IInv, TypeOK, Signal, Event
  <2>2. SignalComes("prompt")'
    BY <1>0, <1>11, <2>1 DEF ShowMovePrompt, SignalComes
  <2> QED
    BY <1>11, <2>2 DEF ShowMovePrompt
<1>12. CASE ReadAttempt
  <2>1. pc = "reading" /\ pc' \in {"reading", "resolving"}
    BY <1>12 DEF ReadAttempt
  <2>2. pc' = "reading" => remaining' = remaining - 1
    BY <1>12 DEF ReadAttempt
  <2> QED
    BY <1>0, <2>1, <2>2
<1>13. CASE ResolveRound
  <2>1. /\ Signal("scores", rounds + 1) \in Event
        /\ Signal("round", rounds + 1) \in Event /\ Signal("round", rounds + 1).signal = "round"
    BY DEF IInv, TypeOK, Signal, Event
  <2>2. Append(events, Signal("scores", rounds + 1)) \in Seq(Event)
    BY <1>0, <2>1
  <2>3. SignalComes("round")'
    BY <1>13, <2>1, <2>2 DEF ResolveRound, SignalComes
  <2> QED
    BY <1>13, <2>3 DEF ResolveRound
<1>14. CASE CloseWindow \/ LoopReadsEof \/ ReadEof
  BY <1>0, <1>14, <1>a, <1>b DEF CloseWindow, Stream!Close, LoopReadsEof, ReadEof, Stream!GetlineFails
<1>15. ASSUME NEW b \in Bots, BotDecides(b)  PROVE  NewsInv'
  BY <1>0, <1>15, <1>a, <1>b DEF BotDecides
<1>16. CASE UNCHANGED vars
  BY <1>0, <1>16, <1>a, <1>b DEF vars
<1> QED
  BY <1>1, <1>2, <1>3, <1>4, <1>5, <1>6, <1>7, <1>8, <1>9, <1>10, <1>11,
     <1>12, <1>13, <1>14, <1>15, <1>16
     DEF Next, Worker, Deliver

\* The inductive invariant holds throughout.
LEMMA Invariant == Safety => []IInv
<1>1. IInv /\ [Next]_vars => IInv'
  BY TypeNext, TokenNext, PromptNext, OverNext, TableNext, NewsNext DEF IInv
<1> QED
  BY InitInvariant, <1>1, PTL DEF Safety

-----------------------------------------------------------------------------
\* Every variable of the composition keeps its type.
THEOREM TypeCorrect == Spec => []TypeOK
BY Invariant, PTL DEF IInv, Spec

\* "Start round" never costs the player a move attempt.
THEOREM StartNeverMisread == Spec => []StartNeverAnswersAPrompt
<1>1. IInv => StartNeverAnswersAPrompt
  BY DEF IInv, TokenInv, StartPending, StartNeverAnswersAPrompt, InRound
<1> QED
  BY Invariant, <1>1, PTL DEF Spec

\* A move never counts in a later round than the one it was made for.
THEOREM MovesStayInTheirRound == Spec => []MovesAnswerTheirPrompt
BY Invariant, PTL DEF IInv, PromptInv, Spec

\* As many rounds as clicks on "Start round", at most.
THEOREM RoundsAreRequested == Spec => []NoUnrequestedRound
<1>1. IInv => NoUnrequestedRound
  BY DEF IInv, TypeOK, TokenInv, RoundsWereRequested, NoUnrequestedRound
<1> QED
  BY Invariant, <1>1, PTL DEF Spec

\* Nothing follows "Game over".
THEOREM GameOverStays == Spec => []GameOverIsFinal
BY Invariant, PTL DEF IInv, OverInv, Spec

\* The table the player sees between rounds is the score of the rounds played.
THEOREM TableNeverLags == Spec => []TableIsCurrent
BY Invariant, PTL DEF IInv, TableInv, Spec

\* When nothing is in flight, window and worker agree on whose turn it is.
THEOREM QuietAlwaysAgrees == Spec => []QuietAgreement
<1>1. IInv => QuietAgreement
  BY DEF IInv, NewsInv, LoopNewsComes, PromptNewsComes, OverNewsComes, LineComes,
         SignalComes, QuietAgreement
<1> QED
  BY Invariant, <1>1, PTL DEF Spec

=============================================================================
