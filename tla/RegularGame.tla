---------------------------- MODULE RegularGame -----------------------------
(***************************************************************************)
(* A local regular game: GameWindow and LocalGameSession on the GUI        *)
(* thread, GameWorker's loop with GameController on the worker thread, and *)
(* one std::async thread per opponent.  The GUI thread talks to the worker *)
(* through the MoveStream (here the LineQueue it implements); the worker   *)
(* talks back through signals queued on the GUI thread's event loop.       *)
(*                                                                         *)
(* Which move is made and what a round scores is RoundTable's subject: a   *)
(* valid move is one kind of line here.                                    *)
(***************************************************************************)
EXTENDS Naturals, Sequences

CONSTANTS Bots,        \* the opponents
          MaxRounds,   \* bound: clicks on "Start round"
          MaxFinish    \* bound: clicks on "Finish game"

ASSUME BoundsAssumption == MaxRounds \in Nat /\ MaxFinish \in Nat

VARIABLES
  mState, table,              \* the window
  phase,                      \* "open"; "joining": inside stopWorker; "gone"
  prompted,                   \* the round of the last prompt the window showed
  starts, finishes,           \* clicks so far
  events,                     \* signals emitted by the worker, not yet delivered
  lines, closed, line, eof,   \* the stream
  pc,                         \* where the worker is
  thinking,                   \* opponents whose future is not ready
  remaining,                  \* ReadPlayerMove's attempts left
  rounds                      \* rounds evaluated

window == <<mState, table>>
clicks == <<starts, finishes>>
gui    == <<window, phase, prompted, clicks>>
stream == <<lines, closed, line, eof>>
worker == <<pc, thinking, remaining, rounds>>
vars   == <<gui, events, stream, worker>>

\* A move line is tagged with the round whose prompt the player saw.
Line   == [text : {"start", "exit"}, round : {0}] \cup [text : {"move"}, round : Nat]
NoLine == [text |-> "none", round |-> 0]
Text(t) == [text |-> t, round |-> 0]

\* A prompt is tagged with its round, scores with the rounds they count.
Event == [signal : {"prompt", "scores", "round", "over"}, round : Nat]
Signal(s, n) == [signal |-> s, round |-> n]

Stream == INSTANCE LineQueue WITH pending <- lines, failed <- eof,
                                  MaxPending <- 2 * MaxRounds + MaxFinish
Window == INSTANCE GameWindow WITH ManualRounds <- TRUE, Tournament <- FALSE

InRound == pc \in {"thinking", "reading", "resolving"}

TypeOK == /\ mState \in Window!WindowState /\ table \in Nat
          /\ phase \in {"open", "joining", "gone"}
          /\ prompted \in Nat
          /\ starts \in 0..MaxRounds /\ finishes \in 0..MaxFinish
          /\ events \in Seq(Event)
          /\ lines \in Seq(Line) /\ closed \in BOOLEAN
          /\ line \in Line \cup {NoLine} /\ eof \in BOOLEAN
          /\ pc \in {"loop", "thinking", "reading", "resolving", "results", "finished"}
          /\ thinking \in SUBSET Bots
          /\ remaining \in 0..3
          /\ rounds \in Nat

Init == /\ Window!Init /\ Stream!Init
        /\ phase = "open" /\ prompted = 0
        /\ starts = 0 /\ finishes = 0
        /\ events = <<>>
        /\ pc = "loop" /\ thinking = {} /\ remaining = 0 /\ rounds = 0

-----------------------------------------------------------------------------
(* Plausible mistakes, used only to show that the properties notice them:  *)
(* each stands in for the definition it is named after.                    *)

CloseWindowStreamOpen == /\ phase = "open"
                         /\ phase' = "joining"
                         /\ UNCHANGED <<window, prompted, clicks, events, stream, worker>>

LoopReadsLineMoveStarts ==
  /\ pc = "loop"
  /\ Stream!Getline
  /\ IF line'.text = "exit" THEN pc' = "results" /\ UNCHANGED thinking
                            ELSE pc' = "thinking" /\ thinking' = Bots
  /\ UNCHANGED <<gui, events, remaining, rounds>>

ResolveRoundStaleScores ==
  /\ pc = "resolving"
  /\ rounds' = rounds + 1
  /\ events' = events \o <<Signal("scores", rounds), Signal("round", rounds)>>
  /\ pc' = "loop"
  /\ UNCHANGED <<gui, stream, thinking, remaining>>

ResolveRoundUnannounced ==
  /\ pc = "resolving"
  /\ rounds' = rounds + 1
  /\ events' = Append(events, Signal("scores", rounds + 1))
  /\ pc' = "loop"
  /\ UNCHANGED <<gui, stream, thinking, remaining>>

-----------------------------------------------------------------------------
(* The GUI thread: the player's clicks.                                    *)

ClickStart == /\ phase = "open" /\ starts < MaxRounds
              /\ Window!onStartRound
              /\ Stream!PushLine(Text("start"))
              /\ starts' = starts + 1
              /\ UNCHANGED <<phase, prompted, finishes, events, worker>>

ClickMove == /\ phase = "open"
             /\ Window!pushMove
             /\ Stream!PushLine([text |-> "move", round |-> prompted])
             /\ UNCHANGED <<phase, prompted, clicks, events, worker>>

ClickFinish == /\ phase = "open" /\ finishes < MaxFinish
               /\ Window!onFinishButton
               /\ Stream!PushLine(Text("exit"))
               /\ finishes' = finishes + 1
               /\ UNCHANGED <<phase, prompted, starts, events, worker>>

\* closeEvent: by the title bar at any time, or by "Close" after the game.
\* The session's destructor closes the stream and then waits for the worker.
CloseWindow == /\ phase = "open"
               /\ Stream!Close
               /\ phase' = "joining"
               /\ UNCHANGED <<window, prompted, clicks, events, worker>>

\* QThread::wait returns; signals still queued for the session die with it.
Join == /\ phase = "joining" /\ pc = "finished"
        /\ phase' = "gone"
        /\ events' = <<>>
        /\ UNCHANGED <<window, prompted, clicks, stream, worker>>

-----------------------------------------------------------------------------
(* The GUI thread: queued signals, delivered in the order they were sent.  *)

Delivers(s) == /\ phase = "open"
               /\ events # <<>>
               /\ Head(events).signal = s
               /\ events' = Tail(events)
               /\ UNCHANGED <<phase, clicks, stream, worker>>

DeliverPrompt == /\ Delivers("prompt")
                 /\ Window!onMovePrompt
                 /\ prompted' = Head(events).round

DeliverScores == /\ Delivers("scores")
                 /\ Window!onScores(Head(events).round)
                 /\ UNCHANGED prompted

DeliverRoundFinished == /\ Delivers("round")
                        /\ Window!onRoundFinished
                        /\ UNCHANGED prompted

DeliverGameFinished == /\ Delivers("over")
                       /\ Window!onGameFinished
                       /\ UNCHANGED prompted

Deliver == DeliverPrompt \/ DeliverScores \/ DeliverRoundFinished \/ DeliverGameFinished

-----------------------------------------------------------------------------
(* The worker thread: runRegularLoop.                                      *)

LoopReadsLine == /\ pc = "loop"
                 /\ Stream!Getline
                 /\ \/ /\ line'.text = "start"
                       /\ pc' = "thinking" /\ thinking' = Bots
                    \/ /\ line'.text = "exit"
                       /\ pc' = "results" /\ UNCHANGED thinking
                    \/ /\ line'.text = "move"
                       /\ UNCHANGED <<pc, thinking>>
                 /\ UNCHANGED <<gui, events, remaining, rounds>>

LoopReadsEof == /\ pc = "loop"
                /\ Stream!GetlineFails
                /\ pc' = "results"
                /\ UNCHANGED <<gui, events, thinking, remaining, rounds>>

ShowResults == /\ pc = "results"
               /\ events' = Append(Append(events, Signal("scores", rounds)), Signal("over", rounds))
               /\ pc' = "finished"
               /\ UNCHANGED <<gui, stream, thinking, remaining, rounds>>

-----------------------------------------------------------------------------
(* The worker thread: GameController::PlayRound and ReadPlayerMove.        *)

\* An opponent's task ends: its future is ready.
BotDecides(b) == /\ pc = "thinking" /\ b \in thinking
                 /\ thinking' = thinking \ {b}
                 /\ UNCHANGED <<gui, events, stream, pc, remaining, rounds>>

\* Every future has been taken, so the player is asked.
ShowMovePrompt == /\ pc = "thinking" /\ thinking = {}
                  /\ events' = Append(events, Signal("prompt", rounds + 1))
                  /\ pc' = "reading" /\ remaining' = 3
                  /\ UNCHANGED <<gui, stream, thinking, rounds>>

\* One getline of ReadPlayerMove: a move ends it, anything else costs an attempt.
ReadAttempt ==
  /\ pc = "reading"
  /\ Stream!Getline
  /\ \/ /\ line'.text = "move"
        /\ pc' = "resolving" /\ UNCHANGED remaining
     \/ /\ line'.text # "move"
        /\ remaining' = remaining - 1
        /\ pc' = IF remaining > 1 THEN "reading" ELSE "resolving"
  /\ UNCHANGED <<gui, events, thinking, rounds>>

ReadEof == /\ pc = "reading"
           /\ Stream!GetlineFails
           /\ pc' = "resolving"
           /\ UNCHANGED <<gui, events, thinking, remaining, rounds>>

\* EvaluateRound, ShowRoundResult and the scores.  Nobody but the GUI thread can
\* see the two signals, which it takes from the queue one at a time.
ResolveRound ==
  /\ pc = "resolving"
  /\ rounds' = rounds + 1
  /\ events' = Append(Append(events, Signal("scores", rounds + 1)), Signal("round", rounds + 1))
  /\ pc' = "loop"
  /\ UNCHANGED <<gui, stream, thinking, remaining>>

-----------------------------------------------------------------------------
Worker == \/ LoopReadsLine \/ LoopReadsEof \/ ShowResults
          \/ \E b \in Bots : BotDecides(b)
          \/ ShowMovePrompt \/ ReadAttempt \/ ReadEof \/ ResolveRound

Next == \/ ClickStart \/ ClickMove \/ ClickFinish \/ CloseWindow \/ Join
        \/ Deliver
        \/ Worker

Safety == Init /\ [][Next]_vars

\* Threads are scheduled: the worker takes the steps it can, opponents finish
\* thinking, the event loop delivers, QThread::wait returns.  The player need
\* not do anything.  That a getline with an answer returns is what MoveStream's
\* GetlineReturns shows.
Fairness == WF_vars(Worker) /\ WF_vars(Deliver) /\ WF_vars(Join)

Spec == Safety /\ Fairness

-----------------------------------------------------------------------------
\* The empty line of "Start round" is never swallowed as a move attempt, although
\* both go through one stream: whenever ReadPlayerMove is reading, no such line is
\* in the stream (GameWorker.cpp:64, GameController.cpp:72).
StartNeverAnswersAPrompt ==
  pc = "reading" => \A i \in DOMAIN lines : lines[i].text # "start"

\* A move counts in the round whose prompt the player answered: one that comes
\* too late for its round (after forfeits by "exit" lines) is skipped by the
\* loop and never carried over into the next round.
MovesAnswerTheirPrompt ==
  pc = "reading" =>
    \A i \in DOMAIN lines : lines[i].text = "move" => lines[i].round = rounds + 1

\* Every round was asked for with a click of its own.
NoUnrequestedRound == rounds + (IF InRound THEN 1 ELSE 0) <= starts

\* Once the window says "Game over" nothing can arrive that changes it again:
\* the worker has ended and its last signal was the final result.
GameOverIsFinal == mState = "GameOver" => pc = "finished" /\ events = <<>>

\* Whenever the window lets the player start a round, or says that the game is
\* over, its table counts exactly the rounds played.
TableIsCurrent == mState \in {"Idle", "GameOver"} => table = rounds

\* When nothing is in flight either way, window and worker agree on whose turn it
\* is: no prompt, round end or game end was lost or overtaken.  (A "Finish"
\* during the player's turn, which costs an attempt, is the exception.)
QuietAgreement ==
  phase = "open" /\ events = <<>> /\ lines = <<>> =>
    /\ pc = "loop" => mState = "Idle"
    /\ pc = "reading" /\ remaining = 3 => mState = "AwaitingMove"
    /\ pc = "finished" => mState = "GameOver"

\* The window does not wait for ever: its player is asked for a move, can start a
\* round, or has left.  The one exception is a "Finish" that ReadPlayerMove took
\* for a move attempt: the prompt is used up and is not repeated.
WaitingEnds ==
  (phase = "open" /\ mState = "Waiting")
    ~> (phase # "open" \/ mState # "Waiting" \/ (pc = "reading" /\ remaining < 3))

\* Closing the window always returns, whatever the worker was doing: EOF unwinds
\* it (LocalGameSession.cpp:44-46).
CloseReturns == (phase = "joining") ~> (phase = "gone")

\* GameWindow.cpp:157 says of "Finish game": "regular loop ends -> ShowResults ->
\* gameFinished".  So the loop never sits waiting for a line with nothing left to
\* read after "Finish" was clicked.
FinishEndsTheLoop == phase = "open" /\ finishes > 0 /\ lines = <<>> => pc # "loop"

=============================================================================
