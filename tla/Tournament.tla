----------------------------- MODULE Tournament -----------------------------
(***************************************************************************)
(* A local tournament: TournamentManager's bracket and its matches on the  *)
(* worker thread, GameController::PlayTournamentRound with one std::async  *)
(* thread per opponent of the human, and GameWindow with LocalGameSession  *)
(* on the GUI thread.  TournamentManager was written for a console and     *)
(* waits for Enter before a round of the human: the session presses it.    *)
(*                                                                         *)
(* Which valid move a player makes is chosen when the round is scored.     *)
(***************************************************************************)
EXTENDS GameEngine, SequencesExt

CONSTANTS Human, Bots

Participants == {Human} \cup Bots

\* GameWorker::Config: a tournament has at least three opponents (SetupDialog).
ASSUME ParticipantsAssumption ==
  /\ Human \notin Bots
  /\ IsFiniteSet(Bots) /\ Cardinality(Bots) >= 3

VARIABLES
  mState, table,              \* the window; its table stays empty
  phase,                      \* "open"; "joining": inside stopWorker; "gone"
  events,                     \* signals emitted by the worker, not yet delivered
  lines, closed, line, eof,   \* the stream
  pc,                         \* where the worker is
  current,                    \* RunTournament's list of those still in
  bracket,                    \* this round's groups whose match has not started
  group,                      \* RunMatch's "current"; empty between matches
  nextRound,                  \* the winners of this round's matches
  thinking,                   \* opponents whose future is not ready
  remaining,                  \* ReadPlayerMove's attempts left
  forfeited,                  \* ReadPlayerMove returned Move::Invalid
  deltas                      \* the deltas PlayTournamentRound returned

gui     == <<mState, table, phase>>
stream  == <<lines, closed, line, eof>>
matches == <<current, bracket, group, nextRound>>
reader  == <<thinking, remaining, forfeited, deltas>>
vars    == <<gui, events, stream, pc, matches, reader>>

Line == {"enter", "move"}
NoLine == "none"

\* At most one line is ever waiting (LinesReachTheirReader): MaxPending is no bound.
Stream == INSTANCE LineQueue WITH pending <- lines, failed <- eof, MaxPending <- 3
Window == INSTANCE GameWindow WITH ManualRounds <- FALSE, Tournament <- TRUE

ContainsHuman(g) == Human \in ToSet(g)

Groups == UNION {[1..n -> Participants] : n \in 1..3}

TypeOK == /\ mState \in Window!WindowState /\ table = 0
          /\ phase \in {"open", "joining", "gone"}
          /\ ToSet(events) \subseteq {"enter", "prompt", "over"}
          /\ ToSet(lines) \subseteq Line
          /\ closed \in BOOLEAN /\ eof \in BOOLEAN /\ line \in Line \cup {NoLine}
          /\ pc \in {"bracket", "match", "round", "enter", "thinking", "reading",
                     "scoring", "scored", "finished"}
          /\ ToSet(current) \subseteq Participants
          /\ ToSet(bracket) \subseteq Groups
          /\ group = <<>> \/ group \in Groups
          /\ ToSet(nextRound) \subseteq Participants
          /\ thinking \subseteq Bots
          /\ remaining \in 0..3 /\ forfeited \in BOOLEAN
          /\ deltas = <<>> \/ deltas \in [DOMAIN group -> 0..2]

Init == /\ Window!Init /\ Stream!Init
        /\ phase = "open" /\ events = <<>>
        /\ pc = "bracket"
        /\ current = <<Human>> \o SetToSeq(Bots)
        /\ bracket = <<>> /\ group = <<>> /\ nextRound = <<>>
        /\ thinking = {} /\ remaining = 0 /\ forfeited = FALSE /\ deltas = <<>>

-----------------------------------------------------------------------------
(* The bracket.                                                            *)

\* Plausible mistake: the threshold for the last group is 2.
CreateBracketAlone(s) ==
  LET pairs == (Len(s) - 1) \div 2
  IN  [k \in 1 .. pairs + 1 |->
         IF k <= pairs THEN SubSeq(s, 2 * k - 1, 2 * k) ELSE SubSeq(s, 2 * pairs + 1, Len(s))]

\* Pairs in order, the last two or three as one group.
CreateBracket(s) ==
  LET pairs == (Len(s) - 2) \div 2
  IN  [k \in 1 .. pairs + 1 |->
         IF k <= pairs THEN SubSeq(s, 2 * k - 1, 2 * k) ELSE SubSeq(s, 2 * pairs + 1, Len(s))]

Shuffles(s) == {t \in [DOMAIN s -> ToSet(s)] : IsInjective(t)}

\* RunTournament's loop: those still in are shuffled into groups, or the last one
\* is the champion.
StartRound == /\ pc = "bracket" /\ Len(current) > 1
              /\ \E order \in Shuffles(current) : bracket' = CreateBracket(order)
              /\ pc' = "match"
              /\ UNCHANGED <<gui, events, stream, current, group, nextRound, reader>>

ShowTournamentWinner == /\ pc = "bracket" /\ Len(current) = 1
                        /\ events' = Append(events, "over")
                        /\ pc' = "finished"
                        /\ UNCHANGED <<gui, stream, matches, reader>>

StartMatch == /\ pc = "match" /\ bracket # <<>>
              /\ group' = Head(bracket) /\ bracket' = Tail(bracket)
              /\ pc' = "round"
              /\ UNCHANGED <<gui, events, stream, current, nextRound, reader>>

EndRound == /\ pc = "match" /\ bracket = <<>>
            /\ current' = nextRound /\ nextRound' = <<>>
            /\ pc' = "bracket"
            /\ UNCHANGED <<gui, events, stream, bracket, group, reader>>

-----------------------------------------------------------------------------
(* RunMatch and PlayTournamentRound.                                       *)

\* "Press Enter to play the round.", then a getline whose line is thrown away.
AskForEnter == /\ pc = "round" /\ ContainsHuman(group)
               /\ events' = Append(events, "enter")
               /\ pc' = "enter"
               /\ UNCHANGED <<gui, stream, matches, reader>>

\* Plausible mistake: nobody waits for the line that the session pushes.
ReadEnterNot == /\ pc = "enter"
                /\ pc' = "thinking" /\ thinking' = ToSet(group) \ {Human}
                /\ UNCHANGED <<gui, events, stream, matches, remaining, forfeited, deltas>>

\* Plausible mistake: the human is given a future too.
ReadEnterForAll == /\ pc = "enter"
                   /\ Stream!Getline \/ Stream!GetlineFails
                   /\ pc' = "thinking" /\ thinking' = ToSet(group)
                   /\ UNCHANGED <<gui, events, matches, remaining, forfeited, deltas>>

ReadEnter == /\ pc = "enter"
             /\ Stream!Getline \/ Stream!GetlineFails
             /\ pc' = "thinking" /\ thinking' = ToSet(group) \ {Human}
             /\ UNCHANGED <<gui, events, matches, remaining, forfeited, deltas>>

BotDecides(b) == /\ pc = "thinking" /\ b \in thinking
                 /\ thinking' = thinking \ {b}
                 /\ UNCHANGED <<gui, events, stream, pc, matches, remaining, forfeited, deltas>>

ShowMovePrompt == /\ pc = "thinking" /\ thinking = {}
                  /\ events' = Append(events, "prompt")
                  /\ pc' = "reading" /\ remaining' = 3
                  /\ UNCHANGED <<gui, stream, matches, thinking, forfeited, deltas>>

ReadAttempt ==
  /\ pc = "reading"
  /\ Stream!Getline
  /\ \/ line' = "move" /\ pc' = "scoring" /\ UNCHANGED <<remaining, forfeited>>
     \/ /\ line' # "move"
        /\ remaining' = remaining - 1
        /\ pc' = IF remaining > 1 THEN "reading" ELSE "scoring"
        /\ forfeited' = (remaining = 1)
  /\ UNCHANGED <<gui, events, matches, thinking, deltas>>

ReadEof == /\ pc = "reading"
           /\ Stream!GetlineFails
           /\ pc' = "scoring" /\ forfeited' = TRUE
           /\ UNCHANGED <<gui, events, matches, thinking, remaining, deltas>>

\* Bots among themselves pick their moves without a thread and without a pause.
PlayWithoutHuman == /\ pc = "round" /\ ~ContainsHuman(group)
                    /\ pc' = "scoring"
                    /\ UNCHANGED <<gui, events, stream, matches, reader>>

\* The deltas a round can end with.
RoundDeltas ==
  IF forfeited
  THEN {[i \in DOMAIN group |-> IF group[i] = Human THEN 0 ELSE 2]}
  ELSE {EvaluateRound(ms).deltas : ms \in [DOMAIN group -> ValidMove]}

ScoreRound == /\ pc = "scoring"
              /\ deltas' \in RoundDeltas
              /\ pc' = "scored" /\ forfeited' = FALSE
              /\ UNCHANGED <<gui, events, stream, matches, thinking, remaining>>

MaxDelta(d) == CHOOSE m \in ToSet(d) : \A i \in DOMAIN d : d[i] <= m

\* A draw repeats the round with the same group.
ReplayDraw == /\ pc = "scored" /\ MaxDelta(deltas) = 1
              /\ deltas' = <<>>
              /\ pc' = "round"
              /\ UNCHANGED <<gui, events, stream, matches, thinking, remaining, forfeited>>

\* Those with the largest delta, in the order of their seats.
Winners(players, d) ==
  LET won[n \in 0 .. Len(players)] ==
        IF n = 0 THEN <<>>
        ELSE IF d[n] = MaxDelta(d) THEN Append(won[n - 1], players[n])
        ELSE won[n - 1]
  IN  won[Len(players)]

EndMatch(winner) == /\ nextRound' = Append(nextRound, winner)
                    /\ group' = <<>>
                    /\ pc' = "match"

DecidingMatch(players) == /\ group' = players
                          /\ pc' = "round"
                          /\ UNCHANGED nextRound

\* Plausible mistake: the first of the co-winners is taken for the match winner.
NarrowToFirst == EndMatch(Winners(group, deltas)[1])

\* One winner ends the match; co-winners play a deciding match.
NarrowGroup == LET won == Winners(group, deltas)
               IN  IF Len(won) = 1 THEN EndMatch(won[1]) ELSE DecidingMatch(won)

DecideRound == /\ pc = "scored" /\ MaxDelta(deltas) # 1
               /\ NarrowGroup
               /\ deltas' = <<>>
               /\ UNCHANGED <<gui, events, stream, current, bracket, thinking, remaining, forfeited>>

-----------------------------------------------------------------------------
(* The GUI thread.                                                         *)

\* Plausible mistakes: the prompt is not recognised and only logged; the stream is
\* left open.
DeliverEnterLogged == /\ phase = "open" /\ events # <<>> /\ Head(events) = "enter"
                      /\ events' = Tail(events)
                      /\ UNCHANGED <<gui, stream, pc, matches, reader>>

CloseWindowStreamOpen == /\ phase = "open"
                         /\ phase' = "joining"
                         /\ UNCHANGED <<mState, table, events, stream, pc, matches, reader>>

\* onViewLog: the session presses Enter.
DeliverEnter == /\ phase = "open" /\ events # <<>> /\ Head(events) = "enter"
                /\ Stream!PushLine("enter")
                /\ events' = Tail(events)
                /\ UNCHANGED <<gui, pc, matches, reader>>

DeliverPrompt == /\ phase = "open" /\ events # <<>> /\ Head(events) = "prompt"
                 /\ Window!onMovePrompt
                 /\ events' = Tail(events)
                 /\ UNCHANGED <<phase, stream, pc, matches, reader>>

DeliverGameFinished == /\ phase = "open" /\ events # <<>> /\ Head(events) = "over"
                       /\ Window!onGameFinished
                       /\ events' = Tail(events)
                       /\ UNCHANGED <<phase, stream, pc, matches, reader>>

Deliver == DeliverEnter \/ DeliverPrompt \/ DeliverGameFinished

ClickMove == /\ phase = "open"
             /\ Window!pushMove
             /\ Stream!PushLine("move")
             /\ UNCHANGED <<phase, events, pc, matches, reader>>

\* "Quit" or the title bar: the session's destructor closes the stream, then
\* waits for the worker, which plays the tournament to its end.
CloseWindow == /\ phase = "open"
               /\ Stream!Close
               /\ phase' = "joining"
               /\ UNCHANGED <<mState, table, events, pc, matches, reader>>

Join == /\ phase = "joining" /\ pc = "finished"
        /\ phase' = "gone" /\ events' = <<>>
        /\ UNCHANGED <<mState, table, stream, pc, matches, reader>>

-----------------------------------------------------------------------------
Worker == \/ StartRound \/ ShowTournamentWinner \/ StartMatch \/ EndRound
          \/ AskForEnter \/ ReadEnter \/ (\E b \in Bots : BotDecides(b))
          \/ ShowMovePrompt \/ ReadAttempt \/ ReadEof \/ PlayWithoutHuman
          \/ ScoreRound \/ ReplayDraw \/ DecideRound

Next == Worker \/ Deliver \/ ClickMove \/ CloseWindow \/ Join

\* A round somebody wins.
DecisiveRound == ScoreRound /\ MaxDelta(deltas') # 1

\* Threads are scheduled.  Strong fairness of DecisiveRound stands for the dice: a
\* group does not draw for ever, which the code leaves to chance.
Fairness == /\ WF_vars(Worker) /\ WF_vars(Deliver) /\ WF_vars(Join)
            /\ SF_vars(DecisiveRound)

Spec == Init /\ [][Next]_vars /\ Fairness

-----------------------------------------------------------------------------
\* The lists that hold those who have not been eliminated.
Lists == IF pc \in {"bracket", "finished"} THEN <<current>>
         ELSE bracket \o <<group, nextRound>>

Members(lists) == UNION {ToSet(s) : s \in ToSet(lists)}

StillIn == Members(Lists)

OnePlaceEach(lists) ==
  \A k, l \in DOMAIN lists : \A i \in DOMAIN lists[k], j \in DOMAIN lists[l] :
    lists[k][i] = lists[l][j] => k = l /\ i = j

\* TournamentManager.cpp:26, "avoids leaving a lone participant": nobody meets an
\* empty chair, nobody is in two matches, a deciding match has two players, and
\* RunTournament's current[0] is there to be the champion.
MatchesArePlayable ==
  /\ StillIn # {}
  /\ OnePlaceEach(Lists)
  /\ \A g \in ToSet(bracket) : Len(g) \in {2, 3}
  /\ pc \in {"round", "enter", "thinking", "reading", "scoring", "scored"} => Len(group) \in {2, 3}

\* Nobody drops out but by losing: whoever leaves the tournament has just been
\* awarded nothing in a round that somebody else of the group won, and everybody
\* who lost that round leaves.  Co-winners are never told apart without a
\* deciding match (README.md:12, "single-elimination bracket"), and each decided
\* round sends somebody home, so that there are not more of them than bots.
LosersDropOut ==
  [][LET out == StillIn \ StillIn'
     IN  IF pc = "scored" /\ pc' # "scored" /\ MaxDelta(deltas) = 2
         THEN out # {} /\ out = {group[i] : i \in {i \in DOMAIN group : deltas[i] = 0}}
         ELSE out = {}]_vars

\* The line that the session pushes for "Press Enter" and the player's move share
\* a stream that is read in two places.  Neither is ever read in the other's
\* place, and so a player who stays never forfeits.
LinesReachTheirReader ==
  /\ pc = "enter"   => ToSet(lines) \subseteq {"enter"}
  /\ pc = "reading" => ToSet(lines) \subseteq {"move"}
  /\ pc \notin {"enter", "reading"} => lines = <<>>
  /\ forfeited => closed

\* A window that waits is asked for a move or told the champion, however many
\* matches are played without its player.
WaitingEnds ==
  (phase = "open" /\ mState = "Waiting") ~> (phase # "open" \/ mState # "Waiting")

\* Quitting returns: EOF does not stop the tournament, it makes the human forfeit,
\* and the bots play on to the end (LocalGameSession.cpp:66-67).
CloseReturns == (phase = "joining") ~> (phase = "gone")

=============================================================================
