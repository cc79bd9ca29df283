# Rock-Paper-Scissors-QT in TLA+

A verification development for the game in `src/`: a C++20 rock-paper-scissors
with a Qt window, local bots, a tournament mode and games over TCP. The rules
are small; what is hard is that every game is spread over several threads (and,
hosted, several machines) that talk through one line stream, queued signals and
sockets. Most of the specifications are about that.

Paths below are relative to `src/`.

## The system

| part | state it keeps | operations | talks to |
|---|---|---|---|
| `Backend/GameEngine` | none | `EvaluateRound`, `GetScore` | called by GameController |
| `Backend/GameController` | scores, names and strategies by position | `PlayRound`, `ReadPlayerMove`, `PlayTournamentRound`, `ShowResults` | one `std::async` thread per opponent; reads the stream; calls the view |
| `Backend/ZhejiangBot`, `RandomBot` | last move, last delta, has-played | `PickMove`, `NotifyResult` | called by GameController |
| `Backend/TournamentManager` | who is still in, the bracket, the current group | `RunTournament`, `CreateBracket`, `RunMatch` | GameController, the stream, the view |
| `QtView/QtView` | the running scoreboard, by name | the `IGameView` calls | emits signals, queued to the GUI thread |
| `QtView/MoveStream` | a queue of lines, closed, the get area | `PushLine`, `Close`, `underflow` | GUI thread on one side, worker on the other |
| `QtView/GameWorker` | its mode and controller | `run`, `runRegularLoop` | the worker thread's main function |
| `QtView/LocalGameSession` | stream, view, thread, worker | `start`, `requestStartRound`, `submitMove`, `requestFinish`, `onViewLog`, `stopWorker` | window above, worker below |
| `RockPaperScissors/GameWindow` | `mState`: Idle, Waiting, AwaitingMove, GameOver; the score table | five buttons, five signals, `closeEvent` | its session |
| `Network/RemotePlayerStrategy` | the supplied move, disconnected | `PickMove`, `SupplyMove`, `Disconnect` | async thread on one side, network thread on the other |
| `Network/NetworkServer` | clients, their strategies, in-game | accept, read, `startGame`, `stopGame`, broadcasts, `onDisconnected` | sockets, strategies |
| `Network/HostGameSession` | as LocalGameSession, and the server | as LocalGameSession | window, worker, server |
| `Network/NetworkClient`, `NetworkClientSession` | socket, frame buffer, ended | `connectToHost`, `handle`, `sendMove`, `requestFinish` | the host, its window |
| `Network/Protocol` | the frame reader's buffer | `encode`, `decode`, `append`, `next` | server and client |
| `RockPaperScissors/NetworkLobbyDialog` | the "Connect" button, the status line, the server or client it opened | open the lobby, start; connect, retry, cancel | server or client, then handed to the session |
| `SetupDialog`, `main` | the configuration | build one session | all of the above once |

Three kinds of thread take part: the GUI thread (window, session, server, all
sockets), the worker (game loop) and short-lived threads, one per opponent and
round. The GUI thread gives the worker lines through the MoveStream; the worker
answers with signals queued on the GUI thread's event loop; remote players'
moves go through one RemotePlayerStrategy each.

What is hard, and which property is about it, is listed line by line under
`hazards` in `PROJECT.json`. In short:

* notify calls outside the lock, spurious wakeups, closing a stream that still
  holds lines (MoveStream, RemotePlayer);
* one stream with two readers, the loop and `ReadPlayerMove`, and three kinds of
  line (RegularGame, Tournament);
* a window that acts on a state the worker has already left, since signals are
  queued (RegularGame, HostGame);
* moves that come too late, twice, or not at all; players who leave while their
  turn is on (HostGame);
* signals served twice, for the host's window and for the clients, with other events
  in between, and messages that come before the client's session listens (HostGame);
* teardown while the worker blocks (`CloseReturns` in three modules);
* messages cut at any byte, a reader that outlives its connection, connections
  that fail, break or come too late, handlers that nobody listens to yet, a
  client that finishes by itself (Lobby);
* forfeits in every branch of the round's evaluation (RoundTable);
* two scoreboards kept separately, and a bot whose rule spans two rounds
  (Scoring).

## The modules

```
GameEngine ── CommonLemmas (lemmas that several proofs need)
     ├────── RoundTable ─┬─ RoundProofs
     ├────── Scoring ────┘
     └────── Tournament ── TournamentProofs
LineQueue ◁── MoveStream ── MoveStreamProofs
     ├────── Tournament
     └────── RegularGame ── RegularGameProofs
GameWindow ── RegularGame, Tournament
RegularGame ◁── HostGame ── HostGameProofs
RemoteTurn  ◁── RemotePlayer ── RemotePlayerProofs
FrameReader ── ClientProgram ── Lobby ── LobbyProofs
```

`◁──` is refinement: the right-hand module implements the left-hand one, stated
as a temporal property, checked by TLC and proved. The other lines are EXTENDS or INSTANCE. Two modules stand for one
another without a line: Lobby sees of the game only that it asks for moves and
ends, and HostGame is about the rest; HostGame's channels carry whole messages,
which is what Lobby's `ReadsLoseNothing` shows of the bytes under them.

**GameEngine** has `EvaluateRound` and its helpers as operators over a sequence
of moves; seat 1 is the code's "player". **RoundTable** enumerates tables seat by
seat so that TLC visits every input (its specification is `TableSpec`, so that
RoundProofs can extend it together with Scoring).

**Scoring** is the data of `PlayRound` across rounds: the controller's scores by
position, QtView's by name, and the Zhejiang bot's memory. A round is one step.

**LineQueue** is what the MoveStream promises: an atomic FIFO whose `Getline`
takes the oldest line or fails for good once the queue is closed and empty.
**MoveStream** is the code, one step per critical section, the notify calls as
steps of their own, and wakeups that come for no reason. A line ends with the
only `'\n'` in it, so one `getline` drains one get area.

**GameWindow** has one action per handler of the window. It is instantiated by
each composition, which conjoins a handler with what the session does in the
same call. A score table is represented by the number of rounds it counts.

**RegularGame** is a local game: clicks push lines (`ClickStart`, `ClickMove`,
`ClickFinish`), the worker's loop and `ReadPlayerMove` take them with the
LineQueue's `Getline`, `ShowMovePrompt`, `ResolveRound` and `ShowResults` append
signals, `Deliver...` hands the oldest to the window. `CloseWindow` and `Join`
are the two halves of the session's destructor: between them the GUI thread
blocks, so nothing is clicked or delivered. Which move a line holds does not
matter here; each is tagged with the round whose prompt the player saw.

**RemoteTurn** and **RemotePlayer** are a remote player's seat: the atomic turn,
and the code with its mutex, its callback outside the lock and its notify calls.

**HostGame** is the RegularGame of the host's player (its actions are reused)
with the NetworkServer, the sockets as FIFO channels, and the clients. It begins
with `startGame`'s broadcast: `game_started` is on its way to clients who are still
in their join dialogs. One read can contain it and more (`ClientEnters`), and what
comes with it is emitted before `main` makes the session that listens: `lost`
records it. A dialog that `game_started` does not reach, since it ran into an
unfinished frame (see Lobby), ignores everything (`ClientStays`). Once its session
listens, a client hears one message at a time; it may click, stay silent, or leave
and lose what it had not sent. A signal of the worker is queued twice, for the
window's connection (`DeliverScores`, `DeliverRoundFinished`, `DeliverGameFinished`)
and behind it for the server's (`BroadcastSignal`); between the two, while
`casting` holds it, the event loop serves clicks, moves and disconnections, or the
session is torn down and the broadcast never happens. `StopGame`, `CloseStream` and
`Join` are the teardown of `HostGameSession::stopWorker` in its order; `CloseSocket`
drops an arbitrary suffix of what the host had not yet written.

**Tournament** is TournamentManager with `PlayTournamentRound` on the worker and
the session that answers "Press Enter". The shuffle is any permutation and the
bots' moves are any moves, which covers every strategy; the deltas come from
GameEngine's `EvaluateRound`.

**FrameReader** is the framing: the text of a message is one symbol, its `'\n'`
another, and the bytes of a connection can be cut between any two.

**ClientProgram** is the program of a player who joins: dialog, NetworkClient,
window and NetworkClientSession on one thread. Each handler is an operator from a
program to a program, so that a read which contains several messages is the fold
of its lines, all inside one event, as in `onReadyRead`. `screen` says who
listens: the dialog, nobody (`"accepted"`, between the dialog's end and the
session's `start`), or the session.

**Lobby** puts these programs together with the host's lobby dialog and
NetworkServer. A connection attempt is made, waits in the system's backlog, is
accepted, carries bytes, and may fail or break: each direction then loses
whatever was in flight from some byte on. A player may connect again, with the
same FrameReader, while the server still holds the old connection. Anybody may
quit at any time, which also stands for a crash: nothing is persisted, and what
others see is the end of the connection.

The `MC...` modules extend these for TLC. Definitions named `...Unguarded`,
`...Silently` and the like, under "plausible mistake", are not part of any
specification: `PROJECT.json` pairs each with a definition it can stand in for
and a property that then fails. `map` in `PROJECT.json` gives the source lines of
every definition that models code.

## What the runs check

| run | bounds | what it shows |
|---|---|---|
| `round_table` | every table of 1 to 5 moves, forfeits included | Winners are exactly the unbeaten moves; a draw is unanimity; with a valid player no forfeiter scores; a decided round has a winner and a loser |
| `scoring` | 4 seats: player, Zhejiang bot, guest, random bot; scores up to 4 | The two scoreboards agree when names differ; the Zhejiang bot plays what won the last decided round |
| `move_stream` | 2 lines, 3 pending | No lost wakeup, EOF last and for good, `getline` returns, refinement of LineQueue |
| `regular_game` | 2 bots, 3 rounds, 4 Finish clicks | Lines reach their reader, rounds were requested, the table is current, game over is final, window and worker agree when all is quiet, waiting ends, closing returns |
| `remote_player` | 4 moves (one garbled) | No lost wakeup, turns end, refinement of RemoteTurn |
| `host_game` | 2 remote players, 1 bot, 2 rounds, 1 Finish click | Types; refinement of RegularGame; moves answer their turn; nobody is waited for unprompted, and screens agree, but for what was read together with `game_started`; leaving players do not block; closing returns |
| `tournament` | 5 participants | Matches of two or three, losers and only losers drop out, lines reach their reader, waiting ends, quitting returns |
| `lobby` | 1 player, 2 connections, 1 turn for each seat | Whoever holds a seat sees a game and the reverse; welcomed players play under the name they chose; an ended session stays ended; no cut of the bytes loses or reorders a message; nobody waits for a host that does not answer; turns reach their player or are forfeited |
| `lost_prompt` | 1 player, 1 connection | violation, see below |
| `forfeited_bot`, `finish_in_a_round`, `shared_name` | as the run of their module | violations, see below |

Type invariants that a theorem establishes (RegularGame's, MoveStream's,
RemotePlayer's) are not checked again by a run; nor is `EofOnlyWhenDrained`,
which `EofIsLast` proves.

Why the bounds are enough. Three attempts are what a prompt allows, so four
Finish clicks reach a round forfeited by them, with one left for the loop; three
rounds let a move left over from the first meet the second and third. Two
remote players let turns overlap, one leave while the other plays, and a message
go to the wrong one; two rounds let a move survive its turn, and let a client that
lost the first round's prompt or table hear the second's. Five participants
are a pair, a group of three (hence a deciding match) and a final; with four
there is no group of three. Five seats hold every combination of three moves, a
forfeiter and a repeated move. Three pending lines are more than the worker can
have open. In the lobby, two connections of one player give the server two
clients at a time: a stale one and a new one, or one in the game and one in the
backlog. A second player multiplies the states beyond what TLC visits in
minutes, and meets the first only in the server's sets, which hold connections
and not players. One turn is enough since `AskTurn` cannot tell turns apart.

The bounds are the CONSTANTS `MaxSeats`, `MaxRounds`, `MaxFinish`, `MaxPending`,
`MaxConnections` and `MaxTurns`; they appear only in guards of environment actions
(clicks, pushes, the seats taken), in `Scoring!Next`, and in `Lobby!AskTurn`, where
the game stops asking.

### Fairness

Threads that can run do run: weak fairness of the worker, of the delivery of
queued signals, of the notify calls and of `QThread::wait`'s return; in HostGame
also of each client's event loop and of the server's reading; in Lobby of the
server's event loop (accepting and reading), of each client's reading, of the end
of a connection attempt (the system gives up some day), and of the closing of a
gone host's sockets, which the operating system does. Nothing is assumed of people: no run assumes that a player starts a round, moves, or closes. The
wakeups that come for no reason are not fair. Tournament has one strong fairness
condition, `DecisiveRound`: that a group which keeps replaying draws is decided
some day. The code leaves this to chance (it holds with probability 1: every
group has a bot, and after a draw every bot, the Zhejiang bot too, picks at
random); without it `RunMatch` need not end.

A `getline` in RegularGame, HostGame and Tournament is atomic and fair because
MoveStream refines LineQueue and satisfies `GetlineReturns`; a remote turn in
HostGame is the pair of its steps because RemotePlayer refines RemoteTurn and
satisfies `TurnEnds`.

Deadlock checking is off where the system stops by design: after the window has
gone, a full table, a bound reached, everybody has quit. RemotePlayer is checked with it.

### Where the code and its documentation disagree

* `lost_prompt`: `NetworkClientSession.h:7` says that the session forwards the
  client's signals to the window. `NetworkClient::onReadyRead` handles every
  message it has read in one loop; the dialog accepts on `game_started`, but the
  session connects to the client only when `exec()` has returned
  (`NetworkClientSession.cpp:13`). A `your_turn` in the same read is emitted to
  nobody: the window says Waiting, and the host waits for that player's move.
  What the rest of the game makes of it is in HostGame: `NobodyWaitsUnprompted` and
  `EveryScreenInSync` name the lost messages as their exception.
* `forfeited_bot`: `GameEngine.cpp:45-47` says a forfeiting bot never scores. When
  the player forfeits as well, the early return at line 41 gives it two points.
* `finish_in_a_round`: `GameWindow.cpp:157` says Finish ends the regular loop.
  During a round the `exit` line is read by `ReadPlayerMove` as an invalid
  attempt. The game goes on, and the window is set to Waiting. A prompt that was
  still queued is delivered after that, but one delivered before is not repeated, so
  the player has no buttons while the round waits for a move: `QuietAgreement` and
  `WaitingEnds` exclude just this case. A Finish clicked after the
  round's move is read by the loop and does end it.
* `shared_name`: `QtView.h:56` calls the scoreboard parallel lists of participants
  and scores. Rows are found by name, so two participants of one name, such as
  the "Player" the setup dialog proposes to host and guest, share a row.

Some properties name an exception, because the code behaves so and no run needs
to show it:

* Late joiners are not refused, as `NetworkServer.h:38` has it: `startGame` pauses
  accepting, so they stay in the backlog, connected and never answered
  (`JoinsAreAnswered`). Whoever follows `src/README.md:134-136`, which starts the
  game before the second copy is launched, is such a joiner.
* "Finish" on a client leaves its window in Waiting for good: `requestFinish` has
  emitted `gameFinished` before it returns, and `onPrimaryButton` then overwrites
  GameOver (`EndedSessionsStayEnded`).
* `connectToHost` keeps the FrameReader with the unfinished frame of the previous
  connection, which swallows the first message of the next one
  (`SeatsAreWindows`, `WelcomedPlayersKeepTheirName`, `JoinsAreAnswered`,
  `TurnsReachTheirPlayer`, `ReadsLoseNothing`). The history `missed` says which
  messages of the present connection went that way, or were handled between dialog
  and session; a new connection begins with none.

## What is proved

TLAPS checks the theorems below for every value of the constants. Every safety
property of a passing run is among them.

**CommonLemmas.** Two kinds of lemmas. Induction, stated for sets in place of
predicates so that the provers can instantiate it: a set of numbers that
contains 0 and every successor is `Nat` (from the well-foundedness of `<`), the
same up to a bound and for sequences. From these follows `LoopsHaveResults`, that
a loop of n turns passes through n + 1 values, which is what makes a recursive
function over `0..n` equal to its definition; all loops of the models are written
as such functions. And what `EvaluateRound` returns: `Wins` is a cardinality, so
seats are compared by inclusion of the sets of pairings they are credited with
(`MoreCredits`): an unbeaten valid move is credited with everything any other is, a
beaten one with strictly less than the move that beats it, unless all three
moves are on the table, which is the other branch.

**RoundProofs**, for RoundTable: `WinnersAreAlwaysUnbeaten`,
`DrawAlwaysMeansUnanimous`, `ForfeitersScoreNothing` and `DecidedRoundsNarrow`, for
tables of every size, from `MaxSeatsAssumption`. For Scoring, from
`NamesAssumption`: `PlaysWhatWonAlways`, that a Zhejiang bot plays the move that won
the last decided round, with any number of seats, bots and rounds. It combines
that all winners of a round played one move (`OneMoveWins`) with the invariant
`BotsRemember`, that each bot's memory is the round just played. And
`BoardAlwaysShowsScores`: if all display names differ, the board kept by name shows
the scores kept by position. The hypothesis is needed (`shared_name`); it is what
makes the n-th turn of QtView's loop find the n-th row, or append it
(`NextSeatEntered`).

**MoveStreamProofs.** Type correctness; `NeverLosesWakeup`, inductive with the
types because the only steps that make the predicate true also leave the GUI
thread about to notify; `EofIsLast`; and `Refinement`: each step of MoveStream is a
step of LineQueue or a stutter under the mapping in `MoveStream!LQ`. It uses
`LineAssumption` and that after `Close` the GUI thread pushes nothing.

**RegularGameProofs.** `TypeCorrect`, `StartNeverMisread`,
`MovesStayInTheirRound`, `RoundsAreRequested`, `GameOverStays`, `TableNeverLags` and
`QuietAlwaysAgrees`, for any bots and any number of clicks. None of these is
inductive: that no start line meets `ReadPlayerMove` depends on the window not
being Idle during a round, which depends on the order of the signals still
queued. The strengthening `IInv` is a token argument: a start line in the stream,
a round being played and a "round" signal in the queue are the three forms of one
token, at most one exists, and an Idle window has none. `PromptInv` ties a round's
prompt, and the moves that answer it, to that token; `OverInv` says that the final
result is the last signal; `TableInv` follows the scores through the queue;
`NewsInv` says that whenever window and worker disagree, the line or the signal
that will bring them together is on its way, so that they agree when all is quiet.
Each is preserved action by action.

**RemotePlayerProofs.** Type correctness, `NeverLosesWakeup` and `Refinement` of
RemoteTurn, from `MoveAssumption`.

**HostGameProofs.** `TypeCorrect`, `MovesAnswerTheirTurn`, `NobodyIsForgotten` and
`ScreensFollow`, for any set of remote players and bots (`SeatsAssumption`: nobody is
both) and any number of rounds. A remote player's turn takes four forms one after
the other: the request queued for the GUI thread, the `your_turn` on its
connection, the client's window that asks, the move on its way back.
`TokenInv` says that a player whose `PickMove` waits has exactly one of them and
any other has none, or that its prompt is among those `lost` in the hand-over from
the dialog, which gives both that an answer is never for another round and that
nobody is waited for unprompted otherwise. It holds of players whom the server
has not yet noticed as `gone`; for one who has left, `LeaveInv` says that the
disconnection is on its way to the server. The invariant needs
that nothing takes a prompt back: the round cannot end while anybody is picking
(`PickInv`), so while a token exists the host sends nothing but requests; a signal
that the window has had and the server has not yet (`casting`) comes before them.
`OverInv` says that the game over is the worker's last signal, and `ScreenInv` says of
each client's screen that it shows what the host shows, or that the message which
will make it so is still to be broadcast, or is on the connection with nothing after
it that undoes it, or was lost.

`HostedGameIsRegular` is the refinement: under a mapping that leaves the turn
requests out of the signal queue (`OwnSignals`), every step of a hosted game is a
step of RegularGame or changes nothing RegularGame sees. The lemmas it rests on
say what `OwnSignals` makes of an appended and of a removed signal.

**TournamentProofs**, for any number of participants. `LinesAlwaysReachTheirReader`:
the worker waits for at most one line, and its request, the window that asks and
the line itself are again one token. `MatchesAreAlwaysPlayable` and
`LosersAlwaysDropOut`: the invariant `Places` says that the groups still to play, the
group that plays and the winners so far are lists without a common member, none
of which names anybody twice. Shuffling keeps the members, because an injection
between finite sets of one size is onto (`ShufflesKeepMembers`); so does cutting
into pairs and a last group of two or three (`BracketOf`). In a match, only a
decided round moves anybody: `Rounds` says that the deltas in hand are one point
for everybody, or two for some and none for at least one other, which is the
engine's `DecidedDeltas`, `SomebodyIsUnbeaten` and `SomebodyIsBeaten`, or the
forfeit's; the loop of `Winners` collects exactly the former (`WinnersAre`). So
somebody is always still in, and every decided round sends somebody home.
`TournamentTypes` is `TypeOK`. All from
`ParticipantsAssumption`; that there are at least three bots is not needed.

**LobbyProofs**, for any number of players and connections, from
`BoundsAssumption`: `LobbyTypes`, `SeatsShow`, `WelcomedNames`, `SessionsEndOnce` and
`ReadersLoseNothing`. Everything rests on `FrameOf`: of the bytes that a reader holds
and those on their way to it, the first few may be left over from an earlier
connection, and the rest are the messages written and not yet handled, two
symbols each. So the lines that one read contains are the first messages that are
owed, one by one, except that the first line of a connection may have run into
what was left over. What a screen says follows from what may still be owed:
`SeatOf` (`game_started` goes to those who are seated), `NameOf` (`welcome` to those
whose name the server has), `EndOf` (nothing opens an ended session). The fold over
the lines of a read is a loop like the others (`Heard`), and each of these is
carried through it line by line.

Only model-checked: every liveness property (`GetlineReturns`, `TurnEnds`,
`WaitingEnds`, `CloseReturns`, `LeaversDoNotBlock`, `NobodyIsStranded`,
`TurnsReachTheirPlayer`): they depend on fairness, hence on ENABLED, which is out
of the prover's reach. The four violations are TLC's counterexamples.

## What is not modelled, and why

* Narration (`logMessage` texts; `ShowBotReady`, which only emits one), widgets,
  colours, `MoveToChar`: no state.
* The delays of `SimulateBotThinking`: any interleaving is allowed instead.
* Object lifetimes: that the server's raw pointers to strategies (`NetworkServer.cpp:134`)
  are dropped before the strategies are deleted. HostGame has which clients are
  `routed`, and nothing that a dangling pointer would change.
* Exceptions such as failing thread creation: the code does not handle them.
* The text of a message: JSON is Qt's. That a frame is complete, cut or run
  together with another is modelled (FrameReader); nobody sends a blank line.
* The list of names in the lobby's roster, error texts, and a `listen` that fails
  and changes nothing.
* `SetupDialog` and the rest of `main`, tests, build files: nothing over time.

## Plan

What is left, in the order of what it would add:

1. Lobby with two players and one connection each as a run, for rosters and
   names: the theorems cover it for safety, but nothing checks its liveness.
2. Safety halves of the liveness properties, as invariants that are proved: that
   a worker which waits for a line can still be given one (the window asks, or
   a signal, or the end of the stream is on its way).
