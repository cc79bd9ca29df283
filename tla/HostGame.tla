------------------------------ MODULE HostGame ------------------------------
(***************************************************************************)
(* A hosted game: the RegularGame of the host's own player, whose          *)
(* opponents are remote players beside AI bots, the NetworkServer on the   *)
(* host's main thread, and the clients at the other end of its sockets.    *)
(* The lobby is over: Remotes are the clients it had at startGame, which   *)
(* are still in their join dialogs when the game begins.                   *)
(*                                                                         *)
(* A remote player's seat is RemoteTurn (which RemotePlayer implements).   *)
(* A move is represented by the round whose prompt its player answered.    *)
(***************************************************************************)
EXTENDS Naturals, Sequences

CONSTANTS Remotes, AIBots, MaxRounds, MaxFinish

ASSUME SeatsAssumption == Remotes \cap AIBots = {}

VARIABLES
  \* RegularGame's
  mState, table, phase, prompted, starts, finishes, events,
  lines, closed, line, eof, pc, thinking, remaining, rounds,
  \* the remote players' strategies
  picking,        \* function: "away", "asking" (turn begun), "waiting" (client asked)
  mMove,          \* function: 0, or the round the supplied move was made for
  gone,           \* those with mDisconnected
  \* the server
  clients,        \* the keys of mClients
  routed,         \* clients whose strategy pointer is set
  casting,        \* a signal that the window has had and the server has not yet
  \* the network and the clients
  down, up,       \* functions: bytes in flight to and from each client, as messages
  cState,         \* functions: each client's window state, or "dialog", or "left";
  cRound, cTable, \* the round it was last prompted for; the rounds its table counts;
  lost            \* the messages it read when no session listened (history)

G == INSTANCE RegularGame WITH Bots <- Remotes \cup AIBots

game       == <<mState, table, phase, prompted, starts, finishes, events,
                lines, closed, line, eof, pc, thinking, remaining, rounds>>
strategies == <<picking, mMove, gone>>
server     == <<clients, routed, casting>>
screens    == <<cState, cRound, cTable, lost>>
network    == <<down, up, screens>>
remote     == <<strategies, server, network>>
vars       == <<game, remote>>

Message(t, n) == [type |-> t, round |-> n]
YourTurn(c)   == [signal |-> "your_turn", to |-> c, round |-> rounds + 1]

Connected(c) == c \in clients /\ cState[c] # "left"

\* What is written to the socket of a client that has left goes nowhere.
SendTo(c, m)  == down' = IF Connected(c) THEN [down EXCEPT ![c] = Append(@, m)] ELSE down
Broadcast(m)  == down' = [c \in Remotes |-> IF Connected(c) THEN Append(down[c], m)
                                                            ELSE down[c]]

Announced   == [signal : {"scores", "round", "over"}, round : Nat]
TurnRequest == [signal : {"your_turn"}, to : Remotes, round : Nat]
DownMessage == [type : {"game_started", "your_turn", "scores", "round_finished",
                        "game_finished", "disconnected"}, round : Nat]
UpMessage   == [type : {"move", "disconnected"}, round : Nat]

\* What the host's signals are called on the wire.
Announcement(e) ==
  Message([scores |-> "scores", round |-> "round_finished", over |-> "game_finished"][e.signal],
          e.round)

\* A strategy pointer is only kept for a client that is still in mClients.
TypeOK == /\ rounds \in Nat /\ events \in Seq(G!Event \cup TurnRequest)
          /\ picking \in [Remotes -> {"away", "asking", "waiting"}]
          /\ mMove \in [Remotes -> Nat]
          /\ gone \subseteq Remotes
          /\ clients \subseteq Remotes /\ routed \subseteq clients
          /\ casting \in Seq(Announced) /\ Len(casting) <= 1
          /\ down \in [Remotes -> Seq(DownMessage)] /\ up \in [Remotes -> Seq(UpMessage)]
          /\ cState \in [Remotes -> {"dialog", "Waiting", "AwaitingMove", "GameOver", "left"}]
          /\ cRound \in [Remotes -> Nat] /\ cTable \in [Remotes -> Nat]
          /\ lost \in [Remotes -> SUBSET DownMessage]

\* startGame: every client has a strategy, and game_started is on its way to it.
Init == /\ G!Init
        /\ picking = [c \in Remotes |-> "away"]
        /\ mMove = [c \in Remotes |-> 0] /\ gone = {}
        /\ clients = Remotes /\ routed = Remotes /\ casting = <<>>
        /\ down = [c \in Remotes |-> <<Message("game_started", 0)>>]
        /\ up = [c \in Remotes |-> <<>>]
        /\ cState = [c \in Remotes |-> "dialog"] /\ lost = [c \in Remotes |-> {}]
        /\ cRound = [c \in Remotes |-> 0] /\ cTable = [c \in Remotes |-> 0]

-----------------------------------------------------------------------------
(* Plausible mistakes, used only to show that the properties notice them.  *)

StopGameWithoutForfeit == /\ phase = "open"
                          /\ routed' = {}
                          /\ phase' = "stopping"
                          /\ UNCHANGED <<mState, table, prompted, starts, finishes, events,
                                         lines, closed, line, eof, pc, thinking, remaining,
                                         rounds, strategies, clients, casting, network>>

\* only the window is connected to scoresUpdated
DeliverScoresLocally == casting = <<>> /\ G!DeliverScores /\ UNCHANGED remote

\* the turn callback captures the loop variable instead of its copy
SendYourTurnToOne(c) == SendTo(CHOOSE d \in Remotes : TRUE, Message("your_turn", rounds + 1))

OnDisconnectedKeepsRoute(c) == /\ gone' = IF c \in routed THEN gone \cup {c} ELSE gone
                               /\ clients' = clients \ {c}
                               /\ UNCHANGED <<routed, casting, mMove>>

OnDisconnectedWithoutForfeit(c) == /\ clients' = clients \ {c}
                                   /\ routed' = routed \ {c}
                                   /\ UNCHANGED <<gone, casting, mMove>>

BeginTurnKeepingMove(c) == /\ picking' = [picking EXCEPT ![c] = "asking"]
                           /\ UNCHANGED <<game, mMove, gone, server, network>>

FirstAnswerEndsTurns(c) == /\ thinking' = {}
                           /\ picking' = [picking EXCEPT ![c] = "away"]
                           /\ UNCHANGED <<mState, table, phase, prompted, starts, finishes,
                                          events, lines, closed, line, eof, pc, remaining,
                                          rounds, mMove, gone, server, network>>

-----------------------------------------------------------------------------
(* The host's main thread: clicks and teardown.                            *)

HostClicks == (G!ClickStart \/ G!ClickMove \/ G!ClickFinish) /\ UNCHANGED remote

\* HostGameSession::stopWorker tears the routing down before it closes the
\* stream: stopGame forfeits every remote player and forgets its strategy.
StopGame == /\ phase = "open"
            /\ gone' = gone \cup routed
            /\ routed' = {}
            /\ phase' = "stopping"
            /\ UNCHANGED <<mState, table, prompted, starts, finishes, events,
                           lines, closed, line, eof, pc, thinking, remaining, rounds,
                           picking, mMove, clients, casting, network>>

CloseStream == /\ phase = "stopping"
               /\ G!Stream!Close
               /\ phase' = "joining"
               /\ UNCHANGED <<mState, table, prompted, starts, finishes, events,
                              pc, thinking, remaining, rounds, remote>>

Join == /\ G!Join
        /\ casting' = <<>>
        /\ UNCHANGED <<strategies, clients, routed, network>>

\* The session destroys the server and with it the sockets: what has not been
\* written out yet is lost.
CloseSocket(c) ==
  /\ phase = "gone" /\ c \in clients
  /\ clients' = clients \ {c}
  /\ \E n \in 0..Len(down[c]) :
       down' = [down EXCEPT ![c] = IF cState[c] = "left" THEN <<>>
                                   ELSE Append(SubSeq(@, 1, n), Message("disconnected", 0))]
  /\ UNCHANGED <<game, strategies, routed, casting, up, screens>>

-----------------------------------------------------------------------------
(* The host's main thread: signals of the worker.  Each is queued once for *)
(* every connection, the window's first and the server's behind it, and    *)
(* between the two the event loop may serve clicks and sockets.            *)

DeliverPrompt == casting = <<>> /\ G!DeliverPrompt /\ UNCHANGED remote

\* The window's connection has been served; the server's is next in the queue.
Cast == /\ casting = <<>>
        /\ casting' = <<Head(events)>>
        /\ UNCHANGED <<strategies, clients, routed, network>>

DeliverScores        == G!DeliverScores /\ Cast
DeliverRoundFinished == G!DeliverRoundFinished /\ Cast
DeliverGameFinished  == G!DeliverGameFinished /\ Cast

\* The server's connection: broadcastScores, broadcastRoundFinished or
\* broadcastGameFinished.
BroadcastSignal == /\ phase = "open"
                   /\ casting # <<>>
                   /\ casting' = <<>>
                   /\ Broadcast(Announcement(casting[1]))
                   /\ UNCHANGED <<game, strategies, clients, routed, up, screens>>

SendYourTurn(c) == SendTo(c, Message("your_turn", Head(events).round))

\* The turn request that PickMove marshalled onto this thread.
DeliverTurnRequest == /\ casting = <<>>
                      /\ G!Delivers("your_turn")
                      /\ SendYourTurn(Head(events).to)
                      /\ UNCHANGED <<mState, table, prompted, strategies, server, up, screens>>

Deliver == \/ DeliverPrompt \/ DeliverScores \/ DeliverRoundFinished
           \/ DeliverGameFinished \/ BroadcastSignal \/ DeliverTurnRequest

-----------------------------------------------------------------------------
(* The host's main thread: messages of a client.                           *)

SupplyMove(c, n) == /\ mMove' = IF c \in routed \ gone THEN [mMove EXCEPT ![c] = n] ELSE mMove
                    /\ UNCHANGED <<gone, server>>

OnDisconnected(c) == /\ gone' = IF c \in routed THEN gone \cup {c} ELSE gone
                     /\ clients' = clients \ {c}
                     /\ routed' = routed \ {c}
                     /\ UNCHANGED <<mMove, casting>>

ServerReads(c) == /\ phase = "open"
                  /\ up[c] # <<>>
                  /\ up' = [up EXCEPT ![c] = Tail(@)]
                  /\ \/ /\ Head(up[c]).type = "move"
                        /\ SupplyMove(c, Head(up[c]).round)
                     \/ /\ Head(up[c]).type = "disconnected"
                        /\ OnDisconnected(c)
                  /\ UNCHANGED <<game, picking, down, screens>>

-----------------------------------------------------------------------------
(* A remote player's task in PlayRound: PickMove.                          *)

BeginTurn(c) == /\ picking' = [picking EXCEPT ![c] = "asking"]
                /\ mMove' = [mMove EXCEPT ![c] = 0]
                /\ UNCHANGED <<game, gone, server, network>>

RequestTurn(c) == /\ picking[c] = "asking"
                  /\ picking' = [picking EXCEPT ![c] = "waiting"]
                  /\ events' = Append(events, YourTurn(c))
                  /\ UNCHANGED <<mState, table, phase, prompted, starts, finishes,
                                 lines, closed, line, eof, pc, thinking, remaining, rounds,
                                 mMove, gone, server, network>>

\* PickMove returns: the future is ready.
EndTurn(c) == /\ G!BotDecides(c)
              /\ picking' = [picking EXCEPT ![c] = "away"]
              /\ UNCHANGED <<mMove, gone, server, network>>

PickMove(c) ==
  /\ pc = "thinking" /\ c \in thinking
  /\ \/ picking[c] = "away" /\ c \notin gone /\ BeginTurn(c)
     \/ picking[c] = "away" /\ c \in gone /\ EndTurn(c)
     \/ RequestTurn(c)
     \/ picking[c] = "waiting" /\ (mMove[c] # 0 \/ c \in gone) /\ EndTurn(c)

HostWorker == /\ \/ G!LoopReadsLine \/ G!LoopReadsEof \/ G!ShowResults
                 \/ \E b \in AIBots : G!BotDecides(b)
                 \/ G!ShowMovePrompt \/ G!ReadAttempt \/ G!ReadEof \/ G!ResolveRound
              /\ UNCHANGED remote

-----------------------------------------------------------------------------
(* A client: NetworkClient, its join dialog, its session and its window.   *)

\* One read of n messages, the first of them game_started: the dialog accepts, but
\* onReadyRead goes on, and only then does main make the session that listens.
ClientEnters(c) ==
  /\ cState[c] = "dialog"
  /\ \E n \in 1..Len(down[c]) :
       /\ down[c][1].type = "game_started"
       /\ \A i \in 1..n : down[c][i].type # "disconnected"
       /\ down' = [down EXCEPT ![c] = SubSeq(@, n + 1, Len(@))]
       /\ lost' = [lost EXCEPT ![c] = @ \cup {down[c][i] : i \in 2..n}]
  /\ cState' = [cState EXCEPT ![c] = "Waiting"]
  /\ UNCHANGED <<game, strategies, server, up, cRound, cTable>>

\* A dialog that game_started does not reach, because it ran into the unfinished
\* frame of an earlier connection (see Lobby), ignores the game.
ClientStays(c) ==
  /\ cState[c] = "dialog"
  /\ down[c] # <<>>
  /\ down' = [down EXCEPT ![c] = Tail(@)]
  /\ lost' = [lost EXCEPT ![c] = @ \cup {Head(down[c])}]
  /\ cState' = [cState EXCEPT ![c] = IF Head(down[c]).type = "disconnected" THEN "left" ELSE @]
  /\ UNCHANGED <<game, strategies, server, up, cRound, cTable>>

\* A window whose session listens: one message after the other.
ClientHears(c) ==
  LET m == Head(down[c]) IN
  /\ cState[c] \notin {"dialog", "left"}
  /\ down[c] # <<>>
  /\ down' = [down EXCEPT ![c] = Tail(@)]
  /\ cState' = [cState EXCEPT ![c] =
       IF m.type = "your_turn" THEN "AwaitingMove"
       ELSE IF m.type \in {"game_finished", "disconnected"} THEN "GameOver"
       ELSE IF m.type = "round_finished" /\ @ # "GameOver" THEN "Waiting" ELSE @]
  /\ cRound' = [cRound EXCEPT ![c] = IF m.type = "your_turn" THEN m.round ELSE @]
  /\ cTable' = [cTable EXCEPT ![c] = IF m.type = "scores" THEN m.round ELSE @]
  /\ UNCHANGED <<game, strategies, server, up, lost>>

ClientReads(c) == ClientEnters(c) \/ ClientStays(c) \/ ClientHears(c)

\* The player clicks a move; sendMove writes it if the socket is connected.
ClientMoves(c) ==
  /\ cState[c] = "AwaitingMove"
  /\ cState' = [cState EXCEPT ![c] = "Waiting"]
  /\ up' = IF c \in clients THEN [up EXCEPT ![c] = Append(@, Message("move", cRound[c]))] ELSE up
  /\ UNCHANGED <<game, strategies, server, down, cRound, cTable, lost>>

\* "Finish", closing the window, or a crash, which also loses what the socket has
\* not sent yet.
ClientLeaves(c) ==
  /\ cState[c] # "left"
  /\ cState' = [cState EXCEPT ![c] = "left"]
  /\ \E n \in 0..Len(up[c]) :
       up' = IF c \in clients
             THEN [up EXCEPT ![c] = Append(SubSeq(@, 1, n), Message("disconnected", 0))]
             ELSE up
  /\ down' = [down EXCEPT ![c] = <<>>]
  /\ UNCHANGED <<game, strategies, server, cRound, cTable, lost>>

-----------------------------------------------------------------------------
Next == \/ HostClicks \/ StopGame \/ CloseStream \/ Join
        \/ Deliver
        \/ HostWorker
        \/ \E c \in Remotes : \/ CloseSocket(c) \/ ServerReads(c) \/ PickMove(c)
                              \/ ClientReads(c) \/ ClientMoves(c) \/ ClientLeaves(c)

\* Threads are scheduled, the host's event loop serves signals and sockets,
\* messages arrive.  No player need ever click anything.
Fairness == /\ WF_vars(HostWorker) /\ WF_vars(Deliver)
            /\ WF_vars(CloseStream) /\ WF_vars(Join)
            /\ \A c \in Remotes : /\ WF_vars(PickMove(c)) /\ WF_vars(ServerReads(c))
                                  /\ WF_vars(ClientReads(c)) /\ WF_vars(CloseSocket(c))

Spec == Init /\ [][Next]_vars /\ Fairness

-----------------------------------------------------------------------------
\* The worker's signals among the first n of a queue: all but the turn requests.
OwnAmong(s) ==
  LET own[n \in 0..Len(s)] ==
        IF n = 0 THEN <<>>
        ELSE IF s[n].signal = "your_turn" THEN own[n - 1] ELSE Append(own[n - 1], s[n])
  IN  own

OwnSignals(s) == OwnAmong(s)[Len(s)]

\* Remote players and their network do not disturb the host's own game: with the
\* turn requests left out of the signals it is a RegularGame, so whatever that
\* guarantees about lines, prompts, rounds and the table holds here as well.
R == INSTANCE RegularGame
     WITH Bots   <- Remotes \cup AIBots,
          events <- OwnSignals(events),
          phase  <- IF phase = "stopping" THEN "open" ELSE phase
ImplementsRegularGame == R!Safety

\* A move that a remote player's turn ends with was made for this round, never
\* left over from an earlier one (RemotePlayerStrategy.cpp:8).
RemoteMovesAnswerTheirTurn ==
  \A c \in Remotes : picking[c] # "away" => mMove[c] \in {0, rounds + 1}

\* The host never waits for a player who does not know it: if nothing is on its
\* way between them, the client's window is asking for this round's move.  The
\* exception is a prompt that the client read when no session listened, together
\* with game_started or in a dialog that game_started did not reach.
NobodyWaitsUnprompted ==
  \A c \in Remotes :
    /\ phase = "open" /\ picking[c] = "waiting" /\ mMove[c] = 0 /\ c \notin gone
    /\ events = <<>> /\ down[c] = <<>> /\ up[c] = <<>>
    => \/ cState[c] = "AwaitingMove" /\ cRound[c] = rounds + 1
       \/ Message("your_turn", rounds + 1) \in lost[c]

\* README: "every screen stays in sync".  When the host's signals have been sent
\* on and a client has read all of them, it shows the host's table, and the end of
\* the game just when the host does.  The exception is, again, the table or the
\* end that it read when no session listened; the next table makes up for it.
EveryScreenInSync ==
  \A c \in Remotes :
    phase = "open" /\ cState[c] # "left" /\ casting = <<>> /\ down[c] = <<>> =>
      /\ cTable[c] = table \/ Message("scores", table) \in lost[c]
      /\ cState[c] = "GameOver" => mState = "GameOver"
      /\ mState = "GameOver" => \/ cState[c] = "GameOver"
                                \/ \E m \in lost[c] : m.type = "game_finished"

\* Closing the host's window always returns, even while a round waits for remote
\* players who never answer (NetworkServer.h:41-43).
CloseReturns == (phase = "stopping") ~> (phase = "gone")

\* "forfeit so the round can resolve" (NetworkServer.cpp:166): a round that only
\* waits for players who have left goes on.
LeaversDoNotBlock ==
  (pc = "thinking" /\ \A c \in thinking \cap Remotes : cState[c] = "left")
    ~> (pc # "thinking")

=============================================================================
