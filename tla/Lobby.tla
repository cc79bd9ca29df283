------------------------------- MODULE Lobby --------------------------------
(***************************************************************************)
(* From the lobby into a hosted game and out of it: the host's lobby       *)
(* dialog and NetworkServer on one side, the programs of the players who   *)
(* join on the other, and between them TCP connections that are made, wait *)
(* to be accepted, carry bytes, and may break at any byte.                 *)
(*                                                                         *)
(* Once the game runs, all that matters here is that it asks its remote    *)
(* players for moves and ends; HostGame is about the rest.                 *)
(***************************************************************************)
EXTENDS ClientProgram, FiniteSets

CONSTANTS Players,
          MaxConnections,  \* bound: connections attempted
          MaxTurns         \* bound: moves asked of one seat

ASSUME BoundsAssumption == MaxConnections \in Nat /\ MaxTurns \in Nat

VARIABLES
  \* the host
  host,          \* "setup", "lobby", "game" (mInGame), "gone"
  mClients,      \* the connections in the server's map
  named,         \* those whose hello has been handled
  seats,         \* those with a strategy in the running game
  ownName,       \* seats that play under the name their player chose
  asked,         \* seats whose PickMove waits for a move
  turns,         \* function: moves asked of a connection's seat
  over,          \* the game has ended (ShowResults)
  \* the network
  made,          \* connections attempted so far
  backlog,       \* established by the system, not yet accepted by the server
  down, up,      \* functions: bytes to the player, messages to the host
  owed,          \* function: messages written to the player and not yet read (history)
  \* the players
  program

lobby   == <<host, mClients, named>>
game    == <<seats, ownName, asked, turns, over>>
network == <<made, backlog, down, up, owed>>
vars    == <<lobby, game, network, program>>

Connection == 1..MaxConnections
Closed == "closed"     \* the end of a stream

Open(s) == \A i \in DOMAIN s : s[i] # Closed
Bytes(s) == IF Open(s) THEN s ELSE Front(s)

\* out: the messages written to each connection.  What is written to one that the
\* other side has closed goes nowhere.
Write(out) ==
  /\ down' = [c \in Connection |-> IF Open(down[c]) THEN down[c] \o Encoded(out[c]) ELSE down[c]]
  /\ owed' = [c \in Connection |-> IF Open(down[c]) THEN owed[c] \o out[c] ELSE owed[c]]

Broadcast(C, m) == Write([c \in Connection |-> IF c \in C THEN <<m>> ELSE <<>>])

BroadcastRoster(C) == Broadcast(C, "lobby")

Init == /\ host = "setup" /\ mClients = {} /\ named = {}
        /\ seats = {} /\ ownName = {} /\ asked = {}
        /\ turns = [c \in Connection |-> 0] /\ over = FALSE
        /\ made = 0 /\ backlog = {}
        /\ down = [c \in Connection |-> <<>>] /\ up = [c \in Connection |-> <<>>]
        /\ owed = [c \in Connection |-> <<>>]
        /\ program = [p \in Players |-> JoinDialog]

-----------------------------------------------------------------------------
(* Plausible mistakes, used only to show that the properties notice them.  *)

OnNewConnectionWelcomes(c) ==
  /\ host = "lobby"
  /\ c \in backlog
  /\ backlog' = backlog \ {c}
  /\ mClients' = mClients \cup {c}
  /\ Broadcast({c}, "welcome")
  /\ UNCHANGED <<host, named, game, made, up, program>>

StartGameWithoutTheUnnamed ==
  /\ host = "lobby"
  /\ host' = "game"
  /\ seats' = named
  /\ ownName' = named
  /\ Broadcast(mClients, "game_started")
  /\ UNCHANGED <<mClients, named, asked, turns, over, made, backlog, up, program>>

OnDisconnectedKeepsSeat(c) ==
  /\ mClients' = mClients \ {c} /\ named' = named \ {c}
  /\ asked' = asked \ {c}
  /\ IF host = "lobby" THEN BroadcastRoster(mClients') ELSE UNCHANGED <<down, owed>>
  /\ UNCHANGED <<host, seats, ownName, turns, over>>

OnDisconnectedWithoutForfeit(c) ==
  /\ mClients' = mClients \ {c} /\ named' = named \ {c}
  /\ IF host = "lobby" THEN BroadcastRoster(mClients') ELSE UNCHANGED <<down, owed>>
  /\ UNCHANGED <<host, game>>

AskTurnAfterTheEnd(c) ==
  /\ host = "game"
  /\ c \in seats \ asked
  /\ turns[c] < MaxTurns
  /\ turns' = [turns EXCEPT ![c] = @ + 1]
  /\ asked' = asked \cup {c}
  /\ Broadcast({c}, "your_turn")
  /\ UNCHANGED <<lobby, seats, ownName, over, made, backlog, up, program>>

-----------------------------------------------------------------------------
(* The host's lobby dialog and NetworkServer.                              *)

\* "Open lobby": listen.
OpenLobby == /\ host = "setup"
             /\ host' = "lobby"
             /\ UNCHANGED <<mClients, named, game, network, program>>

\* startGame pauses accepting, so the branch for late joiners is never reached:
\* they stay in the backlog.
OnNewConnection(c) == /\ host = "lobby"
                      /\ c \in backlog
                      /\ backlog' = backlog \ {c}
                      /\ mClients' = mClients \cup {c}
                      /\ UNCHANGED <<host, named, game, made, down, up, owed, program>>

\* "Start game": main builds the session, whose start() calls startGame before
\* the event loop runs again.
StartGame == /\ host = "lobby"
             /\ host' = "game"
             /\ seats' = mClients
             /\ ownName' = named
             /\ Broadcast(mClients, "game_started")
             /\ UNCHANGED <<mClients, named, asked, turns, over, made, backlog, up, program>>

\* hello is answered in the lobby and in the game alike.
Hello(c) == /\ named' = named \cup {c}
            /\ Write([d \in Connection |-> IF d = c THEN <<"welcome", "lobby">>
                                           ELSE IF d \in mClients THEN <<"lobby">> ELSE <<>>])
            /\ UNCHANGED <<host, mClients, game>>

\* A move is dropped outside a game; inside, it ends the turn.
SupplyMove(c) == /\ asked' = IF host = "game" THEN asked \ {c} ELSE asked
                 /\ UNCHANGED <<lobby, seats, ownName, turns, over, down, owed>>

\* The seat forfeits, and the game plays on without it.
OnDisconnected(c) ==
  /\ mClients' = mClients \ {c} /\ named' = named \ {c}
  /\ seats' = seats \ {c} /\ asked' = asked \ {c}
  /\ IF host = "lobby" THEN BroadcastRoster(mClients') ELSE UNCHANGED <<down, owed>>
  /\ UNCHANGED <<host, ownName, turns, over>>

ServerReads(c) == /\ c \in mClients
                  /\ up[c] # <<>>
                  /\ up' = [up EXCEPT ![c] = Tail(@)]
                  /\ \/ Head(up[c]) = "hello" /\ Hello(c)
                     \/ Head(up[c]) = "move"  /\ SupplyMove(c)
                     \/ Head(up[c]) = Closed  /\ OnDisconnected(c)
                  /\ UNCHANGED <<made, backlog, program>>

\* A round reaches the seat's PickMove, and sendYourTurn its client.
AskTurn(c) == /\ host = "game" /\ ~over
              /\ c \in seats \ asked
              /\ turns[c] < MaxTurns
              /\ turns' = [turns EXCEPT ![c] = @ + 1]
              /\ asked' = asked \cup {c}
              /\ Broadcast({c}, "your_turn")
              /\ UNCHANGED <<lobby, seats, ownName, over, made, backlog, up, program>>

\* The host ends the game between two rounds.
FinishGame == /\ host = "game" /\ ~over
              /\ asked = {}
              /\ over' = TRUE
              /\ Broadcast(mClients, "game_finished")
              /\ UNCHANGED <<lobby, seats, ownName, asked, turns, made, backlog, up, program>>

\* "Cancel", the end of the session, or a crash: the server and its sockets go.
HostQuits == /\ host # "gone"
             /\ host' = "gone"
             /\ mClients' = {} /\ named' = {} /\ seats' = {} /\ asked' = {}
             /\ UNCHANGED <<ownName, turns, over, network, program>>

-----------------------------------------------------------------------------
(* The network.                                                            *)

\* The system completes the handshake whenever the port is open, and the client
\* says hello at once.
ConnectionMade(p) ==
  LET c == program[p].link IN
  /\ program[p].socket = "connecting"
  /\ host \in {"lobby", "game"}
  /\ program' = [program EXCEPT ![p].socket = "connected"]
  /\ backlog' = backlog \cup {c}
  /\ up' = [up EXCEPT ![c] = <<"hello">>]
  /\ UNCHANGED <<lobby, game, made, down, owed>>

ConnectionFails(p) == /\ program[p].socket = "connecting"
                      /\ program' = [program EXCEPT ![p] = onSocketError(@)]
                      /\ UNCHANGED <<lobby, game, network>>

\* A connection ends: each direction loses what is in flight from some byte on.
Break(p) ==
  LET c == program[p].link IN
  /\ Connected(program[p]) /\ Open(down[c])
  /\ \E n \in 0..Len(down[c]) : down' = [down EXCEPT ![c] = Append(SubSeq(@, 1, n), Closed)]
  /\ \E n \in {0, Len(up[c])} : up' = [up EXCEPT ![c] = Append(SubSeq(@, 1, n), Closed)]
  /\ UNCHANGED <<lobby, game, made, backlog, owed, program>>

\* Messages on their way to the host.
Unread(p) == IF Connected(program[p]) THEN Len(Bytes(up[program[p].link])) ELSE 0

\* The player's end is closed: n messages still get through.
CloseLink(p, n) ==
  LET c == program[p].link IN
  IF Connected(program[p])
  THEN /\ down' = [down EXCEPT ![c] = <<Closed>>]
       /\ owed' = [owed EXCEPT ![c] = <<>>]
       /\ up' = [up EXCEPT ![c] = IF Open(@) THEN Append(SubSeq(@, 1, n), Closed) ELSE @]
  ELSE UNCHANGED <<down, owed, up>>

-----------------------------------------------------------------------------
(* A player's program: its socket.                                         *)

\* readyRead: whatever has arrived, cut anywhere.
OnReadyRead(p) ==
  LET c == program[p].link IN
  /\ Connected(program[p])
  /\ \E n \in 1..Len(Bytes(down[c])) :
       LET bytes == SubSeq(down[c], 1, n)
           lines == LinesAmong(bytes)[n]
       IN  /\ down' = [down EXCEPT ![c] = SubSeq(@, n + 1, Len(@))]
           /\ owed' = [owed EXCEPT ![c] = SubSeq(@, lines + 1, Len(@))]
           /\ program' = [program EXCEPT ![p] = onReadyRead(@, bytes)]
  /\ UNCHANGED <<lobby, game, made, backlog, up>>

OnDisconnect(p) == /\ Connected(program[p])
                   /\ down[program[p].link] = <<Closed>>
                   /\ program' = [program EXCEPT ![p] = onDisconnected(@)]
                   /\ CloseLink(p, 0)
                   /\ UNCHANGED <<lobby, game, made, backlog>>

-----------------------------------------------------------------------------
(* A player's program: the buttons.                                        *)

ClickConnect(p) == /\ program[p].screen = "dialog"
                   /\ program[p].canConnect
                   /\ made < MaxConnections
                   /\ made' = made + 1
                   /\ program' = [program EXCEPT ![p] = connectToHost(@, made')]
                   /\ UNCHANGED <<lobby, game, backlog, down, up, owed>>

ClickMove(p) ==
  LET c == program[p].link IN
  /\ program[p].screen = "window"
  /\ program[p].mState = "AwaitingMove"
  /\ program' = [program EXCEPT ![p] = pushMove(@)]
  /\ up' = IF Connected(program[p]) /\ Open(up[c]) THEN [up EXCEPT ![c] = Append(@, "move")]
                                                   ELSE up
  /\ UNCHANGED <<lobby, game, made, backlog, down, owed>>

ClickFinish(p) == /\ program[p].screen = "window"
                  /\ program[p].mState # "GameOver"
                  /\ program' = [program EXCEPT ![p] = onPrimaryButton(@)]
                  /\ CloseLink(p, Unread(p))
                  /\ UNCHANGED <<lobby, game, made, backlog>>

Quit(p) == /\ program[p].screen # "gone"
           /\ program' = [program EXCEPT ![p] = quit(@)]
           /\ \E n \in {0, Unread(p)} : CloseLink(p, n)
           /\ UNCHANGED <<lobby, game, made, backlog>>

-----------------------------------------------------------------------------
ServerRuns == \E c \in Connection : OnNewConnection(c) \/ ServerReads(c)

Host == \/ OpenLobby \/ StartGame \/ FinishGame \/ HostQuits
        \/ ServerRuns
        \/ \E c \in Connection : AskTurn(c)

Attempt(p) == ConnectionMade(p) \/ ConnectionFails(p)

Reads(p) == OnReadyRead(p) \/ OnDisconnect(p)

Next == \/ Host
        \/ \E p \in Players :
             \/ Attempt(p) \/ Break(p)
             \/ Reads(p)
             \/ ClickConnect(p) \/ ClickMove(p) \/ ClickFinish(p) \/ Quit(p)

\* Event loops run and the network delivers; a connection attempt comes to an
\* end; the sockets of a host that is gone are closed.  Nobody need click.
Fairness == /\ WF_vars(ServerRuns)
            /\ \A p \in Players : /\ WF_vars(Attempt(p))
                                  /\ WF_vars(Reads(p))
                                  /\ WF_vars(host = "gone" /\ Break(p))

Spec == Init /\ [][Next]_vars /\ Fairness

-----------------------------------------------------------------------------
\* Types: every seat is a client's, and every turn a seat's, at all times.
TypeOK ==
  /\ host \in {"setup", "lobby", "game", "gone"}
  /\ mClients \subseteq Connection /\ named \subseteq mClients
  /\ seats \subseteq mClients /\ asked \subseteq seats /\ ownName \subseteq Connection
  /\ turns \in [Connection -> 0..MaxTurns] /\ over \in BOOLEAN
  /\ made \in 0..MaxConnections /\ backlog \subseteq Connection \ mClients
  /\ down \in [Connection -> Seq(Symbol \cup {Closed})] /\ owed \in [Connection -> Seq(Message)]
  /\ up \in [Connection -> Seq({"hello", "move", Closed})]
  /\ program \in [Players -> Program]

\* The end of c is under way.
Ending(c) == ~Open(up[c]) \/ ~Open(down[c])

\* Those who hold a seat are those who see a game (NetworkServer::startGame seats
\* whoever is connected, and the dialog leaves on game_started): a connected
\* window belongs to a seat, and a seat's player is at the window, or game_started
\* is still on its way.  The one exception is a game_started that ran into an
\* unfinished frame of an earlier connection (NetworkClient::connectToHost keeps
\* the reader): then the seat's player stays in the dialog.
SeatsAreWindows ==
  \A p \in Players :
    LET c == program[p].link IN
    Connected(program[p]) /\ ~Ending(c) /\ host = "game" =>
      /\ program[p].screen = "window" => c \in seats
      /\ c \in seats /\ program[p].screen = "dialog" =>
           \/ Contains(owed[c], "game_started")
           \/ "game_started" \in program[p].missed

\* A player who was told "Connected", and has not heard that the game started,
\* plays under the name it chose: startGame takes the name from hello, which may
\* come later than the connection, or during the game (handleMessage).
WelcomedPlayersKeepTheirName ==
  \A p \in Players :
    /\ program[p].screen = "dialog" /\ program[p].welcomed
    /\ program[p].link \in seats
    => \/ program[p].link \in ownName
       \/ "game_started" \in program[p].missed

\* Once the session has ended (game_finished, the disconnection or the "Finish
\* game" button, in any order), nothing that arrives later opens the window
\* again.  After "Finish game" onPrimaryButton leaves it in Waiting, for good.
EndedSessionsStayEnded ==
  \A p \in Players :
    program[p].screen = "window" /\ program[p].mEnded =>
      program[p].mState = IF program[p].finished THEN "Waiting" ELSE "GameOver"

\* However the bytes are cut, what a FrameReader holds and what is on its way are
\* exactly the messages written and not yet handled; when the connection breaks,
\* only the last of them are lost.  It holds of a reader that was empty when its
\* connection began.
ReadsLoseNothing ==
  \A p \in Players :
    LET c == program[p].link
        arriving == program[p].mBuffer \o Bytes(down[c])
    IN  Connected(program[p]) /\ program[p].fresh =>
          IF Open(down[c]) THEN arriving = Encoded(owed[c])
                           ELSE IsPrefix(arriving, Encoded(owed[c]))

\* A click on "Connect" is answered: by the welcome, the game or an error.  The
\* exceptions are the code's: who comes while the game is on stays in the paused
\* server's backlog, and a welcome or a game_started can be lost to an unfinished
\* frame of an earlier connection.
JoinsAreAnswered ==
  \A p \in Players :
    (program[p].screen = "dialog" /\ ~program[p].canConnect /\ ~program[p].welcomed)
      ~> \/ program[p].screen # "dialog" \/ program[p].canConnect \/ program[p].welcomed
         \/ host = "game" /\ program[p].link \in backlog
         \/ {"welcome", "game_started"} \cap program[p].missed # {}

\* Once the host is gone, a window's game ends and a dialog can connect again,
\* even if the final result was lost with the host's sockets.
HostsEndIsSeen ==
  \A p \in Players :
    host = "gone" ~> program[p].screen = "gone" \/ program[p].canConnect \/ program[p].mEnded

\* Nobody is left waiting for a host that does not answer: beginConnect disables
\* the "Connect" button and the window waits, and only errorOccurred and the
\* session's disconnected handler undo that.
NobodyIsStranded == JoinsAreAnswered /\ HostsEndIsSeen

\* A turn that the host waits for ends, or its player can end it: the prompt gets
\* to a window with the move buttons enabled, unless it was handled before the
\* session listened or lost to an unfinished frame; the turn of a player whose
\* connection ended, however it ended, is forfeited (onDisconnected).
TurnsReachTheirPlayer ==
  \A c \in Connection :
    c \in asked ~> \/ c \notin asked
                   \/ \E p \in Players :
                        program[p].link = c /\ (\/ program[p].mState = "AwaitingMove"
                                                \/ {"game_started", "your_turn"}
                                                     \cap program[p].missed # {})

\* What the client session is for ("It forwards the client's incoming view-event
\* signals to the GameWindow"): once a connected player has handled everything
\* that was sent to it, and sent no move, its turn is offered.
PromptsReachTheWindow ==
  \A p \in Players :
    LET c == program[p].link IN
    c \in asked /\ owed[c] = <<>> /\ up[c] = <<>> /\ Open(down[c]) =>
      program[p].mState = "AwaitingMove"

=============================================================================
