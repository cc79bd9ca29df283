--------------------------- MODULE HostGameProofs ---------------------------
(***************************************************************************)
(* For any set of remote players: their moves count in the round they were *)
(* made for, nobody is waited for who was not sent a prompt that a session *)
(* could hear, and every screen follows the host's.                        *)
(*                                                                         *)
(* The argument is a token again, one for each player.  A turn is a        *)
(* request in the host's event queue, then a your_turn on the wire, then a *)
(* window that asks, then a move on the way back; it exists in one of      *)
(* these forms only, and only while the host's round waits for it, unless  *)
(* the prompt was read when no session listened: then it is among the      *)
(* lost.  Since the round cannot end meanwhile, nothing that takes a       *)
(* prompt back is sent after it: neither the signals behind the request    *)
(* nor one that the window has had and the server has not yet.  Players    *)
(* who have left, or were forfeited by stopGame, are out of the argument:  *)
(* their answers are no longer read.                                       *)
(*                                                                         *)
(* And the refinement: a hosted game is a RegularGame if the requests are  *)
(* left out of the host's signals.                                         *)
(***************************************************************************)
EXTENDS HostGame, CommonLemmas

-----------------------------------------------------------------------------
\* A strategy is routed or disconnected; stopGame comes before everything else in
\* the teardown.
RouteInv == /\ routed = Remotes \ gone
            /\ phase # "open" => routed = {}

\* Players who left have told the server, or it has already noticed.
LeaveInv ==
  \A c \in Remotes :
    /\ phase = "open" /\ cState[c] # "left" =>
         /\ c \notin gone
         /\ \A i \in DOMAIN up[c] : up[c][i].type # "disconnected"
         /\ \A i \in DOMAIN down[c] : down[c][i].type # "disconnected"
    /\ c \notin gone /\ cState[c] = "left" =>
         \E i \in DOMAIN up[c] : up[c][i].type = "disconnected"

\* PickMove runs only inside a round.
PickInv ==
  \A c \in Remotes : picking[c] # "away" =>
    /\ pc = "thinking" /\ c \in thinking
    /\ mMove[c] \in {0, rounds + 1}
    /\ picking[c] = "asking" => mMove[c] = 0

Unanswered(c) == picking[c] = "waiting" /\ mMove[c] = 0

OnlyRequests == /\ casting = <<>>
                /\ \A i \in DOMAIN events : events[i].signal = "your_turn"

IsRequest(c, i) == events[i].signal = "your_turn" /\ events[i].to = c

NoRequest(c) == \A i \in DOMAIN events : ~IsRequest(c, i)
NoPrompt(c)  == \A i \in DOMAIN down[c] : down[c][i].type # "your_turn"
NoAnswer(c)  == \A i \in DOMAIN up[c] : up[c][i].type # "move"

\* The four forms of the token.
Requested(c) ==
  \A i \in DOMAIN events : IsRequest(c, i) =>
    /\ Unanswered(c) /\ NoPrompt(c) /\ cState[c] # "AwaitingMove" /\ NoAnswer(c)
    /\ events[i].round = rounds + 1
    /\ \A j \in DOMAIN events : /\ j >= i => events[j].signal = "your_turn"
                                /\ IsRequest(c, j) => j = i

Prompted(c) ==
  \A i \in DOMAIN down[c] : down[c][i].type = "your_turn" =>
    /\ Unanswered(c) /\ cState[c] # "AwaitingMove" /\ NoAnswer(c)
    /\ OnlyRequests
    /\ down[c][i].round = rounds + 1
    /\ i = Len(down[c])

Asked(c) ==
  cState[c] = "AwaitingMove" =>
    /\ Unanswered(c) /\ NoAnswer(c)
    /\ OnlyRequests /\ Len(down[c]) = 0
    /\ cRound[c] = rounds + 1

Answered(c) ==
  \A i \in DOMAIN up[c] : up[c][i].type = "move" =>
    /\ Unanswered(c)
    /\ up[c][i].round = rounds + 1
    /\ \A j \in DOMAIN up[c] : up[c][j].type = "move" => j = i

\* While the host waits for a player, the token is somewhere, or was lost in the
\* hand-over from the dialog to the session.
TokenExists(c) ==
  Unanswered(c) => \/ ~NoRequest(c) \/ ~NoPrompt(c) \/ cState[c] = "AwaitingMove"
                   \/ ~NoAnswer(c) \/ cState[c] = "left"
                   \/ Message("your_turn", rounds + 1) \in lost[c]

Token(c) == Requested(c) /\ Prompted(c) /\ Asked(c) /\ Answered(c) /\ TokenExists(c)

TokenInv == \A c \in Remotes \ gone : Token(c)

\* The end of the game is the worker's last signal.
OverInv ==
  /\ \A i \in DOMAIN events : events[i].signal = "over" => pc = "finished" /\ i = Len(events)
  /\ mState = "GameOver" => pc = "finished" /\ events = <<>>

\* The server has yet to broadcast a signal that the window has had.
Casting(s) == casting # <<>> /\ casting[1].signal = s

\* Of the scores on their way to a client, the last are the host's.
TableFollows(c) ==
  IF Casting("scores") THEN casting[1].round = table
  ELSE \/ /\ cTable[c] = table \/ Message("scores", table) \in lost[c]
          /\ \A i \in DOMAIN down[c] : down[c][i].type # "scores"
       \/ \E i \in DOMAIN down[c] :
            /\ down[c][i] = Message("scores", table)
            /\ \A j \in DOMAIN down[c] : j > i => down[c][j].type # "scores"

Finishing(c) == \E i \in DOMAIN down[c] : down[c][i].type = "game_finished"
Missed(c)    == \E m \in lost[c] : m.type = "game_finished"

EndFollows(c) ==
  mState = "GameOver" <=> cState[c] = "GameOver" \/ Finishing(c) \/ Missed(c) \/ Casting("over")

ScreenInv ==
  \A c \in Remotes : phase = "open" /\ cState[c] # "left" =>
                       TableFollows(c) /\ EndFollows(c)

IInv == TypeOK /\ RouteInv /\ LeaveInv /\ PickInv /\ TokenInv /\ OverInv /\ ScreenInv

-----------------------------------------------------------------------------
\* A delivery shortens the signal queue at its front and touches nothing else but
\* the window.
LEMMA Delivery ==
  ASSUME TypeOK, NEW s, G!Delivers(s)
  PROVE  /\ phase = "open"
         /\ Len(events) \in Nat \ {0} /\ events[1] \in G!Event \cup TurnRequest
         /\ Head(events) = events[1] /\ events[1].signal = s
         /\ events' \in Seq(G!Event \cup TurnRequest) /\ Len(events') = Len(events) - 1
         /\ \A i \in DOMAIN events' : i + 1 \in DOMAIN events /\ events'[i] = events[i + 1]
         /\ UNCHANGED <<phase, starts, finishes, lines, closed, line, eof, pc, thinking,
                        remaining, rounds>>
<1> USE DEF G!Delivers, G!clicks, G!stream, G!worker
<1>1. /\ events \in Seq(G!Event \cup TurnRequest) /\ events # <<>>
      /\ events' = Tail(events) /\ Head(events).signal = s
  BY DEF TypeOK
<1>2. /\ Len(events) \in Nat \ {0} /\ Head(events) = events[1]
      /\ events[1] \in G!Event \cup TurnRequest
  BY <1>1
<1>3. events' \in Seq(G!Event \cup TurnRequest) /\ Len(events') = Len(events) - 1
  BY <1>1
<1>4. ASSUME NEW i \in DOMAIN events'
      PROVE  i + 1 \in DOMAIN events /\ events'[i] = events[i + 1]
  BY <1>1, <1>3
<1> QED
  BY <1>1, <1>2, <1>3, <1>4

\* What the window's connection does with a signal of the worker.
LEMMA WindowFirst ==
  ASSUME TypeOK, DeliverScores \/ DeliverRoundFinished \/ DeliverGameFinished
  PROVE  \E s \in {"scores", "round", "over"} :
           /\ G!Delivers(s) /\ casting = <<>> /\ casting' = <<events[1]>>
           /\ events[1] \in Announced /\ events[1].signal = s
           /\ UNCHANGED <<strategies, clients, routed, network>>
           /\ table' = IF s = "scores" THEN events[1].round ELSE table
           /\ mState' = IF s = "scores" THEN mState
                        ELSE IF s = "over" \/ mState = "GameOver" THEN "GameOver" ELSE "Idle"
<1>1. ASSUME NEW s \in {"scores", "round", "over"}, G!Delivers(s)
      PROVE  events[1] \in Announced /\ events[1].signal = s /\ Head(events) = events[1]
  BY <1>1, Delivery DEF G!Event, TurnRequest, Announced
<1>2. CASE DeliverScores
  BY <1>1, <1>2 DEF DeliverScores, Cast, G!DeliverScores, G!Window!onScores
<1>3. CASE DeliverRoundFinished
  BY <1>1, <1>3 DEF DeliverRoundFinished, Cast, G!DeliverRoundFinished,
     G!Window!onRoundFinished, G!Window!setState
<1>4. CASE DeliverGameFinished
  BY <1>1, <1>4 DEF DeliverGameFinished, Cast, G!DeliverGameFinished,
     G!Window!onGameFinished, G!Window!setState
<1> QED
  BY <1>2, <1>3, <1>4

\* What the server's connection does with it afterwards.
LEMMA ServerSecond ==
  ASSUME TypeOK, BroadcastSignal
  PROVE  \E m \in DownMessage :
           /\ casting # <<>> /\ casting[1] \in Announced /\ casting' = <<>>
           /\ Broadcast(m) /\ UNCHANGED <<game, strategies, clients, routed, up, screens>>
           /\ m.type = IF Casting("scores") THEN "scores"
                       ELSE IF Casting("over") THEN "game_finished" ELSE "round_finished"
           /\ m.round = casting[1].round
<1>1. casting # <<>> /\ casting[1] \in Announced
  BY DEF BroadcastSignal, TypeOK
<1>2. /\ Announcement(casting[1]) \in DownMessage
      /\ Announcement(casting[1]).type =
           IF Casting("scores") THEN "scores"
           ELSE IF Casting("over") THEN "game_finished" ELSE "round_finished"
      /\ Announcement(casting[1]).round = casting[1].round
  BY <1>1 DEF Announcement, Announced, Message, DownMessage, Casting
<1> QED
  BY <1>1, <1>2 DEF BroadcastSignal

\* What a client does with what it reads: the first of its channel are gone, and
\* those that no session heard are among the lost.
LEMMA Reading ==
  ASSUME TypeOK, NEW c \in Remotes, ClientReads(c)
  PROVE  /\ UNCHANGED <<game, strategies, server, up>>
         /\ cState[c] # "left"
         /\ \E n \in 1..Len(down[c]) :
              /\ down' = [down EXCEPT ![c] = SubSeq(@, n + 1, Len(@))]
              /\ down'[c] \in Seq(DownMessage) /\ Len(down'[c]) = Len(down[c]) - n
              /\ \A i \in DOMAIN down'[c] : i + n \in DOMAIN down[c]
                                          /\ down'[c][i] = down[c][i + n]
              /\ lost'[c] \subseteq lost[c] \cup {down[c][i] : i \in 1..n}
              /\ cState[c] = "dialog" =>
                   \A i \in 1..n : down[c][i].type = "game_started" \/ down[c][i] \in lost'[c]
         /\ cState[c] = "dialog" => /\ cState'[c] \in {"dialog", "Waiting", "left"}
                                    /\ cTable' = cTable
         /\ cState[c] # "dialog" => ClientHears(c)
         /\ \A d \in Remotes : d # c => /\ cState'[d] = cState[d] /\ cRound'[d] = cRound[d]
                                        /\ cTable'[d] = cTable[d] /\ lost'[d] = lost[d]
         /\ cState' \in [Remotes -> {"dialog", "Waiting", "AwaitingMove", "GameOver", "left"}]
         /\ cRound' \in [Remotes -> Nat] /\ cTable' \in [Remotes -> Nat]
         /\ lost' \in [Remotes -> SUBSET DownMessage] /\ lost[c] \subseteq lost'[c]
         /\ cState'[c] = "left" => \E i \in DOMAIN down[c] : down[c][i].type = "disconnected"
<1> DEFINE q == down[c]
<1>1. q \in Seq(DownMessage) /\ Len(q) \in Nat
  BY DEF TypeOK
<1>2. ASSUME q # <<>>
      PROVE  /\ 1 \in 1..Len(q) /\ Head(q) = q[1] /\ q[1] \in DownMessage
             /\ Tail(q) = SubSeq(q, 1 + 1, Len(q))
  BY <1>1, <1>2
<1>3. ASSUME NEW n \in 1..Len(q), down' = [down EXCEPT ![c] = SubSeq(@, n + 1, Len(@))]
      PROVE  /\ down'[c] \in Seq(DownMessage) /\ Len(down'[c]) = Len(q) - n
             /\ \A i \in DOMAIN down'[c] : i + n \in DOMAIN q /\ down'[c][i] = q[i + n]
  <2>1. down'[c] = SubSeq(q, n + 1, Len(q))
    BY <1>3 DEF TypeOK
  <2> HIDE DEF q
  <2> QED
    BY <1>1, <2>1
<1>4. CASE ClientEnters(c)
  <2>1. PICK n \in 1..Len(q) :
          /\ down' = [down EXCEPT ![c] = SubSeq(@, n + 1, Len(@))]
          /\ lost' = [lost EXCEPT ![c] = @ \cup {q[i] : i \in 2..n}]
    BY <1>4 DEF ClientEnters
  <2>2. /\ {q[i] : i \in 2..n} \subseteq DownMessage
        /\ {q[i] : i \in 2..n} \subseteq {q[i] : i \in 1..n}
        /\ \A i \in 1..n : i = 1 \/ i \in 2..n
    BY <1>1
  <2>3. /\ UNCHANGED <<game, strategies, server, up, cRound, cTable>>
        /\ cState[c] = "dialog" /\ cState' = [cState EXCEPT ![c] = "Waiting"]
        /\ q[1].type = "game_started"
    BY <1>4 DEF ClientEnters
  <2>4. /\ lost' \in [Remotes -> SUBSET DownMessage]
        /\ lost'[c] = lost[c] \cup {q[i] : i \in 2..n}
        /\ \A d \in Remotes : d # c => lost'[d] = lost[d]
    BY <2>1, <2>2 DEF TypeOK
  <2>5. /\ lost[c] \subseteq lost'[c] /\ lost'[c] \subseteq lost[c] \cup {q[i] : i \in 1..n}
        /\ \A i \in 1..n : q[i].type = "game_started" \/ q[i] \in lost'[c]
    BY <2>2, <2>3, <2>4
  <2>6. /\ cState' \in [Remotes -> {"dialog", "Waiting", "AwaitingMove", "GameOver", "left"}]
        /\ cState'[c] = "Waiting" /\ \A d \in Remotes : d # c => cState'[d] = cState[d]
    BY <2>3 DEF TypeOK
  <2> QED
    BY <1>3, <2>1, <2>3, <2>4, <2>5, <2>6 DEF TypeOK
<1>5. CASE ClientStays(c)
  <2>1. q # <<>> /\ down' = [down EXCEPT ![c] = Tail(@)]
    BY <1>5 DEF ClientStays
  <2>2. down' = [down EXCEPT ![c] = SubSeq(@, 1 + 1, Len(@))]
    BY <1>2, <2>1
  <2>3. /\ UNCHANGED <<game, strategies, server, up, cRound, cTable>>
        /\ cState[c] = "dialog" /\ lost' = [lost EXCEPT ![c] = @ \cup {q[1]}]
        /\ cState' = [cState EXCEPT ![c] = IF q[1].type = "disconnected" THEN "left" ELSE @]
    BY <1>2, <1>5, <2>1 DEF ClientStays
  <2>4. /\ lost' \in [Remotes -> SUBSET DownMessage]
        /\ lost'[c] = lost[c] \cup {q[1]}
        /\ \A d \in Remotes : d # c => lost'[d] = lost[d]
    BY <1>2, <2>1, <2>3 DEF TypeOK
  <2>5. /\ lost[c] \subseteq lost'[c] /\ lost'[c] \subseteq lost[c] \cup {q[i] : i \in 1..1}
        /\ \A i \in 1..1 : q[i].type = "game_started" \/ q[i] \in lost'[c]
    BY <2>4
  <2>6. /\ cState' \in [Remotes -> {"dialog", "Waiting", "AwaitingMove", "GameOver", "left"}]
        /\ cState'[c] \in {"dialog", "left"} /\ \A d \in Remotes : d # c => cState'[d] = cState[d]
        /\ cState'[c] = "left" => q[1].type = "disconnected" /\ 1 \in DOMAIN q
    BY <1>1, <1>2, <2>1, <2>3 DEF TypeOK
  <2> QED
    BY <1>2, <1>3, <2>1, <2>2, <2>3, <2>4, <2>5, <2>6 DEF TypeOK
<1>6. CASE ClientHears(c)
  <2>1. q # <<>> /\ down' = [down EXCEPT ![c] = Tail(@)]
    BY <1>6 DEF ClientHears
  <2>2. down' = [down EXCEPT ![c] = SubSeq(@, 1 + 1, Len(@))]
    BY <1>2, <2>1
  <2>3. /\ UNCHANGED <<game, strategies, server, up, lost>> /\ cState[c] # "left"
        /\ cState[c] # "dialog"
    BY <1>6 DEF ClientHears
  <2>4. /\ cState' \in [Remotes -> {"dialog", "Waiting", "AwaitingMove", "GameOver", "left"}]
        /\ cState'[c] # "left"
    BY <1>6 DEF ClientHears, TypeOK
  <2>5. cRound' \in [Remotes -> Nat] /\ cTable' \in [Remotes -> Nat]
    BY <1>2, <1>6, <2>1 DEF ClientHears, TypeOK, DownMessage
  <2>6. \A d \in Remotes : d # c => /\ cState'[d] = cState[d] /\ cRound'[d] = cRound[d]
                                    /\ cTable'[d] = cTable[d]
    BY <1>6 DEF ClientHears, TypeOK
  <2> QED
    BY <1>2, <1>3, <1>6, <2>1, <2>2, <2>3, <2>4, <2>5, <2>6 DEF TypeOK
<1> QED
  BY <1>4, <1>5, <1>6 DEF ClientReads

\* A message to a client is appended to its channel or lost.
LEMMA Sending ==
  ASSUME TypeOK, NEW m \in DownMessage,
         \/ Broadcast(m)
         \/ \E c \in Remotes : SendTo(c, m)
  PROVE  /\ down' \in [Remotes -> Seq(DownMessage)]
         /\ \A c \in Remotes : down'[c] \in {down[c], Append(down[c], m)}
<1>1. CASE Broadcast(m)
  BY <1>1 DEF TypeOK, Broadcast
<1>2. ASSUME NEW c \in Remotes, SendTo(c, m)
      PROVE  /\ down' \in [Remotes -> Seq(DownMessage)]
             /\ \A d \in Remotes : down'[d] \in {down[d], Append(down[d], m)}
  BY <1>2 DEF TypeOK, SendTo
<1> QED
  BY <1>1, <1>2

\* The initial state has the types.
LEMMA TypeInit == Init => TypeOK
<1>1. <<Message("game_started", 0)>> \in Seq(DownMessage)
  BY DEF Message, DownMessage
<1> QED
  BY <1>1 DEF Init, G!Init, TypeOK

\* Every step keeps the routing; only the server's handlers change it.
LEMMA RouteNext == RouteInv /\ [Next]_vars => RouteInv'
<1> SUFFICES ASSUME RouteInv, [Next]_vars  PROVE RouteInv'
  OBVIOUS
<1> USE DEF RouteInv, game, strategies, server, remote
<1>1. CASE HostClicks \/ HostWorker
  <2>1. UNCHANGED <<phase, gone, routed>>
    BY <1>1 DEF HostClicks, HostWorker, G!ClickStart, G!ClickMove, G!ClickFinish,
       G!LoopReadsLine, G!LoopReadsEof, G!ShowResults, G!BotDecides, G!ShowMovePrompt,
       G!ReadAttempt, G!ReadEof, G!ResolveRound, G!gui
  <2> QED
    BY <2>1
<1>2. CASE StopGame
  BY <1>2 DEF StopGame
<1>3. CASE CloseStream \/ Join
  BY <1>3 DEF CloseStream, Join, G!Join
<1>4. CASE Deliver
  <2>1. UNCHANGED <<phase, gone, routed>>
    BY <1>4 DEF Deliver, DeliverPrompt, DeliverScores, DeliverRoundFinished, DeliverGameFinished,
       Cast, BroadcastSignal, DeliverTurnRequest, G!DeliverPrompt, G!DeliverScores,
       G!DeliverRoundFinished, G!DeliverGameFinished, G!Delivers
  <2> QED
    BY <2>1
<1>5. ASSUME NEW c \in Remotes, ServerReads(c)  PROVE RouteInv'
  BY <1>5 DEF ServerReads, SupplyMove, OnDisconnected
<1>6. ASSUME NEW c \in Remotes,
             CloseSocket(c) \/ PickMove(c) \/ ClientReads(c) \/ ClientMoves(c) \/ ClientLeaves(c)
      PROVE  RouteInv'
  <2>1. UNCHANGED <<phase, gone, routed>>
    BY <1>6 DEF CloseSocket, PickMove, BeginTurn, RequestTurn, EndTurn, G!BotDecides, G!gui,
       ClientReads, ClientEnters, ClientStays, ClientHears, ClientMoves, ClientLeaves
  <2> QED
    BY <2>1
<1>7. CASE UNCHANGED vars
  BY <1>7 DEF vars
<1> QED
  BY <1>1, <1>2, <1>3, <1>4, <1>5, <1>6, <1>7 DEF Next

\* Every step keeps the types.
LEMMA TypeNext == TypeOK /\ RouteInv /\ [Next]_vars => TypeOK'
<1> SUFFICES ASSUME TypeOK, RouteInv, [Next]_vars  PROVE TypeOK'
  OBVIOUS
<1> USE DEF game, strategies, server, screens, network, remote
<1>1. CASE HostClicks
  BY <1>1 DEF HostClicks, G!ClickStart, G!ClickMove, G!ClickFinish, G!worker, TypeOK
<1>2. CASE StopGame
  BY <1>2 DEF StopGame, TypeOK
<1>3. CASE CloseStream \/ Join
  <2>1. /\ events' = events \/ events' = <<>>
        /\ casting' = casting \/ casting' = <<>>
        /\ UNCHANGED <<rounds, strategies, clients, routed, network>>
    BY <1>3 DEF CloseStream, Join, G!Join, G!worker
  <2>2. <<>> \in Seq(G!Event \cup TurnRequest) /\ <<>> \in Seq(Announced) /\ Len(<<>>) = 0
    OBVIOUS
  <2>3. events' \in Seq(G!Event \cup TurnRequest)
    BY <2>1, <2>2 DEF TypeOK
  <2>4. casting' \in Seq(Announced) /\ Len(casting') <= 1
    <3>1. CASE casting' = <<>>
      BY <2>2, <3>1
    <3> QED
      BY <2>1, <3>1 DEF TypeOK
  <2> QED
    BY <2>1, <2>3, <2>4 DEF TypeOK
<1>4. CASE DeliverPrompt
  <2>1. G!Delivers("prompt") /\ UNCHANGED remote
    BY <1>4 DEF DeliverPrompt, G!DeliverPrompt
  <2> QED
    BY <2>1, Delivery DEF TypeOK
<1>5. CASE DeliverScores \/ DeliverRoundFinished \/ DeliverGameFinished
  <2>1. PICK s \in {"scores", "round", "over"} :
          /\ G!Delivers(s) /\ casting' = <<events[1]>> /\ events[1] \in Announced
          /\ UNCHANGED <<strategies, clients, routed, network>>
    BY <1>5, WindowFirst
  <2>2. casting' \in Seq(Announced) /\ Len(casting') = 1
    BY <2>1
  <2> QED
    BY <2>1, <2>2, Delivery DEF TypeOK
<1>6. CASE BroadcastSignal
  <2>1. PICK m \in DownMessage :
          /\ Broadcast(m) /\ casting' = <<>>
          /\ UNCHANGED <<game, strategies, clients, routed, up, screens>>
    BY <1>6, ServerSecond
  <2>2. down' \in [Remotes -> Seq(DownMessage)]
    BY <2>1, Sending
  <2>3. casting' \in Seq(Announced) /\ Len(casting') = 0
    BY <2>1
  <2> QED
    BY <2>1, <2>2, <2>3 DEF TypeOK
<1>8. CASE DeliverTurnRequest
  <2>1. G!Delivers("your_turn")
    BY <1>8 DEF DeliverTurnRequest
  <2>2. Head(events) \in TurnRequest
    BY <2>1, Delivery DEF G!Event, TurnRequest
  <2>3. Message("your_turn", Head(events).round) \in DownMessage /\ Head(events).to \in Remotes
    BY <2>2 DEF Message, DownMessage, TurnRequest
  <2>4. down' \in [Remotes -> Seq(DownMessage)]
    BY <1>8, <2>3, Sending DEF DeliverTurnRequest, SendYourTurn
  <2> QED
    BY <1>8, <2>1, <2>4, Delivery DEF DeliverTurnRequest, TypeOK
<1>9. CASE HostWorker
  <2>1. /\ events' \in Seq(G!Event \cup TurnRequest) /\ rounds' \in Nat
        /\ UNCHANGED remote
    <3>1. \A s \in {"prompt", "scores", "round", "over"} : \A n \in Nat :
            G!Signal(s, n) \in G!Event
      BY DEF G!Signal, G!Event
    <3>2. \A q \in Seq(G!Event \cup TurnRequest) : \A x \in G!Event :
            Append(q, x) \in Seq(G!Event \cup TurnRequest)
      OBVIOUS
    <3>3. rounds \in Nat /\ rounds + 1 \in Nat /\ events \in Seq(G!Event \cup TurnRequest)
      BY DEF TypeOK
    <3> QED
      BY <1>9, <3>1, <3>2, <3>3
         DEF HostWorker, G!LoopReadsLine, G!LoopReadsEof, G!ShowResults, G!BotDecides,
             G!ShowMovePrompt, G!ReadAttempt, G!ReadEof, G!ResolveRound
  <2> QED
    BY <2>1 DEF TypeOK
<1>10. ASSUME NEW c \in Remotes, CloseSocket(c)  PROVE TypeOK'
  <2>1. PICK n \in 0..Len(down[c]) :
          down' = [down EXCEPT ![c] = IF cState[c] = "left" THEN <<>>
                                      ELSE Append(SubSeq(@, 1, n), Message("disconnected", 0))]
    BY <1>10 DEF CloseSocket
  <2>2. Append(SubSeq(down[c], 1, n), Message("disconnected", 0)) \in Seq(DownMessage)
    <3>1. down[c] \in Seq(DownMessage) /\ Message("disconnected", 0) \in DownMessage
      BY DEF TypeOK, Message, DownMessage
    <3>2. SubSeq(down[c], 1, n) \in Seq(DownMessage)
      BY <3>1
    <3> QED
      BY <3>1, <3>2
  <2>3. down' \in [Remotes -> Seq(DownMessage)]
    BY <2>1, <2>2 DEF TypeOK
  <2>4. routed \subseteq clients' /\ routed' = routed
    BY <1>10 DEF CloseSocket, RouteInv
  <2> QED
    BY <1>10, <2>3, <2>4 DEF CloseSocket, TypeOK
<1>11. ASSUME NEW c \in Remotes, ServerReads(c)  PROVE TypeOK'
  <2>1. Head(up[c]) \in UpMessage /\ up' \in [Remotes -> Seq(UpMessage)]
    BY <1>11 DEF ServerReads, TypeOK
  <2>2. mMove' \in [Remotes -> Nat]
    BY <1>11, <2>1 DEF ServerReads, SupplyMove, OnDisconnected, TypeOK, UpMessage
  <2>3. gone' \subseteq Remotes /\ clients' \subseteq Remotes /\ routed' \subseteq clients'
    BY <1>11 DEF ServerReads, SupplyMove, OnDisconnected, TypeOK
  <2>4. UNCHANGED <<rounds, events, picking, casting, down, screens>>
    BY <1>11 DEF ServerReads, SupplyMove, OnDisconnected
  <2> QED
    BY <2>1, <2>2, <2>3, <2>4 DEF TypeOK
<1>12. ASSUME NEW c \in Remotes, PickMove(c)  PROVE TypeOK'
  <2>1. YourTurn(c) \in TurnRequest
    BY DEF YourTurn, TurnRequest, TypeOK
  <2>2. CASE BeginTurn(c)
    BY <2>2 DEF BeginTurn, TypeOK
  <2>3. CASE EndTurn(c)
    BY <2>3 DEF EndTurn, G!BotDecides, TypeOK
  <2>4. CASE RequestTurn(c)
    <3>1. events' \in Seq(G!Event \cup TurnRequest)
      BY <2>1, <2>4 DEF RequestTurn, TypeOK
    <3> QED
      BY <2>4, <3>1 DEF RequestTurn, TypeOK
  <2> QED
    BY <1>12, <2>2, <2>3, <2>4 DEF PickMove
<1>13. ASSUME NEW c \in Remotes, ClientReads(c)  PROVE TypeOK'
  BY <1>13, Reading DEF TypeOK
<1>14. ASSUME NEW c \in Remotes, ClientMoves(c)  PROVE TypeOK'
  BY <1>14 DEF ClientMoves, TypeOK, Message, UpMessage
<1>15. ASSUME NEW c \in Remotes, ClientLeaves(c)  PROVE TypeOK'
  <2>1. PICK n \in 0..Len(up[c]) :
          up' = IF c \in clients
                THEN [up EXCEPT ![c] = Append(SubSeq(@, 1, n), Message("disconnected", 0))]
                ELSE up
    BY <1>15 DEF ClientLeaves
  <2>2. Append(SubSeq(up[c], 1, n), Message("disconnected", 0)) \in Seq(UpMessage)
    <3>1. up[c] \in Seq(UpMessage) /\ Message("disconnected", 0) \in UpMessage
      BY DEF TypeOK, Message, UpMessage
    <3>2. SubSeq(up[c], 1, n) \in Seq(UpMessage)
      BY <3>1
    <3> QED
      BY <3>1, <3>2
  <2>3. up' \in [Remotes -> Seq(UpMessage)] /\ down' \in [Remotes -> Seq(DownMessage)]
    BY <1>15, <2>1, <2>2 DEF ClientLeaves, TypeOK
  <2> QED
    BY <1>15, <2>3 DEF ClientLeaves, TypeOK
<1>16. CASE UNCHANGED vars
  BY <1>16 DEF vars, TypeOK
<1> QED
  BY <1>1, <1>2, <1>3, <1>4, <1>5, <1>6, <1>8, <1>9, <1>10, <1>11,
     <1>12, <1>13, <1>14, <1>15, <1>16
     DEF Next, Deliver
-----------------------------------------------------------------------------
\* PickMove leaves alone what is not its own player's.
LEMMA PickMoveCases ==
  ASSUME NEW c \in Remotes, PickMove(c)
  PROVE  /\ pc = "thinking" /\ c \in thinking
         /\ \/ picking[c] = "away" /\ c \notin gone /\ BeginTurn(c)
            \/ (picking[c] = "away" \/ mMove[c] # 0 \/ c \in gone) /\ EndTurn(c)
            \/ picking[c] = "asking" /\ RequestTurn(c)
BY DEF PickMove, RequestTurn

\* Every step keeps PickMove inside its round.
LEMMA PickNext ==
  TypeOK /\ RouteInv /\ PickInv /\ TokenInv /\ [Next]_vars => PickInv'
<1> SUFFICES ASSUME TypeOK, RouteInv, PickInv, TokenInv, [Next]_vars,
                    NEW c \in Remotes, picking'[c] # "away"
             PROVE  /\ pc' = "thinking" /\ c \in thinking'
                    /\ mMove'[c] \in {0, rounds' + 1}
                    /\ picking'[c] = "asking" => mMove'[c] = 0
  BY DEF PickInv
<1> USE DEF PickInv, game, strategies, server, network, remote
<1>1. CASE HostClicks \/ Deliver \/ StopGame \/ CloseStream \/ Join
  <2>1. UNCHANGED <<pc, thinking, rounds, picking, mMove>>
    BY <1>1 DEF HostClicks, G!ClickStart, G!ClickMove, G!ClickFinish, G!worker, Deliver,
       DeliverPrompt, DeliverScores, DeliverRoundFinished, DeliverGameFinished,
       Cast, BroadcastSignal, DeliverTurnRequest, G!DeliverPrompt, G!DeliverScores,
       G!DeliverRoundFinished, G!DeliverGameFinished, G!Delivers, StopGame, CloseStream, Join,
       G!Join
  <2> QED
    BY <2>1
<1>2. CASE HostWorker
  <2>1. UNCHANGED <<picking, mMove>>
    BY <1>2 DEF HostWorker
  <2>2. pc = "thinking" /\ c \in thinking
    BY <2>1
  <2>3. PICK b \in AIBots : G!BotDecides(b)
    BY <1>2, <2>2 DEF HostWorker, G!LoopReadsLine, G!LoopReadsEof, G!ShowResults,
       G!ShowMovePrompt, G!ReadAttempt, G!ReadEof, G!ResolveRound
  <2>4. b # c
    BY SeatsAssumption
  <2> QED
    BY <2>1, <2>3, <2>4 DEF G!BotDecides
<1>3. ASSUME NEW d \in Remotes, CloseSocket(d) \/ ClientReads(d) \/ ClientMoves(d) \/ ClientLeaves(d)
      PROVE  UNCHANGED <<pc, thinking, rounds, picking, mMove>>
  BY <1>3, Reading DEF CloseSocket, ClientMoves, ClientLeaves
<1>4. ASSUME NEW d \in Remotes, ServerReads(d)
      PROVE  /\ UNCHANGED <<pc, thinking, rounds, picking>>
             /\ mMove'[c] \in {0, rounds + 1}
             /\ picking[c] = "asking" => mMove'[c] = 0
  <2>1. UNCHANGED <<pc, thinking, rounds, picking>>
    BY <1>4 DEF ServerReads
  <2>2. CASE UNCHANGED mMove
    BY <2>1, <2>2
  <2>3. CASE mMove' # mMove
    <3>1. /\ up[d] # <<>> /\ Head(up[d]).type = "move" /\ d \in Remotes \ gone
          /\ mMove' = [mMove EXCEPT ![d] = Head(up[d]).round]
      BY <1>4, <2>3 DEF ServerReads, SupplyMove, OnDisconnected, RouteInv
    <3>2. 1 \in DOMAIN up[d] /\ Head(up[d]) = up[d][1]
      BY <3>1 DEF TypeOK
    <3>3. Head(up[d]).round = rounds + 1 /\ picking[d] = "waiting"
      BY <3>1, <3>2 DEF TokenInv, Token, Answered, Unanswered
    <3> QED
      BY <2>1, <3>1, <3>3 DEF TypeOK
  <2> QED
    BY <2>1, <2>2, <2>3
<1>5. ASSUME NEW d \in Remotes, PickMove(d)
      PROVE  /\ pc' = "thinking" /\ c \in thinking'
             /\ mMove'[c] \in {0, rounds' + 1}
             /\ picking'[c] = "asking" => mMove'[c] = 0
  <2>1. CASE BeginTurn(d)
    BY <1>5, <2>1, PickMoveCases DEF BeginTurn, TypeOK
  <2>2. CASE EndTurn(d)
    BY <2>2 DEF EndTurn, G!BotDecides, TypeOK
  <2>3. CASE RequestTurn(d)
    BY <1>5, <2>3, PickMoveCases DEF RequestTurn, TypeOK
  <2> QED
    BY <1>5, <2>1, <2>2, <2>3, PickMoveCases
<1>6. CASE UNCHANGED vars
  BY <1>6 DEF vars
<1> QED
  BY <1>1, <1>2, <1>3, <1>4, <1>5, <1>6 DEF Next

\* Every step keeps track of who has left.
LEMMA LeaveNext ==
  TypeOK /\ RouteInv /\ LeaveInv /\ [Next]_vars => LeaveInv'
<1> SUFFICES ASSUME TypeOK, RouteInv, LeaveInv, [Next]_vars, NEW c \in Remotes
             PROVE  /\ phase' = "open" /\ cState'[c] # "left" =>
                         /\ c \notin gone'
                         /\ \A i \in DOMAIN up'[c] : up'[c][i].type # "disconnected"
                         /\ \A i \in DOMAIN down'[c] : down'[c][i].type # "disconnected"
                    /\ c \notin gone' /\ cState'[c] = "left" =>
                         \E i \in DOMAIN up'[c] : up'[c][i].type = "disconnected"
  BY DEF LeaveInv
<1> USE DEF LeaveInv, game, strategies, server, screens, network, remote
<1>1. CASE \/ HostClicks \/ HostWorker \/ CloseStream \/ Join
           \/ DeliverPrompt \/ DeliverScores \/ DeliverRoundFinished \/ DeliverGameFinished
  <2>1. UNCHANGED <<gone, up, down, cState>> /\ (phase' = phase \/ phase' # "open")
    BY <1>1 DEF HostClicks, G!ClickStart, G!ClickMove, G!ClickFinish, DeliverPrompt,
       G!DeliverPrompt, G!Delivers, HostWorker, G!LoopReadsLine, G!LoopReadsEof, G!ShowResults,
       G!BotDecides, G!ShowMovePrompt, G!ReadAttempt, G!ReadEof, G!ResolveRound, G!gui,
       CloseStream, Join, G!Join, DeliverScores, DeliverRoundFinished, DeliverGameFinished, Cast,
       G!DeliverScores, G!DeliverRoundFinished, G!DeliverGameFinished
  <2> QED
    BY <2>1
<1>2. CASE BroadcastSignal \/ DeliverTurnRequest
  <2>1. PICK m \in DownMessage :
          m.type # "disconnected" /\ (Broadcast(m) \/ \E d \in Remotes : SendTo(d, m))
    <3>1. CASE DeliverTurnRequest
      <4>1. Head(events) \in TurnRequest
        BY <3>1, Delivery DEF DeliverTurnRequest, G!Event, TurnRequest
      <4>2. Message("your_turn", Head(events).round) \in DownMessage /\ Head(events).to \in Remotes
        BY <4>1 DEF TurnRequest, Message, DownMessage
      <4> QED
        BY <3>1, <4>2 DEF DeliverTurnRequest, SendYourTurn, Message
    <3> QED
      BY <1>2, <3>1, ServerSecond
  <2>2. /\ down'[c] \in {down[c], Append(down[c], m)} /\ down[c] \in Seq(DownMessage)
        /\ m.type # "disconnected"
    BY <2>1, Sending DEF TypeOK
  <2>3. UNCHANGED <<phase, gone, up, cState>>
    BY <1>2 DEF BroadcastSignal, DeliverTurnRequest, G!Delivers
  <2> QED
    BY <2>2, <2>3
<1>3. CASE StopGame
  <2>1. phase' # "open" /\ gone' = Remotes
    BY <1>3 DEF StopGame, RouteInv, TypeOK
  <2> QED
    BY <2>1
<1>4. ASSUME NEW d \in Remotes, CloseSocket(d)
      PROVE  phase' # "open" /\ gone' = Remotes
  BY <1>4 DEF CloseSocket, RouteInv, TypeOK
<1>5. ASSUME NEW d \in Remotes, PickMove(d)
      PROVE  UNCHANGED <<phase, gone, up, down, cState>>
  BY <1>5, PickMoveCases DEF BeginTurn, EndTurn, RequestTurn, G!BotDecides, G!gui
<1>6. ASSUME NEW d \in Remotes, d # c,
             ServerReads(d) \/ ClientReads(d) \/ ClientMoves(d) \/ ClientLeaves(d)
      PROVE  /\ UNCHANGED phase /\ up'[c] = up[c] /\ down'[c] = down[c] /\ cState'[c] = cState[c]
             /\ c \in gone' <=> c \in gone
  <2>1. CASE ClientReads(d)
    BY <1>6, <2>1, Reading DEF TypeOK
  <2> QED
    BY <1>6, <2>1
       DEF ServerReads, SupplyMove, OnDisconnected, ClientMoves, ClientLeaves, TypeOK
<1>7. CASE ServerReads(c)
  <2>1. /\ phase = "open" /\ up[c] # <<>> /\ up[c] \in Seq(UpMessage)
        /\ up'[c] = Tail(up[c]) /\ UNCHANGED <<phase, down, cState>>
    BY <1>7 DEF ServerReads, TypeOK
  <2>2. CASE Head(up[c]).type = "move"
    <3>1. UNCHANGED gone
      BY <1>7, <2>2 DEF ServerReads, SupplyMove
    <3>2. ASSUME NEW i \in DOMAIN up[c], up[c][i].type = "disconnected"
          PROVE  \E j \in DOMAIN up'[c] : up'[c][j].type = "disconnected"
      <4>1. i - 1 \in DOMAIN up'[c] /\ up'[c][i - 1] = up[c][i]
        BY <2>1, <2>2, <3>2
      <4> QED
        BY <3>2, <4>1
    <3>3. \A j \in DOMAIN up'[c] : j + 1 \in DOMAIN up[c] /\ up'[c][j] = up[c][j + 1]
      BY <2>1
    <3> QED
      BY <2>1, <3>1, <3>2, <3>3
  <2>3. CASE Head(up[c]).type = "disconnected"
    <3>1. cState[c] = "left"
      BY <2>1, <2>3
    <3>2. c \in gone'
      BY <1>7, <2>3 DEF ServerReads, OnDisconnected, RouteInv
    <3> QED
      BY <2>1, <3>1, <3>2
  <2> QED
    BY <1>7, <2>2, <2>3 DEF ServerReads
<1>8. CASE ClientReads(c)
  <2>1. /\ cState[c] # "left" /\ UNCHANGED <<phase, gone, up>>
        /\ cState'[c] = "left" => \E i \in DOMAIN down[c] : down[c][i].type = "disconnected"
        /\ \A i \in DOMAIN down'[c] : \E j \in DOMAIN down[c] : down'[c][i] = down[c][j]
    BY <1>8, Reading
  <2>2. c \notin gone => phase = "open"
    BY DEF RouteInv
  <2> QED
    BY <2>1, <2>2
<1>9. CASE ClientMoves(c)
  <2>1. /\ up[c] \in Seq(UpMessage) /\ Message("move", cRound[c]).type = "move"
        /\ cState[c] # "left" /\ cState'[c] # "left" /\ UNCHANGED <<phase, gone, down>>
    BY <1>9 DEF ClientMoves, TypeOK, Message
  <2>2. up'[c] \in {up[c], Append(up[c], Message("move", cRound[c]))}
    BY <1>9 DEF ClientMoves, TypeOK
  <2> QED
    BY <2>1, <2>2
<1>10. CASE ClientLeaves(c)
  <2>1. cState'[c] = "left" /\ UNCHANGED gone
    BY <1>10 DEF ClientLeaves, TypeOK
  <2>2. ASSUME c \notin gone
        PROVE  \E i \in DOMAIN up'[c] : up'[c][i].type = "disconnected"
    <3>1. c \in clients
      BY <2>2 DEF RouteInv, TypeOK
    <3>2. PICK n \in 0..Len(up[c]) :
            up'[c] = Append(SubSeq(up[c], 1, n), Message("disconnected", 0))
      BY <1>10, <3>1 DEF ClientLeaves, TypeOK
    <3>3. /\ SubSeq(up[c], 1, n) \in Seq(UpMessage) /\ Len(SubSeq(up[c], 1, n)) = n
      BY DEF TypeOK
    <3>4. n + 1 \in DOMAIN up'[c] /\ up'[c][n + 1].type = "disconnected"
      BY <3>2, <3>3 DEF Message
    <3> QED
      BY <3>4
  <2> QED
    BY <2>1, <2>2
<1>11. CASE UNCHANGED vars
  BY <1>11 DEF vars
<1> QED
  BY <1>1, <1>2, <1>3, <1>4, <1>5, <1>6, <1>7, <1>8, <1>9, <1>10, <1>11 DEF Next, Deliver
-----------------------------------------------------------------------------
\* A player's token does not depend on what happens elsewhere.
LEMMA TokenUntouched ==
  ASSUME NEW c \in Remotes, Token(c), UNCHANGED <<rounds, events>>,
         picking'[c] = picking[c], mMove'[c] = mMove[c], down'[c] = down[c], up'[c] = up[c],
         cState'[c] = cState[c], cRound'[c] = cRound[c], lost'[c] = lost[c], UNCHANGED casting
  PROVE  Token(c)'
BY DEF Token, Requested, Prompted, Asked, Answered, TokenExists, Unanswered, OnlyRequests,
       IsRequest, NoRequest, NoPrompt, NoAnswer

\* A player the host does not wait for has no token, whatever else is the case.
LEMMA NoTokenNeeded ==
  ASSUME NEW c \in Remotes, ~Unanswered(c)', NoRequest(c)', NoPrompt(c)', NoAnswer(c)',
         cState'[c] # "AwaitingMove"
  PROVE  Token(c)'
BY DEF Token, Requested, Prompted, Asked, Answered, TokenExists, NoRequest, NoPrompt, NoAnswer

LEMMA NoTokenHeld ==
  ASSUME NEW c \in Remotes, Token(c), ~Unanswered(c)
  PROVE  NoRequest(c) /\ NoPrompt(c) /\ NoAnswer(c) /\ cState[c] # "AwaitingMove"
BY DEF Token, Requested, Prompted, Asked, Answered, NoRequest, NoPrompt, NoAnswer

\* The worker's own signals are emitted while the host waits for nobody.
LEMMA TokenHostWorker ==
  ASSUME TypeOK, PickInv, HostWorker, NEW c \in Remotes, Token(c)
  PROVE  Token(c)'
<1> USE DEF HostWorker, strategies, server, screens, network, remote
<1>1. UNCHANGED remote
  OBVIOUS
<1>2. CASE UNCHANGED <<rounds, events>>
  BY <1>1, <1>2, TokenUntouched
<1>3. CASE ~UNCHANGED <<rounds, events>>
  <2>1. G!ShowResults \/ G!ShowMovePrompt \/ G!ResolveRound
    BY <1>3 DEF G!LoopReadsLine, G!LoopReadsEof, G!BotDecides, G!ReadAttempt, G!ReadEof
  <2>2. pc # "thinking" \/ thinking = {}
    BY <2>1 DEF G!ShowResults, G!ShowMovePrompt, G!ResolveRound
  <2>3. picking[c] = "away"
    BY <2>2 DEF PickInv, TypeOK
  <2>4. NoRequest(c) /\ NoPrompt(c) /\ NoAnswer(c) /\ cState[c] # "AwaitingMove"
    BY <2>3, NoTokenHeld DEF Unanswered
  <2>5. PICK x, y \in G!Event : /\ events' \in {Append(events, x), Append(Append(events, x), y)}
                                /\ x.signal # "your_turn" /\ y.signal # "your_turn"
    <3>1. \A s \in {"prompt", "scores", "round", "over"} : \A n \in Nat :
            G!Signal(s, n) \in G!Event /\ G!Signal(s, n).signal # "your_turn"
      BY DEF G!Signal, G!Event
    <3>2. rounds \in Nat /\ rounds + 1 \in Nat
      BY DEF TypeOK
    <3> QED
      BY <2>1, <3>1, <3>2 DEF G!ShowResults, G!ShowMovePrompt, G!ResolveRound
  <2>6. NoRequest(c)'
    <3>1. events \in Seq(G!Event \cup TurnRequest)
      BY DEF TypeOK
    <3>2. CASE events' = Append(events, x)
      BY <2>4, <2>5, <3>1, <3>2 DEF NoRequest, IsRequest
    <3>3. CASE events' = Append(Append(events, x), y)
      BY <2>4, <2>5, <3>1, <3>3 DEF NoRequest, IsRequest
    <3> QED
      BY <2>5, <3>2, <3>3
  <2>7. ~Unanswered(c)' /\ NoPrompt(c)' /\ NoAnswer(c)' /\ cState'[c] # "AwaitingMove"
    BY <1>1, <2>3, <2>4 DEF Unanswered, NoPrompt, NoAnswer
  <2> QED
    BY <2>6, <2>7, NoTokenNeeded
<1> QED
  BY <1>2, <1>3

\* A signal about the game only finds tokens behind it or past the window.
LEMMA TokenDelivery ==
  ASSUME TypeOK, NEW s, s # "your_turn", G!Delivers(s), NEW c \in Remotes, Token(c),
         UNCHANGED <<strategies, network>>
  PROVE  Token(c)'
<1> USE DEF strategies, network, screens
<1>1. /\ 1 \in DOMAIN events /\ events[1].signal = s /\ Len(events) \in Nat
      /\ Len(events') = Len(events) - 1 /\ DOMAIN events' = 1..Len(events')
      /\ \A i \in DOMAIN events' : i + 1 \in DOMAIN events /\ events'[i] = events[i + 1]
      /\ UNCHANGED rounds
  BY Delivery
<1>2. ~OnlyRequests
  BY <1>1 DEF OnlyRequests
<1>3. NoPrompt(c) /\ cState[c] # "AwaitingMove"
  BY <1>2 DEF Token, Prompted, Asked, NoPrompt
<1>4. NoPrompt(c)' /\ cState'[c] # "AwaitingMove"
  BY <1>3 DEF NoPrompt
<1>5. \A i \in DOMAIN events : i # 1 => i - 1 \in DOMAIN events' /\ events'[i - 1] = events[i]
  BY <1>1 DEF TypeOK
<1>6. Requested(c)'
  <2>1. ASSUME NEW i \in DOMAIN events', IsRequest(c, i)'
        PROVE  i + 1 \in DOMAIN events /\ IsRequest(c, i + 1) /\ events'[i] = events[i + 1]
    BY <1>1, <2>1 DEF IsRequest
  <2>2. ASSUME NEW i \in DOMAIN events', IsRequest(c, i)'
        PROVE  /\ Unanswered(c) /\ NoAnswer(c) /\ events'[i].round = rounds + 1
               /\ \A j \in DOMAIN events : /\ j >= i + 1 => events[j].signal = "your_turn"
                                           /\ IsRequest(c, j) => j = i + 1
    BY <2>1, <2>2 DEF Token, Requested
  <2>3. ASSUME NEW i \in DOMAIN events', IsRequest(c, i)', NEW j \in DOMAIN events'
        PROVE  /\ j >= i => events'[j].signal = "your_turn"
               /\ IsRequest(c, j)' => j = i
    <3>1. j + 1 \in DOMAIN events /\ events'[j] = events[j + 1]
      BY <1>1
    <3>2. CASE j >= i
      <4>1. i \in Nat /\ j \in Nat /\ j + 1 >= i + 1
        BY <1>1, <3>2
      <4>2. events[j + 1].signal = "your_turn"
        BY <2>2, <2>3, <3>1, <4>1
      <4>3. IsRequest(c, j)' => IsRequest(c, j + 1)
        BY <3>1 DEF IsRequest
      <4> QED
        BY <2>2, <2>3, <3>1, <4>1, <4>2, <4>3
    <3>3. CASE ~(j >= i)
      <4>1. i \in Nat /\ j \in Nat
        BY <1>1
      <4>2. IsRequest(c, j)' => IsRequest(c, j + 1)
        BY <3>1 DEF IsRequest
      <4> QED
        BY <2>2, <2>3, <3>1, <3>3, <4>1, <4>2
    <3> QED
      BY <3>2, <3>3
  <2> QED
    BY <1>1, <1>4, <2>2, <2>3 DEF Requested, Unanswered, NoAnswer
<1>7. Prompted(c)' /\ Asked(c)'
  BY <1>4 DEF Prompted, Asked, NoPrompt
<1>8. Answered(c)'
  BY <1>1 DEF Token, Answered, Unanswered
<1>9. TokenExists(c)'
  <2>1. ~NoRequest(c) => ~NoRequest(c)'
    <3>1. ASSUME NEW i \in DOMAIN events, IsRequest(c, i)
          PROVE  i - 1 \in DOMAIN events' /\ IsRequest(c, i - 1)'
      BY <1>1, <1>5, <3>1 DEF IsRequest
    <3> QED
      BY <3>1 DEF NoRequest
  <2> QED
    BY <1>1, <1>3, <2>1 DEF Token, TokenExists, Unanswered, NoAnswer
<1> QED
  BY <1>6, <1>7, <1>8, <1>9 DEF Token

\* So does the broadcast of one that the window has had.
LEMMA TokenBroadcast ==
  ASSUME TypeOK, BroadcastSignal, NEW c \in Remotes, Token(c)
  PROVE  Token(c)'
<1> USE DEF game, strategies, screens
<1>1. PICK m \in DownMessage :
        /\ casting # <<>> /\ m.type # "your_turn" /\ Broadcast(m)
        /\ UNCHANGED <<game, strategies, up, screens>>
  BY ServerSecond
<1>2. NoPrompt(c) /\ cState[c] # "AwaitingMove"
  BY <1>1 DEF Token, Prompted, Asked, NoPrompt, OnlyRequests
<1>3. down[c] \in Seq(DownMessage) /\ down'[c] \in {down[c], Append(down[c], m)}
  BY <1>1, Sending DEF TypeOK
<1>4. NoPrompt(c)' /\ cState'[c] # "AwaitingMove"
  BY <1>1, <1>2, <1>3 DEF NoPrompt
<1>5. (NoAnswer(c)' <=> NoAnswer(c)) /\ (NoRequest(c)' <=> NoRequest(c))
      /\ (Unanswered(c)' <=> Unanswered(c))
  BY <1>1 DEF NoAnswer, NoRequest, IsRequest, Unanswered
<1>6. Requested(c)' /\ Answered(c)'
  BY <1>1, <1>4, <1>5 DEF Token, Requested, Answered, IsRequest
<1>7. Prompted(c)' /\ Asked(c)'
  BY <1>4 DEF Prompted, Asked, NoPrompt
<1>8. TokenExists(c)'
  BY <1>1, <1>2, <1>5 DEF Token, TokenExists
<1> QED
  BY <1>6, <1>7, <1>8 DEF Token

\* The request becomes the prompt, or goes nowhere if the player has left.
LEMMA TokenDeliverRequest ==
  ASSUME TypeOK, RouteInv, DeliverTurnRequest, NEW c \in Remotes \ gone, Token(c)
  PROVE  Token(c)'
<1> USE DEF strategies, server, screens
<1>1. G!Delivers("your_turn") /\ UNCHANGED <<strategies, casting, up, screens>> /\ casting = <<>>
  BY DEF DeliverTurnRequest
<1>2. /\ 1 \in DOMAIN events /\ events[1].signal = "your_turn" /\ events[1] = Head(events)
      /\ Len(events) \in Nat
      /\ Len(events') = Len(events) - 1 /\ DOMAIN events' = 1..Len(events')
      /\ \A i \in DOMAIN events' : i + 1 \in DOMAIN events /\ events'[i] = events[i + 1]
      /\ UNCHANGED rounds
  BY <1>1, Delivery
<1>3. OnlyRequests => OnlyRequests'
  BY <1>1, <1>2 DEF OnlyRequests
<1>4. \A i \in DOMAIN events' : IsRequest(c, i)' <=> IsRequest(c, i + 1)
  BY <1>2 DEF IsRequest
<1>5. ASSUME NEW i \in DOMAIN events, i # 1
      PROVE  i - 1 \in DOMAIN events' /\ events'[i - 1] = events[i]
  <2>1. i \in 2..Len(events)
    BY <1>2, <1>5 DEF TypeOK
  <2>2. i - 1 \in DOMAIN events'
    BY <1>2, <2>1
  <2>3. events'[i - 1] = events[(i - 1) + 1]
    BY <1>2, <2>2
  <2> QED
    BY <2>1, <2>2, <2>3
<1>6. SendTo(events[1].to, Message("your_turn", events[1].round)) /\ down[c] \in Seq(DownMessage)
  BY <1>2 DEF DeliverTurnRequest, SendYourTurn, TypeOK
<1>7. CASE ~IsRequest(c, 1)
  <2>1. events[1].to # c
    BY <1>2, <1>7 DEF IsRequest
  <2>2. down'[c] = down[c]
    BY <1>6, <2>1 DEF SendTo, TypeOK
  <2>3. Requested(c)'
    <3>1. ASSUME NEW i \in DOMAIN events', IsRequest(c, i + 1), NEW j \in DOMAIN events'
          PROVE  /\ j >= i => events'[j].signal = "your_turn"
                 /\ IsRequest(c, j + 1) => j = i
      <4>1. /\ i \in Nat /\ j \in Nat /\ j + 1 \in DOMAIN events /\ i + 1 \in DOMAIN events
            /\ events'[j] = events[j + 1] /\ (j >= i => j + 1 >= i + 1)
        BY <1>2
      <4>2. j + 1 >= i + 1 => events[j + 1].signal = "your_turn"
        BY <3>1, <4>1 DEF Token, Requested
      <4>3. IsRequest(c, j + 1) => j + 1 = i + 1
        BY <3>1, <4>1 DEF Token, Requested
      <4> QED
        BY <4>1, <4>2, <4>3
    <3>2. ASSUME NEW i \in DOMAIN events', IsRequest(c, i + 1)
          PROVE  /\ Unanswered(c) /\ NoPrompt(c) /\ NoAnswer(c) /\ cState[c] # "AwaitingMove"
                 /\ events'[i].round = rounds + 1
      BY <1>2, <3>2 DEF Token, Requested
    <3> QED
      BY <1>1, <1>2, <1>4, <2>2, <3>1, <3>2 DEF Requested, Unanswered, NoPrompt, NoAnswer
  <2>4. NoRequest(c)' => NoRequest(c)
    <3>1. ASSUME NEW i \in DOMAIN events, IsRequest(c, i)
          PROVE  i - 1 \in DOMAIN events' /\ IsRequest(c, i - 1)'
      BY <1>5, <1>7, <3>1 DEF IsRequest
    <3> QED
      BY <3>1 DEF NoRequest
  <2>5. Prompted(c)' /\ Asked(c)' /\ Answered(c)'
    BY <1>1, <1>2, <1>3, <2>2 DEF Token, Prompted, Asked, Answered, Unanswered, NoAnswer
  <2>6. TokenExists(c)'
    BY <1>1, <1>2, <2>2, <2>4 DEF Token, TokenExists, Unanswered, NoPrompt, NoAnswer
  <2> QED
    BY <2>3, <2>5, <2>6 DEF Token
<1>8. CASE IsRequest(c, 1)
  <2>1. /\ Unanswered(c) /\ NoPrompt(c) /\ cState[c] # "AwaitingMove" /\ NoAnswer(c)
        /\ events[1].round = rounds + 1 /\ events[1].to = c
        /\ OnlyRequests
        /\ \A j \in DOMAIN events : IsRequest(c, j) => j = 1
    <3>1. \A j \in DOMAIN events : j >= 1
      BY <1>2 DEF TypeOK
    <3> QED
      BY <1>1, <1>2, <1>8, <3>1 DEF Token, Requested, IsRequest, OnlyRequests
  <2>2. NoRequest(c)'
    <3>1. \A i \in DOMAIN events' : i + 1 # 1
      BY <1>2
    <3> QED
      BY <1>2, <1>4, <2>1, <3>1 DEF NoRequest
  <2>3. c \in clients
    BY DEF RouteInv, TypeOK
  <2>4. CASE cState[c] = "left"
    <3>1. down'[c] = down[c]
      BY <1>6, <2>1, <2>4 DEF SendTo, Connected, TypeOK
    <3> QED
      BY <1>1, <2>1, <2>2, <2>4, <3>1 DEF Token, Requested, Prompted, Asked, Answered,
         TokenExists, NoRequest, NoPrompt, NoAnswer
  <2>5. CASE cState[c] # "left"
    <3>1. down'[c] = Append(down[c], Message("your_turn", rounds + 1))
      BY <1>6, <2>1, <2>3, <2>5 DEF SendTo, Connected, TypeOK
    <3>2. /\ Len(down'[c]) \in DOMAIN down'[c] /\ down'[c][Len(down'[c])].type = "your_turn"
          /\ \A i \in DOMAIN down'[c] : down'[c][i].type = "your_turn" =>
               i = Len(down'[c]) /\ down'[c][i].round = rounds + 1
      BY <1>6, <2>1, <3>1 DEF NoPrompt, Message
    <3>3. Unanswered(c)' /\ cState'[c] # "AwaitingMove" /\ NoAnswer(c)' /\ OnlyRequests'
      BY <1>1, <1>3, <2>1 DEF Unanswered, NoAnswer
    <3>4. Prompted(c)'
      BY <1>2, <3>2, <3>3 DEF Prompted
    <3>5. Requested(c)' /\ Asked(c)' /\ Answered(c)'
      BY <2>2, <3>3 DEF Requested, Asked, Answered, NoRequest, NoAnswer
    <3>6. TokenExists(c)'
      BY <3>2 DEF TokenExists, NoPrompt
    <3> QED
      BY <3>4, <3>5, <3>6 DEF Token
  <2> QED
    BY <2>4, <2>5
<1> QED
  BY <1>7, <1>8

\* PickMove makes the token, and ends it.
LEMMA TokenPickMove ==
  ASSUME TypeOK, PickInv, NEW d \in Remotes, PickMove(d), NEW c \in Remotes \ gone, Token(c)
  PROVE  Token(c)'
<1> USE DEF server, screens, network
<1>1. CASE BeginTurn(d)
  <2>1. CASE c = d
    <3>1. picking[c] = "away"
      BY <1>1, <2>1, PickMoveCases DEF EndTurn, RequestTurn, BeginTurn, TypeOK
    <3>2. NoRequest(c) /\ NoPrompt(c) /\ NoAnswer(c) /\ cState[c] # "AwaitingMove"
      BY <3>1, NoTokenHeld DEF Unanswered
    <3>3. ~Unanswered(c)' /\ NoRequest(c)' /\ NoPrompt(c)' /\ NoAnswer(c)' /\ UNCHANGED screens
      BY <1>1, <2>1, <3>2 DEF BeginTurn, game, TypeOK, Unanswered, NoRequest, IsRequest, NoPrompt,
                             NoAnswer
    <3> QED
      BY <3>2, <3>3, NoTokenNeeded
  <2>2. CASE c # d
    BY <1>1, <2>2, TokenUntouched DEF BeginTurn, game, TypeOK
  <2> QED
    BY <2>1, <2>2
<1>2. CASE EndTurn(d) /\ (picking[d] = "away" \/ mMove[d] # 0 \/ d \in gone)
  <2>1. UNCHANGED <<rounds, events, mMove, casting, network>>
    BY <1>2 DEF EndTurn, G!BotDecides
  <2>2. CASE c = d
    <3>1. NoRequest(c) /\ NoPrompt(c) /\ NoAnswer(c) /\ cState[c] # "AwaitingMove"
      BY <1>2, <2>2, NoTokenHeld DEF Unanswered
    <3>2. ~Unanswered(c)' /\ NoRequest(c)' /\ NoPrompt(c)' /\ NoAnswer(c)' /\ UNCHANGED screens
      BY <1>2, <2>1, <2>2, <3>1 DEF EndTurn, TypeOK, Unanswered, NoRequest, IsRequest, NoPrompt,
                                  NoAnswer
    <3> QED
      BY <3>1, <3>2, NoTokenNeeded
  <2>3. CASE c # d
    BY <1>2, <2>1, <2>3, TokenUntouched DEF EndTurn, TypeOK
  <2> QED
    BY <2>2, <2>3
<1>3. CASE RequestTurn(d)
  <2>1. /\ events \in Seq(G!Event \cup TurnRequest) /\ events' = Append(events, YourTurn(d))
        /\ YourTurn(d).signal = "your_turn" /\ YourTurn(d).to = d
        /\ YourTurn(d).round = rounds + 1
        /\ UNCHANGED <<rounds, mMove, casting, network>>
    BY <1>3 DEF RequestTurn, TypeOK, YourTurn
  <2>2. OnlyRequests => OnlyRequests'
    BY <2>1 DEF OnlyRequests
  <2>3. CASE c = d
    <3>1. picking[c] = "asking" /\ mMove[c] = 0
      BY <1>3, <2>3 DEF RequestTurn, PickInv
    <3>2. NoRequest(c) /\ NoPrompt(c) /\ NoAnswer(c) /\ cState[c] # "AwaitingMove"
      BY <3>1, NoTokenHeld DEF Unanswered
    <3>3. /\ Unanswered(c)' /\ NoPrompt(c)' /\ NoAnswer(c)' /\ cState'[c] # "AwaitingMove"
      BY <1>3, <2>1, <2>3, <3>1, <3>2 DEF RequestTurn, TypeOK, Unanswered, NoPrompt, NoAnswer
    <3>n. PICK n \in Nat : n = Len(events) + 1
      BY <2>1
    <3>4. DOMAIN events' = 1..n /\ n \in DOMAIN events' /\ events'[n] = YourTurn(d)
      BY <2>1, <3>n
    <3>5. IsRequest(c, n)' /\ events'[n].round = rounds' + 1 /\ events'[n].signal = "your_turn"
      BY <2>1, <2>3, <3>4 DEF IsRequest
    <3>6. ASSUME NEW i \in DOMAIN events', IsRequest(c, i)'  PROVE i = n
      <4>1. i \in 1..n /\ (i # n => i \in DOMAIN events /\ events'[i] = events[i])
        BY <2>1, <3>n, <3>4
      <4> QED
        BY <3>2, <3>4, <3>6, <4>1 DEF NoRequest, IsRequest
    <3>7. Requested(c)'
      <4>1. \A j \in DOMAIN events' : j >= n => j = n
        BY <3>4
      <4> QED
        BY <3>3, <3>5, <3>6, <4>1 DEF Requested
    <3>8. ~NoRequest(c)'
      BY <3>4, <3>5 DEF NoRequest, IsRequest
    <3>9. Prompted(c)' /\ Asked(c)' /\ Answered(c)' /\ TokenExists(c)'
      BY <3>3, <3>8 DEF Prompted, Asked, Answered, TokenExists, NoPrompt, NoAnswer
    <3> QED
      BY <3>7, <3>9 DEF Token
  <2>4. CASE c # d
    <3>1. /\ UNCHANGED <<down, up, cState, cRound, lost>> /\ picking'[c] = picking[c]
          /\ Unanswered(c)' <=> Unanswered(c)
      BY <1>3, <2>1, <2>4 DEF RequestTurn, TypeOK, Unanswered
    <3>2. /\ \A i \in DOMAIN events : i \in DOMAIN events' /\ events'[i] = events[i]
          /\ \A i \in DOMAIN events' : i \in DOMAIN events \/ events'[i] = YourTurn(d)
          /\ \A i \in DOMAIN events' : IsRequest(c, i)' <=> i \in DOMAIN events /\ IsRequest(c, i)
      BY <2>1, <2>4 DEF IsRequest
    <3>3. Requested(c)'
      BY <2>1, <3>1, <3>2 DEF Token, Requested, NoPrompt, NoAnswer
    <3>4. Prompted(c)' /\ Asked(c)' /\ Answered(c)'
      BY <2>1, <2>2, <3>1 DEF Token, Prompted, Asked, Answered, NoAnswer
    <3>5. TokenExists(c)'
      BY <2>1, <3>1, <3>2 DEF Token, TokenExists, NoRequest, NoPrompt, NoAnswer
    <3> QED
      BY <3>3, <3>4, <3>5 DEF Token
  <2> QED
    BY <2>3, <2>4
<1> QED
  BY <1>1, <1>2, <1>3, PickMoveCases

\* The client hears the prompt, answers it or leaves; the server takes the answer.
LEMMA TokenClient ==
  ASSUME TypeOK, RouteInv, NEW c \in Remotes \ gone, Token(c),
         ClientReads(c) \/ ClientMoves(c) \/ ClientLeaves(c) \/ ServerReads(c)
  PROVE  c \in gone' \/ Token(c)'
<1> USE DEF game, strategies, server, screens
<1>1. CASE ClientHears(c)
  <2>0. /\ down[c] \in Seq(DownMessage) /\ down[c] # <<>> /\ down'[c] = Tail(down[c])
        /\ Head(down[c]) = down[c][1] /\ down[c][1] \in DownMessage
        /\ UNCHANGED <<rounds, events, picking, mMove, up, casting, lost>>
    BY <1>1 DEF ClientHears, TypeOK
  <2>1. /\ down[c] \in Seq(DownMessage) /\ down[c] # <<>> /\ down'[c] = Tail(down[c])
        /\ UNCHANGED <<rounds, events, picking, mMove, up, casting, lost>>
        /\ cState'[c] \in {"AwaitingMove", "Waiting", "GameOver", cState[c]}
        /\ cState'[c] = "AwaitingMove" <=> \/ down[c][1].type = "your_turn"
                                          \/ /\ cState[c] = "AwaitingMove"
                                             /\ down[c][1].type \in {"scores", "game_started"}
        /\ down[c][1].type = "your_turn" => cRound'[c] = down[c][1].round
    BY <1>1, <2>0 DEF ClientHears, TypeOK, DownMessage
  <2>2. cState[c] # "AwaitingMove"
    BY <2>1 DEF Token, Asked
  <2>3. /\ 1 \in DOMAIN down[c] /\ Len(down'[c]) = Len(down[c]) - 1
        /\ \A i \in DOMAIN down'[c] : i + 1 \in DOMAIN down[c] /\ down'[c][i] = down[c][i + 1]
        /\ \A i \in DOMAIN down[c] : i # 1 => i - 1 \in DOMAIN down'[c]
                                             /\ down'[c][i - 1] = down[c][i]
    BY <2>1
  <2>4. /\ (NoRequest(c)' <=> NoRequest(c)) /\ (NoAnswer(c)' <=> NoAnswer(c))
        /\ (Unanswered(c)' <=> Unanswered(c)) /\ (OnlyRequests' <=> OnlyRequests)
    BY <2>1 DEF NoRequest, IsRequest, NoAnswer, Unanswered, OnlyRequests
  <2>5. CASE down[c][1].type = "your_turn"
    <3>1. /\ Unanswered(c) /\ NoAnswer(c) /\ OnlyRequests /\ down[c][1].round = rounds + 1
          /\ Len(down[c]) = 1
      BY <2>3, <2>5 DEF Token, Prompted
    <3>2. NoRequest(c)
      BY <2>3, <2>5 DEF Token, Requested, NoRequest, NoPrompt
    <3>3. Len(down'[c]) = 0 /\ DOMAIN down'[c] = {}
      BY <2>1, <2>3, <3>1
    <3>4. Asked(c)' /\ cState'[c] = "AwaitingMove" /\ NoPrompt(c)'
      BY <2>1, <2>4, <2>5, <3>1, <3>3 DEF Asked, NoPrompt
    <3> QED
      BY <2>4, <3>1, <3>2, <3>4 DEF Token, Requested, Prompted, Answered, TokenExists, NoRequest,
                                    NoPrompt, NoAnswer
  <2>6. CASE down[c][1].type # "your_turn"
    <3>1. cState'[c] # "AwaitingMove"
      BY <2>1, <2>2, <2>6
    <3>2. NoPrompt(c)' <=> NoPrompt(c)
      BY <2>3, <2>6 DEF NoPrompt
    <3>3. Requested(c)'
      BY <2>1, <2>4, <3>1, <3>2 DEF Token, Requested, IsRequest
    <3>4. Prompted(c)'
      BY <2>1, <2>3, <2>4, <3>1 DEF Token, Prompted
    <3>5. Asked(c)' /\ Answered(c)'
      BY <2>1, <2>4, <3>1 DEF Token, Asked, Answered
    <3>6. TokenExists(c)'
      BY <1>1, <2>1, <2>2, <2>4, <3>2 DEF Token, TokenExists, ClientHears
    <3> QED
      BY <3>3, <3>4, <3>5, <3>6 DEF Token
  <2> QED
    BY <2>5, <2>6
<1>2. CASE ClientMoves(c)
  <2>1. /\ up[c] \in Seq(UpMessage) /\ c \in clients /\ cState[c] = "AwaitingMove"
        /\ up'[c] = Append(up[c], Message("move", cRound[c])) /\ cState'[c] = "Waiting"
        /\ UNCHANGED <<rounds, events, picking, mMove, down>>
    BY <1>2 DEF ClientMoves, TypeOK, RouteInv
  <2>2. /\ Unanswered(c) /\ NoAnswer(c) /\ Len(down[c]) = 0 /\ cRound[c] = rounds + 1
    BY <2>1 DEF Token, Asked
  <2>3. NoRequest(c) /\ NoPrompt(c)
    BY <2>1, <2>2 DEF Token, Requested, NoRequest, NoPrompt
  <2>4. /\ Len(up[c]) + 1 \in DOMAIN up'[c] /\ up'[c][Len(up[c]) + 1].type = "move"
        /\ \A i \in DOMAIN up'[c] : up'[c][i].type = "move" =>
             i = Len(up[c]) + 1 /\ up'[c][i].round = rounds + 1
    BY <2>1, <2>2 DEF NoAnswer, Message
  <2>5. Unanswered(c)' /\ NoRequest(c)' /\ NoPrompt(c)'
    BY <2>1, <2>2, <2>3 DEF Unanswered, NoRequest, IsRequest, NoPrompt
  <2> QED
    BY <2>1, <2>4, <2>5 DEF Token, Requested, Prompted, Asked, Answered, TokenExists, NoRequest,
                            NoPrompt, NoAnswer
<1>3. CASE ClientLeaves(c)
  <2>1. PICK n \in 0..Len(up[c]) :
          up'[c] = Append(SubSeq(up[c], 1, n), Message("disconnected", 0))
    BY <1>3 DEF ClientLeaves, TypeOK, RouteInv
  <2>2. /\ up[c] \in Seq(UpMessage) /\ down'[c] = <<>> /\ cState'[c] = "left"
        /\ UNCHANGED <<rounds, events, picking, mMove>>
    BY <1>3 DEF ClientLeaves, TypeOK
  <2>3. \A i \in DOMAIN up'[c] : up'[c][i].type = "move" =>
          i \in DOMAIN up[c] /\ up'[c][i] = up[c][i]
    BY <2>1, <2>2 DEF Message
  <2>4. (NoAnswer(c) => NoAnswer(c)') /\ NoPrompt(c)' /\ (Unanswered(c)' <=> Unanswered(c))
    BY <2>2, <2>3 DEF NoAnswer, NoPrompt, Unanswered
  <2>5. Requested(c)'
    BY <2>2, <2>4 DEF Token, Requested, IsRequest
  <2>6. Prompted(c)' /\ Asked(c)' /\ TokenExists(c)'
    BY <2>2, <2>4 DEF Prompted, Asked, TokenExists, NoPrompt
  <2>7. Answered(c)'
    BY <2>2, <2>3, <2>4 DEF Token, Answered
  <2> QED
    BY <2>5, <2>6, <2>7 DEF Token
<1>4. CASE ServerReads(c)
  <2>1. /\ up[c] \in Seq(UpMessage) /\ up[c] # <<>> /\ up'[c] = Tail(up[c])
        /\ UNCHANGED <<rounds, events, picking, down, cState, cRound>>
    BY <1>4 DEF ServerReads, TypeOK
  <2>2. CASE Head(up[c]).type = "move"
    <3>1. mMove'[c] = up[c][1].round
      BY <1>4, <2>2 DEF ServerReads, SupplyMove, RouteInv, TypeOK
    <3>2. Unanswered(c) /\ mMove'[c] = rounds + 1
      BY <2>1, <2>2, <3>1 DEF Token, Answered
    <3>3. ~NoAnswer(c)
      BY <2>1, <2>2 DEF NoAnswer
    <3>4. NoRequest(c) /\ NoPrompt(c) /\ cState[c] # "AwaitingMove"
      BY <3>3 DEF Token, Requested, Prompted, Asked, NoRequest, NoPrompt
    <3>5. NoAnswer(c)'
      <4>1. \A j \in DOMAIN up'[c] : j + 1 \in DOMAIN up[c] /\ up'[c][j] = up[c][j + 1] /\ j + 1 # 1
        BY <2>1
      <4>2. \A j \in DOMAIN up[c] : up[c][j].type = "move" => j = 1
        BY <2>1, <2>2 DEF Token, Answered
      <4> QED
        BY <4>1, <4>2 DEF NoAnswer
    <3>6. ~Unanswered(c)' /\ NoRequest(c)' /\ NoPrompt(c)' /\ cState'[c] # "AwaitingMove"
      BY <2>1, <3>2, <3>4 DEF Unanswered, NoRequest, IsRequest, NoPrompt, TypeOK
    <3> QED
      BY <3>5, <3>6, NoTokenNeeded
  <2>3. CASE Head(up[c]).type = "disconnected"
    BY <1>4, <2>3 DEF ServerReads, OnDisconnected, RouteInv
  <2> QED
    BY <1>4, <2>2, <2>3 DEF ServerReads
<1>5. CASE ClientReads(c) /\ cState[c] = "dialog"
  <2>1. /\ UNCHANGED <<rounds, events, picking, mMove, up, casting>>
        /\ cState'[c] # "AwaitingMove" /\ lost[c] \subseteq lost'[c]
    BY <1>5, Reading
  <2>2. PICK n \in 1..Len(down[c]) :
          /\ Len(down'[c]) = Len(down[c]) - n /\ down'[c] \in Seq(DownMessage)
          /\ \A i \in DOMAIN down'[c] : i + n \in DOMAIN down[c] /\ down'[c][i] = down[c][i + n]
          /\ \A i \in 1..n : down[c][i].type = "game_started" \/ down[c][i] \in lost'[c]
    BY <1>5, Reading
  <2>3. /\ (NoRequest(c)' <=> NoRequest(c)) /\ (NoAnswer(c)' <=> NoAnswer(c))
        /\ (Unanswered(c)' <=> Unanswered(c)) /\ (OnlyRequests' <=> OnlyRequests)
    BY <2>1 DEF NoRequest, IsRequest, NoAnswer, Unanswered, OnlyRequests
  <2>4. NoPrompt(c) => NoPrompt(c)'
    BY <2>2 DEF NoPrompt
  <2>5. Requested(c)' /\ Answered(c)'
    BY <2>1, <2>3, <2>4 DEF Token, Requested, Answered, IsRequest
  <2>6. Prompted(c)'
    <3>1. ASSUME NEW i \in DOMAIN down'[c], down'[c][i].type = "your_turn"
          PROVE  /\ Unanswered(c) /\ NoAnswer(c) /\ OnlyRequests
                 /\ down'[c][i].round = rounds + 1 /\ i + n = Len(down[c])
      BY <2>2, <3>1 DEF Token, Prompted
    <3>2. \A i \in DOMAIN down'[c] : i + n = Len(down[c]) => i = Len(down'[c])
      BY <2>2
    <3> QED
      BY <2>1, <2>3, <3>1, <3>2 DEF Prompted
  <2>7. Asked(c)'
    BY <2>1 DEF Asked
  <2>8. TokenExists(c)'
    <3>1. ASSUME NEW i \in DOMAIN down[c], down[c][i].type = "your_turn"
          PROVE  ~NoPrompt(c)' \/ Message("your_turn", rounds + 1) \in lost'[c]
      <4>1. down[c] \in Seq(DownMessage) /\ i \in 1..Len(down[c])
        BY DEF TypeOK
      <4>2. down[c][i] = Message("your_turn", rounds + 1)
        <5>1. down[c][i] \in DownMessage /\ down[c][i].round = rounds + 1
          BY <3>1, <4>1 DEF Token, Prompted
        <5> QED
          BY <3>1, <5>1 DEF DownMessage, Message
      <4>3. CASE i \in 1..n
        BY <2>2, <3>1, <4>2, <4>3
      <4>4. CASE i \notin 1..n
        <5>1. i - n \in DOMAIN down'[c] /\ (i - n) + n = i
          BY <2>2, <4>1, <4>4
        <5>2. down'[c][i - n] = down[c][i]
          BY <2>2, <5>1
        <5> QED
          BY <3>1, <5>1, <5>2 DEF NoPrompt
      <4> QED
        BY <4>3, <4>4
    <3>2. ~NoPrompt(c) => ~NoPrompt(c)' \/ Message("your_turn", rounds + 1) \in lost'[c]
      BY <3>1 DEF NoPrompt
    <3> QED
      BY <1>5, <2>1, <2>3, <3>2 DEF Token, TokenExists
  <2> QED
    BY <2>5, <2>6, <2>7, <2>8 DEF Token
<1> QED
  BY <1>1, <1>2, <1>3, <1>4, <1>5, Reading

\* Every step keeps the tokens.
LEMMA TokenNext ==
  TypeOK /\ RouteInv /\ PickInv /\ TokenInv /\ [Next]_vars => TokenInv'
<1> SUFFICES ASSUME TypeOK, RouteInv, PickInv, TokenInv, [Next]_vars,
                    NEW c \in Remotes \ gone'
             PROVE  Token(c)'
  BY DEF TokenInv
<1> USE DEF game, strategies, server, screens, network, remote
<1>1. c \in Remotes \ gone /\ Token(c) /\ phase = "open"
  <2>1. gone \subseteq gone'
    BY DEF Next, HostClicks, StopGame, CloseStream, Join, Deliver, DeliverPrompt, DeliverScores,
       DeliverRoundFinished, DeliverGameFinished, Cast, BroadcastSignal, DeliverTurnRequest,
       HostWorker, CloseSocket, ServerReads, SupplyMove, OnDisconnected, PickMove, BeginTurn,
       RequestTurn, EndTurn, ClientReads, ClientEnters, ClientStays, ClientHears, ClientMoves,
       ClientLeaves, vars
  <2> QED
    BY <2>1 DEF TokenInv, RouteInv
<1>2. CASE HostClicks \/ CloseStream
  BY <1>1, <1>2, TokenUntouched DEF HostClicks, G!ClickStart, G!ClickMove, G!ClickFinish,
     G!worker, CloseStream
<1>3. CASE StopGame \/ Join \/ \E d \in Remotes : CloseSocket(d)
  BY <1>1, <1>3 DEF StopGame, Join, G!Join, CloseSocket, RouteInv, TypeOK
<1>4. CASE DeliverPrompt
  <2>1. G!Delivers("prompt") /\ UNCHANGED remote
    BY <1>4 DEF DeliverPrompt, G!DeliverPrompt
  <2> QED
    BY <1>1, <2>1, TokenDelivery
<1>5. CASE DeliverScores \/ DeliverRoundFinished \/ DeliverGameFinished
  <2>1. PICK s \in {"scores", "round", "over"} : G!Delivers(s) /\ UNCHANGED <<strategies, network>>
    BY <1>5, WindowFirst
  <2> QED
    BY <1>1, <2>1, TokenDelivery
<1>11. CASE BroadcastSignal
  BY <1>1, <1>11, TokenBroadcast
<1>6. CASE DeliverTurnRequest
  BY <1>1, <1>6, TokenDeliverRequest
<1>7. CASE HostWorker
  BY <1>1, <1>7, TokenHostWorker
<1>8. ASSUME NEW d \in Remotes, PickMove(d)  PROVE Token(c)'
  BY <1>1, <1>8, TokenPickMove
<1>9. ASSUME NEW d \in Remotes,
             ServerReads(d) \/ ClientReads(d) \/ ClientMoves(d) \/ ClientLeaves(d)
      PROVE  Token(c)'
  <2>1. CASE d = c
    BY <1>1, <1>9, <2>1, TokenClient
  <2>2. CASE d # c
    <3>1. /\ UNCHANGED <<rounds, events, picking>> /\ mMove'[c] = mMove[c]
          /\ down'[c] = down[c] /\ up'[c] = up[c]
          /\ cState'[c] = cState[c] /\ cRound'[c] = cRound[c] /\ lost'[c] = lost[c]
          /\ UNCHANGED casting
      <4>1. CASE ClientReads(d)
        BY <2>2, <4>1, Reading DEF TypeOK
      <4> QED
        BY <1>9, <2>2, <4>1
           DEF ServerReads, SupplyMove, OnDisconnected, ClientMoves, ClientLeaves, TypeOK
    <3> QED
      BY <1>1, <3>1, TokenUntouched
  <2> QED
    BY <2>1, <2>2
<1>10. CASE UNCHANGED vars
  BY <1>1, <1>10, TokenUntouched DEF vars
<1> QED
  BY <1>2, <1>3, <1>4, <1>5, <1>6, <1>7, <1>8, <1>9, <1>10, <1>11 DEF Next, Deliver

\* Every step keeps the end of the game last.
LEMMA OverNext ==
  TypeOK /\ OverInv /\ [Next]_vars => OverInv'
<1> SUFFICES ASSUME TypeOK, OverInv, [Next]_vars  PROVE OverInv'
  OBVIOUS
<1> USE DEF OverInv, game, strategies, server, screens, network, remote
<1>1. CASE HostClicks
  BY <1>1 DEF HostClicks, G!ClickStart, G!ClickMove, G!ClickFinish, G!worker, G!clicks,
     G!Window!onStartRound, G!Window!pushMove, G!Window!onFinishButton, G!Window!setState
<1>2. CASE StopGame \/ CloseStream \/ Join
  <2>1. UNCHANGED <<mState, pc>> /\ (events' = events \/ events' = <<>>)
    BY <1>2 DEF StopGame, CloseStream, Join, G!Join, G!window, G!worker
  <2> QED
    BY <2>1
<1>3. ASSUME NEW s, G!Delivers(s),
             mState' = "GameOver" => mState = "GameOver" \/ s = "over"
      PROVE  OverInv'
  <2>1. /\ 1 \in DOMAIN events /\ events[1].signal = s /\ Len(events) \in Nat
        /\ Len(events') = Len(events) - 1 /\ events' \in Seq(G!Event \cup TurnRequest)
        /\ \A i \in DOMAIN events' : i + 1 \in DOMAIN events /\ events'[i] = events[i + 1]
        /\ UNCHANGED pc
    BY <1>3, Delivery
  <2>2. ASSUME NEW i \in DOMAIN events', events'[i].signal = "over"
        PROVE  pc' = "finished" /\ i = Len(events')
    BY <2>1, <2>2
  <2>3. ASSUME mState' = "GameOver"  PROVE pc' = "finished" /\ events' = <<>>
    <3>1. mState # "GameOver" /\ s = "over"
      BY <1>3, <2>1, <2>3
    <3>2. pc = "finished" /\ Len(events) = 1
      BY <2>1, <3>1
    <3> QED
      BY <2>1, <3>2, EmptySeq
  <2> QED
    BY <2>2, <2>3
<1>4. CASE DeliverPrompt
  <2>1. G!Delivers("prompt") /\ mState' # "GameOver"
    BY <1>4 DEF DeliverPrompt, G!DeliverPrompt, G!Window!onMovePrompt, G!Window!setState
  <2> QED
    BY <1>3, <2>1
<1>5. CASE DeliverScores \/ DeliverRoundFinished \/ DeliverGameFinished
  BY <1>3, <1>5, WindowFirst
<1>6. CASE DeliverTurnRequest
  <2>1. G!Delivers("your_turn") /\ UNCHANGED mState
    BY <1>6 DEF DeliverTurnRequest
  <2> QED
    BY <1>3, <2>1
<1>7. CASE HostWorker
  <2>1. events \in Seq(G!Event \cup TurnRequest) /\ rounds \in Nat
    BY DEF TypeOK
  <2>2. CASE G!ShowResults
    BY <2>1, <2>2 DEF G!ShowResults, G!Signal, G!gui, G!window
  <2>3. CASE G!ResolveRound
    BY <2>1, <2>3 DEF G!ResolveRound, G!Signal, G!gui, G!window
  <2>4. CASE G!ShowMovePrompt
    BY <2>1, <2>4 DEF G!ShowMovePrompt, G!Signal, G!gui, G!window
  <2>5. CASE ~(G!ShowResults \/ G!ResolveRound \/ G!ShowMovePrompt)
    <3>1. UNCHANGED <<events, mState>> /\ pc # "finished"
      BY <1>7, <2>5 DEF HostWorker, G!LoopReadsLine, G!LoopReadsEof, G!BotDecides,
         G!ReadAttempt, G!ReadEof, G!gui, G!window
    <3> QED
      BY <3>1
  <2> QED
    BY <2>2, <2>3, <2>4, <2>5
<1>8. ASSUME NEW c \in Remotes, PickMove(c)  PROVE OverInv'
  <2>1. CASE BeginTurn(c)
    BY <2>1 DEF BeginTurn
  <2>2. CASE EndTurn(c)
    BY <2>2 DEF EndTurn, G!BotDecides, G!gui, G!window
  <2>3. CASE RequestTurn(c)
    <3>1. /\ events \in Seq(G!Event \cup TurnRequest) /\ events' = Append(events, YourTurn(c))
          /\ YourTurn(c).signal = "your_turn" /\ pc = "thinking" /\ UNCHANGED <<pc, mState>>
      BY <1>8, <2>3, PickMoveCases DEF RequestTurn, YourTurn, TypeOK
    <3>2. mState' # "GameOver" /\ \A i \in DOMAIN events : events[i].signal # "over"
      BY <3>1
    <3>3. \A i \in DOMAIN events' : events'[i].signal # "over"
      BY <3>1, <3>2
    <3> QED
      BY <3>2, <3>3
  <2> QED
    BY <1>8, <2>1, <2>2, <2>3, PickMoveCases
<1>9. ASSUME NEW c \in Remotes, \/ ServerReads(c) \/ ClientReads(c) \/ ClientMoves(c)
                                \/ ClientLeaves(c) \/ CloseSocket(c)
      PROVE  OverInv'
  <2>1. UNCHANGED <<mState, pc, events>>
    BY <1>9, Reading DEF ServerReads, ClientMoves, ClientLeaves, CloseSocket
  <2> QED
    BY <2>1
<1>10. CASE UNCHANGED vars \/ BroadcastSignal
  <2>1. UNCHANGED game
    BY <1>10 DEF vars, BroadcastSignal
  <2> QED
    BY <2>1
<1> QED
  BY <1>1, <1>2, <1>4, <1>5, <1>6, <1>7, <1>8, <1>9, <1>10 DEF Next, Deliver

\* Every step keeps the clients' screens behind the host's by what is on its way.
LEMMA ScreenNext == IInv /\ [Next]_vars => ScreenInv'
<1> SUFFICES ASSUME IInv, [Next]_vars, NEW c \in Remotes, phase' = "open", cState'[c] # "left"
             PROVE  TableFollows(c)' /\ EndFollows(c)'
  BY DEF ScreenInv
<1> USE DEF IInv, game, strategies, server, screens, network, remote
<1>1. /\ phase = "open" /\ cState[c] # "left"
      /\ TableFollows(c) /\ EndFollows(c) /\ c \notin gone /\ Token(c)
      /\ down[c] \in Seq(DownMessage)
  <2>1. phase = "open" /\ cState[c] # "left"
    BY DEF TypeOK, Next, HostClicks, G!ClickStart, G!ClickMove, G!ClickFinish, StopGame,
       CloseStream, Join, G!Join, Deliver, DeliverPrompt, DeliverScores, DeliverRoundFinished,
       DeliverGameFinished, Cast, BroadcastSignal, DeliverTurnRequest, G!DeliverPrompt, G!DeliverScores,
       G!DeliverRoundFinished, G!DeliverGameFinished, G!Delivers, HostWorker, G!LoopReadsLine,
       G!LoopReadsEof, G!ShowResults, G!BotDecides, G!ShowMovePrompt, G!ReadAttempt, G!ReadEof,
       G!ResolveRound, G!gui, CloseSocket, ServerReads, PickMove, BeginTurn, RequestTurn, EndTurn,
       ClientReads, ClientEnters, ClientStays, ClientHears, ClientMoves, ClientLeaves, vars
  <2> QED
    BY <2>1 DEF ScreenInv, LeaveInv, TokenInv, TypeOK
<1>2. ASSUME UNCHANGED table, mState' = "GameOver" <=> mState = "GameOver",
             down'[c] = down[c], cTable'[c] = cTable[c], lost'[c] = lost[c], UNCHANGED casting,
             cState'[c] = "GameOver" <=> cState[c] = "GameOver"
      PROVE  TableFollows(c)' /\ EndFollows(c)'
  BY <1>1, <1>2 DEF TableFollows, EndFollows, Casting, Finishing, Missed
<1>3. CASE HostClicks
  <2>1. UNCHANGED <<table, remote>> /\ mState' # "GameOver" /\ mState # "GameOver"
    BY <1>3 DEF HostClicks, G!ClickStart, G!ClickMove, G!ClickFinish, G!Window!onStartRound,
       G!Window!pushMove, G!Window!onFinishButton, G!Window!setState
  <2> QED
    BY <1>2, <2>1
<1>4. CASE DeliverPrompt
  <2>1. /\ UNCHANGED <<table, remote>> /\ mState' # "GameOver" /\ mState # "GameOver"
    BY <1>4 DEF DeliverPrompt, G!DeliverPrompt, G!Delivers, G!Window!onMovePrompt,
       G!Window!setState, OverInv
  <2> QED
    BY <1>2, <2>1
<1>5. CASE DeliverScores \/ DeliverRoundFinished \/ DeliverGameFinished
  <2>1. PICK s \in {"scores", "round", "over"} :
           /\ casting = <<>> /\ casting' = <<events[1]>> /\ events[1].signal = s
           /\ UNCHANGED <<down, screens>>
           /\ table' = IF s = "scores" THEN events[1].round ELSE table
           /\ mState' = IF s = "scores" THEN mState
                        ELSE IF s = "over" \/ mState = "GameOver" THEN "GameOver" ELSE "Idle"
    BY <1>5, WindowFirst
  <2>2. \A t \in {"scores", "over"} : ~Casting(t) /\ (Casting(t)' <=> s = t)
    BY <2>1 DEF Casting
  <2>3. casting'[1] = events[1]
    BY <2>1
  <2>4. TableFollows(c)'
    BY <1>1, <2>1, <2>2, <2>3 DEF TableFollows
  <2>5. EndFollows(c)'
    BY <1>1, <2>1, <2>2 DEF EndFollows, Finishing, Missed
  <2> QED
    BY <2>4, <2>5
<1>12. CASE BroadcastSignal
  <2>1. PICK m \in DownMessage :
           /\ casting # <<>> /\ casting' = <<>> /\ casting[1] \in Announced
           /\ Broadcast(m) /\ UNCHANGED <<game, screens>>
           /\ m.type = IF Casting("scores") THEN "scores"
                       ELSE IF Casting("over") THEN "game_finished" ELSE "round_finished"
           /\ m.round = casting[1].round
    BY <1>12, ServerSecond
  <2>2. down'[c] = Append(down[c], m)
    BY <1>1, <2>1 DEF Broadcast, Connected, RouteInv, TypeOK
  <2>3. PICK n \in Nat : n = Len(down[c]) + 1
    BY <1>1
  <2>4. /\ DOMAIN down'[c] = 1..n /\ n \in DOMAIN down'[c] /\ down'[c][n] = m
        /\ \A i \in DOMAIN down[c] : i \in DOMAIN down'[c] /\ down'[c][i] = down[c][i]
        /\ \A i \in DOMAIN down'[c] : i = n \/ (i \in DOMAIN down[c] /\ i < n)
    BY <1>1, <2>2, <2>3
  <2>5. \A t \in {"scores", "over"} : ~Casting(t)'
    BY <2>1 DEF Casting
  <2>6. TableFollows(c)'
    <3>1. CASE Casting("scores")
      <4>1. m = Message("scores", table)
        BY <1>1, <2>1, <3>1 DEF TableFollows, Message, DownMessage
      <4>2. ~(\E j \in DOMAIN down'[c] : j > n)
        BY <2>3, <2>4
      <4> QED
        BY <2>1, <2>4, <2>5, <4>1, <4>2 DEF TableFollows
    <3>2. CASE ~Casting("scores")
      <4>1. m.type # "scores" /\ UNCHANGED <<table, cTable, lost>>
        BY <2>1, <3>2
      <4>2. CASE /\ cTable[c] = table \/ Message("scores", table) \in lost[c]
                 /\ \A i \in DOMAIN down[c] : down[c][i].type # "scores"
        BY <2>4, <2>5, <4>1, <4>2 DEF TableFollows
      <4>3. ASSUME NEW i \in DOMAIN down[c], down[c][i] = Message("scores", table),
                   \A j \in DOMAIN down[c] : j > i => down[c][j].type # "scores"
            PROVE  TableFollows(c)'
        <5>1. \A j \in DOMAIN down'[c] : j > i => down'[c][j].type # "scores"
          BY <2>4, <4>1, <4>3
        <5> QED
          BY <2>4, <2>5, <4>1, <4>3, <5>1 DEF TableFollows
      <4> QED
        BY <1>1, <3>2, <4>2, <4>3 DEF TableFollows
    <3> QED
      BY <3>1, <3>2
  <2>7. EndFollows(c)'
    <3>1. Finishing(c)' <=> Finishing(c) \/ m.type = "game_finished"
      BY <2>4 DEF Finishing
    <3>2. m.type = "game_finished" <=> Casting("over")
      BY <2>1 DEF Casting
    <3> QED
      BY <1>1, <2>1, <2>5, <3>1, <3>2 DEF EndFollows, Missed
  <2> QED
    BY <2>6, <2>7
<1>6. CASE DeliverTurnRequest
  <2>1. /\ G!Delivers("your_turn") /\ UNCHANGED <<table, mState, casting, screens>>
        /\ SendTo(events[1].to, Message("your_turn", events[1].round))
        /\ events[1] \in TurnRequest
    BY <1>6, Delivery DEF DeliverTurnRequest, SendYourTurn, G!Event, TurnRequest
  <2>2. PICK m \in DownMessage : m.type = "your_turn" /\ SendTo(events[1].to, m)
    BY <2>1 DEF Message, DownMessage, TurnRequest
  <2>3. CASE down'[c] = down[c]
    BY <1>2, <2>1, <2>3
  <2>4. CASE down'[c] = Append(down[c], m)
    <3>1. PICK n \in Nat : n = Len(down[c]) + 1
      BY <1>1
    <3>2. /\ DOMAIN down'[c] = 1..n /\ down'[c][n] = m
          /\ \A i \in DOMAIN down[c] : i \in DOMAIN down'[c] /\ down'[c][i] = down[c][i]
          /\ \A i \in DOMAIN down'[c] : i = n \/ i \in DOMAIN down[c]
      BY <1>1, <2>4, <3>1
    <3> QED
      BY <1>1, <2>1, <2>2, <3>2 DEF TableFollows, EndFollows, Message, Casting, Finishing, Missed
  <2> QED
    BY <2>1, <2>2, <2>3, <2>4, Sending DEF TurnRequest
<1>7. CASE HostWorker
  <2>1. UNCHANGED <<table, mState, remote>>
    BY <1>7 DEF HostWorker, G!LoopReadsLine, G!LoopReadsEof, G!ShowResults, G!BotDecides,
       G!ShowMovePrompt, G!ReadAttempt, G!ReadEof, G!ResolveRound, G!gui, G!window
  <2> QED
    BY <1>2, <2>1
<1>8. ASSUME NEW d \in Remotes, PickMove(d) \/ ServerReads(d) \/ (d # c /\ ClientReads(d))
                                \/ ClientMoves(d) \/ ClientLeaves(d)
      PROVE  TableFollows(c)' /\ EndFollows(c)'
  <2>1. CASE PickMove(d)
    <3>1. UNCHANGED <<table, mState, server, network>>
      BY <2>1, PickMoveCases DEF BeginTurn, EndTurn, RequestTurn, G!BotDecides, G!gui, G!window
    <3> QED
      BY <1>2, <3>1
  <2>2. CASE ServerReads(d)
    BY <1>2, <2>2 DEF ServerReads, SupplyMove, OnDisconnected
  <2>3. CASE d # c /\ ClientReads(d)
    BY <1>2, <2>3, Reading DEF TypeOK
  <2>4. CASE ClientMoves(d)
    <3>1. UNCHANGED <<table, mState, down, casting, cTable, lost>> /\ (cState'[c] = cState[c] \/ d = c)
      BY <2>4 DEF ClientMoves, TypeOK
    <3>2. d = c => cState[c] = "AwaitingMove" /\ cState'[c] = "Waiting"
      BY <2>4 DEF ClientMoves, TypeOK
    <3> QED
      BY <1>2, <3>1, <3>2
  <2>5. CASE ClientLeaves(d)
    <3>1. d # c
      BY <2>5 DEF ClientLeaves, TypeOK
    <3> QED
      BY <1>2, <2>5, <3>1 DEF ClientLeaves, TypeOK
  <2> QED
    BY <1>8, <2>1, <2>2, <2>3, <2>4, <2>5
<1>9. CASE ClientReads(c) /\ cState[c] # "dialog"
  <2> DEFINE m == down[c][1]
  <2>0. ClientHears(c)
    BY <1>9, Reading
  <2>1. /\ down[c] # <<>> /\ down'[c] = Tail(down[c]) /\ m \in DownMessage
        /\ Head(down[c]) = m /\ UNCHANGED <<table, mState, casting, lost>>
    <3>1. /\ down[c] # <<>> /\ down' = [down EXCEPT ![c] = Tail(@)]
          /\ UNCHANGED <<game, server, lost>>
      BY <2>0 DEF ClientHears
    <3>2. Head(down[c]) = m /\ m \in DownMessage
      BY <1>1, <3>1
    <3> QED
      BY <3>1, <3>2 DEF TypeOK
  <2>2. /\ 1 \in DOMAIN down[c] /\ DOMAIN down[c] \subseteq Nat
        /\ \A i \in DOMAIN down'[c] : i + 1 \in DOMAIN down[c] /\ down'[c][i] = down[c][i + 1]
        /\ \A i \in DOMAIN down[c] : i # 1 => i - 1 \in DOMAIN down'[c]
                                             /\ down'[c][i - 1] = down[c][i]
    BY <1>1, <2>1
  <2>3. cTable'[c] = IF m.type = "scores" THEN m.round ELSE cTable[c]
    BY <2>0, <2>1 DEF ClientHears, TypeOK
  <2>4. TableFollows(c)'
    <3>1. CASE Casting("scores")
      BY <1>1, <2>1, <3>1 DEF TableFollows, Casting
    <3>2. CASE /\ ~Casting("scores")
               /\ cTable[c] = table \/ Message("scores", table) \in lost[c]
               /\ \A i \in DOMAIN down[c] : down[c][i].type # "scores"
      <4>1. UNCHANGED cTable[c] /\ \A i \in DOMAIN down'[c] : down'[c][i].type # "scores"
        BY <2>2, <2>3, <3>2
      <4> QED
        BY <2>1, <3>2, <4>1 DEF TableFollows, Casting
    <3>3. ASSUME NEW i \in DOMAIN down[c], down[c][i] = Message("scores", table),
                 \A j \in DOMAIN down[c] : j > i => down[c][j].type # "scores",
                 ~Casting("scores")
          PROVE  TableFollows(c)'
      <4>1. CASE i = 1
        <5>1. cTable'[c] = table'
          BY <2>1, <2>3, <3>3, <4>1 DEF Message
        <5>2. \A j \in DOMAIN down'[c] : j + 1 > 1
          BY <2>2, <2>1, <1>1
        <5>3. \A j \in DOMAIN down'[c] : down'[c][j].type # "scores"
          BY <2>2, <3>3, <4>1, <5>2
        <5> QED
          BY <2>1, <3>3, <5>1, <5>3 DEF TableFollows, Casting
      <4>2. CASE i # 1
        <5>1. \A j \in DOMAIN down'[c] : j > i - 1 => j + 1 > i
          BY <2>1, <2>2, <1>1
        <5>2. \A j \in DOMAIN down'[c] : j > i - 1 => down'[c][j].type # "scores"
          BY <2>2, <3>3, <5>1
        <5>3. i - 1 \in DOMAIN down'[c] /\ down'[c][i - 1] = Message("scores", table')
          BY <2>1, <2>2, <3>3, <4>2
        <5> QED
          BY <2>1, <3>3, <5>2, <5>3 DEF TableFollows, Casting
      <4> QED
        BY <4>1, <4>2
    <3> QED
      BY <1>1, <3>1, <3>2, <3>3 DEF TableFollows
  <2>5. EndFollows(c)'
    <3>1. m.type = "your_turn" => mState # "GameOver"
      <4>1. m.type = "your_turn" => Unanswered(c)
        BY <1>1, <2>2 DEF Token, Prompted
      <4> QED
        BY <4>1 DEF Unanswered, PickInv, OverInv
    <3>2. m.type # "disconnected"
      BY <1>1, <2>2 DEF LeaveInv
    <3>3. cState'[c] = IF m.type = "your_turn" THEN "AwaitingMove"
                       ELSE IF m.type = "game_finished" THEN "GameOver"
                       ELSE IF m.type = "round_finished" /\ cState[c] # "GameOver" THEN "Waiting"
                       ELSE cState[c]
      BY <2>0, <2>1, <3>2 DEF ClientHears, TypeOK
    <3>4. CASE m.type = "game_finished"
      <4>1. mState = "GameOver" /\ cState'[c] = "GameOver"
        BY <1>1, <2>2, <3>3, <3>4 DEF EndFollows, Finishing
      <4> QED
        BY <2>1, <4>1 DEF EndFollows
    <3>5. CASE m.type # "game_finished"
      <4>1. /\ Finishing(c)' <=> Finishing(c)
            /\ Missed(c)' <=> Missed(c)
            /\ Casting("over")' <=> Casting("over")
        BY <2>1, <2>2, <3>5 DEF Finishing, Missed, Casting
      <4>2. CASE m.type = "your_turn"
        BY <1>1, <2>1, <3>1, <3>3, <4>1, <4>2 DEF EndFollows
      <4>3. CASE m.type # "your_turn"
        <5>1. cState'[c] = "GameOver" <=> cState[c] = "GameOver"
          BY <3>3, <3>5, <4>3
        <5> QED
          BY <1>1, <2>1, <4>1, <5>1 DEF EndFollows
      <4> QED
        BY <4>2, <4>3
    <3> QED
      BY <3>4, <3>5
  <2> QED
    BY <2>4, <2>5
<1>13. CASE ClientReads(c) /\ cState[c] = "dialog"
  <2>1. /\ UNCHANGED <<table, mState, casting, cTable>> /\ cState'[c] # "GameOver"
        /\ lost[c] \subseteq lost'[c]
    BY <1>13, Reading
  <2>2. PICK n \in 1..Len(down[c]) :
          /\ Len(down'[c]) = Len(down[c]) - n /\ down'[c] \in Seq(DownMessage)
          /\ \A i \in DOMAIN down'[c] : i + n \in DOMAIN down[c] /\ down'[c][i] = down[c][i + n]
          /\ lost'[c] \subseteq lost[c] \cup {down[c][i] : i \in 1..n}
          /\ \A i \in 1..n : down[c][i].type = "game_started" \/ down[c][i] \in lost'[c]
    BY <1>13, Reading
  <2>3. ASSUME NEW i \in DOMAIN down[c], i \notin 1..n
        PROVE  i - n \in DOMAIN down'[c] /\ down'[c][i - n] = down[c][i]
    <3>1. i - n \in DOMAIN down'[c] /\ (i - n) + n = i
      BY <1>1, <2>2, <2>3
    <3> QED
      BY <2>2, <3>1
  <2>4. TableFollows(c)'
    <3>1. CASE Casting("scores")
      BY <1>1, <2>1, <3>1 DEF TableFollows, Casting
    <3>2. CASE /\ ~Casting("scores")
               /\ cTable[c] = table \/ Message("scores", table) \in lost[c]
               /\ \A i \in DOMAIN down[c] : down[c][i].type # "scores"
      BY <2>1, <2>2, <3>2 DEF TableFollows, Casting
    <3>3. ASSUME NEW i \in DOMAIN down[c], down[c][i] = Message("scores", table),
                 \A j \in DOMAIN down[c] : j > i => down[c][j].type # "scores",
                 ~Casting("scores")
          PROVE  TableFollows(c)'
      <4>1. CASE i \in 1..n
        <5>1. Message("scores", table) \in lost'[c]
          BY <2>2, <3>3, <4>1 DEF Message
        <5>2. \A j \in DOMAIN down'[c] : j + n > i
          BY <2>2, <4>1
        <5>3. \A j \in DOMAIN down'[c] : down'[c][j].type # "scores"
          BY <2>2, <3>3, <5>2
        <5> QED
          BY <2>1, <3>3, <5>1, <5>3 DEF TableFollows, Casting
      <4>2. CASE i \notin 1..n
        <5>1. \A j \in DOMAIN down'[c] : j > i - n => j + n > i
          BY <2>2, <1>1
        <5>2. \A j \in DOMAIN down'[c] : j > i - n => down'[c][j].type # "scores"
          BY <2>2, <3>3, <5>1
        <5>3. i - n \in DOMAIN down'[c] /\ down'[c][i - n] = Message("scores", table')
          BY <2>1, <2>3, <3>3, <4>2
        <5> QED
          BY <2>1, <3>3, <5>2, <5>3 DEF TableFollows, Casting
      <4> QED
        BY <4>1, <4>2
    <3> QED
      BY <1>1, <3>1, <3>2, <3>3 DEF TableFollows
  <2>5. Finishing(c) \/ Missed(c) <=> Finishing(c)' \/ Missed(c)'
    <3>1. Finishing(c) => Finishing(c)' \/ Missed(c)'
      <4>1. ASSUME NEW i \in DOMAIN down[c], down[c][i].type = "game_finished"
            PROVE  Finishing(c)' \/ Missed(c)'
        BY <2>2, <2>3, <4>1 DEF Finishing, Missed
      <4> QED
        BY <4>1 DEF Finishing
    <3>2. Missed(c) => Missed(c)'
      BY <2>1 DEF Missed
    <3>3. Missed(c)' => Missed(c) \/ Finishing(c)
      BY <1>1, <2>2 DEF Missed, Finishing
    <3>4. Finishing(c)' => Finishing(c)
      BY <2>2 DEF Finishing
    <3> QED
      BY <3>1, <3>2, <3>3, <3>4
  <2>6. EndFollows(c)'
    BY <1>1, <1>13, <2>1, <2>5 DEF EndFollows, Casting
  <2> QED
    BY <2>4, <2>6
<1>10. CASE UNCHANGED vars
  BY <1>2, <1>10 DEF vars
<1>11. CASE StopGame \/ CloseStream \/ Join \/ \E d \in Remotes : CloseSocket(d)
  BY <1>1, <1>11 DEF StopGame, CloseStream, Join, G!Join, CloseSocket
<1> QED
  BY <1>3, <1>4, <1>5, <1>6, <1>7, <1>8, <1>9, <1>10, <1>11, <1>12, <1>13 DEF Next, Deliver

\* The inductive invariant holds throughout.
LEMMA Invariant == Spec => []IInv
<1>1. Init => IInv
  <2> SUFFICES ASSUME Init  PROVE IInv
    OBVIOUS
  <2>1. TypeOK
    BY TypeInit
  <2>2. ASSUME NEW c \in Remotes
        PROVE  /\ picking[c] = "away" /\ cState[c] = "dialog" /\ lost[c] = {} /\ cTable[c] = 0
               /\ DOMAIN down[c] = {1} /\ DOMAIN up[c] = {}
               /\ \A i \in DOMAIN down[c] : down[c][i].type = "game_started"
    BY DEF Init, Message
  <2>3. /\ DOMAIN events = {} /\ casting = <<>> /\ gone = {} /\ routed = Remotes
        /\ phase = "open" /\ table = 0 /\ mState # "GameOver"
    BY DEF Init, G!Init, G!Window!Init
  <2>4. RouteInv /\ LeaveInv /\ PickInv
    BY <2>2, <2>3 DEF RouteInv, LeaveInv, PickInv
  <2>5. TokenInv
    BY <2>2, <2>3 DEF TokenInv, Token, Requested, Prompted, Asked, Answered, TokenExists, Unanswered
  <2>6. OverInv /\ ScreenInv
    BY <2>2, <2>3 DEF OverInv, ScreenInv, TableFollows, EndFollows, Casting, Finishing, Missed
  <2> QED
    BY <2>1, <2>4, <2>5, <2>6 DEF IInv
<1>2. IInv /\ [Next]_vars => IInv'
  BY RouteNext, TypeNext, PickNext, LeaveNext, TokenNext, OverNext, ScreenNext DEF IInv
<1> QED
  BY <1>1, <1>2, PTL DEF Spec

-----------------------------------------------------------------------------
\* The variables of the hosted game keep their types, and only clients that are
\* still connected have a strategy.
THEOREM TypeCorrect == Spec => []TypeOK
BY Invariant, PTL DEF IInv

\* For any remote players: what a turn ends with is a move made for this round.
THEOREM MovesAnswerTheirTurn == Spec => []RemoteMovesAnswerTheirTurn
<1>1. IInv => RemoteMovesAnswerTheirTurn
  BY DEF IInv, PickInv, RemoteMovesAnswerTheirTurn
<1> QED
  BY Invariant, <1>1, PTL

\* For any remote players: the host never waits for one who was not asked, unless
\* the question reached the client when no session listened to it.
THEOREM NobodyIsForgotten == Spec => []NobodyWaitsUnprompted
<1>1. IInv => NobodyWaitsUnprompted
  <2> SUFFICES ASSUME IInv, NEW c \in Remotes,
                      phase = "open" /\ picking[c] = "waiting" /\ mMove[c] = 0 /\ c \notin gone,
                      events = <<>> /\ down[c] = <<>> /\ up[c] = <<>>
               PROVE  \/ cState[c] = "AwaitingMove" /\ cRound[c] = rounds + 1
                      \/ Message("your_turn", rounds + 1) \in lost[c]
    BY DEF NobodyWaitsUnprompted
  <2>1. NoRequest(c) /\ NoPrompt(c) /\ NoAnswer(c)
    BY DEF NoRequest, NoPrompt, NoAnswer
  <2>2. cState[c] # "left"
    BY DEF IInv, LeaveInv
  <2> QED
    BY <2>1, <2>2 DEF IInv, TokenInv, Token, TokenExists, Asked, Unanswered
<1> QED
  BY Invariant, <1>1, PTL

\* For any remote players: a client that has read everything shows what the host
\* shows, unless it read the table or the end when no session listened.
THEOREM ScreensFollow == Spec => []EveryScreenInSync
<1>1. IInv => EveryScreenInSync
  BY DEF IInv, ScreenInv, TableFollows, EndFollows, Casting, Finishing, Missed, EveryScreenInSync
<1> QED
  BY Invariant, <1>1, PTL

-----------------------------------------------------------------------------
(* The host's game without its remote players is a RegularGame.  Filtering *)
(* the turn requests out of the event queue commutes with appending a      *)
(* signal to it and with taking its head.                                  *)

Queued == G!Event \cup TurnRequest
OwnEvents == Seq(G!Event)

\* OwnAmong is what its definition says: a loop over the queue.
LEMMA OwnAmongDef ==
  ASSUME NEW s \in Seq(Queued)
  PROVE  /\ OwnAmong(s) \in [0..Len(s) -> OwnEvents]
         /\ OwnAmong(s)[0] = <<>>
         /\ \A n \in 1..Len(s) :
              OwnAmong(s)[n] = IF s[n].signal = "your_turn" THEN OwnAmong(s)[n - 1]
                               ELSE Append(OwnAmong(s)[n - 1], s[n])
<1> DEFINE turn(q, n) == IF s[n].signal = "your_turn" THEN q ELSE Append(q, s[n])
           step == [n \in 1..Len(s) |-> [q \in OwnEvents |-> turn(q, n)]]
           Own(f)  == f = [n \in 0..Len(s) |-> IF n = 0 THEN <<>> ELSE turn(f[n - 1], n)]
<1>1. ASSUME NEW n \in 1..Len(s), NEW q \in OwnEvents  PROVE turn(q, n) \in OwnEvents
  <2>1. s[n] \in Queued
    OBVIOUS
  <2>2. s[n].signal # "your_turn" => s[n] \in G!Event
    BY <2>1 DEF Queued, TurnRequest
  <2> QED
    BY <2>2 DEF OwnEvents
<1>2. step \in [1..Len(s) -> [OwnEvents -> OwnEvents]] /\ <<>> \in OwnEvents /\ Len(s) \in Nat
  BY <1>1 DEF OwnEvents
<1>3. PICK f \in [0..Len(s) -> OwnEvents] :
        f[0] = <<>> /\ \A n \in 1..Len(s) : f[n] = step[n][f[n - 1]]
  <2> DEFINE S == OwnEvents
             m == Len(s)
  <2>1. step \in [1..m -> [S -> S]] /\ <<>> \in S /\ m \in Nat
    BY <1>2
  <2> HIDE DEF step, S, m
  <2>2. \E f \in [0..m -> S] : f[0] = <<>> /\ \A n \in 1..m : f[n] = step[n][f[n - 1]]
    BY <2>1, LoopsHaveResults
  <2> QED
    BY <2>2 DEF S, m
<1>4. ASSUME NEW n \in 1..Len(s)  PROVE f[n] = turn(f[n - 1], n) /\ f[n - 1] \in OwnEvents
  <2>1. n - 1 \in 0..Len(s)
    OBVIOUS
  <2>2. f[n - 1] \in OwnEvents /\ f[n] = step[n][f[n - 1]]
    BY <1>3, <2>1
  <2> QED
    BY <2>2
<1>5. Own(f)
  <2> HIDE DEF turn
  <2>1. ASSUME NEW n \in 0..Len(s)  PROVE f[n] = IF n = 0 THEN <<>> ELSE turn(f[n - 1], n)
    BY <1>3, <1>4
  <2> QED
    BY <1>3, <2>1
<1>6. Own(OwnAmong(s))
  BY <1>5 DEF OwnAmong
<1>7. /\ OwnAmong(s)[0] = <<>>
      /\ \A n \in 1..Len(s) : OwnAmong(s)[n] = turn(OwnAmong(s)[n - 1], n)
  <2> HIDE DEF turn
  <2> QED
    BY <1>6
<1>8. OwnAmong(s) \in [0..Len(s) -> OwnEvents]
  <2> DEFINE T == {n \in 0..Len(s) : OwnAmong(s)[n] \in OwnEvents}
  <2>1. 0 \in T
    BY <1>2, <1>7
  <2>2. ASSUME NEW n \in T, n < Len(s)  PROVE n + 1 \in T
    <3>1. n + 1 \in 1..Len(s) /\ (n + 1) - 1 = n
      BY <2>2
    <3> HIDE DEF turn
    <3> QED
      BY <1>1, <1>7, <2>2, <3>1
  <2>3. T = 0..Len(s)
    <3> HIDE DEF T
    <3>1. T \in SUBSET (0..Len(s))
      BY DEF T
    <3> QED
      BY <1>2, <2>1, <2>2, <3>1, BoundedInduction
  <2> HIDE DEF turn
  <2> QED
    BY <1>6, <2>3
<1> QED
  BY <1>7, <1>8

\* A signal joins the worker's own at the end, a turn request does not.
LEMMA OwnAppend ==
  ASSUME NEW s \in Seq(Queued), NEW e \in Queued
  PROVE  OwnSignals(Append(s, e)) = IF e.signal = "your_turn" THEN OwnSignals(s)
                                    ELSE Append(OwnSignals(s), e)
<1> DEFINE t == Append(s, e)
           T == {n \in 0..Len(s) : OwnAmong(t)[n] = OwnAmong(s)[n]}
<1>1. t \in Seq(Queued) /\ Len(t) = Len(s) + 1 /\ Len(s) \in Nat
  OBVIOUS
<1>2. t[Len(s) + 1] = e /\ \A n \in 1..Len(s) : t[n] = s[n]
  OBVIOUS
<1> HIDE DEF t
<1>3. 0 \in T
  BY <1>1, OwnAmongDef
<1>4. ASSUME NEW n \in T, n < Len(s)  PROVE n + 1 \in T
  <2>1. n + 1 \in 1..Len(s) /\ n + 1 \in 1..Len(t) /\ (n + 1) - 1 = n
    BY <1>1, <1>4
  <2>2. OwnAmong(t)[n + 1] = IF t[n + 1].signal = "your_turn" THEN OwnAmong(t)[n]
                             ELSE Append(OwnAmong(t)[n], t[n + 1])
    BY <1>1, <2>1, OwnAmongDef
  <2>3. OwnAmong(s)[n + 1] = IF s[n + 1].signal = "your_turn" THEN OwnAmong(s)[n]
                             ELSE Append(OwnAmong(s)[n], s[n + 1])
    BY <2>1, OwnAmongDef
  <2> QED
    BY <1>2, <2>1, <2>2, <2>3
<1>5. T = 0..Len(s)
  <2>1. T \in SUBSET (0..Len(s))
    OBVIOUS
  <2> HIDE DEF T
  <2> QED
    BY <1>1, <1>3, <1>4, <2>1, BoundedInduction
<1>6. OwnAmong(t)[Len(s)] = OwnAmong(s)[Len(s)]
  BY <1>1, <1>5
<1>7. OwnAmong(t)[Len(s) + 1] = IF t[Len(s) + 1].signal = "your_turn" THEN OwnAmong(t)[Len(s)]
                                ELSE Append(OwnAmong(t)[Len(s)], t[Len(s) + 1])
  <2>1. Len(s) + 1 \in 1..Len(t) /\ (Len(s) + 1) - 1 = Len(s)
    BY <1>1
  <2> QED
    BY <1>1, <2>1, OwnAmongDef
<1> QED
  BY <1>1, <1>2, <1>6, <1>7 DEF OwnSignals, t

\* The first of the worker's own signals is the head of the queue, unless that is a
\* turn request.
LEMMA OwnHead ==
  ASSUME NEW s \in Seq(Queued), s # <<>>
  PROVE  OwnSignals(s) = IF Head(s).signal = "your_turn" THEN OwnSignals(Tail(s))
                         ELSE <<Head(s)>> \o OwnSignals(Tail(s))
<1> DEFINE t == Tail(s)
           front(q) == IF Head(s).signal = "your_turn" THEN q ELSE <<Head(s)>> \o q
           T == {n \in 0..Len(t) : OwnAmong(s)[n + 1] = front(OwnAmong(t)[n])}
<1>1. t \in Seq(Queued) /\ Len(s) = Len(t) + 1 /\ Len(t) \in Nat
  OBVIOUS
<1>2. s[1] = Head(s) /\ s[1] \in Queued /\ \A n \in 1..Len(t) : s[n + 1] = t[n] /\ t[n] \in Queued
  OBVIOUS
<1> HIDE DEF t
<1>3. /\ s[1].signal = "your_turn" => \A q : front(q) = q
      /\ s[1].signal # "your_turn" => s[1] \in G!Event /\ \A q : front(q) = <<s[1]>> \o q
  BY <1>2 DEF Queued, TurnRequest
<1> HIDE DEF front
<1>4. OwnAmong(s)[0 + 1] = front(OwnAmong(t)[0])
  <2>1. 1 \in 1..Len(s) /\ 1 - 1 = 0 /\ 0 + 1 = 1
    BY <1>1
  <2>2. OwnAmong(s)[1] = IF s[1].signal = "your_turn" THEN <<>> ELSE Append(<<>>, s[1])
    BY <2>1, OwnAmongDef
  <2>3. OwnAmong(t)[0] = <<>>
    BY <1>1, OwnAmongDef
  <2>4. <<s[1]>> \o <<>> = Append(<<>>, s[1])
    OBVIOUS
  <2> QED
    BY <1>3, <2>1, <2>2, <2>3, <2>4
<1>5. ASSUME NEW n \in 0..Len(t), OwnAmong(s)[n + 1] = front(OwnAmong(t)[n]), n < Len(t)
      PROVE  OwnAmong(s)[(n + 1) + 1] = front(OwnAmong(t)[n + 1])
  <2>1. /\ n + 1 \in 1..Len(t) /\ (n + 1) - 1 = n
        /\ (n + 1) + 1 \in 1..Len(s) /\ ((n + 1) + 1) - 1 = n + 1
    BY <1>1, <1>5
  <2>2. OwnAmong(t)[n + 1] = IF t[n + 1].signal = "your_turn" THEN OwnAmong(t)[n]
                             ELSE Append(OwnAmong(t)[n], t[n + 1])
    BY <1>1, <2>1, OwnAmongDef
  <2>3. s[(n + 1) + 1] = t[n + 1] /\ t[n + 1] \in Queued
    BY <1>2, <2>1
  <2>4. OwnAmong(s)[(n + 1) + 1] = IF t[n + 1].signal = "your_turn" THEN OwnAmong(s)[n + 1]
                                   ELSE Append(OwnAmong(s)[n + 1], t[n + 1])
    BY <2>1, <2>3, OwnAmongDef
  <2>5. OwnAmong(t)[n] \in OwnEvents
    BY <1>1, OwnAmongDef
  <2>6. CASE t[n + 1].signal = "your_turn"
    BY <1>5, <2>2, <2>4, <2>6
  <2>7. CASE t[n + 1].signal # "your_turn"
    <3>1. /\ OwnAmong(t)[n + 1] = Append(OwnAmong(t)[n], t[n + 1])
          /\ OwnAmong(s)[(n + 1) + 1] = Append(front(OwnAmong(t)[n]), t[n + 1])
      BY <1>5, <2>2, <2>4, <2>7
    <3>2. CASE s[1].signal = "your_turn"
      BY <1>3, <3>1, <3>2
    <3>3. CASE s[1].signal # "your_turn"
      <4>1. s[1] \in G!Event /\ t[n + 1] \in G!Event
        BY <1>3, <2>3, <2>7, <3>3 DEF Queued, TurnRequest
      <4>2. Append(<<s[1]>> \o OwnAmong(t)[n], t[n + 1])
              = <<s[1]>> \o Append(OwnAmong(t)[n], t[n + 1])
        BY <4>1, <2>5, PrependAppend DEF OwnEvents
      <4> QED
        BY <1>3, <3>1, <3>3, <4>2
    <3> QED
      BY <3>2, <3>3
  <2> QED
    BY <2>6, <2>7
<1>6. T = 0..Len(t)
  <2>1. T \in SUBSET (0..Len(t)) /\ 0 \in T
    BY <1>1, <1>4
  <2>2. \A n \in T : n < Len(t) => n + 1 \in T
    BY <1>1, <1>5
  <2> HIDE DEF T
  <2> QED
    BY <1>1, <2>1, <2>2, BoundedInduction
<1>7. OwnAmong(s)[Len(t) + 1] = front(OwnAmong(t)[Len(t)])
  BY <1>1, <1>6
<1> QED
  BY <1>1, <1>2, <1>7 DEF OwnSignals, t, front

\* What the provers need of OwnSignals.
LEMMA OwnProperties ==
  ASSUME NEW s \in Seq(Queued)
  PROVE  /\ OwnSignals(s) \in OwnEvents
         /\ s # <<>> /\ Head(s).signal # "your_turn" =>
              /\ OwnSignals(s) # <<>>
              /\ Head(OwnSignals(s)) = Head(s)
              /\ Tail(OwnSignals(s)) = OwnSignals(Tail(s))
         /\ s # <<>> /\ Head(s).signal = "your_turn" => OwnSignals(Tail(s)) = OwnSignals(s)
<1>1. ASSUME NEW q \in Seq(Queued)  PROVE OwnSignals(q) \in OwnEvents
  <2>1. Len(q) \in 0..Len(q)
    OBVIOUS
  <2> QED
    BY <2>1, OwnAmongDef DEF OwnSignals
<1>2. ASSUME s # <<>>, Head(s).signal # "your_turn"
      PROVE  /\ OwnSignals(s) # <<>>
             /\ Head(OwnSignals(s)) = Head(s)
             /\ Tail(OwnSignals(s)) = OwnSignals(Tail(s))
  <2>1. Head(s) \in Queued /\ Tail(s) \in Seq(Queued)
    BY <1>2
  <2>2. Head(s) \in G!Event
    BY <1>2, <2>1 DEF Queued, TurnRequest
  <2>3. OwnSignals(Tail(s)) \in Seq(G!Event)
    BY <1>1, <2>1 DEF OwnEvents
  <2>4. OwnSignals(s) = <<Head(s)>> \o OwnSignals(Tail(s))
    BY <1>2, OwnHead
  <2> QED
    BY <2>2, <2>3, <2>4
<1> QED
  BY <1>1, <1>2, OwnHead

\* The signals of the worker, before and after a step.
LEMMA OwnStep ==
  ASSUME TypeOK
  PROVE  /\ OwnSignals(<<>>) = <<>>
         /\ OwnSignals(events) \in OwnEvents
         /\ events' = <<>> => OwnSignals(events)' = <<>>
         /\ events' = events => OwnSignals(events)' = OwnSignals(events)
         /\ \A c \in Remotes : events' = Append(events, YourTurn(c)) =>
              OwnSignals(events)' = OwnSignals(events)
         /\ \A e \in G!Event : events' = Append(events, e) =>
              OwnSignals(events)' = Append(OwnSignals(events), e)
         /\ \A d, e \in G!Event : events' = Append(Append(events, d), e) =>
              OwnSignals(events)' = Append(Append(OwnSignals(events), d), e)
<1>1. OwnSignals(events)' = OwnSignals(events')
  BY DEF OwnSignals, OwnAmong
<1>2. OwnSignals(<<>>) = <<>>
  <2>1. <<>> \in Seq(Queued) /\ Len(<<>>) = 0
    OBVIOUS
  <2> QED
    BY <2>1, OwnAmongDef DEF OwnSignals
<1>3. events \in Seq(Queued) /\ OwnSignals(events) \in OwnEvents
  BY OwnProperties DEF TypeOK, Queued
<1>4. ASSUME NEW c \in Remotes
      PROVE  OwnSignals(Append(events, YourTurn(c))) = OwnSignals(events)
  <2>1. YourTurn(c) \in Queued /\ YourTurn(c).signal = "your_turn"
    BY DEF YourTurn, TurnRequest, TypeOK, Queued
  <2> QED
    BY <1>3, <2>1, OwnAppend
<1>5. ASSUME NEW q \in Seq(Queued), NEW e \in G!Event
      PROVE  Append(q, e) \in Seq(Queued) /\ OwnSignals(Append(q, e)) = Append(OwnSignals(q), e)
  <2>1. e \in Queued /\ e.signal # "your_turn"
    BY DEF Queued, G!Event
  <2> QED
    BY <2>1, OwnAppend
<1>6. ASSUME NEW d \in G!Event, NEW e \in G!Event
      PROVE  OwnSignals(Append(Append(events, d), e)) = Append(Append(OwnSignals(events), d), e)
  BY <1>3, <1>5
<1> QED
  BY <1>1, <1>2, <1>3, <1>4, <1>5, <1>6

\* The hosted game starts as a regular one.
LEMMA RegularInit == Init => R!Init
<1> SUFFICES ASSUME Init  PROVE R!Init
  OBVIOUS
<1>1. OwnSignals(events) = <<>>
  BY TypeInit, OwnStep DEF Init, G!Init
<1> QED
  BY <1>1 DEF Init, G!Init, G!Window!Init, G!Stream!Init, G!NoLine,
              R!Init, R!Window!Init, R!Stream!Init, R!NoLine

\* The host's player clicks in the regular game.
LEMMA RegularClicks == TypeOK /\ HostClicks => R!ClickStart \/ R!ClickMove \/ R!ClickFinish
<1> SUFFICES ASSUME TypeOK, HostClicks  PROVE R!ClickStart \/ R!ClickMove \/ R!ClickFinish
  OBVIOUS
<1>1. UNCHANGED OwnSignals(events)
  BY DEF HostClicks, G!ClickStart, G!ClickMove, G!ClickFinish
<1> QED
  BY <1>1 DEF HostClicks, G!ClickStart, G!ClickMove, G!ClickFinish, R!ClickStart, R!ClickMove,
              R!ClickFinish, G!Window!onStartRound, R!Window!onStartRound, G!Window!pushMove,
              R!Window!pushMove, G!Window!onFinishButton, R!Window!onFinishButton,
              G!Window!setState, R!Window!setState, G!Stream!PushLine, R!Stream!PushLine,
              G!Text, R!Text, G!clicks, R!clicks, G!worker, R!worker, remote, strategies

\* Closing the window of the hosted game is one step of the regular one, when the
\* stream is closed; the forfeits before it do not show.
LEMMA RegularTeardown ==
  /\ TypeOK /\ StopGame => UNCHANGED R!vars
  /\ TypeOK /\ CloseStream => R!CloseWindow
  /\ TypeOK /\ Join => R!Join
<1>1. ASSUME TypeOK, StopGame  PROVE UNCHANGED R!vars
  <2>1. UNCHANGED OwnSignals(events)
    BY <1>1, OwnStep DEF StopGame
  <2> QED
    BY <1>1, <2>1 DEF StopGame, R!vars, R!gui, R!window, R!clicks, R!stream, R!worker
<1>2. ASSUME TypeOK, CloseStream  PROVE R!CloseWindow
  <2>1. UNCHANGED OwnSignals(events)
    BY <1>2, OwnStep DEF CloseStream
  <2> QED
    BY <1>2, <2>1 DEF CloseStream, G!Stream!Close, R!CloseWindow, R!Stream!Close, R!window,
                      R!clicks, R!worker
<1>3. ASSUME TypeOK, Join  PROVE R!Join
  <2>1. OwnSignals(events)' = <<>>
    BY <1>3, OwnStep DEF Join, G!Join
  <2> QED
    BY <1>3, <2>1 DEF Join, G!Join, R!Join, G!window, R!window, G!clicks, R!clicks, G!stream,
                      R!stream, G!worker, R!worker
<1> QED
  BY <1>1, <1>2, <1>3

\* A signal of the worker that is delivered is the regular game's first; a turn
\* request that is delivered is none of its signals.
LEMMA RegularDelivery == TypeOK /\ Deliver => R!Deliver \/ UNCHANGED R!vars
<1> SUFFICES ASSUME TypeOK, Deliver  PROVE R!Deliver \/ UNCHANGED R!vars
  OBVIOUS
<1>1. events \in Seq(Queued)
  BY DEF TypeOK, Queued
<1>2. ASSUME NEW s \in {"prompt", "scores", "round", "over"}, G!Delivers(s)
      PROVE  R!Delivers(s) /\ Head(OwnSignals(events)) = Head(events)
  <2>1. events # <<>> /\ Head(events).signal = s /\ events' = Tail(events)
    BY <1>2 DEF G!Delivers
  <2>2. /\ OwnSignals(events) # <<>> /\ Head(OwnSignals(events)) = Head(events)
        /\ OwnSignals(Tail(events)) = Tail(OwnSignals(events))
    BY <1>1, <2>1, OwnProperties
  <2>3. OwnSignals(events)' = OwnSignals(events')
    BY DEF OwnSignals, OwnAmong
  <2> QED
    BY <1>2, <2>1, <2>2, <2>3 DEF G!Delivers, R!Delivers, G!clicks, R!clicks, G!stream, R!stream,
                                  G!worker, R!worker
<1>3. CASE DeliverTurnRequest
  <2>1. events # <<>> /\ Head(events).signal = "your_turn" /\ events' = Tail(events)
    BY <1>3 DEF DeliverTurnRequest, G!Delivers
  <2>2. OwnSignals(events)' = OwnSignals(events')
    BY DEF OwnSignals, OwnAmong
  <2>3. UNCHANGED OwnSignals(events)
    BY <1>1, <2>1, <2>2, OwnProperties
  <2> QED
    BY <1>3, <2>3 DEF DeliverTurnRequest, G!Delivers, G!clicks, G!stream, G!worker, R!vars, R!gui,
                      R!window, R!clicks, R!stream, R!worker
<1>4. CASE DeliverPrompt
  <2>1. G!Delivers("prompt")
    BY <1>4 DEF DeliverPrompt, G!DeliverPrompt
  <2> QED
    BY <1>2, <1>4, <2>1
       DEF DeliverPrompt, G!DeliverPrompt, G!Window!onMovePrompt, G!Window!setState, R!Deliver,
           R!DeliverPrompt, R!Window!onMovePrompt, R!Window!setState
<1>5. CASE DeliverScores
  <2>1. G!Delivers("scores")
    BY <1>5 DEF DeliverScores, G!DeliverScores
  <2> QED
    BY <1>2, <1>5, <2>1
       DEF DeliverScores, G!DeliverScores, G!Window!onScores, R!Deliver, R!DeliverScores,
           R!Window!onScores
<1>6. CASE DeliverRoundFinished
  <2>1. G!Delivers("round")
    BY <1>6 DEF DeliverRoundFinished, G!DeliverRoundFinished
  <2> QED
    BY <1>2, <1>6, <2>1
       DEF DeliverRoundFinished, G!DeliverRoundFinished, G!Window!onRoundFinished,
           G!Window!setState, R!Deliver, R!DeliverRoundFinished, R!Window!onRoundFinished,
           R!Window!setState
<1>7. CASE DeliverGameFinished
  <2>1. G!Delivers("over")
    BY <1>7 DEF DeliverGameFinished, G!DeliverGameFinished
  <2> QED
    BY <1>2, <1>7, <2>1
       DEF DeliverGameFinished, G!DeliverGameFinished, G!Window!onGameFinished,
           G!Window!setState, R!Deliver, R!DeliverGameFinished, R!Window!onGameFinished,
           R!Window!setState
<1>8. CASE BroadcastSignal
  <2>1. UNCHANGED game /\ UNCHANGED OwnSignals(events)
    BY <1>8, OwnStep DEF BroadcastSignal, game
  <2> QED
    BY <2>1 DEF game, R!vars, R!gui, R!window, R!clicks, R!stream, R!worker
<1> QED
  BY <1>3, <1>4, <1>5, <1>6, <1>7, <1>8 DEF Deliver

\* The worker runs the regular game; asking a remote player takes part of a turn
\* that in the regular game is one step.
LEMMA RegularWorker ==
  /\ TypeOK /\ HostWorker => R!Worker
  /\ \A c \in Remotes : TypeOK /\ PickMove(c) => R!Worker \/ UNCHANGED R!vars
<1> USE DEF G!gui, R!gui, G!window, R!window, G!clicks, R!clicks, G!stream, R!stream
<1>1. ASSUME TypeOK, HostWorker  PROVE R!Worker
  <2>1. CASE G!LoopReadsLine \/ G!LoopReadsEof \/ G!ReadAttempt \/ G!ReadEof
    <3>1. UNCHANGED OwnSignals(events)
      BY <1>1, <2>1, OwnStep DEF G!LoopReadsLine, G!LoopReadsEof, G!ReadAttempt, G!ReadEof
    <3> QED
      BY <2>1, <3>1
         DEF G!LoopReadsLine, G!LoopReadsEof, G!ReadAttempt, G!ReadEof, R!Worker,
             R!LoopReadsLine, R!LoopReadsEof, R!ReadAttempt, R!ReadEof, G!Stream!Getline,
             G!Stream!GetlineFails, R!Stream!Getline, R!Stream!GetlineFails, G!NoLine, R!NoLine
  <2>2. ASSUME NEW b \in Remotes \cup AIBots, G!BotDecides(b)  PROVE R!Worker
    <3>1. UNCHANGED OwnSignals(events)
      BY <1>1, <2>2, OwnStep DEF G!BotDecides
    <3>2. R!BotDecides(b)
      BY <2>2, <3>1 DEF G!BotDecides, R!BotDecides
    <3> QED
      BY <3>2 DEF R!Worker
  <2>3. /\ rounds \in Nat /\ rounds + 1 \in Nat
        /\ \A s \in {"prompt", "scores", "round", "over"} : \A n \in Nat :
             G!Signal(s, n) \in G!Event /\ R!Signal(s, n) = G!Signal(s, n)
    BY <1>1 DEF TypeOK, G!Signal, R!Signal, G!Event
  <2>4. CASE G!ShowResults
    <3>1. OwnSignals(events)' = Append(Append(OwnSignals(events), R!Signal("scores", rounds)),
                                       R!Signal("over", rounds))
      BY <1>1, <2>3, <2>4, OwnStep DEF G!ShowResults
    <3> QED
      BY <2>4, <3>1 DEF G!ShowResults, R!Worker, R!ShowResults
  <2>5. CASE G!ShowMovePrompt
    <3>1. OwnSignals(events)' = Append(OwnSignals(events), R!Signal("prompt", rounds + 1))
      BY <1>1, <2>3, <2>5, OwnStep DEF G!ShowMovePrompt
    <3> QED
      BY <2>5, <3>1 DEF G!ShowMovePrompt, R!Worker, R!ShowMovePrompt
  <2>6. CASE G!ResolveRound
    <3>1. OwnSignals(events)' = Append(Append(OwnSignals(events), R!Signal("scores", rounds + 1)),
                                       R!Signal("round", rounds + 1))
      BY <1>1, <2>3, <2>6, OwnStep DEF G!ResolveRound
    <3> QED
      BY <2>6, <3>1 DEF G!ResolveRound, R!Worker, R!ResolveRound
  <2> QED
    BY <1>1, <2>1, <2>2, <2>4, <2>5, <2>6 DEF HostWorker
<1>2. ASSUME NEW c \in Remotes, TypeOK, PickMove(c)  PROVE R!Worker \/ UNCHANGED R!vars
  <2>1. CASE BeginTurn(c) \/ RequestTurn(c)
    <3>1. UNCHANGED OwnSignals(events)
      BY <1>2, <2>1, OwnStep DEF BeginTurn, RequestTurn, game
    <3> QED
      BY <2>1, <3>1 DEF BeginTurn, RequestTurn, game, R!vars, R!worker
  <2>2. CASE EndTurn(c)
    <3>1. UNCHANGED OwnSignals(events)
      BY <1>2, <2>2, OwnStep DEF EndTurn, G!BotDecides
    <3>2. R!BotDecides(c)
      BY <2>2, <3>1 DEF EndTurn, G!BotDecides, R!BotDecides
    <3> QED
      BY <3>2 DEF R!Worker
  <2> QED
    BY <1>2, <2>1, <2>2 DEF PickMove
<1> QED
  BY <1>1, <1>2

\* For any remote players and whatever they do: the host's game is a RegularGame.
THEOREM HostedGameIsRegular == Spec => ImplementsRegularGame
<1>1. TypeOK /\ [Next]_vars => [R!Next]_(R!vars)
  <2> SUFFICES ASSUME TypeOK, [Next]_vars  PROVE R!Next \/ UNCHANGED R!vars
    OBVIOUS
  <2>1. CASE UNCHANGED game
    <3>1. UNCHANGED OwnSignals(events)
      BY <2>1, OwnStep DEF game
    <3> QED
      BY <2>1, <3>1 DEF game, R!vars, R!gui, R!window, R!clicks, R!stream, R!worker
  <2>2. CASE HostClicks
    BY <2>2, RegularClicks DEF R!Next
  <2>3. CASE StopGame \/ CloseStream \/ Join
    BY <2>3, RegularTeardown DEF R!Next
  <2>4. CASE Deliver
    BY <2>4, RegularDelivery DEF R!Next
  <2>5. CASE HostWorker \/ \E c \in Remotes : PickMove(c)
    BY <2>5, RegularWorker DEF R!Next
  <2>6. ASSUME NEW c \in Remotes,
               CloseSocket(c) \/ ServerReads(c) \/ ClientReads(c) \/ ClientMoves(c) \/ ClientLeaves(c)
        PROVE  UNCHANGED game
    BY <2>6, Reading DEF CloseSocket, ServerReads, ClientMoves, ClientLeaves
  <2> QED
    BY <2>1, <2>2, <2>3, <2>4, <2>5, <2>6 DEF Next, vars
<1> QED
  BY RegularInit, TypeCorrect, <1>1, PTL DEF Spec, ImplementsRegularGame, R!Safety

=============================================================================
