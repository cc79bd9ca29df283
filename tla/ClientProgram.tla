--------------------------- MODULE ClientProgram ----------------------------
(***************************************************************************)
(* The program of a player who joins a game over the network: the join     *)
(* dialog, the NetworkClient under it, and the GameWindow that takes the   *)
(* client over through a NetworkClientSession.  It is one thread, so each  *)
(* handler is an operator from a program to a program; Lobby puts several  *)
(* of them together with the host.                                         *)
(***************************************************************************)
EXTENDS FrameReader, SequencesExt

NoLink == 0

\* What the session listens to.
InGame == {"your_turn", "game_finished"}

Program ==
  [screen    : {"dialog", "accepted", "window", "gone"},
   canConnect : BOOLEAN,             \* the dialog's "Connect" button
   welcomed  : BOOLEAN,              \* "Connected. Waiting for the host to start"
   socket    : {"unconnected", "connecting", "connected"},
   link      : Nat,                  \* the connection the socket stands for
   mBuffer   : Seq(Symbol),          \* of the FrameReader
   fresh     : BOOLEAN,              \* it was empty when this connection began
   mEnded    : BOOLEAN,              \* of the session
   mState    : {"Waiting", "AwaitingMove", "GameOver"},
   finished  : BOOLEAN,              \* "Finish game" was clicked (history)
   missed    : SUBSET Message]       \* of its messages, those that reached nobody (history)

JoinDialog ==
  [screen |-> "dialog", canConnect |-> TRUE, welcomed |-> FALSE,
   socket |-> "unconnected", link |-> NoLink,
   mBuffer |-> <<>>, fresh |-> TRUE,
   mEnded |-> FALSE, mState |-> "Waiting", finished |-> FALSE, missed |-> {}]

Connected(prog) == prog.socket = "connected"

-----------------------------------------------------------------------------
(* A plausible mistake, used only to show that the properties notice it.   *)

onSocketErrorStaysDisabled(prog) ==
  [prog EXCEPT !.welcomed = FALSE, !.socket = "unconnected", !.link = NoLink]

-----------------------------------------------------------------------------
(* The join dialog.                                                        *)

\* beginConnect, and connectToHost, which keeps the FrameReader as it is.
connectToHost(prog, n) ==
  [prog EXCEPT !.canConnect = FALSE, !.welcomed = FALSE, !.socket = "connecting",
               !.link = n, !.fresh = prog.mBuffer = <<>>, !.missed = {}]

\* The connection was refused, or could not be made.
onSocketError(prog) ==
  [prog EXCEPT !.canConnect = TRUE, !.welcomed = FALSE,
               !.socket = "unconnected", !.link = NoLink]

\* main, once exec() has returned: the session listens from its start() on.
openWindow(prog) == [prog EXCEPT !.screen = "window", !.mState = "Waiting"]

-----------------------------------------------------------------------------
(* Messages.  Who hears one depends on who is connected to the client's    *)
(* signals: the dialog, nobody between its end and the session, the        *)
(* session.                                                                *)

handle(prog, m) ==
  CASE prog.screen = "dialog" /\ m = "welcome"       -> [prog EXCEPT !.welcomed = TRUE]
    [] prog.screen = "dialog" /\ m = "game_started"  -> [prog EXCEPT !.screen = "accepted"]
    [] prog.screen = "accepted" /\ m \in InGame      -> [prog EXCEPT !.missed = @ \cup {m}]
    [] prog.screen = "window" /\ m = "your_turn"     -> [prog EXCEPT !.mState = "AwaitingMove"]
    [] prog.screen = "window" /\ m = "game_finished" -> [prog EXCEPT !.mEnded = TRUE,
                                                                     !.mState = "GameOver"]
    [] OTHER                                         -> prog

\* One turn of FrameReader::next: a line leaves the buffer, and is handled if it
\* is a message.  A malformed one is dropped, with what ran into it.
next(prog) ==
  LET l    == LineOf(prog.mBuffer)
      left == [prog EXCEPT !.mBuffer = AfterLine(@)]
  IN  IF decode(l) # NoMessage
      THEN handle(left, decode(l))
      ELSE [left EXCEPT !.missed = @ \cup ({l[i] : i \in 2..Len(l)} \ {"lobby"})]

\* The new bytes are appended, and the loop turns once for each line that they
\* complete: the program after the lines within the first n of them.
HeardAfter(prog, bytes) ==
  LET heard[n \in 0..Len(bytes)] ==
        IF n = 0 THEN [prog EXCEPT !.mBuffer = @ \o bytes]
        ELSE IF bytes[n] = NewLine THEN next(heard[n - 1]) ELSE heard[n - 1]
  IN  heard

\* If the game has started in one of the lines, the dialog closes, and the window
\* takes over before the event loop runs again.
onReadyRead(prog, bytes) ==
  LET heard == HeardAfter(prog, bytes)[Len(bytes)]
  IN  IF heard.screen = "accepted" THEN openWindow(heard) ELSE heard

-----------------------------------------------------------------------------
(* The end of the connection, and the window's buttons.                    *)

\* Once connected, the socket reports an error and then the disconnection.  The
\* dialog hears the first, the session the second.
onDisconnected(prog) ==
  IF prog.screen = "dialog" THEN onSocketError(prog)
  ELSE [prog EXCEPT !.socket = "unconnected", !.link = NoLink, !.mEnded = TRUE,
                    !.mState = IF prog.mEnded THEN @ ELSE "GameOver"]

\* disconnectFromHost ends the reading at once and still sends what was written.
disconnectFromHost(prog) == [prog EXCEPT !.socket = "unconnected", !.link = NoLink]

\* gameFinished is emitted before requestFinish returns.
requestFinish(prog) ==
  disconnectFromHost([prog EXCEPT !.mEnded = TRUE,
                                  !.mState = IF prog.mEnded THEN @ ELSE "GameOver"])

\* "Finish game": onPrimaryButton sets Waiting after requestFinish.
onPrimaryButton(prog) == [requestFinish(prog) EXCEPT !.mState = "Waiting", !.finished = TRUE]

pushMove(prog) == [prog EXCEPT !.mState = "Waiting"]

\* "Cancel", "Close", the title bar, or a crash.
quit(prog) == [disconnectFromHost(JoinDialog) EXCEPT !.screen = "gone", !.canConnect = FALSE]

=============================================================================
