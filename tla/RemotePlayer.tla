---------------------------- MODULE RemotePlayer ----------------------------
(***************************************************************************)
(* Network/RemotePlayerStrategy: a remote player's seat at the host's      *)
(* table.  PickMove runs on one of the round's std::async threads;         *)
(* SupplyMove and Disconnect run on the main thread, which serves the      *)
(* network.  A critical section of mMtx is one step, the turn callback and *)
(* the notify calls outside it are steps of their own.                     *)
(***************************************************************************)
CONSTANTS Move,      \* "Rock", "Paper", "Scissors", and "Invalid" for a garbled one
          NoMove     \* std::nullopt

ASSUME MoveAssumption == "Invalid" \in Move /\ NoMove \notin Move

VARIABLES mMove, mDisconnected,
          picker,   \* the thread in PickMove: "away", "asking", "checking", "blocked", "woken"
          picked,   \* what the last PickMove returned ("Invalid" before the first)
          server    \* the main thread: "idle", or "notify" after it has unlocked

vars == <<mMove, mDisconnected, picker, picked, server>>

TypeOK == /\ mMove \in Move \cup {NoMove} /\ mDisconnected \in BOOLEAN
          /\ picker \in {"away", "asking", "checking", "blocked", "woken"}
          /\ picked \in Move
          /\ server \in {"idle", "notify"}

Init == /\ mMove = NoMove /\ mDisconnected = FALSE
        /\ picker = "away" /\ picked = "Invalid"
        /\ server = "idle"

-----------------------------------------------------------------------------
(* Plausible mistakes, used only to show that the properties notice them.  *)

BeginTurnKeepingMove == /\ picker = "away" /\ ~mDisconnected
                        /\ picker' = "asking"
                        /\ UNCHANGED <<mMove, mDisconnected, picked, server>>

SupplyMoveSilently(m) == /\ server = "idle" /\ ~mDisconnected
                         /\ mMove' = m
                         /\ UNCHANGED <<mDisconnected, picker, picked, server>>

DisconnectSilently == /\ server = "idle"
                      /\ mDisconnected' = TRUE
                      /\ UNCHANGED <<mMove, picker, picked, server>>

-----------------------------------------------------------------------------
(* PickMove.                                                               *)

ReturnInvalidAtOnce == /\ picker = "away" /\ mDisconnected
                       /\ picked' = "Invalid"
                       /\ UNCHANGED <<mMove, mDisconnected, picker, server>>

BeginTurn == /\ picker = "away" /\ ~mDisconnected
             /\ mMove' = NoMove
             /\ picker' = "asking"
             /\ UNCHANGED <<mDisconnected, picked, server>>

\* mOnTurnRequested(), without the lock: a move or a disconnect can come first.
RequestTurn == /\ picker = "asking"
               /\ picker' = "checking"
               /\ UNCHANGED <<mMove, mDisconnected, picked, server>>

HoldsLock == picker \in {"checking", "woken"}

Block == /\ HoldsLock
         /\ mMove = NoMove /\ ~mDisconnected
         /\ picker' = "blocked"
         /\ UNCHANGED <<mMove, mDisconnected, picked, server>>

ReturnMove == /\ HoldsLock
              /\ mMove # NoMove \/ mDisconnected
              /\ picked' = IF mMove = NoMove THEN "Invalid" ELSE mMove
              /\ picker' = "away"
              /\ UNCHANGED <<mMove, mDisconnected, server>>

SpuriousWakeup == /\ picker = "blocked"
                  /\ picker' = "woken"
                  /\ UNCHANGED <<mMove, mDisconnected, picked, server>>

-----------------------------------------------------------------------------
(* The main thread.  Moves may come unasked; after Disconnect they are     *)
(* dropped.                                                                *)

SupplyMove(m) == /\ server = "idle" /\ ~mDisconnected
                 /\ mMove' = m
                 /\ server' = "notify"
                 /\ UNCHANGED <<mDisconnected, picker, picked>>

Disconnect == /\ server = "idle"
              /\ mDisconnected' = TRUE
              /\ server' = "notify"
              /\ UNCHANGED <<mMove, picker, picked>>

NotifyOne == /\ server = "notify"
             /\ picker' = IF picker = "blocked" THEN "woken" ELSE picker
             /\ server' = "idle"
             /\ UNCHANGED <<mMove, mDisconnected, picked>>

-----------------------------------------------------------------------------
PickMove == BeginTurn \/ RequestTurn \/ Block \/ ReturnMove \/ ReturnInvalidAtOnce

Next == \/ PickMove \/ SpuriousWakeup
        \/ (\E m \in Move : SupplyMove(m)) \/ Disconnect \/ NotifyOne

\* Threads are scheduled; the game need not call PickMove again, and the player
\* need neither answer nor leave.
Fairness == /\ WF_vars(RequestTurn \/ Block \/ ReturnMove)
            /\ WF_vars(NotifyOne)

Spec == Init /\ [][Next]_vars /\ Fairness

-----------------------------------------------------------------------------
\* SupplyMove and Disconnect notify after unlocking (RemotePlayerStrategy.cpp:26,
\* 35): a PickMove found blocked with an answer at hand is about to be notified.
NoLostWakeup ==
  picker = "blocked" /\ (mMove # NoMove \/ mDisconnected) => server = "notify"

\* Once its player has moved or gone, a turn ends: the round can resolve.
TurnEnds == (picker # "away" /\ (mMove # NoMove \/ mDisconnected)) ~> (picker = "away")

\* The game and the server see the atomic turn of RemoteTurn: an answer is never
\* a move left over from before the turn.
RT == INSTANCE RemoteTurn WITH asking <- picker # "away", move <- mMove,
                               gone <- mDisconnected
ImplementsRemoteTurn == RT!Spec

=============================================================================
