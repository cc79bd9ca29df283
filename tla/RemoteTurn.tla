----------------------------- MODULE RemoteTurn -----------------------------
(***************************************************************************)
(* What RemotePlayerStrategy promises to the game: in a turn it answers    *)
(* with a move supplied during that turn, or forfeits if the player is     *)
(* gone; and being gone is for good.  Every step is atomic; RemotePlayer   *)
(* implements it with a mutex and a condition variable.                    *)
(***************************************************************************)
CONSTANTS Move, NoMove

VARIABLES asking,   \* a PickMove is waiting for its answer
          move,     \* the move supplied last, or NoMove
          gone,     \* the player has disconnected
          picked    \* what the last PickMove returned

vars == <<asking, move, gone, picked>>

Init == asking = FALSE /\ move = NoMove /\ gone = FALSE /\ picked = "Invalid"

\* A turn begins: whatever arrived before it does not count.
Ask == /\ ~asking /\ ~gone
       /\ asking' = TRUE /\ move' = NoMove
       /\ UNCHANGED <<gone, picked>>

ForfeitAtOnce == /\ ~asking /\ gone
                 /\ picked' = "Invalid"
                 /\ UNCHANGED <<asking, move, gone>>

Supply(m) == /\ ~gone
             /\ move' = m
             /\ UNCHANGED <<asking, gone, picked>>

Leave == /\ gone' = TRUE
         /\ UNCHANGED <<asking, move, picked>>

Answer == /\ asking
          /\ move # NoMove \/ gone
          /\ picked' = IF move = NoMove THEN "Invalid" ELSE move
          /\ asking' = FALSE
          /\ UNCHANGED <<move, gone>>

Next == Ask \/ ForfeitAtOnce \/ (\E m \in Move : Supply(m)) \/ Leave \/ Answer

Spec == Init /\ [][Next]_vars

=============================================================================
