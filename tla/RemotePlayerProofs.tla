------------------------- MODULE RemotePlayerProofs -------------------------
(***************************************************************************)
(* For every set of moves: no wakeup is lost, and every locked step is a   *)
(* step of the atomic RemoteTurn or a stutter.  NoLostWakeup is inductive  *)
(* together with the types.                                                *)
(***************************************************************************)
EXTENDS RemotePlayer, TLAPS

IInv == TypeOK /\ NoLostWakeup

\* The inductive invariant holds throughout.
LEMMA Invariant == Spec => []IInv
<1> USE MoveAssumption DEF IInv, TypeOK, NoLostWakeup
<1>1. Init => IInv
  BY DEF Init
<1>2. IInv /\ [Next]_vars => IInv'
  <2> SUFFICES ASSUME IInv, [Next]_vars  PROVE  IInv'
    OBVIOUS
  <2>1. CASE BeginTurn \/ RequestTurn \/ ReturnInvalidAtOnce
    BY <2>1 DEF BeginTurn, RequestTurn, ReturnInvalidAtOnce
  <2>2. CASE Block
    BY <2>2 DEF Block, HoldsLock
  <2>3. CASE ReturnMove
    BY <2>3 DEF ReturnMove, HoldsLock
  <2>4. CASE SpuriousWakeup
    BY <2>4 DEF SpuriousWakeup
  <2>5. ASSUME NEW m \in Move, SupplyMove(m)  PROVE  IInv'
    BY <2>5 DEF SupplyMove
  <2>6. CASE Disconnect
    BY <2>6 DEF Disconnect
  <2>7. CASE NotifyOne
    BY <2>7 DEF NotifyOne
  <2>8. CASE UNCHANGED vars
    BY <2>8 DEF vars
  <2> QED
    BY <2>1, <2>2, <2>3, <2>4, <2>5, <2>6, <2>7, <2>8 DEF Next, PickMove
<1> QED
  BY <1>1, <1>2, PTL DEF Spec

\* The types of the strategy's fields and of the two threads' positions.
THEOREM TypeCorrect == Spec => []TypeOK
BY Invariant, PTL DEF IInv

\* RemotePlayerStrategy.cpp:26 and 35 notify outside the lock and still lose no
\* wakeup.
THEOREM NeverLosesWakeup == Spec => []NoLostWakeup
BY Invariant, PTL DEF IInv

\* A turn is atomic for the game: PickMove answers with a move supplied since it
\* began, and with a forfeit only if the player is gone or sent a garbled move.
THEOREM Refinement == Spec => ImplementsRemoteTurn
<1>1. Init => RT!Init
  BY DEF Init, RT!Init
<1>2. IInv /\ [Next]_vars => [RT!Next]_RT!vars
  <2> SUFFICES ASSUME IInv, [Next]_vars  PROVE  RT!Next \/ UNCHANGED RT!vars
    OBVIOUS
  <2> USE DEF RT!vars
  <2>1. CASE BeginTurn
    BY <2>1 DEF BeginTurn, RT!Next, RT!Ask
  <2>2. CASE ReturnInvalidAtOnce
    BY <2>2 DEF ReturnInvalidAtOnce, RT!Next, RT!ForfeitAtOnce
  <2>3. CASE ReturnMove
    BY <2>3 DEF ReturnMove, HoldsLock, RT!Next, RT!Answer
  <2>4. ASSUME NEW m \in Move, SupplyMove(m)  PROVE  RT!Supply(m)
    BY <2>4 DEF SupplyMove, RT!Supply
  <2>5. CASE Disconnect
    BY <2>5 DEF Disconnect, RT!Next, RT!Leave
  <2>6. CASE RequestTurn \/ Block \/ SpuriousWakeup \/ NotifyOne
    BY <2>6 DEF RequestTurn, Block, HoldsLock, SpuriousWakeup, NotifyOne
  <2>7. CASE UNCHANGED vars
    BY <2>7 DEF vars
  <2> QED
    BY <2>1, <2>2, <2>3, <2>4, <2>5, <2>6, <2>7 DEF Next, PickMove, RT!Next
<1> QED
  BY <1>1, <1>2, Invariant, PTL DEF Spec, ImplementsRemoteTurn, RT!Spec

=============================================================================
