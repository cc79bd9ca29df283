-------------------------- MODULE MoveStreamProofs --------------------------
(***************************************************************************)
(* For every set of lines and every queue bound: no wakeup is lost, EOF is *)
(* the last thing reported, and every step of the locked implementation is *)
(* a step of the atomic LineQueue or a stutter.  NoLostWakeup is inductive *)
(* once it is known that a closed stream's GUI thread pushes no more.      *)
(***************************************************************************)
EXTENDS MoveStream, TLAPS

\* Close is the GUI thread's last call on the stream.
ClosedMeansLeaving == mClosed <=> gui \in {"notify_all", "joining"}

IInv == TypeOK /\ ClosedMeansLeaving /\ NoLostWakeup /\ EofOnlyWhenDrained

\* The initial state satisfies the inductive invariant.
LEMMA InitInvariant == Init => IInv
<1> SUFFICES ASSUME Init  PROVE  IInv
  OBVIOUS
<1> USE LineAssumption DEF Init
<1>1. TypeOK
  <2>1. mQueue \in Seq(Line) /\ Len(mQueue) <= MaxPending
    OBVIOUS
  <2>2. mClosed \in BOOLEAN /\ eofbit \in BOOLEAN
    OBVIOUS
  <2> QED
    BY <2>1, <2>2 DEF TypeOK
<1>2. ClosedMeansLeaving
  BY DEF ClosedMeansLeaving
<1>3. NoLostWakeup /\ EofOnlyWhenDrained
  BY DEF NoLostWakeup, EofOnlyWhenDrained
<1> QED
  BY <1>1, <1>2, <1>3 DEF IInv

\* Every step preserves it.
LEMMA NextInvariant == IInv /\ [Next]_vars => IInv'
<1> SUFFICES ASSUME IInv, [Next]_vars  PROVE  IInv'
  OBVIOUS
<1> USE LineAssumption DEF IInv, TypeOK, ClosedMeansLeaving, NoLostWakeup, EofOnlyWhenDrained
<1>1. ASSUME NEW l \in Line, PushLine(l)  PROVE  IInv'
  BY <1>1 DEF PushLine
<1>2. CASE Close
  BY <1>2 DEF Close
<1>3. CASE NotifyOne
  BY <1>3 DEF NotifyOne, Wake
<1>4. CASE NotifyAll
  BY <1>4 DEF NotifyAll, Wake
<1>5. CASE CallGetline
  BY <1>5 DEF CallGetline
<1>6. CASE Block
  BY <1>6 DEF Block, HoldsLock
<1>7. CASE TakeLine
  BY <1>7 DEF TakeLine, HoldsLock
<1>8. CASE ReturnEof
  BY <1>8 DEF ReturnEof, HoldsLock
<1>9. CASE SpuriousWakeup
  BY <1>9 DEF SpuriousWakeup
<1>10. CASE UNCHANGED vars
  BY <1>10 DEF vars
<1> QED
  BY <1>1, <1>2, <1>3, <1>4, <1>5, <1>6, <1>7, <1>8, <1>9, <1>10 DEF Next, Underflow

\* The inductive invariant holds throughout.
LEMMA Invariant == Spec => []IInv
BY InitInvariant, NextInvariant, PTL DEF Spec

\* The types of MoveStreamBuf's fields and of the two threads' positions.
THEOREM TypeCorrect == Spec => []TypeOK
BY Invariant, PTL DEF IInv

\* MoveStream.cpp:9 and 18 notify outside the lock and still lose no wakeup.
THEOREM NeverLosesWakeup == Spec => []NoLostWakeup
BY Invariant, PTL DEF IInv

\* MoveStream.cpp:26: lines pushed before Close are all read before EOF.
THEOREM EofIsLast == Spec => []EofOnlyWhenDrained
BY Invariant, PTL DEF IInv

\* The stream is the atomic FIFO the session and the game loop rely on.
THEOREM Refinement == Spec => ImplementsLineQueue
<1>1. Init => LQ!Init
  BY DEF Init, LQ!Init
<1>2. IInv /\ [Next]_vars => [LQ!Next]_LQ!vars
  <2> SUFFICES ASSUME IInv, [Next]_vars  PROVE  LQ!Next \/ UNCHANGED LQ!vars
    OBVIOUS
  <2> USE DEF LQ!vars
  <2>1. ASSUME NEW l \in Line, PushLine(l)  PROVE  LQ!PushLine(l)
    BY <2>1 DEF PushLine, LQ!PushLine, IInv, ClosedMeansLeaving
  <2>2. CASE Close
    BY <2>2 DEF Close, LQ!Next, LQ!Close, IInv, ClosedMeansLeaving
  <2>3. CASE TakeLine
    BY <2>3 DEF TakeLine, LQ!Next, LQ!Getline, IInv, EofOnlyWhenDrained
  <2>4. CASE ReturnEof
    BY <2>4 DEF ReturnEof, LQ!Next, LQ!GetlineFails
  <2>5. CASE NotifyOne \/ NotifyAll \/ CallGetline \/ Block \/ SpuriousWakeup
    BY <2>5 DEF NotifyOne, NotifyAll, CallGetline, Block, SpuriousWakeup
  <2>6. CASE UNCHANGED vars
    BY <2>6 DEF vars
  <2> QED
    BY <2>1, <2>2, <2>3, <2>4, <2>5, <2>6 DEF Next, Underflow, LQ!Next
<1> QED
  BY <1>1, <1>2, Invariant, PTL DEF Spec, ImplementsLineQueue, LQ!Spec

=============================================================================
