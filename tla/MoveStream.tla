----------------------------- MODULE MoveStream -----------------------------
(***************************************************************************)
(* QtView/MoveStream: the blocking std::istream between the GUI thread,    *)
(* which pushes lines and closes it, and the one worker thread inside      *)
(* std::getline.  A critical section of mMutex is one step; the notify     *)
(* calls follow it outside the lock and are steps of their own, and a      *)
(* blocked thread may be woken spuriously.                                 *)
(*                                                                         *)
(* Every line ends in '\n' and contains no other, so one successful        *)
(* getline drains exactly one get area: it calls underflow once.           *)
(***************************************************************************)
EXTENDS Naturals, Sequences

CONSTANTS Line, NoLine,
          MaxPending   \* bound: lines in mQueue

ASSUME LineAssumption == NoLine \notin Line /\ MaxPending \in Nat

VARIABLES mQueue, mClosed,
          mCurrent,    \* the get area's line
          eofbit,      \* set by a getline that got traits_type::eof()
          gui,         \* where the GUI thread is: "idle", "notify_one", "notify_all", "joining"
          worker       \* where the worker is: "away", "underflow", "blocked", "woken"

vars == <<mQueue, mClosed, mCurrent, eofbit, gui, worker>>

TypeOK == /\ mQueue \in Seq(Line) /\ Len(mQueue) <= MaxPending
          /\ mClosed \in BOOLEAN /\ eofbit \in BOOLEAN
          /\ mCurrent \in Line \cup {NoLine}
          /\ gui \in {"idle", "notify_one", "notify_all", "joining"}
          /\ worker \in {"away", "underflow", "blocked", "woken"}

Init == /\ mQueue = <<>> /\ mClosed = FALSE
        /\ mCurrent = NoLine /\ eofbit = FALSE
        /\ gui = "idle" /\ worker = "away"

-----------------------------------------------------------------------------
(* Plausible mistakes, used only to show that the properties below notice  *)
(* them: each stands in for the definition it is named after.              *)

PushLineWithoutNotify(l) == /\ gui = "idle" /\ Len(mQueue) < MaxPending
                            /\ mQueue' = Append(mQueue, l)
                            /\ UNCHANGED <<mClosed, mCurrent, eofbit, gui, worker>>

NotifyAllForgotten == /\ gui = "notify_all"
                      /\ gui' = "joining"
                      /\ UNCHANGED <<mQueue, mClosed, mCurrent, eofbit, worker>>

TakeNewestLine == /\ worker \in {"underflow", "woken"}
                  /\ mQueue # <<>>
                  /\ mCurrent' = mQueue[Len(mQueue)]
                  /\ mQueue' = SubSeq(mQueue, 1, Len(mQueue) - 1)
                  /\ worker' = "away"
                  /\ UNCHANGED <<mClosed, eofbit, gui>>

-----------------------------------------------------------------------------
(* The GUI thread.  After Close it only waits for the worker to end.       *)

PushLine(l) == /\ gui = "idle" /\ Len(mQueue) < MaxPending
               /\ mQueue' = Append(mQueue, l)
               /\ gui' = "notify_one"
               /\ UNCHANGED <<mClosed, mCurrent, eofbit, worker>>

Close == /\ gui = "idle"
         /\ mClosed' = TRUE
         /\ gui' = "notify_all"
         /\ UNCHANGED <<mQueue, mCurrent, eofbit, worker>>

Wake == worker' = IF worker = "blocked" THEN "woken" ELSE worker

\* There is one reader, so notify_one and notify_all wake the same thread.
NotifyOne == /\ gui = "notify_one"
             /\ Wake
             /\ gui' = "idle"
             /\ UNCHANGED <<mQueue, mClosed, mCurrent, eofbit>>

NotifyAll == /\ gui = "notify_all"
             /\ Wake
             /\ gui' = "joining"
             /\ UNCHANGED <<mQueue, mClosed, mCurrent, eofbit>>

-----------------------------------------------------------------------------
(* The worker.  A getline on a stream with eofbit set returns at once and  *)
(* changes nothing.                                                        *)

CallGetline == /\ worker = "away" /\ ~eofbit
               /\ worker' = "underflow"
               /\ UNCHANGED <<mQueue, mClosed, mCurrent, eofbit, gui>>

HoldsLock == worker \in {"underflow", "woken"}

\* mCv.wait: the predicate is false, so the lock is released and the thread
\* blocks in one step.
Block == /\ HoldsLock
         /\ mQueue = <<>> /\ ~mClosed
         /\ worker' = "blocked"
         /\ UNCHANGED <<mQueue, mClosed, mCurrent, eofbit, gui>>

TakeLine == /\ HoldsLock
            /\ mQueue # <<>>
            /\ mCurrent' = Head(mQueue)
            /\ mQueue' = Tail(mQueue)
            /\ worker' = "away"
            /\ UNCHANGED <<mClosed, eofbit, gui>>

ReturnEof == /\ HoldsLock
             /\ mQueue = <<>> /\ mClosed
             /\ eofbit' = TRUE
             /\ mCurrent' = NoLine
             /\ worker' = "away"
             /\ UNCHANGED <<mQueue, mClosed, gui>>

SpuriousWakeup == /\ worker = "blocked"
                  /\ worker' = "woken"
                  /\ UNCHANGED <<mQueue, mClosed, mCurrent, eofbit, gui>>

Underflow == Block \/ TakeLine \/ ReturnEof

Next == \/ \E l \in Line : PushLine(l)
        \/ Close \/ NotifyOne \/ NotifyAll
        \/ CallGetline \/ Underflow \/ SpuriousWakeup

\* A thread that can run eventually runs.  Nothing is assumed of when lines are
\* pushed, when the stream is closed, when getline is called, or of luck with
\* spurious wakeups.
Fairness == WF_vars(NotifyOne) /\ WF_vars(NotifyAll) /\ WF_vars(Underflow)

Spec == Init /\ [][Next]_vars /\ Fairness

-----------------------------------------------------------------------------
\* The notify calls are made after the lock is released (MoveStream.cpp:9, 18):
\* a worker found blocked although it has something to return is one the GUI
\* thread is still about to notify.
NoLostWakeup ==
  worker = "blocked" /\ (mQueue # <<>> \/ mClosed) =>
    gui \in {"notify_one", "notify_all"}

\* EOF is reported, for good, only when the stream is closed and every line
\* pushed before Close has been read (MoveStream.cpp:26).
EofOnlyWhenDrained == eofbit => mClosed /\ mQueue = <<>>

\* A getline for which there is a line or EOF returns: the worker unwinds when
\* the window closes (MoveStream.h:14-15).
GetlineReturns ==
  (worker # "away" /\ (mQueue # <<>> \/ mClosed)) ~> (worker = "away")

\* To the two threads the stream is the atomic FIFO of LineQueue.
LQ == INSTANCE LineQueue WITH pending <- mQueue, closed <- mClosed,
                              line <- mCurrent, failed <- eofbit
ImplementsLineQueue == LQ!Spec

=============================================================================
