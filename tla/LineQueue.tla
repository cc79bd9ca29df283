----------------------------- MODULE LineQueue ------------------------------
(***************************************************************************)
(* What MoveStream promises to the two threads that share it: a FIFO of    *)
(* lines that the GUI thread fills and closes, and a std::getline that     *)
(* takes the oldest line, or fails for good once the queue is closed and   *)
(* drained.  Every step is atomic; MoveStream implements it with a mutex   *)
(* and a condition variable.                                               *)
(***************************************************************************)
EXTENDS Naturals, Sequences

CONSTANTS Line,        \* the lines that can be pushed
          NoLine,      \* what the reader holds when getline gave it nothing
          MaxPending   \* bound: lines waiting at one time

VARIABLES pending,     \* lines pushed and not yet read
          closed,      \* Close() was called
          line,        \* the string of the reader's last getline
          failed       \* the istream's eofbit: every later getline fails

Init == /\ pending = <<>>
        /\ closed = FALSE
        /\ line = NoLine
        /\ failed = FALSE

\* Nothing is pushed after Close: both are called by the thread that destroys
\* the stream.
PushLine(l) == /\ ~closed
               /\ Len(pending) < MaxPending
               /\ pending' = Append(pending, l)
               /\ UNCHANGED <<closed, line, failed>>

Close == /\ ~closed
         /\ closed' = TRUE
         /\ UNCHANGED <<pending, line, failed>>

Getline == /\ ~failed
           /\ pending # <<>>
           /\ line' = Head(pending)
           /\ pending' = Tail(pending)
           /\ UNCHANGED <<closed, failed>>

GetlineFails == /\ failed \/ (closed /\ pending = <<>>)
                /\ failed' = TRUE
                /\ line' = NoLine
                /\ UNCHANGED <<pending, closed>>

Next == \/ \E l \in Line : PushLine(l)
        \/ Close
        \/ Getline
        \/ GetlineFails

vars == <<pending, closed, line, failed>>

Spec == Init /\ [][Next]_vars

=============================================================================
