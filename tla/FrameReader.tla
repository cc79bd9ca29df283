---------------------------- MODULE FrameReader -----------------------------
(***************************************************************************)
(* The framing of Network/Protocol: a message is the text of a JSON object *)
(* and a '\n', and a FrameReader cuts the bytes it is given back into      *)
(* messages.  The text is one symbol here, and stands for as much of it as *)
(* has arrived; a frame can be split before its '\n' and anywhere between  *)
(* two frames.                                                             *)
(***************************************************************************)
EXTENDS Naturals, Sequences

NewLine == "\n"
NoMessage == "none"

\* What a host sends.  The log, the scores and the ends of rounds are left out:
\* they change nothing here, and are HostGame's subject.
Message == {"welcome", "lobby", "game_started", "your_turn", "game_finished"}

Symbol == Message \cup {NewLine}

encode(m) == <<m, NewLine>>

\* The messages ms written one after the other, byte by byte.
Encoded(ms) == [i \in 1..2 * Len(ms) |-> encode(ms[(i + 1) \div 2])[2 - (i % 2)]]

indexOf(buffer) == CHOOSE i \in DOMAIN buffer : /\ buffer[i] = NewLine
                                                /\ \A j \in 1..(i-1) : buffer[j] # NewLine

LineOf(buffer)    == SubSeq(buffer, 1, indexOf(buffer) - 1)

\* Plausible mistake: what is left after the last complete frame is thrown away.
AfterLineNothing(buffer) == <<>>

AfterLine(buffer) == SubSeq(buffer, indexOf(buffer) + 1, Len(buffer))

\* A line is one object, or malformed: two texts run together.  Nobody sends the
\* blank lines that next() would skip.
decode(l) == IF Len(l) = 1 THEN l[1] ELSE NoMessage

\* How many messages end within the first n bytes.
LinesAmong(bytes) ==
  LET lines[n \in 0..Len(bytes)] ==
        IF n = 0 THEN 0 ELSE lines[n - 1] + (IF bytes[n] = NewLine THEN 1 ELSE 0)
  IN  lines

=============================================================================
