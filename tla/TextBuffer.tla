----------------------------- MODULE TextBuffer -----------------------------
(***************************************************************************)
(* What an editor promises: a text and a place in it.  A step types        *)
(* something at the place, removes the character before or after it, moves *)
(* it, or opens and closes the text.  There are no lines, limits or modes. *)
(***************************************************************************)
EXTENDS Integers, Sequences, SequencesExt

VARIABLES open, text, pos

Line == "nl"
Blank == {" ", "\t"}

Init == ~open /\ text = <<>> /\ pos = 0

Open == ~open /\ open' /\ pos' = 0

\* What a key puts in: one character, the blanks of a Tab, or a line break
\* and the blanks that begin the next line.
Typed(s) ==
  \/ Len(s) = 1
  \/ \A i \in 1..Len(s) : s[i] = " "
  \/ Head(s) = Line /\ \A i \in 2..Len(s) : s[i] \in Blank

Type ==
  /\ open /\ open' /\ pos' > pos
  /\ LET s == SubSeq(text', pos + 1, pos')
     IN Typed(s) /\ text' = SubSeq(text, 1, pos) \o s \o SubSeq(text, pos + 1, Len(text))

RemoveAfter == open /\ open' /\ pos' = pos /\ pos < Len(text) /\ text' = RemoveAt(text, pos + 1)
RemoveBefore == open /\ open' /\ pos > 0 /\ pos' = pos - 1 /\ text' = RemoveAt(text, pos)
Move == open /\ open' /\ text' = text /\ pos' \in 0..Len(text)
Close == open /\ ~open' /\ text' = <<>> /\ pos' = 0

Next == Open \/ Type \/ RemoveAfter \/ RemoveBefore \/ Move \/ Close

Spec == Init /\ [][Next]_<<open, text, pos>>
=============================================================================
