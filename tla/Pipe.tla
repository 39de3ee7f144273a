-------------------------------- MODULE Pipe --------------------------------
(***************************************************************************)
(* What a stream connection promises its reader: the bytes the other end   *)
(* wrote, each once and in order, and the end of the stream only when the  *)
(* other end has closed and everything it wrote has been read.  Bytes are  *)
(* their positions.                                                        *)
(***************************************************************************)
EXTENDS Naturals, Sequences

VARIABLES written, closed, read, eof

vars == <<written, closed, read, eof>>

Init == written = 0 /\ closed = FALSE /\ read = <<>> /\ eof = FALSE

Write ==
    /\ ~closed /\ written' = written + 1
    /\ UNCHANGED <<closed, read, eof>>

Close == closed' = TRUE /\ UNCHANGED <<written, read, eof>>

Read ==
    /\ \E n \in 1..(written - Len(read)) :
           read' = read \o [i \in 1..n |-> Len(read) + i]
    /\ UNCHANGED <<written, closed, eof>>

EndOfStream ==
    /\ closed /\ Len(read) = written
    /\ eof' = TRUE
    /\ UNCHANGED <<written, closed, read>>

\* The connection is given up; the next one starts afresh.
Reopen == written' = 0 /\ closed' = FALSE /\ read' = <<>> /\ eof' = FALSE

Next == Write \/ Close \/ Read \/ EndOfStream \/ Reopen

Spec == Init /\ [][Next]_vars
=============================================================================
