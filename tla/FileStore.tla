----------------------------- MODULE FileStore -----------------------------
(***************************************************************************)
(* What a file system promises to a program that is alone on its file: a   *)
(* file is a sequence of bytes that appears empty, is emptied as a whole,  *)
(* and otherwise changes only where somebody writes.  A write may come     *)
(* into effect in pieces, and stop half way when the machine does; but no  *)
(* byte is ever shown that was not written, no other file changes, and     *)
(* nothing that is there goes away.                                        *)
(***************************************************************************)
EXTENDS Naturals, Sequences

CONSTANTS Names, Tags

VARIABLE files

Absent == [there |-> FALSE, bytes |-> <<>>]
Empty == [there |-> TRUE, bytes |-> <<>>]

TypeOK == files \in [Names -> {Absent} \cup [there : {TRUE}, bytes : Seq(Tags)]]

Create(n) == files[n] = Absent /\ files' = [files EXCEPT ![n] = Empty]

Truncate(n) == files[n].there /\ files' = [files EXCEPT ![n] = Empty]

Write(n, tag) ==
  /\ files[n].there /\ files'[n].there
  /\ LET was == files[n].bytes
         is == files'[n].bytes
     IN /\ Len(is) >= Len(was)
        /\ \A i \in 1..Len(is) : is[i] = tag \/ (i <= Len(was) /\ is[i] = was[i])
  /\ \A m \in Names \ {n} : files'[m] = files[m]

Next == \E n \in Names : Create(n) \/ Truncate(n) \/ \E tag \in Tags : Write(n, tag)

Spec == TypeOK /\ [][Next]_files
=============================================================================
