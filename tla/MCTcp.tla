------------------------------- MODULE MCTcp --------------------------------
(* Tcp for TLC: the worlds of its run.                                     *)
EXTENDS Tcp

\* One connection, everything the surroundings may do.
Hostile(p) == [procs |-> {p}, out |-> 1, written |-> 1, lens |-> {1}, opens |-> 1,
               env |-> Hardships]

\* One connection; the interrupt stays out of the windows, the peer takes whole
\* segments, callers give up after a short send.
Stream(p) == [procs |-> {p}, out |-> 3, written |-> 3, lens |-> {1, 3}, opens |-> 1,
              env |-> {"reset", "fault"}]

\* All processes share the table; one opens so many connections, and leaves so
\* many unfinished, that the search for a port wraps.
Again(p) == [procs |-> {p}, out |-> 0, written |-> 0, lens |-> {}, opens |-> 4, env |-> {}]
Crowd == [procs |-> Procs, out |-> 0, written |-> 0, lens |-> {}, opens |-> 3, env |-> {}]

\* The processes are alike, so one of them stands for whoever is alone.
One == CHOOSE p \in Procs : TRUE
AllWorlds == {Hostile(One), Stream(One), Again(One), Crowd}
=============================================================================
