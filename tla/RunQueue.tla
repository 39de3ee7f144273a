------------------------------ MODULE RunQueue ------------------------------
(***************************************************************************)
(* The circular run queue of src/kernel/scheduler.c as a sequence: its     *)
(* first element is run_queue_head, the successor of its last element is   *)
(* its first.  A process that is not in the queue has next == NULL.        *)
(***************************************************************************)
EXTENDS Naturals, Sequences, FiniteSetsExt

(* enqueue: append to the tail; the empty queue becomes <<p>>.             *)
Enqueue(q, p) == Append(q, p)

(* The position of p in a queue that holds it.                             *)
PositionOf(q, p) == CHOOSE i \in DOMAIN q : q[i] = p

(* dequeue: unlink p, moving the head on when p was the head; a queue that *)
(* does not hold p is left alone.                                          *)
Without(q, i) == SubSeq(q, 1, i - 1) \o SubSeq(q, i + 1, Len(q))
Dequeue(q, p) == IF p \in Range(q) THEN Without(q, PositionOf(q, p)) ELSE q

(* Mutant of SearchStart: a process that has left the queue still points   *)
(* into it, so the search does not restart at the head.                    *)
SearchStartStale(q, cur) ==
  IF cur \notin Range(q) THEN Len(q)
  ELSE IF PositionOf(q, cur) < Len(q) THEN PositionOf(q, cur) + 1 ELSE 1

(* Where pick_next starts looking: at current->next, or at the head when   *)
(* the current process has left the queue (next == NULL).                  *)
SearchStart(q, cur) ==
  IF cur \in Range(q) /\ PositionOf(q, cur) < Len(q)
  THEN PositionOf(q, cur) + 1
  ELSE 1

(* The process k places after the start of the search, going round.        *)
Candidate(q, cur, k) ==
  LET i == SearchStart(q, cur) + k
  IN  q[IF i <= Len(q) THEN i ELSE i - Len(q)]

(* The places at which the search meets a READY process.                   *)
ReadyPlaces(q, cur, state) ==
  {k \in 0..(Len(q) - 1) : state[Candidate(q, cur, k)] = "READY"}

(* Mutant of PickNext: the search always starts at the head.               *)
PickNextFromHead(q, cur, state, idle) ==
  LET ready == {i \in DOMAIN q : state[q[i]] = "READY"} IN
  IF ready = {} THEN idle ELSE q[Min(ready)]

(* pick_next's second loop: the first READY process met going round the    *)
(* queue, and the idle process when there is none.                         *)
PickNext(q, cur, state, idle) ==
  LET ready == ReadyPlaces(q, cur, state) IN
  IF ready = {} THEN idle ELSE Candidate(q, cur, Min(ready))
=============================================================================
