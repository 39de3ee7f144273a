--------------------------- MODULE RunQueueProofs ---------------------------
(***************************************************************************)
(* What enqueue, dequeue and pick_next do to a well-formed run queue, for  *)
(* a queue of any length.                                                  *)
(***************************************************************************)
EXTENDS RunQueue, NaturalFacts, SequenceTheorems

(* The queue q holds each process of L once, and the idle process first.   *)
Queues(q, L, idle) ==
  /\ q \in Seq(L)
  /\ Range(q) = L
  /\ \A i, j \in DOMAIN q : q[i] = q[j] => i = j
  /\ q # <<>> /\ q[1] = idle

(* The elements of a queue without its i-th element.                       *)
LEMMA WithoutProperties ==
  ASSUME NEW S, NEW q \in Seq(S), NEW i \in 1..Len(q)
  PROVE  /\ Without(q, i) \in Seq(S)
         /\ Len(Without(q, i)) = Len(q) - 1
         /\ \A j \in 1..(Len(q) - 1) :
              Without(q, i)[j] = IF j < i THEN q[j] ELSE q[j + 1]
<1> DEFINE a == SubSeq(q, 1, i - 1)
           b == SubSeq(q, i + 1, Len(q))
<1>1. /\ a \in Seq(S) /\ Len(a) = i - 1
      /\ \A j \in 1..(i - 1) : a[j] = q[j]
  <2>1. \A j \in 1..(i - 1) : q[j] \in S
    BY ElementOfSeq
  <2>2. /\ a \in Seq(S)
        /\ Len(a) = IF 1 <= i - 1 THEN (i - 1) - 1 + 1 ELSE 0
        /\ \A j \in 1..((i - 1) - 1 + 1) : a[j] = q[1 + j - 1]
    BY <2>1, SubSeqProperties
  <2> QED  BY <2>2
<1>2. /\ b \in Seq(S) /\ Len(b) = Len(q) - i
      /\ \A j \in 1..(Len(q) - i) : b[j] = q[i + j]
  <2>1. \A j \in (i + 1)..Len(q) : q[j] \in S
    BY ElementOfSeq
  <2>2. /\ b \in Seq(S)
        /\ Len(b) = IF i + 1 <= Len(q) THEN Len(q) - (i + 1) + 1 ELSE 0
        /\ \A j \in 1..(Len(q) - (i + 1) + 1) : b[j] = q[(i + 1) + j - 1]
    BY <2>1, SubSeqProperties
  <2> QED  BY <2>2
<1>3. /\ a \o b \in Seq(S)
      /\ Len(a \o b) = Len(a) + Len(b)
      /\ \A j \in 1..(Len(a) + Len(b)) :
           (a \o b)[j] = IF j <= Len(a) THEN a[j] ELSE b[j - Len(a)]
  BY <1>1, <1>2, ConcatProperties, Zenon
<1>4. Without(q, i) = a \o b
  BY DEF Without
<1> HIDE DEF a, b
<1>5. Len(a) + Len(b) = Len(q) - 1
  BY <1>1, <1>2
<1>6. ASSUME NEW j \in 1..(Len(q) - 1)
      PROVE  (a \o b)[j] = IF j < i THEN q[j] ELSE q[j + 1]
  <2>1. CASE j < i
    BY <2>1, <1>1, <1>3, <1>5
  <2>2. CASE ~(j < i)
    <3>1. j - Len(a) \in 1..(Len(q) - i) /\ i + (j - Len(a)) = j + 1
      BY <2>2, <1>1
    <3> QED  BY <2>2, <3>1, <1>1, <1>2, <1>3, <1>5
  <2> QED  BY <2>1, <2>2, Zenon
<1> QED  BY <1>3, <1>4, <1>5, <1>6

(* enqueue of a process that is not queued adds just that process.         *)
LEMMA EnqueueQueues ==
  ASSUME NEW L, NEW idle, NEW q, Queues(q, L, idle), NEW p, p \notin L
  PROVE  Queues(Enqueue(q, p), L \cup {p}, idle)
<1> DEFINE r == Append(q, p)
<1>1. q \in Seq(L \cup {p}) /\ Len(q) \in Nat \ {0} /\ DOMAIN q = 1..Len(q)
  BY SeqMonotonic, EmptySeq, LenProperties DEF Queues
<1>2. /\ r \in Seq(L \cup {p}) /\ r # <<>> /\ Len(r) = Len(q) + 1
      /\ \A i \in 1..Len(q) : r[i] = q[i]
      /\ r[Len(q) + 1] = p
  BY <1>1, AppendProperties
<1>3. DOMAIN r = 1..(Len(q) + 1)
  BY <1>2, LenProperties
<1>4. \A i \in 1..Len(q) : q[i] \in L
  BY ElementOfSeq DEF Queues
<1> HIDE DEF r
<1>5. Range(r) = L \cup {p}
  <2>1. \A x \in L : \E i \in 1..Len(q) : q[i] = x
    BY <1>1 DEF Queues, Range
  <2> QED  BY <2>1, <1>1, <1>2, <1>3, <1>4 DEF Range
<1>6. \A i, j \in DOMAIN r : r[i] = r[j] => i = j
  BY <1>1, <1>2, <1>3, <1>4 DEF Queues
<1>7. r[1] = idle
  BY <1>1, <1>2 DEF Queues
<1> QED  BY <1>2, <1>5, <1>6, <1>7 DEF Queues, Enqueue, r

(* dequeue of a queued process other than idle takes just that one out.    *)
LEMMA DequeueQueues ==
  ASSUME NEW L, NEW idle, NEW q, Queues(q, L, idle), NEW p \in L, p # idle
  PROVE  Queues(Dequeue(q, p), L \ {p}, idle)
<1> DEFINE i == PositionOf(q, p)
           r == Without(q, i)
<1>1. Len(q) \in Nat \ {0} /\ DOMAIN q = 1..Len(q)
  BY EmptySeq, LenProperties DEF Queues
<1>2. i \in 1..Len(q) /\ q[i] = p
  BY <1>1 DEF Queues, Range, PositionOf
<1>3. /\ r \in Seq(L) /\ Len(r) = Len(q) - 1
      /\ \A j \in 1..(Len(q) - 1) : r[j] = IF j < i THEN q[j] ELSE q[j + 1]
  BY <1>2, WithoutProperties DEF Queues
<1>4. Dequeue(q, p) = r
  BY DEF Queues, Dequeue
<1> HIDE DEF r, i
<1>5. DOMAIN r = 1..(Len(q) - 1)
  BY <1>3, LenProperties
<1>6. i # 1
  BY <1>2 DEF Queues
<1>7. Range(r) = L \ {p}
  <2>1. ASSUME NEW j \in 1..(Len(q) - 1)  PROVE r[j] \in L \ {p}
    <3>1. q[j] \in L /\ q[j + 1] \in L
      BY <1>1, ElementOfSeq DEF Queues
    <3>2. CASE j < i
      <4>1. r[j] = q[j] /\ j \in DOMAIN q /\ j # i
        BY <3>2, <1>1, <1>3
      <4> QED  BY <3>1, <4>1, <1>1, <1>2 DEF Queues
    <3>3. CASE ~(j < i)
      <4>1. r[j] = q[j + 1] /\ j + 1 \in DOMAIN q /\ j + 1 # i
        BY <3>3, <1>1, <1>2, <1>3
      <4> QED  BY <3>1, <4>1, <1>1, <1>2 DEF Queues
    <3> QED  BY <3>2, <3>3
  <2>2. ASSUME NEW x \in L \ {p}  PROVE \E j \in 1..(Len(q) - 1) : r[j] = x
    <3>1. PICK k \in 1..Len(q) : q[k] = x
      BY <1>1 DEF Queues, Range
    <3>2. k # i
      BY <3>1, <1>2
    <3>3. CASE k < i
      BY <3>1, <3>3, <1>1, <1>2, <1>3
    <3>4. CASE k > i
      <4>1. k - 1 \in 1..(Len(q) - 1) /\ ~(k - 1 < i) /\ (k - 1) + 1 = k
        BY <3>4, <1>1, <1>2
      <4> QED  BY <4>1, <3>1, <1>3
    <3> QED  BY <3>2, <3>3, <3>4, <1>2
  <2> QED  BY <2>1, <2>2, <1>5 DEF Range
<1>8. \A j, k \in DOMAIN r : r[j] = r[k] => j = k
  <2> SUFFICES ASSUME NEW j \in 1..(Len(q) - 1), NEW k \in 1..(Len(q) - 1), r[j] = r[k]
               PROVE  j = k
    BY <1>5
  <2> DEFINE u == IF j < i THEN j ELSE j + 1
             v == IF k < i THEN k ELSE k + 1
  <2>1. u \in 1..Len(q) /\ v \in 1..Len(q) /\ q[u] = r[j] /\ q[v] = r[k]
    BY <1>1, <1>2, <1>3
  <2>2. u = v
    BY <2>1, <1>1 DEF Queues
  <2> QED  BY <2>2, <1>2
<1>9. r # <<>> /\ r[1] = idle
  <2>1. Len(q) >= 2
    BY <1>1, <1>2, <1>6
  <2> QED  BY <2>1, <1>1, <1>2, <1>3, <1>6, EmptySeq DEF Queues
<1>10. r \in Seq(L \ {p})
  <2>1. r \in [1..(Len(q) - 1) -> L \ {p}]
    BY <1>3, <1>5, <1>7, LenProperties DEF Range
  <2> QED  BY <2>1, <1>1, SeqDef
<1> QED  BY <1>4, <1>7, <1>8, <1>9, <1>10 DEF Queues

(* dequeue leaves alone a queue that does not hold the process.            *)
LEMMA DequeueAbsent ==
  ASSUME NEW q, NEW p, p \notin Range(q)
  PROVE  Dequeue(q, p) = q
BY DEF Dequeue

(* pick_next's search returns a READY queued process whenever there is     *)
(* one, else the idle process; and, since the search comes back to the     *)
(* current process last, it never returns a READY current process while    *)
(* the idle process is READY too.                                          *)
LEMMA PickNextProperties ==
  ASSUME NEW L, NEW idle, NEW q, Queues(q, L, idle), NEW cur, NEW sts
  PROVE  LET next == PickNext(q, cur, sts, idle) IN
         /\ next \in L
         /\ \/ sts[next] = "READY"
            \/ next = idle /\ \A s \in L : sts[s] # "READY"
         /\ cur # idle /\ sts[idle] = "READY" => next # cur
<1> DEFINE n     == Len(q)
           start == SearchStart(q, cur)
           C(k)  == Candidate(q, cur, k)
           ready == ReadyPlaces(q, cur, sts)
           next  == PickNext(q, cur, sts, idle)
<1>1. n \in Nat \ {0} /\ DOMAIN q = 1..n /\ (\A i \in 1..n : q[i] \in L)
  BY EmptySeq, LenProperties, ElementOfSeq DEF Queues
<1>2. idle \in L
  BY <1>1 DEF Queues
<1>3. cur \in L => PositionOf(q, cur) \in 1..n /\ q[PositionOf(q, cur)] = cur
  BY <1>1 DEF Queues, Range, PositionOf
<1>4. start \in 1..n
  BY <1>1, <1>3 DEF SearchStart, Queues
<1>5. \A k \in 0..(n - 1) : C(k) \in L
  BY <1>1, <1>4 DEF Candidate
<1>6. \A x \in L : \E k \in 0..(n - 1) : C(k) = x
  <2> SUFFICES ASSUME NEW x \in L  PROVE \E k \in 0..(n - 1) : C(k) = x
    OBVIOUS
  <2>1. PICK i \in 1..n : q[i] = x
    BY <1>1 DEF Queues, Range
  <2>2. CASE i >= start
    <3>1. i - start \in 0..(n - 1) /\ start + (i - start) = i /\ i <= n
      BY <2>2, <1>1, <1>4
    <3>2. C(i - start) = x
      BY <3>1, <2>1 DEF Candidate
    <3> QED  BY <3>1, <3>2
  <2>3. CASE i < start
    <3>1. /\ i + n - start \in 0..(n - 1)
          /\ start + (i + n - start) = i + n /\ ~(i + n <= n) /\ (i + n) - n = i
      BY <2>3, <1>1, <1>4
    <3>2. C(i + n - start) = x
      BY <3>1, <2>1 DEF Candidate
    <3> QED  BY <3>1, <3>2
  <2> QED  BY <2>2, <2>3, <1>1, <1>4
<1>7. ready \in SUBSET Nat /\ ready = {k \in 0..(n - 1) : sts[C(k)] = "READY"}
  BY <1>1 DEF ReadyPlaces
<1>8. next = IF ready = {} THEN idle ELSE C(Min(ready))
  BY DEF PickNext
<1>9. CASE ready = {}
  <2>1. \A s \in L : sts[s] # "READY"
    BY <1>6, <1>7, <1>9
  <2> QED  BY <2>1, <1>2, <1>8, <1>9
<1>10. CASE ready # {}
  <2>1. Min(ready) \in ready /\ \A k \in ready : Min(ready) <= k
    BY <1>7, <1>10, MinProperties, Zenon
  <2>2. next \in L /\ sts[next] = "READY"
    BY <2>1, <1>5, <1>7, <1>8, <1>10
  <2>3. ASSUME cur # idle, sts[idle] = "READY", next = cur  PROVE FALSE
    <3>1. PICK k \in 0..(n - 1) : C(k) = idle
      BY <1>2, <1>6
    <3>2. Min(ready) \in 0..(n - 1) /\ Min(ready) <= k
      BY <2>1, <2>3, <3>1, <1>7
    <3> DEFINE m == Min(ready)
               c == PositionOf(q, cur)
               P(j) == IF start + j <= n THEN start + j ELSE (start + j) - n
    <3>3. cur \in L /\ c \in 1..n /\ q[c] = cur
      BY <2>2, <2>3, <1>3
    <3>4. q[P(m)] = cur /\ q[P(k)] = idle
      BY <2>3, <3>1, <1>8, <1>10 DEF Candidate
    <3>5. P(m) \in 1..n /\ P(k) \in 1..n
      BY <3>2, <1>1, <1>4
    <3>6. P(m) = c /\ P(k) = 1
      BY <3>3, <3>4, <3>5, <1>1 DEF Queues
    <3>7. start = IF c < n THEN c + 1 ELSE 1
      BY <3>3 DEF SearchStart, Queues
    <3>8. c # 1
      BY <3>3, <2>3 DEF Queues
    <3> HIDE DEF c, m, start, n
    <3>9. m = n - 1
      BY <3>2, <3>3, <3>6, <3>7, <1>1, <1>4 DEF m
    <3>10. m = k
      BY <3>2, <3>9, <1>1 DEF m
    <3> QED  BY <3>6, <3>8, <3>10
  <2> QED  BY <2>2, <2>3
<1> QED  BY <1>9, <1>10

(* A search that starts at the head, because the current process has left  *)
(* the queue, stops at once when the idle process there is READY.          *)
LEMMA PickNextAbsent ==
  ASSUME NEW L, NEW idle, NEW q, Queues(q, L, idle),
         NEW cur, cur \notin L, NEW sts, sts[idle] = "READY"
  PROVE  PickNext(q, cur, sts, idle) = idle
<1> DEFINE ready == ReadyPlaces(q, cur, sts)
<1>1. Len(q) \in Nat \ {0} /\ q[1] = idle /\ cur \notin Range(q)
  BY EmptySeq, LenProperties DEF Queues
<1>2. SearchStart(q, cur) = 1
  BY <1>1 DEF SearchStart
<1>3. Candidate(q, cur, 0) = idle
  BY <1>1, <1>2 DEF Candidate
<1>4. ready \in SUBSET Nat /\ 0 \in ready
  BY <1>1, <1>3 DEF ReadyPlaces
<1>5. Min(ready) = 0
  <2>1. Min(ready) \in ready /\ Min(ready) <= 0
    BY <1>4, MinProperties
  <2> QED  BY <1>4, <2>1
<1> QED  BY <1>3, <1>4, <1>5 DEF PickNext
=============================================================================
