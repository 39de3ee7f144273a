------------------------- MODULE TimerObjectsProofs -------------------------
(***************************************************************************)
(* Waiters find their own timer, and timers keep their rhythm, for every   *)
(* number of threads, groups, slots and timers: as long as the identifiers *)
(* have not come round, which takes 2^31 creations.                        *)
(***************************************************************************)
EXTENDS TimerObjects, NaturalFacts

(* Until the counter comes round, an identifier is the number of the       *)
(* creation, so no two timers have the same one.                           *)
IdsAreSerials ==
  /\ next_timer_id = IF created = MAX_TIMER_ID THEN 1 ELSE created + 1
  /\ \A s \in Slots : timer_objects[s].used =>
        timer_objects[s].id = timer_objects[s].serial /\ timer_objects[s].serial <= created
  /\ \A s, u \in Slots :
        timer_objects[s].used /\ timer_objects[u].used
          /\ timer_objects[s].serial = timer_objects[u].serial => s = u

(* A sleeper holds an identifier that was handed out, and the deadline of  *)
(* a one-shot timer is still the one it read.                              *)
SleepersRead ==
  \A t \in THREADS : wait[t] # Idle =>
    /\ wait[t].id = wait[t].serial /\ wait[t].serial <= created
    /\ \A s \in Slots :
         timer_objects[s].used /\ timer_objects[s].serial = wait[t].serial
           /\ timer_objects[s].period_ms = 0 => timer_objects[s].deadline_ms = wait[t].wake_ms

TimerInv == TypeOK /\ IdsAreSerials /\ SleepersRead /\ KeepsRhythm

-----------------------------------------------------------------------------
(* What the types say of a slot and of a thread.                           *)
LEMMA SlotTypes ==
  ASSUME TypeOK, NEW s \in Slots
  PROVE  /\ timer_objects[s].used \in BOOLEAN
         /\ timer_objects[s].used => timer_objects[s] \in Timers
         /\ ~ timer_objects[s].used => timer_objects[s] = Free
<1>1. CASE timer_objects[s] \in Timers
  <2>1. timer_objects[s].used = TRUE
    BY <1>1, Zenon DEF Timers
  <2> QED  BY <1>1, <2>1, Zenon
<1>2. CASE timer_objects[s] = Free
  <2>1. timer_objects[s].used = FALSE
    BY <1>2 DEF Free
  <2> QED  BY <1>2, <2>1, Zenon
<1> QED  BY <1>1, <1>2 DEF TypeOK

(* The fields of a timer in use, which is not a free slot.                 *)
LEMMA TimerTypes ==
  ASSUME NEW r \in Timers
  PROVE  /\ r.used /\ r.owner \in GROUPS /\ r.id \in Nat /\ r.deadline_ms \in Nat
         /\ r.period_ms \in Nat /\ r.serial \in 1..MAX_CREATED /\ r.serial \in Nat /\ r.first \in Nat
         /\ r # Free
<1>1. /\ r.used = TRUE /\ r.owner \in GROUPS /\ r.id \in Ids /\ r.deadline_ms \in Nat
      /\ r.period_ms \in Nat /\ r.serial \in 1..MAX_CREATED /\ r.first \in Nat
  BY Zenon DEF Timers
<1>2. r # Free
  <2>1. Free.used = FALSE
    BY DEF Free
  <2> QED  BY <1>1, <2>1
<1>3. r.id \in Nat /\ r.serial \in Nat
  BY <1>1, SlotAssumption, CreatedAssumption DEF Ids
<1> QED  BY <1>1, <1>2, <1>3

(* What a sleeping thread holds.                                           *)
LEMMA WaitTypes ==
  ASSUME TypeOK, NEW t \in THREADS, wait[t] # Idle
  PROVE  /\ wait[t] \in Waits /\ wait[t].id \in Ids /\ wait[t].wake_ms \in Nat
         /\ wait[t].serial \in Nat
BY CreatedAssumption DEF TypeOK, Waits

(* timer_find_slot returns a slot with the group and the identifier.       *)
LEMMA Found ==
  ASSUME TypeOK, NEW owner, NEW id, Matching(owner, id) # {}
  PROVE  /\ Min(Matching(owner, id)) \in Slots
         /\ timer_objects[Min(Matching(owner, id))].used
         /\ timer_objects[Min(Matching(owner, id))].owner = owner
         /\ timer_objects[Min(Matching(owner, id))].id = id
<1>1. Matching(owner, id) \in SUBSET Nat
  BY SlotAssumption DEF Matching, Slots
<1>2. Min(Matching(owner, id)) \in Matching(owner, id)
  BY <1>1, MinProperties
<1> QED  BY <1>2 DEF Matching

(* timer_complete_wait_object keeps a periodic timer in rhythm.            *)
RhythmOf(timer) ==
  timer.used /\ timer.period_ms > 0 =>
    /\ timer.deadline_ms >= timer.first
    /\ (timer.deadline_ms - timer.first) % timer.period_ms = 0
    /\ timer.deadline_ms > timer.first => timer.deadline_ms <= now + timer.period_ms

(* timer_object_wait moves the deadline of a periodic timer by whole       *)
(* periods, to the first one after now.                                    *)
LEMMA NextDeadlineRhythm ==
  ASSUME NEW d \in Nat, NEW p \in Nat \ {0}, NEW f \in Nat, now \in Nat,
         d >= f, (d - f) % p = 0, d > f => d <= now + p
  PROVE  /\ NextDeadline(d, p) \in Nat /\ NextDeadline(d, p) >= f
         /\ (NextDeadline(d, p) - f) % p = 0
         /\ NextDeadline(d, p) > f => NextDeadline(d, p) <= now + p
<1>1. CASE d > now
  BY <1>1 DEF NextDeadline
<1>2. CASE d <= now
  <2> DEFINE x == now - d
             k == x \div p
  <2>1. x \in Nat
    BY <1>2
  <2>2. k \in Nat /\ p * k \in Nat /\ p * k <= x
    <3> HIDE DEF x
    <3>1. /\ k \in Nat /\ p * k \in Nat /\ x % p \in Nat /\ x = p * k + (x % p)
      BY <2>1, Division
    <3> HIDE DEF k
    <3> QED  BY <2>1, <3>1
  <2>3. p * (k + 1) = p * k + p
    BY <2>2
  <2>4. NextDeadline(d, p) = d + p * (k + 1)
    BY <1>2 DEF NextDeadline
  <2> HIDE DEF k
  <2>5. p * (k + 1) \in Nat
    BY <2>2, <2>3
  <2>6. ((d - f) + p * (k + 1)) % p = 0
    <3> DEFINE y == d - f
               j == k + 1
    <3>1. y \in Nat /\ j \in Nat /\ y % p = 0
      BY <2>2
    <3> HIDE DEF y, j
    <3>2. (y + p * j) % p = 0
      BY <3>1, AddMultiple, Zenon
    <3> QED  BY <3>2 DEF y, j
  <2>7. (d - f) + p * (k + 1) = NextDeadline(d, p) - f
    BY <2>4, <2>5
  <2>8. ((NextDeadline(d, p)) - f) % p = 0
    BY <2>6, <2>7
  <2>9. d + p * k + p <= now + p
    BY <2>2
  <2> QED  BY <2>2, <2>3, <2>4, <2>5, <2>8, <2>9
<1> QED  BY <1>1, <1>2

(* A wait that succeeds frees a one-shot timer and leaves a periodic one   *)
(* in rhythm.                                                              *)
LEMMA CompletedRhythm ==
  ASSUME NEW r \in Timers, now \in Nat, RhythmOf(r)
  PROVE  \/ Completed(r) = Free /\ r.period_ms = 0
         \/ /\ Completed(r) \in Timers /\ RhythmOf(Completed(r)) /\ r.period_ms > 0
            /\ Completed(r).serial = r.serial /\ Completed(r).id = r.id
            /\ Completed(r).period_ms = r.period_ms
<1>1. CASE r.period_ms = 0
  BY <1>1 DEF Completed
<1>2. CASE r.period_ms > 0
  <2> DEFINE d == NextDeadline(r.deadline_ms, r.period_ms)
  <2>1. Completed(r) = [r EXCEPT !.deadline_ms = d]
    BY <1>2 DEF Completed
  <2>2. /\ d \in Nat /\ d >= r.first /\ (d - r.first) % r.period_ms = 0
        /\ d > r.first => d <= now + r.period_ms
    <3>1. /\ r.deadline_ms \in Nat /\ r.period_ms \in Nat \ {0} /\ r.first \in Nat /\ r.used
      BY <1>2, TimerTypes
    <3>2. /\ r.deadline_ms >= r.first /\ (r.deadline_ms - r.first) % r.period_ms = 0
          /\ r.deadline_ms > r.first => r.deadline_ms <= now + r.period_ms
      BY <1>2, <3>1 DEF RhythmOf
    <3> QED  BY <3>1, <3>2, NextDeadlineRhythm, Zenon
  <2> HIDE DEF d
  <2>3. /\ Completed(r) \in Timers /\ Completed(r).deadline_ms = d
        /\ Completed(r).serial = r.serial /\ Completed(r).id = r.id /\ Completed(r).first = r.first
        /\ Completed(r).period_ms = r.period_ms
    BY <2>1, <2>2, Zenon DEF Timers
  <2> QED  BY <1>2, <2>2, <2>3 DEF RhythmOf
<1> QED  BY <1>1, <1>2, TimerTypes

-----------------------------------------------------------------------------
(* A step that releases the timer in slot m or moves its deadline, and may *)
(* let threads return from their wait.                                     *)
LEMMA ReplaceStep ==
  ASSUME TimerInv, NEW m \in Slots, timer_objects[m].used, NEW v,
         timer_objects' = [timer_objects EXCEPT ![m] = v],
         \/ v = Free
         \/ /\ v \in Timers /\ RhythmOf(v) /\ v.period_ms > 0
            /\ v.serial = timer_objects[m].serial /\ v.id = timer_objects[m].id,
         wait' \in [THREADS -> Waits \cup {Idle}],
         \A t \in THREADS : wait'[t] \in {wait[t], Idle},
         UNCHANGED <<next_timer_id, now, created>>, served' \subseteq 1..created
  PROVE  TimerInv'
<1>1. TypeOK /\ timer_objects \in [Slots -> Timers \cup {Free}]
  BY DEF TimerInv, TypeOK
<1>2. /\ timer_objects' \in [Slots -> Timers \cup {Free}]
      /\ \A s \in Slots : timer_objects'[s] = IF s = m THEN v ELSE timer_objects[s]
  BY <1>1
<1>3. TypeOK'
  BY <1>1, <1>2 DEF TypeOK
<1>4. \A s \in Slots : timer_objects'[s].used =>
        /\ timer_objects[s].used /\ timer_objects'[s].serial = timer_objects[s].serial
        /\ timer_objects'[s].id = timer_objects[s].id
        /\ \/ timer_objects'[s] = timer_objects[s]
           \/ timer_objects'[s].period_ms > 0 /\ RhythmOf(timer_objects'[s])
  <2>1. ~ Free.used
    BY DEF Free
  <2> QED  BY <1>2, <2>1
<1>5. IdsAreSerials'
  BY <1>4 DEF TimerInv, IdsAreSerials
<1>6. SleepersRead'
  BY <1>4 DEF TimerInv, SleepersRead
<1>7. KeepsRhythm'
  <2> SUFFICES ASSUME NEW s \in Slots, timer_objects'[s].used, timer_objects'[s].period_ms > 0
               PROVE  /\ timer_objects'[s].deadline_ms >= timer_objects'[s].first
                      /\ (timer_objects'[s].deadline_ms - timer_objects'[s].first)
                           % timer_objects'[s].period_ms = 0
                      /\ timer_objects'[s].deadline_ms > timer_objects'[s].first =>
                           timer_objects'[s].deadline_ms <= now' + timer_objects'[s].period_ms
    BY DEF KeepsRhythm
  <2>1. now' = now
    OBVIOUS
  <2>2. RhythmOf(timer_objects'[s])
    BY <1>4 DEF TimerInv, KeepsRhythm, RhythmOf
  <2> QED  BY <2>1, <2>2 DEF RhythmOf
<1> QED  BY <1>3, <1>5, <1>6, <1>7 DEF TimerInv

(* A wait that succeeds, on the timer in slot m, which is due.             *)
LEMMA ServeStep ==
  ASSUME TimerInv, NEW m \in Slots, timer_objects[m].used, timer_complete_wait_object(m),
         timer_objects[m].period_ms = 0 => timer_objects[m].deadline_ms <= now,
         wait' \in [THREADS -> Waits \cup {Idle}],
         \A t \in THREADS : wait'[t] \in {wait[t], Idle},
         UNCHANGED <<next_timer_id, now, created>>
  PROVE  TimerInv' /\ ServedOnce
<1> DEFINE r == timer_objects[m]
<1>1. TypeOK /\ r \in Timers /\ now \in Nat /\ created \in Nat /\ served \subseteq 1..created
  BY SlotTypes, TimeAssumption, CreatedAssumption DEF TimerInv, TypeOK
<1>2. r.serial \in 1..created
  BY <1>1, TimerTypes DEF TimerInv, IdsAreSerials
<1>3. RhythmOf(r)
  BY DEF TimerInv, KeepsRhythm, RhythmOf
<1>4. /\ timer_objects' = [timer_objects EXCEPT ![m] = Completed(r)]
      /\ served' = served \cup {r.serial}
  BY DEF timer_complete_wait_object
<1>5. \/ Completed(r) = Free /\ r.period_ms = 0
      \/ /\ Completed(r) \in Timers /\ RhythmOf(Completed(r)) /\ Completed(r).period_ms > 0
         /\ Completed(r).serial = r.serial /\ Completed(r).id = r.id
         /\ r.period_ms > 0
  <2> HIDE DEF r
  <2> QED  BY <1>1, <1>3, CompletedRhythm
<1>6. served' \subseteq 1..created
  BY <1>1, <1>2, <1>4, Zenon
<1>7. TimerInv'
  BY <1>4, <1>5, <1>6, ReplaceStep, Zenon
<1>8. ServedOnce
  <2> SUFFICES ASSUME NEW s \in Slots, timer_objects[s].used, timer_objects[s].period_ms = 0,
                      timer_objects[s].serial \in served' \ served
               PROVE  timer_objects[s].deadline_ms <= now /\ timer_objects'[s] = Free
    BY DEF ServedOnce
  <2>1. timer_objects[s].serial = r.serial
    BY <1>4
  <2>2. s = m
    BY <2>1 DEF TimerInv, IdsAreSerials
  <2>3. timer_objects'[m] = Completed(r)
    BY <1>1, <1>4 DEF TypeOK
  <2> QED  BY <1>5, <2>2, <2>3
<1> QED  BY <1>7, <1>8

(* sys_timer_create: the identifier is new, as no identifier was handed    *)
(* out twice yet.                                                          *)
LEMMA CreateStep ==
  ASSUME MAX_CREATED <= MAX_TIMER_ID, TimerInv, NEW t \in THREADS, sys_timer_create(t)
  PROVE  TimerInv' /\ ServedOnce
<1>1. PICK delay \in DELAYS, period \in PERIODS :
        /\ created < MAX_CREATED /\ FreeSlots # {}
        /\ timer_objects' = [timer_objects EXCEPT ![Min(FreeSlots)] =
              [used |-> TRUE, owner |-> GroupOf[t], id |-> next_timer_id,
               deadline_ms |-> FirstDeadline(delay, period), period_ms |-> period,
               serial |-> created + 1, first |-> FirstDeadline(delay, period)]]
        /\ created' = created + 1 /\ next_timer_id' = NextId(next_timer_id)
        /\ UNCHANGED <<now, wait, served>>
  BY Zenon DEF sys_timer_create
<1> DEFINE m == Min(FreeSlots)
           d == FirstDeadline(delay, period)
           r == [used |-> TRUE, owner |-> GroupOf[t], id |-> next_timer_id,
                 deadline_ms |-> d, period_ms |-> period, serial |-> created + 1, first |-> d]
<1>2. /\ TypeOK /\ timer_objects \in [Slots -> Timers \cup {Free}] /\ created \in Nat /\ now \in Nat
      /\ MAX_CREATED \in Nat /\ MAX_TIMER_ID \in Nat /\ served \subseteq 1..created
      /\ wait \in [THREADS -> Waits \cup {Idle}] /\ next_timer_id \in Ids
  BY TimeAssumption, SlotAssumption, CreatedAssumption DEF TimerInv, TypeOK
<1>3. m \in Slots
  <2>1. FreeSlots \in SUBSET Nat
    BY SlotAssumption DEF FreeSlots, Slots
  <2> QED  BY <1>1, <2>1, MinProperties DEF FreeSlots
<1>4. d \in Nat /\ period \in Nat
  BY <1>2, TimeAssumption DEF FirstDeadline
<1>5. next_timer_id = created + 1 /\ created + 1 \in 1..MAX_CREATED /\ created + 1 \in Ids
  BY <1>1, <1>2 DEF TimerInv, IdsAreSerials, Ids
<1> HIDE DEF m, d
<1>6. /\ r \in Timers /\ r.used = TRUE /\ r.id = created + 1 /\ r.serial = created + 1
      /\ r.deadline_ms = d /\ r.first = d /\ r.period_ms = period
  BY <1>4, <1>5, GroupAssumption DEF Timers, GroupOf
<1>7. /\ timer_objects' \in [Slots -> Timers \cup {Free}]
      /\ \A s \in Slots : timer_objects'[s] = IF s = m THEN r ELSE timer_objects[s]
  BY <1>1, <1>2, <1>6, Zenon DEF m, d
<1>8. /\ created' = created + 1 /\ created' \in 0..MAX_CREATED /\ wait' = wait
      /\ now' = now /\ served' = served
  BY <1>1, <1>2
<1> HIDE DEF r
<1>9. next_timer_id' = (IF created' = MAX_TIMER_ID THEN 1 ELSE created' + 1) /\ next_timer_id' \in Ids
  BY <1>1, <1>2, <1>5, <1>8, SlotAssumption DEF NextId, Ids
<1>10. TypeOK'
  BY <1>2, <1>7, <1>8, <1>9 DEF TypeOK
<1>11. \A s \in Slots : timer_objects[s].used => timer_objects[s].serial <= created
                                                 /\ timer_objects[s].serial \in Nat
  BY <1>2, SlotTypes, TimerTypes DEF TimerInv, IdsAreSerials
<1>12. \A u \in THREADS : wait[u] # Idle => wait[u].serial <= created /\ wait[u].serial \in Nat
  BY <1>2, WaitTypes DEF TimerInv, SleepersRead
<1>13. IdsAreSerials'
  <2>1. \A s \in Slots : timer_objects'[s].used =>
          /\ timer_objects'[s].id = timer_objects'[s].serial
          /\ timer_objects'[s].serial <= created'
    BY <1>2, <1>6, <1>7, <1>8, <1>11 DEF TimerInv, IdsAreSerials
  <2>2. \A s, u \in Slots :
          timer_objects'[s].used /\ timer_objects'[u].used
            /\ timer_objects'[s].serial = timer_objects'[u].serial => s = u
    BY <1>2, <1>6, <1>7, <1>11 DEF TimerInv, IdsAreSerials
  <2> QED  BY <1>9, <2>1, <2>2 DEF IdsAreSerials
<1>14. SleepersRead'
  BY <1>2, <1>6, <1>7, <1>8, <1>12 DEF TimerInv, SleepersRead
<1>15. KeepsRhythm'
  <2>1. ASSUME period > 0 PROVE (d - d) % period = 0
    BY <1>4, <2>1
  <2>2. RhythmOf(r)
    BY <1>4, <1>6, <2>1 DEF RhythmOf
  <2>3. \A s \in Slots : RhythmOf(timer_objects'[s])
    BY <1>7, <2>2 DEF TimerInv, KeepsRhythm, RhythmOf
  <2> QED  BY <1>8, <2>3 DEF KeepsRhythm, RhythmOf
<1> QED  BY <1>8, <1>10, <1>13, <1>14, <1>15 DEF TimerInv, ServedOnce

(* sys_timer_wait goes to sleep with the identifier and the deadline.      *)
LEMMA SleepStep ==
  ASSUME TimerInv, NEW t \in THREADS, WaitSleep(t)
  PROVE  TimerInv' /\ ServedOnce
<1>1. PICK id \in Ids : LET m == Min(Matching(GroupOf[t], id)) IN
        /\ Matching(GroupOf[t], id) # {}
        /\ wait' = [wait EXCEPT ![t] = [pc |-> "asleep", id |-> id,
                       wake_ms |-> timer_objects[m].deadline_ms, serial |-> timer_objects[m].serial]]
        /\ UNCHANGED <<timer_objects, next_timer_id, now, created, served>>
  BY Zenon DEF WaitSleep
<1> DEFINE m == Min(Matching(GroupOf[t], id))
           w == [pc |-> "asleep", id |-> id,
                 wake_ms |-> timer_objects[m].deadline_ms, serial |-> timer_objects[m].serial]
<1>2. TypeOK /\ wait \in [THREADS -> Waits \cup {Idle}]
  BY DEF TimerInv, TypeOK
<1>3. m \in Slots /\ timer_objects[m].used /\ timer_objects[m].id = id
  BY <1>1, <1>2, Found
<1> HIDE DEF m
<1>4. timer_objects[m] \in Timers
  BY <1>2, <1>3, SlotTypes
<1>5. /\ timer_objects[m].deadline_ms \in Nat /\ timer_objects[m].serial \in 1..MAX_CREATED
  BY <1>4, TimerTypes
<1>6. /\ w \in Waits /\ w.id = id /\ w.serial = timer_objects[m].serial
      /\ w.wake_ms = timer_objects[m].deadline_ms
  BY <1>5 DEF Waits
<1>7. wait' = [wait EXCEPT ![t] = w]
  BY <1>1 DEF m
<1> HIDE DEF w
<1>8. /\ wait' \in [THREADS -> Waits \cup {Idle}]
      /\ \A u \in THREADS : wait'[u] = IF u = t THEN w ELSE wait[u]
  BY <1>2, <1>6, <1>7
<1>9. TypeOK'
  BY <1>1, <1>8 DEF TimerInv, TypeOK
<1>10. IdsAreSerials' /\ KeepsRhythm'
  BY <1>1 DEF TimerInv, IdsAreSerials, KeepsRhythm
<1>11. SleepersRead'
  <2>1. w.id = w.serial /\ w.serial <= created
    BY <1>3, <1>6 DEF TimerInv, IdsAreSerials
  <2>2. \A s \in Slots :
         timer_objects[s].used /\ timer_objects[s].serial = w.serial
           => timer_objects[s].deadline_ms = w.wake_ms
    BY <1>3, <1>6 DEF TimerInv, IdsAreSerials
  <2> QED  BY <1>1, <1>8, <2>1, <2>2 DEF TimerInv, SleepersRead
<1> QED  BY <1>1, <1>9, <1>10, <1>11 DEF TimerInv, ServedOnce

(* A step that leaves the timers alone serves nobody.                      *)
LEMMA QuietStep ==
  ASSUME TimerInv, UNCHANGED <<timer_objects, next_timer_id, created, served>>,
         now' \in 0..MAX_NOW, now' >= now,
         wait' \in [THREADS -> Waits \cup {Idle}],
         \A t \in THREADS : wait'[t] \in {wait[t], Idle}
  PROVE  TimerInv' /\ ServedOnce
<1>1. TypeOK' /\ IdsAreSerials' /\ SleepersRead' /\ ServedOnce
  BY DEF TimerInv, TypeOK, IdsAreSerials, SleepersRead, ServedOnce
<1>2. KeepsRhythm'
  <2> SUFFICES ASSUME NEW s \in Slots, timer_objects[s].used, timer_objects[s].period_ms > 0,
                      timer_objects[s].deadline_ms > timer_objects[s].first
               PROVE  timer_objects[s].deadline_ms <= now' + timer_objects[s].period_ms
    BY DEF TimerInv, KeepsRhythm
  <2>1. timer_objects[s].deadline_ms <= now + timer_objects[s].period_ms
    BY DEF TimerInv, KeepsRhythm
  <2>2. timer_objects[s] \in Timers
    BY SlotTypes DEF TimerInv
  <2>3. timer_objects[s].deadline_ms \in Nat /\ timer_objects[s].period_ms \in Nat
    BY <2>2, TimerTypes
  <2>4. now \in Nat /\ now' \in Nat
    BY TimeAssumption DEF TimerInv, TypeOK
  <2> QED  BY <2>1, <2>3, <2>4
<1> QED  BY <1>1, <1>2 DEF TimerInv

(* Every step keeps the invariant, and a wait succeeds only on a timer     *)
(* that is due.                                                            *)
LEMMA NextStep ==
  ASSUME MAX_CREATED <= MAX_TIMER_ID, TimerInv, [Next]_vars
  PROVE  TimerInv' /\ ServedOnce
<1>1. /\ TypeOK /\ wait \in [THREADS -> Waits \cup {Idle}] /\ now \in Nat /\ now \in 0..MAX_NOW
      /\ MAX_NOW \in Nat /\ served \subseteq 1..created
  BY TimeAssumption DEF TimerInv, TypeOK
<1>2. CASE UNCHANGED vars
  BY <1>1, <1>2, QuietStep DEF vars
<1>3. ASSUME NEW t \in THREADS, sys_timer_create(t)  PROVE TimerInv' /\ ServedOnce
  BY <1>3, CreateStep
<1>4. ASSUME NEW t \in THREADS, WaitDue(t)  PROVE TimerInv' /\ ServedOnce
  <2>1. PICK id \in Ids : LET m == Min(Matching(GroupOf[t], id)) IN
          /\ Matching(GroupOf[t], id) # {}
          /\ timer_objects[m].deadline_ms <= now
          /\ timer_complete_wait_object(m)
          /\ UNCHANGED <<next_timer_id, now, wait, created>>
    BY <1>4 DEF WaitDue
  <2>2. Min(Matching(GroupOf[t], id)) \in Slots /\ timer_objects[Min(Matching(GroupOf[t], id))].used
    BY <1>1, <2>1, Found
  <2> QED  BY <1>1, <2>1, <2>2, ServeStep
<1>5. ASSUME NEW t \in THREADS, WaitSleep(t)  PROVE TimerInv' /\ ServedOnce
  BY <1>5, SleepStep
<1>6. ASSUME NEW t \in THREADS, WaitWake(t)  PROVE TimerInv' /\ ServedOnce
  <2> DEFINE found == Matching(GroupOf[t], wait[t].id)
             m == Min(found)
  <2>1. /\ wait[t] # Idle /\ now >= wait[t].wake_ms
        /\ wait' = [wait EXCEPT ![t] = Idle]
        /\ UNCHANGED <<next_timer_id, now, created>>
        /\ IF found # {} THEN timer_complete_wait_object(m) ELSE UNCHANGED <<timer_objects, served>>
    BY <1>6 DEF WaitWake, Due
  <2>2. /\ wait' \in [THREADS -> Waits \cup {Idle}]
        /\ \A u \in THREADS : wait'[u] \in {wait[u], Idle}
    BY <1>1, <2>1
  <2>3. CASE found # {}
    <3>1. m \in Slots /\ timer_objects[m].used /\ timer_objects[m].id = wait[t].id
      BY <1>1, <2>3, Found
    <3> HIDE DEF m
    <3>2. timer_objects[m].serial = wait[t].serial
      BY <2>1, <3>1 DEF TimerInv, IdsAreSerials, SleepersRead
    <3>3. timer_objects[m].period_ms = 0 => timer_objects[m].deadline_ms = wait[t].wake_ms
      BY <2>1, <3>1, <3>2 DEF TimerInv, SleepersRead
    <3>4. wait[t].wake_ms \in Nat
      BY <1>1, <2>1, WaitTypes
    <3>5. timer_objects[m].period_ms = 0 => timer_objects[m].deadline_ms <= now
      BY <1>1, <2>1, <3>3, <3>4
    <3>6. timer_complete_wait_object(m)
      BY <2>1, <2>3
    <3> QED  BY <2>1, <2>2, <3>1, <3>5, <3>6, ServeStep
  <2>4. CASE found = {}
    BY <1>1, <2>1, <2>2, <2>4, QuietStep
  <2> QED  BY <2>3, <2>4
<1>7. ASSUME NEW t \in THREADS, sys_timer_cancel(t)  PROVE TimerInv' /\ ServedOnce
  <2>1. PICK id \in Ids :
          /\ Matching(GroupOf[t], id) # {}
          /\ timer_objects' = [timer_objects EXCEPT ![Min(Matching(GroupOf[t], id))] = Free]
          /\ UNCHANGED <<next_timer_id, now, wait, created, served>>
    BY <1>7, Zenon DEF sys_timer_cancel
  <2>2. Min(Matching(GroupOf[t], id)) \in Slots /\ timer_objects[Min(Matching(GroupOf[t], id))].used
    BY <1>1, <2>1, Found
  <2>3. TimerInv'
    BY <1>1, <2>1, <2>2, ReplaceStep, Zenon
  <2> QED  BY <2>1, <2>3 DEF ServedOnce
<1>8. CASE timer_handler
  <2>1. now' \in 0..MAX_NOW /\ now' >= now
    BY <1>1, <1>8 DEF timer_handler
  <2> QED  BY <1>1, <1>8, <2>1, QuietStep DEF timer_handler
<1> QED  BY <1>2, <1>3, <1>4, <1>5, <1>6, <1>7, <1>8 DEF Next

(* No timer and no sleeper at the start.                                   *)
LEMMA InitInv == Init => TimerInv
<1> SUFFICES ASSUME Init PROVE TimerInv
  OBVIOUS
<1>1. \A s \in Slots : timer_objects[s] = Free /\ ~ timer_objects[s].used
  BY DEF Init, Free
<1>2. \A t \in THREADS : wait[t] = Idle
  BY DEF Init
<1>3. TypeOK
  BY SlotAssumption, TimeAssumption, CreatedAssumption DEF Init, TypeOK, Ids
<1>4. IdsAreSerials
  BY <1>1, SlotAssumption DEF Init, IdsAreSerials
<1> QED  BY <1>1, <1>2, <1>3, <1>4 DEF TimerInv, SleepersRead, KeepsRhythm

(* As long as the identifiers have not come round, a thread that comes     *)
(* back from sys_timer_wait's sleep finds the timer it waited for, or      *)
(* none, whatever the other threads created and cancelled meanwhile.       *)
THEOREM OwnTimer ==
  ASSUME MAX_CREATED <= MAX_TIMER_ID
  PROVE  Spec => []WaitsForItsOwn
<1>1. Init => TimerInv
  BY InitInv
<1>2. TimerInv /\ [Next]_vars => TimerInv'
  BY NextStep
<1>3. TimerInv => WaitsForItsOwn
  <2> SUFFICES ASSUME TimerInv, NEW t \in THREADS, wait[t] # Idle,
                      NEW s \in Matching(GroupOf[t], wait[t].id)
               PROVE  timer_objects[s].serial = wait[t].serial
    BY DEF WaitsForItsOwn, TimerInv
  <2>1. s \in Slots /\ timer_objects[s].used /\ timer_objects[s].id = wait[t].id
    BY DEF Matching
  <2> QED  BY <2>1 DEF TimerInv, IdsAreSerials, SleepersRead
<1> QED  BY <1>1, <1>2, <1>3, PTL DEF Spec

(* And a wait for a one-shot timer succeeds once and only when it is due,  *)
(* while periodic timers move by whole periods.                            *)
THEOREM OnTime ==
  ASSUME MAX_CREATED <= MAX_TIMER_ID
  PROVE  Spec => TimersOnTime
<1>1. Init => TimerInv
  BY InitInv
<1>2. TimerInv /\ [Next]_vars => TimerInv'
  BY NextStep
<1>3. TimerInv /\ [Next]_vars => [KeepsRhythm' /\ ServedOnce]_vars
  BY NextStep DEF TimerInv
<1> QED  BY <1>1, <1>2, <1>3, PTL DEF Spec, TimersOnTime
=============================================================================
