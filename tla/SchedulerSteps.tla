---------------------------- MODULE SchedulerSteps ----------------------------
(***************************************************************************)
(* What schedule() and the counters do, and that each kind of step keeps   *)
(* the inductive invariant.                                                *)
(***************************************************************************)
EXTENDS Scheduler, RunQueueProofs, FiniteSetTheorems

(* The live slots of a table in states sts.                                *)
LiveIn(sts) == {s \in Slots : sts[s] \in Live}

(* The slots are small naturals; slot 0 is one of them and None is not.    *)
LEMMA SlotFacts ==
  /\ Slots \in SUBSET Nat
  /\ Idle \in Slots
  /\ None \in Nat
  /\ None \notin Slots
  /\ IsFiniteSet(Slots)
<1>1. IsFiniteSet(Slots)
  BY MaxProcessesAssumption, FS_Interval DEF Slots
<1> QED  BY <1>1, MaxProcessesAssumption DEF Slots, Idle, None

(* QueueHoldsLive and the type of the queue, as the lemmas of              *)
(* RunQueueProofs see them.                                                *)
LEMMA QueueIn ==
  ASSUME TypeOK, QueueHoldsLive
  PROVE  Queues(runQueue, LiveIn(state), Idle)
<1>1. /\ Len(runQueue) \in Nat
      /\ runQueue \in [1..Len(runQueue) -> Slots]
      /\ DOMAIN runQueue = 1..Len(runQueue)
  BY LenProperties DEF TypeOK
<1>2. Range(runQueue) = LiveIn(state)
  BY DEF QueueHoldsLive, LiveSlots, LiveIn
<1>3. runQueue \in [1..Len(runQueue) -> LiveIn(state)]
  BY <1>1, <1>2 DEF Range
<1>4. runQueue \in Seq(LiveIn(state))
  BY <1>1, <1>3, SeqDef
<1> QED  BY <1>2, <1>4 DEF QueueHoldsLive, Queues

(* And back: a queue of the live slots is what IInv asks of the run queue. *)
LEMMA QueueOut ==
  ASSUME Queues(runQueue', LiveIn(state'), Idle)
  PROVE  QueueHoldsLive' /\ (runQueue \in Seq(Slots))'
<1>1. runQueue' \in Seq(Slots)
  BY SeqMonotonic DEF Queues, LiveIn
<1> QED  BY <1>1 DEF Queues, QueueHoldsLive, LiveSlots, LiveIn

-----------------------------------------------------------------------------
(* schedule(), called on a table with at most the current process RUNNING, *)
(* leaves exactly one process RUNNING: the one that now is current.  The   *)
(* live processes stay the same, and no process changes its state except   *)
(* to wake, to be dispatched or to give up the processor.                  *)
LEMMA ScheduleLemma ==
  ASSUME TypeOK,
         NEW q, NEW sts \in [Slots -> States],
         Queues(q, LiveIn(sts), Idle),
         \A s \in Slots : sts[s] = "RUNNING" => s = current,
         sts[Idle] = IF current = Idle THEN "RUNNING" ELSE "READY",
         Schedule(q, sts)
  PROVE  /\ runQueue' = q
         /\ current' \in Slots
         /\ state' \in [Slots -> States]
         /\ wakeIn' \in [Slots -> Nat \cup {NoWake}]
         /\ ticksLeft' \in [Slots -> 0..SCHED_TICKS_PER_SLICE]
         /\ LiveIn(state') = LiveIn(sts)
         /\ state'[current'] = "RUNNING"
         /\ \A s \in Slots : state'[s] = "RUNNING" => s = current'
         /\ current' # Idle => state'[Idle] = "READY"
         /\ \A s \in Slots : state'[s] # sts[s] =>
              \/ sts[s] = "READY" /\ state'[s] = "RUNNING"
              \/ sts[s] = "RUNNING" /\ state'[s] = "READY" /\ s = current
              \/ sts[s] = "BLOCKED" /\ state'[s] \in {"READY", "RUNNING"}
<1> DEFINE due   == DueSleepers(q, sts, wakeIn)
           woken == [s \in Slots |-> IF s \in due THEN "READY" ELSE sts[s]]
           next  == PickNext(q, current, woken, Idle)
<1>1. /\ runQueue' = q
      /\ wakeIn' = [s \in Slots |-> IF s \in due THEN NoWake ELSE wakeIn[s]]
      /\ current' = next
      /\ state' = IF next = current THEN woken ELSE Switched(woken, next)
      /\ ticksLeft' = IF next = current THEN ticksLeft
                      ELSE [ticksLeft EXCEPT ![next] = SCHED_TICKS_PER_SLICE]
  BY Zenon DEF Schedule
<1>2. \A s \in Slots : s \in due => sts[s] = "BLOCKED"
  BY DEF DueSleepers
<1> HIDE DEF due
<1>3. /\ woken \in [Slots -> States]
      /\ LiveIn(woken) = LiveIn(sts)
      /\ \A s \in Slots : woken[s] # sts[s] => sts[s] = "BLOCKED" /\ woken[s] = "READY"
  BY <1>2 DEF States, Live, LiveIn
<1> HIDE DEF woken
<1>4. /\ woken[Idle] = sts[Idle]
      /\ \A s \in Slots : woken[s] = "RUNNING" => s = current
  BY <1>3, SlotFacts
<1>5. /\ next \in LiveIn(woken)
      /\ \/ woken[next] = "READY"
         \/ next = Idle /\ \A s \in LiveIn(woken) : woken[s] # "READY"
      /\ current # Idle /\ woken[Idle] = "READY" => next # current
  BY <1>3, PickNextProperties
<1> HIDE DEF next
<1>6. next \in Slots /\ Idle \in LiveIn(woken)
  BY <1>4, <1>5, SlotFacts DEF LiveIn, Live
<1>7. CASE next = current
  <2>1. current = Idle /\ state' = woken /\ ticksLeft' = ticksLeft
    BY <1>1, <1>4, <1>5, <1>7
  <2>2. woken[Idle] = "RUNNING"
    BY <2>1, <1>4
  <2> QED
    BY <2>1, <2>2, <1>1, <1>3, <1>4, <1>6, <1>7 DEF TypeOK
<1>8. CASE next # current
  <2>1. /\ state' = Switched(woken, next)
        /\ ticksLeft' = [ticksLeft EXCEPT ![next] = SCHED_TICKS_PER_SLICE]
    BY <1>1, <1>8
  <2>2. /\ state' \in [Slots -> States]
        /\ \A s \in Slots : state'[s] =
             IF s = next THEN "RUNNING"
             ELSE IF s = current /\ woken[s] = "RUNNING" THEN "READY" ELSE woken[s]
    BY <2>1, <1>3 DEF Switched, States
  <2>3. woken[next] = "READY"
    <3>1. CASE current = Idle
      BY <3>1, <1>5, <1>8
    <3>2. CASE current # Idle
      BY <3>2, <1>4, <1>5, <1>6
    <3> QED  BY <3>1, <3>2
  <2>4. LiveIn(state') = LiveIn(sts)
    BY <2>2, <2>3, <1>3 DEF LiveIn, Live
  <2>5. next # Idle => state'[Idle] = "READY"
    BY <2>2, <1>4, SlotFacts
  <2>6. \A s \in Slots : state'[s] = "RUNNING" => s = next
    BY <2>2, <1>4
  <2>7. \A s \in Slots : state'[s] # sts[s] =>
              \/ sts[s] = "READY" /\ state'[s] = "RUNNING"
              \/ sts[s] = "RUNNING" /\ state'[s] = "READY" /\ s = current
              \/ sts[s] = "BLOCKED" /\ state'[s] \in {"READY", "RUNNING"}
    BY <2>2, <2>3, <1>3
  <2>8. ticksLeft' \in [Slots -> 0..SCHED_TICKS_PER_SLICE]
    <3>1. SCHED_TICKS_PER_SLICE \in 0..SCHED_TICKS_PER_SLICE
      BY SliceAssumption
    <3>2. ticksLeft \in [Slots -> 0..SCHED_TICKS_PER_SLICE]
      BY DEF TypeOK
    <3> QED  BY <2>1, <3>1, <3>2, Zenon
  <2>9. wakeIn' \in [Slots -> Nat \cup {NoWake}]
    BY <1>1 DEF TypeOK
  <2>10. state'[next] = "RUNNING"
    BY <2>2, <1>6
  <2> QED  BY <1>1, <1>6, <2>2, <2>4, <2>5, <2>6, <2>7, <2>8, <2>9, <2>10
<1> QED  BY <1>7, <1>8

-----------------------------------------------------------------------------
(* Counting: the reference counts and stats.active_processes.              *)

(* One more process in a space it did not hold: Retained counts it.        *)
LEMMA RetainCounts ==
  ASSUME TypeOK, RefCountExact,
         NEW s \in Slots, vm[s] = None, NEW space \in Slots \cup {None},
         vm' = [vm EXCEPT ![s] = space], refCount' = Retained(space)
  PROVE  RefCountExact' /\ refCount' \in [Slots -> Nat]
<1>1. /\ vm \in [Slots -> Slots \cup {None}] /\ refCount \in [Slots -> Nat]
      /\ \A v \in Slots : refCount[v] = Cardinality(Holders(v))
  BY SMTT(60) DEF TypeOK, RefCountExact
<1>2. \A v \in Slots : refCount'[v] = IF v = space THEN refCount[v] + 1 ELSE refCount[v]
  BY DEF Retained
<1>3. ASSUME NEW v \in Slots  PROVE refCount'[v] = Cardinality(Holders(v)')
  <2>1. IsFiniteSet(Holders(v))
    BY SlotFacts, FS_Subset DEF Holders
  <2>2. s \notin Holders(v)
    BY SlotFacts DEF Holders
  <2>3. CASE v = space
    <3>1. Holders(v)' = Holders(v) \cup {s}
      BY <1>1, <2>3 DEF Holders
    <3>2. Cardinality(Holders(v) \cup {s}) = Cardinality(Holders(v)) + 1
      BY <2>1, <2>2, FS_AddElement, Zenon
    <3> QED  BY <1>1, <1>2, <2>3, <3>1, <3>2
  <2>4. CASE v # space
    <3>1. Holders(v)' = Holders(v)
      BY <1>1, <2>2, <2>4 DEF Holders
    <3> QED  BY <1>1, <1>2, <2>4, <3>1
  <2> QED  BY <2>3, <2>4
<1>4. refCount' \in [Slots -> Nat]
  BY <1>1 DEF Retained
<1> QED  BY <1>3, <1>4 DEF RefCountExact

(* A process that gives its space up: Released counts it out, and a count  *)
(* never drops below zero.                                                 *)
LEMMA ReleaseCounts ==
  ASSUME TypeOK, RefCountExact, NEW s \in Slots, release_vm_space(s)
  PROVE  RefCountExact' /\ refCount' \in [Slots -> Nat]
<1>1. /\ vm \in [Slots -> Slots \cup {None}] /\ refCount \in [Slots -> Nat]
      /\ \A v \in Slots : refCount[v] = Cardinality(Holders(v))
  BY DEF TypeOK, RefCountExact
<1>2. /\ vm' = [vm EXCEPT ![s] = None]
      /\ refCount' = [v \in Slots |-> IF v = vm[s] THEN refCount[v] - 1 ELSE refCount[v]]
  BY DEF release_vm_space, Released
<1>3. ASSUME NEW v \in Slots
      PROVE  refCount'[v] = Cardinality(Holders(v)') /\ refCount'[v] \in Nat
  <2>1. IsFiniteSet(Holders(v))
    BY SlotFacts, FS_Subset DEF Holders
  <2>2. CASE v = vm[s]
    <3>1. Holders(v)' = Holders(v) \ {s} /\ s \in Holders(v)
      BY <1>1, <1>2, <2>2, SlotFacts DEF Holders
    <3>2. /\ IsFiniteSet(Holders(v) \ {s})
          /\ Cardinality(Holders(v) \ {s}) = Cardinality(Holders(v)) - 1
      BY <2>1, <3>1, FS_RemoveElement
    <3>3. Cardinality(Holders(v) \ {s}) \in Nat
      BY <3>2, FS_CardinalityType
    <3> QED  BY <1>1, <1>2, <2>2, <3>1, <3>2, <3>3
  <2>3. CASE v # vm[s]
    <3>1. Holders(v)' = Holders(v)
      BY <1>1, <1>2, <2>3, SlotFacts DEF Holders
    <3> QED  BY <1>1, <1>2, <2>3, <3>1
  <2> QED  BY <2>2, <2>3
<1>4. refCount' \in [Slots -> Nat]
  BY <1>2, <1>3
<1> QED  BY <1>3, <1>4 DEF RefCountExact

(* A process that becomes live, and one that stops being live.             *)
LEMMA CountIn ==
  ASSUME ActiveExact, NEW sts, NEW s \in Slots, s # Idle, s \notin LiveIn(state),
         LiveIn(sts) = LiveIn(state) \cup {s}
  PROVE  active + 1 = Cardinality(LiveIn(sts) \ {Idle})
<1> DEFINE L == LiveIn(state) \ {Idle}
<1>1. IsFiniteSet(L) /\ active = Cardinality(L)
  BY SlotFacts, FS_Subset DEF LiveIn, LiveSlots, ActiveExact
<1>2. LiveIn(sts) \ {Idle} = L \cup {s} /\ s \notin L
  OBVIOUS
<1> HIDE DEF L
<1> QED  BY <1>1, <1>2, FS_AddElement

(* The count after one live process has gone.                              *)
LEMMA CountOut ==
  ASSUME ActiveExact, NEW sts, NEW s \in LiveIn(state), s # Idle,
         LiveIn(sts) = LiveIn(state) \ {s}
  PROVE  /\ active > 0 /\ active - 1 \in Nat
         /\ active - 1 = Cardinality(LiveIn(sts) \ {Idle})
<1> DEFINE L == LiveIn(state) \ {Idle}
<1>1. IsFiniteSet(L) /\ active = Cardinality(L)
  BY SlotFacts, FS_Subset DEF LiveIn, LiveSlots, ActiveExact
<1>2. LiveIn(sts) \ {Idle} = L \ {s} /\ s \in L
  OBVIOUS
<1> HIDE DEF L
<1>3. IsFiniteSet(L \ {s}) /\ Cardinality(L \ {s}) = Cardinality(L) - 1
  BY <1>1, <1>2, FS_RemoveElement
<1>4. Cardinality(L \ {s}) \in Nat /\ Cardinality(L) \in Nat
  BY <1>1, <1>3, FS_CardinalityType
<1> QED  BY <1>1, <1>2, <1>3, <1>4

-----------------------------------------------------------------------------
(* The steps, one lemma for each kind.                                     *)

(* The running process is RUNNING except in the two windows, and the idle  *)
(* process, which never enters them, is RUNNING or READY.                  *)
LEMMA Facts ==
  ASSUME IInv
  PROVE  /\ current \in Slots
         /\ at[current] \notin {"sleep", "exit"} => state[current] = "RUNNING"
         /\ state[Idle] = IF current = Idle THEN "RUNNING" ELSE "READY"
         /\ \A s \in Slots : state[s] = "RUNNING" => s = current
         /\ state \in [Slots -> States]
         /\ Queues(runQueue, LiveIn(state), Idle)
<1>1. TypeOK /\ QueueHoldsLive /\ CurrentIsRunning /\ at[Idle] \in KernelPlaces
  BY DEF IInv, PlacesOK
<1>2. at[Idle] \notin {"sleep", "exit"}
  BY <1>1 DEF KernelPlaces
<1> QED  BY <1>1, <1>2, QueueIn, SMTT(60) DEF TypeOK, CurrentIsRunning

(* The invariant after a step whose effect on the scheduler's state is     *)
(* known to be sound, from what the step does to the rest.                 *)
LEMMA Assemble ==
  ASSUME TypeOK', Queues(runQueue', LiveIn(state'), Idle), CurrentIsRunning',
         PlacesOK', PidsDistinct', SpacesOK', RefCountExact',
         active' = Cardinality(LiveIn(state') \ {Idle})
  PROVE  IInv'
BY QueueOut DEF IInv, ActiveExact, LiveSlots, LiveIn

(* A call of schedule() that changes nothing else but where, in its own    *)
(* code, the caller is.                                                    *)
LEMMA ScheduleStep ==
  ASSUME IInv, Schedule(runQueue, state), UNCHANGED <<procVars, waitFor>>,
         at[current] # "config",
         at' \in [Slots -> Places], at'[Idle] \in KernelPlaces,
         \A s \in Slots : /\ at'[s] \in WaitPlaces => at[s] \in WaitPlaces
                          /\ at'[s] = "config" => at[s] = "config"
                          /\ at[s] = "kthread" => at'[s] = "kthread"
  PROVE  IInv' /\ LifeStep
<1>1. TypeOK /\ PlacesOK /\ PidsDistinct /\ SpacesOK /\ RefCountExact /\ ActiveExact
  BY DEF IInv
<1>2. /\ runQueue' = runQueue
      /\ current' \in Slots
      /\ state' \in [Slots -> States]
      /\ wakeIn' \in [Slots -> Nat \cup {NoWake}]
      /\ ticksLeft' \in [Slots -> 0..SCHED_TICKS_PER_SLICE]
      /\ LiveIn(state') = LiveIn(state)
      /\ state'[current'] = "RUNNING"
      /\ \A s \in Slots : state'[s] = "RUNNING" => s = current'
      /\ current' # Idle => state'[Idle] = "READY"
      /\ \A s \in Slots : state'[s] # state[s] =>
           \/ state[s] = "READY" /\ state'[s] = "RUNNING"
           \/ state[s] = "RUNNING" /\ state'[s] = "READY" /\ s = current
           \/ state[s] = "BLOCKED" /\ state'[s] \in {"READY", "RUNNING"}
  BY <1>1, Facts, ScheduleLemma
<1>3. UNCHANGED <<pid, group, vm, refCount, active, spawner, waitFor>>
  BY DEF procVars
<1>4. TypeOK'
  BY <1>1, <1>2, <1>3, QueueOut, Facts, Zenon DEF TypeOK
<1>5. CurrentIsRunning'
  BY <1>2 DEF CurrentIsRunning
<1>6. PlacesOK'
  <2>1. \A s \in Slots : at[s] # "config"
    BY <1>1 DEF PlacesOK
  <2> QED  BY <1>1, <1>3, <2>1 DEF PlacesOK
<1>7. PidsDistinct'
  <2>1. \A s \in Slots : state'[s] # "UNUSED" => state[s] # "UNUSED"
    BY <1>2
  <2> QED  BY <1>1, <1>3, <2>1 DEF PidsDistinct, InTable
<1>8. SpacesOK'
  <2>1. \A s \in Slots : state'[s] \in Live <=> state[s] \in Live
    BY <1>2 DEF LiveIn
  <2> QED  BY <1>1, <1>3, <2>1 DEF SpacesOK
<1>9. RefCountExact'
  BY <1>1, <1>3 DEF RefCountExact, Holders
<1>10. active' = Cardinality(LiveIn(state') \ {Idle})
  BY <1>1, <1>2, <1>3, Zenon DEF ActiveExact, LiveSlots, LiveIn
<1>11. Queues(runQueue', LiveIn(state'), Idle)
  BY <1>2, Facts
<1>12. LifeStep
  BY <1>2 DEF LifeStep
<1> QED  BY <1>4, <1>5, <1>6, <1>7, <1>8, <1>9, <1>10, <1>11, <1>12, Assemble

(* A step that only moves the running process about, to a place where it   *)
(* is still RUNNING.                                                       *)
LEMMA MoveStep ==
  ASSUME IInv, UNCHANGED <<schedVars, procVars>>,
         state[current] = "RUNNING", at[current] # "config",
         at' \in [Slots -> Places], at'[Idle] \in KernelPlaces,
         waitFor' \in [Slots -> Nat],
         \A s \in Slots : /\ at'[s] \in WaitPlaces =>
                                at[s] \in WaitPlaces /\ waitFor'[s] = waitFor[s]
                          /\ at'[s] = "config" => at[s] = "config"
                          /\ at[s] = "kthread" => at'[s] = "kthread"
  PROVE  IInv' /\ LifeStep
<1>1. /\ TypeOK /\ QueueHoldsLive /\ CurrentIsRunning /\ PlacesOK
      /\ PidsDistinct /\ SpacesOK /\ RefCountExact /\ ActiveExact
  BY DEF IInv
<1>2. UNCHANGED <<state, runQueue, current, wakeIn, ticksLeft,
                  pid, group, vm, refCount, active, spawner>>
  BY DEF schedVars, procVars
<1>3. TypeOK'
  BY <1>1, <1>2, Zenon DEF TypeOK
<1>4. QueueHoldsLive' /\ PidsDistinct' /\ ActiveExact'
  BY <1>1, <1>2 DEF QueueHoldsLive, PidsDistinct, ActiveExact, LiveSlots, InTable
<1>5. CurrentIsRunning'
  BY <1>1, <1>2 DEF CurrentIsRunning
<1>6. PlacesOK'
  <2>1. \A s \in Slots : at[s] # "config"
    BY <1>1 DEF PlacesOK
  <2> QED  BY <1>1, <1>2, <2>1 DEF PlacesOK
<1>7. SpacesOK'
  BY <1>1, <1>2 DEF SpacesOK
<1>8. RefCountExact'
  BY <1>1, <1>2 DEF RefCountExact, Holders
<1>9. LifeStep
  BY <1>2 DEF LifeStep
<1> QED  BY <1>3, <1>4, <1>5, <1>6, <1>7, <1>8, <1>9 DEF IInv

(* schedule(), called by a process that has just left the queue, switches  *)
(* to the idle process.                                                    *)
LEMMA DeadYieldsToIdle ==
  ASSUME TypeOK, NEW q, NEW sts \in [Slots -> States], Queues(q, LiveIn(sts), Idle),
         sts[current] = "ZOMBIE", sts[Idle] = "READY", Schedule(q, sts)
  PROVE  current' = Idle
<1> DEFINE due   == DueSleepers(q, sts, wakeIn)
           woken == [s \in Slots |-> IF s \in due THEN "READY" ELSE sts[s]]
<1>1. current' = PickNext(q, current, woken, Idle)
  BY DEF Schedule
<1>2. current \notin LiveIn(sts) /\ woken[Idle] = "READY"
  BY SlotFacts DEF LiveIn, Live, TypeOK
<1> HIDE DEF woken
<1> QED  BY <1>1, <1>2, PickNextAbsent

-----------------------------------------------------------------------------
(* The remaining kinds of step.                                            *)

(* process_mark_zombie on the running process: out of the queue, out of    *)
(* its space, out of the count.                                            *)
LEMMA MarkZombie ==
  ASSUME IInv, NEW p, p = current, at[p] \in {"user", "kthread"},
         process_mark_zombie(p),
         NEW z, z = [state EXCEPT ![p] = "ZOMBIE"]
  PROVE  /\ p \in Slots \ {Idle} /\ state[p] = "RUNNING" /\ p \in LiveIn(state)
         /\ z \in [Slots -> States]
         /\ LiveIn(z) = LiveIn(state) \ {p}
         /\ Queues(Dequeue(runQueue, p), LiveIn(z), Idle)
         /\ vm' \in [Slots -> Slots \cup {None}] /\ vm' = [vm EXCEPT ![p] = None]
         /\ refCount' \in [Slots -> Nat] /\ RefCountExact'
         /\ active' \in Nat /\ active' = Cardinality(LiveIn(z) \ {Idle})
         /\ UNCHANGED <<pid, group, spawner>>
<1>1. TypeOK /\ PlacesOK /\ RefCountExact /\ ActiveExact
  BY DEF IInv
<1>2. p \in Slots \ {Idle} /\ state[p] = "RUNNING"
  BY <1>1, Facts DEF PlacesOK, KernelPlaces
<1>3. z \in [Slots -> States] /\ LiveIn(z) = LiveIn(state) \ {p} /\ p \in LiveIn(state)
  BY <1>2, Facts DEF States, Live, LiveIn
<1>4. Queues(Dequeue(runQueue, p), LiveIn(z), Idle)
  <2>1. Queues(runQueue, LiveIn(state), Idle)
    BY Facts
  <2>2. Queues(Dequeue(runQueue, p), LiveIn(state) \ {p}, Idle)
    BY <1>2, <1>3, <2>1, DequeueQueues
  <2> QED  BY <1>3, <2>2, Zenon
<1>5. release_vm_space(p) /\ UNCHANGED <<pid, group, spawner>>
  BY DEF process_mark_zombie
<1>6. refCount' \in [Slots -> Nat] /\ RefCountExact'
  BY <1>1, <1>2, <1>5, ReleaseCounts
<1>7. vm' = [vm EXCEPT ![p] = None] /\ vm' \in [Slots -> Slots \cup {None}]
  BY <1>1, <1>5 DEF release_vm_space, TypeOK
<1>8. active' \in Nat /\ active' = Cardinality(LiveIn(z) \ {Idle})
  <2>1. /\ active > 0 /\ active - 1 \in Nat
        /\ active - 1 = Cardinality(LiveIn(z) \ {Idle})
    BY <1>1, <1>2, <1>3, CountOut, Zenon
  <2> QED  BY <2>1 DEF process_mark_zombie
<1> QED  BY <1>2, <1>3, <1>4, <1>5, <1>6, <1>7, <1>8, Zenon

(* The invariants that look at dead processes, after process_mark_zombie.  *)
LEMMA ZombieTable ==
  ASSUME IInv, NEW p \in Slots \ {Idle}, p = current, at[p] \in {"user", "kthread"},
         \A s \in Slots : state'[s] \in Live <=> s # p /\ state[s] \in Live,
         \A s \in Slots : state'[s] # "UNUSED" => state[s] # "UNUSED",
         vm' = [vm EXCEPT ![p] = None],
         at' = [at EXCEPT ![p] = "exit"], UNCHANGED <<pid, waitFor>>
  PROVE  PlacesOK' /\ PidsDistinct' /\ SpacesOK'
<1>1. TypeOK /\ PlacesOK /\ PidsDistinct /\ SpacesOK
  BY DEF IInv
<1>2. \A s \in Slots : at[s] # "config" /\ at'[s] = IF s = p THEN "exit" ELSE at[s]
  BY <1>1 DEF PlacesOK, TypeOK
<1>3. PlacesOK'
  <2>1. at'[Idle] \in KernelPlaces
    BY <1>1, <1>2, SlotFacts DEF PlacesOK
  <2>2. \A s \in Slots : at'[s] # "config"
    BY <1>2
  <2>3. \A s \in Slots : at'[s] \in WaitPlaces => at[s] \in WaitPlaces
    BY <1>2 DEF WaitPlaces
  <2> QED  BY <1>1, <2>1, <2>2, <2>3 DEF PlacesOK
<1>4. PidsDistinct'
  BY <1>1 DEF PidsDistinct, InTable
<1>5. SpacesOK'
  <2>1. \A s \in Slots : vm'[s] = IF s = p THEN None ELSE vm[s]
    BY <1>1 DEF TypeOK
  <2>2. at[current] # "config"
    BY <1>2, Facts
  <2> QED  BY <1>1, <1>2, <2>1, <2>2 DEF SpacesOK
<1> QED  BY <1>3, <1>4, <1>5

(* process_exit_value keeps the invariant and the life cycle.              *)
LEMMA ExitStep ==
  ASSUME IInv, NEW p, process_exit_value(p)
  PROVE  IInv' /\ LifeStep
<1> DEFINE z == [state EXCEPT ![p] = "ZOMBIE"]
<1>1. /\ p = current /\ at[p] \in {"user", "kthread"} /\ process_mark_zombie(p)
      /\ state' = z /\ runQueue' = Dequeue(runQueue, p)
      /\ at' = [at EXCEPT ![p] = "exit"]
      /\ UNCHANGED <<current, wakeIn, ticksLeft, waitFor>>
  BY DEF process_exit_value, RunningAt
<1> HIDE DEF z
<1>2. /\ p \in Slots \ {Idle} /\ state[p] = "RUNNING" /\ p \in LiveIn(state)
      /\ z \in [Slots -> States]
      /\ LiveIn(z) = LiveIn(state) \ {p}
      /\ Queues(Dequeue(runQueue, p), LiveIn(z), Idle)
      /\ vm' \in [Slots -> Slots \cup {None}] /\ vm' = [vm EXCEPT ![p] = None]
      /\ refCount' \in [Slots -> Nat] /\ RefCountExact'
      /\ active' \in Nat /\ active' = Cardinality(LiveIn(z) \ {Idle})
      /\ UNCHANGED <<pid, group, spawner>>
  BY <1>1, MarkZombie, Zenon DEF z
<1>3. \A s \in Slots : state'[s] = IF s = p THEN "ZOMBIE" ELSE state[s]
  BY <1>1, Facts DEF z
<1>4. TypeOK /\ CurrentIsRunning
  BY SMTT(30) DEF IInv
<1>5. TypeOK'
  <2>1. at' \in [Slots -> Places]
    BY <1>1, <1>4 DEF TypeOK, Places
  <2>2. runQueue' \in Seq(Slots)
    BY <1>1, <1>2, QueueOut
  <2> QED  BY <1>1, <1>2, <1>4, <2>1, <2>2, Zenon DEF TypeOK
<1>6. CurrentIsRunning'
  <2>1. at'[current'] = "exit"
    BY <1>1, <1>2, <1>4, SMTT(60) DEF TypeOK
  <2> QED  BY <1>1, <1>2, <1>3, <1>4, <2>1, SlotFacts, SMTT(60) DEF CurrentIsRunning
<1>7. PlacesOK' /\ PidsDistinct' /\ SpacesOK'
  BY <1>1, <1>2, <1>3, ZombieTable, Zenon DEF Live
<1>8. LifeStep
  BY <1>1, <1>2, <1>3 DEF LifeStep
<1> QED  BY <1>1, <1>2, <1>5, <1>6, <1>7, <1>8, Assemble

(* So does exception_handler, which ends in schedule().                    *)
LEMMA FaultStep ==
  ASSUME IInv, NEW p, exception_handler(p)
  PROVE  IInv' /\ LifeStep
<1> DEFINE z == [state EXCEPT ![p] = "ZOMBIE"]
           q == Dequeue(runQueue, p)
<1>1. /\ p = current /\ at[p] \in {"user", "kthread"} /\ process_mark_zombie(p)
      /\ Schedule(q, z)
      /\ at' = [at EXCEPT ![p] = "exit"] /\ UNCHANGED waitFor
  BY DEF exception_handler, RunningAt
<1>2. \A s \in Slots : z[s] = IF s = p THEN "ZOMBIE" ELSE state[s]
  BY Facts
<1> HIDE DEF z
<1>3. /\ p \in Slots \ {Idle} /\ state[p] = "RUNNING" /\ p \in LiveIn(state)
      /\ z \in [Slots -> States]
      /\ LiveIn(z) = LiveIn(state) \ {p}
      /\ Queues(q, LiveIn(z), Idle)
      /\ vm' \in [Slots -> Slots \cup {None}] /\ vm' = [vm EXCEPT ![p] = None]
      /\ refCount' \in [Slots -> Nat] /\ RefCountExact'
      /\ active' \in Nat /\ active' = Cardinality(LiveIn(z) \ {Idle})
      /\ UNCHANGED <<pid, group, spawner>>
  BY <1>1, MarkZombie, ZenonT(60) DEF z
<1> HIDE DEF q
<1>4. TypeOK
  BY DEF IInv
<1>5. /\ \A s \in Slots : z[s] = "RUNNING" => s = current
      /\ z[Idle] = IF current = Idle THEN "RUNNING" ELSE "READY"
  BY <1>2, <1>3, Facts, SlotFacts, SMTT(30)
<1>6. /\ runQueue' = q
      /\ current' \in Slots
      /\ state' \in [Slots -> States]
      /\ wakeIn' \in [Slots -> Nat \cup {NoWake}]
      /\ ticksLeft' \in [Slots -> 0..SCHED_TICKS_PER_SLICE]
      /\ LiveIn(state') = LiveIn(z)
      /\ state'[current'] = "RUNNING"
      /\ \A s \in Slots : state'[s] = "RUNNING" => s = current'
      /\ current' # Idle => state'[Idle] = "READY"
      /\ \A s \in Slots : state'[s] # z[s] =>
           \/ z[s] = "READY" /\ state'[s] = "RUNNING"
           \/ z[s] = "RUNNING" /\ state'[s] = "READY" /\ s = current
           \/ z[s] = "BLOCKED" /\ state'[s] \in {"READY", "RUNNING"}
  BY <1>1, <1>3, <1>4, <1>5, ScheduleLemma
<1>7. TypeOK'
  <2>1. at' \in [Slots -> Places]
    BY <1>1, <1>4 DEF TypeOK, Places
  <2>2. runQueue' \in Seq(Slots)
    BY <1>3, <1>6, QueueOut, SMTT(30)
  <2> QED  BY <1>1, <1>3, <1>4, <1>6, <2>1, <2>2, Zenon DEF TypeOK
<1>8. CurrentIsRunning'
  BY <1>6 DEF CurrentIsRunning
<1>9. PlacesOK' /\ PidsDistinct' /\ SpacesOK'
  <2>1. \A s \in Slots : state'[s] \in Live <=> s # p /\ state[s] \in Live
    BY <1>3, <1>6 DEF LiveIn
  <2>2. \A s \in Slots : state'[s] # "UNUSED" => state[s] # "UNUSED"
    BY <1>2, <1>3, <1>6
  <2> QED  BY <1>1, <1>3, <2>1, <2>2, ZombieTable, Zenon
<1>10. LifeStep
  BY <1>1, <1>2, <1>3, <1>6 DEF LifeStep
<1> QED  BY <1>3, <1>6, <1>7, <1>8, <1>9, <1>10, Assemble

(* Creating a process in a free slot: shared by process_spawn,             *)
(* sys_thread_create and the probe thread.  The creator p is RUNNING and   *)
(* the new process gets no address space, or the creator's.                *)
LEMMA CreateStep ==
  ASSUME IInv, NEW p, p = current, at[p] \in {"user", "launch", "boot"}, CanCreate,
         NEW g \in Nat, NEW space \in Slots \cup {None}, NEW creator \in Slots \cup {None},
         Create(alloc_process, alloc_pid, g, space, creator),
         at' \in [Slots -> Places], waitFor' \in [Slots -> Nat],
         at'[Idle] \in KernelPlaces,
         \A s \in Slots \ {p, alloc_process} : at'[s] = at[s] /\ waitFor'[s] = waitFor[s],
         at'[alloc_process] \in {"user", "kthread"},
         at'[p] \in WaitPlaces => waitFor'[p] = alloc_process,
         at'[p] = "config" => space = None,
         at'[alloc_process] = "user" => at'[p] = "config" \/ space # None,
         at'[p] \notin {"sleep", "exit", "kthread"}
  PROVE  IInv' /\ LifeStep
<1> DEFINE a == alloc_process
           n == alloc_pid
<1>1. /\ TypeOK /\ CurrentIsRunning /\ PlacesOK /\ PidsDistinct /\ SpacesOK
      /\ RefCountExact /\ ActiveExact
  BY DEF IInv
<1>2. state[p] = "RUNNING" /\ p \in Slots
  BY Facts
<1>3. a \in Slots /\ state[a] = "UNUSED"
  <2>1. FreeSlots \in SUBSET Nat /\ FreeSlots # {}
    BY SlotFacts, Zenon DEF FreeSlots, CanCreate
  <2>2. Min(FreeSlots) \in FreeSlots
    BY <2>1, MinProperties
  <2> QED  BY <2>2 DEF FreeSlots, alloc_process
<1>4. n \in Nat \ {0} /\ \A s \in InTable : pid[s] # n
  <2>1. FreePids \in SUBSET Nat /\ FreePids # {} /\ FreePids \subseteq Nat \ {0}
    BY MaxProcessesAssumption DEF FreePids, CanCreate
  <2>2. Min(FreePids) \in FreePids
    BY <2>1, MinProperties
  <2> QED  BY <2>1, <2>2 DEF FreePids, alloc_pid
<1>5. a # p /\ a # Idle
  BY <1>2, <1>3, Facts
<1> HIDE DEF a, n
<1>6. /\ state'     = [state EXCEPT ![a] = "READY"]
      /\ runQueue'  = Enqueue(runQueue, a)
      /\ ticksLeft' = [ticksLeft EXCEPT ![a] = SCHED_TICKS_PER_SLICE]
      /\ pid'       = [pid EXCEPT ![a] = n]
      /\ group'     = [group EXCEPT ![a] = g]
      /\ vm'        = [vm EXCEPT ![a] = space]
      /\ refCount'  = Retained(space)
      /\ spawner'   = [spawner EXCEPT ![a] = creator]
      /\ active'    = active + 1
      /\ UNCHANGED <<current, wakeIn>>
  BY DEF Create, a, n
<1>7. \A s \in Slots : /\ state'[s] = IF s = a THEN "READY" ELSE state[s]
                       /\ pid'[s] = IF s = a THEN n ELSE pid[s]
                       /\ vm'[s] = IF s = a THEN space ELSE vm[s]
  BY <1>1, <1>6 DEF TypeOK
<1>8. /\ state' \in [Slots -> States]
      /\ LiveIn(state') = LiveIn(state) \cup {a} /\ a \notin LiveIn(state)
  BY <1>1, <1>3, <1>6, <1>7, ZenonT(60) DEF TypeOK, States, LiveIn, Live
<1>9. Queues(runQueue', LiveIn(state'), Idle)
  <2>1. Queues(runQueue, LiveIn(state), Idle)
    BY Facts
  <2>2. Queues(Enqueue(runQueue, a), LiveIn(state) \cup {a}, Idle)
    BY <1>8, <2>1, EnqueueQueues, SMTT(60)
  <2> QED  BY <1>6, <1>8, <2>2, Zenon
<1>10. RefCountExact' /\ refCount' \in [Slots -> Nat]
  <2>1. vm[a] = None
    BY <1>1, <1>3 DEF SpacesOK, Live
  <2> QED  BY <1>1, <1>3, <1>6, <2>1, RetainCounts, Zenon
<1>11. TypeOK'
  <2>1. runQueue' \in Seq(Slots)
    BY <1>9, QueueOut
  <2>2. ticksLeft' \in [Slots -> 0..SCHED_TICKS_PER_SLICE]
    <3>1. SCHED_TICKS_PER_SLICE \in 0..SCHED_TICKS_PER_SLICE
      BY SliceAssumption
    <3>2. ticksLeft \in [Slots -> 0..SCHED_TICKS_PER_SLICE]
      BY <1>1 DEF TypeOK
    <3> QED  BY <1>6, <3>1, <3>2, Zenon
  <2>3. pid' \in [Slots -> Nat] /\ group' \in [Slots -> Nat]
    BY <1>1, <1>4, <1>6, Zenon DEF TypeOK
  <2>4. vm' \in [Slots -> Slots \cup {None}]
    BY <1>1, <1>6, Zenon DEF TypeOK
  <2>5. spawner' \in [Slots -> Slots \cup {None}]
    BY <1>1, <1>6, ZenonT(60) DEF TypeOK
  <2>6. /\ active' \in Nat /\ wakeIn' \in [Slots -> Nat \cup {NoWake}]
        /\ current' \in Slots
    BY <1>1, <1>6 DEF TypeOK
  <2> QED  BY <1>8, <1>10, <2>1, <2>2, <2>3, <2>4, <2>5, <2>6, Zenon DEF TypeOK
<1>12. CurrentIsRunning'
  <2>1. state'[current'] = "RUNNING"
    BY <1>2, <1>5, <1>6, <1>7
  <2>2. current' # Idle => state'[Idle] = "READY"
    BY <1>1, <1>5, <1>6, <1>7, SlotFacts DEF CurrentIsRunning
  <2>3. \A s \in Slots : state'[s] = "RUNNING" => s = current'
    BY <1>1, <1>6, <1>7, SMTT(60) DEF CurrentIsRunning
  <2> QED  BY <2>1, <2>2, <2>3 DEF CurrentIsRunning
<1>13. PlacesOK'
  <2>1. \A s \in Slots : at[s] # "config"
    BY <1>1, SMTT(30) DEF PlacesOK
  <2>2. \A s \in Slots : at'[s] \in WaitPlaces => waitFor'[s] \in Slots
    BY <1>1, <1>3 DEF PlacesOK, WaitPlaces, a
  <2>3. \A s \in Slots : at'[s] = "config" => s = p
    BY <2>1, SMTT(30) DEF a
  <2>4. at'[p] = "config" => /\ waitFor'[p] = a /\ state'[a] = "READY" /\ vm'[a] = None
    BY <1>3, <1>7 DEF WaitPlaces, a
  <2>5. current' = current
    BY <1>6
  <2> QED  BY <1>5, <2>2, <2>3, <2>4, <2>5, Zenon DEF PlacesOK
<1>14. PidsDistinct'
  <2>1. \A s \in Slots : state'[s] # "UNUSED" => s = a \/ (state[s] # "UNUSED" /\ pid'[s] = pid[s] /\ pid[s] # n)
    BY <1>4, <1>7 DEF InTable
  <2>2. pid'[a] = n /\ pid'[Idle] = 0
    BY <1>1, <1>3, <1>5, <1>7, SlotFacts, SMTT(60) DEF PidsDistinct
  <2> QED  BY <1>1, <2>1, <2>2 DEF PidsDistinct, InTable
<1>15. SpacesOK'
  <2>1. \A s \in Slots : state'[s] \notin Live => vm'[s] = None
    BY <1>1, <1>7 DEF SpacesOK, Live
  <2>2. ASSUME NEW s \in Slots \ {Idle}, state'[s] \in Live, at'[s] # "kthread", vm'[s] = None
        PROVE  at'[current'] = "config" /\ waitFor'[current'] = s
    <3>1. CASE s = a
      <4>1. at'[p] = "config"
        BY <1>7, <2>2, <3>1, SlotFacts, SMTT(60) DEF a
      <4> QED  BY <1>6, <3>1, <4>1 DEF WaitPlaces, a
    <3>2. CASE s # a
      <4>1. state[s] \in Live /\ vm[s] = None
        BY <1>7, <2>2, <3>2
      <4>2. at[s] # "kthread"
        BY <2>2, <3>2, <1>2 DEF a
      <4> QED  BY <1>1, <4>1, <4>2, SMTT(60) DEF SpacesOK
    <3> QED  BY <3>1, <3>2
  <2> QED  BY <2>1, <2>2 DEF SpacesOK
<1>16. active' = Cardinality(LiveIn(state') \ {Idle})
  BY <1>1, <1>3, <1>5, <1>6, <1>8, CountIn, Zenon
<1>17. LifeStep
  BY <1>3, <1>7, Zenon DEF LifeStep
<1> QED  BY <1>9, <1>10, <1>11, <1>12, <1>13, <1>14, <1>15, <1>16, <1>17, Assemble, SMTT(60)

(* process_configure_image: the child waited for gets a free space.        *)
LEMMA ConfigureStep ==
  ASSUME IInv, NEW p, process_configure_image(p)
  PROVE  IInv' /\ LifeStep
<1> DEFINE c == waitFor[p]
           v == Min(FreeSpaces)
<1>1. /\ TypeOK /\ QueueHoldsLive /\ CurrentIsRunning /\ PlacesOK
      /\ PidsDistinct /\ SpacesOK /\ RefCountExact /\ ActiveExact
  BY DEF IInv
<1>2. /\ p = current /\ at[p] = "config" /\ FreeSpaces # {}
      /\ vm' = [vm EXCEPT ![c] = v] /\ refCount' = Retained(v)
      /\ at' = [at EXCEPT ![p] = IF p = Idle THEN "init" ELSE "exec"]
      /\ UNCHANGED <<state, runQueue, current, wakeIn, ticksLeft,
                     pid, group, active, spawner, waitFor>>
  BY SMTT(30) DEF process_configure_image, RunningAt, schedVars
<1>3. /\ p \in Slots /\ c \in Slots /\ c \notin {p, Idle}
      /\ state[c] = "READY" /\ vm[c] = None
  BY <1>1, <1>2, Facts DEF PlacesOK, WaitPlaces
<1>4. v \in Slots
  <2>1. FreeSpaces \in SUBSET Nat
    BY SlotFacts, Zenon DEF FreeSpaces
  <2>2. v \in FreeSpaces
    BY <1>2, <2>1, MinProperties
  <2> QED  BY <2>2 DEF FreeSpaces
<1> HIDE DEF c, v
<1>5. RefCountExact' /\ refCount' \in [Slots -> Nat]
  BY <1>1, <1>2, <1>3, <1>4, RetainCounts, Zenon
<1>6. TypeOK'
  <2>1. at' \in [Slots -> Places] /\ vm' \in [Slots -> Slots \cup {None}]
    BY <1>1, <1>2, <1>4, Zenon DEF TypeOK, Places
  <2> QED  BY <1>1, <1>2, <1>5, <2>1, Zenon DEF TypeOK
<1>7. QueueHoldsLive' /\ PidsDistinct' /\ ActiveExact'
  BY <1>1, <1>2 DEF QueueHoldsLive, PidsDistinct, ActiveExact, LiveSlots, InTable
<1>8. CurrentIsRunning'
  BY <1>1, <1>2, Facts DEF CurrentIsRunning
<1>9. \A s \in Slots : /\ vm'[s] = IF s = c THEN v ELSE vm[s]
                       /\ at'[s] = IF s = p THEN IF p = Idle THEN "init" ELSE "exec" ELSE at[s]
  BY <1>1, <1>2 DEF TypeOK
<1>10. PlacesOK'
  <2>1. \A s \in Slots : at'[s] # "config"
    BY <1>1, <1>2, <1>9 DEF PlacesOK
  <2>2. at'[Idle] \in KernelPlaces
    BY <1>1, <1>9, SlotFacts, SMTT(60) DEF PlacesOK, KernelPlaces
  <2>3. \A s \in Slots : at'[s] \in WaitPlaces => waitFor'[s] \in Slots
    BY <1>1, <1>2, <1>3, <1>9 DEF PlacesOK, c
  <2> QED  BY <2>1, <2>2, <2>3, SMTT(60) DEF PlacesOK
<1>11. SpacesOK'
  <2>1. \A s \in Slots : state'[s] \notin Live => vm'[s] = None
    BY <1>1, <1>2, <1>3, <1>9 DEF SpacesOK, Live
  <2>2. ASSUME NEW s \in Slots \ {Idle}, state'[s] \in Live, at'[s] # "kthread"
        PROVE  vm'[s] # None
    <3>1. CASE s = c
      BY <3>1, <1>4, <1>9, SlotFacts
    <3>2. CASE s # c
      <4>1. at[s] # "kthread" /\ state[s] \in Live
        BY <2>2, <1>2, <1>9
      <4> QED  BY <1>1, <1>2, <1>9, <3>2, <4>1 DEF SpacesOK, c
    <3> QED  BY <3>1, <3>2
  <2> QED  BY <2>1, <2>2 DEF SpacesOK
<1>12. LifeStep
  BY <1>2 DEF LifeStep
<1> QED  BY <1>5, <1>6, <1>7, <1>8, <1>10, <1>11, <1>12 DEF IInv

(* process_discard: the unconfigured child is taken back.                  *)
LEMMA DiscardStep ==
  ASSUME IInv, NEW p, process_discard(p)
  PROVE  IInv' /\ LifeStep
<1> DEFINE c == waitFor[p]
<1>1. /\ TypeOK /\ CurrentIsRunning /\ PlacesOK
      /\ PidsDistinct /\ SpacesOK /\ RefCountExact /\ ActiveExact
  BY DEF IInv
<1>2. /\ p = current /\ at[p] = "config"
      /\ free_process(c) /\ release_vm_space(c)
      /\ runQueue' = Dequeue(runQueue, c)
      /\ active' = IF active > 0 THEN active - 1 ELSE active
      /\ at' = [at EXCEPT ![p] = IF p = Idle THEN "keyboard" ELSE "user"]
      /\ waitFor' = [waitFor EXCEPT ![p] = 0]
      /\ UNCHANGED <<current, wakeIn>>
  BY DEF process_discard, RunningAt
<1>3. /\ p \in Slots /\ c \in Slots /\ c \notin {p, Idle}
      /\ state[c] = "READY" /\ vm[c] = None /\ state[p] = "RUNNING"
  BY <1>1, <1>2, Facts DEF PlacesOK, WaitPlaces
<1> HIDE DEF c
<1>4. /\ state' = [state EXCEPT ![c] = "UNUSED"] /\ pid' = [pid EXCEPT ![c] = 0]
      /\ group' = [group EXCEPT ![c] = 0] /\ ticksLeft' = [ticksLeft EXCEPT ![c] = 0]
      /\ spawner' = [spawner EXCEPT ![c] = None]
      /\ vm' = [vm EXCEPT ![c] = None]
  BY <1>2 DEF free_process, release_vm_space
<1>5. \A s \in Slots : /\ state'[s] = IF s = c THEN "UNUSED" ELSE state[s]
                       /\ pid'[s] = IF s = c THEN 0 ELSE pid[s]
                       /\ vm'[s] = IF s = c THEN None ELSE vm[s]
                       /\ at'[s] = IF s = p THEN IF p = Idle THEN "keyboard" ELSE "user" ELSE at[s]
                       /\ waitFor'[s] = IF s = p THEN 0 ELSE waitFor[s]
  BY <1>1, <1>2, <1>4, SMTT(60) DEF TypeOK
<1>6. /\ state' \in [Slots -> States]
      /\ LiveIn(state') = LiveIn(state) \ {c} /\ c \in LiveIn(state)
  BY <1>1, <1>3, <1>4, <1>5, SMTT(60) DEF TypeOK, States, LiveIn, Live
<1>7. Queues(runQueue', LiveIn(state'), Idle)
  <2>1. Queues(runQueue, LiveIn(state), Idle)
    BY Facts
  <2>2. Queues(Dequeue(runQueue, c), LiveIn(state) \ {c}, Idle)
    BY <1>3, <1>6, <2>1, DequeueQueues
  <2> QED  BY <1>2, <1>6, <2>2
<1>8. RefCountExact' /\ refCount' \in [Slots -> Nat]
  BY <1>1, <1>2, <1>3, ReleaseCounts
<1>9. active' \in Nat /\ active' = Cardinality(LiveIn(state') \ {Idle})
  <2>1. /\ active > 0 /\ active - 1 \in Nat
        /\ active - 1 = Cardinality(LiveIn(state') \ {Idle})
    BY <1>1, <1>3, <1>6, CountOut, Zenon
  <2> QED  BY <1>2, <2>1
<1>10. TypeOK'
  <2>1. runQueue' \in Seq(Slots)
    BY <1>7, QueueOut
  <2>2. ticksLeft' \in [Slots -> 0..SCHED_TICKS_PER_SLICE]
    <3>1. 0 \in 0..SCHED_TICKS_PER_SLICE
      BY SliceAssumption
    <3>2. ticksLeft \in [Slots -> 0..SCHED_TICKS_PER_SLICE]
      BY <1>1 DEF TypeOK
    <3> QED  BY <1>4, <3>1, <3>2, Zenon
  <2>3. pid' \in [Slots -> Nat] /\ group' \in [Slots -> Nat]
    BY <1>1, <1>4, Zenon DEF TypeOK
  <2>4. vm' \in [Slots -> Slots \cup {None}]
    BY <1>1, <1>4, Zenon DEF TypeOK
  <2>5. spawner' \in [Slots -> Slots \cup {None}]
    BY <1>1, <1>4, Zenon DEF TypeOK
  <2>6. at' \in [Slots -> Places]
    BY <1>1, <1>2 DEF TypeOK, Places
  <2>7. waitFor' \in [Slots -> Nat]
    BY <1>1, <1>2 DEF TypeOK
  <2>8. current' \in Slots /\ wakeIn' \in [Slots -> Nat \cup {NoWake}]
    BY <1>1, <1>2 DEF TypeOK
  <2> QED  BY <1>6, <1>8, <1>9, <2>1, <2>2, <2>3, <2>4, <2>5, <2>6, <2>7, <2>8, Zenon DEF TypeOK
<1>11. CurrentIsRunning'
  BY <1>1, <1>2, <1>3, <1>5, SlotFacts, SMTT(60) DEF CurrentIsRunning
<1>12. PlacesOK'
  <2>1. \A s \in Slots : at'[s] # "config"
    BY <1>1, <1>2, <1>5 DEF PlacesOK
  <2>2. at'[Idle] \in KernelPlaces
    BY <1>1, <1>5, SlotFacts DEF PlacesOK, KernelPlaces
  <2>3. \A s \in Slots : at'[s] \in WaitPlaces => s # p
    BY <1>5, SMTT(30) DEF WaitPlaces
  <2>4. \A s \in Slots : at'[s] \in WaitPlaces => waitFor'[s] \in Slots
    BY <1>1, <1>5, <2>3 DEF PlacesOK
  <2> QED  BY <2>1, <2>2, <2>4 DEF PlacesOK
<1>13. PidsDistinct'
  BY <1>1, <1>3, <1>5, SlotFacts, SMTT(60) DEF PidsDistinct, InTable
<1>14. SpacesOK'
  <2>1. \A s \in Slots : state'[s] \notin Live => vm'[s] = None
    BY <1>1, <1>5, SMTT(60) DEF SpacesOK
  <2>2. ASSUME NEW s \in Slots \ {Idle}, state'[s] \in Live, at'[s] # "kthread"
        PROVE  vm'[s] # None
    <3>1. s # c
      BY <2>2, <1>5, SMTT(60) DEF Live
    <3>2. at[s] # "kthread" /\ state[s] \in Live
      BY <2>2, <3>1, <1>2, <1>5
    <3> QED  BY <1>1, <1>2, <1>5, <3>1, <3>2, SMTT(60) DEF SpacesOK, c
  <2> QED  BY <2>1, <2>2 DEF SpacesOK
<1>15. LifeStep
  BY <1>3, <1>5 DEF LifeStep
<1> QED  BY <1>7, <1>8, <1>9, <1>10, <1>11, <1>12, <1>13, <1>14, <1>15, Assemble

(* process_reap by the running process, which goes back to a place of its  *)
(* own: a ZOMBIE's slot is freed, any other slot is left alone.            *)
LEMMA ReapStep ==
  ASSUME IInv, NEW p, p = current, state[p] = "RUNNING", NEW c \in Slots,
         at[p] \notin {"config", "kthread"},
         NEW place \in Places \ (WaitPlaces \cup {"kthread", "sleep", "exit"}),
         p = Idle => place \in KernelPlaces,
         process_reap(c, p, place)
  PROVE  IInv' /\ LifeStep
<1>1. /\ TypeOK /\ CurrentIsRunning /\ PlacesOK
      /\ PidsDistinct /\ SpacesOK /\ RefCountExact /\ ActiveExact
  BY DEF IInv
<1>2. /\ waitFor' = [waitFor EXCEPT ![p] = 0]
      /\ UNCHANGED <<current, wakeIn, refCount, active>>
      /\ p \in Slots
  BY Facts DEF process_reap
<1>3. waitFor' \in [Slots -> Nat]
  BY <1>1, <1>2, SMTT(60) DEF TypeOK
<1>4. \A s \in Slots : at[s] # "config"
  BY <1>1 DEF PlacesOK
<1>5. CASE state[c] # "ZOMBIE"
  <2>1. /\ at' = [at EXCEPT ![p] = place]
        /\ UNCHANGED <<state, runQueue, ticksLeft, pid, group, vm, spawner>>
    BY <1>5 DEF process_reap
  <2>2. at' \in [Slots -> Places] /\ \A s \in Slots : at'[s] = IF s = p THEN place ELSE at[s]
    BY <1>1, <2>1 DEF TypeOK
  <2>3. at'[Idle] \in KernelPlaces
    BY <1>1, <2>2, SlotFacts DEF PlacesOK
  <2>4. \A s \in Slots : waitFor'[s] = IF s = p THEN 0 ELSE waitFor[s]
    BY <1>1, <1>2, SMTT(60) DEF TypeOK
  <2>5. \A s \in Slots : /\ at'[s] \in WaitPlaces => at[s] \in WaitPlaces /\ waitFor'[s] = waitFor[s]
                         /\ at'[s] = "config" => at[s] = "config"
                         /\ at[s] = "kthread" => at'[s] = "kthread"
    BY <2>2, <2>4 DEF WaitPlaces
  <2>6. UNCHANGED <<schedVars, procVars>>
    BY <1>2, <2>1, SMTT(60) DEF schedVars, procVars
  <2> QED  BY <1>3, <2>2, <2>3, <2>5, <2>6, MoveStep
<1>6. CASE state[c] = "ZOMBIE"
  <2>1. /\ state' = [state EXCEPT ![c] = "UNUSED"] /\ pid' = [pid EXCEPT ![c] = 0]
        /\ group' = [group EXCEPT ![c] = 0] /\ ticksLeft' = [ticksLeft EXCEPT ![c] = 0]
        /\ spawner' = [spawner EXCEPT ![c] = None]
        /\ vm' = [vm EXCEPT ![c] = None]
        /\ runQueue' = Dequeue(runQueue, c)
        /\ at' = [at EXCEPT ![c] = "user", ![p] = place]
    BY <1>6 DEF process_reap, free_process
  <2>2. c # p /\ c # Idle
    BY <1>6, Facts
  <2>3. \A s \in Slots : /\ state'[s] = IF s = c THEN "UNUSED" ELSE state[s]
                         /\ pid'[s] = IF s = c THEN 0 ELSE pid[s]
                         /\ at'[s] = IF s = p THEN place ELSE IF s = c THEN "user" ELSE at[s]
                         /\ waitFor'[s] = IF s = p THEN 0 ELSE waitFor[s]
    BY <1>1, <1>2, <2>1 DEF TypeOK
  <2>4. vm' = vm /\ c \notin LiveIn(state)
    BY <1>1, <1>6, <2>1, Zenon DEF SpacesOK, LiveIn, Live, TypeOK
  <2>5. state' \in [Slots -> States] /\ LiveIn(state') = LiveIn(state)
    BY <1>1, <1>6, <2>1, <2>3 DEF TypeOK, States, LiveIn, Live
  <2>6. Queues(runQueue', LiveIn(state'), Idle)
    <3>1. Queues(runQueue, LiveIn(state), Idle)
      BY Facts
    <3>2. Dequeue(runQueue, c) = runQueue
      BY <2>4, <3>1, DequeueAbsent DEF Queues
    <3> QED  BY <2>1, <2>5, <3>1, <3>2
  <2>7. TypeOK'
    <3>1. runQueue' \in Seq(Slots)
      BY <2>6, QueueOut
    <3>2. ticksLeft' \in [Slots -> 0..SCHED_TICKS_PER_SLICE]
      <4>1. 0 \in 0..SCHED_TICKS_PER_SLICE
        BY SliceAssumption
      <4>2. ticksLeft \in [Slots -> 0..SCHED_TICKS_PER_SLICE]
        BY <1>1 DEF TypeOK
      <4> QED  BY <2>1, <4>1, <4>2
    <3>3. pid' \in [Slots -> Nat] /\ group' \in [Slots -> Nat]
      BY <1>1, <2>1 DEF TypeOK
    <3>4. spawner' \in [Slots -> Slots \cup {None}]
      BY <1>1, <2>1 DEF TypeOK
    <3>5. at' \in [Slots -> Places]
      BY <1>1, <2>1, ZenonT(60) DEF TypeOK, Places
    <3> QED  BY <1>1, <1>2, <1>3, <2>4, <2>5, <3>1, <3>2, <3>3, <3>4, <3>5, Zenon DEF TypeOK
  <2>8. CurrentIsRunning'
    BY <1>1, <1>2, <2>2, <2>3, SlotFacts, SMTT(30) DEF CurrentIsRunning
  <2>9. PlacesOK'
    <3>1. \A s \in Slots : at'[s] # "config"
      BY <1>4, <2>3 DEF WaitPlaces
    <3>2. at'[Idle] \in KernelPlaces
      BY <1>1, <2>2, <2>3, SlotFacts, SMTT(60) DEF PlacesOK
    <3>3. \A s \in Slots : at'[s] \in WaitPlaces => at[s] \in WaitPlaces /\ s # p
      BY <2>3 DEF WaitPlaces
    <3>4. \A s \in Slots : at'[s] \in WaitPlaces => waitFor'[s] \in Slots
      BY <1>1, <2>3, <3>3 DEF PlacesOK
    <3> QED  BY <3>1, <3>2, <3>4 DEF PlacesOK
  <2>10. PidsDistinct'
    BY <1>1, <2>2, <2>3, SlotFacts, SMTT(60) DEF PidsDistinct, InTable
  <2>11. SpacesOK'
    <3>1. \A s \in Slots : state'[s] \notin Live => vm'[s] = None
      BY <1>1, <1>6, <2>3, <2>4 DEF SpacesOK, Live
    <3>2. ASSUME NEW s \in Slots \ {Idle}, state'[s] \in Live, at'[s] # "kthread"
          PROVE  vm'[s] # None
      <4>1. s # c
        BY <2>3, <3>2 DEF Live
      <4>2. at[s] # "kthread" /\ state[s] \in Live
        BY <2>3, <3>2, <4>1, SMTT(30)
      <4> QED  BY <1>1, <1>2, <1>4, <2>4, <4>2 DEF SpacesOK
    <3> QED  BY <3>1, <3>2 DEF SpacesOK
  <2>12. RefCountExact'
    BY <1>1, <1>2, <2>4, SMTT(60) DEF RefCountExact, Holders
  <2>13. active' = Cardinality(LiveIn(state') \ {Idle})
    BY <1>1, <1>2, <2>5, SMTT(60) DEF ActiveExact, LiveSlots, LiveIn
  <2>14. LifeStep
    BY <1>6, <2>2, <2>3 DEF LifeStep
  <2> QED  BY <2>6, <2>7, <2>8, <2>9, <2>10, <2>11, <2>12, <2>13, <2>14, Assemble, SMTT(60)
<1> QED  BY <1>5, <1>6

(* process_sleep_until, up to its sti.                                     *)
LEMMA SleepStep ==
  ASSUME IInv, NEW p, NEW d \in SLEEPS, process_sleep_until(p, d)
  PROVE  IInv' /\ LifeStep
<1>1. /\ TypeOK /\ CurrentIsRunning /\ PlacesOK
      /\ PidsDistinct /\ SpacesOK /\ RefCountExact /\ ActiveExact
  BY DEF IInv
<1>2. /\ p = current /\ at[p] = "user"
      /\ state' = [state EXCEPT ![p] = "BLOCKED"]
      /\ wakeIn' = [wakeIn EXCEPT ![p] = d]
      /\ runQueue' = Enqueue(Dequeue(runQueue, p), p)
      /\ at' = [at EXCEPT ![p] = "sleep"]
      /\ UNCHANGED <<current, ticksLeft, pid, group, vm, refCount, active, spawner, waitFor>>
  BY SMTT(60) DEF process_sleep_until, RunningAt, Requeue, procVars
<1>3. p \in Slots \ {Idle} /\ state[p] = "RUNNING"
  BY <1>1, <1>2, Facts DEF PlacesOK, KernelPlaces
<1>4. \A s \in Slots : /\ state'[s] = IF s = p THEN "BLOCKED" ELSE state[s]
                       /\ at'[s] = IF s = p THEN "sleep" ELSE at[s]
  BY <1>1, <1>2 DEF TypeOK
<1>5. /\ state' \in [Slots -> States]
      /\ LiveIn(state') = LiveIn(state) /\ p \in LiveIn(state)
  BY <1>1, <1>2, <1>3, <1>4, SMTT(60) DEF TypeOK, States, LiveIn, Live
<1>6. Queues(runQueue', LiveIn(state'), Idle)
  <2>1. Queues(runQueue, LiveIn(state), Idle)
    BY Facts
  <2>2. Queues(Dequeue(runQueue, p), LiveIn(state) \ {p}, Idle)
    BY <1>3, <1>5, <2>1, DequeueQueues
  <2>3. Queues(Enqueue(Dequeue(runQueue, p), p), (LiveIn(state) \ {p}) \cup {p}, Idle)
    BY <2>2, EnqueueQueues
  <2>4. (LiveIn(state) \ {p}) \cup {p} = LiveIn(state)
    BY <1>5, SMTT(60)
  <2> QED  BY <1>2, <1>5, <2>3, <2>4, SMTT(60)
<1>7. TypeOK'
  <2>1. runQueue' \in Seq(Slots)
    BY <1>6, QueueOut
  <2>2. wakeIn' \in [Slots -> Nat \cup {NoWake}]
    BY <1>1, <1>2, SleepsAssumption DEF TypeOK
  <2>3. at' \in [Slots -> Places]
    BY <1>1, <1>2 DEF TypeOK, Places
  <2> QED  BY <1>1, <1>2, <1>5, <2>1, <2>2, <2>3, Zenon DEF TypeOK
<1>8. CurrentIsRunning'
  BY <1>1, <1>2, <1>3, <1>4, SlotFacts, SMTT(60) DEF CurrentIsRunning
<1>9. PlacesOK'
  <2>1. \A s \in Slots : at[s] # "config" /\ at'[s] # "config"
    BY <1>1, <1>2, <1>4 DEF PlacesOK
  <2>2. \A s \in Slots : at'[s] \in WaitPlaces => at[s] \in WaitPlaces
    BY <1>4 DEF WaitPlaces
  <2> QED  BY <1>1, <1>2, <1>3, <1>4, <2>1, <2>2, SlotFacts, SMTT(60) DEF PlacesOK
<1>10. PidsDistinct'
  BY <1>1, <1>2, <1>3, <1>4, SMTT(60) DEF PidsDistinct, InTable
<1>11. SpacesOK'
  <2>1. \A s \in Slots : state'[s] \in Live <=> state[s] \in Live
    BY <1>5, SMTT(60) DEF LiveIn
  <2> QED  BY <1>1, <1>2, <1>3, <1>4, <2>1 DEF SpacesOK
<1>12. RefCountExact'
  BY <1>1, <1>2, Zenon DEF RefCountExact, Holders
<1>13. active' = Cardinality(LiveIn(state') \ {Idle})
  BY <1>1, <1>2, <1>5 DEF ActiveExact, LiveSlots, LiveIn
<1>14. LifeStep
  BY <1>2, <1>3, <1>4 DEF LifeStep
<1> QED  BY <1>6, <1>7, <1>8, <1>9, <1>10, <1>11, <1>12, <1>13, <1>14, Assemble, SMTT(60)

(* The timer interrupt, at any point of the running process.               *)
LEMMA TickStep ==
  ASSUME IInv, scheduler_tick
  PROVE  IInv' /\ LifeStep
<1> DEFINE due == DueSleepers(runQueue, state, Aged)
<1>1. /\ TypeOK /\ QueueHoldsLive /\ CurrentIsRunning /\ PlacesOK
      /\ PidsDistinct /\ SpacesOK /\ RefCountExact /\ ActiveExact
  BY SMTT(30) DEF IInv
<1>2. /\ state' = [s \in Slots |-> IF s \in due THEN "READY" ELSE state[s]]
      /\ wakeIn' = [s \in Slots |-> IF s \in due THEN NoWake ELSE Aged[s]]
      /\ at' = [at EXCEPT ![Idle] = IF RunningAt(Idle, "hlt") THEN "init" ELSE at[Idle]]
      /\ UNCHANGED <<runQueue, current, pid, group, vm, refCount, active, spawner, waitFor>>
  BY DEF scheduler_tick, procVars
<1>3. ticksLeft' \in [Slots -> 0..SCHED_TICKS_PER_SLICE]
  <2> DEFINE left == IF ticksLeft[current] > 0 THEN ticksLeft[current] - 1 ELSE 0
             new  == IF left = 0 THEN SCHED_TICKS_PER_SLICE ELSE left
  <2>1. ticksLeft' = [ticksLeft EXCEPT ![current] = new]
    BY DEF scheduler_tick
  <2>2. ticksLeft \in [Slots -> 0..SCHED_TICKS_PER_SLICE] /\ current \in Slots
    BY <1>1 DEF TypeOK
  <2>3. new \in 0..SCHED_TICKS_PER_SLICE
    BY <2>2, SliceAssumption, SMTT(60)
  <2> HIDE DEF new
  <2> QED  BY <2>1, <2>2, <2>3, SMTT(60)
<1>4. \A s \in Slots : s \in due => state[s] = "BLOCKED"
  BY SMTT(30) DEF DueSleepers
<1> HIDE DEF due
<1>5. /\ \A s \in Slots : /\ state'[s] = IF s \in due THEN "READY" ELSE state[s]
                          /\ state'[s] # state[s] => state[s] = "BLOCKED" /\ state'[s] = "READY"
      /\ state' \in [Slots -> States] /\ LiveIn(state') = LiveIn(state)
  BY <1>1, <1>2, <1>4 DEF TypeOK, States, Live, LiveIn
<1>6. wakeIn' \in [Slots -> Nat \cup {NoWake}]
  <2>1. Aged \in [Slots -> Nat \cup {NoWake}]
    BY <1>1, SMTT(30) DEF TypeOK, Aged
  <2> QED  BY <1>2, <2>1
<1>7. /\ at' \in [Slots -> Places]
      /\ \A s \in Slots : /\ s # Idle => at'[s] = at[s]
                          /\ at'[s] = at[s] \/ (at[s] = "hlt" /\ at'[s] = "init")
  BY <1>1, <1>2, Zenon DEF TypeOK, Places, RunningAt
<1>8. TypeOK'
  BY <1>1, <1>2, <1>3, <1>5, <1>6, <1>7, Zenon DEF TypeOK
<1>9. Queues(runQueue', LiveIn(state'), Idle)
  BY <1>2, <1>5, Facts
<1>10. CurrentIsRunning'
  <2>1. state[current] = "RUNNING" => state'[current] = "RUNNING"
    BY <1>5, Facts
  <2>2. current # Idle => state'[Idle] = "READY"
    BY <1>1, <1>5, SlotFacts, SMTT(60) DEF CurrentIsRunning
  <2>3. at[current] \in {"sleep", "exit"} => at'[current] = at[current]
    BY <1>7, Facts, SMTT(60)
  <2> QED  BY <1>1, <1>2, <1>5, <2>1, <2>2, <2>3, SMTT(60) DEF CurrentIsRunning
<1>11. PlacesOK'
  <2>1. \A s \in Slots : /\ at'[s] \in WaitPlaces <=> at[s] \in WaitPlaces
                         /\ at'[s] = "config" <=> at[s] = "config"
    BY <1>7 DEF WaitPlaces
  <2>2. at'[Idle] \in KernelPlaces
    BY <1>1, <1>7, SlotFacts DEF PlacesOK, KernelPlaces
  <2>3. \A s \in Slots : state[s] = "READY" => state'[s] = "READY"
    BY <1>5
  <2>4. \A s \in Slots : at[s] = "config" => waitFor[s] \in Slots
    BY <1>1, SMTT(60) DEF PlacesOK, WaitPlaces
  <2> QED  BY <1>1, <1>2, <2>1, <2>2, <2>3, <2>4 DEF PlacesOK
<1>12. PidsDistinct'
  BY <1>1, <1>2, <1>5, SMTT(60) DEF PidsDistinct, InTable
<1>13. SpacesOK'
  <2>1. \A s \in Slots : state'[s] \in Live <=> state[s] \in Live
    BY <1>5, SMTT(60) DEF LiveIn
  <2>2. /\ \A s \in Slots : at'[s] = "kthread" <=> at[s] = "kthread"
        /\ at[current] = "config" => at'[current] = "config"
    BY <1>7, Facts, SMTT(60)
  <2> QED  BY <1>1, <1>2, <2>1, <2>2 DEF SpacesOK
<1>14. RefCountExact'
  BY <1>1, <1>2, SMTT(60) DEF RefCountExact, Holders
<1>15. active' = Cardinality(LiveIn(state') \ {Idle})
  BY <1>1, <1>2, <1>5 DEF ActiveExact, LiveSlots, LiveIn
<1>16. LifeStep
  BY <1>5 DEF LifeStep
<1> QED  BY <1>8, <1>9, <1>10, <1>11, <1>12, <1>13, <1>14, <1>15, <1>16, Assemble, SMTT(60)
=============================================================================
