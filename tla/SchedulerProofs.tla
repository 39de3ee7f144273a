--------------------------- MODULE SchedulerProofs ---------------------------
(***************************************************************************)
(* The scheduler keeps its invariants for every number of process slots.   *)
(***************************************************************************)
EXTENDS SchedulerSteps

-----------------------------------------------------------------------------
(* The theorems.                                                           *)

(* scheduler_init establishes the invariant.                               *)
LEMMA InitIInv == Init => IInv
<1> SUFFICES ASSUME Init PROVE IInv
  OBVIOUS
<1> USE SlotFacts
<1>1. /\ \A s \in Slots : state[s] = IF s = Idle THEN "RUNNING" ELSE "UNUSED"
      /\ \A s \in Slots : vm[s] = None /\ refCount[s] = 0 /\ pid[s] = 0
      /\ \A s \in Slots : at[s] = IF s = Idle THEN "boot" ELSE "user"
      /\ runQueue = <<Idle>> /\ current = Idle /\ active = 0
  BY DEF Init
<1>2. TypeOK
  <2>1. state \in [Slots -> States] /\ at \in [Slots -> Places]
    BY DEF Init, States, Places
  <2>2. ticksLeft \in [Slots -> 0..SCHED_TICKS_PER_SLICE]
    <3>1. 0 \in 0..SCHED_TICKS_PER_SLICE /\ SCHED_TICKS_PER_SLICE \in 0..SCHED_TICKS_PER_SLICE
      BY SliceAssumption
    <3> QED  BY <3>1 DEF Init
  <2>3. runQueue \in Seq(Slots)
    BY <1>1
  <2> QED  BY <2>1, <2>2, <2>3 DEF Init, TypeOK
<1>3. QueueHoldsLive
  <2>1. LiveSlots = {Idle}
    BY <1>1, Zenon DEF LiveSlots, Live
  <2>2. DOMAIN runQueue = {1} /\ runQueue[1] = Idle /\ runQueue # <<>>
    BY <1>1
  <2> QED  BY <2>1, <2>2 DEF QueueHoldsLive, Range
<1>4. CurrentIsRunning
  BY <1>1 DEF CurrentIsRunning
<1>5. PlacesOK
  BY <1>1 DEF PlacesOK, KernelPlaces, WaitPlaces
<1>6. PidsDistinct
  BY <1>1 DEF PidsDistinct, InTable
<1>7. SpacesOK
  BY <1>1 DEF SpacesOK, Live
<1>8. RefCountExact
  <2>1. \A v \in Slots : Holders(v) = {}
    BY <1>1, Zenon DEF Holders
  <2> QED  BY <1>1, <2>1, FS_EmptySet, Zenon DEF RefCountExact
<1>9. ActiveExact
  <2>1. LiveSlots \ {Idle} = {}
    BY <1>1, Zenon DEF LiveSlots, Live
  <2> QED  BY <1>1, <2>1, FS_EmptySet DEF ActiveExact
<1> QED  BY <1>2, <1>3, <1>4, <1>5, <1>6, <1>7, <1>8, <1>9 DEF IInv

(* The steps that end in schedule().                                       *)
LEMMA YieldStep ==
  ASSUME IInv, NEW p \in Slots, Yields(p)
  PROVE  IInv' /\ LifeStep
<1>1. TypeOK /\ at \in [Slots -> Places] /\ at[Idle] \in KernelPlaces
  BY Zenon DEF IInv, TypeOK, PlacesOK
<1>2. ASSUME p = current, at[p] \in {"user", "exit", "exec", "join"},
             Schedule(runQueue, state), UNCHANGED <<procVars, at, waitFor>>
      PROVE  IInv' /\ LifeStep
  <2>1. at' = at /\ UNCHANGED <<procVars, waitFor>> /\ at[current] # "config"
    BY <1>2
  <2>2. \A s \in Slots : /\ at'[s] \in WaitPlaces => at[s] \in WaitPlaces
                         /\ at'[s] = "config" => at[s] = "config"
                         /\ at[s] = "kthread" => at'[s] = "kthread"
    BY <2>1
  <2>3. at' \in [Slots -> Places] /\ at'[Idle] \in KernelPlaces
    BY <1>1, <2>1
  <2> QED  BY <1>2, <2>1, <2>2, <2>3, ScheduleStep
<1>3. CASE sys_yield(p)
  BY <1>2, <1>3 DEF sys_yield, RunningAt
<1>4. CASE SleepSwitch(p)
  <2>1. /\ p = current /\ at[p] = "sleep" /\ Schedule(runQueue, state)
        /\ at' = [at EXCEPT ![p] = "user"] /\ UNCHANGED <<procVars, waitFor>>
    BY <1>4 DEF SleepSwitch, RunningAt
  <2>2. p # Idle
    BY <1>1, <2>1 DEF KernelPlaces
  <2>3. at' \in [Slots -> Places] /\ \A s \in Slots : at'[s] = IF s = p THEN "user" ELSE at[s]
    BY <1>1, <2>1 DEF Places
  <2>4. \A s \in Slots : /\ at'[s] \in WaitPlaces => at[s] \in WaitPlaces
                         /\ at'[s] = "config" => at[s] = "config"
                         /\ at[s] = "kthread" => at'[s] = "kthread"
    BY <2>1, <2>3 DEF WaitPlaces
  <2>5. at'[Idle] \in KernelPlaces /\ at[current] # "config"
    BY <1>1, <2>1, <2>2, <2>3, SlotFacts
  <2> QED  BY <2>1, <2>3, <2>4, <2>5, ScheduleStep
<1>5. CASE ExitSwitch(p)
  BY <1>2, <1>5 DEF ExitSwitch, RunningAt
<1>6. CASE exception_handler(p)
  BY <1>6, FaultStep
<1>7. CASE ExecWait(p)
  BY <1>2, <1>7 DEF ExecWait, RunningAt
<1>8. CASE JoinWait(p)
  BY <1>2, <1>8 DEF JoinWait, RunningAt
<1> QED  BY <1>3, <1>4, <1>5, <1>6, <1>7, <1>8 DEF Yields

(* A slot that alloc_process hands out is nobody's.                        *)
LEMMA FreshSlot ==
  ASSUME IInv, CanCreate, state[current] = "RUNNING"
  PROVE  /\ alloc_process \in Slots /\ alloc_process \notin {current, Idle}
         /\ alloc_pid \in Nat
<1>1. /\ FreeSlots \in SUBSET Nat /\ FreeSlots # {}
      /\ FreePids \in SUBSET Nat /\ FreePids # {}
  <2>1. FreeSlots \in SUBSET Nat
    BY SlotFacts, Zenon DEF FreeSlots
  <2>2. FreePids \in SUBSET Nat
    BY MaxProcessesAssumption DEF FreePids
  <2> QED  BY <2>1, <2>2 DEF CanCreate
<1>2. Min(FreeSlots) \in FreeSlots /\ Min(FreePids) \in FreePids
  BY <1>1, MinProperties
<1>3. alloc_process \in Slots /\ state[alloc_process] = "UNUSED" /\ alloc_pid \in Nat
  BY <1>1, <1>2, ZenonT(60) DEF FreeSlots, alloc_process, alloc_pid
<1> QED  BY <1>3, Facts

(* The other system calls.                                                 *)
LEMMA WorkStep ==
  ASSUME IInv, NEW p \in Slots, Works(p)
  PROVE  IInv' /\ LifeStep
<1>1. /\ TypeOK /\ PlacesOK /\ at \in [Slots -> Places] /\ waitFor \in [Slots -> Nat]
      /\ at[Idle] \in KernelPlaces
  BY Zenon DEF IInv, TypeOK, PlacesOK
<1> DEFINE a == alloc_process
<1>2. CASE \E d \in SLEEPS : process_sleep_until(p, d)
  BY <1>2, SleepStep
<1>3. CASE process_exit_value(p)
  BY <1>3, ExitStep
<1>4. CASE process_spawn(p)
  <2>1. /\ p = current /\ at[p] \in {"user", "launch"} /\ CanCreate
        /\ Create(a, alloc_pid, alloc_pid, None, p)
        /\ at' = [at EXCEPT ![a] = "user", ![p] = "config"]
        /\ waitFor' = [waitFor EXCEPT ![p] = a]
    BY <1>4 DEF process_spawn, RunningAt
  <2>2. state[current] = "RUNNING"
    BY <2>1, Facts
  <2>3. a \in Slots /\ a \notin {current, Idle} /\ alloc_pid \in Nat /\ a \in Nat
    BY <2>1, <2>2, FreshSlot, SlotFacts, ZenonT(60)
  <2>4. /\ at' \in [Slots -> Places] /\ waitFor' \in [Slots -> Nat]
        /\ \A s \in Slots : /\ at'[s] = IF s = p THEN "config" ELSE IF s = a THEN "user" ELSE at[s]
                            /\ waitFor'[s] = IF s = p THEN a ELSE waitFor[s]
    BY <1>1, <2>1, <2>3 DEF Places
  <2>5. at'[Idle] \in KernelPlaces
    BY <1>1, <2>3, <2>4, SlotFacts DEF KernelPlaces
  <2>6. /\ \A s \in Slots \ {p, a} : at'[s] = at[s] /\ waitFor'[s] = waitFor[s]
        /\ at'[a] = "user" /\ at'[p] = "config" /\ waitFor'[p] = a
    BY <2>1, <2>3, <2>4, SMTT(60)
  <2> QED  BY <2>1, <2>3, <2>4, <2>5, <2>6, CreateStep, Zenon
<1>5. CASE process_configure_image(p)
  BY <1>5, ConfigureStep
<1>6. CASE process_discard(p)
  BY <1>6, DiscardStep
<1>7. CASE ExecReturn(p)
  <2>1. p = current /\ at[p] = "exec" /\ process_reap(waitFor[p], p, "user")
    BY <1>7, SMTT(60) DEF ExecReturn, RunningAt
  <2>2. waitFor[p] \in Slots /\ state[p] = "RUNNING" /\ p # Idle
    BY <1>1, <2>1, Facts DEF PlacesOK, WaitPlaces, KernelPlaces
  <2>3. "user" \in Places \ (WaitPlaces \cup {"kthread", "sleep", "exit"})
    BY SMTT(60) DEF Places, WaitPlaces
  <2> QED  BY <2>1, <2>2, <2>3, ReapStep, SMTT(60)
<1>8. CASE sys_thread_create(p)
  <2>1. /\ p = current /\ at[p] = "user" /\ vm[p] # None /\ CanCreate
        /\ Create(a, alloc_pid, group[p], vm[p], None)
        /\ at' = [at EXCEPT ![a] = "user"] /\ waitFor' = waitFor
    BY <1>8, SMTT(60) DEF sys_thread_create, RunningAt
  <2>2. state[current] = "RUNNING" /\ group[p] \in Nat /\ vm[p] \in Slots \cup {None}
    BY <1>1, <2>1, Facts, ZenonT(60) DEF TypeOK
  <2>3. a \in Slots /\ a \notin {current, Idle} /\ alloc_pid \in Nat
    BY <2>1, <2>2, FreshSlot, ZenonT(60)
  <2>4. /\ at' \in [Slots -> Places] /\ waitFor' \in [Slots -> Nat]
        /\ \A s \in Slots : at'[s] = IF s = a THEN "user" ELSE at[s]
    BY <1>1, <2>1, <2>3 DEF Places
  <2>5. at'[Idle] \in KernelPlaces
    BY <1>1, <2>3, <2>4, SlotFacts, SMTT(60)
  <2>6. /\ \A s \in Slots \ {p, a} : at'[s] = at[s] /\ waitFor'[s] = waitFor[s]
        /\ at'[a] = "user" /\ at'[p] = "user" /\ "user" \notin WaitPlaces
    BY <2>1, <2>3, <2>4, SMTT(60) DEF WaitPlaces
  <2> QED  BY <2>1, <2>2, <2>3, <2>4, <2>5, <2>6, CreateStep, SMTT(60)
<1>9. CASE \E tid \in 1..(MAX_PROCESSES - 1) : sys_thread_join(p, tid)
  <2>1. PICK tid \in 1..(MAX_PROCESSES - 1) : sys_thread_join(p, tid)
    BY <1>9, SMTT(60)
  <2>2. /\ p = current /\ at[p] = "user" /\ at' = [at EXCEPT ![p] = "join"]
        /\ waitFor' = [waitFor EXCEPT ![p] = tid] /\ UNCHANGED <<schedVars, procVars>>
    BY <2>1 DEF sys_thread_join, RunningAt
  <2>3. state[current] = "RUNNING" /\ p # Idle /\ tid \in Nat
    BY <1>1, <2>2, Facts, MaxProcessesAssumption DEF KernelPlaces
  <2>4. /\ at' \in [Slots -> Places] /\ waitFor' \in [Slots -> Nat]
        /\ \A s \in Slots : /\ at'[s] = IF s = p THEN "join" ELSE at[s]
                            /\ s # p => waitFor'[s] = waitFor[s]
    BY <1>1, <2>2, <2>3 DEF Places
  <2>5. \A s \in Slots : /\ at'[s] \in WaitPlaces => at[s] \in WaitPlaces /\ waitFor'[s] = waitFor[s]
                         /\ at'[s] = "config" => at[s] = "config"
                         /\ at[s] = "kthread" => at'[s] = "kthread"
    BY <2>2, <2>4, SMTT(60) DEF WaitPlaces
  <2>6. at'[Idle] \in KernelPlaces /\ at[current] # "config"
    BY <1>1, <2>2, <2>3, <2>4, SlotFacts, SMTT(60)
  <2> QED  BY <2>2, <2>3, <2>4, <2>5, <2>6, MoveStep
<1>10. CASE JoinReturn(p)
  <2>1. PICK s \in scheduler_find_process(waitFor[p]) : process_reap(s, p, "user")
    BY <1>10 DEF JoinReturn
  <2>2. p = current /\ at[p] = "join" /\ s \in Slots
    BY <1>10 DEF JoinReturn, RunningAt, scheduler_find_process, InTable
  <2>3. state[p] = "RUNNING" /\ p # Idle
    BY <1>1, <2>2, Facts DEF KernelPlaces
  <2>4. "user" \in Places \ (WaitPlaces \cup {"kthread", "sleep", "exit"})
    BY DEF Places, WaitPlaces
  <2> QED  BY <2>1, <2>2, <2>3, <2>4, ReapStep
<1>11. CASE JoinLost(p)
  <2>1. /\ p = current /\ at[p] = "join" /\ at' = [at EXCEPT ![p] = "user"]
        /\ waitFor' = [waitFor EXCEPT ![p] = 0] /\ UNCHANGED <<schedVars, procVars>>
    BY <1>11 DEF JoinLost, RunningAt
  <2>2. state[current] = "RUNNING" /\ p # Idle
    BY <1>1, <2>1, Facts DEF KernelPlaces
  <2>3. /\ at' \in [Slots -> Places] /\ waitFor' \in [Slots -> Nat]
        /\ \A s \in Slots : /\ at'[s] = IF s = p THEN "user" ELSE at[s]
                            /\ s # p => waitFor'[s] = waitFor[s]
    BY <1>1, <2>1 DEF Places
  <2>4. \A s \in Slots : /\ at'[s] \in WaitPlaces => at[s] \in WaitPlaces /\ waitFor'[s] = waitFor[s]
                         /\ at'[s] = "config" => at[s] = "config"
                         /\ at[s] = "kthread" => at'[s] = "kthread"
    BY <2>1, <2>3 DEF WaitPlaces
  <2>5. at'[Idle] \in KernelPlaces /\ at[current] # "config"
    BY <1>1, <2>1, <2>2, <2>3, SlotFacts
  <2> QED  BY <2>1, <2>2, <2>3, <2>4, <2>5, MoveStep, SMTT(60)
<1> QED
  BY <1>2, <1>3, <1>4, <1>5, <1>6, <1>7, <1>8, <1>9, <1>10, <1>11 DEF Works

(* The steps of kernel_main.                                               *)
LEMMA KernelStep ==
  ASSUME IInv, KernelYields \/ KernelWorks \/ Relaunch
  PROVE  IInv' /\ LifeStep
<1> DEFINE a == alloc_process
<1>1. /\ TypeOK /\ PlacesOK /\ at \in [Slots -> Places] /\ waitFor \in [Slots -> Nat]
      /\ at[Idle] \in KernelPlaces /\ Idle \in Slots
  BY SlotFacts, Zenon DEF IInv, TypeOK, PlacesOK
<1>2. ASSUME current = Idle, at[Idle] \in {"probe", "init"}, NEW place \in {"probe", "resumed"},
             Schedule(runQueue, state), UNCHANGED <<procVars, waitFor>>,
             at' = [at EXCEPT ![Idle] = place]
      PROVE  IInv' /\ LifeStep
  <2>1. at' \in [Slots -> Places] /\ \A s \in Slots : at'[s] = IF s = Idle THEN place ELSE at[s]
    BY <1>1, <1>2 DEF Places
  <2>2. at'[Idle] \in KernelPlaces /\ at[current] # "config"
    BY <1>1, <1>2, <2>1 DEF KernelPlaces
  <2>3. \A s \in Slots : /\ at'[s] \in WaitPlaces => at[s] \in WaitPlaces
                         /\ at'[s] = "config" => at[s] = "config"
                         /\ at[s] = "kthread" => at'[s] = "kthread"
    BY <1>2, <2>1 DEF WaitPlaces
  <2> QED  BY <1>2, <2>1, <2>2, <2>3, ScheduleStep
<1>3. ASSUME current = Idle, at[Idle] \in {"boot", "launch", "resumed", "keyboard"},
             NEW place \in {"launch", "keyboard", "init", "hlt"},
             place \in {"init", "hlt"} => at[Idle] = "resumed",
             at' = [at EXCEPT ![Idle] = place], UNCHANGED <<schedVars, procVars, waitFor>>
      PROVE  IInv' /\ LifeStep
  <2>1. at' \in [Slots -> Places] /\ \A s \in Slots : at'[s] = IF s = Idle THEN place ELSE at[s]
    BY <1>1, <1>3 DEF Places
  <2>2. at'[Idle] \in KernelPlaces /\ at[current] # "config" /\ state[current] = "RUNNING"
    BY <1>1, <1>3, <2>1, Facts DEF KernelPlaces
  <2>3. waitFor' = waitFor
    BY <1>3
  <2>4. \A s \in Slots : /\ at'[s] \in WaitPlaces => at[s] \in WaitPlaces /\ waitFor'[s] = waitFor[s]
                         /\ at'[s] = "config" => at[s] = "config"
                         /\ at[s] = "kthread" => at'[s] = "kthread"
    BY <1>3, <2>1, <2>3 DEF WaitPlaces
  <2> QED  BY <1>1, <1>3, <2>1, <2>2, <2>3, <2>4, MoveStep
<1>4. ASSUME current = Idle, at[Idle] \in {"probe", "init"}, NEW place \in {"launch", "keyboard"},
             process_reap(waitFor[Idle], Idle, place)
      PROVE  IInv' /\ LifeStep
  <2>1. waitFor[Idle] \in Slots /\ state[Idle] = "RUNNING"
    BY <1>1, <1>4, Facts DEF PlacesOK, WaitPlaces
  <2>2. /\ place \in Places \ (WaitPlaces \cup {"kthread", "sleep", "exit"})
        /\ place \in KernelPlaces /\ at[Idle] \notin {"config", "kthread"}
    BY <1>4 DEF Places, WaitPlaces, KernelPlaces
  <2> QED  BY <1>4, <2>1, <2>2, ReapStep
<1>5. CASE ProbeWait
  <2>1. /\ current = Idle /\ at[Idle] = "probe" /\ Schedule(runQueue, state)
        /\ UNCHANGED <<procVars, waitFor>> /\ at' = at
    BY <1>5 DEF ProbeWait, RunningAt
  <2>2. at = [at EXCEPT ![Idle] = "probe"]
    BY <1>1, <2>1
  <2> QED  BY <1>2, <2>1, <2>2
<1>6. CASE InitWait
  BY <1>2, <1>6 DEF InitWait, RunningAt
<1>7. CASE SpawnProbe
  <2>1. /\ Idle = current /\ at[Idle] = "boot" /\ CanCreate
        /\ Create(a, alloc_pid, alloc_pid, None, Idle)
        /\ at' = [at EXCEPT ![a] = "kthread", ![Idle] = "probe"]
        /\ waitFor' = [waitFor EXCEPT ![Idle] = a]
    BY <1>7 DEF SpawnProbe, RunningAt
  <2>2. state[current] = "RUNNING"
    BY <2>1, Facts
  <2>3. a \in Slots /\ a # Idle /\ alloc_pid \in Nat /\ a \in Nat
    BY <2>1, <2>2, FreshSlot, SlotFacts, Zenon
  <2>4. /\ at' \in [Slots -> Places] /\ waitFor' \in [Slots -> Nat]
        /\ \A s \in Slots : /\ at'[s] = IF s = Idle THEN "probe" ELSE IF s = a THEN "kthread" ELSE at[s]
                            /\ waitFor'[s] = IF s = Idle THEN a ELSE waitFor[s]
    BY <1>1, <2>1, <2>3 DEF Places
  <2>5. /\ \A s \in Slots \ {Idle, a} : at'[s] = at[s] /\ waitFor'[s] = waitFor[s]
        /\ at'[a] = "kthread" /\ at'[Idle] = "probe" /\ waitFor'[Idle] = a
        /\ "probe" \in KernelPlaces
    BY <1>1, <2>1, <2>3, <2>4 DEF KernelPlaces
  <2> QED  BY <1>1, <2>1, <2>3, <2>4, <2>5, CreateStep, Zenon
<1>8. CASE SkipProbe
  BY <1>3, <1>8 DEF SkipProbe, RunningAt
<1>9. CASE ProbeReap
  BY <1>4, <1>9 DEF ProbeReap, RunningAt
<1>10. CASE LaunchFails
  BY <1>3, <1>10 DEF LaunchFails, RunningAt
<1>11. CASE InitResumed
  <2>1. PICK place \in {"init", "hlt"} : at' = [at EXCEPT ![Idle] = place]
    BY <1>11, Zenon DEF InitResumed
  <2> QED  BY <1>3, <1>11, <2>1, Zenon DEF InitResumed, RunningAt
<1>12. CASE InitReap
  BY <1>4, <1>12 DEF InitReap, RunningAt
<1>13. CASE Relaunch
  BY <1>3, <1>13 DEF Relaunch, RunningAt
<1> QED
  BY <1>5, <1>6, <1>7, <1>8, <1>9, <1>10, <1>11, <1>12, <1>13 DEF KernelYields, KernelWorks

(* Every step keeps the inductive invariant and follows the life cycle.    *)
LEMMA NextStep == IInv /\ [Next]_vars => IInv' /\ [LifeStep]_vars
<1> SUFFICES ASSUME IInv, [Next]_vars PROVE IInv' /\ [LifeStep]_vars
  OBVIOUS
<1>1. CASE UNCHANGED vars
  <2>1. UNCHANGED <<state, runQueue, current, wakeIn, ticksLeft, pid, group, vm,
                    refCount, active, spawner, at, waitFor>>
    BY <1>1 DEF vars, schedVars, procVars
  <2>2. TypeOK' /\ QueueHoldsLive' /\ CurrentIsRunning' /\ PlacesOK'
    BY <2>1, Zenon DEF IInv, TypeOK, QueueHoldsLive, LiveSlots, CurrentIsRunning, PlacesOK
  <2>3. PidsDistinct' /\ SpacesOK' /\ RefCountExact' /\ ActiveExact'
    BY <2>1 DEF IInv, PidsDistinct, InTable, SpacesOK, RefCountExact, Holders, ActiveExact, LiveSlots
  <2> QED  BY <1>1, <2>2, <2>3 DEF IInv
<1>2. CASE \E p \in Slots : Yields(p) \/ Works(p)
  BY <1>2, YieldStep, WorkStep
<1>3. CASE KernelYields \/ KernelWorks \/ Relaunch
  BY <1>3, KernelStep
<1>4. CASE scheduler_tick
  BY <1>4, TickStep
<1> QED  BY <1>1, <1>2, <1>3, <1>4 DEF Next

(* For every number of process slots, every behaviour of the scheduler     *)
(* keeps the inductive invariant.                                          *)
THEOREM Invariance == Spec => []IInv
<1>1. Init => IInv
  BY InitIInv
<1>2. IInv /\ [Next]_vars => IInv'
  BY NextStep
<1> QED  BY <1>1, <1>2, PTL DEF Spec

(* The state of the scheduler always has its type.                         *)
THEOREM TypeCorrect == Spec => []TypeOK
<1>1. IInv => TypeOK
  BY DEF IInv
<1> QED  BY <1>1, Invariance, PTL

(* The run queue holds exactly the live processes, each once, idle first.  *)
THEOREM QueueCorrect == Spec => []QueueHoldsLive
<1>1. IInv => QueueHoldsLive
  BY DEF IInv
<1> QED  BY <1>1, Invariance, PTL

(* After every schedule() exactly the current process is RUNNING, and idle *)
(* is there to be picked.                                                  *)
THEOREM OneRunning == Spec => []CurrentIsRunning
<1>1. IInv => CurrentIsRunning
  BY DEF IInv
<1> QED  BY <1>1, Invariance, PTL

(* No two processes in the table have the same pid.                        *)
THEOREM PidsCorrect == Spec => []PidsDistinct
<1>1. IInv => PidsDistinct
  BY DEF IInv
<1> QED  BY <1>1, Invariance, PTL

(* ref_count of an address space is the number of its processes.           *)
THEOREM RefCountsCorrect == Spec => []RefCountExact
<1>1. IInv => RefCountExact
  BY DEF IInv
<1> QED  BY <1>1, Invariance, PTL

(* No user process runs before its address space is attached.              *)
THEOREM SpaceAttached == Spec => []RunsInOwnSpace
<1>1. IInv => RunsInOwnSpace
  <2> SUFFICES ASSUME IInv, NEW s \in Slots \ {Idle}, state[s] = "RUNNING", at[s] # "kthread"
               PROVE  vm[s] # None
    BY DEF RunsInOwnSpace
  <2>1. s = current /\ state[s] \in Live
    BY Facts DEF Live
  <2>2. at[current] = "config" => waitFor[current] # s
    BY <2>1 DEF IInv, PlacesOK
  <2> QED  BY <2>1, <2>2 DEF IInv, SpacesOK
<1> QED  BY <1>1, Invariance, PTL

(* active_processes counts the live processes besides idle.                *)
THEOREM ActiveCorrect == Spec => []ActiveExact
<1>1. IInv => ActiveExact
  BY DEF IInv
<1> QED  BY <1>1, Invariance, PTL

(* Every process follows the life cycle of scheduler.h.                    *)
THEOREM LifeCycleCorrect == Spec => LifeCycle
<1>1. IInv /\ [Next]_vars => [LifeStep]_vars
  BY NextStep
<1> QED  BY <1>1, Invariance, PTL DEF Spec, LifeCycle

-----------------------------------------------------------------------------
(* Nobody reaps init before kernel_main has seen it end.                   *)

(* kernel_main waits for the probe thread or for init.                     *)
InitWaits == at[Idle] \in {"probe", "init", "resumed", "hlt"}

(* What InitStays rests on: when the process kernel_main waits for dies,   *)
(* the processor goes from it straight to kernel_main, so that nobody else *)
(* ever sees the ZOMBIE; and only its creator discards a process that is   *)
(* being configured.                                                       *)
StayInv ==
  /\ InitWaits =>
       /\ state[waitFor[Idle]] # "UNUSED" /\ spawner[waitFor[Idle]] = Idle
       /\ state[waitFor[Idle]] = "ZOMBIE" =>
            current = Idle \/ (current = waitFor[Idle] /\ at[current] = "exit")
  /\ \A p \in Slots : at[p] = "config" => spawner[waitFor[p]] = p

(* A step that leaves kernel_main where it waits, the creators as they are *)
(* and the process waited for alive keeps StayInv.                         *)
LEMMA StayKept ==
  ASSUME IInv, StayInv, LifeStep,
         InitWaits' => /\ InitWaits /\ waitFor'[Idle] = waitFor[Idle]
                       /\ spawner'[waitFor[Idle]] = spawner[waitFor[Idle]]
                       /\ state'[waitFor[Idle]] # "UNUSED"
                       /\ state'[waitFor[Idle]] = "ZOMBIE" =>
                            \/ current' = Idle
                            \/ current' = waitFor[Idle] /\ at'[current'] = "exit",
         \A p \in Slots : at'[p] = "config" =>
            at[p] = "config" /\ waitFor'[p] = waitFor[p] /\ spawner'[waitFor[p]] = spawner[waitFor[p]]
  PROVE  StayInv'
BY SMTT(30) DEF StayInv

(* The same for a step that ends in schedule(), called by a process that   *)
(* is not dead, or that is.                                                *)
LEMMA StaySchedule ==
  ASSUME IInv, StayInv, LifeStep, NEW q, NEW sts \in [Slots -> States],
         Queues(q, LiveIn(sts), Idle), Schedule(q, sts),
         \A s \in Slots : sts[s] = "RUNNING" => s = current,
         sts[Idle] = IF current = Idle THEN "RUNNING" ELSE "READY",
         \A s \in Slots : sts[s] # state[s] => s = current /\ sts[s] = "ZOMBIE",
         InitWaits' => InitWaits /\ ~ (current = Idle /\ state[waitFor[Idle]] = "ZOMBIE"),
         UNCHANGED <<waitFor, spawner>>,
         \A p \in Slots : at'[p] = "config" => at[p] = "config"
  PROVE  StayInv'
<1>1. TypeOK /\ Idle \in Slots /\ current \in Slots
  BY SlotFacts, Zenon DEF IInv, TypeOK
<1>2. /\ \A s \in Slots : state'[s] # sts[s] =>
           \/ sts[s] = "READY" /\ state'[s] = "RUNNING"
           \/ sts[s] = "RUNNING" /\ state'[s] = "READY" /\ s = current
           \/ sts[s] = "BLOCKED" /\ state'[s] \in {"READY", "RUNNING"}
  BY <1>1, ScheduleLemma, SMTT(30)
<1>3. sts[current] = "ZOMBIE" /\ current # Idle => current' = Idle
  BY <1>1, DeadYieldsToIdle
<1>4. ASSUME InitWaits'
      PROVE  LET w == waitFor[Idle] IN
             /\ state'[w] # "UNUSED"
             /\ state'[w] = "ZOMBIE" => current' = Idle
  <2> DEFINE w == waitFor[Idle]
  <2>1. InitWaits /\ w \in Slots /\ state[w] # "UNUSED"
    <3>1. InitWaits
      BY <1>4
    <3> QED  BY <1>1, <3>1 DEF IInv, PlacesOK, WaitPlaces, InitWaits, StayInv
  <2>2. state'[w] # "UNUSED" /\ (state'[w] = "ZOMBIE" => sts[w] = "ZOMBIE")
    BY <1>2, <2>1
  <2>3. sts[w] = "ZOMBIE" => current # Idle /\ sts[current] = "ZOMBIE"
    BY <1>1, <1>4, <2>1 DEF StayInv, InitWaits
  <2> QED  BY <1>3, <2>2, <2>3, SMTT(30)
<1> QED  BY <1>4, StayKept

(* The system calls of a process other than kernel_main.                   *)
LEMMA StayYield ==
  ASSUME IInv, StayInv, LifeStep, NEW p \in Slots, Yields(p)
  PROVE  StayInv'
<1>1. TypeOK /\ Idle \in Slots /\ at[Idle] \in KernelPlaces /\ at \in [Slots -> Places]
  BY SlotFacts, Zenon DEF IInv, TypeOK, PlacesOK
<1>2. ASSUME p = current, at[p] \in {"user", "sleep", "exit", "exec", "join"},
             Schedule(runQueue, state), UNCHANGED <<procVars, waitFor>>,
             at' = at \/ at' = [at EXCEPT ![p] = "user"]
      PROVE  StayInv'
  <2>1. p # Idle /\ UNCHANGED <<waitFor, spawner>>
    BY <1>1, <1>2 DEF KernelPlaces, procVars
  <2>2. at'[Idle] = at[Idle] /\ \A s \in Slots : at'[s] = "config" => at[s] = "config"
    BY <1>1, <1>2, <2>1
  <2>3. /\ state \in [Slots -> States] /\ Queues(runQueue, LiveIn(state), Idle)
        /\ \A s \in Slots : state[s] = "RUNNING" => s = current
        /\ state[Idle] = IF current = Idle THEN "RUNNING" ELSE "READY"
    BY Facts
  <2>4. InitWaits' => InitWaits
    BY <2>2 DEF InitWaits
  <2> QED  BY <1>2, <2>1, <2>2, <2>3, <2>4, StaySchedule
<1>3. CASE sys_yield(p)
  BY <1>2, <1>3 DEF sys_yield, RunningAt
<1>4. CASE SleepSwitch(p)
  BY <1>2, <1>4 DEF SleepSwitch, RunningAt
<1>5. CASE ExitSwitch(p)
  BY <1>2, <1>5 DEF ExitSwitch, RunningAt
<1>6. CASE exception_handler(p)
  <2> DEFINE z == [state EXCEPT ![p] = "ZOMBIE"]
             q == Dequeue(runQueue, p)
  <2>1. /\ p = current /\ at[p] = "user" /\ process_mark_zombie(p) /\ Schedule(q, z)
        /\ at' = [at EXCEPT ![p] = "exit"] /\ waitFor' = waitFor
    BY <1>6 DEF exception_handler, RunningAt
  <2>2. /\ p # Idle /\ z \in [Slots -> States] /\ Queues(q, LiveIn(z), Idle)
        /\ spawner' = spawner
    BY <2>1, MarkZombie, Zenon
  <2>3. /\ \A s \in Slots : z[s] = IF s = p THEN "ZOMBIE" ELSE state[s]
        /\ \A s \in Slots : state[s] = "RUNNING" => s = current
        /\ state[Idle] = "READY"
    BY <2>1, <2>2, Facts
  <2>4. /\ \A s \in Slots : z[s] = "RUNNING" => s = current
        /\ z[Idle] = IF current = Idle THEN "RUNNING" ELSE "READY"
        /\ \A s \in Slots : z[s] # state[s] => s = current /\ z[s] = "ZOMBIE"
    BY <1>1, <2>1, <2>2, <2>3
  <2>5. at'[Idle] = at[Idle] /\ \A s \in Slots : at'[s] = "config" => at[s] = "config"
    BY <1>1, <2>1, <2>2
  <2>6. InitWaits' => InitWaits /\ current # Idle
    BY <2>1, <2>2, <2>5 DEF InitWaits
  <2> HIDE DEF z, q
  <2> QED  BY <2>1, <2>2, <2>4, <2>5, <2>6, StaySchedule
<1>7. CASE ExecWait(p)
  BY <1>2, <1>7 DEF ExecWait, RunningAt
<1>8. CASE JoinWait(p)
  BY <1>2, <1>8 DEF JoinWait, RunningAt
<1> QED  BY <1>3, <1>4, <1>5, <1>6, <1>7, <1>8 DEF Yields

(* process_reap by a process other than kernel_main never meets the one    *)
(* that kernel_main waits for.                                             *)
LEMMA StayReap ==
  ASSUME IInv, StayInv, LifeStep, NEW p \in Slots, p = current, at[p] \in {"exec", "join"},
         NEW s \in Slots, process_reap(s, p, "user")
  PROVE  StayInv'
<1>1. /\ at \in [Slots -> Places] /\ spawner \in [Slots -> Slots \cup {None}]
      /\ state \in [Slots -> States] /\ waitFor \in [Slots -> Nat] /\ Idle \in Slots /\ p # Idle
  BY SlotFacts, Zenon DEF IInv, TypeOK, PlacesOK, KernelPlaces
<1>2. /\ waitFor' = [waitFor EXCEPT ![p] = 0] /\ current' = current
      /\ \/ /\ state[s] = "ZOMBIE" /\ state' = [state EXCEPT ![s] = "UNUSED"]
            /\ spawner' = [spawner EXCEPT ![s] = None]
            /\ at' = [at EXCEPT ![s] = "user", ![p] = "user"]
         \/ state' = state /\ spawner' = spawner /\ at' = [at EXCEPT ![p] = "user"]
  BY DEF process_reap, free_process
<1>3. InitWaits => waitFor[Idle] \in Slots /\ state[waitFor[Idle]] # "ZOMBIE"
  BY <1>1 DEF InitWaits, StayInv, IInv, PlacesOK, WaitPlaces
<1>4. \A t \in Slots : at'[t] = "config" => at[t] = "config"
  BY <1>1, <1>2
<1>5. \A t \in Slots : at[t] # "config"
  BY <1>1 DEF IInv, PlacesOK
<1>6. InitWaits' => InitWaits
  <2>1. at'[Idle] \in {at[Idle], "user"}
    BY <1>1, <1>2
  <2> QED  BY <2>1 DEF InitWaits
<1>7. waitFor'[Idle] = waitFor[Idle]
  BY <1>1, <1>2
<1>8. InitWaits => /\ state'[waitFor[Idle]] = state[waitFor[Idle]]
                   /\ spawner'[waitFor[Idle]] = spawner[waitFor[Idle]]
  BY <1>1, <1>2, <1>3
<1>9. InitWaits => state[waitFor[Idle]] # "UNUSED"
  BY DEF StayInv
<1> QED  BY <1>3, <1>4, <1>5, <1>6, <1>7, <1>8, <1>9, StayKept

(* Filling a fresh slot touches nothing that kernel_main waits for.        *)
LEMMA StayCreate ==
  ASSUME IInv, StayInv, LifeStep, CanCreate, state[current] = "RUNNING", at[current] # "config",
         NEW n, NEW g, NEW space, NEW creator,
         Create(alloc_process, n, g, space, creator),
         InitWaits' => \/ InitWaits /\ waitFor'[Idle] = waitFor[Idle]
                       \/ waitFor'[Idle] = alloc_process /\ creator = Idle,
         \A p \in Slots : at'[p] = "config" =>
            at[p] = "config" \/ (waitFor'[p] = alloc_process /\ creator = p)
  PROVE  StayInv'
<1> DEFINE a == alloc_process
<1>1. /\ spawner \in [Slots -> Slots \cup {None}] /\ state \in [Slots -> States]
      /\ Idle \in Slots /\ a \in Slots /\ state[a] = "UNUSED"
  <2>1. FreeSlots \in SUBSET Nat /\ FreeSlots # {}
    BY SlotFacts, Zenon DEF FreeSlots, CanCreate
  <2>2. a \in FreeSlots
    BY <2>1, MinProperties DEF alloc_process
  <2> QED  BY <2>2, SlotFacts, Zenon DEF IInv, TypeOK, FreeSlots
<1> HIDE DEF a
<1>2. /\ state' = [state EXCEPT ![a] = "READY"] /\ spawner' = [spawner EXCEPT ![a] = creator]
      /\ current' = current
  BY DEF Create, a
<1>3. \A p \in Slots : at[p] # "config"
  BY DEF IInv, PlacesOK
<1>4. InitWaits => waitFor[Idle] \in Slots /\ waitFor[Idle] # a
  BY <1>1, SMTT(30) DEF InitWaits, StayInv, IInv, PlacesOK, WaitPlaces
<1>5. InitWaits /\ InitWaits' /\ state[waitFor[Idle]] = "ZOMBIE" => current = Idle
  <2>1. InitWaits /\ state[waitFor[Idle]] = "ZOMBIE" => current = Idle \/ current = waitFor[Idle]
    BY SMTT(30) DEF StayInv
  <2> QED  BY <2>1, SMTT(30)
<1>6. CASE InitWaits /\ waitFor'[Idle] = waitFor[Idle]
  <2>1. /\ state'[waitFor[Idle]] = state[waitFor[Idle]]
        /\ spawner'[waitFor[Idle]] = spawner[waitFor[Idle]]
    BY <1>1, <1>2, <1>4, <1>6
  <2>2. /\ state[waitFor[Idle]] # "UNUSED" /\ spawner[waitFor[Idle]] = Idle
    BY <1>6 DEF StayInv
  <2>3. \A p \in Slots : at'[p] = "config" => spawner'[waitFor'[p]] = p
    BY <1>1, <1>2, <1>3 DEF a
  <2> QED  BY <1>2, <1>5, <1>6, <2>1, <2>2, <2>3 DEF StayInv
<1>7. CASE ~ InitWaits'
  BY <1>1, <1>2, <1>3, <1>7 DEF StayInv, a
<1>8. CASE waitFor'[Idle] = a /\ creator = Idle
  BY <1>1, <1>2, <1>3, <1>8 DEF StayInv, a
<1> QED  BY <1>6, <1>7, <1>8 DEF a

(* The other system calls.                                                 *)
LEMMA StayWork ==
  ASSUME IInv, StayInv, LifeStep, NEW p \in Slots, Works(p)
  PROVE  StayInv'
<1>1. /\ TypeOK /\ Idle \in Slots /\ at[Idle] \in KernelPlaces /\ at \in [Slots -> Places]
      /\ state \in [Slots -> States] /\ waitFor \in [Slots -> Nat]
      /\ spawner \in [Slots -> Slots \cup {None}]
  BY SlotFacts, Zenon DEF IInv, TypeOK, PlacesOK
<1>2. InitWaits => /\ waitFor[Idle] \in Slots /\ state[waitFor[Idle]] # "UNUSED"
                   /\ state[waitFor[Idle]] = "ZOMBIE" =>
                       current = Idle \/ (current = waitFor[Idle] /\ at[current] = "exit")
  BY <1>1 DEF InitWaits, StayInv, IInv, PlacesOK, WaitPlaces
<1>3. CASE \E d \in SLEEPS : process_sleep_until(p, d)
  <2>1. /\ p = current /\ at[p] = "user" /\ state' = [state EXCEPT ![p] = "BLOCKED"]
        /\ at' = [at EXCEPT ![p] = "sleep"] /\ UNCHANGED <<current, waitFor, spawner>>
    BY <1>3 DEF process_sleep_until, RunningAt, procVars
  <2>2. p # Idle /\ at'[Idle] = at[Idle] /\ \A s \in Slots : at'[s] = "config" => at[s] = "config"
    BY <1>1, <2>1 DEF KernelPlaces
  <2>3. InitWaits' => InitWaits
    BY <2>2 DEF InitWaits
  <2>4. InitWaits => /\ state'[waitFor[Idle]] # "UNUSED"
                     /\ state'[waitFor[Idle]] = "ZOMBIE" => current = Idle
    BY <1>1, <1>2, <2>1, SMTT(30)
  <2> QED  BY <2>1, <2>2, <2>3, <2>4, StayKept
<1>4. CASE process_exit_value(p)
  <2>1. /\ p = current /\ at[p] \in {"user", "kthread"} /\ state' = [state EXCEPT ![p] = "ZOMBIE"]
        /\ at' = [at EXCEPT ![p] = "exit"] /\ UNCHANGED <<current, waitFor, spawner>>
    BY <1>4 DEF process_exit_value, process_mark_zombie, RunningAt
  <2>2. /\ p # Idle /\ at'[Idle] = at[Idle] /\ at'[p] = "exit"
        /\ \A s \in Slots : at'[s] = "config" => at[s] = "config"
    BY <1>1, <2>1 DEF KernelPlaces
  <2>3. InitWaits' => InitWaits
    BY <2>2 DEF InitWaits
  <2>4. InitWaits => /\ state'[waitFor[Idle]] # "UNUSED"
                     /\ state'[waitFor[Idle]] = "ZOMBIE" => current = Idle \/ current = waitFor[Idle]
    BY <1>1, <1>2, <2>1
  <2> QED  BY <2>1, <2>2, <2>3, <2>4, StayKept
<1>5. CASE process_spawn(p)
  <2>1. /\ p = current /\ at[p] \in {"user", "launch"} /\ CanCreate
        /\ Create(alloc_process, alloc_pid, alloc_pid, None, p)
        /\ at' = [at EXCEPT ![alloc_process] = "user", ![p] = "config"]
        /\ waitFor' = [waitFor EXCEPT ![p] = alloc_process]
    BY <1>5 DEF process_spawn, RunningAt
  <2>2. state[current] = "RUNNING"
    BY <2>1, Facts
  <2>3. alloc_process \in Slots /\ alloc_process # Idle
    BY <2>1, <2>2, FreshSlot
  <2>4. \A s \in Slots : at'[s] = "config" =>
          at[s] = "config" \/ (waitFor'[s] = alloc_process /\ p = s)
    BY <1>1, <2>1, <2>3
  <2>5. at'[Idle] = (IF p = Idle THEN "config" ELSE at[Idle])
        /\ (p # Idle => waitFor'[Idle] = waitFor[Idle])
    BY <1>1, <2>1, <2>3
  <2>6. InitWaits' => InitWaits /\ waitFor'[Idle] = waitFor[Idle]
    BY <2>5 DEF InitWaits
  <2>7. at[current] # "config"
    BY <2>1
  <2>8. InitWaits' => \/ InitWaits /\ waitFor'[Idle] = waitFor[Idle]
                      \/ waitFor'[Idle] = alloc_process /\ p = Idle
    BY <2>6
  <2>9. CanCreate /\ Create(alloc_process, alloc_pid, alloc_pid, None, p)
    BY <2>1
  <2> QED  BY <2>2, <2>4, <2>7, <2>8, <2>9, StayCreate
<1>6. CASE process_configure_image(p)
  <2>1. /\ p = current /\ at[p] = "config" /\ UNCHANGED <<state, current, spawner, waitFor>>
        /\ at' = [at EXCEPT ![p] = IF p = Idle THEN "init" ELSE "exec"]
    BY <1>6, SMTT(30) DEF process_configure_image, RunningAt, schedVars
  <2>2. waitFor[p] \in Slots /\ state[waitFor[p]] = "READY" /\ spawner[waitFor[p]] = p
    BY <2>1 DEF IInv, PlacesOK, StayInv, WaitPlaces
  <2>3. \A s \in Slots : at'[s] # "config"
    <3>1. \A s \in Slots : at[s] = "config" => s = current
      BY DEF IInv, PlacesOK
    <3> QED  BY <1>1, <2>1, <3>1
  <2>4. CASE p = Idle
    BY <1>1, <2>1, <2>2, <2>3, <2>4, SMTT(30) DEF StayInv
  <2>5. CASE p # Idle
    <3>1. at'[Idle] = at[Idle]
      BY <1>1, <2>1, <2>5
    <3>2. InitWaits' => InitWaits
      BY <3>1 DEF InitWaits
    <3>3. InitWaits => state[waitFor[Idle]] # "ZOMBIE"
      BY <1>2, <2>1, <2>5
    <3> QED  BY <1>2, <2>1, <2>3, <3>2, <3>3, StayKept
  <2> QED  BY <2>4, <2>5
<1>7. CASE process_discard(p)
  <2> DEFINE s == waitFor[p]
  <2>1. /\ p = current /\ at[p] = "config" /\ state' = [state EXCEPT ![s] = "UNUSED"]
        /\ spawner' = [spawner EXCEPT ![s] = None] /\ current' = current
        /\ at' = [at EXCEPT ![p] = IF p = Idle THEN "keyboard" ELSE "user"]
        /\ waitFor' = [waitFor EXCEPT ![p] = 0]
    BY <1>7, SMTT(30) DEF process_discard, RunningAt, free_process
  <2>2. s \in Slots /\ spawner[s] = p /\ \A t \in Slots : at[t] = "config" => t = current
    BY <2>1 DEF IInv, PlacesOK, StayInv, WaitPlaces
  <2>3. \A t \in Slots : at'[t] # "config"
    BY <1>1, <2>1, <2>2
  <2>4. CASE p = Idle
    <3>1. ~ InitWaits'
      BY <1>1, <2>1, <2>4, SMTT(30) DEF InitWaits
    <3> QED  BY <2>3, <3>1 DEF StayInv
  <2>5. CASE p # Idle
    <3>1. at'[Idle] = at[Idle] /\ waitFor'[Idle] = waitFor[Idle]
      BY <1>1, <2>1, <2>5, SMTT(30)
    <3>2. InitWaits' => InitWaits
      BY <3>1 DEF InitWaits
    <3>3. InitWaits => state[waitFor[Idle]] # "ZOMBIE" /\ waitFor[Idle] # s
      BY <1>2, <2>1, <2>2, <2>5 DEF StayInv
    <3>4. InitWaits => /\ state'[waitFor[Idle]] = state[waitFor[Idle]]
                       /\ spawner'[waitFor[Idle]] = spawner[waitFor[Idle]]
      BY <1>1, <1>2, <2>1, <3>3
    <3> QED  BY <1>2, <2>1, <2>3, <3>1, <3>2, <3>3, <3>4, StayKept
  <2> QED  BY <2>4, <2>5
<1>8. CASE ExecReturn(p)
  <2>1. p = current /\ at[p] = "exec" /\ process_reap(waitFor[p], p, "user")
    BY <1>8 DEF ExecReturn, RunningAt
  <2>2. waitFor[p] \in Slots
    BY <2>1, SMTT(30) DEF IInv, PlacesOK, WaitPlaces
  <2> QED  BY <2>1, <2>2, StayReap
<1>9. CASE sys_thread_create(p)
  <2>1. /\ p = current /\ at[p] = "user" /\ CanCreate
        /\ Create(alloc_process, alloc_pid, group[p], vm[p], None)
        /\ at' = [at EXCEPT ![alloc_process] = "user"] /\ waitFor' = waitFor
    BY <1>9, SMTT(30) DEF sys_thread_create, RunningAt
  <2>2. state[current] = "RUNNING"
    BY <2>1, Facts
  <2>3. alloc_process \in Slots /\ alloc_process # Idle
    BY <2>1, <2>2, FreshSlot
  <2>4. at'[Idle] = at[Idle] /\ \A s \in Slots : at'[s] = "config" => at[s] = "config"
    BY <1>1, <2>1, <2>3, SMTT(30)
  <2>5. InitWaits' => InitWaits /\ waitFor'[Idle] = waitFor[Idle]
    BY <2>1, <2>4, SMTT(30) DEF InitWaits
  <2> QED  BY <2>1, <2>2, <2>4, <2>5, StayCreate
<1>10. ASSUME p = current, at[p] \in {"user", "join"}, NEW place \in {"user", "join"}, NEW x,
              at' = [at EXCEPT ![p] = place], waitFor' = [waitFor EXCEPT ![p] = x],
              UNCHANGED <<schedVars, procVars>>
       PROVE  StayInv'
  <2>1. p # Idle /\ UNCHANGED <<state, current, spawner>>
    BY <1>1, <1>10 DEF KernelPlaces, schedVars, procVars
  <2>2. /\ at'[Idle] = at[Idle] /\ waitFor'[Idle] = waitFor[Idle]
        /\ \A s \in Slots : at'[s] # "config"
    <3>1. \A s \in Slots : at[s] # "config"
      BY <1>10, SMTT(30) DEF IInv, PlacesOK
    <3> QED  BY <1>1, <1>10, <2>1, <3>1, SMTT(30)
  <2>3. InitWaits' => InitWaits
    BY <2>2 DEF InitWaits
  <2>4. InitWaits => state[waitFor[Idle]] # "ZOMBIE"
    BY <1>2, <1>10, <2>1
  <2> QED  BY <1>2, <2>1, <2>2, <2>3, <2>4, StayKept
<1>11. CASE \E tid \in 1..(MAX_PROCESSES - 1) : sys_thread_join(p, tid)
  BY <1>10, <1>11, Zenon DEF sys_thread_join, RunningAt
<1>12. CASE JoinReturn(p)
  <2>1. PICK s \in scheduler_find_process(waitFor[p]) : process_reap(s, p, "user")
    BY <1>12 DEF JoinReturn
  <2>2. p = current /\ at[p] = "join" /\ s \in Slots
    BY <1>12 DEF JoinReturn, RunningAt, scheduler_find_process, InTable
  <2> QED  BY <2>1, <2>2, StayReap
<1>13. CASE JoinLost(p)
  BY <1>10, <1>13, Zenon DEF JoinLost, RunningAt
<1> QED
  BY <1>3, <1>4, <1>5, <1>6, <1>7, <1>8, <1>9, <1>11, <1>12, <1>13 DEF Works

(* The steps of kernel_main: it calls schedule() only while its child is   *)
(* not gone, and nothing else of its own changes the table while it waits. *)
LEMMA StayKernel ==
  ASSUME IInv, StayInv, LifeStep, KernelYields \/ KernelWorks \/ Relaunch
  PROVE  StayInv'
<1>1. TypeOK /\ Idle \in Slots /\ at \in [Slots -> Places] /\ waitFor \in [Slots -> Nat]
  BY SlotFacts, Zenon DEF IInv, TypeOK
<1>2. ASSUME current = Idle, at[Idle] \in {"probe", "init"}, NEW place \in {"probe", "resumed"},
             ~ Gone(waitFor[Idle]), Schedule(runQueue, state),
             UNCHANGED <<procVars, waitFor>>, at' = [at EXCEPT ![Idle] = place]
      PROVE  StayInv'
  <2>1. UNCHANGED <<waitFor, spawner>>
    BY <1>2 DEF procVars
  <2>2. /\ state \in [Slots -> States] /\ Queues(runQueue, LiveIn(state), Idle)
        /\ \A s \in Slots : state[s] = "RUNNING" => s = current
        /\ state[Idle] = IF current = Idle THEN "RUNNING" ELSE "READY"
    BY Facts
  <2>3. \A s \in Slots : at'[s] = "config" => at[s] = "config"
    BY <1>1, <1>2
  <2>4. InitWaits /\ state[waitFor[Idle]] # "ZOMBIE"
    BY <1>2 DEF InitWaits, Gone
  <2> QED  BY <1>2, <2>1, <2>2, <2>3, <2>4, StaySchedule
<1>3. ASSUME current = Idle, at[Idle] \in {"boot", "launch", "resumed", "keyboard"},
             NEW place \in {"launch", "keyboard", "init", "hlt"},
             place \in {"init", "hlt"} => at[Idle] = "resumed",
             at' = [at EXCEPT ![Idle] = place], UNCHANGED <<schedVars, procVars, waitFor>>
      PROVE  StayInv'
  <2>1. UNCHANGED <<state, current, spawner, waitFor>> /\ at'[Idle] = place
    BY <1>1, <1>3 DEF schedVars, procVars
  <2>2. \A s \in Slots : at'[s] = "config" => at[s] = "config"
    BY <1>1, <1>3
  <2>3. InitWaits' => InitWaits /\ state[waitFor[Idle]] # "UNUSED"
    BY <1>3, <2>1, SMTT(30) DEF InitWaits, StayInv
  <2> QED  BY <1>3, <2>1, <2>2, <2>3, StayKept
<1>4. ASSUME current = Idle, at[Idle] \in {"probe", "init"}, NEW place \in {"launch", "keyboard"},
             process_reap(waitFor[Idle], Idle, place)
      PROVE  StayInv'
  <2>1. \/ at' = [at EXCEPT ![waitFor[Idle]] = "user", ![Idle] = place]
        \/ at' = [at EXCEPT ![Idle] = place]
    BY <1>4 DEF process_reap, free_process
  <2>2. at'[Idle] = place /\ \A s \in Slots : at'[s] = "config" => at[s] = "config"
    BY <1>1, <1>4, <2>1, SMTT(30)
  <2>3. \A s \in Slots : at[s] # "config"
    BY <1>4, SMTT(30) DEF IInv, PlacesOK
  <2>4. ~ InitWaits'
    BY <1>4, <2>2 DEF InitWaits
  <2> QED  BY <2>2, <2>3, <2>4 DEF StayInv
<1>5. CASE ProbeWait
  <2>1. /\ current = Idle /\ at[Idle] = "probe" /\ Schedule(runQueue, state)
        /\ UNCHANGED <<procVars, waitFor>> /\ at' = at /\ ~ Gone(waitFor[Idle])
    BY <1>5 DEF ProbeWait, RunningAt
  <2>2. at = [at EXCEPT ![Idle] = "probe"]
    BY <1>1, <2>1
  <2> QED  BY <1>2, <2>1, <2>2, SMTT(30)
<1>6. CASE InitWait
  BY <1>2, <1>6 DEF InitWait, RunningAt
<1>7. CASE SpawnProbe
  <2> DEFINE a == alloc_process
  <2>1. /\ Idle = current /\ at[Idle] = "boot" /\ CanCreate
        /\ Create(a, alloc_pid, alloc_pid, None, Idle)
        /\ at' = [at EXCEPT ![a] = "kthread", ![Idle] = "probe"]
        /\ waitFor' = [waitFor EXCEPT ![Idle] = a]
    BY <1>7 DEF SpawnProbe, RunningAt
  <2>2. state[current] = "RUNNING" /\ at[current] # "config"
    BY <2>1, Facts
  <2>3. waitFor'[Idle] = a
    BY <1>1, <2>1
  <2>4. \A s \in Slots : at'[s] = "config" => at[s] = "config"
    BY <1>1, <2>1
  <2>5. CanCreate /\ Create(a, alloc_pid, alloc_pid, None, Idle)
    BY <2>1
  <2> QED  BY <2>2, <2>3, <2>4, <2>5, StayCreate
<1>8. CASE SkipProbe
  BY <1>3, <1>8 DEF SkipProbe, RunningAt
<1>9. CASE ProbeReap
  BY <1>4, <1>9 DEF ProbeReap, RunningAt
<1>10. CASE LaunchFails
  BY <1>3, <1>10 DEF LaunchFails, RunningAt
<1>11. CASE InitResumed
  <2>1. PICK place \in {"init", "hlt"} : at' = [at EXCEPT ![Idle] = place]
    BY <1>11, Zenon DEF InitResumed
  <2> QED  BY <1>3, <1>11, <2>1, Zenon DEF InitResumed, RunningAt
<1>12. CASE InitReap
  BY <1>4, <1>12 DEF InitReap, RunningAt
<1>13. CASE Relaunch
  BY <1>3, <1>13 DEF Relaunch, RunningAt
<1> QED
  BY <1>5, <1>6, <1>7, <1>8, <1>9, <1>10, <1>11, <1>12, <1>13 DEF KernelYields, KernelWorks

(* The timer interrupt only wakes sleepers.                                *)
LEMMA StayTick ==
  ASSUME IInv, StayInv, LifeStep, scheduler_tick
  PROVE  StayInv'
<1>1. /\ Idle \in Slots /\ at \in [Slots -> Places] /\ state \in [Slots -> States]
      /\ at[Idle] # "exit"
  BY SlotFacts, Zenon DEF IInv, TypeOK, PlacesOK, KernelPlaces
<1>2. /\ \A s \in Slots : state'[s] \in {state[s], "READY"}
      /\ at' = [at EXCEPT ![Idle] = IF RunningAt(Idle, "hlt") THEN "init" ELSE at[Idle]]
      /\ UNCHANGED <<current, spawner, waitFor>>
  BY DEF scheduler_tick, procVars
<1>3. \A s \in Slots : at'[s] = at[s] \/ (s = Idle /\ at[s] = "hlt" /\ at'[s] = "init")
  BY <1>1, <1>2 DEF RunningAt
<1>4. InitWaits' => InitWaits
  BY <1>1, <1>3 DEF InitWaits
<1>5. InitWaits => waitFor[Idle] \in Slots
  BY <1>1, SMTT(30) DEF InitWaits, IInv, PlacesOK, WaitPlaces
<1>6. InitWaits => /\ state'[waitFor[Idle]] # "UNUSED"
                   /\ state'[waitFor[Idle]] = "ZOMBIE" =>
                        current = Idle \/ (current = waitFor[Idle] /\ at'[current] = "exit")
  <2>1. InitWaits => /\ state[waitFor[Idle]] # "UNUSED"
                     /\ state[waitFor[Idle]] = "ZOMBIE" =>
                          current = Idle \/ (current = waitFor[Idle] /\ at[current] = "exit")
    BY DEF StayInv
  <2>2. InitWaits => state'[waitFor[Idle]] = state[waitFor[Idle]] \/ state'[waitFor[Idle]] = "READY"
    BY <1>2, <1>5
  <2> QED  BY <1>1, <1>3, <1>5, <2>1, <2>2
<1>7. \A s \in Slots : at'[s] = "config" => at[s] = "config"
  BY <1>3
<1> QED  BY <1>2, <1>4, <1>6, <1>7, StayKept

(* For every number of process slots, while kernel_main waits for init or  *)
(* for the probe thread, the slot it points to is still that process: no   *)
(* sys_thread_join reaps it first.                                         *)
THEOREM InitNeverLost == Spec => []InitStays
<1>1. Init => StayInv
  BY SlotFacts DEF Init, StayInv, InitWaits
<1>2. IInv /\ StayInv /\ [Next]_vars => StayInv'
  <2> SUFFICES ASSUME IInv, StayInv, [Next]_vars PROVE StayInv'
    OBVIOUS
  <2>1. CASE UNCHANGED vars
    BY <2>1 DEF vars, schedVars, procVars, StayInv, InitWaits
  <2>2. CASE Next
    <3>1. LifeStep
      <4>1. LifeStep \/ UNCHANGED vars
        BY NextStep
      <4> QED  BY <4>1 DEF vars, schedVars, LifeStep
    <3>2. CASE \E p \in Slots : Yields(p) \/ Works(p)
      BY <3>1, <3>2, StayYield, StayWork
    <3>3. CASE KernelYields \/ KernelWorks \/ Relaunch
      BY <3>1, <3>3, StayKernel
    <3>4. CASE scheduler_tick
      BY <3>1, <3>4, StayTick
    <3> QED  BY <2>2, <3>2, <3>3, <3>4 DEF Next
  <2> QED  BY <2>1, <2>2
<1>3. StayInv => InitStays
  BY DEF StayInv, InitWaits, InitStays
<1> QED  BY <1>1, <1>2, <1>3, Invariance, PTL DEF Spec
=============================================================================
