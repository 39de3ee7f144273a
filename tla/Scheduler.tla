------------------------------ MODULE Scheduler ------------------------------
(***************************************************************************)
(* The process scheduler of src/kernel/scheduler.c together with the code  *)
(* that drives it: the process and thread system calls of                  *)
(* src/kernel/syscall.c, the exception handler and the timer interrupt of  *)
(* src/cpu/x86/idt.c, and the boot thread of src/kernel/kmain.c.           *)
(*                                                                         *)
(* One processor runs one process at a time.  Between two calls of         *)
(* schedule() only the timer interrupt interleaves with the running        *)
(* process, so an action is what a process does up to its next schedule()  *)
(* or up to a point where an interrupt could see a half-finished change.   *)
(* `at' says where in the kernel each process is.                          *)
(*                                                                         *)
(* The boot thread is the idle process: scheduler_init makes the running   *)
(* kernel_main current_proc == idle_proc, and the first context_switch     *)
(* saves kernel_main's context as the idle process's.                      *)
(***************************************************************************)
EXTENDS Naturals, FiniteSets, RunQueue

CONSTANTS
  MAX_PROCESSES,          \* slots of process_table
  SCHED_TICKS_PER_SLICE,  \* ticks_remaining of a process just dispatched
  SLEEPS,                 \* sleep lengths, in timer ticks, that programs ask for
  NoWake                  \* wake_at_ms == 0: no deadline

ASSUME MaxProcessesAssumption == MAX_PROCESSES \in Nat /\ MAX_PROCESSES >= 2
ASSUME SliceAssumption == SCHED_TICKS_PER_SLICE \in Nat \ {0}

Slots == 0..(MAX_PROCESSES - 1)
Idle  == 0

(* NoWake is a sleep length too: process_sleep_until(wake_ms) with         *)
(* wake_ms == 0, which sys_sleep_ms asks for when uptime + ms wraps to 0.  *)
ASSUME SleepsAssumption == NoWake \notin Nat /\ SLEEPS \subseteq Nat \cup {NoWake}

None == MAX_PROCESSES     \* no slot, no address space

VARIABLES
  state,       \* process_table[s].state
  runQueue,    \* the circular list rooted at run_queue_head
  current,     \* current_proc
  wakeIn,      \* ticks left until wake_at_ms, 0 once it has passed
  ticksLeft,   \* ticks_remaining
  pid,         \* pid, 0 in an UNUSED slot
  group,       \* group_id, 0 in an UNUSED slot
  vm,          \* vm_space: an address space or None
  refCount,    \* vm_space->ref_count; 0: not allocated
  active,      \* stats.active_processes
  at,          \* where in the kernel (or in user code) the process is
  waitFor,     \* exec and launch: the slot `proc' points to; join: the tid
  spawner      \* history: the slot whose exec or launch created the process

schedVars == <<state, runQueue, current, wakeIn, ticksLeft>>
procVars  == <<pid, group, vm, refCount, active, spawner>>
vars      == <<schedVars, procVars, at, waitFor>>

States == {"UNUSED", "READY", "RUNNING", "BLOCKED", "ZOMBIE"}
Live   == {"READY", "RUNNING", "BLOCKED"}

(* user: in user code or between system calls; kthread: in the body of a   *)
(* kernel thread; sleep, exit: between the sti of process_sleep_until or   *)
(* process_exit_value and its schedule(); config: between process_spawn    *)
(* and process_configure_image; exec, join: in the waiting loop of that    *)
(* system call.  boot .. keyboard are the places of kernel_main.           *)
Places == {"user", "kthread", "sleep", "exit", "config", "exec", "join",
           "boot", "probe", "launch", "init", "resumed", "hlt", "keyboard"}

LiveSlots    == {s \in Slots : state[s] \in Live}
InTable      == {s \in Slots : state[s] # "UNUSED"}
Holders(v)   == {s \in Slots : vm[s] = v}

TypeOK ==
  /\ state \in [Slots -> States]
  /\ runQueue \in Seq(Slots)
  /\ current \in Slots
  /\ wakeIn \in [Slots -> Nat \cup {NoWake}]
  /\ ticksLeft \in [Slots -> 0..SCHED_TICKS_PER_SLICE]
  /\ pid \in [Slots -> Nat]
  /\ group \in [Slots -> Nat]
  /\ vm \in [Slots -> Slots \cup {None}]
  /\ refCount \in [Slots -> Nat]
  /\ active \in Nat
  /\ at \in [Slots -> Places]
  /\ waitFor \in [Slots -> Nat]
  /\ spawner \in [Slots -> Slots \cup {None}]

-----------------------------------------------------------------------------
(* scheduler_init: slot 0 is the idle process and is already running.      *)
Init ==
  /\ state     = [s \in Slots |-> IF s = Idle THEN "RUNNING" ELSE "UNUSED"]
  /\ runQueue  = <<Idle>>
  /\ current   = Idle
  /\ wakeIn    = [s \in Slots |-> NoWake]
  /\ ticksLeft = [s \in Slots |-> IF s = Idle THEN SCHED_TICKS_PER_SLICE ELSE 0]
  /\ pid       = [s \in Slots |-> 0]
  /\ group     = [s \in Slots |-> 0]
  /\ vm        = [s \in Slots |-> None]
  /\ refCount  = [s \in Slots |-> 0]
  /\ active    = 0
  /\ at        = [s \in Slots |-> IF s = Idle THEN "boot" ELSE "user"]
  /\ waitFor   = [s \in Slots |-> 0]
  /\ spawner   = [s \in Slots |-> None]

-----------------------------------------------------------------------------
(* The sleepers whose deadline has passed: the test of pick_next and of    *)
(* scheduler_tick.                                                         *)
DueSleepers(q, sts, wakes) ==
  {s \in Range(q) : sts[s] = "BLOCKED" /\ wakes[s] = 0}

(* Mutant of Switched: the old process stays RUNNING.                      *)
SwitchedKeepsOld(sts, next) == [sts EXCEPT ![next] = "RUNNING"]

(* The states after a switch from the current process to next: only a      *)
(* process still RUNNING goes back to READY.                               *)
Switched(sts, next) ==
  [s \in Slots |-> IF s = next THEN "RUNNING"
                   ELSE IF s = current /\ sts[s] = "RUNNING" THEN "READY"
                   ELSE sts[s]]

(* schedule(), called when the table is in states sts and the queue is q:  *)
(* wake the sleepers that are due, pick the next process, and switch to it *)
(* unless it is the one already running.                                   *)
Schedule(q, sts) ==
  \E due \in {DueSleepers(q, sts, wakeIn)} :
  \E woken \in {[s \in Slots |-> IF s \in due THEN "READY" ELSE sts[s]]} :
  \E next \in {PickNext(q, current, woken, Idle)} :
     /\ runQueue' = q
     /\ wakeIn' = [s \in Slots |-> IF s \in due THEN NoWake ELSE wakeIn[s]]
     /\ current' = next
     /\ state' = IF next = current THEN woken ELSE Switched(woken, next)
     /\ ticksLeft' = IF next = current THEN ticksLeft
                     ELSE [ticksLeft EXCEPT ![next] = SCHED_TICKS_PER_SLICE]

-----------------------------------------------------------------------------
(* Creating and destroying processes.                                      *)

FreeSlots == {s \in Slots : state[s] = "UNUSED"}
FreePids  == {n \in 1..(MAX_PROCESSES - 1) : \A s \in InTable : pid[s] # n}
FreeSpaces == {v \in Slots : refCount[v] = 0}

(* alloc_process and alloc_pid take the first free slot and pid.           *)
alloc_process == Min(FreeSlots)
alloc_pid == Min(FreePids)
CanCreate == FreeSlots # {} /\ FreePids # {}

(* alloc_vm_space and retain_vm_space: one more reference to the space.    *)
Retained(space) ==
  [v \in Slots |-> IF v = space THEN refCount[v] + 1 ELSE refCount[v]]

(* The common part of process_create_user, process_create_kernel and       *)
(* process_spawn_user_thread: fill slot s and enqueue it READY.            *)
Create(s, n, g, space, creator) ==
  /\ state'     = [state EXCEPT ![s] = "READY"]
  /\ runQueue'  = Enqueue(runQueue, s)
  /\ ticksLeft' = [ticksLeft EXCEPT ![s] = SCHED_TICKS_PER_SLICE]
  /\ pid'       = [pid EXCEPT ![s] = n]
  /\ group'     = [group EXCEPT ![s] = g]
  /\ vm'        = [vm EXCEPT ![s] = space]
  /\ refCount'  = Retained(space)
  /\ spawner'   = [spawner EXCEPT ![s] = creator]
  /\ active'    = active + 1
  /\ UNCHANGED <<current, wakeIn>>

Released(space) ==
  [v \in Slots |-> IF v = space THEN refCount[v] - 1 ELSE refCount[v]]

(* release_vm_space: drop s's reference; at zero the space is freed.       *)
release_vm_space(s) ==
  /\ vm' = [vm EXCEPT ![s] = None]
  /\ refCount' = Released(vm[s])

(* free_process: the slot is UNUSED; alloc_process zeroes what is left of  *)
(* it before anything reads it, so the model clears it here.               *)
free_process(s) ==
  /\ state'     = [state EXCEPT ![s] = "UNUSED"]
  /\ pid'       = [pid EXCEPT ![s] = 0]
  /\ group'     = [group EXCEPT ![s] = 0]
  /\ ticksLeft' = [ticksLeft EXCEPT ![s] = 0]
  /\ spawner'   = [spawner EXCEPT ![s] = None]

(* process_reap, by p, of the process in slot s, after which p is at       *)
(* `place': nothing happens to a slot that is not a ZOMBIE.                *)
process_reap(s, p, place) ==
  /\ IF state[s] = "ZOMBIE"
     THEN /\ free_process(s)
          /\ runQueue' = Dequeue(runQueue, s)
          /\ vm' = [vm EXCEPT ![s] = None]
          /\ at' = [at EXCEPT ![s] = "user", ![p] = place]
     ELSE /\ at' = [at EXCEPT ![p] = place]
          /\ UNCHANGED <<state, runQueue, ticksLeft, pid, group, vm, spawner>>
  /\ waitFor' = [waitFor EXCEPT ![p] = 0]
  /\ UNCHANGED <<current, wakeIn, refCount, active>>

(* process_mark_zombie, for the state other than the run queue and the     *)
(* process states, which each caller goes on to change: the address space  *)
(* is released and the process leaves the count of active processes.       *)
process_mark_zombie(p) ==
  /\ release_vm_space(p)
  /\ active' = IF active > 0 THEN active - 1 ELSE active
  /\ UNCHANGED <<pid, group, spawner>>

-----------------------------------------------------------------------------
(* What the running process does.                                          *)

RunningAt(p, place) == p = current /\ at[p] = place

(* sys_yield.                                                              *)
sys_yield(p) ==
  /\ RunningAt(p, "user")
  /\ Schedule(runQueue, state)
  /\ UNCHANGED <<procVars, at, waitFor>>

(* Mutant of Requeue: the process is not put back.                         *)
RequeueNot(q, p) == Dequeue(q, p)

(* process_sleep_until moves the sleeper to the tail of the queue.         *)
Requeue(q, p) == Enqueue(Dequeue(q, p), p)

(* sys_sleep_ms, up to the sti of process_sleep_until: the process is      *)
(* BLOCKED and goes to the tail of the queue, but still runs.              *)
process_sleep_until(p, d) ==
  /\ RunningAt(p, "user")
  /\ state'    = [state EXCEPT ![p] = "BLOCKED"]
  /\ wakeIn'   = [wakeIn EXCEPT ![p] = d]
  /\ runQueue' = Requeue(runQueue, p)
  /\ at'       = [at EXCEPT ![p] = "sleep"]
  /\ UNCHANGED <<current, ticksLeft, procVars, waitFor>>

(* The schedule() that ends process_sleep_until.                           *)
SleepSwitch(p) ==
  /\ RunningAt(p, "sleep")
  /\ Schedule(runQueue, state)
  /\ at' = [at EXCEPT ![p] = "user"]
  /\ UNCHANGED <<procVars, waitFor>>

(* process_exit_value, up to its sti.  It is sys_exit, sys_thread_exit and *)
(* the end of a kernel thread.                                             *)
process_exit_value(p) ==
  /\ RunningAt(p, "user") \/ RunningAt(p, "kthread")
  /\ process_mark_zombie(p)
  /\ state'    = [state EXCEPT ![p] = "ZOMBIE"]
  /\ runQueue' = Dequeue(runQueue, p)
  /\ at'       = [at EXCEPT ![p] = "exit"]
  /\ UNCHANGED <<current, wakeIn, ticksLeft, waitFor>>

(* The schedule() that ends process_exit_value; it does not return.        *)
ExitSwitch(p) ==
  /\ RunningAt(p, "exit")
  /\ Schedule(runQueue, state)
  /\ UNCHANGED <<procVars, at, waitFor>>

(* exception_handler, for a fault in user code: interrupts stay off from   *)
(* process_mark_zombie to schedule().                                      *)
exception_handler(p) ==
  /\ RunningAt(p, "user")
  /\ process_mark_zombie(p)
  /\ Schedule(Dequeue(runQueue, p), [state EXCEPT ![p] = "ZOMBIE"])
  /\ at' = [at EXCEPT ![p] = "exit"]
  /\ UNCHANGED waitFor

(* sys_exec and launch_init_elf, once the image is loaded: process_spawn   *)
(* makes the child READY before its address space is attached.             *)
process_spawn(p) ==
  /\ RunningAt(p, "user") \/ RunningAt(p, "launch")
  /\ CanCreate
  /\ Create(alloc_process, alloc_pid, alloc_pid, None, p)
  /\ at' = [at EXCEPT ![alloc_process] = "user", ![p] = "config"]
  /\ waitFor' = [waitFor EXCEPT ![p] = alloc_process]

(* process_configure_image: attach a new address space with one reference. *)
process_configure_image(p) ==
  /\ RunningAt(p, "config")
  /\ FreeSpaces # {}
  /\ vm' = [vm EXCEPT ![waitFor[p]] = Min(FreeSpaces)]
  /\ refCount' = Retained(Min(FreeSpaces))
  /\ at' = [at EXCEPT ![p] = IF p = Idle THEN "init" ELSE "exec"]
  /\ UNCHANGED <<schedVars, pid, group, active, spawner, waitFor>>

(* The same call failing, out of memory: whatever it attached is released  *)
(* and the caller takes the child back with process_discard.               *)
process_discard(p) ==
  LET s == waitFor[p] IN
  /\ RunningAt(p, "config")
  /\ free_process(s)
  /\ runQueue' = Dequeue(runQueue, s)
  /\ release_vm_space(s)
  /\ active' = IF active > 0 THEN active - 1 ELSE active
  /\ at' = [at EXCEPT ![p] = IF p = Idle THEN "keyboard" ELSE "user"]
  /\ waitFor' = [waitFor EXCEPT ![p] = 0]
  /\ UNCHANGED <<current, wakeIn>>

(* The waiting loop of sys_exec: leave it when `proc' is a ZOMBIE or       *)
(* UNUSED, else schedule().                                                *)
Gone(s) == state[s] \in {"ZOMBIE", "UNUSED"}
ExecWait(p) ==
  /\ RunningAt(p, "exec")
  /\ ~ Gone(waitFor[p])
  /\ Schedule(runQueue, state)
  /\ UNCHANGED <<procVars, at, waitFor>>
ExecReturn(p) ==
  /\ RunningAt(p, "exec")
  /\ Gone(waitFor[p])
  /\ process_reap(waitFor[p], p, "user")

(* sys_thread_create: a process of the same group in the same space.       *)
sys_thread_create(p) ==
  /\ RunningAt(p, "user")
  /\ vm[p] # None
  /\ CanCreate
  /\ Create(alloc_process, alloc_pid, group[p], vm[p], None)
  /\ at' = [at EXCEPT ![alloc_process] = "user"]
  /\ UNCHANGED waitFor

(* scheduler_find_process: the slots in use with this pid.                 *)
scheduler_find_process(n) == {s \in InTable : pid[s] = n}

(* sys_thread_join, up to its waiting loop: the target must be another     *)
(* process of the caller's group.                                          *)
sys_thread_join(p, tid) ==
  /\ RunningAt(p, "user")
  /\ tid # pid[p]
  /\ \E s \in scheduler_find_process(tid) : group[s] = group[p]
  /\ at' = [at EXCEPT ![p] = "join"]
  /\ waitFor' = [waitFor EXCEPT ![p] = tid]
  /\ UNCHANGED <<schedVars, procVars>>

(* The loop of sys_thread_join looks the target up again after every       *)
(* schedule(): it may be gone, it may have exited, else wait on.           *)
JoinWait(p) ==
  /\ RunningAt(p, "join")
  /\ \E s \in scheduler_find_process(waitFor[p]) : state[s] # "ZOMBIE"
  /\ Schedule(runQueue, state)
  /\ UNCHANGED <<procVars, at, waitFor>>
JoinReturn(p) ==
  /\ RunningAt(p, "join")
  /\ \E s \in scheduler_find_process(waitFor[p]) :
        /\ state[s] = "ZOMBIE"
        /\ process_reap(s, p, "user")
JoinLost(p) ==
  /\ RunningAt(p, "join")
  /\ scheduler_find_process(waitFor[p]) = {}
  /\ at' = [at EXCEPT ![p] = "user"]
  /\ waitFor' = [waitFor EXCEPT ![p] = 0]
  /\ UNCHANGED <<schedVars, procVars>>

-----------------------------------------------------------------------------
(* What kernel_main, the idle process, does.                               *)

(* kernel_init starts the probe kernel thread, or goes on without it.      *)
SpawnProbe ==
  /\ RunningAt(Idle, "boot")
  /\ CanCreate
  /\ Create(alloc_process, alloc_pid, alloc_pid, None, Idle)
  /\ at' = [at EXCEPT ![alloc_process] = "kthread", ![Idle] = "probe"]
  /\ waitFor' = [waitFor EXCEPT ![Idle] = alloc_process]
SkipProbe ==
  /\ RunningAt(Idle, "boot")
  /\ at' = [at EXCEPT ![Idle] = "launch"]
  /\ UNCHANGED <<schedVars, procVars, waitFor>>
ProbeWait ==
  /\ RunningAt(Idle, "probe")
  /\ ~ Gone(waitFor[Idle])
  /\ Schedule(runQueue, state)
  /\ UNCHANGED <<procVars, at, waitFor>>
ProbeReap ==
  /\ RunningAt(Idle, "probe")
  /\ Gone(waitFor[Idle])
  /\ process_reap(waitFor[Idle], Idle, "launch")

(* launch_init_elf fails before process_spawn succeeds: no page table, no  *)
(* image, no slot.                                                         *)
LaunchFails ==
  /\ RunningAt(Idle, "launch")
  /\ at' = [at EXCEPT ![Idle] = "keyboard"]
  /\ UNCHANGED <<schedVars, procVars, waitFor>>

(* launch_init_elf's loop: schedule(), then halt until an interrupt unless *)
(* init is gone.                                                           *)
InitWait ==
  /\ RunningAt(Idle, "init")
  /\ ~ Gone(waitFor[Idle])
  /\ Schedule(runQueue, state)
  /\ at' = [at EXCEPT ![Idle] = "resumed"]
  /\ UNCHANGED <<procVars, waitFor>>
InitResumed ==
  /\ RunningAt(Idle, "resumed")
  /\ at' = [at EXCEPT ![Idle] = IF Gone(waitFor[Idle]) THEN "init" ELSE "hlt"]
  /\ UNCHANGED <<schedVars, procVars, waitFor>>
InitReap ==
  /\ RunningAt(Idle, "init")
  /\ Gone(waitFor[Idle])
  /\ process_reap(waitFor[Idle], Idle, "keyboard")

(* Interactive mode waits for keys without ever calling schedule(); the    *)
(* R key launches init again.                                              *)
Relaunch ==
  /\ RunningAt(Idle, "keyboard")
  /\ at' = [at EXCEPT ![Idle] = "launch"]
  /\ UNCHANGED <<schedVars, procVars, waitFor>>

-----------------------------------------------------------------------------
(* The timer interrupt: uptime advances, scheduler_tick wakes the sleepers *)
(* that are due and accounts the slice of the running process, which goes  *)
(* on running.  It also ends the hlt of kernel_main.                       *)
Aged == [s \in Slots |->
           IF wakeIn[s] \in Nat \ {0} THEN wakeIn[s] - 1 ELSE wakeIn[s]]

scheduler_tick ==
  LET due  == DueSleepers(runQueue, state, Aged)
      left == IF ticksLeft[current] > 0 THEN ticksLeft[current] - 1 ELSE 0
  IN /\ state' = [s \in Slots |-> IF s \in due THEN "READY" ELSE state[s]]
     /\ wakeIn' = [s \in Slots |-> IF s \in due THEN NoWake ELSE Aged[s]]
     /\ ticksLeft' = [ticksLeft EXCEPT ![current] =
                        IF left = 0 THEN SCHED_TICKS_PER_SLICE ELSE left]
     /\ at' = [at EXCEPT ![Idle] =
                 IF RunningAt(Idle, "hlt") THEN "init" ELSE at[Idle]]
     /\ UNCHANGED <<runQueue, current, procVars, waitFor>>

-----------------------------------------------------------------------------
(* The steps that call schedule().                                         *)
Yields(p) ==
  \/ sys_yield(p) \/ SleepSwitch(p) \/ ExitSwitch(p) \/ exception_handler(p)
  \/ ExecWait(p) \/ JoinWait(p)
KernelYields == ProbeWait \/ InitWait

(* The other steps of a process, and of kernel_main.                       *)
Works(p) ==
  \/ \E d \in SLEEPS : process_sleep_until(p, d)
  \/ process_exit_value(p)
  \/ process_spawn(p) \/ process_configure_image(p) \/ process_discard(p)
  \/ ExecReturn(p)
  \/ sys_thread_create(p)
  \/ \E tid \in 1..(MAX_PROCESSES - 1) : sys_thread_join(p, tid)
  \/ JoinReturn(p) \/ JoinLost(p)
KernelWorks ==
  \/ SpawnProbe \/ SkipProbe \/ ProbeReap \/ LaunchFails
  \/ InitResumed \/ InitReap

Next ==
  \/ \E p \in Slots : Yields(p) \/ Works(p)
  \/ KernelYields \/ KernelWorks \/ Relaunch
  \/ scheduler_tick

Spec == Init /\ [][Next]_vars

(* Fairness.  The timer interrupt keeps arriving, and kernel_main goes on. *)
(* scheduler_tick switches nobody out, so progress rests on the programs:  *)
(* a running process goes on with its system calls and, sooner or later,   *)
(* calls schedule().                                                       *)
TimerFairness ==
  WF_vars(scheduler_tick) /\ WF_vars(KernelWorks) /\ WF_vars(KernelYields)
Cooperation ==
  /\ WF_vars(Works(current))
  /\ SF_vars(Yields(current))

(* Programs that may compute for ever, and programs that cooperate.        *)
FairSpec == Spec /\ TimerFairness /\ Cooperation

-----------------------------------------------------------------------------
(* The run queue holds exactly the processes that are READY, RUNNING or    *)
(* BLOCKED, each once, and the idle process heads it for good: what        *)
(* enqueue, dequeue, process_mark_zombie and process_discard keep up.      *)
QueueHoldsLive ==
  /\ Range(runQueue) = LiveSlots
  /\ \A i, j \in DOMAIN runQueue : runQueue[i] = runQueue[j] => i = j
  /\ runQueue # <<>> /\ runQueue[1] = Idle

(* schedule() leaves exactly the process it switches to RUNNING.  Only in  *)
(* the windows between sti and schedule() of process_sleep_until and       *)
(* process_exit_value does the running process have another state, and the *)
(* idle process is always there to be picked.                              *)
CurrentIsRunning ==
  /\ \A s \in Slots : state[s] = "RUNNING" => s = current
  /\ state[current] # "RUNNING" => at[current] \in {"sleep", "exit"}
  /\ current # Idle => state[Idle] = "READY"

(* alloc_pid never hands out the pid of a process still in the table, so   *)
(* scheduler_find_process finds at most one process.                       *)
PidsDistinct ==
  /\ pid[Idle] = 0
  /\ \A s, t \in InTable : pid[s] = pid[t] => s = t

(* vm_space->ref_count counts the processes that share the address space:  *)
(* release_vm_space frees it with the last of them and never before.       *)
RefCountExact == \A v \in Slots : refCount[v] = Cardinality(Holders(v))

(* A user process gets the processor only with its address space attached: *)
(* process_spawn makes it READY, without one, before                       *)
(* process_configure_image runs.                                           *)
RunsInOwnSpace ==
  \A s \in Slots \ {Idle} :
    state[s] = "RUNNING" /\ at[s] # "kthread" => vm[s] # None

(* stats.active_processes is the number of live processes besides idle,    *)
(* whichever way a process ends: exit, fault or process_discard.           *)
ActiveExact == active = Cardinality(LiveSlots \ {Idle})

(* While kernel_main waits for init (or for the probe thread), the slot it *)
(* points to is still that process: no sys_thread_join reaps it first.     *)
InitStays ==
  at[Idle] \in {"probe", "init", "resumed", "hlt"} =>
    state[waitFor[Idle]] # "UNUSED" /\ spawner[waitFor[Idle]] = Idle

(* The inductive strengthening.  kernel_main never sleeps or exits, so the *)
(* idle process is READY whenever it does not run; `proc' points into the  *)
(* table wherever it is used; and a child between process_spawn and        *)
(* process_configure_image is READY and still without an address space.    *)
KernelPlaces == {"boot", "probe", "launch", "config", "init", "resumed", "hlt", "keyboard"}
WaitPlaces   == {"exec", "config", "probe", "init", "resumed", "hlt"}
PlacesOK ==
  /\ at[Idle] \in KernelPlaces
  /\ \A p \in Slots : at[p] \in WaitPlaces => waitFor[p] \in Slots
  /\ \A p \in Slots : at[p] = "config" =>
        /\ p = current /\ waitFor[p] \notin {p, Idle}
        /\ state[waitFor[p]] = "READY" /\ vm[waitFor[p]] = None

(* A dead process holds no address space, and only the child being         *)
(* configured is a live user process without one.                          *)
SpacesOK ==
  /\ \A s \in Slots : state[s] \notin Live => vm[s] = None
  /\ \A s \in Slots \ {Idle} : state[s] \in Live /\ at[s] # "kthread" =>
        vm[s] # None \/ (at[current] = "config" /\ waitFor[current] = s)

(* Everything the invariants above rest on, kept by every step: the        *)
(* inductive invariant of SchedulerProofs.                                 *)
IInv ==
  /\ TypeOK /\ QueueHoldsLive /\ CurrentIsRunning /\ PlacesOK
  /\ PidsDistinct /\ SpacesOK /\ RefCountExact /\ ActiveExact

(* The states of a process follow the life cycle of scheduler.h; a process *)
(* that has not run yet may also be taken back by process_discard, and no  *)
(* process but the running one is ever made BLOCKED or ZOMBIE.             *)
LifeStep == \A s \in Slots : state'[s] # state[s] =>
  \/ state[s] = "UNUSED"  /\ state'[s] = "READY"
  \/ state[s] = "READY"   /\ state'[s] \in {"RUNNING", "UNUSED"}
  \/ state[s] = "RUNNING" /\ state'[s] \in {"READY", "BLOCKED", "ZOMBIE"} /\ s = current
  \/ state[s] = "BLOCKED" /\ state'[s] \in {"READY", "RUNNING"}
  \/ state[s] = "ZOMBIE"  /\ state'[s] = "UNUSED" /\ s # current
LifeCycle == [][LifeStep]_vars

Interactive == RunningAt(Idle, "keyboard")

(* No starvation: under round robin every READY process is dispatched, as  *)
(* long as kernel_main has not entered interactive mode, where it no       *)
(* longer calls schedule().                                                *)
Dispatched ==
  \A s \in Slots : (state[s] = "READY") ~> (state[s] # "READY" \/ Interactive)

(* "Block the current process until uptime_ms >= wake_ms": a sleeper does  *)
(* not stay BLOCKED once its time has come.                                *)
SleepersWake == \A s \in Slots : (state[s] = "BLOCKED") ~> (state[s] # "BLOCKED")
=============================================================================
