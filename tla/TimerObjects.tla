---------------------------- MODULE TimerObjects ----------------------------
(***************************************************************************)
(* The timer objects of src/drivers/timer.c and their system calls         *)
(* (src/kernel/syscall.c): create, wait, cancel.  A timer belongs to a     *)
(* thread group; any thread of the group may wait for it or cancel it.     *)
(* sys_timer_wait reads the deadline, sleeps, and only then looks the      *)
(* timer up again: the other threads run in between.                       *)
(***************************************************************************)
EXTENDS Naturals, FiniteSets, FiniteSetsExt

CONSTANTS
  THREADS,               \* threads
  GROUPS,                \* thread groups, each the set of its threads
  MAX_TIMER_OBJECTS,     \* NUMOS_MAX_TIMER_OBJECTS, 32
  MAX_TIMER_ID,          \* the largest int32_t
  DELAYS, PERIODS,       \* arguments of sys_timer_create; period 0: one-shot
  MAX_NOW,               \* bound on the uptime
  MAX_CREATED            \* bound on the timers created

ASSUME GroupAssumption == \A t \in THREADS : \E g \in GROUPS : t \in g
ASSUME SlotAssumption == MAX_TIMER_OBJECTS \in Nat /\ MAX_TIMER_ID \in Nat \ {0}
ASSUME TimeAssumption == DELAYS \subseteq Nat /\ PERIODS \subseteq Nat /\ MAX_NOW \in Nat
ASSUME CreatedAssumption == MAX_CREATED \in Nat

(* The owner of a thread's timers: its group.                              *)
GroupOf == [t \in THREADS |-> CHOOSE g \in GROUPS : t \in g]

Slots == 1..MAX_TIMER_OBJECTS
Ids   == 1..MAX_TIMER_ID
Free  == [used |-> FALSE]

VARIABLES
  timer_objects,   \* slot -> Free or a timer
  next_timer_id,
  now,             \* timer_get_uptime_ms()
  wait,            \* thread -> what its sys_timer_wait is doing
  created,         \* history: number of timers created
  served           \* history: serial numbers of the timers a wait returned 0 for

vars == <<timer_objects, next_timer_id, now, wait, created, served>>

Idle == [pc |-> "idle"]

(* serial and first are history: the number of the creation, and the first *)
(* deadline.                                                               *)
Timers == [used : {TRUE}, owner : GROUPS, id : Ids, deadline_ms : Nat, period_ms : Nat,
           serial : 1..MAX_CREATED, first : Nat]
Waits  == [pc : {"asleep"}, id : Ids, wake_ms : Nat, serial : 1..MAX_CREATED]

TypeOK ==
  /\ timer_objects \in [Slots -> Timers \cup {Free}]
  /\ next_timer_id \in Ids
  /\ now \in 0..MAX_NOW
  /\ wait \in [THREADS -> Waits \cup {Idle}]
  /\ created \in 0..MAX_CREATED
  /\ served \subseteq 1..created

Init ==
  /\ timer_objects = [s \in Slots |-> Free]
  /\ next_timer_id = 1
  /\ now = 0
  /\ wait = [t \in THREADS |-> Idle]
  /\ created = 0 /\ served = {}

-----------------------------------------------------------------------------
(* timer_find_slot and timer_alloc_slot take the first slot that fits.     *)
Matching(owner, id) ==
  {s \in Slots : timer_objects[s].used /\ timer_objects[s].owner = owner /\ timer_objects[s].id = id}
FreeSlots == {s \in Slots : ~timer_objects[s].used}

(* Mutant of NextId: the counter stands still.                             *)
NextIdSame(id) == id
NextId(id) == IF id = MAX_TIMER_ID THEN 1 ELSE id + 1

(* sys_timer_create.  A periodic timer without a delay starts one period   *)
(* from now.                                                               *)
FirstDeadline(delay, period) == now + (IF delay = 0 THEN period ELSE delay)

sys_timer_create(t) == \E delay \in DELAYS, period \in PERIODS :
  /\ wait[t] = Idle
  /\ created < MAX_CREATED
  /\ FreeSlots # {}
  /\ LET deadline == FirstDeadline(delay, period)
     IN  timer_objects' = [timer_objects EXCEPT ![Min(FreeSlots)] =
           [used |-> TRUE, owner |-> GroupOf[t], id |-> next_timer_id,
            deadline_ms |-> deadline, period_ms |-> period,
            serial |-> created + 1, first |-> deadline]]
  /\ created' = created + 1
  /\ next_timer_id' = NextId(next_timer_id)
  /\ UNCHANGED <<now, wait, served>>

(* timer_complete_wait_object on the timer in slot s: a periodic timer     *)
(* moves to its next deadline after now, a one-shot timer is released.     *)
(* Mutant of NextDeadline: the next deadline counts from now.              *)
NextDeadlineFromNow(d, p) == IF d <= now THEN now + p ELSE d
NextDeadline(d, p) == IF d <= now THEN d + p * ((now - d) \div p + 1) ELSE d
Completed(timer) ==
  IF timer.period_ms > 0
  THEN [timer EXCEPT !.deadline_ms = NextDeadline(timer.deadline_ms, timer.period_ms)]
  ELSE Free

timer_complete_wait_object(s) ==
  /\ timer_objects' = [timer_objects EXCEPT ![s] = Completed(@)]
  /\ served' = served \cup {timer_objects[s].serial}

(* sys_timer_wait on a timer that is due, and on one that is not.          *)
WaitDue(t) == \E id \in Ids :
  LET found == Matching(GroupOf[t], id)
  IN  /\ wait[t] = Idle
      /\ found # {}
      /\ timer_objects[Min(found)].deadline_ms <= now
      /\ timer_complete_wait_object(Min(found))
      /\ UNCHANGED <<next_timer_id, now, wait, created>>
WaitSleep(t) == \E id \in Ids :
  LET found == Matching(GroupOf[t], id)
      timer == timer_objects[Min(found)]
  IN  /\ wait[t] = Idle
      /\ found # {}
      /\ timer.deadline_ms > now
      /\ wait' = [wait EXCEPT ![t] = [pc |-> "asleep", id |-> id, wake_ms |-> timer.deadline_ms,
                                      serial |-> timer.serial]]
      /\ UNCHANGED <<timer_objects, next_timer_id, now, created, served>>
(* The sleeper runs again, at the time it read or later, and looks the     *)
(* timer up; it may be gone.                                               *)
(* Mutant of Due: the sleep ends only in the tick of the deadline.         *)
DueExactly(t) == wait[t] # Idle /\ now = wait[t].wake_ms
Due(t) == wait[t] # Idle /\ now >= wait[t].wake_ms
WaitWake(t) ==
  /\ Due(t)
  /\ LET found == Matching(GroupOf[t], wait[t].id)
     IN  IF found # {} THEN timer_complete_wait_object(Min(found))
                       ELSE UNCHANGED <<timer_objects, served>>
  /\ wait' = [wait EXCEPT ![t] = Idle]
  /\ UNCHANGED <<next_timer_id, now, created>>

sys_timer_cancel(t) == \E id \in Ids :
  LET found == Matching(GroupOf[t], id)
  IN  /\ wait[t] = Idle
      /\ found # {}
      /\ timer_objects' = [timer_objects EXCEPT ![Min(found)] = Free]
      /\ UNCHANGED <<next_timer_id, now, wait, created, served>>

(* timer_handler; at the bound the clock stands.                           *)
timer_handler ==
  /\ now' = IF now < MAX_NOW THEN now + 1 ELSE now
  /\ UNCHANGED <<timer_objects, next_timer_id, wait, created, served>>

Next ==
  \/ \E t \in THREADS : sys_timer_create(t) \/ WaitDue(t) \/ WaitSleep(t) \/ WaitWake(t) \/ sys_timer_cancel(t)
  \/ timer_handler

Spec == Init /\ [][Next]_vars

(* The clock runs, and a sleeper whose time has come is dispatched.        *)
FairSpec == Spec /\ WF_vars(timer_handler) /\ \A t \in THREADS : WF_vars(WaitWake(t))

-----------------------------------------------------------------------------
(* Two timers of a group never have the same identifier, so a sleeper that *)
(* comes back completes the timer it waited for, or none: never one that   *)
(* was created meanwhile in the same slot.                                 *)
WaitsForItsOwn ==
  TypeOK /\ \A t \in THREADS : wait[t] # Idle =>
    \A s \in Matching(GroupOf[t], wait[t].id) : timer_objects[s].serial = wait[t].serial

(* A periodic timer keeps its rhythm: late waiters, and several of them,   *)
(* move its deadline by whole periods and never past the next one.         *)
KeepsRhythm == \A s \in Slots : LET timer == timer_objects[s] IN
  timer.used /\ timer.period_ms > 0 =>
    /\ timer.deadline_ms >= timer.first
    /\ (timer.deadline_ms - timer.first) % timer.period_ms = 0
    /\ timer.deadline_ms > timer.first => timer.deadline_ms <= now + timer.period_ms

(* A wait for a one-shot timer succeeds only when the timer is due, and    *)
(* that releases it.                                                       *)
ServedOnce == \A s \in Slots : LET timer == timer_objects[s] IN
  timer.used /\ timer.period_ms = 0 /\ timer.serial \in served' \ served
    => timer.deadline_ms <= now /\ timer_objects'[s] = Free

(* Timers fire on time.  However many threads wait for a one-shot timer,   *)
(* no second wait succeeds, and none before it is due; and every step      *)
(* leaves the periodic timers in rhythm.                                   *)
TimersOnTime == [][KeepsRhythm' /\ ServedOnce]_vars

(* A thread that waits for a timer, even one that is cancelled or served   *)
(* to another thread meanwhile, comes back.                                *)
WaitReturns == \A t \in THREADS :
  (wait[t] # Idle /\ wait[t].wake_ms <= MAX_NOW) ~> wait[t] = Idle
=============================================================================
