SPECIFICATION FairSpec
CONSTANTS
  MAX_PROCESSES = 4
  SCHED_TICKS_PER_SLICE = 1
  SLEEPS = {0, 1}
  NoWake = NoWake
INVARIANT IInv
INVARIANT InitStays
PROPERTY Dispatched
PROPERTY SleepersWake
