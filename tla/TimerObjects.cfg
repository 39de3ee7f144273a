SPECIFICATION FairSpec
CONSTANTS
  THREADS = {a1, a2, b1}
  GROUPS = {{a1, a2}, {b1}}
  MAX_TIMER_OBJECTS = 2
  MAX_TIMER_ID = 4
  DELAYS = {0, 2}
  PERIODS = {0, 2}
  MAX_NOW = 4
  MAX_CREATED = 3
INVARIANT WaitsForItsOwn
PROPERTY TimersOnTime
PROPERTY WaitReturns
