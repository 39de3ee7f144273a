SPECIFICATION FairSpec
CONSTANTS
  MAX_KERNEL_VERSION = 4
  LISTED_MAX = 4
  SOURCES = {"bad", "hang", "good"}
  FAULTS = TRUE
INVARIANT NamedAreStaged
PROPERTY RunningUntouched
PROPERTY FallbackStarts
