SPECIFICATION Spec
CONSTANTS
  ENTRIES = 3
  MAX_PROCESSES = 4
  MEMORY <- Sizes
  IMAGES <- Programs
  HEAP_PAGES = 2
  NET_PAGES = 1
INVARIANT SpacesSound
PROPERTY NothingLeft
