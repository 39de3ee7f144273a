SPECIFICATION Spec
CONSTANTS
  HEAP_SIZE = 22
  WORD = 4096
  REQUESTS = {0, 1, 16, 33}
INVARIANT HeapSound
INVARIANT RoomIsFound
PROPERTY Implements
