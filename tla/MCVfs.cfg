SPECIFICATION VSpec
CONSTANTS
  Names = {"a", "b"}
  TOTAL_CLUSTERS = 4
  NUM_FATS = 2
  ENTRIES = 2
  BYTES_PER_CLUSTER = 2
  MAX_OPEN_FILES = 3
  VFS_MAX_OPEN_FILES = 2
  Tags = {1, 2}
  Uses <- AllUses
 
INVARIANT AckedOnDisk
PROPERTY FilesImplemented
