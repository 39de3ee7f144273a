SPECIFICATION FairSpec
CONSTANTS
    Worlds <- MCWorlds
    LBA28 = 64
    MaxTrouble = 1
    BACKUP = 2
    ENTS = 6
    BUFFER = 2
    LIST_DEPTH = 4
    SECTOR = 2
    SECTORS_PER_CLUSTER = 2
    RESERVED_SECTORS = 3
    NUM_FATS = 2
    FAT_SIZE_SECTORS = 2
    FAT_ENTS = 12
    PARTITION_START_LBA = 4
    FS_TOTAL_SECTORS = 47
    MAX_STAGE_FILES = 4
    FILE_POOL_BYTES = 40
    TRANSFER = 3
    LIST_MAX = 4
    INCLUDE_MAX = 2
    MaxRuns = 2
INVARIANT InstalledReadsBack
INVARIANT AckedStays
INVARIANT ListedIsFound
INVARIANT OnlyItsSectors
PROPERTY InstallEnds
CHECK_DEADLOCK FALSE
