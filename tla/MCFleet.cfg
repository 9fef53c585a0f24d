CONSTANTS
    Nodes = {0, 1, 2}
    TopWall = 9
    TopSeq = 12
    node_id = 1
    CAP = 2
    ARENA = 8
    COVER_ACTIVE = 1
    INEXACT_RANGES = 1
    OPEN_ENDS = 1
    KeyLen <- MCFleetKeyLen
    RDEL_HEADER = 1
    RDEL_ROOM = 7
    LEVELS = 2
    TABLES = 3
    SlotBlocks = 7
    MAX_SNAPSHOTS = 1
    CACHE = 1
    Scripts <- MCFleetScripts
    Foreign <- MCForeign
    Walls = {7}
    PurgeBefore = 1
    Calls = {"get", "snapshot", "request", "archive", "ingest", "stamp"}
    MaxEvents = 3
SPECIFICATION FairSpec
INVARIANTS TreeOk CacheCoherent
PROPERTIES ArchiveNeverResurrects CompactionKeepsReads RequestEnds
CHECK_DEADLOCK FALSE
