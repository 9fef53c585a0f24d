CONSTANTS
    Nodes = {1, 2}
    TopWall = 9
    TopSeq = 12
    node_id = 1
    CAP = 2
    ARENA = 8
    COVER_ACTIVE = 1
    INEXACT_RANGES = 1
    OPEN_ENDS = 1
    KeyLen <- MCFleetKeyLen
    RDEL_HEADER = 1
    RDEL_ROOM = 7
    LEVELS = 2
    TABLES = 3
    SlotBlocks = 7
    MAX_SNAPSHOTS = 1
    CACHE = 1
    Scripts <- MCFleetScripts
    Foreign <- MCOtherOnly
    Walls = {}
    PurgeBefore = 1
    Calls = {"ingest", "request"}
    MaxEvents = 2
SPECIFICATION Spec
PROPERTY CompactionSafe
CHECK_DEADLOCK FALSE
