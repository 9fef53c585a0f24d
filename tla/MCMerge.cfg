CONSTANTS
    Nodes = {0}
    TopWall = 9
    TopSeq = 20
    node_id = 0
    CAP = 2
    ARENA = 8
    COVER_ACTIVE = 1
    INEXACT_RANGES = 1
    OPEN_ENDS = 1
    KeyLen <- MCKeyLen
    RDEL_HEADER = 1
    RDEL_ROOM = 7
    LEVELS = 3
    TABLES = 2
    SlotBlocks = 7
    MAX_SNAPSHOTS = 1
    CACHE = 0
    Scripts <- MCScripts
    Foreign = {}
    Walls = {}
    PurgeBefore = 1
    Calls = {"snapshot", "release", "request"}
    MaxEvents = 2
SPECIFICATION Spec
INVARIANTS ReadsRight TreeOk SealFits
CHECK_DEADLOCK FALSE
