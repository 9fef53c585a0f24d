CONSTANTS
    Nodes = {0}
    TopWall = 9
    TopSeq = 99
    node_id = 0
    CAP = 6
    ARENA = 11
    BLOCK = 12
    RESTART_INTERVAL = 2
    MAX_ENTRIES = 4
    INDEX_MAX = 6
    ENTRY_HEADER = 1
    RDEL_HEADER = 4
    Probe <- MCProbe
    Keys = {1, 2, 3}
    TABLES = 2
    SLOTS = 4
    SlotBlocks = 14
    Seeds <- MCSeeds
    Ops <- MCOps
    MaxSeq = 6
    MaxEvents = 1
    MaxFaults = 0
    Ranges <- MCRanges
    RevRanges <- MCRevRanges
    Views = {4, 99}
    Retries = FALSE
SPECIFICATION Spec
INVARIANTS GetRight ScanRight FlushFits
PROPERTY ScanAdvances
