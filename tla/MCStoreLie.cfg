CONSTANTS
    Keys = {1, 2}
    LEVELS = 4
    TABLES = 1
    CAP = 2
    SlotBlocks = 6
    MAX_SNAPSHOTS = 1
    Scratches = {s1}
    Seed <- MCSeed
    NoScratch = NoScratch
    MaxSeq = 4
    MaxTroubles = 2
    Lying = TRUE
SPECIFICATION Spec
INVARIANTS
    CrashSafe
