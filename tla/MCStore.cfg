CONSTANTS
    Keys = {1, 2}
    LEVELS = 4
    TABLES = 1
    CAP = 2
    SlotBlocks = 6
    MAX_SNAPSHOTS = 1
    Scratches = {s1, s2}
    Seed <- MCSeed
    NoScratch = NoScratch
    MaxSeq = 4
    MaxTroubles = 1
    Lying = FALSE
SPECIFICATION Spec
INVARIANTS
    TypeOK
    check_invariants
    ReadsRight
    CrashSafe
    TightNeverGrows
PROPERTY ImplementsKv
