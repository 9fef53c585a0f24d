SPECIFICATION Spec
CONSTANTS
    Units = 3
    WalBlocks = 2
    Sizes = {1, 2}
    MaxOps = 2
    Cap = 3
    Calls = {"put", "write", "flush"}
    InPlaces = {TRUE, FALSE}
    Lying = FALSE
    Dropping = {"flush"}
    MaxTries = 3
    MaxFaults = 1
INVARIANT TypeOK
INVARIANT AckedSurvive
INVARIANT GroupAtomic
INVARIANT NoStaleReplay
INVARIANT LiveBlockKept
INVARIANT SeqsDistinct
PROPERTY FlushMakesRoom
