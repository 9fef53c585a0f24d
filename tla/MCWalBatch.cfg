SPECIFICATION Spec
CONSTANTS
    Units = 2
    WalBlocks = 3
    Sizes = {1, 2}
    MaxOps = 3
    Cap = 6
    Calls = {"append_batch"}
    InPlaces = {TRUE}
    Lying = FALSE
    Dropping = {}
    MaxTries = 2
    MaxFaults = 1
INVARIANT BatchPrefix
