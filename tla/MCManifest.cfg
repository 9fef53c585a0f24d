SPECIFICATION Spec
CONSTANTS
    Copies = 2
    MaxBlocks = 3
    Bodies <- MCBodies
    EmptyBody = "fresh"
    BlocksOf <- MCBlocksOf
    MaxSeq = 3
    Lying = FALSE
INVARIANT TypeOK
INVARIANT CrashAtomic
INVARIANT NoMixedCopy
