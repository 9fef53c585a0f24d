SPECIFICATION FairSpec
CONSTANTS
    N = 2
    TicketSpace = 16
    Seed = 14
    MaxTickets = 4
    Payloads = {"put", "noop", "bad"}
    NoPayload = NoPayload
    MAX_WRITES = 2
    StallBudget = 1
    Cap = 2
    Dropping = TRUE
    MaxErrors = 1
INVARIANTS AckedDurable NothingForgotten PutTellsTruth LogInTicketOrder SnapshotIsAckedPrefix
PROPERTY Resolves
CHECK_DEADLOCK FALSE
