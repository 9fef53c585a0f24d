SPECIFICATION FairSpec
CONSTANTS
    N = 2
    TicketSpace = 8
    Seeds = {7}
    MaxTickets = 3
    Writers = {w1, w2}
    Payloads = {w1, w2}
    PayloadsOf <- MCPayloadsOf
    NoPayload = NoPayload
    NoTicket = NoTicket
    Prompt = TRUE
    MaxDeaths = 1
    MaxSpurious = 1
INVARIANTS SlotExclusive HeadNotFenced
PROPERTIES RefinesQueue PublishedDrained NeverWedged
