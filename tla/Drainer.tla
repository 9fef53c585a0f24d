------------------------------ MODULE Drainer ------------------------------
(***************************************************************************)
(* The drainer of src/drainer.rs between the admission ring and the Db,    *)
(* and the durable watermark that writers' Put futures poll.  The ring is  *)
(* the queue of module TicketQueue (module Ring implements it); Db::write  *)
(* is its outcome: the whole batch in the log, no room in the memtable, or *)
(* an error that may or may not have reached the log (module Wal).         *)
(*                                                                         *)
(* A payload is its kind: a mutation, an inverted range delete (accepted,  *)
(* queues nothing), or one that does not decode or does not fit.           *)
(***************************************************************************)
EXTENDS TicketQueue, Functions

CONSTANTS
    TicketSpace,   \* 2^31: tickets are taken modulo this
    Seed,          \* the ring's first ticket
    MAX_WRITES,    \* capacity of the pending buffer
    StallBudget,   \* empty polls before a fence
    Cap,           \* memtable slots
    Dropping,      \* sweep futures may be dropped
    MaxErrors      \* bound on failed device writes

ASSUME DrainerAssumption ==
    /\ TicketSpace \in Nat \ {0} /\ Seed \in 0 .. TicketSpace - 1
    /\ N \in Nat /\ MaxTickets \in Nat /\ MAX_WRITES \in Nat \ {0} /\ StallBudget \in Nat /\ Cap \in Nat
    /\ Payloads \subseteq {"put", "noop", "bad"}
    /\ Dropping \in BOOLEAN /\ MaxErrors \in Nat

VARIABLES
    pc,            \* where sweep is; "host" between calls
    pending,       \* drained tickets not yet acknowledged, in order
    stall_polls, poisoned,
    durable,       \* the watermark, a wrapped ticket
    mark,          \* the same as an endless ticket (history)
    mem,           \* entries in the memtable
    logged,        \* tickets whose mutation is in the log, in log order
    applied,       \* tickets whose mutation readers see, in order
    next_seq, durable_seq,
    errors

sweepvars == <<pc, pending, stall_polls, poisoned>>
watermark == <<durable, mark>>
db == <<mem, logged, applied, next_seq>>
vars == <<sweepvars, watermark, db, durable_seq, errors, tqvars>>

Half == TicketSpace \div 2
ticket(t) == (Seed + t) % TicketSpace

\* Variant: any watermark other than the ticket itself is past it.
is_ticket_durable_any(d, t) == d # t

is_ticket_durable(d, t) ==
    LET dist == (d - t) % TicketSpace IN dist # 0 /\ dist < Half

Init ==
    /\ TQInit
    /\ pc = "host"
    /\ pending = <<>>
    /\ stall_polls = 0
    /\ poisoned = FALSE
    /\ durable = Seed
    /\ mark = 0
    /\ mem = 0
    /\ logged = <<>>
    /\ applied = <<>>
    /\ next_seq = 0
    /\ durable_seq = 0
    /\ errors = 0

(***************************************************************************)
(* The other side of the ring                                              *)
(***************************************************************************)

Writer ==
    /\ \/ Claim
       \/ \E t \in Tickets, p \in Payloads : Publish(t, p)
       \/ \E t \in Tickets : GiveUp(t)
    /\ UNCHANGED <<sweepvars, watermark, db, durable_seq, errors>>

(***************************************************************************)
(* The watermark                                                           *)
(***************************************************************************)

\* A CAS that silently does nothing unless t is the ticket expected next.
advance_durable(t) ==
    IF durable = ticket(t)
    THEN durable' = (durable + 1) % TicketSpace /\ mark' = mark + 1
    ELSE UNCHANGED watermark

(***************************************************************************)
(* sweep                                                                   *)
(***************************************************************************)

sweep ==
    /\ pc = "host"
    /\ ~poisoned
    /\ pc' = IF pending = <<>> THEN "drain" ELSE "batch"
    /\ UNCHANGED <<pending, stall_polls, poisoned, watermark, db, durable_seq, errors, tqvars>>

\* One poll of the drain loop that found a ticket: taken or dead.
Buffers(has_data) ==
    /\ pc = "drain"
    /\ Len(pending) < MAX_WRITES
    /\ pending' = Append(pending, [t |-> next, has_data |-> has_data])
    /\ stall_polls' = 0
    /\ UNCHANGED <<pc, poisoned, watermark, db, durable_seq, errors>>

DrainOne == Drain /\ Buffers(TRUE)
SkipOne == Skip /\ Buffers(FALSE)

Awaiting == next < claimed => fate[next] = "claimed"

\* The loop ends: the buffer is full or the next ticket is not published.
DrainEnds ==
    /\ pc = "drain"
    /\ Len(pending) = MAX_WRITES \/ Awaiting
    /\ IF pending # <<>>
       THEN pc' = "batch" /\ UNCHANGED stall_polls
       ELSE IF stall_polls + 1 > StallBudget
       THEN pc' = "fence" /\ stall_polls' = 0
       ELSE pc' = "host"  /\ stall_polls' = stall_polls + 1
    /\ UNCHANGED <<pending, poisoned, watermark, db, durable_seq, errors, tqvars>>

\* Variant: the watermark does not follow the fence.
fence_no_advance ==
    /\ pc = "fence"
    /\ pc' = "host"
    /\ \/ Fence
       \/ /\ next < claimed => fate[next] # "claimed"
          /\ UNCHANGED tqvars
    /\ UNCHANGED <<pending, stall_polls, poisoned, watermark, db, durable_seq, errors>>

\* fence_cursor, which fences a claimed ticket that is still unpublished.
fence ==
    /\ pc = "fence"
    /\ pc' = "host"
    /\ \/ Fence /\ advance_durable(next)
       \/ /\ next < claimed => fate[next] # "claimed"
          /\ UNCHANGED <<watermark, tqvars>>
    /\ UNCHANGED <<pending, stall_polls, poisoned, db, durable_seq, errors>>

Payload(i) == item[pending[i].t]
Taken == {i \in DOMAIN pending : pending[i].has_data}
Puts == {i \in Taken : Payload(i) = "put"}

\* The n-th position of a finite set of positions.
nth(S, n) == CHOOSE i \in S : Cardinality({j \in S : j <= i}) = n

\* Variant: the batch is filled from the end of the buffer.
Ops_reversed ==
    LET n == Cardinality(Puts) IN [k \in 1 .. n |-> pending[nth(Puts, n + 1 - k)].t]

\* The tickets of the batch: a mutation each, in ticket order.
Ops == [k \in 1 .. Cardinality(Puts) |-> pending[nth(Puts, k)].t]

\* The batch is built: a payload that cannot be queued poisons the drainer,
\* a batch without a mutation is acknowledged at once.
batch ==
    /\ pc = "batch"
    /\ IF \E i \in Taken : Payload(i) = "bad"
       THEN pc' = "host" /\ poisoned' = TRUE
       ELSE /\ pc' = IF Puts = {} THEN "ack" ELSE "write"
            /\ UNCHANGED poisoned
    /\ UNCHANGED <<pending, stall_polls, watermark, db, durable_seq, errors, tqvars>>

Fits == mem + Len(Ops) <= Cap

\* Variant: the batch is acknowledged but never logged.
write_ok_unlogged ==
    /\ pc = "write" /\ Fits
    /\ applied' = applied \o Ops
    /\ mem' = mem + Len(Ops)
    /\ next_seq' = next_seq + Len(Ops)
    /\ durable_seq' = next_seq'
    /\ pc' = "ack"
    /\ UNCHANGED <<pending, stall_polls, poisoned, watermark, logged, errors, tqvars>>

\* Variant: durable_seq becomes the batch's first sequence number.
write_ok_base ==
    /\ pc = "write" /\ Fits
    /\ logged' = logged \o Ops
    /\ applied' = applied \o Ops
    /\ mem' = mem + Len(Ops)
    /\ next_seq' = next_seq + Len(Ops)
    /\ durable_seq' = next_seq + 1
    /\ pc' = "ack"
    /\ UNCHANGED <<pending, stall_polls, poisoned, watermark, errors, tqvars>>

\* Db::write put the whole batch in the log and the memtable.
write_ok ==
    /\ pc = "write"
    /\ Fits
    /\ logged' = logged \o Ops
    /\ applied' = applied \o Ops
    /\ mem' = mem + Len(Ops)
    /\ next_seq' = next_seq + Len(Ops)
    /\ durable_seq' = next_seq'
    /\ pc' = "ack"
    /\ UNCHANGED <<pending, stall_polls, poisoned, watermark, errors, tqvars>>

\* TableFull or ArenaFull: Stalled, the tickets stay pending.
write_full ==
    /\ pc = "write"
    /\ ~Fits
    /\ pc' = "host"
    /\ UNCHANGED <<pending, stall_polls, poisoned, watermark, db, durable_seq, errors, tqvars>>

\* Any other error poisons: before the memtable's room is looked at (the batch
\* is larger than a log block) or from the device.  There the batch may have
\* landed all the same; its sequence numbers are then consumed.
write_fails ==
    /\ pc = "write"
    /\ errors < MaxErrors
    /\ errors' = errors + 1
    /\ \/ Fits /\ logged' = logged \o Ops /\ next_seq' = next_seq + Len(Ops)
       \/ UNCHANGED <<logged, next_seq>>
    /\ poisoned' = TRUE
    /\ pc' = "host"
    /\ UNCHANGED <<pending, stall_polls, watermark, mem, applied, durable_seq, tqvars>>

\* The sweep future is dropped while it waits for the device: the tickets
\* stay pending, and what the device got it keeps.
DropSweep ==
    /\ Dropping
    /\ pc = "write"
    /\ errors < MaxErrors
    /\ errors' = errors + 1
    /\ (Fits /\ logged' = logged \o Ops) \/ UNCHANGED logged
    /\ pc' = "host"
    /\ UNCHANGED <<pending, stall_polls, poisoned, watermark, mem, applied, next_seq, durable_seq,
                   tqvars>>

\* ack_pending moves the watermark ticket by ticket, then empties the buffer.
ack_pending ==
    /\ pc = "ack"
    /\ advance_durable(Head(pending).t)
    /\ pending' = Tail(pending)
    /\ pc' = IF Len(pending) = 1 THEN "host" ELSE "ack"
    /\ UNCHANGED <<stall_polls, poisoned, db, durable_seq, errors, tqvars>>

\* The host answers Stalled with a flush, which empties the memtable.
flush ==
    /\ pc = "host"
    /\ mem > 0
    /\ mem' = 0
    /\ UNCHANGED <<sweepvars, watermark, logged, applied, next_seq, durable_seq, errors, tqvars>>

Sweeping ==
    \/ sweep \/ DrainOne \/ SkipOne \/ DrainEnds \/ fence \/ batch
    \/ write_ok \/ write_full \/ ack_pending

Next == Writer \/ Sweeping \/ write_fails \/ DropSweep \/ flush

Spec == Init /\ [][Next]_vars

\* The host keeps polling sweep, and flushes when sweep reports Stalled (a
\* flush follows every sweep that found no room).
FairSpec ==
    /\ Spec
    /\ WF_vars(Sweeping)
    /\ SF_vars(flush /\ pending # <<>>)

(***************************************************************************)
(* Properties                                                              *)
(***************************************************************************)

\* Every variable has its type; the pending buffer never exceeds MAX_WRITES.
TypeOK ==
    /\ pc \in {"host", "drain", "fence", "batch", "write", "ack"}
    /\ pending \in Seq([t : Tickets, has_data : BOOLEAN]) /\ Len(pending) <= MAX_WRITES
    /\ stall_polls \in 0 .. StallBudget
    /\ poisoned \in BOOLEAN
    /\ durable \in 0 .. TicketSpace - 1
    /\ mark \in 0 .. next
    /\ mem \in 0 .. Cap
    /\ logged \in Seq(Tickets) /\ applied \in Seq(Tickets)
    /\ next_seq \in Nat /\ durable_seq \in 0 .. next_seq
    /\ errors \in 0 .. MaxErrors

\* Acknowledged implies durable (multiwriter-spec O1): every ticket below the
\* watermark is dead, or its mutation is in the log (an inverted range delete
\* has none).
AckedDurable ==
    \A t \in 0 .. mark - 1 :
        \/ fate[t] = "dead"
        \/ fate[t] = "drained" /\ (item[t] = "put" => t \in Range(logged))

\* The watermark and the pending buffer together account for every ticket the
\* cursor has passed: nothing drained is forgotten, nothing counted twice.
\* (With the types.)
NothingForgotten ==
    /\ TypeOK
    /\ durable = ticket(mark)
    /\ mark + Len(pending) = next
    /\ \A i \in DOMAIN pending : pending[i].t = mark + i - 1

\* A Put future never resolves early: is_ticket_durable says yes only to
\* tickets below the watermark, across the wrap of the ticket space.
PutTellsTruth ==
    \A t \in 0 .. claimed - 1 : is_ticket_durable(durable, ticket(t)) => t < mark

\* Replaying the log gives each mutation in ticket order: the last copies of
\* the logged tickets increase, even when a dropped sweep is retried.
LogInTicketOrder ==
    \A i, j \in DOMAIN logged :
        i < j /\ logged[i] > logged[j]
        => \E k \in j + 1 .. Len(logged) : logged[k] = logged[i]

\* A snapshot taken right after sweep pins the acknowledged prefix: the tip
\* is durable_seqnum and covers the acknowledged mutations and no others.
SnapshotIsAckedPrefix ==
    pc = "host" /\ ~poisoned =>
        /\ next_seq = durable_seq
        /\ durable_seq = Len(applied)
        /\ Range(applied) = {t \in 0 .. mark - 1 : fate[t] = "drained" /\ item[t] = "put"}

\* Every ticket a writer ever gets is resolved, unless the drainer is
\* poisoned: stalled writers are fenced, full memtables flushed.
Resolves == \A t \in Tickets : t < claimed ~> t < mark \/ poisoned
=============================================================================
