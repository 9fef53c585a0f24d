-------------------------------- MODULE Ring --------------------------------
(***************************************************************************)
(* The admission ring of src/ring.rs and the writer-side put of            *)
(* src/writer.rs, one atomic memory access per step: writers race for the  *)
(* head, fill the payload cells, publish with a CAS; the one consumer      *)
(* polls, drains and fences; the host releases the slots of dead writers.  *)
(*                                                                         *)
(* Tickets wrap at TicketSpace (2^31 in the code), so small instances wrap *)
(* many times.  The queue of module TicketQueue, with its endless tickets, *)
(* is kept beside the ring as history; the ring is shown to implement it.  *)
(* Atomic accesses are sequentially consistent.                            *)
(***************************************************************************)
EXTENDS TicketQueue

CONSTANTS
    TicketSpace,  \* 2^31: tickets are taken modulo this
    Seeds,        \* tickets the ring may start at (new_seeded)
    Writers,      \* writer threads
    PayloadsOf,   \* payloads each writer puts
    NoTicket,     \* not a ticket
    Prompt,       \* no claim attempt sleeps through TicketSpace claims
    MaxDeaths,    \* bound on writers that die holding a ticket
    MaxSpurious   \* bound on CASes that fail for no reason (LL/SC targets)

ASSUME RingAssumption ==
    /\ N \in Nat /\ N >= 2
    /\ TicketSpace \in Nat /\ TicketSpace % N = 0 /\ TicketSpace > 2 * N
    /\ Seeds \subseteq 0 .. TicketSpace - 1
    /\ PayloadsOf \in [Writers -> SUBSET Payloads]
    /\ MaxTickets \in Nat /\ MaxDeaths \in Nat /\ NoTicket \notin Writers

VARIABLES
    head,      \* next ticket to claim
    cursor,    \* the consumer's ticket
    gate,      \* each slot's gate
    cell,      \* each slot's payload, in two cells
    w,         \* each writer: where it is, its ticket, its payload
    c,         \* the consumer: where it is and what it has read
    h,         \* the host: the writer it releases and the gate it read
    deaths, spurious

vars == <<head, cursor, gate, cell, w, c, h, deaths, spurious, tqvars>>

ring == <<head, cursor, gate, cell>>

Half == TicketSpace \div 2
FENCED_BIT == TicketSpace
Slot(t) == t % N

next_ticket(t) == (t + 1) % TicketSpace
published_gate(t) == next_ticket(t)
release_gate(t) == (t + N) % TicketSpace
fenced_gate(t) == t + FENCED_BIT

\* Variant: only FENCED(t) and FREE(t + N) count as past t.
gate_is_past_exact(g, t) == g = fenced_gate(t) \/ g = release_gate(t)

\* The slot has moved past ticket t: t is dead.
gate_is_past(g, t) ==
    IF g >= FENCED_BIT THEN g = fenced_gate(t)
    ELSE LET ticket == IF Slot(g) = Slot(t) THEN g ELSE (g - 1) % TicketSpace
             ahead  == (ticket - t) % TicketSpace
         IN  g # t /\ ahead # 0 /\ ahead < Half

IdleWriter == [pc |-> "idle", t |-> NoTicket, p |-> NoPayload, abs |-> NoTicket]
IdleConsumer == [pc |-> "poll", p |-> <<>>]
IdleHost == [who |-> NoTicket, g |-> NoTicket]

Init ==
    /\ TQInit
    /\ \E seed \in Seeds :
          /\ head = seed
          /\ cursor = seed
          /\ gate = [s \in 0 .. N - 1 |->
                        CHOOSE t \in 0 .. TicketSpace - 1 :
                            Slot(t) = s /\ (t - seed) % TicketSpace < N]
    /\ cell = [s \in 0 .. N - 1 |-> <<NoPayload, NoPayload>>]
    /\ w = [x \in Writers |-> IdleWriter]
    /\ c = IdleConsumer
    /\ h = IdleHost
    /\ deaths = 0
    /\ spurious = 0

(***************************************************************************)
(* Writers: put, try_claim, publish                                        *)
(***************************************************************************)

At(x, pc) == w[x].pc = pc
Goes(x, pc) == w' = [w EXCEPT ![x].pc = pc]
Holding == {"cell1", "cell2", "publish", "reread", "self"}

\* A ticket's fate, as the history records it.
Became(t, f) == fate' = [fate EXCEPT ![t] = f]

\* put starts, or starts over with a new ticket: try_claim loads the head.
load_head(x) ==
    /\ \/ At(x, "idle") /\ \E p \in PayloadsOf[x] :
             w' = [w EXCEPT ![x] = [pc |-> "check", t |-> head, p |-> p, abs |-> NoTicket]]
       \/ At(x, "load") /\ w' = [w EXCEPT ![x].pc = "check", ![x].t = head]
    /\ UNCHANGED <<ring, c, h, deaths, spurious, tqvars>>

\* Variant: the head is claimed without looking at the gate.
check_gate_skipped(x) ==
    /\ At(x, "check")
    /\ Goes(x, "cas")
    /\ UNCHANGED <<ring, c, h, deaths, spurious, tqvars>>

\* The gate check: a slot that is not FREE(t) ends the put with RingFull.
check_gate(x) ==
    /\ At(x, "check")
    /\ w' = IF gate[Slot(w[x].t)] = w[x].t
            THEN [w EXCEPT ![x].pc = "cas"]
            ELSE [w EXCEPT ![x] = IdleWriter]
    /\ UNCHANGED <<ring, c, h, deaths, spurious, tqvars>>

\* Nobody is asleep between its head load and its CAS with the ticket the
\* head is about to come round to.
NoSleeper(x) ==
    \A y \in Writers \ {x} : At(y, "check") \/ At(y, "cas") => w[y].t # next_ticket(head)

\* The claim CAS; losing it ends the put with RingFull, too.
claim_cas(x) ==
    /\ At(x, "cas")
    /\ \/ /\ head = w[x].t
          /\ claimed < MaxTickets
          /\ Prompt => NoSleeper(x)
          /\ head' = next_ticket(head)
          /\ w' = [w EXCEPT ![x].pc = "cell1", ![x].abs = claimed]
          /\ Became(claimed, "claimed")
          /\ claimed' = claimed + 1
       \/ /\ head # w[x].t
          /\ w' = [w EXCEPT ![x] = IdleWriter]
          /\ UNCHANGED <<head, claimed, fate>>
    /\ UNCHANGED <<cursor, gate, cell, c, h, deaths, spurious, next, item, out>>

\* write_payload stores the cells one by one.
write_payload(x) ==
    /\ \/ At(x, "cell1") /\ cell' = [cell EXCEPT ![Slot(w[x].t)][1] = w[x].p]
                         /\ Goes(x, "cell2")
       \/ At(x, "cell2") /\ cell' = [cell EXCEPT ![Slot(w[x].t)][2] = w[x].p]
                         /\ Goes(x, "publish")
    /\ UNCHANGED <<head, cursor, gate, c, h, deaths, spurious, tqvars>>

\* Variant: publish stores the gate instead of exchanging it.
publish_store(x) ==
    /\ At(x, "publish")
    /\ gate' = [gate EXCEPT ![Slot(w[x].t)] = published_gate(w[x].t)]
    /\ w' = [w EXCEPT ![x] = IdleWriter]
    /\ Became(w[x].abs, "published")
    /\ item' = [item EXCEPT ![w[x].abs] = w[x].p]
    /\ UNCHANGED <<head, cursor, cell, c, h, deaths, spurious, claimed, next, out>>

\* The publish CAS from FREE(t) to PUBLISHED(t).
publish(x) ==
    /\ At(x, "publish")
    /\ LET t == w[x].t
       IN  \/ /\ gate[Slot(t)] = t
              /\ gate' = [gate EXCEPT ![Slot(t)] = published_gate(t)]
              /\ w' = [w EXCEPT ![x] = IdleWriter]
              /\ Became(w[x].abs, "published")
              /\ item' = [item EXCEPT ![w[x].abs] = w[x].p]
              /\ UNCHANGED spurious
           \/ /\ gate[Slot(t)] = t => spurious < MaxSpurious
              /\ spurious' = IF gate[Slot(t)] = t THEN spurious + 1 ELSE spurious
              /\ Goes(x, "reread")
              /\ UNCHANGED <<gate, fate, item>>
    /\ UNCHANGED <<head, cursor, cell, c, h, deaths, claimed, next, out>>

\* A failed publish looks again: still FREE(t) retries, FENCED(t) releases
\* the slot, anything else leaves it alone.  put then claims anew.
reread_gate(x) ==
    /\ At(x, "reread")
    /\ LET t == w[x].t
           g == gate[Slot(t)]
       IN  Goes(x, IF g = t THEN "publish" ELSE IF g = fenced_gate(t) THEN "self" ELSE "load")
    /\ UNCHANGED <<ring, c, h, deaths, spurious, tqvars>>

\* Variant: a fenced writer leaves its slot behind.
self_release_none(x) ==
    /\ At(x, "self")
    /\ Goes(x, "load")
    /\ UNCHANGED <<ring, c, h, deaths, spurious, tqvars>>

self_release(x) ==
    /\ At(x, "self")
    /\ LET t == w[x].t
       IN  gate' = IF gate[Slot(t)] = fenced_gate(t)
                   THEN [gate EXCEPT ![Slot(t)] = release_gate(t)] ELSE gate
    /\ Goes(x, "load")
    /\ UNCHANGED <<head, cursor, cell, c, h, deaths, spurious, tqvars>>

(***************************************************************************)
(* Dead writers                                                            *)
(***************************************************************************)

\* A thread dies between its claim and the end of its publish.
Dies(x) ==
    /\ w[x].pc \in Holding
    /\ deaths < MaxDeaths
    /\ deaths' = deaths + 1
    /\ Goes(x, "dead")
    /\ UNCHANGED <<ring, c, h, spurious, tqvars>>

\* force_release_slot, called once the host has proof of the death: it loads
\* the gate and then stores what it decided.
force_release_load(x) ==
    /\ h = IdleHost /\ At(x, "dead")
    /\ h' = [who |-> x, g |-> gate[Slot(w[x].t)]]
    /\ UNCHANGED <<ring, w, c, deaths, spurious, tqvars>>

force_release_store(x) ==
    /\ h.who = x
    /\ LET t == w[x].t
       IN  IF h.g \in {t, fenced_gate(t)}
           THEN /\ gate' = [gate EXCEPT ![Slot(t)] = release_gate(t)]
                /\ IF h.g = t THEN Became(w[x].abs, "dead") ELSE UNCHANGED fate
           ELSE UNCHANGED <<gate, fate>>
    /\ h' = IdleHost
    /\ w' = [w EXCEPT ![x] = IdleWriter]
    /\ UNCHANGED <<head, cursor, cell, c, deaths, spurious, claimed, next, item, out>>

(***************************************************************************)
(* The consumer: poll_drain, fence_cursor                                  *)
(***************************************************************************)

\* poll_drain loads the cursor's gate: drain, skip a dead ticket, or wait;
\* the drainer's policy may turn a wait into a fence.
poll_drain ==
    /\ c.pc = "poll"
    /\ LET g == gate[Slot(cursor)]
       IN  \/ /\ g = published_gate(cursor)
              /\ c' = [c EXCEPT !.pc = "read1"]
              /\ UNCHANGED <<cursor, next>>
           \/ /\ g # published_gate(cursor) /\ gate_is_past(g, cursor)
              /\ cursor' = next_ticket(cursor)
              /\ next' = next + 1
              /\ UNCHANGED c
           \/ /\ g # published_gate(cursor) /\ ~gate_is_past(g, cursor)
              /\ c' = [c EXCEPT !.pc = "fence"]
              /\ UNCHANGED <<cursor, next>>
    /\ UNCHANGED <<head, gate, cell, w, h, deaths, spurious, claimed, fate, item, out>>

read_payload ==
    /\ \/ c.pc = "read1" /\ c' = [c EXCEPT !.pc = "read2",
                                           !.p = <<cell[Slot(cursor)][1]>>]
       \/ c.pc = "read2" /\ c' = [c EXCEPT !.pc = "release",
                                           !.p = Append(@, cell[Slot(cursor)][2])]
    /\ UNCHANGED <<ring, w, h, deaths, spurious, tqvars>>

\* The slot goes to the ticket N ahead and the payload to the caller.
release ==
    /\ c.pc = "release"
    /\ gate' = [gate EXCEPT ![Slot(cursor)] = release_gate(cursor)]
    /\ cursor' = next_ticket(cursor)
    /\ c' = IdleConsumer
    /\ Became(next, "drained")
    /\ next' = next + 1
    /\ out' = Append(out, <<next, IF c.p[1] = c.p[2] THEN c.p[1] ELSE NoPayload>>)
    /\ UNCHANGED <<head, cell, w, h, deaths, spurious, claimed, item>>

\* Variant: the head is not looked at before the fence.
fence_load_unchecked ==
    /\ c.pc = "fence"
    /\ c' = [c EXCEPT !.pc = "fcas"]
    /\ UNCHANGED <<ring, w, h, deaths, spurious, tqvars>>

\* fence_cursor refuses an unclaimed ticket, then tries its CAS.
fence_load ==
    /\ c.pc = "fence"
    /\ c' = [c EXCEPT !.pc = IF head = cursor THEN "poll" ELSE "fcas"]
    /\ UNCHANGED <<ring, w, h, deaths, spurious, tqvars>>

fence_cas ==
    /\ c.pc = "fcas"
    /\ c' = IdleConsumer
    /\ \/ /\ gate[Slot(cursor)] = cursor
          /\ gate' = [gate EXCEPT ![Slot(cursor)] = fenced_gate(cursor)]
          /\ cursor' = next_ticket(cursor)
          /\ Became(next, "dead")
          /\ next' = next + 1
       \/ /\ gate[Slot(cursor)] # cursor
          /\ UNCHANGED <<gate, cursor, fate, next>>
    /\ UNCHANGED <<head, cell, w, h, deaths, spurious, claimed, item, out>>

(***************************************************************************)
(* The specification                                                       *)
(***************************************************************************)

try_claim(x) == load_head(x) \/ check_gate(x) \/ claim_cas(x)
Publishes(x) == write_payload(x) \/ publish(x) \/ reread_gate(x) \/ self_release(x)
force_release_slot(x) == force_release_load(x) \/ force_release_store(x)
fence_cursor == fence_load \/ fence_cas
Consumer == poll_drain \/ read_payload \/ release \/ fence_cursor

Next ==
    \/ \E x \in Writers : try_claim(x) \/ Publishes(x) \/ Dies(x) \/ force_release_slot(x)
    \/ Consumer

Spec == Init /\ [][Next]_vars

\* The drainer is polled for ever and fences what it has waited long enough
\* for; a thread inside publish keeps running; the host releases the slots of
\* the threads it has joined.  Nobody is obliged to put.
FairSpec ==
    /\ Spec
    /\ WF_vars(Consumer)
    /\ \A x \in Writers : WF_vars(Publishes(x)) /\ WF_vars(force_release_slot(x))

(***************************************************************************)
(* Properties                                                              *)
(***************************************************************************)

\* Every variable has its type: head and cursor stay masked to the ticket
\* space and a gate is a ticket or a fenced ticket.
TypeOK ==
    /\ head \in 0 .. TicketSpace - 1
    /\ cursor \in 0 .. TicketSpace - 1
    /\ gate \in [0 .. N - 1 -> 0 .. 2 * TicketSpace - 1]
    /\ claimed \in 0 .. MaxTickets
    /\ next \in 0 .. claimed
    /\ fate \in [Tickets -> Fates]
    /\ item \in [Tickets -> Payloads \cup {NoPayload}]

\* Slot exclusivity (multiwriter-spec I2): no two writers are ever between
\* claim and the end of publish on one slot, and nobody stores into the cells
\* poll_drain is reading.
SlotExclusive ==
    /\ \A x, y \in Writers :
          x # y /\ w[x].pc \in Holding \cup {"dead"} /\ w[y].pc \in Holding \cup {"dead"}
          => Slot(w[x].t) # Slot(w[y].t)
    /\ \A x \in Writers :
          c.pc \in {"read1", "read2", "release"} /\ w[x].pc \in {"cell1", "cell2"}
          => Slot(w[x].t) # Slot(cursor)

\* fence_cursor never fences a ticket nobody has claimed: the head's slot is
\* never FENCED(head), which no claim could get past.  (With the types.)
HeadNotFenced == TypeOK /\ gate[Slot(head)] # fenced_gate(head)

\* The ring with wrapping tickets is indistinguishable from the queue with
\* endless ones (multiwriter-spec I3): every step of the code is one step of
\* TicketQueue or none, so each accepted payload is drained whole, once, in
\* ticket order, and a fenced or released ticket is never drained.
RefinesQueue == TQSpec

\* A published ticket is drained, whatever the other writers do: the stalled
\* are fenced, the dead skipped.
PublishedDrained == \A t \in Tickets : fate[t] = "published" ~> fate[t] = "drained"

\* The ring never wedges: again and again the head's slot is FREE(head), in
\* spite of fenced tickets and dead writers.
NeverWedged == []<>(gate[Slot(head)] = head)
=============================================================================
