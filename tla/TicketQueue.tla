---------------------------- MODULE TicketQueue ----------------------------
(***************************************************************************)
(* What the admission ring promises its users (docs/multiwriter-spec.md,   *)
(* sections 2 to 6): tickets 0, 1, 2, ... without end, each with one fate. *)
(* A claimed ticket is published by its owner, or dies (fenced by the      *)
(* drainer, or released by the host for a dead owner).  The one consumer   *)
(* takes the tickets in order: a published one yields its own payload,     *)
(* once; a dead one yields nothing.                                        *)
(***************************************************************************)
EXTENDS Integers, Sequences, FiniteSets

CONSTANTS
    N,          \* slots of the ring
    Payloads,   \* payloads a writer may publish
    NoPayload,  \* not a payload
    MaxTickets  \* bound on the tickets ever claimed

VARIABLES
    claimed,    \* tickets handed out so far: 0 .. claimed - 1
    next,       \* the ticket the consumer is at
    fate,       \* what became of each ticket
    item,       \* the payload each ticket was published with
    out         \* what the consumer got: ticket and payload, in order

tqvars == <<claimed, next, fate, item, out>>

Tickets == 0 .. MaxTickets - 1
Fates   == {"unclaimed", "claimed", "published", "dead", "drained"}

TQInit ==
    /\ claimed = 0
    /\ next = 0
    /\ fate = [t \in Tickets |-> "unclaimed"]
    /\ item = [t \in Tickets |-> NoPayload]
    /\ out = <<>>

\* At most N tickets are live; a refused claim changes nothing.
Live == {t \in Tickets : fate[t] \in {"claimed", "published"}}

Claim ==
    /\ claimed < MaxTickets
    /\ Cardinality(Live) < N
    /\ fate' = [fate EXCEPT ![claimed] = "claimed"]
    /\ claimed' = claimed + 1
    /\ UNCHANGED <<next, item, out>>

Publish(t, p) ==
    /\ fate[t] = "claimed"
    /\ fate' = [fate EXCEPT ![t] = "published"]
    /\ item' = [item EXCEPT ![t] = p]
    /\ UNCHANGED <<claimed, next, out>>

\* The host gives up a ticket whose owner is dead.
GiveUp(t) ==
    /\ fate[t] = "claimed"
    /\ fate' = [fate EXCEPT ![t] = "dead"]
    /\ UNCHANGED <<claimed, next, item, out>>

\* The consumer fences the ticket it waits for.
Fence ==
    /\ next < claimed
    /\ fate[next] = "claimed"
    /\ fate' = [fate EXCEPT ![next] = "dead"]
    /\ next' = next + 1
    /\ UNCHANGED <<claimed, item, out>>

Drain ==
    /\ next < claimed
    /\ fate[next] = "published"
    /\ fate' = [fate EXCEPT ![next] = "drained"]
    /\ next' = next + 1
    /\ out' = Append(out, <<next, item[next]>>)
    /\ UNCHANGED <<claimed, item>>

Skip ==
    /\ next < claimed
    /\ fate[next] = "dead"
    /\ next' = next + 1
    /\ UNCHANGED <<claimed, fate, item, out>>

TQNext ==
    \/ Claim
    \/ \E t \in Tickets, p \in Payloads : Publish(t, p)
    \/ \E t \in Tickets : GiveUp(t)
    \/ Fence
    \/ Drain
    \/ Skip

TQSpec == TQInit /\ [][TQNext]_tqvars
=============================================================================
