----------------------------- MODULE RingProofs -----------------------------
(***************************************************************************)
(* For every ring size, ticket space, seed and number of writers: the ring *)
(* of wrapping tickets implements the queue of endless ones, and its slots *)
(* are exclusive (multiwriter-spec I1 to I3).                              *)
(* Each atomic access of a writer, of the host and of the consumer keeps   *)
(* an inductive invariant and is a step of that queue, or none.            *)
(***************************************************************************)
EXTENDS Ring, FiniteSetTheorems, TLAPS

Slots == 0 .. N - 1

\* The consumer is not a lap of the ticket space behind the head.  Only
\* tickets of dead writers pile up ahead of it: live ones have the slots.
NotLapped == claimed + N <= next + TicketSpace

(***************************************************************************)
(* The inductive invariant.  sd is the ring's first ticket, and b gives    *)
(* the endless ticket each slot is at.                                     *)
(***************************************************************************)

\* The wrapped form of endless ticket j.
T(sd, j) == (sd + j) % TicketSpace

\* The slot of endless ticket j.
S(sd, j) == (sd + j) % N

\* Between claim and the end of publish, dead owners included.
Holds(x) == w[x].pc \in Holding \cup {"dead"}

WriterRec ==
    [pc  : Holding \cup {"idle", "load", "check", "cas", "dead"},
     t   : 0 .. TicketSpace - 1 \cup {NoTicket},
     p   : Payloads \cup {NoPayload},
     abs : Tickets \cup {NoTicket}]

ConsumerRec ==
    [pc : {"poll", "read1", "read2", "release", "fence", "fcas"},
     p : Seq(Payloads \cup {NoPayload})]

Types ==
    /\ claimed \in 0 .. MaxTickets
    /\ next \in 0 .. claimed
    /\ fate \in [Tickets -> Fates]
    /\ item \in [Tickets -> Payloads \cup {NoPayload}]
    /\ gate \in [Slots -> 0 .. 2 * TicketSpace - 1]
    /\ cell \in [Slots -> [1 .. 2 -> Payloads \cup {NoPayload}]]
    /\ w \in [Writers -> WriterRec]
    /\ c \in ConsumerRec

\* A slot is at a ticket of its own, at most a lap of the ring from the head.
Shape(sd, b) ==
    /\ head = T(sd, claimed)
    /\ cursor = T(sd, next)
    /\ \A s \in Slots : /\ S(sd, b[s]) = s
                        /\ claimed - N <= b[s]
                        /\ b[s] < claimed + N

\* What a gate says is what became of the slot's ticket j.
FreeAt(sd, s, j) ==
    gate[s] = T(sd, j) /\ (j < claimed => fate[j] = "claimed")
PublishedAt(sd, s, j) ==
    /\ gate[s] = T(sd, j + 1) /\ j < claimed /\ fate[j] = "published"
    /\ item[j] \in Payloads
    /\ cell[s][1] = item[j] /\ cell[s][2] = item[j]
FencedAt(sd, s, j) ==
    gate[s] = T(sd, j) + TicketSpace /\ j < next /\ fate[j] = "dead"

Gates(sd, b) ==
    \A s \in Slots :
        FreeAt(sd, s, b[s]) \/ PublishedAt(sd, s, b[s]) \/ FencedAt(sd, s, b[s])

\* A ticket has a fate once it is claimed, and a live one has its slot.
FatesOk(sd, b) ==
    \A t \in Tickets :
        /\ t >= claimed <=> fate[t] = "unclaimed"
        /\ t < next => fate[t] \in {"dead", "drained"}
        /\ fate[t] = "drained" => t < next
        /\ fate[t] \in {"claimed", "published"} => b[S(sd, t)] = t

\* A writer between claim and publish owns its slot, and has filled the cells
\* it has passed.
Owner(sd, b, x) ==
    Holds(x) =>
        /\ w[x].abs \in Tickets /\ w[x].abs < claimed
        /\ w[x].t = T(sd, w[x].abs)
        /\ b[S(sd, w[x].abs)] = w[x].abs
        /\ fate[w[x].abs] \in {"claimed", "dead"}
        /\ w[x].pc = "self" => fate[w[x].abs] = "dead"
        /\ w[x].pc \in {"cell2", "publish", "reread"} => cell[S(sd, w[x].abs)][1] = w[x].p
        /\ w[x].pc \in {"publish", "reread"} => cell[S(sd, w[x].abs)][2] = w[x].p

\* No two writers own one ticket.
Distinct ==
    \A x, y \in Writers : x # y /\ Holds(x) /\ Holds(y) => w[x].abs # w[y].abs

\* A claim attempt that has seen its gate can trust it while the head stays.
Attempt(x) ==
    /\ w[x].pc # "idle" => w[x].p \in Payloads
    /\ w[x].pc \in {"check", "cas"} => w[x].t \in 0 .. TicketSpace - 1
    /\ w[x].pc = "cas" /\ w[x].t = head => gate[Slot(head)] = head

\* The consumer reads the cells of the published ticket it is at.
Reading ==
    /\ c.pc \in {"read1", "read2", "release"} => next < claimed /\ fate[next] = "published"
    /\ c.pc = "read2" => c.p = <<item[next]>>
    /\ c.pc = "release" => c.p[1] = item[next] /\ c.p[2] = item[next]
    /\ c.pc = "fcas" => next < claimed

\* The host releases the slot of a dead writer.
Host(sd) ==
    \/ h = IdleHost
    \/ /\ h.who \in Writers
       /\ w[h.who].pc = "dead"
       /\ \/ h = [who |-> h.who, g |-> T(sd, w[h.who].abs)]
          \/ /\ h = [who |-> h.who, g |-> T(sd, w[h.who].abs) + TicketSpace]
             /\ fate[w[h.who].abs] = "dead"

Inv(sd, b) ==
    /\ Types
    /\ Shape(sd, b)
    /\ Gates(sd, b)
    /\ FatesOk(sd, b)
    /\ \A x \in Writers : Owner(sd, b, x) /\ Attempt(x)
    /\ Distinct
    /\ Reading
    /\ Host(sd)

IInv == \E sd \in Seeds : \E b \in [Slots -> Nat] : Inv(sd, b)

(***************************************************************************)
(* Remainders: tickets are counters taken modulo the ticket space, and     *)
(* slots are tickets taken modulo the ring size.                           *)
(***************************************************************************)

\* A remainder is determined by its range.
LEMMA ModUnique ==
    ASSUME NEW d \in Nat \ {0}, NEW q \in Int, NEW r \in 0 .. d - 1
    PROVE  (d * q + r) % d = r
<1> DEFINE x == d * q + r
<1>1. PICK p \in Int : x = d * p + (x % d)
  <2>1. x \in Int
    OBVIOUS
  <2> HIDE DEF x
  <2>2. x \div d \in Int /\ x = d * (x \div d) + (x % d)
    BY <2>1
  <2> QED BY <2>2, Zenon
<1>2. x % d \in 0 .. d - 1
  <2>1. x \in Int
    OBVIOUS
  <2> HIDE DEF x
  <2> QED BY <2>1
<1>3. PICK s \in 0 .. d - 1 : s = x % d
  BY <1>2, Zenon
<1>4. d * q + r = d * p + s
  BY <1>1, <1>3, Zenon
<1>5. CASE p >= q + 1
  <2>1. PICK k \in Nat : p = q + 1 + k
    BY <1>5
  <2>2. d * p = d * q + d + d * k
    BY <2>1
  <2>3. d * k >= 0 /\ d * k \in Int
    BY <2>1
  <2> QED BY <1>4, <2>2, <2>3
<1>6. CASE q >= p + 1
  <2>1. PICK k \in Nat : q = p + 1 + k
    BY <1>6
  <2>2. d * q = d * p + d + d * k
    BY <2>1
  <2>3. d * k >= 0 /\ d * k \in Int
    BY <2>1
  <2> QED BY <1>4, <2>2, <2>3
<1>7. CASE p = q
  BY <1>3, <1>4, <1>7
<1> QED BY <1>5, <1>6, <1>7

\* Quotient and remainder.
LEMMA ModSplit ==
    ASSUME NEW a \in Int, NEW d \in Nat \ {0}
    PROVE  /\ a % d \in 0 .. d - 1
           /\ \E q \in Int : a = d * q + (a % d)
<1>1. a \div d \in Int /\ a = d * (a \div d) + (a % d)
  OBVIOUS
<1>2. a % d \in 0 .. d - 1
  OBVIOUS
<1>3. \E q \in Int : a = d * q + (a % d)
  BY <1>1, Zenon
<1> QED BY <1>2, <1>3, Zenon

\* Adding to a remainder and wrapping is adding first and wrapping then.
LEMMA ModAdd ==
    ASSUME NEW a \in Int, NEW k \in Int, NEW d \in Nat \ {0}
    PROVE  ((a % d) + k) % d = (a + k) % d
<1>1. PICK r \in 0 .. d - 1 : r = a % d
  BY ModSplit, Zenon
<1>2. PICK q \in Int : a = d * q + r
  BY <1>1, ModSplit, Zenon
<1>0. PICK e \in Int : e = r + k
  OBVIOUS
<1>3. PICK s \in 0 .. d - 1 : s = e % d
  BY ModSplit, Zenon
<1>4. PICK p \in Int : e = d * p + s
  BY <1>3, ModSplit, Zenon
<1>5. d * (q + p) = d * q + d * p
  OBVIOUS
<1>6. a + k = d * (q + p) + s
  BY <1>0, <1>2, <1>4, <1>5
<1>7. (d * (q + p) + s) % d = s
  BY ModUnique
<1> QED BY <1>0, <1>1, <1>3, <1>6, <1>7, Zenon

\* So is subtracting one remainder from another.
LEMMA ModSub ==
    ASSUME NEW a \in Int, NEW k \in Int, NEW d \in Nat \ {0}
    PROVE  ((a % d) - (k % d)) % d = (a - k) % d
<1>1. PICK r \in 0 .. d - 1 : r = k % d
  BY ModSplit, Zenon
<1>2. PICK q \in Int : k = d * q + r
  BY <1>1, ModSplit, Zenon
<1>0. PICK e \in Int : e = a - k
  OBVIOUS
<1>3. PICK s \in 0 .. d - 1 : s = e % d
  BY ModSplit, Zenon
<1>4. PICK p \in Int : e = d * p + s
  BY <1>3, ModSplit, Zenon
<1>5. d * (q + p) = d * q + d * p
  OBVIOUS
<1>6. a - r = d * (q + p) + s
  BY <1>0, <1>2, <1>4, <1>5
<1>7. (d * (q + p) + s) % d = s
  BY ModUnique
<1>8. PICK f \in Int : f = 0 - r
  OBVIOUS
<1>9. ((a % d) + f) % d = (a + f) % d
  BY ModAdd, Zenon
<1>10. (a % d) + f = (a % d) - r /\ a + f = a - r
  BY <1>8, ModSplit
<1> QED BY <1>0, <1>1, <1>3, <1>6, <1>7, <1>9, <1>10, Zenon

\* Within one lap, the remainder tells numbers apart.
LEMMA ModInjective ==
    ASSUME NEW a \in Int, NEW k \in Int, NEW d \in Nat \ {0}, a % d = k % d
    PROVE  a < k + d /\ k < a + d => a = k
<1>1. PICK r \in 0 .. d - 1 : r = a % d
  BY ModSplit, Zenon
<1>2. PICK q \in Int : a = d * q + r
  BY <1>1, ModSplit, Zenon
<1>3. PICK p \in Int : k = d * p + r
  BY <1>1, ModSplit, Zenon
<1>4. CASE p >= q + 1
  <2>1. PICK i \in Nat : p = q + 1 + i
    BY <1>4
  <2>2. d * p = d * q + d + d * i
    BY <2>1
  <2>3. d * i >= 0 /\ d * i \in Int
    BY <2>1
  <2> QED BY <1>2, <1>3, <2>2, <2>3
<1>5. CASE q >= p + 1
  <2>1. PICK i \in Nat : q = p + 1 + i
    BY <1>5
  <2>2. d * q = d * p + d + d * i
    BY <2>1
  <2>3. d * i >= 0 /\ d * i \in Int
    BY <2>1
  <2> QED BY <1>2, <1>3, <2>2, <2>3
<1>6. CASE p = q
  BY <1>2, <1>3, <1>6, Zenon
<1> QED BY <1>4, <1>5, <1>6

\* A number of one lap is its own remainder.
LEMMA ModSmall ==
    ASSUME NEW d \in Nat \ {0}, NEW r \in 0 .. d - 1
    PROVE  r % d = r
<1>1. r = d * 0 + r
  OBVIOUS
<1> QED BY <1>1, ModUnique

\* A divisor of the lap sees through the wrap.
LEMMA ModMod ==
    ASSUME NEW a \in Int, NEW d \in Nat \ {0}, NEW n \in Nat \ {0}, d % n = 0
    PROVE  (a % d) % n = a % n
<1>1. PICK r \in 0 .. d - 1 : r = a % d
  BY ModSplit, Zenon
<1>2. PICK q \in Int : a = d * q + r
  BY <1>1, ModSplit, Zenon
<1>3. PICK m \in Int : d = n * m + (d % n)
  <2>1. d \in Int
    OBVIOUS
  <2> QED BY <2>1, ModSplit, Zenon
<1>0. PICK e \in Int : e = r
  OBVIOUS
<1>4. PICK s \in 0 .. n - 1 : s = e % n
  BY ModSplit, Zenon
<1>5. PICK p \in Int : e = n * p + s
  BY <1>4, ModSplit, Zenon
<1>6. d * q = n * (m * q)
  <2>1. d = n * m
    BY <1>3
  <2>2. (n * m) * q = n * (m * q)
    OBVIOUS
  <2> QED BY <2>1, <2>2, Zenon
<1>7. m * q \in Int /\ n * (m * q + p) = n * (m * q) + n * p
  OBVIOUS
<1>8. a = n * (m * q + p) + s
  BY <1>0, <1>2, <1>5, <1>6, <1>7
<1>9. (n * (m * q + p) + s) % n = s
  BY <1>7, ModUnique
<1> QED BY <1>0, <1>1, <1>4, <1>8, <1>9, Zenon

(***************************************************************************)
(* Tickets and slots                                                       *)
(***************************************************************************)

\* Wrapping, stepping and releasing tickets.
LEMMA TicketStep ==
    ASSUME NEW sd \in Seeds, NEW j \in Int
    PROVE  /\ T(sd, j) \in 0 .. TicketSpace - 1
           /\ S(sd, j) \in Slots
           /\ next_ticket(T(sd, j)) = T(sd, j + 1)
           /\ release_gate(T(sd, j)) = T(sd, j + N)
           /\ (T(sd, j + 1) - 1) % TicketSpace = T(sd, j)
           /\ Slot(T(sd, j)) = S(sd, j)
           /\ S(sd, j + N) = S(sd, j)
           /\ S(sd, j + 1) # S(sd, j)
<1> DEFINE d == TicketSpace
<1>1. d \in Nat \ {0} /\ N \in Nat \ {0} /\ N \in Int /\ d % N = 0 /\ sd \in Int /\ N >= 2
  BY RingAssumption
<1>2. PICK a \in Int : a = sd + j
  BY <1>1
<1> HIDE DEF d
<1>3. /\ a % d \in 0 .. d - 1
      /\ a % N \in 0 .. N - 1
  BY <1>1, ModSplit, Zenon
<1>4. /\ ((a % d) + 1) % d = (a + 1) % d
      /\ ((a % d) + N) % d = (a + N) % d
  <2>1. PICK u \in Int : u = 1
    OBVIOUS
  <2>2. ((a % d) + u) % d = (a + u) % d
    BY <1>1, ModAdd, Zenon
  <2>3. ((a % d) + N) % d = (a + N) % d
    BY <1>1, ModAdd, Zenon
  <2> QED BY <2>1, <2>2, <2>3, Zenon
<1>5. (((a + 1) % d) - 1) % d = a % d
  <2>1. PICK e \in Int : e = a + 1
    OBVIOUS
  <2>2. PICK m \in Int : m = 0 - 1
    OBVIOUS
  <2>3. ((e % d) + m) % d = (e + m) % d
    BY <1>1, ModAdd, Zenon
  <2>4. e % d \in Int
    BY <1>1, ModSplit
  <2>5. (e % d) + m = (e % d) - 1 /\ e + m = a
    BY <2>1, <2>2, <2>4
  <2> QED BY <2>1, <2>3, <2>5, Zenon
<1>6. (a % d) % N = a % N
  BY <1>1, ModMod, Zenon
<1>7. (a + N) % N = a % N
  <2>1. PICK r \in 0 .. N - 1 : r = a % N
    BY <1>3, Zenon
  <2>2. PICK q \in Int : a = N * q + r
    BY <1>1, <2>1, ModSplit, Zenon
  <2>3. N * (q + 1) = N * q + N
    BY <1>1
  <2>4. a + N = N * (q + 1) + r
    BY <1>1, <2>2, <2>3
  <2>5. (N * (q + 1) + r) % N = r
    BY <1>1, ModUnique
  <2> QED BY <2>1, <2>4, <2>5, Zenon
<1>8. (a + 1) % N # a % N
  <2>1. PICK e \in Int : e = a + 1
    OBVIOUS
  <2>2. e % N = a % N => (e < a + N /\ a < e + N => e = a)
    BY <1>1, ModInjective, Zenon
  <2> QED BY <1>1, <2>1, <2>2
<1>9. sd + (j + 1) = a + 1 /\ sd + (j + N) = a + N
  BY <1>1, <1>2
<1> QED
  BY <1>2, <1>3, <1>4, <1>5, <1>6, <1>7, <1>8, <1>9, Zenon
     DEF T, S, Slots, Slot, next_ticket, release_gate, d

\* Tickets less than a lap apart are told apart.
LEMMA TicketApart ==
    ASSUME NEW sd \in Seeds, NEW i \in Int, NEW j \in Int
    PROVE  /\ T(sd, i) = T(sd, j) /\ i < j + TicketSpace /\ j < i + TicketSpace => i = j
           /\ S(sd, i) = S(sd, j) /\ i < j + N /\ j < i + N => i = j
           /\ T(sd, i) = T(sd, j) => S(sd, i) = S(sd, j)
<1>1. /\ TicketSpace \in Nat \ {0} /\ N \in Nat \ {0} /\ TicketSpace % N = 0
      /\ sd \in Int /\ TicketSpace \in Int /\ N \in Int
  BY RingAssumption
<1>2. PICK a \in Int, k \in Int : a = sd + i /\ k = sd + j
  BY <1>1
<1>3. a % TicketSpace = k % TicketSpace => (a < k + TicketSpace /\ k < a + TicketSpace => a = k)
  BY <1>1, ModInjective, Zenon
<1>4. a % N = k % N => (a < k + N /\ k < a + N => a = k)
  BY <1>1, ModInjective, Zenon
<1>5. (a % TicketSpace) % N = a % N /\ (k % TicketSpace) % N = k % N
  BY <1>1, ModMod, Zenon
<1>6. /\ a = k <=> i = j
      /\ a < k + TicketSpace <=> i < j + TicketSpace
      /\ k < a + TicketSpace <=> j < i + TicketSpace
      /\ a < k + N <=> i < j + N
      /\ k < a + N <=> j < i + N
  BY <1>1, <1>2
<1> QED BY <1>2, <1>3, <1>4, <1>5, <1>6, Zenon DEF T, S

\* gate_is_past measures the distance between tickets.
LEMMA TicketAhead ==
    ASSUME NEW sd \in Seeds, NEW i \in Int, NEW j \in Int
    PROVE  /\ 0 <= i - j /\ i - j < TicketSpace
              => (T(sd, i) - T(sd, j)) % TicketSpace = i - j
           /\ i = j - N => (T(sd, i) - T(sd, j)) % TicketSpace >= Half
<1>1. /\ TicketSpace \in Nat \ {0} /\ N \in Nat /\ TicketSpace \in Int /\ N > 0
      /\ sd \in Int /\ TicketSpace > 2 * N
  BY RingAssumption
<1>2. PICK a \in Int, k \in Int : a = sd + i /\ k = sd + j
  BY <1>1
<1>3. ((a % TicketSpace) - (k % TicketSpace)) % TicketSpace = (a - k) % TicketSpace
  BY <1>1, ModSub, Zenon
<1>4. (T(sd, i) - T(sd, j)) % TicketSpace = (i - j) % TicketSpace
  <2>1. a - k = i - j
    BY <1>1, <1>2
  <2> QED BY <1>2, <1>3, <2>1, Zenon DEF T
<1>5. ASSUME 0 <= i - j, i - j < TicketSpace PROVE (i - j) % TicketSpace = i - j
  <2>1. PICK e \in 0 .. TicketSpace - 1 : e = i - j
    BY <1>1, <1>5
  <2> QED BY <1>1, <2>1, ModSmall, Zenon
<1>6. ASSUME i = j - N PROVE (i - j) % TicketSpace >= Half
  <2>1. PICK e \in 0 .. TicketSpace - 1 : e = TicketSpace - N
    BY <1>1
  <2>2. TicketSpace * (0 - 1) + e = i - j
    <3>1. TicketSpace * (0 - 1) = 0 - TicketSpace
      BY <1>1
    <3> QED BY <1>1, <1>6, <2>1, <3>1
  <2>3. PICK m \in Int : m = 0 - 1
    OBVIOUS
  <2>4. (TicketSpace * m + e) % TicketSpace = e
    BY <1>1, ModUnique, Zenon
  <2>5. Half \in Int /\ 2 * Half <= TicketSpace
    <3>1. PICK d \in Nat \ {0} : d = 2
      OBVIOUS
    <3>2. TicketSpace \div d \in Int /\ TicketSpace = d * (TicketSpace \div d) + (TicketSpace % d)
      BY <1>1
    <3>3. TicketSpace % d \in Nat
      BY <1>1
    <3>4. Half = TicketSpace \div d
      BY <3>1, Zenon DEF Half
    <3> HIDE DEF Half
    <3>5. Half \in Int /\ TicketSpace = d * Half + (TicketSpace % d)
      BY <3>2, <3>4, Zenon
    <3> QED BY <1>1, <3>1, <3>3, <3>5
  <2> QED BY <1>1, <2>1, <2>2, <2>3, <2>4, <2>5
<1> QED BY <1>4, <1>5, <1>6, Zenon

(***************************************************************************)
(* What the invariant says                                                 *)
(***************************************************************************)

\* The numbers are integers.
LEMMA Numbers ==
    ASSUME NEW sd \in Seeds, NEW b \in [Slots -> Nat], Inv(sd, b)
    PROVE  /\ claimed \in Nat /\ next \in Nat /\ next <= claimed /\ claimed <= MaxTickets
           /\ N \in Nat /\ N >= 2 /\ TicketSpace \in Nat /\ TicketSpace > 2 * N
           /\ MaxTickets \in Nat /\ Tickets = 0 .. MaxTickets - 1
           /\ \A s \in Slots : b[s] \in Nat
BY RingAssumption DEF Inv, Types, Tickets

\* A gate within a lap of ticket j's says what it says of j itself.
LEMMA GateSays ==
    ASSUME NEW sd \in Seeds, NEW b \in [Slots -> Nat], Inv(sd, b),
           NEW j \in Nat, NEW s \in Slots, s = S(sd, j),
           j < b[s] + TicketSpace, b[s] < j + TicketSpace
    PROVE  /\ gate[s] = T(sd, j) => b[s] = j /\ FreeAt(sd, s, j)
           /\ gate[s] = T(sd, j + 1) => b[s] = j /\ PublishedAt(sd, s, j)
           /\ gate[s] = T(sd, j) + TicketSpace => b[s] = j /\ FencedAt(sd, s, j)
<1> DEFINE k == b[s]
<1>1. k \in Nat /\ TicketSpace \in Nat
  BY Numbers, Zenon
<1>2. FreeAt(sd, s, k) \/ PublishedAt(sd, s, k) \/ FencedAt(sd, s, k)
  BY Zenon DEF Inv, Gates
<1>3. S(sd, k) = s /\ j < k + TicketSpace /\ k < j + TicketSpace
  BY Zenon DEF Inv, Shape
<1> HIDE DEF k
<1>4. PICK j1 \in Int, k1 \in Int : j1 = j + 1 /\ k1 = k + 1
  BY <1>1
<1>5. /\ T(sd, k) = T(sd, j) => k = j
      /\ T(sd, k1) = T(sd, j1) => k = j
  BY <1>1, <1>3, <1>4, TicketApart
<1>6. /\ T(sd, k) \in 0 .. TicketSpace - 1 /\ T(sd, j) \in 0 .. TicketSpace - 1
      /\ T(sd, k1) \in 0 .. TicketSpace - 1 /\ T(sd, j1) \in 0 .. TicketSpace - 1
      /\ S(sd, k1) # s /\ S(sd, j1) # s
  BY <1>1, <1>3, <1>4, TicketStep
<1>7. /\ T(sd, k1) # T(sd, j)
      /\ T(sd, k) # T(sd, j1)
  BY <1>1, <1>3, <1>4, <1>6, TicketApart
<1>8. /\ T(sd, k) + TicketSpace # T(sd, j)
      /\ T(sd, k) + TicketSpace # T(sd, j1)
      /\ T(sd, j) + TicketSpace # T(sd, k)
      /\ T(sd, j) + TicketSpace # T(sd, k1)
      /\ T(sd, k) + TicketSpace = T(sd, j) + TicketSpace => T(sd, k) = T(sd, j)
  BY <1>1, <1>6
<1>9. gate[s] = T(sd, j) => k = j /\ FreeAt(sd, s, j)
  BY <1>2, <1>4, <1>5, <1>7, <1>8, Zenon DEF FreeAt, PublishedAt, FencedAt
<1>10. gate[s] = T(sd, j + 1) => k = j /\ PublishedAt(sd, s, j)
  BY <1>2, <1>4, <1>5, <1>7, <1>8, Zenon DEF FreeAt, PublishedAt, FencedAt
<1>11. gate[s] = T(sd, j) + TicketSpace => k = j /\ FencedAt(sd, s, j)
  BY <1>2, <1>4, <1>5, <1>7, <1>8, Zenon DEF FreeAt, PublishedAt, FencedAt
<1> QED BY <1>9, <1>10, <1>11, Zenon DEF k

\* FREE(head) is the gate of the next ticket to claim.
LEMMA HeadGate ==
    ASSUME NEW sd \in Seeds, NEW b \in [Slots -> Nat], Inv(sd, b)
    PROVE  /\ Slot(head) = S(sd, claimed) /\ Slot(head) \in Slots
           /\ gate[Slot(head)] = head => b[Slot(head)] = claimed
           /\ gate[Slot(head)] # fenced_gate(head)
<1>1. /\ claimed \in Nat /\ claimed \in Int /\ TicketSpace \in Nat /\ N \in Nat
      /\ TicketSpace > N /\ next <= claimed /\ next \in Nat
  BY Numbers
<1>2. head = T(sd, claimed)
  BY Zenon DEF Inv, Shape
<1>3. Slot(head) = S(sd, claimed) /\ Slot(head) \in Slots
  BY <1>1, <1>2, TicketStep, Zenon
<1>4. PICK s \in Slots : s = Slot(head)
  BY <1>3, Zenon
<1>5. b[s] \in Nat /\ claimed - N <= b[s] /\ b[s] < claimed + N
  BY Zenon DEF Inv, Shape
<1>6. claimed < b[s] + TicketSpace /\ b[s] < claimed + TicketSpace
  BY <1>1, <1>5
<1>7. /\ gate[s] = T(sd, claimed) => b[s] = claimed
      /\ gate[s] = T(sd, claimed) + TicketSpace => FencedAt(sd, s, claimed)
  BY <1>1, <1>3, <1>4, <1>6, GateSays
<1>8. ~FencedAt(sd, s, claimed)
  BY <1>1 DEF FencedAt
<1> QED BY <1>2, <1>3, <1>4, <1>7, <1>8, Zenon DEF fenced_gate, FENCED_BIT

\* A writer that owns a ticket sees FREE(t), or FENCED(t) if it lost it.
LEMMA OwnersGate ==
    ASSUME NEW sd \in Seeds, NEW b \in [Slots -> Nat], Inv(sd, b),
           NEW x \in Writers, Holds(x)
    PROVE  /\ w[x].abs \in Nat /\ w[x].abs \in Tickets /\ w[x].abs < claimed
           /\ w[x].t = T(sd, w[x].abs)
           /\ Slot(w[x].t) = S(sd, w[x].abs) /\ Slot(w[x].t) \in Slots
           /\ b[Slot(w[x].t)] = w[x].abs
           /\ \/ gate[Slot(w[x].t)] = w[x].t /\ fate[w[x].abs] = "claimed"
              \/ /\ gate[Slot(w[x].t)] = w[x].t + TicketSpace /\ fate[w[x].abs] = "dead"
                 /\ w[x].abs < next
           /\ w[x].t # w[x].t + TicketSpace
<1>1. Owner(sd, b, x)
  BY Zenon DEF Inv
<1>2. /\ w[x].abs \in Tickets /\ w[x].abs < claimed /\ w[x].t = T(sd, w[x].abs)
      /\ b[S(sd, w[x].abs)] = w[x].abs /\ fate[w[x].abs] \in {"claimed", "dead"}
  BY <1>1, Zenon DEF Owner
<1>3. w[x].abs \in Nat /\ w[x].abs \in Int /\ TicketSpace \in Nat /\ TicketSpace > 0
  BY <1>2, Numbers
<1>4. Slot(w[x].t) = S(sd, w[x].abs) /\ S(sd, w[x].abs) \in Slots
      /\ T(sd, w[x].abs) \in 0 .. TicketSpace - 1
  BY <1>2, <1>3, TicketStep
<1>5. PICK s \in Slots, j \in Nat : s = S(sd, w[x].abs) /\ j = w[x].abs
  BY <1>3, <1>4, Zenon
<1>6. FreeAt(sd, s, j) \/ PublishedAt(sd, s, j) \/ FencedAt(sd, s, j)
  BY <1>2, <1>5, Zenon DEF Inv, Gates
<1>7. FreeAt(sd, s, j) \/ FencedAt(sd, s, j)
  BY <1>2, <1>5, <1>6, Zenon DEF PublishedAt
<1>8. w[x].t # w[x].t + TicketSpace
  BY <1>2, <1>3, <1>4
<1> QED BY <1>2, <1>3, <1>4, <1>5, <1>7, <1>8, Zenon DEF FreeAt, FencedAt

\* A published ticket at the cursor is the one its slot shows.
LEMMA CursorPublished ==
    ASSUME NEW sd \in Seeds, NEW b \in [Slots -> Nat], Inv(sd, b),
           next < claimed, fate[next] = "published"
    PROVE  /\ Slot(cursor) = S(sd, next) /\ Slot(cursor) \in Slots
           /\ b[Slot(cursor)] = next
           /\ PublishedAt(sd, Slot(cursor), next)
<1>1. next \in Nat /\ next \in Int /\ next \in Tickets
  BY Numbers
<1>2. Slot(cursor) = S(sd, next) /\ Slot(cursor) \in Slots
  BY <1>1, TicketStep, Zenon DEF Inv, Shape
<1>3. b[Slot(cursor)] = next
  BY <1>1, <1>2, Zenon DEF Inv, FatesOk
<1>4. ~FreeAt(sd, Slot(cursor), next) /\ ~FencedAt(sd, Slot(cursor), next)
  BY Zenon DEF FreeAt, FencedAt
<1> QED BY <1>2, <1>3, <1>4, Zenon DEF Inv, Gates

\* What poll_drain and fence_cursor conclude from the cursor's gate is true
\* of the ticket the cursor stands for.
LEMMA CursorGate ==
    ASSUME NEW sd \in Seeds, NEW b \in [Slots -> Nat], Inv(sd, b), NotLapped
    PROVE  /\ Slot(cursor) = S(sd, next) /\ Slot(cursor) \in Slots
           /\ gate[Slot(cursor)] = cursor =>
                b[Slot(cursor)] = next /\ FreeAt(sd, Slot(cursor), next)
           /\ gate[Slot(cursor)] = published_gate(cursor) =>
                b[Slot(cursor)] = next /\ PublishedAt(sd, Slot(cursor), next)
           /\ gate_is_past(gate[Slot(cursor)], cursor) => next < claimed /\ fate[next] = "dead"
<1>1. /\ next \in Nat /\ next \in Int /\ claimed \in Nat /\ N \in Nat /\ TicketSpace \in Nat
      /\ TicketSpace > 2 * N /\ N >= 2 /\ next <= claimed
  BY Numbers
<1>2. cursor = T(sd, next)
  BY Zenon DEF Inv, Shape
<1>3. Slot(cursor) = S(sd, next) /\ Slot(cursor) \in Slots /\ published_gate(cursor) = T(sd, next + 1)
  BY <1>1, <1>2, TicketStep, Zenon DEF published_gate
<1>4. PICK s \in Slots, k \in Nat : s = Slot(cursor) /\ k = b[s]
  BY <1>3, Zenon
<1>5. S(sd, k) = s /\ claimed - N <= k /\ k < claimed + N
  BY <1>4, Zenon DEF Inv, Shape
<1>6. next < k + TicketSpace /\ k < next + TicketSpace
  BY <1>1, <1>5 DEF NotLapped
<1>7. /\ gate[s] = T(sd, next) => k = next /\ FreeAt(sd, s, next)
      /\ gate[s] = T(sd, next + 1) => k = next /\ PublishedAt(sd, s, next)
      /\ gate[s] = T(sd, next) + TicketSpace => k = next /\ FencedAt(sd, s, next)
  BY <1>1, <1>3, <1>4, <1>6, GateSays
<1>8. FreeAt(sd, s, k) \/ PublishedAt(sd, s, k) \/ FencedAt(sd, s, k)
  BY <1>4, Zenon DEF Inv, Gates
<1>9. ASSUME gate_is_past(gate[s], cursor), k <= next
      PROVE  FALSE
  <2>1. CASE FencedAt(sd, s, k)
    <3>1. gate[s] = T(sd, k) + TicketSpace /\ k < next
      BY <2>1, Zenon DEF FencedAt
    <3>2. gate[s] >= TicketSpace
      BY <1>1, <3>1, TicketStep
    <3>3. gate[s] = T(sd, next) + TicketSpace
      BY <1>2, <1>9, <3>2, Zenon DEF gate_is_past, fenced_gate, FENCED_BIT
    <3> QED BY <1>1, <1>7, <3>1, <3>3
  <2>2. CASE FreeAt(sd, s, k) \/ PublishedAt(sd, s, k)
    <3> DEFINE g == gate[s]
               ticket == IF Slot(g) = Slot(cursor) THEN g ELSE (g - 1) % TicketSpace
    <3>1. ticket = T(sd, k) /\ ~(g >= TicketSpace)
      <4>1. /\ T(sd, k) \in 0 .. TicketSpace - 1 /\ Slot(T(sd, k)) = s
            /\ (T(sd, k + 1) - 1) % TicketSpace = T(sd, k)
            /\ S(sd, k + 1) # s
        BY <1>1, <1>5, TicketStep
      <4>2. PICK k1 \in Int : k1 = k + 1
        OBVIOUS
      <4>3. T(sd, k1) \in 0 .. TicketSpace - 1 /\ Slot(T(sd, k1)) = S(sd, k1)
        BY TicketStep, Zenon
      <4>4. CASE g = T(sd, k)
        BY <1>1, <1>4, <4>1, <4>4
      <4>5. CASE g = T(sd, k + 1)
        BY <1>1, <1>4, <4>1, <4>2, <4>3, <4>5
      <4> QED BY <2>2, <4>4, <4>5, Zenon DEF FreeAt, PublishedAt
    <3>2. (ticket - cursor) % TicketSpace # 0 /\ (ticket - cursor) % TicketSpace < Half
      BY <1>9, <3>1, Zenon DEF gate_is_past, FENCED_BIT
    <3> HIDE DEF ticket
    <3>3. CASE k = next
      <4>1. (T(sd, k) - T(sd, next)) % TicketSpace = k - next
        BY <1>1, <3>3, TicketAhead
      <4> QED BY <1>1, <1>2, <3>1, <3>2, <3>3, <4>1
    <3>4. CASE k < next
      <4>1. ~(next < k + N)
        <5>1. k < next + N
          BY <1>1, <3>4
        <5> QED BY <1>1, <1>3, <1>4, <1>5, <3>4, <5>1, TicketApart
      <4>2. k = next - N
        BY <1>1, <1>5, <4>1
      <4>3. (T(sd, k) - T(sd, next)) % TicketSpace >= Half
        BY <1>1, <4>2, TicketAhead
      <4>4. Half \in Int /\ (T(sd, k) - T(sd, next)) % TicketSpace \in Int
        <5>1. Half \in Int
          BY <1>1 DEF Half
        <5>2. PICK e \in Int : e = T(sd, k) - T(sd, next)
          BY <1>1, TicketStep
        <5>3. e % TicketSpace \in Int
          BY <1>1
        <5> QED BY <5>1, <5>2, <5>3, Zenon
      <4> QED BY <1>2, <3>1, <3>2, <4>3, <4>4
    <3> QED BY <1>1, <1>9, <3>3, <3>4
  <2> QED BY <1>8, <2>1, <2>2, Zenon
<1>10. ASSUME k > next
       PROVE  next < claimed /\ fate[next] = "dead"
  <2>1. ~(k < next + N)
    <3>1. next < k + N
      BY <1>1, <1>10
    <3> QED BY <1>1, <1>3, <1>4, <1>5, <1>10, <3>1, TicketApart
  <2>2. next < claimed
    BY <1>1, <1>5, <2>1
  <2>3. next \in Tickets
    BY <1>1, <2>2, Numbers
  <2>4. fate[next] \notin {"claimed", "published"}
    BY <1>1, <1>3, <1>4, <1>10, <2>3, Zenon DEF Inv, FatesOk
  <2>5. fate[next] # "unclaimed" /\ fate[next] # "drained"
    BY <1>1, <2>2, <2>3 DEF Inv, FatesOk
  <2>6. fate[next] \in Fates
    BY <2>3, Zenon DEF Inv, Types
  <2> QED BY <2>2, <2>4, <2>5, <2>6, Zenon DEF Fates
<1>11. gate_is_past(gate[s], cursor) => next < claimed /\ fate[next] = "dead"
  BY <1>1, <1>9, <1>10
<1> QED BY <1>2, <1>3, <1>4, <1>7, <1>11, Zenon

(***************************************************************************)
(* Initially                                                               *)
(***************************************************************************)

\* The ring starts empty.
LEMMA InitIInv == Init => IInv
<1> SUFFICES ASSUME Init PROVE IInv
  BY Zenon
<1>1. PICK sd \in Seeds :
          /\ head = sd
          /\ cursor = sd
          /\ gate = [s \in 0 .. N - 1 |->
                        CHOOSE t \in 0 .. TicketSpace - 1 :
                            Slot(t) = s /\ (t - sd) % TicketSpace < N]
  BY Zenon DEF Init
<1>2. /\ N \in Nat \ {0} /\ N \in Nat /\ N >= 2 /\ TicketSpace \in Nat \ {0} /\ TicketSpace \in Nat
      /\ TicketSpace > 2 * N /\ MaxTickets \in Nat /\ sd \in 0 .. TicketSpace - 1 /\ sd \in Int
      /\ claimed = 0 /\ next = 0
  BY RingAssumption DEF Init, TQInit
<1> DEFINE b == [s \in Slots |-> (s - sd) % N]
<1>3. \A s \in Slots : b[s] \in 0 .. N - 1 /\ S(sd, b[s]) = s
  <2> TAKE s \in Slots
  <2>1. PICK e \in Int : e = s - sd
    BY <1>2 DEF Slots
  <2>2. e % N \in 0 .. N - 1 /\ b[s] = e % N
    BY <1>2, <2>1, ModSplit, Zenon
  <2>3. ((e % N) + sd) % N = (e + sd) % N
    BY <1>2, ModAdd, Zenon
  <2>4. s \in 0 .. N - 1 /\ e + sd = s
    BY <1>2, <2>1 DEF Slots
  <2>5. s % N = s
    BY <1>2, <2>4, ModSmall, Zenon
  <2>6. (e % N) + sd = sd + b[s]
    BY <1>2, <2>2
  <2> QED BY <2>2, <2>3, <2>4, <2>5, <2>6, Zenon DEF S
<1>4. b \in [Slots -> Nat]
  BY <1>2, <1>3
<1>5. \A s \in Slots : gate[s] = T(sd, b[s])
  <2> TAKE s \in Slots
  <2>1. PICK j \in 0 .. N - 1 : j = b[s]
    BY <1>3, Zenon
  <2>2. /\ T(sd, j) \in 0 .. TicketSpace - 1 /\ Slot(T(sd, j)) = s
        /\ (T(sd, j) - sd) % TicketSpace < N
    <3>1. T(sd, j) \in 0 .. TicketSpace - 1 /\ Slot(T(sd, j)) = s
      BY <1>3, <2>1, TicketStep
    <3>2. PICK a \in Int : a = sd + j
      BY <1>2
    <3>3. ((a % TicketSpace) - (sd % TicketSpace)) % TicketSpace = (a - sd) % TicketSpace
      BY <1>2, ModSub, Zenon
    <3>4. sd % TicketSpace = sd
      BY <1>2, ModSmall, Zenon
    <3>5. a - sd = j /\ j \in 0 .. TicketSpace - 1
      BY <1>2, <3>2
    <3>6. j % TicketSpace = j
      BY <1>2, <3>5, ModSmall, Zenon
    <3> QED BY <1>2, <3>1, <3>2, <3>3, <3>4, <3>5, <3>6 DEF T
  <2>3. ASSUME NEW t \in 0 .. TicketSpace - 1, Slot(t) = s, (t - sd) % TicketSpace < N
        PROVE  t = T(sd, j)
    <3>1. PICK e \in Int : e = t - sd
      BY <1>2
    <3>2. PICK i \in 0 .. N - 1 : i = e % TicketSpace
      <4>1. e % TicketSpace \in Nat
        BY <1>2
      <4> QED BY <1>2, <2>3, <3>1, <4>1
    <3>3. t = T(sd, i)
      <4>1. ((e % TicketSpace) + sd) % TicketSpace = (e + sd) % TicketSpace
        BY <1>2, ModAdd, Zenon
      <4>2. e + sd = t /\ i + sd = sd + i
        BY <1>2, <3>1
      <4>3. t % TicketSpace = t
        BY <1>2, ModSmall, Zenon
      <4> QED BY <3>2, <4>1, <4>2, <4>3, Zenon DEF T
    <3>4. S(sd, i) = s /\ S(sd, j) = s
      BY <1>3, <2>1, <2>3, <3>3, TicketStep
    <3>5. i = j
      <4>1. i \in Int /\ j \in Int /\ i < j + N /\ j < i + N
        BY <1>2
      <4> QED BY <3>4, <4>1, TicketApart, Zenon
    <3> QED BY <3>3, <3>5, Zenon
  <2>4. gate[s] = CHOOSE t \in 0 .. TicketSpace - 1 : Slot(t) = s /\ (t - sd) % TicketSpace < N
    BY <1>1, Zenon DEF Slots
  <2> QED BY <2>1, <2>2, <2>3, <2>4, Zenon
<1> HIDE DEF b
<1>6. Types
  <2>1. \A s \in Slots : T(sd, b[s]) \in 0 .. 2 * TicketSpace - 1
    <3> TAKE s \in Slots
    <3>1. T(sd, b[s]) \in 0 .. TicketSpace - 1
      BY <1>4, TicketStep
    <3> QED BY <1>2, <3>1
  <2>2. gate \in [Slots -> 0 .. 2 * TicketSpace - 1]
    <3>1. gate = [s \in Slots |-> gate[s]]
      BY <1>1 DEF Slots
    <3> QED BY <1>5, <2>1, <3>1, Zenon
  <2>3. w \in [Writers -> WriterRec]
    BY Zenon DEF Init, IdleWriter, WriterRec
  <2>4. cell \in [Slots -> [1 .. 2 -> Payloads \cup {NoPayload}]]
    <3>1. <<NoPayload, NoPayload>> \in [1 .. 2 -> Payloads \cup {NoPayload}]
      OBVIOUS
    <3> QED BY <3>1, Zenon DEF Init, Slots
  <2>5. c \in [pc : {"poll", "read1", "read2", "release", "fence", "fcas"},
               p : Seq(Payloads \cup {NoPayload})]
    BY DEF Init, IdleConsumer
  <2>6. fate \in [Tickets -> Fates] /\ item \in [Tickets -> Payloads \cup {NoPayload}]
    BY Zenon DEF Init, TQInit, Fates
  <2> QED BY <1>2, <2>2, <2>3, <2>4, <2>5, <2>6 DEF Types, ConsumerRec
<1>7. Shape(sd, b)
  <2>1. T(sd, 0) = sd
    <3>1. sd + 0 = sd /\ sd % TicketSpace = sd
      BY <1>2, ModSmall
    <3> QED BY <3>1, Zenon DEF T
  <2>2. \A s \in Slots : claimed - N <= b[s] /\ b[s] < claimed + N
    BY <1>2, <1>3
  <2> QED BY <1>1, <1>2, <1>3, <2>1, <2>2, Zenon DEF Shape
<1>8. Gates(sd, b)
  BY <1>2, <1>3, <1>5 DEF Gates, FreeAt
<1>9. FatesOk(sd, b)
  BY <1>2 DEF Init, TQInit, FatesOk, Tickets
<1>10. (\A x \in Writers : Owner(sd, b, x) /\ Attempt(x)) /\ Distinct
  BY Zenon DEF Init, IdleWriter, Owner, Attempt, Distinct, Holds, Holding
<1>11. Reading /\ Host(sd)
  BY Zenon DEF Init, IdleConsumer, Reading, Host
<1> QED BY <1>4, <1>6, <1>7, <1>8, <1>9, <1>10, <1>11, Zenon DEF IInv, Inv

(***************************************************************************)
(* The writers                                                             *)
(***************************************************************************)

\* A step of writer x on its own state keeps the invariant if x's own part
\* of it is kept.
LEMMA WriterLocal ==
    ASSUME NEW sd \in Seeds, NEW b \in [Slots -> Nat], Inv(sd, b), NEW x \in Writers,
           UNCHANGED <<ring, c, tqvars>>,
           w' \in [Writers -> WriterRec],
           \A y \in Writers : y # x => w'[y] = w[y],
           Holds(x)' => Holds(x) /\ w'[x].abs = w[x].abs,
           Owner(sd, b, x)', Attempt(x)', Host(sd)'
    PROVE  Inv(sd, b)' /\ [TQNext]_tqvars
<1>1. Types'
  BY Zenon DEF Inv, Types, ring, tqvars
<1>2. Shape(sd, b)' /\ Gates(sd, b)' /\ FatesOk(sd, b)'
  BY ZenonT(30) DEF Inv, Shape, Gates, FatesOk, ring, tqvars, FreeAt, PublishedAt, FencedAt
<1>3. \A y \in Writers : Owner(sd, b, y)' /\ Attempt(y)'
  <2> SUFFICES ASSUME NEW y \in Writers, y # x
               PROVE  Owner(sd, b, y)' /\ Attempt(y)'
    BY Zenon
  <2>1. Owner(sd, b, y) /\ Attempt(y) /\ w'[y] = w[y]
    BY Zenon DEF Inv
  <2> QED BY <2>1, Zenon DEF Owner, Attempt, Holds, ring, tqvars
<1>4. Distinct'
  <2>1. Distinct
    BY Zenon DEF Inv
  <2> QED BY <2>1 DEF Distinct, Holds
<1>5. Reading'
  BY Zenon DEF Inv, Reading, tqvars
<1>6. UNCHANGED tqvars
  BY Zenon
<1> QED BY <1>1, <1>2, <1>3, <1>4, <1>5, <1>6, Zenon DEF Inv

\* The fields of a writer's record.
LEMMA WriterRecord ==
    ASSUME NEW r \in WriterRec
    PROVE  /\ r = [pc |-> r.pc, t |-> r.t, p |-> r.p, abs |-> r.abs]
           /\ r.pc \in Holding \cup {"idle", "load", "check", "cas", "dead"}
           /\ r.t \in 0 .. TicketSpace - 1 \cup {NoTicket}
           /\ r.p \in Payloads \cup {NoPayload}
           /\ r.abs \in Tickets \cup {NoTicket}
<1> DEFINE A == Holding \cup {"idle", "load", "check", "cas", "dead"}
           B == 0 .. TicketSpace - 1 \cup {NoTicket}
           C == Payloads \cup {NoPayload}
           D == Tickets \cup {NoTicket}
<1>1. r \in [pc : A, t : B, p : C, abs : D]
  BY Zenon DEF WriterRec
<1> HIDE DEF A, B, C, D
<1>2. r.pc \in A /\ r.t \in B /\ r.p \in C /\ r.abs \in D
  BY <1>1, Zenon
<1>3. r = [pc |-> r.pc, t |-> r.t, p |-> r.p, abs |-> r.abs]
  BY <1>1, Zenon
<1> QED BY <1>2, <1>3, Zenon DEF A, B, C, D

\* A writer moves on, keeping its ticket and payload.
LEMMA WriterMoves ==
    ASSUME NEW x \in Writers, w \in [Writers -> WriterRec], NEW q,
           w' = [w EXCEPT ![x].pc = q],
           q \in Holding \cup {"idle", "load", "check", "cas", "dead"}
    PROVE  /\ w' \in [Writers -> WriterRec]
           /\ \A y \in Writers : y # x => w'[y] = w[y]
           /\ w'[x].pc = q /\ w'[x].t = w[x].t /\ w'[x].p = w[x].p /\ w'[x].abs = w[x].abs
<1> DEFINE r == w[x]
           m == [pc |-> q, t |-> r.t, p |-> r.p, abs |-> r.abs]
<1>1. r \in WriterRec /\ w' = [w EXCEPT ![x] = [r EXCEPT !.pc = q]]
  BY Zenon
<1> HIDE DEF r
<1>2. r = [pc |-> r.pc, t |-> r.t, p |-> r.p, abs |-> r.abs]
  BY <1>1, WriterRecord, Zenon
<1>3. [r EXCEPT !.pc = q] = m
  BY <1>2
<1>4. m \in WriterRec
  BY <1>1, WriterRecord, Zenon DEF WriterRec
<1>5. m.pc = q /\ m.t = r.t /\ m.p = r.p /\ m.abs = r.abs
  BY Zenon
<1> HIDE DEF m
<1>6. w' = [w EXCEPT ![x] = m]
  BY <1>1, <1>3, Zenon
<1> QED BY <1>4, <1>5, <1>6, Zenon DEF r

\* load_head and the gate check.
LEMMA LoadHeadKeeps ==
    ASSUME NEW sd \in Seeds, NEW b \in [Slots -> Nat], Inv(sd, b), NEW x \in Writers,
           load_head(x)
    PROVE  Inv(sd, b)' /\ [TQNext]_tqvars
<1>1. w \in [Writers -> WriterRec] /\ w[x] \in WriterRec
  BY Zenon DEF Inv, Types
<1>2. head \in 0 .. TicketSpace - 1
  <2>1. claimed \in Int
    BY Numbers
  <2> QED BY <2>1, TicketStep, Zenon DEF Inv, Shape
<1>3. PICK p \in Payloads \cup {NoPayload}, a \in Tickets \cup {NoTicket} :
          /\ p \in Payloads
          /\ w' = [w EXCEPT ![x] = [pc |-> "check", t |-> head, p |-> p, abs |-> a]]
  <2>1. CASE /\ At(x, "idle")
             /\ \E p \in PayloadsOf[x] :
                   w' = [w EXCEPT ![x] = [pc |-> "check", t |-> head, p |-> p, abs |-> NoTicket]]
    BY <2>1, RingAssumption, Zenon
  <2>2. CASE At(x, "load") /\ w' = [w EXCEPT ![x].pc = "check", ![x].t = head]
    <3>1. Attempt(x)
      BY Zenon DEF Inv
    <3>2. w[x].p \in Payloads
      BY <2>2, <3>1, Zenon DEF Attempt, At
    <3>3. w' = [w EXCEPT ![x] = [pc |-> "check", t |-> head, p |-> w[x].p, abs |-> w[x].abs]]
      <4> DEFINE r == w[x]
      <4>1. w' = [w EXCEPT ![x] = [[r EXCEPT !.pc = "check"] EXCEPT !.t = head]]
        BY <1>1, <2>2, Zenon
      <4>2. r = [pc |-> r.pc, t |-> r.t, p |-> r.p, abs |-> r.abs]
        BY <1>1, WriterRecord, Zenon
      <4> HIDE DEF r
      <4>3. [r EXCEPT !.pc = "check"] = [pc |-> "check", t |-> r.t, p |-> r.p, abs |-> r.abs]
        BY <4>2
      <4>4. [[pc |-> "check", t |-> r.t, p |-> r.p, abs |-> r.abs] EXCEPT !.t = head]
            = [pc |-> "check", t |-> head, p |-> r.p, abs |-> r.abs]
        OBVIOUS
      <4> QED BY <4>1, <4>3, <4>4, Zenon DEF r
    <3>4. w[x].abs \in Tickets \cup {NoTicket}
      BY <1>1, WriterRecord, Zenon
    <3> QED BY <3>2, <3>3, <3>4, Zenon
  <2> QED BY <2>1, <2>2, Zenon DEF load_head
<1> DEFINE r == [pc |-> "check", t |-> head, p |-> p, abs |-> a]
<1>4. r \in WriterRec
  BY <1>2, Zenon DEF WriterRec
<1>5. /\ w' \in [Writers -> WriterRec]
      /\ \A y \in Writers : y # x => w'[y] = w[y]
      /\ w'[x] = r
  <2> HIDE DEF r
  <2> QED BY <1>1, <1>3, <1>4, Zenon DEF r
<1>6. ~Holds(x)' /\ w'[x].pc = "check" /\ w'[x].t = head /\ w'[x].p = p
  BY <1>5 DEF Holds, Holding
<1>7. UNCHANGED <<ring, c, h, tqvars>>
  BY Zenon DEF load_head
<1>8. Owner(sd, b, x)' /\ Attempt(x)'
  BY <1>2, <1>3, <1>6, Zenon DEF Owner, Attempt
<1>9. Host(sd)'
  <2>1. Host(sd)
    BY Zenon DEF Inv
  <2>2. w[x].pc # "dead"
    BY Zenon DEF load_head, At
  <2> QED BY <1>5, <1>7, <2>1, <2>2, Zenon DEF Host, tqvars
<1> QED BY <1>5, <1>6, <1>7, <1>8, <1>9, WriterLocal, Zenon

\* A put that ends leaves its writer idle.
LEMMA WriterIdles ==
    ASSUME NEW x \in Writers, w \in [Writers -> WriterRec], w' = [w EXCEPT ![x] = IdleWriter]
    PROVE  /\ w' \in [Writers -> WriterRec]
           /\ \A y \in Writers : y # x => w'[y] = w[y]
           /\ w'[x].pc = "idle" /\ ~Holds(x)'
<1>1. IdleWriter \in WriterRec /\ IdleWriter.pc = "idle"
  BY Zenon DEF IdleWriter, WriterRec
<1>2. w'[x] = IdleWriter
  BY Zenon
<1> QED BY <1>1, <1>2, Zenon DEF Holds, Holding

\* A writer looks at the gate of its slot.
LEMMA CheckGateKeeps ==
    ASSUME NEW sd \in Seeds, NEW b \in [Slots -> Nat], Inv(sd, b), NEW x \in Writers,
           check_gate(x)
    PROVE  Inv(sd, b)' /\ [TQNext]_tqvars
<1>1. w \in [Writers -> WriterRec] /\ w[x].pc = "check" /\ UNCHANGED <<ring, c, h, tqvars>>
  BY Zenon DEF Inv, Types, check_gate, At
<1>2. Attempt(x) /\ Host(sd)
  BY Zenon DEF Inv
<1>3. CASE gate[Slot(w[x].t)] = w[x].t
  <2>1. /\ w' \in [Writers -> WriterRec]
        /\ \A y \in Writers : y # x => w'[y] = w[y]
        /\ w'[x].pc = "cas" /\ w'[x].t = w[x].t /\ w'[x].p = w[x].p /\ w'[x].abs = w[x].abs
    <3>1. w' = [w EXCEPT ![x].pc = "cas"]
      BY <1>3, Zenon DEF check_gate
    <3> QED BY <1>1, <3>1, WriterMoves, Zenon
  <2>2. Owner(sd, b, x)' /\ Attempt(x)' /\ ~Holds(x)'
    BY <1>1, <1>2, <1>3, <2>1, Zenon DEF Owner, Attempt, Holds, Holding, ring
  <2>3. Host(sd)'
    BY <1>1, <1>2, <2>1, Zenon DEF Host, tqvars
  <2> QED BY <1>1, <2>1, <2>2, <2>3, WriterLocal, Zenon
<1>4. CASE gate[Slot(w[x].t)] # w[x].t
  <2>1. /\ w' \in [Writers -> WriterRec]
        /\ \A y \in Writers : y # x => w'[y] = w[y]
        /\ w'[x].pc = "idle" /\ ~Holds(x)'
    BY <1>1, <1>4, WriterIdles, Zenon DEF check_gate
  <2>2. Owner(sd, b, x)' /\ Attempt(x)'
    BY <2>1, Zenon DEF Owner, Attempt
  <2>3. Host(sd)'
    BY <1>1, <1>2, <2>1, Zenon DEF Host, tqvars
  <2> QED BY <1>1, <2>1, <2>2, <2>3, WriterLocal, Zenon
<1> QED BY <1>3, <1>4, Zenon

\* A failed publish that looks again.
LEMMA RereadKeeps ==
    ASSUME NEW sd \in Seeds, NEW b \in [Slots -> Nat], Inv(sd, b), NEW x \in Writers,
           reread_gate(x)
    PROVE  Inv(sd, b)' /\ [TQNext]_tqvars
<1>1. w \in [Writers -> WriterRec] /\ w[x].pc = "reread" /\ UNCHANGED <<ring, c, h, tqvars>>
  BY Zenon DEF Inv, Types, reread_gate, At
<1>2. Attempt(x) /\ Host(sd) /\ Owner(sd, b, x) /\ Holds(x)
  BY <1>1, Zenon DEF Inv, Holds, Holding
<1>3. PICK q \in {"publish", "self"} :
          /\ w' = [w EXCEPT ![x].pc = q]
          /\ q = "self" => fate[w[x].abs] = "dead"
  <2>1. \/ gate[Slot(w[x].t)] = w[x].t
        \/ gate[Slot(w[x].t)] = w[x].t + TicketSpace /\ fate[w[x].abs] = "dead"
    BY <1>2, OwnersGate, ZenonT(30)
  <2>2. w[x].t # w[x].t + TicketSpace
    BY <1>2, OwnersGate, Zenon
  <2> QED BY <2>1, <2>2, Zenon DEF reread_gate, Goes, fenced_gate, FENCED_BIT
<1>4. /\ w' \in [Writers -> WriterRec]
      /\ \A y \in Writers : y # x => w'[y] = w[y]
      /\ w'[x].pc = q /\ w'[x].t = w[x].t /\ w'[x].p = w[x].p /\ w'[x].abs = w[x].abs
  BY <1>1, <1>3, WriterMoves, Zenon DEF Holding
<1>5. Owner(sd, b, x)' /\ Attempt(x)'
  BY <1>1, <1>2, <1>3, <1>4, Zenon DEF Owner, Attempt, Holds, Holding, ring, tqvars
<1>6. Host(sd)'
  BY <1>1, <1>2, <1>4, Zenon DEF Host, tqvars
<1> QED BY <1>1, <1>2, <1>4, <1>5, <1>6, WriterLocal, Zenon

\* A thread dies; the host reads the gate of a dead thread's slot.
LEMMA DiesKeeps ==
    ASSUME NEW sd \in Seeds, NEW b \in [Slots -> Nat], Inv(sd, b), NEW x \in Writers,
           Dies(x)
    PROVE  Inv(sd, b)' /\ [TQNext]_tqvars
<1>1. w \in [Writers -> WriterRec] /\ w[x].pc \in Holding /\ UNCHANGED <<ring, c, h, tqvars>>
  BY Zenon DEF Inv, Types, Dies
<1>2. Attempt(x) /\ Host(sd) /\ Owner(sd, b, x) /\ Holds(x)
  BY <1>1, Zenon DEF Inv, Holds, Holding
<1>3. /\ w' \in [Writers -> WriterRec]
      /\ \A y \in Writers : y # x => w'[y] = w[y]
      /\ w'[x].pc = "dead" /\ w'[x].t = w[x].t /\ w'[x].p = w[x].p /\ w'[x].abs = w[x].abs
  BY <1>1, WriterMoves, Zenon DEF Dies, Goes
<1>4. Owner(sd, b, x)' /\ Attempt(x)'
  BY <1>1, <1>2, <1>3, Zenon DEF Owner, Attempt, Holds, Holding, ring, tqvars
<1>5. Host(sd)'
  BY <1>1, <1>2, <1>3, Zenon DEF Host, tqvars
<1> QED BY <1>1, <1>2, <1>3, <1>4, <1>5, WriterLocal, Zenon

\* The host reads the gate of a dead writer.
LEMMA HostLoadKeeps ==
    ASSUME NEW sd \in Seeds, NEW b \in [Slots -> Nat], Inv(sd, b), NEW x \in Writers,
           force_release_load(x)
    PROVE  Inv(sd, b)' /\ [TQNext]_tqvars
<1>1. /\ w \in [Writers -> WriterRec] /\ w[x].pc = "dead" /\ UNCHANGED <<ring, w, c, tqvars>>
      /\ h' = [who |-> x, g |-> gate[Slot(w[x].t)]]
  BY Zenon DEF Inv, Types, force_release_load, At
<1>2. Attempt(x) /\ Owner(sd, b, x) /\ Holds(x)
  BY <1>1, Zenon DEF Inv, Holds
<1>3. Owner(sd, b, x)' /\ Attempt(x)' /\ (Holds(x)' => Holds(x) /\ w'[x].abs = w[x].abs)
  BY <1>1, <1>2, ZenonT(30) DEF Owner, Attempt, Holds, ring, tqvars
<1>4. Host(sd)'
  <2>1. /\ w[x].t = T(sd, w[x].abs)
        /\ \/ gate[Slot(w[x].t)] = w[x].t
           \/ gate[Slot(w[x].t)] = w[x].t + TicketSpace /\ fate[w[x].abs] = "dead"
    BY <1>2, OwnersGate, Zenon
  <2>2. h'.who = x
    BY <1>1, Zenon
  <2> QED BY <1>1, <2>1, <2>2, ZenonT(30) DEF Host, tqvars
<1> QED BY <1>1, <1>3, <1>4, WriterLocal, Zenon

\* Slot s goes to the ticket N ahead; the ticket it was at has its final
\* fate f.
Ahead(b, s) == [b EXCEPT ![s] = b[s] + N]

Releases(sd, b, s, f) ==
    /\ b[s] < claimed
    /\ gate' = [gate EXCEPT ![s] = T(sd, b[s] + N)]
    /\ fate' = [fate EXCEPT ![b[s]] = f]
    /\ UNCHANGED <<head, cell, claimed, item>>
    /\ \/ f = "dead" /\ UNCHANGED <<cursor, next>>
       \/ next' = next + 1 /\ cursor' = next_ticket(cursor) /\ b[s] = next

\* A released slot disturbs nobody but the owner of its ticket.
LEMMA SlotReleased ==
    ASSUME NEW sd \in Seeds, NEW b \in [Slots -> Nat], Inv(sd, b),
           NEW s \in Slots, NEW f \in {"dead", "drained"}, Releases(sd, b, s, f)
    PROVE  /\ Ahead(b, s) \in [Slots -> Nat]
           /\ gate' \in [Slots -> 0 .. 2 * TicketSpace - 1]
           /\ fate' \in [Tickets -> Fates] /\ next' \in 0 .. claimed
           /\ Shape(sd, Ahead(b, s))' /\ Gates(sd, Ahead(b, s))' /\ FatesOk(sd, Ahead(b, s))'
           /\ \A y \in Writers : w'[y] = w[y] => Attempt(y)'
           /\ \A y \in Writers : w'[y] = w[y] /\ (Holds(y) => w[y].abs # b[s])
                                 => Owner(sd, Ahead(b, s), y)'
<1> USE DEF Releases
<1> DEFINE b2 == Ahead(b, s)
<1>0. /\ claimed \in Nat /\ next \in Nat /\ next <= claimed /\ claimed <= MaxTickets
      /\ N \in Nat /\ N >= 2 /\ TicketSpace \in Nat /\ TicketSpace > 2 * N
      /\ MaxTickets \in Nat /\ Tickets = 0 .. MaxTickets - 1
      /\ \A i \in Slots : b[i] \in Nat
  BY Numbers, Zenon
<1>1. PICK j \in Nat, k \in Nat : j = b[s] /\ k = j + N
  BY <1>0
<1>2. /\ b2 \in [Slots -> Nat]
      /\ b2[s] = k
      /\ \A i \in Slots : i # s => b2[i] = b[i]
  BY <1>1, Zenon DEF Ahead
<1> HIDE DEF b2
<1>3. \A i \in Slots : S(sd, b[i]) = i /\ claimed - N <= b[i] /\ b[i] < claimed + N
  BY Zenon DEF Inv, Shape
<1>4. S(sd, k) = s /\ T(sd, k) \in 0 .. TicketSpace - 1
  <2>1. j \in Int /\ k \in Int
    BY <1>1
  <2>2. S(sd, j + N) = S(sd, j)
    BY <2>1, TicketStep, Zenon
  <2> QED BY <1>1, <1>3, <2>1, <2>2, TicketStep, Zenon
<1>5. j \in Tickets /\ j < claimed /\ k >= claimed /\ k < claimed + N
  BY <1>0, <1>1, <1>3
<1>6. gate' \in [Slots -> 0 .. 2 * TicketSpace - 1] /\ gate'[s] = T(sd, k)
      /\ \A i \in Slots : i # s => gate'[i] = gate[i]
  <2>1. gate \in [Slots -> 0 .. 2 * TicketSpace - 1]
    BY Zenon DEF Inv, Types
  <2>2. T(sd, k) \in 0 .. 2 * TicketSpace - 1
    BY <1>0, <1>4
  <2> QED BY <1>1, <2>1, <2>2, Zenon
<1>7. fate' \in [Tickets -> Fates] /\ fate'[j] = f
      /\ \A t \in Tickets : t # j => fate'[t] = fate[t]
  BY <1>1, <1>5, Zenon DEF Inv, Types, Fates
<1>8. next' \in 0 .. claimed /\ next' >= next
      /\ (f = "drained" => j < next') /\ (next' > next => j = next /\ next' = next + 1)
  BY <1>0, <1>1, <1>5
<1>9. Shape(sd, b2)'
  <2>1. head' = T(sd, claimed') /\ cursor' = T(sd, next')
    <3>1. head = T(sd, claimed) /\ cursor = T(sd, next) /\ next \in Int
      BY <1>0 DEF Inv, Shape
    <3>2. next_ticket(T(sd, next)) = T(sd, next + 1)
      BY <3>1, TicketStep, Zenon
    <3> QED BY <3>1, <3>2, Zenon
  <2>2. \A i \in Slots : S(sd, b2[i]) = i /\ claimed - N <= b2[i] /\ b2[i] < claimed + N
    <3>1. claimed - N <= k
      BY <1>0, <1>5
    <3> QED BY <1>2, <1>3, <1>4, <1>5, <3>1, Zenon
  <2> QED BY <2>1, <2>2, Zenon DEF Shape
<1>10. Gates(sd, b2)'
  <2> SUFFICES ASSUME NEW i \in Slots
               PROVE  FreeAt(sd, i, b2[i])' \/ PublishedAt(sd, i, b2[i])' \/ FencedAt(sd, i, b2[i])'
    BY Zenon DEF Gates
  <2>1. CASE i = s
    BY <1>0, <1>2, <1>5, <1>6, <2>1, SMTT(30) DEF FreeAt
  <2>2. CASE i # s
    <3>1. b2[i] = b[i] /\ b[i] # j /\ gate'[i] = gate[i] /\ cell'[i] = cell[i]
      BY <1>1, <1>2, <1>3, <1>6, <2>2, Zenon
    <3>2. b[i] \in Nat /\ (b[i] < claimed => b[i] \in Tickets /\ fate'[b[i]] = fate[b[i]])
      BY <1>0, <1>7, <3>1
    <3>3. FreeAt(sd, i, b[i]) \/ PublishedAt(sd, i, b[i]) \/ FencedAt(sd, i, b[i])
      BY Zenon DEF Inv, Gates
    <3>4. b[i] < next => b[i] < next' /\ b[i] < claimed
      BY <1>0, <1>8, <3>2
    <3> QED BY <3>1, <3>2, <3>3, <3>4, Zenon DEF FreeAt, PublishedAt, FencedAt
  <2> QED BY <2>1, <2>2, Zenon
<1>11. FatesOk(sd, b2)'
  <2> SUFFICES ASSUME NEW t \in Tickets
               PROVE  /\ t >= claimed' <=> fate'[t] = "unclaimed"
                      /\ t < next' => fate'[t] \in {"dead", "drained"}
                      /\ fate'[t] = "drained" => t < next'
                      /\ fate'[t] \in {"claimed", "published"} => b2[S(sd, t)] = t
    BY Zenon DEF FatesOk
  <2>1. t \in Nat /\ t \in Int
    BY <1>0
  <2>2. CASE t = j
    BY <1>0, <1>5, <1>7, <1>8, <2>2
  <2>3. CASE t # j
    <3>1. /\ t >= claimed <=> fate[t] = "unclaimed"
          /\ t < next => fate[t] \in {"dead", "drained"}
          /\ fate[t] = "drained" => t < next
          /\ fate[t] \in {"claimed", "published"} => b[S(sd, t)] = t
      BY Zenon DEF Inv, FatesOk
    <3>2. t < next' => t < next
      BY <1>0, <1>8, <2>1, <2>3
    <3>3. t < next => t < next'
      BY <1>0, <1>8, <2>1
    <3>4. S(sd, t) \in Slots
      BY <2>1, TicketStep, Zenon
    <3>5. fate[t] \in {"claimed", "published"} => b2[S(sd, t)] = t
      BY <1>1, <1>2, <2>3, <3>1, <3>4, Zenon
    <3>6. fate'[t] = fate[t] /\ claimed' = claimed
      BY <1>7, <2>3, Zenon
    <3> QED BY <3>1, <3>2, <3>3, <3>5, <3>6, Zenon
  <2> QED BY <2>2, <2>3, Zenon
<1>12. \A y \in Writers : w'[y] = w[y] => Attempt(y)'
  <2> SUFFICES ASSUME NEW y \in Writers, w'[y] = w[y]
               PROVE  Attempt(y)'
    BY Zenon
  <2>1. Attempt(y)
    BY Zenon DEF Inv
  <2>2. gate[Slot(head)] = head => gate'[Slot(head)] = head
    <3>1. Slot(head) \in Slots /\ (gate[Slot(head)] = head => b[Slot(head)] = claimed)
      BY HeadGate, Zenon
    <3> QED BY <1>0, <1>1, <1>5, <1>6, <3>1, SMTT(30)
  <2> QED BY <2>1, <2>2, Zenon DEF Attempt
<1>13. ASSUME NEW y \in Writers, w'[y] = w[y], Holds(y) => w[y].abs # b[s]
       PROVE  Owner(sd, b2, y)'
  <2>1. Owner(sd, b, y)
    BY Zenon DEF Inv
  <2>2. (Holds(y)' => Holds(y)) /\ (Holds(y) => w[y].abs \in Tickets /\ w[y].abs # j)
    BY <1>1, <1>13, <2>1, ZenonT(30) DEF Holds, Owner
  <2>3. Holds(y) => S(sd, w[y].abs) \in Slots /\ S(sd, w[y].abs) # s
    <3>1. Holds(y) => w[y].abs \in Int
      BY <1>0, <2>2
    <3> QED BY <1>1, <2>1, <2>2, <3>1, TicketStep, Zenon DEF Owner
  <2>4. Holds(y) => /\ b2[S(sd, w[y].abs)] = w[y].abs
                    /\ fate'[w[y].abs] = fate[w[y].abs]
    BY <1>2, <1>7, <2>1, <2>2, <2>3, Zenon DEF Owner
  <2> QED BY <1>13, <2>1, <2>2, <2>4, Zenon DEF Owner
<1> QED BY <1>2, <1>6, <1>7, <1>8, <1>9, <1>10, <1>11, <1>12, <1>13, Zenon DEF b2

\* A slot given back by its owner, or by the host for it.
LEMMA OwnerReleases ==
    ASSUME NEW sd \in Seeds, NEW b \in [Slots -> Nat], Inv(sd, b), NEW x \in Writers, Holds(x),
           gate' = [gate EXCEPT ![Slot(w[x].t)] = release_gate(w[x].t)],
           fate' = [fate EXCEPT ![w[x].abs] = "dead"],
           w' \in [Writers -> WriterRec],
           \A y \in Writers : y # x => w'[y] = w[y],
           ~Holds(x)', Attempt(x)', h' = IdleHost \/ (h' = h /\ w[x].pc # "dead"),
           UNCHANGED <<head, cursor, cell, c, claimed, next, item, out>>
    PROVE  (\E b2 \in [Slots -> Nat] : Inv(sd, b2)') /\ [TQNext]_tqvars
<1>1. PICK s \in Slots, j \in Nat :
          /\ s = Slot(w[x].t) /\ j = w[x].abs
          /\ j \in Tickets /\ j < claimed /\ w[x].t = T(sd, j)
          /\ b[s] = j /\ fate[j] \in {"claimed", "dead"}
  BY OwnersGate, ZenonT(30)
<1>2. /\ gate' = [gate EXCEPT ![s] = T(sd, b[s] + N)]
      /\ fate' = [fate EXCEPT ![b[s]] = "dead"]
  <2>1. j \in Int
    BY <1>1
  <2>2. release_gate(T(sd, j)) = T(sd, j + N)
    BY <2>1, TicketStep, Zenon
  <2> QED BY <1>1, <2>2, Zenon
<1> DEFINE b2 == Ahead(b, s)
<1>3. /\ b2 \in [Slots -> Nat]
      /\ gate' \in [Slots -> 0 .. 2 * TicketSpace - 1]
      /\ fate' \in [Tickets -> Fates] /\ next' \in 0 .. claimed
      /\ Shape(sd, b2)' /\ Gates(sd, b2)' /\ FatesOk(sd, b2)'
      /\ \A y \in Writers : w'[y] = w[y] => Attempt(y)'
      /\ \A y \in Writers : w'[y] = w[y] /\ (Holds(y) => w[y].abs # b[s])
                            => Owner(sd, b2, y)'
  <2>1. PICK f \in {"dead", "drained"} : f = "dead"
    BY ZenonT(30)
  <2>2. Releases(sd, b, s, f)
    BY <1>1, <1>2, <2>1, Zenon DEF Releases
  <2> QED BY <2>2, SlotReleased, ZenonT(30)
<1> HIDE DEF b2
<1>4. Types'
  BY <1>3, ZenonT(30) DEF Inv, Types
<1>5. \A y \in Writers : Owner(sd, b2, y)' /\ Attempt(y)'
  <2> SUFFICES ASSUME NEW y \in Writers PROVE Owner(sd, b2, y)' /\ Attempt(y)'
    BY Zenon
  <2>1. CASE y = x
    BY <2>1, ZenonT(30) DEF Owner
  <2>2. CASE y # x
    <3>1. Holds(y) => w[y].abs # b[s]
      <4>1. Holds(y) => w[y].abs # w[x].abs
        BY <2>2, Zenon DEF Inv, Distinct
      <4> QED BY <1>1, <4>1, ZenonT(30)
    <3> QED BY <1>3, <2>2, <3>1, Zenon
  <2> QED BY <2>1, <2>2, ZenonT(30)
<1>6. Distinct'
  <2>1. Distinct
    BY Zenon DEF Inv
  <2> QED BY <2>1, SMTT(30) DEF Distinct, Holds
<1>7. Reading'
  <2>1. Reading
    BY ZenonT(30) DEF Inv
  <2>2. c.pc \in {"read1", "read2", "release"} => fate'[next] = fate[next]
    <3>1. fate[next] = "published" => next # j
      BY <1>1, Zenon
    <3>2. next < claimed => next \in Tickets
      BY Numbers
    <3>3. fate \in [Tickets -> Fates]
      BY Zenon DEF Inv, Types
    <3> QED BY <1>1, <1>2, <2>1, <3>1, <3>2, <3>3, Zenon DEF Reading
  <2> QED BY <2>1, <2>2, Zenon DEF Reading
<1>8. Host(sd)'
  <2>1. CASE h' = IdleHost
    BY <2>1, Zenon DEF Host
  <2>2. CASE h' = h /\ w[x].pc # "dead"
    <3>1. Host(sd)
      BY Zenon DEF Inv
    <3>2. ASSUME NEW y \in Writers, w[y].pc = "dead", h.who = y
          PROVE  w'[y] = w[y] /\ (fate[w[y].abs] = "dead" => fate'[w[y].abs] = "dead")
      <4>1. w'[y] = w[y]
        BY <2>2, <3>2, Zenon
      <4>2. w[y].abs \in Tickets
        <5>1. Holds(y)
          BY <3>2, Zenon DEF Holds
        <5> QED BY <5>1, OwnersGate, ZenonT(30)
      <4>3. fate \in [Tickets -> Fates]
        BY Zenon DEF Inv, Types
      <4> QED BY <4>1, <4>2, <4>3, Zenon
    <3> QED BY <2>2, <3>1, <3>2 DEF Host
  <2> QED BY <2>1, <2>2, Zenon
<1>9. [TQNext]_tqvars
  <2>1. fate \in [Tickets -> Fates]
    BY Zenon DEF Inv, Types
  <2>2. CASE fate[j] = "dead"
    <3>1. fate' = fate
      BY <1>1, <2>1, <2>2, Zenon
    <3> QED BY <3>1, Zenon DEF tqvars
  <2>3. CASE fate[j] = "claimed"
    <3>1. GiveUp(j)
      BY <1>1, <2>3, ZenonT(30) DEF GiveUp
    <3> QED BY <1>1, <3>1, Zenon DEF TQNext
  <2> QED BY <1>1, <2>2, <2>3, ZenonT(30)
<1>10. Inv(sd, b2)'
  BY <1>3, <1>4, <1>5, <1>6, <1>7, <1>8, Zenon DEF Inv
<1> QED BY <1>3, <1>9, <1>10, ZenonT(30)

\* A fenced writer releases its slot itself.
LEMMA SelfReleaseKeeps ==
    ASSUME NEW sd \in Seeds, NEW b \in [Slots -> Nat], Inv(sd, b), NEW x \in Writers,
           self_release(x)
    PROVE  (\E b2 \in [Slots -> Nat] : Inv(sd, b2)') /\ [TQNext]_tqvars
<1>1. /\ w \in [Writers -> WriterRec] /\ w[x].pc = "self"
      /\ fate \in [Tickets -> Fates]
      /\ UNCHANGED <<head, cursor, cell, c, h, claimed, next, fate, item, out>>
  BY Zenon DEF Inv, Types, self_release, At, tqvars
<1>2. Holds(x) /\ Owner(sd, b, x) /\ Attempt(x)
  BY <1>1, Zenon DEF Inv, Holds, Holding
<1>3. fate[w[x].abs] = "dead" /\ w[x].abs \in Tickets
  BY <1>1, <1>2, Zenon DEF Owner
<1>4. fate' = [fate EXCEPT ![w[x].abs] = "dead"]
  BY <1>1, <1>3, Zenon
<1>5. gate[Slot(w[x].t)] = w[x].t + TicketSpace
  BY <1>2, <1>3, OwnersGate, Zenon
<1>6. gate' = [gate EXCEPT ![Slot(w[x].t)] = release_gate(w[x].t)]
  BY <1>5, Zenon DEF self_release, fenced_gate, FENCED_BIT
<1>7. /\ w' \in [Writers -> WriterRec]
      /\ \A y \in Writers : y # x => w'[y] = w[y]
      /\ w'[x].pc = "load" /\ w'[x].t = w[x].t /\ w'[x].p = w[x].p /\ w'[x].abs = w[x].abs
  BY <1>1, WriterMoves, ZenonT(30) DEF self_release, Goes
<1>8. ~Holds(x)' /\ Attempt(x)'
  BY <1>1, <1>2, <1>7, Zenon DEF Holds, Holding, Attempt
<1> QED BY <1>1, <1>2, <1>4, <1>6, <1>7, <1>8, OwnerReleases, Zenon

\* The host releases the slot of a dead writer.
LEMMA HostStoreKeeps ==
    ASSUME NEW sd \in Seeds, NEW b \in [Slots -> Nat], Inv(sd, b), NEW x \in Writers,
           force_release_store(x)
    PROVE  (\E b2 \in [Slots -> Nat] : Inv(sd, b2)') /\ [TQNext]_tqvars
<1>1. /\ w \in [Writers -> WriterRec] /\ fate \in [Tickets -> Fates] /\ h.who = x
      /\ h' = IdleHost /\ w' = [w EXCEPT ![x] = IdleWriter]
      /\ UNCHANGED <<head, cursor, cell, c, claimed, next, item, out>>
  BY Zenon DEF Inv, Types, force_release_store
<1>2. h # IdleHost
  BY <1>1, RingAssumption DEF IdleHost
<1>3. Host(sd)
  BY Zenon DEF Inv
<1>4. /\ w[x].pc = "dead"
      /\ \/ h.g = T(sd, w[x].abs)
         \/ h.g = T(sd, w[x].abs) + TicketSpace /\ fate[w[x].abs] = "dead"
  BY <1>1, <1>2, <1>3, SMTT(30) DEF Host
<1>5. Holds(x)
  BY <1>4, ZenonT(30) DEF Holds
<1>6. w[x].abs \in Tickets /\ w[x].t = T(sd, w[x].abs) /\ w[x].t # w[x].t + TicketSpace
  BY <1>5, OwnersGate, Zenon
<1>7. /\ gate' = [gate EXCEPT ![Slot(w[x].t)] = release_gate(w[x].t)]
      /\ fate' = [fate EXCEPT ![w[x].abs] = "dead"]
  <2>1. h.g \in {w[x].t, fenced_gate(w[x].t)}
    BY <1>4, <1>6, Zenon DEF fenced_gate, FENCED_BIT
  <2>2. gate' = [gate EXCEPT ![Slot(w[x].t)] = release_gate(w[x].t)]
    BY <2>1, Zenon DEF force_release_store
  <2>3. CASE h.g = w[x].t
    BY <2>1, <2>2, <2>3, Zenon DEF force_release_store, Became
  <2>4. CASE h.g # w[x].t
    <3>1. fate' = fate /\ fate[w[x].abs] = "dead"
      BY <1>4, <1>6, <2>1, <2>4, Zenon DEF force_release_store
    <3> QED BY <1>1, <1>6, <2>2, <3>1, Zenon
  <2> QED BY <2>3, <2>4, Zenon
<1>8. /\ w' \in [Writers -> WriterRec]
      /\ \A y \in Writers : y # x => w'[y] = w[y]
      /\ w'[x].pc = "idle" /\ ~Holds(x)'
  BY <1>1, WriterIdles, Zenon
<1>9. Attempt(x)'
  BY <1>8, Zenon DEF Attempt
<1>10. h' = IdleHost \/ (h' = h /\ w[x].pc # "dead")
  BY <1>1, Zenon
<1>11. UNCHANGED <<head, cursor, cell, c, claimed, next, item, out>>
  BY <1>1, Zenon
<1> HIDE DEF IdleHost
<1> QED BY <1>5, <1>7, <1>8, <1>9, <1>10, <1>11, OwnerReleases, ZenonT(30)

\* The claim CAS that wins.  The queue has room whenever the head's slot is
\* free (RoomToClaim).
LEMMA ClaimKeeps ==
    ASSUME NEW sd \in Seeds, NEW b \in [Slots -> Nat], Inv(sd, b), NEW x \in Writers,
           Prompt, claim_cas(x), head = w[x].t,
           b[Slot(head)] = claimed => Cardinality(Live) < N
    PROVE  Inv(sd, b)' /\ [TQNext]_tqvars
<1>0. /\ claimed \in Nat /\ next \in Nat /\ next <= claimed /\ claimed <= MaxTickets
      /\ N \in Nat /\ N >= 2 /\ TicketSpace \in Nat /\ TicketSpace > 2 * N
      /\ MaxTickets \in Nat /\ Tickets = 0 .. MaxTickets - 1
      /\ \A i \in Slots : b[i] \in Nat
  BY Numbers, Zenon
<1>1. /\ w[x].pc = "cas" /\ claimed < MaxTickets /\ NoSleeper(x)
      /\ head' = next_ticket(head)
      /\ w' = [w EXCEPT ![x].pc = "cell1", ![x].abs = claimed]
      /\ fate' = [fate EXCEPT ![claimed] = "claimed"]
      /\ claimed' = claimed + 1
      /\ UNCHANGED <<cursor, gate, cell, c, h, next, item, out>>
  BY Zenon DEF claim_cas, At, Became
<1>2. /\ w \in [Writers -> WriterRec] /\ fate \in [Tickets -> Fates]
      /\ Attempt(x) /\ Host(sd) /\ Reading
      /\ \A y \in Writers : Owner(sd, b, y) /\ Attempt(y)
  BY Zenon DEF Inv, Types
<1>3. PICK s \in Slots, j \in Nat :
          /\ s = Slot(head) /\ j = claimed /\ s = S(sd, j) /\ b[s] = j
          /\ w[x].t = T(sd, j) /\ head' = T(sd, j + 1) /\ w[x].p \in Payloads
  <2>1. gate[Slot(head)] = head /\ w[x].p \in Payloads
    BY <1>1, <1>2, Zenon DEF Attempt
  <2>2. Slot(head) \in Slots /\ b[Slot(head)] = claimed /\ Slot(head) = S(sd, claimed)
    BY <2>1, HeadGate, Zenon
  <2>3. head = T(sd, claimed) /\ claimed \in Int
    BY <1>0, SMTT(30) DEF Inv, Shape
  <2>4. next_ticket(T(sd, claimed)) = T(sd, claimed + 1)
    BY <2>3, TicketStep, Zenon
  <2> QED BY <1>0, <1>1, <2>1, <2>2, <2>3, <2>4, Zenon
<1>4. j \in Tickets
  BY <1>0, <1>1, <1>3
<1>5. /\ w' \in [Writers -> WriterRec]
      /\ \A y \in Writers : y # x => w'[y] = w[y]
      /\ w'[x].pc = "cell1" /\ w'[x].t = w[x].t /\ w'[x].p = w[x].p /\ w'[x].abs = j
  <2> DEFINE r == w[x]
             m == [pc |-> "cell1", t |-> r.t, p |-> r.p, abs |-> r.abs]
             n == [pc |-> "cell1", t |-> r.t, p |-> r.p, abs |-> j]
  <2>1. r \in WriterRec /\ w' = [w EXCEPT ![x] = [[r EXCEPT !.pc = "cell1"] EXCEPT !.abs = j]]
    BY <1>1, <1>2, <1>3, Zenon
  <2> HIDE DEF r
  <2>2. r = [pc |-> r.pc, t |-> r.t, p |-> r.p, abs |-> r.abs]
    BY <2>1, WriterRecord, Zenon
  <2>3. [r EXCEPT !.pc = "cell1"] = m
    BY <2>2
  <2>4. [m EXCEPT !.abs = j] = n
    OBVIOUS
  <2>5. n \in WriterRec
    BY <1>4, <2>1, WriterRecord, Zenon DEF WriterRec, Holding
  <2>6. n.pc = "cell1" /\ n.t = r.t /\ n.p = r.p /\ n.abs = j
    BY Zenon
  <2> HIDE DEF m, n
  <2>7. w' = [w EXCEPT ![x] = n]
    BY <2>1, <2>3, <2>4, Zenon
  <2> QED BY <1>2, <2>5, <2>6, <2>7, Zenon DEF r
<1>6. /\ fate' \in [Tickets -> Fates] /\ fate'[j] = "claimed"
      /\ \A t \in Tickets : t # j => fate'[t] = fate[t]
  BY <1>1, <1>2, <1>3, <1>4, Zenon DEF Fates
<1>7. Types'
  <2>1. claimed' \in 0 .. MaxTickets /\ next' \in 0 .. claimed'
    BY <1>0, <1>1
  <2> QED BY <1>1, <1>5, <1>6, <2>1, Zenon DEF Inv, Types
<1>8. Shape(sd, b)'
  <2>1. \A i \in Slots : S(sd, b[i]) = i /\ claimed - N <= b[i] /\ b[i] < claimed + N
    BY Zenon DEF Inv, Shape
  <2>2. \A i \in Slots : b[i] # claimed - N
    <3> SUFFICES ASSUME NEW i \in Slots, b[i] = claimed - N PROVE FALSE
      BY Zenon
    <3>1. PICK k \in Int : k = b[i]
      BY <1>0, SMTT(30)
    <3>2. S(sd, k + N) = S(sd, k)
      BY <3>1, TicketStep, Zenon
    <3>3. k + N = j /\ k # j
      BY <1>0, <1>3, <3>1
    <3>4. i = s
      BY <1>3, <2>1, <3>1, <3>2, <3>3, Zenon
    <3> QED BY <1>3, <3>1, <3>3, <3>4, Zenon
  <2>3. \A i \in Slots : claimed + 1 - N <= b[i] /\ b[i] < claimed + 1 + N
    BY <1>0, <2>1, <2>2
  <2>4. head' = T(sd, claimed') /\ cursor' = T(sd, next')
    <3>1. claimed' = j + 1 /\ next' = next /\ cursor' = cursor
      BY <1>1, <1>3, Zenon
    <3>2. cursor = T(sd, next)
      BY Zenon DEF Inv, Shape
    <3>3. head' = T(sd, j + 1)
      BY <1>3, Zenon
    <3> QED BY <3>1, <3>2, <3>3, Zenon
  <2>5. \A i \in Slots : claimed' - N <= b[i] /\ b[i] < claimed' + N
    BY <1>0, <1>1, <2>3
  <2> QED BY <2>1, <2>4, <2>5, Zenon DEF Shape
<1>9. Gates(sd, b)'
  <2> SUFFICES ASSUME NEW i \in Slots
               PROVE  FreeAt(sd, i, b[i])' \/ PublishedAt(sd, i, b[i])' \/ FencedAt(sd, i, b[i])'
    BY Zenon DEF Gates
  <2>1. FreeAt(sd, i, b[i]) \/ PublishedAt(sd, i, b[i]) \/ FencedAt(sd, i, b[i])
    BY Zenon DEF Inv, Gates
  <2>2. b[i] \in Nat /\ (b[i] < claimed => b[i] \in Tickets /\ b[i] # j /\ b[i] < claimed')
        /\ (b[i] < claimed' => b[i] < claimed \/ b[i] = j) /\ (b[i] < next => b[i] < claimed)
    BY <1>0, <1>1, <1>3
  <2>3. b[i] < claimed => fate'[b[i]] = fate[b[i]]
    BY <1>6, <2>2, Zenon
  <2>4. CASE FreeAt(sd, i, b[i])
    BY <1>1, <1>6, <2>2, <2>3, <2>4, Zenon DEF FreeAt
  <2>5. CASE PublishedAt(sd, i, b[i])
    BY <1>1, <2>2, <2>3, <2>5, Zenon DEF PublishedAt
  <2>6. CASE FencedAt(sd, i, b[i])
    BY <1>1, <2>2, <2>3, <2>6, Zenon DEF FencedAt
  <2> QED BY <2>1, <2>4, <2>5, <2>6, Zenon
<1>10. FatesOk(sd, b)'
  <2> SUFFICES ASSUME NEW t \in Tickets
               PROVE  /\ t >= claimed' <=> fate'[t] = "unclaimed"
                      /\ t < next' => fate'[t] \in {"dead", "drained"}
                      /\ fate'[t] = "drained" => t < next'
                      /\ fate'[t] \in {"claimed", "published"} => b[S(sd, t)] = t
    BY Zenon DEF FatesOk
  <2>1. CASE t = j
    BY <1>0, <1>1, <1>3, <1>6, <2>1
  <2>2. CASE t # j
    <3>1. fate'[t] = fate[t] /\ (t >= claimed' <=> t >= claimed)
      BY <1>0, <1>1, <1>3, <1>6, <2>2
    <3> QED BY <1>1, <3>1, Zenon DEF Inv, FatesOk
  <2> QED BY <2>1, <2>2, Zenon
<1>11. \A y \in Writers : Owner(sd, b, y)' /\ Attempt(y)'
  <2> SUFFICES ASSUME NEW y \in Writers PROVE Owner(sd, b, y)' /\ Attempt(y)'
    BY Zenon
  <2>1. CASE y = x
    <3>1. w'[x].abs \in Tickets /\ w'[x].abs < claimed'
      BY <1>0, <1>1, <1>3, <1>4, <1>5
    <3> QED BY <1>3, <1>5, <1>6, <2>1, <3>1, Zenon DEF Owner, Attempt
  <2>2. CASE y # x
    <3>1. w'[y] = w[y] /\ Owner(sd, b, y) /\ Attempt(y)
      BY <1>2, <1>5, <2>2, Zenon
    <3>2. Holds(y) => w[y].abs \in Tickets /\ w[y].abs < claimed' /\ w[y].abs # j
      BY <1>0, <1>1, <1>3, <3>1 DEF Owner
    <3>3. Owner(sd, b, y)'
      BY <1>1, <1>6, <3>1, <3>2, ZenonT(30) DEF Owner, Holds
    <3>4. w[y].pc = "cas" => w[y].t # head'
      BY <1>1, <2>2, Zenon DEF NoSleeper, At
    <3>5. Attempt(y)'
      BY <3>1, <3>4, Zenon DEF Attempt
    <3> QED BY <3>3, <3>5, Zenon
  <2> QED BY <2>1, <2>2, Zenon
<1>12. Distinct'
  <2>1. Distinct
    BY Zenon DEF Inv
  <2>2. ASSUME NEW y \in Writers, y # x, Holds(y)'
        PROVE  w'[y].abs # j /\ Holds(y) /\ w'[y].abs = w[y].abs
    <3>1. w'[y] = w[y] /\ Owner(sd, b, y)
      BY <1>2, <1>5, <2>2, Zenon
    <3>2. Holds(y)
      BY <2>2, <3>1, Zenon DEF Holds
    <3>3. w[y].abs \in Tickets /\ w[y].abs < claimed
      BY <3>1, <3>2, Zenon DEF Owner
    <3>4. w[y].abs # j
      BY <1>0, <1>3, <3>3
    <3> QED BY <3>1, <3>2, <3>4, Zenon
  <2> QED BY <1>5, <2>1, <2>2 DEF Distinct
<1>13. Reading'
  <2>1. next < claimed => next \in Tickets /\ next # j /\ next < claimed'
    BY <1>0, <1>1, <1>3
  <2> QED BY <1>1, <1>2, <1>6, <2>1, Zenon DEF Reading
<1>14. Host(sd)'
  <2>1. ASSUME NEW y \in Writers, w[y].pc = "dead"
        PROVE  w'[y] = w[y] /\ fate'[w[y].abs] = fate[w[y].abs]
    <3>1. w'[y] = w[y] /\ Owner(sd, b, y) /\ Holds(y)
      BY <1>1, <1>2, <1>5, <2>1, Zenon DEF Holds
    <3>2. w[y].abs \in Tickets /\ w[y].abs # j
      BY <1>0, <1>3, <3>1 DEF Owner
    <3> QED BY <1>6, <3>1, <3>2, Zenon
  <2> QED BY <1>1, <1>2, <2>1, Zenon DEF Host
<1>15. Claim
  BY <1>1, <1>3, Zenon DEF Claim
<1> QED BY <1>7, <1>8, <1>9, <1>10, <1>11, <1>12, <1>13, <1>14, <1>15, Zenon DEF Inv, TQNext

\* The claim CAS that loses.
LEMMA ClaimLostKeeps ==
    ASSUME NEW sd \in Seeds, NEW b \in [Slots -> Nat], Inv(sd, b), NEW x \in Writers,
           claim_cas(x), head # w[x].t
    PROVE  Inv(sd, b)' /\ [TQNext]_tqvars
<1>1. /\ w \in [Writers -> WriterRec] /\ w[x].pc = "cas"
      /\ w' = [w EXCEPT ![x] = IdleWriter]
      /\ UNCHANGED <<ring, c, h, tqvars>>
  BY Zenon DEF Inv, Types, claim_cas, At, ring, tqvars
<1>2. /\ w' \in [Writers -> WriterRec]
      /\ \A y \in Writers : y # x => w'[y] = w[y]
      /\ w'[x].pc = "idle" /\ ~Holds(x)'
  BY <1>1, WriterIdles, Zenon
<1>3. Owner(sd, b, x)' /\ Attempt(x)'
  BY <1>2, Zenon DEF Owner, Attempt
<1>4. Host(sd)'
  <2>1. Host(sd)
    BY Zenon DEF Inv
  <2> QED BY <1>1, <1>2, <2>1, Zenon DEF Host, tqvars
<1> QED BY <1>1, <1>2, <1>3, <1>4, WriterLocal, Zenon

\* Two owners have two slots.
LEMMA OwnersApart ==
    ASSUME NEW sd \in Seeds, NEW b \in [Slots -> Nat], Inv(sd, b),
           NEW x \in Writers, NEW y \in Writers, x # y, Holds(x), Holds(y)
    PROVE  S(sd, w[x].abs) # S(sd, w[y].abs) /\ w[x].abs # w[y].abs
<1>1. w[x].abs # w[y].abs
  BY Zenon DEF Inv, Distinct
<1>2. b[S(sd, w[x].abs)] = w[x].abs /\ b[S(sd, w[y].abs)] = w[y].abs
  BY Zenon DEF Inv, Owner
<1> QED BY <1>1, <1>2, Zenon

\* A store into a payload cell.
LEMMA WritePayloadKeeps ==
    ASSUME NEW sd \in Seeds, NEW b \in [Slots -> Nat], Inv(sd, b), NEW x \in Writers,
           write_payload(x)
    PROVE  Inv(sd, b)' /\ [TQNext]_tqvars
<1>1. /\ w \in [Writers -> WriterRec] /\ Host(sd) /\ Reading /\ Distinct
      /\ cell \in [Slots -> [1 .. 2 -> Payloads \cup {NoPayload}]]
      /\ \A y \in Writers : Owner(sd, b, y) /\ Attempt(y)
      /\ UNCHANGED <<head, cursor, gate, c, h, tqvars>>
  BY Zenon DEF Inv, Types, write_payload
<1>2. w[x].pc \in {"cell1", "cell2"} /\ Holds(x)
  BY Zenon DEF write_payload, At, Holds, Holding
<1>3. PICK s \in Slots, j \in Nat :
          /\ s = Slot(w[x].t) /\ j = w[x].abs /\ s = S(sd, j) /\ b[s] = j
          /\ fate[j] \in {"claimed", "dead"}
  BY <1>2, OwnersGate, Zenon
<1>4. PICK i \in 1 .. 2, q \in {"cell2", "publish"} :
          /\ w[x].pc = "cell1" => i = 1 /\ q = "cell2"
          /\ w[x].pc = "cell2" => i = 2 /\ q = "publish"
          /\ cell' = [cell EXCEPT ![s][i] = w[x].p]
          /\ w' = [w EXCEPT ![x].pc = q]
  <2>1. CASE w[x].pc = "cell1"
    BY <1>3, <2>1 DEF write_payload, At, Goes
  <2>2. CASE w[x].pc = "cell2"
    BY <1>3, <2>2 DEF write_payload, At, Goes
  <2> QED BY <1>2, <2>1, <2>2, Zenon
<1>5. /\ w' \in [Writers -> WriterRec]
      /\ \A y \in Writers : y # x => w'[y] = w[y]
      /\ w'[x].pc = q /\ w'[x].t = w[x].t /\ w'[x].p = w[x].p /\ w'[x].abs = w[x].abs
  BY <1>1, <1>4, WriterMoves, Zenon DEF Holding
<1>6. w[x].p \in Payloads
  BY <1>1, <1>2, Zenon DEF Attempt
<1>7. /\ cell' \in [Slots -> [1 .. 2 -> Payloads \cup {NoPayload}]]
      /\ cell'[s][i] = w[x].p
      /\ \A k \in 1 .. 2 : k # i => cell'[s][k] = cell[s][k]
      /\ \A r \in Slots : r # s => cell'[r] = cell[r]
  <2> DEFINE Cells == [1 .. 2 -> Payloads \cup {NoPayload}]
             e == [cell[s] EXCEPT ![i] = w[x].p]
  <2>1. cell[s] \in Cells
    BY <1>1, Zenon
  <2>2. e \in Cells /\ e[i] = w[x].p /\ \A k \in 1 .. 2 : k # i => e[k] = cell[s][k]
    BY <1>6, <2>1, Zenon
  <2>3. cell' = [cell EXCEPT ![s] = e]
    BY <1>1, <1>4, Zenon
  <2> HIDE DEF e, Cells
  <2>4. cell' \in [Slots -> Cells] /\ cell'[s] = e /\ \A r \in Slots : r # s => cell'[r] = cell[r]
    BY <1>1, <2>2, <2>3, Zenon DEF Cells
  <2> QED BY <2>2, <2>4, Zenon DEF Cells
<1>8. Types'
  BY <1>1, <1>5, <1>7, Zenon DEF Inv, Types, tqvars
<1>9. Shape(sd, b)' /\ FatesOk(sd, b)'
  BY <1>1, Zenon DEF Inv, Shape, FatesOk, tqvars
<1>10. Gates(sd, b)'
  <2> SUFFICES ASSUME NEW r \in Slots
               PROVE  FreeAt(sd, r, b[r])' \/ PublishedAt(sd, r, b[r])' \/ FencedAt(sd, r, b[r])'
    BY Zenon DEF Gates
  <2>1. FreeAt(sd, r, b[r]) \/ PublishedAt(sd, r, b[r]) \/ FencedAt(sd, r, b[r])
    BY Zenon DEF Inv, Gates
  <2>2. PublishedAt(sd, r, b[r]) => r # s
    BY <1>3, Zenon DEF PublishedAt
  <2> QED BY <1>1, <1>7, <2>1, <2>2, Zenon DEF FreeAt, PublishedAt, FencedAt, tqvars
<1>11. \A y \in Writers : Owner(sd, b, y)' /\ Attempt(y)'
  <2> SUFFICES ASSUME NEW y \in Writers PROVE Owner(sd, b, y)' /\ Attempt(y)'
    BY Zenon
  <2>1. Owner(sd, b, y) /\ Attempt(y)
    BY <1>1, Zenon
  <2>2. CASE y = x
    <3>1. w'[x].pc \in {"cell2", "publish"} => cell'[s][1] = w[x].p
      BY <1>2, <1>3, <1>4, <1>5, <1>7, <2>1, <2>2 DEF Owner
    <3>2. w'[x].pc = "publish" => cell'[s][2] = w[x].p
      BY <1>2, <1>4, <1>5, <1>7, Zenon
    <3>3. w'[x].pc \in {"cell2", "publish"}
      BY <1>5, Zenon
    <3>4. Owner(sd, b, x)'
      BY <1>1, <1>2, <1>3, <1>5, <2>1, <2>2, <3>1, <3>2, <3>3, ZenonT(30) DEF Owner, tqvars
    <3>5. Attempt(x)'
      BY <1>5, <1>6, <3>3, Zenon DEF Attempt
    <3> QED BY <2>2, <3>4, <3>5, Zenon
  <2>3. CASE y # x
    <3>1. w'[y] = w[y]
      BY <1>5, <2>3, Zenon
    <3>2. Holds(y) => S(sd, w[y].abs) # s /\ S(sd, w[y].abs) \in Slots
      <4>1. Holds(y) => S(sd, w[y].abs) # S(sd, w[x].abs)
        BY <1>2, <2>3, OwnersApart, Zenon
      <4>2. Holds(y) => S(sd, w[y].abs) \in Slots
        BY OwnersGate, Zenon
      <4> QED BY <1>3, <4>1, <4>2, Zenon
    <3>3. Owner(sd, b, y)'
      BY <1>1, <1>7, <2>1, <3>1, <3>2, ZenonT(30) DEF Owner, Holds, tqvars
    <3>4. Attempt(y)'
      BY <1>1, <2>1, <3>1, Zenon DEF Attempt
    <3> QED BY <3>3, <3>4, Zenon
  <2> QED BY <2>2, <2>3, Zenon
<1>12. Distinct'
  BY <1>1, <1>2, <1>5, SMTT(30) DEF Distinct, Holds
<1>13. Reading'
  BY <1>1, Zenon DEF Reading, tqvars
<1>14. Host(sd)'
  BY <1>1, <1>2, <1>5, Zenon DEF Host, tqvars
<1> QED BY <1>1, <1>8, <1>9, <1>10, <1>11, <1>12, <1>13, <1>14, Zenon DEF Inv

\* The publish CAS that wins.
LEMMA PublishKeeps ==
    ASSUME NEW sd \in Seeds, NEW b \in [Slots -> Nat], Inv(sd, b), NEW x \in Writers,
           w[x].pc = "publish",
           gate[Slot(w[x].t)] = w[x].t,
           gate' = [gate EXCEPT ![Slot(w[x].t)] = published_gate(w[x].t)],
           w' = [w EXCEPT ![x] = IdleWriter],
           Became(w[x].abs, "published"),
           item' = [item EXCEPT ![w[x].abs] = w[x].p],
           UNCHANGED <<head, cursor, cell, c, h, claimed, next, out>>
    PROVE  Inv(sd, b)' /\ [TQNext]_tqvars
<1>0. /\ claimed \in Nat /\ next \in Nat /\ next <= claimed
      /\ N \in Nat /\ TicketSpace \in Nat /\ TicketSpace > 2 * N
      /\ Tickets = 0 .. MaxTickets - 1 /\ MaxTickets \in Nat /\ claimed <= MaxTickets
      /\ \A i \in Slots : b[i] \in Nat
  BY Numbers, Zenon
<1>1. /\ w \in [Writers -> WriterRec] /\ Host(sd) /\ Reading /\ Distinct
      /\ fate \in [Tickets -> Fates] /\ item \in [Tickets -> Payloads \cup {NoPayload}]
      /\ gate \in [Slots -> 0 .. 2 * TicketSpace - 1]
      /\ \A y \in Writers : Owner(sd, b, y) /\ Attempt(y)
  BY Zenon DEF Inv, Types
<1>2. Holds(x) /\ w[x].p \in Payloads
  BY <1>1, Zenon DEF Holds, Holding, Attempt
<1>3. PICK s \in Slots, j \in Nat, p \in Payloads :
          /\ s = Slot(w[x].t) /\ j = w[x].abs /\ s = S(sd, j) /\ b[s] = j /\ p = w[x].p
          /\ j \in Tickets /\ j < claimed /\ fate[j] = "claimed" /\ w[x].t = T(sd, j)
          /\ cell[s][1] = p /\ cell[s][2] = p
  <2>1. cell[S(sd, w[x].abs)][1] = w[x].p /\ cell[S(sd, w[x].abs)][2] = w[x].p
    BY <1>1, <1>2, ZenonT(30) DEF Owner
  <2>2. /\ w[x].abs \in Nat /\ w[x].abs \in Tickets /\ w[x].abs < claimed
        /\ w[x].t = T(sd, w[x].abs)
        /\ Slot(w[x].t) = S(sd, w[x].abs) /\ Slot(w[x].t) \in Slots
        /\ b[Slot(w[x].t)] = w[x].abs
        /\ fate[w[x].abs] = "claimed"
    BY <1>2, OwnersGate, Zenon
  <2> QED BY <1>2, <2>1, <2>2, ZenonT(30)
<1>4. /\ w' \in [Writers -> WriterRec]
      /\ \A y \in Writers : y # x => w'[y] = w[y]
      /\ w'[x].pc = "idle" /\ ~Holds(x)'
  BY <1>1, WriterIdles, Zenon
<1>5. /\ gate'[s] = T(sd, j + 1)
      /\ \A i \in Slots : i # s => gate'[i] = gate[i]
      /\ gate' \in [Slots -> 0 .. 2 * TicketSpace - 1]
  <2>1. j \in Int /\ j + 1 \in Int
    OBVIOUS
  <2>2. next_ticket(T(sd, j)) = T(sd, j + 1) /\ T(sd, j + 1) \in 0 .. TicketSpace - 1
    BY <2>1, TicketStep, Zenon
  <2>3. T(sd, j + 1) \in 0 .. 2 * TicketSpace - 1
    BY <1>0, <2>2, SMTT(30)
  <2>4. gate' = [gate EXCEPT ![s] = T(sd, j + 1)]
    BY <1>3, <2>2, Zenon DEF published_gate
  <2> QED BY <1>1, <2>3, <2>4, Zenon
<1>6. /\ fate' \in [Tickets -> Fates] /\ fate'[j] = "published"
      /\ \A t \in Tickets : t # j => fate'[t] = fate[t]
  BY <1>1, <1>3, ZenonT(30) DEF Fates, Became
<1>7. /\ item' \in [Tickets -> Payloads \cup {NoPayload}] /\ item'[j] = p
      /\ \A t \in Tickets : t # j => item'[t] = item[t]
  BY <1>1, <1>3, ZenonT(30)
<1>8. Types'
  BY <1>4, <1>5, <1>6, <1>7, Zenon DEF Inv, Types
<1>9. Shape(sd, b)'
  BY Zenon DEF Inv, Shape
<1>10. Gates(sd, b)'
  <2> SUFFICES ASSUME NEW i \in Slots
               PROVE  FreeAt(sd, i, b[i])' \/ PublishedAt(sd, i, b[i])' \/ FencedAt(sd, i, b[i])'
    BY Zenon DEF Gates
  <2>1. CASE i = s
    BY <1>3, <1>5, <1>6, <1>7, <2>1, ZenonT(30) DEF PublishedAt
  <2>2. CASE i # s
    <3>1. FreeAt(sd, i, b[i]) \/ PublishedAt(sd, i, b[i]) \/ FencedAt(sd, i, b[i])
      BY Zenon DEF Inv, Gates
    <3>2. b[i] # j
      BY <1>3, <2>2, Zenon DEF Inv, Shape
    <3>3. (b[i] < claimed => b[i] \in Tickets) /\ (b[i] < next => b[i] < claimed)
      BY <1>0, SMTT(30)
    <3>4. b[i] < claimed => fate'[b[i]] = fate[b[i]] /\ item'[b[i]] = item[b[i]]
      BY <1>6, <1>7, <3>2, <3>3, Zenon
    <3> QED BY <1>5, <2>2, <3>1, <3>3, <3>4, Zenon DEF FreeAt, PublishedAt, FencedAt
  <2> QED BY <2>1, <2>2, Zenon
<1>11. FatesOk(sd, b)'
  <2> SUFFICES ASSUME NEW t \in Tickets
               PROVE  /\ t >= claimed' <=> fate'[t] = "unclaimed"
                      /\ t < next' => fate'[t] \in {"dead", "drained"}
                      /\ fate'[t] = "drained" => t < next'
                      /\ fate'[t] \in {"claimed", "published"} => b[S(sd, t)] = t
    BY Zenon DEF FatesOk
  <2>1. /\ t >= claimed <=> fate[t] = "unclaimed"
        /\ t < next => fate[t] \in {"dead", "drained"}
        /\ fate[t] = "drained" => t < next
        /\ fate[t] \in {"claimed", "published"} => b[S(sd, t)] = t
    BY Zenon DEF Inv, FatesOk
  <2>2. CASE t = j
    BY <1>3, <1>6, <2>1, <2>2, Zenon
  <2>3. CASE t # j
    BY <1>6, <2>1, <2>3, Zenon
  <2> QED BY <2>2, <2>3, Zenon
<1>12. \A y \in Writers : Owner(sd, b, y)' /\ Attempt(y)'
  <2> SUFFICES ASSUME NEW y \in Writers PROVE Owner(sd, b, y)' /\ Attempt(y)'
    BY Zenon
  <2>1. CASE y = x
    BY <1>4, <2>1, Zenon DEF Owner, Attempt
  <2>2. CASE y # x
    <3>1. w'[y] = w[y] /\ Owner(sd, b, y) /\ Attempt(y)
      BY <1>1, <1>4, <2>2, Zenon
    <3>2. Holds(y) => w[y].abs \in Tickets /\ w[y].abs # j
      BY <1>1, <1>2, <1>3, <2>2, <3>1, ZenonT(30) DEF Owner, Distinct
    <3>3. Owner(sd, b, y)'
      BY <1>6, <3>1, <3>2, ZenonT(30) DEF Owner, Holds
    <3>4. gate[Slot(head)] = head => gate'[Slot(head)] = head
      <4>1. Slot(head) \in Slots /\ (gate[Slot(head)] = head => b[Slot(head)] = claimed)
        BY HeadGate, Zenon
      <4> QED BY <1>0, <1>3, <1>5, <4>1
    <3>5. Attempt(y)'
      BY <3>1, <3>4, Zenon DEF Attempt
    <3> QED BY <3>3, <3>5, Zenon
  <2> QED BY <2>1, <2>2, Zenon
<1>13. Distinct'
  BY <1>1, <1>4, Zenon DEF Distinct, Holds
<1>14. Reading'
  <2>1. next < claimed => next \in Tickets
    BY <1>0, SMTT(30)
  <2>2. fate[next] = "published" => next # j
    BY <1>3, Zenon
  <2> QED BY <1>1, <1>6, <1>7, <2>1, <2>2, Zenon DEF Reading
<1>15. Host(sd)'
  <2>1. ASSUME NEW y \in Writers, w[y].pc = "dead"
        PROVE  w'[y] = w[y] /\ fate'[w[y].abs] = fate[w[y].abs]
    <3>1. w'[y] = w[y] /\ Owner(sd, b, y) /\ Holds(y) /\ y # x
      BY <1>1, <1>4, <2>1, Zenon DEF Holds
    <3>2. w[y].abs \in Tickets /\ w[y].abs # j
      BY <1>1, <1>2, <1>3, <3>1, ZenonT(30) DEF Owner, Distinct
    <3> QED BY <1>6, <3>1, <3>2, Zenon
  <2> QED BY <1>1, <2>1, Zenon DEF Host
<1>16. Publish(j, p)
  BY <1>3, ZenonT(30) DEF Publish, Became
<1>17. TQNext
  BY <1>3, <1>16, Zenon DEF TQNext
<1> QED BY <1>8, <1>9, <1>10, <1>11, <1>12, <1>13, <1>14, <1>15, <1>17, Zenon DEF Inv

\* The publish CAS that fails.
LEMMA PublishLostKeeps ==
    ASSUME NEW sd \in Seeds, NEW b \in [Slots -> Nat], Inv(sd, b), NEW x \in Writers,
           w[x].pc = "publish", Goes(x, "reread"),
           UNCHANGED <<ring, c, h, tqvars>>
    PROVE  Inv(sd, b)' /\ [TQNext]_tqvars
<1>1. /\ w \in [Writers -> WriterRec] /\ Host(sd) /\ Owner(sd, b, x) /\ Attempt(x)
  BY Zenon DEF Inv, Types
<1>2. /\ w' \in [Writers -> WriterRec]
      /\ \A y \in Writers : y # x => w'[y] = w[y]
      /\ w'[x].pc = "reread" /\ w'[x].t = w[x].t /\ w'[x].p = w[x].p /\ w'[x].abs = w[x].abs
  BY <1>1, WriterMoves, ZenonT(30) DEF Goes, Holding
<1>3. Holds(x)' => Holds(x) /\ w'[x].abs = w[x].abs
  BY <1>2, Zenon DEF Holds, Holding
<1>4. Owner(sd, b, x)' /\ Attempt(x)'
  BY <1>1, <1>2, Zenon DEF Owner, Attempt, Holds, Holding, ring, tqvars
<1>5. Host(sd)'
  BY <1>1, <1>2, Zenon DEF Host, tqvars
<1> QED BY <1>2, <1>3, <1>4, <1>5, WriterLocal, Zenon


(***************************************************************************)
(* The consumer                                                            *)
(***************************************************************************)

\* A consumer between two tickets.
LEMMA IdleRec == IdleConsumer \in ConsumerRec /\ IdleConsumer.pc = "poll"
<1>1. PICK Q : Q = Seq(Payloads \cup {NoPayload})
  BY Zenon
<1>2. <<>> \in Q
  BY <1>1
<1>3. IdleConsumer = [pc |-> "poll", p |-> <<>>]
  BY Zenon DEF IdleConsumer
<1>4. ConsumerRec = [pc : {"poll", "read1", "read2", "release", "fence", "fcas"}, p : Q]
  BY <1>1, Zenon DEF ConsumerRec
<1> QED BY <1>2, <1>3, <1>4, Zenon

\* A step of the consumer on its own state.
LEMMA ConsumerLocal ==
    ASSUME NEW sd \in Seeds, NEW b \in [Slots -> Nat], Inv(sd, b),
           UNCHANGED <<ring, w, h, tqvars>>, c' \in ConsumerRec, Reading'
    PROVE  Inv(sd, b)' /\ [TQNext]_tqvars
<1>1. Types'
  BY Zenon DEF Inv, Types, ring, tqvars
<1>2. Shape(sd, b)' /\ Gates(sd, b)' /\ FatesOk(sd, b)'
  BY ZenonT(30) DEF Inv, Shape, Gates, FatesOk, ring, tqvars, FreeAt, PublishedAt, FencedAt
<1>3. \A y \in Writers : Owner(sd, b, y)' /\ Attempt(y)'
  <2> SUFFICES ASSUME NEW y \in Writers PROVE Owner(sd, b, y)' /\ Attempt(y)'
    BY Zenon
  <2>1. Owner(sd, b, y) /\ Attempt(y)
    BY Zenon DEF Inv
  <2> QED BY <2>1, Zenon DEF Owner, Attempt, Holds, ring, tqvars
<1>4. Distinct'
  <2>1. Distinct
    BY Zenon DEF Inv
  <2> QED BY <2>1, Zenon DEF Distinct, Holds
<1>5. Host(sd)'
  <2>1. Host(sd)
    BY Zenon DEF Inv
  <2> QED BY <2>1, Zenon DEF Host, tqvars
<1> QED BY <1>1, <1>2, <1>3, <1>4, <1>5, Zenon DEF Inv

\* The consumer's record, and its moves.
LEMMA ConsumerMoves ==
    ASSUME Types, NEW q \in {"poll", "read1", "read2", "release", "fence", "fcas"},
           c' = [c EXCEPT !.pc = q]
    PROVE  c' \in ConsumerRec /\ c'.pc = q /\ c'.p = c.p
<1> DEFINE A == {"poll", "read1", "read2", "release", "fence", "fcas"}
           B == Seq(Payloads \cup {NoPayload})
<1>1. c \in [pc : A, p : B]
  BY Zenon DEF Types, ConsumerRec
<1> HIDE DEF B
<1>2. c' = [pc |-> q, p |-> c.p] /\ c.p \in B
  BY <1>1, Zenon
<1> QED BY <1>2, Zenon DEF ConsumerRec, B

\* poll_drain skips a dead ticket.
LEMMA SkipKeeps ==
    ASSUME NEW sd \in Seeds, NEW b \in [Slots -> Nat], Inv(sd, b),
           c.pc = "poll", next < claimed, fate[next] = "dead",
           cursor' = next_ticket(cursor), next' = next + 1,
           UNCHANGED <<c, head, gate, cell, w, h, claimed, fate, item, out>>
    PROVE  Inv(sd, b)' /\ [TQNext]_tqvars
<1>0. claimed \in Nat /\ next \in Nat /\ next \in Int /\ Tickets = 0 .. MaxTickets - 1
      /\ \A i \in Slots : b[i] \in Nat
  BY Numbers
<1>1. next' \in 0 .. claimed /\ \A i \in Nat : (i < next => i < next') /\ (i < next' => i < next \/ i = next)
  BY <1>0, SMTT(30)
<1>2. Types'
  BY <1>1, Zenon DEF Inv, Types
<1>3. Shape(sd, b)'
  <2>1. next_ticket(T(sd, next)) = T(sd, next + 1)
    BY <1>0, TicketStep, Zenon
  <2>2. cursor' = T(sd, next')
    BY <2>1, Zenon DEF Inv, Shape
  <2> QED BY <2>2, Zenon DEF Inv, Shape
<1>4. Gates(sd, b)'
  <2> SUFFICES ASSUME NEW i \in Slots
               PROVE  FreeAt(sd, i, b[i])' \/ PublishedAt(sd, i, b[i])' \/ FencedAt(sd, i, b[i])'
    BY Zenon DEF Gates
  <2>1. FreeAt(sd, i, b[i]) \/ PublishedAt(sd, i, b[i]) \/ FencedAt(sd, i, b[i])
    BY Zenon DEF Inv, Gates
  <2>2. b[i] < next => b[i] < next'
    BY <1>0, <1>1, Zenon
  <2> QED BY <2>1, <2>2, Zenon DEF FreeAt, PublishedAt, FencedAt
<1>5. FatesOk(sd, b)'
  <2> SUFFICES ASSUME NEW t \in Tickets
               PROVE  /\ t >= claimed <=> fate[t] = "unclaimed"
                      /\ t < next' => fate[t] \in {"dead", "drained"}
                      /\ fate[t] = "drained" => t < next'
                      /\ fate[t] \in {"claimed", "published"} => b[S(sd, t)] = t
    BY Zenon DEF FatesOk
  <2>1. /\ t >= claimed <=> fate[t] = "unclaimed"
        /\ t < next => fate[t] \in {"dead", "drained"}
        /\ fate[t] = "drained" => t < next
        /\ fate[t] \in {"claimed", "published"} => b[S(sd, t)] = t
    BY Zenon DEF Inv, FatesOk
  <2>2. (t < next => t < next') /\ (t < next' => t < next \/ t = next)
    BY <1>0, <1>1, SMTT(30)
  <2> QED BY <2>1, <2>2, Zenon
<1>6. \A y \in Writers : Owner(sd, b, y)' /\ Attempt(y)'
  <2> SUFFICES ASSUME NEW y \in Writers PROVE Owner(sd, b, y)' /\ Attempt(y)'
    BY Zenon
  <2>1. Owner(sd, b, y) /\ Attempt(y)
    BY Zenon DEF Inv
  <2> QED BY <2>1, Zenon DEF Owner, Attempt, Holds
<1>7. Distinct' /\ Reading'
  <2>1. Distinct
    BY Zenon DEF Inv
  <2> QED BY <2>1, Zenon DEF Distinct, Holds, Reading
<1>8. Host(sd)'
  <2>1. Host(sd)
    BY Zenon DEF Inv
  <2> QED BY <2>1, Zenon DEF Host
<1>9. TQNext
  BY Zenon DEF Skip, TQNext
<1> QED BY <1>2, <1>3, <1>4, <1>5, <1>6, <1>7, <1>8, <1>9, Zenon DEF Inv

\* The consumer looks at the gate of its cursor.
LEMMA PollKeeps ==
    ASSUME NEW sd \in Seeds, NEW b \in [Slots -> Nat], Inv(sd, b), NotLapped, poll_drain
    PROVE  Inv(sd, b)' /\ [TQNext]_tqvars
<1> DEFINE g == gate[Slot(cursor)]
<1>1. /\ c.pc = "poll" /\ Types
      /\ UNCHANGED <<head, gate, cell, w, h, claimed, fate, item, out>>
  BY Zenon DEF poll_drain, Inv
<1>2. CASE g = published_gate(cursor) /\ c' = [c EXCEPT !.pc = "read1"] /\ UNCHANGED <<cursor, next>>
  <2>1. c' \in ConsumerRec /\ c'.pc = "read1"
    BY <1>1, <1>2, ConsumerMoves, Zenon
  <2>2. next < claimed /\ fate[next] = "published"
    BY <1>2, CursorGate, Zenon DEF PublishedAt
  <2>3. Reading'
    BY <1>1, <1>2, <2>1, <2>2, Zenon DEF Reading
  <2> QED BY <1>1, <1>2, <2>1, <2>3, ConsumerLocal, Zenon DEF ring, tqvars
<1>3. CASE gate_is_past(g, cursor) /\ cursor' = next_ticket(cursor) /\ next' = next + 1 /\ UNCHANGED c
  <2>1. next < claimed /\ fate[next] = "dead"
    BY <1>3, CursorGate, Zenon
  <2> QED BY <1>1, <1>3, <2>1, SkipKeeps, Zenon
<1>4. CASE c' = [c EXCEPT !.pc = "fence"] /\ UNCHANGED <<cursor, next>>
  <2>1. c' \in ConsumerRec /\ c'.pc = "fence"
    BY <1>1, <1>4, ConsumerMoves, Zenon
  <2>2. Reading'
    BY <2>1, Zenon DEF Reading
  <2> QED BY <1>1, <1>4, <2>1, <2>2, ConsumerLocal, Zenon DEF ring, tqvars
<1> QED BY <1>2, <1>3, <1>4, Zenon DEF poll_drain

\* The consumer reads the payload.
LEMMA ReadPayloadKeeps ==
    ASSUME NEW sd \in Seeds, NEW b \in [Slots -> Nat], Inv(sd, b), read_payload
    PROVE  Inv(sd, b)' /\ [TQNext]_tqvars
<1> DEFINE B == Payloads \cup {NoPayload}
           s == Slot(cursor)
<1>1. Reading /\ Types /\ UNCHANGED <<ring, w, h, tqvars>>
  BY Zenon DEF Inv, read_payload
<1>2. c \in [pc : {"poll", "read1", "read2", "release", "fence", "fcas"}, p : Seq(B)]
  BY <1>1, Zenon DEF Types, ConsumerRec
<1>3. next < claimed /\ fate[next] = "published"
  BY <1>1, Zenon DEF read_payload, Reading
<1>4. cell[s][1] = item[next] /\ cell[s][2] = item[next] /\ item[next] \in Payloads
  BY <1>3, CursorPublished, Zenon DEF PublishedAt
<1> HIDE DEF s
<1>5. CASE c.pc = "read1" /\ c' = [c EXCEPT !.pc = "read2", !.p = <<cell[s][1]>>]
  <2>1. c' = [pc |-> "read2", p |-> <<item[next]>>]
    BY <1>2, <1>4, <1>5, ZenonT(30)
  <2>2. <<item[next]>> \in Seq(B)
    BY <1>4
  <2>3. c' \in ConsumerRec
    BY <2>1, <2>2, Zenon DEF ConsumerRec
  <2>4. Reading'
    BY <1>1, <1>3, <2>1, Zenon DEF Reading, tqvars
  <2> QED BY <1>1, <2>3, <2>4, ConsumerLocal, Zenon
<1>6. CASE c.pc = "read2" /\ c' = [c EXCEPT !.pc = "release", !.p = Append(@, cell[s][2])]
  <2>1. c.p = <<item[next]>>
    BY <1>1, <1>6, Zenon DEF Reading
  <2>2. PICK e \in B : e = item[next]
    BY <1>4, Zenon
  <2>3. /\ Append(<<e>>, e) \in Seq(B)
        /\ Append(<<e>>, e)[1] = e /\ Append(<<e>>, e)[2] = e
    <3>1. <<e>> \in Seq(B) /\ Len(<<e>>) = 1 /\ <<e>>[1] = e
      OBVIOUS
    <3> QED BY <3>1
  <2>4. c' = [pc |-> "release", p |-> Append(<<e>>, e)]
    BY <1>2, <1>4, <1>6, <2>1, <2>2, Zenon
  <2>5. c' \in ConsumerRec
    BY <2>3, <2>4, Zenon DEF ConsumerRec
  <2>6. Reading'
    BY <1>1, <1>3, <2>2, <2>3, <2>4, Zenon DEF Reading, tqvars
  <2> QED BY <1>1, <2>5, <2>6, ConsumerLocal, Zenon
<1> QED BY <1>5, <1>6, Zenon DEF read_payload, s

\* The consumer reads the head before it fences.
LEMMA FenceLoadKeeps ==
    ASSUME NEW sd \in Seeds, NEW b \in [Slots -> Nat], Inv(sd, b), fence_load
    PROVE  Inv(sd, b)' /\ [TQNext]_tqvars
<1>1. Types /\ UNCHANGED <<ring, w, h, tqvars>>
  BY Zenon DEF Inv, fence_load
<1>2. PICK q \in {"poll", "fcas"} :
          c' = [c EXCEPT !.pc = q] /\ (q = "fcas" => head # cursor)
  BY Zenon DEF fence_load
<1>3. c' \in ConsumerRec /\ c'.pc = q
  BY <1>1, <1>2, ConsumerMoves, Zenon
<1>4. head # cursor => next < claimed
  BY Numbers DEF Inv, Shape
<1>5. Reading'
  BY <1>1, <1>2, <1>3, <1>4, Zenon DEF Reading, tqvars
<1> QED BY <1>1, <1>3, <1>5, ConsumerLocal, Zenon

\* The consumer gives the slot to the ticket N ahead.
LEMMA ReleaseKeeps ==
    ASSUME NEW sd \in Seeds, NEW b \in [Slots -> Nat], Inv(sd, b), release
    PROVE  (\E b2 \in [Slots -> Nat] : Inv(sd, b2)') /\ [TQNext]_tqvars
<1>0. claimed \in Nat /\ next \in Nat /\ next \in Int
  BY Numbers, SMTT(30)
<1>1. /\ c.pc = "release" /\ Reading /\ Distinct /\ Host(sd)
      /\ fate \in [Tickets -> Fates]
      /\ \A y \in Writers : Owner(sd, b, y) /\ Attempt(y)
      /\ UNCHANGED <<head, cell, w, h, claimed, item>>
      /\ c' = IdleConsumer
      /\ next' = next + 1 /\ cursor' = next_ticket(cursor)
      /\ fate' = [fate EXCEPT ![next] = "drained"]
  BY Zenon DEF Inv, Types, release, Became
<1>2. next < claimed /\ fate[next] = "published" /\ c.p[1] = item[next] /\ c.p[2] = item[next]
  BY <1>1, ZenonT(30) DEF Reading
<1>3. PICK s \in Slots : s = Slot(cursor) /\ b[s] = next
  BY <1>2, CursorPublished, Zenon
<1>4. PICK f \in {"dead", "drained"} : f = "drained"
  BY Zenon
<1>5. Releases(sd, b, s, f)
  <2>1. release_gate(cursor) = T(sd, next + N)
    BY <1>0, TicketStep, Zenon DEF Inv, Shape
  <2>2. gate' = [gate EXCEPT ![s] = T(sd, b[s] + N)]
    BY <1>3, <2>1, Zenon DEF release
  <2> QED BY <1>1, <1>2, <1>3, <1>4, <2>2, Zenon DEF Releases
<1> DEFINE b2 == Ahead(b, s)
<1>6. /\ b2 \in [Slots -> Nat]
      /\ gate' \in [Slots -> 0 .. 2 * TicketSpace - 1]
      /\ fate' \in [Tickets -> Fates] /\ next' \in 0 .. claimed
      /\ Shape(sd, b2)' /\ Gates(sd, b2)' /\ FatesOk(sd, b2)'
      /\ \A y \in Writers : w'[y] = w[y] => Attempt(y)'
      /\ \A y \in Writers : w'[y] = w[y] /\ (Holds(y) => w[y].abs # b[s])
                            => Owner(sd, b2, y)'
  BY <1>5, SlotReleased, ZenonT(30)
<1> HIDE DEF b2
<1>7. Types'
  BY <1>1, <1>6, IdleRec, Zenon DEF Inv, Types
<1>8. \A y \in Writers : Owner(sd, b2, y)' /\ Attempt(y)'
  <2> TAKE y \in Writers
  <2>1. Holds(y) => w[y].abs # b[s]
    BY <1>1, <1>2, <1>3, Zenon DEF Owner
  <2>2. w'[y] = w[y]
    BY <1>1, Zenon
  <2> QED BY <1>6, <2>1, <2>2, Zenon
<1>9. Distinct' /\ Reading'
  BY <1>1, IdleRec, Zenon DEF Distinct, Holds, Reading
<1>10. Host(sd)'
  <2>1. ASSUME NEW y \in Writers, w[y].pc = "dead"
        PROVE  fate'[w[y].abs] = fate[w[y].abs]
    <3>1. Holds(y) /\ Owner(sd, b, y)
      BY <1>1, <2>1, Zenon DEF Holds
    <3>2. w[y].abs \in Tickets /\ w[y].abs # next
      BY <1>2, <3>1, ZenonT(30) DEF Owner
    <3> QED BY <1>1, <3>2, Zenon
  <2> QED BY <1>1, <2>1, Zenon DEF Host
<1>11. Drain
  <2>1. out' = Append(out, <<next, IF c.p[1] = c.p[2] THEN c.p[1] ELSE NoPayload>>)
    BY Zenon DEF release
  <2>2. c.p[1] = item[next] /\ c.p[2] = item[next]
    BY <1>2, Zenon
  <2>3. out' = Append(out, <<next, item[next]>>)
    BY <2>1, <2>2, Zenon
  <2> QED BY <1>1, <1>2, <2>3, Zenon DEF Drain
<1>12. Inv(sd, b2)'
  BY <1>6, <1>7, <1>8, <1>9, <1>10, Zenon DEF Inv
<1> QED BY <1>6, <1>11, <1>12, Zenon DEF TQNext

\* The fence CAS that wins.
LEMMA FenceKeeps ==
    ASSUME NEW sd \in Seeds, NEW b \in [Slots -> Nat], Inv(sd, b), NotLapped,
           c.pc = "fcas", c' = IdleConsumer,
           gate[Slot(cursor)] = cursor,
           gate' = [gate EXCEPT ![Slot(cursor)] = fenced_gate(cursor)],
           cursor' = next_ticket(cursor), next' = next + 1,
           Became(next, "dead"),
           UNCHANGED <<head, cell, w, h, claimed, item, out>>
    PROVE  Inv(sd, b)' /\ [TQNext]_tqvars
<1>0. /\ claimed \in Nat /\ next \in Nat /\ next \in Int /\ claimed <= MaxTickets
      /\ MaxTickets \in Nat /\ Tickets = 0 .. MaxTickets - 1 /\ TicketSpace \in Nat
      /\ \A i \in Slots : b[i] \in Nat
  BY Numbers, SMTT(30)
<1>1. /\ Reading /\ Distinct /\ Host(sd)
      /\ fate \in [Tickets -> Fates]
      /\ gate \in [Slots -> 0 .. 2 * TicketSpace - 1]
      /\ \A y \in Writers : Owner(sd, b, y) /\ Attempt(y)
  BY Zenon DEF Inv, Types
<1>2. next < claimed /\ next \in Tickets
  BY <1>0, <1>1 DEF Reading
<1>3. PICK s \in Slots, j \in Nat :
          s = Slot(cursor) /\ j = next /\ b[s] = j /\ s = S(sd, j) /\ fate[j] = "claimed"
  BY <1>0, <1>2, CursorGate, Zenon DEF FreeAt
<1>4. /\ gate'[s] = T(sd, j) + TicketSpace
      /\ \A i \in Slots : i # s => gate'[i] = gate[i]
      /\ gate' \in [Slots -> 0 .. 2 * TicketSpace - 1]
  <2>1. cursor = T(sd, j) /\ T(sd, j) \in 0 .. TicketSpace - 1
    BY <1>0, <1>3, TicketStep, Zenon DEF Inv, Shape
  <2>2. T(sd, j) + TicketSpace \in 0 .. 2 * TicketSpace - 1
    BY <1>0, <2>1
  <2>3. gate' = [gate EXCEPT ![s] = T(sd, j) + TicketSpace]
    BY <1>3, <2>1, Zenon DEF fenced_gate, FENCED_BIT
  <2> QED BY <1>1, <2>2, <2>3, Zenon
<1>5. /\ fate' \in [Tickets -> Fates] /\ fate'[j] = "dead"
      /\ \A t \in Tickets : t # j => fate'[t] = fate[t]
  BY <1>1, <1>2, <1>3, Zenon DEF Became, Fates
<1>6. next' \in 0 .. claimed /\ \A i \in Nat : (i < next => i < next') /\ (i < next' => i < next \/ i = j)
  BY <1>0, <1>2, <1>3, SMTT(30)
<1>7. Types'
  BY <1>4, <1>5, <1>6, IdleRec, Zenon DEF Inv, Types
<1>8. Shape(sd, b)'
  <2>1. next_ticket(T(sd, next)) = T(sd, next + 1)
    BY <1>0, TicketStep, Zenon
  <2>2. cursor' = T(sd, next')
    BY <2>1, Zenon DEF Inv, Shape
  <2> QED BY <2>2, Zenon DEF Inv, Shape
<1>9. Gates(sd, b)'
  <2> SUFFICES ASSUME NEW i \in Slots
               PROVE  FreeAt(sd, i, b[i])' \/ PublishedAt(sd, i, b[i])' \/ FencedAt(sd, i, b[i])'
    BY Zenon DEF Gates
  <2>1. CASE i = s
    <3>1. j < next'
      BY <1>0, <1>3
    <3> QED BY <1>3, <1>4, <1>5, <2>1, <3>1, Zenon DEF FencedAt
  <2>2. CASE i # s
    <3>1. FreeAt(sd, i, b[i]) \/ PublishedAt(sd, i, b[i]) \/ FencedAt(sd, i, b[i])
      BY Zenon DEF Inv, Gates
    <3>2. b[i] # j
      BY <1>3, <2>2, Zenon DEF Inv, Shape
    <3>3. (b[i] < claimed => b[i] \in Tickets) /\ (b[i] < next => b[i] < claimed /\ b[i] < next')
      BY <1>0, <1>2, <1>6
    <3>4. b[i] < claimed => fate'[b[i]] = fate[b[i]]
      BY <1>5, <3>2, <3>3, Zenon
    <3> QED BY <1>4, <2>2, <3>1, <3>3, <3>4, Zenon DEF FreeAt, PublishedAt, FencedAt
  <2> QED BY <2>1, <2>2, Zenon
<1>10. FatesOk(sd, b)'
  <2> SUFFICES ASSUME NEW t \in Tickets
               PROVE  /\ t >= claimed <=> fate'[t] = "unclaimed"
                      /\ t < next' => fate'[t] \in {"dead", "drained"}
                      /\ fate'[t] = "drained" => t < next'
                      /\ fate'[t] \in {"claimed", "published"} => b[S(sd, t)] = t
    BY Zenon DEF FatesOk
  <2>1. /\ t >= claimed <=> fate[t] = "unclaimed"
        /\ t < next => fate[t] \in {"dead", "drained"}
        /\ fate[t] = "drained" => t < next
        /\ fate[t] \in {"claimed", "published"} => b[S(sd, t)] = t
    BY Zenon DEF Inv, FatesOk
  <2>2. (t < next => t < next') /\ (t < next' => t < next \/ t = j)
    BY <1>0, <1>6, SMTT(30)
  <2>3. CASE t = j
    BY <1>3, <1>5, <2>1, <2>3, Zenon
  <2>4. CASE t # j
    BY <1>5, <2>1, <2>2, <2>4, Zenon
  <2> QED BY <2>3, <2>4, Zenon
<1>11. \A y \in Writers : Owner(sd, b, y)' /\ Attempt(y)'
  <2> SUFFICES ASSUME NEW y \in Writers PROVE Owner(sd, b, y)' /\ Attempt(y)'
    BY Zenon
  <2>1. Owner(sd, b, y) /\ Attempt(y)
    BY <1>1, Zenon
  <2>2. Holds(y) => fate'[w[y].abs] = fate[w[y].abs] \/ fate'[w[y].abs] = "dead"
    BY <1>5, <2>1, ZenonT(30) DEF Owner
  <2>3. Owner(sd, b, y)'
    BY <2>1, <2>2, Zenon DEF Owner, Holds
  <2>4. gate[Slot(head)] = head => gate'[Slot(head)] = head
    <3>1. Slot(head) \in Slots /\ (gate[Slot(head)] = head => b[Slot(head)] = claimed)
      BY HeadGate, Zenon
    <3> QED BY <1>0, <1>2, <1>3, <1>4, <3>1
  <2>5. Attempt(y)'
    BY <2>1, <2>4, ZenonT(30) DEF Attempt
  <2> QED BY <2>3, <2>5, Zenon
<1>12. Distinct' /\ Reading'
  BY <1>1, IdleRec, Zenon DEF Distinct, Holds, Reading
<1>13. Host(sd)'
  <2>1. ASSUME NEW y \in Writers, w[y].pc = "dead"
        PROVE  fate'[w[y].abs] = fate[w[y].abs] \/ fate'[w[y].abs] = "dead"
    <3>1. Holds(y) /\ Owner(sd, b, y)
      BY <1>1, <2>1, Zenon DEF Holds
    <3> QED BY <1>5, <3>1, ZenonT(30) DEF Owner
  <2> QED BY <1>1, <2>1, Zenon DEF Host
<1>14. Fence
  BY <1>2, <1>3, Zenon DEF Fence, Became
<1> QED BY <1>7, <1>8, <1>9, <1>10, <1>11, <1>12, <1>13, <1>14, Zenon DEF Inv, TQNext

\* The fence CAS that fails.
LEMMA FenceLostKeeps ==
    ASSUME NEW sd \in Seeds, NEW b \in [Slots -> Nat], Inv(sd, b), c' = IdleConsumer,
           UNCHANGED <<ring, w, h, tqvars>>
    PROVE  Inv(sd, b)' /\ [TQNext]_tqvars
<1>1. c' \in ConsumerRec /\ Reading'
  BY IdleRec, Zenon DEF Reading
<1> QED BY <1>1, ConsumerLocal, Zenon

(***************************************************************************)
(* The steps together                                                      *)
(***************************************************************************)

\* There is a slot for the ticket being claimed: the live tickets have slots
\* of their own, and the head's slot is not among them.
LEMMA RoomToClaim ==
    ASSUME NEW sd \in Seeds, NEW b \in [Slots -> Nat], Inv(sd, b),
           b[Slot(head)] = claimed
    PROVE  Cardinality(Live) < N
<1>0. /\ claimed \in Nat /\ N \in Nat /\ N >= 2 /\ N - 1 \in Nat /\ MaxTickets \in Nat
      /\ Tickets = 0 .. MaxTickets - 1 /\ Slot(head) \in Slots
  BY Numbers, HeadGate
<1>1. IsFiniteSet(Slots) /\ Cardinality(Slots) = N
  <2>1. 0 \in Int /\ N - 1 \in Int /\ 0 <= N - 1
    BY <1>0
  <2>2. IsFiniteSet(0 .. N - 1) /\ Cardinality(0 .. N - 1) = N - 1 - 0 + 1
    BY <2>1, FS_Interval
  <2> QED BY <1>0, <2>2 DEF Slots
<1> DEFINE Rest == Slots \ {Slot(head)}
           slotOf == [t \in Live |-> S(sd, t)]
<1>2. IsFiniteSet(Rest) /\ Cardinality(Rest) = N - 1
  BY <1>0, <1>1, FS_RemoveElement, Zenon
<1>3. \A t \in Live : S(sd, t) \in Rest /\ b[S(sd, t)] = t
  <2> TAKE t \in Live
  <2>1. t \in Tickets /\ t \in Int /\ fate[t] \in {"claimed", "published"}
    BY <1>0 DEF Live
  <2>2. b[S(sd, t)] = t /\ ~(t >= claimed)
    BY <2>1, Zenon DEF Inv, FatesOk
  <2>3. S(sd, t) \in Slots
    BY <2>1, TicketStep, Zenon
  <2>4. t # claimed
    BY <1>0, <2>1, <2>2
  <2> QED BY <2>2, <2>3, <2>4, Zenon
<1>4. slotOf \in Injection(Live, Rest)
  <2>1. slotOf \in [Live -> Rest]
    BY <1>3, Zenon
  <2>2. \A t, u \in Live : slotOf[t] = slotOf[u] => t = u
    BY <1>3, Zenon
  <2> HIDE DEF slotOf, Rest
  <2> QED BY <2>1, <2>2, Zenon DEF Injection, IsInjective
<1> HIDE DEF slotOf, Rest
<1>5. IsFiniteSet(Live) /\ Cardinality(Live) <= Cardinality(Rest)
  BY <1>2, <1>4, FS_Injection, Zenon
<1>6. Cardinality(Live) \in Nat
  BY <1>5, FS_CardinalityType, Zenon
<1> QED BY <1>0, <1>2, <1>5, <1>6

(***************************************************************************)
(* Every step                                                              *)
(***************************************************************************)

\* The steps of a writer keep the invariant.
LEMMA WriterKeeps ==
    ASSUME NEW sd \in Seeds, NEW b \in [Slots -> Nat], Inv(sd, b), Prompt, NEW x \in Writers,
           try_claim(x) \/ Publishes(x) \/ Dies(x) \/ force_release_slot(x)
    PROVE  (\E b2 \in [Slots -> Nat] : Inv(sd, b2)') /\ [TQNext]_tqvars
<1>1. CASE load_head(x)
  BY <1>1, LoadHeadKeeps, Zenon
<1>2. CASE check_gate(x)
  BY <1>2, CheckGateKeeps, Zenon
<1>3. CASE claim_cas(x)
  <2>1. b[Slot(head)] = claimed => Cardinality(Live) < N
    BY RoomToClaim, Zenon
  <2> QED BY <1>3, <2>1, ClaimKeeps, ClaimLostKeeps, Zenon
<1>4. CASE write_payload(x)
  BY <1>4, WritePayloadKeeps, Zenon
<1>5. CASE publish(x)
  <2>1. CASE /\ gate[Slot(w[x].t)] = w[x].t
             /\ gate' = [gate EXCEPT ![Slot(w[x].t)] = published_gate(w[x].t)]
             /\ w' = [w EXCEPT ![x] = IdleWriter]
             /\ Became(w[x].abs, "published")
             /\ item' = [item EXCEPT ![w[x].abs] = w[x].p]
    BY <1>5, <2>1, PublishKeeps, Zenon DEF publish, At
  <2>2. CASE Goes(x, "reread") /\ UNCHANGED <<gate, fate, item>>
    <3>1. UNCHANGED <<ring, c, h, tqvars>> /\ w[x].pc = "publish"
      BY <1>5, <2>2, Zenon DEF publish, ring, tqvars, At
    <3> QED BY <2>2, <3>1, PublishLostKeeps, Zenon
  <2> QED BY <1>5, <2>1, <2>2, Zenon DEF publish
<1>6. CASE reread_gate(x)
  BY <1>6, RereadKeeps, Zenon
<1>7. CASE self_release(x)
  BY <1>7, SelfReleaseKeeps, Zenon
<1>8. CASE Dies(x)
  BY <1>8, DiesKeeps, Zenon
<1>9. CASE force_release_load(x)
  BY <1>9, HostLoadKeeps, Zenon
<1>10. CASE force_release_store(x)
  BY <1>10, HostStoreKeeps, Zenon
<1> QED BY <1>1, <1>2, <1>3, <1>4, <1>5, <1>6, <1>7, <1>8, <1>9, <1>10, Zenon
        DEF try_claim, Publishes, force_release_slot

\* The steps of the consumer keep the invariant.
LEMMA ConsumerKeeps ==
    ASSUME NEW sd \in Seeds, NEW b \in [Slots -> Nat], Inv(sd, b), NotLapped, Consumer
    PROVE  (\E b2 \in [Slots -> Nat] : Inv(sd, b2)') /\ [TQNext]_tqvars
<1>1. CASE poll_drain
  BY <1>1, PollKeeps, Zenon
<1>2. CASE read_payload
  BY <1>2, ReadPayloadKeeps, Zenon
<1>3. CASE release
  BY <1>3, ReleaseKeeps, Zenon
<1>4. CASE fence_load
  BY <1>4, FenceLoadKeeps, Zenon
<1>5. CASE fence_cas
  <2>0. c.pc = "fcas" /\ c' = IdleConsumer /\ UNCHANGED <<head, cell, w, h, claimed, item, out>>
    BY <1>5, Zenon DEF fence_cas
  <2>1. CASE /\ gate[Slot(cursor)] = cursor
             /\ gate' = [gate EXCEPT ![Slot(cursor)] = fenced_gate(cursor)]
             /\ cursor' = next_ticket(cursor)
             /\ Became(next, "dead")
             /\ next' = next + 1
    BY <2>0, <2>1, FenceKeeps, Zenon
  <2>2. CASE UNCHANGED <<gate, cursor, fate, next>>
    <3>1. UNCHANGED <<ring, w, h, tqvars>>
      BY <2>0, <2>2, Zenon DEF ring, tqvars
    <3> QED BY <2>0, <3>1, FenceLostKeeps, Zenon
  <2> QED BY <1>5, <2>1, <2>2, Zenon DEF fence_cas
<1> QED BY <1>1, <1>2, <1>3, <1>4, <1>5, Zenon DEF Consumer, fence_cursor

\* Every step keeps the invariant.
LEMMA NextKeeps ==
    ASSUME IInv, NotLapped, Prompt, [Next]_vars
    PROVE  IInv' /\ [TQNext]_tqvars
<1>1. PICK sd \in Seeds : \E b \in [Slots -> Nat] : Inv(sd, b)
  BY Zenon DEF IInv
<1>2. PICK b \in [Slots -> Nat] : Inv(sd, b)
  BY <1>1, Zenon
<1>3. (\E b2 \in [Slots -> Nat] : Inv(sd, b2)') /\ [TQNext]_tqvars
  <2>1. CASE \E x \in Writers :
                 try_claim(x) \/ Publishes(x) \/ Dies(x) \/ force_release_slot(x)
    BY <1>2, <2>1, WriterKeeps, Zenon
  <2>2. CASE Consumer
    BY <1>2, <2>2, ConsumerKeeps, Zenon
  <2>3. CASE UNCHANGED vars
    <3>1. UNCHANGED <<ring, w, h, tqvars, c>>
      BY <2>3, Zenon DEF vars, ring
    <3>2. c' \in ConsumerRec /\ Reading'
      BY <1>2, <3>1, Zenon DEF Inv, Types, ConsumerRec, Reading, tqvars
    <3> QED BY <1>2, <3>1, <3>2, ConsumerLocal, Zenon
  <2> QED BY <2>1, <2>2, <2>3, Zenon DEF Next
<1> QED BY <1>3, Zenon DEF IInv

(***************************************************************************)
(* How far the head can run ahead                                          *)
(***************************************************************************)

\* Dead tickets the consumer has not come to, and writers whose slot the host
\* has still to release: one death each.
Gone == {t \in Tickets : t >= next /\ fate[t] = "dead"}
DeadWriters == {x \in Writers : w[x].pc = "dead"}

DeathsCounted ==
    /\ deaths \in 0 .. MaxDeaths
    /\ IsFiniteSet(DeadWriters)
    /\ Cardinality(Gone) + Cardinality(DeadWriters) <= deaths

\* A step that makes no ticket ahead of the consumer dead, and kills nobody.
LEMMA NobodyDies ==
    ASSUME DeathsCounted, Gone' \subseteq Gone, DeadWriters' \subseteq DeadWriters, deaths' = deaths,
           IsFiniteSet(Gone)
    PROVE  DeathsCounted'
<1>1. /\ IsFiniteSet(Gone') /\ Cardinality(Gone') <= Cardinality(Gone)
      /\ IsFiniteSet(DeadWriters') /\ Cardinality(DeadWriters') <= Cardinality(DeadWriters)
  BY FS_Subset, Zenon DEF DeathsCounted
<1>2. /\ Cardinality(Gone') \in Nat /\ Cardinality(Gone) \in Nat
      /\ Cardinality(DeadWriters') \in Nat /\ Cardinality(DeadWriters) \in Nat
  BY <1>1, FS_CardinalityType, Zenon DEF DeathsCounted
<1> QED BY <1>1, <1>2, RingAssumption DEF DeathsCounted

\* A writer that does not die is not among the dead.
LEMMA Survives ==
    ASSUME w \in [Writers -> WriterRec], NEW x \in Writers,
           \A y \in Writers : y # x => w'[y] = w[y], w'[x].pc # "dead"
    PROVE  DeadWriters' \subseteq DeadWriters
BY Zenon DEF DeadWriters

\* Every step keeps the count of the dead.
LEMMA DeathsCountedKept ==
    ASSUME IInv, DeathsCounted, [Next]_vars
    PROVE  DeathsCounted'
<1>1. PICK sd \in Seeds : \E b \in [Slots -> Nat] : Inv(sd, b)
  BY Zenon DEF IInv
<1>2. PICK b \in [Slots -> Nat] : Inv(sd, b)
  BY <1>1, Zenon
<1>3. /\ claimed \in Nat /\ next \in Nat /\ next <= claimed /\ MaxTickets \in Nat
      /\ Tickets = 0 .. MaxTickets - 1
      /\ fate \in [Tickets -> Fates] /\ w \in [Writers -> WriterRec]
  BY <1>2, Numbers, Zenon DEF Inv, Types
<1>4. IsFiniteSet(Tickets) /\ IsFiniteSet(Gone)
  <2>1. IsFiniteSet(Tickets)
    BY <1>3, FS_Interval
  <2> QED BY <2>1, FS_Subset, Zenon DEF Gone
<1>5. ASSUME UNCHANGED <<fate, next, deaths>>, DeadWriters' \subseteq DeadWriters
      PROVE  DeathsCounted'
  <2>1. Gone' \subseteq Gone
    BY <1>5, Zenon DEF Gone
  <2> QED BY <1>4, <1>5, <2>1, NobodyDies, Zenon
<1>6. ASSUME NEW f \in {"claimed", "published", "drained"}, NEW t,
             fate' = [fate EXCEPT ![t] = f], next' \in {next, next + 1}, deaths' = deaths,
             DeadWriters' \subseteq DeadWriters
      PROVE  DeathsCounted'
  <2>1. \A u \in Tickets : fate'[u] = "dead" => fate[u] = "dead"
    BY <1>3, <1>6, Zenon
  <2>2. \A u \in Tickets : u >= next' => u >= next
    BY <1>3, <1>6
  <2>3. Gone' \subseteq Gone
    BY <2>1, <2>2, Zenon DEF Gone
  <2> QED BY <1>4, <1>6, <2>3, NobodyDies, Zenon
<1>7. ASSUME UNCHANGED w PROVE DeadWriters' \subseteq DeadWriters
  BY <1>7, Zenon DEF DeadWriters
<1>8. ASSUME NEW x \in Writers, w' = [w EXCEPT ![x] = IdleWriter]
      PROVE  DeadWriters' \subseteq DeadWriters
  BY <1>3, <1>8, WriterIdles, Survives, Zenon
<1>9. ASSUME NEW x \in Writers, NEW q \in Holding \cup {"load", "check", "cas"}, Goes(x, q)
      PROVE  DeadWriters' \subseteq DeadWriters
  <2>1. q # "dead"
    BY <1>9, Zenon DEF Holding
  <2> QED BY <1>3, <1>9, <2>1, WriterMoves, Survives DEF Goes
<1>10. ASSUME NEW x \in Writers, load_head(x) PROVE DeathsCounted'
  <2>1. UNCHANGED <<fate, next, deaths>>
    BY <1>10, Zenon DEF load_head, tqvars
  <2>2. CASE \E p \in PayloadsOf[x] :
             w' = [w EXCEPT ![x] = [pc |-> "check", t |-> head, p |-> p, abs |-> NoTicket]]
    <3>1. (\A y \in Writers : y # x => w'[y] = w[y]) /\ w'[x].pc # "dead"
      BY <1>3, <2>2
    <3> QED BY <1>3, <1>5, <2>1, <3>1, Survives, Zenon
  <2>3. CASE w' = [w EXCEPT ![x].pc = "check", ![x].t = head]
    <3>1. (\A y \in Writers : y # x => w'[y] = w[y]) /\ w'[x].pc # "dead"
      BY <1>3, <2>3, Zenon DEF WriterRec
    <3> QED BY <1>3, <1>5, <2>1, <3>1, Survives, Zenon
  <2> QED BY <1>10, <2>2, <2>3, Zenon DEF load_head
<1>11. ASSUME NEW x \in Writers, check_gate(x) \/ reread_gate(x) \/ self_release(x) \/ write_payload(x)
       PROVE DeathsCounted'
  <2>1. UNCHANGED <<fate, next, deaths>>
    BY <1>11, Zenon DEF check_gate, reread_gate, self_release, write_payload, tqvars
  <2>2. \/ w' = [w EXCEPT ![x] = IdleWriter]
        \/ \E q \in Holding \cup {"load", "check", "cas"} : Goes(x, q)
    BY <1>11, Zenon DEF check_gate, reread_gate, self_release, write_payload, Goes, Holding
  <2> QED BY <1>5, <1>8, <1>9, <2>1, <2>2, Zenon
<1>12. ASSUME NEW x \in Writers, claim_cas(x) PROVE DeathsCounted'
  <2>1. UNCHANGED <<next, deaths>>
    BY <1>12, Zenon DEF claim_cas
  <2>2. CASE /\ w' = [w EXCEPT ![x].pc = "cell1", ![x].abs = claimed]
             /\ Became(claimed, "claimed")
    <3>1. (\A y \in Writers : y # x => w'[y] = w[y]) /\ w'[x].pc # "dead"
      BY <1>3, <2>2, Zenon DEF WriterRec
    <3>2. DeadWriters' \subseteq DeadWriters
      BY <1>3, <3>1, Survives, Zenon
    <3> QED BY <1>6, <2>1, <2>2, <3>2, Zenon DEF Became
  <2>3. CASE w' = [w EXCEPT ![x] = IdleWriter] /\ UNCHANGED fate
    BY <1>5, <1>8, <2>1, <2>3, Zenon
  <2> QED BY <1>12, <2>2, <2>3, Zenon DEF claim_cas
<1>13. ASSUME NEW x \in Writers, publish(x) PROVE DeathsCounted'
  <2>1. UNCHANGED <<next, deaths>>
    BY <1>13, Zenon DEF publish
  <2>2. CASE w' = [w EXCEPT ![x] = IdleWriter] /\ Became(w[x].abs, "published")
    BY <1>6, <1>8, <2>1, <2>2, Zenon DEF Became
  <2>3. CASE Goes(x, "reread") /\ UNCHANGED fate
    <3>1. "reread" \in Holding
      BY Zenon DEF Holding
    <3> QED BY <1>5, <1>9, <2>1, <2>3, <3>1, Zenon
  <2> QED BY <1>13, <2>2, <2>3, Zenon DEF publish
<1>14. ASSUME NEW x \in Writers, Dies(x) PROVE DeathsCounted'
  <2>1. /\ deaths < MaxDeaths /\ deaths' = deaths + 1 /\ Goes(x, "dead")
        /\ UNCHANGED <<fate, next>>
    BY <1>14, Zenon DEF Dies, tqvars
  <2>2. Gone' = Gone
    BY <2>1, Zenon DEF Gone
  <2>3. DeadWriters' = DeadWriters \cup {x}
    BY <1>3, <2>1, WriterMoves, Zenon DEF Goes, DeadWriters
  <2>4. /\ IsFiniteSet(DeadWriters') /\ Cardinality(DeadWriters') <= Cardinality(DeadWriters) + 1
        /\ Cardinality(DeadWriters) \in Nat /\ Cardinality(DeadWriters') \in Nat
        /\ Cardinality(Gone) \in Nat
    <3>1. IsFiniteSet(DeadWriters) /\ Cardinality(DeadWriters) \in Nat /\ Cardinality(Gone) \in Nat
      BY <1>4, FS_CardinalityType, Zenon DEF DeathsCounted
    <3>2. /\ IsFiniteSet(DeadWriters \cup {x})
          /\ Cardinality(DeadWriters \cup {x}) =
                IF x \in DeadWriters THEN Cardinality(DeadWriters) ELSE Cardinality(DeadWriters) + 1
      BY <3>1, FS_AddElement, Zenon
    <3>3. Cardinality(DeadWriters') \in Nat
      BY <2>3, <3>2, FS_CardinalityType, Zenon
    <3> QED BY <2>3, <3>1, <3>2, <3>3
  <2> QED BY <2>1, <2>2, <2>4, RingAssumption DEF DeathsCounted
<1>15. ASSUME NEW x \in Writers, force_release_load(x) PROVE DeathsCounted'
  <2>1. UNCHANGED <<fate, next, deaths, w>>
    BY <1>15, Zenon DEF force_release_load, tqvars
  <2> QED BY <1>5, <1>7, <2>1, Zenon
<1>16. ASSUME NEW x \in Writers, force_release_store(x) PROVE DeathsCounted'
  <2>1. /\ h.who = x /\ w' = [w EXCEPT ![x] = IdleWriter] /\ UNCHANGED <<next, deaths>>
        /\ fate' = fate \/ fate' = [fate EXCEPT ![w[x].abs] = "dead"]
    BY <1>16, Zenon DEF force_release_store, Became
  <2>2. w[x].pc = "dead"
    BY <1>2, <2>1, RingAssumption DEF Inv, Host, IdleHost
  <2>3. x \in DeadWriters /\ DeadWriters' \subseteq DeadWriters \ {x}
    BY <1>3, <2>1, <2>2, WriterIdles, Zenon DEF DeadWriters
  <2>4. Gone' \subseteq Gone \cup {w[x].abs}
    BY <1>3, <2>1, Zenon DEF Gone
  <2>5. /\ IsFiniteSet(DeadWriters) /\ Cardinality(DeadWriters) \in Nat
        /\ IsFiniteSet(Gone) /\ Cardinality(Gone) \in Nat
    BY <1>4, FS_CardinalityType, Zenon DEF DeathsCounted
  <2>6. IsFiniteSet(DeadWriters \ {x}) /\ Cardinality(DeadWriters \ {x}) = Cardinality(DeadWriters) - 1
    BY <2>3, <2>5, FS_RemoveElement, Zenon
  <2>7. /\ IsFiniteSet(DeadWriters') /\ Cardinality(DeadWriters') <= Cardinality(DeadWriters \ {x})
        /\ Cardinality(DeadWriters') \in Nat
    BY <2>3, <2>6, FS_Subset, FS_CardinalityType, Zenon
  <2>8. PICK e : e = w[x].abs
    BY Zenon
  <2>9. IsFiniteSet(Gone \cup {e}) /\ Cardinality(Gone \cup {e}) =
                IF e \in Gone THEN Cardinality(Gone) ELSE Cardinality(Gone) + 1
    BY <2>5, FS_AddElement, Zenon
  <2>10. /\ Cardinality(Gone') <= Cardinality(Gone \cup {e}) /\ Cardinality(Gone') \in Nat
    BY <2>4, <2>8, <2>9, FS_Subset, FS_CardinalityType, Zenon
  <2>11. PICK g \in Nat, d \in Nat : g = Cardinality(Gone) /\ d = Cardinality(DeadWriters)
    BY <2>5, Zenon
  <2>12. g + d <= deaths
    BY <1>4, <2>11, Zenon DEF DeathsCounted
  <2>13. PICK g2 \in Nat, d2 \in Nat : g2 = Cardinality(Gone') /\ d2 = Cardinality(DeadWriters')
    BY <2>7, <2>10, Zenon
  <2>14. g2 <= g + 1 /\ d2 <= d - 1
    <3>1. g2 <= g \/ g2 <= g + 1
      BY <2>9, <2>10, <2>11, <2>13, Zenon
    <3>2. d2 <= d - 1
      BY <2>6, <2>7, <2>11, <2>13, Zenon
    <3> QED BY <3>1, <3>2
  <2>15. deaths \in 0 .. MaxDeaths /\ deaths' = deaths
    BY <1>4, <2>1, Zenon DEF DeathsCounted
  <2>16. deaths \in Int
    BY <2>15, RingAssumption
  <2>17. g2 + d2 <= deaths
    BY <2>12, <2>14, <2>16
  <2> QED BY <2>7, <2>13, <2>15, <2>17, Zenon DEF DeathsCounted
<1>17. ASSUME UNCHANGED <<w, fate, deaths>>, next' \in {next, next + 1} PROVE DeathsCounted'
  <2>1. Gone' \subseteq Gone
    BY <1>3, <1>17 DEF Gone
  <2> QED BY <1>4, <1>7, <1>17, <2>1, NobodyDies, Zenon
<1>18. ASSUME poll_drain \/ read_payload \/ fence_load PROVE DeathsCounted'
  <2>1. UNCHANGED <<w, fate, deaths>> /\ next' \in {next, next + 1}
    BY <1>18, Zenon DEF poll_drain, read_payload, fence_load, tqvars
  <2> QED BY <1>17, <2>1, Zenon
<1>19. ASSUME release PROVE DeathsCounted'
  <2>1. UNCHANGED <<w, deaths>> /\ next' = next + 1 /\ fate' = [fate EXCEPT ![next] = "drained"]
    BY <1>19, Zenon DEF release, Became
  <2> QED BY <1>6, <1>7, <2>1, Zenon
<1>20. ASSUME fence_cas PROVE DeathsCounted'
  <2>1. UNCHANGED <<w, deaths>>
    BY <1>20, Zenon DEF fence_cas
  <2>2. CASE next' = next + 1 /\ Became(next, "dead")
    <3>1. Gone' \subseteq Gone
      BY <1>3, <2>2 DEF Gone, Became
    <3> QED BY <1>4, <1>7, <2>1, <3>1, NobodyDies, Zenon
  <2>3. CASE UNCHANGED <<fate, next>>
    BY <1>17, <2>1, <2>3, Zenon
  <2> QED BY <1>20, <2>2, <2>3, Zenon DEF fence_cas
<1>21. ASSUME UNCHANGED vars PROVE DeathsCounted'
  BY <1>5, <1>7, <1>21, Zenon DEF vars, tqvars
<1> QED BY <1>10, <1>11, <1>12, <1>13, <1>14, <1>15, <1>16, <1>18, <1>19, <1>20, <1>21, Zenon
        DEF Next, try_claim, Publishes, force_release_slot, Consumer, fence_cursor

\* With that many deaths to spare in the ticket space, the head never laps the
\* consumer: of the tickets between them the live ones have a slot each.
LEMMA NeverLapped ==
    ASSUME IInv, DeathsCounted, 2 * N + MaxDeaths <= TicketSpace
    PROVE  NotLapped
<1>1. PICK sd \in Seeds : \E b \in [Slots -> Nat] : Inv(sd, b)
  BY Zenon DEF IInv
<1>2. PICK b \in [Slots -> Nat] : Inv(sd, b)
  BY <1>1, Zenon
<1>3. /\ claimed \in Nat /\ next \in Nat /\ next <= claimed /\ MaxTickets \in Nat
      /\ claimed <= MaxTickets /\ N \in Nat /\ TicketSpace \in Nat
      /\ Tickets = 0 .. MaxTickets - 1 /\ MaxDeaths \in Nat
      /\ fate \in [Tickets -> Fates]
  BY <1>2, Numbers, RingAssumption, Zenon DEF Inv, Types
<1> DEFINE Ahd == next .. claimed - 1
           Busy == {t \in Ahd : fate[t] # "dead"}
<1>4. Ahd \subseteq Tickets /\ IsFiniteSet(Ahd) /\ Cardinality(Ahd) = claimed - next
  <2>1. Ahd \subseteq Tickets
    BY <1>3
  <2>2. PICK lo \in Int, hi \in Int : lo = next /\ hi = claimed - 1
    BY <1>3
  <2>3. IsFiniteSet(lo .. hi) /\ Cardinality(lo .. hi) = IF lo > hi THEN 0 ELSE hi - lo + 1
    BY FS_Interval, Zenon
  <2> QED BY <1>3, <2>1, <2>2, <2>3
<1>5. \A t \in Busy : t \in Tickets /\ t \in Int /\ fate[t] \in {"claimed", "published"} /\ b[S(sd, t)] = t
  <2>1. \A t \in Ahd : t \in Tickets /\ ~(t >= claimed) /\ ~(t < next) /\ t \in Int
    BY <1>3
  <2> QED BY <1>2, <1>3, <2>1, Zenon DEF Inv, FatesOk, Fates
<1>6. IsFiniteSet(Busy) /\ Cardinality(Busy) <= N /\ Cardinality(Busy) \in Nat
  <2> DEFINE f == [t \in Busy |-> S(sd, t)]
  <2>1. f \in [Busy -> Slots]
    BY <1>5, TicketStep, Zenon
  <2>2. \A t, u \in Busy : f[t] = f[u] => t = u
    BY <1>5
  <2>3. f \in Injection(Busy, Slots)
    BY <2>1, <2>2, Zenon DEF Injection, IsInjective
  <2>4. IsFiniteSet(Slots) /\ Cardinality(Slots) = N
    BY <1>3, FS_Interval, RingAssumption DEF Slots
  <2> HIDE DEF f
  <2> QED BY <2>3, <2>4, FS_Injection, FS_CardinalityType, Zenon
<1>7. IsFiniteSet(Gone) /\ Cardinality(Gone) \in Nat
  <2>1. IsFiniteSet(Tickets)
    BY <1>3, FS_Interval
  <2> QED BY <2>1, FS_Subset, FS_CardinalityType, Zenon DEF Gone
<1>8. Ahd \subseteq Busy \cup Gone
  <2>1. \A t \in Ahd : t >= next
    BY <1>3
  <2> QED BY <1>4, <2>1, Zenon DEF Gone
<1> HIDE DEF Ahd, Busy
<1>9. Cardinality(Ahd) <= Cardinality(Busy \cup Gone) /\ Cardinality(Busy \cup Gone) \in Nat
      /\ Cardinality(Busy \cup Gone) <= Cardinality(Busy) + Cardinality(Gone)
  <2>1. IsFiniteSet(Busy \cup Gone) /\ IsFiniteSet(Busy \cap Gone)
    BY <1>6, <1>7, FS_Union, FS_Intersection, Zenon
  <2>2. Cardinality(Busy \cup Gone) = Cardinality(Busy) + Cardinality(Gone) - Cardinality(Busy \cap Gone)
    BY <1>6, <1>7, FS_Union, Zenon
  <2>3. Cardinality(Busy \cap Gone) \in Nat /\ Cardinality(Busy \cup Gone) \in Nat
    BY <2>1, FS_CardinalityType, Zenon
  <2>4. Cardinality(Ahd) <= Cardinality(Busy \cup Gone)
    BY <1>8, <2>1, FS_Subset, Zenon
  <2> QED BY <1>6, <1>7, <2>2, <2>3, <2>4
<1>10. Cardinality(DeadWriters) \in Nat /\ Cardinality(Gone) + Cardinality(DeadWriters) <= deaths
       /\ deaths \in Nat /\ deaths <= MaxDeaths
  BY <1>3, FS_CardinalityType DEF DeathsCounted
<1> QED BY <1>3, <1>4, <1>6, <1>7, <1>9, <1>10 DEF NotLapped

(***************************************************************************)
(* The theorems                                                            *)
(***************************************************************************)

\* What the ring asks of its surroundings: no claim attempt sleeps through a
\* whole ticket space of claims, and the space has room for the deaths.
Surroundings == Prompt /\ 2 * N + MaxDeaths <= TicketSpace

\* The invariant keeps slots exclusive.
LEMMA IInvSlotExclusive == IInv => SlotExclusive
<1> SUFFICES ASSUME IInv PROVE SlotExclusive
  BY Zenon
<1>1. PICK sd \in Seeds : \E b \in [Slots -> Nat] : Inv(sd, b)
  BY Zenon DEF IInv
<1>2. PICK b \in [Slots -> Nat] : Inv(sd, b)
  BY <1>1, Zenon
<1>3. ASSUME NEW x \in Writers, Holds(x)
      PROVE  /\ w[x].abs \in Nat /\ Slot(w[x].t) = S(sd, w[x].abs)
             /\ b[S(sd, w[x].abs)] = w[x].abs /\ fate[w[x].abs] \in {"claimed", "dead"}
  BY <1>2, <1>3, OwnersGate, Zenon DEF Inv, Owner
<1>4. ASSUME NEW x \in Writers, NEW y \in Writers, x # y, Holds(x), Holds(y)
      PROVE  Slot(w[x].t) # Slot(w[y].t)
  BY <1>2, <1>3, <1>4, OwnersApart
<1>5. ASSUME NEW x \in Writers, c.pc \in {"read1", "read2", "release"}, Holds(x)
      PROVE  Slot(w[x].t) # Slot(cursor)
  <2>1. next < claimed /\ fate[next] = "published"
    BY <1>2, <1>5, Zenon DEF Inv, Reading
  <2>2. b[Slot(cursor)] = next
    BY <1>2, <2>1, CursorPublished, Zenon
  <2> QED BY <1>3, <1>5, <2>1, <2>2, Zenon
<1>6. \A x \in Writers : w[x].pc \in {"cell1", "cell2"} => Holds(x)
  BY Zenon DEF Holds, Holding
<1> QED BY <1>4, <1>5, <1>6, Zenon DEF SlotExclusive, Holds

\* The invariant keeps fences off the head.
LEMMA IInvHeadNotFenced == IInv => HeadNotFenced
<1> SUFFICES ASSUME IInv PROVE HeadNotFenced
  BY Zenon
<1>1. PICK sd \in Seeds : \E b \in [Slots -> Nat] : Inv(sd, b)
  BY Zenon DEF IInv
<1>2. PICK b \in [Slots -> Nat] : Inv(sd, b)
  BY <1>1, Zenon
<1>3. head \in 0 .. TicketSpace - 1 /\ cursor \in 0 .. TicketSpace - 1
  <2>1. claimed \in Int /\ next \in Int
    BY <1>2, Numbers
  <2> QED BY <1>2, <2>1, TicketStep, Zenon DEF Inv, Shape
<1>4. TypeOK
  BY <1>2, <1>3, Zenon DEF TypeOK, Inv, Types, Slots
<1> QED BY <1>2, <1>4, HeadGate, Zenon DEF HeadNotFenced

\* No ticket is dead at the start.
LEMMA InitDeathsCounted == Init => DeathsCounted
<1> SUFFICES ASSUME Init PROVE DeathsCounted
  BY Zenon
<1>1. DeadWriters = {}
  BY Zenon DEF Init, DeadWriters, IdleWriter
<1>2. Gone = {}
  BY Zenon DEF Init, TQInit, Gone
<1> QED BY <1>1, <1>2, FS_EmptySet, RingAssumption DEF DeathsCounted, Init

\* Both together, as one inductive invariant.
LEMMA Step ==
    ASSUME Surroundings, IInv, DeathsCounted, [Next]_vars
    PROVE  IInv' /\ DeathsCounted' /\ [TQNext]_tqvars
BY NeverLapped, NextKeeps, DeathsCountedKept, Zenon DEF Surroundings

\* Slot exclusivity (multiwriter-spec I2), for every ring size, ticket space,
\* seed and number of writers: two threads of writer.rs are never between
\* try_claim and the end of publish on one slot, and poll_drain never reads
\* cells somebody is storing into.
THEOREM Exclusive == Surroundings => (Spec => []SlotExclusive)
<1> SUFFICES ASSUME Surroundings PROVE Spec => []SlotExclusive
  BY Zenon
<1>1. Init => IInv /\ DeathsCounted
  BY InitIInv, InitDeathsCounted, Zenon
<1>2. IInv /\ DeathsCounted /\ [Next]_vars => IInv' /\ DeathsCounted'
  BY Step, Zenon
<1> QED BY <1>1, <1>2, IInvSlotExclusive, PTL DEF Spec

\* fence_cursor never fences a ticket nobody has claimed, so a claim is never
\* locked out of the head's slot; head and cursor stay masked to the ticket
\* space.
THEOREM NeverFencesHead == Surroundings => (Spec => []HeadNotFenced)
<1> SUFFICES ASSUME Surroundings PROVE Spec => []HeadNotFenced
  BY Zenon
<1>1. Init => IInv /\ DeathsCounted
  BY InitIInv, InitDeathsCounted, Zenon
<1>2. IInv /\ DeathsCounted /\ [Next]_vars => IInv' /\ DeathsCounted'
  BY Step, Zenon
<1> QED BY <1>1, <1>2, IInvHeadNotFenced, PTL DEF Spec

\* The ring with wrapping tickets implements the queue with endless ones
\* (multiwriter-spec I3): every step of the writers, the host and the consumer
\* is one step of TicketQueue or none.
THEOREM ImplementsQueue == Surroundings => (Spec => RefinesQueue)
<1> SUFFICES ASSUME Surroundings PROVE Spec => RefinesQueue
  BY Zenon
<1>1. Init => IInv /\ DeathsCounted /\ TQInit
  BY InitIInv, InitDeathsCounted, Zenon DEF Init
<1>2. IInv /\ DeathsCounted /\ [Next]_vars => IInv' /\ DeathsCounted' /\ [TQNext]_tqvars
  BY Step, Zenon
<1> QED BY <1>1, <1>2, PTL DEF Spec, RefinesQueue, TQSpec
=============================================================================
