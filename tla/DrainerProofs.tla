--------------------------- MODULE DrainerProofs ---------------------------
(***************************************************************************)
(* For every ring size, batch size, memtable and ticket space: the drainer *)
(* accounts for every ticket it passed, and its watermark covers only      *)
(* tickets that are dead or whose mutation is in the log.                  *)
(***************************************************************************)
EXTENDS Drainer, FiniteSetTheorems, TLAPS

(***************************************************************************)
(* Remainders: a wrapped ticket is a ticket modulo the ticket space.       *)
(***************************************************************************)

\* A remainder is determined by its range.
LEMMA ModUnique ==
    ASSUME NEW d \in Nat \ {0}, NEW q \in Int, NEW r \in 0 .. d - 1
    PROVE  (d * q + r) % d = r
<1> DEFINE x == d * q + r
<1>1. PICK p \in Int : x = d * p + (x % d)
  <2>1. x \in Int
    OBVIOUS
  <2> HIDE DEF x
  <2>2. x \div d \in Int /\ x = d * (x \div d) + (x % d)
    BY <2>1
  <2> QED BY <2>2
<1>2. x % d \in 0 .. d - 1
  <2>1. x \in Int
    OBVIOUS
  <2> HIDE DEF x
  <2> QED BY <2>1
<1>3. PICK s \in 0 .. d - 1 : s = x % d
  BY <1>2
<1>4. d * q + r = d * p + s
  BY <1>1, <1>3
<1>5. CASE p >= q + 1
  <2>1. PICK k \in Nat : p = q + 1 + k
    BY <1>5
  <2>2. d * p = d * q + d + d * k
    BY <2>1
  <2>3. d * k >= 0 /\ d * k \in Int
    BY <2>1
  <2> QED BY <1>4, <2>2, <2>3
<1>6. CASE q >= p + 1
  <2>1. PICK k \in Nat : q = p + 1 + k
    BY <1>6
  <2>2. d * q = d * p + d + d * k
    BY <2>1
  <2>3. d * k >= 0 /\ d * k \in Int
    BY <2>1
  <2> QED BY <1>4, <2>2, <2>3
<1>7. CASE p = q
  BY <1>3, <1>4, <1>7
<1> QED BY <1>5, <1>6, <1>7

\* Quotient and remainder.
LEMMA ModSplit ==
    ASSUME NEW a \in Int, NEW d \in Nat \ {0}
    PROVE  /\ a % d \in 0 .. d - 1
           /\ \E q \in Int : a = d * q + (a % d)
<1>1. a \div d \in Int /\ a = d * (a \div d) + (a % d)
  OBVIOUS
<1>2. a % d \in 0 .. d - 1
  OBVIOUS
<1>3. \E q \in Int : a = d * q + (a % d)
  BY <1>1, Zenon
<1> QED BY <1>2, <1>3

\* Adding to a remainder and wrapping is adding first and wrapping then.
LEMMA ModAdd ==
    ASSUME NEW a \in Int, NEW k \in Int, NEW d \in Nat \ {0}
    PROVE  ((a % d) + k) % d = (a + k) % d
<1>1. PICK r \in 0 .. d - 1 : r = a % d
  BY ModSplit
<1>2. PICK q \in Int : a = d * q + r
  BY <1>1, ModSplit
<1>0. PICK e \in Int : e = r + k
  OBVIOUS
<1>3. PICK s \in 0 .. d - 1 : s = e % d
  BY ModSplit
<1>4. PICK p \in Int : e = d * p + s
  BY <1>3, ModSplit
<1>5. d * (q + p) = d * q + d * p
  OBVIOUS
<1>6. a + k = d * (q + p) + s
  BY <1>0, <1>2, <1>4, <1>5
<1>7. (d * (q + p) + s) % d = s
  BY ModUnique
<1> QED BY <1>0, <1>1, <1>3, <1>6, <1>7

\* So is subtracting one remainder from another.
LEMMA ModSub ==
    ASSUME NEW a \in Int, NEW k \in Int, NEW d \in Nat \ {0}
    PROVE  ((a % d) - (k % d)) % d = (a - k) % d
<1>1. PICK r \in 0 .. d - 1 : r = k % d
  BY ModSplit
<1>2. PICK q \in Int : k = d * q + r
  BY <1>1, ModSplit
<1>0. PICK e \in Int : e = a - k
  OBVIOUS
<1>3. PICK s \in 0 .. d - 1 : s = e % d
  BY ModSplit
<1>4. PICK p \in Int : e = d * p + s
  BY <1>3, ModSplit
<1>5. d * (q + p) = d * q + d * p
  OBVIOUS
<1>6. a - r = d * (q + p) + s
  BY <1>0, <1>2, <1>4, <1>5
<1>7. (d * (q + p) + s) % d = s
  BY ModUnique
<1>8. PICK f \in Int : f = 0 - r
  OBVIOUS
<1>9. ((a % d) + f) % d = (a + f) % d
  BY ModAdd
<1>10. (a % d) + f = (a % d) - r /\ a + f = a - r
  BY <1>8, ModSplit
<1> QED BY <1>0, <1>1, <1>3, <1>6, <1>7, <1>9, <1>10

\* A number of one lap is its own remainder.
LEMMA ModSmall ==
    ASSUME NEW d \in Nat \ {0}, NEW r \in 0 .. d - 1
    PROVE  r % d = r
<1>1. r = d * 0 + r
  OBVIOUS
<1> QED BY <1>1, ModUnique

(***************************************************************************)
(* Numbers                                                                 *)
(***************************************************************************)

\* The ticket after t, wrapped.
LEMMA NextTicket ==
    ASSUME NEW t \in Nat
    PROVE  /\ ticket(t) \in 0 .. TicketSpace - 1
           /\ (ticket(t) + 1) % TicketSpace = ticket(t + 1)
<1> DEFINE a == Seed + t
           q == a \div TicketSpace
           r == a % TicketSpace
<1>1. TicketSpace \in Nat /\ TicketSpace > 0 /\ a \in Nat
  BY DrainerAssumption
<1>2. q \in Int /\ r \in 0 .. TicketSpace - 1 /\ a = TicketSpace * q + r
  BY <1>1
<1>3. ticket(t) = r /\ ticket(t + 1) = (a + 1) % TicketSpace
  BY <1>1, DrainerAssumption DEF ticket
<1> HIDE DEF a, q, r
<1>4. CASE r + 1 < TicketSpace
  <2>1. a + 1 = TicketSpace * q + (r + 1) /\ r + 1 = TicketSpace * 0 + (r + 1)
    BY <1>1, <1>2
  <2>2. (a + 1) % TicketSpace = r + 1 /\ (r + 1) % TicketSpace = r + 1
    BY <1>1, <1>2, <1>4, <2>1, ModUnique
  <2> QED BY <1>2, <1>3, <2>2
<1>5. CASE r + 1 = TicketSpace
  <2>1. a + 1 = TicketSpace * (q + 1) + 0 /\ r + 1 = TicketSpace * 1 + 0
    BY <1>1, <1>2, <1>5
  <2>2. (a + 1) % TicketSpace = 0 /\ (r + 1) % TicketSpace = 0
    BY <1>1, <1>2, <2>1, ModUnique
  <2> QED BY <1>2, <1>3, <2>2
<1> QED BY <1>1, <1>2, <1>4, <1>5

\* nth counts the positions of S through, each once.
LEMMA NthPosition ==
    ASSUME NEW m \in Nat, NEW S \in SUBSET (1 .. m)
    PROVE  /\ Cardinality(S) \in Nat
           /\ \A k \in 1 .. Cardinality(S) : nth(S, k) \in S
           /\ \A i \in S : \E k \in 1 .. Cardinality(S) : nth(S, k) = i
           /\ \A k, l \in 1 .. Cardinality(S) : k < l => nth(S, k) < nth(S, l)
<1> DEFINE upto(i) == {j \in S : j <= i}
           rank == [i \in S |-> Cardinality(upto(i))]
           K == 1 .. Cardinality(S)
<1>0. \A i \in S : i \in Int
  OBVIOUS
<1>1. IsFiniteSet(S) /\ Cardinality(S) \in Nat
  <2>1. IsFiniteSet(1 .. m)
    BY FS_Interval
  <2>2. IsFiniteSet(S)
    BY <2>1, FS_Subset, Zenon
  <2> QED BY <2>2, FS_CardinalityType
<1>2. \A i \in S : /\ IsFiniteSet(upto(i)) /\ upto(i) \subseteq S
                   /\ Cardinality(upto(i)) \in Nat
                   /\ Cardinality(upto(i)) <= Cardinality(S)
                   /\ Cardinality(upto(i)) # 0
  <2> SUFFICES ASSUME NEW i \in S
               PROVE  /\ IsFiniteSet(upto(i)) /\ upto(i) \subseteq S
                      /\ Cardinality(upto(i)) \in Nat
                      /\ Cardinality(upto(i)) <= Cardinality(S)
                      /\ Cardinality(upto(i)) # 0
    OBVIOUS
  <2>1. upto(i) \in SUBSET S /\ i \in upto(i)
    BY <1>0
  <2>2. IsFiniteSet(upto(i)) /\ Cardinality(upto(i)) <= Cardinality(S)
    BY <1>1, <2>1, FS_Subset
  <2> HIDE DEF upto
  <2>3. Cardinality(upto(i)) \in Nat
    BY <2>2, FS_CardinalityType
  <2>4. upto(i) # {}
    BY <2>1
  <2>5. Cardinality(upto(i)) # 0
    BY <2>2, <2>4, FS_EmptySet
  <2> QED BY <2>1, <2>2, <2>3, <2>5
<1>3. \A i, j \in S : i < j => Cardinality(upto(i)) < Cardinality(upto(j))
  <2> SUFFICES ASSUME NEW i \in S, NEW j \in S, i < j
               PROVE  Cardinality(upto(i)) < Cardinality(upto(j))
    OBVIOUS
  <2>0. i \in Int /\ j \in Int
    BY <1>0
  <2>1. \A l \in upto(i) : l \in upto(j)
    BY <1>0, <2>0
  <2>2. j \in upto(j) /\ j \notin upto(i)
    BY <2>0
  <2> HIDE DEF upto
  <2>3. upto(i) \in SUBSET upto(j) /\ upto(i) # upto(j)
    BY <2>1, <2>2
  <2>4. Cardinality(upto(i)) <= Cardinality(upto(j)) /\ Cardinality(upto(i)) # Cardinality(upto(j))
    BY <1>2, <2>3, FS_Subset
  <2> QED BY <1>2, <2>4
<1>10. \A i, j \in S : Cardinality(upto(i)) = Cardinality(upto(j)) => i = j
  <2> TAKE i \in S, j \in S
  <2>1. i < j \/ j < i \/ i = j
    BY <1>0
  <2>2. Cardinality(upto(i)) \in Int /\ Cardinality(upto(j)) \in Int
    BY <1>2
  <2> QED BY <1>3, <2>1, <2>2
<1> HIDE DEF upto
<1>4. rank \in Injection(S, K)
  <2>1. rank \in [S -> K]
    BY <1>1, <1>2
  <2>2. \A i, j \in S : rank[i] = rank[j] => i = j
    BY <1>10
  <2> HIDE DEF rank
  <2> QED BY <2>1, <2>2 DEF Injection, IsInjective
<1>5. \A k \in K : \E i \in S : rank[i] = k
  <2>1. IsFiniteSet(K) /\ Cardinality(K) = Cardinality(S)
    BY <1>1, FS_Interval
  <2> HIDE DEF rank, K
  <2>2. rank \in Surjection(S, K)
    BY <1>4, <2>1, FS_Injection
  <2> QED BY <2>2 DEF Surjection
<1>6. \A i \in S : nth(S, rank[i]) = i /\ rank[i] \in K
  <2> TAKE i \in S
  <2>1. \A j \in S : Cardinality({l \in S : l <= j}) = rank[i] <=> j = i
    BY <1>10 DEF upto
  <2>2. rank[i] \in K
    BY <1>4 DEF Injection
  <2> HIDE DEF rank
  <2> QED BY <2>1, <2>2 DEF nth
<1>7. \A i, j \in S : rank[i] < rank[j] => i < j
  <2> SUFFICES ASSUME NEW i \in S, NEW j \in S, rank[i] < rank[j]
               PROVE  i < j
    OBVIOUS
  <2>1. j < i => rank[j] < rank[i]
    BY <1>3
  <2>2. rank[i] \in Int /\ rank[j] \in Int /\ i \in Int /\ j \in Int
    BY <1>0, <1>2
  <2> HIDE DEF rank
  <2> QED BY <2>1, <2>2
<1> HIDE DEF rank
<1>8. ASSUME NEW k \in K, NEW l \in K, k < l PROVE nth(S, k) < nth(S, l)
  <2>1. PICK i \in S : rank[i] = k
    BY <1>5
  <2>2. PICK j \in S : rank[j] = l
    BY <1>5
  <2> QED BY <1>6, <1>7, <1>8, <2>1, <2>2
<1> QED BY <1>1, <1>5, <1>6, <1>8


(***************************************************************************)
(* The inductive invariant                                                 *)
(***************************************************************************)

QueueTypes ==
    /\ claimed \in 0 .. MaxTickets
    /\ next \in 0 .. claimed
    /\ fate \in [Tickets -> Fates]
    /\ item \in [Tickets -> Payloads \cup {NoPayload}]

\* The cursor passes a ticket only when its fate is sealed, and the buffer
\* knows which of its tickets have data.
Sealed ==
    /\ \A t \in 0 .. next - 1 : fate[t] \in {"dead", "drained"}
    /\ \A i \in DOMAIN pending : fate[pending[i].t] = "drained" => pending[i].has_data

\* Where sweep is says whether the buffer is empty; when it acknowledges, the
\* mutations of the buffer are in the log.
Phases ==
    /\ pc \in {"batch", "write", "ack"} => pending # <<>>
    /\ pc = "fence" => pending = <<>>
    /\ pc = "ack" => \A i \in Puts : pending[i].t \in Range(logged)

IInv == QueueTypes /\ NothingForgotten /\ Sealed /\ Phases /\ AckedDurable

\* Initially.
LEMMA InitIInv == Init => IInv
<1> SUFFICES ASSUME Init PROVE IInv
  OBVIOUS
<1>1. QueueTypes
  BY DrainerAssumption DEF Init, TQInit, QueueTypes, Fates
<1>2. TypeOK
  <2>1. pending \in Seq([t : Tickets, has_data : BOOLEAN]) /\ Len(pending) <= MAX_WRITES
    BY DrainerAssumption DEF Init
  <2>2. logged \in Seq(Tickets) /\ applied \in Seq(Tickets)
    BY DEF Init
  <2>3. /\ stall_polls \in 0 .. StallBudget /\ mem \in 0 .. Cap /\ errors \in 0 .. MaxErrors
        /\ mark \in 0 .. next /\ durable \in 0 .. TicketSpace - 1
        /\ next_seq \in Nat /\ durable_seq \in 0 .. next_seq
    BY DrainerAssumption DEF Init, TQInit
  <2>4. poisoned \in BOOLEAN /\ pc = "host"
    BY Zenon DEF Init
  <2> QED BY <2>1, <2>2, <2>3, <2>4 DEF TypeOK
<1>3. ticket(0) = Seed
  <2>1. Seed = TicketSpace * 0 + Seed /\ Seed + 0 = Seed
    BY DrainerAssumption
  <2> QED BY <2>1, ModUnique, DrainerAssumption DEF ticket
<1>4. NothingForgotten
  BY <1>2, <1>3 DEF Init, TQInit, NothingForgotten
<1>5. Sealed /\ Phases /\ AckedDurable
  BY DEF Init, TQInit, Sealed, Phases, AckedDurable
<1> QED BY <1>1, <1>4, <1>5 DEF IInv

\* A ticket in the buffer is one the cursor has passed.
LEMMA Passed ==
    ASSUME IInv, NEW i \in DOMAIN pending
    PROVE  /\ i \in 1 .. Len(pending)
           /\ pending[i] \in [t : Tickets, has_data : BOOLEAN]
           /\ pending[i].t = mark + i - 1
           /\ pending[i].t \in 0 .. next - 1
<1> DEFINE Slots == [t : Tickets, has_data : BOOLEAN]
<1>1. pending \in Seq(Slots)
  BY DEF IInv, NothingForgotten, TypeOK
<1> HIDE DEF Slots
<1>2. i \in 1 .. Len(pending) /\ Len(pending) \in Nat
  BY <1>1
<1>3. pending[i] \in Slots
  BY <1>1, <1>2
<1>4. pending[i].t = mark + i - 1
  BY DEF IInv, NothingForgotten
<1>5. mark \in Nat /\ next \in Nat /\ mark + Len(pending) = next
  BY DrainerAssumption DEF IInv, QueueTypes, NothingForgotten, TypeOK
<1>6. mark + i - 1 \in 0 .. next - 1
  BY <1>2, <1>5
<1> QED BY <1>2, <1>3, <1>4, <1>6 DEF Slots

\* What Db::write is given: every mutation of the buffer.
LEMMA BatchHoldsPuts ==
    ASSUME IInv
    PROVE  /\ Ops \in Seq(Tickets)
           /\ Len(Ops) \in Nat
           /\ \A i \in Puts : pending[i].t \in Range(Ops)
           /\ Range(Ops) = {pending[i].t : i \in Puts}
           /\ \A k \in DOMAIN Ops : Ops[k] \in Nat /\ mark <= Ops[k]
           /\ \A k, l \in DOMAIN Ops : k < l => Ops[k] < Ops[l]
<1>1. Len(pending) \in Nat /\ DOMAIN pending = 1 .. Len(pending)
  BY DEF IInv, NothingForgotten, TypeOK
<1>2. Puts \in SUBSET (1 .. Len(pending))
  BY <1>1 DEF Puts, Taken
<1>3. /\ Cardinality(Puts) \in Nat
      /\ \A k \in 1 .. Cardinality(Puts) : nth(Puts, k) \in Puts
      /\ \A i \in Puts : \E k \in 1 .. Cardinality(Puts) : nth(Puts, k) = i
      /\ \A k, l \in 1 .. Cardinality(Puts) : k < l => nth(Puts, k) < nth(Puts, l)
  BY <1>1, <1>2, NthPosition, Zenon
<1>4. \A i \in Puts : pending[i].t \in Tickets
  BY <1>1, <1>2, Passed
<1>5. \A k \in 1 .. Cardinality(Puts) : Ops[k] \in Tickets /\ Ops[k] = pending[nth(Puts, k)].t
  BY <1>3, <1>4 DEF Ops
<1>6. DOMAIN Ops = 1 .. Cardinality(Puts)
  BY DEF Ops
<1>7. Ops \in [1 .. Cardinality(Puts) -> Tickets]
  BY <1>5 DEF Ops
<1>8. Ops \in Seq(Tickets)
  BY <1>3, <1>7
<1>9. \A i \in Puts : pending[i].t \in Range(Ops)
  BY <1>3, <1>5, <1>6 DEF Range
<1>10. Range(Ops) = {pending[i].t : i \in Puts}
  BY <1>3, <1>5, <1>6 DEF Range
<1>11. mark \in Nat /\ \A i \in Puts : i \in Nat /\ i >= 1 /\ pending[i].t = mark + i - 1
  <2>1. mark \in Nat
    BY DrainerAssumption DEF IInv, QueueTypes, NothingForgotten, TypeOK
  <2> QED BY <1>1, <1>2, <2>1, Passed
<1>12. \A k \in DOMAIN Ops : Ops[k] \in Nat /\ mark <= Ops[k]
  <2> TAKE k \in DOMAIN Ops
  <2>1. PICK i \in Puts : i = nth(Puts, k) /\ Ops[k] = pending[i].t
    BY <1>3, <1>5, <1>6
  <2> QED BY <1>11, <2>1
<1>13. \A k, l \in DOMAIN Ops : k < l => Ops[k] < Ops[l]
  <2> SUFFICES ASSUME NEW k \in DOMAIN Ops, NEW l \in DOMAIN Ops, k < l PROVE Ops[k] < Ops[l]
    OBVIOUS
  <2>1. PICK i \in Puts : i = nth(Puts, k) /\ Ops[k] = pending[i].t
    BY <1>3, <1>5, <1>6
  <2>2. PICK j \in Puts : j = nth(Puts, l) /\ Ops[l] = pending[j].t
    BY <1>3, <1>5, <1>6
  <2>3. i < j
    BY <1>3, <1>6, <2>1, <2>2
  <2> QED BY <1>11, <2>1, <2>2, <2>3
<1> QED BY <1>8, <1>9, <1>10, <1>12, <1>13

\* The log grows by the batch.
LEMMA LogGrows ==
    ASSUME NEW S, NEW s \in Seq(S), NEW u \in Seq(S)
    PROVE  /\ s \o u \in Seq(S)
           /\ Range(s) \subseteq Range(s \o u)
           /\ Range(u) \subseteq Range(s \o u)
<1>1. s \o u \in Seq(S) /\ Len(s \o u) = Len(s) + Len(u) /\ Len(s) \in Nat /\ Len(u) \in Nat
  OBVIOUS
<1>2. \A i \in DOMAIN s : i \in DOMAIN (s \o u) /\ (s \o u)[i] = s[i]
  BY <1>1
<1>3. \A i \in DOMAIN u : i + Len(s) \in DOMAIN (s \o u) /\ (s \o u)[i + Len(s)] = u[i]
  BY <1>1
<1> QED BY <1>1, <1>2, <1>3, Zenon DEF Range

(***************************************************************************)
(* One lemma per step                                                      *)
(***************************************************************************)

\* What writers and the host do to the queue leaves passed tickets alone.
LEMMA WriterKeeps == ASSUME IInv, Writer PROVE IInv'
<1>1. next \in Nat /\ claimed \in Nat /\ next <= claimed /\ MaxTickets \in Nat /\ claimed <= MaxTickets
  BY DrainerAssumption DEF IInv, QueueTypes
<1>2. fate \in [Tickets -> Fates] /\ item \in [Tickets -> Payloads \cup {NoPayload}]
  BY DEF IInv, QueueTypes
<1>3. \A t \in 0 .. next - 1 : t \in Tickets /\ fate[t] \in {"dead", "drained"}
  BY <1>1 DEF IInv, Sealed, Tickets
<1>4. /\ QueueTypes' /\ next' = next
      /\ \A t \in 0 .. next - 1 : fate'[t] = fate[t] /\ item'[t] = item[t]
  <2>1. CASE Claim
    <3>1. claimed \in Tickets /\ \A t \in 0 .. next - 1 : t # claimed
      BY <1>1, <2>1 DEF Claim, Tickets
    <3> QED BY <1>1, <1>2, <1>3, <2>1, <3>1 DEF Claim, QueueTypes, Fates
  <2>2. ASSUME NEW t \in Tickets, NEW p \in Payloads, Publish(t, p)
        PROVE  /\ QueueTypes' /\ next' = next
               /\ \A u \in 0 .. next - 1 : fate'[u] = fate[u] /\ item'[u] = item[u]
    BY <1>1, <1>2, <1>3, <2>2 DEF Publish, QueueTypes, Fates
  <2>3. ASSUME NEW t \in Tickets, GiveUp(t)
        PROVE  /\ QueueTypes' /\ next' = next
               /\ \A u \in 0 .. next - 1 : fate'[u] = fate[u] /\ item'[u] = item[u]
    BY <1>1, <1>2, <1>3, <2>3 DEF GiveUp, QueueTypes, Fates
  <2> QED BY <2>1, <2>2, <2>3 DEF Writer
<1>5. UNCHANGED <<sweepvars, watermark, db, durable_seq, errors>>
  BY DEF Writer
<1>6. NothingForgotten'
  BY <1>4, <1>5 DEF IInv, NothingForgotten, TypeOK, sweepvars, watermark, db
<1>7. pending' = pending /\ pc' = pc /\ logged' = logged /\ mark' = mark
  BY <1>5 DEF sweepvars, watermark, db
<1>8. \A i \in DOMAIN pending :
         fate'[pending[i].t] = fate[pending[i].t] /\ item'[pending[i].t] = item[pending[i].t]
  BY <1>4, Passed
<1>9. Sealed'
  BY <1>4, <1>7, <1>8 DEF IInv, Sealed
<1>10. Phases'
  <2>1. Puts' = Puts
    BY <1>7, <1>8 DEF Puts, Taken, Payload
  <2> QED BY <1>7, <2>1 DEF IInv, Phases
<1>11. AckedDurable'
  <2>1. \A t \in 0 .. mark - 1 : t \in 0 .. next - 1
    BY <1>1 DEF IInv, NothingForgotten, TypeOK
  <2> QED BY <1>4, <1>7, <2>1 DEF IInv, AckedDurable
<1> QED BY <1>4, <1>6, <1>9, <1>10, <1>11 DEF IInv

\* A ticket the drain loop takes or skips goes to the end of the buffer.
LEMMA BufferGrows ==
    ASSUME IInv, NEW has_data \in BOOLEAN, Buffers(has_data), next < claimed, next' = next + 1
    PROVE  /\ NothingForgotten'
           /\ Len(pending') = Len(pending) + 1
           /\ pending'[Len(pending')] = [t |-> next, has_data |-> has_data]
           /\ \A i \in DOMAIN pending : pending'[i] = pending[i]
           /\ \A i \in DOMAIN pending' : i \in DOMAIN pending \/ i = Len(pending')
<1> DEFINE Slots == [t : Tickets, has_data : BOOLEAN]
           e == [t |-> next, has_data |-> has_data]
<1>1. /\ next \in Nat /\ next \in Tickets /\ mark \in Nat /\ MAX_WRITES \in Nat
      /\ mark + Len(pending) = next
  BY DrainerAssumption DEF IInv, QueueTypes, NothingForgotten, TypeOK, Tickets
<1>2. e \in Slots /\ e.t = next
  BY <1>1
<1>3. pending \in Seq(Slots) /\ Len(pending) < MAX_WRITES /\ pending' = Append(pending, e)
  BY DEF IInv, NothingForgotten, TypeOK, Buffers
<1> HIDE DEF Slots, e
<1>4. /\ pending' \in Seq(Slots) /\ Len(pending') = Len(pending) + 1 /\ Len(pending) \in Nat
      /\ pending'[Len(pending')] = e
      /\ \A i \in DOMAIN pending : pending'[i] = pending[i]
      /\ DOMAIN pending' = 1 .. Len(pending) + 1 /\ DOMAIN pending = 1 .. Len(pending)
  BY <1>2, <1>3
<1>5. TypeOK'
  <2>1. pending' \in Seq([t : Tickets, has_data : BOOLEAN]) /\ Len(pending') <= MAX_WRITES
    BY <1>1, <1>3, <1>4 DEF Slots
  <2>2. stall_polls' \in 0 .. StallBudget /\ mark' \in 0 .. next'
    BY <1>1, DrainerAssumption DEF Buffers, watermark, IInv, NothingForgotten, TypeOK
  <2> QED BY <2>1, <2>2 DEF Buffers, watermark, db, IInv, NothingForgotten, TypeOK
<1>6. durable' = ticket(mark') /\ mark' + Len(pending') = next'
  BY <1>1, <1>4 DEF Buffers, watermark, IInv, NothingForgotten
<1>7. \A i \in DOMAIN pending' : pending'[i].t = mark' + i - 1
  <2>1. mark' = mark
    BY DEF Buffers, watermark
  <2> SUFFICES ASSUME NEW i \in DOMAIN pending' PROVE pending'[i].t = mark + i - 1
    BY <2>1
  <2>2. CASE i \in DOMAIN pending
    BY <1>4, <2>2 DEF IInv, NothingForgotten
  <2>3. CASE i = Len(pending')
    BY <1>1, <1>2, <1>4, <2>3
  <2> QED BY <1>4, <2>2, <2>3
<1>8. \A i \in DOMAIN pending' : i \in DOMAIN pending \/ i = Len(pending')
  BY <1>4
<1> QED BY <1>4, <1>5, <1>6, <1>7, <1>8 DEF NothingForgotten, e

\* The drain loop takes a published ticket.
LEMMA DrainKeeps == ASSUME IInv, DrainOne PROVE IInv'
<1>1. Drain /\ Buffers(TRUE)
  BY Zenon DEF DrainOne
<1>2. /\ next \in Nat /\ claimed \in Nat /\ next < claimed /\ next \in Tickets
      /\ next' = next + 1 /\ claimed' = claimed /\ item' = item
      /\ fate' = [fate EXCEPT ![next] = "drained"]
  BY <1>1, DrainerAssumption DEF Drain, IInv, QueueTypes, Tickets
<1>3. QueueTypes'
  BY <1>2 DEF IInv, QueueTypes, Fates
<1>4. /\ NothingForgotten'
      /\ Len(pending') = Len(pending) + 1
      /\ pending'[Len(pending')] = [t |-> next, has_data |-> TRUE]
      /\ \A i \in DOMAIN pending : pending'[i] = pending[i]
      /\ \A i \in DOMAIN pending' : i \in DOMAIN pending \/ i = Len(pending')
  BY <1>1, <1>2, BufferGrows, Zenon
<1>5. fate' \in [Tickets -> Fates] /\ fate'[next] = "drained"
      /\ \A t \in Tickets : t # next => fate'[t] = fate[t]
  BY <1>2, <1>3 DEF QueueTypes, IInv
<1>6. \A t \in 0 .. next - 1 : t \in Tickets /\ t # next
  <2>1. MaxTickets \in Nat /\ claimed <= MaxTickets
    BY DrainerAssumption DEF IInv, QueueTypes
  <2> QED BY <1>2, <2>1 DEF Tickets
<1>7. Sealed'
  <2>1. \A t \in 0 .. next' - 1 : fate'[t] \in {"dead", "drained"}
    BY <1>2, <1>5, <1>6 DEF IInv, Sealed
  <2>3. \A i \in DOMAIN pending : fate'[pending[i].t] = fate[pending[i].t]
    BY <1>5, <1>6, Passed
  <2>4. \A i \in DOMAIN pending' : fate'[pending'[i].t] = "drained" => pending'[i].has_data
    BY <1>4, <2>3 DEF IInv, Sealed
  <2> QED BY <2>1, <2>4 DEF Sealed
<1>8. Phases'
  BY <1>1 DEF Buffers, Phases
<1>9. AckedDurable'
  <2>1. mark' = mark /\ logged' = logged
    BY <1>1 DEF Buffers, watermark, db
  <2>2. \A t \in 0 .. mark - 1 : fate'[t] = fate[t]
    BY <1>2, <1>5, <1>6 DEF IInv, NothingForgotten, TypeOK
  <2> QED BY <1>2, <2>1, <2>2 DEF IInv, AckedDurable
<1> QED BY <1>3, <1>4, <1>7, <1>8, <1>9 DEF IInv

\* The drain loop passes a dead ticket.
LEMMA SkipKeeps == ASSUME IInv, SkipOne PROVE IInv'
<1>1. Skip /\ Buffers(FALSE)
  BY Zenon DEF SkipOne
<1>2. /\ next \in Nat /\ claimed \in Nat /\ next < claimed /\ next \in Tickets
      /\ next' = next + 1 /\ claimed' = claimed /\ item' = item
      /\ fate' = fate /\ fate[next] = "dead"
  BY <1>1, DrainerAssumption DEF Skip, IInv, QueueTypes, Tickets
<1>3. QueueTypes'
  BY <1>2 DEF IInv, QueueTypes
<1>4. /\ NothingForgotten'
      /\ Len(pending') = Len(pending) + 1
      /\ pending'[Len(pending')] = [t |-> next, has_data |-> FALSE]
      /\ \A i \in DOMAIN pending : pending'[i] = pending[i]
      /\ \A i \in DOMAIN pending' : i \in DOMAIN pending \/ i = Len(pending')
  BY <1>1, <1>2, BufferGrows, Zenon
<1>5. Sealed'
  <2>1. \A t \in 0 .. next' - 1 : fate'[t] \in {"dead", "drained"}
    BY <1>2 DEF IInv, Sealed
  <2>3. \A i \in DOMAIN pending' : fate'[pending'[i].t] = "drained" => pending'[i].has_data
    BY <1>2, <1>4 DEF IInv, Sealed
  <2> QED BY <2>1, <2>3 DEF Sealed
<1>6. Phases'
  BY <1>1 DEF Buffers, Phases
<1>7. AckedDurable'
  BY <1>1, <1>2 DEF Buffers, watermark, db, IInv, AckedDurable
<1> QED BY <1>3, <1>4, <1>5, <1>6, <1>7 DEF IInv

\* A step that leaves the queue, the buffer and the watermark alone, and adds
\* to the log at most.
LEMMA QuietKeeps ==
    ASSUME IInv, TypeOK', UNCHANGED <<pending, watermark, tqvars>>,
           Range(logged) \subseteq Range(logged'), Phases'
    PROVE  IInv'
<1>1. QueueTypes'
  BY DEF IInv, QueueTypes, tqvars
<1>2. NothingForgotten'
  BY DEF IInv, NothingForgotten, watermark, tqvars
<1>3. Sealed'
  BY DEF IInv, Sealed, tqvars
<1>4. AckedDurable'
  BY DEF IInv, AckedDurable, watermark, tqvars
<1> QED BY <1>1, <1>2, <1>3, <1>4 DEF IInv

\* sweep starts, the loop ends, the batch is built, the memtable is full, the
\* host flushes.
LEMMA LocalKeeps ==
    ASSUME IInv, sweep \/ DrainEnds \/ batch \/ write_full \/ flush PROVE IInv'
<1>1. UNCHANGED <<pending, watermark, tqvars, logged>>
  BY DEF sweep, DrainEnds, batch, write_full, flush, sweepvars, db
<1>2. TypeOK'
  <2> USE DEF IInv, NothingForgotten, TypeOK, watermark, tqvars, db, sweepvars
  <2>1. CASE sweep
    BY <2>1 DEF sweep
  <2>2. CASE DrainEnds
    <3>1. stall_polls' \in 0 .. StallBudget /\ pc' \in {"batch", "fence", "host"}
      BY <2>2, DrainerAssumption DEF DrainEnds
    <3> QED BY <2>2, <3>1 DEF DrainEnds
  <2>3. CASE batch
    BY <2>3, Zenon DEF batch
  <2>4. CASE write_full
    BY <2>4 DEF write_full
  <2>5. CASE flush
    BY <2>5, DrainerAssumption DEF flush
  <2> QED BY <2>1, <2>2, <2>3, <2>4, <2>5
<1>3. Puts' = Puts
  BY <1>1 DEF Puts, Taken, Payload, tqvars
<1>4. Phases'
  <2> USE <1>1, <1>3 DEF IInv, Phases
  <2>1. CASE sweep
    BY <2>1 DEF sweep
  <2>2. CASE DrainEnds
    BY <2>2 DEF DrainEnds
  <2>3. CASE batch
    BY <2>3 DEF batch
  <2>4. CASE write_full
    BY <2>4 DEF write_full
  <2>5. CASE flush
    BY <2>5 DEF flush, sweepvars
  <2> QED BY <2>1, <2>2, <2>3, <2>4, <2>5
<1> QED BY <1>1, <1>2, <1>4, QuietKeeps

\* Db::write, whole, failed or dropped: the log grows or stays.
LEMMA WriteKeeps ==
    ASSUME IInv, write_ok \/ write_fails \/ DropSweep PROVE IInv'
<1>1. pc = "write" /\ UNCHANGED <<pending, watermark, tqvars>>
  BY DEF write_ok, write_fails, DropSweep
<1>2. logged \in Seq(Tickets) /\ applied \in Seq(Tickets)
  BY DEF IInv, NothingForgotten, TypeOK
<1>3. Ops \in Seq(Tickets) /\ Len(Ops) \in Nat /\ \A i \in Puts : pending[i].t \in Range(Ops)
  BY BatchHoldsPuts
<1>4. /\ logged \o Ops \in Seq(Tickets) /\ applied \o Ops \in Seq(Tickets)
      /\ Range(logged) \subseteq Range(logged \o Ops)
      /\ Range(Ops) \subseteq Range(logged \o Ops)
  BY <1>2, <1>3, LogGrows
<1>5. logged' = logged \o Ops \/ logged' = logged
  BY DEF write_ok, write_fails, DropSweep
<1>6. logged' \in Seq(Tickets) /\ Range(logged) \subseteq Range(logged')
  BY <1>2, <1>4, <1>5, Zenon
<1>7. TypeOK'
  <2>1. pending' \in Seq([t : Tickets, has_data : BOOLEAN]) /\ Len(pending') <= MAX_WRITES
    BY <1>1 DEF IInv, NothingForgotten, TypeOK
  <2>2. durable' \in 0 .. TicketSpace - 1 /\ mark' \in 0 .. next'
    BY <1>1 DEF IInv, NothingForgotten, TypeOK, watermark, tqvars
  <2>3. next_seq \in Nat /\ durable_seq \in 0 .. next_seq /\ mem \in 0 .. Cap /\ Cap \in Nat
        /\ errors \in 0 .. MaxErrors /\ MaxErrors \in Nat
        /\ stall_polls \in 0 .. StallBudget /\ poisoned \in BOOLEAN
    BY DrainerAssumption DEF IInv, NothingForgotten, TypeOK
  <2>4. mem' \in 0 .. Cap /\ errors' \in 0 .. MaxErrors
    BY <1>3, <2>3 DEF write_ok, write_fails, DropSweep, Fits
  <2>5. next_seq' \in Nat /\ durable_seq' \in 0 .. next_seq'
    BY <1>3, <2>3 DEF write_ok, write_fails, DropSweep
  <2>6. applied' \in Seq(Tickets) /\ stall_polls' \in 0 .. StallBudget
    BY <1>2, <1>4, <2>3, Zenon DEF write_ok, write_fails, DropSweep
  <2>7. poisoned' \in BOOLEAN /\ pc' \in {"host", "ack"}
    BY <2>3, Zenon DEF write_ok, write_fails, DropSweep
  <2> QED BY <1>6, <2>1, <2>2, <2>4, <2>5, <2>6, <2>7 DEF TypeOK
<1>8. Puts' = Puts
  BY <1>1 DEF Puts, Taken, Payload, tqvars
<1>9. Phases'
  <2>1. pending # <<>>
    BY <1>1 DEF IInv, Phases
  <2>2. CASE write_ok
    BY <1>1, <1>3, <1>4, <1>8, <2>1, <2>2 DEF write_ok, Phases
  <2>3. CASE write_fails \/ DropSweep
    BY <2>3 DEF write_fails, DropSweep, Phases
  <2> QED BY <2>2, <2>3
<1> QED BY <1>1, <1>6, <1>7, <1>9, QuietKeeps

\* The watermark moves by one when the ticket is the one it is at.
LEMMA MarkAdvances ==
    ASSUME IInv, NEW t \in Nat, t = mark, advance_durable(t)
    PROVE  mark' = mark + 1 /\ durable' = ticket(mark + 1) /\ durable' \in 0 .. TicketSpace - 1
<1>1. durable = ticket(t)
  BY DEF IInv, NothingForgotten
<1>2. mark' = mark + 1 /\ durable' = (ticket(t) + 1) % TicketSpace
  BY <1>1 DEF advance_durable
<1>3. (ticket(t) + 1) % TicketSpace = ticket(t + 1) /\ ticket(t + 1) \in 0 .. TicketSpace - 1
  BY NextTicket
<1> QED BY <1>2, <1>3

\* The fence: the ticket at the cursor dies, and the watermark passes it.
LEMMA FenceKeeps == ASSUME IInv, fence PROVE IInv'
<1>1. /\ pc = "fence" /\ pc' = "host" /\ pending = <<>> /\ pending' = <<>>
      /\ UNCHANGED <<stall_polls, poisoned, db, durable_seq, errors>>
  BY DEF fence, IInv, Phases
<1>2. CASE UNCHANGED <<watermark, tqvars>>
  <2>1. TypeOK'
    BY <1>1, <1>2 DEF IInv, NothingForgotten, TypeOK, watermark, tqvars, db
  <2>2. Phases'
    BY <1>1 DEF Phases
  <2> QED BY <1>1, <1>2, <2>1, <2>2, QuietKeeps DEF db
<1>3. CASE Fence /\ advance_durable(next)
  <2>1. /\ next \in Nat /\ claimed \in Nat /\ next < claimed /\ claimed <= MaxTickets
        /\ MaxTickets \in Nat /\ mark = next
    <3>1. Len(pending) = 0
      BY <1>1
    <3> QED BY <1>3, <3>1, DrainerAssumption DEF Fence, IInv, QueueTypes, NothingForgotten, TypeOK
  <2>2. /\ next' = next + 1 /\ claimed' = claimed /\ item' = item
        /\ fate' = [fate EXCEPT ![next] = "dead"]
    BY <1>3 DEF Fence
  <2>3. QueueTypes'
    <3>1. fate' \in [Tickets -> Fates]
      BY <2>2, Zenon DEF IInv, QueueTypes, Fates
    <3>2. next' \in 0 .. claimed'
      BY <2>1, <2>2
    <3> QED BY <2>2, <3>1, <3>2 DEF IInv, QueueTypes
  <2>4. mark' = mark + 1 /\ durable' = ticket(mark + 1) /\ durable' \in 0 .. TicketSpace - 1
    BY <1>3, <2>1, MarkAdvances
  <2>5. TypeOK'
    <3>1. pending' \in Seq([t : Tickets, has_data : BOOLEAN]) /\ Len(pending') <= MAX_WRITES
      BY <1>1, DrainerAssumption
    <3>2. mark' \in 0 .. next'
      BY <2>1, <2>2, <2>4
    <3> QED BY <1>1, <2>4, <3>1, <3>2 DEF IInv, NothingForgotten, TypeOK, db
  <2>6. NothingForgotten'
    BY <1>1, <2>1, <2>2, <2>4, <2>5 DEF NothingForgotten
  <2>7. /\ next \in Tickets /\ fate'[next] = "dead"
        /\ \A t \in 0 .. next - 1 : fate'[t] = fate[t]
    BY <2>1, <2>2 DEF IInv, QueueTypes, Tickets
  <2>8. Sealed'
    BY <1>1, <2>1, <2>2, <2>7 DEF IInv, Sealed
  <2>9. Phases'
    BY <1>1 DEF Phases
  <2>10. AckedDurable'
    <3>1. logged' = logged
      BY <1>1 DEF db
    <3> QED BY <2>1, <2>2, <2>4, <2>7, <3>1 DEF IInv, AckedDurable
  <2> QED BY <2>3, <2>6, <2>8, <2>9, <2>10 DEF IInv
<1> QED BY <1>2, <1>3 DEF fence

\* The acknowledgement of the oldest ticket of the buffer.
LEMMA AckKeeps == ASSUME IInv, ack_pending PROVE IInv'
<1> DEFINE Slots == [t : Tickets, has_data : BOOLEAN]
<1>1. /\ pc = "ack" /\ pending # <<>> /\ pending' = Tail(pending)
      /\ advance_durable(Head(pending).t)
      /\ UNCHANGED <<stall_polls, poisoned, db, durable_seq, errors, tqvars>>
  BY DEF ack_pending, IInv, Phases
<1>2. pending \in Seq(Slots) /\ Len(pending) <= MAX_WRITES /\ MAX_WRITES \in Nat
  BY DrainerAssumption DEF IInv, NothingForgotten, TypeOK
<1>3. mark \in Nat /\ next \in Nat /\ mark + Len(pending) = next
  BY DrainerAssumption DEF IInv, QueueTypes, NothingForgotten, TypeOK
<1> HIDE DEF Slots
<1>4. /\ Len(pending) \in Nat /\ Len(pending) > 0 /\ 1 \in DOMAIN pending
      /\ Head(pending) = pending[1]
      /\ pending' \in Seq(Slots) /\ Len(pending') = Len(pending) - 1
      /\ \A i \in DOMAIN pending' : i \in Nat /\ i + 1 \in DOMAIN pending /\ pending'[i] = pending[i + 1]
  BY <1>1, <1>2
<1>5. Head(pending).t = mark
  <2>1. pending[1].t = mark + 1 - 1
    BY <1>4 DEF IInv, NothingForgotten
  <2> QED BY <1>3, <1>4, <2>1
<1>6. mark' = mark + 1 /\ durable' = ticket(mark + 1) /\ durable' \in 0 .. TicketSpace - 1
  BY <1>1, <1>3, <1>5, MarkAdvances
<1>7. QueueTypes'
  BY <1>1 DEF IInv, QueueTypes, tqvars
<1>8. next' = next /\ fate' = fate /\ item' = item /\ logged' = logged
  BY <1>1 DEF tqvars, db
<1>9. pc' \in {"host", "ack"} /\ (pc' = "ack" => Len(pending) # 1)
  BY DEF ack_pending
<1>10. TypeOK'
  <2>1. pending' \in Seq([t : Tickets, has_data : BOOLEAN]) /\ Len(pending') <= MAX_WRITES
    BY <1>2, <1>4 DEF Slots
  <2>2. mark' \in 0 .. next'
    BY <1>3, <1>4, <1>6, <1>8
  <2> QED BY <1>1, <1>6, <1>9, <2>1, <2>2 DEF IInv, NothingForgotten, TypeOK, db
<1>11. NothingForgotten'
  <2>1. \A i \in DOMAIN pending' : pending'[i].t = mark' + i - 1
    <3> TAKE i \in DOMAIN pending'
    <3>1. pending'[i].t = mark + (i + 1) - 1 /\ i \in Nat
      BY <1>4 DEF IInv, NothingForgotten
    <3> QED BY <1>3, <1>6, <3>1
  <2>2. Len(pending) \in Nat /\ Len(pending') = Len(pending) - 1
    BY <1>4
  <2>3. mark' + Len(pending') = next'
    BY <1>3, <1>6, <1>8, <2>2
  <2>4. durable' = ticket(mark')
    BY <1>6
  <2> QED BY <1>10, <2>1, <2>3, <2>4 DEF NothingForgotten
<1>12. Sealed'
  BY <1>4, <1>8 DEF IInv, Sealed
<1>13. Phases'
  <2>1. pc' = "ack" => pending' # <<>>
    BY <1>4, <1>9
  <2>2. \A i \in Puts' : i + 1 \in Puts /\ pending'[i] = pending[i + 1]
    BY <1>4, <1>8 DEF Puts, Taken, Payload
  <2> QED BY <1>1, <1>8, <1>9, <2>1, <2>2, Zenon DEF IInv, Phases
<1>14. AckedDurable'
  <2>1. mark \in 0 .. next - 1
    BY <1>3, <1>4
  <2>2. fate[mark] = "dead" \/ fate[mark] = "drained"
    BY <2>1 DEF IInv, Sealed
  <2>3. ASSUME fate[mark] = "drained", item[mark] = "put" PROVE mark \in Range(logged)
    <3>1. 1 \in Puts
      BY <1>4, <1>5, <2>3 DEF IInv, Sealed, Puts, Taken, Payload
    <3> QED BY <1>1, <1>4, <1>5, <3>1 DEF IInv, Phases
  <2>4. \A t \in 0 .. mark' - 1 : t \in 0 .. mark - 1 \/ t = mark
    BY <1>3, <1>6
  <2> QED BY <1>8, <2>2, <2>3, <2>4 DEF IInv, AckedDurable
<1> QED BY <1>7, <1>11, <1>12, <1>13, <1>14 DEF IInv

\* A step that changes nothing.
LEMMA StutterKeeps == ASSUME IInv, UNCHANGED vars PROVE IInv'
<1>1. UNCHANGED <<sweepvars, watermark, db, durable_seq, errors, tqvars>>
  BY DEF vars
<1>2. TypeOK'
  BY <1>1 DEF IInv, NothingForgotten, TypeOK, sweepvars, watermark, db, tqvars
<1>3. Puts' = Puts
  BY <1>1 DEF Puts, Taken, Payload, sweepvars, tqvars
<1>4. Phases'
  BY <1>1, <1>3 DEF IInv, Phases, sweepvars, db
<1> QED BY <1>1, <1>2, <1>4, QuietKeeps DEF sweepvars, db

\* Every step keeps the inductive invariant.
LEMMA NextKeeps == IInv /\ [Next]_vars => IInv'
<1> SUFFICES ASSUME IInv, [Next]_vars PROVE IInv'
  OBVIOUS
<1>1. CASE Writer
  BY <1>1, WriterKeeps
<1>2. CASE DrainOne
  BY <1>2, DrainKeeps
<1>3. CASE SkipOne
  BY <1>3, SkipKeeps
<1>4. CASE sweep \/ DrainEnds \/ batch \/ write_full \/ flush
  BY <1>4, LocalKeeps
<1>5. CASE fence
  BY <1>5, FenceKeeps
<1>6. CASE write_ok \/ write_fails \/ DropSweep
  BY <1>6, WriteKeeps
<1>7. CASE ack_pending
  BY <1>7, AckKeeps
<1>8. CASE UNCHANGED vars
  BY <1>8, StutterKeeps
<1> QED BY <1>1, <1>2, <1>3, <1>4, <1>5, <1>6, <1>7, <1>8 DEF Next, Sweeping

(***************************************************************************)
(* The log, the memtable and the sequence numbers                          *)
(***************************************************************************)

Prefix == {t \in 0 .. mark - 1 : fate[t] = "drained" /\ item[t] = "put"}
Batch == {pending[i].t : i \in Puts}

\* A ticket of the log is acknowledged, or still pending and logged again
\* should sweep be retried.
LoggedOk ==
    \A i \in DOMAIN logged : logged[i] < mark \/ logged[i] \in Batch

\* Readers see the acknowledged mutations, and those sweep is acknowledging.
AppliedOk == Range(applied) = Prefix \cup (IF pc = "ack" THEN Batch ELSE {})

JInv ==
    /\ \A i \in DOMAIN pending : pending[i].has_data => fate[pending[i].t] = "drained"
    /\ LoggedOk
    /\ LogInTicketOrder
    /\ AppliedOk
    /\ ~poisoned => next_seq = durable_seq /\ durable_seq = Len(applied)

\* A passed ticket keeps its fate and its payload.
LEMMA PassedStay ==
    ASSUME IInv, [Next]_vars
    PROVE  \A t \in 0 .. next - 1 : fate'[t] = fate[t] /\ item'[t] = item[t]
<1>1. next \in Nat /\ claimed \in Nat /\ next <= claimed /\ MaxTickets \in Nat /\ claimed <= MaxTickets
  BY DrainerAssumption DEF IInv, QueueTypes
<1>2. fate \in [Tickets -> Fates] /\ item \in [Tickets -> Payloads \cup {NoPayload}]
  BY DEF IInv, QueueTypes
<1>3. \A t \in 0 .. next - 1 : t \in Tickets /\ fate[t] \in {"dead", "drained"} /\ t # next /\ t # claimed
  BY <1>1 DEF IInv, Sealed, Tickets
<1>4. CASE UNCHANGED tqvars
  BY <1>4 DEF tqvars
<1>5. CASE Claim
  BY <1>2, <1>3, <1>5 DEF Claim
<1>6. ASSUME NEW t \in Tickets, NEW p \in Payloads, Publish(t, p)
      PROVE  \A u \in 0 .. next - 1 : fate'[u] = fate[u] /\ item'[u] = item[u]
  BY <1>2, <1>3, <1>6 DEF Publish
<1>7. ASSUME NEW t \in Tickets, GiveUp(t)
      PROVE  \A u \in 0 .. next - 1 : fate'[u] = fate[u] /\ item'[u] = item[u]
  BY <1>2, <1>3, <1>7 DEF GiveUp
<1>8. CASE Fence
  BY <1>2, <1>3, <1>8 DEF Fence
<1>9. CASE Drain
  BY <1>2, <1>3, <1>9 DEF Drain
<1>10. CASE Skip
  BY <1>2, <1>3, <1>10, SMTT(30) DEF Skip
<1>11. UNCHANGED tqvars \/ Writer \/ Fence \/ Drain \/ Skip
  BY Zenon DEF Next, Sweeping, sweep, DrainOne, SkipOne, DrainEnds, fence, batch, write_ok, write_full,
         ack_pending, write_fails, DropSweep, flush, vars
<1> QED BY <1>4, <1>5, <1>6, <1>7, <1>8, <1>9, <1>10, <1>11, SMTT(30) DEF Writer

\* What a step leaves of the prefix and the batch.
LEMMA PrefixStays ==
    ASSUME IInv, [Next]_vars, mark' = mark
    PROVE  Prefix' = Prefix
<1>1. mark \in Nat /\ next \in Nat /\ \A t \in 0 .. mark - 1 : t \in 0 .. next - 1
  BY DrainerAssumption DEF IInv, QueueTypes, NothingForgotten, TypeOK
<1> QED BY <1>1, PassedStay DEF Prefix

\* A step that leaves the batch alone leaves the fates of its tickets alone.
LEMMA BatchStays ==
    ASSUME IInv, [Next]_vars, pending' = pending
    PROVE  /\ Batch' = Batch
           /\ \A i \in DOMAIN pending : fate'[pending[i].t] = fate[pending[i].t]
<1>1. \A i \in DOMAIN pending :
         fate'[pending[i].t] = fate[pending[i].t] /\ item'[pending[i].t] = item[pending[i].t]
  BY Passed, PassedStay
<1>2. Puts' = Puts
  BY <1>1 DEF Puts, Taken, Payload
<1> QED BY <1>1, <1>2 DEF Batch

\* A step that neither buffers, logs nor acknowledges.
LEMMA QuietKeepsLog ==
    ASSUME IInv, JInv, [Next]_vars,
           UNCHANGED <<pending, mark, logged, applied, durable_seq, next_seq>>,
           poisoned => poisoned',
           (pc' = "ack") => (pc = "ack" \/ Puts = {}), (pc = "ack") => (pc' = "ack")
    PROVE  JInv'
<1>1. /\ Prefix' = Prefix /\ Batch' = Batch
      /\ \A i \in DOMAIN pending : fate'[pending[i].t] = fate[pending[i].t]
  BY PrefixStays, BatchStays
<1>2. LoggedOk' /\ LogInTicketOrder'
  BY <1>1 DEF JInv, LoggedOk, LogInTicketOrder
<1>3. AppliedOk'
  <2>1. Puts = {} => Batch = {}
    BY DEF Batch
  <2> QED BY <1>1, <2>1 DEF JInv, AppliedOk
<1> QED BY <1>1, <1>2, <1>3 DEF JInv

\* The drain loop takes or skips a ticket.
LEMMA BufferKeepsLog ==
    ASSUME IInv, JInv, [Next]_vars, NEW has_data \in BOOLEAN, Buffers(has_data),
           next < claimed, next' = next + 1,
           has_data => fate'[next] = "drained"
    PROVE  JInv'
<1>1. /\ Len(pending') = Len(pending) + 1
      /\ pending'[Len(pending')] = [t |-> next, has_data |-> has_data]
      /\ \A i \in DOMAIN pending : pending'[i] = pending[i]
      /\ \A i \in DOMAIN pending' : i \in DOMAIN pending \/ i = Len(pending')
  BY BufferGrows
<1>2. UNCHANGED <<mark, logged, applied, durable_seq, next_seq, poisoned, pc>> /\ pc = "drain"
  BY DEF Buffers, watermark, db
<1>3. Prefix' = Prefix
  BY <1>2, PrefixStays
<1>4. \A i \in DOMAIN pending :
         fate'[pending[i].t] = fate[pending[i].t] /\ item'[pending[i].t] = item[pending[i].t]
  BY Passed, PassedStay, SMTT(30)
<1>5. \A i \in DOMAIN pending : i \in DOMAIN pending'
  <2>1. pending \in Seq([t : Tickets, has_data : BOOLEAN])
    BY DEF IInv, NothingForgotten, TypeOK
  <2>2. pending' = Append(pending, [t |-> next, has_data |-> has_data])
    BY DEF Buffers
  <2> QED BY <2>1, <2>2, SMTT(30)
<1>6. Batch \subseteq Batch'
  <2>1. ASSUME NEW i \in Puts PROVE i \in Puts' /\ pending'[i].t = pending[i].t
    <3>1. i \in DOMAIN pending /\ pending[i].has_data /\ item[pending[i].t] = "put"
      BY DEF Puts, Taken, Payload
    <3>2. i \in DOMAIN pending' /\ pending'[i] = pending[i] /\ item'[pending[i].t] = item[pending[i].t]
      BY <1>1, <1>4, <1>5, <3>1
    <3> QED BY <3>1, <3>2 DEF Puts, Taken, Payload
  <2> QED BY <2>1 DEF Batch
<1>7. \A i \in DOMAIN pending' : pending'[i].has_data => fate'[pending'[i].t] = "drained"
  <2>1. ASSUME NEW i \in DOMAIN pending, pending[i].has_data PROVE fate'[pending'[i].t] = "drained"
    <3>1. fate[pending[i].t] = "drained"
      BY <2>1 DEF JInv
    <3> QED BY <1>1, <1>4, <3>1
  <2>2. PICK e : e = pending'[Len(pending')] /\ e.t = next /\ e.has_data = has_data
    BY <1>1
  <2>3. e.has_data => fate'[e.t] = "drained"
    BY <2>2
  <2> QED BY <1>1, <2>1, <2>2, <2>3
<1>8. LoggedOk' /\ LogInTicketOrder' /\ AppliedOk'
  BY <1>2, <1>3, <1>6 DEF JInv, LoggedOk, LogInTicketOrder, AppliedOk
<1> QED BY <1>2, <1>7, <1>8 DEF JInv

\* The batch goes to the end of the log.
LEMMA BatchLogged ==
    ASSUME IInv, JInv, [Next]_vars, UNCHANGED <<pending, mark>>, logged' = logged \o Ops
    PROVE  LoggedOk' /\ LogInTicketOrder'
<1> DEFINE n == Len(logged)
<1>1. /\ Ops \in Seq(Tickets)
      /\ Range(Ops) = Batch
      /\ \A k \in DOMAIN Ops : Ops[k] \in Nat /\ mark <= Ops[k]
      /\ \A k, l \in DOMAIN Ops : k < l => Ops[k] < Ops[l]
  BY BatchHoldsPuts DEF Batch
<1>2. logged \in Seq(Tickets) /\ mark \in Nat /\ Tickets \subseteq Nat
  BY DrainerAssumption DEF IInv, QueueTypes, NothingForgotten, TypeOK, Tickets
<1>3. /\ n \in Nat /\ Len(Ops) \in Nat /\ DOMAIN Ops = 1 .. Len(Ops) /\ DOMAIN logged = 1 .. n
      /\ DOMAIN logged' = 1 .. n + Len(Ops) /\ Len(logged') = n + Len(Ops)
      /\ \A i \in 1 .. n : logged'[i] = logged[i] /\ logged[i] \in Nat
      /\ \A i \in n + 1 .. n + Len(Ops) : logged'[i] = Ops[i - n] /\ i - n \in DOMAIN Ops
  <2>1. /\ n \in Nat /\ Len(Ops) \in Nat /\ DOMAIN Ops = 1 .. Len(Ops) /\ DOMAIN logged = 1 .. n
        /\ logged \o Ops \in Seq(Tickets) /\ Len(logged \o Ops) = n + Len(Ops)
    BY <1>1, <1>2
  <2>2. DOMAIN logged' = 1 .. n + Len(Ops) /\ Len(logged') = n + Len(Ops)
    BY <2>1
  <2>3. \A i \in 1 .. n : logged'[i] = logged[i] /\ logged[i] \in Nat
    <3>1. \A i \in 1 .. n : logged'[i] = logged[i]
      BY <1>1, <1>2
    <3>2. \A i \in 1 .. n : logged[i] \in Tickets
      BY <1>2
    <3> QED BY <1>2, <3>1, <3>2, Zenon
  <2>4. \A i \in n + 1 .. n + Len(Ops) : logged'[i] = Ops[i - n]
    BY <1>1, <1>2
  <2>5. \A i \in n + 1 .. n + Len(Ops) : i - n \in 1 .. Len(Ops)
    BY <2>1
  <2> QED BY <2>1, <2>2, <2>3, <2>4, <2>5
<1> HIDE DEF n
<1>4. Batch' = Batch
  BY BatchStays
<1>5. LoggedOk'
  <2> SUFFICES ASSUME NEW i \in DOMAIN logged' PROVE logged'[i] < mark' \/ logged'[i] \in Batch'
    BY DEF LoggedOk
  <2>1. CASE i \in 1 .. n
    BY <1>3, <1>4, <2>1, SMTT(30) DEF JInv, LoggedOk
  <2>2. CASE i \in n + 1 .. n + Len(Ops)
    BY <1>1, <1>3, <1>4, <2>2 DEF Range
  <2> QED BY <1>3, <2>1, <2>2
<1>6. LogInTicketOrder'
  <2> SUFFICES ASSUME NEW i \in DOMAIN logged', NEW j \in DOMAIN logged', i < j,
                      logged'[i] > logged'[j]
               PROVE  \E k \in j + 1 .. Len(logged') : logged'[k] = logged'[i]
    BY DEF LogInTicketOrder
  <2>1. CASE i \in 1 .. n /\ j \in 1 .. n
    <3>1. PICK k \in j + 1 .. Len(logged) : logged[k] = logged[i]
      BY <1>3, <2>1 DEF JInv, LogInTicketOrder, n
    <3>2. k \in 1 .. n /\ k \in j + 1 .. Len(logged')
      BY <1>3, <2>1, <3>1 DEF n
    <3> QED BY <1>3, <2>1, <3>1, <3>2, SMTT(30)
  <2>2. CASE i \in 1 .. n /\ j \in n + 1 .. n + Len(Ops)
    <3>1. logged'[i] = logged[i] /\ logged'[j] = Ops[j - n] /\ j - n \in DOMAIN Ops
          /\ logged[i] \in Nat /\ Ops[j - n] \in Nat /\ mark <= Ops[j - n]
      BY <1>1, <1>3, <2>2, SMTT(30)
    <3>2. ~(logged[i] < mark)
      BY <1>2, <3>1, SMTT(30)
    <3>3. logged[i] \in Range(Ops)
      BY <1>1, <1>3, <2>2, <3>2 DEF JInv, LoggedOk
    <3>4. PICK k \in DOMAIN Ops : Ops[k] = logged[i]
      BY <3>3 DEF Range
    <3>5. k \in Int /\ j - n \in Int
      BY <1>3, <3>4, <2>2
    <3>6. j - n < k
      <4>1. k < j - n => Ops[k] < Ops[j - n]
        BY <1>1, <3>1
      <4>2. k # j - n
        BY <3>1, <3>4
      <4> QED BY <3>1, <3>4, <3>5, <4>1, <4>2
    <3>7. PICK m \in Int : m = n + k
      BY <1>3, <3>5
    <3>8. k \in 1 .. Len(Ops) /\ j \in Int
      BY <1>3, <2>2, <3>4
    <3>9. m \in j + 1 .. Len(logged') /\ m \in n + 1 .. n + Len(Ops) /\ m - n = k
      BY <1>3, <3>6, <3>7, <3>8
    <3> QED BY <1>3, <3>1, <3>4, <3>9, Zenon
  <2>3. CASE i \in n + 1 .. n + Len(Ops) /\ j \in n + 1 .. n + Len(Ops)
    <3>1. /\ logged'[i] = Ops[i - n] /\ logged'[j] = Ops[j - n] /\ i - n < j - n
          /\ i - n \in DOMAIN Ops /\ j - n \in DOMAIN Ops
      BY <1>3, <2>3, SMTT(30)
    <3>2. Ops[i - n] < Ops[j - n] /\ Ops[i - n] \in Nat /\ Ops[j - n] \in Nat
      BY <1>1, <3>1
    <3> QED BY <3>1, <3>2
  <2>4. i \in 1 .. n + Len(Ops) /\ j \in 1 .. n + Len(Ops)
    BY <1>3
  <2>5. \/ i \in 1 .. n /\ j \in 1 .. n
        \/ i \in 1 .. n /\ j \in n + 1 .. n + Len(Ops)
        \/ i \in n + 1 .. n + Len(Ops) /\ j \in n + 1 .. n + Len(Ops)
    BY <1>3, <2>4
  <2> QED BY <2>1, <2>2, <2>3, <2>5
<1> QED BY <1>5, <1>6

\* Db::write, whole, failed or dropped.
LEMMA WriteKeepsLog ==
    ASSUME IInv, JInv, [Next]_vars, write_ok \/ write_fails \/ DropSweep
    PROVE  JInv'
<1>1. pc = "write" /\ UNCHANGED <<pending, mark>> /\ (logged' = logged \o Ops \/ logged' = logged)
  BY DEF write_ok, write_fails, DropSweep, watermark
<1>2. /\ Prefix' = Prefix /\ Batch' = Batch
      /\ \A i \in DOMAIN pending : fate'[pending[i].t] = fate[pending[i].t]
  BY <1>1, PrefixStays, BatchStays
<1>3. LoggedOk' /\ LogInTicketOrder'
  <2>1. CASE logged' = logged
    BY <1>1, <1>2, <2>1 DEF JInv, LoggedOk, LogInTicketOrder
  <2> QED BY <1>1, <2>1, BatchLogged, SMTT(30)
<1>4. AppliedOk' /\ (~poisoned' => next_seq' = durable_seq' /\ durable_seq' = Len(applied'))
  <2>1. CASE write_ok
    <3>1. applied \in Seq(Tickets) /\ Ops \in Seq(Tickets) /\ Range(Ops) = Batch
      BY BatchHoldsPuts, SMTT(30) DEF IInv, NothingForgotten, TypeOK, Batch
    <3>2. Range(applied \o Ops) = Range(applied) \cup Range(Ops) /\ Len(applied \o Ops) = Len(applied) + Len(Ops)
      <4>1. \A i \in DOMAIN (applied \o Ops) :
               (applied \o Ops)[i] \in Range(applied) \cup Range(Ops)
        BY <3>1 DEF Range
      <4>2. Range(applied) \subseteq Range(applied \o Ops) /\ Range(Ops) \subseteq Range(applied \o Ops)
        BY <3>1, LogGrows
      <4>3. Range(applied \o Ops) \subseteq Range(applied) \cup Range(Ops)
        BY <4>1 DEF Range
      <4> QED BY <3>1, <4>2, <4>3
    <3>3. AppliedOk'
      BY <1>1, <1>2, <2>1, <3>1, <3>2 DEF write_ok, JInv, AppliedOk
    <3>4. ~poisoned' => next_seq' = durable_seq' /\ durable_seq' = Len(applied')
      BY <2>1, <3>2 DEF write_ok, JInv
    <3> QED BY <3>3, <3>4, SMTT(30)
  <2>2. CASE write_fails
    BY <1>1, <1>2, <2>2 DEF write_fails, JInv, AppliedOk
  <2>3. CASE DropSweep
    BY <1>1, <1>2, <2>3 DEF DropSweep, JInv, AppliedOk
  <2> QED BY <2>1, <2>2, <2>3
<1> QED BY <1>1, <1>2, <1>3, <1>4 DEF JInv

\* The fence.
LEMMA FenceKeepsLog == ASSUME IInv, IInv', JInv, [Next]_vars, fence PROVE JInv'
<1>1. /\ pending = <<>> /\ pending' = <<>> /\ pc' = "host" /\ pc = "fence"
      /\ UNCHANGED <<logged, applied, durable_seq, next_seq, poisoned>>
  BY DEF fence, IInv, Phases, db
<1>2. CASE UNCHANGED <<watermark, tqvars>>
  BY <1>1, <1>2, QuietKeepsLog DEF watermark
<1>3. CASE Fence /\ advance_durable(next)
  <2>1. next \in Nat /\ mark = next /\ next < claimed /\ claimed <= MaxTickets /\ claimed \in Nat
        /\ MaxTickets \in Nat
    <3>1. Len(pending) = 0
      BY <1>1
    <3> QED BY <1>3, <3>1, DrainerAssumption DEF Fence, IInv, QueueTypes, NothingForgotten, TypeOK
  <2>2. mark' = mark + 1
    BY <1>3, <2>1, MarkAdvances
  <2>3. fate'[next] = "dead"
    BY <1>3, <2>1 DEF Fence, IInv, QueueTypes, Tickets
  <2>4. \A t \in 0 .. next - 1 : fate'[t] = fate[t] /\ item'[t] = item[t]
    BY PassedStay
  <2>5. Prefix' = Prefix
    <3>1. \A t \in 0 .. mark' - 1 : t = next \/ t \in 0 .. mark - 1
      BY <2>1, <2>2
    <3>2. \A t \in 0 .. mark - 1 : t \in 0 .. mark' - 1
      BY <2>1, <2>2, SMTT(30)
    <3> QED BY <2>1, <2>3, <2>4, <3>1, <3>2 DEF Prefix
  <2>6. Batch = {} /\ Batch' = {}
    BY <1>1 DEF Batch, Puts, Taken
  <2>7. LoggedOk'
    <3>0. logged \in Seq(Tickets)
      BY DEF IInv, NothingForgotten, TypeOK
    <3>1. \A i \in DOMAIN logged : logged[i] \in Tickets
      BY <3>0
    <3>2. \A t \in Tickets : t \in Nat
      BY DrainerAssumption DEF Tickets
    <3> QED BY <1>1, <2>1, <2>2, <2>6, <3>1, <3>2, SMTT(30) DEF JInv, LoggedOk
  <2>8. LogInTicketOrder' /\ AppliedOk'
    BY <1>1, <2>5, <2>6 DEF JInv, LogInTicketOrder, AppliedOk
  <2> QED BY <1>1, <2>7, <2>8, SMTT(30) DEF JInv
<1> QED BY <1>2, <1>3 DEF fence

\* The acknowledgement of the oldest ticket of the buffer.
LEMMA AckKeepsLog == ASSUME IInv, JInv, [Next]_vars, ack_pending PROVE JInv'
<1> DEFINE Slots == [t : Tickets, has_data : BOOLEAN]
<1>1. /\ pc = "ack" /\ pending # <<>> /\ pending' = Tail(pending)
      /\ advance_durable(Head(pending).t)
      /\ UNCHANGED <<poisoned, logged, applied, next_seq, durable_seq, next, fate, item>>
      /\ pc' = IF Len(pending) = 1 THEN "host" ELSE "ack"
  BY DEF ack_pending, IInv, Phases, db, tqvars
<1>2. pending \in Seq(Slots)
  BY DEF IInv, NothingForgotten, TypeOK
<1>3. mark \in Nat /\ next \in Nat /\ mark + Len(pending) = next
  BY DrainerAssumption DEF IInv, QueueTypes, NothingForgotten, TypeOK
<1> HIDE DEF Slots
<1>4. /\ Len(pending) \in Nat /\ Len(pending) > 0 /\ 1 \in DOMAIN pending
      /\ DOMAIN pending = 1 .. Len(pending)
      /\ Head(pending) = pending[1] /\ DOMAIN pending' = 1 .. Len(pending) - 1
      /\ \A i \in DOMAIN pending' : i \in Nat /\ i + 1 \in DOMAIN pending /\ pending'[i] = pending[i + 1]
  BY <1>1, <1>2
<1>5. pending[1].t = mark
  <2>1. pending[1].t = mark + 1 - 1
    BY <1>4 DEF IInv, NothingForgotten
  <2> QED BY <1>3, <2>1
<1>6. mark' = mark + 1
  BY <1>1, <1>3, <1>4, <1>5, MarkAdvances
<1>7. Batch' \subseteq Batch
  <2>1. \A i \in Puts' : i + 1 \in Puts /\ pending'[i] = pending[i + 1]
    BY <1>1, <1>4 DEF Puts, Taken, Payload
  <2> QED BY <2>1 DEF Batch
<1>8. \A t \in Batch : t = mark \/ t \in Batch'
  <2> SUFFICES ASSUME NEW i \in Puts PROVE pending[i].t = mark \/ pending[i].t \in Batch'
    BY DEF Batch
  <2>1. i \in 1 .. Len(pending)
    BY <1>4 DEF Puts, Taken
  <2>2. CASE i = 1
    BY <1>5, <2>2
  <2>3. CASE i # 1
    <3>1. PICK k \in Nat : i = k + 1 /\ k \in 1 .. Len(pending) - 1
      BY <1>4, <2>1, <2>3
    <3>2. k \in Puts' /\ pending'[k] = pending[i]
      BY <1>1, <1>4, <3>1 DEF Puts, Taken, Payload
    <3> QED BY <3>2 DEF Batch
  <2> QED BY <2>2, <2>3
<1>9. mark \in Batch <=> (fate[mark] = "drained" /\ item[mark] = "put")
  <2>1. pending[1].has_data <=> fate[mark] = "drained"
    BY <1>4, <1>5 DEF IInv, Sealed, JInv
  <2>2. (fate[mark] = "drained" /\ item[mark] = "put") <=> 1 \in Puts
    BY <1>4, <1>5, <2>1 DEF Puts, Taken, Payload
  <2>3. ASSUME NEW i \in Puts, pending[i].t = mark PROVE i = 1
    <3>1. i \in DOMAIN pending
      BY DEF Puts, Taken
    <3>2. mark = mark + i - 1 /\ i \in Nat
      BY <1>4, <2>3, <3>1 DEF IInv, NothingForgotten
    <3> QED BY <1>3, <3>2
  <2> QED BY <1>5, <2>2, <2>3, SMTT(30) DEF Batch
<1>10. mark \notin Batch'
  <2>1. \A i \in Puts' : i \in DOMAIN pending'
    BY DEF Puts, Taken
  <2>2. ASSUME NEW i \in DOMAIN pending' PROVE pending'[i].t # mark
    <3>1. i \in Nat /\ i \in 1 .. Len(pending) - 1 /\ pending'[i].t = mark + (i + 1) - 1
      BY <1>4 DEF IInv, NothingForgotten
    <3> QED BY <1>3, <1>4, <3>1
  <2> QED BY <2>1, <2>2 DEF Batch
<1>11. Prefix' = Prefix \cup (Batch \cap {mark})
  <2>1. \A t : t \in 0 .. mark' - 1 <=> t = mark \/ t \in 0 .. mark - 1
    BY <1>3, <1>6
  <2> QED BY <1>1, <1>9, <2>1 DEF Prefix
<1>12. pc' # "ack" => Batch' = {}
  <2>1. pc' # "ack" => DOMAIN pending' = {}
    BY <1>1, <1>4, SMTT(30)
  <2> QED BY <2>1 DEF Batch, Puts, Taken
<1>13. AppliedOk'
  BY <1>1, <1>7, <1>8, <1>11, <1>12, SMTT(30) DEF JInv, AppliedOk
<1>14. LoggedOk'
  <2>1. \A i \in DOMAIN logged : logged[i] \in Nat
    BY DrainerAssumption DEF IInv, NothingForgotten, TypeOK, Tickets
  <2> QED BY <1>1, <1>3, <1>6, <1>8, <2>1, SMTT(30) DEF JInv, LoggedOk
<1>15. LogInTicketOrder'
  BY <1>1 DEF JInv, LogInTicketOrder
<1>16. \A i \in DOMAIN pending' : pending'[i].has_data => fate'[pending'[i].t] = "drained"
  BY <1>1, <1>4 DEF JInv
<1> QED BY <1>1, <1>13, <1>14, <1>15, <1>16, SMTT(30) DEF JInv

\* Every step keeps the log, the memtable and the sequence numbers in step.
LEMMA NextKeepsLog == ASSUME IInv, JInv, [Next]_vars PROVE JInv'
<1>1. CASE Writer \/ flush \/ UNCHANGED vars
  BY <1>1, QuietKeepsLog DEF Writer, flush, vars, sweepvars, watermark, db
<1>2. CASE DrainOne
  <2>1. next \in Tickets
    BY <1>2, DrainerAssumption DEF DrainOne, Drain, IInv, QueueTypes, Tickets
  <2>2. next < claimed /\ next' = next + 1 /\ fate'[next] = "drained" /\ Buffers(TRUE)
    BY <1>2, <2>1 DEF DrainOne, Drain, IInv, QueueTypes
  <2> QED BY <2>2, BufferKeepsLog, Zenon
<1>3. CASE SkipOne
  BY <1>3, BufferKeepsLog, Zenon DEF SkipOne, Skip
<1>4. CASE sweep \/ DrainEnds \/ batch \/ write_full
  <2>1. /\ UNCHANGED <<pending, mark, logged, applied, durable_seq, next_seq>>
        /\ poisoned => poisoned'
        /\ (pc' = "ack") => Puts = {}
        /\ pc # "ack"
    BY <1>4 DEF sweep, DrainEnds, batch, write_full, watermark, db
  <2> QED BY <2>1, QuietKeepsLog
<1>5. CASE fence
  BY <1>5, FenceKeepsLog, FenceKeeps
<1>6. CASE write_ok \/ write_fails \/ DropSweep
  BY <1>6, WriteKeepsLog
<1>7. CASE ack_pending
  BY <1>7, AckKeepsLog
<1> QED BY <1>1, <1>2, <1>3, <1>4, <1>5, <1>6, <1>7, SMTT(30) DEF Next, Sweeping

(***************************************************************************)
(* The theorems                                                            *)
(***************************************************************************)

\* The invariant holds throughout.
LEMMA DrainerIInv == Spec => []IInv
BY InitIInv, NextKeeps, PTL DEF Spec

\* sweep forgets no ticket: the watermark and the pending buffer account for
\* every ticket the drain loop, fence_cursor and skip ever passed, whatever
\* writers, errors, dropped sweeps and flushes come in between.
THEOREM DrainerForgetsNothing == Spec => []NothingForgotten
<1>1. IInv => NothingForgotten
  BY DEF IInv
<1> QED BY <1>1, DrainerIInv, PTL

\* advance_durable acknowledges a mutation only after Db::write logged it:
\* a ticket below the watermark is dead or its mutation is in the log.
THEOREM AckedIsDurable == Spec => []AckedDurable
<1>1. IInv => AckedDurable
  BY DEF IInv
<1> QED BY <1>1, DrainerIInv, PTL

\* Initially the log is empty.
LEMMA InitJInv == Init => JInv
<1> SUFFICES ASSUME Init PROVE JInv
  OBVIOUS
<1>1. /\ pending = <<>> /\ logged = <<>> /\ applied = <<>> /\ mark = 0 /\ pc = "host"
      /\ next_seq = 0 /\ durable_seq = 0
  BY DEF Init
<1>2. Prefix = {}
  BY <1>1 DEF Prefix
<1>3. Range(applied) = {}
  BY <1>1 DEF Range
<1>4. LoggedOk /\ LogInTicketOrder /\ AppliedOk
  BY <1>1, <1>2, <1>3 DEF LoggedOk, LogInTicketOrder, AppliedOk
<1>5. Len(applied) = 0 /\ DOMAIN pending = {}
  BY <1>1
<1> QED BY <1>1, <1>4, <1>5 DEF JInv

\* Both invariants hold throughout.
LEMMA DrainerJInv == Spec => [](IInv /\ JInv)
<1>1. Init => IInv /\ JInv
  BY InitIInv, InitJInv
<1>2. IInv /\ JInv /\ [Next]_vars => IInv' /\ JInv'
  BY NextKeeps, NextKeepsLog
<1> QED BY <1>1, <1>2, PTL DEF Spec

\* Db::write logs the mutations in ticket order, and a sweep that is dropped
\* and retried logs its whole batch again: replaying the log applies the last
\* copies in ticket order.
THEOREM ReplayInTicketOrder == Spec => []LogInTicketOrder
<1>1. JInv => LogInTicketOrder
  BY DEF JInv
<1> QED BY <1>1, DrainerJInv, PTL

\* Between two calls of sweep, durable_seqnum is the memtable's tip and covers
\* the acknowledged mutations and no others.
THEOREM SnapshotsSeeThePrefix == Spec => []SnapshotIsAckedPrefix
<1>1. JInv => SnapshotIsAckedPrefix
  BY DEF JInv, AppliedOk, Prefix, SnapshotIsAckedPrefix
<1> QED BY <1>1, DrainerJInv, PTL

(***************************************************************************)
(* The futures of writers                                                  *)
(***************************************************************************)

\* Tickets that died with their writer and that the drainer has not come to.
Gone == {t \in Tickets : t >= next /\ fate[t] = "dead"}

\* Few enough of them for the window of is_ticket_durable.
FewDead == Cardinality(Gone) + N + MAX_WRITES <= Half

\* The queue between cursor and head: live tickets, N at most, and dead ones.
QInv ==
    /\ \A t \in Tickets : (t < claimed => fate[t] # "unclaimed") /\ (t >= next => fate[t] # "drained")
    /\ Cardinality(Live) <= N

\* The tickets in the queue, live or gone, are finitely many.
LEMMA FiniteQueue == IsFiniteSet(Live) /\ Cardinality(Live) \in Nat /\ IsFiniteSet(Gone) /\ Cardinality(Gone) \in Nat
<1>1. IsFiniteSet(Tickets)
  BY FS_Interval, DrainerAssumption DEF Tickets
<1>2. IsFiniteSet(Live) /\ IsFiniteSet(Gone)
  BY <1>1, FS_Subset DEF Live, Gone
<1> QED BY <1>2, FS_CardinalityType

\* No ticket is taken at the start.
LEMMA InitQInv == Init => QInv
<1> SUFFICES ASSUME Init PROVE QInv
  OBVIOUS
<1>1. Live = {}
  BY DEF Init, TQInit, Live
<1>2. Cardinality(Live) = 0
  BY <1>1, FS_EmptySet
<1> QED BY <1>2, DrainerAssumption DEF Init, TQInit, QInv, Tickets

\* Every step keeps the count of the queue.
LEMMA NextKeepsQueue == ASSUME IInv, QInv, [Next]_vars PROVE QInv'
<1>1. /\ next \in Nat /\ claimed \in Nat /\ next <= claimed /\ MaxTickets \in Nat
      /\ fate \in [Tickets -> Fates] /\ Tickets = 0 .. MaxTickets - 1
  BY DrainerAssumption DEF IInv, QueueTypes, Tickets
<1>2. ASSUME Live' \subseteq Live PROVE Cardinality(Live') <= N
  <2>1. Cardinality(Live') <= Cardinality(Live) /\ Cardinality(Live') \in Nat
    BY <1>2, FiniteQueue, FS_Subset, FS_CardinalityType
  <2> QED BY <2>1, FiniteQueue, DrainerAssumption DEF QInv
<1>3. CASE UNCHANGED tqvars
  BY <1>2, <1>3 DEF tqvars, QInv, Live
<1>4. CASE Claim
  <2>1. claimed \in Tickets /\ Cardinality(Live) < N
        /\ fate' = [fate EXCEPT ![claimed] = "claimed"] /\ claimed' = claimed + 1 /\ next' = next
    BY <1>1, <1>4 DEF Claim
  <2>2. PICK c \in Tickets : c = claimed
    BY <2>1
  <2>3. Live' = Live \cup {c}
    BY <1>1, <2>1, <2>2 DEF Live
  <2>4. Cardinality(Live \cup {c}) = IF c \in Live THEN Cardinality(Live) ELSE Cardinality(Live) + 1
    BY FiniteQueue, FS_AddElement, Zenon
  <2>5. Cardinality(Live') <= N
    BY <2>1, <2>3, <2>4, FiniteQueue, DrainerAssumption
  <2>6. \A t \in Tickets : (t < claimed' => t < claimed \/ t = claimed)
    BY <1>1, <2>1
  <2> QED BY <1>1, <2>1, <2>5, <2>6 DEF QInv
<1>5. ASSUME NEW t \in Tickets, NEW p \in Payloads, Publish(t, p) PROVE QInv'
  <2>1. Live' \subseteq Live
    BY <1>1, <1>5 DEF Publish, Live
  <2> QED BY <1>1, <1>2, <1>5, <2>1 DEF Publish, QInv
<1>6. ASSUME NEW t \in Tickets, GiveUp(t) PROVE QInv'
  <2>1. Live' \subseteq Live
    BY <1>1, <1>6 DEF GiveUp, Live
  <2> QED BY <1>1, <1>2, <1>6, <2>1 DEF GiveUp, QInv
<1>7. ASSUME NEW f \in {"dead", "drained"}, next < claimed, fate' = [fate EXCEPT ![next] = f] \/ fate' = fate,
             next' = next + 1, claimed' = claimed
      PROVE QInv'
  <2>1. Live' \subseteq Live
    BY <1>1, <1>7 DEF Live
  <2>2. \A t \in Tickets : (t >= next' => t >= next /\ t # next)
    BY <1>1, <1>7
  <2> QED BY <1>1, <1>2, <1>7, <2>1, <2>2 DEF QInv
<1>8. CASE Fence \/ Drain \/ Skip
  BY <1>7, <1>8, SMTT(30) DEF Fence, Drain, Skip
<1>9. UNCHANGED tqvars \/ Writer \/ Fence \/ Drain \/ Skip
  BY Zenon DEF Next, Sweeping, sweep, DrainOne, SkipOne, DrainEnds, fence, batch, write_ok, write_full,
         ack_pending, write_fails, DropSweep, flush, vars
<1> QED BY <1>3, <1>4, <1>5, <1>6, <1>8, <1>9 DEF Writer

\* How far the head is from the watermark.
LEMMA WindowHolds ==
    ASSUME IInv, QInv, FewDead
    PROVE  claimed - mark <= Half
<1>1. /\ claimed \in Nat /\ next \in Nat /\ next <= claimed /\ MaxTickets \in Nat
      /\ claimed <= MaxTickets /\ Tickets = 0 .. MaxTickets - 1
      /\ fate \in [Tickets -> Fates]
      /\ mark \in Nat /\ mark + Len(pending) = next /\ Len(pending) \in Nat /\ Len(pending) <= MAX_WRITES
      /\ MAX_WRITES \in Nat /\ N \in Nat
  BY DrainerAssumption DEF IInv, QueueTypes, NothingForgotten, TypeOK, Tickets
<1>2. PICK lo \in Int, hi \in Int : lo = next /\ hi = claimed - 1
  BY <1>1
<1>3. IsFiniteSet(lo .. hi) /\ Cardinality(lo .. hi) = IF lo > hi THEN 0 ELSE hi - lo + 1
  BY FS_Interval
<1>4. Cardinality(lo .. hi) = claimed - next
  BY <1>1, <1>2, <1>3
<1>5. lo .. hi \subseteq Live \cup Gone
  <2>1. \A t \in lo .. hi : t \in Tickets /\ t < claimed /\ t >= next
    BY <1>1, <1>2
  <2> QED BY <1>1, <2>1 DEF QInv, Live, Gone, Fates
<1>6. Cardinality(Live \cup Gone) <= Cardinality(Live) + Cardinality(Gone) /\ Cardinality(Live \cup Gone) \in Nat
      /\ IsFiniteSet(Live \cup Gone)
  <2>1. IsFiniteSet(Live \cup Gone) /\ IsFiniteSet(Live \cap Gone)
    BY FiniteQueue, FS_Union, FS_Intersection
  <2>2. Cardinality(Live \cup Gone) = Cardinality(Live) + Cardinality(Gone) - Cardinality(Live \cap Gone)
    BY FiniteQueue, FS_Union
  <2>3. Cardinality(Live \cap Gone) \in Nat /\ Cardinality(Live \cup Gone) \in Nat
    BY <2>1, FS_CardinalityType
  <2> QED BY <2>1, <2>2, <2>3, FiniteQueue
<1>7. Cardinality(lo .. hi) <= Cardinality(Live \cup Gone)
  BY <1>5, <1>6, FS_Subset
<1>8. Half \in Int
  BY DrainerAssumption DEF Half
<1> QED BY <1>1, <1>4, <1>6, <1>7, <1>8, FiniteQueue, SMTT(30) DEF QInv, FewDead

\* Wrapped subtraction tells the future's ticket from the watermark.
LEMMA WindowTellsTruth ==
    ASSUME IInv, claimed - mark <= Half
    PROVE  PutTellsTruth
<1>1. claimed \in Nat /\ mark \in Nat /\ durable = ticket(mark) /\ Seed \in Nat
      /\ TicketSpace \in Nat \ {0}
  BY DrainerAssumption DEF IInv, QueueTypes, NothingForgotten, TypeOK
<1>2. Half \in Nat /\ 2 * Half <= TicketSpace
  BY <1>1 DEF Half
<1> SUFFICES ASSUME NEW t \in 0 .. claimed - 1, ~(t < mark)
             PROVE  ~is_ticket_durable(durable, ticket(t))
  BY DEF PutTellsTruth
<1>3. PICK d \in Nat : t = mark + d /\ d < Half
  BY <1>1, <1>2
<1>4. PICK a \in Int, k \in Int : a = Seed + mark /\ k = Seed + t
  BY <1>1
<1>5. ((a % TicketSpace) - (k % TicketSpace)) % TicketSpace = (a - k) % TicketSpace
  BY <1>1, ModSub, Zenon
<1>6. PICK e \in Int : e = a - k
  OBVIOUS
<1>7. e = 0 - d
  BY <1>1, <1>3, <1>4, <1>6
<1>8. e % TicketSpace = 0 \/ e % TicketSpace >= Half
  <2>1. CASE d = 0
    <3>1. 0 \in 0 .. TicketSpace - 1 /\ e = 0
      BY <1>1, <1>7, <2>1
    <3> QED BY <1>1, <3>1, ModSmall
  <2>2. CASE d > 0
    <3>1. PICK r \in 0 .. TicketSpace - 1 : r = TicketSpace - d
      BY <1>1, <1>2, <1>3, <2>2
    <3>2. e = TicketSpace * (-1) + r
      BY <1>1, <1>7, <3>1
    <3>3. e % TicketSpace = r
      BY <1>1, <3>2, ModUnique
    <3> QED BY <1>1, <1>2, <1>3, <3>1, <3>3
  <2> QED BY <1>3, <2>1, <2>2
<1>9. (durable - ticket(t)) % TicketSpace = e % TicketSpace
  BY <1>1, <1>4, <1>5, <1>6 DEF ticket
<1>10. e % TicketSpace \in Int
  BY <1>1, ModSplit
<1> QED BY <1>2, <1>8, <1>9, <1>10 DEF is_ticket_durable

\* is_ticket_durable never resolves a Put future early, across the wrap of the
\* ticket space, as long as the tickets of dead writers the drainer has still
\* to pass leave the window room for the ring and the pending buffer.
THEOREM PutsTellTheTruth == Spec => [](FewDead => PutTellsTruth)
<1>1. Init => IInv /\ QInv
  BY InitIInv, InitQInv
<1>2. IInv /\ QInv /\ [Next]_vars => IInv' /\ QInv'
  BY NextKeeps, NextKeepsQueue
<1>3. IInv /\ QInv => (FewDead => PutTellsTruth)
  BY WindowHolds, WindowTellsTruth
<1> QED BY <1>1, <1>2, <1>3, PTL DEF Spec
=============================================================================
