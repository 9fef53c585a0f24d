------------------------------ MODULE MemTable ------------------------------
(***************************************************************************)
(* The memtable of src/memtable.rs: slots sorted by key, newest version    *)
(* first within a key's run.  A range tombstone [key, end) is a slot that  *)
(* sorts by its start key and is not a version of it.  A value is named by *)
(* the sequence number that wrote it.                                      *)
(***************************************************************************)
EXTENDS Integers, Sequences, FiniteSets, FiniteSetsExt

CONSTANTS
    CAP,    \* slots
    ARENA   \* bytes of keys and values, one unit each

slot(k, s, op, end, exp) ==
    [key |-> k, seq |-> s, op |-> op, end |-> end, expire_at |-> exp]

\* One unit of key, one of value or exclusive end.
arena_need(op) == IF op = "del" THEN 1 ELSE 2
arena_len(mem) == MapThenSumSet(LAMBDA i : arena_need(mem[i].op), DOMAIN mem)

\* The run start of k, or its sorted insertion point.
lower_bound(mem, k) == 1 + Cardinality({i \in DOMAIN mem : mem[i].key < k})

\* Capacity checks of an insert; both bounds of a range are keys, key 0 is
\* the empty one.
plan(mem, s) ==
    /\ s.key # 0
    /\ s.op = "rdel" => s.key < s.end
    /\ Len(mem) < CAP
    /\ arena_len(mem) + arena_need(s.op) <= ARENA

\* The new version goes to its key's run start.
apply(mem, s) ==
    LET pos == lower_bound(mem, s.key)
    IN  SubSeq(mem, 1, pos - 1) \o <<s>> \o SubSeq(mem, pos, Len(mem))

\* Slot of the newest version of k at or below max_seq, 0 for none.
mem_get_at(mem, k, max_seq) ==
    LET hits == {i \in lower_bound(mem, k) .. Len(mem) :
                    mem[i].key = k /\ mem[i].op # "rdel" /\ mem[i].seq <= max_seq}
    IN  IF hits = {} THEN 0 ELSE Min(hits)

\* Newest range tombstone at or below max_seq over k, 0 for none.
max_covering_rdel(mem, k, max_seq) ==
    Max({0} \cup {mem[i].seq : i \in
            {j \in DOMAIN mem : /\ mem[j].op = "rdel" /\ mem[j].seq <= max_seq
                                /\ mem[j].key <= k /\ k < mem[j].end}})

\* What a flush drains: the point versions and the range tombstones, in order.
points(mem) == SelectSeq(mem, LAMBDA s : s.op # "rdel")
rdels(mem) == SelectSeq(mem, LAMBDA s : s.op = "rdel")

=============================================================================
