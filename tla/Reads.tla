------------------------------- MODULE Reads -------------------------------
(***************************************************************************)
(* The point-read rule of src/db/read.rs, over any store that says what    *)
(* each table t answers about the key and view of the read: found[t], an   *)
(* entry, Missing or Corrupt, and covering[t], the sequence number of a    *)
(* range tombstone, 0 or -1 (corrupt).                                     *)
(***************************************************************************)
EXTENDS Version, MemTable, SequencesExt

CONSTANT node_id    \* this handle's node

table_version(t, s) == version(t.node_id, t.seal_wall, s)

\* What the read has so far: the best version, the newest cover, an error.
read_acc == [seq |-> 0, op |-> "missing", expire_at |-> 0, ver |-> ZERO, cover |-> ZERO]

take(acc, e, v) ==
    [acc EXCEPT !.seq = e.seq, !.op = e.op, !.expire_at = e.expire_at, !.ver = v]

covers(t, k) == t.first_key <= k /\ k <= t.last_key

\* Key-range and version prunes, then the entry e looked up, then the cover q.
consider_table(acc, t, k, e, q) ==
    IF \/ acc.op = "corrupt" \/ ~covers(t, k)
       \/ ~version_gt(table_version(t, t.max_seq), acc.ver)
    THEN acc
    ELSE LET a == IF e.op # "missing" /\ version_gt(table_version(t, e.seq), acc.ver)
                  THEN take(acc, e, table_version(t, e.seq)) ELSE acc
         IN  IF e.op = "corrupt" \/ q = -1 THEN [acc EXCEPT !.op = "corrupt"]
             ELSE IF q > 0 /\ version_gt(table_version(t, q), a.cover)
             THEN [a EXCEPT !.cover = table_version(t, q)]
             ELSE a

hides(acc) == version_gt(acc.cover, acc.ver)

\* Level 0 newest table first, then the deeper levels in order.
read_order(levels) ==
    FoldLeft(LAMBDA s, i : s \o (IF i = 1 THEN Reverse(levels[1]) ELSE levels[i]),
             <<>>, [i \in DOMAIN levels |-> i])

\* The sequence number of the value read, 0 for none, -1 for an error.
resolved(acc, now) ==
    IF acc.op = "corrupt" THEN -1
    ELSE IF acc.op # "put" \/ hides(acc) \/ (acc.expire_at # 0 /\ acc.expire_at <= now) THEN 0
    ELSE acc.seq

read_point(mem, levels, k, w, now, found, covering) ==
    LET m == mem_get_at(mem, k, w)
        q == max_covering_rdel(mem, k, w)
        a0 == IF m = 0 THEN read_acc
              ELSE take(read_acc, mem[m], memtable_version(node_id, mem[m].seq))
        a1 == IF q = 0 THEN a0 ELSE [a0 EXCEPT !.cover = memtable_version(node_id, q)]
    IN  resolved(FoldLeft(LAMBDA a, t : consider_table(a, t, k, found[t], covering[t]),
                          a1, read_order(levels)), now)

level_major(levels) == FlattenSeq(levels)

\* Does a range tombstone newer than the version above cover k?  The search
\* stops at the first hit ("yes") or bad block ("corrupt").
rdel_hides(mem, levels, k, w, above, covering) ==
    LET q == max_covering_rdel(mem, k, w)
        probe(t) == IF \/ t.rdel_blocks = 0 \/ ~covers(t, k)
                       \/ ~version_gt(table_version(t, t.max_seq), above)
                    THEN 0 ELSE covering[t]
    IN  IF q > 0 /\ version_gt(memtable_version(node_id, q), above) THEN "yes"
        ELSE FoldLeft(LAMBDA r, t :
                        IF r # "no" THEN r
                        ELSE LET c == probe(t)
                             IN  IF c = -1 THEN "corrupt"
                                 ELSE IF c > 0 /\ version_gt(table_version(t, c), above)
                                 THEN "yes" ELSE "no",
                      "no", level_major(levels))

=============================================================================
