---------------------------- MODULE TableReader ----------------------------
(***************************************************************************)
(* Readers of one table: TableReader of src/sstable.rs (footer, bloom      *)
(* gate, index search, restart search, walk along a run that crosses       *)
(* blocks) and the manifest's TableRef that names the table.               *)
(***************************************************************************)
EXTENDS SsTable

\* TableRef: where the table is, what it holds at most, and its origin.
data_blocks(t) == t.block_count - t.rdel_blocks - 3
data_first(t) == t.first_block
rdel_first(t) == t.first_block + data_blocks(t)
footer_block(t) == t.first_block + t.block_count - 1
end_block(t) == t.first_block + t.block_count

(***************************************************************************)
(* Index and data block searches.                                          *)
(***************************************************************************)
\* Number of index entries whose first key is at or below k.
index_upper_bound(ix, k) == Cardinality({i \in DOMAIN ix : ix[i].first <= k})

\* Variant: the search stays on the last block that starts at or below k.
index_lookup_last(ix, k) == index_upper_bound(ix, k)

\* The first block that can hold k: the search walks back over the blocks
\* that start with k itself.  0 when k is below every block.
index_lookup(ix, k) ==
    LET lo == index_upper_bound(ix, k)
    IN  IF lo = 0 THEN 0
        ELSE Max({1} \cup {i \in 1 .. lo : ix[i].first # k})

index_last_le_block(ix, k) == index_upper_bound(ix, k)

restarts(es) == {r \in DOMAIN es : (r - 1) % RESTART_INTERVAL = 0}

Truncated == [op |-> "truncated", seq |-> 0, expire_at |-> 0]

\* One block's share of a point lookup: the entry, Missing when a larger key
\* was seen, Truncated when k's run may go on in the next block.
data_lookup(es, k, max_seq) ==
    LET from == Max({1} \cup {r \in restarts(es) : es[r].key < k})
        at == {i \in from .. Len(es) : es[i].key >= k}
        stop == {j \in Min(at) .. Len(es) : es[j].key # k \/ es[j].seq <= max_seq}
    IN  IF at = {} THEN Truncated
        ELSE IF stop = {} THEN Truncated
        ELSE IF es[Min(stop)].key # k THEN Missing
        ELSE es[Min(stop)]

\* The footer a reader starts from; Bad if its checksum fails.
open_cached(device, t) == device[footer_block(t)]

\* Bloom gate (a bad bloom block only disables it), index, then data blocks
\* from the index position on while they end inside the run.
lookup_at(device, t, k, max_seq) ==
    LET f == open_cached(device, t)
        bloom == device[f.bloom]
        ix == device[f.index].ix
        pos == index_lookup(ix, k)
        last == Len(ix)
        block(i) == device[ix[pos].id + (i - pos)]
        res(i) == IF block(i) = Bad THEN Corrupt ELSE data_lookup(block(i).es, k, max_seq)
        stop == {i \in pos .. last : res(i) # Truncated}
    IN  IF f = Bad THEN Corrupt
        ELSE IF bloom # Bad /\ ~(Probe[k] \subseteq bloom.bits) THEN Missing
        ELSE IF device[f.index] = Bad THEN Corrupt
        ELSE IF pos = 0 \/ stop = {} THEN Missing
        ELSE res(Min(stop))

\* Newest range tombstone at or below max_seq over k: 0 none, -1 bad block.
covering_rdel_seq_in(device, first, n, k, max_seq) ==
    LET bs == {device[b] : b \in first .. first + n - 1}
        rs == UNION {ToSet(b.rs) : b \in bs}
    IN  IF Bad \in bs THEN -1
        ELSE Max({0} \cup {r.seq : r \in
                {x \in rs : x.seq <= max_seq /\ x.key <= k /\ k < x.end}})

\* A reader that opened the footer finds the section from it.
covering_rdel_seq(device, t, k, max_seq) ==
    LET f == open_cached(device, t)
    IN  IF f = Bad THEN -1
        ELSE covering_rdel_seq_in(device, f.bloom - f.rdel_blocks, f.rdel_blocks, k, max_seq)

=============================================================================
