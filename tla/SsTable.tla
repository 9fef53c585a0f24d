------------------------------ MODULE SsTable ------------------------------
(***************************************************************************)
(* The table format of src/sstable.rs, block by block:                     *)
(*     [data]* [rdel]* [bloom] [index] [footer].                           *)
(* A block is a record; its bytes are counted in units, its entries are    *)
(* memtable slots.  Data blocks are packed greedily with a restart point   *)
(* every RESTART_INTERVAL entries, so one key's run of versions may cross  *)
(* restart points and blocks.                                              *)
(***************************************************************************)
EXTENDS Integers, Sequences, FiniteSets, FiniteSetsExt, SequencesExt

CONSTANTS
    BLOCK,              \* units in a block
    RESTART_INTERVAL,   \* entries per restart point
    MAX_ENTRIES,        \* entries a data block may hold
    INDEX_MAX,          \* index entries that fit the index block
    ENTRY_HEADER,       \* units of a point entry besides key, value, expiry
    RDEL_HEADER,        \* units of a range tombstone besides its bounds
    Probe               \* key -> its bloom bit positions

Blank == [kind |-> "blank"]
Bad == [kind |-> "bad"]          \* fails its CRC
Missing == [op |-> "missing", seq |-> 0, expire_at |-> 0]
Corrupt == [op |-> "corrupt", seq |-> 0, expire_at |-> 0]

(***************************************************************************)
(* Packing.                                                                *)
(***************************************************************************)
entry_len(e) ==
    ENTRY_HEADER + 1 + (IF e.op = "del" THEN 0 ELSE 1) + (IF e.expire_at # 0 THEN 1 ELSE 0)

entry_fits(payload, entries, elen) ==
    /\ entries < MAX_ENTRIES
    /\ payload + elen + (entries \div RESTART_INTERVAL + 1) + 1 <= BLOCK

payload_of(es) == FoldLeft(LAMBDA n, e : n + entry_len(e), 0, es)
fits(es, e) == entry_fits(payload_of(es), Len(es), entry_len(e))

\* Pass 1: how many data blocks the entries take.
plan_table(es) ==
    FoldLeft(LAMBDA p, e :
                LET elen == entry_len(e)
                    roll == ~entry_fits(p.payload, p.n, elen)
                IN  IF ~p.ok \/ (roll /\ (p.n = 0 \/ ~entry_fits(0, 0, elen)))
                    THEN [p EXCEPT !.ok = FALSE]
                    ELSE IF roll
                    THEN [p EXCEPT !.blocks = @ + 1, !.payload = elen, !.n = 1]
                    ELSE [p EXCEPT !.blocks = IF p.n = 0 THEN @ + 1 ELSE @,
                                   !.payload = @ + elen, !.n = @ + 1],
             [blocks |-> 0, payload |-> 0, n |-> 0, ok |-> TRUE], es)

\* Pass 2: the writer's sealed blocks and its staging block.
new_writer == [data |-> <<>>, cur |-> <<>>, ok |-> TRUE]

\* The sealed block takes one entry of the index block.
seal_current(w) ==
    IF Len(w.data) >= INDEX_MAX
    THEN [w EXCEPT !.ok = FALSE]
    ELSE [w EXCEPT !.data = Append(@, w.cur), !.cur = <<>>]

\* Variant: the block limit is off by one.
push_limit_early(w, e, limit) ==
    IF ~w.ok THEN w
    ELSE IF fits(w.cur, e) THEN [w EXCEPT !.cur = Append(@, e)]
    ELSE LET s == seal_current(w)
         IN  IF w.cur = <<>> \/ Len(w.data) + 2 >= limit \/ ~s.ok \/ ~fits(<<>>, e)
             THEN [w EXCEPT !.ok = FALSE]
             ELSE [s EXCEPT !.cur = <<e>>]

push(w, e, limit) ==
    IF ~w.ok THEN w
    ELSE IF fits(w.cur, e) THEN [w EXCEPT !.cur = Append(@, e)]
    ELSE LET s == seal_current(w)
         IN  IF w.cur = <<>> \/ Len(w.data) + 2 > limit \/ ~s.ok \/ ~fits(<<>>, e)
             THEN [w EXCEPT !.ok = FALSE]
             ELSE [s EXCEPT !.cur = <<e>>]

seal_data(w, limit) ==
    IF ~w.ok \/ w.cur = <<>> THEN w
    ELSE IF Len(w.data) >= limit THEN [w EXCEPT !.ok = FALSE]
    ELSE seal_current(w)

rdel_entry_len == RDEL_HEADER + 2

\* The range-tombstone section, packed greedily.
write_rdel_blocks(rs) ==
    FoldLeft(LAMBDA bs, r :
                IF bs # <<>> /\ (Len(Last(bs)) + 1) * rdel_entry_len + 1 <= BLOCK
                THEN [bs EXCEPT ![Len(bs)] = Append(@, r)]
                ELSE Append(bs, <<r>>),
             <<>>, rs)

plan_rdel_blocks(rs) ==
    FoldLeft(LAMBDA p, r :
                IF p.payload = 0 \/ p.payload + rdel_entry_len + 1 > BLOCK
                THEN [blocks |-> p.blocks + 1, payload |-> rdel_entry_len]
                ELSE [p EXCEPT !.payload = @ + rdel_entry_len],
             [blocks |-> 0, payload |-> 0], rs).blocks

\* Blocks that greedy packing can need for n entries of at most emax units.
packed_blocks_bound(total, n, emax, room, per_block) ==
    IF n = 0 THEN 0
    ELSE LET by_bytes == IF room > emax THEN total \div (room - emax + 1) ELSE n
         IN  Min({by_bytes + n \div per_block + 1, n})

\* A full memtable as a data section and as a range-tombstone section.
max_flush_blocks(cap, arena) ==
    packed_blocks_bound(arena + cap * (ENTRY_HEADER + 1), cap, ENTRY_HEADER + 3,
                        BLOCK - (MAX_ENTRIES \div RESTART_INTERVAL + 1), MAX_ENTRIES)
    + packed_blocks_bound(arena + cap * RDEL_HEADER, cap, rdel_entry_len,
                          BLOCK - 1, cap + 1)
    + 3

(***************************************************************************)
(* The image of a table at block base.                                     *)
(***************************************************************************)
bloom_bits(es) == UNION {Probe[es[i].key] : i \in DOMAIN es}

\* Bloom, index and footer behind the two sections.
finish_meta(base, data, rblocks, es, min_seq) ==
    LET bloom == base + Len(data) + Len(rblocks)
    IN  << [kind |-> "bloom", bits |-> bloom_bits(es)],
           [kind |-> "index", ix |-> [i \in DOMAIN data |->
                [first |-> data[i][1].key, id |-> base + i - 1]]],
           [kind |-> "footer", index |-> bloom + 1, bloom |-> bloom,
            rdel_blocks |-> Len(rblocks), min_seq |-> min_seq] >>

\* ok is FALSE when the writer refuses (TableTooLarge).
write_table(base, es, rs, limit, min_seq) ==
    LET w == seal_data(FoldLeft(LAMBDA x, e : push(x, e, limit), new_writer, es), limit)
        rb == write_rdel_blocks(rs)
    IN  [ok |-> w.ok,
         img |-> [i \in DOMAIN w.data |-> [kind |-> "data", es |-> w.data[i]]]
                 \o [i \in DOMAIN rb |-> [kind |-> "rdel", rs |-> rb[i]]]
                 \o finish_meta(base, w.data, rb, es, min_seq),
         rdel_blocks |-> Len(rb)]

place(device, base, img) ==
    [b \in DOMAIN device |-> IF b \in base .. base + Len(img) - 1
                             THEN img[b - base + 1] ELSE device[b]]

\* The index's data-block ids and the footer's pointers, moved from the base
\* that the footer's own bloom pointer implies.
relocate_index_entries(ix, old_base, dst) ==
    [i \in DOMAIN ix |-> [ix[i] EXCEPT !.id = dst + (@ - old_base)]]

\* The copied image img at dst; a bad footer or index is refused.
relocate_table(img, dst) ==
    LET n == Len(img)
        f == img[n]
        ix == img[n - 1]
        old_base == f.bloom - (n - 3)
        bloom == dst + n - 3
    IN  IF f = Bad \/ ix = Bad \/ f.index # f.bloom + 1 THEN [ok |-> FALSE, img |-> img]
        ELSE [ok |-> TRUE,
              img |-> [img EXCEPT
                        ![n - 1].ix = relocate_index_entries(@, old_base, dst),
                        ![n] = [@ EXCEPT !.index = bloom + 1, !.bloom = bloom]]]

=============================================================================
