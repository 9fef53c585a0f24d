-------------------------------- MODULE Scan --------------------------------
(***************************************************************************)
(* The cursors of src/scan.rs.  A scan holds one cursor per table that     *)
(* overlaps its range, parked on an entry of one of the table's data       *)
(* blocks, and a position in the memtable.  A forward cursor walks entries *)
(* and blocks upwards; a reverse cursor searches each block's restart      *)
(* regions backwards and, because a run stores its newest version first,   *)
(* follows a run into the earlier blocks.                                  *)
(***************************************************************************)
EXTENDS TableReader, Reads

TopKey == 100       \* above every key: "no bound"

\* A cursor on entry i of data block b (from 1) of table t.
cursor(t, b, i) == [t |-> t, b |-> b, i |-> i, live |-> TRUE, err |-> FALSE]

block_at(device, c, b) == device[data_first(c.t) + b - 1]
head(device, c) == block_at(device, c, c.b).es[c.i]

(***************************************************************************)
(* Forward.                                                                *)
(***************************************************************************)
\* The next entry from position i of block b on that is visible at w and at
\* or above floor, over as many blocks as it takes.
park_cursor(device, c, floor, w) ==
    LET es(b) == block_at(device, c, b).es
        from(b) == IF b = c.b THEN c.i ELSE 1
        hits(b) == {i \in from(b) .. Len(es(b)) : es(b)[i].seq <= w /\ es(b)[i].key >= floor}
        stops == {b \in c.b .. data_blocks(c.t) :
                    block_at(device, c, b) = Bad \/ hits(b) # {}}
    IN  IF stops = {} THEN [c EXCEPT !.live = FALSE]
        ELSE LET b == Min(stops)
             IN  IF block_at(device, c, b) = Bad THEN [c EXCEPT !.err = TRUE]
                 ELSE [c EXCEPT !.b = b, !.i = Min(hits(b))]

failed_cursor(t) == [cursor(t, 1, 1) EXCEPT !.err = TRUE]

\* The data block the index entry names, as a number from 1: its id relative
\* to where the manifest puts the table.
block_number(t, entry) == entry.id - data_first(t) + 1

\* The cursor on the first visible entry at or above start.  An index that
\* names a block outside the table is corrupt.
add_cursor(device, t, start, w) ==
    LET f == device[footer_block(t)]
        ix == device[f.index].ix
        pos == index_lookup(ix, start)
        b == IF pos = 0 THEN 1 ELSE block_number(t, ix[pos])
    IN  IF f = Bad THEN failed_cursor(t)
        ELSE IF device[f.index] = Bad THEN failed_cursor(t)
        ELSE IF b \notin 1 .. data_blocks(t) THEN failed_cursor(t)
        ELSE park_cursor(device, cursor(t, b, 1), start, w)

\* Tables the range [start, end) prunes away, and tables without data blocks,
\* get no cursor.  The live lower bound is a floor.
seek_cursors(device, levels, start, end, w) ==
    LET ts == SelectSeq(level_major(levels),
                        LAMBDA t : t.last_key >= start /\ t.first_key < end /\ data_blocks(t) > 0)
    IN  [i \in DOMAIN ts |-> add_cursor(device, ts[i], Max({start, ts[i].first_key}), w)]

\* Variant: the head steps to the next slot, of the same key too.
advance_mem_slot(mem, i, floor, w) ==
    Min({Len(mem) + 1} \cup {j \in i .. Len(mem) : mem[j].seq <= w /\ mem[j].op # "rdel"})

\* The first visible point slot from i on at or above floor; Len + 1: none.
advance_mem(mem, i, floor, w) ==
    Min({Len(mem) + 1} \cup {j \in i .. Len(mem) :
            mem[j].seq <= w /\ mem[j].op # "rdel" /\ mem[j].key >= floor})

(***************************************************************************)
(* Reverse.  A bound is the largest key that qualifies.                    *)
(***************************************************************************)
\* Position of the greatest qualifying entry of a block, its newest visible
\* version, or 0.  Regions are walked backwards from the last restart at or
\* below the bound; on a tie the earlier region's version wins, and the walk
\* ends when the next region starts below the best key.
walk_regions_rev(es, rstart, bound, w) ==
    LET start(j) == (j - 1) * RESTART_INTERVAL + 1
        region(j) == start(j) .. (IF j = rstart THEN Len(es) ELSE start(j + 1) - 1)
        visible(j) == {i \in region(j) : es[i].key <= bound /\ es[i].seq <= w}
        rbest(j) == IF visible(j) = {} THEN 0
                    ELSE LET k == Max({es[i].key : i \in visible(j)})
                         IN  Min({i \in visible(j) : es[i].key = k})
        best[j \in 1 .. rstart + 1] ==
            IF j = rstart + 1 THEN 0
            ELSE LET b == best[j + 1]
                     r == rbest(j)
                 IN  IF \/ r = 0
                        \/ b # 0 /\ j < rstart /\ es[start(j + 1)].key < es[b].key
                        \/ b # 0 /\ es[r].key < es[b].key
                     THEN b ELSE r
    IN  best[1]

search_block_rev(es, bound, w) ==
    LET rs == {r \in restarts(es) : es[r].key <= bound}
    IN  IF rs = {} THEN 0 ELSE walk_regions_rev(es, Cardinality(rs), bound, w)

\* Variant: a run is not followed into earlier blocks.
resolve_run_not(device, c, b, k, w) == <<0, 0>>

\* Newest visible version of k before block b, whose first key is k: block and
\* position, <<0, 0>> when there is none, <<-1, 0>> on a bad block.
resolve_run(device, c, b, k, w) ==
    LET es(p) == block_at(device, c, p).es
        run[p \in 0 .. b - 1] ==
            IF p = 0 THEN <<0, 0>>
            ELSE IF block_at(device, c, p) = Bad THEN <<-1, 0>>
            ELSE LET h == search_block_rev(es(p), k, w)
                 IN  IF h = 0 THEN <<0, 0>>
                     ELSE IF es(p)[h].key # k THEN <<0, 0>>
                     ELSE IF es(p)[1].key # k \/ run[p - 1] = <<0, 0>> THEN <<p, h>>
                     ELSE run[p - 1]
    IN  run[b - 1]

\* The greatest visible entry at or below bound, in this block or an earlier
\* one; below the table's live lower bound the cursor is done.
park_cursor_rev(device, c, bound, w) ==
    LET es(b) == block_at(device, c, b).es
        stops == {b \in 1 .. c.b : \/ block_at(device, c, b) = Bad
                                   \/ search_block_rev(es(b), bound, w) # 0}
        b == Max(stops)
        i == search_block_rev(es(b), bound, w)
        k == es(b)[i].key
        run == IF b > 1 /\ es(b)[1].key = k THEN resolve_run(device, c, b, k, w) ELSE <<0, 0>>
    IN  IF stops = {} THEN [c EXCEPT !.live = FALSE]
        ELSE IF block_at(device, c, b) = Bad THEN [c EXCEPT !.err = TRUE]
        ELSE IF k < c.t.first_key THEN [c EXCEPT !.live = FALSE]
        ELSE IF run = <<-1, 0>> THEN [c EXCEPT !.err = TRUE]
        ELSE IF run = <<0, 0>> THEN [c EXCEPT !.b = b, !.i = i]
        ELSE [c EXCEPT !.b = run[1], !.i = run[2]]

add_cursor_rev(device, t, from, w) ==
    LET f == device[footer_block(t)]
        ix == device[f.index].ix
        pos == index_last_le_block(ix, from)
        b == IF from = TopKey THEN data_blocks(t) ELSE block_number(t, ix[pos])
    IN  IF f = Bad THEN failed_cursor(t)
        ELSE IF device[f.index] = Bad THEN failed_cursor(t)
        ELSE IF from # TopKey /\ pos = 0 THEN [cursor(t, 1, 1) EXCEPT !.live = FALSE]
        ELSE IF b \notin 1 .. data_blocks(t) THEN failed_cursor(t)
        ELSE park_cursor_rev(device, cursor(t, b, 1), from, w)

\* Cursors for (lower, from].
seek_cursors_rev(device, levels, from, lower, w) ==
    LET ts == SelectSeq(level_major(levels),
                        LAMBDA t : t.first_key <= from /\ t.last_key > lower /\ data_blocks(t) > 0)
    IN  [i \in DOMAIN ts |-> add_cursor_rev(device, ts[i], from, w)]

\* The newest visible point slot of the greatest key at or below position i
\* that has one, 0 for none.  i is the last slot of a run.
advance_mem_rev(mem, i, w) ==
    LET at[j \in 0 .. Len(mem)] ==
            IF j = 0 THEN 0
            ELSE LET run == {x \in 1 .. j : mem[x].key = mem[j].key}
                     vis == {x \in run : mem[x].op # "rdel" /\ mem[x].seq <= w}
                 IN  IF vis # {} THEN Min(vis) ELSE at[Min(run) - 1]
    IN  at[i]

=============================================================================
