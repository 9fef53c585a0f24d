------------------------------- MODULE Select -------------------------------
(***************************************************************************)
(* The tree of tables of one Db handle, and which compaction job it takes  *)
(* next: the selection of src/db/compaction.rs with origin nodes, foreign  *)
(* tables that veto a job, and requested compactions.                      *)
(*                                                                         *)
(* levels[l + 1] is level l: level 0 oldest table first, the others in key *)
(* order.  A table's slot is used while it is in the tree; a job reserves  *)
(* the slot of its output.                                                 *)
(***************************************************************************)
EXTENDS Merge

CONSTANTS
    LEVELS, TABLES,     \* levels, and tables of a level that trigger a job
    SlotBlocks,         \* blocks of a slot
    MAX_SNAPSHOTS

VARIABLES
    mem,        \* the memtable
    levels,     \* the manifest's tables
    next_seq, next_id,
    snapshots,  \* live watermarks
    hint,       \* where the slot map looks first
    req,        \* the open request: manual_level, _mark, _start and _skip
    c           \* the compaction scratch

SLOTS == LEVELS * TABLES
COMPACTION_RESERVE == IF LEVELS >= 2 THEN 2 ELSE 0
COMPACTION_KMAX == 8
BOTTOM == LEVELS - 1
IdleJob == [state |-> "idle"]
NoRequest == [level |-> LEVELS, mark |-> 0, start |-> 0, skip |-> {}]

(***************************************************************************)
(* The manifest and the slot map                                           *)
(***************************************************************************)

level(l) == levels[l + 1]
tables(lv) == UNION {ToSet(lv[l]) : l \in DOMAIN lv}
attached(lv, id) == \E t \in tables(lv) : t.id = id
find_table(lv, id) == CHOOSE t \in tables(lv) : t.id = id

\* At level 0 the table goes last, below in key order.
add_table_to_level(lv, l, t) ==
    LET at == IF l = 0 THEN Len(lv[1])
              ELSE Cardinality({i \in DOMAIN lv[l + 1] : lv[l + 1][i].first_key < t.first_key})
    IN  [lv EXCEPT ![l + 1] = InsertAt(@, at + 1, t)]

remove_tables(lv, ids) == [l \in DOMAIN lv |-> SelectSeq(lv[l], LAMBDA t : t.id \notin ids)]

replace_table(lv, id, u) ==
    [l \in DOMAIN lv |-> [i \in DOMAIN lv[l] |-> IF lv[l][i].id = id THEN u ELSE lv[l][i]]]

Reserved == IF c.state = "idle" THEN {} ELSE {c.out_slot}
FreeSlots(lv, reserved) == (0 .. SLOTS - 1) \ ({t.slot : t \in tables(lv)} \cup reserved)
free_slots == Cardinality(FreeSlots(levels, Reserved))

\* Next-fit from the hint.
find_free(free, from) == CHOOSE s \in free : \A u \in free : (s - from) % SLOTS <= (u - from) % SLOTS

under_pressure == free_slots + Cardinality(Reserved) <= COMPACTION_RESERVE

(***************************************************************************)
(* Which level wants a job                                                 *)
(***************************************************************************)

wants_job(l, pressure) ==
    Len(level(l)) >= TABLES \/ (pressure /\ Len(level(l)) >= (IF l = 0 THEN 2 ELSE 1))

is_due(r, t) == t.id < r.mark /\ t.slot \notin r.skip
level_has_due(lv, r, l) == \E i \in DOMAIN lv[l + 1] : is_due(r, lv[l + 1][i])
deeper_has_tables(lv, l) == \E m \in l + 1 .. BOTTOM : lv[m + 1] # <<>>

manual_pending ==
    req.level # LEVELS /\ (level_has_due(levels, req, req.level) \/ deeper_has_tables(levels, req.level))

compaction_pending ==
    c.state # "idle" \/ manual_pending \/ \E l \in 0 .. BOTTOM - 1 : wants_job(l, under_pressure)

\* The request moves down to the first level with due tables, and ends when no
\* level has work.
manual_settle(lv, r, id) ==
    FoldLeft(LAMBDA q, i :
                IF q.level = LEVELS \/ level_has_due(lv, q, q.level) THEN q
                ELSE IF ~deeper_has_tables(lv, q.level) THEN NoRequest
                ELSE [q EXCEPT !.level = @ + 1, !.skip = {},
                               !.mark = IF q.level + 1 = BOTTOM THEN q.start ELSE id],
             r, [i \in 1 .. LEVELS |-> i])

(***************************************************************************)
(* Picking a job                                                           *)
(***************************************************************************)

ranges_overlap(first, last, t) == first <= t.last_key /\ t.first_key <= last
is_small(t) == t.block_count * 4 < SlotBlocks * 3
data_of(t) == Max({t.block_count - 3, 0})
DataOf(ts) == MapThenSumSet(LAMBDA i : data_of(ts[i]), DOMAIN ts)
output_capacity == Max({SlotBlocks - 5, 1})
job_need(data) == 1 + div_ceil(data, output_capacity)

first_of(ts) == Min({t.first_key : t \in ToSet(ts)})
last_of(ts) == Max({t.last_key : t \in ToSet(ts)})

\* Positions of the target-level tables that overlap [first, last].
overlap_run(ts, first, last) == {i \in DOMAIN ts : ranges_overlap(first, last, ts[i])}

eligible(t, node, pick, r) == t.node_id = node /\ (pick.manual => is_due(r, t))

\* The oldest tables, as many as the budget takes, one for a tight job.
pick_oldest(ts, tight, budget) ==
    LET fits(n) == ~tight /\ \A m \in 2 .. n : job_need(DataOf(SubSeq(ts, 1, m))) <= budget
    IN  SubSeq(ts, 1, Max({Min({1, Len(ts)})} \cup {n \in 2 .. Len(ts) : fits(n)}))

\* The first due table of the bottom level, and its small neighbours.
pick_rewrite(ts, node, due) ==
    LET joins(i) == ts[i].node_id = node /\ is_small(ts[i])
        lo == Min({i \in 1 .. due : due - i + 1 < COMPACTION_KMAX /\ \A j \in i .. due - 1 : joins(j)})
        hi == Max({i \in due .. Len(ts) : i - lo + 1 < COMPACTION_KMAX /\ \A j \in due + 1 .. i : joins(j)})
    IN  SubSeq(ts, lo, hi)

\* The table that overlaps the fewest below; of equals, the first.
pick_cheapest(ts, below) ==
    LET cost(t) == Cardinality(overlap_run(below, t.first_key, t.last_key))
        best == CHOOSE i \in DOMAIN ts : \A j \in DOMAIN ts :
                    cost(ts[i]) < cost(ts[j]) \/ (cost(ts[i]) = cost(ts[j]) /\ i <= j)
    IN  <<ts[best]>>

pick_sources(src, node, pick, budget, r) ==
    LET ts == SelectSeq(level(src), LAMBDA t : eligible(t, node, pick, r))
    IN  IF ts = <<>> THEN <<>>
        ELSE IF src = 0 THEN pick_oldest(ts, pick.tight, budget)
        ELSE IF src = BOTTOM
        THEN pick_rewrite(level(src), node, Min({i \in DOMAIN level(src) : level(src)[i] = ts[1]}))
        ELSE pick_cheapest(ts, level(src + 1))

\* The run of targets widened by a small table of the node on either side.
consolidated(ts, run, node, first, last) ==
    LET a == IF run # {} THEN Min(run) ELSE 1 + Cardinality({i \in DOMAIN ts : ts[i].last_key < first})
        b == a + Cardinality(run)
        joins(i) == i \in DOMAIN ts /\ ts[i].node_id = node /\ is_small(ts[i])
    IN  SubSeq(ts, IF joins(a - 1) THEN a - 1 ELSE a, IF joins(b) THEN b ELSE b - 1)

SlotsOf(ts) == {t.slot : t \in ToSet(ts)}

\* A table of another node lies in the job's range.
veto(ts, run, node) == \E i \in run : ts[i].node_id # node

\* What sources srcs of one node give, over the run they overlap below: a
\* job, a move, or nothing.  A request skips what is vetoed.
select_over(src, srcs, below, run, node, pick, budget, r) ==
    LET rewrite == src = BOTTOM
        tight == pick.tight \/ rewrite
        none == [kind |-> "none", skip |-> r.skip]
    IN  IF srcs = <<>> THEN none
        ELSE IF veto(below, run, node)
        THEN IF pick.manual /\ pick.tight
             THEN [none EXCEPT !.skip = @ \cup SlotsOf(srcs)] ELSE none
        ELSE IF src > 0 /\ ~rewrite /\ run = {} /\ ~is_small(srcs[1])
        THEN [kind |-> "move", skip |-> r.skip, src |-> src, table |-> srcs[1]]
        ELSE IF free_slots = 0 \/ (~tight /\ job_need(DataOf(srcs)) > budget) THEN none
        ELSE [kind |-> "merge", skip |-> r.skip, src |-> src, srcs |-> srcs,
              tgts |-> consolidated(below, run, node, first_of(srcs), last_of(srcs)),
              tight |-> tight, manual |-> pick.manual]

try_select_group(src, node, pick, r) ==
    LET below == IF src = BOTTOM THEN <<>> ELSE level(src + 1)
        over(srcs, budget) ==
            select_over(src, srcs, below, overlap_run(below, first_of(srcs), last_of(srcs)),
                        node, pick, budget, r)
        within(budget) == over(pick_sources(src, node, pick, budget, r), budget)
    IN  within(IF pick.manual THEN Max({free_slots - COMPACTION_RESERVE, 0}) ELSE free_slots)

\* The nodes of the level in order of appearance, the first that gives a job.
try_select(src, pick, r) ==
    LET due == SelectSeq(level(src), LAMBDA t : pick.manual => is_due(r, t))
        nodes == FoldLeft(LAMBDA ns, t : IF Contains(ns, t.node_id) THEN ns ELSE Append(ns, t.node_id),
                          <<>>, due)
    IN  FoldLeft(LAMBDA sel, n : IF sel.kind # "none" THEN sel
                                 ELSE try_select_group(src, n, pick, [r EXCEPT !.skip = sel.skip]),
                 [kind |-> "none", skip |-> r.skip], nodes)

\* The first choice, or else the second.
or_else(a, b) == IF a.kind # "none" THEN a ELSE b

manual_pick(r, tight) == try_select(r.level, [tight |-> tight, manual |-> TRUE], r)

\* Variant: what no job can take stays due.
manual_give_up_stuck(r, b) ==
    IF b.kind # "none" THEN b
    ELSE IF free_slots = 0 THEN [kind |-> "full", skip |-> b.skip]
    ELSE [kind |-> "skipped", skip |-> r.skip]

\* No job fits; b is the tight one, if any.  The tables no job can take are
\* skipped.
manual_give_up(r, b) ==
    IF b.kind # "none" THEN b
    ELSE IF free_slots = 0 THEN [kind |-> "full", skip |-> b.skip]
    ELSE [kind |-> "skipped",
          skip |-> IF b.skip # r.skip THEN b.skip
                   ELSE r.skip \cup SlotsOf(SelectSeq(level(r.level), LAMBDA t : is_due(r, t)))]

\* A job for the request: one that fits, else a tight one.
manual_select(r) ==
    IF r.level = LEVELS THEN [kind |-> "none", skip |-> r.skip]
    ELSE or_else(manual_pick(r, FALSE), manual_give_up(r, manual_pick(r, TRUE)))

\* Full levels first, deepest first, then those that region pressure wants.
Wanted ==
    LET down == [i \in 1 .. BOTTOM |-> BOTTOM - i]
        full == SelectSeq(down, LAMBDA l : wants_job(l, FALSE))
        pressed == SelectSeq(down, LAMBDA l : wants_job(l, under_pressure) /\ ~wants_job(l, FALSE))
    IN  full \o pressed

round(tight, r) ==
    FoldLeft(LAMBDA sel, l : IF sel.kind # "none" THEN sel
                             ELSE try_select(l, [tight |-> tight, manual |-> FALSE], r),
             [kind |-> "none", skip |-> r.skip], Wanted)

\* The jobs that fit, the request, then tight jobs.
compact_select(r) ==
    LET full == [kind |-> "full", skip |-> r.skip]
        last_resort == IF Wanted = <<>> THEN [kind |-> "idle", skip |-> r.skip]
                       ELSE IF free_slots > 0 THEN or_else(round(TRUE, r), full) ELSE full
    IN  or_else(round(FALSE, r), or_else(manual_select(r), last_resort))

(***************************************************************************)
(* Starting it                                                             *)
(***************************************************************************)

is_bottommost_output(l, first, last) ==
    \A m \in l + 1 .. BOTTOM : overlap_run(level(m), first, last) = {}

oldest_snapshot_seq == Min({TopSeq} \cup ToSet(snapshots))
min_seq == Min({TopSeq} \cup {mem[i].seq : i \in DOMAIN mem})
TopNode == Max(Nodes) + 1

\* Lexicographic minimum of (wall, node) pairs.
min_origin(S) == CHOOSE p \in S : \A q \in S : p[1] < q[1] \/ (p[1] = q[1] /\ p[2] <= q[2])

\* The least sequence number of the job's node, and the least origin of the
\* others, in what the job leaves outside.
outside_set(node, ins, first, last) ==
    LET out == {t \in tables(levels) : t \notin ins /\ ranges_overlap(first, last, t)}
        own == node = node_id
    IN  [same |-> Min({IF own THEN min_seq ELSE TopSeq} \cup
                      {t.min_seq : t \in {u \in out : u.node_id = node}}),
         foreign |-> min_origin({<<TopWall, IF own THEN TopNode ELSE node_id>>} \cup
                      {<<t.seal_wall, t.node_id>> : t \in {u \in out : u.node_id # node}})]

key_run_blocks(n) == 2 + n

\* A slot cannot hold the job's tombstone budget and one key's versions.
TableTooLarge(job) == job.data_budget < job.split_margin

\* The job over inputs ins; rdel is the blocks set aside for tombstones.
start_job(sel, ins, bottom, outside, rdel) ==
    [state |-> "merging", src |-> sel.src, tgt |-> Min({sel.src + 1, BOTTOM}), inputs |-> sel.srcs,
     tgts |-> [i \in DOMAIN sel.tgts |-> sel.tgts[i].id],
     src_retired |-> {}, tgt_retired |-> 0, outputs |-> 0,
     tight |-> sel.tight, manual |-> sel.manual, bottommost |-> bottom,
     job_node |-> sel.srcs[1].node_id, job_max_wall |-> Max({t.seal_wall : t \in ToSet(ins)}),
     outside_same_min |-> outside.same, outside_foreign_min |-> outside.foreign,
     snapshots |-> ToSet(snapshots), oldest_snapshot |-> oldest_snapshot_seq,
     rdel_budget |-> rdel, data_budget |-> SlotBlocks - rdel - 3,
     split_margin |-> key_run_blocks(Len(snapshots)),
     out_lo |-> first_of(ins), at |-> 0, out |-> {},
     out_slot |-> find_free(FreeSlots(levels, {}), hint),
     cover |-> [stream |-> RdelMerger(sel.srcs, sel.tgts, FALSE, oldest_snapshot_seq),
                active |-> {}, inexact |-> <<>>]]

compact_start(sel) ==
    LET over(ins, bottom) ==
            start_job(sel, ins, bottom,
                      outside_set(sel.srcs[1].node_id, ToSet(ins), first_of(ins), last_of(ins)),
                      blocks_bound(count_rdel_merge(
                          RdelMerger(sel.srcs, sel.tgts, bottom, oldest_snapshot_seq))))
        whole(ins) ==
            over(ins, is_bottommost_output(Min({sel.src + 1, BOTTOM}), first_of(ins), last_of(ins)))
    IN  whole(sel.srcs \o sel.tgts)

=============================================================================
