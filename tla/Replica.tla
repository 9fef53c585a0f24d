------------------------------ MODULE Replica ------------------------------
(***************************************************************************)
(* One Db handle that holds tables of several nodes: writes, flushes,      *)
(* snapshots, cached reads, compaction jobs with range tombstones and      *)
(* expiry, requested compactions, and the archive calls of                 *)
(* src/db/archive.rs.                                                      *)
(*                                                                         *)
(* Every call here succeeds or is refused: failing devices and crashes are *)
(* in Store, Wal and Manifest.  compact_step is a step that selects a job, *)
(* then one step for each key it merges and each output it seals, so other *)
(* calls come between its quanta at least as often as in the code.         *)
(***************************************************************************)
EXTENDS Select, Cache

CONSTANTS
    Scripts,        \* what the host writes, in order
    Foreign,        \* tables other nodes sealed and shipped
    Walls,          \* seal times the host stamps
    PurgeBefore,    \* expiry cutoff of a job
    Calls,          \* which calls the host makes
    MaxEvents       \* bound on snapshots, releases, requests and archive calls

VARIABLES
    cache,
    script,     \* what is left to write
    log,        \* every mutation accepted
    sink,       \* sealed tables a remote store holds
    events

tree == <<mem, levels, next_seq, next_id, hint>>
vars == <<mem, levels, next_seq, next_id, snapshots, hint, req, c, cache, script, log, sink, events>>

Now == PurgeBefore      \* reads use a time no job purged beyond
Keys == DOMAIN KeyLen
TopKey == Max(Keys) + 1
Event(name) == name \in Calls /\ events < MaxEvents /\ events' = events + 1

Init ==
    /\ mem = <<>>
    /\ levels = [l \in 1 .. LEVELS |-> <<>>]
    /\ next_seq = 0 /\ next_id = 1
    /\ snapshots = <<>>
    /\ hint = 0
    /\ req = NoRequest
    /\ c = IdleJob
    /\ cache = EmptyCache
    /\ script \in Scripts
    /\ log = {}
    /\ sink = Foreign
    /\ events = 0

(***************************************************************************)
(* Reads                                                                   *)
(***************************************************************************)

image(t) == [points |-> t.points, rdels |-> t.rdels]

newest_at(img, k, w) ==
    LET vs == {e \in img.points : e.key = k /\ e.seq <= w}
    IN  IF vs = {} THEN [op |-> "missing"] ELSE CHOOSE e \in vs : \A f \in vs : f.seq <= e.seq
covering_rdel_seq_in(img, k, w) ==
    Max({0} \cup {r.seq : r \in {r \in ToSet(img.rdels) : r.start <= k /\ k < r.end /\ r.seq <= w}})

lookup_at(t, k, w) == newest_at(image(t), k, w)
covering_rdel_seq(t, k, w) == covering_rdel_seq_in(image(t), k, w)

\* What the tree lv answers at view w and time now, from the device.
answer(m, lv, k, w, now) ==
    read_point(m, lv, k, w, now, [t \in tables(lv) |-> lookup_at(t, k, w)],
               [t \in tables(lv) |-> covering_rdel_seq(t, k, w)])

views == {TopSeq} \cup ToSet(snapshots)

\* The block of t read through the cache, and the cache after that.
block_of(ca, t) == IF hit(ca, <<t.id, t.slot>>) THEN cached(ca, <<t.id, t.slot>>) ELSE image(t)
read_block_cached(ca, t) ==
    IF hit(ca, <<t.id, t.slot>>) THEN get_into(ca, <<t.id, t.slot>>)
    ELSE cache_put(ca, <<t.id, t.slot>>, image(t), TRUE)

cached_answer(k, w) ==
    read_point(mem, levels, k, w, Now, [t \in tables(levels) |-> newest_at(block_of(cache, t), k, w)],
               [t \in tables(levels) |-> covering_rdel_seq_in(block_of(cache, t), k, w)])

\* The tables a read of k opens.
opened(k) ==
    LET m == mem_get_at(mem, k, TopSeq)
        a0 == IF m = 0 THEN read_acc
              ELSE take(read_acc, mem[m], memtable_version(node_id, mem[m].seq))
    IN  FoldLeft(LAMBDA s, t :
                    IF covers(t, k) /\ version_gt(table_version(t, t.max_seq), s.acc.ver)
                    THEN [acc |-> consider_table(s.acc, t, k, lookup_at(t, k, TopSeq),
                                                  covering_rdel_seq(t, k, TopSeq)),
                          seen |-> Append(s.seen, t)]
                    ELSE s,
                 [acc |-> a0, seen |-> <<>>], read_order(levels)).seen

get(k) ==
    /\ "get" \in Calls
    /\ cache' = FoldLeft(read_block_cached, cache, opened(k))
    /\ UNCHANGED <<tree, snapshots, req, c, script, log, sink, events>>

(***************************************************************************)
(* Writes, flush, snapshots                                                *)
(***************************************************************************)

write ==
    /\ script # <<>>
    /\ next_seq + 1 < TopSeq
    /\ LET o == Head(script)
           s == slot(o.key, next_seq + 1, o.op, o.end, o.expire_at)
       IN  plan(mem, s) /\ mem' = apply(mem, s) /\ log' = log \cup {s}
    /\ next_seq' = next_seq + 1
    /\ script' = Tail(script)
    /\ UNCHANGED <<levels, next_id, hint, snapshots, req, c, cache, sink, events>>

free_slot_for(blocks) ==
    /\ blocks <= SlotBlocks
    /\ free_slots + Cardinality(Reserved) > COMPACTION_RESERVE
    /\ free_slots > 0

new_slot == find_free(FreeSlots(levels, Reserved), hint)
\* Next-fit goes on past the slot taken.
after(s) == (s + 1) % SLOTS

\* The ref of a table of points ps and tombstones rs.
table_ref(id, s, ps, rs, first, last, node, wall) ==
    [id |-> id, slot |-> s, points |-> ps, rdels |-> rs, first_key |-> first, last_key |-> last,
     max_seq |-> Max({p.seq : p \in ps} \cup {r.seq : r \in ToSet(rs)}),
     min_seq |-> Min({p.seq : p \in ps} \cup {r.seq : r \in ToSet(rs)}),
     rdel_blocks |-> rdel_section_blocks(rs),
     block_count |-> Cardinality(ps) + rdel_section_blocks(rs) + 3,
     node_id |-> node, seal_wall |-> wall]

flush_tref ==
    LET ps == ToSet(points(mem))
        rs == [i \in DOMAIN rdels(mem) |->
                  [start |-> rdels(mem)[i].key, end |-> rdels(mem)[i].end, seq |-> rdels(mem)[i].seq]]
    IN  table_ref(next_id, new_slot, ps, rs,
                  Min({p.key : p \in ps} \cup {r.start : r \in ToSet(rs)}),
                  Max({p.key : p \in ps} \cup {r.end : r \in ToSet(rs)}), node_id, 0)

flush ==
    /\ mem # <<>> /\ Len(level(0)) < TABLES
    /\ free_slot_for(flush_tref.block_count)
    /\ levels' = add_table_to_level(levels, 0, flush_tref)
    /\ next_id' = next_id + 1
    /\ hint' = after(new_slot)
    /\ mem' = <<>>
    /\ UNCHANGED <<next_seq, snapshots, req, c, cache, script, log, sink, events>>

snapshot ==
    /\ Event("snapshot")
    /\ Len(snapshots) < MAX_SNAPSHOTS
    /\ snapshots' = Append(snapshots, next_seq)
    /\ UNCHANGED <<tree, req, c, cache, script, log, sink>>

\* The order of the registry is not observed: the code fills the gap with its
\* last watermark.
release_snapshot(i) ==
    /\ Event("release")
    /\ snapshots' = RemoveAt(snapshots, i)
    /\ UNCHANGED <<tree, req, c, cache, script, log, sink>>

(***************************************************************************)
(* Compaction                                                              *)
(***************************************************************************)

live_sources == {i \in DOMAIN c.inputs : i \notin c.src_retired}
live_targets ==
    [i \in 1 .. Len(c.tgts) - c.tgt_retired |-> find_table(levels, c.tgts[c.tgt_retired + i])]
live_inputs == {find_table(levels, c.inputs[i].id) : i \in live_sources} \cup ToSet(live_targets)

\* What is left to merge: each input from its first key on.
unread == UNION {{p \in t.points : p.key >= t.first_key /\ p.key > c.at} : t \in live_inputs}
min_key == Min({p.key : p \in unread})

\* The output ends before a key that might not fit its data budget.  (Its index
\* block is taken to be large enough.)
should_split == c.out # {} /\ Cardinality(c.out) - 1 + c.split_margin > c.data_budget

\* The request as compact_select leaves it: the jobs that fit come first.
request == IF round(FALSE, req).kind # "none" THEN req ELSE manual_settle(levels, req, next_id)

\* The request after a selection that starts no job.
unstarted(r, sel) ==
    manual_settle(levels, [r EXCEPT !.skip = sel.skip \cup
        (IF sel.kind = "merge" /\ sel.manual THEN SlotsOf(sel.srcs) ELSE {})], next_id)

\* compact_step selects: nothing, a table to move down, or a job.
compact_none(r, sel) ==
    /\ sel.kind \in {"idle", "full", "skipped"}
    /\ req' = unstarted(r, sel)
    /\ UNCHANGED <<levels, hint, c>>

move_down(r, sel) ==
    /\ sel.kind = "move"
    /\ levels' = add_table_to_level(remove_tables(levels, {sel.table.id}), sel.src + 1, sel.table)
    /\ req' = manual_settle(levels', [r EXCEPT !.skip = sel.skip], next_id)
    /\ UNCHANGED <<hint, c>>

compact_merge(r, sel) ==
    /\ sel.kind = "merge"
    /\ \E job \in {compact_start(sel)} :
          \/ /\ ~TableTooLarge(job)
             /\ c' = job /\ hint' = after(job.out_slot)
             /\ req' = [r EXCEPT !.skip = sel.skip]
          \/ /\ TableTooLarge(job)
             /\ req' = unstarted(r, sel)
             /\ UNCHANGED <<c, hint>>
    /\ UNCHANGED levels

select_step ==
    /\ c.state = "idle"
    /\ \E r \in {request} : \E sel \in {compact_select(r)} :
          compact_none(r, sel) \/ move_down(r, sel) \/ compact_merge(r, sel)
    /\ UNCHANGED <<mem, next_seq, next_id, snapshots, cache, script, log, sink, events>>

\* merge_step takes the next key.
merge_step ==
    /\ c.state = "merging" /\ unread # {} /\ ~should_split
    /\ LET cv == cover_key(c.cover, min_key, c.oldest_snapshot)
           vs == {p \in unread : p.key = min_key}
       IN  c' = [c EXCEPT !.at = min_key, !.cover = cv,
                          !.out = @ \cup merge_key(c, vs, key_cover(cv), PurgeBefore)]
    /\ UNCHANGED <<tree, snapshots, req, cache, script, log, sink, events>>

\* The range tombstones of an output that ends below hi.
output_rdels(hi) ==
    LET order == SetToSortSeq(live_sources, <)
        srcs == [i \in DOMAIN order |-> c.inputs[order[i]]]
        cut(rs) == [i \in DOMAIN rs |-> clip(rs[i], c.out_lo, hi)]
    IN  SelectSeq(cut(RdelMerger(srcs, live_targets, c.bottommost, c.oldest_snapshot)),
                  LAMBDA p : p.start < p.end /\ ~drops(c, p))

out_last == Max({p.key : p \in c.out})
live_inputs_last == Max({t.last_key : t \in live_inputs})

\* The sealed output, as a sequence: none when it holds nothing.
sealed_output(last, rs) ==
    LET ends == {Min({r.end, live_inputs_last}) : r \in ToSet(rs)}
        keys == {p.key : p \in c.out}
    IN  IF c.out = {} /\ rs = <<>> THEN <<>>
        ELSE <<table_ref(next_id, c.out_slot, c.out, rs,
                         Min(keys \cup {r.start : r \in ToSet(rs)}),
                         IF last THEN Max(keys \cup ends) ELSE out_last,
                         c.job_node, c.job_max_wall)>>

compact_seal_output(last) == sealed_output(last, output_rdels(IF last THEN TopKey ELSE out_last + 1))

\* The live inputs the commit retires.
retires(last) == {t \in live_inputs : last \/ t.last_key <= out_last}

tight_commit_ok(last, out) ==
    c.tight => c.outputs + Len(out)
               <= Cardinality(c.src_retired) + c.tgt_retired + Cardinality(retires(last))

\* Variant: an input that reaches past the output keeps its lower bound.
narrowed_never(t, last) == t

\* A live input after the commit: it starts past the output.
narrowed(t, last) ==
    IF ~last /\ t \in live_inputs /\ t.first_key <= out_last
    THEN [t EXCEPT !.first_key = out_last + 1] ELSE t

commit_edit(last, out) ==
    LET kept == remove_tables(levels, {t.id : t \in retires(last)})
        cut == [l \in DOMAIN kept |-> [i \in DOMAIN kept[l] |-> narrowed(kept[l][i], last)]]
    IN  IF out = <<>> THEN cut ELSE add_table_to_level(cut, c.tgt, out[1])

skip_sources == {c.inputs[i].slot : i \in live_sources}

\* A tight job whose commit would grow the region ends here.
compact_give_up ==
    /\ c' = IdleJob
    /\ req' = manual_settle(levels, IF c.manual THEN [req EXCEPT !.skip = @ \cup skip_sources] ELSE req,
                            next_id')
    /\ UNCHANGED <<levels, hint, cache>>

compact_commit(last, out) ==
    /\ levels' = commit_edit(last, out)
    /\ cache' = FoldSet(LAMBDA t, ca : invalidate_table(ca, t.id), cache, retires(last))
    /\ LET free == FreeSlots(levels', {})
           gone == retires(last)
       IN  IF last \/ free = {}
           THEN c' = IdleJob /\ UNCHANGED hint
           ELSE /\ c' = [c EXCEPT !.src_retired = @ \cup {i \in live_sources :
                                        \E t \in gone : t.id = c.inputs[i].id},
                                  !.tgt_retired = @ + Cardinality({i \in DOMAIN live_targets :
                                        live_targets[i] \in gone}),
                                  !.outputs = @ + 1, !.out = {}, !.out_lo = out_last + 1,
                                  !.out_slot = find_free(free, hint)]
                /\ hint' = after(c'.out_slot)
    /\ req' = IF c'.state = "idle" THEN manual_settle(levels', req, next_id') ELSE req

\* The output is full, or the inputs are exhausted: it is sealed and
\* committed, and the next one opened.
seal_step(last) ==
    /\ c.state = "merging"
    /\ IF last THEN unread = {} ELSE unread # {} /\ should_split
    /\ \E out \in {compact_seal_output(last)} :
           /\ next_id' = next_id + Len(out)
           /\ \/ tight_commit_ok(last, out) /\ compact_commit(last, out)
              \/ ~tight_commit_ok(last, out) /\ compact_give_up
    /\ UNCHANGED <<mem, next_seq, snapshots, script, log, sink, events>>

compact_step == select_step \/ merge_step \/ \E last \in BOOLEAN : seal_step(last)

\* The job of an older request is aborted.
request_compaction(l) ==
    /\ Event("request")
    /\ c' = IdleJob
    /\ req' = manual_settle(levels, [level |-> l, mark |-> next_id, start |-> next_id, skip |-> {}],
                            next_id)
    /\ UNCHANGED <<tree, snapshots, cache, script, log, sink>>

(***************************************************************************)
(* Archive, ingest, stamp                                                  *)
(***************************************************************************)

\* A missing wall is filled in once, and a legacy table claimed.
stamp_table(t, n, w) ==
    /\ Event("stamp")
    /\ <<n, w>> # <<t.node_id, t.seal_wall>> /\ t.seal_wall = 0 /\ t.node_id \in {n, 0}
    /\ levels' = replace_table(levels, t.id, [t EXCEPT !.node_id = n, !.seal_wall = w])
    /\ UNCHANGED <<mem, next_seq, next_id, hint, snapshots, req, c, cache, script, log, sink>>

sealed(t) == [t EXCEPT !.slot = SLOTS]

\* The host uploads the table it planned to archive.
archive_plan(t) ==
    /\ Event("archive")
    /\ sink' = sink \cup {sealed(t)}
    /\ UNCHANGED <<tree, snapshots, req, c, cache, script, log>>

\* Without table t, view w reads a value of k that it does not read now.
flips(t, k, w) ==
    /\ answer(mem, levels, k, w, 0) = 0
    /\ answer(mem, remove_tables(levels, {t.id}), k, w, 0) # 0

check_points_no_resurrection(t) ==
    \A p \in {q \in t.points : q.key >= t.first_key /\ q.op = "del"} :
        \A w \in views : p.seq <= w => ~flips(t, p.key, w)

\* Variant: only deeper tables are looked at.
check_rdel_deeper(t, r) ==
    \A l \in 1 .. BOTTOM : \A i \in DOMAIN level(l) :
        level(l)[i].id # t.id => ~ranges_overlap(r.start, r.end, level(l)[i])

\* No other table overlaps the tombstone, and no value of the memtable flips.
check_rdel_no_resurrection(t, r) ==
    /\ \A u \in tables(levels) : u.id # t.id => ~ranges_overlap(r.start, r.end, u)
    /\ \A w \in views : r.seq <= w =>
           \A i \in DOMAIN mem :
               mem[i].op = "put" /\ r.start <= mem[i].key /\ mem[i].key < r.end
                   => ~flips(t, mem[i].key, w)

check_no_resurrection(t) ==
    /\ check_points_no_resurrection(t)
    /\ \A r \in ToSet(t.rdels) : check_rdel_no_resurrection(t, r)

\* The uploaded table leaves the tree; a job that reads it is aborted.
archive_commit(t) ==
    /\ Event("archive")
    /\ \E s \in sink : s.id = t.id /\ s.node_id = t.node_id
    /\ check_no_resurrection(t)
    /\ c' = IF c.state = "merging" /\ t \in live_inputs THEN IdleJob ELSE c
    /\ levels' = remove_tables(levels, {t.id})
    /\ cache' = invalidate_table(cache, t.id)
    /\ UNCHANGED <<mem, next_seq, next_id, hint, snapshots, req, script, log, sink>>

\* Variant: an ingested id does not move the counter.
advance_next_table_id_kept(id) == next_id

\* The next id is past every id seen.
advance_next_table_id(id) == Max({next_id, id + 1})

\* A sealed table joins level 0; the running job is aborted.  An id that is
\* attached already is refused, or the call changes nothing.
ingest_table(s) ==
    /\ Event("ingest")
    /\ ~attached(levels, s.id)
    /\ Len(level(0)) < TABLES
    /\ free_slot_for(s.block_count)
    /\ c' = IdleJob
    /\ levels' = add_table_to_level(levels, 0, [s EXCEPT !.slot = new_slot])
    /\ hint' = after(new_slot)
    /\ next_id' = advance_next_table_id(s.id)
    /\ next_seq' = Max({next_seq, s.max_seq})
    /\ UNCHANGED <<mem, snapshots, req, cache, script, log, sink>>

Next ==
    \/ write \/ flush \/ snapshot
    \/ \E i \in DOMAIN snapshots : release_snapshot(i)
    \/ \E k \in Keys : get(k)
    \/ compact_step
    \/ \E l \in 0 .. BOTTOM : request_compaction(l)
    \/ \E t \in tables(levels) :
         \/ archive_plan(t) \/ archive_commit(t)
         \/ \E n \in Nodes, w \in Walls \cup {0} : stamp_table(t, n, w)
    \/ \E s \in sink : ingest_table(s)

Spec == Init /\ [][Next]_vars

\* compact_step changes something.
compact_due ==
    \/ c.state # "idle"
    \/ \E r \in {request} : \E sel \in {compact_select(r)} :
           \/ sel.kind = "move"
           \/ sel.kind = "merge" /\ ~TableTooLarge(compact_start(sel))
           \/ unstarted(r, sel) # req

\* A step of compact_step that changes something, as no other action looks.
compacts == UNCHANGED <<mem, events>> /\ <<levels, req, c>>' # <<levels, req, c>>

\* The host keeps calling compact_step.  This is WF_vars(compact_step), with
\* ENABLED <<compact_step>>_vars written out.
FairSpec == Spec /\ ([]<>~compact_due \/ []<><<compacts>>_vars)

(***************************************************************************)
(* Properties                                                              *)
(***************************************************************************)

Entry == [key : Keys, seq : 1 .. TopSeq, op : {"put", "del", "rdel"}, end : Nat, expire_at : Nat]

\* Every variable has its type.
TypeOK ==
    /\ ToSet(mem) \subseteq Entry /\ log \subseteq Entry
    /\ \A t \in tables(levels) : t.points \subseteq Entry /\ t.slot \in 0 .. SLOTS - 1
    /\ next_seq \in 0 .. TopSeq /\ next_id \in Nat /\ hint \in 0 .. SLOTS - 1
    /\ req.level \in 0 .. LEVELS
    /\ c.state \in {"idle", "merging"}

\* What the mutations accepted so far say of k at view w.
Truth(k, w) ==
    LET seen == {e \in log : e.seq <= w /\ (IF e.op = "rdel" THEN e.key <= k /\ k < e.end ELSE e.key = k)}
        last == CHOOSE e \in seen : \A f \in seen : f.seq <= e.seq
    IN  IF \/ seen = {} \/ last.op # "put" \/ (last.expire_at # 0 /\ last.expire_at <= Now)
        THEN 0 ELSE last.seq

\* Merging range tombstones, dropping what they hide, clipping them to the
\* outputs, purging expired values and narrowing the inputs never changes
\* what the live view or a snapshot reads, between any two steps of a job.
ReadsRight == \A k \in Keys, w \in views : answer(mem, levels, k, w, Now) = Truth(k, w)

\* Below level 0 tables are in key order and share no key, though outputs are
\* bounded by clipped tombstones and inputs are narrowed under a running job;
\* ids and slots name one table each, and every table lies in its bounds.
\* (With the types.)
TreeOk ==
    /\ TypeOK
    /\ \A l \in 1 .. BOTTOM : \A i, j \in DOMAIN level(l) :
           i < j => level(l)[i].last_key < level(l)[j].first_key
    /\ \A t, u \in tables(levels) : t # u => t.id # u.id /\ t.slot # u.slot
    /\ \A t \in tables(levels) :
           /\ t.id < next_id /\ t.slot \notin Reserved
           /\ t.first_key <= t.last_key
           /\ \A p \in t.points : p.key <= t.last_key

\* The budget a job sets aside from the dry run of its tombstones holds each
\* output's share, and the split margin each key's versions: no job that
\* started fails with TableTooLarge.
SealFits ==
    c.state = "merging" =>
        /\ Cardinality(c.out) <= c.data_budget
        /\ unread = {} => rdel_section_blocks(output_rdels(TopKey)) <= c.rdel_budget
        /\ unread # {} /\ should_split =>
               rdel_section_blocks(output_rdels(out_last + 1)) <= c.rdel_budget

\* Archiving a table never brings a deleted key back, in the live view or in a
\* snapshot: check_no_resurrection finds every value that the table's point
\* and range tombstones alone hide, in tables of any level and any node.
ArchiveNeverResurrects ==
    [][events' # events /\ levels' # levels /\ tables(levels') \subseteq tables(levels) =>
           \A k \in Keys, w \in views :
               answer(mem, levels, k, w, 0) = 0 => answer(mem', levels', k, w, 0) = 0]_vars

\* The tables of other nodes that lie over what is left of the job.
foreign_outside ==
    {u \in tables(levels) \ live_inputs :
        u.node_id # c.job_node /\ ranges_overlap(c.out_lo, live_inputs_last, u)}

\* No such table is below the origin the drop gate took for them all: none was
\* flushed since, under another node's job, with wall 0.
GateFresh ==
    \A u \in foreign_outside :
        ~origin_less(u.seal_wall, u.node_id, c.outside_foreign_min[1], c.outside_foreign_min[2])

\* Under the node and wall of the output each input keeps its place among
\* those tables: it was not stamped since the job started, and no wall it is
\* merged with lies past one of theirs.
PlacesKept ==
    \A t \in live_inputs :
        /\ t.node_id = c.job_node
        /\ \A u \in foreign_outside :
               origin_less(t.seal_wall, t.node_id, u.seal_wall, u.node_id)
                   <=> origin_less(c.job_max_wall, c.job_node, u.seal_wall, u.node_id)

\* No table of another node lies, by its wall, above the newer and below the
\* older of two tables of one node with a key in common: their versions would
\* go round in a circle, and the order the tables are read in would decide.
NoCircle ==
    \A k \in Keys : \A t, u, f \in {x \in tables(levels) : covers(x, k)} :
        /\ t.node_id = u.node_id /\ f.node_id # t.node_id /\ t.min_seq < u.max_seq
        /\ origin_less(f.seal_wall, f.node_id, t.seal_wall, t.node_id)
        => origin_less(f.seal_wall, f.node_id, u.seal_wall, u.node_id)

\* A step that moves a table down or commits an output of a job.
commits == compacts /\ levels' # levels

SameReads ==
    \A k \in Keys, w \in views :
        answer(mem', levels', k, w, Now) = answer(mem, levels, k, w, Now)

\* A compaction never changes what is read: a tombstone is dropped only when
\* "nothing outside the job can hold an older version it hides", whatever the
\* host does between two quanta of the job.
CompactionSafe == [][commits => SameReads]_vars

\* A compaction changes nothing that is read, though the tables of several
\* nodes lie over one another, as long as no versions go round in a circle
\* and, for a merge, its drop gate is fresh and its inputs keep their places:
\* a job that would merge across another node's table is vetoed, and a
\* tombstone is dropped only when nothing it hides, of its own node or another,
\* is left outside the job.
CompactionKeepsReads ==
    [][commits /\ NoCircle /\ (c.state = "merging" => GateFresh /\ PlacesKept) => SameReads]_vars

\* A read through the cache gives what the device holds, though a table that
\* is archived or compacted away and a foreign one ingested later may share
\* an id and a slot.
CacheCoherent == \A k \in Keys : cached_answer(k, TopSeq) = answer(mem, levels, k, TopSeq, Now)

\* A requested compaction ends once compact_step keeps being called, whatever
\* tables of other nodes veto its jobs and whatever else the host does,
\* unless the region has no free slot.
RequestEnds == req.level # LEVELS ~> (req.level = LEVELS \/ free_slots = 0)

=============================================================================
