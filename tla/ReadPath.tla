------------------------------ MODULE ReadPath ------------------------------
(***************************************************************************)
(* Writes, flushes and reads of one handle, down to the blocks: the        *)
(* memtable, the table writer, point reads and both scans.  Tables are     *)
(* also split by a compaction's partial commit (db/compaction.rs), moved   *)
(* by an ingest (db/archive.rs) and damaged on the medium.  A scan borrows *)
(* the handle: nothing else changes while one is open.                     *)
(***************************************************************************)
EXTENDS Scan

CONSTANTS
    Keys,           \* 1 .. some n
    TABLES,         \* tables in a level
    SLOTS,          \* table slots on the device
    SlotBlocks,     \* blocks of a slot
    Seeds,          \* sequences of writes the memtable starts with
    Ops,            \* the writes that may follow: [key, op, end, expire_at]
    MaxSeq,         \* bound: writes
    MaxEvents,      \* bound: splits, moves, damaged blocks
    MaxFaults,      \* bound: device errors under a scan
    Ranges,         \* bound: <<start, end>> of forward scans
    RevRanges,      \* bound: <<from, lower>> of reverse scans
    Views,          \* bound: watermarks of scans
    Retries         \* may the caller call next again after an error?

ASSUME SlotAssumption == SlotBlocks >= max_flush_blocks(CAP, ARENA)

VARIABLES
    device,     \* block id -> block
    mem,        \* the memtable
    levels,     \* <<L0, L1>>, sequences of TableRefs
    log,        \* every write ever issued
    scan,       \* the open scan, or NoScan
    events,     \* splits, moves and damaged blocks so far
    faults      \* device errors so far

vars == <<device, mem, levels, log, scan, events, faults>>

NoScan == [dir |-> "none"]
next_seq == Cardinality(log) + 1

Blocks == 0 .. SLOTS * SlotBlocks - 1
slot_base(s) == s * SlotBlocks
tables == ToSet(levels[1]) \cup ToSet(levels[2])
free_slots == {s \in 0 .. SLOTS - 1 : \A t \in tables : t.first_block # slot_base(s)}

seeded(seed) ==
    FoldLeft(LAMBDA m, i : apply(m, slot(seed[i].key, i, seed[i].op, seed[i].end, seed[i].expire_at)),
             <<>>, [i \in DOMAIN seed |-> i])

Init ==
    /\ device = [b \in Blocks |-> Blank]
    /\ \E seed \in Seeds : mem = seeded(seed)
    /\ log = ToSet(mem)
    /\ levels = <<<<>>, <<>>>>
    /\ scan = NoScan
    /\ events = 0 /\ faults = 0

\* put, put_with_ttl, delete, delete_range: into the memtable, or an error.
write(op) ==
    LET s == slot(op.key, next_seq, op.op, op.end, op.expire_at)
    IN  /\ scan = NoScan /\ next_seq <= MaxSeq
        /\ plan(mem, s)
        /\ mem' = apply(mem, s)
        /\ log' = log \cup {s}
        /\ UNCHANGED <<device, levels, scan, events, faults>>

KeyMin(S) == IF S = {} THEN 0 ELSE Min(S)
KeyMax(S) == IF S = {} THEN 0 ELSE Max(S)

\* The TableRef of entries es and range tombstones rs at base.
table_ref(base, es, rs, n) ==
    LET all == ToSet(es) \cup ToSet(rs)
    IN  [first_block |-> base, block_count |-> n, rdel_blocks |-> plan_rdel_blocks(rs),
         first_key |-> KeyMin({e.key : e \in all}),
         last_key |-> KeyMax({e.key : e \in ToSet(es)} \cup {e.end : e \in ToSet(rs)}),
         max_seq |-> KeyMax({e.seq : e \in all}), min_seq |-> KeyMin({e.seq : e \in all}),
         node_id |-> node_id, seal_wall |-> 0]

flush_blocks(m) == plan_table(points(m)).blocks + plan_rdel_blocks(rdels(m)) + 3

flush_image(m, base) ==
    write_table(base, points(m), rdels(m), plan_table(points(m)).blocks,
                KeyMin({m[i].seq : i \in DOMAIN m}))

\* Plan, stream the blocks into a free slot, commit, clear the memtable.
flush ==
    /\ scan = NoScan
    /\ mem # <<>> /\ Len(levels[1]) < TABLES /\ free_slots # {}
    /\ plan_table(points(mem)).ok
    /\ LET base == slot_base(Min(free_slots))
           out == flush_image(mem, base)
       IN  /\ out.ok
           /\ device' = place(device, base, out.img)
           /\ levels' = [levels EXCEPT ![1] =
                Append(@, table_ref(base, points(mem), rdels(mem), flush_blocks(mem)))]
    /\ mem' = <<>>
    /\ UNCHANGED <<log, scan, events, faults>>

\* The live entries and range tombstones of a table, in order.
live_entries(t) ==
    SelectSeq(FlattenSeq([b \in 1 .. data_blocks(t) |-> device[data_first(t) + b - 1].es]),
              LAMBDA e : e.key >= t.first_key)
live_rdels(t) ==
    LET rs == FlattenSeq([b \in 1 .. t.rdel_blocks |-> device[rdel_first(t) + b - 1].rs])
        inside == SelectSeq(rs, LAMBDA r : r.end > t.first_key)
    IN  [i \in DOMAIN inside |-> [inside[i] EXCEPT !.key = Max({@, t.first_key})]]

Intact(t) == \A b \in t.first_block .. end_block(t) - 1 : device[b] # Bad

\* A compaction of the oldest L0 table commits its part below hi as a table of
\* L1 and narrows the input to [hi, ...), or retires it.  Every version kept.
split(hi) ==
    /\ scan = NoScan /\ events < MaxEvents
    /\ levels[1] # <<>> /\ levels[2] = <<>> /\ free_slots # {}
    /\ LET t == levels[1][1]
           es == SelectSeq(live_entries(t), LAMBDA e : e.key < hi)
           below == SelectSeq(live_rdels(t), LAMBDA r : r.key < hi)
           rs == [i \in DOMAIN below |-> [below[i] EXCEPT !.end = Min({@, hi})]]
           base == slot_base(Min(free_slots))
           out == write_table(base, es, rs, SlotBlocks - 3, KeyMin({e.seq : e \in ToSet(es \o rs)}))
       IN  /\ Intact(t) /\ es \o rs # <<>> /\ out.ok
           /\ device' = place(device, base, out.img)
           /\ levels' = << IF t.last_key >= hi
                           THEN [levels[1] EXCEPT ![1].first_key = Max({@, hi})]
                           ELSE Tail(levels[1]),
                           <<table_ref(base, es, rs, Len(out.img))>> >>
    /\ events' = events + 1
    /\ UNCHANGED <<mem, log, scan, faults>>

\* An archived table comes back into another slot: verified block by block,
\* copied, its pointers relocated.
ingest(i, j) ==
    /\ scan = NoScan /\ events < MaxEvents /\ free_slots # {}
    /\ j \in DOMAIN levels[i]
    /\ LET t == levels[i][j]
           dst == slot_base(Min(free_slots))
           moved == relocate_table([b \in 1 .. t.block_count |-> device[t.first_block + b - 1]], dst)
       IN  /\ Intact(t) /\ moved.ok
           /\ device' = place(device, dst, moved.img)
           /\ levels' = [levels EXCEPT ![i][j].first_block = dst]
    /\ events' = events + 1
    /\ UNCHANGED <<mem, log, scan, faults>>

\* The medium damages a block of a table (after the last write: damage and
\* writes commute).
Damage(b) ==
    /\ scan = NoScan /\ events < MaxEvents /\ next_seq > MaxSeq
    /\ \E t \in tables : b \in t.first_block .. end_block(t) - 1
    /\ device' = [device EXCEPT ![b] = Bad]
    /\ events' = events + 1
    /\ UNCHANGED <<mem, levels, log, scan, faults>>

(***************************************************************************)
(* Scans.                                                                  *)
(***************************************************************************)
get_at(k, w, now) ==
    read_point(mem, levels, k, w, now, [t \in tables |-> lookup_at(device, t, k, w)],
               [t \in tables |-> covering_rdel_seq(device, t, k, w)])

probe_in(k, w) ==
    [t \in tables |-> covering_rdel_seq_in(device, rdel_first(t), t.rdel_blocks, k, w)]

opened(curs) == IF \E i \in DOMAIN curs : curs[i].err THEN "failed" ELSE "open"

\* Scan::seek over [start, end).
seek(start, end, w, now) ==
    LET curs == seek_cursors(device, levels, start, end, w)
    IN  /\ scan = NoScan /\ next_seq > MaxSeq
        /\ scan' = [dir |-> "fwd", from |-> start, to |-> end, w |-> w, now |-> now,
                     m |-> advance_mem(mem, lower_bound(mem, start), start, w),
                     curs |-> curs, got |-> <<>>, st |-> opened(curs)]
        /\ UNCHANGED <<device, mem, levels, log, events, faults>>

\* RevScan::seek_prev over (lower, from].
seek_prev(from, lower, w, now) ==
    LET curs == seek_cursors_rev(device, levels, from, lower, w)
    IN  /\ scan = NoScan /\ next_seq > MaxSeq
        /\ scan' = [dir |-> "rev", from |-> from, to |-> lower, w |-> w, now |-> now,
                     m |-> advance_mem_rev(mem, lower_bound(mem, from + 1) - 1, w),
                     curs |-> curs, got |-> <<>>, st |-> opened(curs)]
        /\ UNCHANGED <<device, mem, levels, log, events, faults>>

\* The live heads in source order: the memtable, then the cursors.
mem_live == scan.m \in DOMAIN mem
cursor_live(i) == scan.curs[i].live
heads ==
    (IF mem_live THEN <<[e |-> mem[scan.m], ver |-> memtable_version(node_id, mem[scan.m].seq)]>>
     ELSE <<>>)
    \o LET c == SelectSeq(scan.curs, LAMBDA x : x.live)
       IN  [i \in DOMAIN c |-> [e |-> head(device, c[i]),
                                ver |-> table_version(c[i].t, head(device, c[i]).seq)]]
head_keys == {heads[i].e.key : i \in DOMAIN heads}

\* Among the heads on key k the highest version wins.
winner(k) ==
    FoldLeft(LAMBDA b, h : IF h.e.key = k /\ version_gt(h.ver, b.ver) THEN h ELSE b,
             [e |-> Missing, ver |-> ZERO], heads)

\* The cursors with every head on key k moved past it.
tied(i, k) == cursor_live(i) /\ head(device, scan.curs[i]).key = k
past(k) ==
    [i \in DOMAIN scan.curs |->
        IF tied(i, k)
        THEN park_cursor(device, [scan.curs[i] EXCEPT !.i = @ + 1], k + 1, scan.w)
        ELSE scan.curs[i]]
past_rev(k) ==
    [i \in DOMAIN scan.curs |->
        IF tied(i, k) THEN park_cursor_rev(device, scan.curs[i], k - 1, scan.w)
        ELSE scan.curs[i]]

\* A forward cursor re-parks on every further version of k.  When block b
\* cannot be read it stays on the last of them that is visible before b.
held(i, k, b) ==
    LET c == scan.curs[i]
        entry(x) == block_at(device, c, x[1]).es[x[2]]
        seen == {x \in (c.b .. b - 1) \X (1 .. BLOCK) :
                    /\ x[2] \in DOMAIN block_at(device, c, x[1]).es
                    /\ entry(x).key = k /\ entry(x).seq <= scan.w}
        x == CHOOSE x \in seen : \A y \in seen : entry(x).seq <= entry(y).seq
    IN  [c EXCEPT !.b = x[1], !.i = x[2]]

\* The first block on cursor i's way that cannot be read: a bad one of the
\* medium, or b when the device fails there under cursor f.
unread(i, f, b) ==
    LET c == scan.curs[i]
    IN  Min({p \in c.b + 1 .. data_blocks(c.t) : block_at(device, c, p) = Bad}
            \cup (IF i = f THEN {b} ELSE {}))

\* The cursors that meet an error: of the medium, or the device's at f.
stops(f, moved) == {i \in DOMAIN moved : i = f \/ moved[i].err}

\* They move cursor by cursor; an error on one stops the pass there, that
\* cursor as in stuck.
advance_past_key(moved, stuck) ==
    LET stop == Min({Len(moved) + 1} \cup DOMAIN stuck)
    IN  [ok |-> DOMAIN stuck = {},
         curs |-> [i \in DOMAIN moved |->
                    IF i < stop THEN moved[i] ELSE IF i = stop THEN stuck[i] ELSE scan.curs[i]]]

\* One round of next or prev on key k: yield the winner or pass over a hidden
\* one, then advance every head on k.  mem_past is the memtable's new head.
round(k, moved, stuck, mem_past) ==
    \E win \in {winner(k)} :
    \E cov \in {rdel_hides(mem, levels, k, scan.w, win.ver, probe_in(k, scan.w))} :
    \E adv \in {advance_past_key(moved, stuck)} :
        LET hidden == \/ win.ver.seq = 0 \/ win.e.op # "put" \/ cov = "yes"
                      \/ win.e.expire_at # 0 /\ win.e.expire_at <= scan.now
        IN  IF cov = "corrupt" THEN scan' = [scan EXCEPT !.st = "failed"]
            ELSE scan' = [scan EXCEPT
                    !.m = IF mem_live /\ mem[scan.m].key = k THEN mem_past ELSE @,
                    !.curs = adv.curs,
                    !.got = IF hidden \/ ~adv.ok THEN @ ELSE Append(@, win.e.seq),
                    !.st = IF adv.ok THEN "open" ELSE "failed"]

May == scan # NoScan /\ (scan.st = "open" \/ (Retries /\ scan.st = "failed"))

\* The blocks cursor f reads while it leaves key k for moved: those after its
\* own, up to the one it parks in or, exhausted, the last.
reads_on(c, moved) ==
    c.b + 1 .. (IF moved.live /\ ~moved.err THEN moved.b ELSE data_blocks(c.t))

\* Cursor f's device read fails.
Fault(f, k) ==
    /\ f # 0 => faults < MaxFaults /\ tied(f, k)
    /\ faults' = IF f = 0 THEN faults ELSE faults + 1

next ==
    /\ May /\ scan.dir = "fwd"
    /\ IF head_keys = {} \/ Min(head_keys \cup {TopKey}) >= scan.to
       THEN scan' = [scan EXCEPT !.st = "done"] /\ UNCHANGED faults
       ELSE LET k == Min(head_keys)
            IN  \E f \in 0 .. Len(scan.curs), moved \in {past(k)} :
                   /\ Fault(f, k)
                   /\ \E b \in IF f = 0 THEN {0} ELSE reads_on(scan.curs[f], moved[f]) :
                        round(k, moved, [i \in stops(f, moved) |-> held(i, k, unread(i, f, b))],
                              advance_mem(mem, scan.m + 1, k + 1, scan.w))
    /\ UNCHANGED <<device, mem, levels, log, events>>

\* A reverse cursor parks once, straight below k: it keeps its head.
prev ==
    /\ May /\ scan.dir = "rev"
    /\ IF head_keys = {} \/ Max(head_keys \cup {0}) <= scan.to
       THEN scan' = [scan EXCEPT !.st = "done"] /\ UNCHANGED faults
       ELSE LET k == Max(head_keys)
            IN  \E f \in 0 .. Len(scan.curs), moved \in {past_rev(k)} :
                   /\ Fault(f, k)
                   /\ f # 0 => moved[f].b # scan.curs[f].b
                   /\ round(k, moved, [i \in stops(f, moved) |-> scan.curs[i]],
                            advance_mem_rev(mem, lower_bound(mem, k) - 1, scan.w))
    /\ UNCHANGED <<device, mem, levels, log, events>>

Done == scan # NoScan /\ ~May /\ UNCHANGED vars

Next ==
    \/ \E op \in Ops : write(op)
    \/ flush
    \/ \E hi \in Keys : split(hi)
    \/ \E i \in 1 .. 2 : \E j \in DOMAIN levels[i] : ingest(i, j)
    \/ \E b \in Blocks : Damage(b)
    \/ \E r \in Ranges, w \in Views, now \in {0, 1} : seek(r[1], r[2], w, now)
    \/ \E r \in RevRanges, w \in Views, now \in {0, 1} : seek_prev(r[1], r[2], w, now)
    \/ next
    \/ prev
    \/ Done

Spec == Init /\ [][Next]_vars

(***************************************************************************)
(* Properties.                                                             *)
(***************************************************************************)

\* Every variable has its type; no table outgrows its slot.
TypeOK ==
    /\ DOMAIN device = Blocks /\ Len(levels) = 2
    /\ Len(mem) <= CAP /\ arena_len(mem) <= ARENA
    /\ \A t \in tables : end_block(t) <= t.first_block + SlotBlocks
    /\ scan # NoScan => scan.st \in {"open", "done", "failed"}

\* What key k reads as at watermark w and time now, from the history alone:
\* the sequence number of the newest write of k unless that is a deletion, is
\* under a newer range deletion, or has expired.
Truth(k, w, now) ==
    LET vs == {e \in log : e.key = k /\ e.op # "rdel" /\ e.seq <= w}
        top == CHOOSE e \in vs : \A x \in vs : x.seq <= e.seq
        covered == \E r \in log : /\ r.op = "rdel" /\ r.seq <= w /\ r.seq > top.seq
                                  /\ r.key <= k /\ k < r.end
    IN  IF vs = {} THEN 0
        ELSE IF top.op # "put" \/ covered \/ (top.expire_at # 0 /\ top.expire_at <= now)
        THEN 0 ELSE top.seq

Damaged == \E t \in tables : ~Intact(t)

\* get_at returns the newest visible value at every watermark, wherever its
\* versions lie: in the memtable, across restart regions and blocks of a
\* table, in a narrowed or relocated one.  With a damaged block it may report
\* corruption and never answers wrongly ("a silent stale read",
\* read_data_block).
GetRight ==
    scan = NoScan =>
        \A k \in Keys, w \in 1 .. MaxSeq, now \in {0, 1} :
            LET r == get_at(k, w, now)
            IN  r = Truth(k, w, now) \/ (r = -1 /\ Damaged)

\* The values a scan of the range has to yield, in order.
Expected ==
    LET ks == IF scan.dir = "fwd" THEN {k \in Keys : scan.from <= k /\ k < scan.to}
              ELSE {k \in Keys : scan.to < k /\ k <= scan.from}
        vis == {k \in ks : Truth(k, scan.w, scan.now) # 0}
        s == SetToSortSeq(vis, LAMBDA a, b : IF scan.dir = "fwd" THEN a < b ELSE a > b)
    IN  [i \in DOMAIN s |-> Truth(s[i], scan.w, scan.now)]

\* Scan::next and RevScan::prev yield each visible key of the range once, in
\* order, with its newest visible value, and nothing else; a scan that ends
\* without an error has yielded all of them, and only damage or a device
\* error makes one fail.
ScanRight ==
    scan # NoScan =>
        /\ IsPrefix(scan.got, Expected)
        /\ scan.st = "done" => scan.got = Expected
        /\ scan.st = "failed" => Damaged \/ faults > 0

\* Every round of next and prev ends the scan, fails, or leaves the key it
\* worked on for good: the least (greatest) head moves strictly, so a scan
\* over hidden versions cannot loop.
ScanAdvances ==
    [][ (scan # NoScan /\ scan'.st = "open") =>
            IF scan.dir = "fwd"
            THEN Min(head_keys' \cup {TopKey}) > Min(head_keys)
            ELSE Max(head_keys' \cup {0}) < Max(head_keys) ]_scan

\* Within the index block's room a memtable always flushes: plan_table and the
\* writer agree block by block, and the table never outgrows max_flush_blocks,
\* the slot size that open insists on.  INDEX_MAX never binds at these sizes:
\* a memtable with more data blocks than one index block can name is refused
\* by the flush (TableTooLarge), and nothing is said of it here.  (With the
\* types.)
FlushFits ==
    /\ TypeOK
    /\ mem # <<>> =>
        /\ plan_table(points(mem)).ok
        /\ flush_image(mem, 0).ok
        /\ Len(flush_image(mem, 0).img) = flush_blocks(mem)
        /\ flush_blocks(mem) <= max_flush_blocks(CAP, ARENA)

\* "Deleted keys are skipped silently" (Scan::next): a value the scan yields
\* belongs to a key that reads as present, after a device error too.
DeletedSkipped ==
    scan # NoScan =>
        \A e \in log : e.seq \in ToSet(scan.got) => Truth(e.key, scan.w, scan.now) # 0

=============================================================================
