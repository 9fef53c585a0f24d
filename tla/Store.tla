------------------------------- MODULE Store -------------------------------
(***************************************************************************)
(* The table store of Db: the slot map of src/slots.rs, the flush of       *)
(* src/db/flush.rs, the compaction of src/db/compaction.rs with the merge  *)
(* of src/compact.rs, snapshots, and open.                                 *)
(*                                                                         *)
(* A record is a key, a sequence number and whether it deletes.  An entry  *)
(* fills a block, so sizes in blocks are numbers of records.  A table is   *)
(* its manifest ref; its records are on the medium, in its slot.  Appends  *)
(* to the log and manifest commits are one step each (modules Wal and      *)
(* Manifest); the table blocks are streamed before the commit, and a write *)
(* begun and not finished leaves the slot torn.                            *)
(*                                                                         *)
(* One node, no range tombstones, no expiry, no requested compactions.     *)
(***************************************************************************)
EXTENDS Integers, Sequences, FiniteSets, FiniteSetsExt, Functions

CONSTANTS
    Keys,           \* keys, a set of positive integers
    LEVELS, TABLES, \* levels, and tables of a level that trigger a job
    CAP,            \* entries of the memtable
    SlotBlocks,     \* blocks of a slot
    MAX_SNAPSHOTS,
    Seed,           \* records an earlier life left in a bottom-level table
    Scratches,      \* compaction scratches the host owns
    NoScratch,
    MaxSeq,         \* bound on the sequence numbers issued
    MaxTroubles,    \* bound on failed operations, dropped futures and scratches,
                    \* jobs taken over, handles reopened, and crashes
    Lying           \* a commit that failed or was dropped may have landed

ASSUME StoreAssumption ==
    /\ Keys \subseteq Nat \ {0}
    /\ LEVELS \in Nat /\ LEVELS >= 2 /\ TABLES \in Nat \ {0}
    /\ CAP \in Nat \ {0} /\ MAX_SNAPSHOTS \in Nat /\ MaxSeq \in Nat
    /\ SlotBlocks \in Nat /\ SlotBlocks >= CAP + 3 /\ SlotBlocks >= MAX_SNAPSHOTS + 5
    /\ NoScratch \notin Scratches /\ Lying \in BOOLEAN

VARIABLES
    medium,     \* what each slot holds
    man,        \* the handle's manifest
    dman,       \* the manifest recovery would find
    slots,      \* SlotMap: used, reserved, hint
    mem,        \* records in the memtable
    log,        \* records acknowledged, all of them logged
    next_seq,
    snapshots,  \* live watermarks
    job,        \* the scratch whose job is active
    c,          \* Compaction: the state of each scratch
    pc,         \* the operation in progress
    troubles    \* how many of these there were

vars == <<medium, man, dman, slots, mem, log, next_seq, snapshots, job, c, pc, troubles>>

SLOTS == LEVELS * TABLES
SlotIds == 0 .. SLOTS - 1
COMPACTION_RESERVE == IF LEVELS >= 2 THEN 2 ELSE 0
Record == [key : Keys, seq : 1 .. MaxSeq, del : BOOLEAN]
Torn == {[key |-> 0, seq |-> 0, del |-> FALSE]}
TopSeq == MaxSeq + 1   \* u64::MAX

ASSUME SeedAssumption ==
    /\ Seed \subseteq Record
    /\ IsFiniteSet(Seed) /\ Cardinality(Seed) <= SlotBlocks - 3
    /\ \A r, q \in Seed : r.seq = q.seq => r = q

(***************************************************************************)
(* The slot map                                                            *)
(***************************************************************************)

Free(sl) == SlotIds \ (sl.used \cup sl.reserved)
free_slots(sl) == Cardinality(Free(sl))

\* The next free slot, next-fit from the hint.
find_free(sl) ==
    CHOOSE s \in Free(sl) :
        \A u \in Free(sl) : (s - sl.hint) % SLOTS <= (u - sl.hint) % SLOTS

\* Variant: the hint runs off the end of the region.
set_hint_after_unwrapped(sl, s) == [sl EXCEPT !.hint = s + 1]

set_hint_after(sl, s) == [sl EXCEPT !.hint = (s + 1) % SLOTS]

claim(sl, s) == [set_hint_after(sl, s) EXCEPT !.used = @ \cup {s}]
reserve(sl) == [set_hint_after(sl, find_free(sl)) EXCEPT !.reserved = @ \cup {find_free(sl)}]
commit(sl, s) == [sl EXCEPT !.reserved = @ \ {s}, !.used = @ \cup {s}]
release(sl, s) == [sl EXCEPT !.reserved = @ \ {s}]

release_all(sl) == [sl EXCEPT !.reserved = {}]
free(sl, S) == [sl EXCEPT !.used = @ \ S]

under_pressure(sl) == free_slots(sl) + Cardinality(sl.reserved) <= COMPACTION_RESERVE

(***************************************************************************)
(* Tables and reads                                                        *)
(***************************************************************************)

Level(l) == {t \in man.tables : t.level = l}
ranges_overlap(first, last, t) == first <= t.hi /\ t.lo <= last

\* What a reader finds in table t: its bounds hide the rest of the slot.
Contents(t) == {r \in medium[t.slot] : t.lo <= r.key /\ r.key <= t.hi}
TableRecords(m) == UNION {Contents(t) : t \in m.tables}

Versions(recs, k, max_seq) == {r \in recs : r.key = k /\ r.seq <= max_seq}
newest(v) == CHOOSE r \in v : \A o \in v : o.seq <= r.seq

\* The highest version at or below max_seq; 0 for none, or a tombstone.
get_at(recs, k, max_seq) ==
    LET v == Versions(recs, k, max_seq)
    IN  IF v = {} \/ newest(v).del THEN 0 ELSE newest(v).seq

\* The ref of a table holding recs.  Its slot stands for its id.
tref(level, slot, recs) ==
    [level |-> level, slot |-> slot,
     lo |-> Min({r.key : r \in recs}), hi |-> Max({r.key : r \in recs}),
     data |-> Cardinality(recs),
     min_seq |-> Min({r.seq : r \in recs}), max_seq |-> Max({r.seq : r \in recs})]

min_seq(recs) == Min({TopSeq} \cup {r.seq : r \in recs})

(***************************************************************************)
(* States                                                                  *)
(***************************************************************************)

IdleScratch ==
    [state |-> "idle", ins |-> {}, n_ins |-> 0, level |-> 0, at |-> 0, out |-> {}, outputs |-> 0,
     retired |-> 0, tight |-> FALSE, snaps |-> {}, margin |-> 2, bottommost |-> FALSE, outside |-> TopSeq,
     slot |-> 0]

NoOp == [op |-> "none"]
EmptySlots == [used |-> {}, reserved |-> {}, hint |-> 0]

\* The slot maps open may rebuild from the manifest.  The hint goes after
\* the slot of the table with the highest id: ids are abstracted, so any.
rebuilt ==
    LET used == {t.slot : t \in dman.tables}
    IN  IF used = {} THEN {EmptySlots}
        ELSE {set_hint_after([EmptySlots EXCEPT !.used = used], i) : i \in used}

\* A fresh device, or one whose only table reached the bottom level before
\* this handle opened it.
Settled ==
    IF Seed = {} THEN [tables |-> {}, flushed |-> 0, seq_high |-> 0]
    ELSE LET top == Max({r.seq : r \in Seed})
         IN  [tables |-> {tref(LEVELS - 1, 0, Seed)}, flushed |-> top, seq_high |-> top]

Init ==
    /\ medium = [i \in SlotIds |-> IF i = 0 THEN Seed ELSE {}]
    /\ man = Settled
    /\ dman = Settled
    /\ slots \in rebuilt
    /\ mem = {}
    /\ log = Seed
    /\ next_seq = Settled.seq_high
    /\ snapshots = <<>>
    /\ job = NoScratch
    /\ c = [s \in Scratches |-> IdleScratch]
    /\ pc = NoOp
    /\ troubles = 0

Ready == pc = NoOp
Trouble == troubles < MaxTroubles /\ troubles' = troubles + 1

(***************************************************************************)
(* Writes and snapshots                                                    *)
(***************************************************************************)

\* put and delete, once their record is in the log.
put(k, del) ==
    /\ Ready
    /\ Cardinality(mem) < CAP
    /\ next_seq < MaxSeq
    /\ LET r == [key |-> k, seq |-> next_seq + 1, del |-> del]
       IN  mem' = mem \cup {r} /\ log' = log \cup {r}
    /\ next_seq' = next_seq + 1
    /\ UNCHANGED <<medium, man, dman, slots, snapshots, job, c, pc, troubles>>

snapshot ==
    /\ Ready
    /\ Len(snapshots) < MAX_SNAPSHOTS
    /\ snapshots' = Append(snapshots, next_seq)
    /\ UNCHANGED <<medium, man, dman, slots, mem, log, next_seq, job, c, pc, troubles>>

\* The last watermark fills the gap.
release_snapshot(i) ==
    /\ Ready
    /\ LET n == Len(snapshots)
       IN  snapshots' = [j \in 1 .. n - 1 |-> snapshots[IF j = i THEN n ELSE j]]
    /\ UNCHANGED <<medium, man, dman, slots, mem, log, next_seq, job, c, pc, troubles>>

(***************************************************************************)
(* Flush                                                                   *)
(***************************************************************************)

\* flush found room and streams the memtable into a free slot.
flush ==
    /\ Ready
    /\ mem # {}
    /\ Cardinality(Level(0)) < TABLES
    /\ ~under_pressure(slots) /\ Free(slots) # {}
    /\ pc' = [op |-> "flush", slot |-> find_free(slots)]
    /\ medium' = [medium EXCEPT ![find_free(slots)] = Torn]
    /\ UNCHANGED <<man, dman, slots, mem, log, next_seq, snapshots, job, c, troubles>>

\* finish_meta flushes the device.
FlushStreamed ==
    /\ pc.op = "flush"
    /\ medium' = [medium EXCEPT ![pc.slot] = mem]
    /\ pc' = [pc EXCEPT !.op = "flush_commit"]
    /\ UNCHANGED <<man, dman, slots, mem, log, next_seq, snapshots, job, c, troubles>>

flush_edit ==
    [tables   |-> man.tables \cup {tref(0, pc.slot, mem)},
     flushed  |-> Max({man.flushed, next_seq}),
     seq_high |-> Max({man.seq_high, next_seq})]

FlushCommitted ==
    /\ pc.op = "flush_commit"
    /\ man' = flush_edit
    /\ dman' = flush_edit
    /\ slots' = claim(slots, pc.slot)
    /\ mem' = {}
    /\ pc' = NoOp
    /\ UNCHANGED <<medium, log, next_seq, snapshots, job, c, troubles>>

(***************************************************************************)
(* Selecting a compaction job                                              *)
(***************************************************************************)

DataBlocks(ts) == MapThenSumSet(LAMBDA t : t.data, ts)
output_capacity == Max({SlotBlocks - 5, 1})
job_need(blocks) == 1 + (blocks + output_capacity - 1) \div output_capacity
is_small(t) == (t.data + 3) * 4 < SlotBlocks * 3

wants_job(l, pressure) ==
    LET n == Cardinality(Level(l))
    IN  n >= TABLES \/ (pressure /\ n >= (IF l = 0 THEN 2 ELSE 1))

\* The n oldest tables of level 0, which flushes fill in sequence order.
Oldest(n) == {t \in Level(0) : Cardinality({u \in Level(0) : u.max_seq < t.max_seq}) < n}

overlap_run(l, first, last) == {t \in Level(l) : ranges_overlap(first, last, t)}

\* Level 0 gives its oldest tables, as many as the free slots take; another
\* level the table that overlaps the fewest below.
pick_sources(src, tight, free_n) ==
    IF src = 0
    THEN LET fits(n) == ~tight /\ \A m \in 2 .. n : job_need(DataBlocks(Oldest(m))) <= free_n
         IN  Oldest(Max({1} \cup {n \in 2 .. Cardinality(Level(0)) : fits(n)}))
    ELSE LET cost(t) == Cardinality(overlap_run(src + 1, t.lo, t.hi))
         IN  {CHOOSE t \in Level(src) : \A u \in Level(src) :
                  cost(t) < cost(u) \/ (cost(t) = cost(u) /\ t.lo <= u.lo)}

first_key(ts) == Min({t.lo : t \in ts})
last_key(ts) == Max({t.hi : t \in ts})

\* The small tables just outside the run join the job.
neighbours(l, first, last) ==
    LET left  == {t \in Level(l) : t.hi < first}
        right == {t \in Level(l) : t.lo > last}
    IN  {t \in left : is_small(t) /\ \A u \in left : u.lo <= t.lo} \cup
        {t \in right : is_small(t) /\ \A u \in right : t.lo <= u.lo}

\* What try_select makes of level src: a job, a move, or nothing.
try_select(sl, src, tight) ==
    LET n     == free_slots(sl)
        ins   == pick_sources(src, tight, n)
        first == first_key(ins)
        last  == last_key(ins)
        run   == overlap_run(src + 1, first, last)
    IN  IF src > 0 /\ run = {} /\ \A t \in ins : ~is_small(t)
        THEN [kind |-> "move", src |-> ins, tgt |-> {}, level |-> src + 1, tight |-> tight]
        ELSE IF n > 0 /\ (tight \/ job_need(DataBlocks(ins)) <= n)
        THEN [kind |-> "merge", src |-> ins, level |-> src + 1, tight |-> tight,
              tgt |-> run \cup neighbours(src + 1, first, last)]
        ELSE [kind |-> "none"]

\* The attempts in the order compact_select makes them: full levels before
\* levels under pressure, deeper before higher, and all again as tight jobs.
Attempts(sl) ==
    {a \in [tight : BOOLEAN, pass : BOOLEAN, src : 0 .. LEVELS - 2] :
        /\ wants_job(a.src, a.pass)
        /\ a.pass => under_pressure(sl) /\ ~wants_job(a.src, FALSE)
        /\ a.tight => Free(sl) # {}}
Rank(a) == (IF a.tight THEN 2 * LEVELS ELSE 0) + (IF a.pass THEN LEVELS ELSE 0) - a.src

compact_select(sl) ==
    LET able == {a \in Attempts(sl) : try_select(sl, a.src, a.tight).kind # "none"}
    IN  IF Attempts(sl) = {} THEN [kind |-> "idle"]
        ELSE IF able = {} THEN [kind |-> "none"]
        ELSE LET a == CHOOSE a \in able : \A b \in able : Rank(a) <= Rank(b)
             IN  try_select(sl, a.src, a.tight)

is_bottommost(level, first, last) ==
    \A t \in man.tables : t.level > level => ~ranges_overlap(first, last, t)

\* The oldest sequence number outside the job that its tombstones may hide.
outside_set(ins, first, last) ==
    Min({min_seq(mem)} \cup
        {t.min_seq : t \in {u \in man.tables \ ins : ranges_overlap(first, last, u)}})

compact_start(sel, sl) ==
    LET ins   == sel.src \cup sel.tgt
        first == first_key(ins)
        last  == last_key(ins)
    IN  [state |-> "merging", ins |-> {t.slot : t \in ins}, n_ins |-> Cardinality(ins),
         level |-> sel.level, at |-> 0, out |-> {}, outputs |-> 0, retired |-> 0,
         tight |-> sel.tight, snaps |-> Range(snapshots), margin |-> 2 + Len(snapshots),
         bottommost |-> is_bottommost(sel.level, first, last),
         outside |-> outside_set(ins, first, last), slot |-> find_free(sl)]

Current(s) == job = s /\ c[s].state = "merging"
TakesOver(s) == job \notin {s, NoScratch} /\ Current(job)

\* compact_step without a job of its own: what another scratch left behind
\* is abandoned, then a job is selected.
select(s) ==
    /\ Ready /\ ~Current(s)
    /\ \/ ~TakesOver(s) /\ UNCHANGED troubles
       \/ TakesOver(s) /\ Trouble
    /\ LET sl  == IF job = NoScratch THEN slots ELSE release_all(slots)
           sel == compact_select(sl)
       IN  \/ /\ sel.kind \in {"idle", "none"}
              /\ job' = NoScratch /\ slots' = sl
              /\ c' = [c EXCEPT ![s] = IdleScratch]
              /\ UNCHANGED pc
           \/ /\ sel.kind = "move"
              /\ job' = NoScratch /\ slots' = sl
              /\ c' = [c EXCEPT ![s] = IdleScratch]
              /\ pc' = [op |-> "move", s |-> s, table |-> CHOOSE t \in sel.src : TRUE]
           \/ /\ sel.kind = "merge"
              /\ job' = s /\ slots' = reserve(sl)
              /\ c' = [c EXCEPT ![s] = compact_start(sel, sl)]
              /\ pc' = [op |-> "merge", s |-> s]
    /\ UNCHANGED <<medium, man, dman, mem, log, next_seq, snapshots>>

move_edit ==
    [man EXCEPT !.tables = (@ \ {pc.table}) \cup {[pc.table EXCEPT !.level = @ + 1]},
                !.seq_high = Max({@, next_seq})]

move_down ==
    /\ pc.op = "move"
    /\ man' = move_edit
    /\ dman' = move_edit
    /\ pc' = NoOp
    /\ UNCHANGED <<medium, slots, mem, log, next_seq, snapshots, job, c, troubles>>

(***************************************************************************)
(* The merge                                                               *)
(***************************************************************************)

Inputs(s) == {t \in man.tables : t.slot \in c[s].ins}
Merging(s) == UNION {Contents(t) : t \in Inputs(s)}
Remaining(s) == {r.key : r \in {q \in Merging(s) : q.key > c[s].at}}

\* The output ends before a key that might not fit its slot.  (Its index block
\* is taken to be large enough for the blocks of a slot.)
should_split(x) == x.out # {} /\ Cardinality(x.out) - 1 + x.margin > SlotBlocks - 3

\* Variant: only the live view is kept.
keep_set_live(v, snaps) == {newest(v)}

\* The newest version, and the newest at or below each snapshot.
keep_set(v, snaps) ==
    {newest({r \in v : r.seq <= th}) :
        th \in {w \in snaps \cup {TopSeq} : \E r \in v : r.seq <= w}}

\* Variant: no one outside the job is asked.
may_drop_key_alone(x, head) == head.del /\ head.seq < Min(x.snaps \cup {TopSeq})

\* The head is a tombstone no reader needs.
may_drop_key(x, head) ==
    /\ x.bottommost /\ head.del
    /\ head.seq < Min(x.snaps \cup {TopSeq})
    /\ head.seq < x.outside

\* Variant: an input the output has only reached is retired.
Retires_reached(s, x, last) ==
    IF last THEN Inputs(s) ELSE {t \in Inputs(s) : t.lo <= Max({r.key : r \in x.out})}

\* The inputs a commit of x, the state of s, retires: all at the end, else those behind
\* the output's last key.
Retires(s, x, last) ==
    IF last THEN Inputs(s) ELSE {t \in Inputs(s) : t.hi <= Max({r.key : r \in x.out})}

\* Variant: any commit will do.
tight_commit_ok_any(s, x, last) == TRUE

\* A tight job's outputs must not exceed its retired inputs.
tight_commit_ok(s, x, last) ==
    x.outputs + (IF x.out = {} THEN 0 ELSE 1) <= x.retired + Cardinality(Retires(s, x, last))

EndsJob(s) == job' = NoScratch /\ c' = [c EXCEPT ![s] = IdleScratch]

Stepping(s) == (Ready /\ Current(s)) \/ (pc.op = "merge" /\ pc.s = s)

\* What the merge puts out for key k.
Emitted(s, k) ==
    LET v == {r \in Merging(s) : r.key = k}
    IN  IF may_drop_key(c[s], newest(v)) THEN {} ELSE keep_set(v, c[s].snaps)

\* The output once every key up to k is merged.
Grown(s, k) ==
    [c[s] EXCEPT !.at = k, !.out = @ \cup UNION {Emitted(s, j) : j \in {i \in Remaining(s) : i <= k}}]

\* A block seals when the entry after it arrives.
BlockSealed(s, k) == Cardinality(Grown(s, k).out) > Max({1, Cardinality(c[s].out)})

Exhausted(s, k) == \A j \in Remaining(s) : j <= k

\* The key a quantum of merge_step ends at.
Quantum(s) ==
    Min({k \in {c[s].at} \cup Remaining(s) :
            BlockSealed(s, k) \/ Exhausted(s, k) \/ should_split(Grown(s, k))})

\* compact_advance merged until a block sealed: More.
merge_step(s) ==
    /\ Stepping(s)
    /\ BlockSealed(s, Quantum(s))
    /\ c' = [c EXCEPT ![s] = Grown(s, Quantum(s))]
    /\ medium' = [medium EXCEPT ![c[s].slot] = Torn]
    /\ pc' = NoOp
    /\ UNCHANGED <<man, dman, slots, mem, log, next_seq, snapshots, job, troubles>>

\* compact_advance filled the output, or exhausted the inputs: the output is
\* sealed.  A tight job that would grow the region gives up.
compact_seal_output(s) ==
    /\ Stepping(s)
    /\ ~BlockSealed(s, Quantum(s))
    /\ LET x     == Grown(s, Quantum(s))
           last  == Exhausted(s, Quantum(s))
           empty == x.out = {}
           ok    == x.tight => tight_commit_ok(s, x, last)
       IN  /\ medium' = IF empty THEN medium ELSE [medium EXCEPT ![x.slot] = x.out]
           /\ slots' = IF empty \/ ~ok THEN release(slots, x.slot) ELSE slots
           /\ \/ /\ ok
                 /\ pc' = [op |-> "commit", s |-> s, last |-> last]
                 /\ c' = [c EXCEPT ![s] = x]
                 /\ UNCHANGED job
              \/ /\ ~ok
                 /\ pc' = NoOp
                 /\ EndsJob(s)
    /\ UNCHANGED <<man, dman, mem, log, next_seq, snapshots, troubles>>

\* Variant: an input that straddles the output's last key is not narrowed.
narrowed_none(t, k) == t

narrowed(t, k) == IF t.lo <= k THEN [t EXCEPT !.lo = k + 1] ELSE t

commit_edit(s) ==
    LET x    == c[s]
        gone == Retires(s, c[s], pc.last)
        k    == IF pc.last THEN 0 ELSE Max({r.key : r \in x.out})
        kept == {IF t \in Inputs(s) THEN narrowed(t, k) ELSE t : t \in man.tables \ gone}
    IN  [man EXCEPT !.tables = kept \cup (IF x.out = {} THEN {}
                                          ELSE {tref(x.level, x.slot, x.out)}),
                    !.seq_high = Max({@, next_seq})]

\* The slots once the commit landed.
settled(s) ==
    LET sl == IF c[s].out = {} THEN slots ELSE commit(slots, c[s].slot)
    IN  free(sl, {t.slot : t \in Retires(s, c[s], pc.last)})

\* Nothing reads a slot without a table: what it held need not be told apart.
Forget(S) == [i \in SlotIds |-> IF i \in S THEN {} ELSE medium[i]]

\* The commit lands, the slots settle, and the next output is opened.
compact_commit(s) ==
    /\ pc.op = "commit" /\ pc.s = s
    /\ man' = commit_edit(s)
    /\ dman' = commit_edit(s)
    /\ LET sl == settled(s)
       IN  \/ /\ pc.last \/ Free(sl) = {}
              /\ slots' = sl
              /\ EndsJob(s)
           \/ /\ ~pc.last /\ Free(sl) # {}
              /\ slots' = reserve(sl)
              /\ c' = [c EXCEPT ![s].out = {}, ![s].outputs = @ + 1, ![s].slot = find_free(sl),
                                ![s].retired = @ + Cardinality(Retires(s, c[s], FALSE)),
                                ![s].ins = @ \ {t.slot : t \in Retires(s, c[s], FALSE)}]
              /\ UNCHANGED job
    /\ medium' = Forget({t.slot : t \in Retires(s, c[s], pc.last)})
    /\ pc' = NoOp
    /\ UNCHANGED <<mem, log, next_seq, snapshots, troubles>>

(***************************************************************************)
(* Errors, dropped futures, crashes                                        *)
(***************************************************************************)

Edit ==
    CASE pc.op = "flush_commit" -> flush_edit
      [] pc.op = "move"         -> move_edit
      [] pc.op = "commit"       -> commit_edit(pc.s)
      [] OTHER                  -> dman

\* The manifests recovery may find after a commit that was not heard of
\* again: its copy is complete, or torn over an earlier attempt.
CutCommit == IF Lying /\ Edit # dman THEN {dman, man, Edit} ELSE {dman}

\* The operation returns an error: a flush just returns, a compaction step
\* abandons its job.
Fails ==
    /\ ~Ready
    /\ Trouble
    /\ dman' \in CutCommit
    /\ IF pc.op \in {"flush", "flush_commit"} THEN UNCHANGED <<slots, job, c>>
       ELSE /\ slots' = IF job = NoScratch THEN slots ELSE release_all(slots)
            /\ EndsJob(pc.s)
    /\ pc' = NoOp
    /\ UNCHANGED <<medium, man, mem, log, next_seq, snapshots>>

\* The host drops a scratch, and with it the step it may be in.
DropScratch(s) ==
    /\ Trouble
    /\ \/ Ready /\ c[s] # IdleScratch
       \/ ~Ready /\ pc.op \notin {"flush", "flush_commit"} /\ pc.s = s
    /\ dman' \in CutCommit
    /\ c' = [c EXCEPT ![s] = IdleScratch]
    /\ pc' = NoOp
    /\ UNCHANGED <<medium, man, slots, mem, log, next_seq, snapshots, job>>

replayed == {r \in log : r.seq > dman.flushed}

\* open, on a new handle or again on a live one.
opened ==
    /\ man' = dman
    /\ slots' \in rebuilt
    /\ mem' = replayed
    /\ next_seq' = Max({dman.seq_high} \cup {r.seq : r \in replayed} \cup
                       {t.max_seq : t \in dman.tables})
    /\ job' = NoScratch
    /\ UNCHANGED <<medium, dman, log>>

open ==
    /\ Ready
    /\ Trouble
    /\ opened
    /\ UNCHANGED <<snapshots, c, pc>>

\* Power is lost, and the device is opened again.
Crash ==
    /\ Trouble
    /\ opened
    /\ snapshots' = <<>>
    /\ c' = [s \in Scratches |-> IdleScratch]
    /\ pc' = NoOp

Next ==
    \/ \E k \in Keys, del \in BOOLEAN : put(k, del)
    \/ snapshot
    \/ \E i \in 1 .. Len(snapshots) : release_snapshot(i)
    \/ flush \/ FlushStreamed \/ FlushCommitted
    \/ \E s \in Scratches : select(s)
    \/ move_down
    \/ \E s \in Scratches : merge_step(s)
    \/ \E s \in Scratches : compact_seal_output(s)
    \/ \E s \in Scratches : compact_commit(s)
    \/ Fails
    \/ \E s \in Scratches : DropScratch(s)
    \/ open
    \/ Crash

Spec == Init /\ [][Next]_vars

(***************************************************************************)
(* Properties                                                              *)
(***************************************************************************)

\* Every variable has its type.
TypeOK ==
    /\ medium \in [SlotIds -> (SUBSET Record) \cup {Torn}]
    /\ slots.used \subseteq SlotIds /\ slots.reserved \subseteq SlotIds /\ slots.hint \in SlotIds
    /\ mem \subseteq log /\ log \subseteq Record
    /\ next_seq \in 0 .. MaxSeq
    /\ snapshots \in Seq(0 .. MaxSeq) /\ Len(snapshots) <= MAX_SNAPSHOTS
    /\ \A m \in {man, dman} :
          /\ m.tables \subseteq [level : 0 .. LEVELS - 1, slot : SlotIds, lo : Nat, hi : Keys,
                                data : 1 .. SlotBlocks - 3, min_seq : 1 .. MaxSeq, max_seq : 1 .. MaxSeq]
          /\ m.flushed \in 0 .. MaxSeq /\ m.seq_high \in 0 .. MaxSeq
    /\ \A s \in Scratches : c[s].slot \in SlotIds /\ c[s].ins \subseteq SlotIds
    /\ job \in Scratches \cup {NoScratch}

\* check_invariants (src/db/invariants.rs): the used slots are those of the
\* manifest's tables, one table to a slot; a slot is reserved only for an
\* active job; below level 0 the tables of a level are disjoint; no table and
\* no persisted floor is above the sequence counter.
check_invariants ==
    /\ slots.used = {t.slot : t \in man.tables}
    /\ Cardinality(slots.used) = Cardinality(man.tables)
    /\ slots.used \cap slots.reserved = {}
    /\ Cardinality(slots.reserved) <= (IF job = NoScratch THEN 0 ELSE 1)
    /\ \A t \in man.tables : t.lo <= t.hi /\ t.min_seq <= t.max_seq /\ t.max_seq <= next_seq
    /\ man.flushed <= next_seq /\ man.seq_high <= next_seq
    /\ \A t, u \in man.tables :
          t # u /\ t.level = u.level /\ t.level > 0 => ~ranges_overlap(t.lo, t.hi, u)

\* What the handle reads at sequence w.
Reads(w) == [k \in Keys |-> get_at(mem \cup TableRecords(man), k, w)]

\* What all acknowledged writes say about it.
Truth(w) == [k \in Keys |-> get_at(log, k, w)]

\* A read of the live view or of a snapshot finds exactly the newest
\* acknowledged version, whatever flushes, merges, splits, moves, failed
\* steps and taken-over jobs did to the tables.
ReadsRight == \A w \in Range(snapshots) \cup {next_seq} : Reads(w) = Truth(w)

\* The writes acknowledged, the map a user sees, and the maps of the snapshots.
Promised == INSTANCE Kv WITH
    Writes <- Record, acked <- log,
    live <- Reads(next_seq), views <- [i \in DOMAIN snapshots |-> Reads(snapshots[i])]

\* The store implements the map of module Kv: what get returns changes with
\* an acknowledged put or delete (src/db/mod.rs, put), in that key and to
\* that value, and with no step of a flush, a job, a failure, a take-over or
\* a reopened handle; a snapshot is the map when it was taken, and a crash
\* ends the snapshots and loses or brings back no key.
ImplementsKv == Promised!KvSpec

\* In every state, also inside a flush, a split or a commit: were power lost
\* now, open would read every acknowledged write and no deleted one.
CrashSafe ==
    LET recs == replayed \cup TableRecords(dman)
    IN  \A k \in Keys : get_at(recs, k, MaxSeq) = get_at(log, k, MaxSeq)

\* A tight job never grows the region (src/model.rs, model_tight_job): its
\* committed outputs and its live inputs hold no more slots than its inputs
\* held when it was selected, whichever of them the splits have retired.
TightNeverGrows ==
    \A s \in Scratches :
        Current(s) /\ c[s].tight => c[s].outputs + Cardinality(Inputs(s)) <= c[s].n_ins

=============================================================================
