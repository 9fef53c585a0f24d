-------------------------------- MODULE Wal --------------------------------
(***************************************************************************)
(* The write-ahead log of src/wal.rs driven by the write path and the      *)
(* flush of Db (src/db/mod.rs, src/db/flush.rs): staging, one-block        *)
(* commits, rollback, the wrap, and recovery after a crash.                *)
(*                                                                         *)
(* A block is Units units long and a record fills a few of them, so a      *)
(* block holds several records, a torn write can end inside a record, and  *)
(* a record torn from two writes fails its CRC.  Keys and values are left  *)
(* out: a record is identified by the write that staged it (of) and its    *)
(* sequence number.                                                        *)
(*                                                                         *)
(* The device keeps written blocks in a cache until poll_flush, lands them *)
(* in order, and tears the one it was writing when power is lost.  The     *)
(* manifest is the commit of module Manifest taken as one step.            *)
(***************************************************************************)
EXTENDS Integers, Sequences, FiniteSets, FiniteSetsExt, Functions

CONSTANTS
    Units,      \* BLOCK, in units
    WalBlocks,  \* wal_end - wal_start
    Sizes,      \* encoded sizes of records, in units
    MaxOps,     \* records of one write batch
    Cap,        \* CAP: entries of the memtable
    Calls,      \* the calls the owner makes
    InPlaces,   \* devices: a torn write leaves old bytes (TRUE), erased ones (FALSE)
    Lying,      \* a write reported as failed may have landed its records
    Dropping,   \* the calls whose futures may be dropped at an await
    MaxTries,   \* bound on the records ever staged
    MaxFaults   \* bound on I/O errors and dropped futures

ASSUME SizesAssumption ==
    /\ Units \in Nat \ {0}
    /\ WalBlocks \in Nat \ {0}
    /\ Sizes \subseteq 1 .. Units
    /\ MaxOps \in Nat \ {0} /\ Cap \in Nat
    /\ MaxTries \in Nat /\ MaxFaults \in Nat
ASSUME ModeAssumption ==
    /\ Calls \subseteq {"put", "write", "append_batch", "flush"}
    /\ InPlaces \subseteq BOOLEAN /\ Lying \in BOOLEAN /\ Dropping \subseteq Calls

VARIABLES
    disk,      \* blocks on the medium
    cache,     \* block writes the device took but has not flushed, in order
    wal,       \* WalWriter: stage, stage_len, dirty_to, next_block
    next_seq,  \* Db::next_seq
    table,     \* records in the memtable
    man,       \* the handle's manifest: WAL head, floors, records in tables
    dman,      \* the manifest recovery would find
    call,      \* the call in progress
    io,        \* the device operation it awaits
    tried,     \* history: the records each write staged, in order
    acked,     \* history: records whose write returned Ok, or that an open
               \* found on the medium
    faults     \* I/O errors so far

vars == <<disk, cache, wal, next_seq, table, man, dman, call, io,
          tried, acked, faults>>

(***************************************************************************)
(* Blocks and records                                                      *)
(***************************************************************************)

BlockIds == 0 .. WalBlocks - 1
Zero == [of |-> 0, seq |-> 0, more |-> FALSE, size |-> 0, part |-> 0]
Junk == [Zero EXCEPT !.part = 1]
ZeroBlock == [i \in 1 .. Units |-> Zero]

\* Unit p of a record: the one at offset p of its encoding.
unit(r, p) == [of |-> r.of, seq |-> r.seq, more |-> r.more, size |-> r.size, part |-> p]

record_at(blk, off) ==
    LET u == blk[off + 1] IN [of |-> u.of, seq |-> u.seq, more |-> u.more, size |-> u.size]

\* A whole, CRC-valid record starts at off.
decode_record(blk, off) ==
    LET u == blk[off + 1]
    IN  /\ u.of > 0 /\ u.part = 0
        /\ off + u.size <= Units
        /\ \A p \in 0 .. u.size - 1 : blk[off + 1 + p] = [u EXCEPT !.part = p]

all_zero(blk, off) == \A i \in off + 1 .. Units : blk[i] = Zero

\* The records encoded back to back from each offset of a block.
scan_from(blk) ==
    LET scan[off \in 0 .. Units] ==
            IF off < Units /\ decode_record(blk, off)
            THEN <<record_at(blk, off)>> \o scan[off + blk[off + 1].size]
            ELSE <<>>
    IN  scan

scan_record(blk) == scan_from(blk)[0]

\* The bytes the first n of the records take.
encoded_len(recs) ==
    LET sum[n \in 0 .. Len(recs)] == IF n = 0 THEN 0 ELSE sum[n - 1] + recs[n].size
    IN  sum

\* The images a write of new over old can leave when it is cut short.
Torn(old, new) ==
    LET rest(old_kept, i) == IF old_kept THEN old[i] ELSE Junk
        edge(r, i) == IF new[i] = r THEN r ELSE Junk
    IN  {old} \cup
        { [i \in 1 .. Units |-> IF i <= j THEN new[i]
                                ELSE IF i = j + 1 /\ cut THEN edge(rest(k, i), i)
                                ELSE rest(k, i)] :
          j \in 0 .. Units - 1, cut \in BOOLEAN, k \in InPlaces }

\* The medium d after the first n of the writes c.
Landed(d, c, n) ==
    LET last(b) == Max({0} \cup {k \in 1 .. n : c[k].id = b})
    IN  [b \in BlockIds |-> IF last(b) = 0 THEN d[b] ELSE c[last(b)].new]

\* The blocks as reads see them.
View == Landed(disk, cache, Len(cache))

(***************************************************************************)
(* Recovery                                                                *)
(***************************************************************************)

\* Variant: a record is taken whatever the sequence number before it.
pass1_unordered(blk) ==
    LET all  == scan_record(blk)
        off  == encoded_len(all)[Len(all)]
        done == Max({0} \cup {i \in 1 .. Len(all) : ~all[i].more})
    IN  [recs  |-> SubSeq(all, 1, done),
         first |-> IF all = <<>> THEN 0 ELSE all[1].seq,
         torn  |-> done < Len(all) \/ ~all_zero(blk, off)]

\* Pass 1 over a block: its complete groups, its first sequence number
\* (0 for none), and whether anything follows the groups.
pass1(blk) ==
    LET all  == scan_record(blk)
        n    == Max({k \in 0 .. Len(all) :
                        \A i \in 2 .. k : all[i].seq > all[i - 1].seq})
        off  == encoded_len(all)[n]
        done == Max({0} \cup {i \in 1 .. n : ~all[i].more})
    IN  [recs  |-> SubSeq(all, 1, done),
         first |-> IF n = 0 THEN 0 ELSE all[1].seq,
         torn  |-> done < n \/ ~all_zero(blk, off)]

\* Variant: a torn block always ends the log.
recover_block_no_resume(st, blk, seq_floor) ==
    LET p    == pass1(blk)
        live == {r \in Range(p.recs) : r.seq > seq_floor}
        high == Max({st.max_seq} \cup {r.seq : r \in Range(p.recs)})
    IN  IF st.done \/ p.recs = <<>> THEN [st EXCEPT !.done = TRUE]
        ELSE IF live = {} /\ ~p.torn THEN [st EXCEPT !.done = TRUE, !.max_seq = high]
        ELSE [done |-> p.torn, used |-> st.used + 1, max_seq |-> high,
              newer_than |-> 0, records |-> st.records \cup live]

\* Variant: the sequence floor is not applied.
recover_block_no_floor(st, blk, seq_floor) ==
    LET p    == pass1(blk)
        high == Max({st.max_seq} \cup {r.seq : r \in Range(p.recs)})
    IN  IF \/ st.done
           \/ st.newer_than > 0 /\ p.first <= st.newer_than
           \/ p.recs = <<>>
        THEN [st EXCEPT !.done = TRUE]
        ELSE [done |-> FALSE, used |-> st.used + 1, max_seq |-> high,
              newer_than |-> IF p.torn THEN high ELSE 0,
              records |-> st.records \cup Range(p.recs)]

\* Variant: the writer resumes on a torn block that holds complete groups.
recover_block_reuse(st, blk, seq_floor) ==
    LET p    == pass1(blk)
        live == {r \in Range(p.recs) : r.seq > seq_floor}
        high == Max({st.max_seq} \cup {r.seq : r \in Range(p.recs)})
    IN  IF st.done \/ p.recs = <<>> THEN [st EXCEPT !.done = TRUE]
        ELSE [done |-> p.torn \/ live = {}, max_seq |-> high, newer_than |-> 0,
              used |-> IF p.torn \/ live = {} THEN st.used ELSE st.used + 1,
              records |-> st.records \cup live]

\* One turn of the recovery loop over a block.
recover_block(st, blk, seq_floor) ==
    LET p    == pass1(blk)
        recs == Range(p.recs)
        live == {r \in recs : r.seq > seq_floor}
        high == Max({st.max_seq} \cup {r.seq : r \in recs})
        ends == \/ st.done
                \/ st.newer_than > 0 /\ p.first <= st.newer_than
                \/ recs = {}
    IN  IF ends THEN [st EXCEPT !.done = TRUE]
        ELSE IF live = {} /\ ~p.torn
        THEN [st EXCEPT !.done = TRUE, !.max_seq = high]
        ELSE [done |-> FALSE, used |-> st.used + 1, max_seq |-> high,
              newer_than |-> IF p.torn THEN high ELSE 0,
              records |-> st.records \cup live]

\* The state of the loop after each block.
recovery(blocks, from, seq_floor) ==
    LET loop[k \in 0 .. WalBlocks - from] ==
            IF k = 0
            THEN [done |-> FALSE, used |-> 0, max_seq |-> 0, newer_than |-> 0,
                  records |-> {}]
            ELSE recover_block(loop[k - 1], blocks[from + k - 1], seq_floor)
    IN  loop

recover_from(blocks, from, seq_floor) ==
    recovery(blocks, from, seq_floor)[WalBlocks - from]

Recovered == recover_from(View, dman.wal_head, dman.flushed_seq)

(***************************************************************************)
(* The writer                                                              *)
(***************************************************************************)

NoCall == [op |-> "none", recs |-> <<>>, at |-> 0, len |-> 0, block |-> 0]
Down   == [NoCall EXCEPT !.op = "down"]
Fresh  == [wal_head |-> 0, flushed_seq |-> 0, seq_high |-> 0, recs |-> {}]

NewWriter == [stage |-> ZeroBlock, stage_len |-> 0, dirty_to |-> 0, next_block |-> 0]

Init ==
    /\ disk = [b \in BlockIds |-> ZeroBlock]
    /\ cache = <<>>
    /\ wal = NewWriter
    /\ next_seq = 0
    /\ table = {}
    /\ man = Fresh
    /\ dman = Fresh
    /\ call = Down
    /\ io = "none"
    /\ tried = <<>>
    /\ acked = {}
    /\ faults = 0

\* Encodes r behind what is staged.
encode_record(w, r) ==
    [w EXCEPT !.stage = [i \in 1 .. Units |->
                            IF i \in w.stage_len + 1 .. w.stage_len + r.size
                            THEN unit(r, i - w.stage_len - 1) ELSE w.stage[i]],
              !.stage_len = w.stage_len + r.size]

\* Encodes the records one behind the other.
encode_records(w, recs) ==
    LET staged[n \in 0 .. Len(recs)] ==
            IF n = 0 THEN w ELSE encode_record(staged[n - 1], recs[n])
    IN  staged[Len(recs)]

truncate_stage(w, len) ==
    [w EXCEPT !.dirty_to = Max({w.dirty_to, w.stage_len}), !.stage_len = len]

\* The image write_stage sends: zeroed between stage_len and dirty_to.
padded(w) ==
    [w EXCEPT !.stage = [i \in 1 .. Units |->
                            IF i > w.stage_len /\ i <= w.dirty_to THEN Zero ELSE w.stage[i]],
              !.dirty_to = w.stage_len]

Returns == call' = NoCall /\ io' = "none"

\* A block was written since the call took its mark.
BlockLanded == wal.next_block # call.block

\* The call is still appending records one by one.
Appending == call.op \in {"put", "append_batch"} /\ call.at < Len(call.recs)

\* write commits what an earlier call left staged before it stages its own.
Draining == call.op = "write" /\ call.at = 0

\* Variant: a failed commit whose block landed gives its numbers back.
rollback_commit_reuse ==
    /\ wal' = IF BlockLanded THEN wal ELSE truncate_stage(wal, call.len)
    /\ next_seq' = next_seq

\* rollback_commit, and append_batch in its own words: truncate the stage
\* when no block landed, else consume the sequence numbers.
rollback_commit ==
    /\ wal' = IF BlockLanded THEN wal ELSE truncate_stage(wal, call.len)
    /\ next_seq' = IF BlockLanded THEN next_seq + call.at ELSE next_seq

\* append_batch stops at a record it cannot append and commits the rest.
CommitsPrefix == call.op = "append_batch" /\ Appending

\* A drain and a flush pass an error on and undo nothing.
PassesOn == call.op = "flush" \/ Draining

\* Variant: append_batch skips the record it could not append and goes on.
Errs_skip ==
    /\ \/ /\ CommitsPrefix
          /\ call' = [call EXCEPT !.recs = SubSeq(@, 1, call.at) \o SubSeq(@, call.at + 2, Len(@))]
          /\ io' = "none"
          /\ UNCHANGED <<wal, next_seq>>
       \/ /\ ~CommitsPrefix
          /\ rollback_commit
          /\ Returns
    /\ UNCHANGED <<disk, table, man, tried, acked>>

\* The error path of the call in progress.
Errs ==
    /\ \/ /\ CommitsPrefix
          /\ call' = [call EXCEPT !.recs = SubSeq(@, 1, call.at)]
          /\ io' = "none"
          /\ UNCHANGED <<wal, next_seq>>
       \/ /\ PassesOn
          /\ Returns
          /\ UNCHANGED <<wal, next_seq>>
       \/ /\ ~CommitsPrefix /\ ~PassesOn
          /\ rollback_commit
          /\ Returns
    /\ UNCHANGED <<disk, table, man, tried, acked>>

\* write_stage: WalFull, or the padded stage goes to the device.
write_stage ==
    \/ /\ wal.next_block >= WalBlocks
       /\ Errs
       /\ UNCHANGED <<cache, dman, faults>>
    \/ /\ wal.next_block < WalBlocks
       /\ wal' = padded(wal)
       /\ io' = "write"
       /\ UNCHANGED <<disk, cache, next_seq, table, man, dman, call, tried,
                      acked, faults>>

Idle == call = NoCall
Room(n) == Cardinality(table) + n <= Cap

\* The records of one call take the sequence numbers after next_seq; those
\* of a write batch form one group.
NewRecords(op, sizes) ==
    [i \in 1 .. Len(sizes) |->
        [of |-> Len(tried) + 1, seq |-> next_seq + i,
         more |-> op = "write" /\ i < Len(sizes), size |-> sizes[i]]]

Starts(op, sizes) ==
    /\ Idle /\ op \in Calls
    /\ Room(Len(sizes))
    /\ Len(tried) < MaxTries
    /\ call' = [op |-> op, recs |-> NewRecords(op, sizes), at |-> 0,
                len |-> wal.stage_len, block |-> wal.next_block]
    /\ tried' = Append(tried, Range(NewRecords(op, sizes)))
    /\ UNCHANGED <<disk, cache, wal, next_seq, table, man, dman, io, acked, faults>>

\* put, delete, delete_range and put_with_ttl.
commit_mutation(size) == Starts("put", <<size>>)

\* write checks the batch against the block and the memtable up front.
write(sizes) ==
    /\ encoded_len(NewRecords("write", sizes))[Len(sizes)] <= Units
    /\ Starts("write", sizes)

append_batch(sizes) == Starts("append_batch", sizes)

flush ==
    /\ Idle /\ "flush" \in Calls
    /\ call' = [NoCall EXCEPT !.op = "flush"]
    /\ UNCHANGED <<disk, cache, wal, next_seq, table, man, dman, io, tried,
                   acked, faults>>

\* append_inner: a record that does not fit writes the stage out first.
append_inner ==
    /\ io = "none" /\ Appending
    /\ LET r == call.recs[call.at + 1]
       IN  \/ /\ wal.stage_len + r.size > Units
              /\ write_stage
           \/ /\ wal.stage_len + r.size <= Units
              /\ wal' = encode_record(wal, r)
              /\ call' = [call EXCEPT !.at = @ + 1]
              /\ UNCHANGED <<disk, cache, next_seq, table, man, dman, io, tried,
                             acked, faults>>

\* write, the stage being empty, takes its mark and appends the whole group.
append_grouped ==
    /\ io = "none" /\ Draining /\ wal.stage_len = 0
    /\ wal' = encode_records(wal, call.recs)
    /\ call' = [call EXCEPT !.at = Len(call.recs), !.len = wal.stage_len,
                            !.block = wal.next_block]
    /\ UNCHANGED <<disk, cache, next_seq, table, man, dman, io, tried, acked, faults>>

commit ==
    /\ io = "none" /\ ~Appending
    /\ call.op \in {"put", "write", "append_batch", "flush"}
    /\ \/ wal.stage_len > 0 /\ write_stage
       \/ /\ wal.stage_len = 0 /\ ~Draining
          /\ io' = "flush"
          /\ UNCHANGED <<disk, cache, wal, next_seq, table, man, dman, call,
                         tried, acked, faults>>

\* poll_write_block completes.
WriteLands ==
    /\ io = "write"
    /\ cache' = Append(cache, [id |-> wal.next_block, new |-> wal.stage])
    /\ wal' = [wal EXCEPT !.next_block = @ + 1, !.stage_len = 0]
    /\ io' = IF Appending THEN "none" ELSE "flush"
    /\ UNCHANGED <<disk, next_seq, table, man, dman, call, tried, acked,
                   faults>>

\* poll_flush completes: everything written is on the medium.  A write
\* takes its sequence numbers, enters the memtable and returns; a drain goes
\* on to stage; a flush returns when it has nothing to move or to wrap.
FlushLands ==
    /\ io = "flush"
    /\ disk' = View
    /\ cache' = <<>>
    /\ \/ /\ call.op # "flush" /\ ~Draining
          /\ next_seq' = next_seq + call.at
          /\ table' = table \cup Range(call.recs)
          /\ acked' = acked \cup Range(call.recs)
          /\ Returns
       \/ /\ Draining
          /\ io' = "none"
          /\ UNCHANGED <<next_seq, table, acked, call>>
       \/ /\ call.op = "flush"
          /\ IF table = {} /\ wal.next_block < WalBlocks
             THEN Returns ELSE io' = "manifest" /\ call' = call
          /\ UNCHANGED <<next_seq, table, acked>>
    /\ UNCHANGED <<wal, man, dman, tried, faults>>

\* The manifest a flush commits.
wraps == wal.next_block >= WalBlocks

\* Variant: the WAL head follows the append position off the region.
flush_edit_no_wrap ==
    [wal_head    |-> wal.next_block,
     flushed_seq |-> Max({man.flushed_seq, next_seq}),
     seq_high    |-> Max({man.seq_high, next_seq}),
     recs        |-> man.recs \cup table]

flush_edit ==
    [wal_head    |-> IF wraps THEN 0 ELSE wal.next_block,
     flushed_seq |-> Max({man.flushed_seq, next_seq}),
     seq_high    |-> Max({man.seq_high, next_seq}),
     recs        |-> man.recs \cup table]

\* Variant: the writer is not moved back after the wrap.
CommitLands_no_reset ==
    /\ io = "manifest"
    /\ man' = flush_edit
    /\ dman' = flush_edit
    /\ table' = {}
    /\ Returns
    /\ UNCHANGED <<disk, cache, wal, next_seq, tried, acked, faults>>

CommitLands ==
    /\ io = "manifest"
    /\ man' = flush_edit
    /\ dman' = flush_edit
    /\ table' = {}
    /\ wal' = IF wraps THEN [wal EXCEPT !.next_block = 0] ELSE wal
    /\ Returns
    /\ UNCHANGED <<disk, cache, next_seq, tried, acked, faults>>

(***************************************************************************)
(* Errors, dropped futures, crashes                                        *)
(***************************************************************************)

InFlight == [id |-> wal.next_block, new |-> wal.stage]

\* The manifests recovery may find once a commit was cut short: the
\* attempt overwrites the copy an earlier failed attempt may have completed.
CutCommit == IF io = "manifest" THEN {dman, man, flush_edit} ELSE {dman}

\* The images the write in flight may leave behind if it is not heard of
\* again; all of its records may be among them or not.
Remains(complete) ==
    {img \in Torn(View[wal.next_block], wal.stage) \cup {wal.stage} :
        complete \/ \E i \in 1 .. wal.stage_len : img[i] # wal.stage[i]}

\* What the device may have done with the operation it was given.
MayHaveDone(complete) ==
    /\ \/ /\ io = "write"
          /\ \E img \in Remains(complete) :
                cache' = Append(cache, [id |-> wal.next_block, new |-> img])
       \/ io # "write" /\ cache' = cache
    /\ dman' \in CutCommit
    /\ faults < MaxFaults
    /\ faults' = faults + 1

\* The device reports an error.
IoFails ==
    /\ io # "none"
    /\ MayHaveDone(Lying)
    /\ Errs

\* The caller drops the future it was awaiting; no error path runs.
Drop ==
    /\ call.op \in Dropping /\ io # "none"
    /\ MayHaveDone(TRUE)
    /\ Returns
    /\ UNCHANGED <<disk, wal, next_seq, table, man, tried, acked>>

\* Nothing in memory is used again before the next open.
Closes ==
    /\ wal' = NewWriter
    /\ next_seq' = 0
    /\ table' = {}
    /\ man' = Fresh
    /\ call' = Down
    /\ io' = "none"

\* Power is lost: a prefix of the outstanding writes landed and the next one
\* is torn; memory is gone.
Crash ==
    /\ call # Down
    /\ LET pending == IF io = "write" THEN Append(cache, InFlight) ELSE cache
       IN  \/ disk' = Landed(disk, pending, Len(pending))
           \/ \E k \in 0 .. Len(pending) - 1 :
                 LET before == Landed(disk, pending, k)
                     id     == pending[k + 1].id
                 IN  \E img \in Torn(before[id], pending[k + 1].new) :
                        disk' = [before EXCEPT ![id] = img]
    /\ dman' \in CutCommit
    /\ cache' = <<>>
    /\ Closes
    /\ UNCHANGED <<tried, acked, faults>>

\* Db::open, on a new handle or again on a live one.  A record that does not
\* fit the memtable is CorruptWal and leaves the handle closed.
open ==
    /\ call \in {Down, NoCall}
    /\ LET st == Recovered
       IN  \/ /\ Cardinality(st.records) <= Cap
              /\ man' = dman
              /\ table' = st.records
              /\ wal' = [stage |-> View[Min({dman.wal_head + st.used, WalBlocks - 1})],
                         stage_len |-> 0, dirty_to |-> Units,
                         next_block |-> dman.wal_head + st.used]
              /\ next_seq' = Max({st.max_seq, dman.seq_high} \cup
                                 {r.seq : r \in dman.recs})
              /\ acked' = IF cache = <<>> THEN acked \cup st.records ELSE acked
              /\ call' = NoCall
              /\ io' = io
           \/ Cardinality(st.records) > Cap /\ Closes /\ acked' = acked
    /\ UNCHANGED <<disk, cache, dman, tried, faults>>

Next ==
    \/ \E size \in Sizes : commit_mutation(size)
    \/ \E n \in 1 .. MaxOps : \E sizes \in [1 .. n -> Sizes] : write(sizes) \/ append_batch(sizes)
    \/ flush
    \/ append_inner
    \/ append_grouped
    \/ commit
    \/ WriteLands
    \/ FlushLands
    \/ CommitLands
    \/ IoFails
    \/ Drop
    \/ Crash
    \/ open

Spec == Init /\ [][Next]_vars

(***************************************************************************)
(* Properties                                                              *)
(***************************************************************************)

UnitType == [of : 0 .. MaxTries, seq : 0 .. MaxTries * MaxOps, more : BOOLEAN,
             size : {0} \cup Sizes, part : 0 .. Units]
RecType  == [of : 1 .. MaxTries, seq : 1 .. MaxTries * MaxOps, more : BOOLEAN,
             size : Sizes]

\* Every variable has its type; the append position never leaves the
\* region and the stage never outgrows its block (append_inner,
\* write_stage).
TypeOK ==
    /\ disk \in [BlockIds -> [1 .. Units -> UnitType]]
    /\ \A k \in 1 .. Len(cache) :
          cache[k].id \in BlockIds /\ cache[k].new \in [1 .. Units -> UnitType]
    /\ wal \in [stage : [1 .. Units -> UnitType], stage_len : 0 .. Units,
                dirty_to : 0 .. Units, next_block : 0 .. WalBlocks]
    /\ next_seq \in 0 .. MaxTries * MaxOps
    /\ \A set \in {table, man.recs, dman.recs, acked} : set \subseteq RecType
    /\ \A m \in {man, dman} : m.wal_head \in BlockIds
    /\ io \in {"none", "write", "flush", "manifest"}

\* "Durable before it returns": whatever was acknowledged, or brought back
\* by a recovery, since the device was fresh is in a table the manifest holds
\* or among the records open would replay now, after any crashes, torn
\* writes, failed writes, wraps and earlier recoveries.
AckedSurvive == acked \subseteq dman.recs \cup Recovered.records

\* "Recovery replays all of it or none of it": no state lets open bring back
\* part of a write batch.
GroupAtomic ==
    LET back == Recovered.records \cup dman.recs
    IN  \A k \in 1 .. Len(tried) :
            (\E r \in tried[k] : r.more) => tried[k] \cap back \in {{}, tried[k]}

\* "A failed batch resolves to a durable prefix, never to a hole": a record
\* of an append_batch comes back only with every earlier record of its batch.
BatchPrefix ==
    LET back == Recovered.records \cup dman.recs
    IN  \A k \in 1 .. Len(tried) : \A r, s \in tried[k] :
            r.seq < s.seq /\ s \in back => r \in back

\* Stale pre-wrap blocks are skipped: recovery never replays a record that
\* already is in a table.
NoStaleReplay == Recovered.records \cap dman.recs = {}

\* "A block holding acknowledged records is never rewritten" while the log
\* is their only home.
LiveBlockKept ==
    io = "write" =>
        acked \cap Range(scan_record(View[wal.next_block])) \subseteq man.recs \cap dman.recs

\* "Sequence numbers are never reused": no two mutations that are
\* acknowledged or readable carry the same one.
SeqsDistinct ==
    \A r, s \in acked \cup table \cup Recovered.records : r.seq = s.seq => r = s

\* "WalFull (flush, then retry)": a flush that returns without a device
\* error leaves room to append, the append position off the end of the
\* region.
FlushMakesRoom ==
    [][(call.op = "flush" /\ call' = NoCall /\ faults' = faults)
          => wal'.next_block < WalBlocks]_vars
=============================================================================
