# A verification project for horton

horton is a `no_std` log-structured key-value store: a write-ahead log, a
memtable, tables in fixed slots of a block device, a manifest in several copies,
cooperative compaction, snapshots, and a multiwriter front end. This directory
holds TLA+ modules of its protocols, the TLC instances that check them, and
proofs checked by TLAPS. `PROJECT.json` maps every definition to the lines it
models. Paths below are relative to `src/src/`.

## 1. The system

| part | code | what it does |
|---|---|---|
| Block device | `device.rs`, `flash.rs`, `esp32s3.rs` | polled block reads, writes and flushes |
| Write-ahead log | `wal.rs` | CRC-framed records staged in one block, groups, the wrap, recovery |
| Write path | `db/mod.rs` | `put`, `delete`, `write`: sequence numbers, room checks, rollback |
| Memtable, batch | `memtable.rs`, `batch.rs` | sorted slots over an arena, range tombstones |
| Manifest | `manifest.rs` | table refs, floors and counters; staged edits; commit over several copies |
| Slots | `slots.rs` | which table slots are used or reserved; next-fit |
| Flush | `db/flush.rs` | memtable to a level-0 table, log wrap and floor in one commit |
| Compaction | `db/compaction.rs`, `compact.rs` | selection, merge in quanta, splits, tight jobs, moves, requests |
| Reads, scans | `db/read.rs`, `scan.rs` | the newest visible version across memtable and tables |
| Tables | `sstable.rs`, `compress.rs`, `crc.rs` | blocks, bloom filter, index, footer |
| Cache | `cache.rs` | CLOCK over verified blocks |
| Archive, ingest | `db/archive.rs` | tables leave, enter and are stamped |
| Versions | `version.rs`, `model.rs` | the replica merge rule; reference models |
| Ring, writers | `ring.rs`, `writer.rs` | many-producer admission ring with 31-bit tickets; the `Put` future |
| Drainer | `drainer.rs` | ring to `Db::write`, fencing, the durable watermark |

A write goes writer → ring → drainer → `Db::write` → log → memtable, or directly
through `put`. Flush moves the memtable into a table and advances the log head and
the replay floor in the same manifest commit. Compaction rewrites tables and
publishes each output, with what it retires, in one manifest commit. `open` reads
the newest whole manifest, rebuilds the slot map, and replays the log above the
floor. Nothing is threaded but the ring: everything else interleaves because futures
are polled, dropped or fail at their awaits, and because power is lost.

## 2. The modules

**Manifest** (`manifest.rs`). `disk` holds the blocks of every copy; `commit_edit`
writes copy `seq % Copies` block by block (`WriteBegins` destroys the block,
`WriteLands` writes it), flushes (`FlushLands`), and only then bumps `seq`.
`recover_from` takes the newest copy whose blocks agree. A body is an opaque value
with a length in blocks. `CommitFails` is an error or a dropped future.

**Wal** (`wal.rs`, and the parts of `db/mod.rs` and `db/flush.rs` that drive it).
`wal` is `WalWriter` (stage, `stage_len`, `dirty_to`, `next_block`). Blocks are
units, records fill several, so a torn write can end inside a record and leave the
previous lap's records behind the new ones. A call is in `call`, the device
operation it awaits in `io`; `WriteLands`, `FlushLands`, `CommitLands`, `IoFails`,
`Drop` and `Crash` are the ways that operation can end. The manifest commit is
atomic here: that is what Manifest shows.

**TicketQueue** is what the ring promises (`docs/multiwriter-spec.md`, sections 2
to 6), with endless tickets. **Ring** (`ring.rs`, `writer.rs`) is one atomic access
per step; it carries the queue's variables as history and implements it (property
`RefinesQueue`). **Drainer** (`drainer.rs`) uses TicketQueue for the ring and the
outcomes of `Db::write` for the store: `sweep` drains, fences, batches, writes and
acknowledges; the host flushes and may drop a sweep.

**Store** (`slots.rs`, `db/flush.rs`, `db/compaction.rs`, `compact.rs`, snapshots
and `open` of `db/mod.rs`). A record is a key, a sequence number and a deletion
flag; a table is its manifest ref, its records are on the medium in its slot.
`man` is the handle's manifest, `dman` the one recovery would find. `select`
is `compact_step` without a job (taking over what another scratch left),
`merge_step`, `compact_seal_output` and `compact_commit` are the outcomes of
`compact_advance`; `Fails`, `DropScratch`, `open` and `Crash` may come between any
two of them. Table ids are abstracted: a slot stands for the table in it, level 0 is
ordered by sequence number, and `open` may resume next-fit after any used slot.
A key's versions are merged together, and a quantum is one step. `log` is the
history of acknowledged writes, the reference for every read.

**Kv** is what the store promises its user: one map, changed by acknowledged writes
alone, and snapshots of it. The acknowledged writes are its input (`acked`): a step may
change the map only in the key of a write that joins them, numbered above all before it,
and only to what that write says. Store implements it (`ImplementsKv`) with `log` for
`acked`, the map read through `get_at` for `live` and each snapshot's reads for `views`:
flushes, jobs, failures and abandoned work are stuttering steps, a restart ends the
snapshots.

**Version** (`version.rs`) is `version_gt`, the rule by which a read or a scan picks
among versions of several nodes.
**MemTable** (`memtable.rs`) has the sorted slots, the room check and the two lookups.
**SsTable** (the writing half of `sstable.rs`) plans and writes a table block by block:
an entry is its length, a block its entries, restart points every
`RESTART_INTERVAL` entries, the bloom filter a set of probe positions; `relocate_table`
is the copy an ingest makes. **TableReader** is the reading half: footer, filter,
index, restart search, runs that cross blocks, the range-tombstone section.
**Reads** (`db/read.rs`) is `read_point` and `rdel_hides` with the table lookup as a
parameter, so that it runs over blocks in ReadPath and over records in Replica.
**Scan** (`scan.rs`) has the cursors of both directions. **ReadPath** composes them:
a device of blocks, writes, `flush`, `split` (a table rewritten as two, its old ref
narrowed, as a compaction commits it), `ingest` (a verified copy elsewhere), a block
damaged, and scans whose rounds may meet a device error.

**Merge** (`compact.rs`) is what a job writes for a key, the merge of range tombstones,
its dry run, the block budget from it, the tracked cover of a key and the drop of dead
pieces. **Select** (`db/compaction.rs`) is the tree, the slot map and every choice of
the next job: nodes in turn, the veto, consolidation, rewrites, tight jobs, requests.
**Cache** (`cache.rs`) is the CLOCK. **Replica** composes the three with writes, flushes,
snapshots, cached reads, and the calls of `db/archive.rs`. A table carries its points
and range tombstones; one entry fills a data block. `merge_step` takes one key,
`seal_step` is a seal with its commit (or giving up) and the next output; other calls
come between any two of them. `sink` is what remote stores hold: the foreign tables,
and what the host uploaded after `archive_plan`. `stamp_table` fills in a missing wall,
or claims a table of no node, at any moment. Here every call succeeds or is refused:
failures and crashes are Store's.

`MCManifest`, `MCRing`, `MCStore`, `MCReadPath` and `MCReplica` define the values a
`.cfg` cannot; `Wal` and `Drainer` are instantiated by their `.cfg` files alone. A
definition called *Variant* is a deliberately wrong form of the one after it; with it in
place of the right one, a property fails, which shows that the property depends on that
code.

## 3. The runs

| run | result | question |
|---|---|---|
| `manifest_crash` | holds | Is a commit atomic under crashes, errors and dropped futures at any block, repeated, with longer and shorter predecessors in the copy? |
| `wal_crash` | holds | Do acknowledged records survive, groups stay whole, stale laps stay dead, live blocks stay unwritten, sequence numbers stay distinct, and does a flush always make room? |
| `wal_append_batch` | holds | Is what comes back of `append_batch` a prefix of the batch? |
| `ring` | holds | Does the ring implement the queue across the wrap, with fences, a dead writer and spurious CAS failures; is what is published drained; does it never wedge? |
| `drainer` | holds | Does the watermark cover only durable or dead tickets, does nothing drained get lost, do retries keep ticket order, is every ticket resolved? |
| `store_tight` | holds | In a region at its limit: reads, snapshots, crash safety, the slot map, and that tight jobs never grow the region. Does Store implement Kv? |
| `read_path` | holds | Do point reads and scans of both directions return the newest visible value, wherever runs, blocks, range deletions and narrowed or relocated tables put it; is damage reported; do planner, writer and slot size agree; does every scan advance? |
| `merge` | holds | Does a job with range tombstones, expiry, splits and one tracked tombstone change nothing any reader sees, at any step; does the tree stay sorted; does every output fit its budget? |
| `fleet` | holds | With tables of two nodes and of none ingested, stamped, claimed, archived, compacted and read through a cache: does archiving bring nothing back, does compacting change no read (under the premises below), is the cache coherent, are ids and slots unique, does a request end? |
| `store_flush_retry` | **violated** | A flush whose commit landed unheard is retried into the slot that commit refers to; a crash then loses acknowledged writes. |
| `scan_retry_after_error` | **violated** | A scan continued after a device error yields the old value of a deleted key. |
| `fleet_flush` | **violated** | A flush under a running job of another node's tables goes below the drop gate that the job took at its start; a deleted key reads again. |

The violated runs state what a comment or a document of the repository says; each
has an entry under `findings` with the quoted line.

### Premises of CompactionKeepsReads

`CompactionSafe`, that a compaction never changes what is read, is what the comments of
`compact.rs` say; `fleet_flush` refutes it. `CompactionKeepsReads` in `fleet` says it under
three premises, none of which the code enforces:

- `GateFresh`: no table of another node that lies over the rest of the job is below the
  origin its drop gate took for them. A flush under the job breaks it (`fleet_flush`).
- `PlacesKept`: under the node and wall of the output each input keeps its place among the
  tables of other nodes. Inputs of different walls (the output gets the greatest), and a
  stamp or claim of an input under the job (the output gets the wall read at its start), break
  it; the "Known limitation" of `docs/tiered-sweeper.md` is of the first kind.
- `NoCircle`: the versions of a key do not go round in a circle (`VersionCycle`). An older own
  table stamped before a newer one breaks it.

### Faults

Block writes land in the order they are issued; a crash tears the one in progress,
leaving old bytes or erased ones. An error or a dropped future may leave an operation
undone or, where the constant `Lying` is TRUE, done although nobody heard of it. The
passing runs of Manifest and Store take `Lying = FALSE`, which is a real limit of what
they show: with `Lying = TRUE`, `CrashAtomic` and `NoMixedCopy` of Manifest fail (the
retry reuses the sequence number and the copy of the landed attempt), and
`store_flush_retry` is the consequence for data. In Wal, a dropped flush may always
have landed; `wal_crash` includes that, and `GroupAtomic` fails with `Lying = TRUE`
(a rolled-back write can reappear).

### Bounds

- Manifest: two copies, bodies of one, two, two and three blocks, three commits:
  the third overwrites the first one's copy, and interrupted attempts are overwritten
  by shorter and longer ones. Crashes and failures are not bounded.
- Wal: blocks of three units, records of one or two, two log blocks (three for
  `append_batch`): a block holds several records, a group fills a block, the log wraps
  within two flushes. Two writes (three for `append_batch`), one fault, any number of
  crashes.
- Ring: two slots, eight tickets with the start at 7, three claims: the ticket space
  wraps at the second claim and the third reuses the first one's slot. `Prompt` excludes the claim that sleeps
  through a whole ticket space (2^31 claims), which needs more claims than these.
- Drainer: four tickets across the wrap, batches of two, a memtable of two.
- Store: two keys, an earlier life's table at the bottom, four sequence
  numbers, slots of six blocks (three data blocks), so a merge of two tables splits;
  one trouble (failure, drop, take-over, reopening or crash) anywhere. With one
  trouble, a crash during the recovery of an earlier one is not seen in Store; Wal
  and Manifest have it.
- ReadPath: three keys, six writes in all: two of any kind on memtables that four earlier
  ones filled, blocks of at most three values with a restart point every two: a key's
  versions cross restart points and blocks. One event (flush, split, ingest or damage
  beyond the first flush) and every view and time that tells the writes apart.
- `merge`: three levels of two tables (six slots, as `LEVELS * TABLES` gives), four keys
  of two lengths, scripts of writes that make overlapping range tombstones, a cover, an
  inexact range and an open end of one each, so that each of these limits is passed;
  two events among snapshots, releases and requests.
- `fleet`: two levels of three tables, a foreign table of wall 6 and one of no node, which has
  the id of the handle's own first table; own stamps have wall 7, so that own tables lie below
  the foreign one until they are stamped and above it then; two writes and three events among
  snapshots, requests, archives, ingests and stamps; one cache frame. Splits do not happen here, they do in
  `merge`; the region is never full here, it is in `store_tight`.

### Fairness

`ring`: the consumer keeps polling, a writer inside `publish` keeps running, and the
host releases the slots of threads it has joined (weak fairness); nobody is obliged to
put. `drainer`: the host keeps calling `sweep` (weak) and flushes whenever sweep
reports `Stalled` (strong, since the stall comes and goes between sweeps): the contract
stated in `drainer.rs`. `fleet`: the host keeps calling `compact_step` while it has
something to do. That is weak fairness of `compact_step`; it is written out in `FairSpec`
with `compact_due`, a state predicate for "the call changes something", because TLC
cannot evaluate ENABLED of so large an action in reasonable time. `FlushMakesRoom` and the
other action properties need none.

Deadlock is checked except in `drainer`, where a poisoned drainer stops for good, and
in `merge`, `fleet` and `fleet_flush`, where the host has run out of writes and events.

## 4. What is proved

`ManifestProofs` proves, for every number of copies (at least two), every copy
size, every set of contents and every bound on the commit counter, under any number
of crashes, failures and dropped futures:

- `CommitTypes`: `Spec => []TypeOK`;
- `CommitsAreKept`: `Spec => []AckedKept`;
- `CommitIsAtomic`: `Spec /\ Heard => []CrashAtomic`;
- `CopiesAreNeverMixed`: `Spec /\ Heard => []NoMixedCopy`.

The first two hold whatever the device reports. The last two do not: a commit whose last
block landed and which is then reported as failed, or dropped, is retried under the same
sequence number into the same copy, and a crash during that retry can leave a copy put
together from both. `Heard` excludes exactly that: no step leaves the flush of a commit
without the commit being acknowledged, unless the power goes. `AckedKept` is what remains
without it: the acknowledged manifest stays whole in its copy, and recovery takes it or a
copy that holds attempts at the next one.

`CrashAtomic` is not inductive: after an interrupted attempt, the next commit reuses its
sequence number and its copy, so one copy can hold valid blocks of two commits with
the same number. The inductive invariant `IInv` adds that every valid block is where
its sequence number puts it (`FrameInv`), that the acknowledged commit is whole
in its own copy (`LiveInv`), that a commit in progress has landed a prefix
(`PrefixInv`), all of which any device keeps (`DInv`), and, under `Heard`, that either the
commit in flight is whole or no attempt at it has landed its last block (`TornInv`): a copy
without its last block is not intact. The lemma
`CopyTurns` (consecutive commits go to different copies) keeps the target away from
the acknowledged copy; `Recovery` says what `recover_from` returns under `IInv`; one
lemma per action shows that the step keeps it. `NoMixedCopy` follows from `IInv` once
`OneCommit` is added: a copy that is intact is filled by one body. A step that makes a copy
intact is the landing of a commit's last block (`WritesWhole`).

`DrainerProofs` proves, for every ticket space and start, batch size, memtable, stall
budget and number of tickets, with errors and dropped sweeps at any write:

- `DrainerForgetsNothing`: `Spec => []NothingForgotten`;
- `AckedIsDurable`: `Spec => []AckedDurable`;
- `ReplayInTicketOrder`: `Spec => []LogInTicketOrder`;
- `SnapshotsSeeThePrefix`: `Spec => []SnapshotIsAckedPrefix`;
- `PutsTellTheTruth`: `Spec => [](FewDead => PutTellsTruth)`.

`AckedDurable` speaks of tickets below the watermark only. Its `IInv` adds what is known
of the tickets above it: `Sealed` (a ticket the cursor has passed is dead or drained for
good, and a drained one in the buffer has its data) and `Phases` (when sweep acknowledges,
every mutation of the buffer is in the log). `NothingForgotten` is needed too: it says that
the head of the buffer is the ticket `advance_durable` compares with the watermark, so that
its CAS, which does nothing on a mismatch, never misses. `NextTicket` carries that across
the wrap, `BatchHoldsPuts` shows that the batch holds every mutation of the buffer, and one
lemma per action (or per group of actions alike) keeps `IInv`.

The next two rest on `JInv`: whatever is in the log is acknowledged or still in the buffer
(so a retried batch is logged whole behind the first copy), and the memtable holds the
acknowledged prefix, with the batch while sweep acknowledges. `PutsTellTheTruth` is about
`is_ticket_durable`, which compares a ticket with the watermark in a window of half the
ticket space. The window is wide enough when `FewDead` holds: the dead tickets the cursor has
not passed, the ring and a batch fit into it. `QInv` bounds the queue (live tickets have slots
of their own). The hypothesis is needed: nothing in the code bounds the tickets of dead
writers that pile up ahead of a drainer that is not polled.

`RingProofs` proves, for every ring size, ticket space (a multiple of it),
seed and set of writers, with deaths, host releases, fences and spurious CAS failures:

- `Exclusive`: `Spec => []SlotExclusive`;
- `NeverFencesHead`: `Spec => []HeadNotFenced`;
- `ImplementsQueue`: `Spec => RefinesQueue`.

The last is invariant I3 of `docs/multiwriter-spec.md`, which it marks as a proof obligation
("mechanize or hand-prove the reduction"). All three assume `Surroundings`, two conditions on
the constants that the document does not name: `Prompt` (no claim attempt sleeps between its
gate check and its CAS while the head goes round the whole ticket space; without it
`RefinesQueue` fails, see section 5) and `2 * N + MaxDeaths <= TicketSpace` (the ticket space
holds two laps of the ring and the tickets of the writers that die; in the code it is 2^31).
The instance of `MCRing` satisfies both.

The inductive invariant `IInv` says that there are a seed and a function `b` from slots to
endless tickets such that head and cursor are the wrapped forms of `claimed` and `next`
(`Shape`), each gate says what became of the ticket its slot is at (`Gates`: free, published
with its payload in both cells, or fenced), a live ticket has its slot (`FatesOk`), a writer
between claim and publish owns the slot it writes to (`Owner`, `Distinct`), a claim attempt
that saw its gate can trust it while the head stands (`Attempt`), the consumer reads the cells
of a published ticket (`Reading`), and the host releases what a dead writer held (`Host`).
`GateSays` is the core: within a lap of the ticket space equal gates mean equal endless
tickets, by the lemmas on remainders. `DeathsCounted` pays for every dead ticket ahead of
the consumer with a death, which gives `NeverLapped`: the consumer is never a lap of the
ticket space behind the head. One lemma per atomic access shows that it keeps `IInv` and is a
step of the queue or none.

`ManifestProofs` also proves, for all nodes, walls and sequence numbers, what kind of order
`version_gt` is:

- `VersionAsymmetric`: no two versions beat each other;
- `VersionTotal`: of two written versions that differ in node or sequence number one wins,
  whatever their walls;
- `VersionTransitive`: the rule is transitive on a set of versions in which what a node's
  older version beats, of another node, its newer one beats too (`NoneBetween`), so the
  winner of a key does not depend on the order in which tables are read;
- `WallsInOrder`: walls that never fall as a node's sequence numbers grow give `NoneBetween`.
  The code does not see to it: flush seals with wall 0, and the host stamps when it likes;
- `VersionCycle`: without it three versions can go round in a circle.

Model-checked only:

- The liveness properties (`PublishedDrained`, `NeverWedged`, `Resolves`, `RequestEnds`):
  liveness under fairness is beyond the prover. So are the action properties that compare
  what recursive reads return before and after a step (`CompactionKeepsReads`,
  `ArchiveNeverResurrects`, `ScanAdvances`).
- The properties of Wal and of Store, `ImplementsKv` included: provable in principle, and not proved here.
- The invariants of ReadPath and Replica: lookups, scans and merges there are RECURSIVE
  operators over blocks and tables, which the prover cannot use, and what they compute
  is an induction over data.

## 5. Disagreements

Where the code and a comment, document or test of the repository say different things, or
where a property needs an assumption that the code does not enforce. The first three have
runs and findings.

Shown by TLC (change the run as described and it fails):

- **Flush retried into a live slot** (`store_flush_retry`; `db/flush.rs:121-128`,
  `slots.rs:24`).
- **Scan continued after an error** (`scan_retry_after_error`): `scan.rs:319-321` promises
  that deleted keys are skipped; the loop at 466 moves some heads before the error.
- **Flush under another node's job** (`fleet_flush`): `outside_set` takes the drop gate once
  (`db/compaction.rs:491-527`), with the memtable as newer than any table; a flush turns it
  into a table of wall 0 (`db/flush.rs:113`), and a tombstone that hides it is dropped
  (`compact.rs:927-930`).
- **Dropped put**: with `"put"` added to `Dropping` in `MCWal.cfg`, a put dropped at its
  await leaves its record staged; the next acknowledged put shares its sequence number
  and may be lost, and a flush can be refused with `WalFull` for good (`db/mod.rs:960`,
  967; `wal.rs:777-778`; `db/flush.rs:151`).
- **append_batch before a flush**: with `Calls = {"append_batch", "flush"}`, `WalBlocks = 1`,
  `Units = 2` and `MaxFaults = 0` in `MCWal.cfg`, `FlushMakesRoom` fails: a batch that does not
  fit the region leaves its last records staged with no block to go to, and the flush that
  would wrap the region first has to write that stage (`wal.rs:626-648`,
  `db/flush.rs:151`). `Db` itself never calls `append_batch`.
- **Ring claim**: with `Prompt = FALSE`, `TicketSpace = 6`, `MaxTickets = 8` and no deaths or
  spurious failures in `MCRing.cfg`, `RefinesQueue` fails: a writer that sleeps between gate check
  and CAS while the 31-bit head comes round claims a slot in use (`ring.rs:294-296`;
  `docs/multiwriter-spec.md:78-79`).
- **Batch larger than the memtable**: with `Cap = 1` in `MCDrainer.cfg`, a batch of
  `MAX_WRITES` never fits and `Resolves` fails; nothing relates the two
  (`drainer.rs:38-41`, 366-367, 618).
- **Stamp under a job**: without `PlacesKept` in `CompactionKeepsReads`, `fleet` fails:
  `stamp_table` does not abort the job that reads the table, and the output carries the
  wall that the job read at its start (`db/archive.rs:345-346`, `db/compaction.rs:937-946`).
- **Compaction of a circle**: without `NoCircle`, `fleet` fails: which of three versions wins
  depends on the tables' order, which a compaction changes.
- **Failures that landed**: `Lying = TRUE` in `MCManifest.cfg` and `MCWal.cfg`, above.

Proved:

- **version_gt is no total order** on what a handle may hold (`VersionCycle`; the comment
  at `version.rs:12-14`, 72-73): an older table stamped before a newer one is enough.

Read in the code; not reached by a run:

- **The veto "always clears"** (`db/compaction.rs:697-699`, 770-772;
  `docs/tiered-sweeper.md:182-184`): a foreign table at the bottom level is the source of no job,
  so nothing moves it. Requests still end, as `RequestEnds` shows: they skip the level.
- **Dropped seal**: `out_lo` advances before the awaits of the seal
  (`db/compaction.rs:1132-1134`); resumed with the same scratch, it leaves out the
  range-tombstone pieces below.
- **Cache after reopening**: with a commit that landed unheard and an ingested table of the
  same id and slot, a kept cache can hold the earlier table's block (`cache.rs:11-15`, 167-169).
- **Ingest after delete** brings the table's values back once the tombstone was compacted
  away (`db/archive.rs:122-123`); the "Known limitation" of `docs/tiered-sweeper.md` is of the same kind.
- **Index overflow** is not bounded by `MIN_SLOT_BLOCKS` (`db/mod.rs:432-434`).
- **A job that ends in TableTooLarge** without being requested is selected again for ever.
- **Replay** of more live records than the memtable holds fails `open` (`wal.rs:734`, 838);
  `open` on a live handle replays what was written and never synced (`db/mod.rs:674`);
  a rejected batch can replay (`db/mod.rs:1047-1048`).
- **Writers**: `RingFull` is also the answer to a lost CAS (`writer.rs:69`), and a `Put`
  polled more than half the ticket space late reads the watermark wrongly (`writer.rs:22`,
  `drainer.rs:324`).

## 6. What is not modelled

- Bytes: compression, checksums, record and table encodings, varints, the payload codec of
  the drainer. A block is whole or damaged, an entry has a length, a checksum tells.
- The ESP32 driver (registers), errors, macros, profiles and default sizes (no state),
  and `model.rs`, which is a test oracle: `Truth` in ReadPath and Replica plays its part.
- The staged form of `ManifestEdit` (an edit is its effect), the checks of sizes and
  regions in `open` (`BadConfig`), `BufferTooSmall`, and `Busy` of a borrowed scratch.
- Failures, dropped futures and crashes while range tombstones are merged or tables come
  and go: Store has the faults with points of one node, Replica has range tombstones and
  nodes without faults. The product of the two is beyond small instances.
- Termination of unrequested compaction under pressure: `TightNeverGrows` is its safety part.
- `archive_commit` is judged at time zero as its own check is: what an expired value hides
  is not considered.
