------------------------------ MODULE Manifest ------------------------------
(***************************************************************************)
(* The manifest commit protocol of src/manifest.rs: several copies, each a *)
(* run of blocks; a commit writes copy seq % Copies block by block and     *)
(* flushes; recovery takes the newest copy all of whose blocks agree.      *)
(*                                                                         *)
(* The contents of a manifest (WAL head, counters, table refs) are a value *)
(* of Bodies; what the protocol tells apart is how many blocks a body      *)
(* fills (BlocksOf) and which body a block's chunk belongs to.             *)
(*                                                                         *)
(* The device lands writes in the order they are issued.  A block write is *)
(* two steps, so a crash can leave the block erased or torn.  A commit     *)
(* that reports an error, or whose future is dropped, leaves whatever the  *)
(* device did: some blocks short of its last one or, when Lying, all.      *)
(***************************************************************************)
EXTENDS Integers, FiniteSets

CONSTANTS
    Copies,       \* copies in the layout (ManifestLayout::copies)
    MaxBlocks,    \* blocks of one copy (Manifest::max_blocks)
    Bodies,       \* possible manifest contents
    EmptyBody,    \* the contents of a fresh manifest
    BlocksOf,     \* blocks a body fills (Manifest::blocks_for)
    MaxSeq,       \* bound on the 64-bit commit counter
    Lying         \* a commit may fail, or be dropped, when all its blocks landed

ASSUME CopiesAssumption == Copies \in Nat /\ Copies >= 2
ASSUME BlocksAssumption ==
    /\ MaxBlocks \in Nat \ {0}
    /\ EmptyBody \in Bodies
    /\ BlocksOf \in [Bodies -> 1..MaxBlocks]
ASSUME BoundAssumption == MaxSeq \in Nat /\ Lying \in BOOLEAN

VARIABLES
    disk,      \* disk[k][i]: block i of copy k
    phase,     \* where the engine is: closed, idle, or inside commit_edit
    seq,       \* Manifest.seq, the last commit this handle knows of
    body,      \* the in-memory contents
    newBody,   \* the contents the commit in progress encodes
    blk        \* the block the commit in progress writes next

vars == <<disk, phase, seq, body, newBody, blk>>

CopyIds  == 0 .. Copies - 1
BlockIds == 0 .. MaxBlocks - 1
Phases   == {"closed", "idle", "write", "landing", "flush"}

\* A block as check_block sees it: never written (or erased), unreadable,
\* or a valid frame with its header and its body's chunk.
BlockType == [kind : {"blank", "torn", "ok"}, seq : Nat, index : Nat,
              count : Nat, body : Bodies]

Blank == [kind |-> "blank", seq |-> 0, index |-> 0, count |-> 0, body |-> EmptyBody]
Torn  == [kind |-> "torn",  seq |-> 0, index |-> 0, count |-> 0, body |-> EmptyBody]

encode_view_block(b, s, i) ==
    [kind |-> "ok", seq |-> s, index |-> i, count |-> BlocksOf[b], body |-> b]

\* Variant: every commit overwrites the same copy.
copy_start_first(s) == 0

\* Where commit s goes.
copy_start(s) == s % Copies

check_block(b) == b.kind = "ok"

(***************************************************************************)
(* Recovery                                                                *)
(***************************************************************************)

\* Variant: the blocks of a copy need not agree on the commit.
Intact_any_seq(copy) ==
    LET head == copy[0]
    IN  /\ check_block(head)
        /\ head.index = 0
        /\ head.count \in 1 .. MaxBlocks
        /\ \A i \in 1 .. head.count - 1 :
              check_block(copy[i]) /\ copy[i].index = i /\ copy[i].count = head.count

\* A copy is intact when all its blocks are valid and agree.
Intact(copy) ==
    LET head == copy[0]
    IN  /\ check_block(head)
        /\ head.index = 0
        /\ head.count \in 1 .. MaxBlocks
        /\ \A i \in 1 .. head.count - 1 :
              /\ check_block(copy[i])
              /\ copy[i].seq = head.seq
              /\ copy[i].index = i
              /\ copy[i].count = head.count

\* What probe_copy reports of a copy.
probe_copy(copy) ==
    CASE copy[0].kind = "blank" -> "Blank"
      [] Intact(copy)           -> "Intact"
      [] OTHER                  -> "Corrupt"

IntactCopies(d) == {k \in CopyIds : probe_copy(d[k]) = "Intact"}

\* k wins recovery: no intact copy is newer.  The first of equals is kept.
Newest(d, k) ==
    /\ k \in IntactCopies(d)
    /\ \A j \in IntactCopies(d) :
          \/ d[j][0].seq < d[k][0].seq
          \/ d[j][0].seq = d[k][0].seq /\ k <= j

\* The chunks of an intact copy put together again: the body they are all
\* part of, if there is one.
DecodesTo(copy, b) ==
    /\ copy[0].count = BlocksOf[b]
    /\ \A i \in 0 .. copy[0].count - 1 : copy[i].body = b

\* recover_from opens the device as commit number s with contents b.
Recovers(d, s, b) ==
    \/ \E k \in CopyIds :
          Newest(d, k) /\ d[k][0].seq = s /\ DecodesTo(d[k], b)
    \/ /\ IntactCopies(d) = {}
       /\ \E k \in CopyIds : probe_copy(d[k]) = "Blank"
       /\ s = 0
       /\ b = EmptyBody

(***************************************************************************)
(* Operations                                                              *)
(***************************************************************************)

Init ==
    /\ disk = [k \in CopyIds |-> [i \in BlockIds |-> Blank]]
    /\ phase = "closed"
    /\ seq = 0
    /\ body = EmptyBody
    /\ newBody = EmptyBody
    /\ blk = 0

\* Db::open reads the manifest back.  (CorruptManifest keeps it closed.)
recover_from ==
    /\ phase = "closed"
    /\ \E s \in 0 .. MaxSeq, b \in Bodies :
          /\ Recovers(disk, s, b)
          /\ seq' = s
          /\ body' = b
          /\ newBody' = b
    /\ phase' = "idle"
    /\ UNCHANGED <<disk, blk>>

\* Variant: the counter is not checked for exhaustion.
commit_edit_unchecked(b) ==
    /\ phase = "idle"
    /\ newBody' = b
    /\ blk' = 0
    /\ phase' = "write"
    /\ UNCHANGED <<disk, seq, body>>

\* commit_edit passed its checks: it will write b as commit seq + 1.
\* CounterExhausted stops it at the last sequence number.
commit_edit(b) ==
    /\ phase = "idle"
    /\ seq < MaxSeq
    /\ newBody' = b
    /\ blk' = 0
    /\ phase' = "write"
    /\ UNCHANGED <<disk, seq, body>>

\* poll_write_block begins: the block's old contents are gone, erased on
\* NOR flash, half overwritten elsewhere.
WriteBegins ==
    /\ phase = "write"
    /\ blk < BlocksOf[newBody]
    /\ \E b \in {Blank, Torn} : disk' = [disk EXCEPT ![copy_start(seq + 1)][blk] = b]
    /\ phase' = "landing"
    /\ UNCHANGED <<seq, body, newBody, blk>>

\* The block write completes.
WriteLands ==
    /\ phase = "landing"
    /\ disk' = [disk EXCEPT ![copy_start(seq + 1)][blk] =
                    encode_view_block(newBody, seq + 1, blk)]
    /\ blk' = blk + 1
    /\ phase' = IF blk + 1 < BlocksOf[newBody] THEN "write" ELSE "flush"
    /\ UNCHANGED <<seq, body, newBody>>

\* poll_flush succeeds: the edit is applied in memory and seq bumped.
FlushLands ==
    /\ phase = "flush"
    /\ body' = newBody
    /\ seq' = seq + 1
    /\ phase' = "idle"
    /\ UNCHANGED <<disk, newBody, blk>>

\* A write or the flush reports an error, or the future is dropped: the
\* handle keeps its old seq and contents, the device what it did.
CommitFails ==
    /\ phase \in {"write", "landing"} \/ (Lying /\ phase = "flush")
    /\ phase' = "idle"
    /\ newBody' = body
    /\ UNCHANGED <<disk, seq, body, blk>>

\* Power is lost: only the device survives.
Crash ==
    /\ phase # "closed"
    /\ phase' = "closed"
    /\ UNCHANGED <<disk, seq, body, newBody, blk>>

Next ==
    \/ recover_from
    \/ \E b \in Bodies : commit_edit(b)
    \/ WriteBegins
    \/ WriteLands
    \/ FlushLands
    \/ CommitFails
    \/ Crash

Spec == Init /\ [][Next]_vars

(***************************************************************************)
(* Properties                                                              *)
(***************************************************************************)

\* Every variable has its type: the block index stays within a copy and the
\* commit counter within its bound (CounterExhausted).
TypeOK ==
    /\ disk \in [CopyIds -> [BlockIds -> BlockType]]
    /\ phase \in Phases
    /\ seq \in 0 .. MaxSeq
    /\ body \in Bodies
    /\ newBody \in Bodies
    /\ blk \in 0 .. MaxBlocks

\* "A crash at any point leaves exactly the pre-commit or the post-commit
\* state, never a mix": in every state, recover_from would succeed, and
\* what it would return is the last acknowledged commit or the whole of the
\* one in flight.  Acknowledged commits are never lost, torn first commits
\* read as a fresh device, and CorruptManifest never happens.
CrashAtomic ==
    /\ \E s \in 0 .. MaxSeq, b \in Bodies : Recovers(disk, s, b)
    /\ \A s \in 0 .. MaxSeq, b \in Bodies :
          Recovers(disk, s, b) =>
              \/ s = seq /\ b = body
              \/ s = seq + 1 /\ b = newBody /\ phase \in {"flush", "closed"}

\* "A commit torn anywhere across its blocks leaves its copy invalid": a
\* copy recovery accepts holds the chunks of one commit.
NoMixedCopy ==
    \A k \in CopyIds :
        probe_copy(disk[k]) = "Intact" => \E b \in Bodies : DecodesTo(disk[k], b)
=============================================================================
