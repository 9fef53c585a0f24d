--------------------------- MODULE ManifestProofs ---------------------------
(***************************************************************************)
(* Crash atomicity of the manifest commit, for every number of copies,     *)
(* every copy size and every set of contents; and, at the end, the order   *)
(* of versions by which a reader chooses among what the trees hold.        *)
(*                                                                         *)
(* CrashAtomic is not inductive.  After a crash or an error the copy may   *)
(* still hold blocks of the abandoned attempt, and the next commit reuses  *)
(* both its sequence number and its copy, so a copy can hold valid blocks  *)
(* of two commits under one sequence number.  What saves recovery is that  *)
(* a commit writes its blocks in order: an abandoned attempt never landed  *)
(* its last block (NoLast), and a copy missing its last block is not       *)
(* intact.  That a copy missing its last block is never followed by a      *)
(* retry over a copy that has it all takes Heard, an assumption on the     *)
(* device and the caller; AckedKept is what holds without it.              *)
(***************************************************************************)
EXTENDS Manifest, Version, TLAPS

Current == copy_start(seq)
Target  == copy_start(seq + 1)

\* Commit s of contents b is whole in a copy.
Filled(copy, b, s) ==
    \A i \in 0 .. BlocksOf[b] - 1 : copy[i] = encode_view_block(b, s, i)

\* The commit in flight is whole on the device.
Whole == Filled(disk[Target], newBody, seq + 1)

\* No attempt at commit seq + 1 landed its last block.
NoLast ==
    \A i \in BlockIds :
        ~ /\ disk[Target][i].kind = "ok"
          /\ disk[Target][i].seq = seq + 1
          /\ i + 1 = disk[Target][i].count

\* Every valid block is where a commit of its sequence number puts it.
FrameInv ==
    \A k \in CopyIds, i \in BlockIds :
        disk[k][i].kind = "ok" =>
            /\ disk[k][i].seq \in 1 .. seq + 1
            /\ copy_start(disk[k][i].seq) = k
            /\ disk[k][i].index = i
            /\ disk[k][i].count = BlocksOf[disk[k][i].body]

\* Before the first acknowledged commit only the target was written.
FreshInv ==
    seq = 0 =>
        /\ body = EmptyBody
        /\ \A k \in CopyIds : k # Target => disk[k][0].kind = "blank"

\* The last acknowledged commit is whole in its copy.
LiveInv ==
    seq > 0 => Filled(disk[Current], body, seq)

\* A commit in progress has landed the blocks before blk.
PrefixInv ==
    phase \in {"write", "landing"} =>
        /\ seq < MaxSeq
        /\ blk < BlocksOf[newBody]
        /\ \A i \in 0 .. blk - 1 :
              disk[Target][i] = encode_view_block(newBody, seq + 1, i)

\* A commit that waits for its flush is whole.
FlushInv == phase = "flush" => Whole /\ seq < MaxSeq

\* What every step keeps, whatever the device reports.
DInv == TypeOK /\ FrameInv /\ FreshInv /\ LiveInv /\ PrefixInv /\ FlushInv

\* The commit in flight is whole, or its last block has not landed.
TornInv ==
    \/ Whole /\ phase \in {"flush", "closed"} /\ seq < MaxSeq
    \/ NoLast /\ phase # "flush"

IInv == DInv /\ TornInv

\* No commit_edit returns an error, and none is dropped, once all its blocks
\* have landed: the flush after them succeeds, or the power goes.
HeardStep == phase = "flush" /\ phase' = "idle" => seq' = seq + 1
Heard == [][HeardStep]_vars

\* The last acknowledged commit is whole in its copy, and the copy recovery
\* takes is that one, or holds attempts at the next commit.
AckedKept ==
    /\ seq > 0 => Filled(disk[Current], body, seq)
    /\ \A k \in CopyIds : Newest(disk, k) =>
          \/ disk[k][0].seq = seq /\ DecodesTo(disk[k], body)
          \/ disk[k][0].seq = seq + 1 /\ k = Target

-----------------------------------------------------------------------------
\* Consecutive commits go to different copies: seq % copies.
LEMMA CopyTurns ==
    ASSUME NEW s \in Nat
    PROVE  /\ copy_start(s) \in CopyIds
           /\ copy_start(s + 1) # copy_start(s)
<1>1. copy_start(s) \in CopyIds
  BY CopiesAssumption DEF copy_start, CopyIds
<1>2. ASSUME (s + 1) % Copies = s % Copies PROVE FALSE
  <2> DEFINE p == s \div Copies
             q == (s + 1) \div Copies
  <2>1. p \in Int /\ q \in Int
    BY CopiesAssumption
  <2>2. s = Copies * p + (s % Copies)
    BY CopiesAssumption
  <2>3. s + 1 = Copies * q + ((s + 1) % Copies)
    BY CopiesAssumption
  <2> HIDE DEF p, q
  <2>4. Copies * q - Copies * p = 1
    BY <1>2, <2>1, <2>2, <2>3, CopiesAssumption
  <2>5. Copies * (q - p) = 1
    BY <2>1, <2>4, CopiesAssumption
  <2>6. CASE q - p <= 0
    BY <2>1, <2>5, <2>6, CopiesAssumption
  <2>7. CASE q - p >= 1
    BY <2>1, <2>5, <2>7, CopiesAssumption
  <2> QED BY <2>1, <2>6, <2>7
<1> QED BY <1>1, <1>2 DEF copy_start

\* blocks_for is between one and the size of a copy.
LEMMA BlockCount ==
    ASSUME NEW b \in Bodies
    PROVE  /\ BlocksOf[b] \in Nat
           /\ BlocksOf[b] >= 1
           /\ BlocksOf[b] <= MaxBlocks
           /\ 0 .. BlocksOf[b] - 1 \subseteq BlockIds
  BY BlocksAssumption DEF BlockIds

\* A copy that probe_copy accepts as commit seq + 1 is the whole commit in
\* flight.
LEMMA IntactTarget ==
    ASSUME IInv, NEW k \in CopyIds, Intact(disk[k]), disk[k][0].seq = seq + 1
    PROVE  k = Target /\ Whole /\ phase \in {"flush", "closed"}
<1> DEFINE n == disk[k][0].count
<1>1. 0 \in BlockIds /\ n \in 1 .. MaxBlocks /\ n - 1 \in BlockIds
  BY BlocksAssumption DEF Intact, BlockIds
<1>2. disk[k][0].kind = "ok"
  BY DEF Intact, check_block
<1>3. k = Target
  BY <1>1, <1>2 DEF IInv, DInv, FrameInv, Target
<1>4. /\ disk[k][n - 1].kind = "ok"
      /\ disk[k][n - 1].seq = seq + 1
      /\ disk[k][n - 1].count = n
  <2>1. CASE n = 1
    BY <1>2, <2>1
  <2>2. CASE n > 1
    <3>1. n - 1 \in 1 .. n - 1
      BY <1>1, <2>2
    <3> QED BY <3>1 DEF Intact, check_block
  <2> QED BY <1>1, <2>1, <2>2
<1>5. ~ NoLast
  BY <1>1, <1>3, <1>4 DEF NoLast
<1> QED BY <1>3, <1>5 DEF IInv, TornInv

\* Any other intact copy is at or below the last acknowledged commit, and
\* only that commit's own copy reaches it.
LEMMA IntactOther ==
    ASSUME DInv, NEW k \in CopyIds, Intact(disk[k]), disk[k][0].seq # seq + 1
    PROVE  /\ disk[k][0].seq \in 1 .. seq
           /\ disk[k][0].seq = seq => k = Current
<1>1. 0 \in BlockIds /\ disk[k][0].kind = "ok"
  BY BlocksAssumption DEF Intact, check_block, BlockIds
<1>2. seq \in Nat
  BY BoundAssumption DEF DInv, TypeOK
<1> QED BY <1>1, <1>2 DEF DInv, FrameInv, Current

\* The header fields of an encoded block.
LEMMA EncodedFields ==
    ASSUME NEW b, NEW s, NEW i
    PROVE  /\ encode_view_block(b, s, i).kind = "ok"
           /\ encode_view_block(b, s, i).seq = s
           /\ encode_view_block(b, s, i).index = i
           /\ encode_view_block(b, s, i).count = BlocksOf[b]
           /\ encode_view_block(b, s, i).body = b
  BY DEF encode_view_block

\* A copy filled by one commit is intact and decodes to its contents.
LEMMA FilledIntact ==
    ASSUME NEW copy, NEW b \in Bodies, NEW s \in Nat,
           Filled(copy, b, s)
    PROVE  /\ Intact(copy) /\ probe_copy(copy) = "Intact"
           /\ copy[0].seq = s
           /\ \A c \in Bodies : DecodesTo(copy, c) <=> c = b
<1>1. BlocksOf[b] \in 1 .. MaxBlocks
  BY BlocksAssumption
<1>2. \A i \in 0 .. BlocksOf[b] - 1 :
        /\ copy[i].kind = "ok" /\ copy[i].seq = s /\ copy[i].index = i
        /\ copy[i].count = BlocksOf[b] /\ copy[i].body = b
  BY EncodedFields DEF Filled
<1>3. 0 \in 0 .. BlocksOf[b] - 1
  BY <1>1, BlocksAssumption
<1>4. /\ copy[0].kind = "ok" /\ copy[0].seq = s /\ copy[0].index = 0
      /\ copy[0].count = BlocksOf[b] /\ copy[0].body = b
  BY <1>2, <1>3
<1>5. Intact(copy)
  <2>1. \A i \in 1 .. copy[0].count - 1 : i \in 0 .. BlocksOf[b] - 1
    BY <1>1, <1>4, BlocksAssumption
  <2> QED BY <1>1, <1>2, <1>4, <2>1 DEF Intact, check_block
<1>6. probe_copy(copy) = "Intact"
  BY <1>4, <1>5 DEF probe_copy
<1>7. ASSUME NEW c \in Bodies PROVE DecodesTo(copy, c) <=> c = b
  BY <1>2, <1>3, <1>4 DEF DecodesTo
<1> QED BY <1>4, <1>5, <1>6, <1>7

\* probe_copy says Intact exactly when the copy's blocks agree.
LEMMA ProbeIntact ==
    ASSUME NEW k \in CopyIds
    PROVE  k \in IntactCopies(disk) <=> Intact(disk[k])
  BY DEF IntactCopies, probe_copy, Intact, check_block

\* The other way round: an intact copy that decodes to b is filled by b.
LEMMA IntactFilled ==
    ASSUME DInv, NEW k \in CopyIds, Intact(disk[k]), NEW b \in Bodies, DecodesTo(disk[k], b)
    PROVE  Filled(disk[k], b, disk[k][0].seq)
<1> SUFFICES ASSUME NEW i \in 0 .. BlocksOf[b] - 1
             PROVE  disk[k][i] = encode_view_block(b, disk[k][0].seq, i)
  BY DEF Filled
<1>1. disk[k][0].count = BlocksOf[b] /\ BlocksOf[b] \in Nat
  BY BlockCount DEF DecodesTo
<1>2. i \in BlockIds /\ disk[k][i] \in BlockType
  BY BlockCount DEF DInv, TypeOK
<1>3. disk[k][i].body = b
  BY <1>1 DEF DecodesTo
<1>4. /\ disk[k][i].kind = "ok" /\ disk[k][i].seq = disk[k][0].seq
      /\ disk[k][i].index = i /\ disk[k][i].count = BlocksOf[b]
  <2>1. CASE i = 0
    BY <1>1, <2>1 DEF Intact, check_block
  <2>2. CASE i # 0
    <3>1. i \in 1 .. disk[k][0].count - 1
      BY <1>1, <2>2
    <3> QED BY <1>1, <3>1 DEF Intact, check_block
  <2> QED BY <2>1, <2>2
<1> QED BY <1>2, <1>3, <1>4 DEF BlockType, encode_view_block

\* The copy recovery takes is the acknowledged one or the target.
LEMMA NewestKnown ==
    ASSUME DInv, NEW k \in CopyIds, Newest(disk, k)
    PROVE  \/ disk[k][0].seq = seq /\ k = Current /\ seq > 0
           \/ disk[k][0].seq = seq + 1 /\ k = Target
<1>1. seq \in Nat /\ body \in Bodies
  BY BoundAssumption DEF DInv, TypeOK
<1>2. Intact(disk[k]) /\ 0 \in BlockIds
  BY ProbeIntact, BlocksAssumption DEF Newest, BlockIds
<1>3. CASE disk[k][0].seq = seq + 1
  BY <1>2, <1>3 DEF Intact, check_block, DInv, FrameInv, Target
<1>4. CASE disk[k][0].seq # seq + 1
  <2>1. disk[k][0].seq \in 1 .. seq /\ (disk[k][0].seq = seq => k = Current)
    BY <1>2, <1>4, IntactOther
  <2>2. Current \in CopyIds
    BY <1>1, CopyTurns DEF Current
  <2>3. Intact(disk[Current]) /\ disk[Current][0].seq = seq
    BY <1>1, <2>1, FilledIntact DEF DInv, LiveInv
  <2>4. disk[Current][0].seq <= disk[k][0].seq
    BY <1>1, <2>1, <2>2, <2>3, ProbeIntact DEF Newest
  <2> QED BY <1>1, <2>1, <2>3, <2>4
<1> QED BY <1>3, <1>4

\* What recover_from may return, whatever the device reported: the last
\* acknowledged commit, or a whole attempt at the next one.
LEMMA RecoversKnown ==
    ASSUME DInv, NEW s \in 0 .. MaxSeq, NEW b \in Bodies, Recovers(disk, s, b)
    PROVE  \/ s = seq /\ b = body
           \/ s = seq + 1 /\ Filled(disk[Target], b, seq + 1)
<1>1. seq \in Nat /\ body \in Bodies /\ Current \in CopyIds
  BY BoundAssumption, CopyTurns DEF DInv, TypeOK, Current
<1>2. ASSUME seq > 0
      PROVE  /\ Intact(disk[Current]) /\ Current \in IntactCopies(disk)
             /\ \A d \in Bodies : DecodesTo(disk[Current], d) <=> d = body
  <2>1. /\ Intact(disk[Current])
        /\ \A d \in Bodies : DecodesTo(disk[Current], d) <=> d = body
    BY <1>1, <1>2, FilledIntact DEF DInv, LiveInv
  <2> QED BY <1>1, <2>1, ProbeIntact
<1>3. ASSUME NEW k \in CopyIds, Newest(disk, k), disk[k][0].seq = s, DecodesTo(disk[k], b)
      PROVE  \/ s = seq /\ b = body
             \/ s = seq + 1 /\ Filled(disk[Target], b, seq + 1)
  <2>1. CASE k = Current /\ s = seq /\ seq > 0
    BY <1>2, <1>3, <2>1
  <2>2. CASE k = Target /\ s = seq + 1
    <3>1. Intact(disk[k])
      BY <1>3, ProbeIntact DEF Newest
    <3> QED BY <1>3, <2>2, <3>1, IntactFilled
  <2> QED BY <1>3, <2>1, <2>2, NewestKnown
<1>4. ASSUME IntactCopies(disk) = {}, s = 0, b = EmptyBody PROVE s = seq /\ b = body
  BY <1>1, <1>2, <1>4 DEF DInv, FreshInv
<1> QED BY <1>3, <1>4 DEF Recovers

\* What recover_from returns in a state of the invariant.
LEMMA Recovery ==
    ASSUME IInv, NEW s \in 0 .. MaxSeq, NEW b \in Bodies
    PROVE  Recovers(disk, s, b) <=>
             IF Whole /\ phase \in {"flush", "closed"}
             THEN s = seq + 1 /\ b = newBody
             ELSE s = seq /\ b = body
<1>1. seq \in Nat /\ body \in Bodies /\ newBody \in Bodies
  BY BoundAssumption DEF IInv, DInv, TypeOK
<1>2. Current \in CopyIds /\ Target \in CopyIds /\ Target # Current
  BY <1>1, CopyTurns DEF Current, Target
<1>3. CASE Whole /\ phase \in {"flush", "closed"}
  <2>1. /\ Target \in IntactCopies(disk)
        /\ disk[Target][0].seq = seq + 1
        /\ DecodesTo(disk[Target], b) <=> b = newBody
    <3>1. /\ Intact(disk[Target])
          /\ disk[Target][0].seq = seq + 1
          /\ \A c \in Bodies : DecodesTo(disk[Target], c) <=> c = newBody
      <4>1. seq + 1 \in Nat
        BY <1>1
      <4> QED BY <1>1, <1>3, <4>1, FilledIntact DEF Whole
    <3> QED BY <1>2, <3>1, ProbeIntact
  <2>2. \A k \in IntactCopies(disk) : k = Target \/ disk[k][0].seq < seq + 1
    <3>1. SUFFICES ASSUME NEW k \in IntactCopies(disk), k # Target
                   PROVE  disk[k][0].seq < seq + 1
      OBVIOUS
    <3>2. k \in CopyIds /\ Intact(disk[k])
      BY <3>1, ProbeIntact DEF IntactCopies
    <3> QED BY <1>1, <3>1, <3>2, IntactTarget, IntactOther DEF IInv
  <2>3. \A k \in CopyIds : Newest(disk, k) <=> k = Target
    <3>1. Newest(disk, Target)
      BY <1>2, <2>1, <2>2 DEF Newest, CopyIds
    <3>2. ASSUME NEW k \in CopyIds, k # Target, Newest(disk, k) PROVE FALSE
      <4>1. /\ disk[k][0].seq < seq + 1
            /\ \/ seq + 1 < disk[k][0].seq
               \/ seq + 1 = disk[k][0].seq
        BY <2>1, <2>2, <3>2 DEF Newest
      <4>2. Intact(disk[k])
        BY <3>2, ProbeIntact DEF Newest
      <4>3. disk[k][0].seq \in Nat
        BY <1>1, <4>1, <4>2, IntactOther, <3>2 DEF IInv
      <4> QED BY <1>1, <4>1, <4>3
    <3> QED BY <3>1, <3>2
  <2> QED BY <1>2, <1>3, <2>1, <2>3 DEF Recovers
<1>4. CASE ~ (Whole /\ phase \in {"flush", "closed"})
  <2>1. \A k \in IntactCopies(disk) :
           /\ disk[k][0].seq \in 1 .. seq
           /\ disk[k][0].seq = seq => k = Current
    <3>1. SUFFICES ASSUME NEW k \in IntactCopies(disk)
                   PROVE  /\ disk[k][0].seq \in 1 .. seq
                          /\ disk[k][0].seq = seq => k = Current
      OBVIOUS
    <3>2. k \in CopyIds /\ Intact(disk[k])
      BY <3>1, ProbeIntact DEF IntactCopies
    <3> QED BY <1>4, <3>2, IntactTarget, IntactOther DEF IInv
  <2>2. CASE seq = 0
    <3>1. IntactCopies(disk) = {}
      BY <2>1, <2>2
    <3>2. disk[Current][0].kind = "blank" /\ body = EmptyBody
      BY <1>2, <2>2 DEF IInv, DInv, FreshInv
    <3>3. \E k \in CopyIds : probe_copy(disk[k]) = "Blank"
      <4>1. probe_copy(disk[Current]) = "Blank"
        BY <3>2 DEF probe_copy, Intact, check_block
      <4> QED BY <1>2, <4>1
    <3> QED BY <1>4, <2>2, <3>1, <3>2, <3>3 DEF Recovers, Newest
  <2>3. CASE seq > 0
    <3>1. /\ Current \in IntactCopies(disk)
          /\ disk[Current][0].seq = seq
          /\ DecodesTo(disk[Current], b) <=> b = body
      <4>1. /\ Intact(disk[Current])
            /\ disk[Current][0].seq = seq
            /\ \A c \in Bodies : DecodesTo(disk[Current], c) <=> c = body
        BY <1>1, <2>3, FilledIntact DEF IInv, DInv, LiveInv
      <4> QED BY <1>2, <4>1, ProbeIntact
    <3>2. \A k \in CopyIds : Newest(disk, k) <=> k = Current
      <4>1. Newest(disk, Current)
        BY <1>1, <1>2, <2>1, <3>1 DEF Newest, CopyIds
      <4>2. ASSUME NEW k \in CopyIds, k # Current PROVE ~ Newest(disk, k)
        BY <1>1, <2>1, <3>1, <4>2 DEF Newest
      <4> QED BY <4>1, <4>2
    <3> QED BY <1>2, <1>4, <3>1, <3>2 DEF Recovers
  <2> QED BY <1>1, <2>2, <2>3
<1> QED BY <1>3, <1>4

\* A whole commit landed its last block.
LEMMA WholeHasLast ==
    ASSUME TypeOK, Whole PROVE ~ NoLast
<1> DEFINE i == BlocksOf[newBody] - 1
<1>1. i \in 0 .. BlocksOf[newBody] - 1 /\ i \in BlockIds
  BY BlockCount DEF TypeOK, BlockIds
<1>2. disk[Target][i] = encode_view_block(newBody, seq + 1, i)
  BY <1>1 DEF Whole, Filled
<1>3. i + 1 = BlocksOf[newBody]
  BY BlockCount DEF TypeOK
<1> QED BY <1>1, <1>2, <1>3, EncodedFields DEF NoLast

\* The inductive invariant gives crash atomicity of recover_from.
LEMMA InvAtomic == IInv => CrashAtomic
<1> SUFFICES ASSUME IInv PROVE CrashAtomic
  OBVIOUS
<1>1. seq \in 0 .. MaxSeq /\ body \in Bodies /\ newBody \in Bodies
  BY DEF IInv, DInv, TypeOK
<1>2. \E s \in 0 .. MaxSeq, b \in Bodies : Recovers(disk, s, b)
  <2>1. CASE Whole /\ phase \in {"flush", "closed"}
    <3>1. seq + 1 \in 0 .. MaxSeq
      BY <1>1, <2>1, WholeHasLast, BoundAssumption DEF IInv, DInv, TornInv
    <3> QED BY <1>1, <2>1, <3>1, Recovery
  <2>2. CASE ~ (Whole /\ phase \in {"flush", "closed"})
    BY <1>1, <2>2, Recovery
  <2> QED BY <2>1, <2>2
<1> QED BY <1>2, Recovery DEF CrashAtomic

\* A blank device satisfies the invariant.
LEMMA InitInv == Init => IInv
<1> SUFFICES ASSUME Init PROVE IInv
  OBVIOUS
<1> USE BlocksAssumption, BoundAssumption
<1>1. disk \in [CopyIds -> [BlockIds -> BlockType]]
  BY DEF Init, BlockType, Blank
<1>2. TypeOK
  BY <1>1 DEF Init, TypeOK, Phases
<1>3. \A k \in CopyIds, i \in BlockIds : disk[k][i].kind = "blank"
  BY DEF Init, Blank
<1>4. Target \in CopyIds /\ 0 \in BlockIds
  BY CopyTurns DEF Target, Init, BlockIds
<1>5. FrameInv /\ FreshInv /\ NoLast
  BY <1>3, <1>4 DEF FrameInv, FreshInv, NoLast, Init
<1> QED BY <1>2, <1>5 DEF IInv, DInv, LiveInv, PrefixInv, FlushInv, TornInv, Init

\* Writing block i of the target copy leaves every other block alone.
LEMMA WriteTarget ==
    ASSUME TypeOK, NEW i \in BlockIds, NEW b \in BlockType,
           disk' = [disk EXCEPT ![Target][i] = b]
    PROVE  /\ disk' \in [CopyIds -> [BlockIds -> BlockType]]
           /\ disk'[Target][i] = b
           /\ \A k \in CopyIds, j \in BlockIds :
                 k # Target \/ j # i => disk'[k][j] = disk[k][j]
<1>1. Target \in CopyIds
  BY CopyTurns, BoundAssumption DEF Target, TypeOK
<1> QED BY <1>1 DEF TypeOK

\* Opening the device keeps the invariant: a whole attempt at the next commit
\* becomes the acknowledged one, any other is forgotten.
LEMMA RecoverStep ==
    ASSUME DInv, recover_from PROVE DInv'
<1>1. PICK s \in 0 .. MaxSeq, b \in Bodies :
         Recovers(disk, s, b) /\ seq' = s /\ body' = b /\ newBody' = b
  BY DEF recover_from
<1>2. TypeOK'
  BY <1>1 DEF DInv, TypeOK, recover_from, Phases
<1>3. seq \in Nat /\ phase = "closed" /\ disk' = disk /\ phase' = "idle"
  BY BoundAssumption DEF DInv, TypeOK, recover_from
<1>4. PrefixInv' /\ FlushInv'
  BY <1>3 DEF PrefixInv, FlushInv
<1>5. CASE s = seq + 1 /\ Filled(disk[Target], b, seq + 1)
  <2>1. FrameInv'
    BY <1>1, <1>3, <1>5 DEF DInv, FrameInv
  <2>2. FreshInv'
    BY <1>1, <1>3, <1>5 DEF FreshInv
  <2>3. LiveInv'
    BY <1>1, <1>3, <1>5 DEF LiveInv, Current, Target
  <2> QED BY <1>2, <1>4, <2>1, <2>2, <2>3 DEF DInv
<1>6. CASE s = seq /\ b = body
  <2>1. FrameInv' /\ FreshInv' /\ LiveInv'
    BY <1>1, <1>3, <1>6 DEF DInv, FrameInv, FreshInv, LiveInv, Target, Current
  <2> QED BY <1>2, <1>4, <2>1 DEF DInv
<1> QED BY <1>1, <1>5, <1>6, RecoversKnown

\* Starting commit_edit keeps the invariant.
LEMMA CommitStep ==
    ASSUME DInv, NEW b \in Bodies, commit_edit(b) PROVE DInv'
<1>1. TypeOK'
  BY BlocksAssumption DEF DInv, TypeOK, commit_edit, Phases
<1>2. FrameInv' /\ FreshInv' /\ LiveInv'
  BY DEF DInv, FrameInv, FreshInv, LiveInv, Target, Current, commit_edit
<1>3. PrefixInv'
  <2>1. BlocksOf[b] > 0
    BY BlockCount
  <2> QED BY <2>1 DEF PrefixInv, commit_edit
<1>4. FlushInv'
  BY DEF FlushInv, commit_edit
<1> QED BY <1>1, <1>2, <1>3, <1>4 DEF DInv

\* Destroying the target block about to be written keeps the invariant: the
\* acknowledged copy is another one.
LEMMA BeginStep ==
    ASSUME DInv, WriteBegins PROVE DInv'
<1>1. PICK b \in {Blank, Torn} : disk' = [disk EXCEPT ![Target][blk] = b]
  BY DEF WriteBegins, Target
<1>2. /\ phase = "write" /\ phase' = "landing"
      /\ seq' = seq /\ body' = body /\ newBody' = newBody /\ blk' = blk
      /\ seq \in Nat /\ newBody \in Bodies /\ body \in Bodies /\ blk \in Nat
      /\ seq < MaxSeq /\ blk < BlocksOf[newBody]
  BY BoundAssumption, BlocksAssumption DEF WriteBegins, DInv, TypeOK, PrefixInv
<1>3. blk \in BlockIds
  BY <1>2, BlockCount, BlocksAssumption DEF BlockIds
<1>4. b \in BlockType /\ b.kind # "ok" /\ (b.kind = "blank" \/ b.kind = "torn")
  BY BlocksAssumption DEF BlockType, Blank, Torn
<1>5. /\ disk' \in [CopyIds -> [BlockIds -> BlockType]]
      /\ disk'[Target][blk] = b
      /\ \A k \in CopyIds, j \in BlockIds :
            k # Target \/ j # blk => disk'[k][j] = disk[k][j]
  BY <1>1, <1>3, <1>4, WriteTarget DEF DInv
<1>6. Target \in CopyIds /\ Current \in CopyIds /\ Target # Current
  BY <1>2, CopyTurns DEF Target, Current
<1>7. Target' = Target /\ Current' = Current
  BY <1>2 DEF Target, Current
<1>8. TypeOK'
  BY <1>2, <1>5 DEF DInv, TypeOK, Phases
<1>9. FrameInv'
  BY <1>2, <1>4, <1>5 DEF DInv, FrameInv
<1>10. FreshInv'
  <2>1. 0 \in BlockIds
    BY BlocksAssumption DEF BlockIds
  <2> QED BY <1>2, <1>5, <1>7, <2>1 DEF DInv, FreshInv
<1>11. LiveInv'
  <2>1. \A i \in 0 .. BlocksOf[body] - 1 : disk'[Current][i] = disk[Current][i]
    BY <1>2, <1>5, <1>6, BlockCount
  <2> QED BY <1>2, <1>7, <2>1 DEF DInv, LiveInv, Filled
<1>12. PrefixInv'
  <2>1. \A i \in 0 .. blk - 1 : i \in BlockIds /\ i # blk
    BY <1>2, <1>3, BlocksAssumption DEF BlockIds
  <2>2. \A i \in 0 .. blk - 1 : disk'[Target][i] = disk[Target][i]
    BY <1>5, <1>6, <2>1
  <2> QED BY <1>2, <1>7, <2>2 DEF DInv, PrefixInv
<1>13. FlushInv'
  BY <1>2 DEF FlushInv
<1> QED BY <1>8, <1>9, <1>10, <1>11, <1>12, <1>13 DEF DInv

\* Landing a block keeps the invariant: with the last one the commit is whole.
LEMMA LandStep ==
    ASSUME DInv, WriteLands PROVE DInv'
<1> DEFINE b == encode_view_block(newBody, seq + 1, blk)
<1>1. disk' = [disk EXCEPT ![Target][blk] = b]
  BY DEF WriteLands, Target
<1>2. /\ phase = "landing"
      /\ phase' = IF blk + 1 < BlocksOf[newBody] THEN "write" ELSE "flush"
      /\ seq' = seq /\ body' = body /\ newBody' = newBody /\ blk' = blk + 1
      /\ seq \in Nat /\ newBody \in Bodies /\ body \in Bodies /\ blk \in Nat
      /\ seq < MaxSeq /\ blk < BlocksOf[newBody]
  BY BoundAssumption, BlocksAssumption DEF WriteLands, DInv, TypeOK, PrefixInv
<1>3. blk \in BlockIds
  BY <1>2, BlockCount, BlocksAssumption DEF BlockIds
<1>4. /\ b \in BlockType /\ b.kind = "ok" /\ b.seq = seq + 1 /\ b.index = blk
      /\ b.count = BlocksOf[newBody] /\ b.body = newBody
  BY <1>2, BlockCount, EncodedFields DEF BlockType, encode_view_block
<1>5. /\ disk' \in [CopyIds -> [BlockIds -> BlockType]]
      /\ disk'[Target][blk] = b
      /\ \A k \in CopyIds, j \in BlockIds :
            k # Target \/ j # blk => disk'[k][j] = disk[k][j]
  BY <1>1, <1>3, <1>4, WriteTarget DEF DInv
<1> HIDE DEF b
<1>6. Target \in CopyIds /\ Current \in CopyIds /\ Target # Current
  BY <1>2, CopyTurns DEF Target, Current
<1>7. Target' = Target /\ Current' = Current
  BY <1>2 DEF Target, Current
<1>8. TypeOK'
  <2>1. blk + 1 \in 0 .. MaxBlocks /\ phase' \in Phases
    BY <1>2, BlockCount, BlocksAssumption DEF Phases
  <2> QED BY <1>2, <1>5, <2>1 DEF DInv, TypeOK
<1>9. FrameInv'
  <2> SUFFICES ASSUME NEW k \in CopyIds, NEW i \in BlockIds,
                      disk'[k][i].kind = "ok"
               PROVE  /\ disk'[k][i].seq \in 1 .. seq + 1
                      /\ copy_start(disk'[k][i].seq) = k
                      /\ disk'[k][i].index = i
                      /\ disk'[k][i].count = BlocksOf[disk'[k][i].body]
    BY <1>2 DEF FrameInv
  <2>1. CASE k = Target /\ i = blk
    BY <1>2, <1>4, <1>5, <2>1 DEF Target
  <2>2. CASE k # Target \/ i # blk
    BY <1>5, <2>2 DEF DInv, FrameInv
  <2> QED BY <2>1, <2>2
<1>10. FreshInv'
  <2>1. 0 \in BlockIds
    BY BlocksAssumption DEF BlockIds
  <2> QED BY <1>2, <1>5, <1>7, <2>1 DEF DInv, FreshInv
<1>11. LiveInv'
  <2>1. \A i \in 0 .. BlocksOf[body] - 1 : disk'[Current][i] = disk[Current][i]
    BY <1>2, <1>5, <1>6, BlockCount
  <2> QED BY <1>2, <1>7, <2>1 DEF DInv, LiveInv, Filled
<1>12. \A i \in 0 .. blk : disk'[Target][i] = encode_view_block(newBody, seq + 1, i)
  <2>1. SUFFICES ASSUME NEW i \in 0 .. blk
                 PROVE  disk'[Target][i] = encode_view_block(newBody, seq + 1, i)
    OBVIOUS
  <2>2. CASE i = blk
    BY <1>5, <2>2 DEF b
  <2>3. CASE i # blk
    <3>1. i \in 0 .. blk - 1 /\ i \in BlockIds
      BY <1>2, <1>3, <2>1, <2>3, BlocksAssumption DEF BlockIds
    <3> QED BY <1>2, <1>5, <1>6, <2>3, <3>1 DEF DInv, PrefixInv
  <2> QED BY <2>2, <2>3
<1>13. CASE blk + 1 < BlocksOf[newBody]
  <2>1. PrefixInv' /\ FlushInv'
    BY <1>2, <1>7, <1>12, <1>13 DEF PrefixInv, FlushInv
  <2> QED BY <1>8, <1>9, <1>10, <1>11, <2>1 DEF DInv
<1>14. CASE ~ (blk + 1 < BlocksOf[newBody])
  <2>1. PrefixInv'
    BY <1>2, <1>14 DEF PrefixInv
  <2>2. BlocksOf[newBody] - 1 = blk
    BY <1>2, <1>14, BlockCount
  <2>3. Whole'
    BY <1>2, <1>7, <1>12, <2>2 DEF Whole, Filled
  <2>4. FlushInv'
    BY <1>2, <2>3 DEF FlushInv
  <2> QED BY <1>8, <1>9, <1>10, <1>11, <2>1, <2>4 DEF DInv
<1> QED BY <1>13, <1>14

\* Acknowledging a whole commit keeps the invariant.
LEMMA FlushStep ==
    ASSUME DInv, FlushLands PROVE DInv'
<1>1. /\ disk' = disk /\ phase = "flush" /\ phase' = "idle" /\ seq' = seq + 1
      /\ body' = newBody /\ newBody' = newBody /\ seq \in Nat
      /\ seq < MaxSeq /\ Whole
  BY BoundAssumption DEF FlushLands, DInv, TypeOK, FlushInv
<1>2. TypeOK'
  BY <1>1, BoundAssumption DEF DInv, TypeOK, FlushLands, Phases
<1>3. FrameInv' /\ FreshInv' /\ PrefixInv' /\ FlushInv'
  BY <1>1 DEF DInv, FrameInv, FreshInv, PrefixInv, FlushInv
<1>4. LiveInv'
  BY <1>1 DEF LiveInv, Whole, Current, Target
<1> QED BY <1>2, <1>3, <1>4 DEF DInv

\* Losing power, or a commit that fails, keeps the invariant: nothing on the
\* device changes.
LEMMA StopStep ==
    ASSUME DInv, Crash \/ CommitFails PROVE DInv'
<1>1. TypeOK'
  BY DEF DInv, TypeOK, Crash, CommitFails, Phases
<1>2. FrameInv' /\ FreshInv' /\ LiveInv'
  BY DEF DInv, FrameInv, FreshInv, LiveInv, Target, Current, Crash, CommitFails
<1>3. PrefixInv' /\ FlushInv'
  BY DEF PrefixInv, FlushInv, Crash, CommitFails
<1> QED BY <1>1, <1>2, <1>3 DEF DInv

\* Every step keeps the invariant, whatever the device reports.
LEMMA NextKept ==
    ASSUME DInv, [Next]_vars PROVE DInv'
<1>1. CASE recover_from
  BY <1>1, RecoverStep
<1>2. ASSUME NEW b \in Bodies, commit_edit(b) PROVE DInv'
  BY <1>2, CommitStep
<1>3. CASE WriteBegins
  BY <1>3, BeginStep
<1>4. CASE WriteLands
  BY <1>4, LandStep
<1>5. CASE FlushLands
  BY <1>5, FlushStep
<1>6. CASE Crash \/ CommitFails
  BY <1>6, StopStep
<1>7. CASE UNCHANGED vars
  BY <1>7 DEF vars, DInv, TypeOK, FrameInv, FreshInv, LiveInv, PrefixInv,
              FlushInv, Whole, Current, Target
<1> QED BY <1>1, <1>2, <1>3, <1>4, <1>5, <1>6, <1>7 DEF Next

-----------------------------------------------------------------------------
\* Destroying a block of the target lands no last block.
LEMMA TornBegin ==
    ASSUME IInv, WriteBegins PROVE TornInv'
<1>1. PICK b \in {Blank, Torn} : disk' = [disk EXCEPT ![Target][blk] = b]
  BY DEF WriteBegins, Target
<1>2. /\ phase = "write" /\ phase' = "landing" /\ seq' = seq /\ seq \in Nat
      /\ blk \in Nat /\ blk < BlocksOf[newBody] /\ newBody \in Bodies
  BY BoundAssumption, BlocksAssumption DEF WriteBegins, IInv, DInv, TypeOK, PrefixInv
<1>3. blk \in BlockIds
  BY <1>2, BlockCount, BlocksAssumption DEF BlockIds
<1>4. b \in BlockType /\ b.kind # "ok"
  BY BlocksAssumption DEF BlockType, Blank, Torn
<1>5. /\ disk'[Target][blk] = b
      /\ \A k \in CopyIds, j \in BlockIds :
            k # Target \/ j # blk => disk'[k][j] = disk[k][j]
  BY <1>1, <1>3, <1>4, WriteTarget DEF IInv, DInv
<1>6. Target' = Target /\ Target \in CopyIds
  BY <1>2, CopyTurns DEF Target
<1>7. NoLast
  BY <1>2 DEF IInv, TornInv
<1>8. NoLast'
  BY <1>2, <1>4, <1>5, <1>6, <1>7 DEF NoLast
<1> QED BY <1>2, <1>8 DEF TornInv

\* Landing a block: only the last one makes the commit whole.
LEMMA TornLand ==
    ASSUME IInv, DInv', WriteLands PROVE TornInv'
<1> DEFINE b == encode_view_block(newBody, seq + 1, blk)
<1>1. disk' = [disk EXCEPT ![Target][blk] = b]
  BY DEF WriteLands, Target
<1>2. /\ phase = "landing" /\ seq' = seq /\ seq \in Nat
      /\ phase' = IF blk + 1 < BlocksOf[newBody] THEN "write" ELSE "flush"
      /\ blk \in Nat /\ blk < BlocksOf[newBody] /\ newBody \in Bodies
  BY BoundAssumption, BlocksAssumption DEF WriteLands, IInv, DInv, TypeOK, PrefixInv
<1>3. blk \in BlockIds
  BY <1>2, BlockCount, BlocksAssumption DEF BlockIds
<1>4. b \in BlockType /\ b.count = BlocksOf[newBody]
  BY <1>2, BlockCount, EncodedFields DEF BlockType, encode_view_block
<1>5. /\ disk'[Target][blk] = b
      /\ \A k \in CopyIds, j \in BlockIds :
            k # Target \/ j # blk => disk'[k][j] = disk[k][j]
  BY <1>1, <1>3, <1>4, WriteTarget DEF IInv, DInv
<1> HIDE DEF b
<1>6. Target' = Target /\ Target \in CopyIds
  BY <1>2, CopyTurns DEF Target
<1>7. CASE blk + 1 < BlocksOf[newBody]
  <2>1. NoLast
    BY <1>2 DEF IInv, TornInv
  <2>2. NoLast'
    <3> SUFFICES ASSUME NEW i \in BlockIds,
                        disk'[Target][i].kind = "ok",
                        disk'[Target][i].seq = seq + 1,
                        i + 1 = disk'[Target][i].count
                 PROVE  FALSE
      BY <1>2, <1>6 DEF NoLast
    <3>1. CASE i = blk
      BY <1>2, <1>4, <1>5, <1>7, <3>1
    <3>2. CASE i # blk
      BY <1>5, <1>6, <2>1, <3>2 DEF NoLast
    <3> QED BY <3>1, <3>2
  <2> QED BY <1>2, <1>7, <2>2 DEF TornInv
<1>8. CASE ~ (blk + 1 < BlocksOf[newBody])
  BY <1>2, <1>8 DEF DInv, FlushInv, TornInv
<1> QED BY <1>7, <1>8

\* A commit recovered or acknowledged leaves no attempt at the one after it.
LEMMA TornAdvance ==
    ASSUME IInv, disk' = disk, seq' = seq + 1, phase' = "idle" PROVE TornInv'
<1>1. seq \in Nat
  BY BoundAssumption DEF IInv, DInv, TypeOK
<1>2. Target' \in CopyIds
  BY <1>1, CopyTurns DEF Target
<1>3. NoLast'
  BY <1>1, <1>2 DEF IInv, DInv, FrameInv, NoLast
<1> QED BY <1>3 DEF TornInv

\* recover_from takes the commit in flight exactly when it is whole.
LEMMA TornRecover ==
    ASSUME IInv, recover_from PROVE TornInv'
<1>1. PICK s \in 0 .. MaxSeq, b \in Bodies : Recovers(disk, s, b) /\ seq' = s
  BY DEF recover_from
<1>2. phase = "closed" /\ disk' = disk /\ phase' = "idle"
  BY DEF recover_from
<1>3. CASE Whole
  BY <1>1, <1>2, <1>3, Recovery, TornAdvance
<1>4. CASE ~Whole
  <2>1. seq' = seq
    BY <1>1, <1>4, Recovery
  <2>2. NoLast'
    BY <1>2, <1>4, <2>1 DEF IInv, TornInv, NoLast, Target
  <2> QED BY <1>2, <2>2 DEF TornInv
<1> QED BY <1>3, <1>4

\* A crash keeps what the device holds, and so does a commit that fails or is
\* dropped short of its last block.
LEMMA TornStop ==
    ASSUME IInv, Crash \/ CommitFails, HeardStep PROVE TornInv'
<1>1. CASE Crash
  BY <1>1 DEF IInv, TornInv, Whole, NoLast, Target, Crash
<1>2. CASE CommitFails
  <2>1. seq \in Nat /\ seq' = seq
    BY <1>2, BoundAssumption DEF IInv, DInv, TypeOK, CommitFails
  <2>2. phase \in {"write", "landing"}
    BY <1>2, <2>1 DEF CommitFails, HeardStep
  <2> QED BY <1>2, <2>2 DEF IInv, TornInv, NoLast, Target, CommitFails
<1> QED BY <1>1, <1>2

\* Every step keeps the whole invariant when no commit fails with all its
\* blocks on the device.
LEMMA NextInv ==
    ASSUME IInv, [Next]_vars, [HeardStep]_vars PROVE IInv'
<1>1. DInv'
  BY NextKept DEF IInv
<1>2. CASE UNCHANGED vars
  BY <1>1, <1>2 DEF vars, IInv, TornInv, Whole, NoLast, Target
<1>3. ASSUME Next, HeardStep PROVE TornInv'
  <2>1. CASE recover_from
    BY <2>1, TornRecover
  <2>2. ASSUME NEW b \in Bodies, commit_edit(b) PROVE TornInv'
    BY <2>2 DEF IInv, TornInv, NoLast, Target, commit_edit
  <2>3. CASE WriteBegins
    BY <2>3, TornBegin
  <2>4. CASE WriteLands
    BY <1>1, <2>4, TornLand
  <2>5. CASE FlushLands
    BY <2>5, TornAdvance DEF FlushLands
  <2>6. CASE Crash \/ CommitFails
    BY <1>3, <2>6, TornStop
  <2> QED BY <1>3, <2>1, <2>2, <2>3, <2>4, <2>5, <2>6 DEF Next
<1> QED BY <1>1, <1>2, <1>3 DEF IInv

-----------------------------------------------------------------------------
\* The protocol keeps its types, whatever the device reports: in particular
\* the block index of commit_edit stays within a copy.
THEOREM CommitTypes == Spec => []TypeOK
<1>1. Init => DInv
  BY InitInv DEF IInv
<1>2. DInv /\ [Next]_vars => DInv'
  BY NextKept
<1>3. DInv => TypeOK
  BY DEF DInv
<1> QED BY <1>1, <1>2, <1>3, PTL DEF Spec

\* Whatever the device reports, also when a commit_edit whose blocks all
\* landed returns an error or is dropped and the next one reuses its sequence
\* number: the last acknowledged commit stays whole in its copy, and
\* recover_from takes it, or a copy that holds attempts at the next one, and
\* never falls back behind it.
THEOREM CommitsAreKept == Spec => []AckedKept
<1>1. Init => DInv
  BY InitInv DEF IInv
<1>2. DInv /\ [Next]_vars => DInv'
  BY NextKept
<1>3. ASSUME DInv PROVE AckedKept
  <2>1. seq > 0 => Filled(disk[Current], body, seq)
    BY <1>3 DEF DInv, LiveInv
  <2>2. ASSUME NEW k \in CopyIds, Newest(disk, k)
        PROVE  \/ disk[k][0].seq = seq /\ DecodesTo(disk[k], body)
               \/ disk[k][0].seq = seq + 1 /\ k = Target
    <3>1. seq \in Nat /\ body \in Bodies
      BY <1>3, BoundAssumption DEF DInv, TypeOK
    <3>2. CASE disk[k][0].seq = seq /\ k = Current /\ seq > 0
      BY <2>1, <3>1, <3>2, FilledIntact
    <3> QED BY <1>3, <2>2, <3>2, NewestKnown
  <2> QED BY <2>1, <2>2 DEF AckedKept
<1> QED BY <1>1, <1>2, <1>3, PTL DEF Spec

\* Whatever the number of copies (at least two), the size of a copy and the
\* sizes of the manifests, as long as no commit_edit fails or is dropped once
\* all its blocks have landed (Heard): after a crash at any step of
\* commit_edit, and after any number of attempts that crashed anywhere, or
\* failed or were dropped short of the last block, recover_from returns the
\* last acknowledged commit or the whole of the one in flight.
THEOREM CommitIsAtomic == Spec /\ Heard => []CrashAtomic
<1>1. IInv /\ [Next]_vars /\ [HeardStep]_vars => IInv'
  BY NextInv
<1> QED BY <1>1, InitInv, InvAtomic, PTL DEF Spec, Heard

-----------------------------------------------------------------------------
\* A copy that probe_copy accepts is one whole commit.
OneCommit ==
    \A k \in CopyIds :
        Intact(disk[k]) => \E b \in Bodies : Filled(disk[k], b, disk[k][0].seq)

\* While a commit is being written, its copy is not intact before its last
\* block has landed.
TargetWhole ==
    Intact(disk[Target]) /\ disk[Target][0].seq = seq + 1 => Whole /\ phase \in {"flush", "closed"}

\* The invariant has the target whole once its last block landed.
LEMMA WritesWhole == IInv => TargetWhole
<1> SUFFICES ASSUME IInv PROVE TargetWhole
  OBVIOUS
<1>1. Target \in CopyIds
  BY CopyTurns, BoundAssumption DEF Target, IInv, DInv, TypeOK
<1> QED BY <1>1, IntactTarget DEF TargetWhole

\* The same after a step.
LEMMA WritesWholeNext == IInv' => TargetWhole'
BY WritesWhole, PTL

\* Every step keeps an intact copy the work of one commit.
LEMMA OneCommitStep ==
    ASSUME IInv, IInv', OneCommit, [Next]_vars PROVE OneCommit'
<1>1. CASE disk' = disk
  BY <1>1 DEF OneCommit
<1>2. CASE WriteBegins \/ WriteLands
  <2>1. PICK b \in {Blank, Torn, encode_view_block(newBody, seq + 1, blk)} :
           disk' = [disk EXCEPT ![Target][blk] = b]
    BY <1>2 DEF WriteBegins, WriteLands, Target
  <2>2. /\ seq' = seq /\ newBody' = newBody /\ seq \in Nat /\ newBody \in Bodies
        /\ blk \in Nat /\ blk < BlocksOf[newBody]
        /\ \A i \in 0 .. blk - 1 : disk[Target][i] = encode_view_block(newBody, seq + 1, i)
    BY <1>2, BoundAssumption, BlocksAssumption
       DEF WriteBegins, WriteLands, IInv, DInv, TypeOK, PrefixInv
  <2>3. blk \in BlockIds /\ 0 \in BlockIds
    BY <2>2, BlockCount, BlocksAssumption DEF BlockIds
  <2>4. b \in BlockType
    BY <2>1, <2>2, BlockCount, BlocksAssumption DEF BlockType, Blank, Torn, encode_view_block
  <2>5. /\ disk'[Target][blk] = b
        /\ \A k \in CopyIds, j \in BlockIds :
              k # Target \/ j # blk => disk'[k][j] = disk[k][j]
        /\ \A k \in CopyIds : k # Target => disk'[k] = disk[k]
    <3>1. \A k \in CopyIds : k # Target => disk'[k] = disk[k]
      BY <2>1 DEF IInv, DInv, TypeOK
    <3> QED BY <2>1, <2>3, <2>4, <3>1, WriteTarget DEF IInv, DInv
  <2>6. Target' = Target /\ Target \in CopyIds
    BY <2>2, CopyTurns DEF Target
  <2>7. ASSUME Intact(disk'[Target]) PROVE \E c \in Bodies : Filled(disk'[Target], c, disk'[Target][0].seq)
    <3>1. disk'[Target][0].kind = "ok"
      BY <2>7 DEF Intact, check_block
    <3>2. disk'[Target][0].seq = seq + 1
      <4>1. CASE blk = 0
        BY <2>1, <2>5, <3>1, <4>1, EncodedFields DEF Blank, Torn
      <4>2. CASE blk > 0
        <5>1. 0 \in 0 .. blk - 1
          BY <2>2, <4>2
        <5> QED BY <2>2, <2>3, <2>5, <2>6, <4>2, <5>1, EncodedFields
      <4> QED BY <2>2, <4>1, <4>2
    <3>3. Whole'
      BY <2>2, <2>6, <2>7, <3>2, WritesWholeNext DEF TargetWhole
    <3> QED BY <2>2, <2>6, <3>2, <3>3 DEF Whole
  <2>8. SUFFICES ASSUME NEW k \in CopyIds, Intact(disk'[k])
                 PROVE  \E c \in Bodies : Filled(disk'[k], c, disk'[k][0].seq)
    BY DEF OneCommit
  <2>9. CASE k = Target
    BY <2>7, <2>8, <2>9
  <2>10. CASE k # Target
    BY <2>5, <2>8, <2>10 DEF OneCommit
  <2> QED BY <2>9, <2>10
<1> QED BY <1>1, <1>2 DEF Next, recover_from, commit_edit, FlushLands, CommitFails, Crash, vars

\* As long as no commit_edit fails or is dropped once all its blocks have
\* landed, a commit torn anywhere across its blocks leaves its copy invalid: a
\* copy that probe_copy accepts, old or new, holds the chunks of one
\* commit_edit, even when attempts with the same sequence number were
\* abandoned on it.
THEOREM CopiesAreNeverMixed == Spec /\ Heard => []NoMixedCopy
<1>1. Init => IInv /\ OneCommit
  <2>1. Init => OneCommit
    BY BlocksAssumption DEF Init, OneCommit, Intact, check_block, Blank, BlockIds
  <2> QED BY <2>1, InitInv
<1>2. IInv /\ OneCommit /\ [Next]_vars /\ [HeardStep]_vars => IInv' /\ OneCommit'
  BY NextInv, OneCommitStep
<1>3. IInv /\ OneCommit => NoMixedCopy
  <2> SUFFICES ASSUME IInv, OneCommit, NEW k \in CopyIds, probe_copy(disk[k]) = "Intact"
               PROVE  \E b \in Bodies : DecodesTo(disk[k], b)
    BY DEF NoMixedCopy
  <2>1. Intact(disk[k])
    BY ProbeIntact DEF IntactCopies
  <2>2. PICK b \in Bodies : Filled(disk[k], b, disk[k][0].seq)
    BY <2>1 DEF OneCommit
  <2>3. disk[k][0].seq \in Nat
    BY BlocksAssumption DEF IInv, DInv, TypeOK, BlockType, BlockIds
  <2>4. PICK copy : copy = disk[k]
    OBVIOUS
  <2>5. PICK s \in Nat : Filled(copy, b, s)
    BY <2>2, <2>3, <2>4
  <2>6. DecodesTo(copy, b)
    BY <2>5, FilledIntact
  <2> QED BY <2>4, <2>6
<1> QED BY <1>1, <1>2, <1>3, PTL DEF Spec, Heard

(***************************************************************************)
(* The order of versions                                                   *)
(*                                                                         *)
(* The last-writer-wins rule of module Version as an order.  The doc of    *)
(* version_gt calls it a total order.  It never ties, but it is transitive *)
(* only while no version lies between two of another node, which nothing   *)
(* in the code guarantees.                                                 *)
(***************************************************************************)

\* The fields of a version are numbers.
LEMMA VersionNumbers ==
    \A a \in Versions : a.node \in Int /\ a.wall \in Int /\ a.seq \in Int
<1> SUFFICES ASSUME NEW a \in Versions
             PROVE  a.node \in Int /\ a.wall \in Int /\ a.seq \in Int
  OBVIOUS
<1>1. a.node \in Nodes /\ a.wall \in 0 .. TopWall /\ a.seq \in 0 .. TopSeq
  BY DEF Versions
<1>2. a.node \in Int
  <2>1. Nodes \subseteq Nat
    BY VersionAssumption
  <2>2. a.node \in Nat
    BY <1>1, <2>1, Zenon
  <2> QED BY <2>2
<1>3. a.wall \in Int /\ a.seq \in Int
  BY <1>1
<1> QED BY <1>2, <1>3

\* Versions a database may hold together: written ones, and a node numbers its
\* mutations once.
Numbered(S) ==
    /\ S \subseteq Versions
    /\ \A a \in S : a.seq # 0
    /\ \A a, b \in S : a.node = b.node /\ a.seq = b.seq => a = b

\* What the older of two versions of one node beats, of another node, the
\* newer beats too.
NoneBetween(S) ==
    \A a, b, f \in S :
        a.node = b.node /\ f.node # a.node /\ a.seq < b.seq /\ version_gt(a, f)
            => version_gt(b, f)

\* No two versions beat each other, whatever their stamps: a reader that
\* compares two candidates with version_gt takes the same one in either order.
THEOREM VersionAsymmetric ==
    \A a, b \in Versions : version_gt(a, b) => ~version_gt(b, a)
BY VersionNumbers DEF version_gt

\* Of two written versions that differ in node or sequence number one wins,
\* whatever their walls: version_gt leaves no tie to be broken by the order in
\* which tables are read.
THEOREM VersionTotal ==
    ASSUME NEW a \in Versions, NEW b \in Versions, a.seq # 0, b.seq # 0,
           a.node # b.node \/ a.seq # b.seq
    PROVE  version_gt(a, b) \/ version_gt(b, a)
<1>1. CASE a.node = b.node
  BY <1>1, VersionNumbers DEF version_gt
<1>2. CASE a.node # b.node
  BY <1>2, VersionNumbers DEF version_gt
<1> QED BY <1>1, <1>2

\* With no other node's version between two of one node, version_gt is
\* transitive: the winner of a key does not depend on the order in which a
\* read, a scan or a merge meets the tables.  The code does not guarantee it:
\* flush seals with wall 0, below everything, until stamp_table.
THEOREM VersionTransitive ==
    ASSUME NEW S, Numbered(S), NoneBetween(S), NEW a \in S, NEW b \in S, NEW d \in S,
           version_gt(a, b), version_gt(b, d)
    PROVE  version_gt(a, d)
<1> /\ a \in Versions /\ b \in Versions /\ d \in Versions
    /\ a.seq # 0 /\ b.seq # 0 /\ d.seq # 0
  BY DEF Numbered
<1>1. CASE a.node = b.node /\ b.node = d.node
  BY <1>1, VersionNumbers DEF version_gt
<1>2. CASE a.node = b.node /\ b.node # d.node
  <2>1. b.seq < a.seq
    BY <1>2, VersionNumbers DEF version_gt
  <2> QED BY <1>2, <2>1 DEF NoneBetween
<1>3. CASE a.node # b.node /\ b.node = d.node
  <2>1. d.seq < b.seq /\ ~version_gt(b, a)
    BY <1>3, VersionNumbers, VersionAsymmetric DEF version_gt
  <2>2. ~version_gt(d, a)
    BY <1>3, <2>1 DEF NoneBetween
  <2> QED BY <1>3, <2>2, VersionTotal
<1>4. CASE a.node # b.node /\ b.node # d.node /\ a.node = d.node
  <2>1. ~version_gt(d, b)
    BY VersionAsymmetric
  <2>2. ~(a.seq < d.seq) /\ a # d
    BY <1>4, <2>1 DEF NoneBetween
  <2>3. d.seq < a.seq
    BY <1>4, <2>2, VersionNumbers DEF Numbered
  <2> QED BY <1>4, <2>3 DEF version_gt
<1>5. CASE a.node # b.node /\ b.node # d.node /\ a.node # d.node
  BY <1>5, VersionNumbers DEF version_gt
<1> QED BY <1>1, <1>2, <1>3, <1>4, <1>5

\* Walls that grow with a node's sequence numbers are enough: a host that
\* stamps every table, in the order flush seals them, keeps version_gt an
\* order.
THEOREM WallsInOrder ==
    ASSUME NEW S \in SUBSET Versions,
           \A a, b \in S : a.node = b.node /\ a.seq < b.seq => a.wall <= b.wall
    PROVE  NoneBetween(S)
<1> SUFFICES ASSUME NEW a \in S, NEW b \in S, NEW f \in S, a.node = b.node,
                    f.node # a.node, a.seq < b.seq, version_gt(a, f)
             PROVE  version_gt(b, f)
  BY DEF NoneBetween
<1>1. a \in Versions /\ b \in Versions /\ f \in Versions /\ a.wall <= b.wall
  OBVIOUS
<1>2. a.seq \in 0 .. TopSeq
  BY <1>1 DEF Versions
<1> QED BY <1>1, <1>2, VersionNumbers, VersionAssumption DEF version_gt

\* Without it the rule has cycles: this node's older table is stamped, its
\* newer one is not yet, and another node sealed in between.  Each beats the
\* next, so which one a reader returns depends on the order of the tables.
THEOREM VersionCycle ==
    ASSUME 1 \in Nodes, 2 \in Nodes, TopWall >= 2, TopSeq >= 2
    PROVE  \E a, b, d \in Versions :
               version_gt(a, b) /\ version_gt(b, d) /\ version_gt(d, a)
<1> DEFINE newer == version(1, 0, 2)
           older == version(1, 2, 1)
           other == version(2, 1, 1)
<1>1. newer \in Versions /\ older \in Versions /\ other \in Versions
  BY VersionAssumption DEF version, Versions
<1>2. version_gt(newer, older) /\ version_gt(older, other) /\ version_gt(other, newer)
  BY DEF version, version_gt
<1> QED BY <1>1, <1>2

=============================================================================
