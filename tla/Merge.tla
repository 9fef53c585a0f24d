------------------------------- MODULE Merge -------------------------------
(***************************************************************************)
(* The merge of src/compact.rs: what a compaction job writes for each key, *)
(* and what becomes of the range tombstones of its inputs.                 *)
(*                                                                         *)
(* A table is its ref with what its slot holds: points, a set of versions, *)
(* and rdels, its range tombstones in the order of the section.  An entry  *)
(* fills a block; a range tombstone takes RDEL_HEADER bytes and its keys.  *)
(* The successor of key k is k + 1.                                        *)
(***************************************************************************)
EXTENDS Reads

CONSTANTS
    COVER_ACTIVE,       \* tombstones tracked over a key
    INEXACT_RANGES,     \* ranges remembered as inexact
    OPEN_ENDS,          \* ends the dry run tracks
    KeyLen,             \* bytes of each key
    RDEL_HEADER,
    RDEL_ROOM           \* bytes of a block of range tombstones

KEY_MAX == Max({KeyLen[k] : k \in DOMAIN KeyLen})

(***************************************************************************)
(* The range-tombstone merge                                               *)
(***************************************************************************)

\* The section of t as a merge reads it: what lies below the table's live
\* lower bound is dead.
fill_rdel_head(t) ==
    LET live == SelectSeq(t.rdels, LAMBDA r : r.end > t.first_key)
    IN  [i \in DOMAIN live |-> [live[i] EXCEPT !.start = Max({@, t.first_key})]]

\* One head for each source, and one for all targets.
rdel_heads(srcs, tgts) ==
    Append([i \in DOMAIN srcs |-> fill_rdel_head(srcs[i])],
           FlattenSeq([i \in DOMAIN tgts |-> fill_rdel_head(tgts[i])]))

rdel_entry_less(a, b) == a.start < b.start \/ (a.start = b.start /\ a.seq > b.seq)

same_range(p, e) == p.start = e.start /\ p.end = e.end

\* The last tombstone put out has the range of e, is newer, and every reader
\* sees it.
shadowed(out, e, oldest) ==
    /\ out # <<>> /\ same_range(Last(out), e)
    /\ Last(out).seq > e.seq /\ Last(out).seq <= oldest

\* The least head; of equals, the first.
min_head(heads, at) ==
    LET live == {i \in DOMAIN heads : at[i] < Len(heads[i])}
        head(i) == heads[i][at[i] + 1]
    IN  CHOOSE i \in live : \A j \in live :
            \/ rdel_entry_less(head(i), head(j))
            \/ ~rdel_entry_less(head(j), head(i)) /\ i <= j

\* One round of next_merged: the least head h, of source i, joins the pending
\* tombstone, or puts it out and takes its place.
take_head(st, i, h, bottommost, oldest) ==
    LET out == st.out \o st.pending
        joins == st.pending # <<>> /\ h.seq = st.pending[1].seq /\ h.start <= st.pending[1].end
    IN  IF joins
        THEN [st EXCEPT !.at[i] = @ + 1, !.pending[1].end = Max({@, h.end})]
        ELSE [at |-> [st.at EXCEPT ![i] = @ + 1], out |-> out,
              pending |-> IF bottommost /\ h.seq < oldest /\ shadowed(out, h, oldest)
                          THEN <<>> ELSE <<h>>]

next_merged(st, heads, bottommost, oldest) ==
    LET from(i) == take_head(st, i, heads[i][st.at[i] + 1], bottommost, oldest)
    IN  from(min_head(heads, st.at))

\* Everything RdelMerger puts out.
merge_heads(heads, bottommost, oldest) ==
    LET n == MapThenSumSet(LAMBDA i : Len(heads[i]), DOMAIN heads)
        put_out(st) == st.out \o st.pending
    IN  put_out(FoldLeft(LAMBDA s, i : next_merged(s, heads, bottommost, oldest),
                         [at |-> [i \in DOMAIN heads |-> 0], out |-> <<>>, pending |-> <<>>],
                         [i \in 1 .. n |-> i]))

RdelMerger(srcs, tgts, bottommost, oldest) == merge_heads(rdel_heads(srcs, tgts), bottommost, oldest)

(***************************************************************************)
(* Room for an output's share of it                                        *)
(***************************************************************************)

rdel_entry_len(r) == RDEL_HEADER + KeyLen[r.start] + KeyLen[r.end]

\* Blocks of tombstones rs: a block is sealed when the next does not fit.
rdel_section_blocks(rs) ==
    FoldLeft(LAMBDA s, r : IF s.fill + rdel_entry_len(r) > RDEL_ROOM
                           THEN [n |-> s.n + 1, fill |-> rdel_entry_len(r)]
                           ELSE [s EXCEPT !.fill = @ + rdel_entry_len(r)],
             [n |-> 0, fill |-> RDEL_ROOM], rs).n

\* The ends still open at start.
expire(o, start) == [o EXCEPT !.ends = SelectSeq(@, LAMBDA e : e > start)]

\* When full, the latest of the ends and this one is counted as never ending.
insert(o, end) ==
    IF Len(o.ends) < OPEN_ENDS THEN [o EXCEPT !.ends = Append(@, end)]
    ELSE LET late == {i \in DOMAIN o.ends : /\ o.ends[i] > end
                                            /\ \A j \in DOMAIN o.ends : o.ends[j] <= o.ends[i]}
         IN  [o EXCEPT !.untracked = @ + 1,
                       !.ends = IF late = {} THEN @ ELSE [@ EXCEPT ![Min(late)] = end]]

\* The dry run: entries, bytes, and how many tombstones hold one key.
count_rdel_merge(rs) ==
    FoldLeft(LAMBDA run, r :
                LET o == insert(expire(run.open, r.start), r.end)
                IN  [entries |-> run.entries + 1, bytes |-> run.bytes + rdel_entry_len(r),
                     depth |-> Max({run.depth, Len(o.ends) + o.untracked}), open |-> o],
             [entries |-> 0, bytes |-> 0, depth |-> 0,
              open |-> [ends |-> <<>>, untracked |-> 0]], rs)

div_ceil(a, b) == (a + b - 1) \div b

\* Variant: an entry is bounded by one key.
rdel_blocks_bound_one(n) == div_ceil(n, RDEL_ROOM \div (RDEL_HEADER + KEY_MAX))

rdel_blocks_bound(n) == div_ceil(n, RDEL_ROOM \div (RDEL_HEADER + 2 * KEY_MAX))

packed_blocks_bound(total, n, emax, room) ==
    IF n = 0 THEN 0
    ELSE Min({n, 1 + (IF room > emax THEN total \div (room - emax + 1) ELSE n)})

\* The blocks any output's clipped share needs at most.
blocks_bound(run) ==
    Min({rdel_blocks_bound(run.entries),
         packed_blocks_bound(run.bytes + 2 * run.depth * KEY_MAX, run.entries,
                             RDEL_HEADER + 2 * KEY_MAX, RDEL_ROOM)})

\* A tombstone's share of the output [lo, hi).
clip(r, lo, hi) == [r EXCEPT !.start = Max({@, lo}), !.end = Min({@, hi})]

(***************************************************************************)
(* The cover of a key                                                      *)
(***************************************************************************)

\* The active set let go, at key from, of a tombstone ending at to.
evict(inexact, from, to) ==
    LET n == Len(inexact)
    IN  IF n > 0 /\ (n = INEXACT_RANGES \/ from <= inexact[n].to)
        THEN [inexact EXCEPT ![n].to = Max({@, to})]
        ELSE Append(inexact, [from |-> from, to |-> to])

\* Variant: what the active set has no room for is let go unrecorded.
track_lossy(cv, r, k, oldest) ==
    IF \/ r.seq >= oldest \/ r.end <= k \/ Cardinality(cv.active) = COVER_ACTIVE
    THEN cv ELSE [cv EXCEPT !.active = @ \cup {r}]

\* Tombstone r, which starts at or below k, enters the active set.
track(cv, r, k, oldest) ==
    LET act == {a \in cv.active : ~(a.seq <= r.seq /\ a.end <= r.end)}
        low == CHOOSE a \in act : \A b \in act : a.seq <= b.seq
    IN  IF \/ r.seq >= oldest \/ r.end <= k
           \/ \E a \in cv.active : a.seq >= r.seq /\ a.end >= r.end
        THEN cv
        ELSE IF Cardinality(act) < COVER_ACTIVE
        THEN [cv EXCEPT !.active = act \cup {r}]
        ELSE IF r.seq > low.seq
        THEN [cv EXCEPT !.active = (act \ {low}) \cup {r}, !.inexact = evict(@, k, low.end)]
        ELSE [cv EXCEPT !.active = act, !.inexact = evict(@, k, r.end)]

\* The coverage stream advanced to k.
cover_key(cv, k, oldest) ==
    FoldLeft(LAMBDA s, r : track(s, r, k, oldest),
             [cv EXCEPT !.active = {a \in @ : a.end > k},
                        !.stream = SelectSeq(@, LAMBDA r : r.start > k)],
             SelectSeq(cv.stream, LAMBDA r : r.start <= k))

key_cover(cv) == Max({0} \cup {a.seq : a \in cv.active})

(***************************************************************************)
(* Keys                                                                    *)
(***************************************************************************)

\* (wall, node) below (w, n).
origin_less(wall, node, w, n) == wall < w \/ (wall = w /\ node < n)

\* Variant: other nodes' tables are compared by sequence number only.
outside_clear_seq(c, seq) == seq < c.outside_same_min

\* A tombstone of this job at seq hides nothing outside it.
outside_clear(c, seq) ==
    /\ seq < c.outside_same_min
    /\ origin_less(c.job_max_wall, c.job_node, c.outside_foreign_min[1], c.outside_foreign_min[2])

purged(v, purge_before) == v.op = "put" /\ v.expire_at # 0 /\ v.expire_at <= purge_before

\* What is written of v: an expired value becomes a tombstone.
emitted(v, purge_before) ==
    IF purged(v, purge_before) THEN [v EXCEPT !.op = "del", !.expire_at = 0] ELSE v

\* The whole key goes: its newest version deletes it for every reader, and
\* hides nothing outside the job.
may_drop_key(c, head, purge_before) ==
    /\ c.bottommost /\ emitted(head, purge_before).op = "del"
    /\ head.seq < c.oldest_snapshot /\ outside_clear(c, head.seq)

\* The versions of a key that are written: for each view the newest it sees,
\* of those no tombstone hides from every reader.
merge_key(c, vs, cover, purge_before) ==
    LET head == CHOOSE v \in vs : \A u \in vs : u.seq <= v.seq
        seen == {v \in vs : v.seq >= cover}
        kept == {v \in seen : \E th \in c.snapshots \cup {TopSeq} :
                    v.seq <= th /\ \A u \in seen : u.seq <= th => u.seq <= v.seq}
    IN  IF may_drop_key(c, head, purge_before) THEN {}
        ELSE {emitted(v, purge_before) : v \in kept}

\* RdelDrop: a bottommost output leaves out the pieces that hide nothing: no
\* snapshot or outside table can tell, and no hidden version was kept.
drops(c, p) ==
    /\ c.bottommost /\ p.seq < c.oldest_snapshot /\ outside_clear(c, p.seq)
    /\ \A i \in DOMAIN c.cover.inexact :
           p.end <= c.cover.inexact[i].from \/ c.cover.inexact[i].to <= p.start

=============================================================================
