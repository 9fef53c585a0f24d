-------------------------------- MODULE Kv --------------------------------
(***************************************************************************)
(* What the store promises its user: one map of keys to values, changed by *)
(* acknowledged writes alone, and snapshots, each the map as it was when   *)
(* it was taken.  Flushes, compactions, failed or abandoned operations are *)
(* not to be seen; a restart ends the snapshots and loses no write.        *)
(*                                                                         *)
(* The acknowledged writes are an input: the map may differ from what it   *)
(* was only in the key of a write that joins them, and only as that write  *)
(* says.                                                                   *)
(***************************************************************************)
EXTENDS Integers, Sequences

CONSTANTS
    Keys,
    Writes      \* puts and deletes, as records of a key, a number and del

VARIABLES
    acked,      \* the writes acknowledged so far
    live,       \* what get returns for each key
    views       \* what each snapshot reads

kvvars == <<acked, live, views>>

\* What get returns after write w: its number stands for the value, 0 for
\* "not there".
Answer(w) == IF w.del THEN 0 ELSE w.seq

\* What the newest of the writes of k says.
Latest(k) ==
    LET v == {w \in acked : w.key = k}
    IN  IF v = {} THEN 0 ELSE Answer(CHOOSE w \in v : \A o \in v : o.seq <= w.seq)

\* The map an earlier life left.
KvInit ==
    /\ acked \subseteq Writes
    /\ live = [k \in Keys |-> Latest(k)]
    /\ views = <<>>

\* A put or a delete, numbered above all before it, is acknowledged.
Write(w) ==
    /\ \A o \in acked : o.seq < w.seq
    /\ acked' = acked \cup {w}
    /\ live' = [live EXCEPT ![w.key] = Answer(w)]
    /\ UNCHANGED views

Snapshot == views' = Append(views, live) /\ UNCHANGED <<acked, live>>

\* The last snapshot fills the gap.
Release(i) ==
    /\ views' = [j \in 1 .. Len(views) - 1 |-> views[IF j = i THEN Len(views) ELSE j]]
    /\ UNCHANGED <<acked, live>>

Restart == views' = <<>> /\ UNCHANGED <<acked, live>>

KvNext ==
    \/ \E w \in Writes : Write(w)
    \/ Snapshot
    \/ \E i \in DOMAIN views : Release(i)
    \/ Restart

KvSpec == KvInit /\ [][KvNext]_kvvars

=============================================================================
