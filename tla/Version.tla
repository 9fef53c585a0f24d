------------------------------ MODULE Version ------------------------------
(***************************************************************************)
(* The last-writer-wins rule of src/version.rs: which of two versions of a *)
(* key, written by the same node or by two, a reader takes.                *)
(***************************************************************************)
EXTENDS Integers

CONSTANTS
    Nodes,      \* node ids, a set of natural numbers
    TopWall,    \* u64::MAX, the wall of a memtable
    TopSeq      \* u64::MAX as a sequence bound

ASSUME VersionAssumption == Nodes \subseteq Nat /\ TopWall \in Nat /\ TopSeq \in Nat

Versions == [node : Nodes, wall : 0 .. TopWall, seq : 0 .. TopSeq]

ZERO == [node |-> 0, wall |-> 0, seq |-> 0]

version(n, w, s) == [node |-> n, wall |-> w, seq |-> s]
memtable_version(n, s) == version(n, TopWall, s)

\* Sequence 0 never wins; one node's versions compare by sequence number, two
\* nodes' by seal wall, then node.
version_gt(a, b) ==
    /\ a.seq # 0
    /\ \/ b.seq = 0
       \/ a.node = b.node /\ a.seq > b.seq
       \/ a.node # b.node /\ \/ a.wall > b.wall
                             \/ a.wall = b.wall /\ a.node > b.node

=============================================================================
