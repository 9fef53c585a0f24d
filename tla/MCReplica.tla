----------------------------- MODULE MCReplica -----------------------------
(***************************************************************************)
(* Small instances of Replica.                                             *)
(***************************************************************************)
EXTENDS Replica

put(k) == [key |-> k, op |-> "put", end |-> 0, expire_at |-> 0]
del(k) == [key |-> k, op |-> "del", end |-> 0, expire_at |-> 0]
rdel(a, b) == [key |-> a, op |-> "rdel", end |-> b, expire_at |-> 0]
ttl(k) == [key |-> k, op |-> "put", end |-> 0, expire_at |-> 1]

\* Range tombstones that nest, meet, repeat a range and cross a split; values
\* over and under them; deletes and expired values over older values.
MCScripts ==
    { <<put(1), put(2), put(3), rdel(1, 3), rdel(2, 5)>>,
      <<rdel(1, 5), rdel(1, 5), put(3), rdel(2, 4), put(1), put(3)>>,
      <<put(1), put(2), ttl(2), del(1), put(3)>>,
      <<put(3), rdel(3, 5), rdel(1, 4), put(2), rdel(2, 3), put(4)>>,
      <<put(1), put(2), put(3), put(4), rdel(1, 5)>> }

MCKeyLen == [k \in 1 .. 5 |-> IF k = 3 THEN 1 ELSE 2]

MCFleetScripts == { <<put(1), del(1)>>, <<put(2), rdel(1, 3)>> }
MCFleetKeyLen == [k \in 1 .. 3 |-> 1]

\* A legacy table that no node claims, with the id of this node's first table,
\* and another node's table.
point(k, s, o) == [key |-> k, seq |-> s, op |-> o, end |-> 0, expire_at |-> 0]
MCLegacy == table_ref(1, SLOTS, {point(1, 5, "put"), point(2, 6, "del")}, <<>>, 1, 2, 0, 0)
MCOther ==
    table_ref(9, SLOTS, {point(2, 3, "put")}, <<[start |-> 1, end |-> 2, seq |-> 4]>>, 1, 2, 2, 6)
MCForeign == {MCLegacy, MCOther}
MCOtherOnly == {MCOther}

=============================================================================
