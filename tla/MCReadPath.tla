----------------------------- MODULE MCReadPath -----------------------------
(***************************************************************************)
(* Small instances of ReadPath: three keys, blocks of at most three values *)
(* with a restart point every two entries.                                 *)
(***************************************************************************)
EXTENDS ReadPath

op(k, o) == [key |-> k, op |-> o, end |-> 0, expire_at |-> 0]
rdel(a, b) == [key |-> a, op |-> "rdel", end |-> b, expire_at |-> 0]
ttl(k) == [key |-> k, op |-> "put", end |-> 0, expire_at |-> 1]

\* Runs of one key that fill blocks, begin mid-block and cross restarts.
MCSeeds ==
    { <<op(2, "put"), op(2, "put"), op(2, "put"), op(2, "put")>>,
      <<op(1, "put"), op(2, "put"), op(2, "put"), op(2, "put")>>,
      <<op(1, "put"), op(2, "del"), op(2, "put"), op(3, "put")>>,
      <<op(2, "put"), op(2, "del"), op(2, "put"), op(2, "del")>>,
      <<op(1, "put"), op(3, "put"), rdel(1, 3), op(2, "put")>>,
      <<op(2, "put"), rdel(2, 4), ttl(2), op(3, "put")>> }

MCOps ==
    {op(1, "put"), op(2, "del"), rdel(1, 3), ttl(2)}

MCRanges == {<<1, TopKey>>, <<2, 3>>}
MCRevRanges == {<<TopKey, 1>>, <<2, 0>>}

\* Keys 1 and 2 share their bloom bits, key 3 has its own.
MCProbe == (1 :> {1, 2}) @@ (2 :> {1, 2}) @@ (3 :> {2, 3})

=============================================================================
