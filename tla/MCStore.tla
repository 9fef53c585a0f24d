------------------------------ MODULE MCStore ------------------------------
(***************************************************************************)
(* Store for model checking: the bottom level already holds both keys.     *)
(***************************************************************************)
EXTENDS Store

MCSeed == {[key |-> k, seq |-> k, del |-> FALSE] : k \in Keys}

=============================================================================
