------------------------------- MODULE MCRing -------------------------------
(***************************************************************************)
(* Finite instance of Ring: two slots, two writers that put their own      *)
(* names, so that a payload mixed from two writers shows.                  *)
(***************************************************************************)
EXTENDS Ring

MCPayloadsOf == [x \in Writers |-> {x}]
=============================================================================
