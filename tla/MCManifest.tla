----------------------------- MODULE MCManifest -----------------------------
(***************************************************************************)
(* Finite instance of Manifest: bodies of one, two and three blocks, so    *)
(* that a commit can leave a longer or shorter predecessor's blocks behind *)
(* it, and two different bodies of the same length.                        *)
(***************************************************************************)
EXTENDS Manifest

MCBodies == {"fresh", "two", "other", "three"}

MCBlocksOf == [b \in MCBodies |-> CASE b = "fresh" -> 1
                                    [] b \in {"two", "other"} -> 2
                                    [] b = "three" -> 3]
=============================================================================
