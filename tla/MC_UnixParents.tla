--------------------------- MODULE MC_UnixParents ---------------------------
(* Instances of UnixParents for TLC: keys and transactions are model values. *)
EXTENDS UnixParents, TLC

Symmetry == Permutations(Txns) \cup Permutations(Keys)
=============================================================================
