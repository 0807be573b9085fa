--------------------------- MODULE MC_UnixLeases ---------------------------
(* Instances of UnixLeases for TLC: leases and workspaces are model values. *)
EXTENDS UnixLeases, TLC

Symmetry == Permutations(Leases) \cup Permutations(Workspaces)
=============================================================================
