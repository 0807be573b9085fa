---------------------------- MODULE MC_VhdxLease ----------------------------
(* Instances of VhdxLease for TLC.  The run checks liveness, so it uses no  *)
(* symmetry.                                                                *)
EXTENDS VhdxLease, TLC
=============================================================================
