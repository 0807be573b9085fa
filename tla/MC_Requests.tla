---------------------------- MODULE MC_Requests ----------------------------
(* Instances of Requests for TLC.  The run checks liveness, so it uses no   *)
(* symmetry.                                                                *)
EXTENDS Requests, TLC
=============================================================================
