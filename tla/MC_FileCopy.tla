---------------------------- MODULE MC_FileCopy ----------------------------
(* Instances of FileCopy for TLC: the workers are model values.  The runs   *)
(* check liveness as well, so they use no symmetry.                         *)
EXTENDS FileCopy, TLC
=============================================================================
