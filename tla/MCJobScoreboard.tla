-------------------------- MODULE MCJobScoreboard --------------------------
(* Small instances of JobScoreboard for TLC.                               *)
EXTENDS JobScoreboard, TLC

(* Slots are interchangeable: no operator tells two of them apart.  Only   *)
(* runs without liveness properties use it.                                *)
SlotSymmetry == Permutations(Slots)
=============================================================================
