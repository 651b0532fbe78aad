--------------------------- MODULE MCJobScheduler ---------------------------
(* Small instances of JobScheduler for TLC.                                *)
EXTENDS JobScheduler, TLC

(* Workers are interchangeable, and so are slots: the constructor's order  *)
(* of the free list is arbitrary.                                          *)
Symmetry == Permutations(Workers) \cup Permutations(Slots)
=============================================================================
