---------------------------- MODULE MCSequencer ----------------------------
(* Small instances of Sequencer for TLC.                                   *)
EXTENDS Sequencer, TLC

(* Slots that were never used are interchangeable: the scheduler hands them *)
(* out in one order.                                                       *)
FreshInOrder ==
    LET unused == {s \in Slots : slotEpoch[s] = 0}
    IN \A s \in unused : slotEpoch'[s] # 0 => s = CHOOSE x \in unused : TRUE
=============================================================================
