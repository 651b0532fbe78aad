--------------------------- MODULE MCWorkerQueue ---------------------------
(* Small instances of WorkerQueue for TLC.  Jobs, list nodes and thieves are *)
(* interchangeable, but a run with a liveness property may not use that.     *)
EXTENDS WorkerQueue, TLC
=============================================================================
