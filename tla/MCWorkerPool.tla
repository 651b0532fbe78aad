---------------------------- MODULE MCWorkerPool ----------------------------
(* Small instances of WorkerPool for TLC.  Jobs are interchangeable, but a run *)
(* with a liveness property may not use that.                                *)
EXTENDS WorkerPool, TLC
=============================================================================
