---------------------------- MODULE MCWorkerPool ----------------------------
(***************************************************************************)
(* Instances of WorkerPool for TLC.                                        *)
(***************************************************************************)
EXTENDS WorkerPool

CONSTANTS a, b, c, d, e

TwoChunks == <<<<a, b, c>>, <<d, e>>>>
=============================================================================
