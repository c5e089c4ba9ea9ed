---------------------------- MODULE MCWorkerPool ----------------------------
(* WorkerPool on a small instance: see WorkerPool.cfg.                     *)
EXTENDS WorkerPool, TLC

CONSTANTS s1, s2, s3, i1, i2

(* Bound: without a cache no content is told from another, so that one is  *)
(* enough.                                                                 *)
OneContentUncached == cached \/ \A s \in Seats : pop[s] = i1
=============================================================================
