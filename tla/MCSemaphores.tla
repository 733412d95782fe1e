---------------------------- MODULE MCSemaphores ----------------------------
(* Instances of Semaphores for TLC: which weight each job has.             *)
EXTENDS Semaphores, TLC

CONSTANTS a, b, c, d

(* One job is heavier than the semaphore.                                  *)
MixedWeights == (a :> 1) @@ (b :> 2) @@ (c :> 4) @@ (d :> 1)
=============================================================================
