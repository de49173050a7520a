---------------------------- MODULE MCTossClient ----------------------------
(* TossClient for TLC: two workers, one of them with two threads, so that    *)
(* threads race for the memory cache and workers for Redis.                  *)
EXTENDS TossClient, TLC

CONSTANTS t1, t2, t3, p1, p2

TwoWorkers == t1 :> p1 @@ t2 :> p1 @@ t3 :> p2
OneWorker == t1 :> p1 @@ t2 :> p1

Symmetry == Permutations({t1, t2})
=============================================================================
