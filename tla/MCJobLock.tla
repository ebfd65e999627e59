----------------------------- MODULE MCJobLock ------------------------------
(* Instances of JobLock for TLC: two workers with a caller each, one worker alone,
   and one worker with two callers that share its objects.                *)
EXTENDS JobLock, TLC

CONSTANTS w1, w2, c1, c2

OnePerWorker == c1 :> w1 @@ c2 :> w2
OneWorker == c1 :> w1
Pair == c1 :> w1 @@ c2 :> w1

LockSymmetry == Permutations(Lock)
=============================================================================
