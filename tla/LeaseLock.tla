------------------------------ MODULE LeaseLock ------------------------------
(***************************************************************************)
(* What the lock of a job promises to the processes that use it: the etcd  *)
(* key is owned by at most one lock object, ownership passes from one to   *)
(* another only through a free key, and an object that counts as locked    *)
(* with a live lease is the owner.  JobLock implements it.                 *)
(***************************************************************************)
CONSTANTS Lock, NoLock

VARIABLES owner,    \* the lock object whose lease is attached to the key
          holders   \* the lock objects marked locked whose lease is alive

Init == owner = NoLock /\ holders = {}

\* The transaction of TryAcquireLock succeeds.
Acquire(o) == owner = NoLock /\ owner' = o /\ holders' = {}

\* TryLock returns, the owner is marked as locked.
Hold(o) == owner = o /\ owner' = o /\ holders' = {o}

\* The owner forgets the lock: its renewal failed, it was marked unlocked,
\* or its process died.
Forget == holders # {} /\ holders' = {} /\ owner' = owner

\* The lease is revoked or expires.
Release == owner # NoLock /\ owner' = NoLock /\ holders' = {}

Next == (\E o \in Lock : Acquire(o) \/ Hold(o)) \/ Forget \/ Release

Spec == Init /\ [][Next]_<<owner, holders>>
=============================================================================
