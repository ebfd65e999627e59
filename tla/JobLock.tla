------------------------------- MODULE JobLock -------------------------------
(***************************************************************************)
(* The distributed lock of one job: the etcd key of the lock with the      *)
(* leases it can be attached to, the JobLock objects that the worker       *)
(* processes keep for the job, the goroutines that renew their leases, and *)
(* the LockManager of each worker.                                         *)
(*                                                                         *)
(* Sources: pkg/worker/joblock/job_lock.go, lock_manager.go and the lease  *)
(* operations of pkg/common/utils/etcd_client.go.  A caller is a goroutine *)
(* that runs the lock part of Scheduler.executeJob: CreateLock, TryLock,   *)
(* the execution, Unlock.                                                  *)
(***************************************************************************)
EXTENDS Naturals, FiniteSets

CONSTANTS
  Worker,     \* worker processes
  Caller,     \* goroutines that execute the job
  WorkerOf,   \* the worker each caller runs in
  Lock,       \* JobLock objects that can be allocated (a bound)
  NoWorker, NoLock, NoActor,
  MaxLease,   \* leases that can be granted (a bound)
  Attempts,   \* acquisition attempts of one TryLock (3 * 3 in the code)
  MaxRuns,    \* executions started per caller (a bound)
  Env         \* what the environment and the operators of the worker do

(* LeaseLoss: a renewed lease can expire and its keepalive stream can break *)
(* (a partition longer than the TTL); Unreachable: a call to etcd fails,    *)
(* with or without effect; NoRenewal: KeepAliveLease returns an error (the  *)
(* etcd client has halted its keepalive loop); Cleanup: the 30 s cleanup loop runs; Stop: the   *)
(* manager is stopped or asked to release; StopRenewal: JobLock.StopRenewal *)
(* is called; Crash: a worker process dies and is restarted.                *)
EnvKinds == {"LeaseLoss", "Unreachable", "NoRenewal", "Cleanup", "Stop", "StopRenewal", "Crash"}

ASSUME LockAssumption ==
  /\ MaxLease \in Nat /\ Attempts \in Nat \ {0} /\ MaxRuns \in Nat
  /\ WorkerOf \in [Caller -> Worker]
  /\ Caller \cap Worker = {}
  /\ NoWorker \notin Worker
  /\ NoLock \notin Lock
  /\ NoActor \notin Caller \cup Worker
  /\ Env \subseteq EnvKinds

VARIABLES
  key, live, granted,               \* etcd: lease of the key, live leases, last ID
  home, isLocked, leaseID, cancelFunc, keepAliveCh, mutex,     \* JobLock objects
  renewal, leaseLock, mon,          \* keepalive streams and monitorKeepAlive
  locks, running,                   \* LockManager of each worker
  pc, obj, lease, tries, runs       \* callers, and the manager as an actor

etcdVars == <<key, live, granted>>
lockVars == <<home, isLocked, leaseID, cancelFunc, keepAliveCh, mutex>>
renewVars == <<renewal, leaseLock, mon>>
managerVars == <<locks, running>>
actorVars == <<pc, obj, lease, tries, runs>>
vars == <<etcdVars, lockVars, renewVars, managerVars, actorVars>>

NoLease == 0
Lease == 1..MaxLease
Actor == Caller \cup Worker

CallerPC == {"idle", "created", "grant", "txn", "won", "revoke",
             "holding", "unlocking", "released", "failed"}
ManagerPC == {"idle", "read", "check", "validate", "recheck", "remove", "removing",
              "release", "releasing"}

\* The types; an acquisition makes no more attempts than its options allow.
TypeOK ==
  /\ key \in Lease \cup {NoLease}
  /\ live \subseteq Lease
  /\ granted \in 0..MaxLease
  /\ home \in [Lock -> Worker \cup {NoWorker}]
  /\ isLocked \in [Lock -> BOOLEAN]
  /\ leaseID \in [Lock -> Lease \cup {NoLease}]
  /\ cancelFunc \in [Lock -> Lease \cup {NoLease}]
  /\ keepAliveCh \in [Lock -> Lease \cup {NoLease}]
  /\ mutex \in [Lock -> Actor \cup {NoActor}]
  /\ renewal \in [Lease -> {"none", "open", "cancelled", "closed"}]
  /\ leaseLock \in [Lease -> Lock \cup {NoLock}]
  /\ mon \in [Lease -> [pc : {"none", "loop", "recv", "failed", "done"},
                        ch : Lease \cup {NoLease}]]
  /\ locks \in [Worker -> Lock \cup {NoLock}]
  /\ running \in [Worker -> BOOLEAN]
  /\ pc \in [Actor -> CallerPC \cup ManagerPC]
  /\ obj \in [Actor -> Lock \cup {NoLock}]
  /\ lease \in [Actor -> Lease \cup {NoLease}]
  /\ tries \in [Caller -> 0..(Attempts - 1)]
  /\ runs \in [Caller -> 0..MaxRuns]

Init ==
  /\ key = NoLease /\ live = {} /\ granted = 0
  /\ home = [o \in Lock |-> NoWorker]
  /\ isLocked = [o \in Lock |-> FALSE]
  /\ leaseID = [o \in Lock |-> NoLease]
  /\ cancelFunc = [o \in Lock |-> NoLease]
  /\ keepAliveCh = [o \in Lock |-> NoLease]
  /\ mutex = [o \in Lock |-> NoActor]
  /\ renewal = [l \in Lease |-> "none"]
  /\ leaseLock = [l \in Lease |-> NoLock]
  /\ mon = [l \in Lease |-> [pc |-> "none", ch |-> NoLease]]
  /\ locks = [w \in Worker |-> NoLock]
  /\ running = [w \in Worker |-> TRUE]
  /\ pc = [a \in Actor |-> "idle"]
  /\ obj = [a \in Actor |-> NoLock]
  /\ lease = [a \in Actor |-> NoLease]
  /\ tries = [c \in Caller |-> 0]
  /\ runs = [c \in Caller |-> 0]

Free(o) == o \in Lock /\ mutex[o] = NoActor

Goto(a, p) == pc' = [pc EXCEPT ![a] = p]

\* etcd deletes the keys attached to a lease with the lease.
DropLease(l) ==
  /\ live' = live \ {l}
  /\ key' = IF key = l THEN NoLease ELSE key
  /\ UNCHANGED granted

-----------------------------------------------------------------------------
(* LockManager.CreateLock: the object in the map, or a new one.  The        *)
(* manager's mutex is held while the manager itself is not idle.            *)
CreateLock(c) ==
  LET w == WorkerOf[c] IN
  /\ pc[c] \in {"idle", "released", "failed"}
  /\ runs[c] < MaxRuns
  /\ pc[w] = "idle"
  /\ \/ /\ locks[w] # NoLock
        /\ obj' = [obj EXCEPT ![c] = locks[w]]
        /\ UNCHANGED <<home, locks>>
     \/ /\ locks[w] = NoLock
        /\ \E o \in Lock :
             /\ home[o] = NoWorker
             /\ home' = [home EXCEPT ![o] = w]
             /\ locks' = [locks EXCEPT ![w] = o]
             /\ obj' = [obj EXCEPT ![c] = o]
  /\ runs' = [runs EXCEPT ![c] = @ + 1]
  /\ lease' = [lease EXCEPT ![c] = NoLease]
  /\ Goto(c, "created")
  /\ UNCHANGED <<etcdVars, isLocked, leaseID, cancelFunc, keepAliveCh, mutex,
                 renewVars, running, tries>>

\* TryLock on an object that is already locked returns true at once.
TryLockReentrant(c) ==
  /\ pc[c] = "created"
  /\ Free(obj[c]) /\ isLocked[obj[c]]
  /\ Goto(c, "holding")
  /\ UNCHANGED <<etcdVars, lockVars, renewVars, managerVars, obj, lease, tries, runs>>

TryLockStart(c) ==
  /\ pc[c] = "created"
  /\ Free(obj[c]) /\ ~isLocked[obj[c]]
  /\ mutex' = [mutex EXCEPT ![obj[c]] = c]
  /\ tries' = [tries EXCEPT ![c] = 0]
  /\ Goto(c, "grant")
  /\ UNCHANGED <<etcdVars, home, isLocked, leaseID, cancelFunc, keepAliveCh,
                 renewVars, managerVars, obj, lease, runs>>

\* Mutant: the attempts are counted one too far.
Mutant_ExtraAttempt(c) ==
  /\ lease' = [lease EXCEPT ![c] = NoLease]
  /\ IF tries[c] < Attempts
       THEN tries' = [tries EXCEPT ![c] = @ + 1] /\ Goto(c, "grant") /\ UNCHANGED mutex
       ELSE /\ tries' = [tries EXCEPT ![c] = 0]
            /\ mutex' = [mutex EXCEPT ![obj[c]] = NoActor]
            /\ Goto(c, "failed")

\* The end of a failed attempt: another one after a delay, with the mutex
\* still held, or an error to the caller.
NextAttempt(c) ==
  /\ lease' = [lease EXCEPT ![c] = NoLease]
  /\ IF tries[c] + 1 < Attempts
       THEN tries' = [tries EXCEPT ![c] = @ + 1] /\ Goto(c, "grant") /\ UNCHANGED mutex
       ELSE /\ tries' = [tries EXCEPT ![c] = 0]
            /\ mutex' = [mutex EXCEPT ![obj[c]] = NoActor]
            /\ Goto(c, "failed")

(* One attempt of EtcdClient.TryAcquireLock: grant, transaction, and a      *)
(* revocation when the transaction failed or lost.                          *)
Grant(c) ==
  /\ pc[c] = "grant"
  /\ granted < MaxLease
  /\ granted' = granted + 1
  /\ live' = live \cup {granted + 1}
  /\ leaseLock' = [leaseLock EXCEPT ![granted + 1] = obj[c]]
  /\ lease' = [lease EXCEPT ![c] = granted + 1]
  /\ Goto(c, "txn")
  /\ UNCHANGED <<key, lockVars, renewal, mon, managerVars, obj, tries, runs>>

GrantFails(c) ==
  /\ "Unreachable" \in Env
  /\ pc[c] = "grant"
  /\ NextAttempt(c)
  /\ UNCHANGED <<etcdVars, home, isLocked, leaseID, cancelFunc, keepAliveCh,
                 renewVars, managerVars, obj, runs>>

\* Mutant: the transaction does not compare the key's create revision.
Mutant_NoCompare(c) == lease[c] \in live

TxnCanWin(c) == key = NoLease /\ lease[c] \in live

TxnWins(c) ==
  /\ pc[c] = "txn"
  /\ TxnCanWin(c)
  /\ key' = lease[c]
  /\ Goto(c, "won")
  /\ UNCHANGED <<live, granted, lockVars, renewVars, managerVars, obj, lease, tries, runs>>

\* Mutant: TryAcquireLock does not look at resp.Succeeded.
Mutant_IgnoreSucceeded(c) ==
  /\ pc[c] = "txn"
  /\ ~TxnCanWin(c)
  /\ Goto(c, "won")
  /\ UNCHANGED <<etcdVars, lockVars, renewVars, managerVars, obj, lease, tries, runs>>

TxnLoses(c) ==
  /\ pc[c] = "txn"
  /\ ~TxnCanWin(c)
  /\ Goto(c, "revoke")
  /\ UNCHANGED <<etcdVars, lockVars, renewVars, managerVars, obj, lease, tries, runs>>

\* The transaction commits at the server and its answer is lost.
TxnAnswerLost(c) ==
  /\ "Unreachable" \in Env
  /\ pc[c] = "txn"
  /\ key' = IF TxnCanWin(c) THEN lease[c] ELSE key
  /\ Goto(c, "revoke")
  /\ UNCHANGED <<live, granted, lockVars, renewVars, managerVars, obj, lease, tries, runs>>

\* The error of this revocation is ignored.
RevokeLoser(c) ==
  /\ pc[c] = "revoke"
  /\ \/ DropLease(lease[c])
     \/ "Unreachable" \in Env /\ UNCHANGED etcdVars
  /\ NextAttempt(c)
  /\ UNCHANGED <<home, isLocked, leaseID, cancelFunc, keepAliveCh,
                 renewVars, managerVars, obj, runs>>

\* Mutant: TryLock does not start the renewal.
Mutant_NoAutoRenew(c) ==
  LET o == obj[c] IN
  /\ pc[c] = "won"
  /\ isLocked' = [isLocked EXCEPT ![o] = TRUE]
  /\ leaseID' = [leaseID EXCEPT ![o] = lease[c]]
  /\ mutex' = [mutex EXCEPT ![o] = NoActor]
  /\ Goto(c, "holding")
  /\ UNCHANGED <<etcdVars, home, cancelFunc, keepAliveCh, renewVars, managerVars,
                 obj, lease, tries, runs>>

\* The end of a successful TryLock, with startAutoRenew.
Acquired(c) ==
  LET o == obj[c]  l == lease[c] IN
  /\ pc[c] = "won"
  /\ isLocked' = [isLocked EXCEPT ![o] = TRUE]
  /\ leaseID' = [leaseID EXCEPT ![o] = l]
  /\ cancelFunc' = [cancelFunc EXCEPT ![o] = l]
  /\ mutex' = [mutex EXCEPT ![o] = NoActor]
  /\ \/ /\ renewal' = [renewal EXCEPT ![l] = "open"]
        /\ keepAliveCh' = [keepAliveCh EXCEPT ![o] = l]
        /\ mon' = [mon EXCEPT ![l] = [pc |-> "loop", ch |-> NoLease]]
     \/ /\ "NoRenewal" \in Env
        /\ UNCHANGED <<renewal, keepAliveCh, mon>>
  /\ Goto(c, "holding")
  /\ UNCHANGED <<etcdVars, home, leaseLock, managerVars, obj, lease, tries, runs>>

-----------------------------------------------------------------------------
(* JobLock.Unlock, called by a caller after its execution and by the        *)
(* manager when it removes or releases the object.                          *)
\* Mutant: the context of the renewal is not cancelled.
Mutant_NoCancel(o) ==
  /\ cancelFunc' = [cancelFunc EXCEPT ![o] = NoLease]
  /\ keepAliveCh' = [keepAliveCh EXCEPT ![o] = NoLease]
  /\ UNCHANGED renewal

\* stopAutoRenew and the body of StopRenewal
StopAutoRenew(o) ==
  /\ renewal' = [l \in Lease |->
                   IF l = cancelFunc[o] /\ renewal[l] = "open" THEN "cancelled"
                                                               ELSE renewal[l]]
  /\ cancelFunc' = [cancelFunc EXCEPT ![o] = NoLease]
  /\ keepAliveCh' = [keepAliveCh EXCEPT ![o] = NoLease]

UnlockFrom == {"holding", "remove", "release"}

Revoking(a) == pc[a] \in {"unlocking", "removing", "releasing"}

Unlocking(p) == CASE p = "holding" -> "unlocking"
                  [] p = "remove"  -> "removing"
                  [] p = "release" -> "releasing"

\* What follows Unlock: the caller goes on; the manager drops the map entry,
\* which ReleaseLock does only when Unlock succeeded.
AfterUnlock(a, ok) ==
  IF a \in Caller
    THEN Goto(a, IF ok THEN "released" ELSE "failed") /\ UNCHANGED locks
    ELSE /\ Goto(a, "idle")
         /\ locks' = IF ok \/ pc[a] # "releasing"
                       THEN [locks EXCEPT ![a] = NoLock] ELSE locks

UnlockNotLocked(a) ==
  /\ pc[a] \in UnlockFrom
  /\ Free(obj[a]) /\ ~isLocked[obj[a]]
  /\ AfterUnlock(a, TRUE)
  /\ UNCHANGED <<etcdVars, lockVars, renewVars, running, obj, lease, tries, runs>>

UnlockStart(a) ==
  /\ pc[a] \in UnlockFrom
  /\ Free(obj[a]) /\ isLocked[obj[a]]
  /\ mutex' = [mutex EXCEPT ![obj[a]] = a]
  /\ StopAutoRenew(obj[a])
  /\ Goto(a, Unlocking(pc[a]))
  /\ UNCHANGED <<etcdVars, home, isLocked, leaseID, leaseLock, mon, managerVars,
                 obj, lease, tries, runs>>

UnlockRevoked(a) ==
  LET o == obj[a] IN
  /\ Revoking(a)
  /\ leaseID[o] \in live
  /\ DropLease(leaseID[o])
  /\ isLocked' = [isLocked EXCEPT ![o] = FALSE]
  /\ leaseID' = [leaseID EXCEPT ![o] = NoLease]
  /\ mutex' = [mutex EXCEPT ![o] = NoActor]
  /\ AfterUnlock(a, TRUE)
  /\ UNCHANGED <<home, cancelFunc, keepAliveCh, renewVars, running, obj, lease, tries, runs>>

\* ReleaseLock fails: the lease is gone, or etcd does not answer (the first
\* attempt may have taken effect, the next one then finds no lease).
UnlockFails(a) ==
  LET o == obj[a] IN
  /\ Revoking(a)
  /\ \/ leaseID[o] \notin live /\ UNCHANGED etcdVars
     \/ "Unreachable" \in Env /\ (UNCHANGED etcdVars \/ DropLease(leaseID[o]))
  /\ mutex' = [mutex EXCEPT ![o] = NoActor]
  /\ AfterUnlock(a, FALSE)
  /\ UNCHANGED <<home, isLocked, leaseID, cancelFunc, keepAliveCh, renewVars,
                 running, obj, lease, tries, runs>>

StopRenewal(o) ==
  /\ "StopRenewal" \in Env
  /\ Free(o)
  /\ StopAutoRenew(o)
  /\ UNCHANGED <<etcdVars, home, isLocked, leaseID, mutex, leaseLock, mon,
                 managerVars, actorVars>>

-----------------------------------------------------------------------------
(* monitorKeepAlive, one goroutine per acquisition, named by its lease.  It *)
(* reads j.keepAliveCh, without the mutex, each time it enters the select.  *)
MonitorSelect(l) ==
  /\ mon[l].pc = "loop"
  /\ mon' = [mon EXCEPT ![l] = [pc |-> "recv", ch |-> keepAliveCh[leaseLock[l]]]]
  /\ UNCHANGED <<etcdVars, lockVars, renewal, leaseLock, managerVars, actorVars>>

\* A response, which can be in the channel's buffer when it is closed.
MonitorResponse(l) ==
  /\ mon[l].pc = "recv" /\ mon[l].ch # NoLease
  /\ renewal[mon[l].ch] \in {"open", "cancelled"}
  /\ mon' = [mon EXCEPT ![l].pc = "loop"]
  /\ UNCHANGED <<etcdVars, lockVars, renewal, leaseLock, managerVars, actorVars>>

\* Mutant: every message of the channel is taken for a failure.
Mutant_AnyMessageFails(l) ==
  /\ mon[l].pc = "recv" /\ mon[l].ch # NoLease
  /\ mon' = [mon EXCEPT ![l].pc = "failed"]
  /\ UNCHANGED <<etcdVars, lockVars, renewal, leaseLock, managerVars, actorVars>>

MonitorClosed(l) ==
  /\ mon[l].pc = "recv" /\ mon[l].ch # NoLease
  /\ renewal[mon[l].ch] = "closed"
  /\ mon' = [mon EXCEPT ![l].pc = "failed"]
  /\ UNCHANGED <<etcdVars, lockVars, renewal, leaseLock, managerVars, actorVars>>

\* handleKeepAliveFailure
MonitorFailure(l) ==
  LET o == leaseLock[l] IN
  /\ mon[l].pc = "failed"
  /\ Free(o)
  /\ mon' = [mon EXCEPT ![l] = [pc |-> "done", ch |-> NoLease]]
  /\ isLocked' = [isLocked EXCEPT ![o] = FALSE]
  /\ leaseID' = IF isLocked[o] THEN [leaseID EXCEPT ![o] = NoLease] ELSE leaseID
  /\ UNCHANGED <<etcdVars, home, cancelFunc, keepAliveCh, mutex, renewal, leaseLock,
                 managerVars, actorVars>>

\* The etcd client closes the channel when its context is cancelled or the
\* lease is gone, and when the stream is lost.
RenewalCloses(l) ==
  /\ renewal[l] = "cancelled" \/ (renewal[l] = "open" /\ l \notin live)
  /\ renewal' = [renewal EXCEPT ![l] = "closed"]
  /\ UNCHANGED <<etcdVars, lockVars, leaseLock, mon, managerVars, actorVars>>

StreamLost(l) ==
  /\ "LeaseLoss" \in Env
  /\ renewal[l] = "open"
  /\ renewal' = [renewal EXCEPT ![l] = "closed"]
  /\ UNCHANGED <<etcdVars, lockVars, leaseLock, mon, managerVars, actorVars>>

\* Without LeaseLoss a lease outlives the requests that use it and lives as
\* long as it is renewed: every request ends well before the TTL.
InUse(l) ==
  \/ renewal[l] = "open"
  \/ \E c \in Caller : lease[c] = l /\ pc[c] \in {"txn", "won"}
  \/ \E a \in Actor : Revoking(a) /\ leaseID[obj[a]] = l

LeaseExpires(l) ==
  /\ l \in live
  /\ InUse(l) => "LeaseLoss" \in Env
  /\ DropLease(l)
  /\ UNCHANGED <<lockVars, renewVars, managerVars, actorVars>>

-----------------------------------------------------------------------------
(* LockManager.cleanupInvalidLocks on the entry of the job.  Each read of   *)
(* the object takes and releases its mutex; the manager's is held to the    *)
(* end.                                                                     *)
CleanupStart(w) ==
  /\ "Cleanup" \in Env
  /\ running[w] /\ pc[w] = "idle" /\ locks[w] # NoLock
  /\ obj' = [obj EXCEPT ![w] = locks[w]]
  /\ Goto(w, "read")
  /\ UNCHANGED <<etcdVars, lockVars, renewVars, managerVars, lease, tries, runs>>

CleanupReadLease(w) ==
  /\ pc[w] = "read"
  /\ Free(obj[w])
  /\ lease' = [lease EXCEPT ![w] = leaseID[obj[w]]]
  /\ Goto(w, "check")
  /\ UNCHANGED <<etcdVars, lockVars, renewVars, managerVars, obj, tries, runs>>

CleanupReadLocked(w) ==
  /\ pc[w] = "check"
  /\ Free(obj[w])
  /\ Goto(w, IF isLocked[obj[w]] /\ lease[w] # NoLease THEN "validate" ELSE "recheck")
  /\ UNCHANGED <<etcdVars, lockVars, renewVars, managerVars, obj, lease, tries, runs>>

\* IsLeaseValid is false only when TimeToLive returns an error; for a lease
\* that is gone it returns a negative TTL and no error.
CleanupValidate(w) ==
  /\ pc[w] = "validate"
  /\ \/ Goto(w, "idle")
     \/ "Unreachable" \in Env /\ Goto(w, "recheck")
  /\ UNCHANGED <<etcdVars, lockVars, renewVars, managerVars, obj, lease, tries, runs>>

\* MarkAsUnlocked, which leaves the lease and its renewal alone.
CleanupRecheck(w) ==
  /\ pc[w] = "recheck"
  /\ Free(obj[w])
  /\ isLocked' = [isLocked EXCEPT ![obj[w]] = FALSE]
  /\ Goto(w, "remove")
  /\ UNCHANGED <<etcdVars, home, leaseID, cancelFunc, keepAliveCh, mutex, renewVars,
                 managerVars, obj, lease, tries, runs>>

\* Stop unlocks every object and clears the map, and ReleaseAllLocks does
\* that without ending the cleanup loop.
StopManager(w) ==
  /\ "Stop" \in Env
  /\ running[w] /\ pc[w] = "idle"
  /\ running' \in {running, [running EXCEPT ![w] = FALSE]}
  /\ \/ /\ locks[w] # NoLock
        /\ obj' = [obj EXCEPT ![w] = locks[w]]
        /\ Goto(w, "remove")
     \/ locks[w] = NoLock /\ UNCHANGED <<obj, pc>>
  /\ UNCHANGED <<etcdVars, lockVars, renewVars, locks, lease, tries, runs>>

ReleaseLock(w) ==
  /\ "Stop" \in Env
  /\ pc[w] = "idle" /\ locks[w] # NoLock
  /\ obj' = [obj EXCEPT ![w] = locks[w]]
  /\ Goto(w, "release")
  /\ UNCHANGED <<etcdVars, lockVars, renewVars, managerVars, lease, tries, runs>>

(* The process dies: its objects, goroutines and streams are gone, etcd     *)
(* keeps the key until the lease expires.  The worker is started again.     *)
Crash(w) ==
  LET mine(a) == a = w \/ (a \in Caller /\ WorkerOf[a] = w)
      dead(o) == o \in Lock /\ home[o] = w
      reset(f, none) == [o \in Lock |-> IF dead(o) THEN none ELSE f[o]]
  IN
  /\ "Crash" \in Env
  /\ pc' = [a \in Actor |-> IF mine(a) THEN "idle" ELSE pc[a]]
  /\ obj' = [a \in Actor |-> IF mine(a) THEN NoLock ELSE obj[a]]
  /\ lease' = [a \in Actor |-> IF mine(a) THEN NoLease ELSE lease[a]]
  /\ locks' = [locks EXCEPT ![w] = NoLock]
  /\ running' = [running EXCEPT ![w] = TRUE]
  /\ isLocked' = reset(isLocked, FALSE)
  /\ leaseID' = reset(leaseID, NoLease)
  /\ cancelFunc' = reset(cancelFunc, NoLease)
  /\ keepAliveCh' = reset(keepAliveCh, NoLease)
  /\ mutex' = reset(mutex, NoActor)
  /\ renewal' = [l \in Lease |-> IF dead(leaseLock[l]) THEN "closed" ELSE renewal[l]]
  /\ mon' = [l \in Lease |-> IF dead(leaseLock[l])
                               THEN [pc |-> "done", ch |-> NoLease] ELSE mon[l]]
  /\ UNCHANGED <<etcdVars, home, leaseLock, tries, runs>>

-----------------------------------------------------------------------------
CallerStep(c) ==
  \/ CreateLock(c) \/ TryLockReentrant(c) \/ TryLockStart(c)
  \/ Grant(c) \/ GrantFails(c)
  \/ TxnWins(c) \/ TxnLoses(c) \/ TxnAnswerLost(c) \/ RevokeLoser(c)
  \/ Acquired(c)

UnlockStep(a) ==
  UnlockNotLocked(a) \/ UnlockStart(a) \/ UnlockRevoked(a) \/ UnlockFails(a)

CleanupStep(w) ==
  CleanupReadLease(w) \/ CleanupReadLocked(w) \/ CleanupValidate(w) \/ CleanupRecheck(w)

MonitorStep(l) == MonitorSelect(l) \/ MonitorClosed(l) \/ MonitorFailure(l)

Next ==
  \/ \E c \in Caller : CallerStep(c)
  \/ \E a \in Actor : UnlockStep(a)
  \/ \E l \in Lease : MonitorStep(l) \/ MonitorResponse(l) \/ RenewalCloses(l)
                      \/ StreamLost(l) \/ LeaseExpires(l)
  \/ \E w \in Worker : CleanupStart(w) \/ CleanupStep(w) \/ StopManager(w)
                       \/ ReleaseLock(w) \/ Crash(w)
  \/ \E o \in Lock : StopRenewal(o)

Spec == Init /\ [][Next]_vars

(* Goroutines that can take a step take it, executions end, a cancelled or  *)
(* orphaned channel is closed, and etcd expires a lease nobody renews.      *)
Fairness ==
  /\ \A c \in Caller : WF_vars(CallerStep(c))
  /\ \A a \in Actor : WF_vars(UnlockStep(a))
  /\ \A w \in Worker : WF_vars(CleanupStep(w))
  /\ \A l \in Lease : /\ WF_vars(MonitorStep(l))
                      /\ WF_vars(RenewalCloses(l))
                      /\ WF_vars(LeaseExpires(l) /\ ~InUse(l))

FairSpec == Spec /\ Fairness

-----------------------------------------------------------------------------
(* The lock as its users see it, and the properties.                        *)
keyOwner == IF key = NoLease THEN NoLock ELSE leaseLock[key]

liveHolders == {o \in Lock : isLocked[o] /\ leaseID[o] \in live}

Promise == INSTANCE LeaseLock WITH owner <- keyOwner, holders <- liveHolders

\* The lock objects, leases and goroutines implement the lock that LeaseLock
\* describes, whatever the environment does: a key is never taken over, and
\* only its owner believes to hold it while the lease lives.
ImplementsLeaseLock == Promise!Spec

\* A lock object that is marked locked and whose lease is alive owns the etcd
\* key, whatever fails: TryAcquireLock, Unlock, monitorKeepAlive and cleanup
\* never leave two objects that both hold a live lease.
LiveHolderOwnsKey ==
  \A o \in Lock : isLocked[o] /\ leaseID[o] \in live => key = leaseID[o]

\* Only the lease of the key is ever kept alive: a client never renews a lease
\* that lost the race for the lock (TryAcquireLock revokes it).
RenewedLeaseOwnsKey ==
  \A l \in Lease : renewal[l] = "open" /\ l \in live => key = l

\* Two callers never execute the job together (ScheduledJob.Lock).
Executing(c) == pc[c] = "holding"

ExclusiveExecution ==
  \A c, d \in Caller : Executing(c) /\ Executing(d) => c = d

\* When Unlock returned without an error, the lease that this caller's
\* TryLock acquired does not keep the key: it is gone, or nobody renews it.
\* joblock_test.go expects another worker to get the lock from then on.
ReleasedKeyIsNotRenewed ==
  \A c \in Caller : pc[c] = "released" /\ lease[c] # NoLease /\ key = lease[c]
                      => renewal[key] # "open"

\* Whatever lease owns the key, the key is eventually free of it: no key is
\* left behind by a failed revocation, a lost answer or a crash.
KeyIsFreedAgain == \A l \in Lease : key = l ~> key # l

=============================================================================
