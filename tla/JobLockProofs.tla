---------------------------- MODULE JobLockProofs ----------------------------
(***************************************************************************)
(* Proofs about JobLock for every set of workers and callers and for every *)
(* behaviour of the environment.                                           *)
(***************************************************************************)
EXTENDS JobLock, TLAPS

-----------------------------------------------------------------------------
(* The inductive invariant.                                                 *)

\* Lease IDs are handed out in order: what has not been granted is unused.
GrantOrder ==
  /\ live \subseteq 1..granted
  /\ \A o \in Lock : leaseID[o] <= granted
  /\ \A a \in Actor : lease[a] <= granted
  /\ \A l \in Lease : l > granted => /\ renewal[l] = "none"
                                     /\ mon[l].pc = "none"
                                     /\ leaseLock[l] = NoLock

\* A caller inside TryLock works on an object, and on a lease that was granted
\* for this object; so does the monitor of a lease.
CallersBound ==
  \A c \in Caller :
    /\ pc[c] \in {"created", "grant", "txn", "won", "revoke"} => obj[c] \in Lock
    /\ pc[c] \in {"txn", "won", "revoke"} => /\ lease[c] \in Lease
                                            /\ leaseLock[lease[c]] = obj[c]

MonitorsBound ==
  \A l \in Lease : mon[l].pc \in {"loop", "recv", "failed"} => leaseLock[l] \in Lock

\* The lease of an object, and the lease of the key, were granted for it.
HoldersBound ==
  /\ \A o \in Lock : leaseID[o] # NoLease => leaseLock[leaseID[o]] = o
  /\ key # NoLease => leaseLock[key] \in Lock

KeyIsLive == key # NoLease => key \in live

\* The lease of a transaction that succeeded owns the key as long as it lives.
WinnerOwnsKey ==
  \A c \in Caller : pc[c] = "won" /\ lease[c] \in live => key = lease[c]

Ownership ==
  KeyIsLive /\ WinnerOwnsKey /\ LiveHolderOwnsKey /\ RenewedLeaseOwnsKey

IInv == TypeOK /\ GrantOrder /\ CallersBound /\ MonitorsBound /\ HoldersBound /\ Ownership

-----------------------------------------------------------------------------
(* Type correctness.                                                        *)

LEMMA ActorTypes ==
  /\ Caller \subseteq Actor /\ Worker \subseteq Actor
  /\ \A c \in Caller : WorkerOf[c] \in Worker /\ c \notin Worker
  /\ NoLease \notin Lease /\ NoLease = 0 /\ Lease \subseteq Nat
BY LockAssumption DEF Actor, NoLease, Lease

LEMMA LeaseTypes ==
  ASSUME TypeOK
  PROVE  /\ granted \in Nat /\ key \in Nat
         /\ \A a \in Actor : lease[a] \in Nat
         /\ \A o \in Lock : leaseID[o] \in Nat
<1>1. granted \in Nat /\ key \in Nat
  BY DEF TypeOK, Lease, NoLease
<1>2. Lease \cup {NoLease} \subseteq Nat
  BY DEF Lease, NoLease
<1>3. lease \in [Actor -> Lease \cup {NoLease}] /\ leaseID \in [Lock -> Lease \cup {NoLease}]
  BY DEF TypeOK
<1> QED
  BY <1>1, <1>2, <1>3

LEMMA CallerStepType ==
  ASSUME TypeOK, NEW c \in Caller, CallerStep(c)
  PROVE  TypeOK'
<1> USE ActorTypes DEF CallerPC, ManagerPC, Free, Goto,
        etcdVars, lockVars, renewVars, managerVars, actorVars, TypeOK
<1>1. c \in Actor /\ WorkerOf[c] \in Worker
  OBVIOUS
<1>2. CASE CreateLock(c)
  <2>1. runs' \in [Caller -> 0..MaxRuns]
    BY <1>2, LockAssumption DEF CreateLock
  <2>2. /\ home' \in [Lock -> Worker \cup {NoWorker}]
        /\ locks' \in [Worker -> Lock \cup {NoLock}]
        /\ obj' \in [Actor -> Lock \cup {NoLock}]
    BY <1>1, <1>2 DEF CreateLock
  <2> QED
    BY <1>1, <1>2, <2>1, <2>2 DEF CreateLock
<1>3. CASE TryLockReentrant(c)
  BY <1>1, <1>3 DEF TryLockReentrant
<1>4. CASE TryLockStart(c)
  BY <1>1, <1>4, LockAssumption DEF TryLockStart
<1>5. CASE Grant(c)
  <2>1. granted + 1 \in Lease /\ granted' \in 0..MaxLease
    BY <1>5, LockAssumption DEF Grant, Lease
  <2> QED
    BY <1>1, <1>5, <2>1 DEF Grant
<1>6. ASSUME NextAttempt(c)
      PROVE  /\ tries' \in [Caller -> 0..(Attempts - 1)]
             /\ lease' \in [Actor -> Lease \cup {NoLease}]
             /\ pc' \in [Actor -> CallerPC \cup ManagerPC]
             /\ mutex' \in [Lock -> Actor \cup {NoActor}]
  <2>1. tries' \in [Caller -> 0..(Attempts - 1)]
    BY <1>6, LockAssumption DEF NextAttempt
  <2>2. /\ lease' \in [Actor -> Lease \cup {NoLease}]
        /\ pc' \in [Actor -> CallerPC \cup ManagerPC]
        /\ mutex' \in [Lock -> Actor \cup {NoActor}]
    BY <1>1, <1>6 DEF NextAttempt
  <2> QED
    BY <2>1, <2>2
<1>7. CASE GrantFails(c)
  BY <1>6, <1>7 DEF GrantFails
<1>8. CASE TxnWins(c)
  BY <1>1, <1>8 DEF TxnWins, TxnCanWin
<1>9. CASE TxnLoses(c)
  BY <1>1, <1>9 DEF TxnLoses
<1>10. CASE TxnAnswerLost(c)
  BY <1>1, <1>10 DEF TxnAnswerLost
<1>11. CASE RevokeLoser(c)
  BY <1>6, <1>11 DEF RevokeLoser, DropLease
<1>12. CASE Acquired(c)
  <2>1. mon' \in [Lease -> [pc : {"none", "loop", "recv", "failed", "done"},
                             ch : Lease \cup {NoLease}]]
    BY <1>12 DEF Acquired
  <2>2. /\ isLocked' \in [Lock -> BOOLEAN]
        /\ leaseID' \in [Lock -> Lease \cup {NoLease}]
        /\ cancelFunc' \in [Lock -> Lease \cup {NoLease}]
        /\ keepAliveCh' \in [Lock -> Lease \cup {NoLease}]
        /\ mutex' \in [Lock -> Actor \cup {NoActor}]
        /\ renewal' \in [Lease -> {"none", "open", "cancelled", "closed"}]
    BY <1>1, <1>12 DEF Acquired
  <2> QED
    BY <1>12, <2>1, <2>2 DEF Acquired
<1> QED
  BY <1>2, <1>3, <1>4, <1>5, <1>7, <1>8, <1>9, <1>10, <1>11, <1>12 DEF CallerStep

LEMMA UnlockStepType ==
  ASSUME TypeOK, NEW a \in Actor, UnlockStep(a)
  PROVE  TypeOK'
<1> USE ActorTypes DEF CallerPC, ManagerPC, Free, Goto, UnlockFrom,
        etcdVars, lockVars, renewVars, managerVars, actorVars, TypeOK
<1>1. a \notin Caller => a \in Worker
  BY DEF Actor
<1>2. ASSUME NEW ok \in BOOLEAN, AfterUnlock(a, ok)
      PROVE  /\ pc' \in [Actor -> CallerPC \cup ManagerPC]
             /\ locks' \in [Worker -> Lock \cup {NoLock}]
  BY <1>1, <1>2 DEF AfterUnlock
<1>3. CASE UnlockNotLocked(a)
  BY <1>2, <1>3 DEF UnlockNotLocked
<1>4. CASE UnlockStart(a)
  <2>1. /\ renewal' \in [Lease -> {"none", "open", "cancelled", "closed"}]
        /\ cancelFunc' \in [Lock -> Lease \cup {NoLease}]
        /\ keepAliveCh' \in [Lock -> Lease \cup {NoLease}]
    BY <1>4 DEF UnlockStart, StopAutoRenew
  <2>2. Unlocking(pc[a]) \in CallerPC \cup ManagerPC
    BY <1>4 DEF UnlockStart, Unlocking
  <2>3. /\ pc' \in [Actor -> CallerPC \cup ManagerPC]
        /\ mutex' \in [Lock -> Actor \cup {NoActor}]
    BY <1>4, <2>2 DEF UnlockStart
  <2> QED
    BY <1>4, <2>1, <2>3 DEF UnlockStart
<1>5. CASE UnlockRevoked(a)
  BY <1>2, <1>5 DEF UnlockRevoked, DropLease
<1>6. CASE UnlockFails(a)
  BY <1>2, <1>6 DEF UnlockFails, DropLease
<1> QED
  BY <1>3, <1>4, <1>5, <1>6 DEF UnlockStep

LEMMA RenewalStepType ==
  ASSUME TypeOK, MonitorsBound, NEW l \in Lease,
         \/ MonitorStep(l) \/ MonitorResponse(l) \/ RenewalCloses(l)
         \/ StreamLost(l) \/ LeaseExpires(l)
  PROVE  TypeOK'
<1> USE ActorTypes DEF CallerPC, ManagerPC, Free,
        etcdVars, lockVars, renewVars, managerVars, actorVars, TypeOK
<1>1. CASE MonitorSelect(l)
  <2>1. keepAliveCh[leaseLock[l]] \in Lease \cup {NoLease}
    BY <1>1 DEF MonitorSelect, MonitorsBound
  <2> QED
    BY <1>1, <2>1 DEF MonitorSelect
<1>2. CASE MonitorResponse(l)
  BY <1>2 DEF MonitorResponse
<1>3. CASE MonitorClosed(l)
  BY <1>3 DEF MonitorClosed
<1>4. CASE MonitorFailure(l)
  BY <1>4 DEF MonitorFailure
<1>5. CASE RenewalCloses(l)
  BY <1>5 DEF RenewalCloses
<1>6. CASE StreamLost(l)
  BY <1>6 DEF StreamLost
<1>7. CASE LeaseExpires(l)
  BY <1>7 DEF LeaseExpires, DropLease
<1> QED
  BY <1>1, <1>2, <1>3, <1>4, <1>5, <1>6, <1>7 DEF MonitorStep

LEMMA ManagerStepType ==
  ASSUME TypeOK, NEW w \in Worker,
         \/ CleanupStart(w) \/ CleanupStep(w) \/ StopManager(w)
         \/ ReleaseLock(w) \/ Crash(w)
  PROVE  TypeOK'
<1> USE ActorTypes DEF CallerPC, ManagerPC, Free, Goto,
        etcdVars, lockVars, renewVars, managerVars, actorVars, TypeOK
<1>1. w \in Actor
  OBVIOUS
<1>2. CASE CleanupStart(w)
  BY <1>1, <1>2 DEF CleanupStart
<1>3. CASE CleanupReadLease(w)
  BY <1>1, <1>3 DEF CleanupReadLease
<1>4. CASE CleanupReadLocked(w)
  BY <1>1, <1>4 DEF CleanupReadLocked
<1>5. CASE CleanupValidate(w)
  BY <1>1, <1>5 DEF CleanupValidate
<1>6. CASE CleanupRecheck(w)
  BY <1>1, <1>6 DEF CleanupRecheck
<1>7. CASE StopManager(w)
  BY <1>1, <1>7 DEF StopManager
<1>8. CASE ReleaseLock(w)
  BY <1>1, <1>8 DEF ReleaseLock
<1>9. CASE Crash(w)
  BY <1>1, <1>9 DEF Crash
<1> QED
  BY <1>2, <1>3, <1>4, <1>5, <1>6, <1>7, <1>8, <1>9 DEF CleanupStep

-----------------------------------------------------------------------------
(* The bindings of callers and monitors to objects and leases.              *)

Bound == GrantOrder /\ CallersBound /\ MonitorsBound

LEMMA CallerStepBound ==
  ASSUME TypeOK, Bound, NEW c \in Caller, CallerStep(c)
  PROVE  Bound'
<1> USE ActorTypes DEF Goto, Free, etcdVars, lockVars, renewVars, managerVars, actorVars,
        Bound, GrantOrder, CallersBound, MonitorsBound, TypeOK
<1>1. c \in Actor /\ WorkerOf[c] \in Worker /\ granted \in Nat
  OBVIOUS
<1>2. CASE CreateLock(c)
  <2>1. /\ obj' \in [Actor -> Lock \cup {NoLock}] /\ obj'[c] \in Lock
        /\ \A a \in Actor : a # c => obj'[a] = obj[a]
    BY <1>1, <1>2 DEF CreateLock
  <2>2. GrantOrder'
    <3>1. \A a \in Actor : lease'[a] = lease[a] \/ lease'[a] = 0
      BY <1>1, <1>2 DEF CreateLock
    <3> QED
      BY <1>1, <1>2, <3>1 DEF CreateLock
  <2>3. CallersBound'
    BY <1>1, <1>2, <2>1 DEF CreateLock
  <2>4. MonitorsBound'
    BY <1>2 DEF CreateLock
  <2> QED
    BY <2>2, <2>3, <2>4
<1>3. CASE TryLockReentrant(c)
  BY <1>1, <1>3 DEF TryLockReentrant
<1>4. CASE TryLockStart(c)
  BY <1>1, <1>4 DEF TryLockStart
<1>5. CASE Grant(c)
  <2>1. granted + 1 \in Lease /\ granted' = granted + 1 /\ granted' \in Nat
    BY <1>5, LockAssumption DEF Grant, Lease
  <2>2. live' \subseteq 1..granted'
    <3>1. live' = live \cup {granted + 1} /\ live \subseteq 1..granted
      BY <1>5 DEF Grant
    <3> HIDE DEF TypeOK, Bound, GrantOrder, CallersBound, MonitorsBound
    <3> QED
      BY <1>1, <2>1, <3>1
  <2>3. \A o \in Lock : leaseID'[o] <= granted'
    BY <1>1, <1>5, <2>1 DEF Grant, Lease
  <2>4. \A a \in Actor : lease'[a] <= granted'
    <3>1. \A a \in Actor : lease'[a] \in {lease[a], granted + 1}
      BY <1>1, <1>5 DEF Grant
    <3>2. ASSUME NEW a \in Actor PROVE lease[a] <= granted + 1
      <4>1. lease[a] \in Nat /\ lease[a] <= granted
        BY LeaseTypes
      <4> HIDE DEF TypeOK, Bound, GrantOrder, CallersBound, MonitorsBound
      <4> QED
        BY <1>1, <4>1
    <3> QED
      BY <1>1, <2>1, <3>1, <3>2
  <2>5. \A l \in Lease : l > granted' => /\ l > granted /\ l # granted + 1
    BY <1>1, <2>1 DEF Lease
  <2>6. GrantOrder'
    BY <1>5, <2>2, <2>3, <2>4, <2>5 DEF Grant
  <2>7. \A d \in Caller : lease[d] # granted + 1
    BY <1>1 DEF Lease
  <2>8. CallersBound'
    BY <1>1, <1>5, <2>1, <2>7 DEF Grant
  <2>9. MonitorsBound'
    <3>1. obj[c] \in Lock
      BY <1>5 DEF Grant
    <3>2. \A l \in Lease : leaseLock'[l] \in {leaseLock[l], obj[c]} /\ mon' = mon
      BY <1>5 DEF Grant
    <3> QED
      BY <3>1, <3>2
  <2> QED
    BY <2>6, <2>8, <2>9
<1>6. ASSUME NextAttempt(c)
      PROVE  /\ \A a \in Actor : lease'[a] <= granted
             /\ \A d \in Caller : d # c => pc'[d] = pc[d] /\ lease'[d] = lease[d]
             /\ pc'[c] \in {"grant", "failed"}
  BY <1>1, <1>6 DEF NextAttempt
<1>7. CASE GrantFails(c)
  BY <1>1, <1>6, <1>7 DEF GrantFails
<1>8. CASE TxnWins(c)
  BY <1>1, <1>8 DEF TxnWins
<1>9. CASE TxnLoses(c)
  BY <1>1, <1>9 DEF TxnLoses
<1>10. CASE TxnAnswerLost(c)
  BY <1>1, <1>10 DEF TxnAnswerLost
<1>11. CASE RevokeLoser(c)
  <2>1. live' \subseteq live /\ granted' = granted /\ NextAttempt(c)
    BY <1>11 DEF RevokeLoser, DropLease
  <2> QED
    BY <1>1, <1>6, <1>11, <2>1 DEF RevokeLoser
<1>12. CASE Acquired(c)
  <2>1. lease[c] \in Lease /\ lease[c] <= granted /\ leaseLock[lease[c]] \in Lock
    BY <1>1, <1>12 DEF Acquired
  <2>2. GrantOrder'
    BY <1>1, <1>12, <2>1 DEF Acquired
  <2>3. CallersBound'
    BY <1>1, <1>12 DEF Acquired
  <2>4. MonitorsBound'
    BY <1>12, <2>1 DEF Acquired
  <2> QED
    BY <2>2, <2>3, <2>4
<1> QED
  BY <1>2, <1>3, <1>4, <1>5, <1>7, <1>8, <1>9, <1>10, <1>11, <1>12 DEF CallerStep

LEMMA UnlockStepBound ==
  ASSUME TypeOK, Bound, NEW a \in Actor, UnlockStep(a)
  PROVE  Bound'
<1> USE ActorTypes DEF Goto, etcdVars, renewVars, actorVars,
        Bound, GrantOrder, CallersBound, MonitorsBound
<1>1. /\ pc \in [Actor -> CallerPC \cup ManagerPC]
      /\ leaseID \in [Lock -> Lease \cup {NoLease}]
      /\ renewal \in [Lease -> {"none", "open", "cancelled", "closed"}]
      /\ granted \in Nat
  BY LeaseTypes DEF TypeOK
<1>2. ASSUME NEW ok \in BOOLEAN, AfterUnlock(a, ok)
      PROVE  \A c \in Caller : pc'[c] = pc[c] \/ pc'[c] \in {"released", "failed"}
  BY <1>1, <1>2 DEF AfterUnlock
<1>3. CASE UnlockNotLocked(a)
  BY <1>2, <1>3 DEF UnlockNotLocked, lockVars
<1>4. CASE UnlockStart(a)
  <2>1. Unlocking(pc[a]) \in {"unlocking", "removing", "releasing"}
    BY <1>4 DEF UnlockStart, Unlocking, UnlockFrom
  <2>2. \A c \in Caller : pc'[c] = pc[c] \/ pc'[c] = Unlocking(pc[a])
    BY <1>1, <1>4 DEF UnlockStart
  <2>3. \A l \in Lease : renewal[l] = "none" => renewal'[l] = "none"
    BY <1>1, <1>4 DEF UnlockStart, StopAutoRenew
  <2> QED
    BY <1>4, <2>1, <2>2, <2>3 DEF UnlockStart
<1>5. CASE UnlockRevoked(a)
  <2>1. \A o \in Lock : leaseID'[o] \in {leaseID[o], 0}
    BY <1>1, <1>5 DEF UnlockRevoked
  <2>2. live' \subseteq live /\ granted' = granted
    BY <1>5 DEF UnlockRevoked, DropLease
  <2> QED
    <3>1. GrantOrder'
      BY <1>1, <1>5, <2>1, <2>2 DEF UnlockRevoked
    <3>2. CallersBound'
      BY <1>2, <1>5 DEF UnlockRevoked
    <3>3. MonitorsBound'
      BY <1>5 DEF UnlockRevoked
    <3> QED
      BY <3>1, <3>2, <3>3
<1>6. CASE UnlockFails(a)
  <2>1. live' \subseteq live /\ granted' = granted
    BY <1>6 DEF UnlockFails, DropLease
  <2>2. UNCHANGED <<leaseID, lease, obj, renewal, mon, leaseLock>>
    BY <1>6 DEF UnlockFails
  <2>3. GrantOrder' /\ MonitorsBound'
    BY <2>1, <2>2
  <2>4. CallersBound'
    BY <1>2, <1>6, <2>2 DEF UnlockFails
  <2> QED
    BY <2>3, <2>4
<1> QED
  BY <1>3, <1>4, <1>5, <1>6 DEF UnlockStep

LEMMA RenewalStepBound ==
  ASSUME TypeOK, Bound, NEW l \in Lease,
         \/ MonitorStep(l) \/ MonitorResponse(l) \/ RenewalCloses(l)
         \/ StreamLost(l) \/ LeaseExpires(l)
  PROVE  Bound'
<1> USE ActorTypes DEF etcdVars, lockVars, renewVars, managerVars, actorVars,
        Bound, GrantOrder, CallersBound, MonitorsBound
<1>1. /\ mon \in [Lease -> [pc : {"none", "loop", "recv", "failed", "done"},
                           ch : Lease \cup {NoLease}]]
      /\ leaseID \in [Lock -> Lease \cup {NoLease}]
      /\ renewal \in [Lease -> {"none", "open", "cancelled", "closed"}]
      /\ granted \in Nat
  BY LeaseTypes DEF TypeOK
<1>2. CASE MonitorSelect(l)
  BY <1>1, <1>2 DEF MonitorSelect
<1>3. CASE MonitorResponse(l)
  BY <1>1, <1>3 DEF MonitorResponse
<1>4. CASE MonitorClosed(l)
  BY <1>1, <1>4 DEF MonitorClosed
<1>5. CASE MonitorFailure(l)
  <2>1. \A o \in Lock : leaseID'[o] \in {leaseID[o], 0}
    BY <1>1, <1>5 DEF MonitorFailure
  <2> QED
    BY <1>1, <1>5, <2>1 DEF MonitorFailure
<1>6. CASE RenewalCloses(l)
  BY <1>1, <1>6 DEF RenewalCloses
<1>7. CASE StreamLost(l)
  BY <1>1, <1>7 DEF StreamLost
<1>8. CASE LeaseExpires(l)
  BY <1>1, <1>8 DEF LeaseExpires, DropLease
<1> QED
  BY <1>2, <1>3, <1>4, <1>5, <1>6, <1>7, <1>8 DEF MonitorStep

LEMMA ManagerStepBound ==
  ASSUME TypeOK, Bound, NEW w \in Worker,
         \/ CleanupStart(w) \/ CleanupStep(w) \/ StopManager(w)
         \/ ReleaseLock(w) \/ Crash(w)
  PROVE  Bound'
<1> USE ActorTypes DEF Goto, etcdVars, lockVars, renewVars, managerVars, actorVars,
        Bound, GrantOrder, CallersBound, MonitorsBound
<1>1. /\ w \in Actor
      /\ pc \in [Actor -> CallerPC \cup ManagerPC]
      /\ obj \in [Actor -> Lock \cup {NoLock}]
      /\ lease \in [Actor -> Lease \cup {NoLease}]
      /\ leaseID \in [Lock -> Lease \cup {NoLease}]
      /\ granted \in Nat
      /\ \A c \in Caller : c # w
  BY LeaseTypes DEF TypeOK
<1>2. CASE CleanupStart(w)
  BY <1>1, <1>2 DEF CleanupStart
<1>3. CASE CleanupReadLease(w)
  BY <1>1, <1>3 DEF CleanupReadLease, Free
<1>4. CASE CleanupReadLocked(w)
  BY <1>1, <1>4 DEF CleanupReadLocked
<1>5. CASE CleanupValidate(w)
  BY <1>1, <1>5 DEF CleanupValidate
<1>6. CASE CleanupRecheck(w)
  BY <1>1, <1>6 DEF CleanupRecheck
<1>7. CASE StopManager(w)
  BY <1>1, <1>7 DEF StopManager
<1>8. CASE ReleaseLock(w)
  BY <1>1, <1>8 DEF ReleaseLock
<1>9. CASE Crash(w)
  <2>1. \A c \in Caller : pc'[c] = "idle" \/ (pc'[c] = pc[c] /\ obj'[c] = obj[c] /\ lease'[c] = lease[c])
    BY <1>1, <1>9 DEF Crash
  <2>2. CallersBound'
    BY <1>9, <2>1 DEF Crash
  <2>3. MonitorsBound'
    BY <1>9 DEF Crash
  <2>4. \A a \in Actor : lease'[a] \in {lease[a], 0}
    BY <1>9 DEF Crash
  <2>5. \A o \in Lock : leaseID'[o] \in {leaseID[o], 0}
    BY <1>9 DEF Crash
  <2>6. \A l \in Lease : l > granted => leaseLock[l] \notin Lock
    BY LockAssumption
  <2>7. GrantOrder'
    BY <1>1, <1>9, <2>4, <2>5, <2>6 DEF Crash
  <2> QED
    BY <2>2, <2>3, <2>7
<1> QED
  BY <1>2, <1>3, <1>4, <1>5, <1>6, <1>7, <1>8, <1>9 DEF CleanupStep

-----------------------------------------------------------------------------
(* Who a lease was granted for.                                             *)

LEMMA StepHolders ==
  ASSUME TypeOK, Bound, HoldersBound, KeyIsLive, [Next]_vars
  PROVE  HoldersBound'
<1>1. /\ leaseID \in [Lock -> Lease \cup {NoLease}] /\ NoLease \notin Lease
      /\ leaseLock \in [Lease -> Lock \cup {NoLock}]
      /\ lease \in [Actor -> Lease \cup {NoLease}]
      /\ \A o \in Lock : leaseID[o] # granted + 1
      /\ key # granted + 1
  BY LeaseTypes, ActorTypes DEF TypeOK, Bound, GrantOrder, KeyIsLive
<1>2. ASSUME UNCHANGED leaseLock,
             \A o \in Lock : leaseID'[o] \in {leaseID[o], NoLease},
             key' \in {key, NoLease}
      PROVE  HoldersBound'
  BY <1>1, <1>2 DEF HoldersBound
<1> USE DEF etcdVars, lockVars, renewVars, managerVars, actorVars
<1>3. ASSUME NEW c \in Caller, CallerStep(c) PROVE HoldersBound'
  <2>1. CASE CreateLock(c) \/ TryLockReentrant(c) \/ TryLockStart(c) \/ GrantFails(c)
             \/ TxnLoses(c)
    BY <1>2, <2>1 DEF CreateLock, TryLockReentrant, TryLockStart, GrantFails, TxnLoses
  <2>2. CASE Grant(c)
    <3>1. obj[c] \in Lock
      BY <2>2 DEF Grant, Bound, CallersBound
    <3>2. \A l \in Lease : l # granted + 1 => leaseLock'[l] = leaseLock[l]
      BY <1>1, <2>2 DEF Grant
    <3>3. UNCHANGED <<leaseID, key>>
      BY <2>2 DEF Grant
    <3> QED
      BY <1>1, <3>1, <3>2, <3>3, LeaseTypes DEF HoldersBound, TypeOK
  <2>3. CASE TxnWins(c)
    BY <1>1, <2>3 DEF TxnWins, Bound, CallersBound, HoldersBound
  <2>4. CASE TxnAnswerLost(c)
    BY <1>1, <2>4 DEF TxnAnswerLost, Bound, CallersBound, HoldersBound
  <2>5. CASE RevokeLoser(c)
    BY <1>2, <2>5 DEF RevokeLoser, DropLease
  <2>6. CASE Acquired(c)
    BY <1>1, <2>6 DEF Acquired, Bound, CallersBound, HoldersBound
  <2> QED
    BY <1>3, <2>1, <2>2, <2>3, <2>4, <2>5, <2>6 DEF CallerStep
<1>4. ASSUME NEW a \in Actor, UnlockStep(a) PROVE HoldersBound'
  <2>1. UNCHANGED leaseLock /\ key' \in {key, NoLease}
    BY <1>4 DEF UnlockStep, UnlockNotLocked, UnlockStart, UnlockRevoked, UnlockFails, DropLease
  <2>2. \A o \in Lock : leaseID'[o] \in {leaseID[o], NoLease}
    BY <1>1, <1>4 DEF UnlockStep, UnlockNotLocked, UnlockStart, UnlockRevoked, UnlockFails
  <2> QED
    BY <1>2, <2>1, <2>2
<1>5. ASSUME NEW l \in Lease,
             \/ MonitorStep(l) \/ MonitorResponse(l) \/ RenewalCloses(l)
             \/ StreamLost(l) \/ LeaseExpires(l)
      PROVE  HoldersBound'
  <2>1. UNCHANGED leaseLock /\ key' \in {key, NoLease}
    BY <1>5 DEF MonitorStep, MonitorSelect, MonitorClosed, MonitorFailure, MonitorResponse,
                RenewalCloses, StreamLost, LeaseExpires, DropLease
  <2>2. \A o \in Lock : leaseID'[o] \in {leaseID[o], NoLease}
    BY <1>1, <1>5 DEF MonitorStep, MonitorSelect, MonitorClosed, MonitorFailure,
                MonitorResponse, RenewalCloses, StreamLost, LeaseExpires
  <2> QED
    BY <1>2, <2>1, <2>2
<1>6. ASSUME NEW w \in Worker,
             \/ CleanupStart(w) \/ CleanupStep(w) \/ StopManager(w)
             \/ ReleaseLock(w) \/ Crash(w)
      PROVE  HoldersBound'
  <2>1. UNCHANGED <<leaseLock, key>>
    BY <1>6 DEF CleanupStart, CleanupStep, CleanupReadLease, CleanupReadLocked,
                CleanupValidate, CleanupRecheck, StopManager, ReleaseLock, Crash
  <2>2. \A o \in Lock : leaseID'[o] \in {leaseID[o], NoLease}
    BY <1>6 DEF CleanupStart, CleanupStep, CleanupReadLease, CleanupReadLocked,
                CleanupValidate, CleanupRecheck, StopManager, ReleaseLock, Crash
  <2> QED
    BY <1>2, <2>1, <2>2
<1>7. ASSUME NEW o \in Lock, StopRenewal(o) PROVE HoldersBound'
  BY <1>2, <1>7 DEF StopRenewal
<1>8. CASE UNCHANGED vars
  BY <1>2, <1>8 DEF vars
<1> QED
  BY <1>3, <1>4, <1>5, <1>6, <1>7, <1>8 DEF Next

-----------------------------------------------------------------------------
(* Ownership of the key.                                                    *)

LEMMA CallerStepOwnership ==
  ASSUME TypeOK, Bound, Ownership, NEW c \in Caller, CallerStep(c)
  PROVE  Ownership'
<1> USE ActorTypes DEF Goto, etcdVars, lockVars, renewVars, managerVars, actorVars,
        Ownership, KeyIsLive, WinnerOwnsKey, LiveHolderOwnsKey, RenewedLeaseOwnsKey
<1>1. /\ c \in Actor
      /\ pc \in [Actor -> CallerPC \cup ManagerPC]
      /\ lease \in [Actor -> Lease \cup {NoLease}]
      /\ isLocked \in [Lock -> BOOLEAN]
      /\ leaseID \in [Lock -> Lease \cup {NoLease}]
      /\ renewal \in [Lease -> {"none", "open", "cancelled", "closed"}]
      /\ live \subseteq Lease
  BY DEF TypeOK
<1>2. CASE CreateLock(c)
  BY <1>1, <1>2 DEF CreateLock
<1>3. CASE TryLockReentrant(c)
  BY <1>1, <1>3 DEF TryLockReentrant
<1>4. CASE TryLockStart(c)
  BY <1>1, <1>4 DEF TryLockStart
<1>5. CASE Grant(c)
  <2>1. live' = live \cup {granted + 1} /\ granted + 1 \in Nat /\ granted + 1 # 0
    BY <1>5, LeaseTypes DEF Grant
  <2>2. \A o \in Lock : leaseID[o] # granted + 1
    BY LeaseTypes DEF Bound, GrantOrder
  <2>3. \A d \in Caller : lease[d] # granted + 1
    BY LeaseTypes DEF Bound, GrantOrder
  <2>4. \A l \in Lease : l = granted + 1 => renewal[l] = "none"
    BY LeaseTypes DEF Bound, GrantOrder
  <2> QED
    BY <1>1, <1>5, <2>1, <2>2, <2>3, <2>4 DEF Grant
<1>6. CASE GrantFails(c)
  BY <1>1, <1>6 DEF GrantFails, NextAttempt
<1>7. CASE TxnWins(c)
  BY <1>1, <1>7 DEF TxnWins, TxnCanWin
<1>8. CASE TxnLoses(c)
  BY <1>1, <1>8 DEF TxnLoses
<1>9. CASE TxnAnswerLost(c)
  BY <1>1, <1>9 DEF TxnAnswerLost, TxnCanWin
<1>10. CASE RevokeLoser(c)
  <2>1. (live' = live /\ key' = key)
        \/ (live' = live \ {lease[c]} /\ key' = IF key = lease[c] THEN NoLease ELSE key)
    BY <1>10 DEF RevokeLoser, DropLease
  <2>2. \A d \in Caller : pc'[d] = "won" => pc[d] = "won" /\ lease'[d] = lease[d]
    BY <1>1, <1>10 DEF RevokeLoser, NextAttempt
  <2> QED
    BY <1>1, <1>10, <2>1, <2>2 DEF RevokeLoser
<1>11. CASE Acquired(c)
  <2>1. lease[c] \in Lease
    BY <1>11 DEF Acquired, Bound, CallersBound
  <2>2. lease[c] \in live => key = lease[c]
    BY <1>11 DEF Acquired
  <2> QED
    BY <1>1, <1>11, <2>1, <2>2 DEF Acquired
<1> QED
  BY <1>2, <1>3, <1>4, <1>5, <1>6, <1>7, <1>8, <1>9, <1>10, <1>11 DEF CallerStep

LEMMA UnlockStepOwnership ==
  ASSUME TypeOK, Ownership, NEW a \in Actor, UnlockStep(a)
  PROVE  Ownership'
<1> USE ActorTypes DEF Goto, etcdVars, renewVars, actorVars,
        Ownership, KeyIsLive, WinnerOwnsKey, LiveHolderOwnsKey, RenewedLeaseOwnsKey
<1>1. /\ pc \in [Actor -> CallerPC \cup ManagerPC]
      /\ isLocked \in [Lock -> BOOLEAN]
      /\ leaseID \in [Lock -> Lease \cup {NoLease}]
      /\ renewal \in [Lease -> {"none", "open", "cancelled", "closed"}]
      /\ live \subseteq Lease
  BY DEF TypeOK
<1>2. ASSUME NEW ok \in BOOLEAN, AfterUnlock(a, ok)
      PROVE  \A c \in Caller : pc'[c] = "won" => pc[c] = "won"
  BY <1>1, <1>2 DEF AfterUnlock
<1>3. CASE UnlockNotLocked(a)
  BY <1>2, <1>3 DEF UnlockNotLocked, lockVars
<1>4. CASE UnlockStart(a)
  <2>1. \A c \in Caller : pc'[c] = "won" => pc[c] = "won"
    BY <1>1, <1>4 DEF UnlockStart, Unlocking, UnlockFrom
  <2>2. \A l \in Lease : renewal'[l] = "open" => renewal[l] = "open"
    BY <1>1, <1>4 DEF UnlockStart, StopAutoRenew
  <2> QED
    BY <1>4, <2>1, <2>2 DEF UnlockStart
<1>5. CASE UnlockRevoked(a)
  <2>1. \A o \in Lock : isLocked'[o] /\ leaseID'[o] \in live' =>
                          isLocked[o] /\ leaseID[o] \in live /\ leaseID'[o] = leaseID[o]
    BY <1>1, <1>5 DEF UnlockRevoked, DropLease
  <2> QED
    BY <1>1, <1>2, <1>5, <2>1 DEF UnlockRevoked, DropLease
<1>6. CASE UnlockFails(a)
  BY <1>2, <1>6 DEF UnlockFails, DropLease
<1> QED
  BY <1>3, <1>4, <1>5, <1>6 DEF UnlockStep

LEMMA RenewalStepOwnership ==
  ASSUME TypeOK, Ownership, NEW l \in Lease,
         \/ MonitorStep(l) \/ MonitorResponse(l) \/ RenewalCloses(l)
         \/ StreamLost(l) \/ LeaseExpires(l)
  PROVE  Ownership'
<1> USE ActorTypes DEF etcdVars, lockVars, renewVars, managerVars, actorVars,
        Ownership, KeyIsLive, WinnerOwnsKey, LiveHolderOwnsKey, RenewedLeaseOwnsKey
<1>1. /\ isLocked \in [Lock -> BOOLEAN]
      /\ leaseID \in [Lock -> Lease \cup {NoLease}]
      /\ renewal \in [Lease -> {"none", "open", "cancelled", "closed"}]
      /\ live \subseteq Lease
  BY DEF TypeOK
<1>2. CASE MonitorSelect(l)
  BY <1>2 DEF MonitorSelect
<1>3. CASE MonitorResponse(l)
  BY <1>3 DEF MonitorResponse
<1>4. CASE MonitorClosed(l)
  BY <1>4 DEF MonitorClosed
<1>5. CASE MonitorFailure(l)
  BY <1>1, <1>5 DEF MonitorFailure
<1>6. CASE RenewalCloses(l)
  BY <1>1, <1>6 DEF RenewalCloses
<1>7. CASE StreamLost(l)
  BY <1>1, <1>7 DEF StreamLost
<1>8. CASE LeaseExpires(l)
  BY <1>1, <1>8 DEF LeaseExpires, DropLease
<1> QED
  BY <1>2, <1>3, <1>4, <1>5, <1>6, <1>7, <1>8 DEF MonitorStep

LEMMA ManagerStepOwnership ==
  ASSUME TypeOK, Ownership, NEW w \in Worker,
         \/ CleanupStart(w) \/ CleanupStep(w) \/ StopManager(w)
         \/ ReleaseLock(w) \/ Crash(w)
  PROVE  Ownership'
<1> USE ActorTypes DEF Goto, etcdVars, lockVars, renewVars, managerVars, actorVars,
        Ownership, KeyIsLive, WinnerOwnsKey, LiveHolderOwnsKey, RenewedLeaseOwnsKey
<1>1. /\ w \in Actor
      /\ pc \in [Actor -> CallerPC \cup ManagerPC]
      /\ lease \in [Actor -> Lease \cup {NoLease}]
      /\ isLocked \in [Lock -> BOOLEAN]
      /\ leaseID \in [Lock -> Lease \cup {NoLease}]
      /\ \A c \in Caller : c # w
  BY DEF TypeOK
<1>2. CASE CleanupStart(w)
  BY <1>1, <1>2 DEF CleanupStart
<1>3. CASE CleanupReadLease(w)
  BY <1>1, <1>3 DEF CleanupReadLease
<1>4. CASE CleanupReadLocked(w)
  BY <1>1, <1>4 DEF CleanupReadLocked
<1>5. CASE CleanupValidate(w)
  BY <1>1, <1>5 DEF CleanupValidate
<1>6. CASE CleanupRecheck(w)
  BY <1>1, <1>6 DEF CleanupRecheck
<1>7. CASE StopManager(w)
  BY <1>1, <1>7 DEF StopManager
<1>8. CASE ReleaseLock(w)
  BY <1>1, <1>8 DEF ReleaseLock
<1>9. CASE Crash(w)
  <2>1. \A c \in Caller : pc'[c] = "won" => pc[c] = "won" /\ lease'[c] = lease[c]
    BY <1>1, <1>9 DEF Crash
  <2>2. \A o \in Lock : isLocked'[o] => isLocked[o] /\ leaseID'[o] = leaseID[o]
    BY <1>9 DEF Crash
  <2>3. \A l \in Lease : renewal'[l] = "open" => renewal[l] = "open"
    BY <1>9 DEF Crash
  <2> QED
    BY <1>9, <2>1, <2>2, <2>3 DEF Crash
<1> QED
  BY <1>2, <1>3, <1>4, <1>5, <1>6, <1>7, <1>8, <1>9 DEF CleanupStep

-----------------------------------------------------------------------------
(* The theorems.                                                            *)

LEMMA InitIInv == Init => IInv
BY LockAssumption, ActorTypes
   DEF Init, IInv, TypeOK, GrantOrder, CallersBound, MonitorsBound, HoldersBound, Ownership,
       KeyIsLive, WinnerOwnsKey, LiveHolderOwnsKey, RenewedLeaseOwnsKey, CallerPC, ManagerPC, Lease, Actor

\* StopRenewal only ends a renewal.
LEMMA StopRenewalStep ==
  ASSUME IInv, NEW o \in Lock, StopRenewal(o)
  PROVE  TypeOK' /\ Bound' /\ Ownership'
<1>1. /\ \A l \in Lease : \/ renewal'[l] = renewal[l]
                          \/ renewal[l] = "open" /\ renewal'[l] = "cancelled"
      /\ renewal' \in [Lease -> {"none", "open", "cancelled", "closed"}]
      /\ cancelFunc' \in [Lock -> Lease \cup {NoLease}]
      /\ keepAliveCh' \in [Lock -> Lease \cup {NoLease}]
  BY DEF IInv, TypeOK, StopRenewal, StopAutoRenew
<1>2. UNCHANGED <<etcdVars, home, isLocked, leaseID, mutex, leaseLock, mon,
                  managerVars, actorVars>>
  BY DEF StopRenewal
<1>3. TypeOK'
  BY <1>1, <1>2 DEF IInv, TypeOK, etcdVars, managerVars, actorVars
<1>4. Bound'
  BY <1>1, <1>2 DEF IInv, Bound, GrantOrder, CallersBound, MonitorsBound,
                    etcdVars, actorVars
<1>5. Ownership'
  BY <1>1, <1>2 DEF IInv, Ownership, KeyIsLive, WinnerOwnsKey, LiveHolderOwnsKey,
                    RenewedLeaseOwnsKey, etcdVars, actorVars
<1> QED
  BY <1>3, <1>4, <1>5

LEMMA NextIInv == IInv /\ [Next]_vars => IInv'
<1> SUFFICES ASSUME IInv, [Next]_vars PROVE IInv'
  OBVIOUS
<1> DEFINE Rest == TypeOK /\ Bound /\ Ownership
<1>1. TypeOK /\ Bound /\ Ownership /\ MonitorsBound /\ HoldersBound /\ KeyIsLive
  BY DEF IInv, Bound, Ownership
<1>2. ASSUME NEW c \in Caller, CallerStep(c) PROVE Rest'
  BY <1>1, <1>2, CallerStepType, CallerStepBound, CallerStepOwnership
<1>3. ASSUME NEW a \in Actor, UnlockStep(a) PROVE Rest'
  BY <1>1, <1>3, UnlockStepType, UnlockStepBound, UnlockStepOwnership
<1>4. ASSUME NEW l \in Lease,
             \/ MonitorStep(l) \/ MonitorResponse(l) \/ RenewalCloses(l)
             \/ StreamLost(l) \/ LeaseExpires(l)
      PROVE  Rest'
  BY <1>1, <1>4, RenewalStepType, RenewalStepBound, RenewalStepOwnership
<1>5. ASSUME NEW w \in Worker,
             \/ CleanupStart(w) \/ CleanupStep(w) \/ StopManager(w)
             \/ ReleaseLock(w) \/ Crash(w)
      PROVE  Rest'
  BY <1>1, <1>5, ManagerStepType, ManagerStepBound, ManagerStepOwnership
<1>6. ASSUME UNCHANGED vars PROVE Rest'
  <2>1. TypeOK'
    BY <1>1, <1>6 DEF TypeOK, vars, etcdVars, lockVars, renewVars, managerVars, actorVars
  <2>2. Bound' /\ Ownership'
    BY <1>1, <1>6 DEF Bound, GrantOrder, CallersBound, MonitorsBound, Ownership, KeyIsLive,
                      WinnerOwnsKey, LiveHolderOwnsKey, RenewedLeaseOwnsKey,
                      vars, etcdVars, lockVars, renewVars, managerVars, actorVars
  <2> QED
    BY <2>1, <2>2
<1>7. ASSUME NEW o \in Lock, StopRenewal(o) PROVE Rest'
  BY <1>7, StopRenewalStep
<1>8. Rest'
  BY <1>2, <1>3, <1>4, <1>5, <1>6, <1>7 DEF Next
<1> QED
  BY <1>1, <1>8, StepHolders DEF IInv, Bound

THEOREM Invariance == Spec => []IInv
BY InitIInv, NextIInv, PTL DEF Spec

\* Every variable keeps its type, for every number of workers, callers,
\* objects and leases and every environment.
THEOREM TypeCorrect == Spec => []TypeOK
<1>1. IInv => TypeOK
  BY DEF IInv
<1> QED
  BY <1>1, Invariance, PTL

\* A lock object marked locked with a live lease owns the etcd key, whatever
\* combination of partitions, lost answers, cleanups, stops and crashes.
THEOREM LiveHolderOwnership == Spec => []LiveHolderOwnsKey
<1>1. IInv => LiveHolderOwnsKey
  BY DEF IInv, Ownership
<1> QED
  BY <1>1, Invariance, PTL

\* No client keeps alive a lease that does not own the key.
THEOREM RenewalOwnership == Spec => []RenewedLeaseOwnsKey
<1>1. IInv => RenewedLeaseOwnsKey
  BY DEF IInv, Ownership
<1> QED
  BY <1>1, Invariance, PTL

-----------------------------------------------------------------------------
(* The refinement of LeaseLock.                                             *)

\* In every state the abstract lock is free and unheld, or owned and held by
\* nobody or by its owner.
AbstractShape ==
  /\ key = NoLease => keyOwner = NoLock /\ liveHolders = {}
  /\ key # NoLease => keyOwner \in Lock /\ liveHolders \subseteq {keyOwner}

LEMMA ShapeHolds == IInv => AbstractShape
<1> SUFFICES ASSUME IInv PROVE AbstractShape
  OBVIOUS
<1>1. \A o \in liveHolders : o \in Lock /\ leaseID[o] = key /\ key # NoLease
  BY ActorTypes DEF IInv, TypeOK, Ownership, LiveHolderOwnsKey, liveHolders
<1>2. \A o \in liveHolders : leaseLock[key] = o
  BY <1>1 DEF IInv, HoldersBound
<1>3. key # NoLease => leaseLock[key] \in Lock
  BY DEF IInv, HoldersBound
<1> HIDE DEF liveHolders
<1> QED
  BY <1>1, <1>2, <1>3 DEF keyOwner, AbstractShape

\* A step keeps the key, frees it, or takes a free key and nothing else.
LEMMA KeySteps ==
  ASSUME IInv, [Next]_vars
  PROVE  \/ key' = key /\ (key # NoLease => leaseLock'[key] = leaseLock[key])
         \/ key' = NoLease
         \/ key = NoLease /\ UNCHANGED <<isLocked, leaseID, live>>
<1> USE DEF etcdVars, lockVars, renewVars, managerVars, actorVars
<1>1. key # NoLease => key # granted + 1
  BY LeaseTypes, ActorTypes DEF IInv, TypeOK, GrantOrder, Ownership, KeyIsLive
<1>2. ASSUME NEW c \in Caller, CallerStep(c), ~TxnWins(c), ~TxnAnswerLost(c)
      PROVE  \/ key' = key /\ (key # NoLease => leaseLock'[key] = leaseLock[key])
             \/ key' = NoLease
  <2>1. CASE Grant(c)
    BY <1>1, <2>1 DEF Grant, IInv, TypeOK
  <2> QED
    BY <1>2, <2>1 DEF CallerStep, CreateLock, TryLockReentrant, TryLockStart, GrantFails,
                      TxnLoses, RevokeLoser, Acquired, DropLease
<1>3. ASSUME NEW c \in Caller, TxnWins(c) \/ TxnAnswerLost(c)
      PROVE  \/ key' = key /\ UNCHANGED leaseLock
             \/ key = NoLease /\ UNCHANGED <<isLocked, leaseID, live>>
  BY <1>3 DEF TxnWins, TxnAnswerLost, TxnCanWin
<1>4. ASSUME NEW a \in Actor, UnlockStep(a)
      PROVE  UNCHANGED leaseLock /\ key' \in {key, NoLease}
  BY <1>4 DEF UnlockStep, UnlockNotLocked, UnlockStart, UnlockRevoked, UnlockFails, DropLease
<1>5. ASSUME NEW l \in Lease,
             \/ MonitorStep(l) \/ MonitorResponse(l) \/ RenewalCloses(l)
             \/ StreamLost(l) \/ LeaseExpires(l)
      PROVE  UNCHANGED leaseLock /\ key' \in {key, NoLease}
  BY <1>5 DEF MonitorStep, MonitorSelect, MonitorClosed, MonitorFailure, MonitorResponse,
              RenewalCloses, StreamLost, LeaseExpires, DropLease
<1>6. ASSUME NEW w \in Worker,
             \/ CleanupStart(w) \/ CleanupStep(w) \/ StopManager(w)
             \/ ReleaseLock(w) \/ Crash(w)
      PROVE  UNCHANGED <<leaseLock, key>>
  BY <1>6 DEF CleanupStart, CleanupStep, CleanupReadLease, CleanupReadLocked,
              CleanupValidate, CleanupRecheck, StopManager, ReleaseLock, Crash
<1>7. ASSUME NEW o \in Lock, StopRenewal(o) PROVE UNCHANGED <<leaseLock, key>>
  BY <1>7 DEF StopRenewal
<1>8. CASE UNCHANGED vars
  BY <1>8 DEF vars
<1> QED
  BY <1>2, <1>3, <1>4, <1>5, <1>6, <1>7, <1>8 DEF Next

\* JobLock implements LeaseLock.
THEOREM Refinement == Spec => ImplementsLeaseLock
<1>1. Init => Promise!Init
  BY ActorTypes DEF Init, Promise!Init, keyOwner, liveHolders
<1>2. ASSUME IInv, AbstractShape, AbstractShape', [Next]_vars
      PROVE  [Promise!Next]_<<keyOwner, liveHolders>>
  <2>1. /\ key = NoLease => keyOwner = NoLock /\ liveHolders = {}
        /\ key # NoLease => keyOwner \in Lock /\ liveHolders \subseteq {keyOwner}
    BY <1>2 DEF AbstractShape
  <2>2. /\ key' = NoLease => keyOwner' = NoLock /\ liveHolders' = {}
        /\ key' # NoLease => keyOwner' \in Lock /\ liveHolders' \subseteq {keyOwner'}
    BY <1>2 DEF AbstractShape
  <2>3. \/ keyOwner' = keyOwner
        \/ key' = NoLease
        \/ key = NoLease /\ liveHolders' = liveHolders
    <3>1. CASE key' = key /\ (key # NoLease => leaseLock'[key] = leaseLock[key])
      BY <3>1 DEF keyOwner
    <3>2. CASE key = NoLease /\ UNCHANGED <<isLocked, leaseID, live>>
      BY <3>2 DEF liveHolders
    <3> QED
      BY <1>2, <3>1, <3>2, KeySteps
  <2> HIDE DEF keyOwner, liveHolders
  <2>4. CASE key' = NoLease
    BY <2>1, <2>2, <2>4, LockAssumption DEF Promise!Next, Promise!Release
  <2>5. CASE key = NoLease /\ key' # NoLease /\ liveHolders' = liveHolders
    BY <2>1, <2>2, <2>5 DEF Promise!Next, Promise!Acquire
  <2>6. CASE keyOwner' = keyOwner /\ key # NoLease /\ key' # NoLease
    <3>1. CASE liveHolders' = {}
      BY <2>1, <2>6, <3>1 DEF Promise!Next, Promise!Forget
    <3>2. CASE liveHolders' = {keyOwner}
      BY <2>1, <2>6, <3>2 DEF Promise!Next, Promise!Hold
    <3> QED
      BY <2>2, <2>6, <3>1, <3>2
  <2> QED
    BY <2>1, <2>2, <2>3, <2>4, <2>5, <2>6, LockAssumption
<1> QED
  BY <1>1, <1>2, Invariance, ShapeHolds, PTL DEF Spec, ImplementsLeaseLock, Promise!Spec

-----------------------------------------------------------------------------
(* Exclusive execution, with one caller per worker and no environment       *)
(* action but crashes: no lease is lost, no cleanup runs, etcd answers.     *)

Calm ==
  /\ Env \subseteq {"Crash"}
  /\ \A c, d \in Caller : WorkerOf[c] = WorkerOf[d] => c = d

Active == {"created", "grant", "txn", "won", "revoke", "holding", "unlocking"}

ManagersIdle ==
  \A w \in Worker : pc[w] = "idle" /\ (locks[w] # NoLock => home[locks[w]] = w)

CallerStates == \A c \in Caller : pc[c] \in CallerPC

OwnObject ==
  \A c \in Caller : pc[c] \in Active => obj[c] \in Lock /\ home[obj[c]] = WorkerOf[c]

HoldsMutex ==
  \A c \in Caller : pc[c] \in {"grant", "txn", "won", "revoke", "unlocking"}
                      => mutex[obj[c]] = c

OwnsKey ==
  \A c \in Caller : pc[c] \in {"won", "holding", "unlocking"}
                      => /\ lease[c] \in Lease /\ key = lease[c]
                         /\ leaseLock[lease[c]] = obj[c]

Renews == \A c \in Caller : pc[c] = "holding" => renewal[lease[c]] = "open"

RevokesOwn ==
  \A c \in Caller : pc[c] = "unlocking" => leaseID[obj[c]] = lease[c] /\ isLocked[obj[c]]

LockedByCaller ==
  \A o \in Lock : isLocked[o] =>
    \E c \in Caller : /\ obj[c] = o /\ pc[c] \in {"holding", "unlocking"}
                      /\ leaseID[o] = lease[c]

CancelsOwn ==
  \A o \in Lock : cancelFunc[o] # NoLease => /\ leaseLock[cancelFunc[o]] = o
                                           /\ cancelFunc[o] <= granted

EInv ==
  /\ ManagersIdle /\ CallerStates /\ OwnObject /\ HoldsMutex /\ OwnsKey /\ Renews /\ RevokesOwn
  /\ LockedByCaller /\ CancelsOwn

LEMMA DistinctObjects ==
  ASSUME Calm, OwnObject
  PROVE  \A c, d \in Caller : c # d /\ pc[c] \in Active /\ pc[d] \in Active => obj[c] # obj[d]
BY DEF Calm, OwnObject

LEMMA CallerStepExclusion ==
  ASSUME IInv, Calm, EInv, NEW c \in Caller, CallerStep(c)
  PROVE  EInv'
<1>1. /\ c \in Actor /\ Caller \subseteq Actor /\ Worker \subseteq Actor
      /\ \A w \in Worker : w # c
      /\ NoLease \notin Lease /\ NoLease = 0
      /\ NoLock \notin Lock /\ WorkerOf[c] \in Worker /\ NoWorker \notin Worker
  BY ActorTypes, LockAssumption
<1>2. /\ pc \in [Actor -> CallerPC \cup ManagerPC]
      /\ obj \in [Actor -> Lock \cup {NoLock}]
      /\ lease \in [Actor -> Lease \cup {NoLease}]
      /\ mutex \in [Lock -> Actor \cup {NoActor}]
      /\ isLocked \in [Lock -> BOOLEAN]
      /\ leaseID \in [Lock -> Lease \cup {NoLease}]
      /\ cancelFunc \in [Lock -> Lease \cup {NoLease}]
  BY DEF IInv, TypeOK
<1>3. /\ home \in [Lock -> Worker \cup {NoWorker}]
      /\ locks \in [Worker -> Lock \cup {NoLock}]
      /\ renewal \in [Lease -> {"none", "open", "cancelled", "closed"}]
      /\ leaseLock \in [Lease -> Lock \cup {NoLock}]
      /\ granted \in Nat /\ key \in Nat
  BY LeaseTypes DEF IInv, TypeOK
<1>4. \A d \in Caller : d # c /\ pc[c] \in Active /\ pc[d] \in Active => obj[d] # obj[c]
  BY DistinctObjects DEF EInv
<1>5. Env \cap {"Unreachable", "NoRenewal"} = {}
  BY DEF Calm
<1> USE DEF Goto, Free, Active, etcdVars, lockVars, renewVars, managerVars, actorVars,
        EInv, ManagersIdle, CallerStates, CallerPC, OwnObject, HoldsMutex, OwnsKey, Renews, RevokesOwn
<1>6. CASE CreateLock(c)
  <2>1. UNCHANGED <<etcdVars, isLocked, leaseID, cancelFunc, mutex, renewVars>>
    BY <1>6 DEF CreateLock
  <2>2. /\ pc[c] \notin Active /\ pc'[c] = "created"
        /\ \A a \in Actor : a # c => pc'[a] = pc[a] /\ obj'[a] = obj[a] /\ lease'[a] = lease[a]
    BY <1>1, <1>2, <1>6 DEF CreateLock
  <2>3. /\ \A o \in Lock : home[o] # NoWorker => home'[o] = home[o]
        /\ obj'[c] \in Lock /\ home'[obj'[c]] = WorkerOf[c]
        /\ \A w \in Worker : \/ locks'[w] = locks[w]
                             \/ locks'[w] \in Lock /\ home'[locks'[w]] = w
    BY <1>1, <1>2, <1>3, <1>6 DEF CreateLock
  <2>4. ManagersIdle' /\ CallerStates' /\ OwnObject'
    BY <1>1, <1>2, <1>3, <2>2, <2>3, LockAssumption
  <2>5. HoldsMutex' /\ OwnsKey' /\ Renews' /\ RevokesOwn'
    BY <1>1, <2>1, <2>2
  <2>6. LockedByCaller' /\ CancelsOwn'
    BY <1>1, <2>1, <2>2 DEF LockedByCaller, CancelsOwn
  <2> QED
    BY <2>4, <2>5, <2>6
<1>7. CASE TryLockReentrant(c)
  <2>1. PICK d \in Caller : obj[d] = obj[c] /\ pc[d] \in {"holding", "unlocking"}
    BY <1>7 DEF TryLockReentrant, LockedByCaller
  <2> QED
    BY <1>4, <1>7, <2>1 DEF TryLockReentrant
<1>8. ASSUME UNCHANGED <<managerVars, home, isLocked, leaseID, cancelFunc, renewal, obj>>,
             \A l \in Lease : leaseLock'[l] # leaseLock[l] => l = granted + 1,
             \A d \in Caller : d # c /\ pc[d] \in Active => mutex'[obj[d]] = mutex[obj[d]],
             \A a \in Actor : a # c => pc'[a] = pc[a] /\ lease'[a] = lease[a],
             pc[c] \in {"created", "grant", "txn", "revoke"},
             pc'[c] \in {"grant", "txn", "won", "revoke", "failed"},
             pc'[c] # "failed" => mutex'[obj[c]] = c,
             pc'[c] = "won" => /\ key' = lease'[c] /\ lease'[c] \in Lease
                               /\ leaseLock'[lease'[c]] = obj[c],
             \A d \in Caller : d # c /\ pc[d] \in {"won", "holding", "unlocking"} => key' = key,
             granted' \in {granted, granted + 1}
      PROVE  EInv'
  <2>1. ManagersIdle' /\ CallerStates' /\ OwnObject' /\ HoldsMutex'
    BY <1>1, <1>2, <1>8
  <2>2. \A d \in Caller : d # c /\ pc[d] \in {"won", "holding", "unlocking"} =>
                            leaseLock'[lease[d]] = leaseLock[lease[d]]
    <3>1. \A d \in Caller : lease[d] # granted + 1
      BY <1>1, LeaseTypes DEF IInv, GrantOrder
    <3> QED
      BY <1>8, <3>1
  <2>3. OwnsKey'
    BY <1>1, <1>8, <2>2
  <2>4. Renews' /\ RevokesOwn'
    BY <1>1, <1>8
  <2>5. LockedByCaller'
    BY <1>1, <1>8 DEF LockedByCaller
  <2>6. CancelsOwn'
    <3>1. \A o \in Lock : cancelFunc[o] \in Lease \cup {NoLease}
      BY <1>2
    <3>2. \A o \in Lock : cancelFunc[o] # NoLease => cancelFunc[o] \in Lease
      BY <3>1
    <3>3. \A n \in Nat : n <= granted => n # granted + 1 /\ n <= granted'
      BY <1>3, <1>8
    <3>4. CancelsOwn
      BY <1>8
    <3>5. ASSUME NEW o \in Lock, cancelFunc[o] # NoLease
          PROVE  /\ cancelFunc[o] <= granted'
                 /\ leaseLock'[cancelFunc[o]] = leaseLock[cancelFunc[o]]
      <4>1. cancelFunc[o] \in Lease /\ cancelFunc[o] \in Nat /\ cancelFunc[o] <= granted
        BY <3>2, <3>4, <3>5, ActorTypes DEF CancelsOwn
      <4> QED
        BY <1>8, <3>3, <4>1
    <3> QED
      BY <1>8, <3>4, <3>5 DEF CancelsOwn
  <2> QED
    BY <2>1, <2>3, <2>4, <2>5, <2>6
<1>9. CASE TryLockStart(c)
  BY <1>1, <1>2, <1>4, <1>8, <1>9 DEF TryLockStart
<1>10. CASE Grant(c)
  BY <1>1, <1>2, <1>3, <1>4, <1>8, <1>10 DEF Grant
<1>11. CASE TxnWins(c)
  <2>1. lease[c] \in Lease /\ leaseLock[lease[c]] = obj[c]
    BY <1>11 DEF TxnWins, IInv, CallersBound
  <2>2. \A d \in Caller : pc[d] \notin {"won", "holding", "unlocking"}
    BY <1>1, <1>11 DEF TxnWins, TxnCanWin
  <2> QED
    BY <1>1, <1>2, <1>4, <1>8, <1>11, <2>1, <2>2 DEF TxnWins
<1>12. CASE TxnLoses(c)
  BY <1>1, <1>2, <1>4, <1>8, <1>12 DEF TxnLoses
<1>13. CASE RevokeLoser(c)
  <2>1. lease[c] \in Lease /\ leaseLock[lease[c]] = obj[c]
    BY <1>13 DEF RevokeLoser, IInv, CallersBound
  <2>2. \A d \in Caller : d # c /\ pc[d] \in {"won", "holding", "unlocking"} =>
                            lease[d] # lease[c] /\ key = lease[d]
    BY <1>4, <1>13, <2>1 DEF RevokeLoser
  <2>3. key' \in {key, NoLease} /\ (key # lease[c] => key' = key) /\ granted' = granted
    BY <1>5, <1>13 DEF RevokeLoser, DropLease
  <2>4. \A d \in Caller : d # c /\ pc[d] \in {"won", "holding", "unlocking"} => key' = key
    BY <2>2, <2>3
  <2> QED
    BY <1>1, <1>2, <1>4, <1>8, <1>13, <2>3, <2>4 DEF RevokeLoser, NextAttempt
<1>14. CASE Acquired(c)
  <2>1. /\ lease[c] \in Lease /\ leaseLock[lease[c]] = obj[c] /\ obj[c] \in Lock
        /\ key = lease[c] /\ lease[c] <= granted
    BY <1>1, <1>14 DEF Acquired, IInv, GrantOrder
  <2>2. \A d \in Caller : d # c => pc[d] \notin {"won", "holding", "unlocking"}
    BY <1>4, <1>14, <2>1 DEF Acquired
  <2>3. /\ UNCHANGED <<etcdVars, home, leaseLock, managerVars, obj, lease>>
        /\ pc'[c] = "holding" /\ renewal'[lease[c]] = "open"
        /\ isLocked'[obj[c]] /\ leaseID'[obj[c]] = lease[c] /\ cancelFunc'[obj[c]] = lease[c]
        /\ \A o \in Lock : o # obj[c] => /\ isLocked'[o] = isLocked[o] /\ leaseID'[o] = leaseID[o]
                                        /\ cancelFunc'[o] = cancelFunc[o] /\ mutex'[o] = mutex[o]
        /\ \A a \in Actor : a # c => pc'[a] = pc[a]
    BY <1>1, <1>2, <1>3, <1>5, <1>14, <2>1 DEF Acquired
  <2>4. ManagersIdle' /\ CallerStates' /\ OwnObject'
    BY <1>1, <1>14, <2>3 DEF Acquired
  <2>5. HoldsMutex'
    BY <1>1, <1>4, <1>14, <2>3 DEF Acquired
  <2>6. OwnsKey' /\ Renews' /\ RevokesOwn'
    BY <1>1, <2>1, <2>2, <2>3
  <2>7. LockedByCaller'
    BY <1>1, <2>2, <2>3 DEF LockedByCaller
  <2>8. CancelsOwn'
    BY <2>1, <2>3 DEF CancelsOwn
  <2> QED
    BY <2>4, <2>5, <2>6, <2>7, <2>8
<1> QED
  BY <1>5, <1>6, <1>7, <1>9, <1>10, <1>11, <1>12, <1>13, <1>14
     DEF CallerStep, GrantFails, TxnAnswerLost

LEMMA UnlockStepExclusion ==
  ASSUME IInv, Calm, EInv, NEW a \in Actor, UnlockStep(a)
  PROVE  EInv'
<1>1. /\ Caller \subseteq Actor /\ Worker \subseteq Actor
      /\ \A c \in Caller : c \notin Worker
      /\ NoActor \notin Actor /\ NoLease = 0
  BY ActorTypes, LockAssumption DEF Actor
<1>2. a \in Caller /\ pc[a] \in {"holding", "unlocking"}
  BY DEF UnlockStep, UnlockNotLocked, UnlockStart, UnlockRevoked, UnlockFails, UnlockFrom,
         Revoking, Actor, EInv, ManagersIdle, CallerStates, CallerPC
<1>3. /\ pc \in [Actor -> CallerPC \cup ManagerPC]
      /\ mutex \in [Lock -> Actor \cup {NoActor}]
      /\ isLocked \in [Lock -> BOOLEAN]
      /\ leaseID \in [Lock -> Lease \cup {NoLease}]
      /\ cancelFunc \in [Lock -> Lease \cup {NoLease}]
      /\ renewal \in [Lease -> {"none", "open", "cancelled", "closed"}]
  BY DEF IInv, TypeOK
<1>4. \A d \in Caller : d # a /\ pc[d] \in Active => obj[d] # obj[a]
  BY <1>2, DistinctObjects DEF EInv, Active
<1>5. /\ obj[a] \in Lock /\ lease[a] \in Lease /\ key = lease[a]
      /\ leaseLock[lease[a]] = obj[a] /\ key \in live
  BY <1>1, <1>2, ActorTypes DEF EInv, OwnObject, OwnsKey, Active, IInv, Ownership, KeyIsLive
<1>6. \A d \in Caller : d # a => pc[d] \notin {"won", "holding", "unlocking"}
  BY <1>4, <1>5 DEF EInv, OwnsKey, Active
<1> USE DEF Goto, Free, Active, etcdVars, lockVars, renewVars, managerVars, actorVars,
        EInv, ManagersIdle, CallerStates, CallerPC, OwnObject, HoldsMutex, OwnsKey, Renews,
        RevokesOwn
<1>7. ASSUME UNCHANGED <<home, leaseLock, locks, obj, lease, granted>>,
             \A b \in Actor : b # a => pc'[b] = pc[b],
             pc'[a] \in {"unlocking", "released"},
             \A o \in Lock : o # obj[a] => mutex'[o] = mutex[o],
             \A o \in Lock : cancelFunc'[o] \in {cancelFunc[o], NoLease},
             \A o \in Lock : isLocked'[o] => isLocked[o],
             UNCHANGED leaseID \/ ~isLocked'[obj[a]],
             pc'[a] = "unlocking" => /\ UNCHANGED <<key, isLocked, leaseID>>
                                     /\ mutex'[obj[a]] = a /\ isLocked[obj[a]],
             pc'[a] = "released" => ~isLocked'[obj[a]]
      PROVE  EInv'
  <2>1. ManagersIdle' /\ CallerStates' /\ OwnObject'
    BY <1>1, <1>2, <1>7
  <2>2. HoldsMutex'
    BY <1>1, <1>2, <1>4, <1>7
  <2>3. OwnsKey' /\ Renews'
    BY <1>1, <1>2, <1>6, <1>7
  <2>4. \A o \in Lock : isLocked[o] => o = obj[a] /\ leaseID[o] = lease[a]
    BY <1>6 DEF LockedByCaller
  <2>5. RevokesOwn'
    BY <1>1, <1>5, <1>6, <1>7, <2>4
  <2>6. LockedByCaller'
    BY <1>1, <1>2, <1>7, <2>4 DEF LockedByCaller
  <2>7. CancelsOwn'
    BY <1>7 DEF CancelsOwn
  <2> QED
    BY <2>1, <2>2, <2>3, <2>5, <2>6, <2>7
<1>8. CASE UnlockNotLocked(a)
  BY <1>1, <1>2, <1>3, <1>5, <1>7, <1>8 DEF UnlockNotLocked, AfterUnlock
<1>9. CASE UnlockStart(a)
  <2>1. pc[a] = "holding"
    BY <1>2, <1>9 DEF UnlockStart, UnlockFrom
  <2> QED
    BY <1>1, <1>2, <1>3, <1>5, <1>7, <1>9, <2>1 DEF UnlockStart, StopAutoRenew, Unlocking
<1>10. CASE UnlockRevoked(a)
  <2>1. pc[a] = "unlocking"
    BY <1>2, <1>10 DEF UnlockRevoked, Revoking
  <2>2. pc'[a] = "released" /\ UNCHANGED locks /\ \A b \in Actor : b # a => pc'[b] = pc[b]
    BY <1>2, <1>3, <1>10 DEF UnlockRevoked, AfterUnlock
  <2>3. UNCHANGED <<home, leaseLock, obj, lease, granted, cancelFunc>>
    BY <1>10 DEF UnlockRevoked, DropLease
  <2>4. /\ ~isLocked'[obj[a]]
        /\ \A o \in Lock : o # obj[a] => mutex'[o] = mutex[o]
        /\ \A o \in Lock : isLocked'[o] => isLocked[o]
    BY <1>3, <1>5, <1>10 DEF UnlockRevoked
  <2> QED
    BY <1>7, <2>2, <2>3, <2>4
<1>11. CASE UnlockFails(a)
  <2>1. leaseID[obj[a]] = lease[a]
    BY <1>2, <1>11 DEF UnlockFails, Revoking
  <2> QED
    BY <1>5, <1>11, <2>1 DEF UnlockFails, Calm
<1> QED
  BY <1>8, <1>9, <1>10, <1>11 DEF UnlockStep

LEMMA RenewalStepExclusion ==
  ASSUME IInv, Calm, EInv, NEW l \in Lease,
         \/ MonitorStep(l) \/ MonitorResponse(l) \/ RenewalCloses(l)
         \/ StreamLost(l) \/ LeaseExpires(l)
  PROVE  EInv'
<1>1. /\ Caller \subseteq Actor /\ NoActor \notin Actor
      /\ isLocked \in [Lock -> BOOLEAN]
      /\ leaseID \in [Lock -> Lease \cup {NoLease}]
      /\ renewal \in [Lease -> {"none", "open", "cancelled", "closed"}]
  BY ActorTypes, LockAssumption DEF IInv, TypeOK, Actor
<1>2. \A c \in Caller : pc[c] \in {"won", "holding", "unlocking"} =>
                          lease[c] \in Lease /\ key = lease[c] /\ key \in live
  BY ActorTypes DEF EInv, OwnsKey, IInv, Ownership, KeyIsLive
<1> USE DEF Free, etcdVars, lockVars, renewVars, managerVars, actorVars,
        EInv, ManagersIdle, CallerStates, OwnObject, HoldsMutex, OwnsKey, Renews,
        RevokesOwn, LockedByCaller, CancelsOwn
<1>3. CASE MonitorSelect(l) \/ MonitorResponse(l) \/ MonitorClosed(l)
  BY <1>3 DEF MonitorSelect, MonitorResponse, MonitorClosed
<1>4. CASE MonitorFailure(l)
  <2> DEFINE p == leaseLock[l]
  <2>1. /\ p \in Lock /\ mutex[p] = NoActor
        /\ isLocked' = [isLocked EXCEPT ![p] = FALSE]
        /\ leaseID' = leaseID \/ leaseID' = [leaseID EXCEPT ![p] = NoLease]
    BY <1>4 DEF MonitorFailure
  <2> HIDE DEF p
  <2>2. ~isLocked'[p] /\ \A o \in Lock : o # p => isLocked'[o] = isLocked[o] /\ leaseID'[o] = leaseID[o]
    BY <1>1, <2>1
  <2>3. /\ \A o \in Lock : isLocked'[o] => isLocked[o] /\ leaseID'[o] = leaseID[o]
        /\ \A o \in Lock : mutex[o] # NoActor => /\ isLocked'[o] = isLocked[o]
                                                 /\ leaseID'[o] = leaseID[o]
    BY <2>1, <2>2
  <2>4. /\ UNCHANGED <<etcdVars, home, cancelFunc, mutex, renewal, leaseLock,
                       managerVars, actorVars>>
        /\ ManagersIdle' /\ CallerStates' /\ OwnObject' /\ HoldsMutex' /\ OwnsKey' /\ Renews'
        /\ CancelsOwn'
    BY <1>4 DEF MonitorFailure
  <2>5. RevokesOwn'
    <3>1. \A c \in Caller : pc[c] = "unlocking" => obj[c] \in Lock /\ mutex[obj[c]] # NoActor
      BY <1>1 DEF Active
    <3> QED
      BY <2>3, <2>4, <3>1
  <2>6. LockedByCaller'
    BY <2>3, <2>4
  <2> QED
    BY <2>4, <2>5, <2>6
<1>5. CASE RenewalCloses(l)
  BY <1>1, <1>2, <1>5 DEF RenewalCloses
<1>6. CASE StreamLost(l)
  BY <1>6 DEF StreamLost, Calm
<1>7. CASE LeaseExpires(l)
  <2>1. ~InUse(l)
    BY <1>7 DEF LeaseExpires, Calm
  <2>2. \A c \in Caller : pc[c] \in {"won", "holding", "unlocking"} => lease[c] # l
    BY <1>1, <2>1 DEF InUse, Revoking
  <2>3. \A c \in Caller : pc[c] \in {"won", "holding", "unlocking"} => key' = key
    BY <1>2, <1>7, <2>2 DEF LeaseExpires, DropLease
  <2>4. UNCHANGED <<lockVars, renewVars, managerVars, actorVars, granted>>
    BY <1>7 DEF LeaseExpires, DropLease
  <2>5. OwnsKey'
    BY <2>3, <2>4
  <2> QED
    BY <2>4, <2>5
<1> QED
  BY <1>3, <1>4, <1>5, <1>6, <1>7 DEF MonitorStep

LEMMA CrashExclusion ==
  ASSUME IInv, Calm, EInv, NEW w \in Worker, Crash(w)
  PROVE  EInv'
<1> DEFINE mine(a) == a = w \/ (a \in Caller /\ WorkerOf[a] = w)
           dead(o) == o \in Lock /\ home[o] = w
<1>1. /\ Caller \subseteq Actor /\ Worker \subseteq Actor
      /\ \A c \in Caller : WorkerOf[c] \in Worker /\ c \notin Worker
      /\ NoLock \notin Lock
      /\ \A c \in Caller : mine(c) <=> WorkerOf[c] = w
      /\ locks \in [Worker -> Lock \cup {NoLock}]
  BY ActorTypes, LockAssumption DEF IInv, TypeOK
<1>2. /\ \A a \in Actor : pc'[a] = IF mine(a) THEN "idle" ELSE pc[a]
      /\ \A a \in Actor : ~mine(a) => obj'[a] = obj[a] /\ lease'[a] = lease[a]
      /\ \A v \in Worker : locks'[v] \in {locks[v], NoLock}
      /\ \A o \in Lock : ~dead(o) => /\ isLocked'[o] = isLocked[o]
                                     /\ leaseID'[o] = leaseID[o]
                                     /\ cancelFunc'[o] = cancelFunc[o]
                                     /\ mutex'[o] = mutex[o]
      /\ \A o \in Lock : dead(o) => ~isLocked'[o] /\ cancelFunc'[o] = NoLease
      /\ \A l \in Lease : ~dead(leaseLock[l]) => renewal'[l] = renewal[l]
      /\ UNCHANGED <<key, live, granted, home, leaseLock>>
  BY <1>1 DEF Crash, etcdVars
<1>3. \A c \in Caller : pc'[c] \in Active => /\ ~mine(c) /\ pc'[c] = pc[c]
                                            /\ obj'[c] = obj[c] /\ lease'[c] = lease[c]
                                            /\ obj[c] \in Lock /\ ~dead(obj[c])
  BY <1>1, <1>2 DEF EInv, OwnObject, Active
<1> USE DEF EInv, Active
<1>4. ManagersIdle' /\ CallerStates'
  BY <1>1, <1>2 DEF ManagersIdle, CallerStates, CallerPC
<1>5. OwnObject' /\ HoldsMutex' /\ RevokesOwn'
  BY <1>2, <1>3 DEF OwnObject, HoldsMutex, RevokesOwn
<1>6. OwnsKey' /\ Renews'
  BY <1>2, <1>3 DEF OwnsKey, Renews
<1>7. LockedByCaller'
  <2> SUFFICES ASSUME NEW o \in Lock, isLocked'[o]
               PROVE  \E c \in Caller : /\ obj'[c] = o /\ pc'[c] \in {"holding", "unlocking"}
                                        /\ leaseID'[o] = lease'[c]
    BY DEF LockedByCaller
  <2>1. ~dead(o) /\ isLocked[o]
    BY <1>2
  <2>2. PICK c \in Caller : /\ obj[c] = o /\ pc[c] \in {"holding", "unlocking"}
                            /\ leaseID[o] = lease[c]
    BY <2>1 DEF LockedByCaller
  <2>3. ~mine(c)
    BY <1>1, <2>1, <2>2 DEF OwnObject
  <2> QED
    BY <1>1, <1>2, <2>1, <2>2, <2>3
<1>8. CancelsOwn'
  BY <1>2 DEF CancelsOwn
<1> QED
  BY <1>4, <1>5, <1>6, <1>7, <1>8

LEMMA InitEInv == Init => EInv
<1> SUFFICES ASSUME Init PROVE EInv
  OBVIOUS
<1>1. /\ \A a \in Actor : pc[a] = "idle"
      /\ \A w \in Worker : locks[w] = NoLock
      /\ \A o \in Lock : ~isLocked[o] /\ cancelFunc[o] = NoLease
  BY DEF Init
<1> QED
  BY <1>1, ActorTypes
     DEF EInv, ManagersIdle, CallerStates, CallerPC, OwnObject, Active, HoldsMutex, OwnsKey,
         Renews, RevokesOwn, LockedByCaller, CancelsOwn

LEMMA NextEInv == Calm /\ IInv /\ EInv /\ [Next]_vars => EInv'
<1> SUFFICES ASSUME Calm, IInv, EInv, [Next]_vars PROVE EInv'
  OBVIOUS
<1>1. ASSUME NEW w \in Worker, CleanupStart(w) \/ CleanupStep(w) \/ StopManager(w) \/ ReleaseLock(w)
      PROVE  FALSE
  BY <1>1 DEF EInv, ManagersIdle, Calm, CleanupStart, CleanupStep, CleanupReadLease,
              CleanupReadLocked, CleanupValidate, CleanupRecheck, StopManager, ReleaseLock
<1>2. ASSUME NEW o \in Lock, StopRenewal(o) PROVE FALSE
  BY <1>2 DEF Calm, StopRenewal
<1>3. CASE UNCHANGED vars
  BY <1>3 DEF vars, etcdVars, lockVars, renewVars, managerVars, actorVars,
              EInv, ManagersIdle, CallerStates, OwnObject, HoldsMutex, OwnsKey,
              Renews, RevokesOwn, LockedByCaller, CancelsOwn
<1> QED
  BY <1>1, <1>2, <1>3, CallerStepExclusion, UnlockStepExclusion, RenewalStepExclusion,
     CrashExclusion DEF Next

\* Two executions of a job never overlap as long as every worker runs the job
\* from one goroutine, etcd answers, renewed leases live on and neither cleanup
\* nor Stop runs, however often workers crash and leases of the dead expire.
THEOREM Exclusion == Calm => (Spec => []ExclusiveExecution)
<1> SUFFICES ASSUME Calm PROVE Spec => []ExclusiveExecution
  OBVIOUS
<1>1. Init => IInv /\ EInv
  BY InitIInv, InitEInv
<1>2. IInv /\ EInv /\ [Next]_vars => IInv' /\ EInv'
  BY NextIInv, NextEInv
<1>3. IInv /\ EInv => ExclusiveExecution
  <2> SUFFICES ASSUME IInv, EInv,
                      NEW c \in Caller, NEW d \in Caller, Executing(c), Executing(d)
               PROVE  c = d
    BY DEF ExclusiveExecution
  <2>1. pc[c] \in Active /\ pc[d] \in Active /\ obj[c] = obj[d]
    BY DEF Executing, Active, EInv, OwnsKey
  <2> QED
    BY <2>1, DistinctObjects DEF EInv
<1> QED
  BY <1>1, <1>2, <1>3, PTL DEF Spec
-----------------------------------------------------------------------------
(* The key of a lock that was released, with one execution per worker. A     *)
(* second one on the same object meets the monitor of the first; two callers *)
(* of a worker share its object; and the cleanup marks an object as unlocked *)
(* whose lease is renewed. All else may happen: lost leases, etcd out of     *)
(* reach, Stop, StopRenewal, crashes.                                        *)

OneExecution ==
  /\ MaxRuns <= 1
  /\ \A c, d \in Caller : WorkerOf[c] = WorkerOf[d] => c = d
  /\ "Cleanup" \notin Env

Trying == {"grant", "txn", "won", "revoke"}

Watched(l) == mon[l].pc \in {"loop", "recv", "failed"}

\* An object is used by the process that allocated it only.
UsedAtHome ==
  /\ \A c \in Caller : obj[c] \in Lock => home[obj[c]] = WorkerOf[c]
  /\ \A w \in Worker : /\ obj[w] \in Lock => home[obj[w]] = w
                       /\ locks[w] \in Lock => home[locks[w]] = w

MutexHeld ==
  \A a \in Actor : pc[a] \in Trying \/ Revoking(a) => obj[a] \in Lock /\ mutex[obj[a]] = a

RunsCounted == \A c \in Caller : runs[c] = 0 => pc[c] = "idle" /\ lease[c] = NoLease

LeasesForObjects ==
  \A c \in Caller : lease[c] # NoLease => obj[c] \in Lock /\ leaseLock[lease[c]] = obj[c]

NotCleaning ==
  \A w \in Worker : pc[w] \in {"idle", "remove", "removing", "release", "releasing"}

Users == UsedAtHome /\ MutexHeld /\ RunsCounted /\ LeasesForObjects /\ NotCleaning

\* A monitor at work is that of a lease with which a caller has got its object ...
WatchedForCaller ==
  \A l \in Lease : Watched(l) => \E c \in Caller : /\ lease[c] = l /\ obj[c] = leaseLock[l]
                                                   /\ pc[c] \notin Trying \cup {"created"}

\* ... and reads the channel of this lease, or none.
WatchesOwn ==
  \A l \in Lease : Watched(l) => /\ mon[l].ch \in {NoLease, l}
                                 /\ keepAliveCh[leaseLock[l]] \in {NoLease, l}
                                 /\ mon[l].pc = "failed" => renewal[l] = "closed"

\* The object of a renewed lease is locked, and knows how to end the renewal.
RenewedIsLocked ==
  \A l \in Lease : renewal[l] = "open" =>
    Watched(l) /\ isLocked[leaseLock[l]] /\ cancelFunc[leaseLock[l]] = l

RevokesStopped == \A a \in Actor : Revoking(a) => cancelFunc[obj[a]] = NoLease

ReleasedNotRenewed ==
  \A c \in Caller : pc[c] = "released" /\ lease[c] # NoLease => renewal[lease[c]] # "open"

Renewals ==
  WatchedForCaller /\ WatchesOwn /\ RenewedIsLocked /\ RevokesStopped /\ ReleasedNotRenewed

\* What the steps below know of the types
LEMMA ReleaseTypes ==
  ASSUME IInv
  PROVE  /\ pc \in [Actor -> CallerPC \cup ManagerPC]
         /\ obj \in [Actor -> Lock \cup {NoLock}]
         /\ lease \in [Actor -> Lease \cup {NoLease}]
         /\ mutex \in [Lock -> Actor \cup {NoActor}]
         /\ home \in [Lock -> Worker \cup {NoWorker}]
         /\ locks \in [Worker -> Lock \cup {NoLock}]
         /\ isLocked \in [Lock -> BOOLEAN]
         /\ cancelFunc \in [Lock -> Lease \cup {NoLease}]
         /\ keepAliveCh \in [Lock -> Lease \cup {NoLease}]
         /\ renewal \in [Lease -> {"none", "open", "cancelled", "closed"}]
         /\ leaseLock \in [Lease -> Lock \cup {NoLock}]
         /\ mon \in [Lease -> [pc : {"none", "loop", "recv", "failed", "done"},
                               ch : Lease \cup {NoLease}]]
         /\ runs \in [Caller -> 0..MaxRuns] /\ granted \in Nat
BY LeaseTypes DEF IInv, TypeOK

\* Nobody is both, and the values for nothing are none.
LEMMA Apart ==
  /\ Caller \subseteq Actor /\ Worker \subseteq Actor
  /\ \A c \in Caller : WorkerOf[c] \in Worker /\ c \notin Worker
  /\ \A a \in Actor : a \notin Caller => a \in Worker
  /\ NoLease \notin Lease /\ NoLock \notin Lock /\ NoActor \notin Actor /\ NoWorker \notin Worker
BY ActorTypes, LockAssumption DEF Actor

\* Two callers never have the same object.
LEMMA OwnObjects ==
  ASSUME OneExecution, UsedAtHome
  PROVE  \A c, d \in Caller : obj[c] \in Lock /\ obj[c] = obj[d] => c = d
BY DEF OneExecution, UsedAtHome

\* While a caller tries to get its object, nobody watches or renews a lease for it.
LEMMA NothingRenewed ==
  ASSUME OneExecution, UsedAtHome, WatchedForCaller, RenewedIsLocked,
         NEW c \in Caller, obj[c] \in Lock, pc[c] \in Trying \cup {"created"}
  PROVE  \A l \in Lease : leaseLock[l] = obj[c] => ~Watched(l) /\ renewal[l] # "open"
<1> SUFFICES ASSUME NEW l \in Lease, leaseLock[l] = obj[c], Watched(l) PROVE FALSE
  BY DEF RenewedIsLocked
<1>1. PICK d \in Caller : obj[d] = leaseLock[l] /\ pc[d] \notin Trying \cup {"created"}
  BY DEF WatchedForCaller
<1> QED
  BY <1>1, OwnObjects

-----------------------------------------------------------------------------
(* Users                                                                     *)

LEMMA CallerStepUsers ==
  ASSUME IInv, OneExecution, Users, NEW c \in Caller, CallerStep(c)
  PROVE  Users'
<1>1. c \in Actor /\ WorkerOf[c] \in Worker /\ c \notin Worker
  BY Apart
<1> USE DEF Goto, Free, etcdVars, lockVars, renewVars, managerVars, actorVars
<1>2. CASE CreateLock(c)
  <2>1. /\ UNCHANGED <<mutex, leaseLock>>
        /\ \A a \in Actor : a # c => pc'[a] = pc[a] /\ obj'[a] = obj[a] /\ lease'[a] = lease[a]
        /\ pc'[c] = "created" /\ lease'[c] = NoLease
    BY <1>1, <1>2, ReleaseTypes DEF CreateLock
  <2>2. runs'[c] # 0 /\ \A d \in Caller : d # c => runs'[d] = runs[d]
    BY <1>2, ReleaseTypes DEF CreateLock
  <2>3. /\ \A o \in Lock : home[o] # NoWorker => home'[o] = home[o]
        /\ obj'[c] \in Lock /\ home'[obj'[c]] = WorkerOf[c]
        /\ \A w \in Worker : \/ locks'[w] = locks[w]
                             \/ locks'[w] \in Lock /\ home'[locks'[w]] = w
    BY <1>1, <1>2, ReleaseTypes DEF CreateLock, Users, UsedAtHome
  <2>4. UsedAtHome'
    BY <1>1, <2>1, <2>3, Apart DEF Users, UsedAtHome
  <2>5. MutexHeld' /\ NotCleaning'
    BY <1>1, <2>1, Apart DEF Users, MutexHeld, NotCleaning, Trying, Revoking
  <2>6. RunsCounted' /\ LeasesForObjects'
    BY <2>1, <2>2, Apart DEF Users, RunsCounted, LeasesForObjects
  <2> QED
    BY <2>4, <2>5, <2>6 DEF Users
<1>3. ASSUME UNCHANGED <<home, locks, obj, runs>>, pc[c] # "idle",
             \A a \in Actor : a # c => pc'[a] = pc[a] /\ lease'[a] = lease[a],
             \A o \in Lock : o # obj[c] => mutex'[o] = mutex[o],
             obj[c] \in Lock => mutex[obj[c]] \in {NoActor, c} \/ UNCHANGED mutex,
             pc'[c] \in {"grant", "txn", "won", "revoke", "holding", "failed"},
             pc'[c] \in Trying => obj[c] \in Lock /\ mutex'[obj[c]] = c,
             \A l \in Lease : leaseLock'[l] # leaseLock[l] => l = granted + 1,
             lease'[c] # NoLease => obj[c] \in Lock /\ leaseLock'[lease'[c]] = obj[c]
      PROVE  Users'
  <2>1. UsedAtHome' /\ NotCleaning'
    BY <1>1, <1>3, Apart DEF Users, UsedAtHome, NotCleaning
  <2>2. MutexHeld'
    BY <1>1, <1>3, Apart DEF Users, MutexHeld, Trying, Revoking
  <2>3. RunsCounted'
    BY <1>3, Apart DEF Users, RunsCounted
  <2>4. \A a \in Actor : lease[a] # granted + 1 /\ lease[a] \in Lease \cup {NoLease}
    BY LeaseTypes, ReleaseTypes DEF IInv, GrantOrder
  <2>5. LeasesForObjects'
    BY <1>3, <2>4, Apart DEF Users, LeasesForObjects
  <2> QED
    BY <2>1, <2>2, <2>3, <2>5 DEF Users
<1>4. /\ pc[c] \in {"txn", "won", "revoke"} => lease[c] \in Lease /\ leaseLock[lease[c]] = obj[c]
      /\ pc[c] \in Trying \cup {"created"} => obj[c] \in Lock
      /\ pc[c] \in Trying => mutex[obj[c]] = c
  BY <1>1 DEF IInv, CallersBound, Users, MutexHeld, Trying
<1>5. lease[c] # NoLease => obj[c] \in Lock /\ leaseLock[lease[c]] = obj[c]
  BY DEF Users, LeasesForObjects
<1> USE DEF Trying
<1>6. CASE TryLockReentrant(c)
  BY <1>1, <1>3, <1>5, <1>6, ReleaseTypes DEF TryLockReentrant
<1>7. CASE TryLockStart(c)
  BY <1>1, <1>3, <1>4, <1>5, <1>7, ReleaseTypes DEF TryLockStart
<1>8. CASE Grant(c)
  <2>1. granted + 1 \in Lease
    BY <1>8, ReleaseTypes, LockAssumption DEF Grant, Lease
  <2> QED
    BY <1>1, <1>3, <1>4, <1>8, <2>1, ReleaseTypes DEF Grant
<1>9. CASE TxnWins(c) \/ TxnLoses(c) \/ TxnAnswerLost(c)
  BY <1>1, <1>3, <1>4, <1>5, <1>9, ReleaseTypes DEF TxnWins, TxnLoses, TxnAnswerLost
<1>10. CASE GrantFails(c) \/ RevokeLoser(c)
  BY <1>1, <1>3, <1>4, <1>10, ReleaseTypes DEF GrantFails, RevokeLoser, NextAttempt
<1>11. CASE Acquired(c)
  BY <1>1, <1>3, <1>4, <1>5, <1>11, ReleaseTypes DEF Acquired
<1> QED
  BY <1>2, <1>6, <1>7, <1>8, <1>9, <1>10, <1>11 DEF CallerStep

\* What Unlock leads to, its answer true or false
LEMMA AfterUnlockMoves ==
  ASSUME IInv, NEW a \in Actor, NEW ok \in BOOLEAN, AfterUnlock(a, ok)
  PROVE  /\ \A b \in Actor : b # a => pc'[b] = pc[b]
         /\ a \in Caller => pc'[a] = (IF ok THEN "released" ELSE "failed")
         /\ a \in Worker => pc'[a] = "idle"
         /\ \A w \in Worker : locks'[w] \in {locks[w], NoLock}
BY Apart, ReleaseTypes DEF AfterUnlock, Goto

LEMMA UnlockStepUsers ==
  ASSUME IInv, OneExecution, Users, NEW a \in Actor, UnlockStep(a)
  PROVE  Users'
<1> USE DEF etcdVars, lockVars, renewVars, managerVars, actorVars
<1>1. ASSUME UNCHANGED <<home, obj, lease, runs, leaseLock>>, pc[a] # "idle",
             \A b \in Actor : b # a => pc'[b] = pc[b],
             \A w \in Worker : locks'[w] \in {locks[w], NoLock},
             \A o \in Lock : o # obj[a] => mutex'[o] = mutex[o],
             obj[a] \in Lock => mutex[obj[a]] \in {NoActor, a},
             pc'[a] \notin Trying,
             Revoking(a)' => obj[a] \in Lock /\ mutex'[obj[a]] = a,
             a \in Worker => pc'[a] \in {"idle", "removing", "releasing"}
      PROVE  Users'
  <2>1. UsedAtHome' /\ NotCleaning'
    BY <1>1, Apart DEF Users, UsedAtHome, NotCleaning
  <2>2. MutexHeld'
    BY <1>1, Apart DEF Users, MutexHeld, Trying, Revoking
  <2>3. RunsCounted' /\ LeasesForObjects'
    BY <1>1, Apart DEF Users, RunsCounted, LeasesForObjects
  <2> QED
    BY <2>1, <2>2, <2>3 DEF Users
<1>2. CASE UnlockNotLocked(a)
  <2>1. /\ pc[a] \in UnlockFrom /\ Free(obj[a]) /\ AfterUnlock(a, TRUE)
        /\ UNCHANGED <<home, mutex, obj, lease, runs, leaseLock>>
    BY <1>2 DEF UnlockNotLocked
  <2>2. pc'[a] \in {"released", "idle"}
    BY <2>1, AfterUnlockMoves, Apart
  <2> QED
    BY <1>1, <2>1, <2>2, AfterUnlockMoves, Apart DEF UnlockFrom, Free, Trying, Revoking
<1>3. CASE UnlockStart(a)
  <2>1. /\ pc[a] \in UnlockFrom /\ Free(obj[a])
        /\ mutex' = [mutex EXCEPT ![obj[a]] = a] /\ pc' = [pc EXCEPT ![a] = Unlocking(pc[a])]
        /\ UNCHANGED <<home, obj, lease, runs, leaseLock, locks>>
    BY <1>3 DEF UnlockStart, Goto
  <2>2. /\ pc'[a] \in {"unlocking", "removing", "releasing"}
        /\ a \in Worker => pc'[a] \in {"removing", "releasing"}
    <3>1. a \in Worker => pc[a] # "holding"
      BY DEF Users, NotCleaning
    <3> QED
      BY <2>1, <3>1, ReleaseTypes DEF Unlocking, UnlockFrom
  <2>3. mutex'[obj[a]] = a /\ \A o \in Lock : o # obj[a] => mutex'[o] = mutex[o]
    BY <2>1, ReleaseTypes DEF Free
  <2>4. \A b \in Actor : b # a => pc'[b] = pc[b]
    BY <2>1, ReleaseTypes
  <2> QED
    BY <1>1, <2>1, <2>2, <2>3, <2>4 DEF UnlockFrom, Free, Trying
<1>4. CASE UnlockRevoked(a) \/ UnlockFails(a)
  <2>1. PICK ok \in BOOLEAN :
          /\ Revoking(a) /\ AfterUnlock(a, ok) /\ mutex' = [mutex EXCEPT ![obj[a]] = NoActor]
          /\ UNCHANGED <<home, obj, lease, runs, leaseLock>>
    BY <1>4 DEF UnlockRevoked, UnlockFails
  <2>2. obj[a] \in Lock /\ mutex[obj[a]] = a
    BY <2>1 DEF Users, MutexHeld
  <2>3. pc'[a] \in {"released", "failed", "idle"} /\ (a \in Worker => pc'[a] = "idle")
    BY <2>1, AfterUnlockMoves, Apart
  <2>4. \A o \in Lock : o # obj[a] => mutex'[o] = mutex[o]
    BY <2>1, ReleaseTypes
  <2> QED
    BY <1>1, <2>1, <2>2, <2>3, <2>4, AfterUnlockMoves DEF Trying, Revoking
<1> QED
  BY <1>2, <1>3, <1>4 DEF UnlockStep

LEMMA ManagerStepUsers ==
  ASSUME IInv, OneExecution, Users, NEW w \in Worker, StopManager(w) \/ ReleaseLock(w) \/ Crash(w)
  PROVE  Users'
<1>1. w \in Actor /\ w \notin Caller
  BY Apart
<1>2. CASE StopManager(w) \/ ReleaseLock(w)
  <2>1. /\ UNCHANGED <<home, mutex, lease, runs, leaseLock, locks>>
        /\ pc[w] = "idle"
        /\ \A a \in Actor : a # w => pc'[a] = pc[a] /\ obj'[a] = obj[a]
        /\ \/ pc'[w] \in {"remove", "release"} /\ obj'[w] = locks[w]
           \/ pc'[w] = "idle" /\ obj'[w] = obj[w]
    BY <1>1, <1>2, ReleaseTypes
       DEF StopManager, ReleaseLock, Goto, etcdVars, lockVars, renewVars, managerVars
  <2>2. UsedAtHome' /\ NotCleaning'
    BY <2>1, Apart DEF Users, UsedAtHome, NotCleaning
  <2>3. MutexHeld'
    BY <2>1, Apart DEF Users, MutexHeld, Trying, Revoking
  <2>4. RunsCounted' /\ LeasesForObjects'
    BY <1>1, <2>1, Apart DEF Users, RunsCounted, LeasesForObjects
  <2> QED
    BY <2>2, <2>3, <2>4 DEF Users
<1>3. CASE Crash(w)
  <2> DEFINE mine(a) == a = w \/ (a \in Caller /\ WorkerOf[a] = w)
  <2>1. /\ UNCHANGED <<home, leaseLock, runs>>
        /\ \A a \in Actor : IF mine(a)
                            THEN pc'[a] = "idle" /\ obj'[a] = NoLock /\ lease'[a] = NoLease
                            ELSE pc'[a] = pc[a] /\ obj'[a] = obj[a] /\ lease'[a] = lease[a]
        /\ \A v \in Worker : locks'[v] \in {locks[v], NoLock}
        /\ \A o \in Lock : home[o] # w => mutex'[o] = mutex[o]
    BY <1>3, ReleaseTypes DEF Crash, etcdVars
  <2>2. \A a \in Actor : ~mine(a) /\ obj[a] \in Lock => home[obj[a]] # w
    BY Apart DEF Users, UsedAtHome
  <2>3. UsedAtHome' /\ NotCleaning'
    BY <2>1, Apart DEF Users, UsedAtHome, NotCleaning
  <2>4. MutexHeld'
    BY <2>1, <2>2 DEF Users, MutexHeld, Trying, Revoking
  <2>5. RunsCounted' /\ LeasesForObjects'
    BY <2>1, Apart DEF Users, RunsCounted, LeasesForObjects
  <2> QED
    BY <2>3, <2>4, <2>5 DEF Users
<1> QED
  BY <1>2, <1>3

-----------------------------------------------------------------------------
(* Renewals                                                                  *)

LEMMA CallerStepRenewals ==
  ASSUME IInv, OneExecution, Users, Renewals, NEW c \in Caller, CallerStep(c)
  PROVE  Renewals'
<1>1. c \in Actor /\ c \notin Worker
  BY Apart
<1> USE DEF Goto, Free, etcdVars, lockVars, renewVars, managerVars, actorVars, Trying
<1>2. ASSUME UNCHANGED <<isLocked, cancelFunc, keepAliveCh, renewal, mon>>,
             \A l \in Lease : leaseLock'[l] # leaseLock[l] => l = granted + 1,
             \A a \in Actor : a # c => pc'[a] = pc[a] /\ obj'[a] = obj[a] /\ lease'[a] = lease[a],
             pc[c] \in Trying \cup {"created"} \/ lease[c] = NoLease,
             pc'[c] \in {"created", "grant", "txn", "won", "revoke", "holding", "failed"}
      PROVE  Renewals'
  <2>1. \A l \in Lease : Watched(l)' => Watched(l) /\ leaseLock'[l] = leaseLock[l]
    BY <1>2, ReleaseTypes DEF IInv, GrantOrder, Watched
  <2>2. WatchedForCaller'
    <3> SUFFICES ASSUME NEW l \in Lease, Watched(l)'
                 PROVE  \E d \in Caller : /\ lease'[d] = l /\ obj'[d] = leaseLock'[l]
                                          /\ pc'[d] \notin Trying \cup {"created"}
      BY DEF WatchedForCaller
    <3>1. PICK d \in Caller : /\ lease[d] = l /\ obj[d] = leaseLock[l]
                              /\ pc[d] \notin Trying \cup {"created"}
      BY <2>1 DEF Renewals, WatchedForCaller
    <3>2. d # c /\ d \in Actor
      BY <1>2, <3>1, Apart
    <3> QED
      BY <1>2, <2>1, <3>1, <3>2
  <2>3. WatchesOwn'
    BY <1>2, <2>1 DEF Renewals, WatchesOwn, Watched
  <2>4. RenewedIsLocked'
    BY <1>2, <2>1 DEF Renewals, RenewedIsLocked, Watched
  <2>5. RevokesStopped'
    BY <1>2 DEF Renewals, RevokesStopped, Revoking
  <2>6. ReleasedNotRenewed'
    BY <1>2, Apart DEF Renewals, ReleasedNotRenewed
  <2> QED
    BY <2>2, <2>3, <2>4, <2>5, <2>6 DEF Renewals
<1>3. CASE CreateLock(c)
  <2>1. runs[c] = 0
    <3>1. runs[c] < MaxRuns
      BY <1>3 DEF CreateLock
    <3>2. runs[c] \in 0..MaxRuns
      BY ReleaseTypes
    <3> QED
      BY <3>1, <3>2, LockAssumption DEF OneExecution
  <2>2. lease[c] = NoLease
    BY <2>1 DEF Users, RunsCounted
  <2> QED
    BY <1>1, <1>2, <1>3, <2>2, ReleaseTypes DEF CreateLock
<1>4. CASE TryLockReentrant(c) \/ TryLockStart(c)
  BY <1>1, <1>2, <1>4, ReleaseTypes DEF TryLockReentrant, TryLockStart
<1>5. CASE Grant(c)
  BY <1>1, <1>2, <1>5, ReleaseTypes DEF Grant
<1>6. CASE TxnWins(c) \/ TxnLoses(c) \/ TxnAnswerLost(c)
  BY <1>1, <1>2, <1>6, ReleaseTypes DEF TxnWins, TxnLoses, TxnAnswerLost
<1>7. CASE GrantFails(c) \/ RevokeLoser(c)
  BY <1>1, <1>2, <1>7, ReleaseTypes DEF GrantFails, RevokeLoser, NextAttempt
<1>8. CASE Acquired(c)
  <2> DEFINE o == obj[c]
             k == lease[c]
  <2>1. /\ o \in Lock /\ k \in Lease /\ leaseLock[k] = o /\ pc[c] = "won" /\ mutex[o] = c
    BY <1>1, <1>8 DEF Acquired, IInv, CallersBound, Users, MutexHeld
  <2>2. \A l \in Lease : leaseLock[l] = o => ~Watched(l) /\ renewal[l] # "open"
    BY <2>1, NothingRenewed DEF Users, Renewals
  <2>3. /\ UNCHANGED <<leaseLock, obj, lease>>
        /\ isLocked' = [isLocked EXCEPT ![o] = TRUE] /\ cancelFunc' = [cancelFunc EXCEPT ![o] = k]
        /\ pc' = [pc EXCEPT ![c] = "holding"]
        /\ \/ /\ renewal' = [renewal EXCEPT ![k] = "open"]
              /\ keepAliveCh' = [keepAliveCh EXCEPT ![o] = k]
              /\ mon' = [mon EXCEPT ![k] = [pc |-> "loop", ch |-> NoLease]]
           \/ UNCHANGED <<renewal, keepAliveCh, mon>>
    BY <1>8 DEF Acquired
  <2> HIDE DEF o, k
  <2>4. /\ \A p \in Lock : p # o => /\ isLocked'[p] = isLocked[p] /\ cancelFunc'[p] = cancelFunc[p]
                                    /\ keepAliveCh'[p] = keepAliveCh[p]
        /\ isLocked'[o] /\ cancelFunc'[o] = k
        /\ pc'[c] = "holding" /\ \A a \in Actor : a # c => pc'[a] = pc[a]
        /\ \A l \in Lease : l # k => mon'[l] = mon[l] /\ renewal'[l] = renewal[l]
        /\ \/ /\ renewal'[k] = "open" /\ keepAliveCh'[o] = k
              /\ mon'[k].pc = "loop" /\ mon'[k].ch = NoLease
           \/ renewal'[k] = renewal[k] /\ mon'[k] = mon[k]
    BY <1>1, <2>1, <2>3, ReleaseTypes
  <2>5. \A l \in Lease : /\ Watched(l)' => l = k \/ (Watched(l) /\ leaseLock[l] # o)
                         /\ renewal'[l] = "open" => l = k \/ leaseLock[l] # o
                         /\ Watched(l) => leaseLock[l] \in Lock
    BY <2>2, <2>4 DEF Watched, IInv, MonitorsBound
  <2>6. \A l \in Lease : l # k => (Watched(l)' <=> Watched(l))
    BY <2>4 DEF Watched
  <2>7. ~Watched(k) /\ renewal[k] # "open"
    BY <2>1, <2>2
  <2>8. WatchedForCaller'
    <3> SUFFICES ASSUME NEW l \in Lease, Watched(l)'
                 PROVE  \E d \in Caller : /\ lease'[d] = l /\ obj'[d] = leaseLock'[l]
                                          /\ pc'[d] \notin Trying \cup {"created"}
      BY DEF WatchedForCaller
    <3>1. CASE l = k
      BY <2>1, <2>3, <2>4, <3>1 DEF o, k
    <3>2. CASE l # k
      <4>1. PICK d \in Caller : /\ lease[d] = l /\ obj[d] = leaseLock[l]
                                /\ pc[d] \notin Trying \cup {"created"}
        BY <2>6, <3>2 DEF Renewals, WatchedForCaller
      <4>2. d # c /\ d \in Actor
        BY <2>1, <4>1, Apart
      <4> QED
        BY <2>3, <2>4, <4>1, <4>2
    <3> QED
      BY <3>1, <3>2
  <2>9. WatchesOwn'
    <3> SUFFICES ASSUME NEW l \in Lease, Watched(l)'
                 PROVE  /\ mon'[l].ch \in {NoLease, l}
                        /\ keepAliveCh'[leaseLock'[l]] \in {NoLease, l}
                        /\ mon'[l].pc = "failed" => renewal'[l] = "closed"
      BY DEF WatchesOwn
    <3>1. CASE l = k
      BY <2>1, <2>3, <2>4, <2>7, <3>1 DEF Watched
    <3>2. CASE l # k
      <4>1. Watched(l) /\ leaseLock[l] # o /\ leaseLock[l] \in Lock
        BY <2>5, <2>6, <3>2
      <4> QED
        BY <2>3, <2>4, <3>2, <4>1 DEF Renewals, WatchesOwn
    <3> QED
      BY <3>1, <3>2
  <2>10. RenewedIsLocked'
    <3> SUFFICES ASSUME NEW l \in Lease, renewal'[l] = "open"
                 PROVE  Watched(l)' /\ isLocked'[leaseLock'[l]] /\ cancelFunc'[leaseLock'[l]] = l
      BY DEF RenewedIsLocked
    <3>1. CASE l = k
      BY <2>1, <2>3, <2>4, <2>7, <3>1 DEF Watched
    <3>2. CASE l # k
      <4>1. renewal[l] = "open" /\ leaseLock[l] # o
        BY <2>4, <2>5, <3>2
      <4>2. Watched(l) /\ isLocked[leaseLock[l]] /\ cancelFunc[leaseLock[l]] = l
        BY <4>1 DEF Renewals, RenewedIsLocked
      <4> QED
        BY <2>3, <2>4, <2>5, <2>6, <3>2, <4>1, <4>2
    <3> QED
      BY <3>1, <3>2
  <2>11. RevokesStopped'
    <3>1. \A a \in Actor : Revoking(a)' => a # c /\ Revoking(a) /\ obj[a] \in Lock /\ obj[a] # o
      BY <2>1, <2>4 DEF Revoking, Users, MutexHeld
    <3> QED
      BY <2>3, <2>4, <3>1 DEF Renewals, RevokesStopped
  <2>12. ReleasedNotRenewed'
    <3>1. \A d \in Caller : d # c => lease[d] # k
      BY <2>1, OwnObjects, Apart DEF Users, LeasesForObjects, o
    <3> QED
      BY <2>3, <2>4, <3>1, Apart, ReleaseTypes DEF Renewals, ReleasedNotRenewed
  <2> QED
    BY <2>8, <2>9, <2>10, <2>11, <2>12 DEF Renewals
<1> QED
  BY <1>3, <1>4, <1>5, <1>6, <1>7, <1>8 DEF CallerStep

\* Ending the renewal of an object ends that of every lease granted for it.
LEMMA StopEndsAll ==
  ASSUME IInv, Renewals, NEW o \in Lock, StopAutoRenew(o), UNCHANGED <<isLocked, leaseLock, mon>>
  PROVE  /\ \A l \in Lease : /\ renewal'[l] = "open" => renewal[l] = "open" /\ leaseLock[l] # o
                             /\ renewal[l] = "closed" => renewal'[l] = "closed"
         /\ cancelFunc'[o] = NoLease
         /\ \A p \in Lock : cancelFunc'[p] \in {cancelFunc[p], NoLease}
         /\ WatchesOwn' /\ RenewedIsLocked'
<1>1. /\ renewal' = [l \in Lease |-> IF l = cancelFunc[o] /\ renewal[l] = "open" THEN "cancelled"
                                                                                ELSE renewal[l]]
      /\ cancelFunc' = [cancelFunc EXCEPT ![o] = NoLease]
      /\ keepAliveCh' = [keepAliveCh EXCEPT ![o] = NoLease]
  BY DEF StopAutoRenew
<1>2. /\ \A p \in Lock : p # o => cancelFunc'[p] = cancelFunc[p] /\ keepAliveCh'[p] = keepAliveCh[p]
      /\ cancelFunc'[o] = NoLease /\ keepAliveCh'[o] = NoLease
  BY <1>1, ReleaseTypes
<1>3. \A l \in Lease : /\ renewal'[l] = "open" => renewal[l] = "open" /\ leaseLock[l] # o
                       /\ renewal[l] = "closed" => renewal'[l] = "closed"
  BY <1>1 DEF Renewals, RenewedIsLocked
<1>4. \A l \in Lease : (Watched(l)' <=> Watched(l)) /\ (Watched(l) => leaseLock[l] \in Lock)
  BY DEF Watched, IInv, MonitorsBound
<1>5. WatchesOwn'
  BY <1>2, <1>3, <1>4 DEF Renewals, WatchesOwn
<1>6. RenewedIsLocked'
  BY <1>2, <1>3, <1>4 DEF Renewals, RenewedIsLocked
<1> QED
  BY <1>2, <1>3, <1>5, <1>6

LEMMA UnlockStepRenewals ==
  ASSUME IInv, OneExecution, Users, Renewals, NEW a \in Actor, UnlockStep(a)
  PROVE  Renewals'
<1> USE DEF etcdVars, lockVars, renewVars, managerVars, actorVars
<1>1. ASSUME UNCHANGED <<obj, lease, leaseLock>>,
             \A b \in Actor : b # a => pc'[b] = pc[b],
             pc'[a] \notin Trying \cup {"created"},
             \A l \in Lease : Watched(l)' => Watched(l)
      PROVE  WatchedForCaller'
  BY <1>1, Apart DEF Renewals, WatchedForCaller
<1>2. ASSUME UNCHANGED <<obj, lease, renewVars, cancelFunc, keepAliveCh>>,
             NEW ok \in BOOLEAN, AfterUnlock(a, ok), obj[a] \in Lock,
             \A p \in Lock : p # obj[a] => isLocked'[p] = isLocked[p],
             \A l \in Lease : leaseLock[l] = obj[a] => renewal[l] # "open"
      PROVE  Renewals'
  <2>1. /\ \A b \in Actor : b # a => pc'[b] = pc[b]
        /\ pc'[a] \in {"released", "failed", "idle"}
    BY <1>2, AfterUnlockMoves, Apart
  <2>2. \A l \in Lease : /\ Watched(l)' <=> Watched(l)
                         /\ Watched(l) => leaseLock[l] \in Lock
    BY <1>2 DEF Watched, IInv, MonitorsBound
  <2>3. WatchedForCaller'
    BY <1>1, <1>2, <2>1, <2>2 DEF Trying
  <2>4. WatchesOwn'
    BY <1>2, <2>2 DEF Renewals, WatchesOwn
  <2>5. RenewedIsLocked'
    BY <1>2, <2>2 DEF Renewals, RenewedIsLocked
  <2>6. RevokesStopped'
    BY <1>2, <2>1 DEF Renewals, RevokesStopped, Revoking
  <2>7. ReleasedNotRenewed'
    <3> SUFFICES ASSUME NEW c \in Caller, pc'[c] = "released", lease[c] # NoLease
                 PROVE  renewal[lease[c]] # "open"
      BY <1>2 DEF ReleasedNotRenewed
    <3>1. CASE c = a
      BY <1>2, <3>1, Apart, ReleaseTypes DEF Users, LeasesForObjects
    <3>2. CASE c # a
      BY <2>1, <3>2, Apart DEF Renewals, ReleasedNotRenewed
    <3> QED
      BY <3>1, <3>2
  <2> QED
    BY <2>3, <2>4, <2>5, <2>6, <2>7 DEF Renewals
<1>3. CASE UnlockNotLocked(a)
  <2>1. \A l \in Lease : leaseLock[l] = obj[a] => renewal[l] # "open"
    BY <1>3 DEF UnlockNotLocked, Renewals, RenewedIsLocked
  <2> QED
    BY <1>2, <1>3, <2>1 DEF UnlockNotLocked, Free
<1>4. CASE UnlockStart(a)
  <2>1. /\ obj[a] \in Lock /\ StopAutoRenew(obj[a]) /\ pc[a] \in UnlockFrom
        /\ UNCHANGED <<isLocked, leaseLock, mon, obj, lease>>
        /\ pc' = [pc EXCEPT ![a] = Unlocking(pc[a])]
    BY <1>4 DEF UnlockStart, Free, Goto
  <2>2. /\ \A b \in Actor : b # a => pc'[b] = pc[b]
        /\ pc'[a] \in {"unlocking", "removing", "releasing"}
    BY <2>1, ReleaseTypes DEF Unlocking, UnlockFrom
  <2>3. WatchedForCaller'
    BY <1>1, <2>1, <2>2 DEF Trying, Watched
  <2>4. WatchesOwn' /\ RenewedIsLocked'
    BY <2>1, StopEndsAll
  <2>5. RevokesStopped'
    <3>1. \A b \in Actor : Revoking(b) => obj[b] \in Lock
      BY DEF Users, MutexHeld
    <3>2. \A b \in Actor : Revoking(b)' => b = a \/ Revoking(b)
      BY <2>2 DEF Revoking
    <3> QED
      BY <2>1, <3>1, <3>2, StopEndsAll DEF Renewals, RevokesStopped
  <2>6. ReleasedNotRenewed'
    <3>1. \A c \in Caller : lease[c] # NoLease => lease[c] \in Lease
      BY Apart, ReleaseTypes
    <3> QED
      BY <2>1, <2>2, <3>1, StopEndsAll, Apart DEF Renewals, ReleasedNotRenewed
  <2> QED
    BY <2>3, <2>4, <2>5, <2>6 DEF Renewals
<1>5. CASE UnlockRevoked(a) \/ UnlockFails(a)
  <2>1. PICK ok \in BOOLEAN :
          /\ Revoking(a) /\ AfterUnlock(a, ok)
          /\ UNCHANGED <<obj, lease, renewVars, cancelFunc, keepAliveCh>>
          /\ UNCHANGED isLocked \/ isLocked' = [isLocked EXCEPT ![obj[a]] = FALSE]
    BY <1>5 DEF UnlockRevoked, UnlockFails
  <2>2. obj[a] \in Lock /\ cancelFunc[obj[a]] = NoLease
    BY <2>1 DEF Users, MutexHeld, Renewals, RevokesStopped
  <2>3. \A l \in Lease : leaseLock[l] = obj[a] => renewal[l] # "open"
    BY <2>2, Apart DEF Renewals, RenewedIsLocked
  <2>4. \A p \in Lock : p # obj[a] => isLocked'[p] = isLocked[p]
    BY <2>1, ReleaseTypes
  <2> QED
    BY <1>2, <2>1, <2>2, <2>3, <2>4
<1> QED
  BY <1>3, <1>4, <1>5 DEF UnlockStep

LEMMA RenewalStepRenewals ==
  ASSUME IInv, OneExecution, Users, Renewals, NEW l \in Lease,
         \/ MonitorStep(l) \/ MonitorResponse(l) \/ RenewalCloses(l)
         \/ StreamLost(l) \/ LeaseExpires(l)
  PROVE  Users' /\ Renewals'
<1> USE DEF etcdVars, lockVars, renewVars, managerVars, actorVars
<1>1. UNCHANGED <<home, cancelFunc, keepAliveCh, mutex, leaseLock, locks, pc, obj, lease, runs>>
  BY DEF MonitorStep, MonitorSelect, MonitorClosed, MonitorFailure, MonitorResponse,
         RenewalCloses, StreamLost, LeaseExpires
<1>2. Users'
  BY <1>1 DEF Users, UsedAtHome, MutexHeld, RunsCounted, LeasesForObjects, NotCleaning, Revoking
<1>3. RevokesStopped'
  BY <1>1 DEF Renewals, RevokesStopped, Revoking
<1>4. ASSUME \A m \in Lease : Watched(m)' => Watched(m) PROVE WatchedForCaller'
  BY <1>1, <1>4 DEF Renewals, WatchedForCaller
<1>5. CASE MonitorSelect(l) \/ MonitorResponse(l) \/ MonitorClosed(l)
  <2>1. UNCHANGED <<isLocked, renewal>> /\ Watched(l)
        /\ \A m \in Lease : m # l => mon'[m] = mon[m]
    BY <1>5, ReleaseTypes DEF MonitorSelect, MonitorResponse, MonitorClosed, Watched
  <2>2. /\ mon'[l].pc \in {"loop", "recv", "failed"} /\ mon'[l].ch \in {NoLease, l}
        /\ mon'[l].pc = "failed" => renewal[l] = "closed"
    <3>1. mon[l].ch \in {NoLease, l} /\ keepAliveCh[leaseLock[l]] \in {NoLease, l}
      BY <2>1 DEF Renewals, WatchesOwn
    <3>2. CASE MonitorSelect(l)
      <4>1. mon'[l] = [pc |-> "recv", ch |-> keepAliveCh[leaseLock[l]]]
        BY <3>2, ReleaseTypes DEF MonitorSelect
      <4> QED
        BY <3>1, <4>1
    <3>3. CASE MonitorResponse(l)
      BY <3>1, <3>3, ReleaseTypes DEF MonitorResponse
    <3>4. CASE MonitorClosed(l)
      BY <3>1, <3>4, ReleaseTypes DEF MonitorClosed
    <3> QED
      BY <1>5, <3>2, <3>3, <3>4
  <2>3. \A m \in Lease : Watched(m)' <=> Watched(m)
    BY <2>1, <2>2 DEF Watched
  <2>4. WatchesOwn'
    BY <1>1, <2>1, <2>2, <2>3 DEF Renewals, WatchesOwn
  <2>5. RenewedIsLocked' /\ ReleasedNotRenewed'
    BY <1>1, <2>1, <2>3 DEF Renewals, RenewedIsLocked, ReleasedNotRenewed
  <2> QED
    BY <1>2, <1>3, <1>4, <2>3, <2>4, <2>5 DEF Renewals
<1>6. CASE MonitorFailure(l)
  <2> DEFINE o == leaseLock[l]
  <2>1. /\ Watched(l) /\ mon[l].pc = "failed" /\ o \in Lock /\ UNCHANGED renewal
        /\ isLocked' = [isLocked EXCEPT ![o] = FALSE]
        /\ mon' = [mon EXCEPT ![l] = [pc |-> "done", ch |-> NoLease]]
    BY <1>6 DEF MonitorFailure, Free, Watched
  <2>2. /\ mon'[l].pc = "done" /\ \A m \in Lease : m # l => mon'[m] = mon[m]
        /\ \A p \in Lock : p # o => isLocked'[p] = isLocked[p]
    BY <2>1, ReleaseTypes
  <2>3. \A m \in Lease : Watched(m)' <=> Watched(m) /\ m # l
    BY <2>2 DEF Watched
  <2>4. \A m \in Lease : Watched(m) /\ leaseLock[m] = o => m = l
    <3> SUFFICES ASSUME NEW m \in Lease, Watched(m), leaseLock[m] = o PROVE m = l
      OBVIOUS
    <3>1. PICK c \in Caller : lease[c] = l /\ obj[c] = o
      BY <2>1 DEF Renewals, WatchedForCaller
    <3>2. PICK d \in Caller : lease[d] = m /\ obj[d] = o
      BY DEF Renewals, WatchedForCaller
    <3>3. c = d
      BY <2>1, <3>1, <3>2, OwnObjects DEF Users
    <3> QED
      BY <3>1, <3>2, <3>3
  <2>5. \A m \in Lease : renewal[m] = "open" => m # l /\ leaseLock[m] # o /\ leaseLock[m] \in Lock
    <3>1. renewal[l] = "closed"
      BY <2>1 DEF Renewals, WatchesOwn
    <3> QED
      BY <2>4, <3>1 DEF Renewals, RenewedIsLocked, IInv, MonitorsBound, Watched
  <2>6. WatchesOwn'
    BY <1>1, <2>1, <2>2, <2>3 DEF Renewals, WatchesOwn
  <2>7. RenewedIsLocked'
    BY <1>1, <2>1, <2>2, <2>3, <2>5 DEF Renewals, RenewedIsLocked
  <2>8. ReleasedNotRenewed'
    BY <1>1, <2>1 DEF Renewals, ReleasedNotRenewed
  <2> QED
    BY <1>2, <1>3, <1>4, <2>3, <2>6, <2>7, <2>8 DEF Renewals
<1>7. CASE RenewalCloses(l) \/ StreamLost(l) \/ LeaseExpires(l)
  <2>1. UNCHANGED <<isLocked, mon>>
        /\ \A m \in Lease : renewal'[m] = renewal[m] \/ renewal'[m] = "closed"
    BY <1>7, ReleaseTypes DEF RenewalCloses, StreamLost, LeaseExpires
  <2>2. \A m \in Lease : Watched(m)' <=> Watched(m)
    BY <2>1 DEF Watched
  <2>3. WatchesOwn'
    BY <1>1, <2>1, <2>2 DEF Renewals, WatchesOwn
  <2>4. RenewedIsLocked'
    BY <1>1, <2>1, <2>2 DEF Renewals, RenewedIsLocked
  <2>5. ReleasedNotRenewed'
    <3>1. \A c \in Caller : lease[c] # NoLease => lease[c] \in Lease
      BY Apart, ReleaseTypes
    <3> QED
      BY <1>1, <2>1, <3>1 DEF Renewals, ReleasedNotRenewed
  <2> QED
    BY <1>2, <1>3, <1>4, <2>2, <2>3, <2>4, <2>5 DEF Renewals
<1> QED
  BY <1>5, <1>6, <1>7 DEF MonitorStep

LEMMA ManagerStepRenewals ==
  ASSUME IInv, Users, Renewals, NEW w \in Worker, StopManager(w) \/ ReleaseLock(w) \/ Crash(w)
  PROVE  Renewals'
<1>1. w \in Actor /\ w \notin Caller
  BY Apart
<1>2. \A l \in Lease : Watched(l) => leaseLock[l] \in Lock
  BY DEF IInv, MonitorsBound, Watched
<1>3. CASE StopManager(w) \/ ReleaseLock(w)
  <2>1. /\ UNCHANGED <<isLocked, cancelFunc, keepAliveCh, renewal, mon, leaseLock, lease>>
        /\ \A a \in Actor : a # w => pc'[a] = pc[a] /\ obj'[a] = obj[a]
        /\ pc'[w] \in {"idle", "remove", "release"}
    BY <1>1, <1>3, ReleaseTypes
       DEF StopManager, ReleaseLock, Goto, etcdVars, lockVars, renewVars, managerVars
  <2>2. \A c \in Caller : pc'[c] = pc[c] /\ obj'[c] = obj[c]
    BY <1>1, <2>1, Apart
  <2>3. \A l \in Lease : Watched(l)' <=> Watched(l)
    BY <2>1 DEF Watched
  <2>4. WatchedForCaller'
    BY <2>1, <2>2, <2>3 DEF Renewals, WatchedForCaller
  <2>5. WatchesOwn' /\ RenewedIsLocked'
    BY <2>1, <2>3 DEF Renewals, WatchesOwn, RenewedIsLocked
  <2>6. RevokesStopped' /\ ReleasedNotRenewed'
    BY <2>1, <2>2 DEF Renewals, RevokesStopped, ReleasedNotRenewed, Revoking
  <2> QED
    BY <2>4, <2>5, <2>6 DEF Renewals
<1>4. CASE Crash(w)
  <2> DEFINE mine(a) == a = w \/ (a \in Caller /\ WorkerOf[a] = w)
             dead(o) == o \in Lock /\ home[o] = w
  <2>1. /\ UNCHANGED leaseLock
        /\ \A a \in Actor : IF mine(a) THEN pc'[a] = "idle"
                            ELSE pc'[a] = pc[a] /\ obj'[a] = obj[a] /\ lease'[a] = lease[a]
        /\ \A o \in Lock : /\ ~dead(o) => /\ isLocked'[o] = isLocked[o]
                                          /\ cancelFunc'[o] = cancelFunc[o]
                                          /\ keepAliveCh'[o] = keepAliveCh[o]
                           /\ cancelFunc'[o] \in {cancelFunc[o], NoLease}
        /\ \A l \in Lease : IF dead(leaseLock[l])
                            THEN renewal'[l] = "closed" /\ mon'[l].pc = "done"
                            ELSE renewal'[l] = renewal[l] /\ mon'[l] = mon[l]
    BY <1>4, ReleaseTypes DEF Crash
  <2> HIDE DEF dead
  <2>2. \A l \in Lease : Watched(l)' => Watched(l) /\ ~dead(leaseLock[l])
    BY <2>1 DEF Watched
  <2>3. WatchedForCaller'
    <3> SUFFICES ASSUME NEW l \in Lease, Watched(l)'
                 PROVE  \E c \in Caller : /\ lease'[c] = l /\ obj'[c] = leaseLock'[l]
                                          /\ pc'[c] \notin Trying \cup {"created"}
      BY DEF WatchedForCaller
    <3>1. PICK c \in Caller : /\ lease[c] = l /\ obj[c] = leaseLock[l]
                              /\ pc[c] \notin Trying \cup {"created"}
      BY <2>2 DEF Renewals, WatchedForCaller
    <3>2. ~mine(c)
      <4>1. obj[c] \in Lock /\ home[obj[c]] # w
        BY <1>2, <2>2, <3>1 DEF dead
      <4> QED
        BY <1>1, <4>1 DEF Users, UsedAtHome
    <3> QED
      BY <2>1, <3>1, <3>2, Apart
  <2>4. WatchesOwn'
    BY <1>2, <2>1, <2>2 DEF Renewals, WatchesOwn
  <2>5. RenewedIsLocked'
    <3> SUFFICES ASSUME NEW l \in Lease, renewal'[l] = "open"
                 PROVE  Watched(l)' /\ isLocked'[leaseLock'[l]] /\ cancelFunc'[leaseLock'[l]] = l
      BY DEF RenewedIsLocked
    <3>1. ~dead(leaseLock[l]) /\ renewal[l] = "open" /\ mon'[l] = mon[l]
      BY <2>1
    <3>2. Watched(l) /\ isLocked[leaseLock[l]] /\ cancelFunc[leaseLock[l]] = l
      BY <3>1 DEF Renewals, RenewedIsLocked
    <3> QED
      BY <1>2, <2>1, <3>1, <3>2 DEF Watched
  <2>6. RevokesStopped'
    <3>1. \A a \in Actor : Revoking(a)' => ~mine(a) /\ Revoking(a) /\ obj[a] \in Lock
      BY <2>1 DEF Revoking, Users, MutexHeld
    <3> QED
      BY <2>1, <3>1 DEF Renewals, RevokesStopped
  <2>7. ReleasedNotRenewed'
    <3>1. \A c \in Caller : pc'[c] = "released" => pc[c] = "released" /\ lease'[c] = lease[c]
      BY <2>1, Apart
    <3>2. \A l \in Lease : renewal'[l] = "open" => renewal[l] = "open"
      BY <2>1
    <3>3. \A c \in Caller : lease[c] # NoLease => lease[c] \in Lease
      BY Apart, ReleaseTypes
    <3> QED
      BY <3>1, <3>2, <3>3 DEF Renewals, ReleasedNotRenewed
  <2> QED
    BY <2>3, <2>4, <2>5, <2>6, <2>7 DEF Renewals
<1> QED
  BY <1>3, <1>4

-----------------------------------------------------------------------------
(* The invariant of both                                                     *)

LEMMA InitReleases == Init => Users /\ Renewals
<1> SUFFICES ASSUME Init PROVE Users /\ Renewals
  OBVIOUS
<1>1. /\ \A a \in Actor : pc[a] = "idle" /\ obj[a] = NoLock /\ lease[a] = NoLease
      /\ \A w \in Worker : locks[w] = NoLock
      /\ \A l \in Lease : renewal[l] = "none" /\ mon[l].pc = "none"
  BY DEF Init
<1>2. Users
  BY <1>1, Apart DEF Users, UsedAtHome, MutexHeld, RunsCounted, LeasesForObjects, NotCleaning,
                     Trying, Revoking
<1>3. Renewals
  BY <1>1, Apart DEF Renewals, WatchedForCaller, WatchesOwn, RenewedIsLocked, RevokesStopped,
                     ReleasedNotRenewed, Watched, Revoking
<1> QED
  BY <1>2, <1>3

LEMMA NextReleases ==
  OneExecution /\ IInv /\ Users /\ Renewals /\ [Next]_vars => Users' /\ Renewals'
<1> SUFFICES ASSUME OneExecution, IInv, Users, Renewals, [Next]_vars PROVE Users' /\ Renewals'
  OBVIOUS
<1>1. ASSUME NEW w \in Worker, CleanupStart(w) \/ CleanupStep(w) PROVE FALSE
  BY <1>1 DEF OneExecution, Users, NotCleaning, CleanupStart, CleanupStep, CleanupReadLease,
              CleanupReadLocked, CleanupValidate, CleanupRecheck
<1>2. ASSUME NEW o \in Lock, StopRenewal(o) PROVE Users' /\ Renewals'
  <2>1. /\ StopAutoRenew(o)
        /\ UNCHANGED <<home, isLocked, mutex, leaseLock, mon, locks, pc, obj, lease, runs>>
    BY <1>2 DEF StopRenewal, managerVars, actorVars
  <2>2. Users'
    BY <2>1 DEF Users, UsedAtHome, MutexHeld, RunsCounted, LeasesForObjects, NotCleaning, Revoking
  <2>3. WatchedForCaller'
    BY <2>1 DEF Renewals, WatchedForCaller, Watched
  <2>4. WatchesOwn' /\ RenewedIsLocked'
    BY <2>1, StopEndsAll
  <2>5. RevokesStopped'
    <3>1. \A a \in Actor : Revoking(a)' => Revoking(a) /\ obj[a] \in Lock
      BY <2>1 DEF Users, MutexHeld, Revoking
    <3> QED
      BY <2>1, <3>1, StopEndsAll DEF Renewals, RevokesStopped
  <2>6. ReleasedNotRenewed'
    <3>1. \A c \in Caller : lease[c] # NoLease => lease[c] \in Lease
      BY Apart, ReleaseTypes
    <3> QED
      BY <2>1, <3>1, StopEndsAll DEF Renewals, ReleasedNotRenewed
  <2> QED
    BY <2>2, <2>3, <2>4, <2>5, <2>6 DEF Renewals
<1>3. CASE UNCHANGED vars
  BY <1>3 DEF vars, etcdVars, lockVars, renewVars, managerVars, actorVars, Users, UsedAtHome,
              MutexHeld, RunsCounted, LeasesForObjects, NotCleaning, Revoking, Renewals,
              WatchedForCaller, WatchesOwn, RenewedIsLocked, RevokesStopped, ReleasedNotRenewed,
              Watched
<1> QED
  BY <1>1, <1>2, <1>3, CallerStepUsers, CallerStepRenewals, UnlockStepUsers, UnlockStepRenewals,
     RenewalStepRenewals, ManagerStepUsers, ManagerStepRenewals DEF Next

\* Where each worker runs the job once and no cleanup runs, the lease of a caller whose
\* Unlock returned without an error is never renewed again, whatever is lost, fails, stops
\* or crashes meanwhile: another worker gets the lock when the lease ends.
THEOREM ReleaseEndsRenewal == OneExecution => (Spec => []ReleasedKeyIsNotRenewed)
<1> SUFFICES ASSUME OneExecution PROVE Spec => []ReleasedKeyIsNotRenewed
  OBVIOUS
<1>1. Init => IInv /\ Users /\ Renewals
  BY InitIInv, InitReleases
<1>2. IInv /\ Users /\ Renewals /\ [Next]_vars => IInv' /\ Users' /\ Renewals'
  BY NextIInv, NextReleases
<1>3. Renewals => ReleasedKeyIsNotRenewed
  BY DEF Renewals, ReleasedNotRenewed, ReleasedKeyIsNotRenewed
<1> QED
  BY <1>1, <1>2, <1>3, PTL DEF Spec
=============================================================================
