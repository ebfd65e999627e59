------------------------- MODULE WorkerSchedulerProofs -------------------------
(***************************************************************************)
(* Proofs about WorkerScheduler for every set of workers, jobs and         *)
(* goroutines, every limit and every bound.  What of Env a theorem needs    *)
(* is in its statement.                                                    *)
(***************************************************************************)
EXTENDS WorkerScheduler, FiniteSetTheorems, TLAPS

ExecRec == [pc : ExecPC, job : Job \cup {None}, obj : Obj \cup {None},
            ok : BOOLEAN, exists : BOOLEAN]

HandlerRec == [pc : HandlerPC, job : Job \cup {None}, val : JobVal \cup {None}, flag : BOOLEAN]

LoaderRec == [pc : {"idle", "list", "add"}, todo : [Job -> JobVal \cup {None}]]

\* An execution has a job and a ScheduledJob from its beginning to its end, and succeeds
\* only when it is over.
ActiveOK(x) ==
  /\ IF x.pc = "idle" THEN x.obj = None ELSE x.job \in Job /\ x.obj \in Obj
  /\ x.ok => x.pc \in TailPC

\* The event goroutine has the event in hand until it is handled.
TurnOK(h) ==
  /\ h.pc # "idle" => h.job \in Job
  /\ h.pc \in {"save", "update", "push", "copy", "write", "killCache"} => h.val \in JobVal

(* TypeOK in the parts that a step leaves alone together, with what an      *)
(* execution and the event goroutine have in hand.                         *)
EtcdOK == store \in [Job -> JobVal \cup {None}] /\ inbox \in [Worker -> Seq(Event)]

FateOK == fate \in [Job -> {"new", "created", "deleted"}]

LockOK == lockOwner \in [Job -> Worker \cup {None, Dead}]

LifeOK == life \in [Worker -> {"down", "listed", "watching", "up", "stopped"}]

ManagerOK ==
  /\ cache \in [Worker -> [Job -> JobVal \cup {None}]]
  /\ mgrRunning \in [Worker -> SUBSET Job]

HandlerOK == handler \in [Worker -> HandlerRec] /\ \A w \in Worker : TurnOK(handler[w])

SchedOK ==
  /\ queue \in [Worker -> [Job -> Obj \cup {None}]]
  /\ runningJobs \in [Worker -> [Job -> Obj \cup {None}]]
  /\ due \in [Worker -> [Job -> Obj \cup {None}]]

LoaderOK == loader \in [Worker -> LoaderRec]

ObjsOK == objs \in [Obj -> Entry]

ExecOK ==
  /\ exec \in [Worker -> [Exec -> ExecRec]]
  /\ \A w \in Worker, e \in Exec : ActiveOK(exec[w][e])

BoundsOK == ops \in 0..MaxOps /\ runs \in 0..MaxRuns

IInv ==
  /\ EtcdOK /\ FateOK /\ LockOK /\ LifeOK /\ ManagerOK /\ HandlerOK /\ SchedOK /\ LoaderOK
  /\ ObjsOK /\ ExecOK /\ BoundsOK

LEMMA IInvIsTyped == IInv => TypeOK
BY DEF IInv, EtcdOK, FateOK, LockOK, LifeOK, ManagerOK, HandlerOK, SchedOK, LoaderOK, ObjsOK,
       ExecOK, BoundsOK, TypeOK, ExecRec, HandlerRec, LoaderRec

-----------------------------------------------------------------------------
(* Objects                                                                   *)

LEMMA NoneIsNoObj == None \notin Obj
BY SchedulerAssumption DEF Obj

LEMMA NewIsUnused == ASSUME Room PROVE New \in Obj /\ New \notin Used
BY Zenon DEF Room, New

LEMMA BlankIsEntry == Blank \in Entry
<1>1. Fresh \in JobVal
  BY DEF Fresh, JobVal
<1>2. 0 \in 0..MaxRetries
  BY SchedulerAssumption
<1> QED
  BY <1>1, <1>2 DEF Blank, Entry

LEMMA HeapIsTyped == ASSUME NEW h \in [Obj -> Entry], Heap(h) PROVE ObjsOK'
BY BlankIsEntry DEF Heap, ObjsOK

\* What is in use is as the step leaves it.
LEMMA HeapKeeps ==
  ASSUME NEW h, Heap(h), NEW o \in Obj, o \in Used'
  PROVE  objs'[o] = h[o]
BY DEF Heap

LEMMA NewEntryIsEntry ==
  ASSUME NEW j, NEW v \in JobVal, NEW b \in BOOLEAN, NEW n, n = NewEntry(j, v, b)
  PROVE  n \in Entry /\ n.retry = 0 /\ n.lock = FALSE
<1>1. 0 \in 0..MaxRetries
  BY SchedulerAssumption
<1>2. NextRunTime(j) \in {"never", "later", "due"}
  BY DEF NextRunTime
<1>3. n = [val |-> v, next |-> NextRunTime(j), isRunning |-> b, retry |-> 0, lock |-> FALSE]
  BY DEF NewEntry, Blank
<1> QED
  BY <1>1, <1>2, <1>3 DEF Entry

-----------------------------------------------------------------------------
(* etcd and the job manager                                                  *)

LEMMA BroadcastIsTyped ==
  ASSUME EtcdOK, NEW ev \in Event, Broadcast(ev)
  PROVE  inbox' \in [Worker -> Seq(Event)]
BY DEF EtcdOK, Broadcast

LEMMA PutIsTyped == ASSUME EtcdOK, NEW j \in Job, NEW v \in JobVal, Put(j, v) PROVE EtcdOK'
<1>1. [type |-> "put", job |-> j, val |-> v] \in Event
  BY DEF Event
<1>2. inbox' \in [Worker -> Seq(Event)]
  BY <1>1, BroadcastIsTyped DEF Put
<1>3. store' \in [Job -> JobVal \cup {None}]
  BY DEF Put, EtcdOK
<1> QED
  BY <1>2, <1>3 DEF EtcdOK

LEMMA ReportedIsVal ==
  ASSUME NEW w \in Worker, NEW v \in JobVal, NEW s \in {"pending", "running", "ended"}
  PROVE  Reported(w, v, s) \in JobVal
<1> DEFINE x == IF s = "running" THEN w ELSE v.executor
<1>1. x \in Worker \cup {None}
  BY DEF JobVal
<1>2. Reported(w, v, s) = [v EXCEPT !.status = s, !.executor = x]
  BY DEF Reported
<1> HIDE DEF x
<1> QED
  BY <1>1, <1>2 DEF JobVal

LEMMA CacheStatusIsTyped ==
  ASSUME ManagerOK, NEW w \in Worker, NEW j \in Job, NEW v \in JobVal, CacheStatus(w, j, v)
  PROVE  ManagerOK'
<1>1. cache' \in [Worker -> [Job -> JobVal \cup {None}]]
  BY DEF ManagerOK, CacheStatus
<1>2. mgrRunning' \in [Worker -> SUBSET Job]
  BY DEF ManagerOK, CacheStatus
<1> QED
  BY <1>1, <1>2 DEF ManagerOK

LEMMA KnownIsVal ==
  ASSUME IInv, NEW w \in Worker, NEW j \in Job
  PROVE  Known(w, j) \in JobVal \cup {None}
BY DEF IInv, EtcdOK, ManagerOK, Known

LEMMA GetJobIsTyped ==
  ASSUME IInv, NEW w \in Worker, NEW j \in Job, GetJob(w, j), UNCHANGED mgrRunning
  PROVE  ManagerOK'
BY KnownIsVal DEF IInv, ManagerOK, GetJob

-----------------------------------------------------------------------------
(* Steps of an execution                                                     *)

\* Of an execution only the step changes.
Same(x, y) == x.job = y.job /\ x.obj = y.obj /\ x.ok = y.ok /\ x.exists = y.exists

LEMMA GoMoves ==
  ASSUME ExecOK, NEW w \in Worker, NEW e \in Exec, NEW p \in ExecPC, Go(w, e, p)
  PROVE  \E x \in ExecRec : /\ exec' = [exec EXCEPT ![w][e] = x]
                            /\ x.pc = p /\ Same(x, exec[w][e])
<1> DEFINE y == exec[w][e]
           x == [y EXCEPT !.pc = p]
<1>1. y \in ExecRec /\ exec \in [Worker -> [Exec -> ExecRec]]
  BY DEF ExecOK
<1>2. exec' = [exec EXCEPT ![w][e] = x]
  BY <1>1 DEF Go, ExecRec
<1>3. x \in ExecRec /\ x.pc = p /\ Same(x, y)
  BY <1>1 DEF ExecRec, Same
<1> HIDE DEF x
<1> QED
  BY <1>2, <1>3

LEMMA ExecMoves ==
  ASSUME ExecOK, NEW w \in Worker, NEW e \in Exec, NEW x \in ExecRec, ActiveOK(x),
         exec' = [exec EXCEPT ![w][e] = x]
  PROVE  /\ ExecOK' /\ exec'[w][e] = x
         /\ \A v \in Worker, f \in Exec : v # w \/ f # e => exec'[v][f] = exec[v][f]
<1>1. /\ exec' \in [Worker -> [Exec -> ExecRec]] /\ exec'[w][e] = x
      /\ \A v \in Worker, f \in Exec : v # w \/ f # e => exec'[v][f] = exec[v][f]
  BY DEF ExecOK
<1>2. \A v \in Worker, f \in Exec : ActiveOK(exec'[v][f])
  BY <1>1 DEF ExecOK
<1>3. \A v \in Worker, f \in Exec : ActiveOK(exec[v][f])'
  BY <1>2 DEF ActiveOK
<1> QED
  BY <1>1, <1>3 DEF ExecOK

LEMMA IdleIsRec == Idle \in ExecRec /\ ActiveOK(Idle) /\ Idle.pc = "idle" /\ Idle.obj = None
BY DEF Idle, Begun, ExecRec, ExecPC, ActiveOK

\* A goroutine that begins an execution, or will after RetryDelay.
LEMMA BegunIsRec ==
  ASSUME NEW p \in {"start", "sleep"}, NEW j \in Job, NEW o \in Obj
  PROVE  LET x == Begun(p, j, o)
         IN  /\ x \in ExecRec /\ ActiveOK(x)
             /\ x.pc = p /\ x.job = j /\ x.obj = o /\ x.ok = FALSE /\ x.exists = FALSE
<1> DEFINE x == Begun(p, j, o)
<1>1. p \in ExecPC
  BY DEF ExecPC
<1>2. x \in ExecRec
  BY <1>1 DEF ExecRec, Begun
<1>3. x.pc = p /\ x.job = j /\ x.obj = o /\ x.ok = FALSE /\ x.exists = FALSE
  BY DEF Begun
<1> HIDE DEF x
<1>4. ActiveOK(x)
  BY <1>3 DEF ActiveOK
<1> QED
  BY <1>2, <1>3, <1>4 DEF x

\* What an execution has in hand.
LEMMA InHand ==
  ASSUME IInv, NEW w \in Worker, NEW e \in Exec, exec[w][e].pc # "idle"
  PROVE  /\ exec[w][e] \in ExecRec /\ exec[w][e].job \in Job /\ exec[w][e].obj \in Obj
         /\ exec[w][e].ok => exec[w][e].pc \in TailPC
         /\ exec[w][e].ok \in BOOLEAN /\ exec[w][e].exists \in BOOLEAN
         /\ objs[exec[w][e].obj] \in Entry /\ objs[exec[w][e].obj].val \in JobVal
         /\ objs[exec[w][e].obj].retry \in 0..MaxRetries
<1>1. exec[w][e] \in ExecRec /\ ActiveOK(exec[w][e])
  BY DEF IInv, ExecOK
<1>2. /\ exec[w][e].obj \in Obj /\ exec[w][e].job \in Job
      /\ exec[w][e].ok => exec[w][e].pc \in TailPC
  BY <1>1 DEF ActiveOK
<1>3. objs[exec[w][e].obj] \in Entry
  BY <1>2 DEF IInv, ObjsOK
<1> QED
  BY <1>1, <1>2, <1>3 DEF ExecRec, Entry

\* A step that changes nothing but what one execution has in hand, and the heap.
LEMMA ExecKeepsRest ==
  ASSUME IInv, UNCHANGED execUnchanged
  PROVE  /\ LifeOK' /\ HandlerOK' /\ BoundsOK' /\ FateOK'
         /\ UNCHANGED loader => LoaderOK'
         /\ UNCHANGED lockOwner => LockOK'
         /\ UNCHANGED etcdVars => EtcdOK'
         /\ UNCHANGED managerVars => ManagerOK'
         /\ UNCHANGED schedVars => SchedOK' /\ LoaderOK'
         /\ UNCHANGED objs => ObjsOK'
<1>1. UNCHANGED <<life, handler, ops, runs, fate>>
  BY DEF execUnchanged, bounds
<1>2. LifeOK' /\ HandlerOK' /\ BoundsOK' /\ FateOK'
  BY <1>1 DEF IInv, LifeOK, HandlerOK, BoundsOK, FateOK, TurnOK
<1>3. UNCHANGED loader => LoaderOK'
  BY DEF IInv, LoaderOK
<1>4. UNCHANGED lockOwner => LockOK'
  BY DEF IInv, LockOK
<1>5. UNCHANGED etcdVars => EtcdOK'
  BY DEF IInv, EtcdOK, etcdVars
<1>6. UNCHANGED managerVars => ManagerOK'
  BY DEF IInv, ManagerOK, managerVars
<1>7. UNCHANGED schedVars => SchedOK' /\ LoaderOK'
  BY DEF IInv, SchedOK, LoaderOK, schedVars
<1>8. UNCHANGED objs => ObjsOK'
  BY DEF IInv, ObjsOK
<1> QED
  BY <1>2, <1>3, <1>4, <1>5, <1>6, <1>7, <1>8

LEMMA GoIsTyped ==
  ASSUME IInv, NEW w \in Worker, NEW e \in Exec, NEW p \in ExecPC \ {"idle"}, Go(w, e, p),
         exec[w][e].pc # "idle", exec[w][e].pc \in TailPC => p \in TailPC
  PROVE  ExecOK'
<1>1. PICK x \in ExecRec : exec' = [exec EXCEPT ![w][e] = x] /\ x.pc = p /\ Same(x, exec[w][e])
  BY GoMoves DEF IInv
<1>2. ActiveOK(x)
  <2>1. ActiveOK(exec[w][e])
    BY DEF IInv, ExecOK
  <2> QED
    BY <1>1, <2>1 DEF ActiveOK, Same
<1> QED
  BY <1>1, <1>2, ExecMoves DEF IInv

LEMMA EndIsTyped ==
  ASSUME IInv, NEW w \in Worker, NEW e \in Exec, End(w, e)
  PROVE  ExecOK'
BY IdleIsRec, ExecMoves DEF End, IInv

LEMMA SameHeapIsTyped == ASSUME IInv, Heap(objs) PROVE ObjsOK'
BY HeapIsTyped DEF IInv, ObjsOK

\* One object of the heap changes.
LEMMA ObjMoves ==
  ASSUME IInv, NEW o \in Obj, NEW n \in Entry, Heap([objs EXCEPT ![o] = n])
  PROVE  ObjsOK'
<1>1. [objs EXCEPT ![o] = n] \in [Obj -> Entry]
  BY DEF IInv, ObjsOK
<1> QED
  BY <1>1, HeapIsTyped

LEMMA CheckAssignedPreserves ==
  ASSUME IInv, NEW w \in Worker, NEW e \in Exec, CheckAssigned(w, e)
  PROVE  IInv'
<1>1. "lock" \in ExecPC \ {"idle"} /\ exec[w][e].pc # "idle"
      /\ exec[w][e].pc \notin TailPC
  BY DEF TailPC, ExecPC, CheckAssigned, At
<1>2. ExecOK'
  BY <1>1, GoIsTyped, EndIsTyped DEF CheckAssigned
<1>3. ObjsOK'
  BY SameHeapIsTyped DEF CheckAssigned
<1> QED
  BY <1>2, <1>3, ExecKeepsRest DEF CheckAssigned, IInv

LEMMA TryLockPreserves ==
  ASSUME IInv, NEW w \in Worker, NEW e \in Exec, TryLock(w, e) \/ TryLockFails(w, e)
  PROVE  IInv'
<1>1. "locked" \in ExecPC \ {"idle"} /\ exec[w][e].pc # "idle"
      /\ exec[w][e].pc \notin TailPC
  BY DEF TailPC, ExecPC, TryLock, TryLockFails, At
<1>2. ExecOK'
  BY <1>1, GoIsTyped, EndIsTyped DEF TryLock, TryLockFails
<1>3. ObjsOK'
  BY SameHeapIsTyped, ExecKeepsRest DEF TryLock, TryLockFails
<1>4. LockOK'
  BY ExecKeepsRest DEF TryLock, TryLockFails, IInv, LockOK
<1> QED
  BY <1>2, <1>3, <1>4, ExecKeepsRest DEF TryLock, TryLockFails, IInv

LEMMA BeginPreserves ==
  ASSUME IInv, NEW w \in Worker, NEW e \in Exec, Begin(w, e)
  PROVE  IInv'
<1> DEFINE x == exec[w][e]
           n == [objs[x.obj] EXCEPT !.lock = TRUE, !.isRunning = TRUE]
<1>1. "report" \in ExecPC \ {"idle"} /\ x.pc # "idle"
      /\ exec[w][e].pc \notin TailPC
  BY DEF TailPC, ExecPC, StoredPC, Begin, At
<1>2. x.job \in Job /\ x.obj \in Obj /\ objs[x.obj] \in Entry
  BY <1>1, InHand
<1>3. ExecOK'
  BY <1>1, GoIsTyped DEF Begin
<1>4. n \in Entry
  BY <1>2 DEF Entry
<1>5. PICK g : Heap(g) /\ g = [objs EXCEPT ![x.obj] = n]
  <2>1. PICK g : Heap(g) /\ g = [objs EXCEPT ![x.obj].lock = TRUE, ![x.obj].isRunning = TRUE]
    BY Zenon DEF Begin
  <2>2. objs \in [Obj -> Entry]
    BY DEF IInv, ObjsOK
  <2>3. g = [objs EXCEPT ![x.obj] = n]
    BY <1>2, <2>1, <2>2 DEF Entry
  <2> QED
    BY <2>1, <2>3
<1>6. runningJobs' = [runningJobs EXCEPT ![w][x.job] = x.obj]
      /\ UNCHANGED <<execUnchanged, etcdVars, lockOwner, managerVars, queue, due, loader>>
  BY DEF Begin
<1> HIDE DEF n
<1>7. ObjsOK'
  BY <1>2, <1>4, <1>5, ObjMoves
<1> HIDE DEF x
<1>8. SchedOK'
  BY <1>2, <1>6 DEF SchedOK, IInv
<1> QED
  BY <1>3, <1>6, <1>7, <1>8, ExecKeepsRest DEF IInv

LEMMA ReportPutPreserves ==
  ASSUME IInv, NEW w \in Worker, NEW e \in Exec, exec[w][e].pc # "idle",
         NEW s \in {"running", "ended"},
         NEW p \in ExecPC \ {"idle"}, NEW q \in ExecPC \ {"idle"}, ReportPut(w, e, s, p, q),
         exec[w][e].pc \in TailPC => {p, q} \subseteq TailPC
  PROVE  IInv'
<1> DEFINE x == exec[w][e]
           v == Reported(w, objs[x.obj].val, s)
           n == [objs[x.obj] EXCEPT !.val = v]
<1>1. x.job \in Job /\ x.obj \in Obj /\ objs[x.obj] \in Entry /\ objs[x.obj].val \in JobVal
  BY InHand
<1>2. v \in JobVal
  BY <1>1, ReportedIsVal
<1>3. /\ \/ Put(x.job, v) /\ Go(w, e, p)
         \/ UNCHANGED etcdVars /\ Go(w, e, q)
      /\ UNCHANGED <<execUnchanged, lockOwner, managerVars, schedVars>>
      /\ Heap([objs EXCEPT ![x.obj].val = v])
  BY DEF ReportPut
<1> HIDE DEF v
<1>4. n \in Entry /\ objs \in [Obj -> Entry]
  BY <1>1, <1>2 DEF Entry, IInv, ObjsOK
<1>5. Heap([objs EXCEPT ![x.obj] = n])
  BY <1>3
<1> HIDE DEF n
<1>6. ObjsOK'
  BY <1>1, <1>4, <1>5, ObjMoves
<1>7. ExecOK'
  BY <1>3, GoIsTyped
<1>8. EtcdOK'
  BY <1>1, <1>2, <1>3, PutIsTyped, ExecKeepsRest DEF IInv
<1> QED
  BY <1>3, <1>6, <1>7, <1>8, ExecKeepsRest DEF IInv

LEMMA ReportCachePreserves ==
  ASSUME IInv, NEW w \in Worker, NEW e \in Exec, exec[w][e].pc # "idle",
         NEW p \in ExecPC \ {"idle"}, ReportCache(w, e, p),
         exec[w][e].pc \in TailPC => p \in TailPC
  PROVE  IInv'
<1>1. ExecOK'
  BY GoIsTyped DEF ReportCache
<1>2. ManagerOK'
  BY InHand, CacheStatusIsTyped DEF ReportCache, IInv
<1> QED
  BY <1>1, <1>2, ExecKeepsRest DEF ReportCache, IInv

LEMMA ReportsPreserve ==
  ASSUME IInv, NEW w \in Worker, NEW e \in Exec,
         ReportRunning(w, e) \/ CacheRunning(w, e) \/ ReportEnded(w, e) \/ CacheEnded(w, e)
  PROVE  IInv'
<1>1. {"cache", "run", "cacheEnd", "settle"} \subseteq ExecPC \ {"idle"}
  BY DEF ExecPC, StoredPC
<1>2. exec[w][e].pc # "idle"
  BY DEF ReportRunning, CacheRunning, ReportEnded, CacheEnded, At
<1>3. CASE ReportRunning(w, e) \/ CacheRunning(w, e)
  <2>1. exec[w][e].pc \notin TailPC
    BY <1>3 DEF ReportRunning, CacheRunning, At, TailPC
  <2> QED
    BY <1>1, <1>2, <1>3, <2>1, ReportPutPreserves, ReportCachePreserves
       DEF ReportRunning, CacheRunning
<1>4. CASE ReportEnded(w, e) \/ CacheEnded(w, e)
  <2>1. {"cacheEnd", "settle"} \subseteq TailPC
    BY DEF TailPC
  <2> QED
    BY <1>1, <1>2, <1>4, <2>1, ReportPutPreserves, ReportCachePreserves
       DEF ReportEnded, CacheEnded
<1> QED
  BY <1>3, <1>4

LEMMA RetryWakesPreserves ==
  ASSUME IInv, NEW w \in Worker, NEW e \in Exec, RetryWakes(w, e)
  PROVE  IInv'
<1>1. "start" \in ExecPC \ {"idle"} /\ exec[w][e].pc # "idle"
      /\ exec[w][e].pc \notin TailPC
  BY DEF TailPC, ExecPC, RetryWakes, At
<1>2. ExecOK'
  BY <1>1, GoIsTyped, EndIsTyped DEF RetryWakes
<1>3. ObjsOK'
  BY SameHeapIsTyped DEF RetryWakes
<1> QED
  BY <1>2, <1>3, ExecKeepsRest DEF RetryWakes, IInv

LEMMA UnlockPreserves ==
  ASSUME IInv, NEW w \in Worker, NEW e \in Exec, UnlockJob(w, e)
  PROVE  IInv'
<1>1. /\ {"unlocked", "lookup"} \subseteq (ExecPC \ {"idle"}) \cap TailPC
      /\ exec[w][e].pc # "idle"
  BY DEF ExecPC, StoredPC, TailPC, UnlockJob, At
<1>2. ExecOK'
  BY <1>1, GoIsTyped DEF UnlockJob
<1>3. LockOK'
  BY ExecKeepsRest DEF UnlockJob, IInv, LockOK
<1> QED
  BY <1>2, <1>3, ExecKeepsRest DEF UnlockJob, IInv

LEMMA ForgetLockPreserves ==
  ASSUME IInv, NEW w \in Worker, NEW e \in Exec, ForgetLock(w, e)
  PROVE  IInv'
<1> DEFINE o == exec[w][e].obj
           n == [objs[o] EXCEPT !.lock = FALSE]
<1>1. "lookup" \in (ExecPC \ {"idle"}) \cap TailPC /\ exec[w][e].pc # "idle"
  BY DEF ExecPC, StoredPC, TailPC, ForgetLock, At
<1>2. o \in Obj /\ objs[o] \in Entry
  BY <1>1, InHand
<1>3. n \in Entry
  BY <1>2 DEF Entry
<1>4. Heap([objs EXCEPT ![o] = n])
  BY DEF ForgetLock
<1> HIDE DEF n, o
<1>5. ObjsOK'
  BY <1>2, <1>3, <1>4, ObjMoves
<1>6. ExecOK'
  BY <1>1, GoIsTyped DEF ForgetLock
<1> QED
  BY <1>5, <1>6, ExecKeepsRest DEF ForgetLock, IInv

LEMMA LookUpPreserves ==
  ASSUME IInv, NEW w \in Worker, NEW e \in Exec, LookUp(w, e)
  PROVE  IInv'
<1> DEFINE b == Known(w, exec[w][e].job) # None
           p == IF b THEN "next" ELSE "settle"
           x == [exec[w][e] EXCEPT !.pc = p, !.exists = b]
<1>1. exec[w][e].pc # "idle"
  BY DEF LookUp, At
<1>2. exec[w][e] \in ExecRec /\ exec[w][e].job \in Job /\ exec[w][e].obj \in Obj
  BY <1>1, InHand
<1>3. p \in (ExecPC \ {"idle"}) \cap TailPC /\ b \in BOOLEAN
  BY DEF ExecPC, StoredPC, TailPC
<1>4. exec' = [exec EXCEPT ![w][e] = x]
  BY Zenon DEF LookUp
<1> HIDE DEF p, b
<1>5. x \in ExecRec
  BY <1>2, <1>3 DEF ExecRec
<1>6. x.pc = p /\ x.job = exec[w][e].job /\ x.obj = exec[w][e].obj
  BY <1>2 DEF ExecRec
<1> HIDE DEF x
<1>7. ActiveOK(x)
  BY <1>2, <1>3, <1>6 DEF ActiveOK
<1>8. ExecOK'
  BY <1>4, <1>5, <1>7, ExecMoves DEF IInv
<1>9. ManagerOK'
  BY <1>2, GetJobIsTyped DEF LookUp
<1> QED
  BY <1>8, <1>9, ExecKeepsRest DEF LookUp, IInv

\* A failed execution goes on, and a goroutine for its retry begins.
LEMMA ExecsMove ==
  ASSUME ExecOK, NEW w \in Worker, NEW e \in Exec, NEW f \in Exec \ {e},
         NEW x \in ExecRec, NEW y \in ExecRec, ActiveOK(x), ActiveOK(y),
         exec' = [exec EXCEPT ![w][e] = x, ![w][f] = y]
  PROVE  /\ ExecOK' /\ exec'[w][e] = x /\ exec'[w][f] = y
         /\ \A v \in Worker, g \in Exec : v # w \/ g \notin {e, f} => exec'[v][g] = exec[v][g]
<1>1. /\ exec' \in [Worker -> [Exec -> ExecRec]] /\ exec'[w][e] = x /\ exec'[w][f] = y
      /\ \A v \in Worker, g \in Exec : v # w \/ g \notin {e, f} => exec'[v][g] = exec[v][g]
  BY DEF ExecOK
<1>2. \A v \in Worker, g \in Exec : ActiveOK(exec'[v][g])
  BY <1>1 DEF ExecOK
<1>3. \A v \in Worker, g \in Exec : ActiveOK(exec[v][g])'
  BY <1>2 DEF ActiveOK
<1> QED
  BY <1>1, <1>3 DEF ExecOK

\* What Finish does to the execution, to the retry and to the object of both.
LEMMA FinishMoves ==
  ASSUME IInv, NEW w \in Worker, NEW e \in Exec, Finish(w, e)
  PROVE  \E n \in Entry, x \in ExecRec :
           /\ x.pc = "unlock" /\ x.job = exec[w][e].job /\ x.obj = exec[w][e].obj
           /\ Heap([objs EXCEPT ![exec[w][e].obj] = n])
           /\ n.lock = objs[exec[w][e].obj].lock
           /\ n.isRunning = objs[exec[w][e].obj].isRunning
           /\ \/ exec' = [exec EXCEPT ![w][e] = x] /\ n.retry = 0
              \/ \E f \in Exec \ {e} :
                   /\ exec[w][f].pc = "idle" /\ n.retry > 0 /\ ~x.ok
                   /\ exec' = [exec EXCEPT ![w][e] = x,
                                           ![w][f] = Begun("sleep", x.job, x.obj)]
<1> DEFINE z == exec[w][e]
           o == z.obj
<1>0. z.pc = "run" /\ z.pc # "idle" /\ "unlock" \in ExecPC
  BY DEF Finish, At, ExecPC, StoredPC
<1>1. z \in ExecRec /\ z.job \in Job /\ o \in Obj /\ objs[o] \in Entry
      /\ objs[o].retry \in 0..MaxRetries /\ z.ok \in BOOLEAN
  BY <1>0, InHand
<1>2. exec \in [Worker -> [Exec -> ExecRec]] /\ objs \in [Obj -> Entry]
  BY DEF IInv, ExecOK, ObjsOK
<1> DEFINE n0 == [objs[o] EXCEPT !.retry = 0]
           n1 == [objs[o] EXCEPT !.retry = @ + 1]
           x0 == [z EXCEPT !.pc = "unlock"]
           x1 == [z EXCEPT !.pc = "unlock", !.ok = TRUE]
<1>3. n0 \in Entry /\ n0.lock = objs[o].lock /\ n0.isRunning = objs[o].isRunning /\ n0.retry = 0
  BY <1>1, SchedulerAssumption DEF Entry
<1>4. objs[o].retry < MaxRetries =>
        n1 \in Entry /\ n1.lock = objs[o].lock /\ n1.isRunning = objs[o].isRunning /\ n1.retry > 0
  BY <1>1, SchedulerAssumption DEF Entry
<1>5. x0 \in ExecRec /\ x0.pc = "unlock" /\ x0.job = z.job /\ x0.obj = o /\ x0.ok = z.ok
  BY <1>0, <1>1 DEF ExecRec
<1>6. x1 \in ExecRec /\ x1.pc = "unlock" /\ x1.job = z.job /\ x1.obj = o
  BY <1>0, <1>1 DEF ExecRec
<1>7. ~z.ok
  BY <1>0, InHand DEF TailPC
<1>8. CASE /\ exec' = [exec EXCEPT ![w][e].pc = "unlock", ![w][e].ok = TRUE]
           /\ Heap([objs EXCEPT ![o].retry = 0])
  <2>1. exec' = [exec EXCEPT ![w][e] = x1]
    BY <1>1, <1>2, <1>8 DEF ExecRec
  <2>2. Heap([objs EXCEPT ![o] = n0])
    BY <1>8
  <2> HIDE DEF n0, x1
  <2> QED
    BY <1>3, <1>6, <2>1, <2>2
<1>9. CASE /\ ~CanRetry(objs[o])
           /\ exec' = [exec EXCEPT ![w][e].pc = "unlock"]
           /\ Heap([objs EXCEPT ![o].retry = 0])
  <2>1. exec' = [exec EXCEPT ![w][e] = x0]
    BY <1>1, <1>2, <1>9 DEF ExecRec
  <2>2. Heap([objs EXCEPT ![o] = n0])
    BY <1>9
  <2> HIDE DEF n0, x0
  <2> QED
    BY <1>3, <1>5, <2>1, <2>2
<1>10. CASE /\ CanRetry(objs[o])
            /\ \E f \in Exec :
                 /\ At(w, f, "idle")
                 /\ exec' = [exec EXCEPT ![w][e].pc = "unlock", ![w][f] = Begun("sleep", z.job, o)]
            /\ Heap([objs EXCEPT ![o].retry = @ + 1])
  <2>1. PICK f \in Exec :
          /\ exec[w][f].pc = "idle"
          /\ exec' = [exec EXCEPT ![w][e].pc = "unlock", ![w][f] = Begun("sleep", z.job, o)]
    BY <1>10, Zenon DEF At
  <2>2. f # e /\ objs[o].retry < MaxRetries
    BY <1>0, <1>10, <2>1 DEF CanRetry
  <2> DEFINE y == Begun("sleep", z.job, o)
  <2> HIDE DEF y
  <2>3. exec' = [exec EXCEPT ![w][e] = x0, ![w][f] = y]
    BY <1>1, <1>2, <2>1, <2>2 DEF ExecRec, y
  <2>4. Heap([objs EXCEPT ![o] = n1])
    BY <1>10
  <2> HIDE DEF n1, x0
  <2>5. exec' = [exec EXCEPT ![w][e] = x0, ![w][f] = Begun("sleep", x0.job, x0.obj)]
    BY <1>5, <2>3, Zenon DEF y
  <2>6. n1 \in Entry /\ n1.lock = objs[o].lock /\ n1.isRunning = objs[o].isRunning /\ n1.retry > 0
    BY <1>4, <2>2
  <2>7. f \in Exec \ {e} /\ exec[w][f].pc = "idle" /\ ~x0.ok
    BY <1>5, <1>7, <2>1, <2>2
  <2> QED
    BY <1>5, <2>4, <2>5, <2>6, <2>7, Zenon
<1> HIDE DEF n0, n1, x0, x1
<1> QED
  BY <1>8, <1>9, <1>10, Zenon DEF Finish


LEMMA FinishPreserves ==
  ASSUME IInv, NEW w \in Worker, NEW e \in Exec, Finish(w, e)
  PROVE  IInv'
<1>1. exec[w][e].pc # "idle" /\ "unlock" \in TailPC
  BY DEF Finish, At, TailPC
<1>2. exec[w][e].job \in Job /\ exec[w][e].obj \in Obj
  BY <1>1, InHand
<1>3. PICK n \in Entry, x \in ExecRec :
        /\ x.pc = "unlock" /\ x.job = exec[w][e].job /\ x.obj = exec[w][e].obj
        /\ Heap([objs EXCEPT ![exec[w][e].obj] = n])
        /\ n.lock = objs[exec[w][e].obj].lock
        /\ n.isRunning = objs[exec[w][e].obj].isRunning
        /\ \/ exec' = [exec EXCEPT ![w][e] = x] /\ n.retry = 0
           \/ \E f \in Exec \ {e} :
                /\ exec[w][f].pc = "idle" /\ n.retry > 0 /\ ~x.ok
                /\ exec' = [exec EXCEPT ![w][e] = x,
                                        ![w][f] = Begun("sleep", x.job, x.obj)]
  BY FinishMoves, Zenon
<1>4. ObjsOK'
  BY <1>2, <1>3, ObjMoves
<1>5. ActiveOK(x)
  BY <1>1, <1>2, <1>3 DEF ActiveOK
<1>6. Begun("sleep", x.job, x.obj) \in ExecRec /\ ActiveOK(Begun("sleep", x.job, x.obj))
  BY <1>2, <1>3, BegunIsRec
<1>7. ExecOK'
  BY <1>3, <1>5, <1>6, ExecMoves, ExecsMove DEF IInv
<1> QED
  BY <1>4, <1>7, ExecKeepsRest DEF Finish, IInv

\* An entry of the queue changes.
LEMMA QueueMoves ==
  ASSUME IInv, NEW w \in Worker, NEW j \in Job, NEW o,
         \/ queue' = queue
         \/ queue' = [queue EXCEPT ![w][j] = o] /\ o \in Obj \cup {None},
         UNCHANGED <<runningJobs, due>>
  PROVE  SchedOK'
<1>1. queue \in [Worker -> [Job -> Obj \cup {None}]]
  BY DEF IInv, SchedOK
<1>2. queue' \in [Worker -> [Job -> Obj \cup {None}]]
  BY <1>1
<1> QED
  BY <1>2 DEF IInv, SchedOK

LEMMA ScheduleNextRunPreserves ==
  ASSUME IInv, NEW w \in Worker, NEW e \in Exec, ScheduleNextRun(w, e)
  PROVE  IInv'
<1> DEFINE o == exec[w][e].obj
           n == [objs[o] EXCEPT !.next = "later"]
<1>1. "reportEnd" \in (ExecPC \ {"idle"}) \cap TailPC /\ exec[w][e].pc # "idle"
  BY DEF ExecPC, StoredPC, TailPC, ScheduleNextRun, At
<1>2. exec[w][e].job \in Job /\ o \in Obj /\ objs[o] \in Entry
  BY <1>1, InHand
<1>3. n \in Entry
  BY <1>2 DEF Entry
<1>4. Heap(objs) \/ Heap([objs EXCEPT ![o] = n])
  BY DEF ScheduleNextRun
<1>5. queue' \in {queue, [queue EXCEPT ![w][exec[w][e].job] = o]}
  BY DEF ScheduleNextRun
<1> HIDE DEF n, o
<1>6. ObjsOK'
  BY <1>2, <1>3, <1>4, ObjMoves, SameHeapIsTyped
<1>7. ExecOK'
  BY <1>1, GoIsTyped DEF ScheduleNextRun
<1>8. SchedOK'
  BY <1>2, <1>5, QueueMoves DEF ScheduleNextRun
<1> QED
  BY <1>6, <1>7, <1>8, ExecKeepsRest DEF ScheduleNextRun, IInv

LEMMA SettlePreserves ==
  ASSUME IInv, NEW w \in Worker, NEW e \in Exec, Settle(w, e)
  PROVE  IInv'
<1> DEFINE o == exec[w][e].obj
           n == [objs[o] EXCEPT !.isRunning = FALSE]
           c == [objs[o] EXCEPT !.isRunning = FALSE, !.lock = FALSE]
<1>1. "remove" \in (ExecPC \ {"idle"}) \cap TailPC /\ exec[w][e].pc # "idle"
  BY DEF ExecPC, StoredPC, TailPC, Settle, At
<1>2. exec[w][e].job \in Job /\ o \in Obj /\ objs[o] \in Entry
  BY <1>1, InHand
<1>3. n \in Entry /\ c \in Entry
  BY <1>2 DEF Entry
<1>4. \/ /\ Room /\ queue' = [queue EXCEPT ![w][exec[w][e].job] = New]
         /\ Heap([objs EXCEPT ![o].isRunning = FALSE, ![New] = c])
      \/ queue' = queue /\ Heap([objs EXCEPT ![o].isRunning = FALSE])
  BY Zenon DEF Settle
<1>5. objs \in [Obj -> Entry]
  BY DEF IInv, ObjsOK
<1>6. SchedOK'
  <2>1. New \in Obj \/ queue' = queue
    BY <1>4, NewIsUnused
  <2> QED
    BY <1>2, <1>4, <2>1, QueueMoves DEF Settle
<1>7. ObjsOK'
  <2>1. CASE Heap([objs EXCEPT ![o].isRunning = FALSE])
    <3>1. Heap([objs EXCEPT ![o] = n])
      BY <2>1
    <3> HIDE DEF n, o
    <3> QED
      BY <1>2, <1>3, <3>1, ObjMoves
  <2>2. CASE Room /\ Heap([objs EXCEPT ![o].isRunning = FALSE, ![New] = c])
    <3>1. Heap([objs EXCEPT ![o] = n, ![New] = c])
      BY <2>2
    <3>2. New \in Obj
      BY <2>2, NewIsUnused
    <3> HIDE DEF n, c, o
    <3>3. [objs EXCEPT ![o] = n, ![New] = c] \in [Obj -> Entry]
      BY <1>2, <1>3, <1>5, <3>2
    <3> QED
      BY <3>1, <3>3, HeapIsTyped
  <2> QED
    BY <1>4, <2>1, <2>2
<1>8. ExecOK'
  BY <1>1, GoIsTyped DEF Settle
<1> QED
  BY <1>6, <1>7, <1>8, ExecKeepsRest DEF Settle, IInv

LEMMA RemoveRunningPreserves ==
  ASSUME IInv, NEW w \in Worker, NEW e \in Exec, RemoveRunning(w, e)
  PROVE  IInv'
<1>1. exec[w][e].job \in Job
  BY InHand DEF RemoveRunning, At
<1>2. SchedOK'
  BY <1>1 DEF RemoveRunning, Drop, IInv, SchedOK
<1>3. ExecOK' /\ ObjsOK'
  BY EndIsTyped, SameHeapIsTyped DEF RemoveRunning
<1> QED
  BY <1>2, <1>3, ExecKeepsRest DEF RemoveRunning, IInv

LEMMA ExecStepPreserves ==
  ASSUME IInv, NEW w \in Worker, NEW e \in Exec, ExecStep(w, e)
  PROVE  IInv'
BY CheckAssignedPreserves, TryLockPreserves, BeginPreserves, ReportsPreserve, FinishPreserves,
   RetryWakesPreserves, UnlockPreserves, ForgetLockPreserves, LookUpPreserves,
   ScheduleNextRunPreserves, SettlePreserves, RemoveRunningPreserves DEF ExecStep


-----------------------------------------------------------------------------
(* The master, the loop and the processes                                    *)

\* What a step leaves alone keeps its type.
LEMMA Keeps ==
  ASSUME IInv
  PROVE  /\ UNCHANGED <<store, inbox>> => EtcdOK'
         /\ UNCHANGED fate => FateOK'
         /\ UNCHANGED lockOwner => LockOK'
         /\ UNCHANGED life => LifeOK'
         /\ UNCHANGED <<cache, mgrRunning>> => ManagerOK'
         /\ UNCHANGED handler => HandlerOK'
         /\ UNCHANGED <<queue, runningJobs, due>> => SchedOK'
         /\ UNCHANGED loader => LoaderOK'
         /\ UNCHANGED objs => ObjsOK'
         /\ UNCHANGED exec => ExecOK'
         /\ UNCHANGED <<ops, runs>> => BoundsOK'
<1>1. UNCHANGED handler => HandlerOK'
  BY DEF IInv, HandlerOK, TurnOK
<1>2. UNCHANGED exec => ExecOK'
  BY DEF IInv, ExecOK, ActiveOK
<1>3. /\ UNCHANGED <<store, inbox>> => EtcdOK'
      /\ UNCHANGED fate => FateOK'
      /\ UNCHANGED lockOwner => LockOK'
      /\ UNCHANGED life => LifeOK'
      /\ UNCHANGED <<cache, mgrRunning>> => ManagerOK'
  BY DEF IInv, EtcdOK, FateOK, LockOK, LifeOK, ManagerOK
<1>4. /\ UNCHANGED <<queue, runningJobs, due>> => SchedOK'
      /\ UNCHANGED loader => LoaderOK'
      /\ UNCHANGED objs => ObjsOK'
      /\ UNCHANGED <<ops, runs>> => BoundsOK'
  BY DEF IInv, SchedOK, LoaderOK, ObjsOK, BoundsOK
<1> QED
  BY <1>1, <1>2, <1>3, <1>4

LEMMA OperationIsTyped == ASSUME IInv, Operation PROVE BoundsOK'
BY SchedulerAssumption DEF IInv, BoundsOK, Operation

LEMMA FreshIsVal == Fresh \in JobVal
BY DEF Fresh, JobVal

LEMMA MasterPutPreserves ==
  ASSUME IInv, NEW j \in Job, Create(j) \/ MasterPut(j)
  PROVE  IInv'
<1>1. PICK v \in JobVal : Put(j, v)
  <2>1. CASE Create(j)
    BY <2>1, FreshIsVal DEF Create
  <2>2. CASE MasterPut(j)
    <3>1. store[j] \in JobVal
      BY <2>2 DEF MasterPut, IInv, EtcdOK
    <3>2. [store[j] EXCEPT !.enabled = ~@] \in JobVal
      <4>1. store[j].enabled \in BOOLEAN
        BY <3>1 DEF JobVal
      <4> QED
        BY <3>1, <4>1 DEF JobVal
    <3>3. [store[j] EXCEPT !.status = "running"] \in JobVal
      BY <3>1 DEF JobVal
    <3> QED
      BY <2>2, <3>2, <3>3, FreshIsVal DEF MasterPut
  <2> QED
    BY <2>1, <2>2
<1>2. EtcdOK'
  BY <1>1, PutIsTyped DEF IInv
<1>3. FateOK'
  BY DEF IInv, FateOK, Create, MasterPut
<1>4. BoundsOK'
  BY Keeps, OperationIsTyped DEF Create, MasterPut, bounds
<1> QED
  BY <1>2, <1>3, <1>4, Keeps DEF IInv, Create, MasterPut, masterUnchanged, managerVars, schedVars

LEMMA MasterEventsPreserve ==
  ASSUME IInv, NEW j \in Job, MasterDelete(j) \/ MasterKill(j)
  PROVE  IInv'
<1>1. \A t \in {"delete", "kill"} : [type |-> t, job |-> j, val |-> None] \in Event
  BY DEF Event
<1>2. inbox' \in [Worker -> Seq(Event)]
  BY <1>1, BroadcastIsTyped DEF IInv, MasterDelete, MasterKill
<1>3. store' \in [Job -> JobVal \cup {None}]
  BY DEF IInv, EtcdOK, MasterDelete, MasterKill
<1>4. EtcdOK'
  BY <1>2, <1>3 DEF EtcdOK
<1>5. FateOK'
  BY DEF IInv, FateOK, MasterDelete, MasterKill
<1>6. BoundsOK'
  BY OperationIsTyped DEF MasterDelete, MasterKill
<1> QED
  BY <1>4, <1>5, <1>6, Keeps
     DEF IInv, MasterDelete, MasterKill, masterUnchanged, managerVars, schedVars

LEMMA LockExpiresPreserves ==
  ASSUME IInv, NEW j \in Job, LockExpires(j)
  PROVE  IInv'
<1>1. LockOK'
  BY DEF IInv, LockOK, LockExpires
<1> QED
  BY <1>1, Keeps DEF IInv, LockExpires, etcdVars, managerVars, schedVars, bounds

LEMMA TickPreserves ==
  ASSUME IInv, NEW o \in Obj, Tick(o)
  PROVE  IInv'
<1> DEFINE n == [objs[o] EXCEPT !.next = "due"]
<1>1. objs \in [Obj -> Entry] /\ objs[o] \in Entry
  BY DEF IInv, ObjsOK
<1>2. n \in Entry
  BY <1>1 DEF Entry
<1>3. objs' = [objs EXCEPT ![o] = n]
  BY DEF Tick
<1> HIDE DEF n
<1>4. ObjsOK'
  BY <1>1, <1>2, <1>3 DEF ObjsOK
<1> QED
  BY <1>4, Keeps DEF IInv, Tick, etcdVars, managerVars, schedVars, bounds

LEMMA CheckDueJobsPreserves ==
  ASSUME IInv, NEW w \in Worker, CheckDueJobs(w)
  PROVE  IInv'
<1>1. PICK S \in SUBSET DueJobs(w) :
        due' = [due EXCEPT ![w] = [j \in Job |-> IF j \in S THEN queue[w][j] ELSE None]]
  BY DEF CheckDueJobs
<1>2. [j \in Job |-> IF j \in S THEN queue[w][j] ELSE None] \in [Job -> Obj \cup {None}]
  BY DEF IInv, SchedOK
<1>3. due' \in [Worker -> [Job -> Obj \cup {None}]]
  BY <1>1, <1>2 DEF IInv, SchedOK
<1>4. SchedOK'
  BY <1>3 DEF CheckDueJobs, IInv, SchedOK
<1> QED
  BY <1>4, Keeps DEF IInv, CheckDueJobs, etcdVars, managerVars, bounds

\* A goroutine begins an execution.
LEMMA StartIsTyped ==
  ASSUME IInv, NEW w \in Worker, NEW e \in Exec, NEW j \in Job, NEW o \in Obj,
         exec' = [exec EXCEPT ![w][e] = Begun("start", j, o)]
  PROVE  ExecOK'
BY BegunIsRec, ExecMoves DEF IInv

LEMMA LaunchPreserves ==
  ASSUME IInv, NEW w \in Worker, NEW j \in Job, Launch(w, j)
  PROVE  IInv'
<1>1. due[w][j] \in Obj
  BY DEF Launch, IInv, SchedOK
<1>2. ExecOK'
  BY <1>1, StartIsTyped, Keeps DEF Launch
<1>3. SchedOK'
  <2>1. queue' \in [Worker -> [Job -> Obj \cup {None}]]
    BY DEF IInv, SchedOK, Launch
  <2>2. due' \in [Worker -> [Job -> Obj \cup {None}]]
    BY DEF IInv, SchedOK, Launch
  <2> QED
    BY <2>1, <2>2 DEF IInv, SchedOK, Launch
<1>4. BoundsOK'
  BY SchedulerAssumption DEF Launch, IInv, BoundsOK
<1>5. ObjsOK'
  BY SameHeapIsTyped DEF Launch
<1> QED
  BY <1>2, <1>3, <1>4, <1>5, Keeps DEF IInv, Launch, etcdVars, managerVars

LEMMA AtRestIsRec == AtRest \in HandlerRec /\ TurnOK(AtRest)
BY DEF AtRest, HandlerRec, HandlerPC, TurnOK

\* The event goroutine moves on.
LEMMA HandlerMoves ==
  ASSUME IInv, NEW w \in Worker, NEW h \in HandlerRec, TurnOK(h),
         handler' = [handler EXCEPT ![w] = h]
  PROVE  /\ HandlerOK' /\ handler'[w] = h
         /\ \A v \in Worker : v # w => handler'[v] = handler[v]
<1>1. /\ handler' \in [Worker -> HandlerRec] /\ handler'[w] = h
      /\ \A v \in Worker : v # w => handler'[v] = handler[v]
  BY DEF IInv, HandlerOK
<1>2. \A v \in Worker : TurnOK(handler'[v])
  BY <1>1 DEF IInv, HandlerOK
<1>3. \A v \in Worker : TurnOK(handler[v])'
  BY <1>2 DEF TurnOK
<1> QED
  BY <1>1, <1>3 DEF HandlerOK

LEMMA DiesIsTyped ==
  ASSUME IInv, NEW w \in Worker, Dies(w), BoundsOK'
  PROVE  IInv'
<1>1. EtcdOK'
  <2>1. inbox' \in [Worker -> Seq(Event)]
    BY DEF IInv, EtcdOK, Dies
  <2> QED
    BY <2>1 DEF IInv, EtcdOK, Dies
<1>2. FateOK' /\ LifeOK'
  BY DEF IInv, FateOK, LifeOK, Dies
<1>3. LockOK'
  BY DEF IInv, LockOK, Dies
<1>4. ManagerOK'
  <2>1. cache' \in [Worker -> [Job -> JobVal \cup {None}]]
    BY DEF IInv, ManagerOK, Dies
  <2>2. mgrRunning' \in [Worker -> SUBSET Job]
    BY DEF IInv, ManagerOK, Dies
  <2> QED
    BY <2>1, <2>2 DEF ManagerOK
<1>5. HandlerOK'
  BY AtRestIsRec, HandlerMoves DEF Dies
<1>6. SchedOK'
  <2>1. queue' \in [Worker -> [Job -> Obj \cup {None}]]
    BY DEF IInv, SchedOK, Dies
  <2>2. runningJobs' \in [Worker -> [Job -> Obj \cup {None}]]
    BY DEF IInv, SchedOK, Dies
  <2>3. due' \in [Worker -> [Job -> Obj \cup {None}]]
    BY DEF IInv, SchedOK, Dies
  <2> QED
    BY <2>1, <2>2, <2>3 DEF SchedOK
<1>7. LoaderOK'
  <2>1. NothingToLoad \in LoaderRec
    BY DEF NothingToLoad, LoaderRec
  <2> QED
    BY <2>1 DEF IInv, LoaderOK, Dies
<1>8. ObjsOK'
  BY SameHeapIsTyped DEF Dies
<1>9. ExecOK'
  <2>1. exec' = [exec EXCEPT ![w] = [e \in Exec |-> Idle]]
    BY DEF Dies
  <2>2. /\ exec' \in [Worker -> [Exec -> ExecRec]]
        /\ \A v \in Worker, e \in Exec : exec'[v][e] \in {Idle, exec[v][e]}
    BY <2>1, IdleIsRec DEF IInv, ExecOK
  <2>3. \A v \in Worker, e \in Exec : ActiveOK(exec'[v][e])
    BY <2>2, IdleIsRec DEF IInv, ExecOK
  <2>4. \A v \in Worker, e \in Exec : ActiveOK(exec[v][e])'
    BY <2>3 DEF ActiveOK
  <2> QED
    BY <2>2, <2>4 DEF ExecOK
<1> QED
  BY <1>1, <1>2, <1>3, <1>4, <1>5, <1>6, <1>7, <1>8, <1>9 DEF IInv

LEMMA TriggerPreserves ==
  ASSUME IInv, NEW w \in Worker, NEW j \in Job, Trigger(w, j)
  PROVE  IInv'
<1>1. BoundsOK'
  BY OperationIsTyped DEF Trigger
<1>2. CASE Dies(w)
  BY <1>1, <1>2, DiesIsTyped
<1>3. CASE /\ GetJob(w, j)
           /\ UNCHANGED <<exec, etcdVars, lockOwner, life, mgrRunning, handler, schedVars, objs,
                          fate>>
  <2>1. ManagerOK'
    BY <1>3, GetJobIsTyped
  <2> QED
    BY <1>1, <1>3, <2>1, Keeps DEF IInv, etcdVars, schedVars
<1>4. CASE /\ GetJob(w, j) /\ Scheduled(w, j) # None
           /\ \E e \in Exec : exec' = [exec EXCEPT ![w][e] = Begun("start", j, Scheduled(w, j))]
           /\ UNCHANGED <<etcdVars, lockOwner, life, mgrRunning, handler, schedVars, objs, fate>>
  <2>1. ManagerOK'
    BY <1>4, GetJobIsTyped
  <2>2. Scheduled(w, j) \in Obj
    BY <1>4 DEF Scheduled, IInv, SchedOK
  <2>3. ExecOK'
    BY <1>4, <2>2, StartIsTyped
  <2> QED
    BY <1>1, <1>4, <2>1, <2>3, Keeps DEF IInv, etcdVars, schedVars
<1> QED
  BY <1>2, <1>3, <1>4, Zenon DEF Trigger

LEMMA ProcessPreserves ==
  ASSUME IInv, NEW w \in Worker, Crash(w) \/ StopScheduler(w)
  PROVE  IInv'
<1>1. BoundsOK'
  BY OperationIsTyped DEF Crash, StopScheduler
<1>2. CASE Crash(w)
  BY <1>1, <1>2, DiesIsTyped DEF Crash
<1>3. CASE StopScheduler(w)
  <2>1. LifeOK'
    BY <1>3 DEF StopScheduler, IInv, LifeOK
  <2> QED
    BY <1>1, <1>3, <2>1, Keeps DEF StopScheduler, IInv, etcdVars, managerVars, schedVars
<1> QED
  BY <1>2, <1>3


-----------------------------------------------------------------------------
(* The event goroutine and the loader                                        *)

LEMMA TurnIsTyped ==
  ASSUME IInv, NEW w \in Worker, NEW p \in HandlerPC, Turn(w, p), handler[w].pc # "idle",
         p \in {"save", "update", "push", "copy", "write", "killCache"} => handler[w].val \in JobVal
  PROVE  HandlerOK'
<1> DEFINE h == [handler[w] EXCEPT !.pc = p]
<1>1. handler[w] \in HandlerRec /\ handler[w].job \in Job
  BY DEF IInv, HandlerOK, TurnOK
<1>2. h \in HandlerRec /\ h.pc = p /\ h.job = handler[w].job /\ h.val = handler[w].val
  BY <1>1 DEF HandlerRec
<1>3. handler' = [handler EXCEPT ![w] = h]
  BY <1>1 DEF Turn, HandlerRec
<1> HIDE DEF h
<1>4. TurnOK(h)
  BY <1>1, <1>2 DEF TurnOK
<1> QED
  BY <1>2, <1>3, <1>4, HandlerMoves

LEMMA RestIsTyped == ASSUME IInv, NEW w \in Worker, Rest(w) PROVE HandlerOK'
BY AtRestIsRec, HandlerMoves DEF Rest

LEMMA NotifyIsTyped ==
  ASSUME IInv, NEW w \in Worker, NEW p \in {"save", "remove", "kill"}, NEW j \in Job,
         NEW v \in JobVal \cup {None}, p = "save" => v \in JobVal, Notify(w, p, j, v)
  PROVE  HandlerOK'
<1> DEFINE h == [pc |-> p, job |-> j, val |-> v, flag |-> FALSE]
<1>1. h \in HandlerRec /\ TurnOK(h)
  BY DEF HandlerRec, HandlerPC, TurnOK
<1>2. handler' = [handler EXCEPT ![w] = IF life[w] = "watching" THEN AtRest ELSE h]
  BY DEF Notify
<1> HIDE DEF h
<1> QED
  BY <1>1, <1>2, AtRestIsRec, HandlerMoves

\* What the event goroutine has in hand.
LEMMA EventInHand ==
  ASSUME IInv, NEW w \in Worker, handler[w].pc # "idle"
  PROVE  /\ handler[w].job \in Job /\ handler[w].flag \in BOOLEAN
         /\ handler[w].pc \in {"save", "update", "push", "copy", "write", "killCache"}
              => handler[w].val \in JobVal
BY DEF IInv, HandlerOK, HandlerRec, TurnOK

LEMMA HeadIsEvent ==
  ASSUME IInv, NEW w \in Worker, NEW t \in {"put", "delete", "kill"}, Receive(w, t)
  PROVE  /\ Head(inbox[w]).job \in Job
         /\ t = "put" => Head(inbox[w]).val \in JobVal
         /\ EtcdOK'
<1>1. inbox[w] \in Seq(Event) /\ inbox[w] # <<>> /\ Head(inbox[w]).type = t
      /\ inbox' = [inbox EXCEPT ![w] = Tail(@)] /\ store' = store
  BY DEF Receive, IInv, EtcdOK, handlerUnchanged
<1>2. Head(inbox[w]) \in Event /\ Tail(inbox[w]) \in Seq(Event)
  BY <1>1
<1>3. EtcdOK'
  BY <1>1, <1>2 DEF IInv, EtcdOK
<1>4. Head(inbox[w]).job \in Job /\ (t = "put" => Head(inbox[w]).val \in JobVal)
  BY <1>1, <1>2 DEF Event
<1> QED
  BY <1>3, <1>4

LEMMA ReceivesPreserve ==
  ASSUME IInv, NEW w \in Worker, ReceivePut(w) \/ ReceiveDelete(w) \/ ReceiveKill(w)
  PROVE  IInv'
<1> DEFINE ev == Head(inbox[w])
<1>1. PICK t \in {"put", "delete", "kill"} : Receive(w, t)
  BY DEF ReceivePut, ReceiveDelete, ReceiveKill
<1>2. ev.job \in Job /\ EtcdOK'
  BY <1>1, HeadIsEvent
<1>3. CASE ReceivePut(w)
  <2>1. ev.val \in JobVal
    BY <1>3, HeadIsEvent DEF ReceivePut
  <2>2. \/ CacheStatus(w, ev.job, ev.val) /\ Notify(w, "save", ev.job, ev.val)
        \/ UNCHANGED <<managerVars, handler>>
    BY <1>3 DEF ReceivePut
  <2> HIDE DEF ev
  <2>3. ManagerOK'
    BY <1>2, <2>1, <2>2, CacheStatusIsTyped, Keeps DEF IInv, managerVars
  <2>4. HandlerOK'
    BY <1>2, <2>1, <2>2, NotifyIsTyped, Keeps
  <2> QED
    BY <1>1, <1>2, <2>3, <2>4, Keeps DEF IInv, Receive, handlerUnchanged, schedVars, bounds
<1>4. CASE ReceiveDelete(w)
  <2>1. \/ /\ cache' = [cache EXCEPT ![w][ev.job] = None]
           /\ mgrRunning' = [mgrRunning EXCEPT ![w] = @ \ {ev.job}]
           /\ Notify(w, "remove", ev.job, None)
        \/ UNCHANGED <<managerVars, handler>>
    BY <1>4 DEF ReceiveDelete
  <2> HIDE DEF ev
  <2>2. cache' \in [Worker -> [Job -> JobVal \cup {None}]]
    BY <1>2, <2>1 DEF IInv, ManagerOK, managerVars
  <2>3. mgrRunning' \in [Worker -> SUBSET Job]
    BY <1>2, <2>1 DEF IInv, ManagerOK, managerVars
  <2>4. HandlerOK'
    BY <1>2, <2>1, NotifyIsTyped, Keeps
  <2> QED
    BY <1>1, <1>2, <2>2, <2>3, <2>4, Keeps
       DEF IInv, ManagerOK, Receive, handlerUnchanged, schedVars, bounds
<1>5. CASE ReceiveKill(w)
  <2>1. /\ GetJob(w, ev.job) /\ UNCHANGED mgrRunning
        /\ Notify(w, "kill", ev.job, None) \/ UNCHANGED handler
    BY <1>5 DEF ReceiveKill
  <2> HIDE DEF ev
  <2>2. ManagerOK'
    BY <1>2, <2>1, GetJobIsTyped
  <2>3. HandlerOK'
    BY <1>2, <2>1, NotifyIsTyped, Keeps
  <2> QED
    BY <1>1, <1>2, <2>2, <2>3, Keeps DEF IInv, Receive, handlerUnchanged, schedVars, bounds
<1> QED
  BY <1>3, <1>4, <1>5

\* A step of the event goroutine that changes only what it has in hand.
LEMMA HandlerKeepsRest ==
  ASSUME IInv, UNCHANGED handlerUnchanged
  PROVE  /\ FateOK' /\ LockOK' /\ LifeOK' /\ ExecOK' /\ BoundsOK'
         /\ UNCHANGED inbox => EtcdOK'
         /\ UNCHANGED managerVars => ManagerOK'
         /\ UNCHANGED schedVars => SchedOK' /\ LoaderOK'
         /\ UNCHANGED loader => LoaderOK'
         /\ UNCHANGED objs => ObjsOK'
BY Keeps DEF handlerUnchanged, managerVars, schedVars, bounds

LEMMA TurnsPreserve ==
  ASSUME IInv, NEW w \in Worker, HandleSave(w) \/ UpdateContains(w) \/ UpdateCopies(w)
  PROVE  IInv'
<1>1. {"update", "push", "copy", "write"} \subseteq HandlerPC
  BY DEF HandlerPC
<1>2. handler[w].pc \in {"save", "update", "copy"}
  BY DEF HandleSave, UpdateContains, UpdateCopies, Handles
<1>3. handler[w].val \in JobVal /\ handler[w].job \in Job
  BY <1>2, EventInHand
<1>4. HandlerOK'
  <2>1. CASE HandleSave(w)
    BY <1>1, <1>2, <1>3, <2>1, TurnIsTyped, RestIsTyped DEF HandleSave
  <2>2. CASE UpdateContains(w)
    <3>1. PICK p \in {"copy", "push"} : Turn(w, p)
      BY <2>2 DEF UpdateContains
    <3> QED
      BY <1>1, <1>2, <1>3, <3>1, TurnIsTyped
  <2>3. CASE UpdateCopies(w)
    <3> DEFINE b == objs[Scheduled(w, handler[w].job)].isRunning
               h == [handler[w] EXCEPT !.pc = "write", !.flag = b]
    <3>1. CASE Rest(w)
      BY <3>1, RestIsTyped
    <3>2. CASE /\ Scheduled(w, handler[w].job) # None
               /\ handler' = [handler EXCEPT ![w].pc = "write", ![w].flag = b]
      <4>1. Scheduled(w, handler[w].job) \in Obj
        BY <1>3, <3>2 DEF Scheduled, IInv, SchedOK
      <4>2. b \in BOOLEAN
        BY <4>1 DEF IInv, ObjsOK, Entry
      <4>3. handler[w] \in HandlerRec /\ handler \in [Worker -> HandlerRec]
        BY DEF IInv, HandlerOK
      <4>4. PICK c : c = b /\ handler' = [handler EXCEPT ![w].pc = "write", ![w].flag = c]
        BY <3>2, Zenon
      <4> HIDE DEF b
      <4>5. PICK g : g = [handler[w] EXCEPT !.pc = "write", !.flag = c]
        OBVIOUS
      <4>6. handler' = [handler EXCEPT ![w] = g]
        BY <4>3, <4>4, <4>5 DEF HandlerRec
      <4>7. g \in HandlerRec /\ g.pc = "write" /\ g.job = handler[w].job /\ g.val = handler[w].val
        BY <1>1, <4>2, <4>3, <4>4, <4>5 DEF HandlerRec
      <4>8. TurnOK(g)
        BY <1>3, <4>7 DEF TurnOK
      <4> QED
        BY <4>6, <4>7, <4>8, HandlerMoves
    <3> QED
      BY <2>3, <3>1, <3>2, Zenon DEF UpdateCopies
  <2> QED
    BY <2>1, <2>2, <2>3
<1> QED
  BY <1>4, HandlerKeepsRest DEF IInv, HandleSave, UpdateContains, UpdateCopies

\* A new object in the queue.
LEMMA NewEntryMoves ==
  ASSUME IInv, NEW w \in Worker, NEW j \in Job, NEW v \in JobVal, NEW b \in BOOLEAN,
         Room, queue' = [queue EXCEPT ![w][j] = New], Heap([objs EXCEPT ![New] = NewEntry(j, v, b)]),
         UNCHANGED <<runningJobs, due>>
  PROVE  ObjsOK' /\ SchedOK'
<1>1. New \in Obj
  BY NewIsUnused
<1>2. PICK n : n = NewEntry(j, v, b)
  OBVIOUS
<1>3. n \in Entry
  BY <1>2, NewEntryIsEntry
<1>4. ObjsOK'
  BY <1>1, <1>2, <1>3, ObjMoves
<1>5. SchedOK'
  BY <1>1, QueueMoves
<1> QED
  BY <1>4, <1>5

LEMMA PushIsTyped ==
  ASSUME IInv, NEW w \in Worker, NEW j \in Job, NEW v \in JobVal, Push(w, j, v),
         UNCHANGED <<runningJobs, due>>
  PROVE  ObjsOK' /\ SchedOK'
BY NewEntryMoves, Keeps DEF Push

LEMMA WritesPreserve ==
  ASSUME IInv, NEW w \in Worker, HandlePush(w) \/ UpdateWrites(w)
  PROVE  IInv'
<1>1. handler[w].val \in JobVal /\ handler[w].job \in Job /\ handler[w].flag \in BOOLEAN
  BY EventInHand DEF HandlePush, UpdateWrites, Handles
<1>2. HandlerOK'
  BY RestIsTyped DEF HandlePush, UpdateWrites
<1>3. ObjsOK' /\ SchedOK'
  BY <1>1, PushIsTyped, NewEntryMoves, Keeps DEF HandlePush, UpdateWrites
<1> QED
  BY <1>2, <1>3, HandlerKeepsRest DEF IInv, HandlePush, UpdateWrites

LEMMA RemovesPreserve ==
  ASSUME IInv, NEW w \in Worker,
         HandleRemove(w) \/ HandleDrop(w, "drop") \/ HandleDrop(w, "killDrop")
  PROVE  IInv'
<1>1. handler[w].pc # "idle" /\ handler[w].job \in Job /\ "drop" \in HandlerPC
  BY EventInHand DEF HandleRemove, HandleDrop, Handles, HandlerPC
<1>2. HandlerOK'
  BY <1>1, TurnIsTyped, RestIsTyped DEF HandleRemove, HandleDrop
<1>3. SchedOK'
  <2>1. CASE HandleRemove(w)
    BY <1>1, <2>1, QueueMoves DEF HandleRemove
  <2>2. CASE HandleDrop(w, "drop") \/ HandleDrop(w, "killDrop")
    <3>1. runningJobs' = [runningJobs EXCEPT ![w][handler[w].job] = None] /\ UNCHANGED <<queue, due>>
      BY <2>2 DEF HandleDrop, Drop
    <3>2. runningJobs' \in [Worker -> [Job -> Obj \cup {None}]]
      BY <1>1, <3>1 DEF IInv, SchedOK
    <3> QED
      BY <3>1, <3>2 DEF IInv, SchedOK
  <2> QED
    BY <2>1, <2>2
<1>4. ObjsOK'
  BY SameHeapIsTyped DEF HandleRemove, HandleDrop
<1> QED
  BY <1>2, <1>3, <1>4, HandlerKeepsRest DEF IInv, HandleRemove, HandleDrop

LEMMA HandleKillPreserves ==
  ASSUME IInv, NEW w \in Worker, HandleKill(w)
  PROVE  IInv'
<1> DEFINE j == handler[w].job
           o == runningJobs[w][j]
           v == Reported(w, objs[o].val, "ended")
           n == [objs[o] EXCEPT !.val = v]
<1>1. handler[w].pc = "kill" /\ j \in Job
  BY EventInHand DEF HandleKill, Handles
<1>2. UNCHANGED <<fate, lockOwner, life, exec, bounds, managerVars, schedVars>>
  BY DEF HandleKill
<1>3. CASE Rest(w) /\ UNCHANGED <<etcdVars, objs>>
  BY <1>2, <1>3, RestIsTyped, Keeps DEF IInv, etcdVars, managerVars, schedVars, bounds
<1>4. CASE /\ o # None /\ Heap([objs EXCEPT ![o].val = v])
           /\ \/ /\ Put(j, v)
                 /\ handler' = [handler EXCEPT ![w].pc = "killCache", ![w].val = v]
              \/ UNCHANGED etcdVars /\ Turn(w, "killDrop")
  <2>1. o \in Obj
    BY <1>1, <1>4 DEF IInv, SchedOK
  <2>2. objs[o] \in Entry /\ objs[o].val \in JobVal /\ objs \in [Obj -> Entry]
    BY <2>1 DEF IInv, ObjsOK, Entry
  <2>3. v \in JobVal
    BY <2>2, ReportedIsVal
  <2> HIDE DEF v
  <2>4. n \in Entry
    BY <2>2, <2>3 DEF Entry
  <2>5. Heap([objs EXCEPT ![o] = n])
    BY <1>4
  <2> HIDE DEF n
  <2>6. ObjsOK'
    BY <2>1, <2>4, <2>5, ObjMoves
  <2>7. EtcdOK'
    BY <1>1, <1>4, <2>3, PutIsTyped, Keeps DEF IInv, etcdVars
  <2>8. HandlerOK'
    <3>1. CASE handler' = [handler EXCEPT ![w].pc = "killCache", ![w].val = v]
      <4>1. handler[w] \in HandlerRec /\ handler \in [Worker -> HandlerRec]
        BY DEF IInv, HandlerOK
      <4>2. PICK g : g = [handler[w] EXCEPT !.pc = "killCache", !.val = v]
        OBVIOUS
      <4>3. handler' = [handler EXCEPT ![w] = g]
        BY <3>1, <4>1, <4>2 DEF HandlerRec
      <4>4. g \in HandlerRec /\ g.pc = "killCache" /\ g.job = j /\ g.val = v
        BY <2>3, <4>1, <4>2 DEF HandlerRec, HandlerPC
      <4>5. TurnOK(g)
        BY <1>1, <2>3, <4>4 DEF TurnOK
      <4> QED
        BY <4>3, <4>4, <4>5, HandlerMoves
    <3>2. CASE Turn(w, "killDrop")
      BY <1>1, <3>2, TurnIsTyped DEF HandlerPC
    <3> QED
      BY <1>4, <3>1, <3>2
  <2> QED
    BY <1>2, <2>6, <2>7, <2>8, Keeps DEF IInv, managerVars, schedVars, bounds
<1> QED
  BY <1>3, <1>4, Zenon DEF HandleKill

LEMMA HandleKillCachePreserves ==
  ASSUME IInv, NEW w \in Worker, HandleKillCache(w)
  PROVE  IInv'
<1>1. handler[w].pc = "killCache" /\ handler[w].job \in Job /\ handler[w].val \in JobVal
  BY EventInHand DEF HandleKillCache, Handles
<1>2. ManagerOK'
  BY <1>1, CacheStatusIsTyped DEF HandleKillCache, IInv
<1>3. HandlerOK'
  <2>1. handler[w] \in HandlerRec /\ handler \in [Worker -> HandlerRec]
    BY DEF IInv, HandlerOK
  <2>2. PICK g : g = [handler[w] EXCEPT !.pc = "killDrop", !.val = None]
    OBVIOUS
  <2>3. handler' = [handler EXCEPT ![w] = g]
    BY <2>1, <2>2 DEF HandlerRec, HandleKillCache
  <2>4. g \in HandlerRec /\ g.pc = "killDrop" /\ g.job = handler[w].job
    BY <2>1, <2>2 DEF HandlerRec, HandlerPC
  <2>5. TurnOK(g)
    BY <1>1, <2>4 DEF TurnOK
  <2> QED
    BY <2>3, <2>4, <2>5, HandlerMoves
<1> QED
  BY <1>2, <1>3, HandlerKeepsRest DEF IInv, HandleKillCache


\* What ListCache puts into the cache.
LEMMA ListCacheIsTyped ==
  ASSUME IInv, NEW w \in Worker, ListCache(w), UNCHANGED mgrRunning
  PROVE  ManagerOK'
<1>1. [j \in Job |-> IF Assigned(w, j) THEN store[j] ELSE cache[w][j]] \in [Job -> JobVal \cup {None}]
  BY DEF IInv, EtcdOK, ManagerOK
<1>2. cache' = [cache EXCEPT ![w] = [j \in Job |-> IF Assigned(w, j) THEN store[j] ELSE cache[w][j]]]
  BY Zenon DEF ListCache
<1>3. cache' \in [Worker -> [Job -> JobVal \cup {None}]]
  BY <1>1, <1>2 DEF IInv, ManagerOK
<1> QED
  BY <1>3 DEF IInv, ManagerOK

LEMMA LoaderMoves ==
  ASSUME IInv, NEW w \in Worker, NEW l \in LoaderRec, loader' = [loader EXCEPT ![w] = l]
  PROVE  LoaderOK'
BY DEF IInv, LoaderOK

LEMMA BootPreserves ==
  ASSUME IInv, NEW w \in Worker, Boot(w)
  PROVE  IInv'
<1>1. UNCHANGED bootUnchanged /\ LifeOK'
  BY DEF Boot, IInv, LifeOK
<1>2. ManagerOK'
  BY <1>1, ListCacheIsTyped, Keeps DEF Boot, bootUnchanged
<1>3. LoaderOK'
  <2>1. [loader[w] EXCEPT !.pc = "list"] \in LoaderRec
    BY DEF IInv, LoaderOK, LoaderRec
  <2>2. loader' = [loader EXCEPT ![w] = [loader[w] EXCEPT !.pc = "list"]] \/ UNCHANGED loader
    BY DEF Boot
  <2> QED
    BY <2>1, <2>2, LoaderMoves, Keeps
<1> QED
  BY <1>1, <1>2, <1>3, Keeps DEF IInv, bootUnchanged, etcdVars, bounds

LEMMA LoadListPreserves ==
  ASSUME IInv, NEW w \in Worker, LoadList(w)
  PROVE  IInv'
<1>1. UNCHANGED bootUnchanged /\ UNCHANGED life /\ ListCache(w)
  BY DEF LoadList
<1>2. ManagerOK'
  BY <1>1, ListCacheIsTyped DEF bootUnchanged
<1>3. LoaderOK'
  <2> DEFINE t == [j \in Job |-> IF Assigned(w, j) /\ store[j].enabled THEN store[j] ELSE None]
             l == [pc |-> "add", todo |-> t]
  <2>1. t \in [Job -> JobVal \cup {None}]
    BY DEF IInv, EtcdOK
  <2>2. loader' = [loader EXCEPT ![w] = l]
    BY DEF LoadList
  <2> HIDE DEF t
  <2>3. l \in LoaderRec
    BY <2>1 DEF LoaderRec
  <2> QED
    BY <2>2, <2>3, LoaderMoves
<1> QED
  BY <1>1, <1>2, <1>3, Keeps DEF IInv, bootUnchanged, etcdVars, bounds

LEMMA LoadAddPreserves ==
  ASSUME IInv, NEW w \in Worker, NEW j \in Job, LoadAdd(w, j)
  PROVE  IInv'
<1>1. loader[w] \in LoaderRec /\ loader[w].todo[j] \in JobVal /\ loader \in [Worker -> LoaderRec]
  BY DEF LoadAdd, IInv, LoaderOK, LoaderRec
<1>2. LoaderOK'
  <2>1. PICK l : l = [loader[w] EXCEPT !.todo = [@ EXCEPT ![j] = None]]
    OBVIOUS
  <2>2. loader' = [loader EXCEPT ![w].todo[j] = None]
    BY DEF LoadAdd
  <2>3. loader' = [loader EXCEPT ![w] = l]
    BY <1>1, <2>1, <2>2 DEF LoaderRec
  <2>4. l \in LoaderRec
    BY <1>1, <2>1 DEF LoaderRec
  <2> QED
    BY <2>3, <2>4, LoaderMoves
<1>3. ObjsOK' /\ SchedOK'
  BY <1>1, PushIsTyped DEF LoadAdd
<1> QED
  BY <1>2, <1>3, Keeps DEF IInv, LoadAdd, etcdVars, managerVars, bounds

-----------------------------------------------------------------------------
(* Type correctness                                                          *)

LEMMA InitIsTyped == Init => IInv
<1> SUFFICES ASSUME Init PROVE IInv
  OBVIOUS
<1>1. EtcdOK /\ FateOK
  <2>1. fate \in [Job -> {"new", "created", "deleted"}] /\ inbox \in [Worker -> Seq(Event)]
    BY DEF Init
  <2>2. store \in [Job -> JobVal \cup {None}]
    BY FreshIsVal DEF Init
  <2> QED
    BY <2>1, <2>2 DEF EtcdOK, FateOK
<1>2. LockOK /\ LifeOK
  BY DEF Init, LockOK, LifeOK
<1>3. ManagerOK
  BY DEF Init, ManagerOK
<1>4. HandlerOK
  BY AtRestIsRec DEF Init, HandlerOK
<1>5. SchedOK
  BY DEF Init, SchedOK
<1>6. LoaderOK
  BY DEF Init, LoaderOK, LoaderRec, NothingToLoad
<1>7. ObjsOK
  BY BlankIsEntry DEF Init, ObjsOK
<1>8. ExecOK
  BY IdleIsRec DEF Init, ExecOK
<1>9. BoundsOK
  BY SchedulerAssumption DEF Init, BoundsOK
<1> QED
  BY <1>1, <1>2, <1>3, <1>4, <1>5, <1>6, <1>7, <1>8, <1>9 DEF IInv

LEMMA IInvStep == IInv /\ [Next]_vars => IInv'
<1> SUFFICES ASSUME IInv, [Next]_vars PROVE IInv'
  OBVIOUS
<1>1. CASE \E j \in Job : \/ Create(j) \/ MasterPut(j) \/ MasterDelete(j) \/ MasterKill(j)
                          \/ LockExpires(j)
  BY <1>1, MasterPutPreserves, MasterEventsPreserve, LockExpiresPreserves
<1>2. CASE \E w \in Worker : HandlerStep(w)
  BY <1>2, ReceivesPreserve, TurnsPreserve, WritesPreserve, RemovesPreserve, HandleKillPreserves,
     HandleKillCachePreserves DEF HandlerStep
<1>3. CASE \E w \in Worker : LoaderStep(w) \/ LoopStep(w) \/ Boot(w)
  BY <1>3, LoadListPreserves, LoadAddPreserves, CheckDueJobsPreserves, LaunchPreserves,
     BootPreserves DEF LoaderStep, LoopStep
<1>4. CASE \E w \in Worker : Crash(w) \/ StopScheduler(w) \/ \E j \in Job : Trigger(w, j)
  BY <1>4, ProcessPreserves, TriggerPreserves
<1>5. CASE \E w \in Worker, e \in Exec : ExecStep(w, e)
  BY <1>5, ExecStepPreserves
<1>6. CASE \E o \in Obj : Tick(o)
  BY <1>6, TickPreserves
<1>7. CASE UNCHANGED vars
  BY <1>7, Keeps DEF IInv, vars, etcdVars, managerVars, schedVars, bounds
<1> QED
  BY <1>1, <1>2, <1>3, <1>4, <1>5, <1>6, <1>7 DEF Next

LEMMA AlwaysIInv == Spec => []IInv
BY InitIsTyped, IInvStep, PTL DEF Spec

\* The types of the scheduler's and the job manager's state, with every interleaving of
\* the goroutines, and the bound on a ScheduledJob's retries that CanRetry keeps.
THEOREM TypeCorrect == Spec => []TypeOK
BY AlwaysIInv, IInvIsTyped, PTL


-----------------------------------------------------------------------------
(* What the steps do to the executions                                       *)

\* All executions but that of e at w go on as they are.
Others(w, e) == \A v \in Worker, f \in Exec : v # w \/ f # e => exec'[v][f] = exec[v][f]

LEMMA GoGoes ==
  ASSUME IInv, NEW w \in Worker, NEW e \in Exec, NEW p \in ExecPC, Go(w, e, p)
  PROVE  exec'[w][e].pc = p /\ Same(exec'[w][e], exec[w][e]) /\ Others(w, e)
<1>1. PICK x \in ExecRec : exec' = [exec EXCEPT ![w][e] = x] /\ x.pc = p /\ Same(x, exec[w][e])
  BY GoMoves DEF IInv
<1>2. exec \in [Worker -> [Exec -> ExecRec]]
  BY DEF IInv, ExecOK
<1>3. exec'[w][e] = x /\ Others(w, e)
  BY <1>1, <1>2 DEF Others
<1> QED
  BY <1>1, <1>3

LEMMA EndEnds ==
  ASSUME IInv, NEW w \in Worker, NEW e \in Exec, End(w, e)
  PROVE  exec'[w][e] = Idle /\ Others(w, e)
BY IdleIsRec DEF End, IInv, ExecOK, Others

LEMMA StartStarts ==
  ASSUME IInv, NEW w \in Worker, NEW e \in Exec, NEW j \in Job, NEW o \in Obj,
         exec' = [exec EXCEPT ![w][e] = Begun("start", j, o)]
  PROVE  exec'[w][e] = Begun("start", j, o) /\ Others(w, e)
BY BegunIsRec DEF IInv, ExecOK, Others

LEMMA LookUpLooksUp ==
  ASSUME IInv, NEW w \in Worker, NEW e \in Exec, LookUp(w, e)
  PROVE  /\ \/ exec'[w][e].pc = "next" /\ exec'[w][e].exists
            \/ exec'[w][e].pc = "settle" /\ ~exec'[w][e].exists
         /\ exec'[w][e].job = exec[w][e].job /\ exec'[w][e].obj = exec[w][e].obj
         /\ exec'[w][e].ok = exec[w][e].ok
         /\ Others(w, e)
<1> DEFINE b == Known(w, exec[w][e].job) # None
           x == [exec[w][e] EXCEPT !.pc = IF b THEN "next" ELSE "settle", !.exists = b]
<1>1. exec \in [Worker -> [Exec -> ExecRec]] /\ exec[w][e] \in ExecRec
  BY DEF IInv, ExecOK
<1>2. exec' = [exec EXCEPT ![w][e] = x]
  BY Zenon DEF LookUp
<1> HIDE DEF b
<1>3. /\ x.pc = (IF b THEN "next" ELSE "settle") /\ x.exists = b
      /\ x.job = exec[w][e].job /\ x.obj = exec[w][e].obj /\ x.ok = exec[w][e].ok
  BY <1>1 DEF ExecRec
<1> HIDE DEF x
<1>4. exec'[w][e] = x /\ Others(w, e)
  BY <1>1, <1>2 DEF Others
<1>5. b \in BOOLEAN
  BY DEF b
<1> QED
  BY <1>3, <1>4, <1>5

\* The goroutine f begins to wait for the retry of the execution of e, that failed.
Retries(w, e, f) ==
  /\ exec[w][f].pc = "idle" /\ ~exec'[w][e].ok
  /\ exec'[w][f] = Begun("sleep", exec[w][e].job, exec[w][e].obj)
  /\ \A v \in Worker, g \in Exec : v # w \/ g \notin {e, f} => exec'[v][g] = exec[v][g]

\* What Finish leaves in the object of the execution.
Counted(w, e, n) ==
  /\ Heap([objs EXCEPT ![exec[w][e].obj] = n])
  /\ n.lock = objs[exec[w][e].obj].lock /\ n.isRunning = objs[exec[w][e].obj].isRunning

LEMMA FinishFinishes ==
  ASSUME IInv, NEW w \in Worker, NEW e \in Exec, Finish(w, e)
  PROVE  /\ exec'[w][e].pc = "unlock"
         /\ exec'[w][e].job = exec[w][e].job /\ exec'[w][e].obj = exec[w][e].obj
         /\ \E n \in Entry :
              /\ Counted(w, e, n)
              /\ \/ Others(w, e) /\ n.retry = 0
                 \/ n.retry > 0 /\ \E f \in Exec \ {e} : Retries(w, e, f)
<1>1. exec[w][e].job \in Job /\ exec[w][e].obj \in Obj
  BY InHand DEF Finish, At
<1>2. PICK n \in Entry, x \in ExecRec :
        /\ x.pc = "unlock" /\ x.job = exec[w][e].job /\ x.obj = exec[w][e].obj
        /\ Heap([objs EXCEPT ![exec[w][e].obj] = n])
        /\ n.lock = objs[exec[w][e].obj].lock
        /\ n.isRunning = objs[exec[w][e].obj].isRunning
        /\ \/ exec' = [exec EXCEPT ![w][e] = x] /\ n.retry = 0
           \/ \E f \in Exec \ {e} :
                /\ exec[w][f].pc = "idle" /\ n.retry > 0 /\ ~x.ok
                /\ exec' = [exec EXCEPT ![w][e] = x,
                                        ![w][f] = Begun("sleep", x.job, x.obj)]
  BY FinishMoves, Zenon
<1>3. exec \in [Worker -> [Exec -> ExecRec]]
  BY DEF IInv, ExecOK
<1>4. Counted(w, e, n)
  BY <1>2, Zenon DEF Counted
<1>5. CASE exec' = [exec EXCEPT ![w][e] = x] /\ n.retry = 0
  <2>1. exec'[w][e] = x /\ Others(w, e)
    BY <1>3, <1>5 DEF Others
  <2> QED
    BY <1>2, <1>4, <1>5, <2>1
<1>6. ASSUME NEW f \in Exec \ {e}, exec[w][f].pc = "idle", n.retry > 0, ~x.ok,
             exec' = [exec EXCEPT ![w][e] = x, ![w][f] = Begun("sleep", x.job, x.obj)]
      PROVE  exec'[w][e] = x /\ Retries(w, e, f)
  <2> DEFINE y == Begun("sleep", x.job, x.obj)
  <2>1. y = Begun("sleep", exec[w][e].job, exec[w][e].obj)
    BY <1>2
  <2>2. exec' = [exec EXCEPT ![w][e] = x, ![w][f] = y]
    BY <1>6
  <2> HIDE DEF y
  <2>3. /\ exec'[w][e] = x /\ exec'[w][f] = y
        /\ \A v \in Worker, g \in Exec : v # w \/ g \notin {e, f} => exec'[v][g] = exec[v][g]
    BY <1>3, <2>2
  <2> QED
    BY <1>6, <2>1, <2>3 DEF Retries
<1>7. CASE \E f \in Exec \ {e} :
             /\ exec[w][f].pc = "idle" /\ n.retry > 0 /\ ~x.ok
             /\ exec' = [exec EXCEPT ![w][e] = x, ![w][f] = Begun("sleep", x.job, x.obj)]
  <2>1. n.retry > 0 /\ \E f \in Exec \ {e} : exec'[w][e] = x /\ Retries(w, e, f)
    BY <1>6, <1>7
  <2> QED
    BY <1>2, <1>4, <2>1
<1> QED
  BY <1>2, <1>5, <1>7, Zenon

LEMMA DiesEnds ==
  ASSUME IInv, NEW w \in Worker, Dies(w)
  PROVE  /\ \A e \in Exec : exec'[w][e] = Idle
         /\ \A v \in Worker \ {w}, e \in Exec : exec'[v][e] = exec[v][e]
         /\ \A j \in Job : queue'[w][j] = None /\ runningJobs'[w][j] = None /\ due'[w][j] = None
         /\ \A v \in Worker \ {w} : /\ queue'[v] = queue[v] /\ runningJobs'[v] = runningJobs[v]
                                    /\ due'[v] = due[v]
<1>1. /\ \A e \in Exec : exec'[w][e] = Idle
      /\ \A v \in Worker \ {w}, e \in Exec : exec'[v][e] = exec[v][e]
  BY DEF Dies, IInv, ExecOK
<1>2. /\ \A j \in Job : queue'[w][j] = None /\ runningJobs'[w][j] = None /\ due'[w][j] = None
      /\ \A v \in Worker \ {w} : /\ queue'[v] = queue[v] /\ runningJobs'[v] = runningJobs[v]
                                 /\ due'[v] = due[v]
  BY DEF Dies, IInv, SchedOK
<1> QED
  BY <1>1, <1>2

-----------------------------------------------------------------------------
(* The slots of running jobs                                                 *)

\* Executions that are stored stay so, and no entry of runningJobs is new.
LEMMA RunsKeep ==
  ASSUME RunningHasExecution,
         \A v \in Worker, j \in Job : runningJobs'[v][j] \in {runningJobs[v][j], None},
         \A v \in Worker, e \in Exec : exec[v][e].pc \in StoredPC =>
           /\ exec'[v][e].pc \in StoredPC
           /\ exec'[v][e].job = exec[v][e].job /\ exec'[v][e].obj = exec[v][e].obj
  PROVE  RunningHasExecution'
<1> SUFFICES ASSUME NEW w \in Worker, NEW j \in Job, runningJobs'[w][j] # None
             PROVE  \E e \in Exec : /\ exec'[w][e].pc \in StoredPC
                                    /\ exec'[w][e].job = j /\ exec'[w][e].obj = runningJobs'[w][j]
  BY DEF RunningHasExecution
<1>1. PICK e \in Exec : /\ exec[w][e].pc \in StoredPC
                        /\ exec[w][e].job = j /\ exec[w][e].obj = runningJobs[w][j]
  BY DEF RunningHasExecution
<1> QED
  BY <1>1

\* Of the executions, only that of e at w moves.
LEMMA RunsKeepOne ==
  ASSUME RunningHasExecution, NEW w \in Worker, NEW e \in Exec, Others(w, e),
         UNCHANGED runningJobs,
         exec[w][e].pc \in StoredPC =>
           /\ exec'[w][e].pc \in StoredPC
           /\ exec'[w][e].job = exec[w][e].job /\ exec'[w][e].obj = exec[w][e].obj
  PROVE  RunningHasExecution'
BY RunsKeep DEF Others

LEMMA ExecStepKeepsRuns ==
  ASSUME IInv, RunningHasExecution, NEW w \in Worker, NEW e \in Exec, ExecStep(w, e)
  PROVE  RunningHasExecution'
<1>1. CASE CheckAssigned(w, e) \/ TryLock(w, e) \/ TryLockFails(w, e) \/ RetryWakes(w, e)
  <2>1. exec[w][e].pc \notin StoredPC /\ UNCHANGED runningJobs
    BY <1>1 DEF CheckAssigned, TryLock, TryLockFails, RetryWakes, At, StoredPC, schedVars
  <2>2. End(w, e) \/ \E p \in ExecPC : Go(w, e, p)
    BY <1>1 DEF CheckAssigned, TryLock, TryLockFails, RetryWakes, ExecPC
  <2>3. Others(w, e)
    BY <2>2, GoGoes, EndEnds
  <2> QED
    BY <2>1, <2>3, RunsKeepOne
<1>2. CASE \/ ReportRunning(w, e) \/ CacheRunning(w, e) \/ UnlockJob(w, e) \/ ForgetLock(w, e)
           \/ ScheduleNextRun(w, e) \/ ReportEnded(w, e) \/ CacheEnded(w, e) \/ Settle(w, e)
  <2>1. UNCHANGED runningJobs /\ \E p \in StoredPC : Go(w, e, p)
    BY <1>2 DEF ReportRunning, CacheRunning, UnlockJob, ForgetLock, ScheduleNextRun, ReportEnded,
                CacheEnded, Settle, ReportPut, ReportCache, StoredPC, schedVars
  <2>2. Others(w, e) /\ exec'[w][e].pc \in StoredPC /\ Same(exec'[w][e], exec[w][e])
    BY <2>1, GoGoes DEF ExecPC
  <2> QED
    BY <2>1, <2>2, RunsKeepOne DEF Same
<1>3. CASE LookUp(w, e)
  BY <1>3, LookUpLooksUp, RunsKeepOne DEF LookUp, schedVars, StoredPC
<1>4. CASE Finish(w, e)
  <2>1. UNCHANGED runningJobs
    BY <1>4 DEF Finish, schedVars
  <2>2. /\ exec'[w][e].pc \in StoredPC
        /\ exec'[w][e].job = exec[w][e].job /\ exec'[w][e].obj = exec[w][e].obj
        /\ Others(w, e) \/ \E f \in Exec \ {e} : Retries(w, e, f)
    BY <1>4, FinishFinishes DEF StoredPC
  <2>3. CASE Others(w, e)
    BY <2>1, <2>2, <2>3, RunsKeepOne
  <2>4. ASSUME NEW f \in Exec \ {e}, Retries(w, e, f) PROVE RunningHasExecution'
    <3>1. "idle" \notin StoredPC
      BY DEF StoredPC
    <3> QED
      BY <2>1, <2>2, <2>4, <3>1, RunsKeep DEF Retries
  <2> QED
    BY <2>2, <2>3, <2>4
<1>5. CASE Begin(w, e)
  <2>1. runningJobs' = [runningJobs EXCEPT ![w][exec[w][e].job] = exec[w][e].obj]
        /\ Go(w, e, "report") /\ exec[w][e].pc \notin StoredPC /\ "report" \in ExecPC \cap StoredPC
    BY <1>5 DEF Begin, At, StoredPC, ExecPC
  <2>2. Others(w, e) /\ exec'[w][e].pc = "report" /\ Same(exec'[w][e], exec[w][e])
    BY <2>1, GoGoes
  <2>3. \A v \in Worker, j \in Job :
          (v = w /\ j = exec[w][e].job) \/ runningJobs'[v][j] = runningJobs[v][j]
    BY <2>1 DEF IInv, SchedOK
  <2>4. runningJobs'[w][exec[w][e].job] = exec[w][e].obj \/ exec[w][e].job \notin Job
    BY <2>1 DEF IInv, SchedOK
  <2> SUFFICES ASSUME NEW v \in Worker, NEW j \in Job, runningJobs'[v][j] # None
               PROVE  \E f \in Exec : /\ exec'[v][f].pc \in StoredPC
                                      /\ exec'[v][f].job = j /\ exec'[v][f].obj = runningJobs'[v][j]
    BY DEF RunningHasExecution
  <2>5. CASE v = w /\ j = exec[w][e].job
    BY <2>1, <2>2, <2>4, <2>5 DEF Same
  <2>6. CASE ~(v = w /\ j = exec[w][e].job)
    <3>1. PICK f \in Exec : /\ exec[v][f].pc \in StoredPC
                            /\ exec[v][f].job = j /\ exec[v][f].obj = runningJobs[v][j]
      BY <2>3, <2>6 DEF RunningHasExecution
    <3>2. exec'[v][f] = exec[v][f]
      BY <2>1, <2>2, <3>1 DEF Others
    <3> QED
      BY <2>3, <2>6, <3>1, <3>2
  <2> QED
    BY <2>5, <2>6
<1>6. CASE RemoveRunning(w, e)
  <2>1. runningJobs' = [runningJobs EXCEPT ![w][exec[w][e].job] = None] /\ Others(w, e)
    BY <1>6, EndEnds DEF RemoveRunning, Drop
  <2>2. \A v \in Worker, j \in Job :
          \/ v = w /\ j = exec[w][e].job /\ runningJobs'[v][j] = None
          \/ (v # w \/ j # exec[w][e].job) /\ runningJobs'[v][j] = runningJobs[v][j]
    BY <2>1 DEF IInv, SchedOK
  <2> SUFFICES ASSUME NEW v \in Worker, NEW j \in Job, runningJobs'[v][j] # None
               PROVE  \E f \in Exec : /\ exec'[v][f].pc \in StoredPC
                                      /\ exec'[v][f].job = j /\ exec'[v][f].obj = runningJobs'[v][j]
    BY DEF RunningHasExecution
  <2>3. runningJobs'[v][j] = runningJobs[v][j] /\ (v # w \/ j # exec[w][e].job)
    BY <2>2
  <2>4. PICK f \in Exec : /\ exec[v][f].pc \in StoredPC
                          /\ exec[v][f].job = j /\ exec[v][f].obj = runningJobs[v][j]
    BY <2>3 DEF RunningHasExecution
  <2>5. exec'[v][f] = exec[v][f]
    BY <2>1, <2>3, <2>4 DEF Others
  <2> QED
    BY <2>3, <2>4, <2>5
<1> QED
  BY <1>1, <1>2, <1>3, <1>4, <1>5, <1>6 DEF ExecStep

\* A step that begins an execution in a free goroutine.
LEMMA StartKeepsRuns ==
  ASSUME IInv, RunningHasExecution, NEW w \in Worker, NEW e \in Exec, NEW j \in Job, NEW o \in Obj,
         At(w, e, "idle"), exec' = [exec EXCEPT ![w][e] = Begun("start", j, o)],
         UNCHANGED runningJobs
  PROVE  RunningHasExecution'
BY StartStarts, RunsKeepOne DEF At, StoredPC

LEMMA LoopKeepsRuns ==
  ASSUME IInv, RunningHasExecution, NEW w \in Worker, NEW j \in Job, Launch(w, j) \/ Trigger(w, j)
  PROVE  RunningHasExecution'
<1>1. CASE \E e \in Exec, o \in Obj :
             /\ At(w, e, "idle") /\ exec' = [exec EXCEPT ![w][e] = Begun("start", j, o)]
             /\ UNCHANGED runningJobs
  BY <1>1, StartKeepsRuns
<1>2. CASE UNCHANGED <<exec, runningJobs>>
  BY <1>2 DEF RunningHasExecution
<1>3. CASE Dies(w)
  BY <1>3, DiesEnds DEF RunningHasExecution
<1>4. CASE Launch(w, j)
  <2>1. due[w][j] \in Obj
    BY <1>4 DEF Launch, IInv, SchedOK
  <2> QED
    BY <1>1, <1>2, <1>4, <2>1 DEF Launch
<1>5. CASE Trigger(w, j)
  <2>1. Scheduled(w, j) \in Obj \cup {None}
    BY DEF Scheduled, IInv, SchedOK
  <2> QED
    BY <1>1, <1>2, <1>3, <1>5, <2>1 DEF Trigger, schedVars
<1> QED
  BY <1>4, <1>5

LEMMA RunsStep == IInv /\ RunningHasExecution /\ [Next]_vars => RunningHasExecution'
<1> SUFFICES ASSUME IInv, RunningHasExecution, [Next]_vars PROVE RunningHasExecution'
  OBVIOUS
<1>1. CASE \E j \in Job : \/ Create(j) \/ MasterPut(j) \/ MasterDelete(j) \/ MasterKill(j)
                          \/ LockExpires(j)
  BY <1>1 DEF Create, MasterPut, MasterDelete, MasterKill, LockExpires, masterUnchanged,
              schedVars, RunningHasExecution
<1>2. ASSUME NEW w \in Worker, HandlerStep(w) PROVE RunningHasExecution'
  <2>1. CASE HandleDrop(w, "drop") \/ HandleDrop(w, "killDrop")
    <3>1. runningJobs' = [runningJobs EXCEPT ![w][handler[w].job] = None] /\ UNCHANGED exec
      BY <2>1 DEF HandleDrop, Drop, handlerUnchanged
    <3>2. \A v \in Worker, j \in Job : runningJobs'[v][j] \in {runningJobs[v][j], None}
      BY <3>1 DEF IInv, SchedOK
    <3> QED
      BY <3>1, <3>2, RunsKeep
  <2>2. CASE UNCHANGED <<exec, runningJobs>>
    BY <2>2 DEF RunningHasExecution
  <2>3. \/ HandleDrop(w, "drop") \/ HandleDrop(w, "killDrop") \/ UNCHANGED <<exec, runningJobs>>
    BY <1>2 DEF HandlerStep, ReceivePut, ReceiveDelete, ReceiveKill, Receive, HandleSave,
                UpdateContains, HandlePush, UpdateCopies, UpdateWrites, HandleRemove, HandleKill,
                HandleKillCache, handlerUnchanged, schedVars
  <2> QED
    BY <2>1, <2>2, <2>3
<1>3. CASE \E w \in Worker : LoaderStep(w) \/ CheckDueJobs(w) \/ Boot(w) \/ StopScheduler(w)
  BY <1>3 DEF LoaderStep, LoadList, LoadAdd, CheckDueJobs, Boot, StopScheduler, bootUnchanged,
              schedVars, RunningHasExecution
<1>4. CASE \E w \in Worker, j \in Job : Launch(w, j) \/ Trigger(w, j)
  BY <1>4, LoopKeepsRuns
<1>5. CASE \E w \in Worker : Crash(w)
  BY <1>5, DiesEnds DEF Crash, RunningHasExecution
<1>6. CASE \E w \in Worker, e \in Exec : ExecStep(w, e)
  BY <1>6, ExecStepKeepsRuns
<1>7. CASE (\E o \in Obj : Tick(o)) \/ UNCHANGED vars
  BY <1>7 DEF Tick, vars, schedVars, RunningHasExecution
<1> QED
  BY <1>1, <1>2, <1>3, <1>4, <1>5, <1>6, <1>7 DEF Next, LoopStep

\* A slot of MaxConcurrent that is taken will be given back: whatever the master and the
\* event goroutine do, and whenever the process dies, an entry of runningJobs belongs to
\* an executeJob that has not yet deleted it.
THEOREM SlotsAreHeldByExecutions == Spec => []RunningHasExecution
<1>1. Init => RunningHasExecution
  BY DEF Init, RunningHasExecution
<1> QED
  BY <1>1, AlwaysIInv, RunsStep, PTL DEF Spec


-----------------------------------------------------------------------------
(* The deletion of a queued job is noticed                                   *)

CacheGrows == \A w \in Worker, j \in Job : cache[w][j] # None => cache'[w][j] # None

QueueShrinks == \A w \in Worker, j \in Job : queue'[w][j] # None => queue[w][j] # None

\* A worker that is not started again: it is up, its loader has nothing to do, and what the
\* event goroutine is about to queue is cached.
UpOK(w) ==
  /\ life[w] \in {"up", "stopped"} /\ loader[w].pc = "idle"
  /\ handler[w].pc \in {"save", "update", "push", "copy", "write"}
       => cache[w][handler[w].job] # None

KnownInv == QueuedJobIsKnown /\ \A w \in Worker : UpOK(w)

LEMMA CacheStatusGrows ==
  ASSUME IInv, NEW w \in Worker, NEW j \in Job, NEW v \in JobVal, CacheStatus(w, j, v)
  PROVE  CacheGrows /\ cache'[w][j] # None
<1>1. v # None
  BY SchedulerAssumption
<1> QED
  BY <1>1 DEF CacheStatus, CacheGrows, IInv, ManagerOK

LEMMA GetJobGrows ==
  ASSUME IInv, NEW w \in Worker, NEW j \in Job, GetJob(w, j)
  PROVE  CacheGrows
BY DEF GetJob, Known, CacheGrows, IInv, ManagerOK

LEMMA SameCacheGrows == UNCHANGED cache => CacheGrows
BY DEF CacheGrows

LEMMA SameQueueShrinks == UNCHANGED queue => QueueShrinks
BY DEF QueueShrinks

\* An entry of the queue is replaced or removed.
LEMMA QueueReplaces ==
  ASSUME IInv, NEW w \in Worker, NEW j \in Job, NEW o,
         queue' = [queue EXCEPT ![w][j] = o], o = None \/ queue[w][j] # None
  PROVE  QueueShrinks
BY DEF QueueShrinks, IInv, SchedOK

LEMMA KnownKeeps ==
  ASSUME KnownInv, IInv, CacheGrows, QueueShrinks, UNCHANGED <<life, loader, handler>>
  PROVE  KnownInv'
<1>1. QueuedJobIsKnown'
  BY DEF KnownInv, QueuedJobIsKnown, CacheGrows, QueueShrinks
<1>2. ASSUME NEW w \in Worker PROVE UpOK(w)'
  <2>1. handler[w].pc \in {"save", "update", "push", "copy", "write"} => handler[w].job \in Job
    BY EventInHand
  <2> QED
    BY <2>1 DEF KnownInv, UpOK, CacheGrows
<1> QED
  BY <1>1, <1>2 DEF KnownInv

LEMMA ExecStepKeepsKnown ==
  ASSUME IInv, KnownInv, NEW w \in Worker, NEW e \in Exec, ExecStep(w, e)
  PROVE  KnownInv'
<1>1. UNCHANGED <<life, loader, handler>>
  BY DEF ExecStep, CheckAssigned, TryLock, TryLockFails, Begin, ReportRunning, CacheRunning, Finish,
         RetryWakes, UnlockJob, ForgetLock, LookUp, ScheduleNextRun, ReportEnded, CacheEnded,
         Settle, RemoveRunning, ReportPut, ReportCache, execUnchanged, schedVars
<1>2. exec[w][e].pc # "idle"
  BY DEF ExecStep, CheckAssigned, TryLock, TryLockFails, Begin, ReportRunning, CacheRunning, Finish,
         RetryWakes, UnlockJob, ForgetLock, LookUp, ScheduleNextRun, ReportEnded, CacheEnded,
         Settle, RemoveRunning, At
<1>3. exec[w][e].job \in Job /\ objs[exec[w][e].obj].val \in JobVal
  BY <1>2, InHand
<1>4. CacheGrows
  <2>1. CASE CacheRunning(w, e) \/ CacheEnded(w, e)
    BY <1>3, <2>1, CacheStatusGrows DEF CacheRunning, CacheEnded, ReportCache
  <2>2. CASE LookUp(w, e)
    BY <1>3, <2>2, GetJobGrows DEF LookUp
  <2>3. CASE ~(CacheRunning(w, e) \/ CacheEnded(w, e) \/ LookUp(w, e))
    <3>1. UNCHANGED cache
      BY <2>3 DEF ExecStep, CheckAssigned, TryLock, TryLockFails, Begin, ReportRunning, Finish,
                  RetryWakes, UnlockJob, ForgetLock, ScheduleNextRun, ReportEnded, Settle,
                  RemoveRunning, ReportPut, managerVars
    <3> QED
      BY <3>1, SameCacheGrows
  <2> QED
    BY <2>1, <2>2, <2>3
<1>5. QueueShrinks
  <2>1. CASE ScheduleNextRun(w, e)
    <3>1. \/ UNCHANGED queue
          \/ /\ queue' = [queue EXCEPT ![w][exec[w][e].job] = exec[w][e].obj]
             /\ queue[w][exec[w][e].job] # None
      BY <2>1 DEF ScheduleNextRun
    <3> QED
      BY <1>3, <3>1, SameQueueShrinks, QueueReplaces
  <2>2. CASE Settle(w, e)
    <3>1. \/ UNCHANGED queue
          \/ /\ queue' = [queue EXCEPT ![w][exec[w][e].job] = New]
             /\ queue[w][exec[w][e].job] # None
      BY <2>2 DEF Settle
    <3> QED
      BY <1>3, <3>1, SameQueueShrinks, QueueReplaces
  <2>3. CASE ~(ScheduleNextRun(w, e) \/ Settle(w, e))
    <3>1. UNCHANGED queue
      BY <2>3 DEF ExecStep, CheckAssigned, TryLock, TryLockFails, Begin, ReportRunning,
                  CacheRunning, Finish, RetryWakes, UnlockJob, ForgetLock, LookUp, ReportEnded,
                  CacheEnded, RemoveRunning, ReportPut, ReportCache, schedVars
    <3> QED
      BY <3>1, SameQueueShrinks
  <2> QED
    BY <2>1, <2>2, <2>3
<1> QED
  BY <1>1, <1>4, <1>5, KnownKeeps

\* The event goroutine of w has queued or removed what it had in hand, or takes up an event.
LEMMA HandlerStepKeepsKnown ==
  ASSUME IInv, IInv', KnownInv, NEW w \in Worker, HandlerStep(w)
  PROVE  KnownInv'
<1> DEFINE h == handler[w]
           k == handler'[w]
<1>1. UNCHANGED life /\ UNCHANGED loader
  BY DEF HandlerStep, ReceivePut, ReceiveDelete, ReceiveKill, Receive, HandleSave, UpdateContains,
         HandlePush, UpdateCopies, UpdateWrites, HandleRemove, HandleDrop, HandleKill,
         HandleKillCache, handlerUnchanged, schedVars
<1>2. \A v \in Worker : v # w => handler'[v] = handler[v]
  BY DEF IInv, HandlerOK, HandlerStep, ReceivePut, ReceiveDelete, ReceiveKill, Receive, Notify,
         HandleSave, UpdateContains, HandlePush, UpdateCopies, UpdateWrites, HandleRemove,
         HandleDrop, HandleKill, HandleKillCache, Rest, Turn
<1>3. life[w] # "watching"
  BY DEF KnownInv, UpOK
\* It suffices to look at w: the queue and the cache of another worker do not change.
<1>4. ASSUME \A v \in Worker : v # w => cache'[v] = cache[v] /\ queue'[v] = queue[v],
             \A j \in Job : queue'[w][j] # None => \/ cache'[w][j] # None
                                                   \/ k.pc = "remove" /\ k.job = j,
             k.pc \in {"save", "update", "push", "copy", "write"} => cache'[w][k.job] # None
      PROVE  KnownInv'
  <2>1. QueuedJobIsKnown'
    BY <1>2, <1>4 DEF KnownInv, QueuedJobIsKnown
  <2>2. ASSUME NEW v \in Worker PROVE UpOK(v)'
    BY <1>1, <1>2, <1>4, <2>2 DEF KnownInv, UpOK
  <2> QED
    BY <2>1, <2>2 DEF KnownInv
<1>5. handler'[w] \in HandlerRec /\ handler \in [Worker -> HandlerRec] /\ AtRest.pc = "idle"
  BY DEF IInv, HandlerOK, AtRest
\* The steps that neither queue nor remove nor write the cache.
<1>6. CASE HandleSave(w) \/ UpdateContains(w) \/ UpdateCopies(w)
  <2>1. /\ UNCHANGED <<cache, queue>> /\ h.pc \in {"save", "update", "copy"}
    BY <1>6 DEF HandleSave, UpdateContains, UpdateCopies, Handles, managerVars, schedVars
  <2>2. k.pc = "idle" \/ k.job = h.job
    BY <1>5, <1>6 DEF HandleSave, UpdateContains, UpdateCopies, Turn, Rest, HandlerRec
  <2>3. cache[w][h.job] # None
    BY <2>1 DEF KnownInv, UpOK
  <2>4. \A j \in Job : queue[w][j] # None => cache[w][j] # None
    BY <2>1 DEF KnownInv, QueuedJobIsKnown
  <2> QED
    BY <1>4, <2>1, <2>2, <2>3, <2>4
<1>7. CASE HandlePush(w) \/ UpdateWrites(w)
  <2>1. UNCHANGED cache /\ h.pc \in {"push", "write"} /\ k.pc = "idle"
    BY <1>5, <1>7 DEF HandlePush, UpdateWrites, Handles, managerVars, Rest
  <2>2. cache[w][h.job] # None /\ h.job \in Job
    BY <2>1, EventInHand DEF KnownInv, UpOK
  <2>3. \A j \in Job : queue[w][j] # None => cache[w][j] # None
    BY <2>1 DEF KnownInv, QueuedJobIsKnown
  <2>4. UNCHANGED queue \/ queue' = [queue EXCEPT ![w][h.job] = New]
    BY <1>7 DEF HandlePush, UpdateWrites, Push
  <2>5. \A v \in Worker, j \in Job : v # w \/ j # h.job => queue'[v][j] = queue[v][j]
    BY <2>4 DEF IInv, SchedOK
  <2>6. \A v \in Worker : v # w => queue'[v] = queue[v]
    BY <2>4 DEF IInv, SchedOK
  <2> QED
    BY <1>4, <2>1, <2>2, <2>3, <2>5, <2>6
<1>8. CASE HandleRemove(w)
  <2>1. UNCHANGED cache /\ h.pc = "remove" /\ k.pc = "drop" /\ h.job \in Job
        /\ queue' = [queue EXCEPT ![w][h.job] = None]
    BY <1>5, <1>8, EventInHand DEF HandleRemove, Handles, managerVars, Turn, HandlerRec
  <2>2. \A j \in Job : queue'[w][j] # None => cache[w][j] # None
    BY <2>1 DEF KnownInv, QueuedJobIsKnown, IInv, SchedOK
  <2>3. \A v \in Worker : v # w => queue'[v] = queue[v]
    BY <2>1 DEF IInv, SchedOK
  <2> QED
    BY <1>4, <2>1, <2>2, <2>3
<1>9. CASE HandleDrop(w, "drop") \/ HandleDrop(w, "killDrop")
  <2>1. UNCHANGED <<cache, queue>> /\ h.pc # "remove" /\ k.pc = "idle"
    BY <1>5, <1>9 DEF HandleDrop, Handles, managerVars, Rest
  <2> QED
    BY <1>4, <2>1 DEF KnownInv, QueuedJobIsKnown
<1>10. CASE HandleKill(w)
  <2>1. UNCHANGED <<cache, queue>> /\ h.pc = "kill" /\ k.pc \in {"idle", "killCache", "killDrop"}
    BY <1>5, <1>10 DEF HandleKill, Handles, managerVars, schedVars, Rest, Turn, HandlerRec
  <2> QED
    BY <1>4, <2>1 DEF KnownInv, QueuedJobIsKnown
<1>11. CASE HandleKillCache(w)
  <2>1. UNCHANGED queue /\ h.pc = "killCache" /\ k.pc = "killDrop"
    BY <1>5, <1>11 DEF HandleKillCache, Handles, schedVars, HandlerRec
  <2>2. h.job \in Job /\ h.val \in JobVal
    BY <2>1, EventInHand
  <2>3. CacheGrows
    BY <1>11, <2>2, CacheStatusGrows DEF HandleKillCache
  <2>4. \A v \in Worker : v # w => cache'[v] = cache[v]
    BY <1>11 DEF HandleKillCache, CacheStatus, IInv, ManagerOK
  <2> QED
    BY <1>4, <2>1, <2>3, <2>4 DEF KnownInv, QueuedJobIsKnown, CacheGrows
<1>12. CASE ReceivePut(w)
  <2> DEFINE ev == Head(inbox[w])
  <2>1. UNCHANGED queue /\ h.pc = "idle"
    BY <1>12 DEF ReceivePut, Receive, Handles, schedVars
  <2>2. ev.job \in Job /\ ev.val \in JobVal
    BY <1>12, HeadIsEvent DEF ReceivePut
  <2>3. \/ CacheStatus(w, ev.job, ev.val) /\ Notify(w, "save", ev.job, ev.val)
        \/ UNCHANGED <<managerVars, handler>>
    BY <1>12 DEF ReceivePut
  <2> HIDE DEF ev
  <2>4. CASE UNCHANGED <<managerVars, handler>>
    BY <1>4, <2>1, <2>4 DEF KnownInv, QueuedJobIsKnown, managerVars
  <2>5. CASE CacheStatus(w, ev.job, ev.val) /\ Notify(w, "save", ev.job, ev.val)
    <3>1. k.pc = "save" /\ k.job = ev.job
      BY <1>3, <1>5, <2>5 DEF Notify
    <3>2. CacheGrows /\ cache'[w][ev.job] # None
      BY <2>2, <2>5, CacheStatusGrows
    <3>3. \A v \in Worker : v # w => cache'[v] = cache[v]
      BY <2>5 DEF CacheStatus, IInv, ManagerOK
    <3> QED
      BY <1>4, <2>1, <3>1, <3>2, <3>3 DEF KnownInv, QueuedJobIsKnown, CacheGrows
  <2> QED
    BY <2>3, <2>4, <2>5
<1>13. CASE ReceiveDelete(w)
  <2> DEFINE ev == Head(inbox[w])
  <2>1. UNCHANGED queue /\ h.pc = "idle"
    BY <1>13 DEF ReceiveDelete, Receive, Handles, schedVars
  <2>2. ev.job \in Job
    BY <1>13, HeadIsEvent DEF ReceiveDelete
  <2>3. \/ cache' = [cache EXCEPT ![w][ev.job] = None] /\ Notify(w, "remove", ev.job, None)
        \/ UNCHANGED <<managerVars, handler>>
    BY <1>13 DEF ReceiveDelete
  <2> HIDE DEF ev
  <2>4. CASE UNCHANGED <<managerVars, handler>>
    BY <1>4, <2>1, <2>4 DEF KnownInv, QueuedJobIsKnown, managerVars
  <2>5. CASE cache' = [cache EXCEPT ![w][ev.job] = None] /\ Notify(w, "remove", ev.job, None)
    <3>1. k.pc = "remove" /\ k.job = ev.job
      BY <1>3, <1>5, <2>5 DEF Notify
    <3>2. \A j \in Job : j # ev.job => cache'[w][j] = cache[w][j]
      BY <2>5 DEF IInv, ManagerOK
    <3>3. \A v \in Worker : v # w => cache'[v] = cache[v]
      BY <2>5 DEF IInv, ManagerOK
    <3> QED
      BY <1>4, <2>1, <3>1, <3>2, <3>3 DEF KnownInv, QueuedJobIsKnown
  <2> QED
    BY <2>3, <2>4, <2>5
<1>14. CASE ReceiveKill(w)
  <2> DEFINE ev == Head(inbox[w])
  <2>1. UNCHANGED queue /\ h.pc = "idle" /\ GetJob(w, ev.job)
    BY <1>14 DEF ReceiveKill, Receive, Handles, schedVars
  <2>2. ev.job \in Job
    BY <1>14, HeadIsEvent DEF ReceiveKill
  <2>3. Notify(w, "kill", ev.job, None) \/ UNCHANGED handler
    BY <1>14 DEF ReceiveKill
  <2> HIDE DEF ev
  <2>4. k.pc \in {"kill", "idle"}
    BY <1>3, <1>5, <2>1, <2>3 DEF Notify
  <2>5. CacheGrows
    BY <2>1, <2>2, GetJobGrows
  <2>6. \A v \in Worker : v # w => cache'[v] = cache[v]
    BY <2>1 DEF GetJob, IInv, ManagerOK
  <2> QED
    BY <1>4, <2>1, <2>4, <2>5, <2>6 DEF KnownInv, QueuedJobIsKnown, CacheGrows
<1> QED
  BY <1>6, <1>7, <1>8, <1>9, <1>10, <1>11, <1>12, <1>13, <1>14 DEF HandlerStep

LEMMA KnownStep ==
  ASSUME Env \cap {"Boot", "Crash", "Trigger"} = {}, IInv, IInv', KnownInv, [Next]_vars
  PROVE  KnownInv'
<1>1. CASE \E j \in Job : \/ Create(j) \/ MasterPut(j) \/ MasterDelete(j) \/ MasterKill(j)
                          \/ LockExpires(j)
  <2>1. UNCHANGED <<life, loader, handler, cache, queue>>
    BY <1>1 DEF Create, MasterPut, MasterDelete, MasterKill, LockExpires, masterUnchanged,
                schedVars, managerVars
  <2> QED
    BY <2>1, KnownKeeps, SameCacheGrows, SameQueueShrinks
<1>2. CASE \E w \in Worker : HandlerStep(w)
  BY <1>2, HandlerStepKeepsKnown
<1>3. CASE \E w \in Worker : LoaderStep(w) \/ Boot(w) \/ Crash(w) \/ \E j \in Job : Trigger(w, j)
  <2>1. \A w \in Worker : life[w] \in {"up", "stopped"} /\ loader[w].pc = "idle"
    BY DEF KnownInv, UpOK
  <2> QED
    BY <1>3, <2>1 DEF LoaderStep, LoadList, LoadAdd, Boot, Crash, Trigger
<1>4. ASSUME NEW w \in Worker, LoopStep(w) PROVE KnownInv'
  <2>1. UNCHANGED <<life, loader, handler, cache>>
    BY <1>4 DEF LoopStep, CheckDueJobs, Launch, managerVars
  <2>2. UNCHANGED queue \/ \E j \in Job : queue' = [queue EXCEPT ![w][j] = None]
    BY <1>4 DEF LoopStep, CheckDueJobs, Launch
  <2>3. QueueShrinks
    BY <2>2, SameQueueShrinks, QueueReplaces
  <2> QED
    BY <2>1, <2>3, KnownKeeps, SameCacheGrows
<1>5. ASSUME NEW w \in Worker, StopScheduler(w) PROVE KnownInv'
  <2>1. /\ UNCHANGED <<loader, handler, cache, queue>>
        /\ life' = [life EXCEPT ![w] = "stopped"]
    BY <1>5 DEF StopScheduler, managerVars, schedVars
  <2>2. \A v \in Worker : life'[v] \in {life[v], "stopped"}
    BY <2>1 DEF IInv, LifeOK
  <2> QED
    BY <2>1, <2>2 DEF KnownInv, QueuedJobIsKnown, UpOK
<1>6. CASE \E w \in Worker, e \in Exec : ExecStep(w, e)
  BY <1>6, ExecStepKeepsKnown
<1>7. CASE (\E o \in Obj : Tick(o)) \/ UNCHANGED vars
  <2>1. UNCHANGED <<life, loader, handler, cache, queue>>
    BY <1>7 DEF Tick, vars, managerVars, schedVars
  <2> QED
    BY <2>1, KnownKeeps, SameCacheGrows, SameQueueShrinks
<1> QED
  BY <1>1, <1>2, <1>3, <1>4, <1>5, <1>6, <1>7 DEF Next

\* No deletion is missed: on a worker that is up and is not started again, a job that is
\* queued is in the job manager's cache, without which handleJobDelete tells nobody, or the
\* event goroutine is removing it.  loadJobs is what a worker's start adds: it lists the
\* jobs, and adds them after events of them were handled.
THEOREM DeletionIsNoticed ==
  ASSUME Env \cap {"Boot", "Crash", "Trigger"} = {}
  PROVE  Spec => []QueuedJobIsKnown
<1>1. Init => KnownInv
  BY DEF Init, KnownInv, QueuedJobIsKnown, UpOK, AtRest, NothingToLoad
<1>2. IInv /\ IInv' /\ KnownInv /\ [Next]_vars => KnownInv'
  BY KnownStep
<1>3. KnownInv => QueuedJobIsKnown
  BY DEF KnownInv
<1> QED
  BY <1>1, <1>2, <1>3, AlwaysIInv, PTL DEF Spec


-----------------------------------------------------------------------------
(* One worker at a time                                                      *)

HoldingPC == {"locked", "report", "cache", "run"}

\* No two executions of a job on one worker are between TryLock and the end of Unlock at
\* once.  The lock itself does not see to that: TryLock succeeds on a lock this worker holds.
OnceOnEachWorker ==
  \A w \in Worker : \A e, f \in Exec :
    e # f /\ exec[w][e].job = exec[w][f].job /\ exec[w][e].pc \in HoldingPC \cup {"unlock"} =>
      exec[w][f].pc \notin HoldingPC \cup {"unlock"}

HoldersOwn ==
  \A w \in Worker, e \in Exec : exec[w][e].pc \in HoldingPC => lockOwner[exec[w][e].job] = w

LEMMA HoldersAreOne == ASSUME HoldersOwn PROVE OneWorkerAtATime
<1> SUFFICES ASSUME NEW j \in Job PROVE Cardinality(Holders(j)) <= 1
  BY DEF OneWorkerAtATime
<1>1. Holders(j) \subseteq {lockOwner[j]}
  BY DEF Holders, HoldersOwn, HoldingPC
<1>2. IsFiniteSet({lockOwner[j]}) /\ Cardinality({lockOwner[j]}) = 1
  BY FS_Singleton
<1>3. Cardinality(Holders(j)) <= Cardinality({lockOwner[j]})
  BY <1>1, <1>2, FS_Subset
<1> QED
  BY <1>2, <1>3

\* Nobody takes or loses a lock, and no execution begins to hold one.
LEMMA HoldersKeep ==
  ASSUME HoldersOwn, UNCHANGED lockOwner,
         \A v \in Worker, f \in Exec : exec'[v][f].pc \in HoldingPC =>
           exec[v][f].pc \in HoldingPC /\ exec'[v][f].job = exec[v][f].job
  PROVE  HoldersOwn'
BY DEF HoldersOwn

LEMMA HoldersKeepOne ==
  ASSUME HoldersOwn, UNCHANGED lockOwner, NEW w \in Worker, NEW e \in Exec, Others(w, e),
         exec'[w][e].pc \in HoldingPC =>
           exec[w][e].pc \in HoldingPC /\ exec'[w][e].job = exec[w][e].job
  PROVE  HoldersOwn'
BY HoldersKeep DEF Others

LEMMA ExecStepKeepsHolders ==
  ASSUME IInv, OnceOnEachWorker, HoldersOwn, NEW w \in Worker, NEW e \in Exec, ExecStep(w, e)
  PROVE  HoldersOwn'
<1>1. CASE CheckAssigned(w, e) \/ TryLockFails(w, e) \/ RetryWakes(w, e) \/ RemoveRunning(w, e)
  <2>1. UNCHANGED lockOwner /\ (End(w, e) \/ \E p \in {"lock", "start"} : Go(w, e, p))
    BY <1>1 DEF CheckAssigned, TryLockFails, RetryWakes, RemoveRunning
  <2>2. Others(w, e) /\ exec'[w][e].pc \notin HoldingPC
    BY <2>1, GoGoes, EndEnds, IdleIsRec DEF ExecPC, HoldingPC
  <2> QED
    BY <2>1, <2>2, HoldersKeepOne
<1>2. CASE Begin(w, e) \/ ReportRunning(w, e) \/ CacheRunning(w, e)
  <2>1. UNCHANGED lockOwner /\ exec[w][e].pc \in HoldingPC /\ \E p \in ExecPC : Go(w, e, p)
    BY <1>2 DEF Begin, ReportRunning, CacheRunning, ReportPut, ReportCache, At, HoldingPC, ExecPC,
                StoredPC
  <2>2. Others(w, e) /\ exec'[w][e].job = exec[w][e].job
    BY <2>1, GoGoes DEF Same
  <2> QED
    BY <2>1, <2>2, HoldersKeepOne
<1>3. CASE \/ ForgetLock(w, e) \/ ScheduleNextRun(w, e) \/ ReportEnded(w, e) \/ CacheEnded(w, e)
           \/ Settle(w, e)
  <2>1. UNCHANGED lockOwner /\ \E p \in TailPC : Go(w, e, p)
    BY <1>3 DEF ForgetLock, ScheduleNextRun, ReportEnded, CacheEnded, Settle, ReportPut,
                ReportCache, TailPC
  <2>2. TailPC \subseteq ExecPC /\ TailPC \cap HoldingPC = {}
    BY DEF TailPC, ExecPC, StoredPC, HoldingPC
  <2>3. Others(w, e) /\ exec'[w][e].pc \notin HoldingPC
    BY <2>1, <2>2, GoGoes
  <2> QED
    BY <2>1, <2>3, HoldersKeepOne
<1>4. CASE LookUp(w, e)
  BY <1>4, LookUpLooksUp, HoldersKeepOne DEF LookUp, HoldingPC
<1>5. CASE Finish(w, e)
  <2>1. UNCHANGED lockOwner
    BY <1>5 DEF Finish
  <2>2. /\ exec'[w][e].pc \notin HoldingPC
        /\ Others(w, e) \/ \E f \in Exec \ {e} : Retries(w, e, f)
    BY <1>5, FinishFinishes DEF HoldingPC
  <2>3. ASSUME NEW f \in Exec \ {e}, Retries(w, e, f) PROVE HoldersOwn'
    <3>1. exec'[w][f].pc \notin HoldingPC
      BY <2>3 DEF Retries, Begun, HoldingPC
    <3> QED
      BY <2>1, <2>2, <2>3, <3>1, HoldersKeep DEF Retries
  <2> QED
    BY <2>1, <2>2, <2>3, HoldersKeepOne
<1>6. CASE TryLock(w, e)
  <2> DEFINE j == exec[w][e].job
  <2>1. /\ lockOwner[j] \in {None, w} /\ lockOwner' = [lockOwner EXCEPT ![j] = w]
        /\ Go(w, e, "locked") /\ j \in Job
    BY <1>6, InHand DEF TryLock, LockIsFree, At
  <2>2. Others(w, e) /\ exec'[w][e].job = j
    BY <2>1, GoGoes DEF ExecPC, Same
  <2>3. lockOwner'[j] = w /\ \A k \in Job : k # j => lockOwner'[k] = lockOwner[k]
    BY <2>1 DEF IInv, LockOK
  <2> SUFFICES ASSUME NEW v \in Worker, NEW f \in Exec, exec'[v][f].pc \in HoldingPC
               PROVE  lockOwner'[exec'[v][f].job] = v
    BY DEF HoldersOwn
  <2>4. CASE v = w /\ f = e
    BY <2>2, <2>3, <2>4
  <2>5. CASE v # w \/ f # e
    <3>1. exec'[v][f] = exec[v][f] /\ lockOwner[exec[v][f].job] = v
      BY <2>2, <2>5 DEF Others, HoldersOwn
    <3>2. exec[v][f].job \in Job
      BY <3>1, InHand DEF HoldingPC
    <3>3. v # None
      BY SchedulerAssumption
    <3> QED
      BY <2>1, <2>3, <3>1, <3>2, <3>3
  <2> QED
    BY <2>4, <2>5
<1>7. CASE UnlockJob(w, e)
  <2> DEFINE j == exec[w][e].job
  <2>1. /\ exec[w][e].pc = "unlock" /\ j \in Job
        /\ \E p \in {"unlocked", "lookup"} : Go(w, e, p)
        /\ \/ UNCHANGED lockOwner
           \/ lockOwner' = [lockOwner EXCEPT ![j] = IF @ = w THEN None ELSE @]
    BY <1>7, InHand DEF UnlockJob, At
  <2>2. Others(w, e) /\ exec'[w][e].pc \notin HoldingPC
    BY <2>1, GoGoes DEF ExecPC, StoredPC, HoldingPC
  <2>3. \A k \in Job : lockOwner'[k] = lockOwner[k] \/ (k = j /\ lockOwner[k] = w)
    <3>1. lockOwner \in [Job -> Worker \cup {None, Dead}]
      BY DEF IInv, LockOK
    <3> HIDE DEF j
    <3> QED
      BY <2>1, <3>1
  <2> SUFFICES ASSUME NEW v \in Worker, NEW f \in Exec, exec'[v][f].pc \in HoldingPC
               PROVE  lockOwner'[exec'[v][f].job] = v
    BY DEF HoldersOwn
  <2>4. exec'[v][f] = exec[v][f] /\ lockOwner[exec[v][f].job] = v
    BY <2>2 DEF Others, HoldersOwn
  <2>5. exec[v][f].job \in Job
    BY <2>4, InHand DEF HoldingPC
  <2>6. ~(v = w /\ exec[v][f].job = j)
    BY <2>1, <2>2, <2>4 DEF OnceOnEachWorker
  <2> QED
    BY <2>3, <2>4, <2>5, <2>6
<1> QED
  BY <1>1, <1>2, <1>3, <1>4, <1>5, <1>6, <1>7 DEF ExecStep

LEMMA DiesKeepsHolders ==
  ASSUME IInv, HoldersOwn, NEW w \in Worker, Dies(w)
  PROVE  HoldersOwn'
<1> SUFFICES ASSUME NEW v \in Worker, NEW f \in Exec, exec'[v][f].pc \in HoldingPC
             PROVE  lockOwner'[exec'[v][f].job] = v
  BY DEF HoldersOwn
<1>1. v # w /\ exec'[v][f] = exec[v][f]
  BY DiesEnds, IdleIsRec DEF HoldingPC
<1>2. exec[v][f].job \in Job /\ lockOwner[exec[v][f].job] = v
  BY <1>1, InHand DEF HoldersOwn, HoldingPC
<1> QED
  BY <1>1, <1>2 DEF Dies

LEMMA StartKeepsHolders ==
  ASSUME IInv, HoldersOwn, NEW w \in Worker, NEW j \in Job, Launch(w, j) \/ Trigger(w, j)
  PROVE  HoldersOwn'
<1>1. CASE /\ UNCHANGED lockOwner
           /\ \E e \in Exec, o \in Obj : exec' = [exec EXCEPT ![w][e] = Begun("start", j, o)]
  <2>1. PICK e \in Exec, o \in Obj : exec' = [exec EXCEPT ![w][e] = Begun("start", j, o)]
    BY <1>1
  <2>2. Others(w, e) /\ exec'[w][e] = Begun("start", j, o)
    BY <2>1, StartStarts
  <2>3. Begun("start", j, o).pc = "start"
    BY DEF Begun
  <2> QED
    BY <1>1, <2>2, <2>3, HoldersKeepOne DEF HoldingPC
<1>2. CASE UNCHANGED <<exec, lockOwner>>
  BY <1>2, HoldersKeep
<1>3. CASE Dies(w)
  BY <1>3, DiesKeepsHolders
<1>4. CASE Launch(w, j)
  <2>1. due[w][j] \in Obj
    BY <1>4 DEF Launch, IInv, SchedOK
  <2> QED
    BY <1>1, <1>2, <1>4, <2>1 DEF Launch
<1>5. CASE Trigger(w, j)
  <2>1. Scheduled(w, j) \in Obj \cup {None}
    BY DEF Scheduled, IInv, SchedOK
  <2> QED
    BY <1>1, <1>2, <1>3, <1>5, <2>1 DEF Trigger
<1> QED
  BY <1>4, <1>5

LEMMA HoldersStep == IInv /\ OnceOnEachWorker /\ HoldersOwn /\ [Next]_vars => HoldersOwn'
<1> SUFFICES ASSUME IInv, OnceOnEachWorker, HoldersOwn, [Next]_vars PROVE HoldersOwn'
  OBVIOUS
<1>1. CASE UNCHANGED <<exec, lockOwner>>
  BY <1>1, HoldersKeep
<1>2. CASE \E w \in Worker, e \in Exec : ExecStep(w, e)
  BY <1>2, ExecStepKeepsHolders
<1>3. CASE \E w \in Worker, j \in Job : Launch(w, j) \/ Trigger(w, j)
  BY <1>3, StartKeepsHolders
<1>4. CASE \E w \in Worker : Crash(w)
  BY <1>4, DiesKeepsHolders DEF Crash
<1>5. CASE \E j \in Job : LockExpires(j)
  <2>1. PICK j \in Job : lockOwner[j] = Dead /\ lockOwner' = [lockOwner EXCEPT ![j] = None]
    BY <1>5 DEF LockExpires
  <2>2. UNCHANGED exec /\ \A w \in Worker : w # Dead
    BY <1>5, SchedulerAssumption DEF LockExpires
  <2>3. \A k \in Job : k # j => lockOwner'[k] = lockOwner[k]
    BY <2>1 DEF IInv, LockOK
  <2>4. \A w \in Worker, e \in Exec : exec[w][e].pc \in HoldingPC => exec[w][e].job \in Job
    BY InHand DEF HoldingPC
  <2> QED
    BY <2>1, <2>2, <2>3, <2>4 DEF HoldersOwn
<1>6. ASSUME NEW w \in Worker, HandlerStep(w) PROVE UNCHANGED <<exec, lockOwner>>
  BY <1>6 DEF HandlerStep, ReceivePut, ReceiveDelete, ReceiveKill, Receive, HandleSave,
              UpdateContains, HandlePush, UpdateCopies, UpdateWrites, HandleRemove, HandleDrop,
              HandleKill, HandleKillCache, handlerUnchanged
<1>7. CASE \E j \in Job : Create(j) \/ MasterPut(j) \/ MasterDelete(j) \/ MasterKill(j)
  BY <1>1, <1>7 DEF Create, MasterPut, MasterDelete, MasterKill, masterUnchanged
<1>8. CASE \E w \in Worker : LoaderStep(w) \/ CheckDueJobs(w) \/ Boot(w) \/ StopScheduler(w)
  BY <1>1, <1>8 DEF LoaderStep, LoadList, LoadAdd, CheckDueJobs, Boot, StopScheduler, bootUnchanged
<1>9. CASE (\E o \in Obj : Tick(o)) \/ UNCHANGED vars
  BY <1>1, <1>9 DEF Tick, vars
<1> QED
  BY <1>1, <1>2, <1>3, <1>4, <1>5, <1>6, <1>7, <1>8, <1>9 DEF Next, LoopStep

\* Two workers execute a job at the same time only if one of them alone executes it twice
\* at once: then the end of its first execution gives up the lock of its second.
THEOREM WorkersExcludeEachOther == Spec /\ []OnceOnEachWorker => []OneWorkerAtATime
<1>1. Init => HoldersOwn
  BY IdleIsRec DEF Init, HoldersOwn, HoldingPC
<1> QED
  BY <1>1, AlwaysIInv, HoldersStep, HoldersAreOne, PTL DEF Spec

\* That does not happen with one goroutine on each worker, the instance that the run checks.
THEOREM SingleExecutionsExclude ==
  ASSUME \A e, f \in Exec : e = f
  PROVE  Spec => []OneWorkerAtATime
<1>1. OnceOnEachWorker
  BY DEF OnceOnEachWorker
<1> QED
  BY <1>1, WorkersExcludeEachOther, PTL


-----------------------------------------------------------------------------
(* The objects of the executions                                             *)

Refs(w, j, o) ==
  \/ queue[w][j] = o \/ runningJobs[w][j] = o \/ due[w][j] = o
  \/ \E e \in Exec : exec[w][e].job = j /\ exec[w][e].obj = o

\* A ScheduledJob is of one job of one worker.
OneOwner ==
  \A o \in Obj : \A w, v \in Worker : \A j, k \in Job :
    Refs(w, j, o) /\ Refs(v, k, o) => w = v /\ j = k

\* e waits for the retry of the execution of f, which is at its end.
Waits(w, e, f) ==
  /\ exec[w][e].pc = "sleep" /\ exec[w][f].pc \in TailPC /\ ~exec[w][f].ok
  /\ objs[exec[w][e].obj].retry > 0

\* Two executions use a ScheduledJob only when one is the retry of the other.
OneExec ==
  \A w \in Worker : \A e, f \in Exec :
    e # f /\ exec[w][e].obj # None /\ exec[w][e].obj = exec[w][f].obj =>
      Waits(w, e, f) \/ Waits(w, f, e)

\* A ScheduledJob that is queued is in an execution only from scheduleNextRun to the end
\* of the execution, when a copy takes its place.
QueuedExec ==
  \A w \in Worker : \A e \in Exec : \A j \in Job :
    exec[w][e].obj # None /\ queue[w][j] = exec[w][e].obj =>
      exec[w][e].pc \in {"reportEnd", "cacheEnd", "settle"} /\ exec[w][e].exists

\* What the loop took from the queue is in no execution yet.
DueIsFree ==
  \A w \in Worker : \A j \in Job : due[w][j] # None =>
    objs[due[w][j]].retry = 0 /\ \A e \in Exec : exec[w][e].obj # due[w][j]

\* What an execution has done to its ScheduledJob and found out about its job.
StepOK ==
  \A w \in Worker : \A e \in Exec :
    /\ exec[w][e].pc \in StoredPC \ {"remove"} => objs[exec[w][e].obj].isRunning
    /\ exec[w][e].pc \in {"next", "reportEnd", "cacheEnd"} => exec[w][e].exists
    /\ exec[w][e].pc \in {"report", "cache", "run", "unlock"} => objs[exec[w][e].obj].lock

OwnInv == OneOwner /\ OneExec /\ QueuedExec /\ DueIsFree /\ StepOK /\ QueuedHasAllRetries

\* A ScheduledJob keeps its count of retries, and what is set in it stays set.
Grown(a, b) == b.retry = a.retry /\ (a.isRunning => b.isRunning) /\ (a.lock => b.lock)

\* All of the objects in use, but for n, are so.
GrownBut(n) == \A o \in Obj : o \in Used' /\ o # n => Grown(objs[o], objs'[o])

LEMMA InUse ==
  ASSUME NEW w \in Worker
  PROVE  /\ \A j \in Job : {queue[w][j], runningJobs[w][j], due[w][j]} \subseteq Used
         /\ \A e \in Exec : exec[w][e].obj \in Used
         /\ \A j \in Job : {queue'[w][j], runningJobs'[w][j], due'[w][j]} \subseteq Used'
         /\ \A e \in Exec : exec'[w][e].obj \in Used'
<1> DEFINE A == {{queue[v][k], runningJobs[v][k], due[v][k]} : v \in Worker, k \in Job}
           B == {exec[v][f].obj : v \in Worker, f \in Exec}
<1>1. Used = (UNION A) \cup B /\ Used' = (UNION A') \cup B'
  BY DEF Used
<1>2. \A j \in Job : {queue[w][j], runningJobs[w][j], due[w][j]} \in A
  OBVIOUS
<1>3. \A j \in Job : {queue'[w][j], runningJobs'[w][j], due'[w][j]} \in A'
  OBVIOUS
<1>4. \A e \in Exec : exec[w][e].obj \in B
  OBVIOUS
<1>5. \A e \in Exec : exec'[w][e].obj \in B'
  OBVIOUS
<1> HIDE DEF A, B
<1>6. \A S \in A : S \subseteq Used
  BY <1>1
<1>7. \A S \in A' : S \subseteq Used'
  BY <1>1
<1> QED
  BY <1>1, <1>2, <1>3, <1>4, <1>5, <1>6, <1>7

LEMMA RefsAreUsed ==
  ASSUME NEW w \in Worker, NEW j \in Job, NEW o, Refs(w, j, o)
  PROVE  o \in Used
BY InUse DEF Refs

LEMMA SameGrown ==
  ASSUME IInv, NEW n, UNCHANGED objs \/ Heap(objs)
  PROVE  GrownBut(n)
<1>1. \A o \in Obj : o \in Used' => objs'[o] = objs[o]
  BY HeapKeeps
<1> QED
  BY <1>1 DEF GrownBut, Grown

\* One object changes, or a new one is made of n.
LEMMA OneGrown ==
  ASSUME IInv, NEW o \in Obj, NEW n, Heap([objs EXCEPT ![o] = n])
  PROVE  GrownBut(o) /\ (o \in Used' => objs'[o] = n)
<1>1. objs \in [Obj -> Entry]
  BY DEF IInv, ObjsOK
<1>2. PICK h : Heap(h) /\ h = [objs EXCEPT ![o] = n]
  BY Zenon
<1>3. h[o] = n /\ \A p \in Obj : p # o => h[p] = objs[p]
  BY <1>1, <1>2
<1>4. \A p \in Obj : p \in Used' => objs'[p] = h[p]
  BY <1>2, HeapKeeps
<1> QED
  BY <1>3, <1>4 DEF GrownBut, Grown

\* In particular one that grows.
LEMMA OneGrows ==
  ASSUME IInv, NEW o \in Obj, NEW n, Heap([objs EXCEPT ![o] = n]), Grown(objs[o], n)
  PROVE  \A m : GrownBut(m)
BY OneGrown DEF GrownBut

LEMMA OwnersKeep ==
  ASSUME OneOwner, NEW v, NEW k, NEW n, n \in Obj => n \notin Used,
         \A w \in Worker, j \in Job, o \in Obj :
           Refs(w, j, o)' => Refs(w, j, o) \/ (o = n /\ w = v /\ j = k)
  PROVE  OneOwner'
<1> SUFFICES ASSUME NEW o \in Obj, NEW w1 \in Worker, NEW w2 \in Worker,
                    NEW j1 \in Job, NEW j2 \in Job, Refs(w1, j1, o)', Refs(w2, j2, o)'
             PROVE  w1 = w2 /\ j1 = j2
  BY DEF OneOwner
<1>1. /\ Refs(w1, j1, o) \/ (o = n /\ w1 = v /\ j1 = k)
      /\ Refs(w2, j2, o) \/ (o = n /\ w2 = v /\ j2 = k)
  OBVIOUS
<1>2. o = n => ~Refs(w1, j1, o) /\ ~Refs(w2, j2, o)
  BY RefsAreUsed
<1> QED
  BY <1>1, <1>2 DEF OneOwner

\* The executions stay as they are; an entry of the queue may become the new object n.
LEMMA OwnKeeps ==
  ASSUME IInv, IInv', OwnInv, UNCHANGED exec, NEW v, NEW k, NEW n, n \in Obj => n \notin Used,
         GrownBut(n), n \in Obj /\ n \in Used' => objs'[n].retry = 0,
         \A w \in Worker, j \in Job :
           /\ queue'[w][j] \in {queue[w][j], None} \/ (w = v /\ j = k /\ queue'[w][j] = n)
           /\ runningJobs'[w][j] \in {runningJobs[w][j], None}
           /\ due'[w][j] \in {due[w][j], None}
  PROVE  OwnInv'
<1>0. None \notin Obj
  BY NoneIsNoObj
<1>1. OneOwner'
  <2>1. \A w \in Worker, j \in Job, o \in Obj :
          Refs(w, j, o)' => Refs(w, j, o) \/ (o = n /\ w = v /\ j = k)
    BY <1>0 DEF Refs
  <2> QED
    BY <2>1, OwnersKeep DEF OwnInv
<1>2. \A w \in Worker, e \in Exec : exec[w][e].obj \in Obj =>
        Grown(objs[exec[w][e].obj], objs'[exec[w][e].obj])
  BY InUse DEF GrownBut
<1>3. \A w \in Worker, e \in Exec : exec[w][e].obj \in Obj \cup {None}
  BY DEF IInv, ExecOK, ExecRec
<1>4. OneExec'
  BY <1>2, <1>3 DEF OwnInv, OneExec, Waits, Grown
<1>5. QueuedExec'
  <2>1. \A w \in Worker, e \in Exec : exec[w][e].obj \in Obj => exec[w][e].obj # n
    BY InUse
  <2> QED
    BY <1>0, <1>3, <2>1 DEF OwnInv, QueuedExec
<1>6. DueIsFree'
  <2>1. \A w \in Worker, j \in Job : due'[w][j] # None =>
          /\ due'[w][j] = due[w][j] /\ due[w][j] \in Obj /\ due[w][j] # n
          /\ Grown(objs[due[w][j]], objs'[due[w][j]])
    BY InUse DEF IInv, SchedOK, GrownBut
  <2> QED
    BY <2>1 DEF OwnInv, DueIsFree, Grown
<1>7. StepOK'
  <2>1. \A w \in Worker, e \in Exec : exec[w][e].pc # "idle" => exec[w][e].obj \in Obj
    BY InHand
  <2> QED
    BY <1>2, <2>1 DEF OwnInv, StepOK, StoredPC, Grown
<1>8. QueuedHasAllRetries'
  <2> SUFFICES ASSUME NEW w \in Worker, NEW j \in Job, queue'[w][j] # None
               PROVE  objs'[queue'[w][j]].retry = 0
    BY DEF QueuedHasAllRetries
  <2>1. queue'[w][j] \in Obj /\ queue'[w][j] \in Used'
    BY InUse DEF IInv, SchedOK
  <2>2. CASE queue'[w][j] = queue[w][j]
    <3>1. queue[w][j] \in Used /\ objs[queue[w][j]].retry = 0
      BY <2>1, <2>2, InUse DEF OwnInv, QueuedHasAllRetries
    <3> QED
      BY <2>1, <2>2, <3>1 DEF GrownBut, Grown
  <2>3. CASE queue'[w][j] = n
    BY <2>1, <2>3
  <2> QED
    BY <2>2, <2>3
<1> QED
  BY <1>1, <1>4, <1>5, <1>6, <1>7, <1>8 DEF OwnInv


\* The execution of e at w goes on.  Its ScheduledJob o keeps its count of retries, and may
\* become the entry of the queue, as may the new object n.
LEMMA OwnGoes ==
  ASSUME IInv, IInv', OwnInv, NEW w \in Worker, NEW e \in Exec, Others(w, e),
         NEW j \in Job, exec[w][e].job = j, exec'[w][e].job = j,
         NEW o \in Obj, exec[w][e].obj = o, exec'[w][e].obj = o,
         NEW n, n \in Obj => n \notin Used /\ (n \in Used' => objs'[n].retry = 0),
         exec[w][e].pc # "sleep", exec'[w][e].pc # "sleep",
         exec[w][e].pc \in TailPC => exec'[w][e].pc \in TailPC /\ exec'[w][e].ok = exec[w][e].ok,
         UNCHANGED due,
         \A v \in Worker, k \in Job :
           /\ queue'[v][k] = queue[v][k] \/ (v = w /\ k = j /\ queue'[v][k] \in {o, n})
           /\ \/ runningJobs'[v][k] \in {runningJobs[v][k], None}
              \/ v = w /\ k = j /\ runningJobs'[v][k] = o,
         queue'[w][j] = o =>
           /\ exec'[w][e].pc \in {"reportEnd", "cacheEnd", "settle"} /\ exec'[w][e].exists
           /\ objs'[o].retry = 0,
         \A p \in Obj : p \in Used' /\ p \notin {o, n} => Grown(objs[p], objs'[p]),
         objs'[o].retry = objs[o].retry,
         /\ exec'[w][e].pc \in StoredPC \ {"remove"} => objs'[o].isRunning
         /\ exec'[w][e].pc \in {"next", "reportEnd", "cacheEnd"} => exec'[w][e].exists
         /\ exec'[w][e].pc \in {"report", "cache", "run", "unlock"} => objs'[o].lock
  PROVE  OwnInv'
<1>0. None \notin Obj
  BY NoneIsNoObj
<1>1. OneOwner'
  <2>1. \A v \in Worker, k \in Job, x \in Obj :
          Refs(v, k, x)' => Refs(v, k, x) \/ (x = n /\ v = w /\ k = j)
    BY <1>0 DEF Refs, Others
  <2>2. OneOwner /\ (n \in Obj => n \notin Used)
    BY DEF OwnInv
  <2> SUFFICES ASSUME NEW x \in Obj, NEW w1 \in Worker, NEW w2 \in Worker,
                      NEW j1 \in Job, NEW j2 \in Job, Refs(w1, j1, x)', Refs(w2, j2, x)'
               PROVE  w1 = w2 /\ j1 = j2
    BY DEF OneOwner
  <2>3. x = n => ~Refs(w1, j1, x) /\ ~Refs(w2, j2, x)
    BY <2>2, RefsAreUsed
  <2> QED
    BY <2>1, <2>2, <2>3 DEF OneOwner
<1>2. \A v \in Worker, f \in Exec :
        /\ exec'[v][f].obj = exec[v][f].obj /\ exec[v][f].obj \in Obj \cup {None}
        /\ exec[v][f].obj \in Used /\ exec[v][f].obj \in Used'
  <2> TAKE v \in Worker, f \in Exec
  <2>1. exec'[v][f].obj = exec[v][f].obj
    BY DEF Others
  <2>2. exec[v][f].obj \in Used /\ exec'[v][f].obj \in Used'
    BY InUse
  <2>3. exec[v][f].obj \in Obj \cup {None}
    BY DEF IInv, ExecOK, ExecRec
  <2> QED
    BY <2>1, <2>2, <2>3
\* Who uses o beside e waits for a retry.
<1>3. \A v \in Worker, f \in Exec : exec[v][f].obj = o /\ (v # w \/ f # e) =>
        v = w /\ Waits(w, f, e)
  <2> SUFFICES ASSUME NEW v \in Worker, NEW f \in Exec, exec[v][f].obj = o, v # w \/ f # e
               PROVE  v = w /\ Waits(w, f, e)
    OBVIOUS
  <2>1. exec[v][f].job \in Job
    BY <1>0, InHand DEF IInv, ExecOK, ActiveOK
  <2>2. v = w
    BY <2>1 DEF OwnInv, OneOwner, Refs
  <2> QED
    BY <1>0, <2>2 DEF OwnInv, OneExec, Waits
<1>4. OneExec'
  <2> SUFFICES ASSUME NEW v \in Worker, NEW f \in Exec, NEW g \in Exec, f # g,
                      exec'[v][f].obj # None, exec'[v][f].obj = exec'[v][g].obj
               PROVE  Waits(v, f, g)' \/ Waits(v, g, f)'
    BY DEF OneExec
  <2>1. Waits(v, f, g) \/ Waits(v, g, f)
    BY <1>2 DEF OwnInv, OneExec
  <2>2. objs'[exec[v][f].obj].retry = objs[exec[v][f].obj].retry
    BY <1>2 DEF Grown
  <2>3. ASSUME NEW a \in Exec, NEW b \in Exec, Waits(v, a, b), exec[v][a].obj = exec[v][f].obj
        PROVE  Waits(v, a, b)'
    BY <1>2, <2>2, <2>3 DEF Waits, Others
  <2> QED
    BY <1>2, <2>1, <2>3
<1>5. QueuedExec'
  <2> SUFFICES ASSUME NEW v \in Worker, NEW f \in Exec, NEW k \in Job, exec'[v][f].obj # None,
                      queue'[v][k] = exec'[v][f].obj
               PROVE  exec'[v][f].pc \in {"reportEnd", "cacheEnd", "settle"} /\ exec'[v][f].exists
    BY DEF QueuedExec
  <2>1. CASE v = w /\ f = e
    <3>1. k = j
      BY <2>1 DEF OwnInv, OneOwner, Refs
    <3> QED
      BY <2>1, <3>1
  <2>2. CASE v # w \/ f # e
    <3>1. exec'[v][f] = exec[v][f] /\ exec[v][f].obj # n
      BY <1>2, <2>2 DEF Others
    <3>2. CASE queue'[v][k] = queue[v][k]
      BY <3>1, <3>2 DEF OwnInv, QueuedExec
    <3>3. CASE v = w /\ k = j /\ queue'[v][k] = o
      BY <1>3, <2>2, <3>1, <3>3 DEF Waits
    <3> QED
      BY <3>1, <3>2, <3>3
  <2> QED
    BY <2>1, <2>2
<1>6. DueIsFree'
  <2> SUFFICES ASSUME NEW v \in Worker, NEW k \in Job, due[v][k] # None
               PROVE  objs'[due[v][k]].retry = 0 /\ \A f \in Exec : exec'[v][f].obj # due[v][k]
    BY DEF DueIsFree
  <2>1. objs[due[v][k]].retry = 0 /\ \A f \in Exec : exec[v][f].obj # due[v][k]
    BY DEF OwnInv, DueIsFree
  <2>2. due[v][k] \in Used' /\ due[v][k] \in Used /\ due[v][k] \in Obj
    BY InUse DEF IInv, SchedOK
  <2>3. objs'[due[v][k]].retry = objs[due[v][k]].retry
    BY <2>2 DEF Grown
  <2> QED
    BY <1>2, <2>1, <2>3
<1>7. StepOK'
  <2> SUFFICES ASSUME NEW v \in Worker, NEW f \in Exec
               PROVE  /\ exec'[v][f].pc \in StoredPC \ {"remove"} => objs'[exec'[v][f].obj].isRunning
                      /\ exec'[v][f].pc \in {"next", "reportEnd", "cacheEnd"} => exec'[v][f].exists
                      /\ exec'[v][f].pc \in {"report", "cache", "run", "unlock"}
                           => objs'[exec'[v][f].obj].lock
    BY DEF StepOK
  <2>1. CASE v = w /\ f = e
    BY <2>1
  <2>2. CASE v # w \/ f # e
    <3>1. exec'[v][f] = exec[v][f]
      BY <2>2 DEF Others
    <3>2. CASE exec[v][f].obj = o
      BY <1>3, <2>2, <3>1, <3>2 DEF Waits, StoredPC
    <3>3. CASE exec[v][f].obj # o /\ exec[v][f].pc # "idle"
      <4>1. exec[v][f].obj \in Obj
        BY <3>3, InHand
      <4>2. Grown(objs[exec[v][f].obj], objs'[exec[v][f].obj])
        BY <1>2, <3>3, <4>1
      <4> QED
        BY <3>1, <4>2 DEF OwnInv, StepOK, Grown
    <3>4. CASE exec[v][f].pc = "idle"
      BY <3>1, <3>4 DEF StoredPC
    <3> QED
      BY <3>2, <3>3, <3>4
  <2> QED
    BY <2>1, <2>2
<1>8. QueuedHasAllRetries'
  <2> SUFFICES ASSUME NEW v \in Worker, NEW k \in Job, queue'[v][k] # None
               PROVE  objs'[queue'[v][k]].retry = 0
    BY DEF QueuedHasAllRetries
  <2>1. queue'[v][k] \in Obj /\ queue'[v][k] \in Used'
    BY InUse DEF IInv, SchedOK
  <2>2. CASE queue'[v][k] = queue[v][k]
    <3>1. queue[v][k] \in Used /\ objs[queue[v][k]].retry = 0
      BY <2>1, <2>2, InUse DEF OwnInv, QueuedHasAllRetries
    <3> QED
      BY <2>1, <2>2, <3>1 DEF Grown
  <2>3. CASE v = w /\ k = j /\ queue'[v][k] \in {o, n}
    BY <2>1, <2>3
  <2> QED
    BY <2>2, <2>3
<1> QED
  BY <1>1, <1>4, <1>5, <1>6, <1>7, <1>8 DEF OwnInv

\* The execution of e at w ends.
LEMMA OwnEnds ==
  ASSUME IInv, IInv', OwnInv, NEW w \in Worker, NEW e \in Exec, Others(w, e), exec'[w][e] = Idle,
         UNCHANGED <<queue, due>>, \A m : GrownBut(m),
         \A v \in Worker, j \in Job : runningJobs'[v][j] \in {runningJobs[v][j], None}
  PROVE  OwnInv'
<1>0. None \notin Obj /\ Idle.pc = "idle" /\ Idle.obj = None
  BY NoneIsNoObj, IdleIsRec
<1>1. OneOwner'
  <2>1. \A v \in Worker, j \in Job, o \in Obj : Refs(v, j, o)' => Refs(v, j, o)
    BY <1>0 DEF Refs, Others
  <2> QED
    BY <1>0, <2>1, OwnersKeep DEF OwnInv
\* Of the executions that go on:
<1>2. \A v \in Worker, f \in Exec : exec'[v][f].obj # None =>
        /\ exec'[v][f] = exec[v][f] /\ exec[v][f].obj \in Obj
        /\ Grown(objs[exec[v][f].obj], objs'[exec[v][f].obj])
  <2> SUFFICES ASSUME NEW v \in Worker, NEW f \in Exec, exec'[v][f].obj # None
               PROVE  /\ exec'[v][f] = exec[v][f] /\ exec[v][f].obj \in Obj
                      /\ Grown(objs[exec[v][f].obj], objs'[exec[v][f].obj])
    OBVIOUS
  <2>1. exec'[v][f] = exec[v][f]
    BY <1>0 DEF Others
  <2>2. exec[v][f].obj \in Obj
    BY <2>1 DEF IInv, ExecOK, ExecRec
  <2>3. exec[v][f].obj \in Used'
    BY <2>1, InUse
  <2> QED
    BY <1>0, <2>1, <2>2, <2>3 DEF GrownBut
<1>3. OneExec'
  BY <1>2 DEF OwnInv, OneExec, Waits, Grown
<1>4. QueuedExec'
  BY <1>2 DEF OwnInv, QueuedExec
<1>5. \A v \in Worker, j \in Job :
        /\ due[v][j] # None => Grown(objs[due[v][j]], objs'[due[v][j]])
        /\ queue[v][j] # None => Grown(objs[queue[v][j]], objs'[queue[v][j]])
  <2> TAKE v \in Worker, j \in Job
  <2>1. {queue[v][j], due[v][j]} \subseteq Used' /\ {queue[v][j], due[v][j]} \subseteq Obj \cup {None}
    BY InUse DEF IInv, SchedOK
  <2> QED
    BY <1>0, <2>1 DEF GrownBut
<1>6. DueIsFree'
  <2> SUFFICES ASSUME NEW v \in Worker, NEW j \in Job, due[v][j] # None
               PROVE  objs'[due[v][j]].retry = 0 /\ \A f \in Exec : exec'[v][f].obj # due[v][j]
    BY DEF DueIsFree
  <2> QED
    BY <1>2, <1>5 DEF OwnInv, DueIsFree, Grown
<1>7. StepOK'
  <2>1. \A v \in Worker, f \in Exec : exec'[v][f].pc # "idle" => exec'[v][f].obj # None
    BY <1>0 DEF IInv, ExecOK, ActiveOK
  <2> QED
    BY <1>2, <2>1 DEF OwnInv, StepOK, StoredPC, Grown
<1>8. QueuedHasAllRetries'
  BY <1>5 DEF OwnInv, QueuedHasAllRetries, Grown
<1> QED
  BY <1>1, <1>3, <1>4, <1>6, <1>7, <1>8 DEF OwnInv


\* The execution of e at w alone uses o, and is to start.
LEMMA OwnStarts ==
  ASSUME IInv, IInv', OwnInv, NEW w \in Worker, NEW e \in Exec, Others(w, e),
         NEW j \in Job, NEW o \in Obj, Refs(w, j, o),
         exec'[w][e].pc = "start", exec'[w][e].job = j, exec'[w][e].obj = o,
         \A f \in Exec : f # e => exec[w][f].obj # o,
         \A v \in Worker, k \in Job :
           /\ queue'[v][k] \in {queue[v][k], None} /\ due'[v][k] \in {due[v][k], None}
           /\ v = w => queue'[v][k] # o /\ due'[v][k] # o,
         UNCHANGED runningJobs, \A m : GrownBut(m)
  PROVE  OwnInv'
<1>0. None \notin Obj
  BY NoneIsNoObj
<1>1. OneOwner'
  <2>1. \A v \in Worker, k \in Job, x \in Obj : Refs(v, k, x)' => Refs(v, k, x)
    BY <1>0 DEF Refs, Others
  <2> QED
    BY <2>1 DEF OwnInv, OneOwner
\* The other executions go on with what they have.
<1>2. \A v \in Worker, f \in Exec : v # w \/ f # e =>
        /\ exec'[v][f] = exec[v][f]
        /\ exec[v][f].obj \in Obj => Grown(objs[exec[v][f].obj], objs'[exec[v][f].obj])
        /\ exec[v][f].obj \in Obj \cup {None}
  <2> SUFFICES ASSUME NEW v \in Worker, NEW f \in Exec, v # w \/ f # e
               PROVE  /\ exec'[v][f] = exec[v][f]
                      /\ exec[v][f].obj \in Obj => Grown(objs[exec[v][f].obj], objs'[exec[v][f].obj])
                      /\ exec[v][f].obj \in Obj \cup {None}
    OBVIOUS
  <2>1. exec'[v][f] = exec[v][f]
    BY DEF Others
  <2>2. exec[v][f].obj \in Used' /\ exec[v][f].obj \in Obj \cup {None}
    BY <2>1, InUse DEF IInv, ExecOK, ExecRec
  <2> QED
    BY <1>0, <2>1, <2>2 DEF GrownBut
<1>3. OneExec'
  <2> SUFFICES ASSUME NEW v \in Worker, NEW f \in Exec, NEW g \in Exec, f # g,
                      exec'[v][f].obj # None, exec'[v][f].obj = exec'[v][g].obj
               PROVE  Waits(v, f, g)' \/ Waits(v, g, f)'
    BY DEF OneExec
  <2>1. /\ v # w \/ (f # e /\ g # e)
    BY <1>2
  <2>2. exec'[v][f] = exec[v][f] /\ exec'[v][g] = exec[v][g]
    BY <1>2, <2>1
  <2>3. Waits(v, f, g) \/ Waits(v, g, f)
    BY <2>2 DEF OwnInv, OneExec
  <2>4. Grown(objs[exec[v][f].obj], objs'[exec[v][f].obj])
    BY <1>2, <2>1, <2>2
  <2> QED
    BY <2>2, <2>3, <2>4 DEF Waits, Grown
<1>4. QueuedExec'
  <2> SUFFICES ASSUME NEW v \in Worker, NEW f \in Exec, NEW k \in Job, exec'[v][f].obj # None,
                      queue'[v][k] = exec'[v][f].obj
               PROVE  exec'[v][f].pc \in {"reportEnd", "cacheEnd", "settle"} /\ exec'[v][f].exists
    BY DEF QueuedExec
  <2>1. v # w \/ f # e
    OBVIOUS
  <2> QED
    BY <1>2, <2>1 DEF OwnInv, QueuedExec
<1>5. \A v \in Worker, k \in Job :
        /\ due'[v][k] # None => /\ due'[v][k] = due[v][k]
                                /\ Grown(objs[due[v][k]], objs'[due[v][k]])
        /\ queue'[v][k] # None => /\ queue'[v][k] = queue[v][k]
                                  /\ Grown(objs[queue[v][k]], objs'[queue[v][k]])
  <2> TAKE v \in Worker, k \in Job
  <2>1. {queue'[v][k], due'[v][k]} \subseteq Used'
        /\ {queue'[v][k], due'[v][k]} \subseteq Obj \cup {None}
    BY InUse DEF IInv, SchedOK
  <2>2. \A x \in Obj : x \in Used' => Grown(objs[x], objs'[x])
    BY <1>0 DEF GrownBut
  <2> QED
    BY <1>0, <2>1, <2>2
<1>6. DueIsFree'
  <2> SUFFICES ASSUME NEW v \in Worker, NEW k \in Job, due'[v][k] # None
               PROVE  objs'[due'[v][k]].retry = 0 /\ \A f \in Exec : exec'[v][f].obj # due'[v][k]
    BY DEF DueIsFree
  <2>1. due'[v][k] = due[v][k] /\ Grown(objs[due[v][k]], objs'[due[v][k]])
    BY <1>5
  <2>2. objs[due[v][k]].retry = 0 /\ \A f \in Exec : exec[v][f].obj # due[v][k]
    BY <2>1 DEF OwnInv, DueIsFree
  <2>3. \A f \in Exec : exec'[v][f].obj # due'[v][k]
    BY <1>2, <2>1, <2>2
  <2> QED
    BY <2>1, <2>2, <2>3 DEF Grown
<1>7. StepOK'
  <2> SUFFICES ASSUME NEW v \in Worker, NEW f \in Exec
               PROVE  /\ exec'[v][f].pc \in StoredPC \ {"remove"} => objs'[exec'[v][f].obj].isRunning
                      /\ exec'[v][f].pc \in {"next", "reportEnd", "cacheEnd"} => exec'[v][f].exists
                      /\ exec'[v][f].pc \in {"report", "cache", "run", "unlock"}
                           => objs'[exec'[v][f].obj].lock
    BY DEF StepOK
  <2>1. CASE v = w /\ f = e
    BY <2>1 DEF StoredPC
  <2>2. CASE exec[v][f].pc = "idle" /\ (v # w \/ f # e)
    BY <1>2, <2>2 DEF StoredPC
  <2>3. CASE exec[v][f].pc # "idle" /\ (v # w \/ f # e)
    <3>1. exec[v][f].obj \in Obj
      BY <2>3, InHand
    <3> QED
      BY <1>2, <2>3, <3>1 DEF OwnInv, StepOK, Grown
  <2> QED
    BY <2>1, <2>2, <2>3
<1>8. QueuedHasAllRetries'
  BY <1>5 DEF OwnInv, QueuedHasAllRetries, Grown
<1> QED
  BY <1>1, <1>3, <1>4, <1>6, <1>7, <1>8 DEF OwnInv

\* A step of the execution that leaves the queue and the slots alone.
LEMMA GoKeepsOwn ==
  ASSUME IInv, IInv', OwnInv, NEW w \in Worker, NEW e \in Exec, NEW p \in ExecPC, Go(w, e, p),
         NEW q, exec[w][e].pc = q, q \notin {"idle", "sleep"}, p # "sleep",
         q \in TailPC => p \in TailPC,
         q \in {"reportEnd", "cacheEnd", "settle"} => p \in {"reportEnd", "cacheEnd", "settle"},
         p \in StoredPC \ {"remove"} => q \in StoredPC \ {"remove"},
         p \in {"next", "reportEnd", "cacheEnd"} => q \in {"next", "reportEnd", "cacheEnd"},
         p \in {"report", "cache", "run", "unlock"} => q \in {"report", "cache", "run", "unlock"},
         UNCHANGED <<queue, due, runningJobs>>, \A m : GrownBut(m)
  PROVE  OwnInv'
<1> DEFINE o == exec[w][e].obj
           j == exec[w][e].job
<1>1. o \in Obj /\ j \in Job /\ None \notin Obj
  BY InHand, NoneIsNoObj
<1>2. exec'[w][e].pc = p /\ Same(exec'[w][e], exec[w][e]) /\ Others(w, e)
  BY GoGoes
<1>3. \A x \in Obj : x \in Used' => Grown(objs[x], objs'[x])
  BY <1>1 DEF GrownBut
<1>4. o \in Used'
  BY <1>2, InUse DEF Same
<1>5. Grown(objs[o], objs'[o])
  BY <1>1, <1>3, <1>4
<1>6. /\ q \in StoredPC \ {"remove"} => objs[o].isRunning
      /\ q \in {"next", "reportEnd", "cacheEnd"} => exec[w][e].exists
      /\ q \in {"report", "cache", "run", "unlock"} => objs[o].lock
  BY DEF OwnInv, StepOK
<1>7. queue[w][j] = o =>
        /\ q \in {"reportEnd", "cacheEnd", "settle"} /\ exec[w][e].exists /\ objs[o].retry = 0
  BY <1>1 DEF OwnInv, QueuedExec, QueuedHasAllRetries
<1>8. exec'[w][e].job = j /\ exec'[w][e].obj = o /\ exec'[w][e].ok = exec[w][e].ok
      /\ exec'[w][e].exists = exec[w][e].exists
  BY <1>2 DEF Same
<1>9. exec[w][e].job = j /\ exec[w][e].obj = o
  OBVIOUS
<1> HIDE DEF o, j
<1>10. objs'[o].retry = objs[o].retry
       /\ (objs[o].isRunning => objs'[o].isRunning) /\ (objs[o].lock => objs'[o].lock)
  BY <1>5 DEF Grown
<1> QED
  BY <1>1, <1>2, <1>3, <1>6, <1>7, <1>8, <1>9, <1>10, OwnGoes


\* What is reported of an object is not what the executions rely on.
LEMMA ValGrows ==
  ASSUME IInv, NEW o \in Obj, NEW v, Heap([objs EXCEPT ![o].val = v])
  PROVE  \A m : GrownBut(m)
<1> DEFINE n == [objs[o] EXCEPT !.val = v]
<1>1. objs[o] \in Entry
  BY DEF IInv, ObjsOK
<1>2. Grown(objs[o], n)
  BY <1>1 DEF Grown, Entry
<1>3. Heap([objs EXCEPT ![o] = n])
  OBVIOUS
<1> HIDE DEF n
<1> QED
  BY <1>2, <1>3, OneGrows

LEMMA StartStepsKeepOwn ==
  ASSUME IInv, IInv', OwnInv, NEW w \in Worker, NEW e \in Exec,
         CheckAssigned(w, e) \/ TryLock(w, e) \/ TryLockFails(w, e)
  PROVE  OwnInv'
<1>1. UNCHANGED <<queue, due, runningJobs>> /\ \A m : GrownBut(m)
  BY SameGrown DEF CheckAssigned, TryLock, TryLockFails, schedVars
<1>2. CASE End(w, e)
  BY <1>1, <1>2, EndEnds, OwnEnds
<1>3. CASE \E p \in {"lock", "locked"} : Go(w, e, p)
  <2>1. exec[w][e].pc \in {"start", "lock"}
    BY DEF CheckAssigned, TryLock, TryLockFails, At
  <2> QED
    BY <1>1, <1>3, <2>1, GoKeepsOwn DEF ExecPC, StoredPC, TailPC
<1>4. End(w, e) \/ \E p \in {"lock", "locked"} : Go(w, e, p)
  BY DEF CheckAssigned, TryLock, TryLockFails
<1> QED
  BY <1>2, <1>3, <1>4

LEMMA ReportsKeepOwn ==
  ASSUME IInv, IInv', OwnInv, NEW w \in Worker, NEW e \in Exec,
         \/ ReportRunning(w, e) \/ CacheRunning(w, e) \/ ReportEnded(w, e) \/ CacheEnded(w, e)
         \/ UnlockJob(w, e)
  PROVE  OwnInv'
<1>1. exec[w][e].pc # "idle"
  BY DEF ReportRunning, CacheRunning, ReportEnded, CacheEnded, UnlockJob, At
<1>2. UNCHANGED <<queue, due, runningJobs>>
  BY DEF ReportRunning, CacheRunning, ReportEnded, CacheEnded, UnlockJob, ReportPut, ReportCache,
         schedVars
<1>3. exec[w][e].obj \in Obj
  BY <1>1, InHand
<1>4. \A m : GrownBut(m)
  <2>1. CASE ReportRunning(w, e) \/ ReportEnded(w, e)
    <3>1. \E v : Heap([objs EXCEPT ![exec[w][e].obj].val = v])
      BY <2>1 DEF ReportRunning, ReportEnded, ReportPut
    <3> QED
      BY <1>3, <3>1, ValGrows
  <2>2. CASE CacheRunning(w, e) \/ CacheEnded(w, e) \/ UnlockJob(w, e)
    BY <2>2, SameGrown DEF CacheRunning, CacheEnded, UnlockJob, ReportCache
  <2> QED
    BY <2>1, <2>2
<1>5. \/ exec[w][e].pc \in {"report", "cache"} /\ \E p \in {"cache", "run"} : Go(w, e, p)
      \/ exec[w][e].pc \in {"reportEnd", "cacheEnd"} /\ \E p \in {"cacheEnd", "settle"} : Go(w, e, p)
      \/ exec[w][e].pc = "unlock" /\ \E p \in {"unlocked", "lookup"} : Go(w, e, p)
  BY DEF ReportRunning, CacheRunning, ReportEnded, CacheEnded, UnlockJob, ReportPut, ReportCache, At
<1>6. CASE exec[w][e].pc \in {"report", "cache"} /\ \E p \in {"cache", "run"} : Go(w, e, p)
  BY <1>2, <1>4, <1>6, GoKeepsOwn DEF ExecPC, StoredPC, TailPC
<1>7. CASE exec[w][e].pc \in {"reportEnd", "cacheEnd"} /\ \E p \in {"cacheEnd", "settle"} : Go(w, e, p)
  BY <1>2, <1>4, <1>7, GoKeepsOwn DEF ExecPC, StoredPC, TailPC
<1>8. CASE exec[w][e].pc = "unlock" /\ \E p \in {"unlocked", "lookup"} : Go(w, e, p)
  BY <1>2, <1>4, <1>8, GoKeepsOwn DEF ExecPC, StoredPC, TailPC
<1> QED
  BY <1>5, <1>6, <1>7, <1>8

\* Of an execution that goes on: its object is not in the queue unless the execution is at
\* its end, and what holds of it.
LEMMA OwnFacts ==
  ASSUME IInv, OwnInv, NEW w \in Worker, NEW e \in Exec, exec[w][e].pc # "idle"
  PROVE  /\ exec[w][e].obj \in Obj /\ exec[w][e].job \in Job /\ None \notin Obj
         /\ \A j \in Job : queue[w][j] = exec[w][e].obj =>
              /\ exec[w][e].pc \in {"reportEnd", "cacheEnd", "settle"} /\ exec[w][e].exists
              /\ objs[exec[w][e].obj].retry = 0
         /\ \A j \in Job : due[w][j] # exec[w][e].obj
         /\ exec[w][e].pc \in StoredPC \ {"remove"} => objs[exec[w][e].obj].isRunning
<1>1. exec[w][e].obj \in Obj /\ exec[w][e].job \in Job /\ None \notin Obj
  BY InHand, NoneIsNoObj
<1> QED
  BY <1>1 DEF OwnInv, QueuedExec, QueuedHasAllRetries, DueIsFree, StepOK

LEMMA LookUpKeepsOwn ==
  ASSUME IInv, IInv', OwnInv, NEW w \in Worker, NEW e \in Exec, LookUp(w, e)
  PROVE  OwnInv'
<1> DEFINE o == exec[w][e].obj
           j == exec[w][e].job
<1>1. exec[w][e].pc = "lookup" /\ UNCHANGED <<queue, due, runningJobs, objs>>
  BY DEF LookUp, At, schedVars
<1>2. /\ o \in Obj /\ j \in Job /\ None \notin Obj /\ queue[w][j] # o
      /\ objs[o].isRunning
  BY <1>1, OwnFacts DEF StoredPC
<1>3. \A p \in Obj : Grown(objs[p], objs'[p])
  BY <1>1 DEF Grown
<1>4. /\ \/ exec'[w][e].pc = "next" /\ exec'[w][e].exists
         \/ exec'[w][e].pc = "settle" /\ ~exec'[w][e].exists
      /\ exec'[w][e].job = j /\ exec'[w][e].obj = o /\ exec'[w][e].ok = exec[w][e].ok
      /\ Others(w, e)
  BY LookUpLooksUp
<1>5. exec[w][e].job = j /\ exec[w][e].obj = o
  OBVIOUS
<1>6. /\ exec'[w][e].pc \in TailPC /\ exec'[w][e].pc # "sleep"
      /\ exec'[w][e].pc \notin {"reportEnd", "cacheEnd", "report", "cache", "run", "unlock"}
  BY <1>4 DEF TailPC
<1> HIDE DEF o, j
<1> QED
  BY <1>1, <1>2, <1>3, <1>4, <1>5, <1>6, OwnGoes

LEMMA BeginKeepsOwn ==
  ASSUME IInv, IInv', OwnInv, NEW w \in Worker, NEW e \in Exec, Begin(w, e)
  PROVE  OwnInv'
<1> DEFINE o == exec[w][e].obj
           j == exec[w][e].job
           n == [objs[o] EXCEPT !.lock = TRUE, !.isRunning = TRUE]
<1>1. exec[w][e].pc = "locked" /\ UNCHANGED <<queue, due>> /\ Go(w, e, "report")
      /\ runningJobs' = [runningJobs EXCEPT ![w][j] = o]
  BY DEF Begin, At
<1>2. o \in Obj /\ j \in Job /\ None \notin Obj /\ queue[w][j] # o
  BY <1>1, OwnFacts
<1>3. objs \in [Obj -> Entry] /\ objs[o] \in Entry
  BY <1>2 DEF IInv, ObjsOK
<1>4. n.lock /\ n.isRunning /\ n.retry = objs[o].retry
  BY <1>3 DEF Entry
<1>5. PICK g : Heap(g) /\ g = [objs EXCEPT ![o].lock = TRUE, ![o].isRunning = TRUE]
  BY Zenon DEF Begin
<1>6. g = [objs EXCEPT ![o] = n]
  BY <1>2, <1>3, <1>5 DEF Entry
<1>7. Heap([objs EXCEPT ![o] = n])
  BY <1>5, <1>6
<1>8. /\ exec'[w][e].pc = "report" /\ exec'[w][e].job = j /\ exec'[w][e].obj = o
      /\ Others(w, e)
  BY <1>1, GoGoes DEF Same, ExecPC, StoredPC
<1>9. o \in Used'
  BY <1>8, InUse
<1>10. \A v \in Worker, k \in Job :
         \/ runningJobs'[v][k] = runningJobs[v][k]
         \/ v = w /\ k = j /\ runningJobs'[v][k] = o
  BY <1>1 DEF IInv, SchedOK
<1>11. exec[w][e].job = j /\ exec[w][e].obj = o
  OBVIOUS
<1> HIDE DEF o, j, n
<1>12. objs'[o] = n /\ \A p \in Obj : p \in Used' /\ p # o => Grown(objs[p], objs'[p])
  BY <1>2, <1>7, <1>9, OneGrown DEF GrownBut
<1>13. exec[w][e].pc \notin TailPC \cup {"sleep", "reportEnd", "cacheEnd", "settle"}
       /\ exec'[w][e].pc \notin {"sleep", "next", "reportEnd", "cacheEnd"}
  BY <1>1, <1>8 DEF TailPC
<1> QED
  BY <1>1, <1>2, <1>4, <1>8, <1>10, <1>11, <1>12, <1>13, OwnGoes

LEMMA ForgetLockKeepsOwn ==
  ASSUME IInv, IInv', OwnInv, NEW w \in Worker, NEW e \in Exec, ForgetLock(w, e)
  PROVE  OwnInv'
<1> DEFINE o == exec[w][e].obj
           j == exec[w][e].job
           n == [objs[o] EXCEPT !.lock = FALSE]
<1>1. exec[w][e].pc = "unlocked" /\ UNCHANGED <<queue, due, runningJobs>> /\ Go(w, e, "lookup")
      /\ Heap([objs EXCEPT ![o] = n])
  BY DEF ForgetLock, At, schedVars
<1>2. o \in Obj /\ j \in Job /\ None \notin Obj /\ queue[w][j] # o /\ objs[o].isRunning
  BY <1>1, OwnFacts DEF StoredPC
<1>3. objs[o] \in Entry
  BY <1>2 DEF IInv, ObjsOK
<1>4. n.isRunning = objs[o].isRunning /\ n.retry = objs[o].retry
  BY <1>3 DEF Entry
<1>5. /\ exec'[w][e].pc = "lookup" /\ exec'[w][e].job = j /\ exec'[w][e].obj = o
      /\ exec'[w][e].ok = exec[w][e].ok /\ Others(w, e)
  BY <1>1, GoGoes DEF Same, ExecPC, StoredPC
<1>6. o \in Used'
  BY <1>5, InUse
<1>7. exec[w][e].job = j /\ exec[w][e].obj = o
  OBVIOUS
<1> HIDE DEF o, j, n
<1>8. objs'[o] = n /\ \A p \in Obj : p \in Used' /\ p # o => Grown(objs[p], objs'[p])
  BY <1>1, <1>2, <1>6, OneGrown DEF GrownBut
<1>9. exec'[w][e].pc \in TailPC /\ exec[w][e].pc \notin {"sleep", "reportEnd", "cacheEnd", "settle"}
       /\ exec'[w][e].pc
            \notin {"sleep", "next", "reportEnd", "cacheEnd", "report", "cache", "run", "unlock"}
  BY <1>1, <1>5 DEF TailPC
<1> QED
  BY <1>1, <1>2, <1>4, <1>5, <1>7, <1>8, <1>9, OwnGoes

LEMMA RemoveRunningKeepsOwn ==
  ASSUME IInv, IInv', OwnInv, NEW w \in Worker, NEW e \in Exec, RemoveRunning(w, e)
  PROVE  OwnInv'
<1>1. /\ UNCHANGED <<queue, due>> /\ End(w, e) /\ Heap(objs)
      /\ runningJobs' = [runningJobs EXCEPT ![w][exec[w][e].job] = None]
  BY DEF RemoveRunning, Drop
<1>2. \A v \in Worker, j \in Job : runningJobs'[v][j] \in {runningJobs[v][j], None}
  BY <1>1 DEF IInv, SchedOK
<1> QED
  BY <1>1, <1>2, EndEnds, SameGrown, OwnEnds

LEMMA RetryWakesKeepsOwn ==
  ASSUME IInv, IInv', OwnInv, NEW w \in Worker, NEW e \in Exec, RetryWakes(w, e)
  PROVE  OwnInv'
<1> DEFINE o == exec[w][e].obj
           j == exec[w][e].job
<1>1. /\ exec[w][e].pc = "sleep" /\ UNCHANGED <<queue, due, runningJobs>> /\ Heap(objs)
      /\ Go(w, e, "start") \/ End(w, e)
      /\ \A f \in Exec : exec[w][f].obj = o => exec[w][f].pc \notin TailPC
  BY DEF RetryWakes, At, schedVars
<1>2. \A m : GrownBut(m)
  BY <1>1, SameGrown
<1>3. CASE End(w, e)
  BY <1>1, <1>2, <1>3, EndEnds, OwnEnds
<1>4. CASE Go(w, e, "start")
  <2>1. o \in Obj /\ j \in Job /\ None \notin Obj
        /\ \A k \in Job : queue[w][k] # o /\ due[w][k] # o
    BY <1>1, OwnFacts
  <2>2. \A f \in Exec : f # e => exec[w][f].obj # o
    <3> SUFFICES ASSUME NEW f \in Exec, f # e, exec[w][f].obj = o PROVE FALSE
      OBVIOUS
    <3>1. Waits(w, e, f) \/ Waits(w, f, e)
      BY <2>1 DEF OwnInv, OneExec
    <3>2. exec[w][f].pc \notin TailPC /\ exec[w][e].pc \notin TailPC
      BY <1>1
    <3> QED
      BY <3>1, <3>2 DEF Waits
  <2>3. Refs(w, j, o)
    BY DEF Refs
  <2>4. exec'[w][e].pc = "start" /\ exec'[w][e].job = j /\ exec'[w][e].obj = o /\ Others(w, e)
    BY <1>4, GoGoes DEF Same, ExecPC
  <2> HIDE DEF o, j
  <2> QED
    BY <1>1, <1>2, <2>1, <2>2, <2>3, <2>4, OwnStarts
<1> QED
  BY <1>1, <1>3, <1>4


\* The execution of e at w is over, and f, if it is another goroutine, waits for its retry:
\* only the object of the execution changes, and nothing but these two refers to it.
LEMMA OwnCounts ==
  ASSUME IInv, IInv', OwnInv, NEW w \in Worker, NEW e \in Exec, NEW f \in Exec,
         \A v \in Worker, g \in Exec : v # w \/ g \notin {e, f} => exec'[v][g] = exec[v][g],
         NEW j \in Job, exec[w][e].job = j, exec'[w][e].job = j,
         NEW o \in Obj, exec[w][e].obj = o, exec'[w][e].obj = o,
         exec[w][e].pc = "run", exec'[w][e].pc = "unlock",
         f # e => /\ exec[w][f].pc = "idle" /\ ~exec'[w][e].ok /\ objs'[o].retry > 0
                  /\ exec'[w][f] = Begun("sleep", j, o),
         UNCHANGED <<queue, due, runningJobs>>, GrownBut(o),
         objs'[o].lock = objs[o].lock, objs'[o].isRunning = objs[o].isRunning
  PROVE  OwnInv'
<1>0. /\ None \notin Obj /\ \A k \in Job : queue[w][k] # o /\ due[w][k] # o
      /\ objs[o].isRunning /\ objs[o].lock
  BY OwnFacts DEF OwnInv, StepOK, StoredPC
<1>1. f # e => exec'[w][f].pc = "sleep" /\ exec'[w][f].job = j /\ exec'[w][f].obj = o
  BY DEF Begun
<1>2. \A v \in Worker, g \in Exec : exec[v][g].obj = o => v = w /\ g = e
  <2> SUFFICES ASSUME NEW v \in Worker, NEW g \in Exec, exec[v][g].obj = o
               PROVE  v = w /\ g = e
    OBVIOUS
  <2>1. exec[v][g].job \in Job
    BY <1>0 DEF IInv, ExecOK, ActiveOK
  <2>2. Refs(v, exec[v][g].job, o) /\ Refs(w, j, o)
    BY DEF Refs
  <2>3. v = w
    BY <2>1, <2>2 DEF OwnInv, OneOwner
  <2>4. g # e => Waits(w, e, g) \/ Waits(w, g, e)
    BY <1>0, <2>3 DEF OwnInv, OneExec
  <2> QED
    BY <2>3, <2>4 DEF Waits, TailPC
<1>3. \A v \in Worker, k \in Job : queue[v][k] # o /\ due[v][k] # o
  <2> SUFFICES ASSUME NEW v \in Worker, NEW k \in Job, queue[v][k] = o \/ due[v][k] = o
               PROVE  FALSE
    OBVIOUS
  <2>1. Refs(v, k, o) /\ Refs(w, j, o)
    BY DEF Refs
  <2> QED
    BY <1>0, <2>1 DEF OwnInv, OneOwner
\* What the others have is as it was.
<1>4. \A v \in Worker, g \in Exec : v # w \/ g \notin {e, f} =>
        /\ exec'[v][g] = exec[v][g] /\ exec[v][g].obj # o /\ exec[v][g].obj \in Obj \cup {None}
        /\ exec[v][g].obj # None => Grown(objs[exec[v][g].obj], objs'[exec[v][g].obj])
  <2> SUFFICES ASSUME NEW v \in Worker, NEW g \in Exec, v # w \/ g \notin {e, f}
               PROVE  /\ exec'[v][g] = exec[v][g] /\ exec[v][g].obj # o
                      /\ exec[v][g].obj \in Obj \cup {None}
                      /\ exec[v][g].obj # None =>
                           Grown(objs[exec[v][g].obj], objs'[exec[v][g].obj])
    OBVIOUS
  <2>1. exec'[v][g] = exec[v][g]
    OBVIOUS
  <2>2. exec[v][g].obj # o
    BY <1>2
  <2>3. exec[v][g].obj \in Obj \cup {None} /\ exec[v][g].obj \in Used'
    BY <2>1, InUse DEF IInv, ExecOK, ExecRec
  <2> QED
    BY <2>1, <2>2, <2>3 DEF GrownBut
<1>5. \A v \in Worker, k \in Job :
        /\ due[v][k] # None => Grown(objs[due[v][k]], objs'[due[v][k]])
        /\ queue[v][k] # None => Grown(objs[queue[v][k]], objs'[queue[v][k]])
  <2> TAKE v \in Worker, k \in Job
  <2>1. {queue[v][k], due[v][k]} \subseteq Used' /\ {queue[v][k], due[v][k]} \subseteq Obj \cup {None}
    BY InUse DEF IInv, SchedOK
  <2> QED
    BY <1>3, <2>1 DEF GrownBut
<1>6. OneOwner'
  <2>1. \A v \in Worker, k \in Job, x \in Obj : Refs(v, k, x)' => Refs(v, k, x)
    <3> SUFFICES ASSUME NEW v \in Worker, NEW k \in Job, NEW x \in Obj, Refs(v, k, x)'
                 PROVE  Refs(v, k, x)
      OBVIOUS
    <3>1. CASE \E g \in Exec : exec'[v][g].job = k /\ exec'[v][g].obj = x
      <4>1. PICK g \in Exec : exec'[v][g].job = k /\ exec'[v][g].obj = x
        BY <3>1
      <4>2. CASE v = w /\ g \in {e, f}
        BY <1>1, <4>1, <4>2 DEF Refs
      <4>3. CASE v # w \/ g \notin {e, f}
        BY <4>1, <4>3 DEF Refs
      <4> QED
        BY <4>2, <4>3
    <3> QED
      BY <3>1 DEF Refs
  <2> QED
    BY <2>1 DEF OwnInv, OneOwner
<1>7. OneExec'
  <2> SUFFICES ASSUME NEW v \in Worker, NEW a \in Exec, NEW b \in Exec, a # b,
                      exec'[v][a].obj # None, exec'[v][a].obj = exec'[v][b].obj
               PROVE  Waits(v, a, b)' \/ Waits(v, b, a)'
    BY DEF OneExec
  <2>1. CASE v = w /\ a \in {e, f} /\ b \in {e, f}
    <3>1. f # e /\ exec'[w][f].pc = "sleep" /\ ~exec'[w][e].ok /\ objs'[o].retry > 0
          /\ exec'[w][f].obj = o
      BY <1>1, <2>1
    <3>2. Waits(w, f, e)'
      BY <3>1 DEF Waits, TailPC
    <3> QED
      BY <2>1, <3>2
  <2>2. CASE v = w /\ (a \in {e, f} \/ b \in {e, f}) /\ ~(a \in {e, f} /\ b \in {e, f})
    BY <1>1, <1>4, <2>2
  <2>3. CASE v # w \/ (a \notin {e, f} /\ b \notin {e, f})
    <3>1. /\ exec'[v][a] = exec[v][a] /\ exec'[v][b] = exec[v][b]
          /\ Grown(objs[exec[v][a].obj], objs'[exec[v][a].obj])
      BY <1>4, <2>3
    <3>2. Waits(v, a, b) \/ Waits(v, b, a)
      BY <3>1 DEF OwnInv, OneExec
    <3> QED
      BY <3>1, <3>2 DEF Waits, Grown
  <2> QED
    BY <2>1, <2>2, <2>3
<1>8. QueuedExec'
  <2> SUFFICES ASSUME NEW v \in Worker, NEW g \in Exec, NEW k \in Job, exec'[v][g].obj # None,
                      queue[v][k] = exec'[v][g].obj
               PROVE  exec'[v][g].pc \in {"reportEnd", "cacheEnd", "settle"} /\ exec'[v][g].exists
    BY DEF QueuedExec
  <2>1. v # w \/ g \notin {e, f}
    BY <1>0, <1>1
  <2> QED
    BY <1>4, <2>1 DEF OwnInv, QueuedExec
<1>9. DueIsFree'
  <2> SUFFICES ASSUME NEW v \in Worker, NEW k \in Job, due[v][k] # None
               PROVE  objs'[due[v][k]].retry = 0 /\ \A g \in Exec : exec'[v][g].obj # due[v][k]
    BY DEF DueIsFree
  <2>1. \A g \in Exec : exec'[v][g].obj # due[v][k]
    BY <1>1, <1>3, <1>4 DEF OwnInv, DueIsFree
  <2> QED
    BY <1>5, <2>1 DEF OwnInv, DueIsFree, Grown
<1>10. StepOK'
  <2> SUFFICES ASSUME NEW v \in Worker, NEW g \in Exec
               PROVE  /\ exec'[v][g].pc \in StoredPC \ {"remove"} => objs'[exec'[v][g].obj].isRunning
                      /\ exec'[v][g].pc \in {"next", "reportEnd", "cacheEnd"} => exec'[v][g].exists
                      /\ exec'[v][g].pc \in {"report", "cache", "run", "unlock"}
                           => objs'[exec'[v][g].obj].lock
    BY DEF StepOK
  <2>1. CASE v = w /\ g = e
    BY <1>0, <2>1
  <2>2. CASE v = w /\ g = f /\ f # e
    BY <1>1, <2>2 DEF StoredPC
  <2>3. CASE exec[v][g].pc = "idle" /\ (v # w \/ g \notin {e, f})
    BY <1>4, <2>3 DEF StoredPC
  <2>4. CASE exec[v][g].pc # "idle" /\ (v # w \/ g \notin {e, f})
    <3>1. exec[v][g].obj # None
      BY <1>0, <2>4, InHand
    <3> QED
      BY <1>4, <2>4, <3>1 DEF OwnInv, StepOK, Grown
  <2> QED
    BY <2>1, <2>2, <2>3, <2>4
<1>11. QueuedHasAllRetries'
  BY <1>5 DEF OwnInv, QueuedHasAllRetries, Grown
<1> QED
  BY <1>6, <1>7, <1>8, <1>9, <1>10, <1>11 DEF OwnInv

LEMMA FinishKeepsOwn ==
  ASSUME IInv, IInv', OwnInv, NEW w \in Worker, NEW e \in Exec, Finish(w, e)
  PROVE  OwnInv'
<1> DEFINE o == exec[w][e].obj
           j == exec[w][e].job
<1>1. exec[w][e].pc = "run" /\ UNCHANGED <<queue, due, runningJobs>>
  BY DEF Finish, At, schedVars
<1>2. o \in Obj /\ j \in Job
  BY <1>1, OwnFacts
<1>3. exec'[w][e].pc = "unlock" /\ exec'[w][e].job = j /\ exec'[w][e].obj = o
  BY FinishFinishes
<1>4. PICK n \in Entry :
        /\ Counted(w, e, n)
        /\ \/ Others(w, e) /\ n.retry = 0
           \/ n.retry > 0 /\ \E f \in Exec \ {e} : Retries(w, e, f)
  BY FinishFinishes
<1>5. o \in Used'
  BY <1>3, InUse
<1>6. Heap([objs EXCEPT ![o] = n]) /\ n.lock = objs[o].lock /\ n.isRunning = objs[o].isRunning
  BY <1>4 DEF Counted
<1>7. exec[w][e].job = j /\ exec[w][e].obj = o
  OBVIOUS
<1>8. CASE Others(w, e)
  <2>1. \A v \in Worker, g \in Exec : v # w \/ g \notin {e, e} => exec'[v][g] = exec[v][g]
    BY <1>8 DEF Others
  <2> HIDE DEF o, j
  <2>2. GrownBut(o) /\ objs'[o] = n
    BY <1>2, <1>5, <1>6, OneGrown
  <2> QED
    BY <1>1, <1>2, <1>3, <1>6, <1>7, <2>1, <2>2, OwnCounts
<1>9. ASSUME NEW f \in Exec \ {e}, Retries(w, e, f), n.retry > 0
      PROVE  OwnInv'
  <2>1. /\ exec[w][f].pc = "idle" /\ ~exec'[w][e].ok
        /\ exec'[w][f] = Begun("sleep", j, o)
        /\ \A v \in Worker, g \in Exec : v # w \/ g \notin {e, f} => exec'[v][g] = exec[v][g]
    BY <1>9 DEF Retries
  <2> HIDE DEF o, j
  <2>2. GrownBut(o) /\ objs'[o] = n
    BY <1>2, <1>5, <1>6, OneGrown
  <2> QED
    BY <1>1, <1>2, <1>3, <1>6, <1>7, <1>9, <2>1, <2>2, OwnCounts
<1> QED
  BY <1>4, <1>8, <1>9


LEMMA ScheduleNextRunKeepsOwn ==
  ASSUME IInv, IInv', OwnInv, NEW w \in Worker, NEW e \in Exec, ScheduleNextRun(w, e)
  PROVE  OwnInv'
<1> DEFINE o == exec[w][e].obj
           j == exec[w][e].job
           n == [objs[o] EXCEPT !.next = "later"]
<1>1. exec[w][e].pc = "next" /\ UNCHANGED <<due, runningJobs>> /\ Go(w, e, "reportEnd")
  BY DEF ScheduleNextRun, At
<1>2. o \in Obj /\ j \in Job /\ None \notin Obj /\ queue[w][j] # o /\ objs[o].isRunning
  BY <1>1, OwnFacts DEF StoredPC
<1>3. objs[o] \in Entry
  BY <1>2 DEF IInv, ObjsOK
<1>4. Grown(objs[o], n)
  BY <1>3 DEF Grown, Entry
<1>5. Heap(objs) \/ Heap([objs EXCEPT ![o] = n])
  BY DEF ScheduleNextRun
<1>6. /\ exec'[w][e].pc = "reportEnd" /\ exec'[w][e].job = j /\ exec'[w][e].obj = o
      /\ exec'[w][e].ok = exec[w][e].ok /\ exec'[w][e].exists = exec[w][e].exists /\ Others(w, e)
  BY <1>1, GoGoes DEF Same, ExecPC, StoredPC
<1>7. exec'[w][e].exists
  BY <1>1, <1>6 DEF OwnInv, StepOK
<1>8. o \in Used'
  BY <1>6, InUse
<1>9. queue' = queue \/ (objs[o].retry = 0 /\ queue' = [queue EXCEPT ![w][j] = o])
  BY DEF ScheduleNextRun
<1>10. exec[w][e].job = j /\ exec[w][e].obj = o
  OBVIOUS
<1> HIDE DEF o, j, n
<1>11. \A m : GrownBut(m)
  BY <1>2, <1>4, <1>5, SameGrown, OneGrows
<1>12. \A p \in Obj : p \in Used' => Grown(objs[p], objs'[p])
  BY <1>2, <1>11 DEF GrownBut
<1>13. objs'[o].retry = objs[o].retry /\ objs'[o].isRunning
  BY <1>2, <1>8, <1>12 DEF Grown
<1>14. \A v \in Worker, k \in Job :
         \/ queue'[v][k] = queue[v][k]
         \/ v = w /\ k = j /\ queue'[v][k] = o /\ objs[o].retry = 0
  BY <1>9 DEF IInv, SchedOK
<1>15. exec[w][e].pc # "sleep" /\ exec'[w][e].pc # "sleep" /\ exec'[w][e].pc \in TailPC
       /\ exec'[w][e].pc \notin {"report", "cache", "run", "unlock"}
  BY <1>1, <1>6 DEF TailPC
<1> QED
  BY <1>1, <1>2, <1>6, <1>7, <1>10, <1>12, <1>13, <1>14, <1>15, OwnGoes

\* One object changes and another one is made.
LEMMA TwoGrown ==
  ASSUME IInv, NEW o \in Obj, NEW a, NEW m \in Obj, m # o, NEW b,
         Heap([objs EXCEPT ![o] = a, ![m] = b])
  PROVE  /\ \A p \in Obj : p \in Used' /\ p \notin {o, m} => Grown(objs[p], objs'[p])
         /\ o \in Used' => objs'[o] = a
         /\ m \in Used' => objs'[m] = b
<1>1. objs \in [Obj -> Entry]
  BY DEF IInv, ObjsOK
<1>2. PICK h : Heap(h) /\ h = [objs EXCEPT ![o] = a, ![m] = b]
  BY Zenon
<1>3. h[o] = a /\ h[m] = b /\ \A p \in Obj : p \notin {o, m} => h[p] = objs[p]
  BY <1>1, <1>2
<1>4. \A p \in Obj : p \in Used' => objs'[p] = h[p]
  BY <1>2, HeapKeeps
<1> QED
  BY <1>3, <1>4 DEF Grown

LEMMA SettleKeepsOwn ==
  ASSUME IInv, IInv', OwnInv, NEW w \in Worker, NEW e \in Exec, Settle(w, e)
  PROVE  OwnInv'
<1> DEFINE o == exec[w][e].obj
           j == exec[w][e].job
           n == [objs[o] EXCEPT !.isRunning = FALSE]
           c == [objs[o] EXCEPT !.isRunning = FALSE, !.lock = FALSE]
<1>1. exec[w][e].pc = "settle" /\ UNCHANGED <<due, runningJobs>> /\ Go(w, e, "remove")
  BY DEF Settle, At
<1>2. o \in Obj /\ j \in Job /\ None \notin Obj
      /\ (queue[w][j] = o => exec[w][e].exists /\ objs[o].retry = 0)
  BY <1>1, OwnFacts
<1>3. objs[o] \in Entry
  BY <1>2 DEF IInv, ObjsOK
<1>4. n.retry = objs[o].retry /\ c.retry = objs[o].retry
  BY <1>3 DEF Entry
<1>5. \/ /\ objs[o].retry = 0 /\ Room /\ queue' = [queue EXCEPT ![w][j] = New]
         /\ Heap([objs EXCEPT ![o] = n, ![New] = c])
      \/ /\ ~(exec[w][e].exists /\ objs[o].retry = 0) \/ queue[w][j] = None
         /\ queue' = queue /\ Heap([objs EXCEPT ![o] = n])
  BY DEF Settle, Requeues
<1>6. /\ exec'[w][e].pc = "remove" /\ exec'[w][e].job = j /\ exec'[w][e].obj = o
      /\ exec'[w][e].ok = exec[w][e].ok /\ Others(w, e)
  BY <1>1, GoGoes DEF Same, ExecPC, StoredPC
<1>7. o \in Used /\ o \in Used'
  BY <1>6, InUse
<1>8. exec[w][e].job = j /\ exec[w][e].obj = o
  OBVIOUS
<1> HIDE DEF o, j, n, c
<1>9. exec[w][e].pc # "sleep" /\ exec'[w][e].pc # "sleep" /\ exec'[w][e].pc \in TailPC
       /\ exec'[w][e].pc \notin {"next", "reportEnd", "cacheEnd", "report", "cache", "run", "unlock"}
  BY <1>1, <1>6 DEF TailPC
<1>10. CASE /\ objs[o].retry = 0 /\ Room /\ queue' = [queue EXCEPT ![w][j] = New]
            /\ Heap([objs EXCEPT ![o] = n, ![New] = c])
  <2>1. New \in Obj /\ New \notin Used /\ New # o
    BY <1>7, <1>10, NewIsUnused
  <2>2. PICK m \in Obj : m = New
    BY <2>1
  <2>3. /\ m \notin Used /\ m # o /\ queue' = [queue EXCEPT ![w][j] = m]
        /\ Heap([objs EXCEPT ![o] = n, ![m] = c])
    BY <1>10, <2>1, <2>2
  <2>4. /\ \A p \in Obj : p \in Used' /\ p \notin {o, m} => Grown(objs[p], objs'[p])
        /\ objs'[o] = n /\ (m \in Used' => objs'[m] = c)
    BY <1>2, <1>7, <2>3, TwoGrown
  <2>5. \A v \in Worker, k \in Job :
          queue'[v][k] = queue[v][k] \/ (v = w /\ k = j /\ queue'[v][k] = m)
    BY <2>3 DEF IInv, SchedOK
  <2>6. queue'[w][j] # o
    BY <1>2, <2>3 DEF IInv, SchedOK
  <2>7. objs'[o].retry = objs[o].retry /\ (m \in Used' => objs'[m].retry = 0)
    BY <1>4, <1>10, <2>4
  <2> QED
    BY <1>1, <1>2, <1>6, <1>8, <1>9, <2>3, <2>4, <2>5, <2>6, <2>7, OwnGoes
<1>11. CASE /\ ~(exec[w][e].exists /\ objs[o].retry = 0) \/ queue[w][j] = None
            /\ queue' = queue /\ Heap([objs EXCEPT ![o] = n])
  <2>1. queue'[w][j] # o
    BY <1>2, <1>11
  <2>2. objs'[o] = n /\ \A p \in Obj : p \in Used' /\ p # o => Grown(objs[p], objs'[p])
    BY <1>2, <1>7, <1>11, OneGrown DEF GrownBut
  <2> QED
    BY <1>1, <1>2, <1>4, <1>6, <1>8, <1>9, <1>11, <2>1, <2>2, OwnGoes
<1> QED
  BY <1>5, <1>10, <1>11

LEMMA ExecStepKeepsOwn ==
  ASSUME IInv, IInv', OwnInv, NEW w \in Worker, NEW e \in Exec, ExecStep(w, e)
  PROVE  OwnInv'
BY StartStepsKeepOwn, BeginKeepsOwn, ReportsKeepOwn, FinishKeepsOwn, RetryWakesKeepsOwn,
   ForgetLockKeepsOwn, LookUpKeepsOwn, ScheduleNextRunKeepsOwn, SettleKeepsOwn,
   RemoveRunningKeepsOwn DEF ExecStep


\* Nothing is new.
LEMMA OwnShrinks ==
  ASSUME IInv, IInv', OwnInv, UNCHANGED exec, \A m : GrownBut(m),
         \A v \in Worker, k \in Job :
           /\ queue'[v][k] \in {queue[v][k], None}
           /\ runningJobs'[v][k] \in {runningJobs[v][k], None}
           /\ due'[v][k] \in {due[v][k], None}
  PROVE  OwnInv'
<1>1. PICK n : n = None /\ n \notin Obj
  BY NoneIsNoObj
<1>2. GrownBut(n)
  OBVIOUS
<1>3. \A v \in Worker, k \in Job :
        /\ queue'[v][k] \in {queue[v][k], None} \/ (v = None /\ k = None /\ queue'[v][k] = n)
        /\ runningJobs'[v][k] \in {runningJobs[v][k], None}
        /\ due'[v][k] \in {due[v][k], None}
  OBVIOUS
<1> QED
  BY <1>1, <1>2, <1>3, OwnKeeps

LEMMA OwnStays ==
  ASSUME IInv, IInv', OwnInv, UNCHANGED <<queue, runningJobs, due, objs, exec>>
  PROVE  OwnInv'
BY SameGrown, OwnShrinks

\* Entries are removed, or one of them is a new object that was not retried.
LEMMA WriteKeepsOwn ==
  ASSUME IInv, IInv', OwnInv, NEW w \in Worker, NEW j \in Job, NEW v \in JobVal, NEW b \in BOOLEAN,
         Room, queue' = [queue EXCEPT ![w][j] = New], Heap([objs EXCEPT ![New] = NewEntry(j, v, b)]),
         UNCHANGED <<runningJobs, due, exec>>
  PROVE  OwnInv'
<1>1. PICK m \in Obj : m = New /\ m \notin Used
  BY NewIsUnused
<1>2. PICK n : n = NewEntry(j, v, b)
  OBVIOUS
<1>3. n.retry = 0
  BY <1>2, NewEntryIsEntry
<1>4. queue' = [queue EXCEPT ![w][j] = m] /\ Heap([objs EXCEPT ![m] = n])
  BY <1>1, <1>2
<1>5. GrownBut(m) /\ (m \in Used' => objs'[m] = n)
  BY <1>4, OneGrown
<1>6. \A u \in Worker, k \in Job :
        /\ queue'[u][k] \in {queue[u][k], None} \/ (u = w /\ k = j /\ queue'[u][k] = m)
        /\ runningJobs'[u][k] \in {runningJobs[u][k], None}
        /\ due'[u][k] \in {due[u][k], None}
  BY <1>4 DEF IInv, SchedOK
<1>7. m \in Used' => objs'[m].retry = 0
  BY <1>3, <1>5
<1> QED
  BY <1>1, <1>5, <1>6, <1>7, OwnKeeps

LEMMA PushKeepsOwn ==
  ASSUME IInv, IInv', OwnInv, NEW w \in Worker, NEW j \in Job, NEW v \in JobVal, Push(w, j, v),
         UNCHANGED <<runningJobs, due, exec>>
  PROVE  OwnInv'
BY WriteKeepsOwn, OwnStays DEF Push

LEMMA HandlerStepKeepsOwn ==
  ASSUME IInv, IInv', OwnInv, NEW w \in Worker, HandlerStep(w)
  PROVE  OwnInv'
<1>1. CASE UNCHANGED <<queue, runningJobs, due, objs, exec>>
  BY <1>1, OwnStays
<1>2. CASE HandlePush(w) \/ UpdateWrites(w)
  <2>1. handler[w].val \in JobVal /\ handler[w].job \in Job /\ handler[w].flag \in BOOLEAN
    BY <1>2, EventInHand DEF HandlePush, UpdateWrites, Handles
  <2> QED
    BY <1>2, <2>1, PushKeepsOwn, WriteKeepsOwn, OwnStays
       DEF HandlePush, UpdateWrites, handlerUnchanged
<1>3. CASE HandleRemove(w) \/ HandleDrop(w, "drop") \/ HandleDrop(w, "killDrop")
  <2>1. UNCHANGED <<due, exec>> /\ Heap(objs)
    BY <1>3 DEF HandleRemove, HandleDrop, handlerUnchanged
  <2>2. \/ queue' = [queue EXCEPT ![w][handler[w].job] = None] /\ UNCHANGED runningJobs
        \/ runningJobs' = [runningJobs EXCEPT ![w][handler[w].job] = None] /\ UNCHANGED queue
    BY <1>3 DEF HandleRemove, HandleDrop, Drop
  <2>3. \A v \in Worker, j \in Job : queue'[v][j] \in {queue[v][j], None}
    BY <2>2 DEF IInv, SchedOK
  <2>4. \A v \in Worker, j \in Job : runningJobs'[v][j] \in {runningJobs[v][j], None}
    BY <2>2 DEF IInv, SchedOK
  <2> QED
    BY <2>1, <2>3, <2>4, SameGrown, OwnShrinks
<1>4. CASE HandleKill(w)
  <2>1. UNCHANGED <<queue, runningJobs, due, exec>>
    BY <1>4 DEF HandleKill, schedVars
  <2>2. CASE UNCHANGED objs
    BY <2>1, <2>2, OwnStays
  <2>3. CASE \E o \in Obj : \E v : Heap([objs EXCEPT ![o].val = v])
    <3>1. \A m : GrownBut(m)
      BY <2>3, ValGrows
    <3> QED
      BY <2>1, <3>1, OwnShrinks
  <2>4. handler[w].job \in Job
    BY <1>4, EventInHand DEF HandleKill, Handles
  <2>5. runningJobs[w][handler[w].job] \in Obj \cup {None}
    BY <2>4 DEF IInv, SchedOK
  <2> QED
    BY <1>4, <2>2, <2>3, <2>5, Zenon DEF HandleKill
<1> QED
  BY <1>1, <1>2, <1>3, <1>4 DEF HandlerStep, ReceivePut, ReceiveDelete, ReceiveKill, Receive,
     HandleSave, UpdateContains, UpdateCopies, HandleKillCache, handlerUnchanged, schedVars

LEMMA CheckDueJobsKeepsOwn ==
  ASSUME IInv, IInv', OwnInv, NEW w \in Worker, CheckDueJobs(w)
  PROVE  OwnInv'
<1>0. None \notin Obj /\ UNCHANGED <<queue, runningJobs, objs, exec>>
  BY NoneIsNoObj DEF CheckDueJobs
<1>1. PICK S \in SUBSET DueJobs(w) :
        due' = [due EXCEPT ![w] = [j \in Job |-> IF j \in S THEN queue[w][j] ELSE None]]
  BY DEF CheckDueJobs
<1>2. \A v \in Worker, j \in Job :
        \/ due'[v][j] \in {due[v][j], None}
        \/ v = w /\ j \in DueJobs(w) /\ due'[v][j] = queue[w][j]
  BY <1>1 DEF IInv, SchedOK
<1>3. OneOwner'
  <2>1. \A v \in Worker, j \in Job, o \in Obj : Refs(v, j, o)' => Refs(v, j, o)
    BY <1>0, <1>2 DEF Refs
  <2> QED
    BY <2>1 DEF OwnInv, OneOwner
<1>4. OneExec' /\ QueuedExec' /\ StepOK' /\ QueuedHasAllRetries'
  BY <1>0 DEF OwnInv, OneExec, Waits, QueuedExec, StepOK, QueuedHasAllRetries
<1>5. DueIsFree'
  <2> SUFFICES ASSUME NEW v \in Worker, NEW j \in Job, due'[v][j] # None
               PROVE  objs[due'[v][j]].retry = 0 /\ \A e \in Exec : exec[v][e].obj # due'[v][j]
    BY <1>0 DEF DueIsFree
  <2>1. CASE due'[v][j] = due[v][j]
    BY <2>1 DEF OwnInv, DueIsFree
  <2>2. CASE v = w /\ j \in DueJobs(w) /\ due'[v][j] = queue[w][j]
    <3>1. queue[w][j] # None /\ ~objs[queue[w][j]].isRunning
      BY <2>2 DEF DueJobs
    <3>2. ASSUME NEW e \in Exec, exec[w][e].obj = queue[w][j] PROVE FALSE
      <4>1. exec[w][e].pc \in {"reportEnd", "cacheEnd", "settle"}
        BY <3>1, <3>2 DEF OwnInv, QueuedExec
      <4>2. objs[exec[w][e].obj].isRunning
        BY <4>1 DEF OwnInv, StepOK, StoredPC
      <4> QED
        BY <3>1, <3>2, <4>2
    <3> QED
      BY <2>2, <3>1, <3>2 DEF OwnInv, QueuedHasAllRetries
  <2> QED
    BY <1>2, <2>1, <2>2
<1> QED
  BY <1>3, <1>4, <1>5 DEF OwnInv

LEMMA LaunchKeepsOwn ==
  ASSUME IInv, IInv', OwnInv, NEW w \in Worker, NEW j \in Job, Launch(w, j)
  PROVE  OwnInv'
<1>1. due[w][j] \in Obj /\ None \notin Obj
  BY NoneIsNoObj DEF Launch, IInv, SchedOK
<1>2. PICK o \in Obj : o = due[w][j]
  BY <1>1
<1>3. UNCHANGED runningJobs /\ \A m : GrownBut(m)
  BY SameGrown DEF Launch
<1>4. \A v \in Worker, k \in Job :
        /\ queue'[v][k] = IF v = w /\ k = j THEN None ELSE queue[v][k]
        /\ due'[v][k] = IF v = w /\ k = j THEN None ELSE due[v][k]
  BY DEF Launch, IInv, SchedOK
<1>5. CASE UNCHANGED exec
  BY <1>3, <1>4, <1>5, OwnShrinks
<1>6. ASSUME NEW e \in Exec, At(w, e, "idle"), exec' = [exec EXCEPT ![w][e] = Begun("start", j, o)]
      PROVE  OwnInv'
  <2>1. exec'[w][e] = Begun("start", j, o) /\ Others(w, e)
    BY <1>6, StartStarts
  <2>2. exec'[w][e].pc = "start" /\ exec'[w][e].job = j /\ exec'[w][e].obj = o
    BY <2>1 DEF Begun
  <2>3. \A f \in Exec : exec[w][f].obj # o
    BY <1>1, <1>2 DEF OwnInv, DueIsFree
  <2>4. \A k \in Job : k # j => queue[w][k] # o /\ due[w][k] # o
    <3>1. Refs(w, j, o) /\ \A k \in Job : queue[w][k] = o \/ due[w][k] = o => Refs(w, k, o)
      BY <1>2 DEF Refs
    <3> QED
      BY <3>1 DEF OwnInv, OneOwner
  <2>5. Refs(w, j, o)
    BY <1>2 DEF Refs
  <2>6. \A v \in Worker, k \in Job :
          /\ queue'[v][k] \in {queue[v][k], None} /\ due'[v][k] \in {due[v][k], None}
          /\ v = w => queue'[v][k] # o /\ due'[v][k] # o
    BY <1>1, <1>4, <2>4
  <2> QED
    BY <1>3, <2>1, <2>2, <2>3, <2>5, <2>6, OwnStarts
<1> QED
  BY <1>2, <1>5, <1>6 DEF Launch


LEMMA DiesKeepsOwn ==
  ASSUME IInv, IInv', OwnInv, NEW w \in Worker, Dies(w)
  PROVE  OwnInv'
<1>0. None \notin Obj /\ Idle.pc = "idle" /\ Idle.obj = None
  BY NoneIsNoObj, IdleIsRec
<1>1. /\ \A v \in Worker, e \in Exec : exec'[v][e].obj # None => v # w /\ exec'[v][e] = exec[v][e]
      /\ \A v \in Worker, e \in Exec : v # w => exec'[v][e] = exec[v][e]
      /\ \A e \in Exec : exec'[w][e].pc = "idle"
      /\ \A v \in Worker, j \in Job :
           /\ queue'[v][j] # None => v # w /\ queue'[v][j] = queue[v][j]
           /\ runningJobs'[v][j] # None => v # w /\ runningJobs'[v][j] = runningJobs[v][j]
           /\ due'[v][j] # None => v # w /\ due'[v][j] = due[v][j]
  BY <1>0, DiesEnds
<1>2. \A x \in Obj : x \in Used' => Grown(objs[x], objs'[x])
  BY <1>0, SameGrown DEF Dies, GrownBut
<1>3. \A v \in Worker, e \in Exec : exec'[v][e].obj # None =>
        /\ exec'[v][e] = exec[v][e] /\ exec[v][e].obj \in Obj
        /\ Grown(objs[exec[v][e].obj], objs'[exec[v][e].obj])
  <2> SUFFICES ASSUME NEW v \in Worker, NEW e \in Exec, exec'[v][e].obj # None
               PROVE  /\ exec'[v][e] = exec[v][e] /\ exec[v][e].obj \in Obj
                      /\ Grown(objs[exec[v][e].obj], objs'[exec[v][e].obj])
    OBVIOUS
  <2>1. exec'[v][e] = exec[v][e] /\ exec[v][e].obj \in Used'
    BY <1>1, InUse
  <2>2. exec[v][e].obj \in Obj
    BY <2>1 DEF IInv, ExecOK, ExecRec
  <2> QED
    BY <1>2, <2>1, <2>2
<1>4. OneOwner'
  <2>1. \A v \in Worker, j \in Job, o \in Obj : Refs(v, j, o)' => Refs(v, j, o)
    BY <1>0, <1>1 DEF Refs
  <2> QED
    BY <2>1 DEF OwnInv, OneOwner
<1>5. OneExec'
  <2> SUFFICES ASSUME NEW v \in Worker, NEW e \in Exec, NEW f \in Exec, e # f,
                      exec'[v][e].obj # None, exec'[v][e].obj = exec'[v][f].obj
               PROVE  Waits(v, e, f)' \/ Waits(v, f, e)'
    BY DEF OneExec
  <2>1. /\ exec'[v][e] = exec[v][e] /\ exec'[v][f] = exec[v][f]
        /\ Grown(objs[exec[v][e].obj], objs'[exec[v][e].obj])
    BY <1>3
  <2>2. Waits(v, e, f) \/ Waits(v, f, e)
    BY <2>1 DEF OwnInv, OneExec
  <2> QED
    BY <2>1, <2>2 DEF Waits, Grown
<1>6. QueuedExec'
  BY <1>1, <1>3 DEF OwnInv, QueuedExec
<1>7. \A v \in Worker, j \in Job :
        /\ due'[v][j] # None => /\ v # w /\ due'[v][j] = due[v][j]
                                /\ Grown(objs[due[v][j]], objs'[due[v][j]])
        /\ queue'[v][j] # None => /\ queue'[v][j] = queue[v][j]
                                  /\ Grown(objs[queue[v][j]], objs'[queue[v][j]])
  <2> TAKE v \in Worker, j \in Job
  <2>1. {queue'[v][j], due'[v][j]} \subseteq Used'
        /\ {queue'[v][j], due'[v][j]} \subseteq Obj \cup {None}
    BY InUse DEF IInv, SchedOK
  <2> QED
    BY <1>1, <1>2, <2>1
<1>8. DueIsFree'
  <2> SUFFICES ASSUME NEW v \in Worker, NEW j \in Job, due'[v][j] # None
               PROVE  objs'[due'[v][j]].retry = 0 /\ \A e \in Exec : exec'[v][e].obj # due'[v][j]
    BY DEF DueIsFree
  <2> QED
    BY <1>1, <1>7 DEF OwnInv, DueIsFree, Grown
<1>9. StepOK'
  <2>1. \A v \in Worker, e \in Exec : exec'[v][e].pc # "idle" => exec'[v][e].obj # None
    BY <1>0 DEF IInv, ExecOK, ActiveOK
  <2> QED
    BY <1>3, <2>1 DEF OwnInv, StepOK, StoredPC, Grown
<1>10. QueuedHasAllRetries'
  BY <1>7 DEF OwnInv, QueuedHasAllRetries, Grown
<1> QED
  BY <1>4, <1>5, <1>6, <1>8, <1>9, <1>10 DEF OwnInv

LEMMA OwnStep ==
  ASSUME "Trigger" \notin Env
  PROVE  IInv /\ IInv' /\ OwnInv /\ [Next]_vars => OwnInv'
<1> SUFFICES ASSUME IInv, IInv', OwnInv, [Next]_vars PROVE OwnInv'
  OBVIOUS
<1>1. CASE UNCHANGED <<queue, runningJobs, due, objs, exec>>
  BY <1>1, OwnStays
<1>2. CASE \E j \in Job : \/ Create(j) \/ MasterPut(j) \/ MasterDelete(j) \/ MasterKill(j)
                          \/ LockExpires(j)
  BY <1>1, <1>2 DEF Create, MasterPut, MasterDelete, MasterKill, LockExpires, masterUnchanged,
                    schedVars
<1>3. CASE \E w \in Worker : HandlerStep(w)
  BY <1>3, HandlerStepKeepsOwn
<1>4. CASE \E w \in Worker : LoadList(w) \/ Boot(w) \/ StopScheduler(w)
  BY <1>1, <1>4 DEF LoadList, Boot, StopScheduler, bootUnchanged, schedVars
<1>5. ASSUME NEW w \in Worker, NEW j \in Job, LoadAdd(w, j) PROVE OwnInv'
  <2>1. loader[w].todo[j] \in JobVal
    BY <1>5 DEF LoadAdd, IInv, LoaderOK, LoaderRec
  <2> QED
    BY <1>5, <2>1, PushKeepsOwn DEF LoadAdd
<1>6. CASE \E w \in Worker : CheckDueJobs(w) \/ \E j \in Job : Launch(w, j)
  BY <1>6, CheckDueJobsKeepsOwn, LaunchKeepsOwn
<1>7. CASE \E w \in Worker : Crash(w)
  BY <1>7, DiesKeepsOwn DEF Crash
<1>8. CASE \E w \in Worker, e \in Exec : ExecStep(w, e)
  BY <1>8, ExecStepKeepsOwn
<1>9. ASSUME NEW o \in Obj, Tick(o) PROVE OwnInv'
  <2>1. objs[o] \in Entry /\ objs \in [Obj -> Entry]
    BY DEF IInv, ObjsOK
  <2>2. PICK n : n = [objs[o] EXCEPT !.next = "due"]
    OBVIOUS
  <2>3. Grown(objs[o], n)
    BY <2>1, <2>2 DEF Grown, Entry
  <2>4. objs' = [objs EXCEPT ![o] = n] /\ UNCHANGED <<queue, runningJobs, due, exec>>
    BY <1>9, <2>2 DEF Tick, schedVars
  <2>5. \A m : GrownBut(m)
    BY <2>1, <2>3, <2>4 DEF GrownBut, Grown
  <2> QED
    BY <2>4, <2>5, OwnShrinks
<1>10. CASE UNCHANGED vars
  BY <1>1, <1>10 DEF vars, schedVars
<1> QED
  BY <1>2, <1>3, <1>4, <1>5, <1>6, <1>7, <1>8, <1>9, <1>10
     DEF Next, LoaderStep, LoopStep, Trigger

LEMMA InitIsOwn == Init => OwnInv
<1> SUFFICES ASSUME Init PROVE OwnInv
  OBVIOUS
<1>1. None \notin Obj /\ Idle.pc = "idle" /\ Idle.obj = None
  BY NoneIsNoObj, IdleIsRec
<1>2. \A w \in Worker, j \in Job :
        queue[w][j] = None /\ runningJobs[w][j] = None /\ due[w][j] = None
  BY DEF Init
<1>3. \A w \in Worker, e \in Exec : exec[w][e].obj = None /\ exec[w][e].pc = "idle"
  BY <1>1 DEF Init
<1> QED
  BY <1>1, <1>2, <1>3
     DEF OwnInv, OneOwner, Refs, OneExec, QueuedExec, DueIsFree, StepOK, StoredPC,
         QueuedHasAllRetries

LEMMA AlwaysOwn == ASSUME "Trigger" \notin Env PROVE Spec => []OwnInv
<1>1. IInv /\ IInv' /\ OwnInv /\ [Next]_vars => OwnInv'
  BY OwnStep
<1> QED
  BY <1>1, AlwaysIInv, InitIsOwn, PTL DEF Spec

\* scheduleNextRun puts the executed ScheduledJob itself back into the queue, the object
\* that a retry would go on counting in: when TriggerJob is not called, a run that the
\* loop takes from the queue still has all its retries, with any number of workers,
\* retries and goroutines, and when workers die.
THEOREM NextRunHasAllRetries ==
  ASSUME "Trigger" \notin Env PROVE Spec => []QueuedHasAllRetries
<1>1. OwnInv => QueuedHasAllRetries
  BY DEF OwnInv
<1> QED
  BY <1>1, AlwaysOwn, PTL


-----------------------------------------------------------------------------
(* The locks                                                                 *)

HeldPC == {"locked", "report", "cache", "run", "unlock"}

LockHeld ==
  \A w \in Worker, j \in Job : lockOwner[j] = w =>
    \E e \in Exec : exec[w][e].job = j /\ exec[w][e].pc \in HeldPC

\* An execution that holds the lock goes on to hold it.
LEMMA HeldKeeps ==
  ASSUME LockHeld, UNCHANGED lockOwner,
         \A w \in Worker, e \in Exec : exec[w][e].pc \in HeldPC =>
           exec'[w][e].pc \in HeldPC /\ exec'[w][e].job = exec[w][e].job
  PROVE  LockHeld'
BY DEF LockHeld

LEMMA HeldKeepsOne ==
  ASSUME LockHeld, UNCHANGED lockOwner, NEW w \in Worker, NEW e \in Exec, Others(w, e),
         exec[w][e].pc \in HeldPC => exec'[w][e].pc \in HeldPC /\ exec'[w][e].job = exec[w][e].job
  PROVE  LockHeld'
BY HeldKeeps DEF Others

LEMMA ExecStepKeepsHeld ==
  ASSUME IInv, OwnInv, LockHeld, NEW w \in Worker, NEW e \in Exec, ExecStep(w, e)
  PROVE  LockHeld'
<1> DEFINE j == exec[w][e].job
<1>1. CASE CheckAssigned(w, e) \/ TryLockFails(w, e) \/ RetryWakes(w, e) \/ RemoveRunning(w, e)
  <2>1. exec[w][e].pc \notin HeldPC /\ UNCHANGED lockOwner
    BY <1>1 DEF CheckAssigned, TryLockFails, RetryWakes, RemoveRunning, At, HeldPC
  <2>2. Others(w, e)
    BY <1>1, GoGoes, EndEnds
       DEF CheckAssigned, TryLockFails, RetryWakes, RemoveRunning, ExecPC, StoredPC
  <2> QED
    BY <2>1, <2>2, HeldKeepsOne
<1>2. CASE TryLock(w, e)
  <2>1. /\ lockOwner' = [lockOwner EXCEPT ![j] = w] /\ Go(w, e, "locked")
        /\ exec[w][e].pc = "lock"
    BY <1>2 DEF TryLock, At
  <2>2. j \in Job
    BY <2>1, InHand
  <2>3. exec'[w][e].pc = "locked" /\ exec'[w][e].job = j /\ Others(w, e)
    BY <2>1, GoGoes DEF Same, ExecPC
  <2>4. \A k \in Job : lockOwner'[k] = IF k = j THEN w ELSE lockOwner[k]
    BY <2>1 DEF IInv, LockOK
  <2> SUFFICES ASSUME NEW v \in Worker, NEW k \in Job, lockOwner'[k] = v
               PROVE  \E f \in Exec : exec'[v][f].job = k /\ exec'[v][f].pc \in HeldPC
    BY DEF LockHeld
  <2>5. CASE k = j
    BY <2>3, <2>4, <2>5 DEF HeldPC
  <2>6. CASE k # j
    <3>1. PICK f \in Exec : exec[v][f].job = k /\ exec[v][f].pc \in HeldPC
      BY <2>4, <2>6 DEF LockHeld
    <3>2. v # w \/ f # e
      BY <2>1, <3>1 DEF HeldPC
    <3> QED
      BY <2>3, <3>1, <3>2 DEF Others
  <2> QED
    BY <2>5, <2>6
<1>3. CASE Begin(w, e) \/ ReportRunning(w, e) \/ CacheRunning(w, e)
  <2>1. UNCHANGED lockOwner /\ \E p \in {"report", "cache", "run"} : Go(w, e, p)
    BY <1>3 DEF Begin, ReportRunning, CacheRunning, ReportPut, ReportCache
  <2> QED
    BY <2>1, GoGoes, HeldKeepsOne DEF Same, ExecPC, StoredPC, HeldPC
<1>4. CASE Finish(w, e)
  <2>1. UNCHANGED lockOwner
    BY <1>4 DEF Finish
  <2>2. /\ exec'[w][e].pc = "unlock" /\ exec'[w][e].job = exec[w][e].job
        /\ Others(w, e) \/ \E f \in Exec \ {e} : Retries(w, e, f)
    BY <1>4, FinishFinishes
  <2>3. CASE Others(w, e)
    BY <2>1, <2>2, <2>3, HeldKeepsOne DEF HeldPC
  <2>4. ASSUME NEW f \in Exec \ {e}, Retries(w, e, f) PROVE LockHeld'
    <3>1. /\ exec[w][f].pc \notin HeldPC
          /\ \A v \in Worker, g \in Exec : v # w \/ g \notin {e, f} => exec'[v][g] = exec[v][g]
      BY <2>4 DEF Retries, HeldPC
    <3>2. exec'[w][e].pc \in HeldPC
      BY <2>2 DEF HeldPC
    <3> QED
      BY <2>1, <2>2, <3>1, <3>2, HeldKeeps
  <2> QED
    BY <2>2, <2>3, <2>4
\* The lock is in the object until here, so that the job is unlocked.
<1>5. CASE UnlockJob(w, e)
  <2>1. exec[w][e].pc = "unlock" /\ objs[exec[w][e].obj].lock
    BY <1>5 DEF UnlockJob, At, OwnInv, StepOK
  <2>2. lockOwner' = [lockOwner EXCEPT ![j] = IF @ = w THEN None ELSE @] /\ Go(w, e, "unlocked")
    BY <1>5, <2>1 DEF UnlockJob
  <2>3. j \in Job /\ None \notin Worker
    BY <2>1, InHand, SchedulerAssumption
  <2>4. \A k \in Job : lockOwner'[k] = IF k = j /\ lockOwner[k] = w THEN None ELSE lockOwner[k]
    BY <2>2, <2>3 DEF IInv, LockOK
  <2>5. Others(w, e)
    BY <2>2, GoGoes DEF ExecPC, StoredPC
  <2> SUFFICES ASSUME NEW v \in Worker, NEW k \in Job, lockOwner'[k] = v
               PROVE  \E f \in Exec : exec'[v][f].job = k /\ exec'[v][f].pc \in HeldPC
    BY DEF LockHeld
  <2>6. lockOwner[k] = v /\ (v # w \/ k # j)
    BY <2>3, <2>4
  <2>7. PICK f \in Exec : exec[v][f].job = k /\ exec[v][f].pc \in HeldPC
    BY <2>6 DEF LockHeld
  <2> QED
    BY <2>5, <2>6, <2>7 DEF Others
<1>6. CASE \/ ForgetLock(w, e) \/ LookUp(w, e) \/ ScheduleNextRun(w, e) \/ ReportEnded(w, e)
           \/ CacheEnded(w, e) \/ Settle(w, e)
  <2>1. exec[w][e].pc \notin HeldPC /\ UNCHANGED lockOwner
    BY <1>6 DEF ForgetLock, LookUp, ScheduleNextRun, ReportEnded, CacheEnded, Settle, ReportPut,
                ReportCache, At, HeldPC
  <2>2. Others(w, e)
    <3>1. CASE LookUp(w, e)
      BY <3>1, LookUpLooksUp
    <3>2. CASE \E p \in {"lookup", "reportEnd", "cacheEnd", "settle", "remove"} : Go(w, e, p)
      BY <3>2, GoGoes DEF ExecPC, StoredPC
    <3> QED
      BY <1>6, <3>1, <3>2 DEF ForgetLock, ScheduleNextRun, ReportEnded, CacheEnded, Settle,
                              ReportPut, ReportCache
  <2> QED
    BY <2>1, <2>2, HeldKeepsOne
<1> QED
  BY <1>1, <1>2, <1>3, <1>4, <1>5, <1>6 DEF ExecStep

LEMMA LaunchKeepsHeld ==
  ASSUME IInv, LockHeld, NEW w \in Worker, NEW j \in Job, Launch(w, j)
  PROVE  LockHeld'
<1>1. UNCHANGED lockOwner /\ due[w][j] \in Obj
  BY DEF Launch, IInv, SchedOK
<1>2. CASE UNCHANGED exec
  BY <1>1, <1>2 DEF LockHeld
<1>3. ASSUME NEW e \in Exec, At(w, e, "idle"), NEW o \in Obj,
             exec' = [exec EXCEPT ![w][e] = Begun("start", j, o)]
      PROVE  LockHeld'
  BY <1>1, <1>3, StartStarts, HeldKeepsOne DEF At, HeldPC
<1> QED
  BY <1>1, <1>2, <1>3 DEF Launch

LEMMA DiesKeepsHeld ==
  ASSUME IInv, LockHeld, NEW w \in Worker, Dies(w)
  PROVE  LockHeld'
<1>1. Dead \notin Worker
  BY SchedulerAssumption
<1>2. \A j \in Job : lockOwner'[j] = IF lockOwner[j] = w THEN Dead ELSE lockOwner[j]
  BY DEF Dies
<1>3. \A v \in Worker, e \in Exec : v # w => exec'[v][e] = exec[v][e]
  BY DiesEnds
<1> QED
  BY <1>1, <1>2, <1>3 DEF LockHeld

LEMMA HeldStep ==
  ASSUME "Trigger" \notin Env
  PROVE  IInv /\ OwnInv /\ LockHeld /\ [Next]_vars => LockHeld'
<1> SUFFICES ASSUME IInv, OwnInv, LockHeld, [Next]_vars PROVE LockHeld'
  OBVIOUS
<1>1. CASE UNCHANGED <<exec, lockOwner>>
  BY <1>1 DEF LockHeld
<1>2. CASE \E w \in Worker, e \in Exec : ExecStep(w, e)
  BY <1>2, ExecStepKeepsHeld
<1>3. CASE \E w \in Worker, j \in Job : Launch(w, j)
  BY <1>3, LaunchKeepsHeld
<1>4. CASE \E w \in Worker : Crash(w)
  BY <1>4, DiesKeepsHeld DEF Crash
<1>5. CASE \E j \in Job : LockExpires(j)
  <2>1. PICK j \in Job : lockOwner' = [lockOwner EXCEPT ![j] = None]
    BY <1>5 DEF LockExpires
  <2>2. UNCHANGED exec /\ None \notin Worker
    BY <1>5, SchedulerAssumption DEF LockExpires
  <2>3. \A k \in Job : lockOwner'[k] \in {lockOwner[k], None}
    BY <2>1 DEF IInv, LockOK
  <2> QED
    BY <2>2, <2>3 DEF LockHeld
<1>6. ASSUME NEW w \in Worker, HandlerStep(w) PROVE UNCHANGED <<exec, lockOwner>>
  BY <1>6 DEF HandlerStep, ReceivePut, ReceiveDelete, ReceiveKill, Receive, HandleSave,
              UpdateContains, HandlePush, UpdateCopies, UpdateWrites, HandleRemove, HandleDrop,
              HandleKill, HandleKillCache, handlerUnchanged
<1>7. CASE \E j \in Job : Create(j) \/ MasterPut(j) \/ MasterDelete(j) \/ MasterKill(j)
  BY <1>1, <1>7 DEF Create, MasterPut, MasterDelete, MasterKill, masterUnchanged
<1>8. CASE \E w \in Worker : LoaderStep(w) \/ CheckDueJobs(w) \/ Boot(w) \/ StopScheduler(w)
  BY <1>1, <1>8 DEF LoaderStep, LoadList, LoadAdd, CheckDueJobs, Boot, StopScheduler, bootUnchanged
<1>9. CASE (\E o \in Obj : Tick(o)) \/ UNCHANGED vars
  BY <1>1, <1>9 DEF Tick, vars
<1> QED
  BY <1>1, <1>2, <1>3, <1>4, <1>5, <1>6, <1>7, <1>8, <1>9 DEF Next, LoopStep, Trigger

\* The lock of a job is not left behind: when TriggerJob is not called, a lock that a
\* worker holds is one of an execution that is before its unlock, and whose ScheduledJob
\* has the lock that it will unlock.
THEOREM LocksAreHeldByExecutions ==
  ASSUME "Trigger" \notin Env PROVE Spec => []LockHasExecution
<1>1. Init => LockHeld
  <2>1. None \notin Worker
    BY SchedulerAssumption
  <2> QED
    BY <2>1 DEF Init, LockHeld
<1>2. IInv /\ OwnInv /\ LockHeld /\ [Next]_vars => LockHeld'
  BY HeldStep
<1>3. OwnInv /\ LockHeld => LockHasExecution
  BY DEF OwnInv, StepOK, LockHeld, HeldPC, LockHasExecution
<1> QED
  BY <1>1, <1>2, <1>3, AlwaysIInv, AlwaysOwn, PTL DEF Spec
=============================================================================
