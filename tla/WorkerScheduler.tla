--------------------------- MODULE WorkerScheduler ---------------------------
(***************************************************************************)
(* The scheduler of each worker together with its job manager and the jobs *)
(* in etcd: the queue of scheduled jobs, the loop that takes due jobs from *)
(* it, the executions with their retries, and the watch events that bring  *)
(* the changes of the jobs back to every worker, those that the worker     *)
(* itself made included.                                                   *)
(*                                                                         *)
(* Sources: pkg/worker/scheduler/scheduler.go and job_queue.go,            *)
(* pkg/worker/jobmgr/jobmgr.go.  The job lock appears as its owner, what   *)
(* it does inside is the subject of JobLock.                               *)
(***************************************************************************)
EXTENDS Naturals, FiniteSets, Sequences

CONSTANTS
  Worker, Job,
  Cron,           \* the jobs with a cron expression
  Exec,           \* goroutines of executeJob per worker (a bound)
  MaxObj,         \* ScheduledJob objects in use (a bound)
  None,
  Dead,           \* the owner of a lock whose worker died
  MaxConcurrent, MaxRetries, Capacity,     \* SchedulerOptions
  MaxOps,         \* operations, triggers, crashes and stops (a bound)
  MaxRuns,        \* executions that the loops start (a bound)
  MaxInbox,       \* undelivered watch events of a worker (a bound)
  Env             \* what happens around the schedulers

(* Put, Delete, Kill: the master writes, deletes and kills jobs; Trigger:   *)
(* TriggerJob is called; Boot: the workers start with jobs in etcd; Crash:  *)
(* a worker process dies and starts again; Stop: Scheduler.Stop; PutFails:  *)
(* a write to etcd fails; LockFails: TryLock returns an error although the  *)
(* lock is free.                                                            *)
EnvKinds == {"Put", "Delete", "Kill", "Trigger", "Boot", "Crash", "Stop", "PutFails",
             "LockFails"}

(* Jobs as the workers see them.  executor is the worker that the job's     *)
(* environment names (EXECUTOR_WORKER_ID and its siblings).                 *)
JobVal == [enabled : BOOLEAN, status : {"pending", "running", "ended"},
           executor : Worker \cup {None}]

ASSUME SchedulerAssumption ==
  /\ Cron \subseteq Job
  /\ None \notin Worker \cup Job \cup Exec \cup Nat /\ None \notin JobVal
  /\ Dead \notin Worker \cup {None}
  /\ MaxConcurrent \in Nat /\ MaxRetries \in Nat /\ Capacity \in Nat
  /\ MaxObj \in Nat /\ MaxOps \in Nat /\ MaxRuns \in Nat /\ MaxInbox \in Nat
  /\ Env \subseteq EnvKinds

Obj == 1..MaxObj

VARIABLES
  store, inbox, lockOwner,            \* etcd: the jobs, the watches, the locks
  fate,                               \* whether a job was created, and deleted
  life,                               \* what of the worker process is started
  cache, mgrRunning, handler,         \* job manager: jobCache, runningJobs, event goroutine
  queue, runningJobs, due, loader,    \* Scheduler: jobQueue, runningJobs, loop, loadJobs
  objs, exec,                         \* ScheduledJob objects, executeJob goroutines
  ops, runs

etcdVars == <<store, inbox>>
managerVars == <<cache, mgrRunning>>
schedVars == <<queue, runningJobs, due, loader>>
bounds == <<ops, runs>>
vars == <<etcdVars, fate, lockOwner, life, managerVars, handler, schedVars, objs, exec, bounds>>

-----------------------------------------------------------------------------
Fresh == [enabled |-> TRUE, status |-> "pending", executor |-> None]

Entry == [val : JobVal, next : {"never", "later", "due"}, isRunning : BOOLEAN,
          retry : 0..MaxRetries, lock : BOOLEAN]

Blank == [val |-> Fresh, next |-> "never", isRunning |-> FALSE, retry |-> 0, lock |-> FALSE]

Event == [type : {"put"}, job : Job, val : JobVal]
         \cup [type : {"delete", "kill"}, job : Job, val : {None}]

\* An execution between runningJobs.Store and runningJobs.Delete.
StoredPC == {"report", "cache", "run", "unlock", "unlocked", "lookup", "next", "reportEnd",
             "cacheEnd", "settle", "remove"}

\* The end of executeJob, after the execution.
TailPC == {"unlock", "unlocked", "lookup", "next", "reportEnd", "cacheEnd", "settle", "remove"}

ExecPC == StoredPC \cup {"idle", "start", "lock", "locked", "sleep"}

Begun(pc, j, o) == [pc |-> pc, job |-> j, obj |-> o, ok |-> FALSE, exists |-> FALSE]

Idle == Begun("idle", None, None)

HandlerPC == {"idle", "save", "update", "push", "copy", "write", "remove", "drop",
              "kill", "killCache", "killDrop"}

AtRest == [pc |-> "idle", job |-> None, val |-> None, flag |-> FALSE]

NothingToLoad == [pc |-> "idle", todo |-> [j \in Job |-> None]]

\* The types; a job is retried no more often than its options allow.
TypeOK ==
  /\ store \in [Job -> JobVal \cup {None}]
  /\ inbox \in [Worker -> Seq(Event)]
  /\ fate \in [Job -> {"new", "created", "deleted"}]
  /\ lockOwner \in [Job -> Worker \cup {None, Dead}]
  /\ life \in [Worker -> {"down", "listed", "watching", "up", "stopped"}]
  /\ cache \in [Worker -> [Job -> JobVal \cup {None}]]
  /\ mgrRunning \in [Worker -> SUBSET Job]
  /\ handler \in [Worker -> [pc : HandlerPC, job : Job \cup {None},
                             val : JobVal \cup {None}, flag : BOOLEAN]]
  /\ queue \in [Worker -> [Job -> Obj \cup {None}]]
  /\ runningJobs \in [Worker -> [Job -> Obj \cup {None}]]
  /\ due \in [Worker -> [Job -> Obj \cup {None}]]
  /\ loader \in [Worker -> [pc : {"idle", "list", "add"}, todo : [Job -> JobVal \cup {None}]]]
  /\ objs \in [Obj -> Entry]
  /\ exec \in [Worker -> [Exec -> [pc : ExecPC, job : Job \cup {None}, obj : Obj \cup {None},
                                   ok : BOOLEAN, exists : BOOLEAN]]]
  /\ ops \in 0..MaxOps
  /\ runs \in 0..MaxRuns

\* WorkerJobManager.IsJobAssignedToWorker
IsJobAssigned(w, j, v) ==
  IF v.executor # None THEN v.executor = w
                       ELSE j \in mgrRunning[w] \/ v.status # "running"

NextRunTime(j) == IF j \in Cron THEN "later" ELSE "never"

Watching(w) == life[w] \in {"watching", "up", "stopped"}

Broadcast(ev) ==
  inbox' = [w \in Worker |-> IF Watching(w) THEN Append(inbox[w], ev) ELSE inbox[w]]

InboxRoom == \A w \in Worker : Len(inbox[w]) < MaxInbox

Put(j, v) ==
  /\ store' = [store EXCEPT ![j] = v]
  /\ Broadcast([type |-> "put", job |-> j, val |-> v])

\* WorkerJobManager.GetJob: the cache, then etcd, whose answer is cached.
Known(w, j) == IF cache[w][j] # None THEN cache[w][j] ELSE store[j]

GetJob(w, j) == cache' = [cache EXCEPT ![w][j] = Known(w, j)]

\* Scheduler.GetJob
Scheduled(w, j) == IF runningJobs[w][j] # None THEN runningJobs[w][j] ELSE queue[w][j]

Used ==
  (UNION {{queue[w][j], runningJobs[w][j], due[w][j]} : w \in Worker, j \in Job})
  \cup {exec[w][e].obj : w \in Worker, e \in Exec}

Room == Obj \ Used # {}

\* A newly allocated object.
New == CHOOSE o \in Obj : o \notin Used

\* The heap after a step; objects that nothing refers to are collected.
Heap(h) ==
  LET used == Used' IN objs' = [o \in Obj |-> IF o \in used THEN h[o] ELSE Blank]

Init ==
  /\ fate \in [Job -> IF "Boot" \in Env THEN {"new", "created"} ELSE {"new"}]
  /\ store = [j \in Job |-> IF fate[j] = "created" THEN Fresh ELSE None]
  /\ life = [w \in Worker |-> IF "Boot" \in Env THEN "down" ELSE "up"]
  /\ inbox = [w \in Worker |-> <<>>]
  /\ lockOwner = [j \in Job |-> None]
  /\ cache = [w \in Worker |-> [j \in Job |-> None]]
  /\ mgrRunning = [w \in Worker |-> {}]
  /\ handler = [w \in Worker |-> AtRest]
  /\ queue = [w \in Worker |-> [j \in Job |-> None]]
  /\ runningJobs = [w \in Worker |-> [j \in Job |-> None]]
  /\ due = [w \in Worker |-> [j \in Job |-> None]]
  /\ loader = [w \in Worker |-> NothingToLoad]
  /\ objs = [o \in Obj |-> Blank]
  /\ exec = [w \in Worker |-> [e \in Exec |-> Idle]]
  /\ ops = 0 /\ runs = 0

-----------------------------------------------------------------------------
(* The master: it creates a job once (job IDs are UUIDs), writes it again   *)
(* (enabled, disabled, reset, or marked running), deletes it, kills it.     *)
Operation == ops < MaxOps /\ ops' = ops + 1 /\ UNCHANGED runs

masterUnchanged == <<lockOwner, life, managerVars, handler, schedVars, objs, exec>>

Create(j) ==
  /\ fate[j] = "new"
  /\ InboxRoom
  /\ fate' = [fate EXCEPT ![j] = "created"]
  /\ Put(j, Fresh)
  /\ UNCHANGED <<masterUnchanged, bounds>>

MasterPut(j) ==
  /\ "Put" \in Env
  /\ store[j] # None
  /\ InboxRoom /\ Operation
  /\ \E v \in {[store[j] EXCEPT !.enabled = ~@], [store[j] EXCEPT !.status = "running"], Fresh} :
       Put(j, v)
  /\ UNCHANGED <<masterUnchanged, fate>>

MasterDelete(j) ==
  /\ "Delete" \in Env
  /\ store[j] # None
  /\ InboxRoom /\ Operation
  /\ fate' = [fate EXCEPT ![j] = "deleted"]
  /\ store' = [store EXCEPT ![j] = None]
  /\ Broadcast([type |-> "delete", job |-> j, val |-> None])
  /\ UNCHANGED masterUnchanged

MasterKill(j) ==
  /\ "Kill" \in Env
  /\ InboxRoom /\ Operation
  /\ Broadcast([type |-> "kill", job |-> j, val |-> None])
  /\ UNCHANGED <<masterUnchanged, store, fate>>

-----------------------------------------------------------------------------
(* executeJob.  An execution starts from the loop, from a retry or from     *)
(* TriggerJob.                                                              *)
At(w, e, p) == exec[w][e].pc = p

Go(w, e, p) == exec' = [exec EXCEPT ![w][e].pc = p]

End(w, e) == exec' = [exec EXCEPT ![w][e] = Idle]

execUnchanged == <<life, handler, bounds, fate>>

CheckAssigned(w, e) ==
  LET x == exec[w][e] IN
  /\ At(w, e, "start")
  /\ IF IsJobAssigned(w, x.job, objs[x.obj].val) THEN Go(w, e, "lock") ELSE End(w, e)
  /\ UNCHANGED <<execUnchanged, etcdVars, lockOwner, managerVars, schedVars>>
  /\ Heap(objs)

\* A mutant: the result of the transaction is ignored.
Mutant_ResultIgnored(w, j) == TRUE

LockIsFree(w, j) == lockOwner[j] \in {None, w}

\* TryLock: at once when this worker holds the lock already.
TryLock(w, e) ==
  LET j == exec[w][e].job IN
  /\ At(w, e, "lock")
  /\ LockIsFree(w, j)
  /\ lockOwner' = [lockOwner EXCEPT ![j] = w]
  /\ Go(w, e, "locked")
  /\ UNCHANGED <<execUnchanged, etcdVars, managerVars, schedVars, objs>>

TryLockFails(w, e) ==
  /\ At(w, e, "lock")
  /\ ~LockIsFree(w, exec[w][e].job) \/ "LockFails" \in Env
  /\ End(w, e)
  /\ UNCHANGED <<execUnchanged, etcdVars, lockOwner, managerVars, schedVars>>
  /\ Heap(objs)

Begin(w, e) ==
  LET x == exec[w][e] IN
  /\ At(w, e, "locked")
  /\ runningJobs' = [runningJobs EXCEPT ![w][x.job] = x.obj]
  /\ Go(w, e, "report")
  /\ UNCHANGED <<execUnchanged, etcdVars, lockOwner, managerVars, queue, due, loader>>
  /\ Heap([objs EXCEPT ![x.obj].lock = TRUE, ![x.obj].isRunning = TRUE])

\* WorkerJobManager.ReportJobStatus writes the job to etcd, then to the cache.
Reported(w, v, status) ==
  [v EXCEPT !.status = status, !.executor = IF status = "running" THEN w ELSE @]

ReportPut(w, e, status, cached, failed) ==
  LET x == exec[w][e]
      v == Reported(w, objs[x.obj].val, status)
  IN
  /\ \/ InboxRoom /\ Put(x.job, v) /\ Go(w, e, cached)
     \/ "PutFails" \in Env /\ UNCHANGED etcdVars /\ Go(w, e, failed)
  /\ UNCHANGED <<execUnchanged, lockOwner, managerVars, schedVars>>
  /\ Heap([objs EXCEPT ![x.obj].val = v])

\* A mutant: only running jobs are cached.
Mutant_CacheOnlyRunning(w, j, v) ==
  /\ cache' = [cache EXCEPT ![w][j] = IF v.status = "running" THEN v ELSE None]
  /\ mgrRunning' = [mgrRunning EXCEPT ![w] = IF v.status = "running" THEN @ \cup {j} ELSE @ \ {j}]

CacheStatus(w, j, v) ==
  /\ cache' = [cache EXCEPT ![w][j] = v]
  /\ mgrRunning' = [mgrRunning EXCEPT ![w] = IF v.status = "running" THEN @ \cup {j} ELSE @ \ {j}]

ReportCache(w, e, next) ==
  LET x == exec[w][e] IN
  /\ CacheStatus(w, x.job, objs[x.obj].val)
  /\ Go(w, e, next)
  /\ UNCHANGED <<execUnchanged, etcdVars, lockOwner, schedVars, objs>>

ReportRunning(w, e) == At(w, e, "report") /\ ReportPut(w, e, "running", "cache", "run")

CacheRunning(w, e) == At(w, e, "cache") /\ ReportCache(w, e, "run")

\* A mutant: one retry too many.
Mutant_ExtraRetry(o) == o.retry <= MaxRetries

CanRetry(o) == o.retry < MaxRetries

\* executorFunc returns; a failed execution may be retried from a goroutine
\* that uses the same ScheduledJob.
Finish(w, e) ==
  LET x == exec[w][e]
      o == objs[x.obj]
  IN
  /\ At(w, e, "run")
  /\ UNCHANGED <<execUnchanged, etcdVars, lockOwner, managerVars, schedVars>>
  /\ \/ /\ exec' = [exec EXCEPT ![w][e].pc = "unlock", ![w][e].ok = TRUE]
        /\ Heap([objs EXCEPT ![x.obj].retry = 0])
     \/ /\ CanRetry(o)
        /\ \E f \in Exec :
             /\ At(w, f, "idle")
             /\ exec' = [exec EXCEPT ![w][e].pc = "unlock",
                                     ![w][f] = Begun("sleep", x.job, x.obj)]
        /\ Heap([objs EXCEPT ![x.obj].retry = @ + 1])
     \/ /\ ~CanRetry(o)
        /\ exec' = [exec EXCEPT ![w][e].pc = "unlock"]
        /\ Heap([objs EXCEPT ![x.obj].retry = 0])

\* The goroutine sleeps RetryDelay, far longer than the rest of executeJob.
RetryWakes(w, e) ==
  /\ At(w, e, "sleep")
  /\ \A f \in Exec : exec[w][f].obj = exec[w][e].obj => exec[w][f].pc \notin TailPC
  /\ IF life[w] = "up" THEN Go(w, e, "start") ELSE End(w, e)
  /\ UNCHANGED <<execUnchanged, etcdVars, lockOwner, managerVars, schedVars>>
  /\ Heap(objs)

\* A mutant: a failed execution keeps its lock.
Mutant_UnlockOnSuccess(w, e) ==
  LET x == exec[w][e] IN
  /\ At(w, e, "unlock")
  /\ IF objs[x.obj].lock /\ x.ok
       THEN /\ lockOwner' = [lockOwner EXCEPT ![x.job] = IF @ = w THEN None ELSE @]
            /\ Go(w, e, "unlocked")
       ELSE UNCHANGED lockOwner /\ Go(w, e, "lookup")
  /\ UNCHANGED <<execUnchanged, etcdVars, managerVars, schedVars, objs>>

UnlockJob(w, e) ==
  LET x == exec[w][e] IN
  /\ At(w, e, "unlock")
  /\ IF objs[x.obj].lock
       THEN /\ lockOwner' = [lockOwner EXCEPT ![x.job] = IF @ = w THEN None ELSE @]
            /\ Go(w, e, "unlocked")
       ELSE UNCHANGED lockOwner /\ Go(w, e, "lookup")
  /\ UNCHANGED <<execUnchanged, etcdVars, managerVars, schedVars, objs>>

ForgetLock(w, e) ==
  /\ At(w, e, "unlocked")
  /\ Go(w, e, "lookup")
  /\ UNCHANGED <<execUnchanged, etcdVars, lockOwner, managerVars, schedVars>>
  /\ Heap([objs EXCEPT ![exec[w][e].obj].lock = FALSE])

LookUp(w, e) ==
  LET j == exec[w][e].job IN
  /\ At(w, e, "lookup")
  /\ exec' = [exec EXCEPT ![w][e].pc = IF Known(w, j) # None THEN "next" ELSE "settle",
                          ![w][e].exists = (Known(w, j) # None)]
  /\ GetJob(w, j)
  /\ UNCHANGED <<execUnchanged, etcdVars, lockOwner, mgrRunning, schedVars, objs>>

\* scheduleNextRun, when the job is not to be retried; the executed object
\* replaces the entry of the queue.
ScheduleNextRun(w, e) ==
  LET x == exec[w][e]
      o == objs[x.obj]
      skip == (~x.ok /\ o.retry > 0) \/ (o.retry = 0 /\ x.job \notin Cron)
      again == [objs EXCEPT ![x.obj].next = "later"]
  IN
  /\ At(w, e, "next")
  /\ Go(w, e, "reportEnd")
  /\ queue' = IF ~skip /\ o.retry = 0 /\ queue[w][x.job] # None
                THEN [queue EXCEPT ![w][x.job] = x.obj] ELSE queue
  /\ UNCHANGED <<execUnchanged, etcdVars, lockOwner, managerVars, runningJobs, due, loader>>
  /\ Heap(IF skip THEN objs ELSE again)

ReportEnded(w, e) == At(w, e, "reportEnd") /\ ReportPut(w, e, "ended", "cacheEnd", "settle")

CacheEnded(w, e) == At(w, e, "cacheEnd") /\ ReportCache(w, e, "settle")

\* A mutant: a job that waits for its retry is put back into the queue as well.
Mutant_RequeueAlways(x, o) == x.exists

Requeues(x, o) == x.exists /\ o.retry = 0

\* The entry of the queue, if there is one, becomes a copy that is not running.
Settle(w, e) ==
  LET x == exec[w][e]
      o == objs[x.obj]
  IN
  /\ At(w, e, "settle")
  /\ Go(w, e, "remove")
  /\ UNCHANGED <<execUnchanged, etcdVars, lockOwner, managerVars, runningJobs, due, loader>>
  /\ IF Requeues(x, o) /\ queue[w][x.job] # None
       THEN /\ Room
            /\ queue' = [queue EXCEPT ![w][x.job] = New]
            /\ Heap([objs EXCEPT ![x.obj].isRunning = FALSE,
                                 ![New] = [o EXCEPT !.isRunning = FALSE, !.lock = FALSE]])
       ELSE /\ UNCHANGED queue
            /\ Heap([objs EXCEPT ![x.obj].isRunning = FALSE])

Drop(w, j) == runningJobs' = [runningJobs EXCEPT ![w][j] = None]

\* A mutant: a failed execution keeps its slot.
Mutant_RemoveOnSuccess(w, e) ==
  /\ At(w, e, "remove")
  /\ IF exec[w][e].ok THEN Drop(w, exec[w][e].job) ELSE UNCHANGED runningJobs
  /\ End(w, e)
  /\ UNCHANGED <<execUnchanged, etcdVars, lockOwner, managerVars, queue, due, loader>>
  /\ Heap(objs)

RemoveRunning(w, e) ==
  /\ At(w, e, "remove")
  /\ Drop(w, exec[w][e].job)
  /\ End(w, e)
  /\ UNCHANGED <<execUnchanged, etcdVars, lockOwner, managerVars, queue, due, loader>>
  /\ Heap(objs)

-----------------------------------------------------------------------------
(* The loop, the clock and TriggerJob.                                      *)
\* The next run of a queued object comes; nothing else compares the time.
Tick(o) ==
  /\ objs[o].next = "later"
  /\ \E w \in Worker, j \in Job : queue[w][j] = o
  /\ objs' = [objs EXCEPT ![o].next = "due"]
  /\ UNCHANGED <<etcdVars, lockOwner, life, managerVars, handler, schedVars, exec, bounds, fate>>

DueJobs(w) ==
  {j \in Job : /\ queue[w][j] # None
               /\ ~objs[queue[w][j]].isRunning /\ objs[queue[w][j]].next = "due"}

RunningCount(w) == Cardinality({j \in Job : runningJobs[w][j] # None})

\* A mutant: one slot is never used.
Mutant_SlotUnused(w, n) ==
  LET slots == MaxConcurrent - RunningCount(w) IN
  IF MaxConcurrent > RunningCount(w) + 1 THEN IF n < slots THEN n ELSE slots ELSE 0

\* How many of n due jobs checkDueJobs starts.
Started(w, n) ==
  LET slots == MaxConcurrent - RunningCount(w) IN
  IF MaxConcurrent > RunningCount(w) THEN IF n < slots THEN n ELSE slots ELSE 0

CheckDueJobs(w) ==
  /\ life[w] = "up"
  /\ \A j \in Job : due[w][j] = None
  /\ \E S \in SUBSET DueJobs(w) :
       /\ S # {} /\ Cardinality(S) = Started(w, Cardinality(DueJobs(w)))
       /\ due' = [due EXCEPT ![w] = [j \in Job |-> IF j \in S THEN queue[w][j] ELSE None]]
  /\ UNCHANGED <<etcdVars, lockOwner, life, managerVars, handler, queue, runningJobs, loader,
                 objs, exec, bounds, fate>>

\* The entry is removed by its ID; what is executed is the object of the snapshot.
Launch(w, j) ==
  /\ due[w][j] # None
  /\ runs < MaxRuns /\ runs' = runs + 1
  /\ due' = [due EXCEPT ![w][j] = None]
  /\ queue' = [queue EXCEPT ![w][j] = None]
  /\ IF queue[w][j] # None
       THEN \E e \in Exec :
              /\ At(w, e, "idle")
              /\ exec' = [exec EXCEPT ![w][e] = Begun("start", j, due[w][j])]
       ELSE UNCHANGED exec
  /\ UNCHANGED <<etcdVars, lockOwner, life, managerVars, handler, runningJobs, loader, ops, fate>>
  /\ Heap(objs)

\* The process is gone, with everything but what etcd keeps.
Dies(w) ==
  /\ life' = [life EXCEPT ![w] = "down"]
  /\ inbox' = [inbox EXCEPT ![w] = <<>>]
  /\ cache' = [cache EXCEPT ![w] = [j \in Job |-> None]]
  /\ mgrRunning' = [mgrRunning EXCEPT ![w] = {}]
  /\ handler' = [handler EXCEPT ![w] = AtRest]
  /\ queue' = [queue EXCEPT ![w] = [j \in Job |-> None]]
  /\ runningJobs' = [runningJobs EXCEPT ![w] = [j \in Job |-> None]]
  /\ due' = [due EXCEPT ![w] = [j \in Job |-> None]]
  /\ loader' = [loader EXCEPT ![w] = NothingToLoad]
  /\ exec' = [exec EXCEPT ![w] = [e \in Exec |-> Idle]]
  /\ lockOwner' = [j \in Job |-> IF lockOwner[j] = w THEN Dead ELSE lockOwner[j]]
  /\ UNCHANGED <<store, fate>>
  /\ Heap(objs)

\* TriggerJob: for a job that only the job manager knows it dereferences a
\* nil ScheduledJob.
Trigger(w, j) ==
  LET v == Known(w, j)  o == Scheduled(w, j) IN
  /\ "Trigger" \in Env
  /\ life[w] = "up"
  /\ Operation
  /\ IF v # None /\ ~IsJobAssigned(w, j, v)
       THEN /\ GetJob(w, j)
            /\ UNCHANGED <<exec, etcdVars, lockOwner, life, mgrRunning, handler, schedVars,
                           objs, fate>>
     ELSE IF o # None
       THEN /\ GetJob(w, j)
            /\ \E e \in Exec :
                 /\ At(w, e, "idle")
                 /\ exec' = [exec EXCEPT ![w][e] = Begun("start", j, o)]
            /\ UNCHANGED <<etcdVars, lockOwner, life, mgrRunning, handler, schedVars, objs, fate>>
     ELSE v # None /\ Dies(w)

Crash(w) ==
  /\ "Crash" \in Env
  /\ life[w] # "down"
  /\ Operation
  /\ Dies(w)

\* The lease of a dead worker's lock expires.
LockExpires(j) ==
  /\ lockOwner[j] = Dead
  /\ lockOwner' = [lockOwner EXCEPT ![j] = None]
  /\ UNCHANGED <<etcdVars, life, managerVars, handler, schedVars, objs, exec, bounds, fate>>

StopScheduler(w) ==
  /\ "Stop" \in Env
  /\ life[w] = "up"
  /\ Operation
  /\ life' = [life EXCEPT ![w] = "stopped"]
  /\ UNCHANGED <<etcdVars, lockOwner, managerVars, handler, schedVars, objs, exec, fate>>

-----------------------------------------------------------------------------
(* The event goroutine: WatchJobs, then the scheduler's handler if it is    *)
(* registered.                                                              *)
Turn(w, p) == handler' = [handler EXCEPT ![w].pc = p]

Rest(w) == handler' = [handler EXCEPT ![w] = AtRest]

Handles(w, p) == handler[w].pc = p

\* The next step of the handler for a job, or none before Scheduler.Start.
Notify(w, p, j, v) ==
  handler' = [handler EXCEPT ![w] =
                IF life[w] = "watching" THEN AtRest
                ELSE [pc |-> p, job |-> j, val |-> v, flag |-> FALSE]]

handlerUnchanged == <<store, fate, lockOwner, life, exec, bounds>>

Receive(w, type) ==
  /\ Handles(w, "idle")
  /\ inbox[w] # <<>> /\ Head(inbox[w]).type = type
  /\ inbox' = [inbox EXCEPT ![w] = Tail(@)]
  /\ UNCHANGED <<handlerUnchanged, schedVars, objs>>

ReceivePut(w) ==
  LET ev == Head(inbox[w]) IN
  /\ Receive(w, "put")
  /\ IF IsJobAssigned(w, ev.job, ev.val)
       THEN CacheStatus(w, ev.job, ev.val) /\ Notify(w, "save", ev.job, ev.val)
       ELSE UNCHANGED <<managerVars, handler>>

\* A deletion is passed on only when the job is cached.
ReceiveDelete(w) ==
  LET ev == Head(inbox[w]) IN
  /\ Receive(w, "delete")
  /\ IF cache[w][ev.job] # None
       THEN /\ cache' = [cache EXCEPT ![w][ev.job] = None]
            /\ mgrRunning' = [mgrRunning EXCEPT ![w] = @ \ {ev.job}]
            /\ Notify(w, "remove", ev.job, None)
       ELSE UNCHANGED <<managerVars, handler>>

ReceiveKill(w) ==
  LET ev == Head(inbox[w])  v == Known(w, ev.job) IN
  /\ Receive(w, "kill")
  /\ GetJob(w, ev.job)
  /\ UNCHANGED mgrRunning
  /\ IF v # None /\ IsJobAssigned(w, ev.job, v)
       THEN Notify(w, "kill", ev.job, None)
       ELSE UNCHANGED handler

\* handleJobSaveEvent: a job that is scheduled is updated, enabled or not.
HandleSave(w) ==
  LET h == handler[w] IN
  /\ Handles(w, "save")
  /\ IF ~IsJobAssigned(w, h.job, h.val) THEN Rest(w)
     ELSE IF Scheduled(w, h.job) # None THEN Turn(w, "update")
     ELSE IF h.val.enabled THEN Turn(w, "push")
     ELSE Rest(w)
  /\ UNCHANGED <<handlerUnchanged, inbox, managerVars, schedVars, objs>>

\* UpdateJob: a running job that is not queued is added to the queue.
UpdateContains(w) ==
  /\ Handles(w, "update")
  /\ Turn(w, IF queue[w][handler[w].job] # None THEN "copy" ELSE "push")
  /\ UNCHANGED <<handlerUnchanged, inbox, managerVars, schedVars, objs>>

NewEntry(j, v, running) ==
  [Blank EXCEPT !.val = v, !.next = NextRunTime(j), !.isRunning = running]

QueueSize(w) == Cardinality({j \in Job : queue[w][j] # None})

\* AddJob: JobQueue.Push refuses a job that is queued, and any job when full.
Push(w, j, v) ==
  IF queue[w][j] # None \/ (Capacity > 0 /\ QueueSize(w) >= Capacity)
    THEN UNCHANGED <<queue, objs>>
    ELSE /\ Room
         /\ queue' = [queue EXCEPT ![w][j] = New]
         /\ Heap([objs EXCEPT ![New] = NewEntry(j, v, FALSE)])

HandlePush(w) ==
  /\ Handles(w, "push")
  /\ Rest(w)
  /\ UNCHANGED <<handlerUnchanged, inbox, managerVars, runningJobs, due, loader>>
  /\ Push(w, handler[w].job, handler[w].val)

\* The rest of UpdateJob: what GetJob returns, and later JobQueue.Update.
UpdateCopies(w) ==
  LET o == Scheduled(w, handler[w].job) IN
  /\ Handles(w, "copy")
  /\ IF o = None
       THEN Rest(w)
       ELSE handler' = [handler EXCEPT ![w].pc = "write", ![w].flag = objs[o].isRunning]
  /\ UNCHANGED <<handlerUnchanged, inbox, managerVars, schedVars, objs>>

UpdateWrites(w) ==
  LET h == handler[w] IN
  /\ Handles(w, "write")
  /\ Rest(w)
  /\ UNCHANGED <<handlerUnchanged, inbox, managerVars, runningJobs, due, loader>>
  /\ IF queue[w][h.job] # None
       THEN /\ Room
            /\ queue' = [queue EXCEPT ![w][h.job] = New]
            /\ Heap([objs EXCEPT ![New] = NewEntry(h.job, h.val, h.flag)])
       ELSE UNCHANGED <<queue, objs>>

\* handleJobDeleteEvent, RemoveJob
HandleRemove(w) ==
  /\ Handles(w, "remove")
  /\ Turn(w, "drop")
  /\ queue' = [queue EXCEPT ![w][handler[w].job] = None]
  /\ UNCHANGED <<handlerUnchanged, inbox, managerVars, runningJobs, due, loader>>
  /\ Heap(objs)

HandleDrop(w, p) ==
  /\ Handles(w, p)
  /\ Rest(w)
  /\ Drop(w, handler[w].job)
  /\ UNCHANGED <<handlerUnchanged, inbox, managerVars, queue, due, loader>>
  /\ Heap(objs)

\* handleJobKillEvent: the job is reported as cancelled and leaves runningJobs,
\* the execution goes on.
HandleKill(w) ==
  LET j == handler[w].job
      o == runningJobs[w][j]
      v == Reported(w, objs[o].val, "ended")
  IN
  /\ Handles(w, "kill")
  /\ UNCHANGED <<fate, lockOwner, life, exec, bounds, managerVars, schedVars>>
  /\ IF o = None
       THEN Rest(w) /\ UNCHANGED <<etcdVars, objs>>
       ELSE /\ Heap([objs EXCEPT ![o].val = v])
            /\ \/ /\ Put(j, v)
                  /\ handler' = [handler EXCEPT ![w].pc = "killCache", ![w].val = v]
               \/ "PutFails" \in Env /\ UNCHANGED etcdVars /\ Turn(w, "killDrop")

HandleKillCache(w) ==
  /\ Handles(w, "killCache")
  /\ CacheStatus(w, handler[w].job, handler[w].val)
  /\ handler' = [handler EXCEPT ![w].pc = "killDrop", ![w].val = None]
  /\ UNCHANGED <<handlerUnchanged, inbox, schedVars, objs>>

-----------------------------------------------------------------------------
(* The start of a worker: WorkerJobManager.Start lists the jobs and then    *)
(* watches, Scheduler.Start registers the handler and starts loadJobs.      *)
Assigned(w, j) == store[j] # None /\ IsJobAssigned(w, j, store[j])

ListCache(w) ==
  cache' = [cache EXCEPT ![w] = [j \in Job |-> IF Assigned(w, j) THEN store[j] ELSE @[j]]]

bootUnchanged == <<etcdVars, fate, lockOwner, mgrRunning, handler, queue, runningJobs, due, objs,
                   exec, bounds>>

Boot(w) ==
  \/ /\ life[w] = "down"
     /\ life' = [life EXCEPT ![w] = "listed"]
     /\ ListCache(w)
     /\ UNCHANGED <<bootUnchanged, loader>>
  \/ /\ life[w] = "listed"
     /\ life' = [life EXCEPT ![w] = "watching"]
     /\ UNCHANGED <<bootUnchanged, cache, loader>>
  \/ /\ life[w] = "watching"
     /\ life' = [life EXCEPT ![w] = "up"]
     /\ loader' = [loader EXCEPT ![w].pc = "list"]
     /\ UNCHANGED <<bootUnchanged, cache>>

LoadList(w) ==
  /\ loader[w].pc = "list"
  /\ ListCache(w)
  /\ loader' = [loader EXCEPT ![w] =
                  [pc |-> "add", todo |-> [j \in Job |-> IF Assigned(w, j) /\ store[j].enabled
                                                           THEN store[j] ELSE None]]]
  /\ UNCHANGED <<bootUnchanged, life>>

LoadAdd(w, j) ==
  /\ loader[w].pc = "add" /\ loader[w].todo[j] # None
  /\ loader' = [loader EXCEPT ![w].todo[j] = None]
  /\ UNCHANGED <<etcdVars, fate, lockOwner, life, managerVars, handler, runningJobs, due, exec, bounds>>
  /\ Push(w, j, loader[w].todo[j])

-----------------------------------------------------------------------------
ExecStep(w, e) ==
  \/ CheckAssigned(w, e) \/ TryLock(w, e) \/ TryLockFails(w, e) \/ Begin(w, e)
  \/ ReportRunning(w, e) \/ CacheRunning(w, e) \/ Finish(w, e) \/ RetryWakes(w, e)
  \/ UnlockJob(w, e) \/ ForgetLock(w, e) \/ LookUp(w, e) \/ ScheduleNextRun(w, e)
  \/ ReportEnded(w, e) \/ CacheEnded(w, e) \/ Settle(w, e) \/ RemoveRunning(w, e)

HandlerStep(w) ==
  \/ ReceivePut(w) \/ ReceiveDelete(w) \/ ReceiveKill(w)
  \/ HandleSave(w) \/ UpdateContains(w) \/ HandlePush(w) \/ UpdateCopies(w) \/ UpdateWrites(w)
  \/ HandleRemove(w) \/ HandleDrop(w, "drop")
  \/ HandleKill(w) \/ HandleKillCache(w) \/ HandleDrop(w, "killDrop")

LoaderStep(w) == LoadList(w) \/ \E j \in Job : LoadAdd(w, j)

LoopStep(w) == CheckDueJobs(w) \/ \E j \in Job : Launch(w, j)

Next ==
  \/ \E j \in Job : Create(j) \/ MasterPut(j) \/ MasterDelete(j) \/ MasterKill(j) \/ LockExpires(j)
  \/ \E w \in Worker : \/ HandlerStep(w) \/ LoaderStep(w) \/ LoopStep(w) \/ Boot(w)
                       \/ Crash(w) \/ StopScheduler(w)
                       \/ \E e \in Exec : ExecStep(w, e)
                       \/ \E j \in Job : Trigger(w, j)
  \/ \E o \in Obj : Tick(o)

Spec == Init /\ [][Next]_vars

(* Goroutines that can run do, executions end, events are delivered, the    *)
(* clock goes on.                                                           *)
Fairness ==
  /\ \A w \in Worker : /\ WF_vars(HandlerStep(w)) /\ WF_vars(LoaderStep(w))
                       /\ WF_vars(LoopStep(w)) /\ WF_vars(Boot(w))
                       /\ \A e \in Exec : WF_vars(ExecStep(w, e))
  /\ \A j \in Job : WF_vars(Create(j)) /\ WF_vars(LockExpires(j))
  /\ \A o \in Obj : WF_vars(Tick(o))

FairSpec == Spec /\ Fairness

-----------------------------------------------------------------------------
(* The properties.                                                          *)
\* A slot of MaxConcurrent is taken only by an execution that is going on: an
\* entry of runningJobs belongs to an executeJob that will delete it.
RunningHasExecution ==
  \A w \in Worker, j \in Job : runningJobs[w][j] # None =>
    \E e \in Exec : /\ exec[w][e].pc \in StoredPC
                    /\ exec[w][e].job = j /\ exec[w][e].obj = runningJobs[w][j]

\* A job's lock is held only for an execution that will unlock it; a worker
\* that died leaves it until its lease expires.
LockHasExecution ==
  \A w \in Worker, j \in Job : lockOwner[j] = w =>
    \E e \in Exec : /\ exec[w][e].job = j
                    /\ \/ exec[w][e].pc = "locked"
                       \/ /\ exec[w][e].pc \in {"report", "cache", "run", "unlock"}
                          /\ objs[exec[w][e].obj].lock

\* A queued job is one whose deletion the worker will still notice: it is in
\* the cache of the job manager, or the event goroutine is removing it.
QueuedJobIsKnown ==
  \A w \in Worker, j \in Job : queue[w][j] # None =>
    \/ cache[w][j] # None
    \/ handler[w].pc = "remove" /\ handler[w].job = j

\* A job is not executed by two workers at the same time.
Holders(j) == {w \in Worker : \E e \in Exec : /\ exec[w][e].job = j
                                             /\ exec[w][e].pc \in {"locked", "report", "cache", "run"}}

OneWorkerAtATime == \A j \in Job : Cardinality(Holders(j)) <= 1

\* A run that the loop will start has all its retries ahead of it: what the
\* retries of an earlier run counted does not stay in the queue.
QueuedHasAllRetries ==
  \A w \in Worker, j \in Job : queue[w][j] # None => objs[queue[w][j]].retry = 0

\* The lock of a job is released again: what takes it also ends, or its lease does.
LockIsFreedAgain == \A j \in Job : lockOwner[j] # None ~> lockOwner[j] = None

\* A job with a cron expression is executed, unless it is deleted before.
Executed(j) == \E w \in Worker, e \in Exec : exec[w][e].job = j /\ exec[w][e].pc = "run"

CronIsExecuted == \A j \in Cron : <>(Executed(j) \/ fate[j] = "deleted")

=============================================================================
