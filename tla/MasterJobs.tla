------------------------------ MODULE MasterJobs ------------------------------
(***************************************************************************)
(* The jobs as the master keeps them: every job is stored in etcd and in   *)
(* MongoDB, one write after the other, and read, changed and written back  *)
(* without a transaction by the requests of the API, by the master's own   *)
(* scheduler and by the goroutines that handle the events of a job, while  *)
(* the workers write the status of the jobs they execute to etcd only.     *)
(*                                                                         *)
(* Sources: pkg/master/jobmgr (jobmgr.go, operations.go, scheduler.go,     *)
(* jobevent.go), pkg/common/repo/job_repo.go, pkg/common/models/job.go,    *)
(* pkg/master/api/job_handler.go.                                          *)
(***************************************************************************)
EXTENDS Naturals, Sequences, FiniteSets

CONSTANTS
  Job,
  Caller,         \* requests of the API and other callers at a time (a bound)
  Handler,        \* goroutines of notifyHandlers at a time (a bound)
  Loop,           \* the goroutine of Scheduler.scheduleLoop
  None,
  Ops,            \* the operations that are called
  Result,         \* how executions end
  MaxOps,         \* calls and crashes (a bound)
  MaxTime,        \* the clock (a bound); a cron job has a run in every unit of it
  Env             \* what happens around the calls

OpKinds == {"create", "update", "delete", "trigger", "specific", "retry", "cancel", "enable",
            "disable", "immediate", "start", "stop", "status", "nextRun"}

(* Schedule: the scheduler runs; Events: an EventHandler is registered;     *)
(* Worker: a worker executes; EtcdFails, MongoFails, LogFails: a call of    *)
(* that store returns an error; NoWorker: no worker can be selected; Crash: *)
(* the master dies and starts again.                                        *)
EnvKinds == {"Schedule", "Events", "Worker", "EtcdFails", "MongoFails", "LogFails", "NoWorker",
             "Crash"}

Ended == {"succeeded", "failed", "cancelled"}

Status == {"pending", "running"} \cup Ended

ASSUME MasterJobsAssumption ==
  /\ Ops \subseteq OpKinds /\ Env \subseteq EnvKinds
  /\ Result \subseteq {"succeeded", "failed"}
  /\ Loop \notin Caller \cup Handler /\ Caller \cap Handler = {}
  /\ IsFiniteSet(Caller) /\ IsFiniteSet(Handler)
  /\ None \notin Job
  /\ None \notin [enabled : BOOLEAN, cron : BOOLEAN, status : Status, last : Nat, next : Nat]
  /\ MaxOps \in Nat /\ MaxTime \in Nat \ {0}

Thread == Caller \cup Handler \cup {Loop}

VARIABLES
  etcd, mongo,    \* the two stores of the jobs
  fate,           \* whether a job was created, and how it was deleted
  off,            \* disabled with no enabled copy of the job left
  now,
  logs,           \* the status of the execution logs of each job, oldest first
  thr,            \* what each goroutine of the master is doing
  todo,           \* due jobs that the scheduler has listed and not looked at yet
  events,         \* events handed to goroutines that have not started
  seen,           \* the worker's copy of each job
  starts,         \* how often a trigger has put a job as running
  ops

stores == <<etcd, mongo, fate, off>>
vars == <<stores, now, logs, thr, todo, events, seen, starts, ops>>

-----------------------------------------------------------------------------
\* Times: 0 is the zero time, and as old as any.
JobRec == [enabled : BOOLEAN, cron : BOOLEAN, status : Status,
           last : 0..MaxTime, next : 0..MaxTime + 1]

\* Job.CalculateNextRunTime: from the last run if there was one.
CalculateNextRunTime(v) == [v EXCEPT !.next = 1 + IF v.last = 0 THEN now ELSE v.last]

Rescheduled(v) == IF v.cron THEN CalculateNextRunTime(v) ELSE v

Mutant_IsRunnable(v) == v.enabled

IsRunnable(v) == v.enabled /\ v.status # "running"

\* NewJob
Fresh(cron) ==
  Rescheduled([enabled |-> TRUE, cron |-> cron, status |-> "pending", last |-> 0, next |-> 0])

CreateJobFromRequest(enabled, cron) == [Fresh(cron) EXCEPT !.enabled = enabled]

\* A job that does not validate is refused before anything is read or written.
CreateJob(v) == Rescheduled(v)

\* The states of a goroutine between two calls of a store.
PC == {"idle", "read", "select", "log", "latest", "cancelLog", "exists", "etcd", "mongo",
       "deleteEtcd", "deleteMongo"}

(* round: the second UpdateJob of CancelJobExecution, the second save of    *)
(* EnableJob; log: the log in hand; wrote: etcd was written; ran: the job   *)
(* was running in etcd ever since the call began.                           *)
Thr == [pc : PC, op : OpKinds \cup {"schedule", "event", None}, job : Job \cup {None},
        val : JobRec \cup {None}, round : 1..2, log : Nat, wrote : BOOLEAN, ran : BOOLEAN,
        answer : {"none", "ok", "error"}]

\* A goroutine that begins a call at the step pc, with the job as it has it.
Begun(pc, op, j, v, ran) ==
  [pc |-> pc, op |-> op, job |-> j, val |-> v, round |-> 1, log |-> 0, wrote |-> FALSE,
   ran |-> ran, answer |-> "none"]

Idle == Begun("idle", None, None, None, FALSE)

\* The types; each store holds a whole job or none, and a log in hand is one of its job.
TypeOK ==
  /\ etcd \in [Job -> JobRec \cup {None}] /\ mongo \in [Job -> JobRec \cup {None}]
  /\ fate \in [Job -> {"new", "created", "deleted", "gone"}]
  /\ off \in [Job -> BOOLEAN]
  /\ now \in 1..MaxTime
  /\ logs \in [Job -> Seq({"pending", "cancelled"})]
  /\ thr \in [Thread -> Thr]
  /\ \A t \in Thread : thr[t].pc = "cancelLog" => thr[t].log \in 1..Len(logs[thr[t].job])
  /\ todo \in [Job -> JobRec \cup {None}]
  /\ events \subseteq [job : Job, val : JobRec]
  /\ seen \in [Job -> JobRec \cup {None}]
  /\ starts \in [Job -> Nat]
  /\ ops \in 0..MaxOps

Init ==
  /\ etcd = [j \in Job |-> None] /\ mongo = [j \in Job |-> None]
  /\ fate = [j \in Job |-> "new"] /\ off = [j \in Job |-> FALSE]
  /\ now = 1
  /\ logs = [j \in Job |-> <<>>]
  /\ thr = [t \in Thread |-> Idle]
  /\ todo = [j \in Job |-> None]
  /\ events = {}
  /\ seen = [j \in Job |-> None]
  /\ starts = [j \in Job |-> 0]
  /\ ops = 0

-----------------------------------------------------------------------------
(* Steps of a call: every read or write of a store is one step.             *)

IsRunning(j) == etcd[j] # None /\ etcd[j].status = "running"

At(t, pc) == thr[t].pc = pc

Goto(t, pc, v) == thr' = [thr EXCEPT ![t].pc = pc, ![t].val = v]

Return(t, answer) ==
  thr' = [thr EXCEPT ![t] = [Idle EXCEPT !.answer = answer, !.wrote = thr[t].wrote]]

\* JobRepo.GetByID: etcd, and what it does not have from MongoDB.
Lookup(j) == IF etcd[j] # None THEN etcd[j] ELSE mongo[j]

Found(t) == Lookup(thr[t].job)

\* A call begins; its first access to a store is a step of its own.
Call(c, op, j, pc, v) ==
  /\ At(c, "idle")
  /\ op \in Ops
  /\ ops < MaxOps
  /\ ops' = ops + 1
  /\ thr' = [thr EXCEPT ![c] = Begun(pc, op, j, v, IsRunning(j))]

Frame == UNCHANGED <<now, todo, seen, ops>>

ReadOnly == Frame /\ UNCHANGED <<stores, logs, events, starts>>

\* The requests: a handler of the API parses the request and calls the manager.
CreateJobRequest(c, j) ==
  /\ fate[j] = "new"
  /\ \E enabled, cron \in BOOLEAN :
       Call(c, "create", j, "etcd", CreateJob(CreateJobFromRequest(enabled, cron)))
  /\ fate' = [fate EXCEPT ![j] = "created"]
  /\ UNCHANGED <<etcd, mongo, off, now, logs, todo, events, seen, starts>>

Request(c, op, j) ==
  /\ fate[j] # "new"
  /\ Call(c, op, j, "read", None)
  /\ off' = [off EXCEPT ![j] = IF op \in {"enable", "update"} THEN FALSE ELSE @]
  /\ UNCHANGED <<etcd, mongo, fate, now, logs, todo, events, seen, starts>>

UpdateJobRequest(c, j) == Request(c, "update", j)
DeleteJobRequest(c, j) == Request(c, "delete", j)
\* With a worker id in the request, RunOnceOnSpecificWorker
TriggerJobRequest(c, j) == Request(c, "trigger", j) \/ Request(c, "specific", j)
KillJobRequest(c, j) == Request(c, "cancel", j)
EnableJobRequest(c, j) == Request(c, "enable", j)
DisableJobRequest(c, j) == Request(c, "disable", j)

\* Operations that no request of the API reaches.
LibraryCall(c, j) ==
  \E op \in {"retry", "immediate", "start", "stop", "status", "nextRun"} : Request(c, op, j)

\* UpdateJobFromRequest: the new fields, and the next run of a cron job.
Changed(v, enabled, cron) == Rescheduled([v EXCEPT !.enabled = enabled, !.cron = cron])

ReadUpdate(t) ==
  /\ thr[t].op = "update"
  /\ IF Found(t) = None
     THEN Return(t, "error")
     ELSE \E enabled, cron \in BOOLEAN : Goto(t, "exists", Changed(Found(t), enabled, cron))

ReadDelete(t) ==
  /\ thr[t].op = "delete"
  /\ IF Found(t) = None THEN Return(t, "error") ELSE Goto(t, "deleteEtcd", None)

\* What TriggerJobExecution, RunOnceOnSpecificWorker and TriggerImmediateJob begin with
SelectIfRunnable(t) ==
  IF Found(t) # None /\ IsRunnable(Found(t)) THEN Goto(t, "select", Found(t))
                                            ELSE Return(t, "error")

ReadTrigger(t) == thr[t].op = "trigger" /\ SelectIfRunnable(t)
ReadSpecific(t) == thr[t].op = "specific" /\ SelectIfRunnable(t)
TriggerImmediateJob(t) == thr[t].op = "immediate" /\ SelectIfRunnable(t)

\* RetryFailedJob reads the job, then triggers it, which reads it again.
ReadRetry(t) ==
  /\ thr[t].op = "retry"
  /\ IF Found(t) # None /\ Found(t).status = "failed"
     THEN thr' = [thr EXCEPT ![t].op = "trigger"]
     ELSE Return(t, "error")

ReadCancel(t) ==
  /\ thr[t].op = "cancel"
  /\ IF Found(t) # None /\ Found(t).status = "running"
     THEN Goto(t, "latest", Found(t))
     ELSE Return(t, "error")

\* The master's TriggerJob and CancelJob save the job without a second look.
ReadStart(t) ==
  /\ thr[t].op = "start"
  /\ IF Found(t) # None /\ Found(t).enabled
     THEN Goto(t, "etcd", [Found(t) EXCEPT !.status = "running"])
     ELSE Return(t, "error")

ReadStop(t) ==
  /\ thr[t].op = "stop"
  /\ IF Found(t) # None /\ Found(t).status = "running"
     THEN Goto(t, "etcd", [Found(t) EXCEPT !.status = "cancelled"])
     ELSE Return(t, "error")

EnableJob(v) == [v EXCEPT !.enabled = TRUE]

\* EnableJob of the manager lets the repository save the job as enabled, reads it again
\* and saves its next run.
ReadEnable(t) ==
  /\ thr[t].op = "enable"
  /\ \/ /\ thr[t].round = 1
        /\ IF Found(t) = None THEN Return(t, "error")
                              ELSE Goto(t, "etcd", EnableJob(Found(t)))
     \/ /\ thr[t].round = 2
        /\ IF Found(t) # None /\ Found(t).cron
           THEN Goto(t, "etcd", CalculateNextRunTime(Found(t)))
           ELSE Return(t, "ok")

ReadDisable(t) ==
  /\ thr[t].op = "disable"
  /\ IF Found(t) = None THEN Return(t, "error")
                        ELSE Goto(t, "etcd", [Found(t) EXCEPT !.enabled = FALSE])

\* JobRepo.UpdateStatus and UpdateNextRunTime
UpdateStatus(t) ==
  /\ thr[t].op = "status"
  /\ IF Found(t) = None
     THEN Return(t, "error")
     ELSE \E status \in Result \cup {"running"} :
            Goto(t, "etcd", [Found(t) EXCEPT !.status = status])

UpdateNextRunTime(t) ==
  /\ thr[t].op = "nextRun"
  /\ IF Found(t) # None /\ Found(t).cron
     THEN Goto(t, "etcd", CalculateNextRunTime([Found(t) EXCEPT !.last = now]))
     ELSE Return(t, "error")

\* The read of etcd fails; the second one of EnableJob is only logged.
ReadFails(t) ==
  /\ "EtcdFails" \in Env
  /\ Return(t, IF thr[t].round = 2 THEN "ok" ELSE "error")

Read(t) ==
  /\ At(t, "read")
  /\ \/ ReadUpdate(t) \/ ReadDelete(t)
     \/ ReadTrigger(t) \/ ReadSpecific(t) \/ TriggerImmediateJob(t) \/ ReadRetry(t)
     \/ ReadCancel(t) \/ ReadStart(t) \/ ReadStop(t) \/ ReadEnable(t) \/ ReadDisable(t)
     \/ UpdateStatus(t) \/ UpdateNextRunTime(t)
     \/ ReadFails(t)
  /\ ReadOnly

Mutant_NoLog(t) ==
  /\ At(t, "select") /\ thr[t].op = "trigger"
  /\ Goto(t, "exists", [thr[t].val EXCEPT !.status = "running"])
  /\ ReadOnly

\* No worker is active, or the one asked for is not, is disabled or not known.
NoWorker(t) == "NoWorker" \in Env /\ Return(t, "error")

\* WorkerSelector.SelectWorker, of a manual trigger: which worker is left out.
SelectWorker(t) ==
  /\ At(t, "select") /\ thr[t].op = "trigger"
  /\ Goto(t, "log", thr[t].val) \/ NoWorker(t)
  /\ ReadOnly

\* RunOnceOnSpecificWorker reads the worker that it was asked for, and goes on as a
\* manual trigger does.
GetWorker(t) ==
  /\ At(t, "select") /\ thr[t].op = "specific"
  /\ thr' = [thr EXCEPT ![t].op = "trigger", ![t].pc = "log"] \/ NoWorker(t)
  /\ ReadOnly

\* Scheduler.scheduleJob selects a worker by itself, keeps no log, and leaves the times
\* of the job as they are.
SelectAndSchedule(t) ==
  /\ At(t, "select") /\ thr[t].op \in {"schedule", "immediate"}
  /\ Goto(t, "exists", [thr[t].val EXCEPT !.status = "running"]) \/ NoWorker(t)
  /\ ReadOnly

Started(v) == [v EXCEPT !.status = "running", !.last = now]

\* A log that cannot be saved does not keep the job from running.
SaveLog(t) ==
  /\ At(t, "log")
  /\ \/ logs' = [logs EXCEPT ![thr[t].job] = Append(@, "pending")]
     \/ "LogFails" \in Env /\ UNCHANGED logs
  /\ Goto(t, "exists", Started(thr[t].val))
  /\ Frame /\ UNCHANGED <<stores, events, starts>>

Cancelled(v) == [v EXCEPT !.status = "cancelled"]

LatestLog(t) ==
  /\ At(t, "latest")
  /\ LET n == Len(logs[thr[t].job])
     IN \/ /\ n > 0
           /\ thr' = [thr EXCEPT ![t].pc = "cancelLog", ![t].log = n]
        \/ /\ n = 0 \/ "LogFails" \in Env
           /\ Goto(t, "exists", Cancelled(thr[t].val))
  /\ ReadOnly

CancelLog(t) ==
  /\ At(t, "cancelLog")
  /\ \/ logs' = [logs EXCEPT ![thr[t].job][thr[t].log] = "cancelled"]
     \/ "LogFails" \in Env /\ UNCHANGED logs
  /\ Goto(t, "exists", Cancelled(thr[t].val))
  /\ Frame /\ UNCHANGED <<stores, events, starts>>

Mutant_EveryErrorReturned(t) == Return(t, "error")

\* An UpdateJob fails: the second one of CancelJobExecution is only logged.
UpdateFails(t) == Return(t, IF thr[t].round = 2 THEN "ok" ELSE "error")

\* UpdateJob: the job must exist; a new cron expression gives a new next run.
Exists(t) ==
  /\ At(t, "exists")
  /\ \/ /\ Found(t) # None
        /\ Goto(t, "etcd", IF thr[t].val.cron /\ ~Found(t).cron
                           THEN CalculateNextRunTime(thr[t].val) ELSE thr[t].val)
     \/ /\ Found(t) = None \/ "EtcdFails" \in Env
        /\ UpdateFails(t)
  /\ ReadOnly

Mutant_OnlySuccess(j, v) ==
  IF "Events" \in Env /\ v.status = "succeeded" /\ v.cron THEN {[job |-> j, val |-> v]} ELSE {}

\* EventHandler.handleJobUpdate does something with the end of a cron job only.
HandleJobUpdate(v) == v.status \in Ended /\ v.cron

\* The watch gives every put of a job to a goroutine of its own.
NewEvent(j, v) ==
  IF "Events" \in Env /\ HandleJobUpdate(v) THEN {[job |-> j, val |-> v]} ELSE {}

\* Each write of etcd ends the time in which the job was running for every call.
Watched(ths, j, v) ==
  [t \in Thread |-> IF ths[t].job = j /\ (v = None \/ v.status # "running")
                    THEN [ths[t] EXCEPT !.ran = FALSE] ELSE ths[t]]

\* JobRepo.Save: etcd first, whose failure fails the save.
PutEtcd(t) ==
  /\ At(t, "etcd")
  /\ LET j == thr[t].job
         v == thr[t].val
     IN \/ /\ etcd' = [etcd EXCEPT ![j] = v]
           /\ events' = events \cup NewEvent(j, v)
           /\ thr' = Watched([thr EXCEPT ![t].pc = "mongo", ![t].wrote = TRUE], j, v)
           /\ starts' = IF thr[t].op = "trigger" THEN [starts EXCEPT ![j] = @ + 1] ELSE starts
           /\ UNCHANGED <<mongo, fate, off>>
        \/ /\ "EtcdFails" \in Env
           /\ UpdateFails(t)
           /\ UNCHANGED <<stores, events, starts>>
  /\ Frame /\ UNCHANGED logs

\* What follows a save: CancelJobExecution updates a cron job again, EnableJob
\* reads it again, the others return.
Saved(t) ==
  CASE thr[t].op = "cancel" /\ thr[t].round = 1 /\ thr[t].val.cron ->
         thr' = [thr EXCEPT ![t].pc = "exists", ![t].round = 2,
                            ![t].val = CalculateNextRunTime(@)]
    [] thr[t].op = "enable" /\ thr[t].round = 1 ->
         thr' = [thr EXCEPT ![t].pc = "read", ![t].round = 2, ![t].val = None]
    [] OTHER -> Return(t, "ok")

\* The copies of the job that others than the caller t have.
Copies(t, j) ==
  {v \in {thr[u].val : u \in {u \in Thread \ {t} : thr[u].job = j}} \cup {todo[j], seen[j]}
         \cup {e.val : e \in {e \in events : e.job = j}} : v # None}

\* off is set when DisableJob returns, no copy is left that says enabled and no
\* call is about to make one.
DisablingEnds(t) ==
  IF /\ thr[t].op = "disable"
     /\ \A v \in Copies(t, thr[t].job) \cup ({etcd[thr[t].job]} \ {None}) : ~v.enabled
     /\ \A u \in Thread \ {t} : thr[u].job = thr[t].job => thr[u].op \notin {"enable", "update"}
  THEN off' = [off EXCEPT ![thr[t].job] = TRUE]
  ELSE UNCHANGED off

Mutant_DisableInEtcd(t) ==
  /\ At(t, "mongo")
  /\ IF thr[t].op = "disable" THEN UNCHANGED mongo
                              ELSE mongo' = [mongo EXCEPT ![thr[t].job] = thr[t].val]
  /\ DisablingEnds(t)
  /\ Saved(t)
  /\ Frame /\ UNCHANGED <<etcd, fate, logs, events, starts>>

\* A failure of MongoDB is only logged.
PutMongo(t) ==
  /\ At(t, "mongo")
  /\ \/ /\ mongo' = [mongo EXCEPT ![thr[t].job] = thr[t].val]
        /\ DisablingEnds(t)
     \/ "MongoFails" \in Env /\ UNCHANGED <<mongo, off>>
  /\ Saved(t)
  /\ Frame /\ UNCHANGED <<etcd, fate, logs, events, starts>>

DeleteEtcd(t) ==
  /\ At(t, "deleteEtcd")
  /\ LET j == thr[t].job
     IN \/ /\ etcd' = [etcd EXCEPT ![j] = None]
           /\ thr' = Watched([thr EXCEPT ![t].pc = "deleteMongo", ![t].wrote = TRUE], j, None)
        \/ /\ "EtcdFails" \in Env
           /\ Return(t, "error")
           /\ UNCHANGED etcd
  /\ Frame /\ UNCHANGED <<mongo, fate, off, logs, events, starts>>

Mutant_KeepsHistory(t) ==
  /\ At(t, "deleteMongo")
  /\ LET j == thr[t].job
     IN fate' = [fate EXCEPT ![j] = IF etcd[j] = None /\ Copies(t, j) = {} THEN "gone"
                                                                         ELSE "deleted"]
  /\ Return(t, "ok")
  /\ Frame /\ UNCHANGED <<etcd, mongo, off, logs, events, starts>>

\* fate says "gone" when the job left both stores and nobody had a copy of it.
DeleteMongo(t) ==
  /\ At(t, "deleteMongo")
  /\ LET j == thr[t].job
     IN \/ /\ mongo' = [mongo EXCEPT ![j] = None]
           /\ fate' = [fate EXCEPT ![j] = IF etcd[j] = None /\ Copies(t, j) = {} THEN "gone"
                                                                               ELSE "deleted"]
        \/ /\ "MongoFails" \in Env
           /\ fate' = [fate EXCEPT ![j] = "deleted"]
           /\ UNCHANGED mongo
  /\ Return(t, "ok")
  /\ Frame /\ UNCHANGED <<etcd, off, logs, events, starts>>

-----------------------------------------------------------------------------
(* The master's scheduler and the handlers of job events.                   *)

Due(v) == v # None /\ v.enabled /\ v.next <= now

\* checkDueJobs lists the due jobs from MongoDB ...
ListDueJobs ==
  /\ "Schedule" \in Env
  /\ At(Loop, "idle")
  /\ \A j \in Job : todo[j] = None
  /\ \E j \in Job : Due(mongo[j])
  /\ todo' = [j \in Job |-> IF Due(mongo[j]) THEN mongo[j] ELSE None]
  /\ UNCHANGED <<stores, now, logs, thr, events, seen, starts, ops>>

\* ... and schedules those that its copy does not say are running, oldest first.
ScheduleJob(j) ==
  /\ At(Loop, "idle")
  /\ todo[j] # None
  /\ \A k \in Job : todo[k] # None => todo[j].next <= todo[k].next
  /\ todo' = [todo EXCEPT ![j] = None]
  /\ thr' = [thr EXCEPT ![Loop] = IF IsRunnable(todo[j])
                                  THEN Begun("select", "schedule", j, todo[j], FALSE)
                                  ELSE Idle]
  /\ UNCHANGED <<stores, now, logs, events, seen, starts, ops>>

\* handleJobSucceeded, handleJobFailed, handleJobCancelled, each in a goroutine.
HandleJobEvent(h, e) ==
  /\ At(h, "idle")
  /\ e \in events
  /\ events' = events \ {e}
  /\ LET v == CalculateNextRunTime([e.val EXCEPT !.last = now])
     IN thr' = [thr EXCEPT ![h] = Begun("exists", "event", e.job, v, FALSE)]
  /\ UNCHANGED <<stores, now, logs, todo, seen, starts, ops>>

-----------------------------------------------------------------------------
(* Around the master.                                                       *)

Tick ==
  /\ now < MaxTime
  /\ now' = now + 1
  /\ UNCHANGED <<stores, logs, thr, todo, events, seen, starts, ops>>

\* The worker's watch: it has the job as it was at some time.
WorkerSees(j) ==
  /\ "Worker" \in Env
  /\ seen[j] # etcd[j]
  /\ seen' = [seen EXCEPT ![j] = etcd[j]]
  /\ UNCHANGED <<stores, now, logs, thr, todo, events, starts, ops>>

\* WorkerJobManager.ReportJobStatus writes the worker's copy, to etcd only.
Report(j, v) ==
  /\ etcd' = [etcd EXCEPT ![j] = v]
  /\ seen' = [seen EXCEPT ![j] = v]
  /\ events' = events \cup NewEvent(j, v)
  /\ thr' = Watched(thr, j, v)
  /\ UNCHANGED <<mongo, fate, off, now, logs, todo, starts, ops>>

WorkerStarts(j) ==
  /\ "Worker" \in Env
  /\ seen[j] # None /\ seen[j].enabled /\ seen[j].status # "running"
  /\ Report(j, [seen[j] EXCEPT !.status = "running"])

\* The job was looked up before its end is reported.
WorkerEnds(j) ==
  /\ "Worker" \in Env
  /\ etcd[j] # None
  /\ seen[j] # None /\ seen[j].status = "running"
  /\ \E result \in Result : Report(j, [seen[j] EXCEPT !.status = result])

\* The calls, the listed jobs and the events under way are lost.
Crash ==
  /\ "Crash" \in Env
  /\ ops < MaxOps
  /\ ops' = ops + 1
  /\ thr' = [t \in Thread |-> Idle]
  /\ todo' = [j \in Job |-> None]
  /\ events' = {}
  /\ UNCHANGED <<stores, now, logs, seen, starts>>

-----------------------------------------------------------------------------
Begin(c, j) ==
  \/ CreateJobRequest(c, j) \/ UpdateJobRequest(c, j) \/ DeleteJobRequest(c, j)
  \/ TriggerJobRequest(c, j) \/ KillJobRequest(c, j) \/ EnableJobRequest(c, j)
  \/ DisableJobRequest(c, j) \/ LibraryCall(c, j)

Step(t) ==
  \/ Read(t) \/ SelectWorker(t) \/ GetWorker(t) \/ SelectAndSchedule(t)
  \/ SaveLog(t) \/ LatestLog(t) \/ CancelLog(t)
  \/ Exists(t) \/ PutEtcd(t) \/ PutMongo(t) \/ DeleteEtcd(t) \/ DeleteMongo(t)

SchedulerStep == ListDueJobs \/ \E j \in Job : ScheduleJob(j)

EventStep == \E h \in Handler, e \in events : HandleJobEvent(h, e)

WorkerStep(j) == WorkerSees(j) \/ WorkerStarts(j) \/ WorkerEnds(j)

Next ==
  \/ \E c \in Caller, j \in Job : Begin(c, j)
  \/ \E t \in Thread : Step(t)
  \/ SchedulerStep \/ EventStep
  \/ \E j \in Job : WorkerStep(j)
  \/ Tick \/ Crash

Spec == Init /\ [][Next]_vars

\* Goroutines of the master go on, and the loop and the event goroutines run.
Fairness ==
  /\ \A t \in Thread : WF_vars(Step(t))
  /\ WF_vars(SchedulerStep) /\ WF_vars(EventStep)

FairSpec == Spec /\ Fairness

-----------------------------------------------------------------------------
(* Properties.                                                              *)

\* A manual trigger is on record before the job is put as running, whatever
\* fails or dies in between: there is a log for every such start.
StartsAreLogged == \A j \in Job : starts[j] <= Len(logs[j])

\* A call that returns an error has not changed the job in etcd, whichever of
\* its reads and writes failed: the second steps of a cancel and of an enable,
\* whose first step is done, do not turn it into an error.
RefusedCallWroteNothing == \A c \in Caller : thr[c].answer = "error" => ~thr[c].wrote

\* A job that is running in etcd from the beginning of a trigger to its end is
\* not started by it.  It may stop and run again in between: then it may be
\* started twice.
RunningIsNotRestarted ==
  \A t \in Thread : At(t, "etcd") /\ thr[t].op \in {"trigger", "immediate"} => ~thr[t].ran

\* Once a job is deleted from both stores and no call, worker or event has a
\* copy of it, nothing brings it back: neither the fallback of GetByID to
\* MongoDB, nor an update, nor the scheduler.
DeletedStaysDeleted ==
  \A j \in Job : fate[j] = "gone" => etcd[j] = None /\ mongo[j] = None

\* Once a job is disabled and no copy of it is left that says enabled, only a
\* call that enables it makes it enabled again, although every writer writes
\* back the whole job.
DisabledStaysDisabled ==
  \A j \in Job : off[j] => \A v \in {etcd[j], mongo[j]} \ {None} : ~v.enabled

\* The end of an execution of a cron job, which the worker writes to etcd only,
\* reaches MongoDB, from where the scheduler takes the due jobs: unless the job
\* has changed again, MongoDB does not go on to say that it is running.
EndIsLearnt ==
  LET HasEnded(v) == v # None /\ v.cron /\ v.status \in Ended
  IN \A j \in Job :
       HasEnded(etcd[j])
         ~> ~HasEnded(etcd[j]) \/ mongo[j] = None \/ mongo[j].status # "running"
=============================================================================
