---------------------------- MODULE WorkerRegistry ----------------------------
(*****************************************************************************)
(* The record of one worker, and everyone who writes it: the worker itself    *)
(* (registration, heartbeats, shutdown: pkg/worker/register), the health      *)
(* checks of the master (pkg/master/workermgr) and the calls of the           *)
(* repository of workers (pkg/common/repo/worker_repo.go). The records of     *)
(* different workers have nothing in common, so one is enough.                *)
(*                                                                           *)
(* Every writer puts the whole record from a copy of its own. A copy is its   *)
(* status and its age, the ticks since the heartbeat it was made from; ages   *)
(* beyond the heartbeat timeout need not be told apart. Names, labels,        *)
(* resources and lists of jobs travel with the copy and are left out.         *)
(*****************************************************************************)
EXTENDS Naturals

CONSTANTS
  Admin,        \* goroutines of the master that call the repository
  None,         \* no record
  Timeout,      \* WorkerHeartbeatTimeout, in ticks of the clock
  MaxErrors,    \* failed heartbeats in a row after which a worker registers again
  MaxOps,       \* calls of the repository (a bound)
  Ops,          \* the calls that are made
  Env           \* what else happens

OpKinds == {"enable", "disable", "labels", "jobs", "resources", "register", "heartbeat",
            "delete", "consistency", "health"}
EnvKinds == {"EtcdFails", "MongoFails", "Crash", "Stop", "NoKeepAlive"}

ASSUME RegistryAssumption ==
  /\ Timeout \in Nat /\ MaxOps \in Nat /\ MaxErrors \in Nat \ {0}
  /\ Ops \subseteq OpKinds /\ Env \subseteq EnvKinds
  /\ None \notin [status : {"online", "offline", "disabled"}, age : Nat]

Status == {"online", "offline", "disabled"}
Age == 0..(Timeout + 1)
Copy == [status : Status, age : Age]
\* The key's lease: the worker's own, renewed or not, or one of WorkerRepo.Register
Lease == {"none", "kept", "unkept", "other"}

VARIABLES
  etcd,         \* the record under the worker's key, or None
  lease,        \* the lease that the key is attached to
  mongo,        \* the worker's document, or None
  up,           \* the worker's process runs
  mem,          \* the record of the worker itself
  stopping,     \* how far the shutdown of the worker has come
  beat,         \* the heartbeat loop: where it is, and what it is about to put
  errors,       \* heartbeats that failed in a row
  check,        \* the health check of the master: the record it has listed
  adm,          \* the calls of the repository
  ops,          \* calls made so far
  gone          \* ticks since the process last ran: 0 as long as it does

stores == <<etcd, lease, mongo>>
worker == <<up, mem, stopping, beat, errors>>
master == <<check, adm, ops>>
vars == <<stores, worker, master, gone>>

Idle == [pc |-> "idle", op |-> None, copy |-> None]
Off == [pc |-> "off", copy |-> None]

\* The types; a record that is not in etcd is tied to no lease.
TypeOK ==
  /\ etcd \in Copy \cup {None} /\ mongo \in Copy \cup {None}
  /\ lease \in Lease /\ (etcd = None => lease = "none")
  /\ up \in BOOLEAN /\ mem \in Copy
  /\ stopping \in {"no", "status", "release", "done"}
  /\ beat \in [pc : {"off", "idle", "resources", "beat", "register"}, copy : Copy \cup {None}]
  /\ errors \in 0..MaxErrors
  /\ check \in Copy \cup {None}
  /\ adm \in [Admin -> [pc : {"idle", "read", "put", "mongo", "rollback"},
                        op : OpKinds \cup {None}, copy : Copy \cup {None}]]
  /\ ops \in 0..MaxOps /\ gone \in Age

Init ==
  /\ etcd = None /\ lease = "none" /\ mongo = None
  /\ up = FALSE /\ mem = [status |-> "online", age |-> 0] /\ stopping = "no"
  /\ beat = Off /\ errors = 0
  /\ check = None /\ adm = [a \in Admin |-> Idle] /\ ops = 0
  /\ gone = Timeout + 1

(***************************************************************************)
(* The stores. A put without a lease detaches the key from its lease, so    *)
(* that only a key nobody has written since it was registered can expire.   *)
(***************************************************************************)
Fresh(copy) == copy.age <= Timeout

IsActive(copy) == copy.status # "disabled" /\ Fresh(copy)

ListActive == {r \in {etcd} \ {None} : IsActive(r)}

\* Mutant: whoever changes the status refreshes the heartbeat with it.
Mutant_Refreshes(copy, status) == [copy EXCEPT !.status = status, !.age = 0]

SetStatus(copy, status) == [copy EXCEPT !.status = status]
\* Mutant: the heartbeat puts the record as it is.
Mutant_SameAge(copy) == copy

UpdateHeartbeat(copy) == [copy EXCEPT !.age = 0]

Put(copy) == etcd' = copy /\ lease' = "none"
PutWithLease(copy, l) == etcd' = copy /\ lease' = l
Delete == etcd' = None /\ lease' = "none"
EtcdFails == "EtcdFails" \in Env /\ UNCHANGED <<etcd, lease>>

\* GetByID: the record of etcd, or else the document of MongoDB.
GetByID == IF etcd # None THEN etcd ELSE mongo

LeaseExpires ==
  /\ lease \in {"unkept", "other"}
  /\ Delete
  /\ UNCHANGED <<mongo, worker, master, gone>>

(***************************************************************************)
(* The worker                                                               *)
(***************************************************************************)

\* Mutant: the worker registers under a status of its own.
Mutant_Registered(copy) == [status |-> "registered", age |-> 0]

\* Register keeps its new status even when etcd cannot be reached.
Registered(copy) == UpdateHeartbeat(SetStatus(copy, "online"))

\* keepAliveLease: when the keep-alive cannot be set up, the worker goes on without.
LeaseOfWorker == {"kept"} \cup IF "NoKeepAlive" \in Env THEN {"unkept"} ELSE {}

RegisterStarts ==
  /\ mem' = Registered(mem)
  /\ \E l \in LeaseOfWorker : PutWithLease(mem', l)

HealthCheckerStarts == errors' = 0 /\ beat' = [pc |-> "idle", copy |-> None]

\* WorkerApp.Start: a worker that cannot register ends, and so does one whose other
\* components do not start, after the steps of Stop.
Start ==
  /\ ~up
  /\ up' = TRUE /\ gone' = 0 /\ stopping' = "no"
  /\ RegisterStarts
  /\ HealthCheckerStarts
  /\ UNCHANGED <<mongo, master>>

\* UpdateResources writes the record down without the mutex that guards its status,
\* and puts it in a later step. The select of the loop may find its ticker ready
\* after Stop has closed its channel, too.
UpdateResources ==
  /\ up /\ beat.pc = "idle"
  /\ beat' = [pc |-> "resources", copy |-> mem]
  /\ UNCHANGED <<stores, up, mem, stopping, errors, master, gone>>

PutResources ==
  /\ up /\ beat.pc = "resources"
  /\ Put(beat.copy) \/ EtcdFails
  /\ beat' = [pc |-> "beat", copy |-> None]
  /\ UNCHANGED <<mongo, up, mem, stopping, errors, master, gone>>

\* Heartbeat, and resetHeartbeatErrors
Heartbeat ==
  /\ up /\ beat.pc = "beat"
  /\ mem' = UpdateHeartbeat(mem)
  /\ Put(mem')
  /\ errors' = 0
  /\ beat' = [beat EXCEPT !.pc = "idle"]
  /\ UNCHANGED <<mongo, up, stopping, master, gone>>

\* Heartbeat fails, and handleHeartbeatError registers again after MaxErrors of them.
HeartbeatFails ==
  /\ up /\ beat.pc = "beat"
  /\ mem' = UpdateHeartbeat(mem)
  /\ EtcdFails
  /\ errors' = IF errors < MaxErrors THEN errors + 1 ELSE errors
  /\ beat' = [beat EXCEPT !.pc = IF errors' = MaxErrors THEN "register" ELSE "idle"]
  /\ UNCHANGED <<mongo, up, stopping, master, gone>>

\* Register again: nobody renews the new lease. UpdateResources may have put the
\* record before the new lease fails.
Register ==
  /\ up /\ beat.pc = "register"
  /\ mem' = Registered(mem)
  /\ \/ PutWithLease(mem', "unkept") /\ errors' = 0
     \/ EtcdFails /\ UNCHANGED errors
     \/ "EtcdFails" \in Env /\ Put(mem) /\ UNCHANGED errors
  /\ beat' = [beat EXCEPT !.pc = "idle"]
  /\ UNCHANGED <<mongo, up, stopping, master, gone>>

\* AddRunningJob and RemoveRunningJob put the worker's own record, under the mutex of
\* its status; the list of jobs is left out.
AddRunningJob ==
  /\ up
  /\ Put(mem) \/ EtcdFails
  /\ UNCHANGED <<mongo, worker, master, gone>>

\* It does nothing for a job that is not in the list.
RemoveRunningJob ==
  /\ up
  /\ Put(mem) \/ UNCHANGED <<etcd, lease>>
  /\ UNCHANGED <<mongo, worker, master, gone>>

\* WorkerApp.Stop and SignalHandler.gracefulShutdown: the health checker closes the
\* channel of its loops and does not wait for them, then the register says offline,
\* gives its lease back, and the process ends.
Stop ==
  /\ "Stop" \in Env
  /\ up /\ stopping = "no"
  /\ stopping' = "status"
  /\ UNCHANGED <<stores, up, mem, beat, errors, master, gone>>

\* HealthChecker.Stop has closed the channel of the loop.
StopChanClosed == stopping # "no"

BeatEnds ==
  /\ up /\ StopChanClosed /\ beat.pc = "idle"
  /\ beat' = Off
  /\ UNCHANGED <<stores, up, mem, stopping, errors, master, gone>>

StopSaysOffline ==
  /\ up /\ stopping = "status"
  /\ mem' = SetStatus(mem, "offline")
  /\ Put(mem') \/ EtcdFails
  /\ stopping' = "release"
  /\ UNCHANGED <<mongo, up, beat, errors, master, gone>>

StopReleasesLease ==
  /\ up /\ stopping = "release"
  /\ IF lease \in {"kept", "unkept"} THEN Delete \/ EtcdFails ELSE UNCHANGED <<etcd, lease>>
  /\ stopping' = "done"
  /\ UNCHANGED <<mongo, up, mem, beat, errors, master, gone>>

\* The process ends, by itself or not; its leases are not renewed any more.
End ==
  /\ up /\ (stopping = "done" \/ "Crash" \in Env)
  /\ up' = FALSE
  /\ stopping' = IF stopping = "done" THEN "done" ELSE "no"
  /\ beat' = Off /\ errors' = 0
  /\ lease' = IF lease = "kept" THEN "unkept" ELSE lease
  /\ UNCHANGED <<etcd, mongo, mem, master, gone>>

(***************************************************************************)
(* The master: the health checks of the worker manager                      *)
(***************************************************************************)

\* checkAllWorkersHealth lists the workers, and skips those that are disabled.
CheckLists ==
  /\ check = None /\ etcd # None /\ etcd.status # "disabled"
  /\ check' = etcd
  /\ UNCHANGED <<stores, worker, adm, ops, gone>>

\* Mutant: the check only brings workers back, and takes none offline.
Mutant_OnlineOnly(copy) == IF Fresh(copy) THEN "online" ELSE copy.status

\* ... and puts back the record it has listed when its status has to change.
StatusOf(copy) == IF Fresh(copy) THEN "online" ELSE "offline"

CheckPuts ==
  /\ check # None
  /\ IF check.status = StatusOf(check)
     THEN UNCHANGED <<etcd, lease>> ELSE Put(SetStatus(check, StatusOf(check)))
  /\ check' = None
  /\ UNCHANGED <<mongo, worker, adm, ops, gone>>

CheckFails ==
  /\ check # None /\ check.status # StatusOf(check)
  /\ EtcdFails
  /\ check' = None
  /\ UNCHANGED <<mongo, worker, adm, ops, gone>>

(***************************************************************************)
(* The master: calls of the worker manager and of the repository            *)
(***************************************************************************)
Goto(a, pc, copy) == adm' = [adm EXCEPT ![a] = [@ EXCEPT !.pc = pc, !.copy = copy]]
Return(a) == adm' = [adm EXCEPT ![a] = Idle]

Call(a, op) ==
  /\ adm[a].pc = "idle" /\ op \in Ops
  /\ ops < MaxOps /\ ops' = ops + 1
  /\ adm' = [adm EXCEPT ![a] = [pc |-> "read", op |-> op, copy |-> None]]
  /\ UNCHANGED <<stores, worker, check, gone>>

\* ProcessHeartbeat: a worker that is offline comes back, one that is disabled does not.
Beaten(copy) ==
  UpdateHeartbeat(IF copy.status = "offline" THEN SetStatus(copy, "online") ELSE copy)

EnableOrDisable(a) == Call(a, "enable") \/ Call(a, "disable")
UpdateWorkerLabels(a) == Call(a, "labels")
\* A round of the second health checker, which nothing but its own Start waits for
RunHealthCheck(a) == Call(a, "health")
OtherCall(a) == \E op \in {"jobs", "resources", "register", "heartbeat", "delete", "consistency"} :
                  Call(a, op)

\* What a call makes of the record it has read. The second health checker
\* (health.go) has chosen the new status from a record it had listed before.
Changed(op, copy) ==
  CASE op = "enable" -> {SetStatus(copy, "online")}
    [] op = "disable" -> {SetStatus(copy, "disabled")}
    [] op = "heartbeat" -> {Beaten(copy)}
    [] op = "health" -> {SetStatus(copy, s) : s \in {"online", "offline"}}
    [] OTHER -> {copy}

\* A record is read by GetByID, or by ListActive when a job is given to the worker.
\* A heartbeat and a registration come from a worker that runs.
Reads(a) ==
  /\ adm[a].pc = "read" /\ adm[a].op \notin {"delete", "register"}
  /\ \/ /\ IF adm[a].op = "jobs" THEN ListActive # {} ELSE GetByID # None
        /\ adm[a].op = "heartbeat" => up
        /\ \E copy \in Changed(adm[a].op, GetByID) : Goto(a, "put", copy)
     \/ /\ GetByID = None \/ "EtcdFails" \in Env \/ (adm[a].op = "jobs" /\ ListActive = {})
        /\ Return(a)
  /\ UNCHANGED <<stores, worker, check, ops, gone>>

\* WorkerRepo.Register, on behalf of a worker that runs
RegistersOther(a) ==
  /\ adm[a].pc = "read" /\ adm[a].op = "register" /\ up
  /\ LET copy == [status |-> "online", age |-> 0] IN
       \/ PutWithLease(copy, "other") /\ Goto(a, "mongo", copy)
       \/ EtcdFails /\ Return(a)
  /\ UNCHANGED <<mongo, worker, check, ops, gone>>

Deletes(a) ==
  /\ adm[a].pc = "read" /\ adm[a].op = "delete"
  /\ \/ Delete /\ Goto(a, "mongo", None)
     \/ EtcdFails /\ Return(a)
  /\ UNCHANGED <<mongo, worker, check, ops, gone>>

\* CheckConsistency restores a record that is missing from etcd, with no lease. Of a
\* record that is there it compares the status with the one it has read before, which
\* came from etcd as well, and tells MongoDB the later one.
Compares(a) ==
  /\ adm[a].pc = "put" /\ adm[a].op = "consistency"
  /\ \/ /\ etcd = None
        /\ IF adm[a].copy.status = "offline"
           THEN UNCHANGED <<etcd, lease>> ELSE Put(adm[a].copy) \/ EtcdFails
        /\ UNCHANGED mongo
     \/ /\ etcd # None
        /\ mongo' = IF mongo = None \/ adm[a].copy.status = etcd.status
                    THEN mongo ELSE SetStatus(mongo, etcd.status)
        /\ UNCHANGED <<etcd, lease>>
     \/ "MongoFails" \in Env /\ UNCHANGED stores
  /\ Return(a)
  /\ UNCHANGED <<worker, check, ops, gone>>

\* UpdateWorkerResources: what MongoDB is told of resources is left out.
UpdateWorkerResources(a) ==
  /\ adm[a].pc = "put" /\ adm[a].op = "resources"
  /\ Put(adm[a].copy) \/ EtcdFails
  /\ Return(a)
  /\ UNCHANGED <<mongo, worker, check, ops, gone>>

\* Labels and health checks are put in etcd only.
Puts(a) ==
  /\ adm[a].pc = "put" /\ adm[a].op \notin {"consistency", "resources"}
  /\ \/ /\ Put(adm[a].copy)
        /\ IF adm[a].op \in {"labels", "health"}
           THEN Return(a) ELSE Goto(a, "mongo", adm[a].copy)
     \/ EtcdFails /\ Return(a)
  /\ UNCHANGED <<mongo, worker, check, ops, gone>>

\* The document after the call. Register replaces it; the others change fields of it,
\* and the age they write has a name that is not read.
Document(op, copy) ==
  IF op = "register" THEN copy
  ELSE IF mongo = None THEN None
  ELSE CASE op \in {"enable", "disable", "heartbeat"} -> SetStatus(mongo, copy.status)
         [] op = "delete" -> SetStatus(mongo, "offline")
         [] OTHER -> mongo

PutsMongo(a) ==
  /\ adm[a].pc = "mongo"
  /\ \/ mongo' = Document(adm[a].op, adm[a].copy) /\ Return(a)
     \/ /\ "MongoFails" \in Env /\ UNCHANGED mongo
        /\ IF adm[a].op \in {"enable", "register"}
           THEN Goto(a, "rollback", adm[a].copy) ELSE Return(a)
  /\ UNCHANGED <<etcd, lease, worker, check, ops, gone>>

\* Register deletes the key again; EnableWorker puts offline, whatever it was before.
RollsBack(a) ==
  /\ adm[a].pc = "rollback"
  /\ \/ IF adm[a].op = "register" THEN Delete ELSE Put(SetStatus(adm[a].copy, "offline"))
     \/ EtcdFails
  /\ Return(a)
  /\ UNCHANGED <<mongo, worker, check, ops, gone>>

(***************************************************************************)
(* Time: all the records and the copies of them grow older.                 *)
(***************************************************************************)
Older(n) == IF n > Timeout THEN n ELSE n + 1
Aged(copy) == IF copy = None THEN None ELSE [copy EXCEPT !.age = Older(@)]

Tick ==
  /\ etcd' = Aged(etcd) /\ mongo' = Aged(mongo) /\ mem' = Aged(mem) /\ check' = Aged(check)
  /\ beat' = [beat EXCEPT !.copy = Aged(@)]
  /\ adm' = [a \in Admin |-> [adm[a] EXCEPT !.copy = Aged(@)]]
  /\ gone' = IF up THEN 0 ELSE Older(gone)
  /\ UNCHANGED <<lease, up, stopping, errors, ops>>

AdminStep(a) ==
  \/ EnableOrDisable(a) \/ UpdateWorkerLabels(a) \/ RunHealthCheck(a) \/ OtherCall(a)
  \/ UpdateWorkerResources(a)
  \/ Reads(a) \/ RegistersOther(a) \/ Deletes(a)
  \/ Compares(a) \/ Puts(a) \/ PutsMongo(a) \/ RollsBack(a)

Next ==
  \/ Start \/ UpdateResources \/ PutResources \/ Heartbeat \/ HeartbeatFails \/ Register
  \/ AddRunningJob \/ RemoveRunningJob
  \/ Stop \/ BeatEnds \/ StopSaysOffline \/ StopReleasesLease \/ End
  \/ LeaseExpires \/ CheckLists \/ CheckPuts \/ CheckFails \/ Tick
  \/ \E a \in Admin : AdminStep(a)

Spec == Init /\ [][Next]_vars

(***************************************************************************)
(* The loops go on, time passes, and an etcd that can be reached again and  *)
(* again is reached again: a put is tried three times, and again in the     *)
(* next round of the loop. Nobody has to start, to stop or to call.         *)
(***************************************************************************)
Fairness ==
  /\ WF_vars(Tick)
  /\ WF_vars(UpdateResources \/ PutResources \/ Register) /\ SF_vars(Heartbeat)
  /\ SF_vars(CheckLists) /\ SF_vars(CheckPuts)

FairSpec == Spec /\ Fairness

(***************************************************************************)
(* Properties                                                               *)
(***************************************************************************)

\* The master gives jobs only to a worker that ran within the heartbeat timeout:
\* whoever puts back a copy of the record, however late, puts back its old heartbeat.
ActiveRanLately == ListActive # {} => gone <= Timeout

\* A worker that is gone for good is marked so for good, whatever the calls and the
\* late copies of its record said in between.
Marked == etcd = None \/ etcd.status # "online"
GoneIsMarked == <>[](~up) => <>[]Marked

\* A worker that keeps running, and whose heartbeats get through, is among the active
\* ones again and again, whatever the master has put over its record.
RunningIsActive == <>[](up /\ stopping = "no") => []<>(ListActive # {})
=============================================================================
