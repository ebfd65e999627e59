---------------------------- MODULE MasterJobsProofs ----------------------------
(***************************************************************************)
(* Proofs about MasterJobs for every set of jobs, callers and handlers,     *)
(* every number of calls and crashes, and every Env, unless a theorem says  *)
(* otherwise.                                                              *)
(***************************************************************************)
EXTENDS MCMaster, FiniteSetTheorems, SequenceTheorems, TLAPS

\* The theorems about the other side
Streams == INSTANCE LogStreamProofs WITH Env <- StreamEnv

\* What a record of job j may be, wherever it is: none before the job is created and once
\* it is gone, and not enabled once it is off.
CopyOf(j, v) ==
  /\ v \in JobRec \cup {None}
  /\ fate[j] \in {"new", "gone"} => v = None
  /\ off[j] /\ v # None => ~v.enabled

\* The records outside the calls of the master
StoresHaveCopies ==
  /\ \A j \in Job : /\ CopyOf(j, etcd[j]) /\ CopyOf(j, mongo[j])
                    /\ CopyOf(j, todo[j]) /\ CopyOf(j, seen[j])
  /\ \A e \in events : CopyOf(e.job, e.val)

\* Calls are about jobs that were created; no call enables a job that is off.
KnownJob(h) ==
  h.job # None => /\ fate[h.job] # "new"
                  /\ CopyOf(h.job, h.val)
                  /\ off[h.job] => h.op \notin {"enable", "update"}

\* Where a call has the job in hand
Holding == {"select", "log", "latest", "cancelLog", "exists", "etcd", "mongo"}

\* The second rounds of CancelJobExecution and EnableJob
InSecondRound(op, pc) ==
  \/ op = "cancel" /\ pc \in {"exists", "etcd", "mongo"}
  \/ op = "enable" /\ pc \in {"read", "etcd", "mongo"}

\* What a goroutine has in hand at each of its steps. What it wrote it wrote in the step
\* that it has just made, unless it is in a second round.
HandOK(h) ==
  /\ h.pc # "idle" => (h.job # None /\ h.answer = "none")
  /\ h.pc \in Holding => h.val # None
  /\ h.pc \in {"latest", "cancelLog"} => h.op = "cancel"
  /\ h.round = 2 => InSecondRound(h.op, h.pc)
  /\ h.wrote /\ h.pc \notin {"idle", "mongo", "deleteMongo"} => h.round = 2
  /\ h.answer = "error" => ~h.wrote
  /\ h.op = "disable" /\ h.val # None => ~h.val.enabled

\* A job that was running ever since the call began is running, and no start of it is
\* under way.
RanOK(h) ==
  /\ h.ran => h.job # None /\ IsRunning(h.job)
  /\ h.pc \in {"select", "log", "exists", "etcd"} /\ h.op \in {"trigger", "specific", "immediate"} =>
       ~h.ran

Good(h) == HandOK(h) /\ RanOK(h) /\ KnownJob(h)

OffIsKnown == \A j \in Job : off[j] => fate[j] # "new"

IInv == TypeOK /\ StoresHaveCopies /\ OffIsKnown /\ \A t \in Thread : Good(thr[t])

\* The starts that are under way, behind the log that was saved for them
Starting(h) == h.op = "trigger" /\ h.pc \in {"exists", "etcd"}

UnderWay(j) == {t \in Thread : Starting(thr[t]) /\ thr[t].job = j}

StartsBehindLogs == \A j \in Job : starts[j] + Cardinality(UnderWay(j)) <= Len(logs[j])

-----------------------------------------------------------------------------
(* Records of jobs                                                           *)

LEMMA NoneIsNoRec == None \notin JobRec
BY MasterJobsAssumption DEF JobRec

LEMMA CalculateKeeps ==
  ASSUME NEW v \in JobRec, now \in 1..MaxTime
  PROVE  /\ CalculateNextRunTime(v) \in JobRec
         /\ CalculateNextRunTime(v).enabled = v.enabled
         /\ CalculateNextRunTime(v).status = v.status
<1> DEFINE n == 1 + IF v.last = 0 THEN now ELSE v.last
<1>1. n \in 0..MaxTime + 1
  BY MasterJobsAssumption DEF JobRec
<1>2. CalculateNextRunTime(v) = [v EXCEPT !.next = n]
  BY DEF CalculateNextRunTime
<1> HIDE DEF n
<1> QED
  BY <1>1, <1>2 DEF JobRec

LEMMA RescheduledKeeps ==
  ASSUME NEW v \in JobRec, now \in 1..MaxTime
  PROVE  Rescheduled(v) \in JobRec /\ Rescheduled(v).enabled = v.enabled
BY CalculateKeeps DEF Rescheduled

LEMMA WithStatus ==
  ASSUME NEW v \in JobRec, NEW s \in Status
  PROVE  LET w == [v EXCEPT !.status = s]
         IN  w \in JobRec /\ w.enabled = v.enabled /\ w.status = s
BY DEF JobRec

LEMMA WithEnabled ==
  ASSUME NEW v \in JobRec, NEW b \in BOOLEAN
  PROVE  LET w == [v EXCEPT !.enabled = b] IN w \in JobRec /\ w.enabled = b
BY DEF JobRec

LEMMA WithLast ==
  ASSUME NEW v \in JobRec, now \in 1..MaxTime
  PROVE  LET w == [v EXCEPT !.last = now]
         IN  w \in JobRec /\ w.enabled = v.enabled /\ w.status = v.status
<1>1. now \in 0..MaxTime
  BY MasterJobsAssumption
<1> QED
  BY <1>1 DEF JobRec

LEMMA StartedKeeps ==
  ASSUME NEW v \in JobRec, now \in 1..MaxTime
  PROVE  Started(v) \in JobRec /\ Started(v).enabled = v.enabled
<1>1. now \in 0..MaxTime /\ "running" \in Status
  BY MasterJobsAssumption DEF Status
<1> QED
  BY <1>1 DEF JobRec, Started

LEMMA CancelledKeeps ==
  ASSUME NEW v \in JobRec
  PROVE  Cancelled(v) \in JobRec /\ Cancelled(v).enabled = v.enabled
<1>1. "cancelled" \in Status
  BY DEF Status, Ended
<1> QED
  BY <1>1 DEF JobRec, Cancelled

LEMMA CreatedIsRec ==
  ASSUME NEW enabled \in BOOLEAN, NEW cron \in BOOLEAN, now \in 1..MaxTime
  PROVE  CreateJob(CreateJobFromRequest(enabled, cron)) \in JobRec
<1> DEFINE r == [enabled |-> TRUE, cron |-> cron, status |-> "pending", last |-> 0, next |-> 0]
<1>1. r \in JobRec
  BY MasterJobsAssumption DEF JobRec, Status
<1> HIDE DEF r
<1>2. Rescheduled(r) \in JobRec
  BY <1>1, RescheduledKeeps
<1>3. Fresh(cron) \in JobRec
  BY <1>2 DEF Fresh, r
<1>4. CreateJobFromRequest(enabled, cron) \in JobRec
  BY <1>3, WithEnabled DEF CreateJobFromRequest
<1> QED
  BY <1>4, RescheduledKeeps DEF CreateJob

\* A record made from a copy is a copy, unless it makes enabled what was not.
LEMMA CopyOfCopy ==
  ASSUME NEW j, NEW v \in JobRec, NEW w \in JobRec, CopyOf(j, v),
         (w.enabled => v.enabled) \/ ~off[j]
  PROVE  CopyOf(j, w)
BY NoneIsNoRec DEF CopyOf

LEMMA LookupIsCopy ==
  ASSUME IInv, NEW j \in Job
  PROVE  CopyOf(j, Lookup(j)) /\ Lookup(j) \in JobRec \cup {None}
BY DEF IInv, StoresHaveCopies, CopyOf, Lookup

-----------------------------------------------------------------------------
(* Goroutines of the master                                                  *)

LEMMA IdleIsGood ==
  ASSUME NEW a \in {"none", "ok", "error"}, NEW w \in BOOLEAN, a = "error" => ~w
  PROVE  LET h == [Idle EXCEPT !.answer = a, !.wrote = w] IN h \in Thr /\ Good(h)
<1> DEFINE h == [Idle EXCEPT !.answer = a, !.wrote = w]
<1>0. Idle \in Thr /\ Idle.pc = "idle" /\ Idle.op = None /\ Idle.job = None /\ Idle.val = None
      /\ Idle.round = 1 /\ Idle.ran = FALSE /\ Idle.log = 0 /\ Idle.wrote = FALSE
      /\ Idle.answer = "none"
  BY DEF Idle, Begun, Thr, PC
<1>1. h \in Thr
  BY <1>0 DEF Thr
<1>2. /\ h.pc = "idle" /\ h.op = None /\ h.job = None /\ h.val = None /\ h.round = 1
      /\ h.wrote = w /\ h.ran = FALSE /\ h.answer = a
  BY <1>0 DEF Thr
<1> HIDE DEF h
<1>3. HandOK(h)
  BY <1>2 DEF HandOK, Holding
<1>4. RanOK(h) /\ KnownJob(h)
  BY <1>2 DEF RanOK, KnownJob
<1> QED
  BY <1>1, <1>3, <1>4 DEF Good, h

LEMMA NewIsGood == Idle \in Thr /\ Good(Idle)
<1>1. Idle \in Thr
  BY DEF Idle, Begun, Thr, PC
<1>2. HandOK(Idle)
  BY DEF Idle, Begun, HandOK, Holding
<1>3. RanOK(Idle) /\ KnownJob(Idle)
  BY DEF Idle, Begun, RanOK, KnownJob
<1> QED
  BY <1>1, <1>2, <1>3 DEF Good

\* What a goroutine has in hand does not change, but for its step and its job.
Keeps(h, g) ==
  /\ h.op = g.op /\ h.job = g.job /\ h.round = g.round /\ h.log = g.log
  /\ h.wrote = g.wrote /\ h.ran = g.ran /\ h.answer = g.answer

LEMMA GotoMoves ==
  ASSUME NEW t \in Thread, thr \in [Thread -> Thr], NEW pc \in PC, NEW v \in JobRec \cup {None},
         Goto(t, pc, v)
  PROVE  \E h \in Thr : thr' = [thr EXCEPT ![t] = h] /\ h.pc = pc /\ h.val = v /\ Keeps(h, thr[t])
<1> DEFINE h == [thr[t] EXCEPT !.pc = pc, !.val = v]
<1>1. thr[t] \in Thr
  OBVIOUS
<1>2. h \in Thr /\ h.pc = pc /\ h.val = v
  BY <1>1 DEF Thr
<1>3. Keeps(h, thr[t])
  BY <1>1 DEF Thr, Keeps
<1>4. thr' = [thr EXCEPT ![t] = h]
  BY DEF Goto
<1> HIDE DEF h
<1> QED
  BY <1>2, <1>3, <1>4

LEMMA ReturnMoves ==
  ASSUME IInv, NEW t \in Thread, NEW a \in {"none", "ok", "error"}, Return(t, a),
         a = "error" => ~thr[t].wrote
  PROVE  \E h \in Thr : /\ thr' = [thr EXCEPT ![t] = h] /\ Good(h)
                        /\ h.pc = "idle" /\ h.job = None
<1> DEFINE h == [Idle EXCEPT !.answer = a, !.wrote = thr[t].wrote]
<1>1. thr[t].wrote \in BOOLEAN
  BY DEF IInv, TypeOK, Thr
<1>2. h \in Thr /\ Good(h)
  BY <1>1, IdleIsGood
<1>3. h.pc = "idle" /\ h.job = None
  BY DEF Idle, Begun
<1>4. thr' = [thr EXCEPT ![t] = h]
  BY DEF Return
<1> HIDE DEF h
<1> QED
  BY <1>2, <1>3, <1>4

\* A step of one goroutine that changes nothing but what it has in hand, and the logs.
LEMMA ThreadMoves ==
  ASSUME IInv, NEW t \in Thread, NEW h \in Thr, thr' = [thr EXCEPT ![t] = h], Good(h),
         UNCHANGED <<stores, now, todo, events, seen, starts, ops>>,
         logs' \in [Job -> Seq({"pending", "cancelled"})],
         \A j \in Job : Len(logs'[j]) >= Len(logs[j]),
         h.pc = "cancelLog" => h.log \in 1..Len(logs'[h.job])
  PROVE  IInv'
<1>1. UNCHANGED <<etcd, mongo, fate, off>>
  BY DEF stores
<1>2. /\ thr' \in [Thread -> Thr] /\ thr'[t] = h
      /\ \A u \in Thread \ {t} : thr'[u] = thr[u]
  BY DEF IInv, TypeOK
<1>3. ASSUME NEW u \in Thread, thr'[u].pc = "cancelLog"
      PROVE  thr'[u].log \in 1..Len(logs'[thr'[u].job])
  <2>1. CASE u = t
    BY <1>2, <1>3, <2>1
  <2>2. CASE u # t
    <3>1. thr'[u] = thr[u] /\ thr[u] \in Thr /\ thr[u].log \in 1..Len(logs[thr[u].job])
      BY <1>2, <1>3, <2>2 DEF IInv, TypeOK
    <3>2. thr[u].job \in Job
      BY <1>3, <3>1 DEF IInv, Good, HandOK, Thr
    <3>3. Len(logs[thr[u].job]) \in Nat /\ Len(logs'[thr[u].job]) \in Nat
      BY <3>2 DEF IInv, TypeOK
    <3> QED
      BY <3>1, <3>2, <3>3
  <2> QED
    BY <2>1, <2>2
<1>4. TypeOK'
  BY <1>1, <1>2, <1>3 DEF IInv, TypeOK
<1>5. StoresHaveCopies' /\ OffIsKnown'
  BY <1>1 DEF IInv, StoresHaveCopies, CopyOf, OffIsKnown
<1>6. ASSUME NEW u \in Thread PROVE Good(thr[u])'
  <2>1. thr'[u] = h \/ thr'[u] = thr[u]
    BY <1>2
  <2>2. Good(thr'[u])
    BY <2>1 DEF IInv
  <2> QED
    BY <1>1, <2>2 DEF Good, HandOK, RanOK, IsRunning, KnownJob, CopyOf
<1> QED
  BY <1>4, <1>5, <1>6 DEF IInv

\* The logs of a step that saves none, or one more, or cancels one.
LogsGrow ==
  /\ logs' \in [Job -> Seq({"pending", "cancelled"})]
  /\ \A j \in Job : Len(logs'[j]) >= Len(logs[j])

LEMMA LogsStay == ASSUME IInv, UNCHANGED logs PROVE LogsGrow
BY DEF IInv, TypeOK, LogsGrow

\* What is not written by a step that only looks.
OnlyLogs == UNCHANGED <<stores, now, todo, events, seen, starts, ops>>

LEMMA GotoPreserves ==
  ASSUME IInv, NEW t \in Thread, NEW pc \in (Holding \cup {"deleteEtcd"}) \ {"cancelLog"},
         NEW v \in JobRec \cup {None}, Goto(t, pc, v), OnlyLogs, LogsGrow,
         thr[t].pc \notin {"idle", "mongo", "deleteMongo"},
         CopyOf(thr[t].job, v), v # None \/ pc = "deleteEtcd",
         thr[t].round = 2 => InSecondRound(thr[t].op, pc),
         pc = "latest" => thr[t].op = "cancel",
         /\ pc \in {"select", "log", "exists", "etcd"}
         /\ thr[t].op \in {"trigger", "specific", "immediate"}
         => ~thr[t].ran,
         thr[t].op = "disable" /\ v # None => ~v.enabled
  PROVE  IInv'
<1>1. pc \in PC /\ thr \in [Thread -> Thr]
  BY DEF Holding, PC, IInv, TypeOK
<1>2. PICK h \in Thr : thr' = [thr EXCEPT ![t] = h] /\ h.pc = pc /\ h.val = v /\ Keeps(h, thr[t])
  BY <1>1, GotoMoves
<1>3. Good(thr[t]) /\ thr[t].wrote \in BOOLEAN /\ thr[t].ran \in BOOLEAN
  BY DEF IInv, TypeOK, Thr
<1>4. HandOK(h)
  BY <1>2, <1>3 DEF Good, HandOK, Keeps, Holding
<1>5. RanOK(h)
  BY <1>2, <1>3 DEF Good, RanOK, Keeps
<1>6. KnownJob(h)
  BY <1>2, <1>3 DEF Good, KnownJob, Keeps
<1>7. h.pc # "cancelLog"
  BY <1>2
<1> QED
  BY <1>2, <1>4, <1>5, <1>6, <1>7, ThreadMoves DEF Good, OnlyLogs, LogsGrow

LEMMA ReturnPreserves ==
  ASSUME IInv, NEW t \in Thread, NEW a \in {"none", "ok", "error"}, Return(t, a),
         a = "error" => ~thr[t].wrote, OnlyLogs, LogsGrow
  PROVE  IInv'
<1>1. PICK h \in Thr : thr' = [thr EXCEPT ![t] = h] /\ Good(h) /\ h.pc = "idle"
  BY ReturnMoves
<1> QED
  BY <1>1, ThreadMoves DEF OnlyLogs, LogsGrow

\* A goroutine between two steps of a call: what it has in hand.
LEMMA InHand ==
  ASSUME IInv, NEW t \in Thread, thr[t].pc # "idle"
  PROVE  /\ thr[t] \in Thr /\ Good(thr[t]) /\ thr[t].job \in Job /\ fate[thr[t].job] # "new"
         /\ now \in 1..MaxTime /\ CopyOf(thr[t].job, thr[t].val)
         /\ thr[t].val \in JobRec \cup {None}
         /\ thr[t].pc \in Holding => thr[t].val \in JobRec
         /\ thr[t].wrote \in BOOLEAN /\ thr[t].ran \in BOOLEAN
         /\ Found(t) \in JobRec \cup {None} /\ CopyOf(thr[t].job, Found(t))
<1>1. thr[t] \in Thr /\ Good(thr[t]) /\ now \in 1..MaxTime
  BY DEF IInv, TypeOK
<1>2. thr[t].job \in Job
  BY <1>1 DEF Good, HandOK, Thr
<1>3. thr[t].job # None
  BY <1>2, MasterJobsAssumption
<1> QED
  BY <1>1, <1>2, <1>3, LookupIsCopy DEF Good, HandOK, KnownJob, Thr, Found

\* A read in the first round that finds what it does not want changes nothing.
LEMMA ReadWroteNothing ==
  ASSUME IInv, NEW t \in Thread, thr[t].pc \notin {"idle", "mongo", "deleteMongo"}, thr[t].round # 2
  PROVE  ~thr[t].wrote
BY InHand DEF Good, HandOK

-----------------------------------------------------------------------------
(* The reads: what each operation begins with                                *)

\* What a read finds, and what it knows of its call.
LEMMA AtRead ==
  ASSUME IInv, NEW t \in Thread, At(t, "read"), ReadOnly
  PROVE  /\ OnlyLogs /\ LogsGrow
         /\ thr[t] \in Thr /\ Good(thr[t]) /\ thr[t].job \in Job /\ now \in 1..MaxTime
         /\ thr[t].pc \notin {"idle", "mongo", "deleteMongo"}
         /\ Found(t) \in JobRec \cup {None} /\ CopyOf(thr[t].job, Found(t))
         /\ thr[t].round = 2 => thr[t].op = "enable"
         /\ thr[t].round # 2 => ~thr[t].wrote
         /\ thr[t].op \in {"enable", "update"} => ~off[thr[t].job]
<1>1. thr[t].pc = "read"
  BY DEF At
<1>2. OnlyLogs /\ UNCHANGED logs
  BY DEF ReadOnly, Frame, OnlyLogs
<1>3. Good(thr[t]) /\ thr[t].job \in Job /\ thr[t].job # None
  BY <1>1, InHand, MasterJobsAssumption
<1>4. thr[t].round = 2 => thr[t].op = "enable"
  BY <1>1, <1>3 DEF Good, HandOK, InSecondRound
<1>5. off[thr[t].job] \in BOOLEAN /\ (thr[t].op \in {"enable", "update"} => ~off[thr[t].job])
  BY <1>3 DEF Good, KnownJob, IInv, TypeOK
<1> QED
  BY <1>1, <1>2, <1>3, <1>4, <1>5, InHand, ReadWroteNothing, LogsStay

\* A call that finds the job lets go of it, or saves it.
LEMMA ReadWriters ==
  ASSUME IInv, NEW t \in Thread, At(t, "read"), ReadOnly,
         \/ ReadUpdate(t) \/ ReadStart(t) \/ ReadStop(t) \/ ReadDisable(t)
         \/ UpdateStatus(t) \/ UpdateNextRunTime(t)
  PROVE  IInv'
<1> DEFINE v == Found(t)
<1>0. /\ OnlyLogs /\ LogsGrow /\ now \in 1..MaxTime
      /\ thr[t].pc \notin {"idle", "mongo", "deleteMongo"} /\ thr[t].round # 2 /\ ~thr[t].wrote
      /\ v \in JobRec \cup {None} /\ CopyOf(thr[t].job, v)
      /\ thr[t].op \notin {"enable", "trigger", "specific", "immediate"}
      /\ thr[t].op = "update" => ~off[thr[t].job]
  BY AtRead DEF ReadUpdate, ReadStart, ReadStop, ReadDisable, UpdateStatus, UpdateNextRunTime
<1>1. CASE Return(t, "error")
  BY <1>0, <1>1, ReturnPreserves
<1>2. ASSUME NEW w \in JobRec, v \in JobRec, Goto(t, "etcd", w) \/ Goto(t, "exists", w),
             (w.enabled => v.enabled) \/ thr[t].op = "update",
             thr[t].op = "disable" => ~w.enabled
      PROVE  IInv'
  <2>1. CopyOf(thr[t].job, w) /\ w # None
    BY <1>0, <1>2, CopyOfCopy, NoneIsNoRec
  <2>2. "etcd" \in Holding /\ "exists" \in Holding
    BY DEF Holding
  <2> QED
    BY <1>0, <1>2, <2>1, <2>2, GotoPreserves
<1> HIDE DEF v
<1>3. CASE ReadUpdate(t)
  <2>1. SUFFICES ASSUME v \in JobRec, NEW enabled \in BOOLEAN, NEW cron \in BOOLEAN,
                        Goto(t, "exists", Changed(v, enabled, cron))
                 PROVE  IInv'
    BY <1>0, <1>1, <1>3 DEF ReadUpdate, v
  <2>2. [v EXCEPT !.enabled = enabled, !.cron = cron] \in JobRec
    BY <2>1 DEF JobRec
  <2>3. Changed(v, enabled, cron) \in JobRec
    BY <1>0, <2>2, RescheduledKeeps DEF Changed
  <2> QED
    BY <1>2, <1>3, <2>1, <2>3 DEF ReadUpdate
<1>4. CASE ReadStart(t) \/ ReadStop(t) \/ UpdateStatus(t)
  <2>1. \/ Return(t, "error")
        \/ v \in JobRec /\ \E s \in Status : Goto(t, "etcd", [v EXCEPT !.status = s])
    BY <1>0, <1>4, MasterJobsAssumption DEF ReadStart, ReadStop, UpdateStatus, v, Status, Ended
  <2>2. ASSUME v \in JobRec, NEW s \in Status, Goto(t, "etcd", [v EXCEPT !.status = s]) PROVE IInv'
    <3>1. thr[t].op # "disable"
      BY <1>4 DEF ReadStart, ReadStop, UpdateStatus
    <3> QED
      BY <1>2, <2>2, <3>1, WithStatus
  <2> QED
    BY <1>1, <2>1, <2>2
<1>5. CASE ReadDisable(t)
  <2>1. \/ Return(t, "error")
        \/ v \in JobRec /\ Goto(t, "etcd", [v EXCEPT !.enabled = FALSE])
    BY <1>0, <1>5 DEF ReadDisable, v
  <2> QED
    BY <1>1, <1>2, <2>1, WithEnabled
<1>6. CASE UpdateNextRunTime(t)
  <2>1. \/ Return(t, "error")
        \/ v \in JobRec /\ Goto(t, "etcd", CalculateNextRunTime([v EXCEPT !.last = now]))
    BY <1>0, <1>6 DEF UpdateNextRunTime, v
  <2>2. ASSUME v \in JobRec
        PROVE  LET w == CalculateNextRunTime([v EXCEPT !.last = now])
               IN  w \in JobRec /\ w.enabled = v.enabled
    BY <1>0, <2>2, WithLast, CalculateKeeps
  <2>3. thr[t].op # "disable"
    BY <1>6 DEF UpdateNextRunTime
  <2> QED
    BY <1>1, <1>2, <2>1, <2>2, <2>3
<1> QED
  BY <1>3, <1>4, <1>5, <1>6

\* A job that can be run is not running.
LEMMA ReadStarters ==
  ASSUME IInv, NEW t \in Thread, At(t, "read"), ReadOnly,
         ReadTrigger(t) \/ ReadSpecific(t) \/ TriggerImmediateJob(t)
  PROVE  IInv'
<1>0. /\ OnlyLogs /\ LogsGrow /\ thr[t] \in Thr /\ Good(thr[t])
      /\ thr[t].pc \notin {"idle", "mongo", "deleteMongo"} /\ thr[t].round # 2 /\ ~thr[t].wrote
      /\ Found(t) \in JobRec \cup {None} /\ CopyOf(thr[t].job, Found(t))
      /\ thr[t].op # "disable" /\ SelectIfRunnable(t)
  BY AtRead DEF ReadTrigger, ReadSpecific, TriggerImmediateJob
<1>1. CASE Return(t, "error")
  BY <1>0, <1>1, ReturnPreserves
<1>2. CASE Found(t) # None /\ IsRunnable(Found(t)) /\ Goto(t, "select", Found(t))
  <2>1. ~IsRunning(thr[t].job)
    BY <1>2 DEF IsRunnable, IsRunning, Found, Lookup
  <2>2. ~thr[t].ran
    BY <1>0, <2>1 DEF Good, RanOK, Thr
  <2>3. "select" \in Holding
    BY DEF Holding
  <2> QED
    BY <1>0, <1>2, <2>2, <2>3, GotoPreserves
<1> QED
  BY <1>0, <1>1, <1>2 DEF SelectIfRunnable

\* RetryFailedJob becomes a trigger, which reads the job again.
LEMMA ReadRetryPreserves ==
  ASSUME IInv, NEW t \in Thread, At(t, "read"), ReadOnly, ReadRetry(t)
  PROVE  IInv'
<1>0. /\ OnlyLogs /\ LogsGrow /\ thr[t] \in Thr /\ Good(thr[t]) /\ thr[t].pc = "read"
      /\ thr[t].round # 2 /\ ~thr[t].wrote /\ thr[t].op = "retry"
  BY AtRead DEF ReadRetry, At
<1>1. CASE Return(t, "error")
  BY <1>0, <1>1, ReturnPreserves
<1>2. CASE thr' = [thr EXCEPT ![t].op = "trigger"]
  <2> DEFINE h == [thr[t] EXCEPT !.op = "trigger"]
  <2>1. h \in Thr /\ h.op = "trigger" /\ h.pc = "read" /\ h.round = thr[t].round
    BY <1>0 DEF Thr, OpKinds
  <2>2. /\ h.job = thr[t].job /\ h.val = thr[t].val /\ h.wrote = thr[t].wrote
        /\ h.ran = thr[t].ran /\ h.answer = thr[t].answer
    BY <1>0 DEF Thr
  <2>3. thr' = [thr EXCEPT ![t] = h]
    BY <1>2
  <2> HIDE DEF h
  <2>4. Good(h)
    BY <1>0, <2>1, <2>2 DEF Good, HandOK, RanOK, KnownJob, Holding
  <2> QED
    BY <1>0, <2>1, <2>3, <2>4, ThreadMoves DEF OnlyLogs, LogsGrow
<1> QED
  BY <1>1, <1>2 DEF ReadRetry

LEMMA ReadRest ==
  ASSUME IInv, NEW t \in Thread, At(t, "read"), ReadOnly,
         ReadDelete(t) \/ ReadCancel(t) \/ ReadEnable(t) \/ ReadFails(t)
  PROVE  IInv'
<1>0. /\ OnlyLogs /\ LogsGrow /\ now \in 1..MaxTime /\ thr[t] \in Thr
      /\ thr[t].pc \notin {"idle", "mongo", "deleteMongo"}
      /\ Found(t) \in JobRec \cup {None} /\ CopyOf(thr[t].job, Found(t))
      /\ thr[t].round = 2 => thr[t].op = "enable"
      /\ thr[t].round # 2 => ~thr[t].wrote
      /\ thr[t].op = "enable" => ~off[thr[t].job]
  BY AtRead
<1>1. CASE Return(t, "error") /\ thr[t].round # 2
  BY <1>0, <1>1, ReturnPreserves
<1>2. CASE Return(t, "ok")
  BY <1>0, <1>2, ReturnPreserves
<1>3. CASE thr[t].op = "delete" /\ Goto(t, "deleteEtcd", None)
  <2>1. CopyOf(thr[t].job, None)
    BY DEF CopyOf
  <2> QED
    BY <1>0, <1>3, <2>1, GotoPreserves
<1>4. CASE thr[t].op = "cancel" /\ Found(t) # None /\ Goto(t, "latest", Found(t))
  <2>1. "latest" \in Holding
    BY DEF Holding
  <2> QED
    BY <1>0, <1>4, <2>1, GotoPreserves
<1>5. ASSUME thr[t].op = "enable", Found(t) # None, NEW w \in JobRec, Goto(t, "etcd", w) PROVE IInv'
  <2>1. CopyOf(thr[t].job, w) /\ w # None
    BY <1>0, <1>5, CopyOfCopy, NoneIsNoRec
  <2>2. "etcd" \in Holding /\ InSecondRound(thr[t].op, "etcd")
    BY <1>5 DEF Holding, InSecondRound
  <2> QED
    BY <1>0, <1>5, <2>1, <2>2, GotoPreserves
<1>6. CASE ReadEnable(t)
  <2>1. Found(t) # None => EnableJob(Found(t)) \in JobRec /\ CalculateNextRunTime(Found(t)) \in JobRec
    BY <1>0, WithEnabled, CalculateKeeps DEF EnableJob
  <2> QED
    BY <1>0, <1>1, <1>2, <1>5, <1>6, <2>1 DEF ReadEnable
<1>7. CASE ReadFails(t)
  BY <1>1, <1>2, <1>7 DEF ReadFails
<1>8. CASE ReadDelete(t) \/ ReadCancel(t)
  BY <1>0, <1>1, <1>3, <1>4, <1>8 DEF ReadDelete, ReadCancel
<1> QED
  BY <1>6, <1>7, <1>8

LEMMA ReadPreserves == ASSUME IInv, NEW t \in Thread, Read(t) PROVE IInv'
BY ReadWriters, ReadStarters, ReadRetryPreserves, ReadRest DEF Read

-----------------------------------------------------------------------------
(* The steps between the first read and the save                             *)

\* What a goroutine knows between them.
LEMMA Between ==
  ASSUME IInv, NEW t \in Thread, thr[t].pc \in {"select", "log", "latest", "cancelLog", "exists"}
  PROVE  /\ thr[t] \in Thr /\ Good(thr[t]) /\ thr[t].job \in Job /\ now \in 1..MaxTime
         /\ thr[t].pc \notin {"idle", "mongo", "deleteMongo"}
         /\ thr[t].val \in JobRec /\ thr[t].val # None /\ CopyOf(thr[t].job, thr[t].val)
         /\ Found(t) \in JobRec \cup {None}
         /\ thr[t].round = 2 => (thr[t].op = "cancel" /\ thr[t].pc = "exists")
         /\ thr[t].round # 2 => ~thr[t].wrote
         /\ thr[t].op = "disable" => ~thr[t].val.enabled
         /\ thr[t].pc \in {"latest", "cancelLog"} => thr[t].op = "cancel"
         /\ thr[t].pc \in {"select", "log", "exists"} /\ thr[t].op \in {"trigger", "specific", "immediate"}
              => ~thr[t].ran
<1>1. thr[t].pc \in Holding /\ thr[t].pc # "idle"
  BY DEF Holding
<1>2. Good(thr[t]) /\ thr[t].val \in JobRec
  BY <1>1, InHand
<1>3. HandOK(thr[t]) /\ RanOK(thr[t])
  BY <1>2 DEF Good
<1>4. thr[t].round = 2 => (thr[t].op = "cancel" /\ thr[t].pc = "exists")
  BY <1>3 DEF HandOK, InSecondRound
<1> QED
  BY <1>1, <1>2, <1>3, <1>4, InHand, ReadWroteNothing, NoneIsNoRec DEF HandOK, RanOK

\* A goroutine goes on to UpdateJob, or to save, with a record made from the one in hand.
LEMMA HandOn ==
  ASSUME IInv, NEW t \in Thread, thr[t].pc \in {"select", "log", "latest", "cancelLog", "exists"},
         NEW pc \in {"exists", "etcd", "log"}, NEW w \in JobRec, Goto(t, pc, w),
         w.enabled = thr[t].val.enabled, OnlyLogs, LogsGrow,
         thr[t].round = 2 => pc = "etcd"
  PROVE  IInv'
<1>1. CopyOf(thr[t].job, w) /\ w # None
  BY Between, CopyOfCopy, NoneIsNoRec
<1>2. pc \in Holding \ {"cancelLog"}
  BY DEF Holding
<1>3. thr[t].round = 2 => InSecondRound(thr[t].op, pc)
  BY Between DEF InSecondRound
<1>4. thr[t].op \in {"trigger", "specific", "immediate"} => ~thr[t].ran
  BY Between
<1>5. thr[t].op = "disable" => ~w.enabled
  BY Between
<1>6. thr[t].pc \notin {"idle", "mongo", "deleteMongo"}
  OBVIOUS
<1> QED
  BY <1>1, <1>2, <1>3, <1>4, <1>5, <1>6, GotoPreserves

LEMMA SelectPreserves ==
  ASSUME IInv, NEW t \in Thread, SelectWorker(t) \/ SelectAndSchedule(t)
  PROVE  IInv'
<1>0. /\ thr[t].pc = "select" /\ OnlyLogs /\ LogsGrow /\ "running" \in Status
  BY LogsStay DEF SelectWorker, SelectAndSchedule, At, ReadOnly, Frame, OnlyLogs, Status
<1>1. CASE NoWorker(t)
  BY <1>0, <1>1, Between, ReturnPreserves DEF NoWorker
<1>2. CASE Goto(t, "log", thr[t].val)
  BY <1>0, <1>2, Between, HandOn
<1>3. CASE Goto(t, "exists", [thr[t].val EXCEPT !.status = "running"])
  <2>1. thr[t].round # 2
    BY <1>0, Between
  <2> QED
    BY <1>0, <1>3, <2>1, Between, WithStatus, HandOn
<1> QED
  BY <1>1, <1>2, <1>3 DEF SelectWorker, SelectAndSchedule

LEMMA GetWorkerPreserves == ASSUME IInv, NEW t \in Thread, GetWorker(t) PROVE IInv'
<1>0. /\ thr[t].pc = "select" /\ thr[t].op = "specific" /\ OnlyLogs /\ LogsGrow /\ thr[t] \in Thr
      /\ Good(thr[t]) /\ thr[t].round # 2 /\ ~thr[t].wrote
  BY LogsStay, Between DEF GetWorker, At, ReadOnly, Frame, OnlyLogs
<1>1. CASE NoWorker(t)
  BY <1>0, <1>1, ReturnPreserves DEF NoWorker
<1>2. CASE thr' = [thr EXCEPT ![t].op = "trigger", ![t].pc = "log"]
  <2> DEFINE h == [thr[t] EXCEPT !.op = "trigger", !.pc = "log"]
  <2>1. h \in Thr /\ h.op = "trigger" /\ h.pc = "log" /\ h.round = thr[t].round
    BY <1>0 DEF Thr, OpKinds, PC
  <2>2. /\ h.job = thr[t].job /\ h.val = thr[t].val /\ h.wrote = thr[t].wrote
        /\ h.ran = thr[t].ran /\ h.answer = thr[t].answer
    BY <1>0 DEF Thr
  <2>3. thr' = [thr EXCEPT ![t] = h]
    BY <1>2
  <2> HIDE DEF h
  <2>4. Good(h)
    BY <1>0, <2>1, <2>2 DEF Good, HandOK, RanOK, KnownJob, Holding
  <2> QED
    BY <1>0, <2>1, <2>3, <2>4, ThreadMoves DEF OnlyLogs, LogsGrow
<1> QED
  BY <1>1, <1>2 DEF GetWorker

LEMMA SaveLogPreserves == ASSUME IInv, NEW t \in Thread, SaveLog(t) PROVE IInv'
<1> DEFINE j == thr[t].job
<1>0. /\ thr[t].pc = "log" /\ OnlyLogs /\ j \in Job /\ thr[t].round # 2
      /\ logs \in [Job -> Seq({"pending", "cancelled"})]
  BY Between DEF SaveLog, At, Frame, OnlyLogs, IInv, TypeOK
<1>1. LogsGrow
  <2>1. /\ Append(logs[j], "pending") \in Seq({"pending", "cancelled"})
        /\ Len(Append(logs[j], "pending")) = Len(logs[j]) + 1 /\ Len(logs[j]) \in Nat
    BY <1>0
  <2>2. CASE UNCHANGED logs
    BY <2>2, LogsStay
  <2>3. CASE logs' = [logs EXCEPT ![j] = Append(logs[j], "pending")]
    <3>1. \A k \in Job : Len(logs[k]) \in Nat
      BY <1>0
    <3> QED
      BY <1>0, <2>1, <2>3, <3>1 DEF LogsGrow
  <2> QED
    BY <2>2, <2>3 DEF SaveLog
<1>2. Goto(t, "exists", Started(thr[t].val)) /\ now \in 1..MaxTime
  BY <1>0, Between DEF SaveLog
<1> QED
  BY <1>0, <1>1, <1>2, Between, StartedKeeps, HandOn

LEMMA LatestLogPreserves == ASSUME IInv, NEW t \in Thread, LatestLog(t) PROVE IInv'
<1> DEFINE n == Len(logs[thr[t].job])
<1>0. /\ thr[t].pc = "latest" /\ OnlyLogs /\ LogsGrow /\ UNCHANGED logs /\ thr[t].job \in Job
      /\ thr[t].round # 2 /\ thr[t] \in Thr /\ Good(thr[t]) /\ n \in Nat
  BY Between, LogsStay DEF LatestLog, At, ReadOnly, Frame, OnlyLogs, IInv, TypeOK
<1>1. CASE Goto(t, "exists", Cancelled(thr[t].val))
  BY <1>0, <1>1, Between, CancelledKeeps, HandOn
<1>2. CASE n > 0 /\ thr' = [thr EXCEPT ![t].pc = "cancelLog", ![t].log = n]
  <2> DEFINE h == [thr[t] EXCEPT !.pc = "cancelLog", !.log = n]
  <2>1. h \in Thr /\ h.pc = "cancelLog" /\ h.log = n
    BY <1>0 DEF Thr, PC
  <2>2. /\ h.op = thr[t].op /\ h.round = thr[t].round /\ h.job = thr[t].job /\ h.val = thr[t].val
        /\ h.wrote = thr[t].wrote /\ h.ran = thr[t].ran /\ h.answer = thr[t].answer
    BY <1>0 DEF Thr
  <2>3. thr' = [thr EXCEPT ![t] = h]
    BY <1>2
  <2>4. h.log \in 1..Len(logs'[h.job])
    BY <1>0, <1>2, <2>1, <2>2
  <2> HIDE DEF h, n
  <2>5. Good(h)
    BY <1>0, <2>1, <2>2 DEF Good, HandOK, RanOK, KnownJob, Holding, InSecondRound
  <2> QED
    BY <1>0, <2>1, <2>3, <2>4, <2>5, ThreadMoves DEF OnlyLogs, LogsGrow
<1> QED
  BY <1>1, <1>2 DEF LatestLog

LEMMA CancelLogPreserves == ASSUME IInv, NEW t \in Thread, CancelLog(t) PROVE IInv'
<1> DEFINE j == thr[t].job
           n == thr[t].log
<1>0. /\ thr[t].pc = "cancelLog" /\ OnlyLogs /\ j \in Job /\ thr[t].round # 2
      /\ logs \in [Job -> Seq({"pending", "cancelled"})] /\ n \in 1..Len(logs[j])
  BY Between DEF CancelLog, At, Frame, OnlyLogs, IInv, TypeOK
<1>1. LogsGrow
  <2>1. CASE UNCHANGED logs
    BY <2>1, LogsStay
  <2>2. CASE logs' = [logs EXCEPT ![j][n] = "cancelled"]
    <3>1. logs[j] \in Seq({"pending", "cancelled"})
      BY <1>0
    <3>2. /\ [logs[j] EXCEPT ![n] = "cancelled"] \in Seq({"pending", "cancelled"})
          /\ Len([logs[j] EXCEPT ![n] = "cancelled"]) = Len(logs[j])
      BY <1>0, <3>1, ExceptSeq
    <3>3. logs' = [logs EXCEPT ![j] = [logs[j] EXCEPT ![n] = "cancelled"]]
      BY <2>2
    <3>4. \A k \in Job : Len(logs[k]) \in Nat
      BY <1>0
    <3> QED
      BY <1>0, <3>2, <3>3, <3>4 DEF LogsGrow
  <2> QED
    BY <2>1, <2>2 DEF CancelLog
<1>2. Goto(t, "exists", Cancelled(thr[t].val))
  BY DEF CancelLog
<1> QED
  BY <1>0, <1>1, <1>2, Between, CancelledKeeps, HandOn

\* UpdateJob finds the job, or gives up: with an error in the first round only.
LEMMA ExistsPreserves == ASSUME IInv, NEW t \in Thread, Exists(t) PROVE IInv'
<1>0. /\ thr[t].pc = "exists" /\ OnlyLogs /\ LogsGrow /\ now \in 1..MaxTime
      /\ thr[t].val \in JobRec
  BY Between, LogsStay DEF Exists, At, ReadOnly, Frame, OnlyLogs
<1>1. ASSUME NEW w \in {CalculateNextRunTime(thr[t].val), thr[t].val}, Goto(t, "etcd", w)
      PROVE  IInv'
  <2>1. w \in JobRec /\ w.enabled = thr[t].val.enabled
    BY <1>0, <1>1, CalculateKeeps
  <2> QED
    BY <1>0, <1>1, <2>1, HandOn
<1>2. CASE UpdateFails(t)
  <2>1. CASE thr[t].round = 2
    BY <1>0, <1>2, <2>1, ReturnPreserves DEF UpdateFails
  <2>2. CASE thr[t].round # 2
    BY <1>0, <1>2, <2>2, Between, ReturnPreserves DEF UpdateFails
  <2> QED
    BY <2>1, <2>2
<1>3. \/ UpdateFails(t)
      \/ \E w \in {CalculateNextRunTime(thr[t].val), thr[t].val} : Goto(t, "etcd", w)
  BY DEF Exists
<1> QED
  BY <1>1, <1>2, <1>3

-----------------------------------------------------------------------------
(* The writes of etcd                                                        *)

\* Each goroutine keeps what it has in hand; a job that is written as not running was not
\* running ever since.
LEMMA WatchedKeeps ==
  ASSUME NEW ths \in [Thread -> Thr], NEW j \in Job, NEW v, NEW u \in Thread
  PROVE  LET h == Watched(ths, j, v)[u]
             g == ths[u]
         IN  /\ h \in Thr /\ h.pc = g.pc /\ h.op = g.op /\ h.job = g.job /\ h.val = g.val
             /\ h.round = g.round /\ h.log = g.log /\ h.wrote = g.wrote /\ h.answer = g.answer
             /\ h.ran => (g.ran /\ (g.job = j => v # None /\ v.status = "running"))
<1> DEFINE g == ths[u]
           ends == g.job = j /\ (v = None \/ v.status # "running")
<1>0. g \in Thr /\ g.ran \in BOOLEAN
  BY DEF Thr
<1> DEFINE f == [g EXCEPT !.ran = FALSE]
<1>1. Watched(ths, j, v)[u] = IF ends THEN f ELSE g
  BY DEF Watched
<1>2. /\ f \in Thr /\ f.pc = g.pc /\ f.op = g.op /\ f.job = g.job /\ f.val = g.val
      /\ f.round = g.round /\ f.log = g.log /\ f.wrote = g.wrote /\ f.answer = g.answer
      /\ f.ran = FALSE
  BY <1>0 DEF Thr
<1> HIDE DEF f, g
<1>3. CASE ends
  BY <1>1, <1>2, <1>3 DEF g
<1>4. CASE ~ends
  <2>1. Watched(ths, j, v)[u] = g
    BY <1>1, <1>4
  <2>2. g.job = j => v # None /\ v.status = "running"
    BY <1>4
  <2> QED
    BY <1>0, <2>1, <2>2 DEF g
<1> QED
  BY <1>3, <1>4

LEMMA WatchedIsTyped ==
  ASSUME NEW ths \in [Thread -> Thr], NEW j \in Job, NEW v
  PROVE  Watched(ths, j, v) \in [Thread -> Thr]
<1>1. \A u \in Thread : Watched(ths, j, v)[u] \in Thr
  BY WatchedKeeps
<1>2. Watched(ths, j, v) = [u \in Thread |-> Watched(ths, j, v)[u]]
  BY DEF Watched
<1> QED
  BY <1>1, <1>2

LEMMA NewEventIsCopy ==
  ASSUME NEW j \in Job, NEW v \in JobRec, CopyOf(j, v)
  PROVE  /\ NewEvent(j, v) \subseteq [job : Job, val : JobRec]
         /\ \A e \in NewEvent(j, v) : CopyOf(e.job, e.val)
BY DEF NewEvent

\* A write of etcd, by a call of the master or by a worker.
LEMMA EtcdWritten ==
  ASSUME IInv, NEW j \in Job, NEW v \in JobRec \cup {None}, CopyOf(j, v),
         NEW ths \in [Thread -> Thr], \A u \in Thread : Good(ths[u]),
         \A u \in Thread : ths[u].pc = "cancelLog" => ths[u].log \in 1..Len(logs[ths[u].job]),
         etcd' = [etcd EXCEPT ![j] = v], thr' = Watched(ths, j, v),
         events' = events \/ (v # None /\ events' = events \cup NewEvent(j, v)),
         seen' = seen \/ seen' = [seen EXCEPT ![j] = v],
         starts' \in [Job -> Nat],
         UNCHANGED <<mongo, fate, off, now, logs, todo, ops>>
  PROVE  IInv'
<1>1. etcd' \in [Job -> JobRec \cup {None}] /\ seen' \in [Job -> JobRec \cup {None}]
  BY DEF IInv, TypeOK
<1>2. /\ events' \subseteq [job : Job, val : JobRec]
      /\ \A e \in events' : CopyOf(e.job, e.val)
  <2>1. /\ events \subseteq [job : Job, val : JobRec]
        /\ \A e \in events : CopyOf(e.job, e.val)
    BY DEF IInv, TypeOK, StoresHaveCopies
  <2> QED
    BY <2>1, NewEventIsCopy
<1>3. ASSUME NEW u \in Thread
      PROVE  /\ Good(thr[u])'
             /\ thr'[u].pc = "cancelLog" => thr'[u].log \in 1..Len(logs'[thr'[u].job])
  <2> DEFINE g == ths[u]
  <2>1. /\ thr'[u] \in Thr /\ thr'[u].pc = g.pc /\ thr'[u].op = g.op /\ thr'[u].job = g.job
        /\ thr'[u].val = g.val /\ thr'[u].round = g.round /\ thr'[u].log = g.log
        /\ thr'[u].wrote = g.wrote /\ thr'[u].answer = g.answer
        /\ thr'[u].ran => (g.ran /\ (g.job = j => v # None /\ v.status = "running"))
    BY WatchedKeeps
  <2>2. Good(g) /\ (g.pc = "cancelLog" => g.log \in 1..Len(logs[g.job])) /\ g \in Thr
    OBVIOUS
  <2> HIDE DEF g
  <2>3. HandOK(thr[u])' /\ KnownJob(thr[u])'
    BY <2>1, <2>2 DEF Good, HandOK, KnownJob, CopyOf
  <2>4. ASSUME thr'[u].ran PROVE etcd'[thr'[u].job] # None /\ etcd'[thr'[u].job].status = "running"
    <3>1. g.job \in Job /\ etcd[g.job] # None /\ etcd[g.job].status = "running"
      BY <2>1, <2>2, <2>4 DEF Good, RanOK, Thr, IsRunning
    <3>2. etcd'[g.job] = IF g.job = j THEN v ELSE etcd[g.job]
      BY <3>1 DEF IInv, TypeOK
    <3> QED
      BY <2>1, <2>4, <3>1, <3>2
  <2>5. RanOK(thr[u])'
    BY <2>1, <2>2, <2>4 DEF Good, RanOK, IsRunning
  <2> QED
    BY <2>1, <2>2, <2>3, <2>5 DEF Good
<1>4. thr' \in [Thread -> Thr]
  BY WatchedIsTyped
<1>5. TypeOK'
  BY <1>1, <1>2, <1>3, <1>4 DEF IInv, TypeOK
<1>6. StoresHaveCopies'
  <2>1. \A k \in Job : CopyOf(k, etcd'[k]) /\ CopyOf(k, seen'[k])
    BY DEF IInv, StoresHaveCopies, TypeOK
  <2> QED
    BY <1>2, <2>1 DEF IInv, StoresHaveCopies, CopyOf
<1>7. OffIsKnown'
  BY DEF IInv, OffIsKnown
<1> QED
  BY <1>3, <1>5, <1>6, <1>7 DEF IInv

\* A goroutine that has just written etcd.
LEMMA WroteEtcd ==
  ASSUME IInv, NEW t \in Thread, NEW pc \in {"mongo", "deleteMongo"},
         (pc = "mongo" /\ thr[t].pc = "etcd") \/ (pc = "deleteMongo" /\ thr[t].pc = "deleteEtcd")
  PROVE  LET ths == [thr EXCEPT ![t].pc = pc, ![t].wrote = TRUE]
         IN  /\ ths \in [Thread -> Thr] /\ \A u \in Thread : Good(ths[u])
             /\ \A u \in Thread : ths[u].pc = "cancelLog" => ths[u].log \in 1..Len(logs[ths[u].job])
<1> DEFINE h == [thr[t] EXCEPT !.pc = pc, !.wrote = TRUE]
           ths == [thr EXCEPT ![t].pc = pc, ![t].wrote = TRUE]
<1>0. thr \in [Thread -> Thr] /\ thr[t] \in Thr /\ Good(thr[t])
  BY DEF IInv, TypeOK
<1>1. h \in Thr /\ h.pc = pc /\ h.wrote = TRUE
  BY <1>0 DEF Thr, PC
<1>2. /\ h.op = thr[t].op /\ h.round = thr[t].round /\ h.job = thr[t].job /\ h.val = thr[t].val
      /\ h.ran = thr[t].ran /\ h.answer = thr[t].answer
  BY <1>0 DEF Thr
<1>3. ths = [thr EXCEPT ![t] = h]
  BY <1>0
<1> HIDE DEF h, ths
<1>4. h.answer # "error"
  BY <1>0, <1>2 DEF Good, HandOK
<1>5. HandOK(h)
  BY <1>0, <1>1, <1>2, <1>4 DEF Good, HandOK, Holding, InSecondRound
<1>6. RanOK(h) /\ KnownJob(h)
  BY <1>0, <1>1, <1>2 DEF Good, RanOK, KnownJob
<1>7. \A u \in Thread : ths[u] = IF u = t THEN h ELSE thr[u]
  BY <1>0, <1>3
<1>8. ths \in [Thread -> Thr] /\ \A u \in Thread : Good(ths[u])
  BY <1>0, <1>1, <1>3, <1>5, <1>6, <1>7 DEF IInv, Good
<1>9. \A u \in Thread : ths[u].pc = "cancelLog" => ths[u].log \in 1..Len(logs[ths[u].job])
  BY <1>1, <1>7 DEF IInv, TypeOK
<1> QED
  BY <1>8, <1>9 DEF ths

LEMMA PutEtcdPreserves == ASSUME IInv, NEW t \in Thread, PutEtcd(t) PROVE IInv'
<1> DEFINE j == thr[t].job
           v == thr[t].val
           ths == [thr EXCEPT ![t].pc = "mongo", ![t].wrote = TRUE]
<1>0. /\ thr[t].pc = "etcd" /\ j \in Job /\ v \in JobRec /\ v # None /\ CopyOf(j, v)
      /\ UNCHANGED <<now, logs, todo, seen, ops>>
  BY InHand, NoneIsNoRec DEF PutEtcd, At, Frame, Holding
<1>1. CASE /\ etcd' = [etcd EXCEPT ![j] = v] /\ events' = events \cup NewEvent(j, v)
           /\ thr' = Watched(ths, j, v) /\ UNCHANGED <<mongo, fate, off>>
           /\ starts' = starts \/ starts' = [starts EXCEPT ![j] = starts[j] + 1]
  <2>1. starts' \in [Job -> Nat]
    <3>1. starts \in [Job -> Nat] /\ starts[j] + 1 \in Nat
      BY <1>0 DEF IInv, TypeOK
    <3> HIDE DEF j
    <3> QED
      BY <1>0, <1>1, <3>1
  <2>2. /\ ths \in [Thread -> Thr] /\ \A u \in Thread : Good(ths[u])
        /\ \A u \in Thread : ths[u].pc = "cancelLog" => ths[u].log \in 1..Len(logs[ths[u].job])
    BY <1>0, WroteEtcd
  <2> HIDE DEF ths, v, j
  <2> QED
    BY <1>0, <1>1, <2>1, <2>2, EtcdWritten
<1>2. CASE UpdateFails(t) /\ UNCHANGED <<stores, events, starts>>
  <2>1. OnlyLogs /\ LogsGrow
    BY <1>0, <1>2, LogsStay DEF OnlyLogs
  <2>2. CASE thr[t].round = 2
    BY <1>2, <2>1, <2>2, ReturnPreserves DEF UpdateFails
  <2>3. CASE thr[t].round # 2
    BY <1>0, <1>2, <2>1, <2>3, ReadWroteNothing, ReturnPreserves DEF UpdateFails
  <2> QED
    BY <2>2, <2>3
<1> QED
  BY <1>1, <1>2 DEF PutEtcd

LEMMA DeleteEtcdPreserves == ASSUME IInv, NEW t \in Thread, DeleteEtcd(t) PROVE IInv'
<1> DEFINE j == thr[t].job
           ths == [thr EXCEPT ![t].pc = "deleteMongo", ![t].wrote = TRUE]
<1>0. /\ thr[t].pc = "deleteEtcd" /\ j \in Job /\ CopyOf(j, None) /\ starts \in [Job -> Nat]
      /\ thr[t].round # 2
      /\ UNCHANGED <<now, logs, todo, seen, ops, mongo, fate, off, events, starts>>
  BY InHand DEF DeleteEtcd, At, Frame, CopyOf, IInv, TypeOK, Good, HandOK, InSecondRound
<1>1. CASE etcd' = [etcd EXCEPT ![j] = None] /\ thr' = Watched(ths, j, None)
  <2>2. /\ ths \in [Thread -> Thr] /\ \A u \in Thread : Good(ths[u])
        /\ \A u \in Thread : ths[u].pc = "cancelLog" => ths[u].log \in 1..Len(logs[ths[u].job])
    BY <1>0, WroteEtcd
  <2> HIDE DEF ths, j
  <2> QED
    BY <1>0, <1>1, <2>2, EtcdWritten
<1>2. CASE Return(t, "error") /\ UNCHANGED etcd
  <2>1. OnlyLogs /\ LogsGrow
    BY <1>0, <1>2, LogsStay DEF OnlyLogs, stores
  <2> QED
    BY <1>0, <1>2, <2>1, ReadWroteNothing, ReturnPreserves
<1> QED
  BY <1>1, <1>2 DEF DeleteEtcd

\* The worker writes its own copy.
LEMMA WorkerPreserves == ASSUME IInv, NEW j \in Job, WorkerStarts(j) \/ WorkerEnds(j) PROVE IInv'
<1>1. PICK s \in Status : seen[j] # None /\ Report(j, [seen[j] EXCEPT !.status = s])
  BY MasterJobsAssumption DEF WorkerStarts, WorkerEnds, Status, Ended
<1> DEFINE v == [seen[j] EXCEPT !.status = s]
<1>2. seen[j] \in JobRec /\ CopyOf(j, seen[j])
  BY <1>1 DEF IInv, TypeOK, StoresHaveCopies
<1>3. v \in JobRec /\ v.enabled = seen[j].enabled
  BY <1>2, WithStatus
<1>4. /\ thr \in [Thread -> Thr] /\ \A u \in Thread : Good(thr[u])
      /\ \A u \in Thread : thr[u].pc = "cancelLog" => thr[u].log \in 1..Len(logs[thr[u].job])
      /\ starts \in [Job -> Nat]
  BY DEF IInv, TypeOK
<1>5. /\ etcd' = [etcd EXCEPT ![j] = v] /\ seen' = [seen EXCEPT ![j] = v]
      /\ events' = events \cup NewEvent(j, v) /\ thr' = Watched(thr, j, v)
      /\ UNCHANGED <<mongo, fate, off, now, logs, todo, starts, ops>>
  BY <1>1 DEF Report
<1> HIDE DEF v
<1>6. CopyOf(j, v) /\ v # None
  BY <1>2, <1>3, CopyOfCopy, NoneIsNoRec
<1> QED
  BY <1>3, <1>4, <1>5, <1>6, EtcdWritten

-----------------------------------------------------------------------------
(* The writes of MongoDB                                                     *)

\* A step of one goroutine that changes MongoDB and what is known of a job's end.
LEMMA MongoMoves ==
  ASSUME IInv, NEW t \in Thread, NEW h \in Thr, thr' = [thr EXCEPT ![t] = h],
         HandOK(h), RanOK(h), h.pc # "cancelLog", \A u \in Thread : KnownJob(thr[u])',
         mongo' \in [Job -> JobRec \cup {None}], off' \in [Job -> BOOLEAN],
         fate' \in [Job -> {"new", "created", "deleted", "gone"}],
         UNCHANGED <<etcd, now, logs, todo, events, seen, starts>>, ops' \in 0..MaxOps,
         StoresHaveCopies', OffIsKnown'
  PROVE  IInv'
<1>1. /\ thr' \in [Thread -> Thr] /\ thr'[t] = h
      /\ \A u \in Thread \ {t} : thr'[u] = thr[u]
  BY DEF IInv, TypeOK
<1>2. \A u \in Thread : thr'[u].pc = "cancelLog" => thr'[u].log \in 1..Len(logs'[thr'[u].job])
  BY <1>1 DEF IInv, TypeOK
<1>3. TypeOK'
  BY <1>1, <1>2 DEF IInv, TypeOK
<1>4. ASSUME NEW u \in Thread PROVE Good(thr[u])'
  <2>1. HandOK(thr'[u]) /\ RanOK(thr'[u])
    BY <1>1 DEF IInv, Good
  <2> QED
    BY <2>1 DEF Good, HandOK, RanOK, IsRunning
<1> QED
  BY <1>3, <1>4 DEF IInv

\* A job is off only when nobody has a copy that says enabled, or will make one.
LEMMA OffAfter ==
  ASSUME IInv, NEW t \in Thread, thr[t].pc = "mongo", DisablingEnds(t)
  PROVE  /\ off' \in [Job -> BOOLEAN] /\ \A k \in Job : off'[k] => fate[k] # "new"
         /\ \A k \in Job :
              \/ off'[k] = off[k]
              \/ /\ k = thr[t].job /\ thr[t].op = "disable" /\ ~thr[t].val.enabled
                 /\ \A v \in {etcd[k], todo[k], seen[k]} \ {None} : ~v.enabled
                 /\ \A e \in events : e.job = k => ~e.val.enabled
                 /\ \A u \in Thread \ {t} : thr[u].job = k =>
                      (thr[u].op \notin {"enable", "update"} /\ (thr[u].val # None => ~thr[u].val.enabled))
<1> DEFINE j == thr[t].job
<1>0. /\ off \in [Job -> BOOLEAN] /\ j \in Job /\ fate[j] # "new" /\ thr[t].val \in JobRec
      /\ Good(thr[t]) /\ events \subseteq [job : Job, val : JobRec]
      /\ \A k \in Job : off[k] => fate[k] # "new"
  BY InHand DEF IInv, TypeOK, OffIsKnown, Holding
<1>1. CASE UNCHANGED off
  BY <1>0, <1>1
<1>2. CASE /\ thr[t].op = "disable"
           /\ \A v \in Copies(t, j) \cup ({etcd[j]} \ {None}) : ~v.enabled
           /\ \A u \in Thread \ {t} : thr[u].job = j => thr[u].op \notin {"enable", "update"}
           /\ off' = [off EXCEPT ![j] = TRUE]
  <2>1. /\ \A v \in {todo[j], seen[j]} \ {None} : v \in Copies(t, j)
        /\ \A e \in events : e.job = j => e.val \in Copies(t, j)
        /\ \A u \in Thread \ {t} : thr[u].job = j /\ thr[u].val # None => thr[u].val \in Copies(t, j)
    BY <1>0, NoneIsNoRec DEF Copies
  <2>2. ~thr[t].val.enabled
    BY <1>0, <1>2, NoneIsNoRec DEF Good, HandOK
  <2>3. off' \in [Job -> BOOLEAN] /\ \A k \in Job : k # j => off'[k] = off[k]
    BY <1>0, <1>2
  <2>4. \A v \in {etcd[j], todo[j], seen[j]} \ {None} : ~v.enabled
    BY <1>2, <2>1
  <2>5. \A k \in Job : off'[k] => fate[k] # "new"
    BY <1>0, <2>3
  <2> QED
    BY <1>2, <2>1, <2>2, <2>3, <2>4, <2>5
<1> QED
  BY <1>1, <1>2 DEF DisablingEnds

LEMMA SecondRoundIsThr ==
  ASSUME NEW g \in Thr, NEW pc \in PC, NEW v \in JobRec \cup {None}
  PROVE  [g EXCEPT !.pc = pc, !.round = 2, !.val = v] \in Thr
<1> DEFINE a == [g EXCEPT !.pc = pc]
           b == [a EXCEPT !.round = 2]
<1>1. a \in Thr
  BY DEF Thr
<1>2. b \in Thr
  <2> HIDE DEF a
  <2> QED
    BY <1>1 DEF Thr
<1>3. [b EXCEPT !.val = v] \in Thr
  <2> HIDE DEF b
  <2> QED
    BY <1>2 DEF Thr
<1> QED
  BY <1>3

\* What follows a save.
LEMMA SavedMoves ==
  ASSUME IInv, NEW t \in Thread, thr[t].pc = "mongo", Saved(t)
  PROVE  \E h \in Thr : /\ thr' = [thr EXCEPT ![t] = h] /\ HandOK(h) /\ RanOK(h) /\ h.pc # "cancelLog"
                        /\ h.job # None => /\ h.job = thr[t].job /\ h.op = thr[t].op
                                           /\ h.op # "disable" /\ CopyOf(h.job, h.val)
<1>0. /\ thr[t] \in Thr /\ Good(thr[t]) /\ thr[t].job \in Job /\ thr[t].job # None
      /\ thr[t].val \in JobRec /\ now \in 1..MaxTime /\ CopyOf(thr[t].job, thr[t].val)
  BY InHand, MasterJobsAssumption DEF Holding
<1>1. CASE Return(t, "ok")
  <2>1. PICK h \in Thr : thr' = [thr EXCEPT ![t] = h] /\ Good(h) /\ h.pc = "idle" /\ h.job = None
    BY <1>1, ReturnMoves
  <2> QED
    BY <2>1 DEF Good
<1>2. CASE /\ thr[t].op = "cancel"
           /\ thr' = [thr EXCEPT ![t].pc = "exists", ![t].round = 2,
                                 ![t].val = CalculateNextRunTime(@)]
  <2> DEFINE w == CalculateNextRunTime(thr[t].val)
             h == [thr[t] EXCEPT !.pc = "exists", !.round = 2, !.val = w]
  <2>1. w \in JobRec /\ CopyOf(thr[t].job, w) /\ w # None
    BY <1>0, CalculateKeeps, CopyOfCopy, NoneIsNoRec
  <2>2. thr' = [thr EXCEPT ![t] = h]
    BY <1>0, <1>2 DEF Thr
  <2> HIDE DEF w
  <2>3. h \in Thr
    <3>1. "exists" \in PC
      BY DEF PC
    <3> QED
      BY <1>0, <2>1, <3>1, SecondRoundIsThr
  <2>4. /\ h.pc = "exists" /\ h.round = 2 /\ h.val = w
        /\ h.op = thr[t].op /\ h.job = thr[t].job /\ h.wrote = thr[t].wrote
        /\ h.ran = thr[t].ran /\ h.answer = thr[t].answer
    BY <1>0 DEF Thr
  <2> HIDE DEF h
  <2>5. HandOK(h)
    BY <1>0, <1>2, <2>1, <2>3, <2>4 DEF Good, HandOK, InSecondRound
  <2>6. RanOK(h)
    BY <1>0, <1>2, <2>3, <2>4 DEF Good, RanOK
  <2> QED
    BY <1>2, <2>1, <2>2, <2>3, <2>4, <2>5, <2>6
<1>3. CASE /\ thr[t].op = "enable"
           /\ thr' = [thr EXCEPT ![t].pc = "read", ![t].round = 2, ![t].val = None]
  <2> DEFINE h == [thr[t] EXCEPT !.pc = "read", !.round = 2, !.val = None]
  <2>1. CopyOf(thr[t].job, None)
    BY DEF CopyOf
  <2>2. thr' = [thr EXCEPT ![t] = h]
    BY <1>0, <1>3 DEF Thr
  <2>3. h \in Thr
    <3>1. "read" \in PC
      BY DEF PC
    <3> QED
      BY <1>0, <3>1, SecondRoundIsThr
  <2>4. /\ h.pc = "read" /\ h.round = 2 /\ h.val = None
        /\ h.op = thr[t].op /\ h.job = thr[t].job /\ h.wrote = thr[t].wrote
        /\ h.ran = thr[t].ran /\ h.answer = thr[t].answer
    BY <1>0 DEF Thr
  <2> HIDE DEF h
  <2>5. HandOK(h) /\ RanOK(h)
    BY <1>0, <1>3, <2>3, <2>4 DEF Good, HandOK, RanOK, InSecondRound, Holding
  <2> QED
    BY <1>3, <2>1, <2>2, <2>3, <2>4, <2>5
<1> QED
  BY <1>1, <1>2, <1>3 DEF Saved

LEMMA PutMongoPreserves == ASSUME IInv, NEW t \in Thread, PutMongo(t) PROVE IInv'
<1> DEFINE j == thr[t].job
<1>0. /\ thr[t].pc = "mongo" /\ j \in Job /\ thr[t].val \in JobRec /\ Good(thr[t])
      /\ CopyOf(j, thr[t].val) /\ UNCHANGED <<etcd, fate, now, logs, todo, events, seen, starts, ops>>
  BY InHand DEF PutMongo, At, Frame, Holding
<1>1. PICK h \in Thr :
        /\ thr' = [thr EXCEPT ![t] = h] /\ HandOK(h) /\ RanOK(h) /\ h.pc # "cancelLog"
        /\ h.job # None => /\ h.job = j /\ h.op = thr[t].op
                           /\ h.op # "disable" /\ CopyOf(h.job, h.val)
  BY <1>0, SavedMoves DEF PutMongo
<1>2. /\ mongo' \in [Job -> JobRec \cup {None}]
      /\ \A k \in Job : mongo'[k] = mongo[k] \/ (k = j /\ mongo'[k] = thr[t].val)
  <2>1. mongo \in [Job -> JobRec \cup {None}]
    BY DEF IInv, TypeOK
  <2> HIDE DEF j
  <2> QED
    BY <1>0, <2>1 DEF PutMongo, j
<1>3. /\ off' \in [Job -> BOOLEAN] /\ \A k \in Job : off'[k] => fate[k] # "new"
      /\ \A k \in Job :
              \/ off'[k] = off[k]
              \/ /\ k = j /\ thr[t].op = "disable" /\ ~thr[t].val.enabled
                 /\ mongo'[k] = thr[t].val
                 /\ \A v \in {etcd[k], todo[k], seen[k]} \ {None} : ~v.enabled
                 /\ \A e \in events : e.job = k => ~e.val.enabled
                 /\ \A u \in Thread \ {t} : thr[u].job = k =>
                      (thr[u].op \notin {"enable", "update"} /\ (thr[u].val # None => ~thr[u].val.enabled))
  <2>1. CASE UNCHANGED off
    BY <2>1 DEF IInv, TypeOK, OffIsKnown
  <2>2. CASE DisablingEnds(t) /\ mongo' = [mongo EXCEPT ![thr[t].job] = thr[t].val]
    <3>1. mongo'[j] = thr[t].val
      BY <1>0, <2>2 DEF IInv, TypeOK
    <3> QED
      BY <1>0, <2>2, <3>1, OffAfter
  <2> QED
    BY <2>1, <2>2 DEF PutMongo
<1>4. StoresHaveCopies'
  <2>1. ASSUME NEW k \in Job
        PROVE  /\ CopyOf(k, etcd[k])' /\ CopyOf(k, mongo[k])' /\ CopyOf(k, todo[k])' /\ CopyOf(k, seen[k])'
    BY <1>0, <1>2, <1>3, NoneIsNoRec DEF IInv, StoresHaveCopies, CopyOf
  <2>2. ASSUME NEW e \in events PROVE CopyOf(e.job, e.val)'
    <3>1. e.job \in Job /\ CopyOf(e.job, e.val)
      BY DEF IInv, TypeOK, StoresHaveCopies
    <3> QED
      BY <1>0, <1>3, <3>1 DEF CopyOf
  <2> QED
    BY <1>0, <2>1, <2>2 DEF StoresHaveCopies
<1>5. ASSUME NEW u \in Thread PROVE KnownJob(thr[u])'
  <2>1. CASE u = t
    <3>1. thr'[u] = h
      BY <1>1, <2>1 DEF IInv, TypeOK
    <3>2. CASE h.job = None
      BY <3>1, <3>2 DEF KnownJob
    <3>3. CASE h.job # None
      <4>1. off'[j] = off[j] /\ h.job = j /\ CopyOf(h.job, h.val)
        BY <1>0, <1>1, <1>3, <3>3
      <4>2. fate[j] # "new" /\ (off[j] => h.op \notin {"enable", "update"})
        BY <1>0, <1>1, <3>3, MasterJobsAssumption DEF Good, KnownJob
      <4> QED
        BY <1>0, <3>1, <4>1, <4>2 DEF KnownJob, CopyOf
    <3> QED
      BY <3>2, <3>3
  <2>2. CASE u # t
    <3>1. thr'[u] = thr[u] /\ KnownJob(thr[u]) /\ thr[u].job \in Job \cup {None}
      BY <1>1, <2>2 DEF IInv, TypeOK, Good, Thr
    <3> QED
      BY <1>0, <1>3, <2>2, <3>1 DEF KnownJob, CopyOf
  <2> QED
    BY <2>1, <2>2
<1>6. OffIsKnown' /\ fate' \in [Job -> {"new", "created", "deleted", "gone"}] /\ ops' \in 0..MaxOps
  BY <1>0, <1>3 DEF OffIsKnown, IInv, TypeOK
<1> QED
  BY <1>0, <1>1, <1>2, <1>3, <1>4, <1>5, <1>6, MongoMoves

\* A job is gone only when nobody has a copy of it.
LEMMA DeleteMongoPreserves == ASSUME IInv, NEW t \in Thread, DeleteMongo(t) PROVE IInv'
<1> DEFINE j == thr[t].job
<1>0. /\ thr[t].pc = "deleteMongo" /\ j \in Job
      /\ UNCHANGED <<etcd, off, now, logs, todo, events, seen, starts, ops>> /\ Return(t, "ok")
  BY InHand DEF DeleteMongo, At, Frame
<1>1. PICK h \in Thr : thr' = [thr EXCEPT ![t] = h] /\ Good(h) /\ h.pc = "idle" /\ h.job = None
  BY <1>0, ReturnMoves
<1>2. /\ mongo' \in [Job -> JobRec \cup {None}]
      /\ \A k \in Job : mongo'[k] = mongo[k] \/ mongo'[k] = None
  <2>1. mongo \in [Job -> JobRec \cup {None}]
    BY DEF IInv, TypeOK
  <2> HIDE DEF j
  <2> QED
    BY <1>0, <2>1 DEF DeleteMongo, j
<1>3. /\ fate' \in [Job -> {"new", "created", "deleted", "gone"}]
      /\ \A k \in Job : \/ fate'[k] = fate[k]
                        \/ fate'[k] = "deleted"
                        \/ k = j /\ fate'[k] = "gone" /\ mongo'[k] = None /\ etcd[k] = None /\ Copies(t, k) = {}
  <2>1. fate \in [Job -> {"new", "created", "deleted", "gone"}] /\ mongo \in [Job -> JobRec \cup {None}]
    BY DEF IInv, TypeOK
  <2>2. CASE fate' = [fate EXCEPT ![j] = "deleted"]
    BY <1>0, <2>1, <2>2
  <2>3. CASE /\ fate' = [fate EXCEPT ![j] = "gone"] /\ mongo' = [mongo EXCEPT ![j] = None]
             /\ etcd[j] = None /\ Copies(t, j) = {}
    BY <1>0, <2>1, <2>3
  <2> QED
    BY <2>2, <2>3 DEF DeleteMongo
<1>4. ASSUME NEW k \in Job, Copies(t, k) = {}
      PROVE  /\ todo[k] = None /\ seen[k] = None
             /\ \A e \in events : e.job # k
             /\ \A u \in Thread \ {t} : thr[u].job = k => thr[u].val = None
  <2>1. \A v \in {todo[k], seen[k]} : v = None
    BY <1>4 DEF Copies
  <2>2. \A e \in events : e.val # None
    BY NoneIsNoRec DEF IInv, TypeOK
  <2>3. \A e \in events : e.job # k
    BY <1>4, <2>2 DEF Copies
  <2>4. \A u \in Thread \ {t} : thr[u].job = k => thr[u].val = None
    BY <1>4 DEF Copies
  <2> QED
    BY <2>1, <2>3, <2>4
<1>5. StoresHaveCopies'
  <2>1. ASSUME NEW k \in Job
        PROVE  /\ CopyOf(k, etcd[k])' /\ CopyOf(k, mongo[k])' /\ CopyOf(k, todo[k])' /\ CopyOf(k, seen[k])'
    BY <1>0, <1>2, <1>3, <1>4 DEF IInv, StoresHaveCopies, CopyOf
  <2>2. ASSUME NEW e \in events PROVE CopyOf(e.job, e.val)'
    <3>1. e.job \in Job /\ CopyOf(e.job, e.val)
      BY DEF IInv, TypeOK, StoresHaveCopies
    <3> QED
      BY <1>0, <1>3, <1>4, <3>1 DEF CopyOf
  <2> QED
    BY <1>0, <2>1, <2>2 DEF StoresHaveCopies
<1>6. ASSUME NEW u \in Thread PROVE KnownJob(thr[u])'
  <2>1. CASE u = t
    <3>1. thr'[u] = h
      BY <1>1, <2>1 DEF IInv, TypeOK
    <3> QED
      BY <1>1, <3>1 DEF KnownJob
  <2>2. CASE u # t
    <3>1. thr'[u] = thr[u] /\ KnownJob(thr[u]) /\ thr[u].job \in Job \cup {None}
      BY <1>1, <2>2 DEF IInv, TypeOK, Good, Thr
    <3> QED
      BY <1>0, <1>3, <1>4, <2>2, <3>1 DEF KnownJob, CopyOf
  <2> QED
    BY <2>1, <2>2
<1>7. OffIsKnown' /\ off' \in [Job -> BOOLEAN] /\ ops' \in 0..MaxOps
  BY <1>0, <1>3 DEF OffIsKnown, IInv, TypeOK
<1>8. HandOK(h) /\ RanOK(h) /\ h.pc # "cancelLog"
  BY <1>1 DEF Good
<1> QED
  BY <1>0, <1>1, <1>2, <1>3, <1>5, <1>6, <1>7, <1>8, MongoMoves

-----------------------------------------------------------------------------
(* The beginning of a call, and what happens around the calls                *)

\* What a goroutine has in hand when it begins.
LEMMA BeginsGood ==
  ASSUME NEW op \in OpKinds \cup {"schedule", "event"}, NEW j \in Job, NEW pc \in PC,
         NEW v \in JobRec \cup {None}, NEW r \in BOOLEAN,
         pc \in {"read", "select", "exists", "etcd"}, pc \in Holding => v # None,
         op = "disable" => v = None,
         r => IsRunning(j), pc # "read" /\ op \in {"trigger", "specific", "immediate"} => ~r
  PROVE  LET h == Begun(pc, op, j, v, r) IN h \in Thr /\ HandOK(h) /\ RanOK(h)
<1> DEFINE h == Begun(pc, op, j, v, r)
<1>1. h \in Thr
  <2>1. 1 \in 1..2 /\ 0 \in Nat /\ "none" \in {"none", "ok", "error"}
    OBVIOUS
  <2> QED
    BY <2>1 DEF Thr, Begun
<1>2. /\ h.op = op /\ h.job = j /\ h.pc = pc /\ h.val = v /\ h.round = 1
      /\ h.wrote = FALSE /\ h.ran = r /\ h.answer = "none"
  BY DEF Begun
<1>3. j # None
  BY MasterJobsAssumption
<1> HIDE DEF h
<1>4. HandOK(h)
  BY <1>2, <1>3 DEF HandOK, Holding
<1>5. RanOK(h)
  BY <1>2, <1>3 DEF RanOK
<1> QED
  BY <1>1, <1>4, <1>5 DEF h

LEMMA CallBegins ==
  ASSUME NEW c, NEW op, NEW j, NEW pc, NEW v, Call(c, op, j, pc, v)
  PROVE  /\ thr' = [thr EXCEPT ![c] = Begun(pc, op, j, v, IsRunning(j))]
         /\ ops' = ops + 1 /\ ops < MaxOps
BY Zenon DEF Call

LEMMA RequestPreserves ==
  ASSUME IInv, NEW c \in Thread, NEW op \in OpKinds, NEW j \in Job, Request(c, op, j)
  PROVE  IInv'
<1> DEFINE h == Begun("read", op, j, None, IsRunning(j))
<1>0. /\ fate[j] # "new" /\ thr' = [thr EXCEPT ![c] = h] /\ ops' = ops + 1 /\ ops < MaxOps
      /\ UNCHANGED <<etcd, mongo, fate, now, logs, todo, events, seen, starts>>
  <2>1. Call(c, op, j, "read", None)
    BY DEF Request
  <2>2. /\ fate[j] # "new"
        /\ UNCHANGED <<etcd, mongo, fate, now, logs, todo, events, seen, starts>>
    BY DEF Request
  <2>3. thr' = [thr EXCEPT ![c] = h] /\ ops' = ops + 1 /\ ops < MaxOps
    BY <2>1, CallBegins
  <2> QED
    BY <2>2, <2>3
<1>10. off' = [off EXCEPT ![j] = IF op \in {"enable", "update"} THEN FALSE ELSE off[j]]
  BY DEF Request
<1>1. IsRunning(j) \in BOOLEAN /\ "read" \in PC /\ "read" \notin Holding
  BY DEF IsRunning, PC, Holding
<1>2. h \in Thr /\ HandOK(h) /\ RanOK(h)
  BY <1>1, BeginsGood
<1>9. h.op = op /\ h.job = j /\ h.pc = "read" /\ h.val = None
  BY DEF Begun
<1> HIDE DEF h
<1>3. ops' \in 0..MaxOps
  BY <1>0, MasterJobsAssumption DEF IInv, TypeOK
<1>4. /\ off' \in [Job -> BOOLEAN] /\ \A k \in Job : off'[k] => off[k]
      /\ off'[j] => op \notin {"enable", "update"}
  BY <1>10 DEF IInv, TypeOK
<1>5. StoresHaveCopies' /\ OffIsKnown'
  <2>1. \A e \in events : e.job \in Job
    BY DEF IInv, TypeOK
  <2> QED
    BY <1>0, <1>4, <2>1 DEF IInv, StoresHaveCopies, OffIsKnown, CopyOf
<1>6. ASSUME NEW u \in Thread PROVE KnownJob(thr[u])'
  <2>1. CASE u = c
    <3>1. thr'[u] = h
      BY <1>0, <2>1 DEF IInv, TypeOK
    <3> QED
      BY <1>0, <1>4, <1>9, <3>1 DEF KnownJob, CopyOf
  <2>2. CASE u # c
    <3>1. thr'[u] = thr[u] /\ KnownJob(thr[u]) /\ thr[u].job \in Job \cup {None}
      BY <1>0, <2>2 DEF IInv, TypeOK, Good, Thr
    <3> QED
      BY <1>0, <1>4, <3>1 DEF KnownJob, CopyOf
  <2> QED
    BY <2>1, <2>2
<1>7. /\ mongo' \in [Job -> JobRec \cup {None}]
      /\ fate' \in [Job -> {"new", "created", "deleted", "gone"}]
  BY <1>0 DEF IInv, TypeOK
<1>8. h.pc # "cancelLog"
  BY <1>9
<1> QED
  BY <1>0, <1>2, <1>3, <1>4, <1>5, <1>6, <1>7, <1>8, MongoMoves

LEMMA CreatePreserves ==
  ASSUME IInv, NEW c \in Thread, NEW j \in Job, CreateJobRequest(c, j)
  PROVE  IInv'
<1>0. now \in 1..MaxTime
  BY DEF IInv, TypeOK
<1>1. PICK v \in JobRec : Call(c, "create", j, "etcd", v)
  BY <1>0, CreatedIsRec DEF CreateJobRequest
<1> DEFINE h == Begun("etcd", "create", j, v, IsRunning(j))
<1>2. /\ fate[j] = "new" /\ thr' = [thr EXCEPT ![c] = h] /\ ops' = ops + 1 /\ ops < MaxOps
      /\ fate' = [fate EXCEPT ![j] = "created"]
      /\ UNCHANGED <<etcd, mongo, off, now, logs, todo, events, seen, starts>>
  BY <1>1, CallBegins DEF CreateJobRequest
<1>3. IsRunning(j) \in BOOLEAN /\ "etcd" \in PC /\ v # None /\ "create" \in OpKinds
  BY NoneIsNoRec DEF IsRunning, PC, OpKinds
<1>4. h \in Thr /\ HandOK(h) /\ RanOK(h)
  BY <1>3, BeginsGood
<1>10. h.op = "create" /\ h.job = j /\ h.pc = "etcd" /\ h.val = v
  BY DEF Begun
<1> HIDE DEF h
<1>5. ops' \in 0..MaxOps
  BY <1>2, MasterJobsAssumption DEF IInv, TypeOK
<1>6. /\ fate' \in [Job -> {"new", "created", "deleted", "gone"}]
      /\ \A k \in Job : fate'[k] # "new" <=> (fate[k] # "new" \/ k = j)
      /\ \A k \in Job : fate'[k] = "gone" => fate[k] = "gone"
      /\ off \in [Job -> BOOLEAN] /\ ~off[j] /\ fate'[j] = "created"
  BY <1>2 DEF IInv, TypeOK, OffIsKnown
<1>7. StoresHaveCopies' /\ OffIsKnown'
  <2>1. \A e \in events : e.job \in Job
    BY DEF IInv, TypeOK
  <2> QED
    BY <1>2, <1>6, <2>1 DEF IInv, StoresHaveCopies, OffIsKnown, CopyOf
<1>8. ASSUME NEW u \in Thread PROVE KnownJob(thr[u])'
  <2>1. CASE u = c
    <3>1. thr'[u] = h
      BY <1>2, <2>1 DEF IInv, TypeOK
    <3> QED
      BY <1>2, <1>6, <1>10, <3>1 DEF KnownJob, CopyOf
  <2>2. CASE u # c
    <3>1. thr'[u] = thr[u] /\ KnownJob(thr[u]) /\ thr[u].job \in Job \cup {None}
      BY <1>2, <2>2 DEF IInv, TypeOK, Good, Thr
    <3> QED
      BY <1>2, <1>6, <3>1 DEF KnownJob, CopyOf
  <2> QED
    BY <2>1, <2>2
<1>9. mongo' \in [Job -> JobRec \cup {None}] /\ off' \in [Job -> BOOLEAN] /\ h.pc # "cancelLog"
  BY <1>2, <1>10 DEF IInv, TypeOK
<1> QED
  BY <1>2, <1>4, <1>5, <1>6, <1>7, <1>8, <1>9, MongoMoves

\* A goroutine of the master begins with one of the jobs or events that wait for it.
LEMMA GoroutineBegins ==
  ASSUME IInv, NEW t \in Thread, NEW h \in Thr, thr' = [thr EXCEPT ![t] = h], Good(h),
         h.pc # "cancelLog", UNCHANGED <<stores, now, logs, seen, starts, ops>>,
         todo' \in [Job -> JobRec \cup {None}],
         \A k \in Job : todo'[k] \in {todo[k], mongo[k], None}, events' \subseteq events
  PROVE  IInv'
<1>1. UNCHANGED <<etcd, mongo, fate, off>>
  BY DEF stores
<1>2. /\ thr' \in [Thread -> Thr] /\ thr'[t] = h
      /\ \A u \in Thread \ {t} : thr'[u] = thr[u]
  BY DEF IInv, TypeOK
<1>3. \A u \in Thread : thr'[u].pc = "cancelLog" => thr'[u].log \in 1..Len(logs'[thr'[u].job])
  BY <1>2 DEF IInv, TypeOK
<1>4. TypeOK'
  BY <1>1, <1>2, <1>3 DEF IInv, TypeOK
<1>5. StoresHaveCopies' /\ OffIsKnown'
  BY <1>1 DEF IInv, StoresHaveCopies, CopyOf, OffIsKnown
<1>6. ASSUME NEW u \in Thread PROVE Good(thr[u])'
  <2>1. Good(thr'[u])
    BY <1>2 DEF IInv
  <2> QED
    BY <1>1, <2>1 DEF Good, HandOK, RanOK, IsRunning, KnownJob, CopyOf
<1> QED
  BY <1>4, <1>5, <1>6 DEF IInv

LEMMA ScheduleJobPreserves == ASSUME IInv, NEW j \in Job, ScheduleJob(j) PROVE IInv'
<1>0. /\ Loop \in Thread /\ todo[j] # None /\ todo \in [Job -> JobRec \cup {None}]
      /\ UNCHANGED <<stores, now, logs, events, seen, starts, ops>>
      /\ todo' = [todo EXCEPT ![j] = None]
  BY DEF ScheduleJob, Thread, IInv, TypeOK
<1>1. /\ todo' \in [Job -> JobRec \cup {None}]
      /\ \A k \in Job : todo'[k] \in {todo[k], mongo[k], None}
  BY <1>0
<1>2. CASE thr' = [thr EXCEPT ![Loop] = Begun("select", "schedule", j, todo[j], FALSE)]
  <2> DEFINE h == Begun("select", "schedule", j, todo[j], FALSE)
  <2>1. "select" \in PC /\ todo[j] \in JobRec \cup {None}
    BY <1>0 DEF PC
  <2>2. h \in Thr /\ HandOK(h) /\ RanOK(h)
    BY <1>0, <2>1, BeginsGood
  <2>3. h.op = "schedule" /\ h.job = j /\ h.pc = "select" /\ h.val = todo[j]
    BY DEF Begun
  <2> HIDE DEF h
  <2>4. fate[j] # "new"
    BY <1>0 DEF IInv, StoresHaveCopies, CopyOf
  <2>5. KnownJob(h)
    BY <2>3, <2>4 DEF KnownJob, IInv, StoresHaveCopies
  <2>6. h.pc # "cancelLog" /\ Good(h)
    BY <2>2, <2>3, <2>5 DEF Good
  <2> QED
    BY <1>0, <1>1, <1>2, <2>2, <2>6, GoroutineBegins DEF h
<1>3. CASE thr' = [thr EXCEPT ![Loop] = Idle]
  <2>1. Idle \in Thr /\ Good(Idle) /\ Idle.pc # "cancelLog"
    BY NewIsGood DEF Idle, Begun
  <2> QED
    BY <1>0, <1>1, <1>3, <2>1, GoroutineBegins
<1> QED
  BY <1>2, <1>3 DEF ScheduleJob

LEMMA HandleJobEventPreserves ==
  ASSUME IInv, NEW t \in Handler, NEW e \in events, HandleJobEvent(t, e)
  PROVE  IInv'
<1> DEFINE j == e.job
           w == [e.val EXCEPT !.last = now]
           v == CalculateNextRunTime(w)
           h == Begun("exists", "event", j, v, FALSE)
<1>1. /\ j \in Job /\ e.val \in JobRec /\ now \in 1..MaxTime /\ t \in Thread
      /\ CopyOf(j, e.val)
  BY DEF IInv, TypeOK, StoresHaveCopies, Thread
<1>2. thr' = [thr EXCEPT ![t] = h]
  BY DEF HandleJobEvent
<1>3. /\ UNCHANGED <<stores, now, logs, todo, seen, starts, ops>> /\ events' \subseteq events
      /\ todo \in [Job -> JobRec \cup {None}]
  BY DEF HandleJobEvent, IInv, TypeOK
<1>4. w \in JobRec /\ w.enabled = e.val.enabled
  BY <1>1, WithLast
<1> HIDE DEF w
<1>5. v \in JobRec /\ v.enabled = e.val.enabled
  BY <1>1, <1>4, CalculateKeeps
<1> HIDE DEF v
<1>6. v # None /\ CopyOf(j, v)
  BY <1>1, <1>5, CopyOfCopy, NoneIsNoRec
<1>7. fate[j] # "new" /\ "exists" \in PC
  BY <1>5, <1>6 DEF CopyOf, PC
<1>8. h \in Thr /\ HandOK(h) /\ RanOK(h)
  BY <1>1, <1>5, <1>6, <1>7, BeginsGood
<1>9. h.op = "event" /\ h.job = j /\ h.pc = "exists" /\ h.val = v
  BY DEF Begun
<1> HIDE DEF h, j
<1>10. KnownJob(h)
  BY <1>6, <1>7, <1>9 DEF KnownJob
<1>11. h.pc # "cancelLog" /\ Good(h)
  BY <1>8, <1>9, <1>10 DEF Good
<1>12. \A k \in Job : todo'[k] \in {todo[k], mongo[k], None}
  BY <1>3
<1>13. todo' \in [Job -> JobRec \cup {None}]
  BY <1>3
<1> QED
  BY <1>1, <1>2, <1>3, <1>8, <1>11, <1>12, <1>13, GoroutineBegins

\* What happens while no goroutine of the master moves
LEMMA OthersPreserve ==
  ASSUME IInv, ListDueJobs \/ Tick \/ (\E j \in Job : WorkerSees(j)) \/ UNCHANGED vars
  PROVE  IInv'
<1>1. /\ UNCHANGED <<etcd, mongo, fate, off, logs, thr, events, starts, ops>>
      /\ now' \in 1..MaxTime
      /\ todo' \in [Job -> JobRec \cup {None}] /\ seen' \in [Job -> JobRec \cup {None}]
      /\ \A k \in Job : todo'[k] \in {todo[k], mongo[k], None} /\ seen'[k] \in {seen[k], etcd[k]}
  <2>0. /\ now \in 1..MaxTime /\ mongo \in [Job -> JobRec \cup {None}]
        /\ etcd \in [Job -> JobRec \cup {None}]
        /\ todo \in [Job -> JobRec \cup {None}] /\ seen \in [Job -> JobRec \cup {None}]
    BY DEF IInv, TypeOK
  <2>1. CASE ListDueJobs
    BY <2>0, <2>1 DEF ListDueJobs, stores
  <2>2. CASE Tick
    BY <2>0, <2>2, MasterJobsAssumption DEF Tick, stores
  <2>3. CASE \E j \in Job : WorkerSees(j)
    BY <2>0, <2>3 DEF WorkerSees, stores
  <2>4. CASE UNCHANGED vars
    BY <2>0, <2>4 DEF vars, stores
  <2> QED
    BY <2>1, <2>2, <2>3, <2>4
<1>2. TypeOK'
  BY <1>1 DEF IInv, TypeOK
<1>3. StoresHaveCopies' /\ OffIsKnown'
  BY <1>1 DEF IInv, StoresHaveCopies, CopyOf, OffIsKnown
<1>4. \A u \in Thread : Good(thr[u])'
  BY <1>1 DEF IInv, Good, HandOK, RanOK, IsRunning, KnownJob, CopyOf
<1> QED
  BY <1>2, <1>3, <1>4 DEF IInv

LEMMA CrashPreserves == ASSUME IInv, Crash PROVE IInv'
<1>1. /\ UNCHANGED <<etcd, mongo, fate, off, now, logs, seen, starts>>
      /\ thr' = [t \in Thread |-> Idle] /\ todo' = [j \in Job |-> None] /\ events' = {}
  BY DEF Crash, stores
<1>2. ops' \in 0..MaxOps
  BY MasterJobsAssumption DEF Crash, IInv, TypeOK
<1>3. Idle \in Thr /\ Good(Idle) /\ Idle.pc = "idle"
  BY NewIsGood DEF Idle, Begun
<1> HIDE DEF Idle
<1>4. thr' \in [Thread -> Thr] /\ \A u \in Thread : thr'[u] = Idle
  BY <1>1, <1>3
<1>5. TypeOK'
  BY <1>1, <1>2, <1>3, <1>4 DEF IInv, TypeOK
<1>6. StoresHaveCopies' /\ OffIsKnown'
  BY <1>1 DEF IInv, StoresHaveCopies, CopyOf, OffIsKnown
<1>7. ASSUME NEW u \in Thread PROVE Good(thr[u])'
  <2>1. Good(thr'[u])
    BY <1>3, <1>4
  <2> QED
    BY <1>1, <2>1 DEF Good, HandOK, RanOK, IsRunning, KnownJob, CopyOf
<1> QED
  BY <1>5, <1>6, <1>7 DEF IInv

-----------------------------------------------------------------------------
(* The inductive invariant                                                   *)

LEMMA InitIInv == Init => IInv
<1> SUFFICES ASSUME Init PROVE IInv
  OBVIOUS
<1>1. Idle \in Thr /\ Good(Idle) /\ Idle.pc = "idle"
  BY NewIsGood DEF Idle, Begun
<1>2. thr \in [Thread -> Thr] /\ \A u \in Thread : thr[u] = Idle
  BY <1>1 DEF Init
<1>3. TypeOK
  BY <1>1, <1>2, MasterJobsAssumption DEF Init, TypeOK
<1>4. StoresHaveCopies /\ OffIsKnown
  BY DEF Init, StoresHaveCopies, CopyOf, OffIsKnown
<1> QED
  BY <1>1, <1>2, <1>3, <1>4 DEF IInv

LEMMA BeginPreserves == ASSUME IInv, NEW c \in Caller, NEW j \in Job, Begin(c, j) PROVE IInv'
<1>1. c \in Thread
  BY DEF Thread
<1>2. CASE CreateJobRequest(c, j)
  BY <1>1, <1>2, CreatePreserves
<1>3. CASE \E op \in OpKinds : Request(c, op, j)
  BY <1>1, <1>3, RequestPreserves
<1>4. Begin(c, j) => CreateJobRequest(c, j) \/ \E op \in OpKinds : Request(c, op, j)
  BY DEF Begin, UpdateJobRequest, DeleteJobRequest, TriggerJobRequest, KillJobRequest,
         EnableJobRequest, DisableJobRequest, LibraryCall, OpKinds
<1> QED
  BY <1>2, <1>3, <1>4

LEMMA StepPreserves == ASSUME IInv, NEW t \in Thread, Step(t) PROVE IInv'
BY ReadPreserves, SelectPreserves, GetWorkerPreserves, SaveLogPreserves, LatestLogPreserves,
   CancelLogPreserves, ExistsPreserves, PutEtcdPreserves, PutMongoPreserves,
   DeleteEtcdPreserves, DeleteMongoPreserves
   DEF Step

LEMMA NextPreserves == IInv /\ [Next]_vars => IInv'
<1> SUFFICES ASSUME IInv, [Next]_vars PROVE IInv'
  OBVIOUS
<1>1. ASSUME NEW c \in Caller, NEW j \in Job, Begin(c, j) PROVE IInv'
  BY <1>1, BeginPreserves
<1>2. ASSUME NEW t \in Thread, Step(t) PROVE IInv'
  BY <1>2, StepPreserves
<1>3. CASE SchedulerStep
  BY <1>3, OthersPreserve, ScheduleJobPreserves DEF SchedulerStep
<1>4. CASE EventStep
  BY <1>4, HandleJobEventPreserves DEF EventStep
<1>5. ASSUME NEW j \in Job, WorkerStep(j) PROVE IInv'
  BY <1>5, OthersPreserve, WorkerPreserves DEF WorkerStep
<1>6. CASE Tick
  BY <1>6, OthersPreserve
<1>7. CASE Crash
  BY <1>7, CrashPreserves
<1>8. CASE UNCHANGED vars
  BY <1>8, OthersPreserve
<1> QED
  BY <1>1, <1>2, <1>3, <1>4, <1>5, <1>6, <1>7, <1>8 DEF Next

LEMMA Inductive == Spec => []IInv
BY InitIInv, NextPreserves, PTL DEF Spec

-----------------------------------------------------------------------------
(* Starts and their logs                                                     *)

\* No goroutine is a step behind a log that it was not behind before.
NoneJoins ==
  \A u \in Thread : Starting(thr'[u]) => Starting(thr[u]) /\ thr'[u].job = thr[u].job

\* The logs of a job are at least as many as before.
LogsAreKept == \A j \in Job : Len(logs'[j]) \in Nat /\ Len(logs'[j]) >= Len(logs[j])

LEMMA Counted ==
  ASSUME IInv, NEW j \in Job
  PROVE  /\ IsFiniteSet(UnderWay(j)) /\ Cardinality(UnderWay(j)) \in Nat
         /\ starts[j] \in Nat /\ Len(logs[j]) \in Nat
<1>1. IsFiniteSet(Thread)
  BY MasterJobsAssumption, FS_Union, FS_Singleton DEF Thread
<1>2. UnderWay(j) \subseteq Thread
  BY DEF UnderWay
<1> QED
  BY <1>1, <1>2, FS_Subset, FS_CardinalityType DEF IInv, TypeOK

LEMMA NoneJoinsKeeps ==
  ASSUME IInv, StartsBehindLogs, NoneJoins, LogsAreKept, UNCHANGED starts
  PROVE  StartsBehindLogs'
<1> SUFFICES ASSUME NEW j \in Job
             PROVE  starts'[j] + Cardinality(UnderWay(j)') <= Len(logs'[j])
  BY DEF StartsBehindLogs
<1>1. UnderWay(j)' \subseteq UnderWay(j)
  BY DEF NoneJoins, UnderWay
<1>2. /\ Cardinality(UnderWay(j)') \in Nat
      /\ Cardinality(UnderWay(j)') <= Cardinality(UnderWay(j))
  BY <1>1, Counted, FS_Subset, FS_CardinalityType
<1>3. starts[j] + Cardinality(UnderWay(j)) <= Len(logs[j])
  BY DEF StartsBehindLogs
<1> QED
  BY <1>2, <1>3, Counted DEF LogsAreKept

LEMMA GotoFields ==
  ASSUME IInv, NEW t \in Thread, NEW pc, NEW v, Goto(t, pc, v)
  PROVE  /\ \A u \in Thread \ {t} : thr'[u] = thr[u]
         /\ thr'[t].pc = pc /\ thr'[t].op = thr[t].op /\ thr'[t].job = thr[t].job
BY DEF Goto, IInv, TypeOK, Thr

LEMMA ReturnFields ==
  ASSUME IInv, NEW t \in Thread, NEW a, Return(t, a)
  PROVE  NoneJoins
<1>1. thr' = [thr EXCEPT ![t] = [Idle EXCEPT !.answer = a, !.wrote = thr[t].wrote]]
  BY DEF Return
<1>2. thr'[t].pc = "idle" /\ \A u \in Thread \ {t} : thr'[u] = thr[u]
  BY <1>1 DEF IInv, TypeOK, Idle, Begun
<1> QED
  BY <1>2 DEF NoneJoins, Starting

\* Where a goroutine goes that was not behind a log
LEMMA GotoNoneJoins ==
  ASSUME IInv, NEW t \in Thread, NEW pc, NEW v, Goto(t, pc, v),
         pc \notin {"exists", "etcd"} \/ thr[t].op # "trigger" \/ Starting(thr[t])
  PROVE  NoneJoins
BY GotoFields DEF NoneJoins, Starting

LEMMA LogsStayKept == ASSUME IInv, UNCHANGED logs PROVE LogsAreKept
BY DEF IInv, TypeOK, LogsAreKept

LEMMA ReadNoneJoins == ASSUME IInv, NEW t \in Thread, Read(t) PROVE NoneJoins
<1>1. CASE \E a \in {"ok", "error"} : Return(t, a)
  BY <1>1, ReturnFields
<1>2. CASE \E pc, v : Goto(t, pc, v) /\ (pc \in {"select", "latest", "deleteEtcd"} \/ thr[t].op # "trigger")
  BY <1>2, GotoNoneJoins
<1>3. CASE thr' = [thr EXCEPT ![t].op = "trigger"] /\ At(t, "read")
  <2>1. thr'[t].pc = "read" /\ \A u \in Thread \ {t} : thr'[u] = thr[u]
    BY <1>3 DEF IInv, TypeOK, Thr, At
  <2> QED
    BY <2>1 DEF NoneJoins, Starting
<1>4. CASE ReadUpdate(t) \/ ReadDelete(t)
  BY <1>1, <1>2, <1>4 DEF ReadUpdate, ReadDelete
<1>5. CASE ReadTrigger(t) \/ ReadSpecific(t) \/ TriggerImmediateJob(t) \/ ReadRetry(t)
  BY <1>1, <1>2, <1>3, <1>5
     DEF ReadTrigger, ReadSpecific, TriggerImmediateJob, SelectIfRunnable, ReadRetry, Read
<1>6. CASE ReadCancel(t) \/ ReadStart(t) \/ ReadStop(t)
  BY <1>1, <1>2, <1>6 DEF ReadCancel, ReadStart, ReadStop
<1>7. CASE ReadEnable(t) \/ ReadDisable(t)
  BY <1>1, <1>2, <1>7 DEF ReadEnable, ReadDisable
<1>8. CASE UpdateStatus(t) \/ UpdateNextRunTime(t)
  BY <1>1, <1>2, <1>8 DEF UpdateStatus, UpdateNextRunTime
<1>9. CASE ReadFails(t)
  BY <1>1, <1>9 DEF ReadFails
<1> QED
  BY <1>4, <1>5, <1>6, <1>7, <1>8, <1>9 DEF Read

\* The steps between the read and the writes, but for the one that saves a log
LEMMA BetweenNoneJoins ==
  ASSUME IInv, NEW t \in Thread,
         SelectWorker(t) \/ GetWorker(t) \/ SelectAndSchedule(t) \/ LatestLog(t) \/ CancelLog(t)
           \/ Exists(t)
  PROVE  NoneJoins
<1>0. thr \in [Thread -> Thr] /\ thr[t] \in Thr /\ HandOK(thr[t])
  BY DEF IInv, TypeOK, Good
<1>1. CASE \E a \in {"ok", "error"} : Return(t, a)
  BY <1>1, ReturnFields
<1>2. CASE \E pc, v : /\ Goto(t, pc, v)
                     /\ \/ pc \notin {"exists", "etcd"} \/ thr[t].op # "trigger"
                        \/ Starting(thr[t])
  BY <1>2, GotoNoneJoins
<1>3. CASE SelectWorker(t) \/ SelectAndSchedule(t)
  BY <1>1, <1>2, <1>3 DEF SelectWorker, SelectAndSchedule, NoWorker
<1>4. CASE GetWorker(t)
  <2>1. CASE thr' = [thr EXCEPT ![t].op = "trigger", ![t].pc = "log"]
    <3>1. thr'[t].pc = "log" /\ \A u \in Thread \ {t} : thr'[u] = thr[u]
      BY <1>0, <2>1 DEF Thr
    <3> QED
      BY <3>1 DEF NoneJoins, Starting
  <2> QED
    BY <1>1, <1>4, <2>1 DEF GetWorker, NoWorker
<1>5. CASE LatestLog(t)
  <2>1. CASE thr' = [thr EXCEPT ![t].pc = "cancelLog", ![t].log = Len(logs[thr[t].job])]
    <3>1. thr'[t].pc = "cancelLog" /\ \A u \in Thread \ {t} : thr'[u] = thr[u]
      BY <1>0, <2>1 DEF Thr
    <3> QED
      BY <3>1 DEF NoneJoins, Starting
  <2>2. thr[t].op = "cancel"
    BY <1>0, <1>5 DEF LatestLog, At, HandOK
  <2> QED
    BY <1>2, <1>5, <2>1, <2>2 DEF LatestLog
<1>6. CASE CancelLog(t)
  <2>1. thr[t].op = "cancel"
    BY <1>0, <1>6 DEF CancelLog, At, HandOK
  <2> QED
    BY <1>2, <1>6, <2>1 DEF CancelLog
<1>7. CASE Exists(t)
  <2>1. thr[t].op # "trigger" \/ Starting(thr[t])
    BY <1>7 DEF Exists, At, Starting
  <2> QED
    BY <1>1, <1>2, <1>7, <2>1 DEF Exists, UpdateFails
<1> QED
  BY <1>3, <1>4, <1>5, <1>6, <1>7

\* The writes of MongoDB, and the deletion
LEMMA MongoNoneJoins ==
  ASSUME IInv, NEW t \in Thread, PutMongo(t) \/ DeleteEtcd(t) \/ DeleteMongo(t)
  PROVE  NoneJoins
<1>0. thr \in [Thread -> Thr] /\ thr[t] \in Thr /\ thr[t].job \in Job \cup {None}
  BY DEF IInv, TypeOK, Thr
<1>1. CASE \E a \in {"ok", "error"} : Return(t, a)
  BY <1>1, ReturnFields
<1>2. CASE PutMongo(t)
  <2>1. CASE /\ thr[t].op = "cancel"
             /\ thr' = [thr EXCEPT ![t].pc = "exists", ![t].round = 2,
                                   ![t].val = CalculateNextRunTime(@)]
    <3>1. thr'[t].op = "cancel" /\ \A u \in Thread \ {t} : thr'[u] = thr[u]
      BY <1>0, <2>1 DEF Thr
    <3> QED
      BY <3>1 DEF NoneJoins, Starting
  <2>2. CASE thr' = [thr EXCEPT ![t].pc = "read", ![t].round = 2, ![t].val = None]
    <3>1. thr'[t].pc = "read" /\ \A u \in Thread \ {t} : thr'[u] = thr[u]
      BY <1>0, <2>2 DEF Thr
    <3> QED
      BY <3>1 DEF NoneJoins, Starting
  <2> QED
    BY <1>1, <1>2, <2>1, <2>2 DEF PutMongo, Saved
<1>3. CASE DeleteMongo(t)
  BY <1>1, <1>3 DEF DeleteMongo
<1>4. CASE DeleteEtcd(t)
  <2> DEFINE ths == [thr EXCEPT ![t].pc = "deleteMongo", ![t].wrote = TRUE]
             j == thr[t].job
  <2>1. CASE thr' = Watched(ths, j, None)
    <3>1. ths \in [Thread -> Thr]
      BY <1>0 DEF Thr, PC
    <3>2. ths[t].pc = "deleteMongo" /\ \A u \in Thread \ {t} : ths[u] = thr[u]
      BY <1>0 DEF Thr
    <3>3. j \in Job
      BY <1>4, InHand DEF DeleteEtcd, At
    <3> HIDE DEF ths, j
    <3>4. \A u \in Thread : thr'[u].pc = ths[u].pc /\ thr'[u].op = ths[u].op /\ thr'[u].job = ths[u].job
      BY <2>1, <3>1, <3>3, WatchedKeeps
    <3> QED
      BY <3>2, <3>4 DEF NoneJoins, Starting
  <2> QED
    BY <1>1, <1>4, <2>1 DEF DeleteEtcd
<1> QED
  BY <1>2, <1>3, <1>4

\* A start joins those under way when its log is saved ...
LEMMA SaveLogKeepsLogged ==
  ASSUME IInv, StartsBehindLogs, NEW t \in Thread, SaveLog(t), "LogFails" \notin Env
  PROVE  StartsBehindLogs'
<1> SUFFICES ASSUME NEW j \in Job
             PROVE  starts'[j] + Cardinality(UnderWay(j)') <= Len(logs'[j])
  BY DEF StartsBehindLogs
<1> DEFINE k == thr[t].job
<1>0. k \in Job /\ logs \in [Job -> Seq({"pending", "cancelled"})]
  BY InHand DEF SaveLog, At, IInv, TypeOK
<1>1. /\ logs' = [logs EXCEPT ![k] = Append(logs[k], "pending")] /\ UNCHANGED starts
      /\ Goto(t, "exists", Started(thr[t].val))
  BY DEF SaveLog
<1>2. /\ \A u \in Thread \ {t} : thr'[u] = thr[u]
      /\ thr'[t].job = k
  BY <1>1, GotoFields
<1>3. /\ Len(logs'[j]) = Len(logs[j]) + (IF j = k THEN 1 ELSE 0)
  <2>1. Len(Append(logs[k], "pending")) = Len(logs[k]) + 1
    BY <1>0
  <2> HIDE DEF k
  <2> QED
    BY <1>0, <1>1, <2>1
<1> HIDE DEF k
<1>4. UnderWay(j)' \subseteq (IF j = k THEN UnderWay(j) \cup {t} ELSE UnderWay(j))
  BY <1>2 DEF UnderWay
<1>5. starts[j] + Cardinality(UnderWay(j)) <= Len(logs[j])
  BY DEF StartsBehindLogs
<1>6. CASE j = k
  <2>1. /\ Cardinality(UnderWay(j)') \in Nat
        /\ Cardinality(UnderWay(j)') <= Cardinality(UnderWay(j) \cup {t})
    BY <1>4, <1>6, Counted, FS_AddElement, FS_Subset, FS_CardinalityType
  <2>2. Cardinality(UnderWay(j) \cup {t}) \in Nat /\ Cardinality(UnderWay(j)) \in Nat
        /\ Cardinality(UnderWay(j) \cup {t}) <= Cardinality(UnderWay(j)) + 1
    <3>1. IsFiniteSet(UnderWay(j)) /\ Cardinality(UnderWay(j)) \in Nat
      BY Counted
    <3>2. Cardinality(UnderWay(j) \cup {t})
            = IF t \in UnderWay(j) THEN Cardinality(UnderWay(j)) ELSE Cardinality(UnderWay(j)) + 1
      BY <3>1, FS_AddElement
    <3> QED
      BY <3>1, <3>2
  <2> QED
    BY <1>1, <1>3, <1>5, <1>6, <2>1, <2>2, Counted
<1>7. CASE j # k
  <2>1. /\ Cardinality(UnderWay(j)') \in Nat
        /\ Cardinality(UnderWay(j)') <= Cardinality(UnderWay(j))
    BY <1>4, <1>7, Counted, FS_Subset, FS_CardinalityType
  <2> QED
    BY <1>1, <1>3, <1>5, <1>7, <2>1, Counted
<1> QED
  BY <1>6, <1>7

\* ... and leaves them when it is counted.
LEMMA PutEtcdKeepsLogged ==
  ASSUME IInv, StartsBehindLogs, NEW t \in Thread, PutEtcd(t)
  PROVE  StartsBehindLogs'
<1> DEFINE k == thr[t].job
           v == thr[t].val
           ths == [thr EXCEPT ![t].pc = "mongo", ![t].wrote = TRUE]
<1>0. /\ k \in Job /\ At(t, "etcd") /\ UNCHANGED logs /\ LogsAreKept
      /\ thr \in [Thread -> Thr] /\ thr[t] \in Thr /\ starts \in [Job -> Nat]
  BY InHand, LogsStayKept DEF PutEtcd, At, IInv, TypeOK
<1>1. CASE UpdateFails(t) /\ UNCHANGED starts
  BY <1>0, <1>1, ReturnFields, NoneJoinsKeeps DEF UpdateFails
<1>2. CASE /\ thr' = Watched(ths, k, v)
           /\ starts' = IF thr[t].op = "trigger" THEN [starts EXCEPT ![k] = @ + 1] ELSE starts
  <2>1. ths \in [Thread -> Thr]
    BY <1>0 DEF Thr, PC
  <2>2. ths[t].pc = "mongo" /\ \A u \in Thread \ {t} : ths[u] = thr[u]
    BY <1>0 DEF Thr
  <2> HIDE DEF ths, v, k
  <2>3. \A u \in Thread : thr'[u].pc = ths[u].pc /\ thr'[u].op = ths[u].op /\ thr'[u].job = ths[u].job
    BY <1>0, <1>2, <2>1, WatchedKeeps
  <2>4. NoneJoins /\ \A j \in Job : UnderWay(j)' \subseteq UnderWay(j) \ {t}
    BY <2>2, <2>3 DEF NoneJoins, Starting, UnderWay
  <2>5. CASE thr[t].op # "trigger"
    BY <1>0, <1>2, <2>4, <2>5, NoneJoinsKeeps
  <2>6. CASE thr[t].op = "trigger"
    <3> SUFFICES ASSUME NEW j \in Job
                 PROVE  starts'[j] + Cardinality(UnderWay(j)') <= Len(logs'[j])
      BY DEF StartsBehindLogs
    <3>1. starts[j] + Cardinality(UnderWay(j)) <= Len(logs[j])
      BY DEF StartsBehindLogs
    <3>2. starts'[j] = starts[j] + (IF j = k THEN 1 ELSE 0)
      BY <1>0, <1>2, <2>6
    <3>3. j = k => t \in UnderWay(j)
      BY <1>0, <2>6 DEF UnderWay, Starting, At, k
    <3>4. IsFiniteSet(UnderWay(j) \ {t}) /\ Cardinality(UnderWay(j) \ {t}) \in Nat
      BY Counted, FS_RemoveElement, FS_CardinalityType
    <3>5. /\ Cardinality(UnderWay(j)') \in Nat
          /\ Cardinality(UnderWay(j)') <= Cardinality(UnderWay(j) \ {t})
      BY <2>4, <3>4, FS_Subset, FS_CardinalityType
    <3>6. Cardinality(UnderWay(j) \ {t})
            = IF t \in UnderWay(j) THEN Cardinality(UnderWay(j)) - 1 ELSE Cardinality(UnderWay(j))
      BY Counted, FS_RemoveElement
    <3> QED
      BY <1>0, <3>1, <3>2, <3>3, <3>4, <3>5, <3>6, Counted
  <2> QED
    BY <2>5, <2>6
<1> QED
  BY <1>1, <1>2 DEF PutEtcd

\* What begins, or happens around the calls, is behind no log.
LEMMA BeginNoneJoins ==
  ASSUME IInv, NEW t \in Thread, NEW h, thr' = [thr EXCEPT ![t] = h],
         h.pc \notin {"exists", "etcd"} \/ h.op # "trigger"
  PROVE  NoneJoins
<1>1. thr'[t] = h /\ \A u \in Thread \ {t} : thr'[u] = thr[u]
  BY DEF IInv, TypeOK
<1> QED
  BY <1>1 DEF NoneJoins, Starting

LEMMA OthersNoneJoin ==
  ASSUME IInv,
         \/ \E c \in Caller, j \in Job : Begin(c, j)
         \/ SchedulerStep \/ EventStep
         \/ \E j \in Job : WorkerStep(j)
         \/ Tick \/ Crash \/ UNCHANGED vars
  PROVE  NoneJoins /\ LogsAreKept /\ UNCHANGED starts
<1>1. CASE \E c \in Caller, j \in Job : Begin(c, j)
  <2>1. PICK c \in Caller, j \in Job :
          \/ CreateJobRequest(c, j)
          \/ \E op \in OpKinds : Request(c, op, j)
    BY <1>1 DEF Begin, UpdateJobRequest, DeleteJobRequest, TriggerJobRequest, KillJobRequest,
                EnableJobRequest, DisableJobRequest, LibraryCall, OpKinds
  <2>2. UNCHANGED logs /\ UNCHANGED starts
    BY <2>1 DEF CreateJobRequest, Request
  <2>3. PICK op, pc, v : Call(c, op, j, pc, v) /\ (op = "create" \/ pc = "read")
    BY <2>1 DEF CreateJobRequest, Request
  <2> DEFINE h == Begun(pc, op, j, v, IsRunning(j))
  <2>4. thr' = [thr EXCEPT ![c] = h]
    BY <2>3, CallBegins
  <2>5. h.pc = pc /\ h.op = op
    BY DEF Begun
  <2> HIDE DEF h
  <2> QED
    BY <2>2, <2>3, <2>4, <2>5, BeginNoneJoins, LogsStayKept DEF Thread
<1>2. CASE EventStep
  <2>1. PICK t \in Handler, e \in events : HandleJobEvent(t, e)
    BY <1>2 DEF EventStep
  <2>2. UNCHANGED logs /\ UNCHANGED starts
    BY <2>1 DEF HandleJobEvent
  <2> DEFINE h == Begun("exists", "event", e.job,
                        CalculateNextRunTime([e.val EXCEPT !.last = now]), FALSE)
  <2>3. thr' = [thr EXCEPT ![t] = h]
    BY <2>1 DEF HandleJobEvent
  <2>4. h.op = "event"
    BY DEF Begun
  <2> HIDE DEF h
  <2> QED
    BY <2>2, <2>3, <2>4, BeginNoneJoins, LogsStayKept DEF Thread
<1>3. CASE \E j \in Job : ScheduleJob(j)
  <2>1. PICK j \in Job : ScheduleJob(j)
    BY <1>3
  <2>2. UNCHANGED logs /\ UNCHANGED starts /\ Loop \in Thread
    BY <2>1 DEF ScheduleJob, Thread
  <2>3. PICK h : /\ h \in {Begun("select", "schedule", j, todo[j], FALSE), Idle}
                 /\ thr' = [thr EXCEPT ![Loop] = h]
    BY <2>1, Zenon DEF ScheduleJob
  <2>4. h.pc \in {"select", "idle"}
    BY <2>3 DEF Begun, Idle
  <2> QED
    BY <2>2, <2>3, <2>4, BeginNoneJoins, LogsStayKept
<1>4. CASE \E j \in Job : WorkerStarts(j) \/ WorkerEnds(j)
  <2>0. PICK j \in Job : \E v : Report(j, v)
    BY <1>4 DEF WorkerStarts, WorkerEnds
  <2>1. PICK v : Report(j, v)
    BY <2>0
  <2>2. UNCHANGED logs /\ UNCHANGED starts /\ thr' = Watched(thr, j, v) /\ thr \in [Thread -> Thr]
    BY <2>1 DEF Report, IInv, TypeOK
  <2>3. \A u \in Thread : thr'[u].pc = thr[u].pc /\ thr'[u].op = thr[u].op /\ thr'[u].job = thr[u].job
    BY <2>2, WatchedKeeps
  <2> QED
    BY <2>2, <2>3, LogsStayKept DEF NoneJoins, Starting
<1>5. CASE Crash
  <2>1. UNCHANGED logs /\ UNCHANGED starts /\ \A u \in Thread : thr'[u] = Idle
    BY <1>5 DEF Crash
  <2> QED
    BY <2>1, LogsStayKept DEF NoneJoins, Starting, Idle, Begun
<1>6. CASE ListDueJobs \/ Tick \/ (\E j \in Job : WorkerSees(j)) \/ UNCHANGED vars
  <2>1. UNCHANGED <<logs, starts, thr>>
    BY <1>6 DEF ListDueJobs, Tick, WorkerSees, vars
  <2> QED
    BY <2>1, LogsStayKept DEF NoneJoins
<1> QED
  BY <1>1, <1>2, <1>3, <1>4, <1>5, <1>6 DEF SchedulerStep, WorkerStep

LEMMA CancelLogKeeps == ASSUME IInv, NEW t \in Thread, CancelLog(t) PROVE LogsAreKept
<1> DEFINE j == thr[t].job
           n == thr[t].log
<1>1. logs \in [Job -> Seq({"pending", "cancelled"})] /\ j \in Job /\ n \in 1..Len(logs[j])
  BY InHand DEF CancelLog, At, IInv, TypeOK
<1>2. \/ logs' = [logs EXCEPT ![j] = [logs[j] EXCEPT ![n] = "cancelled"]]
      \/ UNCHANGED logs
  BY DEF CancelLog
<1> HIDE DEF j, n
<1>3. /\ logs[j] \in Seq({"pending", "cancelled"})
      /\ Len([logs[j] EXCEPT ![n] = "cancelled"]) = Len(logs[j])
  BY <1>1
<1> QED
  BY <1>1, <1>2, <1>3 DEF LogsAreKept

LEMMA NextKeepsLogged ==
  ASSUME "LogFails" \notin Env
  PROVE  IInv /\ StartsBehindLogs /\ [Next]_vars => StartsBehindLogs'
<1> SUFFICES ASSUME IInv, StartsBehindLogs, [Next]_vars PROVE StartsBehindLogs'
  OBVIOUS
<1>1. CASE \E t \in Thread : Step(t)
  <2>1. PICK t \in Thread : Step(t)
    BY <1>1
  <2>2. CASE SaveLog(t)
    BY <2>2, SaveLogKeepsLogged
  <2>3. CASE PutEtcd(t)
    BY <2>3, PutEtcdKeepsLogged
  <2>4. CASE Read(t) \/ SelectWorker(t) \/ GetWorker(t) \/ SelectAndSchedule(t) \/ LatestLog(t)
             \/ Exists(t)
    <3>1. UNCHANGED logs /\ UNCHANGED starts
      BY <2>4 DEF Read, SelectWorker, GetWorker, SelectAndSchedule, LatestLog, Exists, ReadOnly
    <3> QED
      BY <2>4, <3>1, ReadNoneJoins, BetweenNoneJoins, LogsStayKept, NoneJoinsKeeps
  <2>5. CASE CancelLog(t)
    <3>1. LogsAreKept /\ UNCHANGED starts
      BY <2>5, CancelLogKeeps DEF CancelLog
    <3> QED
      BY <2>5, <3>1, BetweenNoneJoins, NoneJoinsKeeps
  <2>6. CASE PutMongo(t) \/ DeleteEtcd(t) \/ DeleteMongo(t)
    <3>1. UNCHANGED logs /\ UNCHANGED starts
      BY <2>6 DEF PutMongo, DeleteEtcd, DeleteMongo
    <3> QED
      BY <2>6, <3>1, MongoNoneJoins, LogsStayKept, NoneJoinsKeeps
  <2> QED
    BY <2>1, <2>2, <2>3, <2>4, <2>5, <2>6 DEF Step
<1>2. CASE \/ \E c \in Caller, j \in Job : Begin(c, j)
           \/ SchedulerStep \/ EventStep
           \/ \E j \in Job : WorkerStep(j)
           \/ Tick \/ Crash \/ UNCHANGED vars
  BY <1>2, OthersNoneJoin, NoneJoinsKeeps
<1> QED
  BY <1>1, <1>2 DEF Next

-----------------------------------------------------------------------------
(* The theorems                                                              *)

\* The variables have their types: each store has a whole job or none, and the log that a
\* cancel has in hand is one of its job.
THEOREM TypeCorrect == Spec => []TypeOK
<1>1. IInv => TypeOK
  BY DEF IInv
<1> QED
  BY <1>1, Inductive, PTL

\* A call that returns an error has not written the job to etcd, whatever fails, and
\* whatever the other callers, the scheduler and the workers do.
THEOREM ErrorsWroteNothing == Spec => []RefusedCallWroteNothing
<1>1. IInv => RefusedCallWroteNothing
  BY DEF IInv, Good, HandOK, RefusedCallWroteNothing, Thread
<1> QED
  BY <1>1, Inductive, PTL

\* No trigger starts a job that is running in etcd from the beginning of the call to its end.
THEOREM TriggersRespectRunning == Spec => []RunningIsNotRestarted
<1>1. IInv => RunningIsNotRestarted
  BY DEF IInv, Good, RanOK, RunningIsNotRestarted, At
<1> QED
  BY <1>1, Inductive, PTL

\* A job that has left both stores, and of which nobody has a copy, does not come back.
THEOREM DeletedJobsStayDeleted == Spec => []DeletedStaysDeleted
<1>1. IInv => DeletedStaysDeleted
  BY DEF IInv, StoresHaveCopies, CopyOf, DeletedStaysDeleted
<1> QED
  BY <1>1, Inductive, PTL

\* A job that is disabled, with no copy left that says enabled, stays disabled in both
\* stores until a call enables it.
THEOREM DisabledJobsStayDisabled == Spec => []DisabledStaysDisabled
<1>1. IInv => DisabledStaysDisabled
  BY DEF IInv, StoresHaveCopies, CopyOf, DisabledStaysDisabled
<1> QED
  BY <1>1, Inductive, PTL

\* As long as the logs can be saved, every start of a job by a trigger has a log, also
\* when the master dies between the log and the start.
THEOREM StartsHaveLogs ==
  ASSUME "LogFails" \notin Env
  PROVE  Spec => []StartsAreLogged
<1>1. Init => StartsBehindLogs
  <2> SUFFICES ASSUME Init, NEW j \in Job
               PROVE  starts[j] + Cardinality(UnderWay(j)) <= Len(logs[j])
    BY DEF StartsBehindLogs
  <2>1. UnderWay(j) = {} /\ starts[j] = 0 /\ Len(logs[j]) = 0
    BY DEF Init, UnderWay, Starting, Idle, Begun
  <2> QED
    BY <2>1, FS_EmptySet
<1>2. IInv /\ StartsBehindLogs => StartsAreLogged
  BY Counted DEF StartsBehindLogs, StartsAreLogged
<1> QED
  BY <1>1, <1>2, InitIInv, NextPreserves, NextKeepsLogged, PTL DEF Spec

-----------------------------------------------------------------------------
(* Both sides of MCMaster                                                    *)

\* Neither side moves the other.
LEMMA SidesApart == MasterSpec => Spec /\ Logs!Spec
<1>1. MasterInit => Init /\ Logs!Init
  BY DEF MasterInit
<1>2. [MasterNext]_<<vars, logVars, side>> => [Next]_vars /\ [Logs!Next]_(Logs!vars)
  BY DEF MasterNext, logVars, Logs!vars
<1> QED
  BY <1>1, <1>2, PTL DEF MasterSpec, Spec, Logs!Spec

\* The streams of LogStreamProofs are those of MCMaster.
LEMMA SameStates ==
  /\ Streams!LogStreamAssumption <=> Logs!LogStreamAssumption
  /\ Streams!Init <=> Logs!Init
  /\ Streams!vars = Logs!vars
  /\ Streams!TypeOK <=> Logs!TypeOK
  /\ Streams!StreamsInOrder <=> Logs!StreamsInOrder
<1>1. Streams!LogStreamAssumption <=> Logs!LogStreamAssumption
  BY DEF Logs!LogStreamAssumption, Streams!LogStreamAssumption, Logs!Kind, Streams!Kind,
         Logs!EnvKinds, Streams!EnvKinds
<1>2. Streams!Init <=> Logs!Init
  BY DEF Logs!Init, Streams!Init, Logs!WriterIdle, Streams!WriterIdle, Logs!Away, Streams!Away
<1>3. Streams!vars = Logs!vars
  BY DEF Logs!vars, Streams!vars
<1>4. Streams!TypeOK <=> Logs!TypeOK
  BY DEF Logs!TypeOK, Streams!TypeOK, Logs!Output, Streams!Output, Logs!Log, Streams!Log,
         Logs!Status, Streams!Status, Logs!Kind, Streams!Kind
<1>5. Streams!StreamsInOrder <=> Logs!StreamsInOrder
  BY DEF Logs!StreamsInOrder, Streams!StreamsInOrder
<1> QED
  BY <1>1, <1>2, <1>3, <1>4, <1>5

\* And so are their steps.
LEMMA SameSteps == Logs!Next <=> Streams!Next
<1>1. ASSUME NEW w \in Writer
      PROVE  Logs!WriterStep(w) <=> Streams!WriterStep(w)
  <2>1. /\ Logs!AppendReads(w) <=> Streams!AppendReads(w)
        /\ Logs!UpdateLogStatus(w) <=> Streams!UpdateLogStatus(w)
    BY DEF Logs!AppendReads, Streams!AppendReads, Logs!UpdateLogStatus, Streams!UpdateLogStatus,
           Logs!NextPiece, Streams!NextPiece, Logs!Status, Streams!Status
  <2>2. /\ Logs!AppendSaves(w) <=> Streams!AppendSaves(w)
        /\ Logs!Notify(w) <=> Streams!Notify(w)
    BY DEF Logs!AppendSaves, Streams!AppendSaves, Logs!Notify, Streams!Notify, Logs!Appended,
           Streams!Appended, Logs!WriterIdle, Streams!WriterIdle
  <2> QED
    BY <2>1, <2>2 DEF Logs!WriterStep, Streams!WriterStep
<1>2. ASSUME NEW s \in Stream
      PROVE  Logs!StreamStep(s) <=> Streams!StreamStep(s)
  <2>1. Logs!Connect(s) <=> Streams!Connect(s)
    BY DEF Logs!Connect, Streams!Connect, Logs!First, Streams!First, Logs!Goto, Streams!Goto,
           Logs!Away, Streams!Away, Logs!Kind, Streams!Kind
  <2>2. /\ Logs!History(s) <=> Streams!History(s)
        /\ Logs!NoHistory(s) <=> Streams!NoHistory(s)
    BY DEF Logs!History, Streams!History, Logs!NoHistory, Streams!NoHistory, Logs!Shows,
           Streams!Shows, Logs!AfterHistory, Streams!AfterHistory, Logs!Goto, Streams!Goto,
           Logs!Gone, Streams!Gone, Logs!Away, Streams!Away
  <2>3. /\ Logs!Subscribe(s) <=> Streams!Subscribe(s)
        /\ Logs!Unsubscribe(s) <=> Streams!Unsubscribe(s)
    BY DEF Logs!Subscribe, Streams!Subscribe, Logs!Unsubscribe, Streams!Unsubscribe, Logs!Close,
           Streams!Close, Logs!AfterSubscribe, Streams!AfterSubscribe, Logs!First, Streams!First,
           Logs!Goto, Streams!Goto, Logs!Gone, Streams!Gone, Logs!Away, Streams!Away
  <2>4. /\ Logs!Receive(s) <=> Streams!Receive(s)
        /\ Logs!Flush(s) <=> Streams!Flush(s)
        /\ Logs!ChannelClosed(s) <=> Streams!ChannelClosed(s)
    BY DEF Logs!Receive, Streams!Receive, Logs!Flush, Streams!Flush, Logs!ChannelClosed,
           Streams!ChannelClosed, Logs!Shows, Streams!Shows, Logs!Gathers, Streams!Gathers,
           Logs!Held, Streams!Held, Logs!Taken, Streams!Taken, Logs!Goto, Streams!Goto
  <2>5. /\ Logs!Ends(s) <=> Streams!Ends(s)
        /\ Logs!WriteFails(s) <=> Streams!WriteFails(s)
    BY DEF Logs!Ends, Streams!Ends, Logs!WriteFails, Streams!WriteFails, Logs!Held, Streams!Held,
           Logs!Taken, Streams!Taken, Logs!Goto, Streams!Goto
  <2> QED
    BY <2>1, <2>2, <2>3, <2>4, <2>5 DEF Logs!StreamStep, Streams!StreamStep
<1>3. /\ Logs!DeleteOldLogs <=> Streams!DeleteOldLogs
      /\ Logs!CleanupStaleSubscriptions <=> Streams!CleanupStaleSubscriptions
      /\ Logs!Stop <=> Streams!Stop
      /\ Logs!Start <=> Streams!Start
  BY DEF Logs!DeleteOldLogs, Streams!DeleteOldLogs, Logs!CleanupStaleSubscriptions,
         Streams!CleanupStaleSubscriptions, Logs!Stop, Streams!Stop, Logs!Start, Streams!Start,
         Logs!Close, Streams!Close
<1> QED
  BY <1>1, <1>2, <1>3 DEF Logs!Next, Streams!Next

\* So what LogStreamProofs proves holds of the streams of MCMaster.
LEMMA SameSpec == Logs!Spec => Streams!Spec
<1>1. Logs!Init => Streams!Init
  BY SameStates
<1>2. [Logs!Next]_(Logs!vars) => [Streams!Next]_(Streams!vars)
  BY SameSteps DEF Logs!vars, Streams!vars
<1> QED
  BY <1>1, <1>2, PTL DEF Logs!Spec, Streams!Spec

\* The types of both sides, and that of the logs no channel is closed twice or sent on
\* after it was closed: the two managers of the master leave each other's state alone.
THEOREM BothKeepTypes == MasterSpec => []MasterTypeOK
<1>1. Streams!Spec => []Streams!TypeOK
  BY Streams!ChannelsAreSafe, StreamAssumption, SameStates
<1>2. TypeOK /\ Streams!TypeOK => MasterTypeOK
  BY SameStates DEF MasterTypeOK
<1> QED
  BY <1>1, <1>2, SidesApart, SameSpec, TypeCorrect, PTL

\* One execution writes the log. With two, the store's order and the channels' may differ.
OneWriter == \A v, w \in Writer : v = w

\* Whatever the API and the scheduler do at the master, a stream shows what one execution
\* wrote in the order of its writing.
THEOREM StreamsShowOrder == OneWriter => (MasterSpec => []StreamsInOrder)
<1> SUFFICES ASSUME OneWriter PROVE MasterSpec => []StreamsInOrder
  OBVIOUS
<1>1. Streams!OneWriter
  BY DEF OneWriter, Streams!OneWriter
<1>2. Streams!Spec => []Streams!StreamsInOrder
  BY <1>1, Streams!ShownInOrder, StreamAssumption, SameStates
<1>3. Streams!StreamsInOrder => StreamsInOrder
  BY SameStates DEF StreamsInOrder
<1> QED
  BY <1>2, <1>3, SidesApart, SameSpec, PTL
=============================================================================
