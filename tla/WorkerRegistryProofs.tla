------------------------- MODULE WorkerRegistryProofs -------------------------
(***************************************************************************)
(* Proofs about WorkerRegistry for every heartbeat timeout, every number    *)
(* of goroutines of the master, whatever they call and whatever fails.      *)
(***************************************************************************)
EXTENDS WorkerRegistry, TLAPS

\* A copy is at least as old as its worker is gone: the heartbeat it was made from
\* came from a process that ran.
NotNewer(copy) == copy # None => copy.age >= gone

\* So is every copy, wherever it is kept: in a store, or in the hands of a writer that
\* is about to put it back. The worker's own record counts only while it runs.
CopiesNotNewer ==
  /\ NotNewer(etcd) /\ NotNewer(mongo) /\ NotNewer(check) /\ NotNewer(beat.copy)
  /\ \A a \in Admin : NotNewer(adm[a].copy)

UpIsNotGone == up => gone = 0

\* A call that goes on to write has a record to write, unless it deletes, which is not
\* taken back.
HasCopy(call) ==
  call.pc \in {"put", "mongo", "rollback"} =>
    call.copy # None \/ (call.op = "delete" /\ call.pc # "rollback")

CallHasCopy == \A a \in Admin : HasCopy(adm[a])

IInv == TypeOK /\ CopiesNotNewer /\ UpIsNotGone /\ CallHasCopy

AdmState == [pc : {"idle", "read", "put", "mongo", "rollback"},
             op : OpKinds \cup {None}, copy : Copy \cup {None}]

-----------------------------------------------------------------------------
(* The operators on copies                                                   *)

LEMMA NoneIsNoCopy == None \notin Copy
BY RegistryAssumption DEF Copy, Status, Age

LEMMA SetStatusKeepsAge ==
  ASSUME NEW copy \in Copy, NEW s \in Status
  PROVE  SetStatus(copy, s) \in Copy /\ SetStatus(copy, s).age = copy.age
BY DEF SetStatus, Copy

LEMMA UpdateHeartbeatIsFresh ==
  ASSUME NEW copy \in Copy
  PROVE  UpdateHeartbeat(copy) \in Copy /\ UpdateHeartbeat(copy).age = 0
BY RegistryAssumption DEF UpdateHeartbeat, Copy, Age

LEMMA RegisteredIsFresh ==
  ASSUME NEW copy \in Copy
  PROVE  Registered(copy) \in Copy /\ Registered(copy).age = 0
<1>1. "online" \in Status
  BY DEF Status
<1> QED
  BY <1>1, SetStatusKeepsAge, UpdateHeartbeatIsFresh DEF Registered

LEMMA BeatenIsFresh ==
  ASSUME NEW copy \in Copy
  PROVE  Beaten(copy) \in Copy /\ Beaten(copy).age = 0
<1>1. "online" \in Status
  BY DEF Status
<1> QED
  BY <1>1, SetStatusKeepsAge, UpdateHeartbeatIsFresh DEF Beaten

LEMMA StatusOfIsStatus == ASSUME NEW copy PROVE StatusOf(copy) \in Status
BY DEF StatusOf, Status

LEMMA OlderIsMonotonic ==
  ASSUME NEW n \in Age, NEW m \in Age, m <= n
  PROVE  Older(n) \in Age /\ Older(m) <= Older(n)
BY RegistryAssumption DEF Older, Age

LEMMA AgedIsCopy ==
  ASSUME NEW copy \in Copy \cup {None}
  PROVE  /\ Aged(copy) \in Copy \cup {None}
         /\ Aged(copy) # None <=> copy # None
         /\ copy # None => Aged(copy).age = Older(copy.age)
<1>1. CASE copy = None
  BY <1>1 DEF Aged
<1>2. CASE copy # None
  <2>1. copy \in Copy /\ copy.age \in Age
    BY <1>2 DEF Copy
  <2>2. Older(copy.age) \in Age
    BY <2>1, RegistryAssumption DEF Older, Age
  <2>3. Aged(copy) = [copy EXCEPT !.age = Older(copy.age)]
    BY <1>2 DEF Aged
  <2>4. Aged(copy) \in Copy /\ Aged(copy).age = Older(copy.age)
    BY <2>1, <2>2, <2>3 DEF Copy
  <2> QED
    BY <1>2, <2>4, NoneIsNoCopy
<1> QED
  BY <1>1, <1>2

\* Time keeps every copy at least as old as the worker is gone.
LEMMA AgedIsNotNewer ==
  ASSUME NEW copy \in Copy \cup {None}, NotNewer(copy), gone \in Age, UpIsNotGone, Tick
  PROVE  Aged(copy) # None => Aged(copy).age >= gone'
<1> SUFFICES ASSUME copy # None PROVE Aged(copy).age >= gone'
  BY AgedIsCopy
<1>1. copy.age \in Age /\ gone <= copy.age
  BY RegistryAssumption DEF Copy, NotNewer, Age
<1>2. Older(gone) <= Older(copy.age) /\ Older(copy.age) \in Age
  BY <1>1, OlderIsMonotonic
<1>3. gone' = 0 \/ gone' = Older(gone)
  BY DEF Tick
<1> QED
  BY <1>1, <1>2, <1>3, AgedIsCopy, RegistryAssumption DEF Age

-----------------------------------------------------------------------------
(* The steps                                                                 *)

LEMMA InitIInv == ASSUME Init PROVE IInv
<1>1. mem \in Copy /\ "no" \in {"no", "status", "release", "done"}
  BY RegistryAssumption DEF Init, Copy, Status, Age
<1>2. Off \in [pc : {"off", "idle", "resources", "beat", "register"}, copy : Copy \cup {None}]
  BY DEF Off
<1>3. Idle \in AdmState
  BY DEF Idle, AdmState
<1>4. TypeOK
  <2>1. 0 \in 0..MaxErrors /\ 0 \in 0..MaxOps /\ gone \in Age
    BY RegistryAssumption DEF Init, Age
  <2> QED
    BY <1>1, <1>2, <1>3, <2>1 DEF TypeOK, Init, Lease, AdmState
<1>5. \A a \in Admin : adm[a].copy = None /\ adm[a].pc = "idle"
  BY DEF Init, Idle
<1>6. CopiesNotNewer
  BY <1>5 DEF Init, CopiesNotNewer, NotNewer, Off
<1>7. UpIsNotGone /\ CallHasCopy
  BY <1>5 DEF Init, UpIsNotGone, CallHasCopy, HasCopy
<1> QED
  BY <1>4, <1>6, <1>7 DEF IInv

\* What the worker leaves alone: the master's copies, and how long it has been gone.
LEMMA MasterStays ==
  ASSUME IInv, UNCHANGED <<mongo, master, gone>>
  PROVE  /\ UNCHANGED <<mongo, check, adm, ops, gone>>
         /\ NotNewer(mongo)' /\ NotNewer(check)' /\ \A a \in Admin : NotNewer(adm[a].copy)'
         /\ CallHasCopy'
BY DEF IInv, CopiesNotNewer, NotNewer, master, CallHasCopy, HasCopy

\* A step of the running worker keeps the invariant when what it leaves in etcd is a
\* copy it may leave there, and so is what its heartbeat loop holds.
LEMMA WorkerMoves ==
  ASSUME IInv, up, up' \in BOOLEAN, UNCHANGED <<mongo, master, gone>>,
         etcd' \in Copy \cup {None}, lease' \in Lease, etcd' = None => lease' = "none",
         mem' \in Copy, stopping' \in {"no", "status", "release", "done"},
         beat' \in [pc : {"off", "idle", "resources", "beat", "register"},
                    copy : Copy \cup {None}],
         errors' \in 0..MaxErrors
  PROVE  IInv'
<1>1. gone' = 0 /\ UNCHANGED <<mongo, check, adm, ops, gone>>
  BY MasterStays DEF IInv, UpIsNotGone
<1>2. TypeOK'
  BY <1>1 DEF IInv, TypeOK
<1>3. \A copy \in Copy : copy.age >= 0
  BY RegistryAssumption DEF Copy, Age
<1>4. NotNewer(etcd)' /\ NotNewer(beat.copy)'
  BY <1>1, <1>3 DEF NotNewer
<1>5. UpIsNotGone'
  BY <1>1 DEF UpIsNotGone
<1> QED
  BY <1>2, <1>4, <1>5, MasterStays DEF IInv, CopiesNotNewer

BeatState == [pc : {"off", "idle", "resources", "beat", "register"}, copy : Copy \cup {None}]

\* The worker's steps: it starts, beats, registers again, reports its jobs, and ends.
LEMMA StartPreserves == ASSUME IInv, Start PROVE IInv'
<1>1. mem' \in Copy /\ mem'.age = 0
  BY RegisteredIsFresh DEF IInv, TypeOK, Start, RegisterStarts
<1>2. etcd' = mem' /\ lease' \in {"kept", "unkept"}
  BY DEF Start, RegisterStarts, PutWithLease, LeaseOfWorker
<1>3. beat' \in BeatState /\ beat'.copy = None /\ errors' = 0
  BY DEF Start, HealthCheckerStarts, BeatState
<1>4. up' = TRUE /\ gone' = 0 /\ stopping' = "no" /\ UNCHANGED <<mongo, check, adm, ops>>
  BY DEF Start, master
<1>5. TypeOK'
  BY <1>1, <1>2, <1>3, <1>4, NoneIsNoCopy, RegistryAssumption
     DEF IInv, TypeOK, Lease, Age, BeatState
<1>6. \A copy \in Copy : copy.age >= 0
  BY RegistryAssumption DEF Copy, Age
<1>7. \A a \in Admin : adm[a].copy \in Copy \cup {None}
  BY DEF IInv, TypeOK
<1>8. CopiesNotNewer'
  BY <1>1, <1>2, <1>3, <1>4, <1>6, <1>7 DEF IInv, TypeOK, CopiesNotNewer, NotNewer
<1>9. UpIsNotGone' /\ CallHasCopy'
  BY <1>4 DEF IInv, UpIsNotGone, CallHasCopy, HasCopy
<1> QED
  BY <1>5, <1>8, <1>9 DEF IInv

LEMMA BeatPreserves ==
  ASSUME IInv, UpdateResources \/ PutResources \/ Heartbeat \/ HeartbeatFails \/ Register
  PROVE  IInv'
<1>0. /\ TypeOK /\ up /\ UNCHANGED <<mongo, master, gone, up, stopping>>
      /\ beat \in BeatState /\ mem \in Copy /\ etcd \in Copy \cup {None} /\ lease \in Lease
      /\ stopping \in {"no", "status", "release", "done"} /\ errors \in 0..MaxErrors
      /\ MaxErrors \in Nat /\ (etcd = None => lease = "none")
  BY RegistryAssumption
     DEF IInv, TypeOK, UpdateResources, PutResources, Heartbeat, HeartbeatFails, Register,
         stores, BeatState
<1>1. /\ UpdateHeartbeat(mem) \in Copy /\ Registered(mem) \in Copy /\ beat.copy \in Copy \cup {None}
      /\ "none" \in Lease /\ "unkept" \in Lease
  BY <1>0, UpdateHeartbeatIsFresh, RegisteredIsFresh DEF BeatState, Lease
<1>2. /\ etcd' \in Copy \cup {None} /\ lease' \in Lease /\ (etcd' = None => lease' = "none")
  BY <1>0, <1>1, NoneIsNoCopy
     DEF UpdateResources, PutResources, Heartbeat, HeartbeatFails, Register,
         stores, Put, PutWithLease, EtcdFails
<1>3. mem' \in Copy
  BY <1>0, <1>1 DEF UpdateResources, PutResources, Heartbeat, HeartbeatFails, Register
<1>4. errors' \in 0..MaxErrors
  BY <1>0 DEF UpdateResources, PutResources, Heartbeat, HeartbeatFails, Register
<1>5. beat' \in BeatState
  <2>1. ASSUME NEW pc \in {"idle", "register"} PROVE [beat EXCEPT !.pc = pc] \in BeatState
    BY <1>0 DEF BeatState
  <2>2. beat' \in {[beat EXCEPT !.pc = "idle"], [beat EXCEPT !.pc = "register"],
                   [pc |-> "resources", copy |-> mem], [pc |-> "beat", copy |-> None]}
    BY DEF UpdateResources, PutResources, Heartbeat, HeartbeatFails, Register
  <2>3. [pc |-> "resources", copy |-> mem] \in BeatState /\ [pc |-> "beat", copy |-> None] \in BeatState
    BY <1>0 DEF BeatState
  <2> QED
    BY <2>1, <2>2, <2>3
<1> QED
  BY <1>0, <1>2, <1>3, <1>4, <1>5, WorkerMoves DEF BeatState

LEMMA WorkerCallPreserves ==
  ASSUME IInv, AddRunningJob \/ RemoveRunningJob \/ Stop \/ BeatEnds \/ StopSaysOffline
               \/ StopReleasesLease \/ End
  PROVE  IInv'
<1>0. /\ TypeOK /\ up /\ up' \in BOOLEAN /\ UNCHANGED <<mongo, master, gone>>
      /\ beat \in BeatState /\ mem \in Copy /\ etcd \in Copy \cup {None} /\ lease \in Lease
      /\ stopping \in {"no", "status", "release", "done"} /\ errors \in 0..MaxErrors
      /\ MaxErrors \in Nat /\ (etcd = None => lease = "none")
  BY RegistryAssumption
     DEF IInv, TypeOK, AddRunningJob, RemoveRunningJob, Stop, BeatEnds, StopSaysOffline,
         StopReleasesLease, End, stores, worker, BeatState
<1>1. SetStatus(mem, "offline") \in Copy /\ "none" \in Lease /\ "unkept" \in Lease
  BY <1>0, SetStatusKeepsAge DEF Lease, Status
<1>2. /\ etcd' \in Copy \cup {None} /\ lease' \in Lease /\ (etcd' = None => lease' = "none")
  BY <1>0, <1>1, NoneIsNoCopy
     DEF AddRunningJob, RemoveRunningJob, Stop, BeatEnds, StopSaysOffline,
         StopReleasesLease, End, stores, Put, Delete, EtcdFails
<1>3. mem' \in Copy /\ stopping' \in {"no", "status", "release", "done"}
  BY <1>0, <1>1
     DEF AddRunningJob, RemoveRunningJob, Stop, BeatEnds, StopSaysOffline,
         StopReleasesLease, End, worker
<1>4. errors' \in 0..MaxErrors
  <2>1. 0 \in 0..MaxErrors
    BY <1>0
  <2> QED
    BY <1>0, <2>1
       DEF AddRunningJob, RemoveRunningJob, Stop, BeatEnds, StopSaysOffline,
           StopReleasesLease, End, worker
<1>5. beat' \in BeatState
  <2>1. Off \in BeatState
    BY DEF Off, BeatState
  <2> QED
    BY <1>0, <2>1
       DEF AddRunningJob, RemoveRunningJob, Stop, BeatEnds, StopSaysOffline,
           StopReleasesLease, End, worker
<1> QED
  BY <1>0, <1>2, <1>3, <1>4, <1>5, WorkerMoves DEF BeatState

\* The worker does not move: a step of the master, or of a lease that runs out, keeps the
\* invariant when the records it leaves are copies that are not newer.
LEMMA MasterMoves ==
  ASSUME IInv, UNCHANGED <<worker, gone>>,
         etcd' \in Copy \cup {None}, mongo' \in Copy \cup {None}, check' \in Copy \cup {None},
         lease' \in Lease, etcd' = None => lease' = "none",
         NotNewer(etcd'), NotNewer(mongo'), NotNewer(check'),
         adm' \in [Admin -> AdmState], ops' \in 0..MaxOps,
         \A a \in Admin : NotNewer(adm'[a].copy), CallHasCopy'
  PROVE  IInv'
<1>1. UNCHANGED <<up, mem, stopping, beat, errors, gone>>
  BY DEF worker
<1>2. TypeOK'
  BY <1>1 DEF IInv, TypeOK, AdmState
<1>3. CopiesNotNewer' /\ UpIsNotGone'
  BY <1>1 DEF IInv, CopiesNotNewer, NotNewer, UpIsNotGone
<1> QED
  BY <1>2, <1>3 DEF IInv

LEMMA CheckPreserves ==
  ASSUME IInv, LeaseExpires \/ CheckLists \/ CheckPuts \/ CheckFails
  PROVE  IInv'
<1>0. /\ UNCHANGED <<mongo, worker, adm, ops, gone>>
      /\ etcd \in Copy \cup {None} /\ mongo \in Copy \cup {None} /\ check \in Copy \cup {None}
      /\ lease \in Lease /\ (etcd = None => lease = "none")
      /\ adm \in [Admin -> AdmState] /\ ops \in 0..MaxOps
      /\ NotNewer(etcd) /\ NotNewer(mongo) /\ NotNewer(check)
      /\ NotNewer(None) /\ "none" \in Lease
  BY DEF IInv, TypeOK, CopiesNotNewer, NotNewer, LeaseExpires, CheckLists, CheckPuts,
         CheckFails, stores, master, AdmState, Lease
<1>1. check # None => /\ SetStatus(check, StatusOf(check)) \in Copy
                      /\ SetStatus(check, StatusOf(check)).age = check.age
  BY <1>0, SetStatusKeepsAge, StatusOfIsStatus
<1>2. check # None => NotNewer(SetStatus(check, StatusOf(check)))
  BY <1>0, <1>1 DEF NotNewer
<1>3. /\ etcd' \in Copy \cup {None} /\ lease' \in Lease /\ (etcd' = None => lease' = "none")
      /\ NotNewer(etcd')
  BY <1>0, <1>1, <1>2, NoneIsNoCopy
     DEF LeaseExpires, CheckLists, CheckPuts, CheckFails, stores, Put, Delete, EtcdFails
<1>4. check' \in Copy \cup {None} /\ NotNewer(check')
  BY <1>0 DEF LeaseExpires, CheckLists, CheckPuts, CheckFails, master
<1>5. (\A a \in Admin : NotNewer(adm'[a].copy)) /\ CallHasCopy'
  BY <1>0 DEF IInv, CopiesNotNewer, CallHasCopy, HasCopy
<1> QED
  BY <1>0, <1>3, <1>4, <1>5, MasterMoves

\* A call of the repository moves to another state, with its copy, and the stores change
\* to records that may be there.
LEMMA CallMoves ==
  ASSUME IInv, NEW a \in Admin, NEW h \in AdmState, adm' = [adm EXCEPT ![a] = h],
         NotNewer(h.copy), HasCopy(h),
         UNCHANGED <<worker, check, gone>>, ops' \in 0..MaxOps,
         etcd' \in Copy \cup {None}, lease' \in Lease, etcd' = None => lease' = "none",
         NotNewer(etcd'), mongo' \in Copy \cup {None}, NotNewer(mongo')
  PROVE  IInv'
<1>1. adm \in [Admin -> AdmState]
  BY DEF IInv, TypeOK, AdmState
<1>2. /\ adm' \in [Admin -> AdmState] /\ adm'[a] = h
      /\ \A b \in Admin \ {a} : adm'[b] = adm[b]
  BY <1>1
<1>3. \A b \in Admin : NotNewer(adm'[b].copy)
  BY <1>2 DEF IInv, CopiesNotNewer
<1>4. CallHasCopy'
  BY <1>2 DEF IInv, CallHasCopy, HasCopy
<1>5. check' \in Copy \cup {None} /\ NotNewer(check')
  BY DEF IInv, TypeOK, CopiesNotNewer
<1> HIDE DEF IInv, CallHasCopy
<1> QED
  BY <1>2, <1>3, <1>4, <1>5, MasterMoves

\* A call that goes on, with the copy it has now.
LEMMA GoesOn ==
  ASSUME IInv, NEW a \in Admin, NEW pc \in {"put", "mongo", "rollback"},
         NEW copy \in Copy \cup {None}, Goto(a, pc, copy), NotNewer(copy),
         copy # None \/ (adm[a].op = "delete" /\ pc # "rollback"),
         UNCHANGED <<worker, check, gone>>, ops' \in 0..MaxOps,
         etcd' \in Copy \cup {None}, lease' \in Lease, etcd' = None => lease' = "none",
         NotNewer(etcd'), mongo' \in Copy \cup {None}, NotNewer(mongo')
  PROVE  IInv'
<1> DEFINE h == [adm[a] EXCEPT !.pc = pc, !.copy = copy]
<1>1. adm[a] \in AdmState
  BY DEF IInv, TypeOK, AdmState
<1>2. h \in AdmState /\ h.pc = pc /\ h.op = adm[a].op /\ h.copy = copy
  BY <1>1 DEF AdmState
<1>3. adm' = [adm EXCEPT ![a] = h]
  BY DEF Goto
<1>4. HasCopy(h)
  BY <1>2 DEF HasCopy
<1> HIDE DEF h
<1> QED
  BY <1>2, <1>3, <1>4, CallMoves

\* A call that returns.
LEMMA Returns ==
  ASSUME IInv, NEW a \in Admin, Return(a),
         UNCHANGED <<worker, check, gone>>, ops' \in 0..MaxOps,
         etcd' \in Copy \cup {None}, lease' \in Lease, etcd' = None => lease' = "none",
         NotNewer(etcd'), mongo' \in Copy \cup {None}, NotNewer(mongo')
  PROVE  IInv'
<1>1. Idle \in AdmState /\ Idle.copy = None /\ Idle.pc = "idle"
  BY DEF Idle, AdmState
<1>2. NotNewer(Idle.copy) /\ HasCopy(Idle)
  BY <1>1 DEF NotNewer, HasCopy
<1>3. adm' = [adm EXCEPT ![a] = Idle]
  BY DEF Return
<1> QED
  BY <1>1, <1>2, <1>3, CallMoves

\* What a call finds: records that are typed and not newer.
LEMMA Found ==
  ASSUME IInv, NEW a \in Admin
  PROVE  /\ etcd \in Copy \cup {None} /\ NotNewer(etcd) /\ mongo \in Copy \cup {None} /\ NotNewer(mongo)
         /\ lease \in Lease /\ (etcd = None => lease = "none") /\ ops \in 0..MaxOps
         /\ adm[a] \in AdmState /\ adm[a].copy \in Copy \cup {None} /\ NotNewer(adm[a].copy)
         /\ NotNewer(None) /\ "none" \in Lease /\ "other" \in Lease /\ MaxOps \in Nat
BY RegistryAssumption DEF IInv, TypeOK, CopiesNotNewer, NotNewer, AdmState, Lease

LEMMA CallPreserves ==
  ASSUME IInv, NEW a \in Admin, NEW op \in OpKinds, Call(a, op)
  PROVE  IInv'
<1> DEFINE h == [pc |-> "read", op |-> op, copy |-> None]
<1>1. h \in AdmState /\ h.copy = None /\ HasCopy(h)
  BY DEF AdmState, HasCopy
<1>2. UNCHANGED <<etcd, lease, mongo, worker, check, gone>> /\ adm' = [adm EXCEPT ![a] = h]
  BY DEF Call, stores
<1>3. ops' \in 0..MaxOps
  BY Found DEF Call
<1> HIDE DEF h
<1> QED
  BY <1>1, <1>2, <1>3, Found, CallMoves

LEMMA ReadsPreserves == ASSUME IInv, NEW a \in Admin, Reads(a) PROVE IInv'
<1>0. UNCHANGED <<etcd, lease, mongo, worker, check, gone, ops>>
  BY DEF Reads, stores
<1>1. CASE Return(a)
  BY <1>0, <1>1, Found, Returns
<1>2. ASSUME NEW copy \in Changed(adm[a].op, GetByID), GetByID # None,
             adm[a].op = "heartbeat" => up, Goto(a, "put", copy)
      PROVE  IInv'
  <2>1. GetByID \in Copy /\ GetByID.age >= gone
    BY <1>2, Found DEF GetByID, NotNewer
  <2>2. copy \in Copy
    BY <1>2, <2>1, SetStatusKeepsAge, BeatenIsFresh DEF Changed, Status
  <2>3. copy.age >= gone
    <3>1. CASE adm[a].op = "heartbeat"
      <4>1. copy.age = 0 /\ gone = 0
        BY <1>2, <2>1, <3>1, BeatenIsFresh DEF Changed, IInv, UpIsNotGone
      <4> QED
        BY <4>1
    <3>2. CASE adm[a].op # "heartbeat"
      <4>1. copy = GetByID \/ \E s \in Status : copy = SetStatus(GetByID, s)
        BY <1>2, <3>2 DEF Changed, Status
      <4> QED
        BY <2>1, <4>1, SetStatusKeepsAge
    <3> QED
      BY <3>1, <3>2
  <2>4. copy # None /\ NotNewer(copy)
    BY <2>2, <2>3, NoneIsNoCopy DEF NotNewer
  <2> QED
    BY <1>0, <1>2, <2>2, <2>4, Found, GoesOn
<1>3. GetByID # None \/ ListActive = {} \/ adm[a].op # "jobs"
  BY DEF GetByID, ListActive
<1> QED
  BY <1>1, <1>2, <1>3 DEF Reads

\* The calls that write etcd first.
LEMMA WritesPreserve ==
  ASSUME IInv, NEW a \in Admin,
         RegistersOther(a) \/ Deletes(a) \/ UpdateWorkerResources(a) \/ Puts(a)
  PROVE  IInv'
<1>0. UNCHANGED <<mongo, worker, check, gone, ops>>
  BY DEF RegistersOther, Deletes, UpdateWorkerResources, Puts
<1>1. CASE RegistersOther(a)
  <2> DEFINE copy == [status |-> "online", age |-> 0]
  <2>1. copy \in Copy /\ NotNewer(copy) /\ copy # None
    <3>1. copy \in Copy /\ copy.age = 0
      BY RegistryAssumption DEF Copy, Status, Age
    <3>2. gone = 0
      BY <1>1 DEF RegistersOther, IInv, UpIsNotGone
    <3> HIDE DEF copy
    <3> QED
      BY <3>1, <3>2, NoneIsNoCopy DEF NotNewer
  <2>2. \/ etcd' = copy /\ lease' = "other" /\ Goto(a, "mongo", copy)
        \/ UNCHANGED <<etcd, lease>> /\ Return(a)
    BY <1>1 DEF RegistersOther, PutWithLease, EtcdFails
  <2> HIDE DEF copy
  <2>3. CASE etcd' = copy /\ lease' = "other" /\ Goto(a, "mongo", copy)
    BY <1>0, <2>1, <2>3, Found, GoesOn
  <2>4. CASE UNCHANGED <<etcd, lease>> /\ Return(a)
    BY <1>0, <2>4, Found, Returns
  <2> QED
    BY <2>2, <2>3, <2>4
<1>2. CASE Deletes(a)
  <2>1. CASE Delete /\ Goto(a, "mongo", None)
    BY <1>0, <1>2, <2>1, Found, GoesOn DEF Delete, Deletes
  <2>2. CASE EtcdFails /\ Return(a)
    BY <1>0, <2>2, Found, Returns DEF EtcdFails
  <2> QED
    BY <1>2, <2>1, <2>2 DEF Deletes
<1>3. CASE UpdateWorkerResources(a)
  <2>1. adm[a].copy # None /\ Return(a)
    BY <1>3 DEF UpdateWorkerResources, IInv, CallHasCopy, HasCopy
  <2>2. \/ etcd' = adm[a].copy /\ lease' = "none"
        \/ UNCHANGED <<etcd, lease>>
    BY <1>3 DEF UpdateWorkerResources, Put, EtcdFails
  <2> QED
    BY <1>0, <2>1, <2>2, Found, Returns
<1>4. CASE Puts(a)
  <2>1. adm[a].op # "delete" => adm[a].copy # None
    BY <1>4 DEF Puts, IInv, CallHasCopy, HasCopy
  <2>2. \/ etcd' = adm[a].copy /\ lease' = "none" /\ (Return(a) \/ Goto(a, "mongo", adm[a].copy))
        \/ UNCHANGED <<etcd, lease>> /\ Return(a)
    BY <1>4 DEF Puts, Put, EtcdFails
  <2>3. CASE etcd' = adm[a].copy /\ lease' = "none" /\ Goto(a, "mongo", adm[a].copy)
    BY <1>0, <2>1, <2>3, Found, GoesOn
  <2>4. CASE etcd' = adm[a].copy /\ lease' = "none" /\ Return(a)
    BY <1>0, <2>4, Found, Returns
  <2>5. CASE UNCHANGED <<etcd, lease>> /\ Return(a)
    BY <1>0, <2>5, Found, Returns
  <2> QED
    BY <2>2, <2>3, <2>4, <2>5
<1> QED
  BY <1>1, <1>2, <1>3, <1>4

\* Another status changes no age.
LEMMA OtherStatus ==
  ASSUME NEW copy \in Copy, NotNewer(copy), NEW s \in Status
  PROVE  SetStatus(copy, s) \in Copy \cup {None} /\ NotNewer(SetStatus(copy, s))
<1>1. copy.age >= gone
  BY NoneIsNoCopy DEF NotNewer
<1> QED
  BY <1>1, SetStatusKeepsAge DEF NotNewer

LEMMA ComparesPreserves == ASSUME IInv, NEW a \in Admin, Compares(a) PROVE IInv'
<1>0. UNCHANGED <<worker, check, gone, ops>> /\ Return(a)
  BY DEF Compares
<1>1. CASE /\ etcd = None /\ UNCHANGED mongo
           /\ Put(adm[a].copy) \/ UNCHANGED <<etcd, lease>>
  <2>1. adm[a].copy # None
    BY DEF Compares, IInv, CallHasCopy, HasCopy
  <2> QED
    BY <1>0, <1>1, <2>1, Found, Returns DEF Put
<1>2. CASE /\ etcd # None /\ UNCHANGED <<etcd, lease>>
           /\ \/ mongo' = mongo
              \/ mongo # None /\ mongo' = SetStatus(mongo, etcd.status)
  <2>1. etcd.status \in Status
    BY <1>2, Found DEF Copy
  <2>2. mongo' \in Copy \cup {None} /\ NotNewer(mongo')
    BY <1>2, <2>1, Found, OtherStatus
  <2> QED
    BY <1>0, <1>2, <2>2, Found, Returns
<1>3. CASE UNCHANGED stores
  BY <1>0, <1>3, Found, Returns DEF stores
<1> QED
  BY <1>1, <1>2, <1>3 DEF Compares, EtcdFails

\* The document and the way back.
LEMMA DocumentIsNotNewer ==
  ASSUME IInv, NEW a \in Admin, adm[a].pc = "mongo"
  PROVE  /\ Document(adm[a].op, adm[a].copy) \in Copy \cup {None}
         /\ NotNewer(Document(adm[a].op, adm[a].copy))
<1>1. adm[a].op # "delete" => adm[a].copy \in Copy /\ adm[a].copy.status \in Status
  BY Found DEF IInv, CallHasCopy, HasCopy, Copy
<1>2. "offline" \in Status
  BY DEF Status
<1>3. CASE adm[a].op = "register"
  <2>1. Document(adm[a].op, adm[a].copy) = adm[a].copy
    BY <1>3 DEF Document
  <2> QED
    BY <2>1, Found
<1>4. CASE adm[a].op # "register" /\ mongo = None
  <2>1. Document(adm[a].op, adm[a].copy) = None
    BY <1>4 DEF Document
  <2> QED
    BY <2>1, Found
<1>5. CASE mongo # None /\ adm[a].op \in {"enable", "disable", "heartbeat"}
  <2>1. Document(adm[a].op, adm[a].copy) = SetStatus(mongo, adm[a].copy.status)
    BY <1>5 DEF Document
  <2>2. mongo \in Copy /\ NotNewer(mongo) /\ adm[a].copy.status \in Status
    BY <1>1, <1>5, Found
  <2> QED
    BY <2>1, <2>2, OtherStatus
<1>6. CASE mongo # None /\ adm[a].op = "delete"
  <2>1. Document(adm[a].op, adm[a].copy) = SetStatus(mongo, "offline")
    BY <1>6 DEF Document
  <2>2. mongo \in Copy /\ NotNewer(mongo)
    BY <1>6, Found
  <2> QED
    BY <1>2, <2>1, <2>2, OtherStatus
<1>7. CASE mongo # None /\ adm[a].op \notin {"register", "enable", "disable", "heartbeat", "delete"}
  <2>1. Document(adm[a].op, adm[a].copy) = mongo
    BY <1>7 DEF Document
  <2> QED
    BY <2>1, Found
<1> QED
  BY <1>3, <1>4, <1>5, <1>6, <1>7

LEMMA MongoPreserves == ASSUME IInv, NEW a \in Admin, PutsMongo(a) PROVE IInv'
<1>0. UNCHANGED <<etcd, lease, worker, check, gone, ops>>
  BY DEF PutsMongo
<1>1. adm[a].op # "delete" => adm[a].copy # None
  BY DEF PutsMongo, IInv, CallHasCopy, HasCopy
<1>2. CASE mongo' = Document(adm[a].op, adm[a].copy) /\ Return(a)
  BY <1>0, <1>2, DocumentIsNotNewer, Found, Returns DEF PutsMongo
<1>3. CASE UNCHANGED mongo /\ Goto(a, "rollback", adm[a].copy) /\ adm[a].op # "delete"
  BY <1>0, <1>1, <1>3, Found, GoesOn
<1>4. CASE UNCHANGED mongo /\ Return(a)
  BY <1>0, <1>4, Found, Returns
<1> QED
  BY <1>2, <1>3, <1>4 DEF PutsMongo

\* Only enable and register are taken back.
LEMMA RollsBackPreserves == ASSUME IInv, NEW a \in Admin, RollsBack(a) PROVE IInv'
<1>0. UNCHANGED <<mongo, worker, check, gone, ops>> /\ Return(a)
  BY DEF RollsBack
<1>1. CASE Delete
  BY <1>0, <1>1, Found, Returns DEF Delete
<1>2. CASE Put(SetStatus(adm[a].copy, "offline"))
  <2>1. adm[a].copy \in Copy
    BY <1>2, Found DEF RollsBack, IInv, CallHasCopy, HasCopy
  <2>2. "offline" \in Status
    BY DEF Status
  <2>3. SetStatus(adm[a].copy, "offline") \in Copy \cup {None} /\ NotNewer(SetStatus(adm[a].copy, "offline"))
    BY <2>1, <2>2, Found, OtherStatus
  <2> QED
    BY <1>0, <1>2, <2>3, Found, Returns DEF Put
<1>3. CASE EtcdFails
  BY <1>0, <1>3, Found, Returns DEF EtcdFails
<1> QED
  BY <1>1, <1>2, <1>3 DEF RollsBack

-----------------------------------------------------------------------------
(* Time, and the invariants                                                  *)

LEMMA TickPreserves == ASSUME IInv, Tick PROVE IInv'
<1>0. /\ etcd \in Copy \cup {None} /\ mongo \in Copy \cup {None} /\ check \in Copy \cup {None}
      /\ mem \in Copy \cup {None} /\ mem # None
      /\ beat \in BeatState /\ beat.copy \in Copy \cup {None}
      /\ adm \in [Admin -> AdmState] /\ \A a \in Admin : adm[a].copy \in Copy \cup {None}
      /\ gone \in Age /\ UpIsNotGone /\ UNCHANGED <<lease, up, stopping, errors, ops>>
  BY NoneIsNoCopy DEF IInv, TypeOK, BeatState, AdmState, Tick
<1>1. /\ etcd' = Aged(etcd) /\ mongo' = Aged(mongo) /\ mem' = Aged(mem) /\ check' = Aged(check)
      /\ beat' = [beat EXCEPT !.copy = Aged(beat.copy)]
      /\ adm' = [a \in Admin |-> [adm[a] EXCEPT !.copy = Aged(adm[a].copy)]]
  BY DEF Tick
<1>2. beat' \in BeatState /\ beat'.copy = Aged(beat.copy)
  <2>1. Aged(beat.copy) \in Copy \cup {None}
    BY <1>0, AgedIsCopy
  <2> QED
    BY <1>0, <1>1, <2>1 DEF BeatState
<1>3. /\ adm' \in [Admin -> AdmState]
      /\ \A a \in Admin : /\ adm'[a].pc = adm[a].pc /\ adm'[a].op = adm[a].op
                         /\ adm'[a].copy = Aged(adm[a].copy)
  <2>1. ASSUME NEW a \in Admin
        PROVE  /\ [adm[a] EXCEPT !.copy = Aged(adm[a].copy)] \in AdmState
               /\ adm'[a] = [adm[a] EXCEPT !.copy = Aged(adm[a].copy)]
               /\ adm'[a].pc = adm[a].pc /\ adm'[a].op = adm[a].op
               /\ adm'[a].copy = Aged(adm[a].copy)
    <3>1. Aged(adm[a].copy) \in Copy \cup {None} /\ adm[a] \in AdmState
      BY <1>0, AgedIsCopy
    <3> QED
      BY <1>1, <3>1 DEF AdmState
  <2> QED
    BY <1>1, <2>1
<1>4. gone' \in Age /\ UpIsNotGone'
  <2>1. 0 \in Age /\ Older(gone) \in Age
    BY <1>0, RegistryAssumption DEF Age, Older
  <2> QED
    BY <1>0, <2>1 DEF Tick, UpIsNotGone
<1>5. TypeOK'
  <2>1. /\ etcd' \in Copy \cup {None} /\ mongo' \in Copy \cup {None} /\ check' \in Copy \cup {None}
        /\ mem' \in Copy /\ (etcd' = None => lease' = "none")
    BY <1>0, <1>1, AgedIsCopy DEF IInv, TypeOK
  <2> QED
    BY <1>0, <1>2, <1>3, <1>4, <2>1 DEF IInv, TypeOK, BeatState, AdmState
<1>6. CopiesNotNewer'
  <2>1. /\ NotNewer(etcd) /\ NotNewer(mongo) /\ NotNewer(check) /\ NotNewer(beat.copy)
        /\ \A a \in Admin : NotNewer(adm[a].copy)
    BY DEF IInv, CopiesNotNewer
  <2>2. NotNewer(etcd)' /\ NotNewer(mongo)' /\ NotNewer(check)' /\ NotNewer(beat.copy)'
    BY <1>0, <1>1, <1>2, <2>1, AgedIsNotNewer DEF NotNewer
  <2>3. ASSUME NEW a \in Admin PROVE NotNewer(adm[a].copy)'
    BY <1>0, <1>3, <2>1, AgedIsNotNewer DEF NotNewer
  <2> QED
    BY <2>2, <2>3 DEF CopiesNotNewer
<1>7. CallHasCopy'
  BY <1>0, <1>3, AgedIsCopy DEF IInv, CallHasCopy, HasCopy
<1> QED
  BY <1>4, <1>5, <1>6, <1>7 DEF IInv

LEMMA NextPreserves == ASSUME IInv, [Next]_vars PROVE IInv'
<1>1. CASE Start
  BY <1>1, StartPreserves
<1>2. CASE UpdateResources \/ PutResources \/ Heartbeat \/ HeartbeatFails \/ Register
  BY <1>2, BeatPreserves
<1>3. CASE AddRunningJob \/ RemoveRunningJob \/ Stop \/ BeatEnds \/ StopSaysOffline
           \/ StopReleasesLease \/ End
  BY <1>3, WorkerCallPreserves
<1>4. CASE LeaseExpires \/ CheckLists \/ CheckPuts \/ CheckFails
  BY <1>4, CheckPreserves
<1>5. CASE Tick
  BY <1>5, TickPreserves
<1>6. ASSUME NEW a \in Admin, AdminStep(a) PROVE IInv'
  <2>1. ASSUME NEW op \in OpKinds, Call(a, op) PROVE IInv'
    BY <2>1, CallPreserves
  <2>2. CASE EnableOrDisable(a) \/ UpdateWorkerLabels(a) \/ RunHealthCheck(a) \/ OtherCall(a)
    <3>1. \E op \in OpKinds : Call(a, op)
      BY <2>2 DEF EnableOrDisable, UpdateWorkerLabels, RunHealthCheck, OtherCall, OpKinds
    <3> QED
      BY <2>1, <3>1
  <2>3. CASE RegistersOther(a) \/ Deletes(a) \/ UpdateWorkerResources(a) \/ Puts(a)
    BY <2>3, WritesPreserve
  <2> QED
    BY <1>6, <2>2, <2>3, ReadsPreserves, ComparesPreserves, MongoPreserves, RollsBackPreserves
       DEF AdminStep
<1>7. CASE UNCHANGED vars
  BY <1>7 DEF vars, stores, worker, master, IInv, TypeOK, CopiesNotNewer, NotNewer,
              UpIsNotGone, CallHasCopy, HasCopy
<1> QED
  BY <1>1, <1>2, <1>3, <1>4, <1>5, <1>6, <1>7 DEF Next

LEMMA Inductive == Spec => []IInv
<1>1. Init => IInv
  BY InitIInv
<1>2. IInv /\ [Next]_vars => IInv'
  BY NextPreserves
<1> QED
  BY <1>1, <1>2, PTL DEF Spec

\* Whatever the worker, the health checks and the calls of the repository write, every
\* record in etcd and in MongoDB is a worker's record, and a key that is gone has no lease
\* (worker_repo.go, register.go, worker_mgr.go).
THEOREM TypeCorrect == Spec => []TypeOK
<1>1. IInv => TypeOK
  BY DEF IInv
<1> QED
  BY <1>1, Inductive, PTL

\* WorkerRepo.ListActive: the master gives jobs only to a worker that ran within the
\* heartbeat timeout. No writer, however old the copy it puts back, whatever it lost to
\* failures in between and whoever wrote before it, makes a worker that is gone look alive.
THEOREM ActiveWorkersRanLately == Spec => []ActiveRanLately
<1>1. ASSUME IInv, ListActive # {} PROVE gone <= Timeout
  <2>1. etcd # None /\ etcd.age <= Timeout /\ etcd.age >= gone
    BY <1>1 DEF IInv, CopiesNotNewer, NotNewer, ListActive, IsActive, Fresh
  <2>2. etcd.age \in Nat /\ gone \in Nat /\ Timeout \in Nat
    BY <1>1, <2>1, RegistryAssumption DEF IInv, TypeOK, Copy, Age
  <2> QED
    BY <2>1, <2>2
<1>2. IInv => ActiveRanLately
  BY <1>1 DEF ActiveRanLately
<1> QED
  BY <1>2, Inductive, PTL
=============================================================================
