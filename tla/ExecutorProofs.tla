--------------------------- MODULE ExecutorProofs ---------------------------
(***************************************************************************)
(* Proofs about Executor for every set of executions, every limit and      *)
(* every behaviour of the environment.                                     *)
(***************************************************************************)
EXTENDS Executor, TLAPS, FiniteSetTheorems

-----------------------------------------------------------------------------
(* The inductive invariant.                                                 *)

\* Where Execute is bounds where executeCommand can be.
Control ==
  \A x \in Exec :
    /\ pc[x] \in {"idle", "checked", "dozing", "waiting", "woken", "slot"} => cmd[x] = "none"
    /\ pc[x] = "registered" => cmd[x] = "registered"
    /\ pc[x] # "returned" => result[x] = "none"

\* Until the command has an outcome there is nothing to receive, and only then a process runs.
NoEarlyResult ==
  \A x \in Exec :
    /\ cmd[x] \in {"none", "registered", "starting", "created", "failing", "started", "waiting",
                   "timedOut"}
       => resultChan[x] = "empty" /\ outcome[x] = "none" /\ result[x] \notin Final
    /\ result[x] = "refused" => cmd[x] = "none"
    /\ cmd[x] \in {"decided", "resending"} => outcome[x] \in Final
    /\ proc[x] = "running" => cmd[x] \in {"started", "waiting", "timedOut"}

\* What Kill may write: the context of its execution has ended before.
StatusFits ==
  /\ \A k \in kills : execCtx[k.of] # "live"
  /\ \A x \in Exec :
       /\ cmd[x] \in {"created", "started", "waiting"} /\ execCtx[x] = "live"
          => status[x] = "running"
       /\ cmd[x] \in {"none", "registered", "starting", "created", "failing", "started",
                       "waiting", "timedOut"}
          => status[x] \notin {"success", "failed", "timeout"}

\* An answer on its way from the command to the caller is as true as the one that arrived.
True(x, answer) ==
  /\ answer = "cancelled" => execCtx[x] = "canceled"
  /\ answer = "success" => proc[x] = "ok"

AnswersTrue ==
  \A x \in Exec : True(x, outcome[x]) /\ True(x, resultChan[x]) /\ True(x, result[x])

\* Execute waits in the Kill that it calls, and calls one at a time.
OwnKill ==
  \A k \in kills : k.by # Operator =>
    /\ pc[k.by] = "killing"
    /\ \A l \in kills : l.by = k.by => l = k

\* Whoever is in the queue of runningCond sleeps, and is there once.
Asleep ==
  /\ \A i \in 1..Len(waiters) : pc[waiters[i]] = "waiting"
  /\ \A i, j \in 1..Len(waiters) : waiters[i] = waiters[j] => i = j

\* Whoever holds the mutex on the way to sleep has seen every slot taken, and still does.
NoSlotForDozing == \A x \in Exec : pc[x] = "dozing" => runningCount >= MaxConcurrent

IInv ==
  /\ TypeOK /\ Control /\ NoEarlyResult /\ AnswersTrue /\ OwnKill /\ StatusFits
  /\ SlotHasCommand /\ Asleep /\ NoSlotForDozing /\ NoLostWakeup

-----------------------------------------------------------------------------
(* The parts of the invariant that a step must keep by itself, and frames   *)
(* for the others.                                                          *)

Local == TypeOK /\ Control /\ NoEarlyResult /\ AnswersTrue /\ OwnKill /\ StatusFits

SameSlots ==
  /\ UNCHANGED <<runningJobs, runningCount>>
  /\ \A y \in Exec : cmd'[y] \in RunningCmd <=> cmd[y] \in RunningCmd

SameWait ==
  /\ UNCHANGED <<waiters, runningCount>>
  /\ \A y \in Exec :
       /\ pc[y] = "waiting" => pc'[y] = "waiting"
       /\ pc'[y] = "dozing" => pc[y] = "dozing"
       /\ pc'[y] \in {"woken", "slot"} <=> pc[y] \in {"woken", "slot"}

LEMMA SlotsFrame ==
  ASSUME SlotHasCommand, SameSlots
  PROVE  SlotHasCommand'
BY DEF SlotHasCommand, SameSlots

LEMMA WaitFrame ==
  ASSUME TypeOK, Asleep, NoSlotForDozing, NoLostWakeup, SameWait
  PROVE  Asleep' /\ NoSlotForDozing' /\ NoLostWakeup'
<1>1. Coming' = Coming
  BY DEF SameWait, Coming
<1>2. NoLostWakeup'
  BY <1>1 DEF NoLostWakeup, SameWait
<1>3. \A i \in 1..Len(waiters) : waiters[i] \in Exec
  BY DEF TypeOK
<1>4. Asleep'
  BY <1>3 DEF Asleep, SameWait
<1>5. NoSlotForDozing'
  BY DEF NoSlotForDozing, SameWait
<1> QED
  BY <1>2, <1>4, <1>5

LEMMA KillTypes ==
  ASSUME TypeOK
  PROVE  \A k \in kills : k.by \in Exec \cup {Operator} /\ k.of \in Exec
BY DEF TypeOK, Call

(* Execute and its contexts.                                                *)
LEMMA ExecuteStep ==
  ASSUME IInv, NEW x \in Exec,
         \/ Execute(x) \/ Launch(x) \/ Receive(x) \/ ContextEndsExecute(x) \/ GiveUp(x)
         \/ WokenPanics(x) \/ LeftListener(x) \/ Deadline(x) \/ CallerCancels(x)
         \/ ExecDeadline(x)
  PROVE  Local' /\ SameSlots /\ SameWait
<1>1. CASE Execute(x)
  <2>1. /\ UNCHANGED <<runningJobs, runningCount, waiters, cmd, outcome, resultChan, proc,
                       status, execCtx, kills>>
        /\ pc[x] = "idle" /\ cmd[x] = "none"
    BY <1>1 DEF Execute, IInv, Control, slotVars, ctxVars, cmdVars, killVars
  <2>2. \/ pc' = [pc EXCEPT ![x] = "checked"] /\ result' = result
        \/ /\ pc' = [pc EXCEPT ![x] = "returned"]
           /\ result' = [result EXCEPT ![x] = "refused"]
    BY <1>1 DEF Execute
  <2>3. TypeOK'
    BY <1>1, <2>2 DEF Execute, IInv, TypeOK, ExecutePC, slotVars, ctxVars, waitVars, cmdVars,
       killVars
  <2>4. DOMAIN pc = Exec /\ DOMAIN result = Exec
    BY DEF IInv, TypeOK
  <2>5. Control'
    BY <2>1, <2>2, <2>4 DEF IInv, Control
  <2>6. NoEarlyResult' /\ AnswersTrue'
    BY <2>1, <2>2, <2>4 DEF IInv, NoEarlyResult, AnswersTrue, True, Final
  <2>7. OwnKill' /\ StatusFits'
    BY <2>1, <2>2, <2>4, KillTypes DEF IInv, OwnKill, StatusFits
  <2> QED
    BY <2>1, <2>2, <2>3, <2>4, <2>5, <2>6, <2>7 DEF Local, SameSlots, SameWait
<1> USE DEF IInv, Local, slotVars, ctxVars, waitVars, cmdVars, killVars, TypeOK, Control,
        NoEarlyResult, AnswersTrue, True, OwnKill, StatusFits, SameSlots, SameWait, Final, Ended,
        Exited, RunningCmd, Operation, ExecutePC
<1>2. CASE Launch(x)
  BY <1>2 DEF Launch
<1>3. CASE Receive(x)
  BY <1>3 DEF Receive
<1>4. CASE ContextEndsExecute(x)
  <2>1. CASE x \notin runningJobs
    <3>1. TypeOK'
      BY <1>4, <2>1 DEF ContextEndsExecute
    <3>2. OwnKill'
      BY <1>4, <2>1, KillTypes DEF ContextEndsExecute
    <3> QED
      BY <1>4, <2>1, <3>1, <3>2 DEF ContextEndsExecute
  <2>2. CASE x \in runningJobs
    <3>1. PICK at \in {"waiting", "writing"} :
            kills' = kills \cup {[by |-> x, of |-> x, at |-> at]}
      BY <1>4, <2>2 DEF ContextEndsExecute, KillBegins
    <3>2. \A k \in kills : k.by # x
      BY <1>4, ExecutorAssumption DEF ContextEndsExecute
    <3>3. OwnKill'
      BY <1>4, <2>2, <3>1, <3>2, KillTypes DEF ContextEndsExecute
    <3>4. kills' \subseteq Call
      BY <3>1 DEF Call
    <3>5. /\ execCtx' = [execCtx EXCEPT ![x] = IF @ = "live" THEN "canceled" ELSE @]
          /\ pc' = [pc EXCEPT ![x] = "killing"]
      BY <1>4, <2>2 DEF ContextEndsExecute, KillBegins
    <3>6. TypeOK'
      BY <1>4, <3>4, <3>5 DEF ContextEndsExecute
    <3> QED
      <4>1. StatusFits'
        BY <1>4, <3>1, <3>5, KillTypes DEF ContextEndsExecute
      <4> QED
        BY <1>4, <3>3, <3>5, <3>6, <4>1 DEF ContextEndsExecute
  <2> QED
    BY <2>1, <2>2
<1>5. CASE GiveUp(x)
  BY <1>5 DEF GiveUp
<1>6. CASE WokenPanics(x)
  BY <1>6 DEF WokenPanics
<1>7. CASE LeftListener(x)
  BY <1>7 DEF LeftListener
<1>8. CASE Deadline(x)
  BY <1>8 DEF Deadline, ContextEnds
<1>9. CASE CallerCancels(x)
  BY <1>9, ExecutorAssumption DEF CallerCancels, ContextEnds
<1>10. CASE ExecDeadline(x)
  BY <1>10 DEF ExecDeadline
<1> QED
  BY <1>1, <1>2, <1>3, <1>4, <1>5, <1>6, <1>7, <1>8, <1>9, <1>10

(* Kill, by the operator and by Execute.                                    *)
LEMMA KillStep ==
  ASSUME IInv,
         \/ Stop
         \/ \E k \in kills : KillWaits(k) \/ KillEnds(k)
         \/ \E x \in Exec : KillCall(x) \/ OperatorKills(x)
  PROVE  Local' /\ SameSlots /\ SameWait
<1> USE DEF IInv, Local, slotVars, ctxVars, waitVars, cmdVars, killVars, TypeOK, Control,
        NoEarlyResult, AnswersTrue, True, OwnKill, StatusFits, SameSlots, SameWait, Final, Ended,
        Exited, RunningCmd, Operation, ExecutePC
<1>1. CASE Stop
  <2>1. ops' \in 0..MaxOps
    BY <1>1, ExecutorAssumption DEF Stop
  <2> QED
    BY <1>1, <2>1 DEF Stop
<1>2. ASSUME NEW k \in kills, KillWaits(k)
      PROVE  Local' /\ SameSlots /\ SameWait
  <2>1. k \in Call /\ [k EXCEPT !.at = "writing"] = [by |-> k.by, of |-> k.of, at |-> "writing"]
    BY DEF Call
  <2>2. kills' = (kills \ {k}) \cup {[by |-> k.by, of |-> k.of, at |-> "writing"]}
    BY <1>2, <2>1 DEF KillWaits
  <2>3. kills' \subseteq Call
    BY <2>1, <2>2 DEF Call
  <2>4. OwnKill'
    BY <1>2, <2>2, KillTypes DEF KillWaits
  <2>5. StatusFits'
    BY <1>2, <2>2, KillTypes DEF KillWaits
  <2> QED
    BY <1>2, <2>3, <2>4, <2>5 DEF KillWaits
<1>3. ASSUME NEW k \in kills, KillEnds(k)
      PROVE  Local' /\ SameSlots /\ SameWait
  <2>1. k.by \in Exec \cup {Operator} /\ k.of \in Exec
    BY KillTypes
  <2>2. OwnKill'
    BY <1>3, <2>1, KillTypes, ExecutorAssumption DEF KillEnds
  <2>3. TypeOK'
    BY <1>3, <2>1 DEF KillEnds
  <2> QED
    BY <1>3, <2>1, <2>2, <2>3 DEF KillEnds
<1>4. ASSUME NEW x \in Exec, KillCall(x)
      PROVE  Local' /\ SameSlots /\ SameWait
  BY <1>4, ExecutorAssumption DEF KillCall
<1>5. ASSUME NEW x \in Exec, OperatorKills(x)
      PROVE  Local' /\ SameSlots /\ SameWait
  <2>1. CASE x \notin runningJobs
    BY <1>5, <2>1 DEF OperatorKills
  <2>2. CASE x \in runningJobs
    <3>1. PICK at \in {"waiting", "writing"} :
            kills' = kills \cup {[by |-> Operator, of |-> x, at |-> at]}
      BY <1>5, <2>2 DEF OperatorKills, KillBegins
    <3>2. kills' \subseteq Call
      BY <3>1 DEF Call
    <3>3. OwnKill'
      BY <1>5, <3>1 DEF OperatorKills
    <3>4. execCtx' = [execCtx EXCEPT ![x] = IF @ = "live" THEN "canceled" ELSE @]
      BY <1>5, <2>2 DEF OperatorKills, KillBegins
    <3>5. TypeOK'
      BY <1>5, <3>2, <3>4 DEF OperatorKills
    <3>6. StatusFits'
      BY <1>5, <3>1, <3>4, KillTypes DEF OperatorKills
    <3> QED
      BY <1>5, <3>3, <3>4, <3>5, <3>6 DEF OperatorKills
  <2> QED
    BY <2>1, <2>2
<1> QED
  BY <1>1, <1>2, <1>3, <1>4, <1>5

(* executeCommand, the monitor and the process.                             *)
LEMMA CommandStep ==
  ASSUME IInv, NEW x \in Exec,
         \/ NewProcess(x) \/ StartProcess(x) \/ HandleExecutionError(x) \/ StartMonitor(x)
         \/ TimerFires(x) \/ Decide(x) \/ Report(x) \/ Resend(x)
         \/ MonitorSamples(x) \/ MonitorWrites(x) \/ ProcessEnds(x) \/ ProcessDies(x)
  PROVE  Local' /\ SameSlots /\ SameWait
<1> USE DEF IInv, Local, slotVars, ctxVars, waitVars, cmdVars, killVars, TypeOK, Control,
        NoEarlyResult, AnswersTrue, True, OwnKill, StatusFits, SameSlots, SameWait, Final, Ended,
        Exited, RunningCmd, Operation, ExecutePC, CmdStep
<1>1. CASE NewProcess(x)
  <2>1. CASE proc' = [proc EXCEPT ![x] = "created"] /\ CmdStep(x, "starting", "created")
    BY <1>1, <2>1 DEF NewProcess
  <2>2. CASE UNCHANGED proc /\ CmdStep(x, "starting", "failing")
    BY <1>1, <2>2 DEF NewProcess
  <2> QED
    BY <1>1, <2>1, <2>2 DEF NewProcess
<1>2. CASE StartProcess(x)
  <2>1. CASE proc' = [proc EXCEPT ![x] = "running"] /\ CmdStep(x, "created", "started")
    BY <1>2, <2>1 DEF StartProcess
  <2>2. CASE UNCHANGED proc /\ CmdStep(x, "created", "failing")
    BY <1>2, <2>2 DEF StartProcess
  <2> QED
    BY <1>2, <2>1, <2>2 DEF StartProcess
<1>3. CASE HandleExecutionError(x)
  BY <1>3 DEF HandleExecutionError
<1>4. CASE StartMonitor(x)
  BY <1>4 DEF StartMonitor
<1>5. CASE TimerFires(x)
  BY <1>5 DEF TimerFires
<1>6. CASE Decide(x)
  <2>1. /\ proc[x] \in Exited /\ cmd[x] \in {"waiting", "timedOut"}
        /\ cmd' = [cmd EXCEPT ![x] = "decided"]
        /\ outcome' = [outcome EXCEPT ![x] = Verdict(x)]
        /\ UNCHANGED <<isRunning, runningJobs, runningCount, waiters, status, ctx, execCtx, pc,
                       result, armed, closed, left, sampled, proc, resultChan, kills, toKill,
                       panicked, ops>>
    BY <1>6 DEF Decide, WaitReturned
  <2>2. Verdict(x) \in Final /\ True(x, Verdict(x))
    BY <2>1 DEF Verdict
  <2>3. TypeOK'
    BY <2>1, <2>2
  <2>4. Control' /\ NoEarlyResult'
    BY <2>1, <2>2
  <2>5. AnswersTrue'
    BY <2>1, <2>2
  <2>6. OwnKill' /\ StatusFits'
    BY <2>1, KillTypes
  <2> QED
    BY <2>1, <2>3, <2>4, <2>5, <2>6
<1>7. CASE Report(x)
  <2>1. TypeOK'
    BY <1>7 DEF Report
  <2>2. Control' /\ NoEarlyResult'
    BY <1>7 DEF Report
  <2>3. AnswersTrue' /\ OwnKill' /\ StatusFits'
    BY <1>7 DEF Report
  <2> QED
    BY <1>7, <2>1, <2>2, <2>3 DEF Report
<1>8. CASE Resend(x)
  <2>1. TypeOK'
    BY <1>8 DEF Resend
  <2>2. Control' /\ NoEarlyResult'
    BY <1>8 DEF Resend
  <2>3. AnswersTrue' /\ OwnKill' /\ StatusFits'
    BY <1>8 DEF Resend
  <2> QED
    BY <1>8, <2>1, <2>2, <2>3 DEF Resend
<1>9. CASE MonitorSamples(x)
  BY <1>9, ExecutorAssumption DEF MonitorSamples
<1>10. CASE MonitorWrites(x)
  BY <1>10 DEF MonitorWrites
<1>11. CASE ProcessEnds(x)
  BY <1>11 DEF ProcessEnds
<1>12. CASE ProcessDies(x)
  BY <1>12 DEF ProcessDies
<1> QED
  BY <1>1, <1>2, <1>3, <1>4, <1>5, <1>6, <1>7, <1>8, <1>9, <1>10, <1>11, <1>12

-----------------------------------------------------------------------------
(* The wait for a slot: the steps that put callers to sleep, wake them, and *)
(* take or give back slots.                                                 *)

\* Signal makes one sleeper a caller on its way, and no one else.
LEMMA SignalWakesOne ==
  ASSUME TypeOK, Asleep, Signal
  PROVE  /\ pc' \in [Exec -> ExecutePC]
         /\ waiters' \in Seq(Exec)
         /\ \A y \in Exec : pc'[y] = pc[y] \/ (pc[y] = "waiting" /\ pc'[y] = "woken")
         /\ Asleep'
         /\ waiters = <<>> => waiters' = <<>> /\ Coming' = Coming
         /\ waiters # <<>> => Cardinality(Coming') = Cardinality(Coming) + 1
<1>1. CASE waiters = <<>>
  BY <1>1 DEF Signal, TypeOK, Asleep, Coming
<1>2. CASE waiters # <<>>
  <2> DEFINE h == Head(waiters)
  <2>1. waiters \in Seq(Exec) /\ pc' = [pc EXCEPT ![h] = "woken"] /\ waiters' = Tail(waiters)
    BY <1>2 DEF Signal, TypeOK
  <2>2. /\ Len(waiters) \in Nat \ {0} /\ h = waiters[1] /\ h \in Exec
        /\ waiters' \in Seq(Exec)
    BY <1>2, <2>1
  <2>3. pc[h] = "waiting"
    BY <2>2 DEF Asleep
  <2>4. /\ Len(waiters') = Len(waiters) - 1
        /\ \A i \in 1..Len(waiters') : i + 1 \in 2..Len(waiters) /\ waiters'[i] = waiters[i + 1]
    BY <1>2, <2>1, <2>2
  <2>5. \A i \in 2..Len(waiters) : waiters[i] \in Exec /\ waiters[i] # h
    BY <2>2 DEF Asleep, TypeOK
  <2>6. Asleep'
    <3>1. \A i \in 1..Len(waiters') : pc'[waiters'[i]] = "waiting"
      BY <2>1, <2>2, <2>4, <2>5 DEF Asleep, TypeOK
    <3>2. \A i, j \in 1..Len(waiters') : waiters'[i] = waiters'[j] => i = j
      BY <2>1, <2>2, <2>4 DEF Asleep
    <3> QED
      BY <3>1, <3>2 DEF Asleep
  <2>7. Coming' = Coming \cup {h} /\ h \notin Coming
    BY <2>1, <2>2, <2>3 DEF Coming, TypeOK
  <2>8. IsFiniteSet(Coming)
    BY ExecutorAssumption, FS_Subset DEF Coming
  <2>9. Cardinality(Coming') = Cardinality(Coming) + 1
    BY <2>7, <2>8, FS_AddElement
  <2> QED
    BY <1>2, <2>1, <2>2, <2>3, <2>6, <2>9 DEF TypeOK, ExecutePC
<1> QED
  BY <1>1, <1>2

LEMMA ComingIsFinite ==
  IsFiniteSet(Coming) /\ Cardinality(Coming) \in Nat
BY ExecutorAssumption, FS_Subset, FS_CardinalityType DEF Coming

\* A caller goes to sleep only when every slot is taken, and keeps the mutex until it sleeps.
LEMMA DozeStep ==
  ASSUME IInv, NEW x \in Exec, EnterWait(x) \/ Woken(x)
  PROVE  IInv'
<1>1. \/ pc' = [pc EXCEPT ![x] = "slot"]
      \/ pc' = [pc EXCEPT ![x] = "dozing"] /\ runningCount >= MaxConcurrent
  BY ExecutorAssumption DEF EnterWait, Woken, SlotOrDoze, IInv, TypeOK
<1>2. /\ armed' \in [Exec -> BOOLEAN] /\ left' \in [Exec -> BOOLEAN]
      /\ UNCHANGED <<isRunning, runningJobs, runningCount, waiters, status, ctxVars, result,
                     closed, cmdVars, proc, resultChan, killVars, panicked, ops>>
  BY DEF EnterWait, Woken, SlotOrDoze, IInv, TypeOK
<1>3. pc[x] \in {"checked", "woken"} /\ DOMAIN pc = Exec
  BY DEF EnterWait, Woken, IInv, TypeOK
<1>4. pc' \in [Exec -> ExecutePC]
  BY <1>1 DEF IInv, TypeOK, ExecutePC
<1>5. TypeOK'
  BY <1>2, <1>4 DEF IInv, TypeOK, ctxVars, cmdVars, killVars
<1>6. Control' /\ NoEarlyResult' /\ AnswersTrue'
  BY <1>1, <1>2, <1>3 DEF IInv, Control, NoEarlyResult, AnswersTrue, True,
     ctxVars, cmdVars, killVars
<1>7. OwnKill' /\ StatusFits'
  BY <1>1, <1>2, <1>3, KillTypes DEF IInv, OwnKill, StatusFits, ctxVars, cmdVars, killVars
<1>8. SlotHasCommand'
  BY <1>2 DEF IInv, SlotHasCommand, cmdVars
<1>9. Asleep' /\ NoSlotForDozing'
  BY <1>1, <1>2, <1>3 DEF IInv, TypeOK, Asleep, NoSlotForDozing
<1>10. NoLostWakeup'
  <2>1. CASE pc' = [pc EXCEPT ![x] = "slot"]
    <3>1. Coming' = Coming \cup {x}
      BY <1>3, <2>1 DEF Coming
    <3>2. Cardinality(Coming') =
            IF x \in Coming THEN Cardinality(Coming) ELSE Cardinality(Coming) + 1
      BY <3>1, ComingIsFinite, FS_AddElement
    <3> QED
      BY <1>2, <3>2, ComingIsFinite, ExecutorAssumption DEF IInv, NoLostWakeup, TypeOK
  <2>2. CASE runningCount >= MaxConcurrent
    <3>1. Coming' \in SUBSET Exec
      BY DEF Coming
    <3>2. Cardinality(Coming') \in Nat
      BY <3>1, ExecutorAssumption, FS_Subset, FS_CardinalityType
    <3> QED
      BY <1>2, <2>2, <3>2, ExecutorAssumption DEF IInv, NoLostWakeup, TypeOK
  <2> QED
    BY <1>1, <2>1, <2>2
<1> QED
  BY <1>5, <1>6, <1>7, <1>8, <1>9, <1>10 DEF IInv

LEMMA FallAsleepStep ==
  ASSUME IInv, NEW x \in Exec, FallAsleep(x)
  PROVE  IInv'
<1>1. /\ pc[x] = "dozing" /\ pc' = [pc EXCEPT ![x] = "waiting"] /\ DOMAIN pc = Exec
      /\ waiters \in Seq(Exec) /\ waiters' = Append(waiters, x)
      /\ UNCHANGED <<isRunning, runningJobs, runningCount, status, ctxVars, result, waitVars,
                     cmdVars, proc, resultChan, killVars, panicked, ops>>
  BY DEF FallAsleep, IInv, TypeOK
<1>2. pc' \in [Exec -> ExecutePC]
  BY <1>1 DEF IInv, TypeOK, ExecutePC
<1>3. TypeOK'
  BY <1>1, <1>2 DEF IInv, TypeOK, ctxVars, waitVars, cmdVars, killVars
<1>4. Control' /\ NoEarlyResult' /\ AnswersTrue'
  BY <1>1 DEF IInv, Control, NoEarlyResult, AnswersTrue, True, ctxVars, cmdVars, killVars
<1>5. OwnKill' /\ StatusFits'
  BY <1>1, KillTypes DEF IInv, OwnKill, StatusFits, ctxVars, cmdVars, killVars
<1>6. SlotHasCommand'
  BY <1>1 DEF IInv, SlotHasCommand, cmdVars
<1>7. Asleep'
  <2>1. /\ Len(waiters') = Len(waiters) + 1 /\ Len(waiters) \in Nat
        /\ waiters'[Len(waiters')] = x
        /\ \A i \in 1..Len(waiters) : waiters'[i] = waiters[i] /\ waiters[i] \in Exec
    BY <1>1
  <2>2. \A i \in 1..Len(waiters) : waiters[i] # x
    BY <1>1 DEF IInv, Asleep
  <2>3. \A i \in 1..Len(waiters') : i = Len(waiters') \/ i \in 1..Len(waiters)
    BY <2>1
  <2>4. \A i \in 1..Len(waiters') : pc'[waiters'[i]] = "waiting"
    BY <1>1, <2>1, <2>3 DEF IInv, Asleep
  <2>5. \A i, j \in 1..Len(waiters') : waiters'[i] = waiters'[j] => i = j
    BY <2>1, <2>2, <2>3 DEF IInv, Asleep
  <2> QED
    BY <2>4, <2>5 DEF Asleep
<1>8. NoSlotForDozing'
  BY <1>1 DEF IInv, NoSlotForDozing
<1>9. NoLostWakeup'
  <2>1. runningCount >= MaxConcurrent
    BY <1>1 DEF IInv, NoSlotForDozing
  <2>2. Coming' = Coming
    BY <1>1 DEF Coming
  <2> QED
    BY <1>1, <2>1, <2>2, ComingIsFinite, ExecutorAssumption DEF IInv, TypeOK, NoLostWakeup
<1> QED
  BY <1>3, <1>4, <1>5, <1>6, <1>7, <1>8, <1>9 DEF IInv

LEMMA SignalStep ==
  ASSUME IInv, NEW x \in Exec, ContextEndsWait(x) \/ LeftListenerPanics(x)
  PROVE  IInv'
<1>1. Signal
  BY DEF ContextEndsWait, LeftListenerPanics
<1>2. /\ UNCHANGED <<isRunning, runningJobs, runningCount, status, ctxVars, result, cmdVars,
                     proc, resultChan, killVars, ops>>
      /\ armed' \in [Exec -> BOOLEAN] /\ closed' \in [Exec -> BOOLEAN]
      /\ left' \in [Exec -> BOOLEAN] /\ panicked' \in BOOLEAN
  BY DEF ContextEndsWait, LeftListenerPanics, IInv, TypeOK, waitVars
<1>3. \A y \in Exec : pc'[y] = pc[y] \/ (pc[y] = "waiting" /\ pc'[y] = "woken")
  BY <1>1, SignalWakesOne DEF IInv
<1>4. TypeOK'
  BY <1>1, <1>2, SignalWakesOne DEF IInv, TypeOK, ctxVars, cmdVars, killVars
<1>5. Control' /\ NoEarlyResult' /\ AnswersTrue'
  BY <1>2, <1>3 DEF IInv, Control, NoEarlyResult, AnswersTrue, True, ctxVars, cmdVars
<1>6. OwnKill' /\ StatusFits'
  BY <1>2, <1>3, KillTypes DEF IInv, OwnKill, StatusFits, ctxVars, cmdVars, killVars
<1>7. SlotHasCommand'
  BY <1>2 DEF IInv, SlotHasCommand, cmdVars
<1>8. NoLostWakeup'
  BY <1>1, <1>2, SignalWakesOne, ComingIsFinite, ExecutorAssumption
     DEF IInv, TypeOK, NoLostWakeup
<1>9. NoSlotForDozing'
  BY <1>2, <1>3 DEF IInv, NoSlotForDozing
<1> QED
  BY <1>1, <1>4, <1>5, <1>6, <1>7, <1>8, <1>9, SignalWakesOne DEF IInv

LEMMA RunningJobsIsFinite ==
  ASSUME TypeOK
  PROVE  IsFiniteSet(runningJobs) /\ Cardinality(runningJobs) \in Nat
BY ExecutorAssumption, FS_Subset, FS_CardinalityType DEF TypeOK

\* A caller that leaves the wait with a slot is no longer coming, but counted.
LEMMA RegisterStep ==
  ASSUME IInv, NEW x \in Exec, Register(x)
  PROVE  IInv'
<1> USE DEF IInv, slotVars, ctxVars, waitVars, cmdVars, killVars
<1>1. x \notin runningJobs
  BY DEF Register, Control, SlotHasCommand, RunningCmd
<1>2. runningCount' = Cardinality(runningJobs')
  BY <1>1, RunningJobsIsFinite, FS_AddElement DEF Register, SlotHasCommand
<1>3. SlotHasCommand'
  BY <1>2 DEF Register, SlotHasCommand, RunningCmd, TypeOK
<1>4. TypeOK'
  BY DEF Register, TypeOK, ExecutePC, RunningCmd
<1>5. Control' /\ NoEarlyResult' /\ AnswersTrue'
  BY DEF Register, TypeOK, Control, NoEarlyResult, AnswersTrue, True
<1>6. OwnKill' /\ StatusFits' /\ Asleep'
  BY KillTypes DEF Register, TypeOK, Control, OwnKill, StatusFits, Asleep
<1>7. NoLostWakeup'
  <2>1. Coming' = Coming \ {x} /\ x \in Coming
    BY DEF Register, Coming, TypeOK
  <2>2. Cardinality(Coming') = Cardinality(Coming) - 1
    BY <2>1, ComingIsFinite, FS_RemoveElement
  <2> QED
    BY <2>2, ComingIsFinite, ExecutorAssumption DEF Register, NoLostWakeup, TypeOK
<1>8. NoSlotForDozing'
  BY DEF Register, NoSlotForDozing, MutexFree, TypeOK
<1> QED
  BY <1>3, <1>4, <1>5, <1>6, <1>7, <1>8

\* The slot that is given back wakes a sleeper, if there is one.
LEMMA CleanupStep ==
  ASSUME IInv, NEW x \in Exec, Cleanup(x)
  PROVE  IInv'
<1> USE DEF IInv, slotVars, ctxVars, waitVars, cmdVars, killVars
<1>1. Signal /\ cmd[x] = "cleanup" /\ cmd' = [cmd EXCEPT ![x] = "done"]
  BY DEF Cleanup, CmdStep
<1>2. x \in runningJobs
  BY <1>1 DEF SlotHasCommand, RunningCmd
<1>3. runningCount' = Cardinality(runningJobs') /\ runningCount' \in Nat
  <2>1. runningJobs' = runningJobs \ {x} /\ runningCount' = runningCount - 1
    BY DEF Cleanup
  <2>2. IsFiniteSet(runningJobs') /\ Cardinality(runningJobs') = Cardinality(runningJobs) - 1
    BY <1>2, <2>1, RunningJobsIsFinite, FS_RemoveElement
  <2>3. Cardinality(runningJobs') \in Nat
    BY <2>2, FS_CardinalityType
  <2> QED
    BY <2>1, <2>2, <2>3 DEF SlotHasCommand
<1>4. SlotHasCommand'
  BY <1>1, <1>3 DEF Cleanup, SlotHasCommand, RunningCmd, TypeOK
<1>5. \A y \in Exec : pc'[y] = pc[y] \/ (pc[y] = "waiting" /\ pc'[y] = "woken")
  BY <1>1, SignalWakesOne
<1>6. TypeOK'
  BY <1>1, <1>3, SignalWakesOne DEF Cleanup, TypeOK
<1>7. Control'
  BY <1>1, <1>5 DEF Cleanup, Control, TypeOK
<1>8. NoEarlyResult' /\ AnswersTrue'
  BY <1>1 DEF Cleanup, NoEarlyResult, AnswersTrue, True, TypeOK
<1>9. OwnKill' /\ StatusFits'
  BY <1>1, <1>5, KillTypes DEF Cleanup, OwnKill, StatusFits, TypeOK
<1>10. NoLostWakeup'
  BY <1>1, SignalWakesOne, ComingIsFinite, ExecutorAssumption
     DEF Cleanup, TypeOK, NoLostWakeup
<1>11. NoSlotForDozing'
  BY <1>5 DEF Cleanup, NoSlotForDozing, MutexFree
<1> QED
  BY <1>1, <1>4, <1>6, <1>7, <1>8, <1>9, <1>10, <1>11, SignalWakesOne

-----------------------------------------------------------------------------
(* The invariant, and what follows from it.                                 *)

LEMMA IInvInit ==
  ASSUME Init
  PROVE  IInv
<1>1. TypeOK
  <2>1. waiters \in Seq(Exec) /\ runningCount \in Nat /\ ops \in 0..MaxOps
    BY ExecutorAssumption DEF Init
  <2>2. /\ runningJobs \subseteq Exec /\ kills \subseteq Call /\ toKill \subseteq Exec
        /\ isRunning \in BOOLEAN /\ panicked \in BOOLEAN
    BY DEF Init
  <2> QED
    BY <2>1, <2>2 DEF Init, TypeOK, ExecutePC
<1>2. Asleep /\ NoSlotForDozing
  BY DEF Init, Asleep, NoSlotForDozing
<1>3. SlotHasCommand /\ NoLostWakeup
  BY FS_EmptySet DEF Init, SlotHasCommand, NoLostWakeup, RunningCmd
<1>4. Control /\ NoEarlyResult /\ AnswersTrue /\ OwnKill /\ StatusFits
  BY DEF Init, Control, NoEarlyResult, AnswersTrue, True, OwnKill, StatusFits, Final
<1> QED
  BY <1>1, <1>2, <1>3, <1>4 DEF IInv

LEMMA IInvNext ==
  ASSUME IInv, [Next]_vars
  PROVE  IInv'
<1>1. ASSUME Local', SameSlots, SameWait
      PROVE  IInv'
  BY <1>1, SlotsFrame, WaitFrame DEF IInv, Local
<1>2. CASE Stop \/ \E k \in kills : KillWaits(k) \/ KillEnds(k)
  BY <1>1, <1>2, KillStep
<1>3. ASSUME NEW x \in Exec,
             \/ Step(x)
             \/ Execute(x) \/ LeftListener(x) \/ LeftListenerPanics(x) \/ GiveUp(x)
             \/ KillCall(x)
             \/ TimerFires(x) \/ MonitorSamples(x) \/ MonitorWrites(x)
             \/ ProcessEnds(x)
             \/ Deadline(x) \/ CallerCancels(x) \/ ExecDeadline(x)
      PROVE  IInv'
  BY <1>1, <1>3, ExecuteStep, KillStep, CommandStep, DozeStep, FallAsleepStep, SignalStep,
     RegisterStep, CleanupStep DEF Step
<1>4. CASE UNCHANGED vars
  <2>1. Local' /\ SameSlots /\ SameWait
    <3> USE <1>4 DEF IInv, vars, slotVars, ctxVars, waitVars, cmdVars, killVars
    <3>1. TypeOK'
      BY DEF TypeOK
    <3>2. Control' /\ NoEarlyResult' /\ AnswersTrue' /\ OwnKill' /\ StatusFits'
      BY DEF Control, NoEarlyResult, AnswersTrue, True, OwnKill, StatusFits
    <3> QED
      BY <3>1, <3>2 DEF Local, SameSlots, SameWait
  <2> QED
    BY <1>1, <2>1
<1> QED
  BY <1>2, <1>3, <1>4 DEF Next

THEOREM Invariance == Spec => []IInv
BY IInvInit, IInvNext, PTL DEF Spec

(* Every variable keeps its type; runningCount never goes below zero.       *)
THEOREM TypeCorrect == Spec => []TypeOK
<1>1. IInv => TypeOK
  BY DEF IInv
<1> QED
  BY <1>1, Invariance, PTL

(* runningCount counts the registered executions, each of which has a       *)
(* goroutine that will give its slot back.                                  *)
THEOREM EverySlotHasCommand == Spec => []SlotHasCommand
<1>1. IInv => SlotHasCommand
  BY DEF IInv
<1> QED
  BY <1>1, Invariance, PTL

(* No caller sleeps beside a free slot without someone on the way to it.    *)
THEOREM WakeupsAreNotLost == Spec => []NoLostWakeup
<1>1. IInv => NoLostWakeup
  BY DEF IInv
<1> QED
  BY <1>1, Invariance, PTL

(* A running process has a slot, and its Execute has not returned a result. *)
THEOREM ProcessesHaveSlots == Spec => []NoOrphanProcess
<1>1. IInv => NoOrphanProcess
  BY DEF IInv, TypeOK, NoEarlyResult, SlotHasCommand, RunningCmd, NoOrphanProcess
<1> QED
  BY <1>1, Invariance, PTL

(* Cancelled and success are answered only when they are true.              *)
THEOREM AnswersAreTrue == Spec => []ResultIsTrue
<1>1. IInv => ResultIsTrue
  BY DEF IInv, AnswersTrue, True, ResultIsTrue
<1> QED
  BY <1>1, Invariance, PTL

(* The status says running of every running process that no one has killed, *)
(* and never that a running process ended by itself.                        *)
THEOREM StatusesAreTrue == Spec => []StatusIsTrue
<1>1. IInv => StatusIsTrue
  BY DEF IInv, NoEarlyResult, StatusFits, StatusIsTrue, Killed
<1> QED
  BY <1>1, Invariance, PTL
=============================================================================
