------------------------------ MODULE Executor ------------------------------
(***************************************************************************)
(* The executor of a worker: Execute waits for a slot, registers the       *)
(* execution and waits for its result; executeCommand runs the process in  *)
(* a goroutine of its own; a monitor samples the process; Kill and Stop    *)
(* come from elsewhere; contexts end by their deadline or by their caller. *)
(*                                                                         *)
(* Sources: pkg/worker/executor/executor.go and process.go, and executeJob *)
(* of pkg/worker/app.go, the caller of Execute.                            *)
(***************************************************************************)
EXTENDS Naturals, FiniteSets, Sequences

CONSTANTS
  Exec,           \* the execution ids; an id is a fresh UUID, executed once
  Operator,       \* the goroutine that calls Kill and Stop
  MaxConcurrent,  \* ExecutionOptions.MaxConcurrentExecutions
  MaxOps,         \* calls of Kill and Stop, cancels and samples (a bound)
  Env             \* what happens around the executor

(* Timeout: the executions have a timeout;  Deadline: the contexts of their *)
(* callers have one too, as executeJob's have;  Cancel: a caller cancels    *)
(* its context;  Kill, Stop: the operator calls them;  SlowKill: a process  *)
(* may outlive the waits of Kill and of Execute.                            *)
EnvKinds == {"Timeout", "Deadline", "Cancel", "Kill", "Stop", "SlowKill"}

ASSUME ExecutorAssumption ==
  /\ IsFiniteSet(Exec)
  /\ Operator \notin Exec
  /\ MaxConcurrent \in Nat \ {0} /\ MaxOps \in Nat
  /\ Env \subseteq EnvKinds

VARIABLES
  isRunning, runningJobs, runningCount,   \* Executor
  waiters,                                \* those asleep in runningCond, oldest first
  status,                                 \* execStatusMap
  ctx, execCtx,                           \* Execute's context and its child for the command
  pc, result,                             \* Execute, and what it returned
  armed, closed, left,                    \* the goroutine that waits for ctx beside the wait
  cmd, outcome, sampled,                  \* executeCommand and monitorResources
  proc,                                   \* Process, and what the process ended with
  resultChan,
  kills, toKill,                          \* calls of Kill under way, those Stop has to make
  panicked,                               \* the worker process has crashed
  ops

slotVars == <<runningJobs, runningCount, waiters>>
ctxVars == <<ctx, execCtx>>
waitVars == <<armed, closed, left>>
cmdVars == <<cmd, outcome, sampled>>
killVars == <<kills, toKill>>
vars == <<isRunning, slotVars, status, ctxVars, pc, result, waitVars, cmdVars, proc,
          resultChan, killVars, panicked, ops>>

Final == {"success", "failed", "timeout", "cancelled"}
Ended == {"canceled", "deadline"}
Exited == {"ok", "error"}

ExecutePC == {"idle", "checked", "dozing", "waiting", "woken", "slot", "registered", "select",
              "killing", "lastSelect", "returned"}

\* From the registration until the slot is given back.
RunningCmd == {"registered", "starting", "created", "failing", "started", "waiting", "timedOut",
               "decided", "resending", "cleanup"}

Call == [by : Exec \cup {Operator}, of : Exec, at : {"waiting", "writing"}]

\* The types; the count of the slots in use never goes below zero.
TypeOK ==
  /\ isRunning \in BOOLEAN
  /\ runningJobs \subseteq Exec
  /\ runningCount \in Nat
  /\ waiters \in Seq(Exec)
  /\ status \in [Exec -> {"none", "pending", "running"} \cup Final]
  /\ ctx \in [Exec -> {"live"} \cup Ended]
  /\ execCtx \in [Exec -> {"live"} \cup Ended]
  /\ pc \in [Exec -> ExecutePC]
  /\ result \in [Exec -> {"none", "refused", "gaveUp"} \cup Final]
  /\ armed \in [Exec -> BOOLEAN] /\ closed \in [Exec -> BOOLEAN] /\ left \in [Exec -> BOOLEAN]
  /\ cmd \in [Exec -> {"none", "done"} \cup RunningCmd]
  /\ outcome \in [Exec -> {"none"} \cup Final]
  /\ sampled \in [Exec -> BOOLEAN]
  /\ proc \in [Exec -> {"none", "created", "running"} \cup Exited]
  /\ resultChan \in [Exec -> {"empty"} \cup Final]
  /\ kills \subseteq Call
  /\ toKill \subseteq Exec
  /\ panicked \in BOOLEAN
  /\ ops \in 0..MaxOps

Init ==
  /\ isRunning = TRUE
  /\ runningJobs = {} /\ runningCount = 0 /\ waiters = <<>>
  /\ status = [x \in Exec |-> "none"]
  /\ ctx = [x \in Exec |-> "live"] /\ execCtx = [x \in Exec |-> "live"]
  /\ pc = [x \in Exec |-> "idle"] /\ result = [x \in Exec |-> "none"]
  /\ armed = [x \in Exec |-> FALSE] /\ closed = [x \in Exec |-> FALSE]
  /\ left = [x \in Exec |-> FALSE]
  /\ cmd = [x \in Exec |-> "none"] /\ outcome = [x \in Exec |-> "none"]
  /\ sampled = [x \in Exec |-> FALSE]
  /\ proc = [x \in Exec |-> "none"]
  /\ resultChan = [x \in Exec |-> "empty"]
  /\ kills = {} /\ toKill = {}
  /\ panicked = FALSE
  /\ ops = 0

Operation == ops < MaxOps /\ ops' = ops + 1

\* e.runningCond.Signal(): the oldest sleeper is woken.
Signal ==
  IF waiters = <<>> THEN UNCHANGED <<waiters, pc>>
  ELSE /\ pc' = [pc EXCEPT ![Head(waiters)] = "woken"]
       /\ waiters' = Tail(waiters)

-----------------------------------------------------------------------------
(* Execute, up to the registration.  The wait for a slot and the            *)
(* registration are two critical sections of processMutex.                  *)

Execute(x) ==
  /\ pc[x] = "idle"
  /\ IF isRunning
     THEN pc' = [pc EXCEPT ![x] = "checked"] /\ UNCHANGED result
     ELSE /\ pc' = [pc EXCEPT ![x] = "returned"]
          /\ result' = [result EXCEPT ![x] = "refused"]
  /\ UNCHANGED <<isRunning, slotVars, status, ctxVars, waitVars, cmdVars, proc, resultChan,
                 killVars, panicked, ops>>

(* The loop test of waitForAvailableSlot: a slot, or a new goroutine beside *)
(* a new sleep.  Until Wait has put the caller among the waiters it holds   *)
(* processMutex, which the goroutine does not take.                         *)
SlotOrDoze(x) ==
  /\ UNCHANGED waiters
  /\ IF runningCount < MaxConcurrent
     THEN pc' = [pc EXCEPT ![x] = "slot"] /\ armed' = [armed EXCEPT ![x] = FALSE]
     ELSE pc' = [pc EXCEPT ![x] = "dozing"] /\ armed' = [armed EXCEPT ![x] = TRUE]

MutexFree == \A y \in Exec : pc[y] # "dozing"

EnterWait(x) ==
  /\ pc[x] = "checked" /\ MutexFree
  /\ SlotOrDoze(x)
  /\ UNCHANGED <<isRunning, runningJobs, runningCount, status, ctxVars, result, closed, left,
                 cmdVars, proc, resultChan, killVars, panicked, ops>>

FallAsleep(x) ==
  /\ pc[x] = "dozing"
  /\ pc' = [pc EXCEPT ![x] = "waiting"]
  /\ waiters' = Append(waiters, x)
  /\ UNCHANGED <<isRunning, runningJobs, runningCount, status, ctxVars, result, waitVars,
                 cmdVars, proc, resultChan, killVars, panicked, ops>>

\* The goroutine beside the wait sees the end of ctx: it signals and closes done.
ContextEndsWait(x) ==
  /\ armed[x] /\ ctx[x] # "live"
  /\ Signal
  /\ armed' = [armed EXCEPT ![x] = FALSE]
  /\ closed' = [closed EXCEPT ![x] = TRUE]
  /\ UNCHANGED <<isRunning, runningJobs, runningCount, status, ctxVars, result, left, cmdVars,
                 proc, resultChan, killVars, panicked, ops>>

\* Wait returns and done is closed; to close a closed channel is a panic.  With an ended context
\* the wait is over, slot or not.
Woken(x) ==
  /\ pc[x] = "woken" /\ ~closed[x] /\ MutexFree
  /\ left' = [left EXCEPT ![x] = TRUE]
  /\ IF ctx[x] # "live"
     THEN /\ pc' = [pc EXCEPT ![x] = "slot"]
          /\ armed' = [armed EXCEPT ![x] = FALSE]
          /\ UNCHANGED waiters
     ELSE SlotOrDoze(x)
  /\ UNCHANGED <<isRunning, runningJobs, runningCount, status, ctxVars, result, closed, cmdVars,
                 proc, resultChan, killVars, panicked, ops>>

WokenPanics(x) ==
  /\ pc[x] = "woken" /\ closed[x]
  /\ panicked' = TRUE
  /\ UNCHANGED <<isRunning, slotVars, status, ctxVars, pc, result, waitVars, cmdVars, proc,
                 resultChan, killVars, ops>>

(* A goroutine whose done the waiter closed.  Those of several rounds are   *)
(* alike and counted as one.  When ctx has ended too, its select may take   *)
(* that branch.                                                             *)
LeftListener(x) ==
  /\ left[x]
  /\ left' = [left EXCEPT ![x] = FALSE]
  /\ UNCHANGED <<isRunning, slotVars, status, ctxVars, pc, result, armed, closed, cmdVars, proc,
                 resultChan, killVars, panicked, ops>>

LeftListenerPanics(x) ==
  /\ left[x] /\ ctx[x] # "live"
  /\ Signal
  /\ panicked' = TRUE
  /\ UNCHANGED <<isRunning, runningJobs, runningCount, status, ctxVars, result, waitVars,
                 cmdVars, proc, resultChan, killVars, ops>>

\* A mutant: the new execution is not counted.
Mutant_NotCounted(x) ==
  /\ pc[x] = "slot" /\ MutexFree
  /\ pc' = [pc EXCEPT ![x] = "registered"]
  /\ cmd' = [cmd EXCEPT ![x] = "registered"]
  /\ runningJobs' = runningJobs \cup {x}
  /\ UNCHANGED <<isRunning, runningCount, waiters, status, ctxVars, result, waitVars, outcome,
                 sampled, proc, resultChan, killVars, panicked, ops>>

Register(x) ==
  /\ pc[x] = "slot" /\ MutexFree
  /\ pc' = [pc EXCEPT ![x] = "registered"]
  /\ cmd' = [cmd EXCEPT ![x] = "registered"]
  /\ runningJobs' = runningJobs \cup {x}
  /\ runningCount' = runningCount + 1
  /\ UNCHANGED <<isRunning, waiters, status, ctxVars, result, waitVars, outcome, sampled, proc,
                 resultChan, killVars, panicked, ops>>

Launch(x) ==
  /\ pc[x] = "registered"
  /\ pc' = [pc EXCEPT ![x] = "select"]
  /\ status' = [status EXCEPT ![x] = "pending"]
  /\ cmd' = [cmd EXCEPT ![x] = "starting"]
  /\ UNCHANGED <<isRunning, slotVars, ctxVars, result, waitVars, outcome, sampled, proc, resultChan,
                 killVars, panicked, ops>>

-----------------------------------------------------------------------------
(* Kill, called by Execute itself (by = of) or by the operator.             *)

Killed(x) == execCtx[x] # "live" \/ cmd[x] = "timedOut"

(* The lookup, CancelFunc, and Process as it is read then, without a lock:  *)
(* a process that is there may be missed.  Without a started process there  *)
(* is nothing to wait for.                                                  *)
KillBegins(a, x) ==
  /\ execCtx' = [execCtx EXCEPT ![x] = IF @ = "live" THEN "canceled" ELSE @]
  /\ \E at \in {"waiting", "writing"} :
       /\ at = "waiting" => proc[x] \in {"running"} \cup Exited
       /\ kills' = kills \cup {[by |-> a, of |-> x, at |-> at]}

\* Process.Kill: after the grace period it gives up waiting for the process.
KillWaits(k) ==
  /\ k \in kills /\ k.at = "waiting"
  /\ proc[k.of] \in Exited \/ "SlowKill" \in Env
  /\ kills' = (kills \ {k}) \cup {[k EXCEPT !.at = "writing"]}
  /\ UNCHANGED <<isRunning, slotVars, status, ctxVars, pc, result, waitVars, cmdVars, proc,
                 resultChan, toKill, panicked, ops>>

\* A mutant: Execute returns after Kill without waiting for the result.
Mutant_ReturnAfterKill(k) ==
  /\ k \in kills /\ k.at = "writing"
  /\ status' = [status EXCEPT ![k.of] = "cancelled"]
  /\ kills' = kills \ {k}
  /\ IF k.by = Operator THEN UNCHANGED <<pc, result>>
     ELSE /\ pc' = [pc EXCEPT ![k.by] = "returned"]
          /\ result' = [result EXCEPT ![k.by] = "cancelled"]
  /\ UNCHANGED <<isRunning, slotVars, ctxVars, waitVars, cmdVars, proc, resultChan, toKill,
                 panicked, ops>>

KillEnds(k) ==
  /\ k \in kills /\ k.at = "writing"
  /\ status' = [status EXCEPT ![k.of] = "cancelled"]
  /\ kills' = kills \ {k}
  /\ pc' = IF k.by = Operator THEN pc ELSE [pc EXCEPT ![k.by] = "lastSelect"]
  /\ UNCHANGED <<isRunning, slotVars, ctxVars, result, waitVars, cmdVars, proc, resultChan,
                 toKill, panicked, ops>>

OperatorIsFree == \A k \in kills : k.by # Operator

KillCall(x) ==
  /\ Operation
  /\ "Kill" \in Env /\ toKill = {} /\ OperatorIsFree
  /\ x \in runningJobs
  /\ toKill' = {x}
  /\ UNCHANGED <<isRunning, slotVars, status, ctxVars, pc, result, waitVars, cmdVars, proc,
                 resultChan, kills, panicked>>

Stop ==
  /\ Operation
  /\ "Stop" \in Env /\ toKill = {} /\ OperatorIsFree
  /\ isRunning
  /\ isRunning' = FALSE
  /\ toKill' = runningJobs
  /\ UNCHANGED <<slotVars, status, ctxVars, pc, result, waitVars, cmdVars, proc, resultChan,
                 kills, panicked>>

OperatorKills(x) ==
  /\ x \in toKill /\ OperatorIsFree
  /\ toKill' = toKill \ {x}
  /\ IF x \in runningJobs THEN KillBegins(Operator, x) ELSE UNCHANGED <<execCtx, kills>>
  /\ UNCHANGED <<isRunning, slotVars, status, ctx, pc, result, waitVars, cmdVars, proc,
                 resultChan, panicked, ops>>

-----------------------------------------------------------------------------
(* Execute, from its select on.                                             *)

Receive(x) ==
  /\ pc[x] \in {"select", "lastSelect"}
  /\ resultChan[x] # "empty"
  /\ result' = [result EXCEPT ![x] = resultChan[x]]
  /\ resultChan' = [resultChan EXCEPT ![x] = "empty"]
  /\ pc' = [pc EXCEPT ![x] = "returned"]
  /\ UNCHANGED <<isRunning, slotVars, status, ctxVars, waitVars, cmdVars, proc, killVars,
                 panicked, ops>>

ContextEndsExecute(x) ==
  /\ pc[x] = "select" /\ ctx[x] # "live"
  /\ IF x \in runningJobs
     THEN KillBegins(x, x) /\ pc' = [pc EXCEPT ![x] = "killing"]
     ELSE pc' = [pc EXCEPT ![x] = "lastSelect"] /\ UNCHANGED <<execCtx, kills>>
  /\ UNCHANGED <<isRunning, slotVars, status, ctx, result, waitVars, cmdVars, proc, resultChan,
                 toKill, panicked, ops>>

\* time.After(KillGracePeriod * 2)
GiveUp(x) ==
  /\ "SlowKill" \in Env
  /\ pc[x] = "lastSelect" /\ resultChan[x] = "empty"
  /\ pc' = [pc EXCEPT ![x] = "returned"]
  /\ result' = [result EXCEPT ![x] = "gaveUp"]
  /\ UNCHANGED <<isRunning, slotVars, status, ctxVars, waitVars, cmdVars, proc, resultChan,
                 killVars, panicked, ops>>

-----------------------------------------------------------------------------
(* executeCommand.                                                          *)

CmdStep(x, from, to) == cmd[x] = from /\ cmd' = [cmd EXCEPT ![x] = to]

\* A mutant: the status says running only when the process is watched.
Mutant_LateStatus(x) ==
  /\ cmd[x] = "starting"
  /\ \/ CmdStep(x, "starting", "created") /\ proc' = [proc EXCEPT ![x] = "created"]
     \/ CmdStep(x, "starting", "failing") /\ UNCHANGED proc
  /\ UNCHANGED <<isRunning, slotVars, status, ctxVars, pc, result, waitVars, outcome, sampled,
                 resultChan, killVars, panicked, ops>>

NewProcess(x) ==
  /\ cmd[x] = "starting"
  /\ status' = [status EXCEPT ![x] = "running"]
  /\ \/ CmdStep(x, "starting", "created") /\ proc' = [proc EXCEPT ![x] = "created"]
     \/ CmdStep(x, "starting", "failing") /\ UNCHANGED proc
  /\ UNCHANGED <<isRunning, slotVars, ctxVars, pc, result, waitVars, outcome, sampled, resultChan,
                 killVars, panicked, ops>>

\* exec.Cmd.Start fails with an ended context, and may fail anyway.
StartProcess(x) ==
  /\ \/ /\ execCtx[x] = "live"
        /\ CmdStep(x, "created", "started")
        /\ proc' = [proc EXCEPT ![x] = "running"]
     \/ CmdStep(x, "created", "failing") /\ UNCHANGED proc
  /\ UNCHANGED <<isRunning, slotVars, status, ctxVars, pc, result, waitVars, outcome, sampled,
                 resultChan, killVars, panicked, ops>>

\* A mutant: the error path forgets to clean up.
Mutant_ErrorKeepsSlot(x) ==
  /\ CmdStep(x, "failing", "done")
  /\ status' = [status EXCEPT ![x] = "failed"]
  /\ resultChan' = [resultChan EXCEPT ![x] = "failed"]
  /\ UNCHANGED <<isRunning, slotVars, ctxVars, pc, result, waitVars, outcome, sampled, proc,
                 killVars, panicked, ops>>

HandleExecutionError(x) ==
  /\ CmdStep(x, "failing", "cleanup")
  /\ status' = [status EXCEPT ![x] = "failed"]
  /\ resultChan' = [resultChan EXCEPT ![x] = "failed"]
  /\ UNCHANGED <<isRunning, slotVars, ctxVars, pc, result, waitVars, outcome, sampled, proc,
                 killVars, panicked, ops>>

StartMonitor(x) ==
  /\ CmdStep(x, "started", "waiting")
  /\ status' = [status EXCEPT ![x] = "running"]
  /\ UNCHANGED <<isRunning, slotVars, ctxVars, pc, result, waitVars, outcome, sampled, proc,
                 resultChan, killVars, panicked, ops>>

\* The timer of WaitWithTimeout, which kills the process and waits for its end.
TimerFires(x) ==
  /\ "Timeout" \in Env
  /\ CmdStep(x, "waiting", "timedOut")
  /\ UNCHANGED <<isRunning, slotVars, status, ctxVars, pc, result, waitVars, outcome, sampled, proc,
                 resultChan, killVars, panicked, ops>>

\* A mutant: a timeout does not wait for the process that it kills.
Mutant_TimeoutReturnsAtOnce(x) == proc[x] \in Exited \/ cmd[x] = "timedOut"

WaitReturned(x) == proc[x] \in Exited

\* A mutant: every ended context counts as a cancellation.
Mutant_AnyEndCancels(x) ==
  IF execCtx[x] # "live" THEN "cancelled"
  ELSE IF cmd[x] = "timedOut" THEN "timeout"
  ELSE IF proc[x] = "error" THEN "failed" ELSE "success"

\* ctx.Err() is looked at before the answers of WaitWithTimeout.
Verdict(x) ==
  IF execCtx[x] = "canceled" THEN "cancelled"
  ELSE IF cmd[x] = "timedOut" THEN "timeout"
  ELSE IF proc[x] = "error" THEN "failed" ELSE "success"

Decide(x) ==
  /\ WaitReturned(x)
  /\ CmdStep(x, "waiting", "decided") \/ CmdStep(x, "timedOut", "decided")
  /\ outcome' = [outcome EXCEPT ![x] = Verdict(x)]
  /\ UNCHANGED <<isRunning, slotVars, status, ctxVars, pc, result, waitVars, sampled, proc,
                 resultChan, killVars, panicked, ops>>

\* handleExecutionTimeout sends without blocking before executeCommand sends, blocking.
Report(x) ==
  /\ CmdStep(x, "decided", IF outcome[x] = "timeout" THEN "resending" ELSE "cleanup")
  /\ status' = [status EXCEPT ![x] = outcome[x]]
  /\ resultChan' = [resultChan EXCEPT ![x] = outcome[x]]
  /\ UNCHANGED <<isRunning, slotVars, ctxVars, pc, result, waitVars, outcome, sampled, proc,
                 killVars, panicked, ops>>

\* The blocking send; the third one, which does not block, then finds the channel full.
Resend(x) ==
  /\ resultChan[x] = "empty"
  /\ CmdStep(x, "resending", "cleanup")
  /\ resultChan' = [resultChan EXCEPT ![x] = outcome[x]]
  /\ UNCHANGED <<isRunning, slotVars, status, ctxVars, pc, result, waitVars, outcome, sampled, proc,
                 killVars, panicked, ops>>

\* A mutant: no one is told of the free slot.
Mutant_NoSignal(x) ==
  /\ MutexFree
  /\ CmdStep(x, "cleanup", "done")
  /\ runningJobs' = runningJobs \ {x}
  /\ runningCount' = runningCount - 1
  /\ UNCHANGED <<isRunning, waiters, pc, status, ctxVars, result, waitVars, outcome, sampled,
                 proc, resultChan, killVars, panicked, ops>>

Cleanup(x) ==
  /\ MutexFree
  /\ CmdStep(x, "cleanup", "done")
  /\ runningJobs' = runningJobs \ {x}
  /\ runningCount' = runningCount - 1
  /\ Signal
  /\ UNCHANGED <<isRunning, status, ctxVars, result, waitVars, outcome, sampled, proc, resultChan,
                 killVars, panicked, ops>>

-----------------------------------------------------------------------------
(* monitorResources, from StartMonitor on: the answer of IsRunning and the  *)
(* write of the status are apart.  The monitor may miss any tick: it ends   *)
(* when IsRunning says no, which it may say of a process that sleeps.       *)

MonitorSamples(x) ==
  /\ Operation
  /\ ~sampled[x] /\ proc[x] = "running" /\ cmd[x] \in {"waiting", "timedOut"}
  /\ sampled' = [sampled EXCEPT ![x] = TRUE]
  /\ UNCHANGED <<isRunning, slotVars, status, ctxVars, pc, result, waitVars, cmd, outcome, proc,
                 resultChan, killVars, panicked>>

MonitorWrites(x) ==
  /\ sampled[x]
  /\ sampled' = [sampled EXCEPT ![x] = FALSE]
  /\ status' = [status EXCEPT ![x] = "running"]
  /\ UNCHANGED <<isRunning, slotVars, ctxVars, pc, result, waitVars, cmd, outcome, proc,
                 resultChan, killVars, panicked, ops>>

-----------------------------------------------------------------------------
(* The process and the contexts.                                            *)

ProcessEnds(x) ==
  /\ proc[x] = "running"
  /\ \E e \in Exited : proc' = [proc EXCEPT ![x] = e]
  /\ UNCHANGED <<isRunning, slotVars, status, ctxVars, pc, result, waitVars, cmdVars, resultChan,
                 killVars, panicked, ops>>

\* CommandContext kills the process when its context has ended, Process.Kill ends that context.
ProcessDies(x) ==
  /\ Killed(x) /\ proc[x] = "running"
  /\ proc' = [proc EXCEPT ![x] = "error"]
  /\ UNCHANGED <<isRunning, slotVars, status, ctxVars, pc, result, waitVars, cmdVars, resultChan,
                 killVars, panicked, ops>>

ContextEnds(x, why) ==
  /\ ctx[x] = "live" /\ pc[x] \notin {"idle", "returned"}
  /\ ctx' = [ctx EXCEPT ![x] = why]
  /\ execCtx' = [execCtx EXCEPT ![x] = IF @ = "live" THEN why ELSE @]
  /\ UNCHANGED <<isRunning, slotVars, status, pc, result, waitVars, cmdVars, proc, resultChan,
                 killVars, panicked>>

Deadline(x) == "Deadline" \in Env /\ ContextEnds(x, "deadline") /\ UNCHANGED ops

CallerCancels(x) == "Cancel" \in Env /\ ContextEnds(x, "canceled") /\ Operation

\* The timeout of the execution, beside the deadline of its caller's context.
ExecDeadline(x) ==
  /\ "Timeout" \in Env
  /\ x \in runningJobs /\ execCtx[x] = "live"
  /\ execCtx' = [execCtx EXCEPT ![x] = "deadline"]
  /\ UNCHANGED <<isRunning, slotVars, status, ctx, pc, result, waitVars, cmdVars, proc,
                 resultChan, killVars, panicked, ops>>

-----------------------------------------------------------------------------
\* The steps that a goroutine, a timer or a killed process takes without being asked.
Step(x) ==
  \/ EnterWait(x) \/ FallAsleep(x) \/ ContextEndsWait(x) \/ Woken(x) \/ WokenPanics(x)
  \/ Register(x) \/ Launch(x) \/ Receive(x) \/ ContextEndsExecute(x)
  \/ NewProcess(x) \/ StartProcess(x) \/ HandleExecutionError(x) \/ StartMonitor(x)
  \/ Decide(x) \/ Report(x) \/ Resend(x) \/ Cleanup(x)
  \/ OperatorKills(x)
  \/ ProcessDies(x)

Next ==
  /\ ~panicked
  /\ \/ Stop
     \/ \E k \in kills : KillWaits(k) \/ KillEnds(k)
     \/ \E x \in Exec :
          \/ Step(x)
          \/ Execute(x) \/ LeftListener(x) \/ LeftListenerPanics(x) \/ GiveUp(x)
          \/ KillCall(x)
          \/ TimerFires(x) \/ MonitorSamples(x) \/ MonitorWrites(x)
          \/ ProcessEnds(x)
          \/ Deadline(x) \/ CallerCancels(x) \/ ExecDeadline(x)

Spec == Init /\ [][Next]_vars

Fairness ==
  /\ WF_vars(~panicked /\ \E x \in Exec : Step(x))
  /\ WF_vars(~panicked /\ \E x \in Exec : ExecDeadline(x))
  /\ WF_vars(~panicked /\ \E k \in kills : KillWaits(k) \/ KillEnds(k))
  /\ WF_vars(~panicked /\ \E x \in Exec : GiveUp(x))

FairSpec == Spec /\ Fairness

-----------------------------------------------------------------------------
(* runningCount counts runningJobs, and each of them has a goroutine that   *)
(* will give its slot back: Execute before `go`, executeCommand after it.   *)
SlotHasCommand ==
  /\ runningCount = Cardinality(runningJobs)
  /\ runningJobs = {x \in Exec : cmd[x] \in RunningCmd}

\* The callers on their way from the wait to the registration.
Coming == {x \in Exec : pc[x] \in {"woken", "slot"}}

(* No wake-up is lost: while a caller sleeps, the slots that are taken and  *)
(* the callers that are on their way to one are as many as there are slots, *)
(* whatever signals the ends of contexts add (waitForAvailableSlot and the  *)
(* Signal of executeCommand and handleExecutionError).                      *)
NoLostWakeup == waiters # <<>> => runningCount + Cardinality(Coming) >= MaxConcurrent

(* A process keeps its slot while it runs, and Execute returns an answer    *)
(* of its own, not the one it gives up with, only when the process is over. *)
NoOrphanProcess ==
  \A x \in Exec : proc[x] = "running" =>
    x \in runningJobs /\ result[x] \in {"none", "gaveUp"}

(* The status tells the truth while the process runs: an execution that no  *)
(* one kills is listed as running, and none is said to have ended by itself *)
(* before its process has.                                                  *)
StatusIsTrue ==
  \A x \in Exec : proc[x] = "running" =>
    /\ ~Killed(x) => status[x] = "running"
    /\ status[x] \notin {"success", "failed", "timeout"}

(* The answer of Execute tells what happened: cancelled only after a        *)
(* cancellation, however the deadlines, Kill and the process race, and      *)
(* success only of a process that ended well.                               *)
ResultIsTrue ==
  \A x \in Exec :
    /\ result[x] = "cancelled" => execCtx[x] = "canceled"
    /\ result[x] = "success" => proc[x] = "ok"

(* Every slot is given back, unless Execute gave up on the execution: the   *)
(* second send of a timeout then has no receiver. An id is executed once,   *)
(* so a time at which no other slot is taken comes for each of them.        *)
SlotIsFreedAgain ==
  runningJobs # {} ~> (panicked \/ \A x \in runningJobs : result[x] = "gaveUp")

(* Every call of Execute returns, refused or with a result, as long as no   *)
(* execution that was given up keeps its slot.                              *)
ExecuteReturns ==
  (\E x \in Exec : pc[x] = "checked") ~>
    \/ panicked \/ \E x \in Exec : result[x] = "gaveUp"
    \/ \A x \in Exec : pc[x] \in {"idle", "returned"}

(* What the options and the tests say: at most MaxConcurrentExecutions      *)
(* executions run at a time.                                                *)
AtMostMaxRunning == Cardinality({x \in Exec : status[x] = "running"}) <= MaxConcurrent
=============================================================================
