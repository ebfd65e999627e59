-------------------------------- MODULE MCEnds --------------------------------
(*****************************************************************************)
(* For TLC, the three ends of an execution, one at a time: on the worker the  *)
(* executor gives its slot back (Executor), its reporter sends the output and *)
(* the end (Reporter), and the master learns of the end from what the worker  *)
(* writes to etcd (MasterJobs). The executor does not know of jobs, the       *)
(* reporter of nothing but what it is given, and the master not of slots.     *)
(*****************************************************************************)
EXTENDS Reporter

CONSTANTS Exec, Operator, MaxConcurrent, MaxOps, ExecEnv
CONSTANTS Job, Handler, Loop, None, Ops, Result, MaxJobOps, MaxTime, JobsEnv

VARIABLES running, runningJobs, runningCount, waiters, status, ctx, execCtx, pc, result, armed,
          closed, left, cmd, outcome, sampled, proc, resultChan, kills, toKill, panicked, ops
VARIABLES etcd, mongo, fate, off, now, logs, thr, todo, events, seen, starts, jobOps
VARIABLE side

Slots == INSTANCE Executor WITH Env <- ExecEnv, isRunning <- running
Jobs == INSTANCE MasterJobs WITH Env <- JobsEnv, MaxOps <- MaxJobOps, ops <- jobOps

slotVars == <<running, runningJobs, runningCount, waiters, status, ctx, execCtx, pc, result, armed,
              closed, left, cmd, outcome, sampled, proc, resultChan, kills, toKill, panicked, ops>>
jobVars == <<etcd, mongo, fate, off, now, logs, thr, todo, events, seen, starts, jobOps>>

EndsInit == Init /\ Slots!Init /\ Jobs!Init /\ side \in {"executor", "reporter", "jobs"}

EndsNext ==
  /\ UNCHANGED side
  /\ \/ side = "executor" /\ Slots!Next /\ UNCHANGED <<vars, jobVars>>
     \/ side = "reporter" /\ Next /\ UNCHANGED <<slotVars, jobVars>>
     \/ side = "jobs" /\ Jobs!Next /\ UNCHANGED <<vars, slotVars>>

EndsSpec ==
  /\ EndsInit /\ [][EndsNext]_<<vars, slotVars, jobVars, side>>
  /\ Slots!Fairness /\ Jobs!Fairness

\* A slot is given back unless its caller gave up (see Executor).
SlotIsFreedAgain == Slots!SlotIsFreedAgain

\* A call of Execute returns (see Executor).
ExecuteReturns == Slots!ExecuteReturns

\* The master learns the end of an execution (see MasterJobs).
EndIsLearnt == Jobs!EndIsLearnt
=============================================================================
