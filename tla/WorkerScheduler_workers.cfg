SPECIFICATION Spec
CONSTANTS
  Worker = {w1, w2}
  Job = {j1}
  Cron = {j1}
  Exec = {e1}
  MaxObj = 3
  None = None
  Dead = Dead
  MaxConcurrent = 1
  MaxRetries = 0
  Capacity = 1
  MaxOps = 1
  MaxRuns = 1
  MaxInbox = 1
  Env = {"Crash", "Trigger", "Stop", "Put"}
CHECK_DEADLOCK FALSE
SYMMETRY Symmetry
INVARIANTS RunningHasExecution 
