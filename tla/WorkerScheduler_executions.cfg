SPECIFICATION Spec
CONSTANTS
  Worker = {w1}
  Job = {j1}
  Cron = {j1}
  Exec = {e1, e2}
  MaxObj = 3
  None = None
  Dead = Dead
  MaxConcurrent = 1
  MaxRetries = 1
  Capacity = 1
  MaxOps = 1
  MaxRuns = 2
  MaxInbox = 1
  Env = {"Delete", "Kill", "LockFails"}
CHECK_DEADLOCK FALSE
SYMMETRY Symmetry
INVARIANTS TypeOK  QueuedJobIsKnown 
