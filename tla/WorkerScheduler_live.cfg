SPECIFICATION FairSpec
CONSTANTS
  Worker = {w1}
  Job = {j1}
  Cron = {j1}
  Exec = {e1, e2}
  MaxObj = 5
  None = None
  Dead = Dead
  MaxConcurrent = 1
  MaxRetries = 1
  Capacity = 1
  MaxOps = 1
  MaxRuns = 1
  MaxInbox = 1
  Env = {"PutFails", "Kill"}
CHECK_DEADLOCK FALSE
PROPERTIES  CronIsExecuted
