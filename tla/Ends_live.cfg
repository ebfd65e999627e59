SPECIFICATION EndsSpec
CONSTANTS
  Exec = {x1, x2}
  Operator = Operator
  MaxConcurrent = 1
  MaxOps = 0
  ExecEnv = {"Timeout", "Deadline", "SlowKill"}
  Job = {j1}
  Caller = {c1}
  Handler = {h1}
  Loop = Loop
  None = None
  Ops = {"create", "trigger"}
  Result = {"failed"}
  MaxJobOps = 2
  MaxTime = 2
  JobsEnv = {"Events", "Worker", "LogFails"}
  Spare = {g1}
  FlushLoop = FlushLoop
  MaxOut = 3
  MaxReports = 2
  Large = 1
  Attempts = 2
  Env = {"SendFails", "Stop"}
CHECK_DEADLOCK FALSE
INVARIANT OutputInOneHand
PROPERTIES   EndIsLearnt
