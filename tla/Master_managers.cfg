SPECIFICATION MasterSpec
CONSTANTS
  None = None
  Job = {j1}
  Caller = {c1, c2}
  Handler = {h1}
  Loop = Loop
  Ops = {"create", "update", "delete", "trigger", "specific", "retry", "cancel", "enable",
         "disable", "immediate", "start", "stop", "status", "nextRun"}
  Result = {"failed"}
  MaxOps = 3
  MaxTime = 2
  Env = {"Schedule", "EtcdFails", "MongoFails", "NoWorker", "Crash"}
  Writer = {w1}
  Stream = {s1, s2}
  Kinds = {"sse", "websocket", "plain"}
  Capacity = 2
  MaxOut = 2
  MaxChan = 2
  StreamEnv = {"StoreFails", "Delete", "Stale", "Stop", "WriteFails"}
CHECK_DEADLOCK FALSE
SYMMETRY Symmetry
INVARIANTS MasterTypeOK   RunningIsNotRestarted
INVARIANTS DeletedStaysDeleted DisabledStaysDisabled StreamsInOrder
