SPECIFICATION FairSpec
CONSTANTS
  Exec = {x1, x2}
  Heavy = {x2}
  Caller = {c1, c2}
  Loop = {l1}
  None = None
  Modes = {"full", "immediate"}
  Storages = {"master", "mongodb"}
  BufferSize = 2
  MaxMemory = 3
  MaxLogs = 2
  MaxCalls = 2
  Env = {"SendFails", "Stop", "Settings"}
CHECK_DEADLOCK FALSE
INVARIANTS TypeOK NothingIsLost SentOnceInOrder
 
