SPECIFICATION FairSpec
CONSTANTS
  Admin = {a1}
  None = None
  Timeout = 1
  MaxErrors = 1
  MaxOps = 1
  Ops = {"enable", "disable", "labels", "jobs", "resources", "register", "heartbeat", "delete", "consistency", "health"}
  Env = {"EtcdFails", "MongoFails", "Crash", "Stop", "NoKeepAlive"}
CHECK_DEADLOCK FALSE
INVARIANTS TypeOK ActiveRanLately
PROPERTIES GoneIsMarked 
