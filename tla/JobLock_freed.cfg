SPECIFICATION FairSpec
CONSTANTS
  w1 = w1
  w2 = w2
  c1 = c1
  c2 = c2
  Worker = {w1, w2}
  Caller = {c1, c2}
  WorkerOf <- OnePerWorker
  Lock = {o1, o2}
  NoWorker = NoWorker
  NoLock = NoLock
  NoActor = NoActor
  MaxLease = 2
  Attempts = 2
  MaxRuns = 1
  Env = {"LeaseLoss", "Unreachable", "NoRenewal", "Crash"}
CHECK_DEADLOCK FALSE
 
PROPERTIES KeyIsFreedAgain
