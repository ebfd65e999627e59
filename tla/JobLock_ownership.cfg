SPECIFICATION Spec
CONSTANTS
  w1 = w1
  w2 = w2
  c1 = c1
  c2 = c2
  Worker = {w1}
  Caller = {c1, c2}
  WorkerOf <- Pair
  Lock = {o1, o2}
  NoWorker = NoWorker
  NoLock = NoLock
  NoActor = NoActor
  MaxLease = 2
  Attempts = 1
  MaxRuns = 1
  Env = {"LeaseLoss", "Unreachable", "NoRenewal", "Cleanup", "Stop", "StopRenewal"}
CHECK_DEADLOCK FALSE
SYMMETRY LockSymmetry
INVARIANTS TypeOK LiveHolderOwnsKey RenewedLeaseOwnsKey
PROPERTIES ImplementsLeaseLock
