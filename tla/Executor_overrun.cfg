SPECIFICATION Spec
CONSTANTS
  Exec = {x1, x2}
  Operator = Operator
  MaxConcurrent = 1
  MaxOps = 0
  Env = {}
CHECK_DEADLOCK FALSE
INVARIANTS AtMostMaxRunning
