SPECIFICATION Spec
CONSTANTS
  Exec = {x1, x2}
  Operator = Operator
  MaxConcurrent = 1
  MaxOps = 1
  Env = {"Timeout", "Deadline", "Cancel", "Kill", "Stop", "SlowKill"}
CHECK_DEADLOCK FALSE
INVARIANTS TypeOK SlotHasCommand NoLostWakeup NoOrphanProcess StatusIsTrue 
SYMMETRY Symmetry
