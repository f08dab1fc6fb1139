SPECIFICATION Spec
CONSTANTS
  Workers = {w1, w2}
  N = 2
  Tasks = {1, 2}
  NoTask = 0
  Ranking = {2}
  Misconfigured = {}
  InitMayThrow = {}
  Interruptible = {1, 2}
  SlowInit = {}
  HasLimit = TRUE
INVARIANTS
  PoolOutlivesWorkers
CHECK_DEADLOCK FALSE
