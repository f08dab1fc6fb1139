SPECIFICATION FairPoolSpec
CONSTANTS
  Workers = {w1, w2}
  Tasks = {t1, t2, t3, t4}
  NoTask = NoTask
INVARIANTS PendingCounts FIFO NoLostWakeup PoolInv
PROPERTIES WaitIsComplete WaitReturns DestructorReturns
CHECK_DEADLOCK FALSE
