CONSTANTS
  t1 = t1
  t2 = t2
  t3 = t3
  Worker = {w1, w2, w3}
  Owner = owner
  Task = {t1, t2, t3}
  Poster <- Posters
  Idle = idle
SPECIFICATION FairSpec
INVARIANTS PermitsMatch NoLostWakeup AllRunOnce
PROPERTIES PoolEnds TasksRun
CHECK_DEADLOCK FALSE
