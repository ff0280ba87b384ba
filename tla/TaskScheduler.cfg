SPECIFICATION Spec
CONSTANTS
  k1 = k1
  k2 = k2
  t1 = t1
  t2 = t2
  c1 = c1
  Tasks = {k1, k2}
  Threads = {t1, t2}
  Clients = {c1}
  Timers <- TwoTimers
  MaxRunTimesOnce = 2
  Setups <- MCSetups
INVARIANTS SchedulerInv
PROPERTIES TimerFires Handled
CHECK_DEADLOCK FALSE
