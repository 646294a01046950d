SPECIFICATION Spec
CONSTANTS
  c1 = c1
  c2 = c2
  t1 = t1
  t2 = t2
  t3 = t3
  i1 = i1
  i2 = i2
  NULL = NULL
  Cpus = {c1, c2}
  Threads = {t1, t2, t3}
  Idents = {i1, i2}
  CpuOf <- MCCpuOf
  Sleeps <- MCSleeps
  Lwps = {t1}
  On <- MCOn
  Wakes <- MCWakes
  Delayers = {t3}
  Chain <- MCChain
  MaxIpi = 1
INVARIANTS Consistent NoLostWakeup NoLostWakeupOne NoPanic TimeoutPending SignalPending
CHECK_DEADLOCK FALSE
