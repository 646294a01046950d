SPECIFICATION TimedSpec
CONSTANTS
  Threads = {t1, t2, t3}
  NULL = NULL
  INVARIANTS_ = TRUE
  MaxHold = 1
SYMMETRY Perms
INVARIANTS MutualExclusion
CHECK_DEADLOCK FALSE
