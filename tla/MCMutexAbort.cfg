SPECIFICATION AbortSpec
CONSTANTS
  Threads = {t1, t2, t3}
  NULL = NULL
  INVARIANTS_ = FALSE
  MaxHold = 1
SYMMETRY Perms
INVARIANTS LinksSafe
CHECK_DEADLOCK FALSE
