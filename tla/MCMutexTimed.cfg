SPECIFICATION TrueOwnerSpec
CONSTANTS
  Threads = {t1, t2, t3}
  NULL = NULL
  INVARIANTS_ = FALSE
  MaxHold = 2
SYMMETRY Perms
INVARIANTS HandoffPending SharedWakeupPending LinksSafe
CHECK_DEADLOCK FALSE
