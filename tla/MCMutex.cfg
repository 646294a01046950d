SPECIFICATION FairSpec
CONSTANTS
  Threads = {t1, t2, t3}
  NULL = NULL
  INVARIANTS_ = TRUE
  MaxHold = 2
INVARIANTS Consistent NoPanic
PROPERTIES ImplementsRWLock WaiterServed
