SPECIFICATION Spec
CONSTANTS
  Threads = {t1, t2, t3}
  DeadlkTreat = {t3}
  NULL = NULL
  KERN = KERN
  MaxHold = 2
SYMMETRY Perms
INVARIANTS Consistent NoPanic RequestUnderShared GrantTaken NoInterveningExclusive WakeupPending
PROPERTIES ImplementsRWLock
