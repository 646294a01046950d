SPECIFICATION UpgradeErrorSpec
CONSTANTS
  Threads = {t1, t2, t3}
  DeadlkTreat = {}
  NULL = NULL
  KERN = KERN
  MaxHold = 1
SYMMETRY Perms
CHECK_DEADLOCK FALSE
INVARIANTS GrantTaken
