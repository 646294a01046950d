SPECIFICATION FairSpec
CONSTANTS
  Threads = {t1, t2}
  NULL = NULL
  Tokens = {1, 2}
  MaxToks <- MCMaxToks
  Calls <- MCCalls
  t1 = t1
  t2 = t2
  SpinLoops = 1
INVARIANTS Consistent NoPanic RunsWithAllTokens
PROPERTIES ImplementsRWLock LivelockOnlyThroughIdle
