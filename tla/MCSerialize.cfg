SPECIFICATION FairSpec
CONSTANTS
  t1 = t1
  t2 = t2
  t3 = t3
  Threads = {t1, t2, t3}
  Nobody = Nobody
  CntLimit <- SmallestLimit
  Calls <- MCCalls
INVARIANTS NoPanic NoLostWakeup CountIsWaiters DisabledHandlerNotCalled ZSleepInterlocked
PROPERTIES ImplementsRWLock SleeperWoken
CHECK_DEADLOCK FALSE
