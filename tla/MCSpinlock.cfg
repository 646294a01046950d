SPECIFICATION FairSpec
CONSTANTS
  Cpus = {c1, c2, c3, c4}
  LowLimit <- SmallestLimit
  WaitLimit <- SmallestLimit
INVARIANTS TypeOK Quiescent
PROPERTIES ExclPriority ImplementsRWLock StarvedOnlyByExclusive
