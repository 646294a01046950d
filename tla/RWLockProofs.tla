---------------------------- MODULE RWLockProofs ----------------------------
(***************************************************************************)
(* What the abstract lock guarantees its callers, whatever the threads.    *)
(* The detailed model of each lock is proved to implement RWLock, so that  *)
(* the guarantee holds of it under its refinement mapping.                 *)
(***************************************************************************)
EXTENDS RWLock, TLAPS

\* The counts are natural numbers: no release takes one below zero.
Counts == /\ ex \in [Threads -> Nat]
          /\ sh \in [Threads -> Nat]

\* A thread that holds the lock exclusively is the only holder, and has no
\* shared count of its own either.
Excludes == \A t \in Threads : ex[t] > 0 => NoOtherHold(t) /\ sh[t] = 0

\* The inductive invariant.
RWInv == Counts /\ Excludes

\* What Excludes says of two holds, as the proofs below use it.
LEMMA ExcludesPair ==
  ASSUME Excludes, NEW t \in Threads, NEW u \in Threads, ex[t] > 0
  PROVE  sh[u] = 0 /\ (u # t => ex[u] = 0)
  BY DEF Excludes, NoOtherHold

\* Acquiring keeps the guarantee: AcquireExcl finds no other holder,
\* AcquireShared no exclusive one.
LEMMA AcquireKeeps ==
  ASSUME RWInv, NEW t \in Threads, AcquireExcl(t) \/ AcquireShared(t)
  PROVE  RWInv'
  <1>1. CASE AcquireExcl(t)
    BY <1>1 DEF RWInv, Counts, Excludes, AcquireExcl, NoOtherHold
  <1>2. CASE AcquireShared(t)
    BY <1>2 DEF RWInv, Counts, Excludes, AcquireShared, NoOtherHold, NoOtherExcl
  <1>3. QED
    BY <1>1, <1>2

\* Releasing keeps it: the counts only shrink, and none is zero before.
LEMMA ReleaseKeeps ==
  ASSUME RWInv, NEW t \in Threads, ReleaseExcl(t) \/ ReleaseShared(t)
  PROVE  RWInv'
  <1>1. CASE ReleaseExcl(t)
    BY <1>1 DEF RWInv, Counts, Excludes, ReleaseExcl, NoOtherHold
  <1>2. CASE ReleaseShared(t)
    BY <1>2 DEF RWInv, Counts, Excludes, ReleaseShared, NoOtherHold
  <1>3. QED
    BY <1>1, <1>2

\* A conversion keeps it: the one exclusive holder becomes the one shared
\* holder, or the reverse.
LEMMA ConvertKeeps ==
  ASSUME RWInv, NEW t \in Threads, Downgrade(t) \/ Upgrade(t)
  PROVE  RWInv'
  <1>1. CASE Downgrade(t)
    BY <1>1 DEF RWInv, Counts, Excludes, Downgrade, NoOtherHold
  <1>2. CASE Upgrade(t)
    BY <1>2 DEF RWInv, Counts, Excludes, Upgrade, NoOtherHold
  <1>3. QED
    BY <1>1, <1>2

\* A transfer keeps it: before the step no thread but t has a count, after it
\* no thread but u.
LEMMA TransferKeeps ==
  ASSUME RWInv, NEW t \in Threads, NEW u \in Threads, Transfer(t, u)
  PROVE  RWInv'
  <1>1. \A v \in Threads : sh[v] = 0 /\ (v # t => ex[v] = 0)
    BY ExcludesPair DEF RWInv, Transfer
  <1>2. Counts'
    BY DEF RWInv, Counts, Transfer
  <1>3. \A v \in Threads : sh'[v] = 0 /\ (v # u => ex'[v] = 0)
    BY <1>1 DEF RWInv, Counts, Transfer
  <1>4. Excludes'
    BY <1>3 DEF Excludes, NoOtherHold
  <1>5. QED
    BY <1>2, <1>4 DEF RWInv

\* In every state of the abstract lock an exclusive holder is alone: no other
\* thread holds the lock in any way, whatever acquisitions, releases,
\* conversions and transfers came before.
THEOREM RWMutualExclusion == RWSpec => []RWInv
  <1>1. RWInit => RWInv
    BY DEF RWInit, RWInv, Counts, Excludes, NoOtherHold
  <1>2. RWInv /\ [RWNext]_rwvars => RWInv'
    <2> SUFFICES ASSUME RWInv, [RWNext]_rwvars
                 PROVE  RWInv'
      OBVIOUS
    <2>1. CASE RWNext
      BY <2>1, AcquireKeeps, ReleaseKeeps, ConvertKeeps, TransferKeeps DEF RWNext
    <2>2. CASE UNCHANGED rwvars
      BY <2>2 DEF RWInv, Counts, Excludes, NoOtherHold, rwvars
    <2>3. QED
      BY <2>1, <2>2
  <1>3. QED
    BY <1>1, <1>2, PTL DEF RWSpec
=============================================================================
