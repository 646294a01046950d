--------------------------- MODULE SpinlockProofs ---------------------------
(***************************************************************************)
(* Proofs about Spinlock, for every finite set of cpus and every size of   *)
(* the two counters that exceeds the number of cpus.                       *)
(***************************************************************************)
EXTENDS Spinlock, FiniteSetTheorems, TLAPS

\* Each field of the word counts the cpus that are at certain places.
LowPCs  == {"check", "transfer", "excl", "shared"}
WaitPCs == {"unshare", "spin"}

At(f, P) == {c \in Cpus : f[c] \in P}

WordType == counta \in [shared : BOOLEAN, wait : Int, low : Int]

Counts == /\ counta.low = Cardinality(At(pc, LowPCs))
          /\ counta.wait = Cardinality(At(pc, WaitPCs))

\* SPINLOCK_SHARED is set only while it is harmless and will be cleared.
SharedBit == counta.shared =>
                /\ At(pc, {"excl", "spin"}) = {}
                /\ At(pc, {"shared", "sh_clear", "check",
                           "transfer", "unshare"}) # {}

Crit == \A c \in Cpus : /\ gd_spinlocks[c] = IF pc[c] = "idle" THEN 0 ELSE 1
                        /\ td_critcount[c] = IF pc[c] = "idle" THEN 0 ELSE 1

\* The inductive invariant.
IInv == /\ WordType
        /\ pc \in [Cpus -> PCs]
        /\ gd_spinlocks \in [Cpus -> Int]
        /\ td_critcount \in [Cpus -> Int]
        /\ Counts
        /\ SharedBit
        /\ Crit
        /\ MutualExclusion
-----------------------------------------------------------------------------
(* Counting *)

\* The cpus at some places are a finite set, no larger than Cpus.
LEMMA AtFinite ==
    ASSUME NEW f, NEW P
    PROVE  /\ IsFiniteSet(At(f, P))
           /\ Cardinality(At(f, P)) \in Nat
           /\ Cardinality(At(f, P)) <= Cardinality(Cpus)
           /\ Cardinality(Cpus) \in Nat
  <1>1. At(f, P) \subseteq Cpus
    BY DEF At
  <1> QED
    BY <1>1, CpusAssumption, FS_Subset, FS_CardinalityType

\* Moving one cpu changes the count of a set of places by what that cpu
\* contributes after and before the move.
LEMMA AtMove ==
    ASSUME pc \in [Cpus -> PCs], NEW c \in Cpus, NEW to \in PCs, NEW P,
           pc' = [pc EXCEPT ![c] = to]
    PROVE  Cardinality(At(pc', P))
             = Cardinality(At(pc, P)) + (IF to \in P THEN 1 ELSE 0)
                                      - (IF pc[c] \in P THEN 1 ELSE 0)
  <1> DEFINE Rest == {d \in Cpus \ {c} : pc[d] \in P}
  <1>1. /\ IsFiniteSet(Rest) /\ Cardinality(Rest) \in Nat /\ c \notin Rest
    <2>1. Rest \subseteq Cpus
      OBVIOUS
    <2> QED
      BY <2>1, CpusAssumption, FS_Subset, FS_CardinalityType
  <1>2. Cardinality(Rest \cup {c}) = Cardinality(Rest) + 1
    BY <1>1, FS_AddElement
  <1>3. At(pc, P) = IF pc[c] \in P THEN Rest \cup {c} ELSE Rest
    BY DEF At
  <1>4. At(pc', P) = IF to \in P THEN Rest \cup {c} ELSE Rest
    BY DEF At
  <1> HIDE DEF Rest
  <1>5. Cardinality(At(pc, P)) = Cardinality(Rest)
                                   + (IF pc[c] \in P THEN 1 ELSE 0)
    BY <1>1, <1>2, <1>3
  <1>6. Cardinality(At(pc', P)) = Cardinality(Rest)
                                    + (IF to \in P THEN 1 ELSE 0)
    BY <1>1, <1>2, <1>4
  <1> QED
    BY <1>1, <1>5, <1>6

\* A count of 0 means that nobody is there.
LEMMA AtNone ==
    ASSUME NEW f, NEW P, Cardinality(At(f, P)) = 0
    PROVE  At(f, P) = {}
  BY AtFinite, FS_EmptySet

\* A count of 1 with c among them means that nobody else is there.
LEMMA AtOnly ==
    ASSUME NEW f, NEW P, NEW c \in At(f, P), Cardinality(At(f, P)) = 1
    PROVE  At(f, P) = {c}
  <1>1. /\ IsFiniteSet(At(f, P) \ {c})
        /\ Cardinality(At(f, P) \ {c}) = 0
    BY AtFinite, FS_RemoveElement
  <1>2. At(f, P) \ {c} = {}
    BY <1>1, FS_EmptySet
  <1> QED
    BY <1>2
-----------------------------------------------------------------------------
(* Invariance *)

LEMMA IInvInit == Init => IInv
  <1> SUFFICES ASSUME Init PROVE IInv
    OBVIOUS
  <1>1. /\ At(pc, LowPCs) = {} /\ At(pc, WaitPCs) = {}
    BY DEF Init, At, LowPCs, WaitPCs
  <1>2. Counts
    BY <1>1, FS_EmptySet DEF Init, Counts, Unlocked, Word
  <1>3. SharedBit /\ Crit /\ MutualExclusion /\ WordType
    BY DEF Init, SharedBit, Crit, MutualExclusion, Exclusives, Sharers,
           Unlocked, Word, WordType
  <1> QED
    BY <1>2, <1>3 DEF Init, IInv, PCs

\* What the counts say about the other cpus when the low bits are 0, or 1 and
\* ours, and when the EXCLWAIT bits are 0.
LEMMA WhoIsThere ==
    ASSUME IInv
    PROVE  /\ counta.low = 0 => At(pc, LowPCs) = {}
           /\ \A c \in Cpus : counta.low = 1 /\ pc[c] \in LowPCs
                                => At(pc, LowPCs) = {c}
           /\ counta.wait = 0 => At(pc, WaitPCs) = {}
           /\ counta.low # 0 => At(pc, LowPCs) # {}
           /\ counta.wait # 0 => At(pc, WaitPCs) # {}
  <1>1. \A c \in Cpus : pc[c] \in LowPCs => c \in At(pc, LowPCs)
    BY DEF At
  <1>2. Cardinality({}) = 0
    BY FS_EmptySet
  <1> QED
    BY <1>1, <1>2, AtNone, AtOnly DEF IInv, Counts

\* The counts follow a move of one cpu whose instruction adds the differences
\* to the two counters.
LEMMA CountsMove ==
    ASSUME IInv, NEW c \in Cpus, NEW to \in PCs,
           pc' = [pc EXCEPT ![c] = to],
           counta'.low = counta.low + (IF to \in LowPCs THEN 1 ELSE 0)
                                    - (IF pc[c] \in LowPCs THEN 1 ELSE 0),
           counta'.wait = counta.wait + (IF to \in WaitPCs THEN 1 ELSE 0)
                                      - (IF pc[c] \in WaitPCs THEN 1 ELSE 0)
    PROVE  Counts'
  <1>1. pc \in [Cpus -> PCs]
    BY DEF IInv
  <1>2. ASSUME NEW P
        PROVE  Cardinality(At(pc', P))
                 = Cardinality(At(pc, P)) + (IF to \in P THEN 1 ELSE 0)
                                          - (IF pc[c] \in P THEN 1 ELSE 0)
    BY <1>1, AtMove
  <1> QED
    BY <1>2 DEF IInv, Counts, LowPCs, WaitPCs

\* The critical section counts follow every step.
LEMMA CritStep ==
    ASSUME IInv, NEW c \in Cpus, NEW to \in PCs,
           pc' = [pc EXCEPT ![c] = to],
           \/ pc[c] = "idle" /\ to # "idle" /\ CritEnter(c)
           \/ pc[c] # "idle" /\ to = "idle" /\ CritExit(c)
           \/ pc[c] # "idle" /\ to # "idle" /\ CritSame
    PROVE  /\ Crit'
           /\ gd_spinlocks' \in [Cpus -> Int] /\ td_critcount' \in [Cpus -> Int]
  BY DEF IInv, Crit, CritEnter, CritExit, CritSame, PCs

\* What is left to show for a step of cpu c: the word it writes has the fields
\* the move calls for, and the two parts that depend on the other cpus.
LEMMA IInvMove ==
    ASSUME IInv, NEW c \in Cpus, NEW from \in PCs, NEW to \in PCs,
           Move(c, from, to),
           \/ from = "idle" /\ to # "idle" /\ CritEnter(c)
           \/ from # "idle" /\ to = "idle" /\ CritExit(c)
           \/ from # "idle" /\ to # "idle" /\ CritSame,
           WordType',
           counta'.low = counta.low + (IF to \in LowPCs THEN 1 ELSE 0)
                                    - (IF from \in LowPCs THEN 1 ELSE 0),
           counta'.wait = counta.wait + (IF to \in WaitPCs THEN 1 ELSE 0)
                                      - (IF from \in WaitPCs THEN 1 ELSE 0),
           SharedBit', MutualExclusion'
    PROVE  IInv'
  <1>1. pc[c] = from /\ pc' = [pc EXCEPT ![c] = to]
    BY DEF Move
  <1>2. Counts'
    BY <1>1, CountsMove
  <1>3. /\ Crit'
        /\ gd_spinlocks' \in [Cpus -> Int] /\ td_critcount' \in [Cpus -> Int]
    BY <1>1, CritStep
  <1>4. pc' \in [Cpus -> PCs]
    BY <1>1 DEF IInv
  <1> QED
    BY <1>2, <1>3, <1>4 DEF IInv

\* Every step of a cpu, and stuttering, preserves the inductive invariant.
LEMMA IInvNext == IInv /\ [Next]_vars => IInv'
  <1> SUFFICES ASSUME IInv, [Next]_vars PROVE IInv'
    OBVIOUS
  <1>u. CASE UNCHANGED vars
    BY <1>u DEF IInv, vars, WordType, Counts, SharedBit, Crit,
                MutualExclusion, Exclusives, Sharers, At, LowPCs, WaitPCs
  <1> SUFFICES ASSUME NEW c \in Cpus, Exclusive(c) \/ Shared(c)
               PROVE  IInv'
    BY <1>u DEF Next
  <1>t. pc \in [Cpus -> PCs] /\ WordType /\ SharedBit /\ MutualExclusion
    BY DEF IInv
  <1>1. CASE TrylockEnter(c)
    <2>1. /\ Move(c, "idle", "try") /\ "idle" \in PCs /\ "try" \in PCs
      BY <1>1 DEF TrylockEnter, PCs
    <2>2. /\ WordType'
          /\ counta'.low = counta.low + (IF "try" \in LowPCs THEN 1 ELSE 0)
                                      - (IF "idle" \in LowPCs THEN 1 ELSE 0)
          /\ counta'.wait = counta.wait + (IF "try" \in WaitPCs THEN 1 ELSE 0)
                                        - (IF "idle" \in WaitPCs THEN 1 ELSE 0)
      BY <1>t, <1>1 DEF TrylockEnter, WordType, LowPCs, WaitPCs, Word, Unlocked
    <2>3. SharedBit'
      BY <1>t, <1>1, WhoIsThere
         DEF TrylockEnter, SharedBit, At, Move, LowPCs, WaitPCs, PCs,
             WordType, Word, Unlocked
    <2>4. MutualExclusion'
      BY <1>t, <1>1, WhoIsThere
         DEF TrylockEnter, MutualExclusion, Exclusives, Sharers, SharedBit,
             At, Move, LowPCs, PCs, Word, Unlocked
    <2> QED
      BY <1>1, <2>1, <2>2, <2>3, <2>4, IInvMove DEF TrylockEnter
  <1>2. CASE Trylock(c)
    <2>1. /\ Move(c, "try", "excl") /\ "try" \in PCs /\ "excl" \in PCs
      BY <1>2 DEF Trylock, PCs
    <2>2. /\ WordType'
          /\ counta'.low = counta.low + (IF "excl" \in LowPCs THEN 1 ELSE 0)
                                      - (IF "try" \in LowPCs THEN 1 ELSE 0)
          /\ counta'.wait = counta.wait + (IF "excl" \in WaitPCs THEN 1 ELSE 0)
                                        - (IF "try" \in WaitPCs THEN 1 ELSE 0)
      BY <1>t, <1>2 DEF Trylock, WordType, LowPCs, WaitPCs, Word, Unlocked
    <2>3. SharedBit'
      BY <1>t, <1>2, WhoIsThere
         DEF Trylock, SharedBit, At, Move, LowPCs, WaitPCs, PCs,
             WordType, Word, Unlocked
    <2>4. MutualExclusion'
      BY <1>t, <1>2, WhoIsThere
         DEF Trylock, MutualExclusion, Exclusives, Sharers, SharedBit,
             At, Move, LowPCs, PCs, Word, Unlocked
    <2> QED
      BY <1>2, <2>1, <2>2, <2>3, <2>4, IInvMove DEF Trylock
  <1>3. CASE TrylockContested(c)
    <2>1. /\ Move(c, "try", "idle") /\ "try" \in PCs /\ "idle" \in PCs
      BY <1>3 DEF TrylockContested, PCs
    <2>2. /\ WordType'
          /\ counta'.low = counta.low + (IF "idle" \in LowPCs THEN 1 ELSE 0)
                                      - (IF "try" \in LowPCs THEN 1 ELSE 0)
          /\ counta'.wait = counta.wait + (IF "idle" \in WaitPCs THEN 1 ELSE 0)
                                        - (IF "try" \in WaitPCs THEN 1 ELSE 0)
      BY <1>t, <1>3 DEF TrylockContested, WordType, LowPCs, WaitPCs, Word, Unlocked
    <2>3. SharedBit'
      BY <1>t, <1>3, WhoIsThere
         DEF TrylockContested, SharedBit, At, Move, LowPCs, WaitPCs, PCs,
             WordType, Word, Unlocked
    <2>4. MutualExclusion'
      BY <1>t, <1>3, WhoIsThere
         DEF TrylockContested, MutualExclusion, Exclusives, Sharers, SharedBit,
             At, Move, LowPCs, PCs, Word, Unlocked
    <2> QED
      BY <1>3, <2>1, <2>2, <2>3, <2>4, IInvMove DEF TrylockContested
  <1>4. CASE LockEnter(c)
    <2>1. /\ Move(c, "idle", "add") /\ "idle" \in PCs /\ "add" \in PCs
      BY <1>4 DEF LockEnter, PCs
    <2>2. /\ WordType'
          /\ counta'.low = counta.low + (IF "add" \in LowPCs THEN 1 ELSE 0)
                                      - (IF "idle" \in LowPCs THEN 1 ELSE 0)
          /\ counta'.wait = counta.wait + (IF "add" \in WaitPCs THEN 1 ELSE 0)
                                        - (IF "idle" \in WaitPCs THEN 1 ELSE 0)
      BY <1>t, <1>4 DEF LockEnter, WordType, LowPCs, WaitPCs, Word, Unlocked
    <2>3. SharedBit'
      BY <1>t, <1>4, WhoIsThere
         DEF LockEnter, SharedBit, At, Move, LowPCs, WaitPCs, PCs,
             WordType, Word, Unlocked
    <2>4. MutualExclusion'
      BY <1>t, <1>4, WhoIsThere
         DEF LockEnter, MutualExclusion, Exclusives, Sharers, SharedBit,
             At, Move, LowPCs, PCs, Word, Unlocked
    <2> QED
      BY <1>4, <2>1, <2>2, <2>3, <2>4, IInvMove DEF LockEnter
  <1>5. CASE LockAdd(c)
    <2>1. /\ Move(c, "add", "check") /\ "add" \in PCs /\ "check" \in PCs
      BY <1>5 DEF LockAdd, PCs
    <2>2. /\ WordType'
          /\ counta'.low = counta.low + (IF "check" \in LowPCs THEN 1 ELSE 0)
                                      - (IF "add" \in LowPCs THEN 1 ELSE 0)
          /\ counta'.wait = counta.wait + (IF "check" \in WaitPCs THEN 1 ELSE 0)
                                        - (IF "add" \in WaitPCs THEN 1 ELSE 0)
      BY <1>t, <1>5 DEF LockAdd, WordType, LowPCs, WaitPCs, Word, Unlocked
    <2>3. SharedBit'
      BY <1>t, <1>5, WhoIsThere
         DEF LockAdd, SharedBit, At, Move, LowPCs, WaitPCs, PCs,
             WordType, Word, Unlocked
    <2>4. MutualExclusion'
      BY <1>t, <1>5, WhoIsThere
         DEF LockAdd, MutualExclusion, Exclusives, Sharers, SharedBit,
             At, Move, LowPCs, PCs, Word, Unlocked
    <2> QED
      BY <1>5, <2>1, <2>2, <2>3, <2>4, IInvMove DEF LockAdd
  <1>6. CASE LockGranted(c)
    <2>1. /\ Move(c, "check", "excl") /\ "check" \in PCs /\ "excl" \in PCs
      BY <1>6 DEF LockGranted, PCs
    <2>2. /\ WordType'
          /\ counta'.low = counta.low + (IF "excl" \in LowPCs THEN 1 ELSE 0)
                                      - (IF "check" \in LowPCs THEN 1 ELSE 0)
          /\ counta'.wait = counta.wait + (IF "excl" \in WaitPCs THEN 1 ELSE 0)
                                        - (IF "check" \in WaitPCs THEN 1 ELSE 0)
      BY <1>t, <1>6 DEF LockGranted, WordType, LowPCs, WaitPCs, Word, Unlocked
    <2>3. SharedBit'
      BY <1>t, <1>6, WhoIsThere
         DEF LockGranted, SharedBit, At, Move, LowPCs, WaitPCs, PCs,
             WordType, Word, Unlocked
    <2>4. MutualExclusion'
      BY <1>t, <1>6, WhoIsThere
         DEF LockGranted, MutualExclusion, Exclusives, Sharers, SharedBit,
             At, Move, LowPCs, PCs, Word, Unlocked
    <2> QED
      BY <1>6, <2>1, <2>2, <2>3, <2>4, IInvMove DEF LockGranted
  <1>7. CASE LockContested(c)
    <2>1. /\ Move(c, "check", "transfer") /\ "check" \in PCs /\ "transfer" \in PCs
      BY <1>7 DEF LockContested, PCs
    <2>2. /\ WordType'
          /\ counta'.low = counta.low + (IF "transfer" \in LowPCs THEN 1 ELSE 0)
                                      - (IF "check" \in LowPCs THEN 1 ELSE 0)
          /\ counta'.wait = counta.wait + (IF "transfer" \in WaitPCs THEN 1 ELSE 0)
                                        - (IF "check" \in WaitPCs THEN 1 ELSE 0)
      BY <1>t, <1>7 DEF LockContested, WordType, LowPCs, WaitPCs, Word, Unlocked
    <2>3. SharedBit'
      BY <1>t, <1>7, WhoIsThere
         DEF LockContested, SharedBit, At, Move, LowPCs, WaitPCs, PCs,
             WordType, Word, Unlocked
    <2>4. MutualExclusion'
      BY <1>t, <1>7, WhoIsThere
         DEF LockContested, MutualExclusion, Exclusives, Sharers, SharedBit,
             At, Move, LowPCs, PCs, Word, Unlocked
    <2> QED
      BY <1>7, <2>1, <2>2, <2>3, <2>4, IInvMove DEF LockContested
  <1>8. CASE Transfer(c)
    <2>1. /\ Move(c, "transfer", "unshare") /\ "transfer" \in PCs /\ "unshare" \in PCs
      BY <1>8 DEF Transfer, PCs
    <2>2. /\ WordType'
          /\ counta'.low = counta.low + (IF "unshare" \in LowPCs THEN 1 ELSE 0)
                                      - (IF "transfer" \in LowPCs THEN 1 ELSE 0)
          /\ counta'.wait = counta.wait + (IF "unshare" \in WaitPCs THEN 1 ELSE 0)
                                        - (IF "transfer" \in WaitPCs THEN 1 ELSE 0)
      <3>1. counta' = Word(counta.shared, counta.wait + 1, counta.low - 1)
        BY <1>t, <1>8 DEF Transfer, WordType, Word
      <3> QED
        BY <1>t, <1>8, <3>1 DEF Transfer, WordType, LowPCs, WaitPCs, Word
    <2>3. SharedBit'
      BY <1>t, <1>8, WhoIsThere
         DEF Transfer, SharedBit, At, Move, LowPCs, WaitPCs, PCs,
             WordType, Word, Unlocked
    <2>4. MutualExclusion'
      BY <1>t, <1>8, WhoIsThere
         DEF Transfer, MutualExclusion, Exclusives, Sharers, SharedBit,
             At, Move, LowPCs, PCs, Word, Unlocked
    <2> QED
      BY <1>8, <2>1, <2>2, <2>3, <2>4, IInvMove DEF Transfer
  <1>9. CASE Unshare(c)
    <2>1. /\ Move(c, "unshare", "spin") /\ "unshare" \in PCs /\ "spin" \in PCs
      BY <1>9 DEF Unshare, PCs
    <2>2. /\ WordType'
          /\ counta'.low = counta.low + (IF "spin" \in LowPCs THEN 1 ELSE 0)
                                      - (IF "unshare" \in LowPCs THEN 1 ELSE 0)
          /\ counta'.wait = counta.wait + (IF "spin" \in WaitPCs THEN 1 ELSE 0)
                                        - (IF "unshare" \in WaitPCs THEN 1 ELSE 0)
      BY <1>t, <1>9 DEF Unshare, WordType, LowPCs, WaitPCs, Word
    <2>3. SharedBit'
      BY <1>t, <1>9, WhoIsThere
         DEF Unshare, SharedBit, At, Move, LowPCs, WaitPCs, PCs,
             WordType, Word, Unlocked
    <2>4. MutualExclusion'
      BY <1>t, <1>9, WhoIsThere
         DEF Unshare, MutualExclusion, Exclusives, Sharers, SharedBit,
             At, Move, LowPCs, PCs, Word, Unlocked
    <2> QED
      BY <1>9, <2>1, <2>2, <2>3, <2>4, IInvMove DEF Unshare
  <1>10. CASE SpinAcquire(c)
    <2>1. /\ Move(c, "spin", "excl") /\ "spin" \in PCs /\ "excl" \in PCs
      BY <1>10 DEF SpinAcquire, PCs
    <2>2. /\ WordType'
          /\ counta'.low = counta.low + (IF "excl" \in LowPCs THEN 1 ELSE 0)
                                      - (IF "spin" \in LowPCs THEN 1 ELSE 0)
          /\ counta'.wait = counta.wait + (IF "excl" \in WaitPCs THEN 1 ELSE 0)
                                        - (IF "spin" \in WaitPCs THEN 1 ELSE 0)
      <3>1. counta' = Word(counta.shared, counta.wait - 1, 1)
        BY <1>t, <1>10 DEF SpinAcquire, WordType, Word
      <3> QED
        BY <1>t, <1>10, <3>1 DEF SpinAcquire, WordType, LowPCs, WaitPCs, Word
    <2>3. SharedBit'
      BY <1>t, <1>10, WhoIsThere
         DEF SpinAcquire, SharedBit, At, Move, LowPCs, WaitPCs, PCs,
             WordType, Word, Unlocked
    <2>4. MutualExclusion'
      BY <1>t, <1>10, WhoIsThere
         DEF SpinAcquire, MutualExclusion, Exclusives, Sharers, SharedBit,
             At, Move, LowPCs, PCs, Word, Unlocked
    <2> QED
      BY <1>10, <2>1, <2>2, <2>3, <2>4, IInvMove DEF SpinAcquire
  <1>11. CASE Unlock(c)
    <2>1. /\ Move(c, "excl", "idle") /\ "excl" \in PCs /\ "idle" \in PCs
      BY <1>11 DEF Unlock, PCs
    <2>2. /\ WordType'
          /\ counta'.low = counta.low + (IF "idle" \in LowPCs THEN 1 ELSE 0)
                                      - (IF "excl" \in LowPCs THEN 1 ELSE 0)
          /\ counta'.wait = counta.wait + (IF "idle" \in WaitPCs THEN 1 ELSE 0)
                                        - (IF "excl" \in WaitPCs THEN 1 ELSE 0)
      BY <1>t, <1>11 DEF Unlock, WordType, LowPCs, WaitPCs, Word, Unlocked
    <2>3. SharedBit'
      BY <1>t, <1>11, WhoIsThere
         DEF Unlock, SharedBit, At, Move, LowPCs, WaitPCs, PCs,
             WordType, Word, Unlocked
    <2>4. MutualExclusion'
      BY <1>t, <1>11, WhoIsThere
         DEF Unlock, MutualExclusion, Exclusives, Sharers, SharedBit,
             At, Move, LowPCs, PCs, Word, Unlocked
    <2> QED
      BY <1>11, <2>1, <2>2, <2>3, <2>4, IInvMove DEF Unlock
  <1>12. CASE SharedEnter(c)
    <2>1. /\ Move(c, "idle", "sh_try") /\ "idle" \in PCs /\ "sh_try" \in PCs
      BY <1>12 DEF SharedEnter, PCs
    <2>2. /\ WordType'
          /\ counta'.low = counta.low + (IF "sh_try" \in LowPCs THEN 1 ELSE 0)
                                      - (IF "idle" \in LowPCs THEN 1 ELSE 0)
          /\ counta'.wait = counta.wait + (IF "sh_try" \in WaitPCs THEN 1 ELSE 0)
                                        - (IF "idle" \in WaitPCs THEN 1 ELSE 0)
      BY <1>t, <1>12 DEF SharedEnter, WordType, LowPCs, WaitPCs, Word, Unlocked
    <2>3. SharedBit'
      BY <1>t, <1>12, WhoIsThere
         DEF SharedEnter, SharedBit, At, Move, LowPCs, WaitPCs, PCs,
             WordType, Word, Unlocked
    <2>4. MutualExclusion'
      BY <1>t, <1>12, WhoIsThere
         DEF SharedEnter, MutualExclusion, Exclusives, Sharers, SharedBit,
             At, Move, LowPCs, PCs, Word, Unlocked
    <2> QED
      BY <1>12, <2>1, <2>2, <2>3, <2>4, IInvMove DEF SharedEnter
  <1>13. CASE SharedQuick(c)
    <2>1. /\ Move(c, "sh_try", "shared") /\ "sh_try" \in PCs /\ "shared" \in PCs
      BY <1>13 DEF SharedQuick, PCs
    <2>2. /\ WordType'
          /\ counta'.low = counta.low + (IF "shared" \in LowPCs THEN 1 ELSE 0)
                                      - (IF "sh_try" \in LowPCs THEN 1 ELSE 0)
          /\ counta'.wait = counta.wait + (IF "shared" \in WaitPCs THEN 1 ELSE 0)
                                        - (IF "sh_try" \in WaitPCs THEN 1 ELSE 0)
      BY <1>t, <1>13 DEF SharedQuick, WordType, LowPCs, WaitPCs, Word, Unlocked
    <2>3. SharedBit'
      BY <1>t, <1>13, WhoIsThere
         DEF SharedQuick, SharedBit, At, Move, LowPCs, WaitPCs, PCs,
             WordType, Word, Unlocked
    <2>4. MutualExclusion'
      BY <1>t, <1>13, WhoIsThere
         DEF SharedQuick, MutualExclusion, Exclusives, Sharers, SharedBit,
             At, Move, LowPCs, PCs, Word, Unlocked
    <2> QED
      BY <1>13, <2>1, <2>2, <2>3, <2>4, IInvMove DEF SharedQuick
  <1>14. CASE SharedContested(c)
    <2>1. /\ Move(c, "sh_try", "sh_spin") /\ "sh_try" \in PCs /\ "sh_spin" \in PCs
      BY <1>14 DEF SharedContested, PCs
    <2>2. /\ WordType'
          /\ counta'.low = counta.low + (IF "sh_spin" \in LowPCs THEN 1 ELSE 0)
                                      - (IF "sh_try" \in LowPCs THEN 1 ELSE 0)
          /\ counta'.wait = counta.wait + (IF "sh_spin" \in WaitPCs THEN 1 ELSE 0)
                                        - (IF "sh_try" \in WaitPCs THEN 1 ELSE 0)
      BY <1>t, <1>14 DEF SharedContested, WordType, LowPCs, WaitPCs, Word, Unlocked
    <2>3. SharedBit'
      BY <1>t, <1>14, WhoIsThere
         DEF SharedContested, SharedBit, At, Move, LowPCs, WaitPCs, PCs,
             WordType, Word, Unlocked
    <2>4. MutualExclusion'
      BY <1>t, <1>14, WhoIsThere
         DEF SharedContested, MutualExclusion, Exclusives, Sharers, SharedBit,
             At, Move, LowPCs, PCs, Word, Unlocked
    <2> QED
      BY <1>14, <2>1, <2>2, <2>3, <2>4, IInvMove DEF SharedContested
  <1>15. CASE SharedSpinFirst(c)
    <2>1. /\ Move(c, "sh_spin", "shared") /\ "sh_spin" \in PCs /\ "shared" \in PCs
      BY <1>15 DEF SharedSpinFirst, PCs
    <2>2. /\ WordType'
          /\ counta'.low = counta.low + (IF "shared" \in LowPCs THEN 1 ELSE 0)
                                      - (IF "sh_spin" \in LowPCs THEN 1 ELSE 0)
          /\ counta'.wait = counta.wait + (IF "shared" \in WaitPCs THEN 1 ELSE 0)
                                        - (IF "sh_spin" \in WaitPCs THEN 1 ELSE 0)
      BY <1>t, <1>15 DEF SharedSpinFirst, WordType, LowPCs, WaitPCs, Word, Unlocked
    <2>3. SharedBit'
      BY <1>t, <1>15, WhoIsThere
         DEF SharedSpinFirst, SharedBit, At, Move, LowPCs, WaitPCs, PCs,
             WordType, Word, Unlocked
    <2>4. MutualExclusion'
      BY <1>t, <1>15, WhoIsThere
         DEF SharedSpinFirst, MutualExclusion, Exclusives, Sharers, SharedBit,
             At, Move, LowPCs, PCs, Word, Unlocked
    <2> QED
      BY <1>15, <2>1, <2>2, <2>3, <2>4, IInvMove DEF SharedSpinFirst
  <1>16. CASE SharedSpinJoin(c)
    <2>1. /\ Move(c, "sh_spin", "shared") /\ "sh_spin" \in PCs /\ "shared" \in PCs
      BY <1>16 DEF SharedSpinJoin, PCs
    <2>2. /\ WordType'
          /\ counta'.low = counta.low + (IF "shared" \in LowPCs THEN 1 ELSE 0)
                                      - (IF "sh_spin" \in LowPCs THEN 1 ELSE 0)
          /\ counta'.wait = counta.wait + (IF "shared" \in WaitPCs THEN 1 ELSE 0)
                                        - (IF "sh_spin" \in WaitPCs THEN 1 ELSE 0)
      BY <1>t, <1>16 DEF SharedSpinJoin, WordType, LowPCs, WaitPCs, Word, Unlocked
    <2>3. SharedBit'
      BY <1>t, <1>16, WhoIsThere
         DEF SharedSpinJoin, SharedBit, At, Move, LowPCs, WaitPCs, PCs,
             WordType, Word, Unlocked
    <2>4. MutualExclusion'
      BY <1>t, <1>16, WhoIsThere
         DEF SharedSpinJoin, MutualExclusion, Exclusives, Sharers, SharedBit,
             At, Move, LowPCs, PCs, Word, Unlocked
    <2> QED
      BY <1>16, <2>1, <2>2, <2>3, <2>4, IInvMove DEF SharedSpinJoin
  <1>17. CASE UnlockShared(c)
    <2>1. /\ Move(c, "shared", "sh_clear") /\ "shared" \in PCs /\ "sh_clear" \in PCs
      BY <1>17 DEF UnlockShared, PCs
    <2>2. /\ WordType'
          /\ counta'.low = counta.low + (IF "sh_clear" \in LowPCs THEN 1 ELSE 0)
                                      - (IF "shared" \in LowPCs THEN 1 ELSE 0)
          /\ counta'.wait = counta.wait + (IF "sh_clear" \in WaitPCs THEN 1 ELSE 0)
                                        - (IF "shared" \in WaitPCs THEN 1 ELSE 0)
      BY <1>t, <1>17 DEF UnlockShared, WordType, LowPCs, WaitPCs, Word, Unlocked
    <2>3. SharedBit'
      BY <1>t, <1>17, WhoIsThere
         DEF UnlockShared, SharedBit, At, Move, LowPCs, WaitPCs, PCs,
             WordType, Word, Unlocked
    <2>4. MutualExclusion'
      BY <1>t, <1>17, WhoIsThere
         DEF UnlockShared, MutualExclusion, Exclusives, Sharers, SharedBit,
             At, Move, LowPCs, PCs, Word, Unlocked
    <2> QED
      BY <1>17, <2>1, <2>2, <2>3, <2>4, IInvMove DEF UnlockShared
  <1>18. CASE ClearShared(c)
    <2>1. /\ Move(c, "sh_clear", "idle") /\ "sh_clear" \in PCs /\ "idle" \in PCs
      BY <1>18 DEF ClearShared, PCs
    <2>2. /\ WordType'
          /\ counta'.low = counta.low + (IF "idle" \in LowPCs THEN 1 ELSE 0)
                                      - (IF "sh_clear" \in LowPCs THEN 1 ELSE 0)
          /\ counta'.wait = counta.wait + (IF "idle" \in WaitPCs THEN 1 ELSE 0)
                                        - (IF "sh_clear" \in WaitPCs THEN 1 ELSE 0)
      BY <1>t, <1>18 DEF ClearShared, WordType, LowPCs, WaitPCs, Word, Unlocked
    <2>3. SharedBit'
      BY <1>t, <1>18, WhoIsThere
         DEF ClearShared, SharedBit, At, Move, LowPCs, WaitPCs, PCs,
             WordType, Word, Unlocked
    <2>4. MutualExclusion'
      BY <1>t, <1>18, WhoIsThere
         DEF ClearShared, MutualExclusion, Exclusives, Sharers, SharedBit,
             At, Move, LowPCs, PCs, Word, Unlocked
    <2> QED
      BY <1>18, <2>1, <2>2, <2>3, <2>4, IInvMove DEF ClearShared
  <1> QED
    BY <1>1, <1>2, <1>3, <1>4, <1>5, <1>6, <1>7, <1>8, <1>9, <1>10, <1>11, <1>12, <1>13, <1>14, <1>15, <1>16, <1>17, <1>18
       DEF Exclusive, Shared
-----------------------------------------------------------------------------
(* Theorems *)

\* The inductive invariant holds in every reachable state.
THEOREM SpinInvariance == Spec => []IInv
  <1>1. Init => IInv
    BY IInvInit
  <1>2. IInv /\ [Next]_vars => IInv'
    BY IInvNext
  <1> QED
    BY <1>1, <1>2, PTL DEF Spec

\* Neither counter of spin->counta ever leaves its bit field, whatever the
\* number of cpus below the limits.
THEOREM SpinTypeCorrect == Spec => []TypeOK
  <1>1. IInv => TypeOK
    <2> SUFFICES ASSUME IInv PROVE TypeOK
      OBVIOUS
    <2>1. counta.low \in 0 .. LowLimit - 1
      BY AtFinite, LimitAssumption DEF IInv, Counts
    <2>2. counta.wait \in 0 .. WaitLimit - 1
      BY AtFinite, LimitAssumption DEF IInv, Counts
    <2>3. counta = [shared |-> counta.shared, wait |-> counta.wait,
                    low |-> counta.low] /\ counta.shared \in BOOLEAN
      BY DEF IInv, WordType
    <2>4. counta \in [shared : BOOLEAN, wait : 0 .. WaitLimit - 1,
                      low : 0 .. LowLimit - 1]
      BY <2>1, <2>2, <2>3
    <2>5. /\ gd_spinlocks \in [Cpus -> 0 .. 1]
          /\ td_critcount \in [Cpus -> 0 .. 1]
      BY DEF IInv, Crit
    <2> QED
      BY <2>4, <2>5 DEF IInv, TypeOK
  <1> QED
    BY <1>1, SpinInvariance, PTL

\* spin_lock() and spin_lock_shared() exclude each other as they promise.
THEOREM SpinMutualExclusion == Spec => []MutualExclusion
  <1>1. IInv => MutualExclusion
    BY DEF IInv
  <1> QED
    BY <1>1, SpinInvariance, PTL

\* When nobody uses the lock its word is 0 and the critical section counts of
\* the cpus are back where they were.
THEOREM SpinQuiescent == Spec => []Quiescent
  <1>1. IInv => Quiescent
    <2> SUFFICES ASSUME IInv, \A c \in Cpus : pc[c] = "idle"
                 PROVE  /\ counta = Unlocked
                        /\ \A c \in Cpus : /\ gd_spinlocks[c] = 0
                                           /\ td_critcount[c] = 0
      BY DEF Quiescent
    <2>1. At(pc, LowPCs) = {} /\ At(pc, WaitPCs) = {}
      BY DEF At, LowPCs, WaitPCs
    <2>2. counta.low = 0 /\ counta.wait = 0
      BY <2>1, FS_EmptySet DEF IInv, Counts
    <2>3. counta.shared = FALSE
      BY DEF IInv, WordType, SharedBit, At
    <2>4. counta = Unlocked
      BY <2>2, <2>3 DEF IInv, WordType, Unlocked, Word
    <2> QED
      BY <2>4 DEF IInv, Crit
  <1> QED
    BY <1>1, SpinInvariance, PTL

\* No reader gets in while an exclusive requester that has cleared
\* SPINLOCK_SHARED waits.
THEOREM SpinExclPriority == Spec => ExclPriority
  <1> DEFINE Prio == (\E c \in Cpus : pc[c] = "spin") =>
                        Sharers' \subseteq Sharers
  <1>1. IInv /\ [Next]_vars => [Prio]_vars
    <2> SUFFICES ASSUME IInv, Next, NEW d \in Cpus, pc[d] = "spin"
                 PROVE  Sharers' \subseteq Sharers
      OBVIOUS
    <2>1. d \in At(pc, WaitPCs) /\ d \in At(pc, {"excl", "spin"})
      BY DEF At, WaitPCs
    <2>2. counta # Unlocked /\ ~ counta.shared
      BY <2>1, WhoIsThere DEF IInv, SharedBit, Unlocked, Word
    <2>3. PICK c \in Cpus : Exclusive(c) \/ Shared(c)
      BY DEF Next
    <2>4. \E from, to \in PCs : Move(c, from, to) /\ to # "shared"
      BY <2>2, <2>3
         DEF Exclusive, Shared, TrylockEnter, Trylock, TrylockContested,
             LockEnter, LockAdd, LockGranted, LockContested, Transfer,
             Unshare, SpinAcquire, Unlock, SharedEnter, SharedQuick,
             SharedContested, SharedSpinFirst, SharedSpinJoin, UnlockShared,
             ClearShared, PCs
    <2> QED
      BY <2>4 DEF IInv, Sharers, Move
  <1> QED
    BY <1>1, SpinInvariance, PTL DEF Spec, ExclPriority

\* The refinement: every step of the spinlock is a step of the abstract
\* shared/exclusive lock of RWLock, or leaves its state alone.
THEOREM SpinRefinesRWLock == Spec => ImplementsRWLock
  <1>1. Init => RW!RWInit
    BY DEF Init, RW!RWInit, ExclHeld, SharedHeld
  <1>2. IInv /\ [Next]_vars => [RW!RWNext]_(RW!rwvars)
    <2> SUFFICES ASSUME IInv, [Next]_vars
                 PROVE  [RW!RWNext]_(RW!rwvars)
      OBVIOUS
    <2>t. pc \in [Cpus -> PCs]
      BY DEF IInv
    <2>u. CASE UNCHANGED vars
      BY <2>u DEF vars, RW!rwvars, ExclHeld, SharedHeld
    <2> SUFFICES ASSUME NEW c \in Cpus, Exclusive(c) \/ Shared(c)
                 PROVE  [RW!RWNext]_(RW!rwvars)
      BY <2>u DEF Next
    \* The low bits are 0, or 1 and ours: nobody else holds the lock.
    <2>1. ASSUME pc[c] \notin {"excl", "shared"},
                 pc' = [pc EXCEPT ![c] = "excl"],
                 At(pc, LowPCs) \subseteq {c}
          PROVE  RW!AcquireExcl(c)
      <3>1. ExclHeld' = [ExclHeld EXCEPT ![c] = ExclHeld[c] + 1]
        <4>1. ExclHeld' = [ExclHeld EXCEPT ![c] = 1] /\ ExclHeld[c] = 0
          BY <2>t, <2>1 DEF ExclHeld
        <4> QED
          BY <4>1
      <3>2. SharedHeld' = SharedHeld
        BY <2>t, <2>1 DEF SharedHeld
      <3>3. RW!NoOtherHold(c) /\ SharedHeld[c] = 0
        BY <2>1 DEF RW!NoOtherHold, ExclHeld, SharedHeld, At, LowPCs
      <3> QED
        BY <3>1, <3>2, <3>3 DEF RW!AcquireExcl
    <2>2. ASSUME pc[c] \notin {"excl", "shared"},
                 pc' = [pc EXCEPT ![c] = "shared"],
                 At(pc, {"excl"}) = {}
          PROVE  RW!AcquireShared(c)
      <3>1. SharedHeld' = [SharedHeld EXCEPT ![c] = SharedHeld[c] + 1]
        <4>1. SharedHeld' = [SharedHeld EXCEPT ![c] = 1] /\ SharedHeld[c] = 0
          BY <2>t, <2>2 DEF SharedHeld
        <4> QED
          BY <4>1
      <3>2. ExclHeld' = ExclHeld
        BY <2>t, <2>2 DEF ExclHeld
      <3>3. RW!NoOtherExcl(c) /\ ExclHeld[c] = 0
        BY <2>2 DEF RW!NoOtherExcl, ExclHeld, At
      <3> QED
        BY <3>1, <3>2, <3>3 DEF RW!AcquireShared
    <2>3. ASSUME NEW to \in PCs \ {"excl", "shared"},
                 pc' = [pc EXCEPT ![c] = to]
          PROVE  [RW!RWNext]_(RW!rwvars)
      <3>1. CASE pc[c] = "excl"
        <4>1. RW!ReleaseExcl(c)
          <5>1. ExclHeld' = [ExclHeld EXCEPT ![c] = ExclHeld[c] - 1]
            <6>1. ExclHeld' = [ExclHeld EXCEPT ![c] = 0] /\ ExclHeld[c] = 1
              BY <2>t, <2>3, <3>1 DEF ExclHeld
            <6> QED
              BY <6>1
          <5>2. SharedHeld' = SharedHeld
            BY <2>t, <2>3, <3>1 DEF SharedHeld
          <5>3. ExclHeld[c] > 0
            BY <3>1 DEF ExclHeld
          <5> QED
            BY <5>1, <5>2, <5>3 DEF RW!ReleaseExcl
        <4> QED
          BY <4>1 DEF RW!RWNext, RW!rwvars
      <3>2. CASE pc[c] = "shared"
        <4>1. RW!ReleaseShared(c)
          <5>1. SharedHeld' = [SharedHeld EXCEPT ![c] = SharedHeld[c] - 1]
            <6>1. SharedHeld' = [SharedHeld EXCEPT ![c] = 0] /\ SharedHeld[c] = 1
              BY <2>t, <2>3, <3>2 DEF SharedHeld
            <6> QED
              BY <6>1
          <5>2. ExclHeld' = ExclHeld
            BY <2>t, <2>3, <3>2 DEF ExclHeld
          <5>3. SharedHeld[c] > 0
            BY <3>2 DEF SharedHeld
          <5> QED
            BY <5>1, <5>2, <5>3 DEF RW!ReleaseShared
        <4> QED
          BY <4>1 DEF RW!RWNext, RW!rwvars
      <3>3. CASE pc[c] \notin {"excl", "shared"}
        BY <2>t, <2>3, <3>3 DEF RW!rwvars, ExclHeld, SharedHeld
      <3> QED
        BY <3>1, <3>2, <3>3
    <2>4. CASE Trylock(c) \/ LockGranted(c) \/ SpinAcquire(c)
      <3>1. /\ pc[c] \notin {"excl", "shared"}
            /\ pc' = [pc EXCEPT ![c] = "excl"]
        BY <2>4 DEF Trylock, LockGranted, SpinAcquire, Move
      <3>2. At(pc, LowPCs) \subseteq {c}
        BY <2>4, WhoIsThere
           DEF Trylock, LockGranted, SpinAcquire, Move, Unlocked, Word, LowPCs
      <3> QED
        BY <2>1, <3>1, <3>2 DEF RW!RWNext, RW!rwvars
    <2>5. CASE SharedQuick(c) \/ SharedSpinFirst(c) \/ SharedSpinJoin(c)
      <3>1. /\ pc[c] \notin {"excl", "shared"}
            /\ pc' = [pc EXCEPT ![c] = "shared"]
        BY <2>5 DEF SharedQuick, SharedSpinFirst, SharedSpinJoin, Move
      <3>2. counta.shared \/ At(pc, LowPCs) = {}
        BY <2>5, WhoIsThere
           DEF SharedQuick, SharedSpinFirst, SharedSpinJoin, Unlocked, Word
      <3>3. At(pc, {"excl"}) = {}
        BY <3>2 DEF IInv, SharedBit, At, LowPCs
      <3> QED
        BY <2>2, <3>1, <3>3 DEF RW!RWNext, RW!rwvars
    <2>6. CASE \/ TrylockEnter(c) \/ TrylockContested(c) \/ LockEnter(c)
               \/ LockAdd(c) \/ LockContested(c) \/ Transfer(c) \/ Unshare(c)
               \/ Unlock(c) \/ SharedEnter(c) \/ SharedContested(c)
               \/ UnlockShared(c) \/ ClearShared(c)
      <3>1. \E to \in PCs \ {"excl", "shared"} : pc' = [pc EXCEPT ![c] = to]
        BY <2>6 DEF TrylockEnter, TrylockContested, LockEnter, LockAdd,
                    LockContested, Transfer, Unshare, Unlock, SharedEnter,
                    SharedContested, UnlockShared, ClearShared, Move, PCs
      <3> QED
        BY <2>3, <3>1
    <2> QED
      BY <2>4, <2>5, <2>6 DEF Exclusive, Shared
  <1> QED
    BY <1>1, <1>2, SpinInvariance, PTL
       DEF Spec, ImplementsRWLock, RW!RWSpec
=============================================================================
