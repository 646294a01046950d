---------------------------- MODULE LockmgrProofs ----------------------------
(***************************************************************************)
(* Proofs about Lockmgr, for every set of threads, every choice of the     *)
(* threads with TDF_DEADLKTREAT and every depth of recursion.              *)
(***************************************************************************)
EXTENDS Lockmgr, FiniteSetTheorems, TLAPS

\* While LKC_EXCL is clear nobody holds the lock exclusively, and no holder is
\* recorded; while it is set nobody holds the lock shared.
Modes == /\ ~ lk_count.excl => /\ lk_lockholder = NULL
                               /\ ~ lk_count.upgrant
                               /\ \A h \in Holders : ex[h] = 0
         /\ lk_count.excl => \A h \in Holders : sh[h] = 0

\* An exclusive holder is the one in lk_lockholder, except for the instant of
\* a downgrade between the two writes.
Recorded == \A h \in Holders : ex[h] > 0 => \/ lk_lockholder = h
                                            \/ h # KERN /\ pc[h] = "down"

\* The lock is exclusive with a count of one, and nobody is recorded.
Between == lk_count.excl /\ lk_count.cnt = 1 /\ lk_lockholder = NULL

\* What a thread's place in lockmgr() says about the lock and its locals.
Place(t) ==
    /\ pc[t] = "owner" => Between
    /\ pc[t] = "release" /\ lk_count.excl => lk_lockholder \in {t, KERN}
    /\ pc[t] = "rel_last" => Between /\ otd[t] \in {t, KERN}
    /\ pc[t] = "downgrade" => /\ lk_count.cnt = 1 /\ lk_lockholder = t
                              /\ ex[t] = 1
    /\ pc[t] = "down" => Between /\ otd[t] = t /\ ex[t] = 1
    /\ pc[t] \in {"up_want", "xup_want"} => sh[t] = 1
    /\ pc[t] \in {"upgrade", "exclupgrade"} => sh[t] = 1 \/ ex[t] > 0
    /\ pc[t] \in {"up_want", "xup_want"} =>
          ~ count[t].excl /\ (count[t].upreq \/ count[t].cnt > 1)
    /\ pc[t] \in {"sh_want", "ex_want"} => count[t] # Free
    /\ pc[t] = "wait_want" => ~ count[t].upgrant
    /\ pc[t] \notin {"undo", "panic"}

Places == \A t \in Threads : Place(t)

\* LKC_UPREQ or LKC_UPGRANT is set exactly while one thread is on its way to
\* take the grant, LKC_UPREQ under a shared and LKC_UPGRANT under an exclusive
\* lock.
Requests == /\ lk_count.upreq => ~ lk_count.excl /\ lk_count.cnt > 0
            /\ lk_count.upgrant => Between /\ ~ lk_count.upreq
            /\ \A t \in Threads : pc[t] \in UpgradeOwner
                                     => lk_count.upreq \/ lk_count.upgrant
            /\ lk_count.upreq \/ lk_count.upgrant => Inside(UpgradeOwner) # {}
            /\ \A t, u \in Inside(UpgradeOwner) : t = u

\* The inductive invariant.
IInv == /\ TypeOK
        /\ IsFiniteSet(Counted) /\ HoldersCounted
        /\ Modes
        /\ Recorded
        /\ Places
        /\ Requests
        /\ IdleClean
        /\ WakeupPending
-----------------------------------------------------------------------------
(* Counting *)

Units == (Holders \cup {NULL}) \X Nat

\* The pair <<h, i>> is counted.
IsCounted(h, i) == \/ h \in Holders /\ i > 0 /\ i <= ex[h] + sh[h]
                   \/ h \in Threads /\ i = 0 /\ pc[h] \in InCall
                   \/ h = NULL /\ i = 0 /\ lk_count.upgrant

\* The set that lk_count counts, by its elements ...
LEMMA CountedIs ==
    ASSUME TypeOK
    PROVE  Counted = {p \in Units : IsCounted(p[1], p[2])}
  <1>1. ASSUME NEW p \in Counted
        PROVE  p \in Units /\ IsCounted(p[1], p[2])
    BY <1>1 DEF Counted, Units, IsCounted, Inside, TypeOK, Holders
  <1>2. ASSUME NEW p \in Units, IsCounted(p[1], p[2])
        PROVE  p \in Counted
    <2>1. p = <<p[1], p[2]>> /\ p[2] \in Nat
      BY DEF Units
    <2>2. CASE p[1] \in Holders /\ p[2] > 0 /\ p[2] <= ex[p[1]] + sh[p[1]]
      <3>1. p[2] \in 1 .. ex[p[1]] + sh[p[1]]
        BY <2>1, <2>2 DEF TypeOK
      <3>2. p \in {<<p[1], i>> : i \in 1 .. ex[p[1]] + sh[p[1]]}
        BY <2>1, <3>1
      <3> QED
        BY <2>2, <3>2 DEF Counted
    <2>3. CASE p[1] \in Threads /\ p[2] = 0 /\ pc[p[1]] \in InCall
      BY <2>1, <2>3 DEF Counted, Inside
    <2>4. CASE p[1] = NULL /\ p[2] = 0 /\ lk_count.upgrant
      BY <2>1, <2>4 DEF Counted
    <2> QED
      BY <1>2, <2>2, <2>3, <2>4 DEF IsCounted
  <1> QED
    BY <1>1, <1>2

\* ... one pair at a time ...
LEMMA CountedPair ==
    ASSUME TypeOK, NEW h \in Holders \cup {NULL}, NEW i \in Nat
    PROVE  <<h, i>> \in Counted <=> IsCounted(h, i)
  BY CountedIs DEF Units

\* ... and after a step.
LEMMA CountedIsNext ==
    ASSUME TypeOK'
    PROVE  Counted' = {p \in Units : IsCounted(p[1], p[2])'}
  <1>1. (TypeOK => Counted = {p \in Units : IsCounted(p[1], p[2])})'
    BY CountedIs, PTL
  <1> QED
    BY <1>1 DEF Units, Holders

\* What the count says about who holds the lock: with a count of 0 nobody does,
\* with a count of 1 nobody else does.
CountSays ==
    /\ \A h \in Holders : ex[h] + sh[h] > 0 => lk_count.cnt > 0
    /\ \A t \in Threads : pc[t] \in InCall => lk_count.cnt > 0
    /\ lk_count.upgrant => lk_count.cnt > 0
    /\ lk_count.cnt = 1 =>
         /\ \A g, h \in Holders : ex[g] + sh[g] > 0 /\ ex[h] + sh[h] > 0
                                    => g = h /\ ex[h] + sh[h] = 1
         /\ \A t, u \in Threads : pc[t] \in InCall /\ pc[u] \in InCall => t = u
         /\ \A t \in Threads, h \in Holders :
               pc[t] \in InCall => ex[h] + sh[h] = 0 /\ ~ lk_count.upgrant
         /\ \A h \in Holders : lk_count.upgrant => ex[h] + sh[h] = 0

\* The count of lk_count is zero, or one, for the reasons that the callers of
\* lockmgr() see: CountSays follows from HoldersCounted.
LEMMA CountFacts ==
    ASSUME TypeOK, IsFiniteSet(Counted), HoldersCounted
    PROVE  CountSays
  <1>1. \A x : x \in Counted => lk_count.cnt > 0
    BY FS_EmptySet, FS_CardinalityType DEF HoldersCounted
  <1>2. \A x, y : lk_count.cnt = 1 /\ x \in Counted /\ y \in Counted => x = y
    <2>1. lk_count.cnt = 1 => \E z : Counted = {z}
      BY FS_Singleton DEF HoldersCounted
    <2> QED
      BY <2>1
  <1>3. /\ \A h \in Holders : ex[h] + sh[h] > 0 => <<h, 1>> \in Counted
        /\ \A h \in Holders : ex[h] + sh[h] > 1 => <<h, 2>> \in Counted
        /\ \A t \in Threads : pc[t] \in InCall => <<t, 0>> \in Counted
        /\ lk_count.upgrant => <<NULL, 0>> \in Counted
    BY CountedPair DEF IsCounted, TypeOK, Holders
  <1>4. /\ \A h \in Holders : ex[h] \in Nat /\ sh[h] \in Nat /\ h # NULL
        /\ \A t \in Threads : t # NULL
    BY ConstantsAssumption DEF TypeOK, Holders
  <1>5. \A h \in Holders : lk_count.cnt = 1 /\ ex[h] + sh[h] > 0 => ex[h] + sh[h] = 1
    <2> SUFFICES ASSUME NEW h \in Holders, lk_count.cnt = 1, ex[h] + sh[h] > 1
                 PROVE  FALSE
      BY <1>4
    <2>1. <<h, 1>> \in Counted /\ <<h, 2>> \in Counted
      BY <1>3, <1>4
    <2>2. <<h, 1>> # <<h, 2>>
      OBVIOUS
    <2> QED
      BY <1>2, <2>1, <2>2
  <1>6. ASSUME lk_count.cnt = 1, NEW g \in Holders, NEW h \in Holders,
               ex[g] + sh[g] > 0, ex[h] + sh[h] > 0
        PROVE  g = h
    <2>1. <<g, 1>> = <<h, 1>>
      BY <1>2, <1>3, <1>6
    <2> QED
      BY <2>1
  <1>7. ASSUME lk_count.cnt = 1, NEW t \in Threads, NEW u \in Threads,
               pc[t] \in InCall, pc[u] \in InCall
        PROVE  t = u
    <2>1. <<t, 0>> = <<u, 0>>
      BY <1>2, <1>3, <1>7
    <2> QED
      BY <2>1
  <1>8. ASSUME lk_count.cnt = 1, NEW t \in Threads, NEW h \in Holders,
               pc[t] \in InCall
        PROVE  ex[h] + sh[h] = 0 /\ ~ lk_count.upgrant
    <2>1. <<t, 0>> # <<h, 1>> /\ <<t, 0>> # <<NULL, 0>>
      BY <1>4
    <2>2. ~ (ex[h] + sh[h] > 0) /\ ~ lk_count.upgrant
      BY <1>2, <1>3, <1>8, <2>1
    <2> QED
      BY <1>4, <2>2
  <1>9. ASSUME lk_count.cnt = 1, NEW h \in Holders, lk_count.upgrant
        PROVE  ex[h] + sh[h] = 0
    <2>1. <<NULL, 0>> # <<h, 1>>
      OBVIOUS
    <2>2. ~ (ex[h] + sh[h] > 0)
      BY <1>2, <1>3, <1>9, <2>1
    <2> QED
      BY <1>4, <2>2
  <1>10. /\ \A h \in Holders : ex[h] + sh[h] > 0 => lk_count.cnt > 0
         /\ \A t \in Threads : pc[t] \in InCall => lk_count.cnt > 0
         /\ lk_count.upgrant => lk_count.cnt > 0
    BY <1>1, <1>3
  <1> QED
    BY <1>5, <1>6, <1>7, <1>8, <1>9, <1>10 DEF CountSays

\* Putting an element into a finite set, or taking it out.
LEMMA Toggle ==
    ASSUME NEW S, IsFiniteSet(S), NEW x, NEW on \in BOOLEAN, NEW T,
           T = IF on THEN S \cup {x} ELSE S \ {x}
    PROVE  /\ IsFiniteSet(T)
           /\ Cardinality(T) = Cardinality(S) + (IF on THEN 1 ELSE 0)
                                              - (IF x \in S THEN 1 ELSE 0)
  <1>1. Cardinality(S) \in Nat
    BY FS_CardinalityType
  <1>2. CASE on
    BY <1>1, <1>2, FS_AddElement
  <1>3. CASE ~ on
    BY <1>1, <1>3, FS_RemoveElement
  <1> QED
    BY <1>2, <1>3

One(b) == IF b THEN 1 ELSE 0

\* The count stays right if it moves with what is counted: the acquisitions of
\* one holder h, the place of one thread t, and LKC_UPGRANT.
LEMMA CountStep ==
    ASSUME TypeOK, TypeOK', IsFiniteSet(Counted), HoldersCounted,
           NEW h \in Holders, NEW t \in Threads,
           \A g \in Holders \ {h} : ex'[g] + sh'[g] = ex[g] + sh[g],
           \A u \in Threads \ {t} : pc'[u] \in InCall <=> pc[u] \in InCall,
           (ex'[h] + sh'[h]) - (ex[h] + sh[h]) \in {-1, 0, 1},
           lk_count'.cnt = lk_count.cnt + ((ex'[h] + sh'[h]) - (ex[h] + sh[h]))
                              + (One(pc'[t] \in InCall) - One(pc[t] \in InCall))
                              + (One(lk_count'.upgrant) - One(lk_count.upgrant))
    PROVE  IsFiniteSet(Counted') /\ HoldersCounted'
  <1> DEFINE N == ex[h] + sh[h]
             M == ex'[h] + sh'[h]
             S1 == IF M = N + 1 THEN Counted \cup {<<h, M>>}
                   ELSE IF M = N - 1 THEN Counted \ {<<h, N>>} ELSE Counted
             S2 == IF pc'[t] \in InCall THEN S1 \cup {<<t, 0>>} ELSE S1 \ {<<t, 0>>}
             S3 == IF lk_count'.upgrant THEN S2 \cup {<<NULL, 0>>}
                                        ELSE S2 \ {<<NULL, 0>>}
  <1>1. /\ N \in Nat /\ M \in Nat /\ M - N \in {-1, 0, 1}
        /\ h # NULL /\ t # NULL /\ t \in Holders
        /\ lk_count.upgrant \in BOOLEAN /\ lk_count'.upgrant \in BOOLEAN
        /\ lk_count.cnt \in Nat /\ Cardinality(Counted) \in Nat
    <2>1. Cardinality(Counted) \in Nat
      BY FS_CardinalityType
    <2>2. h # NULL /\ t # NULL /\ t \in Holders
      BY ConstantsAssumption DEF Holders
    <2>3. N \in Nat /\ M \in Nat
      BY DEF TypeOK
    <2> QED
      BY <2>1, <2>2, <2>3 DEF TypeOK, Words
  <1>2. /\ \A i \in Nat : <<h, i>> \in Counted <=> IsCounted(h, i)
        /\ \A i \in Nat : <<t, i>> \in Counted <=> IsCounted(t, i)
        /\ \A i \in Nat : <<NULL, i>> \in Counted <=> IsCounted(NULL, i)
    BY <1>1, CountedPair
  <1>3. /\ M = N + 1 => <<h, M>> \notin Counted
        /\ M = N - 1 => <<h, N>> \in Counted
        /\ <<t, 0>> \in Counted <=> pc[t] \in InCall
        /\ <<NULL, 0>> \in Counted <=> lk_count.upgrant
    BY <1>1, <1>2, ConstantsAssumption DEF IsCounted, Holders
  <1>4. IsFiniteSet(S1) /\ Cardinality(S1) = Cardinality(Counted) + (M - N)
    <2>1. CASE M = N + 1
      <3>1. S1 = Counted \cup {<<h, M>>} /\ <<h, M>> \notin Counted
        BY <1>3, <2>1
      <3>2. /\ IsFiniteSet(Counted \cup {<<h, M>>})
            /\ Cardinality(Counted \cup {<<h, M>>}) = Cardinality(Counted) + 1
        BY <3>1, FS_AddElement
      <3> QED
        BY <1>1, <2>1, <3>1, <3>2
    <2>2. CASE M = N - 1
      BY <1>1, <1>3, <2>2, FS_RemoveElement
    <2>3. CASE M = N
      BY <1>1, <2>3
    <2> QED
      BY <1>1, <2>1, <2>2, <2>3
  <1>5. /\ <<t, 0>> \in S1 <=> pc[t] \in InCall
        /\ <<NULL, 0>> \in S2 <=> lk_count.upgrant
    <2>1. /\ M = N + 1 => <<h, M>> # <<t, 0>> /\ <<h, M>> # <<NULL, 0>>
          /\ M = N - 1 => <<h, N>> # <<t, 0>> /\ <<h, N>> # <<NULL, 0>>
          /\ <<t, 0>> # <<NULL, 0>>
      BY <1>1
    <2> QED
      BY <1>3, <2>1
  <1>6. \A p \in Units : IsCounted(p[1], p[2])' <=> p \in S3
    <2> SUFFICES ASSUME NEW p \in Units
                 PROVE  IsCounted(p[1], p[2])' <=> p \in S3
      OBVIOUS
    <2>1. /\ p = <<p[1], p[2]>> /\ p[2] \in Nat /\ p[1] \in Holders \cup {NULL}
          /\ p \in Counted <=> IsCounted(p[1], p[2])
      BY CountedIs DEF Units
    <2>2. CASE p[2] = 0
      <3>1. /\ M = N + 1 => p # <<h, M>>
            /\ M = N - 1 => p # <<h, N>>
        BY <1>1, <2>1, <2>2
      <3>2. p \in S1 <=> p \in Counted
        BY <3>1
      <3>3. CASE p[1] = t
        <4>1. p = <<t, 0>>
          BY <2>1, <2>2, <3>3
        <4>2. p \in S3 <=> pc'[t] \in InCall
          BY <1>1, <4>1
        <4> QED
          BY <1>1, <2>2, <3>3, <4>2 DEF IsCounted
      <3>4. CASE p[1] = NULL
        <4>1. p = <<NULL, 0>>
          BY <2>1, <2>2, <3>4
        <4>2. p \in S3 <=> lk_count'.upgrant
          BY <4>1
        <4> QED
          BY <1>1, <2>2, <3>4, <4>2, ConstantsAssumption DEF IsCounted, Holders
      <3>5. CASE p[1] # t /\ p[1] # NULL
        <4>1. p # <<t, 0>> /\ p # <<NULL, 0>>
          BY <2>1, <3>5
        <4>2. p \in S3 <=> IsCounted(p[1], p[2])
          BY <2>1, <3>2, <4>1
        <4> QED
          BY <2>2, <3>5, <4>2 DEF IsCounted
      <3> QED
        BY <3>3, <3>4, <3>5
    <2>3. CASE p[2] # 0
      <3>1. p # <<t, 0>> /\ p # <<NULL, 0>>
        BY <2>1, <2>3
      <3>2. p \in S3 <=> p \in S1
        BY <3>1
      <3>3. CASE p[1] = h
        <4>1. IsCounted(p[1], p[2]) <=> p[2] <= N
          BY <1>1, <2>1, <2>3, <3>3 DEF IsCounted
        <4>2. IsCounted(p[1], p[2])' <=> p[2] <= M
          BY <1>1, <2>1, <2>3, <3>3 DEF IsCounted
        <4>3. /\ p = <<h, M>> <=> p[2] = M
              /\ p = <<h, N>> <=> p[2] = N
          BY <2>1, <3>3
        <4> HIDE DEF N, M
        <4> QED
          BY <1>1, <2>1, <3>2, <4>1, <4>2, <4>3
      <3>4. CASE p[1] # h
        <4>1. p # <<h, M>> /\ p # <<h, N>>
          BY <2>1, <3>4
        <4>2. p \in S3 <=> IsCounted(p[1], p[2])
          BY <2>1, <3>2, <4>1
        <4> QED
          BY <2>1, <2>3, <3>4, <4>2 DEF IsCounted
      <3> QED
        BY <3>3, <3>4
    <2> QED
      BY <2>2, <2>3
  <1>7. S3 \subseteq Units
    BY <1>1, CountedIs DEF Units
  <1>8. Counted' = S3
    BY <1>6, <1>7, CountedIsNext
  <1> HIDE DEF S1
  <1>9. /\ IsFiniteSet(S2)
        /\ Cardinality(S2) = Cardinality(S1) + One(pc'[t] \in InCall)
                                             - One(pc[t] \in InCall)
    <2> DEFINE x == <<t, 0>>
    <2>1. /\ IsFiniteSet(S1)
          /\ x \in S1 <=> pc[t] \in InCall
          /\ S2 = IF pc'[t] \in InCall THEN S1 \cup {x} ELSE S1 \ {x}
      BY <1>4, <1>5
    <2> HIDE DEF x, S2
    <2>2. CASE pc'[t] \in InCall
      BY <2>1, <2>2, FS_CardinalityType, FS_AddElement DEF One
    <2>3. CASE pc'[t] \notin InCall
      BY <2>1, <2>3, FS_CardinalityType, FS_RemoveElement DEF One
    <2> QED
      BY <2>2, <2>3
  <1> HIDE DEF S2
  <1>10. /\ IsFiniteSet(S3)
         /\ Cardinality(S3) = Cardinality(S2) + One(lk_count'.upgrant)
                                              - One(lk_count.upgrant)
    BY <1>1, <1>5, <1>9, Toggle DEF One
  <1> HIDE DEF S3, N, M
  <1>11. lk_count.cnt = Cardinality(Counted)
    BY DEF HoldersCounted
  <1>12. /\ One(pc'[t] \in InCall) \in {0, 1} /\ One(pc[t] \in InCall) \in {0, 1}
         /\ One(lk_count'.upgrant) \in {0, 1} /\ One(lk_count.upgrant) \in {0, 1}
    BY DEF One
  <1>13. lk_count'.cnt = Cardinality(S3)
    BY <1>1, <1>4, <1>9, <1>10, <1>11, <1>12 DEF N, M
  <1> QED
    BY <1>8, <1>10, <1>13 DEF HoldersCounted

\* The count stays right if neither it nor what it counts changes.
LEMMA CountSame ==
    ASSUME TypeOK, TypeOK', IsFiniteSet(Counted), HoldersCounted,
           \A h \in Holders : ex'[h] + sh'[h] = ex[h] + sh[h],
           \A t \in Threads : pc'[t] \in InCall <=> pc[t] \in InCall,
           lk_count'.upgrant = lk_count.upgrant,
           lk_count'.cnt = lk_count.cnt
    PROVE  IsFiniteSet(Counted') /\ HoldersCounted'
  <1>1. \A p \in Units : IsCounted(p[1], p[2])' <=> IsCounted(p[1], p[2])
    BY DEF IsCounted, Units
  <1>2. Counted' = Counted
    BY <1>1, CountedIs, CountedIsNext
  <1> QED
    BY <1>2 DEF HoldersCounted

\* The count stays right when the kernel takes over every acquisition of t.
LEMMA CountMove ==
    ASSUME TypeOK, TypeOK', IsFiniteSet(Counted), HoldersCounted,
           NEW t \in Threads,
           ex[KERN] + sh[KERN] = 0, ex'[t] + sh'[t] = 0,
           ex'[KERN] + sh'[KERN] = ex[t] + sh[t],
           \A g \in Threads \ {t} : ex'[g] + sh'[g] = ex[g] + sh[g],
           UNCHANGED <<pc, lk_count>>
    PROVE  IsFiniteSet(Counted') /\ HoldersCounted'
  <1> DEFINE F == [p \in Counted |-> IF p[1] = t /\ p[2] > 0 THEN <<KERN, p[2]>>
                                                            ELSE p]
  <1>1. /\ t # KERN /\ t # NULL /\ KERN # NULL /\ KERN \notin Threads
        /\ t \in Holders /\ KERN \in Holders /\ NULL \notin Holders
        /\ \A h \in Holders : h # KERN => h \in Threads
    BY ConstantsAssumption DEF Holders
  <1>2. /\ \A h \in Holders : ex[h] + sh[h] \in Nat
        /\ \A h \in Holders : ex'[h] + sh'[h] \in Nat
    BY DEF TypeOK
  <1>3. ASSUME NEW i \in Nat
        PROVE  /\ IsCounted(t, i) <=> \/ i > 0 /\ i <= ex[t] + sh[t]
                                      \/ i = 0 /\ pc[t] \in InCall
               /\ IsCounted(t, i)' <=> i = 0 /\ pc[t] \in InCall
               /\ ~ IsCounted(KERN, i)
               /\ IsCounted(KERN, i)' <=> i > 0 /\ i <= ex[t] + sh[t]
    BY <1>1, <1>2 DEF IsCounted
  <1>4. ASSUME NEW h \in Holders \cup {NULL}, h # t, h # KERN, NEW i \in Nat
        PROVE  IsCounted(h, i)' <=> IsCounted(h, i)
    BY <1>1, <1>4 DEF IsCounted
  <1>5. /\ \A p \in Counted : /\ p = <<p[1], p[2]>> /\ IsCounted(p[1], p[2])
                              /\ p[1] \in Holders \cup {NULL} /\ p[2] \in Nat
        /\ \A p \in Counted' : /\ p = <<p[1], p[2]>> /\ IsCounted(p[1], p[2])'
                               /\ p[1] \in Holders \cup {NULL} /\ p[2] \in Nat
    BY CountedIs, CountedIsNext DEF Units
  <1>6. ASSUME NEW h \in Holders \cup {NULL}, NEW i \in Nat
        PROVE  /\ <<h, i>> \in Counted <=> IsCounted(h, i)
               /\ <<h, i>> \in Counted' <=> IsCounted(h, i)'
    BY CountedIs, CountedIsNext DEF Units
  <1>7. ASSUME NEW p \in Counted
        PROVE  F[p] \in Counted'
    <2>1. CASE p[1] = t /\ p[2] > 0
      <3>1. F[p] = <<KERN, p[2]>>
        BY <2>1
      <3> QED
        BY <1>1, <1>3, <1>5, <1>6, <2>1, <3>1
    <2>2. CASE ~ (p[1] = t /\ p[2] > 0)
      <3>1. F[p] = p
        BY <2>2
      <3>2. IsCounted(p[1], p[2])'
        <4>1. CASE p[1] = t
          BY <1>3, <1>5, <2>2, <4>1
        <4>2. CASE p[1] # t
          BY <1>3, <1>4, <1>5, <4>2
        <4> QED
          BY <4>1, <4>2
      <3>3. <<p[1], p[2]>> \in Counted'
        BY <1>5, <1>6, <3>2
      <3> QED
        BY <1>5, <3>1, <3>3
    <2> QED
      BY <2>1, <2>2
  <1>8. ASSUME NEW p \in Counted, NEW q \in Counted, F[p] = F[q]
        PROVE  p = q
    <2>1. p[1] # KERN /\ q[1] # KERN
      BY <1>3, <1>5
    <2>2. /\ p = <<p[1], p[2]>> /\ q = <<q[1], q[2]>>
          /\ \A a, b, c, d : <<a, b>> = <<c, d>> => a = c /\ b = d
      BY <1>5
    <2>3. CASE p[1] = t /\ p[2] > 0
      <3>1. F[p] = <<KERN, p[2]>>
        BY <2>3
      <3>2. q[1] = t /\ q[2] > 0
        BY <1>8, <2>1, <2>2, <3>1
      <3>3. F[q] = <<KERN, q[2]>>
        BY <3>2
      <3> QED
        BY <1>8, <2>2, <2>3, <3>1, <3>2, <3>3
    <2>4. CASE ~ (p[1] = t /\ p[2] > 0)
      <3>1. F[p] = p
        BY <2>4
      <3>2. ~ (q[1] = t /\ q[2] > 0)
        BY <1>8, <2>1, <2>2, <3>1
      <3> QED
        BY <1>8, <3>1, <3>2
    <2> QED
      BY <2>3, <2>4
  <1>9. ASSUME NEW q \in Counted'
        PROVE  \E p \in Counted : F[p] = q
    <2>1. CASE q[1] = KERN
      <3>1. q[2] > 0 /\ <<t, q[2]>> \in Counted
        BY <1>1, <1>3, <1>5, <1>6, <2>1
      <3>2. F[<<t, q[2]>>] = <<KERN, q[2]>>
        BY <3>1
      <3> QED
        BY <1>5, <2>1, <3>1, <3>2
    <2>2. CASE q[1] # KERN
      <3>1. IsCounted(q[1], q[2]) /\ ~ (q[1] = t /\ q[2] > 0)
        BY <1>3, <1>4, <1>5, <2>2
      <3>2. <<q[1], q[2]>> \in Counted
        BY <1>5, <1>6, <3>1
      <3>3. q \in Counted
        BY <1>5, <3>2
      <3>4. F[q] = q
        BY <3>1, <3>3
      <3> QED
        BY <3>3, <3>4
    <2> QED
      BY <2>1, <2>2
  <1>10. F \in [Counted -> Counted']
    BY <1>7
  <1> HIDE DEF F
  <1>11. F \in Bijection(Counted, Counted')
    BY <1>8, <1>9, <1>10 DEF Bijection, Injection, Surjection, IsInjective
  <1>12. IsFiniteSet(Counted') /\ Cardinality(Counted') = Cardinality(Counted)
    BY <1>11, FS_Bijection DEF ExistsBijection
  <1> QED
    BY <1>12 DEF HoldersCounted

\* The recorded exclusive holder of a single acquisition is all that is counted.
LEMMA SoleHolder ==
    ASSUME IInv, NEW t \in Threads, pc[t] = "idle", ex[t] = 1
    PROVE  lk_count.cnt = 1 /\ lk_lockholder = t /\ lk_count.excl
  <1>1. TypeOK /\ Modes /\ Recorded /\ Places /\ Requests /\ HoldersCounted
    BY DEF IInv
  <1>2. lk_lockholder = t /\ lk_count.excl /\ t # NULL /\ t # KERN
    BY <1>1, ConstantsAssumption DEF TypeOK, Modes, Recorded, Holders
  <1>3. /\ \A h \in Holders \ {t} : ex[h] + sh[h] = 0
        /\ ex[t] + sh[t] = 1
    BY <1>1, <1>2 DEF TypeOK, Modes, Recorded, Places, Place, Between, Holders
  <1>4. \A u \in Threads : pc[u] \notin InCall
    BY <1>1, <1>2 DEF Places, Place, Between, InCall
  <1>5. ~ lk_count.upgrant
    BY <1>1, <1>2 DEF Requests, Between
  <1>6. \A p \in Units : IsCounted(p[1], p[2]) <=> p = <<t, 1>>
    <2> SUFFICES ASSUME NEW p \in Units
                 PROVE  IsCounted(p[1], p[2]) <=> p = <<t, 1>>
      OBVIOUS
    <2>1. p = <<p[1], p[2]>> /\ p[2] \in Nat /\ t \in Holders
      BY DEF Units, Holders
    <2>2. IsCounted(p[1], p[2]) <=> p[1] = t /\ p[2] = 1
      BY <1>3, <1>4, <1>5, <2>1 DEF IsCounted
    <2> QED
      BY <2>1, <2>2
  <1>7. <<t, 1>> \in Units
    BY DEF Units, Holders
  <1>8. Counted = {<<t, 1>>}
    BY <1>1, <1>6, <1>7, CountedIs
  <1> QED
    BY <1>1, <1>2, <1>8, FS_Singleton DEF HoldersCounted
-----------------------------------------------------------------------------
(* Every instruction keeps the invariant *)

USE DEF Goto, Move, local, held

\* An upgrade gives up a shared count that its caller has, under a shared lock;
\* the two that take it out of lk_count leave another one there.
LEMMA SharedUpgrader ==
    ASSUME IInv, NEW t \in Threads,
           \/ UpgradeAhead(t) \/ UpgradeNowait(t) \/ UpgradeSole(t)
           \/ UpgradeRequest(t) \/ UpgradeYield(t) \/ UpgradeGrant(t)
    PROVE  /\ sh[t] = 1 /\ ~ lk_count.excl /\ t \in Holders
           /\ [sh EXCEPT ![t] = @ - 1] \in [Holders -> Nat]
           /\ UpgradeRequest(t) \/ UpgradeYield(t) => lk_count.cnt - 1 \in Nat
  <1>1. /\ t \in Holders /\ sh \in [Holders -> Nat] /\ lk_count.cnt \in Nat
        /\ Modes /\ Places /\ Requests
    BY DEF IInv, TypeOK, Holders, Words
  <1>2. sh[t] = 1 /\ ~ lk_count.excl
    <2>1. CASE UpgradeAhead(t) \/ UpgradeNowait(t) \/ UpgradeSole(t)
      BY <1>1, <2>1 DEF Modes, Requests, Places, Place, Upgrading, UpgradeBlocked,
         UpgradeAhead, UpgradeNowait, UpgradeSole
    <2>2. CASE UpgradeRequest(t) \/ UpgradeYield(t) \/ UpgradeGrant(t)
      BY <1>1, <2>2 DEF Places, Place, UpgradeTo, UpgradeRequest, UpgradeYield,
         UpgradeGrant
    <2> QED
      BY <2>1, <2>2
  <1>3. [sh EXCEPT ![t] = @ - 1] \in [Holders -> Nat]
    <2>1. sh[t] - 1 \in Nat
      BY <1>2
    <2> QED
      BY <1>1, <2>1
  <1>4. ASSUME UpgradeRequest(t) \/ UpgradeYield(t)
        PROVE  lk_count.cnt - 1 \in Nat
    <2>1. lk_count.cnt > 1
      BY <1>1, <1>4 DEF Places, Place, UpgradeTo, UpgradeRequest, UpgradeYield
    <2> QED
      BY <1>1, <2>1
  <1> QED
    BY <1>1, <1>2, <1>3, <1>4

\* The calls, and the returns with EBUSY.
LEMMA CallStep ==
    ASSUME IInv, NEW t \in Threads,
           LockSh(t) \/ LockEx(t) \/ Upgrade(t) \/ UpgradeOwned(t)
           \/ Nowait(t)
    PROVE  IInv'
  <1>i. /\ TypeOK /\ IsFiniteSet(Counted) /\ HoldersCounted /\ CountSays
        /\ Modes /\ Recorded /\ Places /\ Requests /\ IdleClean /\ WakeupPending
    BY CountFacts DEF IInv
  <1>1. TypeOK'
    BY <1>i DEF TypeOK, Words, Holders, PCs, Sleeping, LockSh, LockEx, Upgrade,
       UpgradeOwned, Nowait
  <1>2. IsFiniteSet(Counted') /\ HoldersCounted'
    BY <1>i, <1>1, CountSame DEF InCall, TypeOK, Words, Holders, LockSh,
       LockEx, Upgrade, UpgradeOwned, Nowait
  <1>3. Modes' /\ Recorded'
    BY <1>i DEF Modes, Recorded, TypeOK, Words, Holders, LockSh, LockEx,
       Upgrade, UpgradeOwned, Nowait
  <1>4. Places'
    BY <1>i DEF Places, Place, Between, Modes, Recorded, TypeOK, Words,
       Holders, LockSh, LockEx, Upgrade, UpgradeOwned, Nowait
  <1>5. Requests'
    BY <1>i DEF Requests, Between, Inside, UpgradeOwner, TypeOK, Words,
       Holders, LockSh, LockEx, Upgrade, UpgradeOwned, Nowait
  <1>6. IdleClean' /\ WakeupPending'
    BY <1>i DEF IdleClean, WakeupPending, Inside, TypeOK, Words, Holders,
       LockSh, LockEx, Upgrade, UpgradeOwned, Nowait
  <1> QED
    BY <1>1, <1>2, <1>3, <1>4, <1>5, <1>6 DEF IInv

\* The call for a downgrade.
LEMMA DowngradeStep ==
    ASSUME IInv, NEW t \in Threads, Downgrade(t)
    PROVE  IInv'
  <1>i. /\ TypeOK /\ IsFiniteSet(Counted) /\ HoldersCounted /\ CountSays
        /\ Modes /\ Recorded /\ Places /\ Requests /\ IdleClean /\ WakeupPending
    BY CountFacts DEF IInv
  <1>1. TypeOK'
    BY <1>i DEF TypeOK, Words, Holders, PCs, Sleeping, Downgrade
  <1>2. IsFiniteSet(Counted') /\ HoldersCounted'
    BY <1>i, <1>1, CountSame DEF InCall, TypeOK, Words, Holders, Downgrade
  <1>3. Modes' /\ Recorded'
    BY <1>i DEF Modes, Recorded, TypeOK, Words, Holders, Downgrade
  <1>4. Places'
    BY <1>i, SoleHolder DEF Places, Place, Between, Modes, Recorded, TypeOK,
       Words, Holders, Downgrade
  <1>5. Requests'
    BY <1>i DEF Requests, Between, Inside, UpgradeOwner, TypeOK, Words,
       Holders, Downgrade
  <1>6. IdleClean' /\ WakeupPending'
    BY <1>i DEF IdleClean, WakeupPending, Inside, TypeOK, Words, Holders,
       Downgrade
  <1> QED
    BY <1>1, <1>2, <1>3, <1>4, <1>5, <1>6 DEF IInv

\* tsleep_interlock() after a look at the word.
LEMMA InterlockStep ==
    ASSUME IInv, NEW t \in Threads,
           SharedInterlock(t) \/ ExclInterlock(t)
           \/ UpgradeInterlock(t) \/ WaitInterlock(t)
    PROVE  IInv'
  <1>i. /\ TypeOK /\ IsFiniteSet(Counted) /\ HoldersCounted /\ CountSays
        /\ Modes /\ Recorded /\ Places /\ Requests /\ IdleClean /\ WakeupPending
    BY CountFacts DEF IInv
  <1>1. TypeOK'
    <2>1. CASE SharedInterlock(t)
      BY <1>i, <2>1 DEF TypeOK, Words, Holders, PCs, Sleeping, SharedInterlock,
         SharedBlocked, Interlock, Free
    <2>2. CASE ExclInterlock(t)
      BY <1>i, <2>2 DEF TypeOK, Words, Holders, PCs, Sleeping, ExclInterlock,
         Interlock, Free
    <2>3. CASE UpgradeInterlock(t)
      BY <1>i, <2>3 DEF TypeOK, Words, Holders, PCs, Sleeping,
         UpgradeInterlock, Upgrading, UpgradeBlocked, Interlock, Free
    <2>4. CASE WaitInterlock(t)
      BY <1>i, <2>4 DEF TypeOK, Words, Holders, PCs, Sleeping, WaitInterlock,
         Interlock, Free
    <2> QED
      BY <2>1, <2>2, <2>3, <2>4
  <1>2. IsFiniteSet(Counted') /\ HoldersCounted'
    BY <1>i, <1>1, CountSame DEF InCall, TypeOK, Words, Holders,
       SharedInterlock, ExclInterlock, UpgradeInterlock, WaitInterlock,
       Interlock, Upgrading, UpgradeBlocked, SharedBlocked, Free
  <1>3. Modes' /\ Recorded'
    BY <1>i DEF Modes, Recorded, TypeOK, Words, Holders, SharedInterlock,
       ExclInterlock, UpgradeInterlock, WaitInterlock, Interlock, Upgrading,
       UpgradeBlocked, SharedBlocked, Free
  <1>4. Places'
    BY <1>i DEF Places, Place, Between, Modes, Recorded, TypeOK, Words,
       Holders, SharedInterlock, ExclInterlock, UpgradeInterlock,
       WaitInterlock, Interlock, Upgrading, UpgradeBlocked, SharedBlocked, Free
  <1>5. Requests'
    BY <1>i DEF Requests, Between, Inside, UpgradeOwner, TypeOK, Words,
       Holders, SharedInterlock, ExclInterlock, UpgradeInterlock,
       WaitInterlock, Interlock, Upgrading, UpgradeBlocked, SharedBlocked, Free
  <1>6. IdleClean' /\ WakeupPending'
    BY <1>i DEF IdleClean, WakeupPending, Inside, TypeOK, Words, Holders,
       SharedInterlock, ExclInterlock, UpgradeInterlock, WaitInterlock,
       Interlock, Upgrading, UpgradeBlocked, SharedBlocked, Free
  <1> QED
    BY <1>1, <1>2, <1>3, <1>4, <1>5, <1>6 DEF IInv

\* The upgrader sleeps again.
LEMMA WaitAgainStep ==
    ASSUME IInv, NEW t \in Threads, WaitAgain(t)
    PROVE  IInv'
  <1>i. /\ TypeOK /\ IsFiniteSet(Counted) /\ HoldersCounted /\ CountSays
        /\ Modes /\ Recorded /\ Places /\ Requests /\ IdleClean /\ WakeupPending
    BY CountFacts DEF IInv
  <1>1. TypeOK'
    BY <1>i DEF TypeOK, Words, Holders, PCs, Sleeping, WaitAgain, Forget, Free
  <1>2. IsFiniteSet(Counted') /\ HoldersCounted'
    BY <1>i, <1>1, CountSame DEF InCall, TypeOK, Words, Holders, WaitAgain,
       Forget, Free
  <1>3. Modes' /\ Recorded'
    BY <1>i DEF Modes, Recorded, TypeOK, Words, Holders, WaitAgain, Forget,
       Free
  <1>4. Places'
    BY <1>i DEF Places, Place, Between, Modes, Recorded, TypeOK, Words,
       Holders, WaitAgain, Forget, Free
  <1>5. Requests'
    BY <1>i DEF Requests, Between, Inside, UpgradeOwner, TypeOK, Words,
       Holders, WaitAgain, Forget, Free
  <1>6. IdleClean' /\ WakeupPending'
    BY <1>i DEF IdleClean, WakeupPending, Inside, TypeOK, Words, Holders,
       WaitAgain, Forget, Free, Places, Place, Requests, UpgradeOwner
  <1> QED
    BY <1>1, <1>2, <1>3, <1>4, <1>5, <1>6 DEF IInv

\* The end of a sleep, and the wakeup.
LEMMA SleepStep ==
    ASSUME IInv, NEW t \in Threads, Woken(t) \/ Wakeup(t) \/ SleepError(t)
    PROVE  IInv'
  <1>i. /\ TypeOK /\ IsFiniteSet(Counted) /\ HoldersCounted /\ CountSays
        /\ Modes /\ Recorded /\ Places /\ Requests /\ IdleClean /\ WakeupPending
    BY CountFacts DEF IInv
  <1>1. TypeOK'
    BY <1>i DEF TypeOK, Words, Holders, PCs, Sleeping, Woken, Wakeup,
       SleepError, SleepFails
  <1>2. IsFiniteSet(Counted') /\ HoldersCounted'
    BY <1>i, <1>1, CountSame DEF InCall, TypeOK, Words, Holders, Woken, Wakeup,
       SleepError, SleepFails
  <1>3. Modes' /\ Recorded'
    BY <1>i DEF Modes, Recorded, TypeOK, Words, Holders, Woken, Wakeup,
       SleepError, SleepFails
  <1>4. Places'
    BY <1>i DEF Places, Place, Between, Modes, Recorded, TypeOK, Words,
       Holders, Woken, Wakeup, SleepError, SleepFails
  <1>5. Requests'
    BY <1>i DEF Requests, Between, Inside, UpgradeOwner, TypeOK, Words,
       Holders, Woken, Wakeup, SleepError, SleepFails
  <1>6. IdleClean' /\ WakeupPending'
    BY <1>i DEF IdleClean, WakeupPending, Inside, TypeOK, Words, Holders,
       Woken, Wakeup, SleepError, SleepFails
  <1> QED
    BY <1>1, <1>2, <1>3, <1>4, <1>5, <1>6 DEF IInv

\* An upgrade of the exclusive lock.
LEMMA UpgradeNopStep ==
    ASSUME IInv, NEW t \in Threads, UpgradeNop(t)
    PROVE  IInv'
  <1>i. /\ TypeOK /\ IsFiniteSet(Counted) /\ HoldersCounted /\ CountSays
        /\ Modes /\ Recorded /\ Places /\ Requests /\ IdleClean /\ WakeupPending
    BY CountFacts DEF IInv
  <1>p. lk_count.excl /\ lk_lockholder = t
    BY <1>i DEF TypeOK, Words, Holders, Modes, Recorded, Places, Place, CountSays,
                UpgradeNop, Upgrading
  <1>1. TypeOK'
    BY <1>i, <1>p DEF TypeOK, Words, Holders, PCs, Sleeping, UpgradeNop,
       Upgrading, GotoIf
  <1>2. IsFiniteSet(Counted') /\ HoldersCounted'
    BY <1>i, <1>p, <1>1, CountSame DEF InCall, TypeOK, Words, Holders,
       UpgradeNop, Upgrading, GotoIf
  <1>3. Modes' /\ Recorded'
    BY <1>i, <1>p DEF Modes, Recorded, TypeOK, Words, Holders, UpgradeNop,
       Upgrading, GotoIf
  <1>4. Places'
    BY <1>i, <1>p DEF Places, Place, Between, Modes, Recorded, TypeOK, Words,
       Holders, UpgradeNop, Upgrading, GotoIf
  <1>5. Requests'
    BY <1>i, <1>p DEF Requests, Between, Inside, UpgradeOwner, TypeOK, Words,
       Holders, UpgradeNop, Upgrading, GotoIf
  <1>6. IdleClean' /\ WakeupPending'
    BY <1>i, <1>p DEF IdleClean, WakeupPending, Inside, TypeOK, Words, Holders,
       UpgradeNop, Upgrading, GotoIf
  <1> QED
    BY <1>1, <1>2, <1>3, <1>4, <1>5, <1>6 DEF IInv

\* A waiter sets its request flag, if the word is still what it saw.
LEMMA WantStep ==
    ASSUME IInv, NEW t \in Threads, SharedWait(t) \/ ExclWait(t)
    PROVE  IInv'
  <1>i. /\ TypeOK /\ IsFiniteSet(Counted) /\ HoldersCounted /\ CountSays
        /\ Modes /\ Recorded /\ Places /\ Requests /\ IdleClean /\ WakeupPending
    BY CountFacts DEF IInv
  <1>1. TypeOK'
    <2>1. CASE SharedWait(t)
      BY <1>i, <2>1 DEF TypeOK, Words, Holders, PCs, Sleeping, SharedWait,
         Forget, Free
    <2>2. CASE ExclWait(t)
      BY <1>i, <2>2 DEF TypeOK, Words, Holders, PCs, Sleeping, ExclWait,
         Forget, Free
    <2> QED
      BY <2>1, <2>2
  <1>2. IsFiniteSet(Counted') /\ HoldersCounted'
    BY <1>i, <1>1, CountSame DEF InCall, TypeOK, Words, Holders, SharedWait,
       ExclWait, Forget, Free
  <1>3. Modes' /\ Recorded'
    BY <1>i DEF Modes, Recorded, TypeOK, Words, Holders, SharedWait, ExclWait,
       Forget, Free
  <1>4. Places'
    BY <1>i DEF Places, Place, Between, Modes, Recorded, TypeOK, Words,
       Holders, SharedWait, ExclWait, Forget, Free
  <1>5. Requests'
    BY <1>i DEF Requests, Between, Inside, UpgradeOwner, TypeOK, Words,
       Holders, SharedWait, ExclWait, Forget, Free
  <1>6. IdleClean' /\ WakeupPending'
    <2>1. CASE SharedWait(t)
      BY <1>i, <2>1 DEF IdleClean, WakeupPending, Inside, TypeOK, Words,
         Holders, Places, Place, SharedWait, Forget, Free
    <2>2. CASE ExclWait(t)
      BY <1>i, <2>2 DEF IdleClean, WakeupPending, Inside, TypeOK, Words,
         Holders, Places, Place, ExclWait, Forget, Free
    <2> QED
      BY <2>1, <2>2
  <1> QED
    BY <1>1, <1>2, <1>3, <1>4, <1>5, <1>6 DEF IInv

\* A downgrade clears the holder.
LEMMA DowngradeClearStep ==
    ASSUME IInv, NEW t \in Threads, DowngradeClear(t)
    PROVE  IInv'
  <1>i. /\ TypeOK /\ IsFiniteSet(Counted) /\ HoldersCounted /\ CountSays
        /\ Modes /\ Recorded /\ Places /\ Requests /\ IdleClean /\ WakeupPending
    BY CountFacts DEF IInv
  <1>p. lk_lockholder = t /\ lk_count.excl /\ lk_count.cnt = 1
        /\ t # NULL /\ t # KERN
    BY <1>i, ConstantsAssumption DEF Modes, Places, Place, DowngradeClear
  <1>1. TypeOK'
    BY <1>i, <1>p DEF TypeOK, Words, Holders, PCs, Sleeping, DowngradeClear,
       GotoIf
  <1>2. IsFiniteSet(Counted') /\ HoldersCounted'
    BY <1>i, <1>p, <1>1, CountSame DEF InCall, TypeOK, Words, Holders,
       DowngradeClear, GotoIf
  <1>3. Modes' /\ Recorded'
    BY <1>i, <1>p DEF Modes, Recorded, TypeOK, Words, Holders, DowngradeClear,
       GotoIf, Places, Place, CountSays, InCall
  <1>4. Places'
    BY <1>i, <1>p DEF Places, Place, Between, Modes, Recorded, TypeOK, Words,
       Holders, DowngradeClear, GotoIf, CountSays, InCall
  <1>5. Requests'
    BY <1>i, <1>p DEF Requests, Between, Inside, UpgradeOwner, TypeOK, Words,
       Holders, DowngradeClear, GotoIf, CountSays, InCall
  <1>6. IdleClean' /\ WakeupPending'
    BY <1>i, <1>p DEF IdleClean, WakeupPending, Inside, TypeOK, Words, Holders,
       DowngradeClear, GotoIf
  <1> QED
    BY <1>1, <1>2, <1>3, <1>4, <1>5, <1>6 DEF IInv

\* The last exclusive release clears the holder.
LEMMA ReleaseExclStep ==
    ASSUME IInv, NEW t \in Threads, ReleaseExcl(t)
    PROVE  IInv'
  <1>i. /\ TypeOK /\ IsFiniteSet(Counted) /\ HoldersCounted /\ CountSays
        /\ Modes /\ Recorded /\ Places /\ Requests /\ IdleClean /\ WakeupPending
    BY CountFacts DEF IInv
  <1>p. lk_lockholder \in {t, KERN} /\ ~ lk_count.upreq
    BY <1>i DEF Places, Place, Requests, ReleaseExcl
  <1>1. TypeOK'
    BY <1>i, <1>p DEF TypeOK, Words, Holders, PCs, Sleeping, ReleaseExcl,
       GotoIf
  <1>2. IsFiniteSet(Counted') /\ HoldersCounted'
    BY <1>i, <1>p, <1>1, CountSame DEF InCall, TypeOK, Words, Holders,
       ReleaseExcl, GotoIf
  <1>3. Modes' /\ Recorded'
    BY <1>i, <1>p DEF Modes, Recorded, TypeOK, Words, Holders, ReleaseExcl,
       GotoIf, CountSays, InCall
  <1>4. Places'
    BY <1>i, <1>p DEF Places, Place, Between, Modes, Recorded, TypeOK, Words,
       Holders, ReleaseExcl, GotoIf, CountSays, InCall
  <1>5. Requests'
    BY <1>i, <1>p DEF Requests, Between, Inside, UpgradeOwner, TypeOK, Words,
       Holders, ReleaseExcl, GotoIf, CountSays, InCall
  <1>6. IdleClean' /\ WakeupPending'
    BY <1>i, <1>p DEF IdleClean, WakeupPending, Inside, TypeOK, Words, Holders,
       ReleaseExcl, GotoIf
  <1> QED
    BY <1>1, <1>2, <1>3, <1>4, <1>5, <1>6 DEF IInv

\* A comparison fails: the holder is put back.
LEMMA AgainStep ==
    ASSUME IInv, NEW t \in Threads, Again(t)
    PROVE  IInv'
  <1>i. /\ TypeOK /\ IsFiniteSet(Counted) /\ HoldersCounted /\ CountSays
        /\ Modes /\ Recorded /\ Places /\ Requests /\ IdleClean /\ WakeupPending
    BY CountFacts DEF IInv
  <1>1. TypeOK'
    BY <1>i DEF TypeOK, Words, Holders, PCs, Sleeping, Again, Forget, Free
  <1>2. IsFiniteSet(Counted') /\ HoldersCounted'
    BY <1>i, <1>1, CountSame DEF InCall, TypeOK, Words, Holders, Again, Forget,
       Free
  <1>3. Modes' /\ Recorded'
    BY <1>i DEF Modes, Recorded, TypeOK, Words, Holders, Again, Forget, Free,
       Places, Place, Between, CountSays, InCall
  <1>4. Places'
    BY <1>i DEF Places, Place, Between, Modes, Recorded, TypeOK, Words,
       Holders, Again, Forget, Free, CountSays, InCall
  <1>5. Requests'
    <2>1. pc[t] \in {"down", "rel_last"} => ~ lk_count.upgrant
      BY <1>i DEF CountSays, InCall, Places, Place, Between, TypeOK, Holders
    <2>2. /\ lk_count' = lk_count
          /\ lk_count.upgrant => lk_lockholder' = lk_lockholder
          /\ \A u \in Threads : pc'[u] \in UpgradeOwner <=> pc[u] \in UpgradeOwner
      BY <1>i, <2>1 DEF Again, UpgradeOwner, TypeOK
    <2> QED
      BY <1>i, <2>2 DEF Requests, Between, Inside
  <1>6. IdleClean' /\ WakeupPending'
    BY <1>i DEF IdleClean, WakeupPending, Inside, TypeOK, Words, Holders,
       Again, Forget, Free
  <1> QED
    BY <1>1, <1>2, <1>3, <1>4, <1>5, <1>6 DEF IInv

\* A shared count is granted.
LEMMA SharedGrantStep ==
    ASSUME IInv, NEW t \in Threads, SharedGrant(t)
    PROVE  IInv'
  <1>i. /\ TypeOK /\ IsFiniteSet(Counted) /\ HoldersCounted /\ CountSays
        /\ Modes /\ Recorded /\ Places /\ Requests /\ IdleClean /\ WakeupPending
    BY CountFacts DEF IInv
  <1>1. TypeOK'
    BY <1>i DEF TypeOK, Words, Holders, PCs, Sleeping, SharedGrant, Contended,
       SharedBlocked
  <1>2. IsFiniteSet(Counted') /\ HoldersCounted'
    <2>1. /\ t \in Holders /\ (ex'[t] + sh'[t]) - (ex[t] + sh[t]) = 1
          /\ \A g \in Holders \ {t} : ex'[g] + sh'[g] = ex[g] + sh[g]
      BY <1>i DEF TypeOK, Holders, SharedGrant
    <2>2. /\ \A u \in Threads \ {t} : pc'[u] \in InCall <=> pc[u] \in InCall
          /\ pc[t] \notin InCall /\ pc'[t] \notin InCall
      BY <1>i DEF InCall, TypeOK, SharedGrant
    <2>3. /\ lk_count'.cnt = lk_count.cnt + 1 /\ lk_count.cnt \in Nat
          /\ lk_count'.upgrant = lk_count.upgrant
      BY <1>i DEF TypeOK, Words, SharedGrant
    <2>4. lk_count'.cnt = lk_count.cnt + (1)
                   + (One(pc'[t] \in InCall) - One(pc[t] \in InCall))
                   + (One(lk_count'.upgrant) - One(lk_count.upgrant))
      BY <2>2, <2>3 DEF One
    <2> QED
      BY <1>i, <1>1, <2>1, <2>2, <2>4, CountStep
  <1>3. Modes' /\ Recorded'
    BY <1>i DEF Modes, Recorded, TypeOK, Words, Holders, SharedGrant,
       Contended, SharedBlocked
  <1>4. Places'
    BY <1>i DEF Places, Place, Between, Modes, Recorded, TypeOK, Words,
       Holders, SharedGrant, Contended, SharedBlocked
  <1>5. Requests'
    BY <1>i DEF Requests, Between, Inside, UpgradeOwner, TypeOK, Words,
       Holders, SharedGrant, Contended, SharedBlocked
  <1>6. IdleClean' /\ WakeupPending'
    BY <1>i DEF IdleClean, WakeupPending, Inside, TypeOK, Words, Holders,
       SharedGrant, Contended, SharedBlocked
  <1> QED
    BY <1>1, <1>2, <1>3, <1>4, <1>5, <1>6 DEF IInv

\* The exclusive holder gets another count.
LEMMA RecurseStep ==
    ASSUME IInv, NEW t \in Threads, Recurse(t)
    PROVE  IInv'
  <1>i. /\ TypeOK /\ IsFiniteSet(Counted) /\ HoldersCounted /\ CountSays
        /\ Modes /\ Recorded /\ Places /\ Requests /\ IdleClean /\ WakeupPending
    BY CountFacts DEF IInv
  <1>p. lk_count.excl /\ lk_lockholder = t /\ t # NULL
    BY <1>i, ConstantsAssumption DEF Modes, Recurse
  <1>1. TypeOK'
    BY <1>i, <1>p DEF TypeOK, Words, Holders, PCs, Sleeping, Recurse, GotoIf
  <1>2. IsFiniteSet(Counted') /\ HoldersCounted'
    <2>1. /\ t \in Holders /\ (ex'[t] + sh'[t]) - (ex[t] + sh[t]) = 1
          /\ \A g \in Holders \ {t} : ex'[g] + sh'[g] = ex[g] + sh[g]
      BY <1>i, <1>p DEF TypeOK, Holders, Recurse, GotoIf
    <2>2. /\ \A u \in Threads \ {t} : pc'[u] \in InCall <=> pc[u] \in InCall
          /\ pc[t] \notin InCall /\ pc'[t] \notin InCall
      BY <1>i, <1>p DEF InCall, TypeOK, Recurse, GotoIf
    <2>3. /\ lk_count'.cnt = lk_count.cnt + 1 /\ lk_count.cnt \in Nat
          /\ lk_count'.upgrant = lk_count.upgrant
      BY <1>i, <1>p DEF TypeOK, Words, Recurse, GotoIf
    <2>4. lk_count'.cnt = lk_count.cnt + (1)
                   + (One(pc'[t] \in InCall) - One(pc[t] \in InCall))
                   + (One(lk_count'.upgrant) - One(lk_count.upgrant))
      BY <2>2, <2>3 DEF One
    <2> QED
      BY <1>i, <1>1, <2>1, <2>2, <2>4, CountStep
  <1>3. Modes' /\ Recorded'
    BY <1>i, <1>p DEF Modes, Recorded, TypeOK, Words, Holders, Recurse, GotoIf
  <1>4. Places'
    BY <1>i, <1>p DEF Places, Place, Between, Modes, Recorded, TypeOK, Words,
       Holders, Recurse, GotoIf, CountSays, InCall
  <1>5. Requests'
    BY <1>i, <1>p DEF Requests, Between, Inside, UpgradeOwner, TypeOK, Words,
       Holders, Recurse, GotoIf
  <1>6. IdleClean' /\ WakeupPending'
    BY <1>i, <1>p DEF IdleClean, WakeupPending, Inside, TypeOK, Words, Holders,
       Recurse, GotoIf
  <1> QED
    BY <1>1, <1>2, <1>3, <1>4, <1>5, <1>6 DEF IInv

\* A free lock is taken exclusively.
LEMMA ExclGrantStep ==
    ASSUME IInv, NEW t \in Threads, ExclGrant(t)
    PROVE  IInv'
  <1>i. /\ TypeOK /\ IsFiniteSet(Counted) /\ HoldersCounted /\ CountSays
        /\ Modes /\ Recorded /\ Places /\ Requests /\ IdleClean /\ WakeupPending
    BY CountFacts DEF IInv
  <1>1. TypeOK'
    BY <1>i DEF TypeOK, Words, Holders, PCs, Sleeping, ExclGrant, Free
  <1>2. IsFiniteSet(Counted') /\ HoldersCounted'
    <2>1. /\ t \in Holders /\ (ex'[t] + sh'[t]) - (ex[t] + sh[t]) = 0
          /\ \A g \in Holders \ {t} : ex'[g] + sh'[g] = ex[g] + sh[g]
      BY <1>i DEF TypeOK, Holders, ExclGrant, Free
    <2>2. /\ \A u \in Threads \ {t} : pc'[u] \in InCall <=> pc[u] \in InCall
          /\ pc[t] \notin InCall /\ pc'[t] \in InCall
      BY <1>i DEF InCall, TypeOK, ExclGrant, Free
    <2>3. /\ lk_count'.cnt = lk_count.cnt + 1 /\ lk_count.cnt \in Nat
          /\ lk_count'.upgrant = lk_count.upgrant
      BY <1>i DEF TypeOK, Words, ExclGrant, Free
    <2>4. lk_count'.cnt = lk_count.cnt + 0
                   + (One(pc'[t] \in InCall) - One(pc[t] \in InCall))
                   + (One(lk_count'.upgrant) - One(lk_count.upgrant))
      BY <2>2, <2>3 DEF One
    <2> QED
      BY <1>i, <1>1, <2>1, <2>2, <2>4, CountStep
  <1>3. Modes' /\ Recorded'
    BY <1>i DEF Modes, Recorded, TypeOK, Words, Holders, ExclGrant, Free,
       CountSays
  <1>4. Places'
    BY <1>i DEF Places, Place, Between, Modes, Recorded, TypeOK, Words,
       Holders, ExclGrant, Free, CountSays, InCall
  <1>5. Requests'
    BY <1>i DEF Requests, Between, Inside, UpgradeOwner, TypeOK, Words,
       Holders, ExclGrant, Free, Modes, CountSays
  <1>6. IdleClean' /\ WakeupPending'
    BY <1>i DEF IdleClean, WakeupPending, Inside, TypeOK, Words, Holders,
       ExclGrant, Free, CountSays
  <1> QED
    BY <1>1, <1>2, <1>3, <1>4, <1>5, <1>6 DEF IInv

\* The new owner records itself and returns.
LEMMA SetHolderStep ==
    ASSUME IInv, NEW t \in Threads, SetHolder(t)
    PROVE  IInv'
  <1>i. /\ TypeOK /\ IsFiniteSet(Counted) /\ HoldersCounted /\ CountSays
        /\ Modes /\ Recorded /\ Places /\ Requests /\ IdleClean /\ WakeupPending
    BY CountFacts DEF IInv
  <1>1. TypeOK'
    BY <1>i DEF TypeOK, Words, Holders, PCs, Sleeping, SetHolder
  <1>2. IsFiniteSet(Counted') /\ HoldersCounted'
    <2>1. /\ t \in Holders /\ (ex'[t] + sh'[t]) - (ex[t] + sh[t]) = 1
          /\ \A g \in Holders \ {t} : ex'[g] + sh'[g] = ex[g] + sh[g]
      BY <1>i DEF TypeOK, Holders, SetHolder
    <2>2. /\ \A u \in Threads \ {t} : pc'[u] \in InCall <=> pc[u] \in InCall
          /\ pc[t] \in InCall /\ pc'[t] \notin InCall
      BY <1>i DEF InCall, TypeOK, SetHolder
    <2>3. /\ lk_count'.cnt = lk_count.cnt /\ lk_count.cnt \in Nat
          /\ lk_count'.upgrant = lk_count.upgrant
      BY <1>i DEF TypeOK, Words, SetHolder
    <2>4. lk_count'.cnt = lk_count.cnt + (1)
                   + (One(pc'[t] \in InCall) - One(pc[t] \in InCall))
                   + (One(lk_count'.upgrant) - One(lk_count.upgrant))
      BY <2>2, <2>3 DEF One
    <2> QED
      BY <1>i, <1>1, <2>1, <2>2, <2>4, CountStep
  <1>3. Modes' /\ Recorded'
    BY <1>i DEF Modes, Recorded, TypeOK, Words, Holders, SetHolder, Places,
       Place, Between, CountSays, InCall
  <1>4. Places'
    BY <1>i DEF Places, Place, Between, Modes, Recorded, TypeOK, Words,
       Holders, SetHolder, CountSays, InCall
  <1>5. Requests'
    BY <1>i DEF Requests, Between, Inside, UpgradeOwner, TypeOK, Words,
       Holders, SetHolder, CountSays, InCall, Places, Place
  <1>6. IdleClean' /\ WakeupPending'
    BY <1>i DEF IdleClean, WakeupPending, Inside, TypeOK, Words, Holders,
       SetHolder
  <1> QED
    BY <1>1, <1>2, <1>3, <1>4, <1>5, <1>6 DEF IInv

\* A downgrade clears LKC_EXCL.
LEMMA DowngradeDoneStep ==
    ASSUME IInv, NEW t \in Threads, DowngradeDone(t)
    PROVE  IInv'
  <1>i. /\ TypeOK /\ IsFiniteSet(Counted) /\ HoldersCounted /\ CountSays
        /\ Modes /\ Recorded /\ Places /\ Requests /\ IdleClean /\ WakeupPending
    BY CountFacts DEF IInv
  <1>p. sh[t] + ex[t] \in Nat
    BY <1>i DEF TypeOK, Holders
  <1>1. TypeOK'
    BY <1>i, <1>p DEF TypeOK, Words, Holders, PCs, Sleeping, DowngradeDone,
       Forget, Free
  <1>2. IsFiniteSet(Counted') /\ HoldersCounted'
    BY <1>i, <1>p, <1>1, CountSame DEF InCall, TypeOK, Words, Holders,
       DowngradeDone, Forget, Free
  <1>3. Modes' /\ Recorded'
    BY <1>i, <1>p DEF Modes, Recorded, TypeOK, Words, Holders, DowngradeDone,
       Forget, Free, Places, Place, Between, CountSays
  <1>4. Places'
    BY <1>i, <1>p DEF Places, Place, Between, Modes, Recorded, TypeOK, Words,
       Holders, DowngradeDone, Forget, Free, CountSays, InCall
  <1>5. Requests'
    BY <1>i, <1>p DEF Requests, Between, Inside, UpgradeOwner, TypeOK, Words,
       Holders, DowngradeDone, Forget, Free, Places, Place, CountSays, InCall,
       Modes
  <1>6. IdleClean' /\ WakeupPending'
    BY <1>i, <1>p DEF IdleClean, WakeupPending, Inside, TypeOK, Words, Holders,
       DowngradeDone, Forget, Free, Places, Place, Between
  <1> QED
    BY <1>1, <1>2, <1>3, <1>4, <1>5, <1>6 DEF IInv

\* An upgrade that may not wait gives up its shared count ...
LEMMA UpgradeAheadStep ==
    ASSUME IInv, NEW t \in Threads, UpgradeAhead(t)
    PROVE  IInv'
  <1>i. /\ TypeOK /\ IsFiniteSet(Counted) /\ HoldersCounted /\ CountSays
        /\ Modes /\ Recorded /\ Places /\ Requests /\ IdleClean /\ WakeupPending
    BY CountFacts DEF IInv
  <1>p. /\ sh[t] = 1 /\ ~ lk_count.excl /\ t \in Holders
        /\ [sh EXCEPT ![t] = @ - 1] \in [Holders -> Nat]
    BY SharedUpgrader
  <1>1. TypeOK'
    BY <1>i, <1>p DEF TypeOK, Words, Holders, PCs, Sleeping, UpgradeAhead
  <1>2. IsFiniteSet(Counted') /\ HoldersCounted'
    <2>1. /\ t \in Holders /\ (ex'[t] + sh'[t]) - (ex[t] + sh[t]) = -1
          /\ \A g \in Holders \ {t} : ex'[g] + sh'[g] = ex[g] + sh[g]
      BY <1>i, <1>p DEF TypeOK, Holders, UpgradeAhead
    <2>2. /\ \A u \in Threads \ {t} : pc'[u] \in InCall <=> pc[u] \in InCall
          /\ pc[t] \notin InCall /\ pc'[t] \in InCall
      BY <1>i, <1>p DEF InCall, TypeOK, UpgradeAhead
    <2>3. /\ lk_count'.cnt = lk_count.cnt /\ lk_count.cnt \in Nat
          /\ lk_count'.upgrant = lk_count.upgrant
      BY <1>i, <1>p DEF TypeOK, Words, UpgradeAhead
    <2>4. lk_count'.cnt = lk_count.cnt + (-1)
                   + (One(pc'[t] \in InCall) - One(pc[t] \in InCall))
                   + (One(lk_count'.upgrant) - One(lk_count.upgrant))
      BY <2>2, <2>3 DEF One
    <2> QED
      BY <1>i, <1>1, <2>1, <2>2, <2>4, CountStep
  <1>3. Modes' /\ Recorded'
    BY <1>i, <1>p DEF Modes, Recorded, TypeOK, Words, Holders, UpgradeAhead
  <1>4. Places'
    BY <1>i, <1>p DEF Places, Place, Between, Modes, Recorded, TypeOK, Words,
       Holders, UpgradeAhead
  <1>5. Requests'
    BY <1>i, <1>p DEF Requests, Between, Inside, UpgradeOwner, TypeOK, Words,
       Holders, UpgradeAhead
  <1>6. IdleClean' /\ WakeupPending'
    BY <1>i, <1>p DEF IdleClean, WakeupPending, Inside, TypeOK, Words, Holders,
       UpgradeAhead
  <1> QED
    BY <1>1, <1>2, <1>3, <1>4, <1>5, <1>6 DEF IInv

\* ... whether or not another one is ahead.
LEMMA UpgradeNowaitStep ==
    ASSUME IInv, NEW t \in Threads, UpgradeNowait(t)
    PROVE  IInv'
  <1>i. /\ TypeOK /\ IsFiniteSet(Counted) /\ HoldersCounted /\ CountSays
        /\ Modes /\ Recorded /\ Places /\ Requests /\ IdleClean /\ WakeupPending
    BY CountFacts DEF IInv
  <1>p. /\ sh[t] = 1 /\ ~ lk_count.excl /\ t \in Holders
        /\ [sh EXCEPT ![t] = @ - 1] \in [Holders -> Nat]
    BY SharedUpgrader
  <1>1. TypeOK'
    BY <1>i, <1>p DEF TypeOK, Words, Holders, PCs, Sleeping, UpgradeNowait,
       Upgrading, UpgradeBlocked
  <1>2. IsFiniteSet(Counted') /\ HoldersCounted'
    <2>1. /\ t \in Holders /\ (ex'[t] + sh'[t]) - (ex[t] + sh[t]) = -1
          /\ \A g \in Holders \ {t} : ex'[g] + sh'[g] = ex[g] + sh[g]
      BY <1>i, <1>p DEF TypeOK, Holders, UpgradeNowait, Upgrading,
         UpgradeBlocked
    <2>2. /\ \A u \in Threads \ {t} : pc'[u] \in InCall <=> pc[u] \in InCall
          /\ pc[t] \notin InCall /\ pc'[t] \in InCall
      BY <1>i, <1>p DEF InCall, TypeOK, UpgradeNowait, Upgrading,
         UpgradeBlocked
    <2>3. /\ lk_count'.cnt = lk_count.cnt /\ lk_count.cnt \in Nat
          /\ lk_count'.upgrant = lk_count.upgrant
      BY <1>i, <1>p DEF TypeOK, Words, UpgradeNowait, Upgrading, UpgradeBlocked
    <2>4. lk_count'.cnt = lk_count.cnt + (-1)
                   + (One(pc'[t] \in InCall) - One(pc[t] \in InCall))
                   + (One(lk_count'.upgrant) - One(lk_count.upgrant))
      BY <2>2, <2>3 DEF One
    <2> QED
      BY <1>i, <1>1, <2>1, <2>2, <2>4, CountStep
  <1>3. Modes' /\ Recorded'
    BY <1>i, <1>p DEF Modes, Recorded, TypeOK, Words, Holders, UpgradeNowait,
       Upgrading, UpgradeBlocked
  <1>4. Places'
    BY <1>i, <1>p DEF Places, Place, Between, Modes, Recorded, TypeOK, Words,
       Holders, UpgradeNowait, Upgrading, UpgradeBlocked
  <1>5. Requests'
    BY <1>i, <1>p DEF Requests, Between, Inside, UpgradeOwner, TypeOK, Words,
       Holders, UpgradeNowait, Upgrading, UpgradeBlocked
  <1>6. IdleClean' /\ WakeupPending'
    BY <1>i, <1>p DEF IdleClean, WakeupPending, Inside, TypeOK, Words, Holders,
       UpgradeNowait, Upgrading, UpgradeBlocked
  <1> QED
    BY <1>1, <1>2, <1>3, <1>4, <1>5, <1>6 DEF IInv

\* The only shared holder becomes the exclusive one.
LEMMA UpgradeSoleStep ==
    ASSUME IInv, NEW t \in Threads, UpgradeSole(t)
    PROVE  IInv'
  <1>i. /\ TypeOK /\ IsFiniteSet(Counted) /\ HoldersCounted /\ CountSays
        /\ Modes /\ Recorded /\ Places /\ Requests /\ IdleClean /\ WakeupPending
    BY CountFacts DEF IInv
  <1>p. /\ sh[t] = 1 /\ ~ lk_count.excl /\ t \in Holders
        /\ [sh EXCEPT ![t] = @ - 1] \in [Holders -> Nat]
    BY SharedUpgrader
  <1>1. TypeOK'
    BY <1>i, <1>p DEF TypeOK, Words, Holders, PCs, Sleeping, UpgradeSole,
       Upgrading
  <1>2. IsFiniteSet(Counted') /\ HoldersCounted'
    <2>1. /\ t \in Holders /\ (ex'[t] + sh'[t]) - (ex[t] + sh[t]) = -1
          /\ \A g \in Holders \ {t} : ex'[g] + sh'[g] = ex[g] + sh[g]
      BY <1>i, <1>p DEF TypeOK, Holders, UpgradeSole, Upgrading
    <2>2. /\ \A u \in Threads \ {t} : pc'[u] \in InCall <=> pc[u] \in InCall
          /\ pc[t] \notin InCall /\ pc'[t] \in InCall
      BY <1>i, <1>p DEF InCall, TypeOK, UpgradeSole, Upgrading
    <2>3. /\ lk_count'.cnt = lk_count.cnt /\ lk_count.cnt \in Nat
          /\ lk_count'.upgrant = lk_count.upgrant
      BY <1>i, <1>p DEF TypeOK, Words, UpgradeSole, Upgrading
    <2>4. lk_count'.cnt = lk_count.cnt + (-1)
                   + (One(pc'[t] \in InCall) - One(pc[t] \in InCall))
                   + (One(lk_count'.upgrant) - One(lk_count.upgrant))
      BY <2>2, <2>3 DEF One
    <2> QED
      BY <1>i, <1>1, <2>1, <2>2, <2>4, CountStep
  <1>3. Modes' /\ Recorded'
    BY <1>i, <1>p DEF Modes, Recorded, TypeOK, Words, Holders, UpgradeSole,
       Upgrading, CountSays
  <1>4. Places'
    BY <1>i, <1>p DEF Places, Place, Between, Modes, Recorded, TypeOK, Words,
       Holders, UpgradeSole, Upgrading, CountSays, InCall
  <1>5. Requests'
    BY <1>i, <1>p DEF Requests, Between, Inside, UpgradeOwner, TypeOK, Words,
       Holders, UpgradeSole, Upgrading, CountSays, Modes
  <1>6. IdleClean' /\ WakeupPending'
    BY <1>i, <1>p DEF IdleClean, WakeupPending, Inside, TypeOK, Words, Holders,
       UpgradeSole, Upgrading
  <1> QED
    BY <1>1, <1>2, <1>3, <1>4, <1>5, <1>6 DEF IInv

\* An upgrade leaves its count to the others and asks for the grant.
LEMMA UpgradeRequestStep ==
    ASSUME IInv, NEW t \in Threads, UpgradeRequest(t)
    PROVE  IInv'
  <1>i. /\ TypeOK /\ IsFiniteSet(Counted) /\ HoldersCounted /\ CountSays
        /\ Modes /\ Recorded /\ Places /\ Requests /\ IdleClean /\ WakeupPending
    BY CountFacts DEF IInv
  <1>p. /\ sh[t] = 1 /\ ~ lk_count.excl /\ t \in Holders
        /\ [sh EXCEPT ![t] = @ - 1] \in [Holders -> Nat]
        /\ lk_count.cnt - 1 \in Nat
    BY SharedUpgrader
  <1>1. TypeOK'
    BY <1>i, <1>p DEF TypeOK, Words, Holders, PCs, Sleeping, UpgradeRequest,
       UpgradeTo, Forget, Free
  <1>2. IsFiniteSet(Counted') /\ HoldersCounted'
    <2>1. /\ t \in Holders /\ (ex'[t] + sh'[t]) - (ex[t] + sh[t]) = -1
          /\ \A g \in Holders \ {t} : ex'[g] + sh'[g] = ex[g] + sh[g]
      BY <1>i, <1>p DEF TypeOK, Holders, UpgradeRequest, UpgradeTo
    <2>2. /\ \A u \in Threads \ {t} : pc'[u] \in InCall <=> pc[u] \in InCall
          /\ pc[t] \notin InCall /\ pc'[t] \notin InCall
      BY <1>i, <1>p DEF InCall, TypeOK, UpgradeRequest, UpgradeTo
    <2>3. /\ lk_count'.cnt = lk_count.cnt - 1 /\ lk_count.cnt \in Nat
          /\ lk_count'.upgrant = lk_count.upgrant
      BY <1>i, <1>p DEF TypeOK, Words, UpgradeRequest, UpgradeTo
    <2>4. lk_count'.cnt = lk_count.cnt + (-1)
                   + (One(pc'[t] \in InCall) - One(pc[t] \in InCall))
                   + (One(lk_count'.upgrant) - One(lk_count.upgrant))
      BY <2>2, <2>3 DEF One
    <2> QED
      BY <1>i, <1>1, <2>1, <2>2, <2>4, CountStep
  <1>3. Modes' /\ Recorded'
    BY <1>i, <1>p DEF Modes, Recorded, TypeOK, Words, Holders, UpgradeRequest,
       UpgradeTo, Forget, Free
  <1>4. Places'
    BY <1>i, <1>p DEF Places, Place, Between, Modes, Recorded, TypeOK, Words,
       Holders, UpgradeRequest, UpgradeTo, Forget, Free, CountSays, InCall
  <1>5. Requests'
    BY <1>i, <1>p DEF Requests, Between, Inside, UpgradeOwner, TypeOK, Words,
       Holders, UpgradeRequest, UpgradeTo, Forget, Free, CountSays, Modes,
       Places, Place
  <1>6. IdleClean' /\ WakeupPending'
    BY <1>i, <1>p DEF IdleClean, WakeupPending, Inside, TypeOK, Words, Holders,
       UpgradeRequest, UpgradeTo, Forget, Free, Places, Place
  <1> QED
    BY <1>1, <1>2, <1>3, <1>4, <1>5, <1>6 DEF IInv

\* An upgrade that comes second asks for an exclusive lock.
LEMMA UpgradeYieldStep ==
    ASSUME IInv, NEW t \in Threads, UpgradeYield(t)
    PROVE  IInv'
  <1>i. /\ TypeOK /\ IsFiniteSet(Counted) /\ HoldersCounted /\ CountSays
        /\ Modes /\ Recorded /\ Places /\ Requests /\ IdleClean /\ WakeupPending
    BY CountFacts DEF IInv
  <1>p. /\ sh[t] = 1 /\ ~ lk_count.excl /\ t \in Holders
        /\ [sh EXCEPT ![t] = @ - 1] \in [Holders -> Nat]
        /\ lk_count.cnt - 1 \in Nat
    BY SharedUpgrader
  <1>1. TypeOK'
    BY <1>i, <1>p DEF TypeOK, Words, Holders, PCs, Sleeping, UpgradeYield,
       UpgradeTo, Forget, Free
  <1>2. IsFiniteSet(Counted') /\ HoldersCounted'
    <2>1. /\ t \in Holders /\ (ex'[t] + sh'[t]) - (ex[t] + sh[t]) = -1
          /\ \A g \in Holders \ {t} : ex'[g] + sh'[g] = ex[g] + sh[g]
      BY <1>i, <1>p DEF TypeOK, Holders, UpgradeYield, UpgradeTo
    <2>2. /\ \A u \in Threads \ {t} : pc'[u] \in InCall <=> pc[u] \in InCall
          /\ pc[t] \notin InCall /\ pc'[t] \notin InCall
      BY <1>i, <1>p DEF InCall, TypeOK, UpgradeYield, UpgradeTo
    <2>3. /\ lk_count'.cnt = lk_count.cnt - 1 /\ lk_count.cnt \in Nat
          /\ lk_count'.upgrant = lk_count.upgrant
      BY <1>i, <1>p DEF TypeOK, Words, UpgradeYield, UpgradeTo
    <2>4. lk_count'.cnt = lk_count.cnt + (-1)
                   + (One(pc'[t] \in InCall) - One(pc[t] \in InCall))
                   + (One(lk_count'.upgrant) - One(lk_count.upgrant))
      BY <2>2, <2>3 DEF One
    <2> QED
      BY <1>i, <1>1, <2>1, <2>2, <2>4, CountStep
  <1>3. Modes' /\ Recorded'
    BY <1>i, <1>p DEF Modes, Recorded, TypeOK, Words, Holders, UpgradeYield,
       UpgradeTo, Forget, Free
  <1>4. Places'
    BY <1>i, <1>p DEF Places, Place, Between, Modes, Recorded, TypeOK, Words,
       Holders, UpgradeYield, UpgradeTo, Forget, Free, CountSays, InCall
  <1>5. Requests'
    BY <1>i, <1>p DEF Requests, Between, Inside, UpgradeOwner, TypeOK, Words,
       Holders, UpgradeYield, UpgradeTo, Forget, Free, CountSays, Modes,
       Places, Place
  <1>6. IdleClean' /\ WakeupPending'
    BY <1>i, <1>p DEF IdleClean, WakeupPending, Inside, TypeOK, Words, Holders,
       UpgradeYield, UpgradeTo, Forget, Free, Places, Place
  <1> QED
    BY <1>1, <1>2, <1>3, <1>4, <1>5, <1>6 DEF IInv

\* An upgrade that comes second with the last count grants the first one.
LEMMA UpgradeGrantStep ==
    ASSUME IInv, NEW t \in Threads, UpgradeGrant(t)
    PROVE  IInv'
  <1>i. /\ TypeOK /\ IsFiniteSet(Counted) /\ HoldersCounted /\ CountSays
        /\ Modes /\ Recorded /\ Places /\ Requests /\ IdleClean /\ WakeupPending
    BY CountFacts DEF IInv
  <1>p. /\ sh[t] = 1 /\ ~ lk_count.excl /\ t \in Holders
        /\ [sh EXCEPT ![t] = @ - 1] \in [Holders -> Nat]
    BY SharedUpgrader
  <1>1. TypeOK'
    BY <1>i, <1>p DEF TypeOK, Words, Holders, PCs, Sleeping, UpgradeGrant,
       UpgradeTo, Forget, Free
  <1>2. IsFiniteSet(Counted') /\ HoldersCounted'
    <2>1. /\ t \in Holders /\ (ex'[t] + sh'[t]) - (ex[t] + sh[t]) = -1
          /\ \A g \in Holders \ {t} : ex'[g] + sh'[g] = ex[g] + sh[g]
      BY <1>i, <1>p DEF TypeOK, Holders, UpgradeGrant, UpgradeTo
    <2>2. /\ \A u \in Threads \ {t} : pc'[u] \in InCall <=> pc[u] \in InCall
          /\ pc[t] \notin InCall /\ pc'[t] \notin InCall
      BY <1>i, <1>p DEF InCall, TypeOK, UpgradeGrant, UpgradeTo
    <2>3. /\ lk_count'.cnt = lk_count.cnt /\ lk_count.cnt \in Nat
          /\ ~ lk_count.upgrant /\ lk_count'.upgrant
      BY <1>i, <1>p DEF TypeOK, Words, UpgradeGrant, UpgradeTo, Modes
    <2>4. lk_count'.cnt = lk_count.cnt + (-1)
                   + (One(pc'[t] \in InCall) - One(pc[t] \in InCall))
                   + (One(lk_count'.upgrant) - One(lk_count.upgrant))
      BY <2>2, <2>3 DEF One
    <2> QED
      BY <1>i, <1>1, <2>1, <2>2, <2>4, CountStep
  <1>3. Modes' /\ Recorded'
    BY <1>i, <1>p DEF Modes, Recorded, TypeOK, Words, Holders, UpgradeGrant,
       UpgradeTo, Forget, Free, CountSays
  <1>4. Places'
    BY <1>i, <1>p DEF Places, Place, Between, Modes, Recorded, TypeOK, Words,
       Holders, UpgradeGrant, UpgradeTo, Forget, Free, CountSays, InCall
  <1>5. Requests'
    BY <1>i, <1>p DEF Requests, Between, Inside, UpgradeOwner, TypeOK, Words,
       Holders, UpgradeGrant, UpgradeTo, Forget, Free, CountSays, Modes
  <1>6. IdleClean' /\ WakeupPending'
    BY <1>i, <1>p DEF IdleClean, WakeupPending, Inside, TypeOK, Words, Holders,
       UpgradeGrant, UpgradeTo, Forget, Free
  <1> QED
    BY <1>1, <1>2, <1>3, <1>4, <1>5, <1>6 DEF IInv

\* The last shared release grants the upgrade.
LEMMA ReleaseGrantStep ==
    ASSUME IInv, NEW t \in Threads, ReleaseGrant(t)
    PROVE  IInv'
  <1>i. /\ TypeOK /\ IsFiniteSet(Counted) /\ HoldersCounted /\ CountSays
        /\ Modes /\ Recorded /\ Places /\ Requests /\ IdleClean /\ WakeupPending
    BY CountFacts DEF IInv
  <1>1. TypeOK'
    BY <1>i DEF TypeOK, Words, Holders, PCs, Sleeping, ReleaseGrant
  <1>2. IsFiniteSet(Counted') /\ HoldersCounted'
    <2>1. /\ t \in Holders /\ (ex'[t] + sh'[t]) - (ex[t] + sh[t]) = 0
          /\ \A g \in Holders \ {t} : ex'[g] + sh'[g] = ex[g] + sh[g]
      BY <1>i DEF TypeOK, Holders, ReleaseGrant
    <2>2. /\ \A u \in Threads \ {t} : pc'[u] \in InCall <=> pc[u] \in InCall
          /\ pc[t] \in InCall /\ pc'[t] \notin InCall
      BY <1>i DEF InCall, TypeOK, ReleaseGrant
    <2>3. /\ lk_count'.cnt = lk_count.cnt /\ lk_count.cnt \in Nat
          /\ ~ lk_count.upgrant /\ lk_count'.upgrant
      BY <1>i DEF TypeOK, Words, ReleaseGrant, Modes
    <2>4. lk_count'.cnt = lk_count.cnt + 0
                   + (One(pc'[t] \in InCall) - One(pc[t] \in InCall))
                   + (One(lk_count'.upgrant) - One(lk_count.upgrant))
      BY <2>2, <2>3 DEF One
    <2> QED
      BY <1>i, <1>1, <2>1, <2>2, <2>4, CountStep
  <1>3. Modes' /\ Recorded'
    BY <1>i DEF Modes, Recorded, TypeOK, Words, Holders, ReleaseGrant,
       CountSays, InCall
  <1>4. Places'
    BY <1>i DEF Places, Place, Between, Modes, Recorded, TypeOK, Words,
       Holders, ReleaseGrant, CountSays, InCall
  <1>5. Requests'
    BY <1>i DEF Requests, Between, Inside, UpgradeOwner, TypeOK, Words,
       Holders, ReleaseGrant, CountSays, Modes
  <1>6. IdleClean' /\ WakeupPending'
    BY <1>i DEF IdleClean, WakeupPending, Inside, TypeOK, Words, Holders,
       ReleaseGrant
  <1> QED
    BY <1>1, <1>2, <1>3, <1>4, <1>5, <1>6 DEF IInv

\* The upgrader takes the grant.
LEMMA GrantedStep ==
    ASSUME IInv, NEW t \in Threads, Granted(t)
    PROVE  IInv'
  <1>i. /\ TypeOK /\ IsFiniteSet(Counted) /\ HoldersCounted /\ CountSays
        /\ Modes /\ Recorded /\ Places /\ Requests /\ IdleClean /\ WakeupPending
    BY CountFacts DEF IInv
  <1>g. pc' = [pc EXCEPT ![t] = "owner"]
    BY <1>i DEF Requests, Between, Granted, GotoIf
  <1>1. TypeOK'
    BY <1>i, <1>g DEF TypeOK, Words, Holders, PCs, Sleeping, Granted
  <1>2. IsFiniteSet(Counted') /\ HoldersCounted'
    <2>1. /\ t \in Holders /\ (ex'[t] + sh'[t]) - (ex[t] + sh[t]) = 0
          /\ \A g \in Holders \ {t} : ex'[g] + sh'[g] = ex[g] + sh[g]
      BY <1>i, <1>g DEF TypeOK, Holders, Granted
    <2>2. /\ \A u \in Threads \ {t} : pc'[u] \in InCall <=> pc[u] \in InCall
          /\ pc[t] \notin InCall /\ pc'[t] \in InCall
      BY <1>i, <1>g DEF InCall, TypeOK, Granted
    <2>3. /\ lk_count'.cnt = lk_count.cnt /\ lk_count.cnt \in Nat
          /\ lk_count.upgrant /\ ~ lk_count'.upgrant
      BY <1>i, <1>g DEF TypeOK, Words, Granted, Modes
    <2>4. lk_count'.cnt = lk_count.cnt + 0
                   + (One(pc'[t] \in InCall) - One(pc[t] \in InCall))
                   + (One(lk_count'.upgrant) - One(lk_count.upgrant))
      BY <2>2, <2>3 DEF One
    <2> QED
      BY <1>i, <1>1, <2>1, <2>2, <2>4, CountStep
  <1>3. Modes' /\ Recorded'
    BY <1>i, <1>g DEF Modes, Recorded, TypeOK, Words, Holders, Granted
  <1>4. Places'
    BY <1>i, <1>g DEF Places, Place, Between, Modes, Recorded, TypeOK, Words,
       Holders, Granted, CountSays, InCall, Requests
  <1>5. Requests'
    BY <1>i, <1>g DEF Requests, Between, Inside, UpgradeOwner, TypeOK, Words,
       Holders, Granted, CountSays, Modes
  <1>6. IdleClean' /\ WakeupPending'
    BY <1>i, <1>g DEF IdleClean, WakeupPending, Inside, TypeOK, Words, Holders,
       Granted, Requests, UpgradeOwner, Between
  <1> QED
    BY <1>1, <1>2, <1>3, <1>4, <1>5, <1>6 DEF IInv

\* A caller begins to release what it, or the kernel, holds.
LEMMA UnlockStep ==
    ASSUME IInv, NEW t \in Threads, Unlock(t)
    PROVE  IInv'
  <1>i. /\ TypeOK /\ IsFiniteSet(Counted) /\ HoldersCounted /\ CountSays
        /\ Modes /\ Recorded /\ Places /\ Requests /\ IdleClean /\ WakeupPending
    BY CountFacts DEF IInv
  <1>a. PICK h \in {t, KERN} :
           \/ ex[h] > 0 /\ ex' = [ex EXCEPT ![h] = @ - 1] /\ sh' = sh
           \/ h = t /\ sh[h] > 0 /\ sh' = [sh EXCEPT ![h] = @ - 1] /\ ex' = ex
    BY DEF Unlock
  <1>b. /\ h \in Holders /\ ex \in [Holders -> Nat] /\ sh \in [Holders -> Nat]
        /\ pc[t] = "idle" /\ pc' = [pc EXCEPT ![t] = "release"]
        /\ UNCHANGED <<lk_count, lk_lockholder, queue, count, otd>>
    BY <1>i DEF TypeOK, Holders, Unlock, Move, Goto, local
  <1>c. lk_count.excl => lk_lockholder = h
    BY <1>i, <1>a, <1>b DEF Modes, Recorded
  <1>d. /\ ex' \in [Holders -> Nat] /\ sh' \in [Holders -> Nat]
        /\ \A g \in Holders : ex'[g] <= ex[g] /\ sh'[g] <= sh[g]
        /\ \A g \in Holders \ {h} : ex'[g] = ex[g] /\ sh'[g] = sh[g]
    BY <1>a, <1>b
  <1>p. /\ h \in {t, KERN} /\ h \in Holders /\ lk_count.excl => lk_lockholder = h
        /\ ex \in [Holders -> Nat] /\ sh \in [Holders -> Nat]
        /\ ex' \in [Holders -> Nat] /\ sh' \in [Holders -> Nat]
        /\ \A g \in Holders : ex'[g] <= ex[g] /\ sh'[g] <= sh[g]
        /\ \A g \in Holders \ {h} : ex'[g] = ex[g] /\ sh'[g] = sh[g]
        /\ ex'[h] + sh'[h] = (ex[h] + sh[h]) - 1
        /\ pc[t] = "idle" /\ pc' = [pc EXCEPT ![t] = "release"]
        /\ UNCHANGED <<lk_count, lk_lockholder, queue, count, otd>>
    BY <1>a, <1>b, <1>c, <1>d
  <1>1. TypeOK'
    BY <1>i, <1>p DEF TypeOK, Words, Holders, PCs, Sleeping
  <1>2. IsFiniteSet(Counted') /\ HoldersCounted'
    <2>1. /\ h \in Holders /\ (ex'[h] + sh'[h]) - (ex[h] + sh[h]) = -1
          /\ \A g \in Holders \ {h} : ex'[g] + sh'[g] = ex[g] + sh[g]
      BY <1>i, <1>p DEF TypeOK, Holders
    <2>2. /\ \A u \in Threads \ {t} : pc'[u] \in InCall <=> pc[u] \in InCall
          /\ pc[t] \notin InCall /\ pc'[t] \in InCall
      BY <1>i, <1>p DEF InCall, TypeOK
    <2>3. /\ lk_count'.cnt = lk_count.cnt /\ lk_count.cnt \in Nat
          /\ lk_count'.upgrant = lk_count.upgrant
      BY <1>i, <1>p DEF TypeOK, Words
    <2>4. lk_count'.cnt = lk_count.cnt + (-1)
                   + (One(pc'[t] \in InCall) - One(pc[t] \in InCall))
                   + (One(lk_count'.upgrant) - One(lk_count.upgrant))
      BY <2>2, <2>3 DEF One
    <2> QED
      BY <1>i, <1>1, <2>1, <2>2, <2>4, CountStep
  <1>3. Modes' /\ Recorded'
    BY <1>i, <1>p DEF Modes, Recorded, TypeOK, Words, Holders
  <1>4. Places'
    BY <1>i, <1>p, ConstantsAssumption DEF Places, Place, Between, Modes,
       Recorded, TypeOK, Words, Holders
  <1>5. Requests'
    BY <1>i, <1>p DEF Requests, Between, Inside, UpgradeOwner, TypeOK, Words,
       Holders
  <1>6. IdleClean' /\ WakeupPending'
    BY <1>i, <1>p DEF IdleClean, WakeupPending, Inside, TypeOK, Words, Holders
  <1> QED
    BY <1>1, <1>2, <1>3, <1>4, <1>5, <1>6 DEF IInv

\* The last exclusive count is released ...
LEMMA ReleaseLastExclStep ==
    ASSUME IInv, NEW t \in Threads, ReleaseLastExcl(t)
    PROVE  IInv'
  <1>i. /\ TypeOK /\ IsFiniteSet(Counted) /\ HoldersCounted /\ CountSays
        /\ Modes /\ Recorded /\ Places /\ Requests /\ IdleClean /\ WakeupPending
    BY CountFacts DEF IInv
  <1>p. /\ lk_count.cnt = 1 /\ ~ lk_count.upgrant /\ ~ lk_count.upreq
        /\ lk_lockholder = NULL /\ lk_count.cnt - 1 = 0
        /\ \A h \in Holders : ex[h] = 0 /\ sh[h] = 0
        /\ \A u \in Threads \ {t} : pc[u] \notin InCall
    BY <1>i DEF TypeOK, Holders, Modes, CountSays, InCall, Places, Place,
                Between, Requests, ReleaseLastExcl
  <1>1. TypeOK'
    BY <1>i, <1>p DEF TypeOK, Words, Holders, PCs, Sleeping, ReleaseLastExcl,
       Forget, Free
  <1>2. IsFiniteSet(Counted') /\ HoldersCounted'
    <2>1. /\ t \in Holders /\ (ex'[t] + sh'[t]) - (ex[t] + sh[t]) = 0
          /\ \A g \in Holders \ {t} : ex'[g] + sh'[g] = ex[g] + sh[g]
      BY <1>i, <1>p DEF TypeOK, Holders, ReleaseLastExcl
    <2>2. /\ \A u \in Threads \ {t} : pc'[u] \in InCall <=> pc[u] \in InCall
          /\ pc[t] \in InCall /\ pc'[t] \notin InCall
      BY <1>i, <1>p DEF InCall, TypeOK, ReleaseLastExcl
    <2>3. /\ lk_count'.cnt = lk_count.cnt - 1 /\ lk_count.cnt \in Nat
          /\ lk_count'.upgrant = lk_count.upgrant
      BY <1>i, <1>p DEF TypeOK, Words, ReleaseLastExcl
    <2>4. lk_count'.cnt = lk_count.cnt + 0
                   + (One(pc'[t] \in InCall) - One(pc[t] \in InCall))
                   + (One(lk_count'.upgrant) - One(lk_count.upgrant))
      BY <2>2, <2>3 DEF One
    <2> QED
      BY <1>i, <1>1, <2>1, <2>2, <2>4, CountStep
  <1>3. Modes' /\ Recorded'
    BY <1>i, <1>p DEF Modes, Recorded, TypeOK, Words, Holders, ReleaseLastExcl,
       Forget, Free, InCall
  <1>4. Places'
    BY <1>i, <1>p DEF Places, Place, Between, Modes, Recorded, TypeOK, Words,
       Holders, ReleaseLastExcl, Forget, Free, InCall
  <1>5. Requests'
    BY <1>i, <1>p DEF Requests, Between, Inside, UpgradeOwner, TypeOK, Words,
       Holders, ReleaseLastExcl, Forget, Free, InCall
  <1>6. IdleClean' /\ WakeupPending'
    BY <1>i, <1>p DEF IdleClean, WakeupPending, Inside, TypeOK, Words, Holders,
       ReleaseLastExcl, Forget, Free
  <1> QED
    BY <1>1, <1>2, <1>3, <1>4, <1>5, <1>6 DEF IInv

\* ... or the last shared one.
LEMMA ReleaseLastShStep ==
    ASSUME IInv, NEW t \in Threads, ReleaseLastSh(t)
    PROVE  IInv'
  <1>i. /\ TypeOK /\ IsFiniteSet(Counted) /\ HoldersCounted /\ CountSays
        /\ Modes /\ Recorded /\ Places /\ Requests /\ IdleClean /\ WakeupPending
    BY CountFacts DEF IInv
  <1>p. /\ lk_count.cnt = 1 /\ ~ lk_count.upgrant /\ ~ lk_count.upreq
        /\ lk_lockholder = NULL /\ lk_count.cnt - 1 = 0
        /\ \A h \in Holders : ex[h] = 0 /\ sh[h] = 0
        /\ \A u \in Threads \ {t} : pc[u] \notin InCall
    BY <1>i DEF TypeOK, Holders, Modes, CountSays, InCall, Places, Place,
                Between, Requests, ReleaseLastSh
  <1>1. TypeOK'
    BY <1>i, <1>p DEF TypeOK, Words, Holders, PCs, Sleeping, ReleaseLastSh,
       Free
  <1>2. IsFiniteSet(Counted') /\ HoldersCounted'
    <2>1. /\ t \in Holders /\ (ex'[t] + sh'[t]) - (ex[t] + sh[t]) = 0
          /\ \A g \in Holders \ {t} : ex'[g] + sh'[g] = ex[g] + sh[g]
      BY <1>i, <1>p DEF TypeOK, Holders, ReleaseLastSh
    <2>2. /\ \A u \in Threads \ {t} : pc'[u] \in InCall <=> pc[u] \in InCall
          /\ pc[t] \in InCall /\ pc'[t] \notin InCall
      BY <1>i, <1>p DEF InCall, TypeOK, ReleaseLastSh
    <2>3. /\ lk_count'.cnt = lk_count.cnt - 1 /\ lk_count.cnt \in Nat
          /\ lk_count'.upgrant = lk_count.upgrant
      BY <1>i, <1>p DEF TypeOK, Words, ReleaseLastSh
    <2>4. lk_count'.cnt = lk_count.cnt + 0
                   + (One(pc'[t] \in InCall) - One(pc[t] \in InCall))
                   + (One(lk_count'.upgrant) - One(lk_count.upgrant))
      BY <2>2, <2>3 DEF One
    <2> QED
      BY <1>i, <1>1, <2>1, <2>2, <2>4, CountStep
  <1>3. Modes' /\ Recorded'
    BY <1>i, <1>p DEF Modes, Recorded, TypeOK, Words, Holders, ReleaseLastSh,
       Free, InCall
  <1>4. Places'
    BY <1>i, <1>p DEF Places, Place, Between, Modes, Recorded, TypeOK, Words,
       Holders, ReleaseLastSh, Free, InCall
  <1>5. Requests'
    BY <1>i, <1>p DEF Requests, Between, Inside, UpgradeOwner, TypeOK, Words,
       Holders, ReleaseLastSh, Free, InCall
  <1>6. IdleClean' /\ WakeupPending'
    BY <1>i, <1>p DEF IdleClean, WakeupPending, Inside, TypeOK, Words, Holders,
       ReleaseLastSh, Free
  <1> QED
    BY <1>1, <1>2, <1>3, <1>4, <1>5, <1>6 DEF IInv

\* A count that is not the last one is released.
LEMMA ReleaseCountStep ==
    ASSUME IInv, NEW t \in Threads, ReleaseCount(t)
    PROVE  IInv'
  <1>i. /\ TypeOK /\ IsFiniteSet(Counted) /\ HoldersCounted /\ CountSays
        /\ Modes /\ Recorded /\ Places /\ Requests /\ IdleClean /\ WakeupPending
    BY CountFacts DEF IInv
  <1>p. /\ lk_count.cnt > 1 /\ lk_count.cnt - 1 \in Nat
        /\ lk_count.excl => lk_lockholder \in {KERN, t}
    BY <1>i DEF TypeOK, Words, CountSays, InCall, Places, Place, ReleaseCount
  <1>1. TypeOK'
    BY <1>i, <1>p DEF TypeOK, Words, Holders, PCs, Sleeping, ReleaseCount,
       GotoIf
  <1>2. IsFiniteSet(Counted') /\ HoldersCounted'
    <2>1. /\ t \in Holders /\ (ex'[t] + sh'[t]) - (ex[t] + sh[t]) = 0
          /\ \A g \in Holders \ {t} : ex'[g] + sh'[g] = ex[g] + sh[g]
      BY <1>i, <1>p DEF TypeOK, Holders, Words, ReleaseCount, GotoIf
    <2>2. /\ \A u \in Threads \ {t} : pc'[u] \in InCall <=> pc[u] \in InCall
          /\ pc[t] \in InCall /\ pc'[t] \notin InCall
      BY <1>i, <1>p DEF InCall, TypeOK, Words, ReleaseCount, GotoIf
    <2>3. /\ lk_count'.cnt = lk_count.cnt - 1 /\ lk_count.cnt \in Nat
          /\ lk_count'.upgrant = lk_count.upgrant
      BY <1>i, <1>p DEF TypeOK, Words, ReleaseCount, GotoIf
    <2>4. lk_count'.cnt = lk_count.cnt + 0
                   + (One(pc'[t] \in InCall) - One(pc[t] \in InCall))
                   + (One(lk_count'.upgrant) - One(lk_count.upgrant))
      BY <2>2, <2>3 DEF One
    <2> QED
      BY <1>i, <1>1, <2>1, <2>2, <2>4, CountStep
  <1>3. Modes' /\ Recorded'
    BY <1>i, <1>p DEF Modes, Recorded, TypeOK, Words, Holders, ReleaseCount,
       GotoIf
  <1>4. Places'
    BY <1>i, <1>p DEF Places, Place, Between, Modes, Recorded, TypeOK, Words,
       Holders, ReleaseCount, GotoIf
  <1>5. Requests'
    BY <1>i, <1>p DEF Requests, Between, Inside, UpgradeOwner, TypeOK, Words,
       Holders, ReleaseCount, GotoIf
  <1>6. IdleClean' /\ WakeupPending'
    BY <1>i, <1>p DEF IdleClean, WakeupPending, Inside, TypeOK, Words, Holders,
       ReleaseCount, GotoIf
  <1> QED
    BY <1>1, <1>2, <1>3, <1>4, <1>5, <1>6 DEF IInv

\* The kernel takes over an exclusive lock.
LEMMA KernprocStep ==
    ASSUME IInv, NEW t \in Threads, Kernproc(t)
    PROVE  IInv'
  <1>i. /\ TypeOK /\ IsFiniteSet(Counted) /\ HoldersCounted /\ CountSays
        /\ Modes /\ Recorded /\ Places /\ Requests /\ IdleClean /\ WakeupPending
    BY CountFacts DEF IInv
  <1>a. /\ t \in Holders /\ KERN \in Holders /\ t # KERN /\ t # NULL /\ KERN # NULL
        /\ KERN \notin Threads /\ Threads \subseteq Holders
    BY ConstantsAssumption DEF Holders
  <1>b. lk_lockholder = t /\ lk_count.excl
    BY <1>i, <1>a DEF TypeOK, Modes, Recorded, Kernproc
  <1>c. /\ \A h \in Holders : sh[h] = 0
        /\ \A h \in Holders \ {t} : ex[h] = 0
    BY <1>i, <1>a, <1>b DEF TypeOK, Modes, Recorded, Places, Place, Between, Holders
  <1>d. /\ ex \in [Holders -> Nat] /\ sh \in [Holders -> Nat] /\ pc[t] = "idle"
        /\ ex' = [ex EXCEPT ![t] = 0, ![KERN] = ex[t]] /\ lk_lockholder' = KERN
        /\ UNCHANGED <<lk_count, queue, pc, count, otd, sh>>
    BY <1>i, <1>b DEF TypeOK, Kernproc, GotoIf, Goto, local
  <1>e. /\ ex' \in [Holders -> Nat] /\ ex'[t] = 0 /\ ex'[KERN] = ex[t]
        /\ \A h \in Holders \ {t, KERN} : ex'[h] = ex[h]
    BY <1>a, <1>d
  <1>p. /\ t \in Holders /\ KERN \in Holders /\ t # KERN /\ t # NULL /\ KERN # NULL
        /\ KERN \notin Threads /\ Threads \subseteq Holders
        /\ lk_lockholder = t /\ lk_lockholder' = KERN /\ lk_count.excl
        /\ \A h \in Holders : sh[h] = 0
        /\ \A h \in Holders \ {t} : ex[h] = 0
        /\ ex \in [Holders -> Nat] /\ sh \in [Holders -> Nat]
        /\ ex' \in [Holders -> Nat] /\ ex'[t] = 0 /\ ex'[KERN] = ex[t]
        /\ \A h \in Holders \ {t, KERN} : ex'[h] = ex[h]
        /\ pc[t] = "idle" /\ UNCHANGED <<lk_count, queue, pc, count, otd, sh>>
    BY <1>a, <1>b, <1>c, <1>d, <1>e
  <1>1. TypeOK'
    BY <1>i, <1>p DEF TypeOK, Words, Holders, PCs, Sleeping
  <1>2. IsFiniteSet(Counted') /\ HoldersCounted'
    <2>1. /\ ex[KERN] + sh[KERN] = 0 /\ ex'[t] + sh'[t] = 0
          /\ ex'[KERN] + sh'[KERN] = ex[t] + sh[t]
          /\ \A g \in Threads \ {t} : ex'[g] + sh'[g] = ex[g] + sh[g]
          /\ UNCHANGED <<pc, lk_count>>
      BY <1>p
    <2> QED
      BY <1>i, <1>1, <2>1, CountMove
  <1>3. Modes' /\ Recorded'
    BY <1>i, <1>p DEF Modes, Recorded, TypeOK, Words, Holders
  <1>4. Places'
    BY <1>i, <1>p DEF Places, Place, Between, Modes, Recorded, TypeOK, Words,
       Holders
  <1>5. Requests'
    BY <1>i, <1>p DEF Requests, Between, Inside, UpgradeOwner, TypeOK, Words,
       Holders
  <1>6. IdleClean' /\ WakeupPending'
    BY <1>i, <1>p DEF IdleClean, WakeupPending, Inside, TypeOK, Words, Holders
  <1> QED
    BY <1>1, <1>2, <1>3, <1>4, <1>5, <1>6 DEF IInv
-----------------------------------------------------------------------------
(* The inductive invariant *)

\* lockinit() establishes the invariant.
LEMMA IInvInit == Init => IInv
  <1> SUFFICES ASSUME Init PROVE IInv
    OBVIOUS
  <1>1. TypeOK
    BY ConstantsAssumption DEF Init, TypeOK, Words, Free, PCs, Holders
  <1>2. \A h \in Holders, i \in Nat : ~ IsCounted(h, i)
    BY DEF Init, IsCounted, InCall, Free, Holders
  <1>3. \A i \in Nat : ~ IsCounted(NULL, i)
    BY ConstantsAssumption DEF Init, IsCounted, Free, Holders
  <1>4. Counted = {}
    BY <1>1, <1>2, <1>3, CountedIs DEF Units
  <1>5. IsFiniteSet(Counted) /\ HoldersCounted
    BY <1>4, FS_EmptySet DEF Init, Free, HoldersCounted
  <1>6. Modes /\ Recorded /\ Places /\ IdleClean /\ WakeupPending
    BY DEF Init, Free, Holders, Modes, Recorded, Places, Place, IdleClean,
           WakeupPending
  <1>7. Requests
    BY DEF Init, Free, Requests, Inside, UpgradeOwner
  <1> QED
    BY <1>1, <1>5, <1>6, <1>7 DEF IInv

\* Every instruction of lockmgr() keeps the invariant.
LEMMA IInvNext == IInv /\ [Next]_vars => IInv'
  <1> SUFFICES ASSUME IInv, [Next]_vars PROVE IInv'
    OBVIOUS
  <1>1. CASE UNCHANGED vars
    BY <1>1 DEF vars, local, held, IInv, TypeOK, Counted, HoldersCounted, Modes,
                Recorded, Places, Place, Between, Requests, IdleClean,
                WakeupPending, Inside, InCall
  <1>2. ASSUME NEW t \in Threads, Running(t) PROVE IInv'
    BY <1>2, SharedGrantStep, RecurseStep, InterlockStep, WantStep,
       ExclGrantStep, SetHolderStep, DowngradeClearStep, DowngradeDoneStep,
       UpgradeAheadStep, UpgradeSoleStep, UpgradeNopStep, UpgradeRequestStep,
       UpgradeYieldStep, UpgradeGrantStep, GrantedStep, WaitAgainStep, AgainStep,
       SleepStep, ReleaseExclStep, ReleaseLastExclStep, ReleaseLastShStep,
       ReleaseGrantStep, ReleaseCountStep
       DEF Running
  <1>3. ASSUME NEW t \in Threads, Request(t) \/ Unlock(t) PROVE IInv'
    BY <1>3, CallStep, UnlockStep DEF Request
  <1>4. ASSUME NEW t \in Threads, \/ Failing(t) \/ Downgrade(t)
                                  \/ UpgradeOwned(t) \/ Kernproc(t)
        PROVE  IInv'
    BY <1>4, CallStep, UpgradeNowaitStep, SleepStep, DowngradeStep, KernprocStep
       DEF Failing
  <1> QED
    BY <1>1, <1>2, <1>3, <1>4 DEF Next, BlockingNext

\* The invariant holds throughout, whatever calls of lockmgr() interleave.
THEOREM LockmgrInvariance == Spec => []IInv
  <1> QED
    BY IInvInit, IInvNext, PTL DEF Spec
-----------------------------------------------------------------------------
(* What follows *)

\* Exactly one thread is on its way to take the grant.
LEMMA OneUpgrader ==
    ASSUME IInv, lk_count.upreq \/ lk_count.upgrant
    PROVE  Cardinality(Inside(UpgradeOwner)) = 1
  <1>1. PICK t : t \in Inside(UpgradeOwner)
    BY DEF IInv, Requests
  <1>2. Inside(UpgradeOwner) = {t}
    BY <1>1 DEF IInv, Requests
  <1> QED
    BY <1>2, FS_Singleton

\* The invariant implies what the runs check about lockmgr().
LEMMA IInvImplies ==
    ASSUME IInv
    PROVE  /\ Consistent /\ NoPanic /\ RequestUnderShared /\ GrantTaken
           /\ NoInterveningExclusive /\ WakeupPending
  <1>1. HolderKnown
    BY ConstantsAssumption DEF IInv, TypeOK, HolderKnown, Modes, Recorded
  <1>2. Consistent /\ WakeupPending
    BY <1>1 DEF IInv, Consistent
  <1>3. NoPanic
    BY DEF IInv, NoPanic, Places, Place
  <1>4. RequestUnderShared /\ GrantTaken
    BY OneUpgrader DEF IInv, RequestUnderShared, GrantTaken, Requests, Between
  <1>5. NoInterveningExclusive
    <2> SUFFICES ASSUME NEW t \in Inside(UpgradeOwner)
                 PROVE  /\ \A h \in Holders : ex[h] = 0
                        /\ Inside({"owner", "rel_last"}) = {}
      BY DEF NoInterveningExclusive
    <2>1. CountSays /\ TypeOK /\ Modes /\ Places
      BY CountFacts DEF IInv
    <2>2. lk_count.upreq \/ lk_count.upgrant
      BY DEF IInv, Requests, Inside
    <2>3. CASE lk_count.upreq
      BY <2>1, <2>3 DEF IInv, Requests, Modes, Places, Place, Between, Inside
    <2>4. CASE lk_count.upgrant
      <3>1. lk_count.cnt = 1
        BY <2>4 DEF IInv, Requests, Between
      <3>2. \A h \in Holders : ex[h] = 0
        BY <2>1, <2>4, <3>1 DEF CountSays, TypeOK
      <3>3. \A u \in Threads : pc[u] \notin InCall
        BY <2>1, <2>4, <3>1 DEF CountSays, Holders
      <3> QED
        BY <3>2, <3>3 DEF Inside, InCall
    <2> QED
      BY <2>2, <2>3, <2>4
  <1> QED
    BY <1>2, <1>3, <1>4, <1>5

\* lk_count counts every acquisition once, a free lock has no flag left and an
\* exclusive holder is found in lk_lockholder, at every instruction of lockmgr().
THEOREM LockmgrConsistent == Spec => []Consistent
  <1> QED
    BY LockmgrInvariance, IInvImplies, PTL

\* No panic and no failed KKASSERT of lockmgr() or lockmgr_kernproc() is reached
\* by callers that release what they hold.
THEOREM LockmgrNoPanic == Spec => []NoPanic
  <1> QED
    BY LockmgrInvariance, IInvImplies, PTL

\* LKC_UPREQ is set only on a shared lock and has exactly one owner: the branch
\* of LK_RELEASE for LKC_EXCL with LKC_UPREQ is dead.
THEOREM LockmgrRequestUnderShared == Spec => []RequestUnderShared
  <1> QED
    BY LockmgrInvariance, IInvImplies, PTL

\* LKC_UPGRANT stands for one exclusive count, and exactly one thread comes to
\* take it.
THEOREM LockmgrGrantTaken == Spec => []GrantTaken
  <1> QED
    BY LockmgrInvariance, IInvImplies, PTL

\* While the owner of an upgrade request waits for its grant, nobody gets the
\* lock exclusively in between.
THEOREM LockmgrNoInterveningExclusive == Spec => []NoInterveningExclusive
  <1> QED
    BY LockmgrInvariance, IInvImplies, PTL

\* A thread that sleeps for the lock has its request flag set in lk_count, or
\* some thread is about to call wakeup().
THEOREM LockmgrWakeupPending == Spec => []WakeupPending
  <1> QED
    BY LockmgrInvariance, IInvImplies, PTL
-----------------------------------------------------------------------------
(* The lock manager implements RWLock *)

\* One acquisition, release, conversion or transfer of the abstract lock.
Abstract == \E h \in Holders : \/ RW!AcquireExcl(h) \/ RW!AcquireShared(h)
                               \/ RW!ReleaseExcl(h) \/ RW!ReleaseShared(h)
                               \/ RW!Downgrade(h)
                               \/ \E g \in Holders : RW!Transfer(h, g)

\* The instructions that grant the lock: a shared count while nobody has it
\* exclusively, an exclusive one while nobody else has it.
LEMMA GrantRefines ==
    ASSUME IInv, NEW t \in Threads, SharedGrant(t) \/ Recurse(t) \/ SetHolder(t)
    PROVE  Abstract
  <1>i. /\ TypeOK /\ CountSays /\ Modes /\ Recorded /\ Places
        /\ t \in Holders /\ t # NULL /\ KERN \notin Threads
    BY CountFacts, ConstantsAssumption DEF IInv, Holders
  <1>1. CASE SharedGrant(t)
    <2>1. \A h \in Holders : ex[h] = 0
      BY <1>i, <1>1 DEF Modes, SharedGrant, Contended, SharedBlocked
    <2> QED
      BY <1>i, <1>1, <2>1
         DEF Abstract, RW!AcquireShared, RW!NoOtherExcl, SharedGrant
  <1>2. CASE Recurse(t)
    <2>1. lk_count.excl /\ lk_lockholder = t
      BY <1>i, <1>2 DEF Modes, Recurse
    <2>2. /\ \A h \in Holders : sh[h] = 0
          /\ \A h \in Holders \ {t} : ex[h] = 0
      BY <1>i, <2>1 DEF TypeOK, Modes, Recorded, Places, Place, Between, Holders
    <2> QED
      BY <1>i, <1>2, <2>2 DEF Abstract, RW!AcquireExcl, RW!NoOtherHold, Recurse
  <1>3. CASE SetHolder(t)
    <2>1. \A h \in Holders : ex[h] = 0 /\ sh[h] = 0
      BY <1>i, <1>3 DEF TypeOK, CountSays, InCall, Places, Place, Between,
                        SetHolder, Move
    <2> QED
      BY <1>i, <1>3, <2>1 DEF Abstract, RW!AcquireExcl, RW!NoOtherHold, SetHolder
  <1> QED
    BY <1>1, <1>2, <1>3

\* The instructions with which a caller gives something up: a release, and the
\* ways on which an upgrade gives up its shared count.
LEMMA ReleaseRefines ==
    ASSUME IInv, NEW t \in Threads,
           \/ Unlock(t) \/ UpgradeAhead(t) \/ UpgradeNowait(t) \/ UpgradeSole(t)
           \/ UpgradeRequest(t) \/ UpgradeYield(t) \/ UpgradeGrant(t)
    PROVE  Abstract
  <1>i. /\ TypeOK /\ CountSays /\ Modes /\ Recorded /\ Places
        /\ t \in Holders /\ KERN \in Holders
    BY CountFacts DEF IInv, Holders
  <1>1. CASE Unlock(t)
    BY <1>i, <1>1 DEF Abstract, RW!ReleaseExcl, RW!ReleaseShared, Unlock
  <1>2. CASE \/ UpgradeAhead(t) \/ UpgradeNowait(t) \/ UpgradeSole(t)
             \/ UpgradeRequest(t) \/ UpgradeYield(t) \/ UpgradeGrant(t)
    <2>1. sh[t] > 0
      BY <1>2, SharedUpgrader
    <2>2. sh' = [sh EXCEPT ![t] = @ - 1] /\ ex' = ex
      BY <1>2 DEF UpgradeTo, UpgradeAhead, UpgradeNowait, UpgradeSole,
            UpgradeRequest, UpgradeYield, UpgradeGrant
    <2> QED
      BY <1>i, <2>1, <2>2 DEF Abstract, RW!ReleaseShared
  <1> QED
    BY <1>1, <1>2

\* The downgrade, and lockmgr_kernproc().
LEMMA ConvertRefines ==
    ASSUME IInv, NEW t \in Threads, DowngradeDone(t) \/ Kernproc(t)
    PROVE  Abstract
  <1>i. TypeOK /\ Places /\ t \in Holders /\ KERN \in Holders
    BY DEF IInv, Holders
  <1>1. CASE DowngradeDone(t)
    <2>1. ex[t] > 0
      BY <1>i, <1>1 DEF Places, Place, DowngradeDone
    <2> QED
      BY <1>i, <1>1, <2>1 DEF Abstract, RW!Downgrade, DowngradeDone
  <1>2. CASE Kernproc(t)
    BY <1>i, <1>2 DEF Abstract, RW!Transfer, Kernproc
  <1> QED
    BY <1>1, <1>2

\* Every other instruction leaves what the callers hold alone.
LEMMA OthersStutter ==
    ASSUME NEW t \in Threads,
           \/ SharedInterlock(t) \/ SharedWait(t) \/ ExclGrant(t)
           \/ ExclInterlock(t) \/ ExclWait(t) \/ DowngradeClear(t)
           \/ UpgradeNop(t) \/ UpgradeInterlock(t) \/ Granted(t)
           \/ WaitInterlock(t) \/ WaitAgain(t) \/ Again(t) \/ Woken(t)
           \/ Wakeup(t) \/ ReleaseExcl(t) \/ ReleaseLastExcl(t)
           \/ ReleaseLastSh(t) \/ ReleaseGrant(t) \/ ReleaseCount(t)
           \/ Nowait(t) \/ SleepError(t) \/ Request(t) \/ Downgrade(t)
           \/ UpgradeOwned(t)
    PROVE  UNCHANGED <<ex, sh>>
  BY DEF SharedInterlock, SharedWait, ExclGrant, ExclInterlock, ExclWait,
         DowngradeClear, UpgradeNop, UpgradeInterlock, Granted, WaitInterlock,
         WaitAgain, Again, Woken, Wakeup, ReleaseExcl, ReleaseLastExcl,
         ReleaseLastSh, ReleaseGrant, ReleaseCount, Nowait, SleepError,
         SleepFails, Request, LockSh, LockEx, Upgrade, Downgrade, UpgradeOwned,
         Interlock, held

\* The lock manager implements the abstract shared/exclusive lock: every
\* instruction of lockmgr() is one of its steps or changes nothing in it.
THEOREM LockmgrRefinesRWLock == Spec => ImplementsRWLock
  <1>1. Init => RW!RWInit
    BY DEF Init, RW!RWInit
  <1>2. ASSUME IInv, [Next]_vars
        PROVE  [RW!RWNext]_(RW!rwvars)
    <2>1. CASE UNCHANGED vars
      BY <2>1 DEF vars, held, RW!rwvars
    <2>2. ASSUME NEW t \in Threads,
                 \/ Running(t) \/ Request(t) \/ Unlock(t) \/ Failing(t)
                 \/ Downgrade(t) \/ UpgradeOwned(t) \/ Kernproc(t)
          PROVE  Abstract \/ UNCHANGED <<ex, sh>>
      BY <1>2, <2>2, GrantRefines, ReleaseRefines, ConvertRefines, OthersStutter
         DEF Running, Failing
    <2>3. Abstract => RW!RWNext \/ UNCHANGED RW!rwvars
      BY DEF Abstract, RW!RWNext
    <2> QED
      BY <1>2, <2>1, <2>2, <2>3 DEF Next, BlockingNext, RW!rwvars
  <1> QED
    BY <1>1, <1>2, LockmgrInvariance, PTL DEF Spec, ImplementsRWLock, RW!RWSpec
=============================================================================
