---------------------------- MODULE TsleepProofs ----------------------------
(***************************************************************************)
(* Proofs about Tsleep, for every set of cpus, threads and idents, every   *)
(* hash of the idents to chains and every bound on the IPIs: no wakeup,    *)
(* timeout or signal is lost, and no assertion fails.                      *)
(***************************************************************************)
EXTENDS Tsleep, WellFoundedInduction, SequenceTheorems, TLAPS

\* The places in tsleep() between the switch away and the clean up.
Sleeping == {"asleep", "awake", "tsrace"}

\* What a thread's place says: who is in the critical section, when the flags
\* of a sleep and its timeout may be set, that LWP_SINTR is set before the
\* token is given up, and that no signal came in between.
Place(t) ==
    /\ pc[t] \in {"insert", "locked", "awake", "flush"} => crit[CpuOf[t]] = t
    /\ pc[t] = "insert" => ~ Queued(t)
    /\ "TSLEEP_DESCHEDULED" \in td_flags[t] <=> pc[t] \in Sleeping
    /\ pc[t] \notin Sleeping => /\ td_flags[t] \cap {"TIMEOUT", "TIMEOUT_RUNNING"} = {}
                                /\ ~ callout[t]
    /\ callout[t] \/ "TIMEOUT_RUNNING" \in td_flags[t] => "timo" \in args[t]
    /\ pc[t] = "asleep" /\ t \in Lwps => lwp_stat[t] = "LSSLEEP"
    /\ pc[t] \in Sleeping \cup {"locked"} /\ "PCATCH" \in args[t] => "SINTR" \in td_flags[t]
    /\ pc[t] = "locked" => /\ t \in Lwps => lwp_token[t] = t
                           /\ "PCATCH" \in args[t] => t \notin sigs
    /\ pc[t] # "panic"

Places == \A t \in Threads : Place(t)

\* The states of the threads, and what is going to wake those that sleep.
States == Places /\ TimeoutPending /\ SignalPending /\ SleeperQueued

\* In the queue q the threads X come before all others with the same channel.
Ahead(q, chan, X) == \A m, n \in DOMAIN q :
                        m < n /\ q[n] \in X /\ chan[q[m]] = chan[q[n]] => q[m] \in X

First(X) == \A c \in Cpus, h \in Chains : Ahead(gd_tsleep_hash[c][h], td_wchan, X)

OwedQueued == \A t \in owed \cup owedOne : Queued(t)

\* The sleep queues with their masks, and the debts: a scan for wakeup_one()
\* comes to the threads that it owes a wakeup before it comes to others.
Queues == MaskExact /\ OwedQueued /\ First(owedOne)

\* Every thread that a wakeup_one() owes something is still to be looked at,
\* although only one of them has to be woken up.
OnePending == \A t \in owedOne : Pending(CpuOf[t], td_wchan[t], BOOLEAN)

Delivery == NoLostWakeup /\ OnePending

\* The inductive invariant.
IInv == TypeOK /\ States /\ Queues /\ Delivery
-----------------------------------------------------------------------------
(* Sequences *)

\* A set of numbers has a smallest one: the scan for wakeup_one() ends at the
\* first thread that is asleep.
LEMMA Smallest ==
  ASSUME NEW T \in SUBSET Nat, T # {}
  PROVE  \E x \in T : \A y \in T : ~ (y < x)
  <1>1. PICK x \in T : \A y \in T : <<y, x>> \notin OpToRel(<, Nat)
    BY WFMin, NatLessThanWellFounded, Zenon
  <1> QED
    BY <1>1, Zenon DEF OpToRel

\* A queue is empty if nobody is on it.
LEMMA EmptyQueue ==
  ASSUME NEW S, NEW q \in Seq(S)
  PROVE  q = <<>> <=> ToSet(q) = {}
  <1>1. CASE q = <<>>
    BY <1>1 DEF ToSet
  <1>2. CASE q # <<>>
    <2>1. 1 \in DOMAIN q
      BY <1>2, EmptySeq, LenProperties
    <2>2. q[1] \in ToSet(q)
      BY <2>1, Zenon DEF ToSet
    <2> QED
      BY <1>2, <2>2
  <1> QED
    BY <1>1, <1>2

\* Contains() and ToSet() agree.
LEMMA ContainsToSet ==
  ASSUME NEW S, NEW q \in Seq(S), NEW e
  PROVE  Contains(q, e) <=> e \in ToSet(q)
  <1>1. DOMAIN q = 1 .. Len(q)
    BY LenProperties
  <1> QED
    BY <1>1 DEF Contains, ToSet

\* The queue after TAILQ_INSERT_TAIL().
LEMMA AppendQueue ==
  ASSUME NEW S, NEW q \in Seq(S), NEW t \in S
  PROVE  /\ Append(q, t) \in Seq(S)
         /\ Append(q, t) # <<>>
         /\ ToSet(Append(q, t)) = ToSet(q) \cup {t}
         /\ IsInjective(q) /\ t \notin ToSet(q) => IsInjective(Append(q, t))
  <1>1. /\ DOMAIN q = 1 .. Len(q) /\ Len(q) \in Nat
        /\ DOMAIN Append(q, t) = 1 .. Len(q) + 1
        /\ \A n \in 1 .. Len(q) : Append(q, t)[n] = q[n]
        /\ Append(q, t)[Len(q) + 1] = t
    BY AppendProperties, LenProperties
  <1>2. ToSet(Append(q, t)) = ToSet(q) \cup {t}
    BY <1>1 DEF ToSet
  <1>3. ASSUME IsInjective(q), t \notin ToSet(q) PROVE IsInjective(Append(q, t))
    <2>1. \A n \in 1 .. Len(q) : q[n] # t
      BY <1>1, <1>3 DEF ToSet
    <2> HIDE DEF ToSet
    <2> QED
      BY <1>1, <1>3, <2>1 DEF IsInjective
  <1> QED
    BY <1>2, <1>3, AppendProperties

\* A thread that is queued comes after those that are owed a wakeup.
LEMMA AppendAhead ==
  ASSUME NEW q \in Seq(Threads), NEW t \in Threads, NEW i, NEW X,
         t \notin X, t \notin ToSet(q),
         NEW chan \in [Threads -> Idents \cup {NULL}], Ahead(q, chan, X)
  PROVE  Ahead(Append(q, t), [chan EXCEPT ![t] = i], X)
  <1>1. /\ DOMAIN q = 1 .. Len(q) /\ Len(q) \in Nat
        /\ DOMAIN Append(q, t) = 1 .. Len(q) + 1
        /\ \A n \in 1 .. Len(q) : Append(q, t)[n] = q[n] /\ q[n] \in Threads
        /\ Append(q, t)[Len(q) + 1] = t
    BY AppendProperties, LenProperties
  <1>2. \A n \in 1 .. Len(q) : q[n] # t
    BY <1>1 DEF ToSet
  <1> SUFFICES ASSUME NEW m \in 1 .. Len(q) + 1, NEW n \in 1 .. Len(q) + 1,
                      m < n, Append(q, t)[n] \in X,
                      [chan EXCEPT ![t] = i][Append(q, t)[m]]
                         = [chan EXCEPT ![t] = i][Append(q, t)[n]]
               PROVE  Append(q, t)[m] \in X
    BY <1>1 DEF Ahead
  <1>3. n \in 1 .. Len(q) /\ m \in 1 .. Len(q)
    BY <1>1
  <1>4. q[n] \in X /\ chan[q[m]] = chan[q[n]]
    BY <1>1, <1>2, <1>3
  <1> QED
    BY <1>1, <1>3, <1>4 DEF Ahead

\* The queue after TAILQ_REMOVE().
LEMMA RemainingQueue ==
  ASSUME NEW S, NEW q \in Seq(S), NEW R, NEW r \in Remaining(q, R)
  PROVE  /\ r \in Seq(S)
         /\ ToSet(r) = ToSet(q) \ R
         /\ IsInjective(q) => IsInjective(r)
  <1>1. PICK m \in 0 .. Len(q) : r \in [1 .. m -> ToSet(q) \ R]
    BY DEF Remaining, SeqOf
  <1>2. ToSet(q) \subseteq S
    BY DEF ToSet
  <1>3. r \in Seq(S) /\ DOMAIN r = 1 .. m
    BY <1>1, <1>2
  <1>4. ASSUME IsInjective(q) PROVE IsInjective(r)
    <2> SUFFICES ASSUME NEW j \in DOMAIN r, NEW k \in DOMAIN r, j < k PROVE r[j] # r[k]
      BY <1>3 DEF IsInjective
    <2> QED
      BY <1>4 DEF Remaining, IsInjective
  <1> QED
    BY <1>3, <1>4 DEF Remaining

\* Removals keep the order.
LEMMA RemainingAhead ==
  ASSUME NEW q \in Seq(Threads), NEW R, NEW r \in Remaining(q, R), NEW X,
         NEW chan, NEW chan2, Ahead(q, chan, X),
         \A t \in Threads \ R : chan2[t] = chan[t]
  PROVE  Ahead(r, chan2, X \ R)
  <1>1. r \in Seq(Threads) /\ ToSet(r) = ToSet(q) \ R
    BY RemainingQueue
  <1>2. \A n \in DOMAIN r : r[n] \in Threads \ R
    BY <1>1 DEF ToSet
  <1> SUFFICES ASSUME NEW j \in DOMAIN r, NEW k \in DOMAIN r,
                      j < k, r[k] \in X \ R, chan2[r[j]] = chan2[r[k]]
               PROVE  r[j] \in X
    BY <1>2 DEF Ahead
  <1>3. PICK m, n \in DOMAIN q : m < n /\ q[m] = r[j] /\ q[n] = r[k]
    BY DEF Remaining
  <1>4. chan[r[j]] = chan[r[k]]
    BY <1>2
  <1> QED
    BY <1>3, <1>4 DEF Ahead
-----------------------------------------------------------------------------
(* Queues, masks and debts *)

\* The threads on the queue of cpu c for chain h.
OnQueue(c, h) == {t \in Threads : Queued(t) /\ CpuOf[t] = c /\ Chain[td_wchan[t]] = h}

\* MaskExact, in terms of the sets of threads ...
LEMMA QueueSets ==
  ASSUME TypeOK, MaskExact, NEW c \in Cpus, NEW h \in Chains
  PROVE  /\ gd_tsleep_hash[c][h] \in Seq(Threads)
         /\ ToSet(gd_tsleep_hash[c][h]) = OnQueue(c, h)
         /\ IsInjective(gd_tsleep_hash[c][h])
         /\ c \in slpque_cpumasks[h] <=> OnQueue(c, h) # {}
  <1>1. gd_tsleep_hash[c][h] \in Seq(Threads)
    BY DEF TypeOK, QueueTypes
  <1>2. ToSet(gd_tsleep_hash[c][h]) \subseteq Threads
    BY <1>1 DEF ToSet
  <1>3. ToSet(gd_tsleep_hash[c][h]) = OnQueue(c, h)
    BY <1>1, <1>2, ContainsToSet DEF MaskExact, OnQueue
  <1> QED
    BY <1>1, <1>3, EmptyQueue DEF MaskExact

\* ... and back.
LEMMA SetsQueue ==
  ASSUME QueueTypes',
         \A c \in Cpus, h \in Chains :
            /\ ToSet(gd_tsleep_hash'[c][h]) = OnQueue(c, h)'
            /\ IsInjective(gd_tsleep_hash'[c][h])
            /\ c \in slpque_cpumasks'[h] <=> OnQueue(c, h)' # {}
  PROVE  MaskExact'
  <1>1. \A c \in Cpus, h \in Chains : gd_tsleep_hash'[c][h] \in Seq(Threads)
    BY DEF QueueTypes
  <1>2. \A c \in Cpus, h \in Chains :
           c \in slpque_cpumasks'[h] <=> gd_tsleep_hash'[c][h] # <<>>
    BY <1>1, EmptyQueue
  <1>3. \A c \in Cpus, h \in Chains, t \in Threads :
           Contains(gd_tsleep_hash'[c][h], t) <=> t \in OnQueue(c, h)'
    BY <1>1, ContainsToSet
  <1> QED
    BY <1>2, <1>3 DEF MaskExact, OnQueue

\* What tsleep_interlock() does to queues, masks and debts.
LEMMA InsertQueues ==
  ASSUME TypeOK, Queues, NEW t \in Threads, NEW i \in Idents, td_wchan[t] = NULL, Insert(t, i)
  PROVE  QueueTypes' /\ Queues'
  <1> DEFINE k == CpuOf[t]
             g == Chain[i]
             q == gd_tsleep_hash[k][g]
  <1>c. k \in Cpus /\ g \in Chains /\ NULL # i
    BY ConstantsAssumption DEF Chains
  <1>t. q \in Seq(Threads) /\ t \notin ToSet(q) /\ IsInjective(q)
    BY <1>c, QueueSets DEF Queues, OnQueue, Queued
  <1>a. /\ Append(q, t) \in Seq(Threads)
        /\ ToSet(Append(q, t)) = ToSet(q) \cup {t}
        /\ IsInjective(Append(q, t))
    BY <1>t, AppendQueue
  <1>q. \A d \in Cpus, h \in Chains :
           gd_tsleep_hash'[d][h] = IF d = k /\ h = g THEN Append(q, t)
                                   ELSE gd_tsleep_hash[d][h]
    BY <1>c DEF Insert, TypeOK, QueueTypes
  <1>w. td_wchan' = [td_wchan EXCEPT ![t] = i]
    BY DEF Insert
  <1>o. \A d \in Cpus, h \in Chains :
           OnQueue(d, h)' = IF d = k /\ h = g THEN OnQueue(d, h) \cup {t} ELSE OnQueue(d, h)
    BY <1>w, <1>c DEF OnQueue, Queued, TypeOK, ThreadTypes
  <1>1. QueueTypes'
    BY <1>c, <1>a DEF Insert, TypeOK, QueueTypes
  <1>2. ASSUME NEW d \in Cpus, NEW h \in Chains
        PROVE  /\ ToSet(gd_tsleep_hash'[d][h]) = OnQueue(d, h)'
               /\ IsInjective(gd_tsleep_hash'[d][h])
               /\ d \in slpque_cpumasks'[h] <=> OnQueue(d, h)' # {}
    <2>1. /\ ToSet(gd_tsleep_hash[d][h]) = OnQueue(d, h)
          /\ IsInjective(gd_tsleep_hash[d][h])
          /\ d \in slpque_cpumasks[h] <=> OnQueue(d, h) # {}
      BY QueueSets DEF Queues
    <2>2. d \in slpque_cpumasks'[h] <=> d \in slpque_cpumasks[h] \/ (d = k /\ h = g)
      BY <1>c DEF Insert, TypeOK, QueueTypes
    <2> QED
      BY <2>1, <2>2, <1>q, <1>a, <1>o
  <1>3. MaskExact'
    BY <1>1, <1>2, SetsQueue
  <1>4. t \notin owed \cup owedOne
    BY DEF Queues, OwedQueued, Queued
  <1>5. OwedQueued'
    BY <1>w, <1>c, <1>4 DEF Insert, Queues, OwedQueued, Queued, TypeOK,
       ThreadTypes, QueueTypes
  <1>6. ASSUME NEW d \in Cpus, NEW h \in Chains
        PROVE  Ahead(gd_tsleep_hash'[d][h], td_wchan', owedOne)
    <2>1. /\ Ahead(gd_tsleep_hash[d][h], td_wchan, owedOne)
          /\ td_wchan \in [Threads -> Idents \cup {NULL}]
      BY DEF Queues, First, TypeOK, ThreadTypes
    <2>2. CASE d = k /\ h = g
      <3>1. Ahead(Append(q, t), [td_wchan EXCEPT ![t] = i], owedOne)
        BY <2>1, <2>2, <1>4, <1>t, AppendAhead
      <3> QED
        BY <2>2, <3>1, <1>q, <1>w
    <2>3. CASE ~ (d = k /\ h = g)
      <3>1. \A n \in DOMAIN gd_tsleep_hash[d][h] : gd_tsleep_hash[d][h][n] \in Threads \ {t}
        BY QueueSets DEF Queues, OnQueue, Queued, ToSet
      <3>2. \A u \in Threads \ {t} : td_wchan'[u] = td_wchan[u]
        BY <1>w, <2>1
      <3> QED
        BY <2>1, <2>3, <3>1, <3>2, <1>q DEF Ahead
    <2> QED
      BY <2>2, <2>3
  <1>7. First(owedOne)'
    BY <1>6 DEF First, Insert
  <1> QED
    BY <1>1, <1>3, <1>5, <1>7 DEF Queues

\* What _tsleep_remove() of several threads of one queue does to them.
LEMMA DequeueQueues ==
  ASSUME TypeOK, MaskExact, NEW c \in Cpus, NEW g \in Chains, NEW R \in SUBSET OnQueue(c, g),
         Dequeue(c, g, R), owed' \subseteq Threads, owedOne' \subseteq Threads
  PROVE  /\ QueueTypes' /\ MaskExact'
         /\ \A t \in Threads : td_wchan'[t] = IF t \in R THEN NULL ELSE td_wchan[t]
         /\ \A X : First(X) =>
               \A d \in Cpus, h \in Chains : Ahead(gd_tsleep_hash'[d][h], td_wchan', X \ R)
  <1> DEFINE q == gd_tsleep_hash[c][g]
  <1>t. q \in Seq(Threads) /\ IsInjective(q) /\ ToSet(q) = OnQueue(c, g)
    BY QueueSets
  <1>1. PICK rest \in Remaining(q, R) :
           /\ gd_tsleep_hash' = [gd_tsleep_hash EXCEPT ![c][g] = rest]
           /\ slpque_cpumasks' = [slpque_cpumasks EXCEPT ![g] =
                                 IF R # {} /\ rest = <<>> THEN @ \ {c} ELSE @]
           /\ td_wchan' = [t \in Threads |-> IF t \in R THEN NULL ELSE td_wchan[t]]
    BY DEF Dequeue
  <1>r. rest \in Seq(Threads) /\ IsInjective(rest) /\ ToSet(rest) = OnQueue(c, g) \ R
    BY <1>t, RemainingQueue
  <1>q. \A d \in Cpus, h \in Chains :
           gd_tsleep_hash'[d][h] = IF d = c /\ h = g THEN rest ELSE gd_tsleep_hash[d][h]
    BY <1>1 DEF TypeOK, QueueTypes
  <1>o. \A d \in Cpus, h \in Chains :
           OnQueue(d, h)' = IF d = c /\ h = g THEN OnQueue(d, h) \ R ELSE OnQueue(d, h)
    BY <1>1 DEF OnQueue, Queued
  <1>2. QueueTypes'
    BY <1>1, <1>r DEF TypeOK, QueueTypes
  <1>3. ASSUME NEW d \in Cpus, NEW h \in Chains
        PROVE  /\ ToSet(gd_tsleep_hash'[d][h]) = OnQueue(d, h)'
               /\ IsInjective(gd_tsleep_hash'[d][h])
               /\ d \in slpque_cpumasks'[h] <=> OnQueue(d, h)' # {}
    <2>1. /\ ToSet(gd_tsleep_hash[d][h]) = OnQueue(d, h)
          /\ IsInjective(gd_tsleep_hash[d][h])
          /\ d \in slpque_cpumasks[h] <=> OnQueue(d, h) # {}
      BY QueueSets
    <2>2. rest = <<>> <=> OnQueue(c, g) \ R = {}
      BY <1>r, EmptyQueue
    <2>3. d \in slpque_cpumasks'[h] <=> /\ d \in slpque_cpumasks[h]
                                        /\ ~ (d = c /\ h = g /\ R # {} /\ rest = <<>>)
      BY <1>1 DEF TypeOK, QueueTypes
    <2>4. R = {} => OnQueue(c, g) \ R = OnQueue(c, g)
      OBVIOUS
    <2> QED
      BY <2>1, <2>2, <2>3, <2>4, <1>q, <1>r, <1>o
  <1>4. MaskExact'
    BY <1>2, <1>3, SetsQueue
  <1>5. \A t \in Threads : td_wchan'[t] = IF t \in R THEN NULL ELSE td_wchan[t]
    BY <1>1
  <1>6. ASSUME NEW X, First(X), NEW d \in Cpus, NEW h \in Chains
        PROVE  Ahead(gd_tsleep_hash'[d][h], td_wchan', X \ R)
    <2>1. Ahead(gd_tsleep_hash[d][h], td_wchan, X)
      BY <1>6 DEF First
    <2>2. CASE d = c /\ h = g
      BY <2>1, <2>2, <1>q, <1>t, <1>5, RemainingAhead
    <2>3. CASE ~ (d = c /\ h = g)
      <3>1. \A n \in DOMAIN gd_tsleep_hash[d][h] : gd_tsleep_hash[d][h][n] \in OnQueue(d, h)
        BY QueueSets DEF ToSet
      <3>2. OnQueue(d, h) \cap R = {} /\ OnQueue(d, h) \subseteq Threads
        BY <2>3 DEF OnQueue
      <3> QED
        BY <2>1, <2>3, <3>1, <3>2, <1>q, <1>5 DEF Ahead
    <2> QED
      BY <2>2, <2>3
  <1> QED
    BY <1>2, <1>4, <1>5, <1>6

\* _tsleep_remove() of one thread, which gives up what it is owed.
LEMMA RemoveQueues ==
  ASSUME TypeOK, Queues, NEW t \in Threads, RemoveThread(t)
  PROVE  /\ QueueTypes' /\ Queues'
         /\ \A u \in Threads : td_wchan'[u] = IF u = t THEN NULL ELSE td_wchan[u]
         /\ td_wchan' \in [Threads -> Idents \cup {NULL}]
         /\ owed' = owed \ {t} /\ owedOne' = owedOne \ {t}
  <1>1. CASE td_wchan[t] = NULL
    <2>1. UNCHANGED sleepvars
      BY <1>1 DEF RemoveThread
    <2>2. t \notin owed \cup owedOne
      BY <1>1 DEF Queues, OwedQueued, Queued
    <2>3. QueueTypes'
      BY <2>1 DEF TypeOK, QueueTypes, sleepvars
    <2>4. Queues'
      BY <2>1 DEF Queues, MaskExact, OwedQueued, First, Queued, sleepvars
    <2> QED
      BY <1>1, <2>1, <2>2, <2>3, <2>4 DEF sleepvars, TypeOK, ThreadTypes
  <1>2. CASE td_wchan[t] # NULL
    <2> DEFINE c == CpuOf[t]
               g == Chain[td_wchan[t]]
    <2>1. /\ Dequeue(c, g, {t})
          /\ owed' = owed \ {t} /\ owedOne' = owedOne \ {t}
      BY <1>2 DEF RemoveThread
    <2>2. c \in Cpus /\ td_wchan[t] \in Idents /\ g \in Chains
      BY <1>2, ConstantsAssumption DEF TypeOK, ThreadTypes, Chains
    <2>3. {t} \in SUBSET OnQueue(c, g)
      BY <1>2 DEF OnQueue, Queued
    <2>4. owed' \subseteq Threads /\ owedOne' \subseteq Threads
      BY <2>1 DEF TypeOK, QueueTypes
    <2> HIDE DEF c, g
    <2>5. /\ QueueTypes' /\ MaskExact'
          /\ \A u \in Threads : td_wchan'[u] = IF u \in {t} THEN NULL ELSE td_wchan[u]
          /\ First(owedOne) => \A d \in Cpus, h \in Chains :
                                 Ahead(gd_tsleep_hash'[d][h], td_wchan', owedOne \ {t})
      BY <2>1, <2>2, <2>3, <2>4, DequeueQueues DEF Queues
    <2>6. First(owedOne)'
      BY <2>1, <2>5 DEF First, Queues
    <2>7. OwedQueued'
      BY <2>1, <2>5 DEF Queues, OwedQueued, Queued, TypeOK, QueueTypes
    <2>8. td_wchan' \in [Threads -> Idents \cup {NULL}]
      BY <2>1 DEF Dequeue, TypeOK, ThreadTypes
    <2> QED
      BY <2>1, <2>5, <2>6, <2>7, <2>8 DEF Queues
  <1> QED
    BY <1>1, <1>2

\* A scan finds only threads that sleep on i, and without PWAKEUP_ONE all.
LEMMA ScannedMatch ==
  ASSUME TypeOK, MaskExact, NEW c \in Cpus, NEW i \in Idents, NEW one \in BOOLEAN
  PROVE  /\ Scanned(c, i, one) \subseteq {t \in OnQueue(c, Chain[i]) : td_wchan[t] = i}
         /\ \A t \in Threads : CpuOf[t] = c /\ td_wchan[t] = i => t \in OnQueue(c, Chain[i])
         /\ \A t \in Threads : ~ one /\ CpuOf[t] = c /\ td_wchan[t] = i
                                  => t \in Scanned(c, i, one)
  <1> DEFINE q == gd_tsleep_hash[c][Chain[i]]
  <1>1. Chain[i] \in Chains /\ i # NULL
    BY ConstantsAssumption DEF Chains
  <1>2. q \in Seq(Threads) /\ ToSet(q) = OnQueue(c, Chain[i])
    BY <1>1, QueueSets
  <1>3. \A t \in Threads : CpuOf[t] = c /\ td_wchan[t] = i => t \in OnQueue(c, Chain[i])
    BY <1>1 DEF OnQueue, Queued
  <1>4. Scanned(c, i, one) \subseteq {t \in OnQueue(c, Chain[i]) : td_wchan[t] = i}
    BY <1>2 DEF Scanned, Matching, ToSet
  <1>5. ASSUME NEW t \in Threads, ~ one, CpuOf[t] = c, td_wchan[t] = i
        PROVE  t \in Scanned(c, i, one)
    <2>1. PICK n \in DOMAIN q : q[n] = t
      BY <1>2, <1>3, <1>5 DEF ToSet
    <2>2. n \in Matching(c, i)
      BY <1>5, <2>1 DEF Matching
    <2> QED
      BY <1>5, <2>1, <2>2 DEF Scanned
  <1> QED
    BY <1>3, <1>4, <1>5

\* A scan for wakeup_one() that leaves a thread of X on the queue has taken one
\* of X off it that is asleep.
LEMMA ScannedFirst ==
  ASSUME TypeOK, MaskExact, NEW c \in Cpus, NEW i \in Idents, NEW X, First(X),
         NEW t \in Threads \cap X, CpuOf[t] = c, td_wchan[t] = i, t \notin Scanned(c, i, TRUE)
  PROVE  \E u \in X \cap Scanned(c, i, TRUE) : Asleep(u)
  <1> DEFINE q == gd_tsleep_hash[c][Chain[i]]
             T == {n \in Matching(c, i) : Asleep(q[n])}
  <1>1. Chain[i] \in Chains
    BY DEF Chains
  <1>2. q \in Seq(Threads) /\ ToSet(q) = OnQueue(c, Chain[i])
    BY <1>1, QueueSets
  <1>0. t \in OnQueue(c, Chain[i])
    BY ScannedMatch, TRUE \in BOOLEAN
  <1>3. PICK n \in DOMAIN q : q[n] = t
    BY <1>0, <1>2 DEF ToSet
  <1>4. n \in Matching(c, i)
    BY <1>3 DEF Matching
  <1>5. PICK m \in Matching(c, i) : m < n /\ Asleep(q[m])
    BY <1>3, <1>4 DEF Scanned
  <1>6. Matching(c, i) \subseteq DOMAIN q /\ DOMAIN q \subseteq Nat
    BY <1>2, LenProperties DEF Matching
  <1>7. PICK k \in T : \A l \in T : ~ (l < k)
    BY <1>5, <1>6, Smallest
  <1>8. q[k] \in Scanned(c, i, TRUE)
    BY <1>7 DEF Scanned
  <1>9. k < n
    BY <1>3, <1>5, <1>6, <1>7
  <1>10. Ahead(q, td_wchan, X)
    BY <1>1 DEF First
  <1>11. q[k] \in X
    BY <1>3, <1>6, <1>7, <1>9, <1>10 DEF Ahead, Matching
  <1> QED
    BY <1>7, <1>8, <1>11

\* What a scan of cpu c for i leaves: the queues in order, and on c none of the
\* threads that it should have woken up.
ScanDone(c, i, one, all, some) ==
    /\ QueueTypes' /\ Queues'
    /\ td_wchan' \in [Threads -> Idents \cup {NULL}]
    /\ \A t \in Threads : td_wchan'[t] = IF t \in Scanned(c, i, one) THEN NULL
                                         ELSE td_wchan[t]
    /\ owed' = (owed \cup all) \ Scanned(c, i, one)
    /\ owedOne' \subseteq (IF owedOne = {} THEN some ELSE owedOne) \ Scanned(c, i, one)
    /\ \A t \in owedOne' : ~ (CpuOf[t] = c /\ td_wchan[t] = i)
    /\ owedOne = {} /\ owedOne' # {} => \A t \in some \cap Scanned(c, i, one) : ~ Asleep(t)

\* The scan of _wakeup().
LEMMA ScanQueues ==
  ASSUME TypeOK, Queues, NEW c \in Cpus, NEW i \in Idents, NEW one \in BOOLEAN,
         NEW all \in SUBSET Threads, NEW some \in SUBSET Threads,
         \A t \in all \cup some : Queued(t), First(some), Scan(c, i, one, all, some)
  PROVE  ScanDone(c, i, one, all, some)
  <1> DEFINE S == Scanned(c, i, one)
             g == Chain[i]
             X == IF owedOne = {} THEN some ELSE owedOne
  <1>1. /\ Dequeue(c, g, S)
        /\ owed' = (owed \cup all) \ S
        /\ owedOne' = IF \E t \in X \cap S : Asleep(t) THEN {} ELSE X \ S
    BY DEF Scan, Settle
  <1>2. g \in Chains
    BY DEF Chains
  <1>3. S \in SUBSET OnQueue(c, g)
    BY ScannedMatch DEF Queues
  <1>4. X \subseteq Threads /\ First(X) /\ \A t \in X : Queued(t)
    BY DEF TypeOK, QueueTypes, Queues, OwedQueued
  <1>5. owed' \subseteq Threads /\ owedOne' \subseteq Threads
    BY <1>1, <1>4 DEF TypeOK, QueueTypes
  <1>6. owedOne' \subseteq X \ S
    BY <1>1
  <1>7. ASSUME NEW t \in owedOne' PROVE ~ (CpuOf[t] = c /\ td_wchan[t] = i)
    <2> SUFFICES ASSUME CpuOf[t] = c, td_wchan[t] = i PROVE FALSE
      OBVIOUS
    <2>1. t \in Threads \cap X /\ t \notin S
      BY <1>4, <1>6
    <2>2. CASE one
      <3>1. one = TRUE
        BY <2>2
      <3>2. \E u \in X \cap S : Asleep(u)
        BY <2>1, <3>1, <1>4, ScannedFirst DEF Queues
      <3> QED
        BY <3>2, <1>1, <1>7
    <2>3. CASE ~ one
      BY <2>1, <2>3, ScannedMatch DEF Queues
    <2> QED
      BY <2>2, <2>3
  <1> HIDE DEF S, g
  <1>8. /\ QueueTypes' /\ MaskExact'
        /\ \A u \in Threads : td_wchan'[u] = IF u \in S THEN NULL ELSE td_wchan[u]
        /\ First(X) => \A d \in Cpus, h \in Chains :
                          Ahead(gd_tsleep_hash'[d][h], td_wchan', X \ S)
    <2> HIDE DEF X
    <2> QED
      BY <1>1, <1>2, <1>3, <1>5, DequeueQueues DEF Queues
  <1>9. First(owedOne)'
    <2> HIDE DEF X
    <2>1. CASE owedOne' = {}
      BY <2>1 DEF First, Ahead
    <2>2. CASE owedOne' = X \ S
      BY <2>2, <1>4, <1>8 DEF First
    <2> QED
      BY <1>1, <2>1, <2>2
  <1>10. OwedQueued'
    <2>1. \A t \in owed : Queued(t)
      BY DEF Queues, OwedQueued
    <2> HIDE DEF X
    <2> QED
      BY <2>1, <1>1, <1>4, <1>5, <1>6, <1>8 DEF OwedQueued, Queued
  <1>11. td_wchan' \in [Threads -> Idents \cup {NULL}]
    BY <1>1 DEF Dequeue, TypeOK, ThreadTypes
  <1>12. owedOne = {} /\ owedOne' # {} => \A t \in some \cap S : ~ Asleep(t)
    BY <1>1
  <1> QED
    BY <1>1, <1>6, <1>7, <1>8, <1>9, <1>10, <1>11, <1>12 DEF ScanDone, Queues,
       S
-----------------------------------------------------------------------------
(* The steps of one thread *)

\* Steps that leave queues, IPIs and recorded wakeups alone.
LEMMA QuietStep ==
  ASSUME IInv, UNCHANGED <<sleepvars, waking, ipiq, gd_delayed_wakeup>>,
         crit' \in [Cpus -> Threads \cup {NULL}]
  PROVE  QueueTypes' /\ CpuTypes' /\ Queues' /\ Delivery'
  <1>1. QueueTypes' /\ CpuTypes'
    BY DEF IInv, TypeOK, QueueTypes, CpuTypes, sleepvars
  <1>2. Queues'
    BY DEF IInv, Queues, MaskExact, OwedQueued, First, Queued, sleepvars
  <1>3. Delivery'
    BY DEF IInv, Delivery, NoLostWakeup, OnePending, Pending, sleepvars
  <1> QED
    BY <1>1, <1>2, <1>3

\* Steps that make no new debts and drop no wakeup.
LEMMA DeliveryKept ==
  ASSUME IInv, owed' \subseteq owed, owedOne' \subseteq owedOne,
         \A t \in owed' \cup owedOne' : td_wchan'[t] = td_wchan[t],
         UNCHANGED <<waking, gd_delayed_wakeup>>,
         \A c \in Cpus, i \in Idents, b \in BOOLEAN :
             Contains(ipiq[c], Message(i, b)) => Contains(ipiq'[c], Message(i, b))
  PROVE  Delivery'
  <1>t. \A t \in owed \cup owedOne : CpuOf[t] \in Cpus /\ td_wchan[t] \in Idents
    BY ConstantsAssumption DEF IInv, Queues, OwedQueued, Queued, TypeOK,
       ThreadTypes, QueueTypes
  <1>1. ASSUME NEW t \in owed' PROVE Pending(CpuOf[t], td_wchan[t], {FALSE})'
    <2>1. Pending(CpuOf[t], td_wchan[t], {FALSE})
      BY DEF IInv, Delivery, NoLostWakeup
    <2> QED
      BY <2>1, <1>t DEF Pending
  <1>2. ASSUME NEW t \in owedOne' PROVE Pending(CpuOf[t], td_wchan[t], BOOLEAN)'
    <2>1. Pending(CpuOf[t], td_wchan[t], BOOLEAN)
      BY DEF IInv, Delivery, OnePending
    <2> QED
      BY <2>1, <1>t DEF Pending
  <1> QED
    BY <1>1, <1>2 DEF Delivery, NoLostWakeup, OnePending

\* tsleep() enters its critical section.
LEMMA TsleepStep ==
  ASSUME IInv, NEW t \in Threads, NEW a \in Sleeps[t], Tsleep(t, a)
  PROVE  IInv'
  <1>t. TypeOK /\ Places /\ TimeoutPending /\ SignalPending /\ SleeperQueued
    BY DEF IInv, States
  <1>1. UNCHANGED <<sleepvars, waking, ipiq, gd_delayed_wakeup>>
    BY DEF Tsleep
  <1>2. ThreadTypes' /\ crit' \in [Cpus -> Threads \cup {NULL}]
    BY <1>t, ConstantsAssumption DEF Tsleep, ThreadTypes, CpuTypes, TypeOK,
       lwpvars, sleepvars, Goto, Preemptible, Enter, Flags, PCs
  <1>3. Places'
    BY <1>t, <1>1, ConstantsAssumption DEF Tsleep, Places, Place, Sleeping,
       Queued, ThreadTypes, CpuTypes, TypeOK, lwpvars, sleepvars, Goto,
       Preemptible, Enter, Flags, PCs
  <1>4. TimeoutPending'
    BY <1>t, ConstantsAssumption DEF Tsleep, Places, Place, Sleeping,
       TimeoutPending, ThreadTypes, CpuTypes, TypeOK, lwpvars, sleepvars, Goto,
       Preemptible, Enter, Flags, PCs
  <1>5. SignalPending'
    BY <1>t, <1>1, ConstantsAssumption DEF Tsleep, Places, Place, Sleeping,
       SignalPending, ThreadTypes, CpuTypes, TypeOK, lwpvars, sleepvars, Goto,
       Preemptible, Enter, Flags, PCs
  <1>6. SleeperQueued'
    BY <1>t, <1>1, ConstantsAssumption DEF Tsleep, Places, Place, Sleeping,
       SleeperQueued, Queued, ThreadTypes, CpuTypes, TypeOK, lwpvars,
       sleepvars, Goto, Preemptible, Enter, Flags, PCs
  <1> QED
    BY <1>1, <1>2, <1>3, <1>4, <1>5, <1>6, QuietStep DEF IInv, TypeOK, States

\* A thread takes its signals.
LEMMA TakeSignalStep ==
  ASSUME IInv, NEW t \in Threads, TakeSignal(t)
  PROVE  IInv'
  <1>t. TypeOK /\ Places /\ TimeoutPending /\ SignalPending /\ SleeperQueued
    BY DEF IInv, States
  <1>1. UNCHANGED <<sleepvars, waking, ipiq, gd_delayed_wakeup>>
    BY DEF TakeSignal, cpuvars
  <1>2. ThreadTypes' /\ crit' \in [Cpus -> Threads \cup {NULL}]
    BY <1>t, ConstantsAssumption DEF TakeSignal, ThreadTypes, CpuTypes, TypeOK,
       sleepvars, cpuvars, Flags, PCs
  <1>3. Places'
    BY <1>t, <1>1, ConstantsAssumption DEF TakeSignal, Places, Place, Sleeping,
       Queued, ThreadTypes, CpuTypes, TypeOK, sleepvars, cpuvars, Flags, PCs
  <1>4. TimeoutPending'
    BY <1>t, ConstantsAssumption DEF TakeSignal, Places, Place, Sleeping,
       TimeoutPending, ThreadTypes, CpuTypes, TypeOK, sleepvars, cpuvars,
       Flags, PCs
  <1>5. SignalPending'
    BY <1>t, <1>1, ConstantsAssumption DEF TakeSignal, Places, Place, Sleeping,
       SignalPending, ThreadTypes, CpuTypes, TypeOK, sleepvars, cpuvars, Flags,
       PCs
  <1>6. SleeperQueued'
    BY <1>t, <1>1, ConstantsAssumption DEF TakeSignal, Places, Place, Sleeping,
       SleeperQueued, Queued, ThreadTypes, CpuTypes, TypeOK, sleepvars,
       cpuvars, Flags, PCs
  <1> QED
    BY <1>1, <1>2, <1>3, <1>4, <1>5, <1>6, QuietStep DEF IInv, TypeOK, States

\* tsleep() waits for lwp_token.
LEMMA GettokenBlockStep ==
  ASSUME IInv, NEW t \in Threads, GettokenBlock(t)
  PROVE  IInv'
  <1>t. TypeOK /\ Places /\ TimeoutPending /\ SignalPending /\ SleeperQueued
    BY DEF IInv, States
  <1>1. UNCHANGED <<sleepvars, waking, ipiq, gd_delayed_wakeup>>
    BY DEF GettokenBlock
  <1>2. ThreadTypes' /\ crit' \in [Cpus -> Threads \cup {NULL}]
    BY <1>t, ConstantsAssumption DEF GettokenBlock, ThreadTypes, CpuTypes,
       TypeOK, lwpvars, sleepvars, Inside, Leave, Flags, PCs
  <1>3. Places'
    BY <1>t, <1>1, ConstantsAssumption DEF GettokenBlock, Places, Place,
       Sleeping, Queued, ThreadTypes, CpuTypes, TypeOK, lwpvars, sleepvars,
       Inside, Leave, Flags, PCs
  <1>4. TimeoutPending'
    BY <1>t, ConstantsAssumption DEF GettokenBlock, Places, Place, Sleeping,
       TimeoutPending, ThreadTypes, CpuTypes, TypeOK, lwpvars, sleepvars,
       Inside, Leave, Flags, PCs
  <1>5. SignalPending'
    BY <1>t, <1>1, ConstantsAssumption DEF GettokenBlock, Places, Place,
       Sleeping, SignalPending, ThreadTypes, CpuTypes, TypeOK, lwpvars,
       sleepvars, Inside, Leave, Flags, PCs
  <1>6. SleeperQueued'
    BY <1>t, <1>1, ConstantsAssumption DEF GettokenBlock, Places, Place,
       Sleeping, SleeperQueued, Queued, ThreadTypes, CpuTypes, TypeOK, lwpvars,
       sleepvars, Inside, Leave, Flags, PCs
  <1> QED
    BY <1>1, <1>2, <1>3, <1>4, <1>5, <1>6, QuietStep DEF IInv, TypeOK, States

\* tsleep() returns EINTR or ERESTART before it sleeps.
LEMMA TsleepSignalStep ==
  ASSUME IInv, NEW t \in Threads, TsleepSignal(t)
  PROVE  IInv'
  <1>t. TypeOK /\ Places /\ TimeoutPending /\ SignalPending /\ SleeperQueued
    BY DEF IInv, States
  <1>1. UNCHANGED <<sleepvars, waking, ipiq, gd_delayed_wakeup>>
    BY DEF TsleepSignal
  <1>2. ThreadTypes' /\ crit' \in [Cpus -> Threads \cup {NULL}]
    BY <1>t, ConstantsAssumption DEF TsleepSignal, ThreadTypes, CpuTypes,
       TypeOK, sleepvars, Goto, Inside, Leave, Return, Flags, PCs
  <1>3. Places'
    BY <1>t, <1>1, ConstantsAssumption DEF TsleepSignal, Places, Place,
       Sleeping, Queued, ThreadTypes, CpuTypes, TypeOK, sleepvars, Goto,
       Inside, Leave, Return, Flags, PCs
  <1>4. TimeoutPending'
    BY <1>t, ConstantsAssumption DEF TsleepSignal, Places, Place, Sleeping,
       TimeoutPending, ThreadTypes, CpuTypes, TypeOK, sleepvars, Goto, Inside,
       Leave, Return, Flags, PCs
  <1>5. SignalPending'
    BY <1>t, <1>1, ConstantsAssumption DEF TsleepSignal, Places, Place,
       Sleeping, SignalPending, ThreadTypes, CpuTypes, TypeOK, sleepvars, Goto,
       Inside, Leave, Return, Flags, PCs
  <1>6. SleeperQueued'
    BY <1>t, <1>1, ConstantsAssumption DEF TsleepSignal, Places, Place,
       Sleeping, SleeperQueued, Queued, ThreadTypes, CpuTypes, TypeOK,
       sleepvars, Goto, Inside, Leave, Return, Flags, PCs
  <1> QED
    BY <1>1, <1>2, <1>3, <1>4, <1>5, <1>6, QuietStep DEF IInv, TypeOK, States

\* tsleep() has found no signal, and sets LWP_SINTR.
LEMMA TsleepLockedStep ==
  ASSUME IInv, NEW t \in Threads, TsleepLocked(t)
  PROVE  IInv'
  <1>t. TypeOK /\ Places /\ TimeoutPending /\ SignalPending /\ SleeperQueued
    BY DEF IInv, States
  <1>1. UNCHANGED <<sleepvars, waking, ipiq, gd_delayed_wakeup>>
    BY DEF TsleepLocked, cpuvars
  <1>2. ThreadTypes' /\ crit' \in [Cpus -> Threads \cup {NULL}]
    BY <1>t, ConstantsAssumption DEF TsleepLocked, ThreadTypes, CpuTypes,
       TypeOK, sleepvars, cpuvars, Goto, Inside, Flags, PCs
  <1>3. Places'
    BY <1>t, <1>1, ConstantsAssumption DEF TsleepLocked, Places, Place,
       Sleeping, Queued, ThreadTypes, CpuTypes, TypeOK, sleepvars, cpuvars,
       Goto, Inside, Flags, PCs
  <1>4. TimeoutPending'
    BY <1>t, ConstantsAssumption DEF TsleepLocked, Places, Place, Sleeping,
       TimeoutPending, ThreadTypes, CpuTypes, TypeOK, sleepvars, cpuvars, Goto,
       Inside, Flags, PCs
  <1>5. SignalPending'
    BY <1>t, <1>1, ConstantsAssumption DEF TsleepLocked, Places, Place,
       Sleeping, SignalPending, ThreadTypes, CpuTypes, TypeOK, sleepvars,
       cpuvars, Goto, Inside, Flags, PCs
  <1>6. SleeperQueued'
    BY <1>t, <1>1, ConstantsAssumption DEF TsleepLocked, Places, Place,
       Sleeping, SleeperQueued, Queued, ThreadTypes, CpuTypes, TypeOK,
       sleepvars, cpuvars, Goto, Inside, Flags, PCs
  <1> QED
    BY <1>1, <1>2, <1>3, <1>4, <1>5, <1>6, QuietStep DEF IInv, TypeOK, States

\* tsleep() finds that a wakeup came since the interlock.
LEMMA TsleepWokenStep ==
  ASSUME IInv, NEW t \in Threads, TsleepWoken(t)
  PROVE  IInv'
  <1>t. TypeOK /\ Places /\ TimeoutPending /\ SignalPending /\ SleeperQueued
    BY DEF IInv, States
  <1>1. UNCHANGED <<sleepvars, waking, ipiq, gd_delayed_wakeup>>
    BY DEF TsleepWoken
  <1>2. ThreadTypes' /\ crit' \in [Cpus -> Threads \cup {NULL}]
    BY <1>t, ConstantsAssumption DEF TsleepWoken, ThreadTypes, CpuTypes,
       TypeOK, sleepvars, Goto, Inside, Leave, Return, Flags, PCs
  <1>3. Places'
    BY <1>t, <1>1, ConstantsAssumption DEF TsleepWoken, Places, Place,
       Sleeping, Queued, ThreadTypes, CpuTypes, TypeOK, sleepvars, Goto,
       Inside, Leave, Return, Flags, PCs
  <1>4. TimeoutPending'
    BY <1>t, ConstantsAssumption DEF TsleepWoken, Places, Place, Sleeping,
       TimeoutPending, ThreadTypes, CpuTypes, TypeOK, sleepvars, Goto, Inside,
       Leave, Return, Flags, PCs
  <1>5. SignalPending'
    BY <1>t, <1>1, ConstantsAssumption DEF TsleepWoken, Places, Place,
       Sleeping, SignalPending, ThreadTypes, CpuTypes, TypeOK, sleepvars, Goto,
       Inside, Leave, Return, Flags, PCs
  <1>6. SleeperQueued'
    BY <1>t, <1>1, ConstantsAssumption DEF TsleepWoken, Places, Place,
       Sleeping, SleeperQueued, Queued, ThreadTypes, CpuTypes, TypeOK,
       sleepvars, Goto, Inside, Leave, Return, Flags, PCs
  <1> QED
    BY <1>1, <1>2, <1>3, <1>4, <1>5, <1>6, QuietStep DEF IInv, TypeOK, States

\* tsleep() arms the timeout and switches away.
LEMMA DescheduleStep ==
  ASSUME IInv, NEW t \in Threads, Deschedule(t)
  PROVE  IInv'
  <1>t. TypeOK /\ Places /\ TimeoutPending /\ SignalPending /\ SleeperQueued
    BY DEF IInv, States
  <1>1. UNCHANGED <<sleepvars, waking, ipiq, gd_delayed_wakeup>>
    BY DEF Deschedule
  <1>2. ThreadTypes' /\ crit' \in [Cpus -> Threads \cup {NULL}]
    BY <1>t, ConstantsAssumption DEF Deschedule, ThreadTypes, CpuTypes, TypeOK,
       sleepvars, Goto, Inside, Leave, Flags, PCs
  <1>3. Places'
    BY <1>t, <1>1, ConstantsAssumption DEF Deschedule, Places, Place, Sleeping,
       Queued, ThreadTypes, CpuTypes, TypeOK, sleepvars, Goto, Inside, Leave,
       Flags, PCs
  <1>4. TimeoutPending'
    <2>1. callout' = [callout EXCEPT ![t] = "timo" \in args[t]] /\ args' = args
      BY DEF Deschedule
    <2>2. callout'[t] = ("timo" \in args[t])
      BY <1>t, <2>1, Zenon DEF TypeOK, ThreadTypes
    <2>3. \A u \in Threads : u # t => callout'[u] = callout[u]
      BY <1>t, <2>1 DEF TypeOK, ThreadTypes
    <2>4. \A u \in Threads : u # t => pc'[u] = pc[u] /\ td_flags'[u] = td_flags[u]
      BY <1>t DEF TypeOK, ThreadTypes, Deschedule, Goto
    <2> QED
      BY <1>t, <2>1, <2>2, <2>3, <2>4 DEF TimeoutPending
  <1>5. SignalPending'
    BY <1>t, <1>1, ConstantsAssumption DEF Deschedule, Places, Place, Sleeping,
       SignalPending, ThreadTypes, CpuTypes, TypeOK, sleepvars, Goto, Inside,
       Leave, Flags, PCs
  <1>6. SleeperQueued'
    BY <1>t, <1>1, ConstantsAssumption DEF Deschedule, Places, Place, Sleeping,
       SleeperQueued, Queued, ThreadTypes, CpuTypes, TypeOK, sleepvars, Goto,
       Inside, Leave, Flags, PCs
  <1> QED
    BY <1>1, <1>2, <1>3, <1>4, <1>5, <1>6, QuietStep DEF IInv, TypeOK, States

\* tsleep() wakes up while its timeout waits for lwp_token.
LEMMA TimeoutRaceStep ==
  ASSUME IInv, NEW t \in Threads, TimeoutRace(t)
  PROVE  IInv'
  <1>t. TypeOK /\ Places /\ TimeoutPending /\ SignalPending /\ SleeperQueued
    BY DEF IInv, States
  <1>1. UNCHANGED <<sleepvars, waking, ipiq, gd_delayed_wakeup>>
    BY DEF TimeoutRace
  <1>2. ThreadTypes' /\ crit' \in [Cpus -> Threads \cup {NULL}]
    BY <1>t, ConstantsAssumption DEF TimeoutRace, ThreadTypes, CpuTypes,
       TypeOK, sleepvars, Goto, Inside, Leave, Flags, PCs
  <1>3. Places'
    BY <1>t, <1>1, ConstantsAssumption DEF TimeoutRace, Places, Place,
       Sleeping, Queued, ThreadTypes, CpuTypes, TypeOK, sleepvars, Goto,
       Inside, Leave, Flags, PCs
  <1>4. TimeoutPending'
    BY <1>t, ConstantsAssumption DEF TimeoutRace, Places, Place, Sleeping,
       TimeoutPending, ThreadTypes, CpuTypes, TypeOK, sleepvars, Goto, Inside,
       Leave, Flags, PCs
  <1>5. SignalPending'
    BY <1>t, <1>1, ConstantsAssumption DEF TimeoutRace, Places, Place,
       Sleeping, SignalPending, ThreadTypes, CpuTypes, TypeOK, sleepvars, Goto,
       Inside, Leave, Flags, PCs
  <1>6. SleeperQueued'
    BY <1>t, <1>1, ConstantsAssumption DEF TimeoutRace, Places, Place,
       Sleeping, SleeperQueued, Queued, ThreadTypes, CpuTypes, TypeOK,
       sleepvars, Goto, Inside, Leave, Flags, PCs
  <1> QED
    BY <1>1, <1>2, <1>3, <1>4, <1>5, <1>6, QuietStep DEF IInv, TypeOK, States

\* The scheduler runs a thread in tsleep() again.
LEMMA SwitchInStep ==
  ASSUME IInv, NEW t \in Threads, SwitchIn(t)
  PROVE  IInv'
  <1>t. TypeOK /\ Places /\ TimeoutPending /\ SignalPending /\ SleeperQueued
    BY DEF IInv, States
  <1>1. UNCHANGED <<sleepvars, waking, ipiq, gd_delayed_wakeup>>
    BY DEF SwitchIn
  <1>2. ThreadTypes' /\ crit' \in [Cpus -> Threads \cup {NULL}]
    BY <1>t, ConstantsAssumption DEF SwitchIn, ThreadTypes, CpuTypes, TypeOK,
       sleepvars, Goto, Preemptible, Enter, Flags, PCs
  <1>3. Places'
    BY <1>t, <1>1, ConstantsAssumption DEF SwitchIn, Places, Place, Sleeping,
       Queued, ThreadTypes, CpuTypes, TypeOK, sleepvars, Goto, Preemptible,
       Enter, Flags, PCs
  <1>4. TimeoutPending'
    BY <1>t, ConstantsAssumption DEF SwitchIn, Places, Place, Sleeping,
       TimeoutPending, ThreadTypes, CpuTypes, TypeOK, sleepvars, Goto,
       Preemptible, Enter, Flags, PCs
  <1>5. SignalPending'
    BY <1>t, <1>1, ConstantsAssumption DEF SwitchIn, Places, Place, Sleeping,
       SignalPending, ThreadTypes, CpuTypes, TypeOK, sleepvars, Goto,
       Preemptible, Enter, Flags, PCs
  <1>6. SleeperQueued'
    BY <1>t, <1>1, ConstantsAssumption DEF SwitchIn, Places, Place, Sleeping,
       SleeperQueued, Queued, ThreadTypes, CpuTypes, TypeOK, sleepvars, Goto,
       Preemptible, Enter, Flags, PCs
  <1> QED
    BY <1>1, <1>2, <1>3, <1>4, <1>5, <1>6, QuietStep DEF IInv, TypeOK, States

\* endtsleep() has to wait for lwp_token.
LEMMA EndTsleepBlockStep ==
  ASSUME IInv, NEW t \in Threads, EndTsleepBlock(t)
  PROVE  IInv'
  <1>t. TypeOK /\ Places /\ TimeoutPending /\ SignalPending /\ SleeperQueued
    BY DEF IInv, States
  <1>1. UNCHANGED <<sleepvars, waking, ipiq, gd_delayed_wakeup>>
    BY DEF EndTsleepBlock, cpuvars
  <1>2. ThreadTypes' /\ crit' \in [Cpus -> Threads \cup {NULL}]
    BY <1>t, ConstantsAssumption DEF EndTsleepBlock, ThreadTypes, CpuTypes,
       TypeOK, sleepvars, cpuvars, Preemptible, Flags, PCs
  <1>3. Places'
    BY <1>t, <1>1, ConstantsAssumption DEF EndTsleepBlock, Places, Place,
       Sleeping, Queued, ThreadTypes, CpuTypes, TypeOK, sleepvars, cpuvars,
       Preemptible, Flags, PCs
  <1>4. TimeoutPending'
    BY <1>t, ConstantsAssumption DEF EndTsleepBlock, Places, Place, Sleeping,
       TimeoutPending, ThreadTypes, CpuTypes, TypeOK, sleepvars, cpuvars,
       Preemptible, Flags, PCs
  <1>5. SignalPending'
    BY <1>t, <1>1, ConstantsAssumption DEF EndTsleepBlock, Places, Place,
       Sleeping, SignalPending, ThreadTypes, CpuTypes, TypeOK, sleepvars,
       cpuvars, Preemptible, Flags, PCs
  <1>6. SleeperQueued'
    BY <1>t, <1>1, ConstantsAssumption DEF EndTsleepBlock, Places, Place,
       Sleeping, SleeperQueued, Queued, ThreadTypes, CpuTypes, TypeOK,
       sleepvars, cpuvars, Preemptible, Flags, PCs
  <1> QED
    BY <1>1, <1>2, <1>3, <1>4, <1>5, <1>6, QuietStep DEF IInv, TypeOK, States

\* wakeup_start_delayed()
LEMMA StartDelayedStep ==
  ASSUME IInv, NEW t \in Threads, StartDelayed(t)
  PROVE  IInv'
  <1>t. TypeOK /\ Places /\ TimeoutPending /\ SignalPending /\ SleeperQueued
    BY DEF IInv, States
  <1>1. UNCHANGED <<sleepvars, waking, ipiq, gd_delayed_wakeup>>
    BY DEF StartDelayed, cpuvars
  <1>2. ThreadTypes' /\ crit' \in [Cpus -> Threads \cup {NULL}]
    BY <1>t, ConstantsAssumption DEF StartDelayed, ThreadTypes, CpuTypes,
       TypeOK, lwpvars, sleepvars, cpuvars, Preemptible, Flags, PCs
  <1>3. Places'
    BY <1>t, <1>1, ConstantsAssumption DEF StartDelayed, Places, Place,
       Sleeping, Queued, ThreadTypes, CpuTypes, TypeOK, lwpvars, sleepvars,
       cpuvars, Preemptible, Flags, PCs
  <1>4. TimeoutPending'
    BY <1>t, ConstantsAssumption DEF StartDelayed, Places, Place, Sleeping,
       TimeoutPending, ThreadTypes, CpuTypes, TypeOK, lwpvars, sleepvars,
       cpuvars, Preemptible, Flags, PCs
  <1>5. SignalPending'
    BY <1>t, <1>1, ConstantsAssumption DEF StartDelayed, Places, Place,
       Sleeping, SignalPending, ThreadTypes, CpuTypes, TypeOK, lwpvars,
       sleepvars, cpuvars, Preemptible, Flags, PCs
  <1>6. SleeperQueued'
    BY <1>t, <1>1, ConstantsAssumption DEF StartDelayed, Places, Place,
       Sleeping, SleeperQueued, Queued, ThreadTypes, CpuTypes, TypeOK, lwpvars,
       sleepvars, cpuvars, Preemptible, Flags, PCs
  <1> QED
    BY <1>1, <1>2, <1>3, <1>4, <1>5, <1>6, QuietStep DEF IInv, TypeOK, States

\* wakeup_end_delayed() begins.
LEMMA EndDelayedStep ==
  ASSUME IInv, NEW t \in Threads, EndDelayed(t)
  PROVE  IInv'
  <1>t. TypeOK /\ Places /\ TimeoutPending /\ SignalPending /\ SleeperQueued
    BY DEF IInv, States
  <1>1. UNCHANGED <<sleepvars, waking, ipiq, gd_delayed_wakeup>>
    BY DEF EndDelayed
  <1>2. ThreadTypes' /\ crit' \in [Cpus -> Threads \cup {NULL}]
    BY <1>t, ConstantsAssumption DEF EndDelayed, ThreadTypes, CpuTypes, TypeOK,
       lwpvars, sleepvars, Goto, Preemptible, Enter, Flags, PCs
  <1>3. Places'
    BY <1>t, <1>1, ConstantsAssumption DEF EndDelayed, Places, Place, Sleeping,
       Queued, ThreadTypes, CpuTypes, TypeOK, lwpvars, sleepvars, Goto,
       Preemptible, Enter, Flags, PCs
  <1>4. TimeoutPending'
    BY <1>t, ConstantsAssumption DEF EndDelayed, Places, Place, Sleeping,
       TimeoutPending, ThreadTypes, CpuTypes, TypeOK, lwpvars, sleepvars, Goto,
       Preemptible, Enter, Flags, PCs
  <1>5. SignalPending'
    BY <1>t, <1>1, ConstantsAssumption DEF EndDelayed, Places, Place, Sleeping,
       SignalPending, ThreadTypes, CpuTypes, TypeOK, lwpvars, sleepvars, Goto,
       Preemptible, Enter, Flags, PCs
  <1>6. SleeperQueued'
    BY <1>t, <1>1, ConstantsAssumption DEF EndDelayed, Places, Place, Sleeping,
       SleeperQueued, Queued, ThreadTypes, CpuTypes, TypeOK, lwpvars,
       sleepvars, Goto, Preemptible, Enter, Flags, PCs
  <1> QED
    BY <1>1, <1>2, <1>3, <1>4, <1>5, <1>6, QuietStep DEF IInv, TypeOK, States

\* Another thread gets lwp_token ...
LEMMA OtherGettokenStep ==
  ASSUME IInv, NEW t \in Lwps, OtherGettoken(t)
  PROVE  IInv'
  <1>t. TypeOK /\ Places /\ TimeoutPending /\ SignalPending /\ SleeperQueued
    BY DEF IInv, States
  <1>1. UNCHANGED <<sleepvars, waking, ipiq, gd_delayed_wakeup>>
    BY DEF OtherGettoken, cpuvars
  <1>2. ThreadTypes' /\ crit' \in [Cpus -> Threads \cup {NULL}]
    BY <1>t, ConstantsAssumption DEF OtherGettoken, ThreadTypes, CpuTypes,
       TypeOK, sleepvars, cpuvars, Flags, PCs
  <1>3. Places'
    BY <1>t, <1>1, ConstantsAssumption DEF OtherGettoken, Places, Place,
       Sleeping, Queued, ThreadTypes, CpuTypes, TypeOK, sleepvars, cpuvars,
       Flags, PCs
  <1>4. TimeoutPending'
    BY <1>t, ConstantsAssumption DEF OtherGettoken, Places, Place, Sleeping,
       TimeoutPending, ThreadTypes, CpuTypes, TypeOK, sleepvars, cpuvars,
       Flags, PCs
  <1>5. SignalPending'
    BY <1>t, <1>1, ConstantsAssumption DEF OtherGettoken, Places, Place,
       Sleeping, SignalPending, ThreadTypes, CpuTypes, TypeOK, sleepvars,
       cpuvars, Flags, PCs
  <1>6. SleeperQueued'
    BY <1>t, <1>1, ConstantsAssumption DEF OtherGettoken, Places, Place,
       Sleeping, SleeperQueued, Queued, ThreadTypes, CpuTypes, TypeOK,
       sleepvars, cpuvars, Flags, PCs
  <1> QED
    BY <1>1, <1>2, <1>3, <1>4, <1>5, <1>6, QuietStep DEF IInv, TypeOK, States

\* ... and releases it.
LEMMA OtherReltokenStep ==
  ASSUME IInv, NEW t \in Lwps, OtherReltoken(t)
  PROVE  IInv'
  <1>t. TypeOK /\ Places /\ TimeoutPending /\ SignalPending /\ SleeperQueued
    BY DEF IInv, States
  <1>1. UNCHANGED <<sleepvars, waking, ipiq, gd_delayed_wakeup>>
    BY DEF OtherReltoken, cpuvars
  <1>2. ThreadTypes' /\ crit' \in [Cpus -> Threads \cup {NULL}]
    BY <1>t, ConstantsAssumption DEF OtherReltoken, ThreadTypes, CpuTypes,
       TypeOK, sleepvars, cpuvars, Flags, PCs
  <1>3. Places'
    BY <1>t, <1>1, ConstantsAssumption DEF OtherReltoken, Places, Place,
       Sleeping, Queued, ThreadTypes, CpuTypes, TypeOK, sleepvars, cpuvars,
       Flags, PCs
  <1>4. TimeoutPending'
    BY <1>t, ConstantsAssumption DEF OtherReltoken, Places, Place, Sleeping,
       TimeoutPending, ThreadTypes, CpuTypes, TypeOK, sleepvars, cpuvars,
       Flags, PCs
  <1>5. SignalPending'
    BY <1>t, <1>1, ConstantsAssumption DEF OtherReltoken, Places, Place,
       Sleeping, SignalPending, ThreadTypes, CpuTypes, TypeOK, sleepvars,
       cpuvars, Flags, PCs
  <1>6. SleeperQueued'
    BY <1>t, <1>1, ConstantsAssumption DEF OtherReltoken, Places, Place,
       Sleeping, SleeperQueued, Queued, ThreadTypes, CpuTypes, TypeOK,
       sleepvars, cpuvars, Flags, PCs
  <1> QED
    BY <1>1, <1>2, <1>3, <1>4, <1>5, <1>6, QuietStep DEF IInv, TypeOK, States

\* tsleep_interlock() of a thread on no queue
LEMMA InterlockStep ==
  ASSUME IInv, NEW t \in Threads, NEW i \in On[t], Interlock(t, i)
  PROVE  IInv'
  <1>t. TypeOK /\ Places /\ TimeoutPending /\ SignalPending /\ SleeperQueued
    BY DEF IInv, States
  <1>i. i \in Idents /\ td_wchan[t] = NULL /\ Insert(t, i) /\ i # NULL
    BY ConstantsAssumption, <1>t DEF Interlock
  <1>1. QueueTypes' /\ Queues'
    BY <1>i, InsertQueues DEF IInv
  <1>2. ThreadTypes' /\ CpuTypes'
    <2>1. ThreadTypes'
      BY <1>t, <1>i, ConstantsAssumption DEF Interlock, Insert, ThreadTypes,
         CpuTypes, TypeOK, lwpvars, cpuvars, Preemptible, Flags, PCs
    <2>2. CpuTypes'
      BY <1>t, ConstantsAssumption DEF Interlock, ThreadTypes, CpuTypes,
         TypeOK, lwpvars, cpuvars, Preemptible, Flags, PCs
    <2> QED
      BY <2>1, <2>2
  <1>3. Places'
    BY <1>t, <1>i, ConstantsAssumption DEF Interlock, Insert, Places, Place,
       Sleeping, Queued, ThreadTypes, CpuTypes, TypeOK, lwpvars, cpuvars,
       Preemptible, Flags, PCs
  <1>4. TimeoutPending'
    BY <1>t, ConstantsAssumption DEF Interlock, TimeoutPending, ThreadTypes,
       CpuTypes, TypeOK, lwpvars, cpuvars, Preemptible, Flags, PCs
  <1>5. SignalPending'
    <2>1. UNCHANGED <<td_flags, sigs, args, ipiq>>
      BY DEF Interlock, lwpvars, cpuvars
    <2>2. \A u \in Threads : pc'[u] = "asleep" => pc[u] = "asleep"
      BY <1>t DEF Interlock, ThreadTypes, CpuTypes, TypeOK, lwpvars, cpuvars,
         Preemptible, Flags, PCs
    <2> QED
      BY <1>t, <2>1, <2>2, ConstantsAssumption DEF SignalPending, TypeOK,
         ThreadTypes
  <1>6. SleeperQueued'
    BY <1>t, <1>i, ConstantsAssumption DEF Interlock, Insert, SleeperQueued,
       Queued, ThreadTypes, CpuTypes, TypeOK, lwpvars, cpuvars, Preemptible,
       Flags, PCs
  <1>7. Delivery'
    <2>1. UNCHANGED <<owed, owedOne, waking, ipiq, gd_delayed_wakeup>>
      BY <1>i DEF Interlock, Insert, cpuvars
    <2>2. \A u \in owed \cup owedOne : td_wchan'[u] = td_wchan[u]
      BY <1>i, <1>t DEF Insert, IInv, Queues, OwedQueued, Queued, TypeOK,
         ThreadTypes, QueueTypes
    <2> QED
      BY <2>1, <2>2, DeliveryKept
  <1> QED
    BY <1>1, <1>2, <1>3, <1>4, <1>5, <1>6, <1>7 DEF IInv, TypeOK, States

\* tsleep_interlock() of a thread that has left its queue
LEMMA InterlockInsertStep ==
  ASSUME IInv, NEW t \in Threads, NEW i \in On[t], InterlockInsert(t, i)
  PROVE  IInv'
  <1>t. TypeOK /\ Places /\ TimeoutPending /\ SignalPending /\ SleeperQueued
    BY DEF IInv, States
  <1>i. i \in Idents /\ td_wchan[t] = NULL /\ Insert(t, i) /\ i # NULL
    BY ConstantsAssumption, <1>t DEF InterlockInsert, Places, Place, Queued
  <1>1. QueueTypes' /\ Queues'
    BY <1>i, InsertQueues DEF IInv
  <1>2. ThreadTypes' /\ CpuTypes'
    <2>1. ThreadTypes'
      BY <1>t, <1>i, ConstantsAssumption DEF InterlockInsert, Insert,
         ThreadTypes, CpuTypes, TypeOK, lwpvars, Goto, Inside, Leave, Flags,
         PCs
    <2>2. CpuTypes'
      BY <1>t, ConstantsAssumption DEF InterlockInsert, ThreadTypes, CpuTypes,
         TypeOK, lwpvars, Goto, Inside, Leave, Flags, PCs
    <2> QED
      BY <2>1, <2>2
  <1>3. Places'
    BY <1>t, <1>i, ConstantsAssumption DEF InterlockInsert, Insert, Places,
       Place, Sleeping, Queued, ThreadTypes, CpuTypes, TypeOK, lwpvars, Goto,
       Inside, Leave, Flags, PCs
  <1>4. TimeoutPending'
    BY <1>t, ConstantsAssumption DEF InterlockInsert, TimeoutPending,
       ThreadTypes, CpuTypes, TypeOK, lwpvars, Goto, Inside, Leave, Flags, PCs
  <1>5. SignalPending'
    <2>1. UNCHANGED <<td_flags, sigs, args, ipiq>>
      BY DEF InterlockInsert, lwpvars
    <2>2. \A u \in Threads : pc'[u] = "asleep" => pc[u] = "asleep"
      BY <1>t DEF InterlockInsert, ThreadTypes, CpuTypes, TypeOK, lwpvars,
         Goto, Inside, Leave, Flags, PCs
    <2> QED
      BY <1>t, <2>1, <2>2, ConstantsAssumption DEF SignalPending, TypeOK,
         ThreadTypes
  <1>6. SleeperQueued'
    BY <1>t, <1>i, ConstantsAssumption DEF InterlockInsert, Insert,
       SleeperQueued, Queued, ThreadTypes, CpuTypes, TypeOK, lwpvars, Goto,
       Inside, Leave, Flags, PCs
  <1>7. Delivery'
    <2>1. UNCHANGED <<owed, owedOne, waking, ipiq, gd_delayed_wakeup>>
      BY <1>i DEF InterlockInsert, Insert
    <2>2. \A u \in owed \cup owedOne : td_wchan'[u] = td_wchan[u]
      BY <1>i, <1>t DEF Insert, IInv, Queues, OwedQueued, Queued, TypeOK,
         ThreadTypes, QueueTypes
    <2> QED
      BY <2>1, <2>2, DeliveryKept
  <1> QED
    BY <1>1, <1>2, <1>3, <1>4, <1>5, <1>6, <1>7 DEF IInv, TypeOK, States

\* tsleep_interlock() of a thread that is still queued
LEMMA InterlockAgainStep ==
  ASSUME IInv, NEW t \in Threads, InterlockAgain(t)
  PROVE  IInv'
  <1>t. /\ TypeOK /\ Places /\ TimeoutPending /\ SignalPending /\ SleeperQueued
        /\ t \in Threads
    BY ConstantsAssumption DEF IInv, States
  <1>r. \/ RemoveThread(t)
        \/ UNCHANGED sleepvars
    BY DEF InterlockAgain
  <1>0. UNCHANGED <<waking, ipiq, gd_delayed_wakeup>>
    BY DEF InterlockAgain
  <1>1. /\ QueueTypes' /\ Queues' /\ Delivery'
        /\ td_wchan' \in [Threads -> Idents \cup {NULL}]
        /\ \A u \in Threads \ {t} : td_wchan'[u] = td_wchan[u]
        /\ td_wchan'[t] \in {NULL, td_wchan[t]}
        /\ RemoveThread(t) => td_wchan'[t] = NULL
    <2>1. CASE RemoveThread(t)
      <3>1. /\ QueueTypes' /\ Queues'
            /\ \A u \in Threads : td_wchan'[u] = IF u = t THEN NULL ELSE td_wchan[u]
            /\ td_wchan' \in [Threads -> Idents \cup {NULL}]
            /\ owed' = owed \ {t} /\ owedOne' = owedOne \ {t}
        BY <1>t, <2>1, RemoveQueues DEF IInv
      <3>2. \A u \in owed' \cup owedOne' : td_wchan'[u] = td_wchan[u]
        BY <3>1 DEF QueueTypes
      <3>3. Delivery'
        BY <3>1, <3>2, <1>0, DeliveryKept
      <3> QED
        BY <1>t, <3>1, <3>3
    <2>3. RemoveThread(t) => td_wchan'[t] = NULL
      BY <1>t, RemoveQueues DEF IInv
    <2>2. CASE UNCHANGED sleepvars
      <3>1. Delivery'
        BY <2>2, <1>0, DeliveryKept DEF sleepvars
      <3>2. QueueTypes' /\ Queues'
        BY <2>2 DEF IInv, TypeOK, Queues, MaskExact, OwedQueued, First, Queued,
           sleepvars, QueueTypes
      <3> QED
        BY <1>t, <2>2, <3>1, <3>2, <2>3 DEF sleepvars, TypeOK, ThreadTypes
    <2> QED
      BY <1>r, <2>1, <2>2
  <1>2. ThreadTypes' /\ CpuTypes'
    BY <1>t, <1>0, <1>1, ConstantsAssumption DEF InterlockAgain, ThreadTypes,
       CpuTypes, TypeOK, lwpvars, sleepvars, Goto, Preemptible, Enter, Flags,
       PCs
  <1>3. Places'
    BY <1>t, <1>1, ConstantsAssumption DEF InterlockAgain, Places, Place,
       Sleeping, Queued, ThreadTypes, CpuTypes, TypeOK, lwpvars, sleepvars,
       Goto, Preemptible, Enter, Flags, PCs
  <1>4. TimeoutPending'
    BY <1>t, ConstantsAssumption DEF InterlockAgain, Places, Place, Sleeping,
       TimeoutPending, ThreadTypes, CpuTypes, TypeOK, lwpvars, sleepvars, Goto,
       Preemptible, Enter, Flags, PCs
  <1>5. SignalPending'
    BY <1>t, <1>0, ConstantsAssumption DEF InterlockAgain, Places, Place,
       Sleeping, SignalPending, ThreadTypes, CpuTypes, TypeOK, lwpvars,
       sleepvars, Goto, Preemptible, Enter, Flags, PCs
  <1>6. SleeperQueued'
    BY <1>t, <1>1, ConstantsAssumption DEF InterlockAgain, Places, Place,
       Sleeping, SleeperQueued, Queued, ThreadTypes, CpuTypes, TypeOK, lwpvars,
       sleepvars, Goto, Preemptible, Enter, Flags, PCs
  <1> QED
    BY <1>1, <1>2, <1>3, <1>4, <1>5, <1>6 DEF IInv, TypeOK, States

\* tsleep_remove()
LEMMA CancelInterlockStep ==
  ASSUME IInv, NEW t \in Threads, CancelInterlock(t)
  PROVE  IInv'
  <1>t. /\ TypeOK /\ Places /\ TimeoutPending /\ SignalPending /\ SleeperQueued
        /\ t \in Threads
    BY ConstantsAssumption DEF IInv, States
  <1>r. \/ RemoveThread(t)
        \/ UNCHANGED sleepvars
    BY DEF CancelInterlock
  <1>0. UNCHANGED <<waking, ipiq, gd_delayed_wakeup>>
    BY DEF CancelInterlock, cpuvars
  <1>1. /\ QueueTypes' /\ Queues' /\ Delivery'
        /\ td_wchan' \in [Threads -> Idents \cup {NULL}]
        /\ \A u \in Threads \ {t} : td_wchan'[u] = td_wchan[u]
        /\ td_wchan'[t] \in {NULL, td_wchan[t]}
        /\ RemoveThread(t) => td_wchan'[t] = NULL
    <2>1. CASE RemoveThread(t)
      <3>1. /\ QueueTypes' /\ Queues'
            /\ \A u \in Threads : td_wchan'[u] = IF u = t THEN NULL ELSE td_wchan[u]
            /\ td_wchan' \in [Threads -> Idents \cup {NULL}]
            /\ owed' = owed \ {t} /\ owedOne' = owedOne \ {t}
        BY <1>t, <2>1, RemoveQueues DEF IInv
      <3>2. \A u \in owed' \cup owedOne' : td_wchan'[u] = td_wchan[u]
        BY <3>1 DEF QueueTypes
      <3>3. Delivery'
        BY <3>1, <3>2, <1>0, DeliveryKept
      <3> QED
        BY <1>t, <3>1, <3>3
    <2>3. RemoveThread(t) => td_wchan'[t] = NULL
      BY <1>t, RemoveQueues DEF IInv
    <2>2. CASE UNCHANGED sleepvars
      <3>1. Delivery'
        BY <2>2, <1>0, DeliveryKept DEF sleepvars
      <3>2. QueueTypes' /\ Queues'
        BY <2>2 DEF IInv, TypeOK, Queues, MaskExact, OwedQueued, First, Queued,
           sleepvars, QueueTypes
      <3> QED
        BY <1>t, <2>2, <3>1, <3>2, <2>3 DEF sleepvars, TypeOK, ThreadTypes
    <2> QED
      BY <1>r, <2>1, <2>2
  <1>2. ThreadTypes' /\ CpuTypes'
    BY <1>t, <1>0, <1>1, ConstantsAssumption DEF CancelInterlock, ThreadTypes,
       CpuTypes, TypeOK, lwpvars, sleepvars, cpuvars, Preemptible, Flags, PCs
  <1>3. Places'
    BY <1>t, <1>1, ConstantsAssumption DEF CancelInterlock, Places, Place,
       Sleeping, Queued, ThreadTypes, CpuTypes, TypeOK, lwpvars, sleepvars,
       cpuvars, Preemptible, Flags, PCs
  <1>4. TimeoutPending'
    BY <1>t, ConstantsAssumption DEF CancelInterlock, Places, Place, Sleeping,
       TimeoutPending, ThreadTypes, CpuTypes, TypeOK, lwpvars, sleepvars,
       cpuvars, Preemptible, Flags, PCs
  <1>5. SignalPending'
    BY <1>t, <1>0, ConstantsAssumption DEF CancelInterlock, Places, Place,
       Sleeping, SignalPending, ThreadTypes, CpuTypes, TypeOK, lwpvars,
       sleepvars, cpuvars, Preemptible, Flags, PCs
  <1>6. SleeperQueued'
    BY <1>t, <1>1, ConstantsAssumption DEF CancelInterlock, Places, Place,
       Sleeping, SleeperQueued, Queued, ThreadTypes, CpuTypes, TypeOK, lwpvars,
       sleepvars, cpuvars, Preemptible, Flags, PCs
  <1> QED
    BY <1>1, <1>2, <1>3, <1>4, <1>5, <1>6 DEF IInv, TypeOK, States

\* The end of tsleep().
LEMMA WakeStep ==
  ASSUME IInv, NEW t \in Threads, Wake(t)
  PROVE  IInv'
  <1>t. /\ TypeOK /\ Places /\ TimeoutPending /\ SignalPending /\ SleeperQueued
        /\ t \in Threads
    BY ConstantsAssumption DEF IInv, States
  <1>r. \/ RemoveThread(t)
        \/ UNCHANGED sleepvars
    BY DEF Wake
  <1>0. UNCHANGED <<waking, ipiq, gd_delayed_wakeup>>
    BY DEF Wake
  <1>1. /\ QueueTypes' /\ Queues' /\ Delivery'
        /\ td_wchan' \in [Threads -> Idents \cup {NULL}]
        /\ \A u \in Threads \ {t} : td_wchan'[u] = td_wchan[u]
        /\ td_wchan'[t] \in {NULL, td_wchan[t]}
        /\ RemoveThread(t) => td_wchan'[t] = NULL
    <2>1. CASE RemoveThread(t)
      <3>1. /\ QueueTypes' /\ Queues'
            /\ \A u \in Threads : td_wchan'[u] = IF u = t THEN NULL ELSE td_wchan[u]
            /\ td_wchan' \in [Threads -> Idents \cup {NULL}]
            /\ owed' = owed \ {t} /\ owedOne' = owedOne \ {t}
        BY <1>t, <2>1, RemoveQueues DEF IInv
      <3>2. \A u \in owed' \cup owedOne' : td_wchan'[u] = td_wchan[u]
        BY <3>1 DEF QueueTypes
      <3>3. Delivery'
        BY <3>1, <3>2, <1>0, DeliveryKept
      <3> QED
        BY <1>t, <3>1, <3>3
    <2>3. RemoveThread(t) => td_wchan'[t] = NULL
      BY <1>t, RemoveQueues DEF IInv
    <2>2. CASE UNCHANGED sleepvars
      <3>1. Delivery'
        BY <2>2, <1>0, DeliveryKept DEF sleepvars
      <3>2. QueueTypes' /\ Queues'
        BY <2>2 DEF IInv, TypeOK, Queues, MaskExact, OwedQueued, First, Queued,
           sleepvars, QueueTypes
      <3> QED
        BY <1>t, <2>2, <3>1, <3>2, <2>3 DEF sleepvars, TypeOK, ThreadTypes
    <2> QED
      BY <1>r, <2>1, <2>2
  <1>2. ThreadTypes' /\ CpuTypes'
    BY <1>t, <1>0, <1>1, ConstantsAssumption DEF Wake, ThreadTypes, CpuTypes,
       TypeOK, sleepvars, Goto, Inside, Leave, Return, Flags, PCs
  <1>3. Places'
    BY <1>t, <1>1, ConstantsAssumption DEF Wake, Places, Place, Sleeping,
       Queued, ThreadTypes, CpuTypes, TypeOK, sleepvars, Goto, Inside, Leave,
       Return, Flags, PCs
  <1>4. TimeoutPending'
    BY <1>t, ConstantsAssumption DEF Wake, Places, Place, Sleeping,
       TimeoutPending, ThreadTypes, CpuTypes, TypeOK, sleepvars, Goto, Inside,
       Leave, Return, Flags, PCs
  <1>5. SignalPending'
    BY <1>t, <1>0, ConstantsAssumption DEF Wake, Places, Place, Sleeping,
       SignalPending, ThreadTypes, CpuTypes, TypeOK, sleepvars, Goto, Inside,
       Leave, Return, Flags, PCs
  <1>6. SleeperQueued'
    BY <1>t, <1>1, ConstantsAssumption DEF Wake, Places, Place, Sleeping,
       SleeperQueued, Queued, ThreadTypes, CpuTypes, TypeOK, sleepvars, Goto,
       Inside, Leave, Return, Flags, PCs
  <1> QED
    BY <1>1, <1>2, <1>3, <1>4, <1>5, <1>6 DEF IInv, TypeOK, States

\* endtsleep() gets lwp_token at once.
LEMMA EndTsleepStep ==
  ASSUME IInv, NEW t \in Threads, EndTsleep(t)
  PROVE  IInv'
  <1>t. /\ TypeOK /\ Places /\ TimeoutPending /\ SignalPending /\ SleeperQueued
        /\ t \in Threads
    BY ConstantsAssumption DEF IInv, States
  <1>r. \/ RemoveThread(t)
        \/ UNCHANGED sleepvars
    BY DEF EndTsleep, TimedOut
  <1>0. UNCHANGED <<waking, ipiq, gd_delayed_wakeup>>
    BY DEF EndTsleep, cpuvars
  <1>1. /\ QueueTypes' /\ Queues' /\ Delivery'
        /\ td_wchan' \in [Threads -> Idents \cup {NULL}]
        /\ \A u \in Threads \ {t} : td_wchan'[u] = td_wchan[u]
        /\ td_wchan'[t] \in {NULL, td_wchan[t]}
        /\ RemoveThread(t) => td_wchan'[t] = NULL
    <2>1. CASE RemoveThread(t)
      <3>1. /\ QueueTypes' /\ Queues'
            /\ \A u \in Threads : td_wchan'[u] = IF u = t THEN NULL ELSE td_wchan[u]
            /\ td_wchan' \in [Threads -> Idents \cup {NULL}]
            /\ owed' = owed \ {t} /\ owedOne' = owedOne \ {t}
        BY <1>t, <2>1, RemoveQueues DEF IInv
      <3>2. \A u \in owed' \cup owedOne' : td_wchan'[u] = td_wchan[u]
        BY <3>1 DEF QueueTypes
      <3>3. Delivery'
        BY <3>1, <3>2, <1>0, DeliveryKept
      <3> QED
        BY <1>t, <3>1, <3>3
    <2>3. RemoveThread(t) => td_wchan'[t] = NULL
      BY <1>t, RemoveQueues DEF IInv
    <2>2. CASE UNCHANGED sleepvars
      <3>1. Delivery'
        BY <2>2, <1>0, DeliveryKept DEF sleepvars
      <3>2. QueueTypes' /\ Queues'
        BY <2>2 DEF IInv, TypeOK, Queues, MaskExact, OwedQueued, First, Queued,
           sleepvars, QueueTypes
      <3> QED
        BY <1>t, <2>2, <3>1, <3>2, <2>3 DEF sleepvars, TypeOK, ThreadTypes
    <2> QED
      BY <1>r, <2>1, <2>2
  <1>a. /\ UNCHANGED <<pc, args, crit, lwp_token, lwp_stat>>
        /\ callout'[t] => callout[t]
        /\ callout' \in [Threads -> BOOLEAN]
        /\ \A u \in Threads \ {t} : callout'[u] = callout[u]
        /\ sigs' \subseteq Lwps /\ \A u \in Threads \ {t} : u \in sigs' => u \in sigs
    BY <1>t DEF EndTsleep, TimedOut, StillAsleep, Places, Place, Sleeping,
       cpuvars, TypeOK, ThreadTypes
  <1>f. PICK F \in SUBSET Flags :
           /\ td_flags' = [td_flags EXCEPT ![t] = F]
           /\ F \in {td_flags[t] \cup {"TIMEOUT"},
                     (td_flags[t] \cup {"TIMEOUT"}) \cup {"RUNQ"}}
           /\ t \notin Lwps \/ lwp_stat[t] = "LSSLEEP" => "RUNQ" \in F
           /\ ~ (t \notin Lwps \/ lwp_stat[t] = "LSSLEEP") => td_wchan' = td_wchan
    BY <1>t DEF EndTsleep, TimedOut, StillAsleep, TypeOK, ThreadTypes, Flags,
       sleepvars
  <1>2. ThreadTypes' /\ CpuTypes'
    BY <1>t, <1>a, <1>f, <1>0, <1>1, ConstantsAssumption DEF TypeOK,
       ThreadTypes, CpuTypes
  <1>3. Places'
    BY <1>t, <1>a, <1>f, <1>1, ConstantsAssumption DEF EndTsleep, Places,
       Place, Sleeping, Queued, TypeOK, ThreadTypes
  <1>4. TimeoutPending'
    BY <1>t, <1>a, <1>f, ConstantsAssumption DEF EndTsleep, Places, Place,
       Sleeping, TimeoutPending, TypeOK, ThreadTypes
  <1>5. SignalPending'
    BY <1>t, <1>a, <1>f, <1>0, ConstantsAssumption DEF EndTsleep, Places,
       Place, Sleeping, SignalPending, TypeOK, ThreadTypes
  <1>6. SleeperQueued'
    BY <1>t, <1>a, <1>f, <1>1, ConstantsAssumption DEF EndTsleep, Places,
       Place, Sleeping, SleeperQueued, Queued, TypeOK, ThreadTypes
  <1> QED
    BY <1>1, <1>2, <1>3, <1>4, <1>5, <1>6 DEF IInv, TypeOK, States

\* endtsleep() has waited for lwp_token.
LEMMA EndTsleepResumeStep ==
  ASSUME IInv, NEW t \in Threads, EndTsleepResume(t)
  PROVE  IInv'
  <1>t. /\ TypeOK /\ Places /\ TimeoutPending /\ SignalPending /\ SleeperQueued
        /\ t \in Threads
    BY ConstantsAssumption DEF IInv, States
  <1>r. \/ RemoveThread(t)
        \/ UNCHANGED sleepvars
    BY DEF EndTsleepResume, TimedOut
  <1>0. UNCHANGED <<waking, ipiq, gd_delayed_wakeup>>
    BY DEF EndTsleepResume, cpuvars
  <1>1. /\ QueueTypes' /\ Queues' /\ Delivery'
        /\ td_wchan' \in [Threads -> Idents \cup {NULL}]
        /\ \A u \in Threads \ {t} : td_wchan'[u] = td_wchan[u]
        /\ td_wchan'[t] \in {NULL, td_wchan[t]}
        /\ RemoveThread(t) => td_wchan'[t] = NULL
    <2>1. CASE RemoveThread(t)
      <3>1. /\ QueueTypes' /\ Queues'
            /\ \A u \in Threads : td_wchan'[u] = IF u = t THEN NULL ELSE td_wchan[u]
            /\ td_wchan' \in [Threads -> Idents \cup {NULL}]
            /\ owed' = owed \ {t} /\ owedOne' = owedOne \ {t}
        BY <1>t, <2>1, RemoveQueues DEF IInv
      <3>2. \A u \in owed' \cup owedOne' : td_wchan'[u] = td_wchan[u]
        BY <3>1 DEF QueueTypes
      <3>3. Delivery'
        BY <3>1, <3>2, <1>0, DeliveryKept
      <3> QED
        BY <1>t, <3>1, <3>3
    <2>3. RemoveThread(t) => td_wchan'[t] = NULL
      BY <1>t, RemoveQueues DEF IInv
    <2>2. CASE UNCHANGED sleepvars
      <3>1. Delivery'
        BY <2>2, <1>0, DeliveryKept DEF sleepvars
      <3>2. QueueTypes' /\ Queues'
        BY <2>2 DEF IInv, TypeOK, Queues, MaskExact, OwedQueued, First, Queued,
           sleepvars, QueueTypes
      <3> QED
        BY <1>t, <2>2, <3>1, <3>2, <2>3 DEF sleepvars, TypeOK, ThreadTypes
    <2> QED
      BY <1>r, <2>1, <2>2
  <1>a. /\ UNCHANGED <<pc, args, crit, lwp_token, lwp_stat>>
        /\ callout'[t] => callout[t]
        /\ callout' \in [Threads -> BOOLEAN]
        /\ \A u \in Threads \ {t} : callout'[u] = callout[u]
        /\ sigs' \subseteq Lwps /\ \A u \in Threads \ {t} : u \in sigs' => u \in sigs
    BY <1>t DEF EndTsleepResume, TimedOut, StillAsleep, Places, Place,
       Sleeping, lwpvars, cpuvars, TypeOK, ThreadTypes
  <1>f. PICK F \in SUBSET Flags :
           /\ td_flags' = [td_flags EXCEPT ![t] = F]
           /\ F \in {td_flags[t] \ {"TIMEOUT_RUNNING"},
                     (td_flags[t] \ {"TIMEOUT_RUNNING"}) \cup {"RUNQ"}}
           /\ t \notin Lwps \/ lwp_stat[t] = "LSSLEEP" => "RUNQ" \in F
           /\ ~ (t \notin Lwps \/ lwp_stat[t] = "LSSLEEP") => td_wchan' = td_wchan
    BY <1>t DEF EndTsleepResume, TimedOut, StillAsleep, TypeOK, ThreadTypes,
       Flags, sleepvars
  <1>2. ThreadTypes' /\ CpuTypes'
    BY <1>t, <1>a, <1>f, <1>0, <1>1, ConstantsAssumption DEF TypeOK,
       ThreadTypes, CpuTypes
  <1>3. Places'
    BY <1>t, <1>a, <1>f, <1>1, ConstantsAssumption DEF EndTsleepResume, Places,
       Place, Sleeping, Queued, TypeOK, ThreadTypes
  <1>4. TimeoutPending'
    BY <1>t, <1>a, <1>f, ConstantsAssumption DEF EndTsleepResume, Places,
       Place, Sleeping, TimeoutPending, TypeOK, ThreadTypes
  <1>5. SignalPending'
    BY <1>t, <1>a, <1>f, <1>0, ConstantsAssumption DEF EndTsleepResume, Places,
       Place, Sleeping, SignalPending, TypeOK, ThreadTypes
  <1>6. SleeperQueued'
    BY <1>t, <1>a, <1>f, <1>1, ConstantsAssumption DEF EndTsleepResume, Places,
       Place, Sleeping, SleeperQueued, Queued, TypeOK, ThreadTypes
  <1> QED
    BY <1>1, <1>2, <1>3, <1>4, <1>5, <1>6 DEF IInv, TypeOK, States

\* lwp_signotify() on the cpu of the thread
LEMMA SignalLocalStep ==
  ASSUME IInv, NEW t \in Lwps, SignalLocal(t)
  PROVE  IInv'
  <1>t. /\ TypeOK /\ Places /\ TimeoutPending /\ SignalPending /\ SleeperQueued
        /\ t \in Threads
    BY ConstantsAssumption DEF IInv, States
  <1>r. \/ RemoveThread(t)
        \/ UNCHANGED sleepvars
    BY DEF SignalLocal
  <1>0. UNCHANGED <<waking, ipiq, gd_delayed_wakeup>>
    BY DEF SignalLocal, cpuvars
  <1>1. /\ QueueTypes' /\ Queues' /\ Delivery'
        /\ td_wchan' \in [Threads -> Idents \cup {NULL}]
        /\ \A u \in Threads \ {t} : td_wchan'[u] = td_wchan[u]
        /\ td_wchan'[t] \in {NULL, td_wchan[t]}
        /\ RemoveThread(t) => td_wchan'[t] = NULL
    <2>1. CASE RemoveThread(t)
      <3>1. /\ QueueTypes' /\ Queues'
            /\ \A u \in Threads : td_wchan'[u] = IF u = t THEN NULL ELSE td_wchan[u]
            /\ td_wchan' \in [Threads -> Idents \cup {NULL}]
            /\ owed' = owed \ {t} /\ owedOne' = owedOne \ {t}
        BY <1>t, <2>1, RemoveQueues DEF IInv
      <3>2. \A u \in owed' \cup owedOne' : td_wchan'[u] = td_wchan[u]
        BY <3>1 DEF QueueTypes
      <3>3. Delivery'
        BY <3>1, <3>2, <1>0, DeliveryKept
      <3> QED
        BY <1>t, <3>1, <3>3
    <2>3. RemoveThread(t) => td_wchan'[t] = NULL
      BY <1>t, RemoveQueues DEF IInv
    <2>2. CASE UNCHANGED sleepvars
      <3>1. Delivery'
        BY <2>2, <1>0, DeliveryKept DEF sleepvars
      <3>2. QueueTypes' /\ Queues'
        BY <2>2 DEF IInv, TypeOK, Queues, MaskExact, OwedQueued, First, Queued,
           sleepvars, QueueTypes
      <3> QED
        BY <1>t, <2>2, <3>1, <3>2, <2>3 DEF sleepvars, TypeOK, ThreadTypes
    <2> QED
      BY <1>r, <2>1, <2>2
  <1>a. /\ UNCHANGED <<pc, args, crit, lwp_token, lwp_stat>>
        /\ callout'[t] => callout[t]
        /\ callout' \in [Threads -> BOOLEAN]
        /\ \A u \in Threads \ {t} : callout'[u] = callout[u]
        /\ sigs' \subseteq Lwps /\ \A u \in Threads \ {t} : u \in sigs' => u \in sigs
    BY <1>t DEF SignalLocal, Places, Place, Sleeping, cpuvars, TypeOK,
       ThreadTypes
  <1>f. PICK F \in SUBSET Flags :
           /\ td_flags' = [td_flags EXCEPT ![t] = F]
           /\ F \in {td_flags[t], td_flags[t] \cup {"RUNQ"}}
           /\ "SINTR" \in td_flags[t] /\ lwp_stat[t] = "LSSLEEP" => "RUNQ" \in F
           /\ ~ ("SINTR" \in td_flags[t] /\ lwp_stat[t] = "LSSLEEP") => td_wchan' = td_wchan
    BY <1>t DEF SignalLocal, TypeOK, ThreadTypes, Flags, sleepvars
  <1>2. ThreadTypes' /\ CpuTypes'
    BY <1>t, <1>a, <1>f, <1>0, <1>1, ConstantsAssumption DEF TypeOK,
       ThreadTypes, CpuTypes
  <1>3. Places'
    BY <1>t, <1>a, <1>f, <1>1, ConstantsAssumption DEF SignalLocal, Places,
       Place, Sleeping, Queued, TypeOK, ThreadTypes
  <1>4. TimeoutPending'
    BY <1>t, <1>a, <1>f, ConstantsAssumption DEF SignalLocal, Places, Place,
       Sleeping, TimeoutPending, TypeOK, ThreadTypes
  <1>5. SignalPending'
    BY <1>t, <1>a, <1>f, <1>0, ConstantsAssumption DEF SignalLocal, Places,
       Place, Sleeping, SignalPending, TypeOK, ThreadTypes
  <1>6. SleeperQueued'
    <2> SUFFICES ASSUME NEW u \in Threads, pc[u] = "asleep", "RUNQ" \notin td_flags'[u]
                 PROVE  td_wchan'[u] # NULL
      BY <1>a DEF SleeperQueued, Queued
    <2>1. CASE u = t
      <3>1. "RUNQ" \notin F
        BY <1>t, <1>f, <2>1 DEF TypeOK, ThreadTypes
      <3>2. "RUNQ" \notin td_flags[t] /\ td_wchan' = td_wchan
        BY <1>f, <3>1
      <3> QED
        BY <1>t, <2>1, <3>2 DEF SleeperQueued, Queued
    <2>2. CASE u # t
      BY <1>t, <1>1, <1>f, <2>2 DEF SleeperQueued, Queued, TypeOK, ThreadTypes
    <2> QED
      BY <2>1, <2>2
  <1> QED
    BY <1>1, <1>2, <1>3, <1>4, <1>5, <1>6 DEF IInv, TypeOK, States
-----------------------------------------------------------------------------
(* Wakeups and IPIs *)

\* An IPI is queued behind the others ...
LEMMA AppendContains ==
  ASSUME NEW S, NEW s \in Seq(S), NEW e \in S, NEW x
  PROVE  Contains(Append(s, e), x) <=> Contains(s, x) \/ x = e
  <1>1. Append(s, e) \in Seq(S) /\ ToSet(Append(s, e)) = ToSet(s) \cup {e}
    BY AppendQueue
  <1> QED
    BY <1>1, ContainsToSet

\* ... and the first one is taken.
LEMMA TailContains ==
  ASSUME NEW S, NEW s \in Seq(S), s # <<>>, NEW x, Contains(s, x)
  PROVE  x = Head(s) \/ Contains(Tail(s), x)
  <1>1. /\ Len(Tail(s)) = Len(s) - 1 /\ Len(s) \in Nat
        /\ \A k \in 1 .. Len(Tail(s)) : Tail(s)[k] = s[k + 1]
    BY HeadTailProperties, LenProperties
  <1>2. PICK n \in 1 .. Len(s) : s[n] = x
    BY DEF Contains
  <1>3. CASE n = 1
    BY <1>2, <1>3
  <1>4. CASE n # 1
    <2>1. n - 1 \in 1 .. Len(Tail(s)) /\ Tail(s)[n - 1] = s[n]
      BY <1>1, <1>4
    <2> QED
      BY <1>2, <2>1 DEF Contains
  <1> QED
    BY <1>3, <1>4

\* The IPI of lwp_signotify()
Signotify(t) == [fn |-> "signotify", td |-> t]

\* No such IPI is lost in this step.
SignalsKept == \A t \in Threads : Contains(ipiq[CpuOf[t]], Signotify(t))
                                     => Contains(ipiq[CpuOf[t]], Signotify(t))'

\* Threads are taken off the queues, and those that are asleep are scheduled.
LEMMA TakenStates ==
  ASSUME IInv, NEW S, UNCHANGED <<lwpvars, pc, args, crit>>, SignalsKept,
         \A t \in Threads : td_wchan'[t] = IF t \in S THEN NULL ELSE td_wchan[t],
         td_flags' = [t \in Threads |-> IF t \in S /\ Asleep(t) THEN td_flags[t] \cup {"RUNQ"}
                                        ELSE td_flags[t]],
         td_wchan' \in [Threads -> Idents \cup {NULL}]
  PROVE  ThreadTypes' /\ States'
  <1>t. TypeOK /\ Places /\ TimeoutPending /\ SignalPending /\ SleeperQueued
    BY DEF IInv, States
  <1>f. \A t \in Threads : /\ td_flags[t] \subseteq td_flags'[t]
                           /\ td_flags'[t] \subseteq td_flags[t] \cup {"RUNQ"}
    OBVIOUS
  <1>1. ThreadTypes'
    BY <1>t DEF TypeOK, ThreadTypes, lwpvars, Flags
  <1>2. Places'
    BY <1>t, <1>f DEF Places, Place, Sleeping, Queued, lwpvars
  <1>3. TimeoutPending'
    BY <1>t, <1>f DEF TimeoutPending, lwpvars
  <1>4. SignalPending'
    BY <1>t, <1>f, ConstantsAssumption DEF SignalPending, SignalsKept,
       Signotify, lwpvars, TypeOK, ThreadTypes
  <1>5. SleeperQueued'
    BY <1>t DEF SleeperQueued, Queued, Asleep, Places, Place, Sleeping
  <1> QED
    BY <1>1, <1>2, <1>3, <1>4, <1>5 DEF States

\* No thread changes.
LEMMA SameStates ==
  ASSUME IInv, UNCHANGED <<td_wchan, td_flags, lwpvars, pc, args, crit>>, SignalsKept
  PROVE  ThreadTypes' /\ States'
  <1>1. /\ td_flags \in [Threads -> SUBSET Flags]
        /\ td_wchan' \in [Threads -> Idents \cup {NULL}]
    BY DEF IInv, TypeOK, ThreadTypes
  <1>e. PICK S : S = {}
    OBVIOUS
  <1>2. td_flags' = [t \in Threads |-> IF t \in S /\ Asleep(t) THEN td_flags[t] \cup {"RUNQ"}
                                       ELSE td_flags[t]]
    BY <1>1, <1>e
  <1>3. \A t \in Threads : td_wchan'[t] = IF t \in S THEN NULL ELSE td_wchan[t]
    BY <1>e
  <1> QED
    BY <1>1, <1>2, <1>3, TakenStates

\* A step that scans the queues of cpu c for i is correct if it drops no other
\* wakeup than one of i to c, and has new ones under way to those it now owes.
LEMMA ScanStep ==
  ASSUME IInv, NEW c \in Cpus, NEW i \in Idents, NEW one \in BOOLEAN,
         NEW all \in SUBSET Threads, NEW some \in SUBSET Threads,
         \A t \in all \cup some : Queued(t), First(some), Scan(c, i, one, all, some),
         UNCHANGED <<lwpvars, pc, args, crit>>, SignalsKept, CpuTypes',
         \A d \in Cpus, j \in Idents : Pending(d, j, {FALSE}) =>
             Pending(d, j, {FALSE})' \/ (d = c /\ j = i /\ ~ one),
         \A d \in Cpus, j \in Idents : Pending(d, j, BOOLEAN) =>
             Pending(d, j, BOOLEAN)' \/ (d = c /\ j = i),
         \A t \in all \ Scanned(c, i, one), d \in Cpus, j \in Idents :
             d = CpuOf[t] /\ j = td_wchan[t] => Pending(d, j, {FALSE})',
         (\A t \in some \cap Scanned(c, i, one) : ~ Asleep(t)) =>
             \A t \in some \ Scanned(c, i, one), d \in Cpus, j \in Idents :
                 d = CpuOf[t] /\ j = td_wchan[t] /\ ~ (d = c /\ j = i)
                     => Pending(d, j, BOOLEAN)'
  PROVE  IInv'
  <1> DEFINE S == Scanned(c, i, one)
  <1>t. TypeOK /\ Queues
    BY DEF IInv
  <1>0. ScanDone(c, i, one, all, some)
    BY <1>t, ScanQueues
  <1>1. /\ QueueTypes' /\ Queues'
        /\ td_wchan' \in [Threads -> Idents \cup {NULL}]
        /\ \A t \in Threads : td_wchan'[t] = IF t \in S THEN NULL ELSE td_wchan[t]
        /\ owed' = (owed \cup all) \ S
        /\ owedOne' \subseteq (IF owedOne = {} THEN some ELSE owedOne) \ S
        /\ \A t \in owedOne' : ~ (CpuOf[t] = c /\ td_wchan[t] = i)
        /\ owedOne = {} /\ owedOne' # {} => \A t \in some \cap S : ~ Asleep(t)
    BY <1>0 DEF ScanDone
  <1>2. td_flags' = [t \in Threads |-> IF t \in S /\ Asleep(t) THEN td_flags[t] \cup {"RUNQ"}
                                       ELSE td_flags[t]]
    BY DEF Scan
  <1>3. ThreadTypes' /\ States'
    <2> HIDE DEF S
    <2> QED
      BY <1>1, <1>2, TakenStates
  <1>4. ASSUME NEW t \in Threads, Queued(t) PROVE CpuOf[t] \in Cpus /\ td_wchan[t] \in Idents
    BY <1>4, <1>t, ConstantsAssumption DEF Queued, TypeOK, ThreadTypes
  <1>5. NoLostWakeup'
    <2> SUFFICES ASSUME NEW t \in owed', NEW d, NEW j, d = CpuOf[t], j = td_wchan'[t]
                 PROVE  Pending(d, j, {FALSE})'
      BY DEF NoLostWakeup
    <2>1. t \in Threads /\ t \notin S /\ td_wchan'[t] = td_wchan[t] /\ t \in owed \cup all
      BY <1>1 DEF QueueTypes
    <2>2. Queued(t)
      BY <1>t, <2>1 DEF Queues, OwedQueued
    <2>3. d \in Cpus /\ j \in Idents /\ j = td_wchan[t]
      BY <1>4, <2>1, <2>2
    <2>4. ~ (d = c /\ j = i /\ ~ one)
      BY <1>t, <2>1, <2>3, ScannedMatch DEF Queues
    <2>5. CASE Pending(d, j, {FALSE})
      BY <2>3, <2>4, <2>5
    <2>6. CASE ~ Pending(d, j, {FALSE})
      <3>1. t \in all \ S
        BY <2>1, <2>3, <2>6 DEF IInv, Delivery, NoLostWakeup
      <3> QED
        BY <2>3, <2>6, <3>1
    <2> QED
      BY <2>5, <2>6
  <1>6. OnePending'
    <2> SUFFICES ASSUME NEW t \in owedOne', NEW d, NEW j, d = CpuOf[t], j = td_wchan'[t]
                 PROVE  Pending(d, j, BOOLEAN)'
      BY DEF OnePending
    <2>1. t \in Threads /\ t \notin S /\ td_wchan'[t] = td_wchan[t]
      BY <1>1 DEF QueueTypes
    <2>2. CASE owedOne = {}
      <3>1. t \in some \ S /\ \A u \in some \cap S : ~ Asleep(u)
        BY <1>1, <2>2
      <3>2. d \in Cpus /\ j \in Idents /\ j = td_wchan[t]
        BY <1>4, <2>1, <3>1
      <3> QED
        BY <1>1, <2>1, <3>1, <3>2
    <2>3. CASE owedOne # {}
      <3>1. t \in owedOne
        BY <1>1, <2>3
      <3>2. d \in Cpus /\ j \in Idents /\ j = td_wchan[t]
        BY <1>4, <1>t, <2>1, <3>1 DEF Queues, OwedQueued
      <3>3. Pending(d, j, BOOLEAN)
        BY <3>1, <3>2 DEF IInv, Delivery, OnePending
      <3> QED
        BY <1>1, <3>2, <3>3
    <2> QED
      BY <2>2, <2>3
  <1> QED
    BY <1>1, <1>3, <1>5, <1>6 DEF IInv, TypeOK, Delivery

\* The threads that sleep on i are queued, and are all of their ident.
LEMMA SleepersFirst ==
  ASSUME TypeOK, NEW i \in Idents
  PROVE  First(Sleepers(i)) /\ First({}) /\ \A t \in Sleepers(i) : Queued(t)
  <1>1. \A c \in Cpus, h \in Chains : gd_tsleep_hash[c][h] \in Seq(Threads)
    BY DEF TypeOK, QueueTypes
  <1>2. First(Sleepers(i))
    <2> SUFFICES ASSUME NEW c \in Cpus, NEW h \in Chains
                 PROVE  Ahead(gd_tsleep_hash[c][h], td_wchan, Sleepers(i))
      BY DEF First
    <2>1. \A n \in DOMAIN gd_tsleep_hash[c][h] : gd_tsleep_hash[c][h][n] \in Threads
      BY <1>1
    <2> QED
      BY <2>1 DEF Ahead, Sleepers
  <1>3. First({})
    BY DEF First, Ahead
  <1>4. \A t \in Sleepers(i) : Queued(t)
    BY ConstantsAssumption DEF Sleepers, Queued
  <1> QED
    BY <1>2, <1>3, <1>4

\* wakeup_mycpu() owes nobody but the threads of its cpu anything.
LEMMA WakeupMyCpuStep ==
  ASSUME IInv, NEW c \in Cpus, NEW i \in Idents, NEW one \in BOOLEAN, WakeupMyCpu(c, i, one)
  PROVE  IInv'
  <1>1. Scan(c, i, one, {}, {}) /\ UNCHANGED <<lwpvars, pc, args, cpuvars>>
    BY DEF WakeupMyCpu
  <1>2. SignalsKept /\ CpuTypes'
    BY <1>1 DEF SignalsKept, cpuvars, IInv, TypeOK, CpuTypes
  <1>3. \A d \in Cpus, j \in Idents, ones \in {{FALSE}, BOOLEAN} :
           Pending(d, j, ones) => Pending(d, j, ones)'
    BY <1>1 DEF Pending, cpuvars
  <1>4. First({})
    BY SleepersFirst DEF IInv
  <1> QED
    BY <1>1, <1>2, <1>3, <1>4, ScanStep DEF cpuvars

\* wakeup() and wakeup_one(): the threads on other cpus are owed the wakeup
\* that is about to be forwarded, unless wakeup_one() is done.
LEMMA WakeupStep ==
  ASSUME IInv, NEW c \in Cpus, NEW i \in Idents, NEW one \in BOOLEAN, Wakeup(c, i, one)
  PROVE  IInv'
  <1> DEFINE all == All(i, one)
             some == Some(i, one)
  <1>t. TypeOK /\ MaskExact
    BY DEF IInv, Queues
  <1>1. /\ Scan(c, i, one, all, some)
        /\ waking[c] = NULL
        /\ waking' = [waking EXCEPT ![c] = IF Done(c, i, one) THEN NULL ELSE Message(i, one)]
        /\ UNCHANGED <<lwpvars, pc, args, crit, ipiq, gd_delayed_wakeup>>
    BY DEF Wakeup, Preemptible
  <1>2. SignalsKept /\ CpuTypes'
    BY <1>1 DEF SignalsKept, IInv, TypeOK, CpuTypes, Message, Messages
  <1>3. \A d \in Cpus, j \in Idents, ones \in {{FALSE}, BOOLEAN} :
           Pending(d, j, ones) => Pending(d, j, ones)'
    <2>1. \A d \in Cpus \ {c} : waking'[d] = waking[d]
      BY <1>1, <1>t DEF TypeOK, CpuTypes
    <2>2. \A j \in Idents, b \in BOOLEAN : waking[c] # Message(j, b)
      BY <1>1, ConstantsAssumption DEF Message, Messages
    <2> QED
      BY <2>1, <2>2, <1>1 DEF Pending
  <1>4. /\ all \in SUBSET Threads /\ some \in SUBSET Threads /\ First(some)
        /\ \A t \in all \cup some : Queued(t) /\ td_wchan[t] = i
        /\ all # {} => ~ one
        /\ some # {} => one
    BY <1>t, SleepersFirst DEF All, Some, Sleepers
  <1>5. ASSUME NEW t \in all \ Scanned(c, i, one)
        PROVE  Pending(CpuOf[t], i, {FALSE})'
    <2>1. CpuOf[t] # c /\ one = FALSE
      BY <1>4, <1>t, ScannedMatch
    <2>2. waking'[c] = Message(i, FALSE)
      BY <1>1, <2>1, <1>t DEF TypeOK, CpuTypes, Done
    <2> QED
      BY <2>1, <2>2 DEF Pending
  <1>6. ASSUME \A t \in some \cap Scanned(c, i, one) : ~ Asleep(t),
               NEW t \in some \ Scanned(c, i, one), CpuOf[t] # c
        PROVE  Pending(CpuOf[t], i, BOOLEAN)'
    <2>1. Scanned(c, i, one) \subseteq some
      BY <1>4, <1>6, <1>t, ScannedMatch DEF Some, Sleepers, OnQueue
    <2>2. waking'[c] = Message(i, one)
      BY <1>1, <1>6, <2>1, <1>t DEF TypeOK, CpuTypes, Done
    <2> QED
      BY <1>6, <2>2 DEF Pending
  <1> HIDE DEF all, some
  <1> QED
    BY <1>1, <1>2, <1>3, <1>4, <1>5, <1>6, ScanStep

\* A third delayed wakeup() does the oldest and records the new one.
LEMMA RecordThirdStep ==
  ASSUME IInv, NEW t \in Threads, NEW i \in Idents, RecordThird(t, i)
  PROVE  IInv'
  <1> DEFINE c == CpuOf[t]
             oldest == Head(gd_delayed_wakeup[c])
             all == All(i, FALSE)
  <1>t. TypeOK /\ MaskExact /\ c \in Cpus
    BY ConstantsAssumption DEF IInv, Queues
  <1>1. /\ Scan(c, oldest, FALSE, all, {})
        /\ waking[c] = NULL /\ Len(gd_delayed_wakeup[c]) = 2
        /\ waking' = [waking EXCEPT ![c] = Message(oldest, FALSE)]
        /\ gd_delayed_wakeup' = [gd_delayed_wakeup EXCEPT ![c] = <<@[2], i>>]
        /\ UNCHANGED <<lwpvars, pc, args, crit, ipiq>>
    BY DEF RecordThird, Preemptible
  <1>d. /\ gd_delayed_wakeup[c] \in Seq(Idents)
        /\ oldest = gd_delayed_wakeup[c][1]
        /\ gd_delayed_wakeup[c][1] \in Idents /\ gd_delayed_wakeup[c][2] \in Idents
    <2>1. gd_delayed_wakeup[c] \in Seq(Idents)
      BY <1>t DEF TypeOK, CpuTypes
    <2> QED
      BY <1>1, <2>1
  <1>w. /\ waking'[c] = Message(oldest, FALSE)
        /\ \A d \in Cpus \ {c} : /\ waking'[d] = waking[d]
                                /\ gd_delayed_wakeup'[d] = gd_delayed_wakeup[d]
        /\ gd_delayed_wakeup'[c] = <<gd_delayed_wakeup[c][2], i>>
    BY <1>1, <1>t DEF TypeOK, CpuTypes
  <1>2. SignalsKept /\ CpuTypes'
    <2>1. SignalsKept
      BY <1>1 DEF SignalsKept
    <2>2. /\ <<gd_delayed_wakeup[c][2], i>> \in Seq(Idents)
          /\ Len(<<gd_delayed_wakeup[c][2], i>>) = 2
      BY <1>d
    <2>3. gd_delayed_wakeup' \in [Cpus -> Seq(Idents)]
      BY <2>2, <1>1, <1>t DEF TypeOK, CpuTypes
    <2>4. \A d \in Cpus : Len(gd_delayed_wakeup'[d]) <= 2
      <3>1. \A d \in Cpus \ {c} : Len(gd_delayed_wakeup'[d]) <= 2
        BY <1>w, <1>t DEF TypeOK, CpuTypes
      <3>2. Len(gd_delayed_wakeup'[c]) <= 2
        BY <2>2, <1>w
      <3> QED
        BY <3>1, <3>2
    <2>5. waking' \in [Cpus -> Messages \cup {NULL}]
      BY <1>1, <1>d, <1>t DEF TypeOK, CpuTypes, Message, Messages
    <2> QED
      BY <2>1, <2>3, <2>4, <2>5, <1>1, <1>t DEF TypeOK, CpuTypes
  <1>3. \A d \in Cpus, j \in Idents, ones \in {{FALSE}, BOOLEAN} :
           Pending(d, j, ones) => Pending(d, j, ones)' \/ (d = c /\ j = oldest)
    <2>2. \A j \in Idents, b \in BOOLEAN : waking[c] # Message(j, b)
      BY <1>1, ConstantsAssumption DEF Message, Messages
    <2>3. \A j \in Idents : Contains(gd_delayed_wakeup[c], j) =>
                               j = oldest \/ Contains(gd_delayed_wakeup'[c], j)
      BY <1>1, <1>d, <1>w DEF Contains
    <2>4. \A d \in Cpus, j \in Idents : Contains(gd_delayed_wakeup[d], j) =>
             Contains(gd_delayed_wakeup'[d], j) \/ (d = c /\ j = oldest)
      BY <2>3, <1>w
    <2>5. ipiq' = ipiq
      BY <1>1
    <2> HIDE DEF oldest, c
    <2> QED
      BY <2>2, <2>4, <2>5, <1>w, <1>t DEF Pending
  <1>4. /\ all \in SUBSET Threads /\ First({})
        /\ \A u \in all : Queued(u) /\ td_wchan[u] = i
    BY <1>t, SleepersFirst DEF All, Sleepers
  <1>5. \A d \in Cpus : Pending(d, i, {FALSE})'
    <2>1. Contains(gd_delayed_wakeup'[c], i)
      BY <1>w DEF Contains
    <2> QED
      BY <2>1, <1>t DEF Pending
  <1> HIDE DEF all, oldest, c
  <1>6. oldest \in Idents
    BY <1>d
  <1>7. /\ \A d \in Cpus, j \in Idents : Pending(d, j, {FALSE}) =>
              Pending(d, j, {FALSE})' \/ (d = c /\ j = oldest /\ ~ FALSE)
        /\ \A d \in Cpus, j \in Idents : Pending(d, j, BOOLEAN) =>
              Pending(d, j, BOOLEAN)' \/ (d = c /\ j = oldest)
    BY <1>3
  <1>8. \A u \in all \ Scanned(c, oldest, FALSE), d \in Cpus, j \in Idents :
           d = CpuOf[u] /\ j = td_wchan[u] => Pending(d, j, {FALSE})'
    BY <1>4, <1>5
  <1> QED
    BY <1>1, <1>2, <1>4, <1>6, <1>7, <1>8, <1>t, ScanStep

\* wakeup_end_delayed() does what was recorded.
LEMMA FlushStep ==
  ASSUME IInv, NEW t \in Threads, Flush(t)
  PROVE  IInv'
  <1> DEFINE c == CpuOf[t]
             oldest == Head(gd_delayed_wakeup[c])
  <1>t. /\ TypeOK /\ Places /\ TimeoutPending /\ SignalPending /\ SleeperQueued
        /\ c \in Cpus
    BY ConstantsAssumption DEF IInv, States
  <1>1. CASE gd_delayed_wakeup[c] = <<>>
    <2>1. /\ pc[t] = "flush" /\ Goto(t, "run") /\ Leave(t) /\ Inside(t)
          /\ UNCHANGED <<sleepvars, td_flags, waking, gd_delayed_wakeup, lwpvars, args, ipiq>>
      BY <1>1 DEF Flush
    <2>2. ThreadTypes' /\ crit' \in [Cpus -> Threads \cup {NULL}]
      BY <2>1, <1>t DEF TypeOK, ThreadTypes, CpuTypes, PCs, Goto, Leave,
         lwpvars, sleepvars
    <2>3. Places'
      BY <2>1, <1>t DEF TypeOK, ThreadTypes, CpuTypes, PCs, Goto, Leave,
         Inside, lwpvars, sleepvars, Places, Place, Sleeping, Queued
    <2>4. TimeoutPending'
      BY <2>1, <1>t DEF TypeOK, ThreadTypes, Goto, lwpvars, TimeoutPending
    <2>5. SignalPending'
      BY <2>1, <1>t DEF TypeOK, ThreadTypes, Goto, lwpvars, SignalPending
    <2>6. SleeperQueued'
      BY <2>1, <1>t DEF TypeOK, ThreadTypes, Goto, sleepvars, SleeperQueued,
         Queued
    <2> QED
      BY <2>1, <2>2, <2>3, <2>4, <2>5, <2>6, QuietStep DEF IInv, TypeOK, States
  <1>2. CASE gd_delayed_wakeup[c] # <<>>
    <2>1. /\ Scan(c, oldest, FALSE, {}, {})
          /\ waking[c] = NULL
          /\ waking' = [waking EXCEPT ![c] = Message(oldest, FALSE)]
          /\ gd_delayed_wakeup' = [gd_delayed_wakeup EXCEPT ![c] = Tail(@)]
          /\ UNCHANGED <<lwpvars, pc, args, crit, ipiq>>
      BY <1>2 DEF Flush, Inside
    <2>d. gd_delayed_wakeup[c] \in Seq(Idents)
      BY <1>t DEF TypeOK, CpuTypes
    <2>e. /\ oldest \in Idents /\ Tail(gd_delayed_wakeup[c]) \in Seq(Idents)
          /\ Len(Tail(gd_delayed_wakeup[c])) = Len(gd_delayed_wakeup[c]) - 1
      BY <1>2, <2>d, HeadTailProperties
    <2>w. /\ waking'[c] = Message(oldest, FALSE)
          /\ \A d \in Cpus \ {c} : /\ waking'[d] = waking[d]
                                   /\ gd_delayed_wakeup'[d] = gd_delayed_wakeup[d]
          /\ gd_delayed_wakeup'[c] = Tail(gd_delayed_wakeup[c])
      BY <2>1, <1>t DEF TypeOK, CpuTypes
    <2>2. SignalsKept /\ CpuTypes'
      <3>1. SignalsKept
        BY <2>1 DEF SignalsKept
      <3>2. gd_delayed_wakeup' \in [Cpus -> Seq(Idents)]
        BY <2>e, <2>1, <1>t DEF TypeOK, CpuTypes
      <3>3. \A d \in Cpus \ {c} : Len(gd_delayed_wakeup'[d]) <= 2
        BY <2>w, <1>t DEF TypeOK, CpuTypes
      <3>4. Len(gd_delayed_wakeup'[c]) <= 2
        BY <2>w, <2>e, <2>d, <1>t, LenProperties DEF TypeOK, CpuTypes
      <3>5. waking' \in [Cpus -> Messages \cup {NULL}]
        BY <2>1, <2>e, <1>t DEF TypeOK, CpuTypes, Message, Messages
      <3> QED
        BY <3>1, <3>2, <3>3, <3>4, <3>5, <2>1, <1>t DEF TypeOK, CpuTypes
    <2>3. \A d \in Cpus, j \in Idents, ones \in {{FALSE}, BOOLEAN} :
             Pending(d, j, ones) => Pending(d, j, ones)' \/ (d = c /\ j = oldest)
      <3>1. \A j \in Idents, b \in BOOLEAN : waking[c] # Message(j, b)
        BY <2>1, ConstantsAssumption DEF Message, Messages
      <3>2. \A j \in Idents : Contains(gd_delayed_wakeup[c], j) =>
                                 j = oldest \/ Contains(Tail(gd_delayed_wakeup[c]), j)
        BY <1>2, <2>d, TailContains
      <3>3. \A d \in Cpus, j \in Idents : Contains(gd_delayed_wakeup[d], j) =>
               Contains(gd_delayed_wakeup'[d], j) \/ (d = c /\ j = oldest)
        BY <3>2, <2>w
      <3>4. ipiq' = ipiq
        BY <2>1
      <3> HIDE DEF oldest, c
      <3> QED
        BY <3>1, <3>3, <3>4, <2>w, <1>t DEF Pending
    <2> HIDE DEF oldest, c
    <2>4. First({})
      BY <1>t, <2>e, SleepersFirst
    <2>o. PICK one \in BOOLEAN : one = FALSE
      OBVIOUS
    <2>s. Scan(c, oldest, one, {}, {})
      BY <2>1, <2>o
    <2>5. /\ \A d \in Cpus, j \in Idents : Pending(d, j, {FALSE}) =>
                Pending(d, j, {FALSE})' \/ (d = c /\ j = oldest /\ ~ one)
          /\ \A d \in Cpus, j \in Idents : Pending(d, j, BOOLEAN) =>
                Pending(d, j, BOOLEAN)' \/ (d = c /\ j = oldest)
      BY <2>3, <2>o
    <2>6. UNCHANGED <<lwpvars, pc, args, crit>>
      BY <2>1
    <2>7. c \in Cpus /\ oldest \in Idents
      BY <1>t, <2>e
    <2> QED
      BY <2>2, <2>4, <2>5, <2>6, <2>7, <2>s, ScanStep
  <1> QED
    BY <1>1, <1>2

\* An IPI arrives: a wakeup, or lwp_signotify_remote().
LEMMA DeliverStep ==
  ASSUME IInv, NEW c \in Cpus, Deliver(c)
  PROVE  IInv'
  <1> DEFINE m == Head(ipiq[c])
  <1>t. TypeOK /\ Places /\ TimeoutPending /\ SignalPending /\ SleeperQueued
    BY DEF IInv, States
  <1>0. /\ ipiq[c] # <<>>
        /\ ipiq' = [ipiq EXCEPT ![c] = Tail(@)]
        /\ UNCHANGED <<lwpvars, pc, args, crit, waking, gd_delayed_wakeup>>
    BY DEF Deliver
  <1>q. ipiq[c] \in Seq(Messages \cup [fn : {"signotify"}, td : Threads])
    BY <1>t DEF TypeOK, CpuTypes
  <1>h. /\ m \in Messages \cup [fn : {"signotify"}, td : Threads]
        /\ Tail(ipiq[c]) \in Seq(Messages \cup [fn : {"signotify"}, td : Threads])
    BY <1>0, <1>q, HeadTailProperties
  <1>p. /\ ipiq'[c] = Tail(ipiq[c])
        /\ \A d \in Cpus \ {c} : ipiq'[d] = ipiq[d]
    BY <1>0, <1>t DEF TypeOK, CpuTypes
  <1>k. \A d \in Cpus : \A x : Contains(ipiq[d], x) =>
           Contains(ipiq'[d], x) \/ (d = c /\ x = m)
    BY <1>0, <1>q, <1>p, TailContains
  <1>c. CpuTypes'
    BY <1>0, <1>h, <1>t DEF TypeOK, CpuTypes
  <1>1. CASE m.fn = "wakeup"
    <2>1. Scan(c, m.ident, m.one, {}, {})
      BY <1>1 DEF Deliver
    <2>2. m \in Messages /\ m.ident \in Idents /\ m.one \in BOOLEAN
      BY <1>1, <1>h DEF Messages
    <2>3. m = Message(m.ident, m.one)
      BY <2>2 DEF Messages, Message
    <2>4. SignalsKept
      <3>1. \A u \in Threads : CpuOf[u] \in Cpus /\ Signotify(u) # m
        BY <1>1, ConstantsAssumption DEF Signotify
      <3> QED
        BY <3>1, <1>k DEF SignalsKept
    <2>5. /\ \A d \in Cpus, j \in Idents : Pending(d, j, {FALSE}) =>
                Pending(d, j, {FALSE})' \/ (d = c /\ j = m.ident /\ ~ m.one)
          /\ \A d \in Cpus, j \in Idents : Pending(d, j, BOOLEAN) =>
                Pending(d, j, BOOLEAN)' \/ (d = c /\ j = m.ident)
      <3>1. \A j \in Idents, b \in BOOLEAN : Message(j, b) = m => j = m.ident /\ b = m.one
        BY DEF Message
      <3>2. \A d \in Cpus, j \in Idents, b \in BOOLEAN : Contains(ipiq[d], Message(j, b)) =>
               Contains(ipiq'[d], Message(j, b)) \/ (d = c /\ j = m.ident /\ b = m.one)
        BY <3>1, <1>k
      <3> HIDE DEF m
      <3> QED
        BY <3>2, <1>0 DEF Pending
    <2>6. First({})
      BY <2>2, <1>t, SleepersFirst
    <2> HIDE DEF m
    <2> QED
      BY <1>0, <1>c, <2>1, <2>2, <2>4, <2>5, <2>6, ScanStep
  <1>2. CASE m.fn # "wakeup"
    <2>1. m \in [fn : {"signotify"}, td : Threads]
      BY <1>2, <1>h DEF Messages
    <2>2. m.td \in Threads /\ m = Signotify(m.td)
      BY <2>1 DEF Signotify
    <2>3. /\ td_flags' = [td_flags EXCEPT ![m.td] =
                            IF "SINTR" \in @ THEN @ \cup {"RUNQ"} ELSE @]
          /\ UNCHANGED sleepvars
      BY <1>2 DEF Deliver
    <2>4. \A d \in Cpus, j \in Idents, b \in BOOLEAN :
             Contains(ipiq[d], Message(j, b)) => Contains(ipiq'[d], Message(j, b))
      <3>1. \A j \in Idents, b \in BOOLEAN : Message(j, b) # m
        BY <1>2 DEF Message
      <3> QED
        BY <3>1, <1>k
    <2>5. Delivery'
      BY <2>3, <2>4, <1>0, DeliveryKept DEF sleepvars
    <2>6. QueueTypes' /\ Queues'
      BY <2>3 DEF IInv, TypeOK, Queues, MaskExact, OwedQueued, First, Queued,
         sleepvars, QueueTypes
    <2> HIDE DEF m
    <2>7. ThreadTypes'
      BY <2>2, <2>3, <1>0, <1>t DEF TypeOK, ThreadTypes, lwpvars, sleepvars,
         Flags
    <2>8. /\ \A u \in Threads : /\ td_flags[u] \subseteq td_flags'[u]
                                /\ td_flags'[u] \subseteq td_flags[u] \cup {"RUNQ"}
          /\ "SINTR" \in td_flags[m.td] => "RUNQ" \in td_flags'[m.td]
      BY <2>2, <2>3, <1>t DEF TypeOK, ThreadTypes
    <2>9. Places'
      BY <2>3, <2>8, <1>0, <1>t DEF Places, Place, Sleeping, Queued, lwpvars,
         sleepvars
    <2>10. TimeoutPending'
      BY <2>8, <1>0, <1>t DEF TimeoutPending, lwpvars
    <2>11. SignalPending'
      <3> SUFFICES ASSUME NEW u \in sigs, pc[u] = "asleep", "PCATCH" \in args[u],
                          "RUNQ" \notin td_flags'[u]
                   PROVE  Contains(ipiq'[CpuOf[u]], Signotify(u))
        BY <1>0 DEF SignalPending, lwpvars, Signotify
      <3>1. u \in Threads /\ CpuOf[u] \in Cpus
        BY <1>t, ConstantsAssumption DEF TypeOK, ThreadTypes
      <3>2. "SINTR" \in td_flags[u] /\ u # m.td
        BY <3>1, <2>8, <1>t DEF Places, Place, Sleeping
      <3>3. Contains(ipiq[CpuOf[u]], Signotify(u))
        BY <3>1, <2>8, <1>t DEF SignalPending, Signotify
      <3>4. Signotify(u) # m
        BY <3>2, <2>2 DEF Signotify
      <3> QED
        BY <3>1, <3>3, <3>4, <1>k
    <2>12. SleeperQueued'
      BY <2>3, <2>8, <1>0, <1>t DEF SleeperQueued, Queued, sleepvars
    <2> QED
      BY <1>c, <2>5, <2>6, <2>7, <2>9, <2>10, <2>11, <2>12 DEF IInv, TypeOK,
         States
  <1> QED
    BY <1>1, <1>2

\* wakeup_oncpu() sends an IPI.
LEMMA WakeupOnCpuStep ==
  ASSUME IInv, NEW c \in Cpus, NEW d \in Cpus, NEW i \in Idents, NEW one \in BOOLEAN,
         WakeupOnCpu(c, d, i, one)
  PROVE  IInv'
  <1>t. TypeOK
    BY DEF IInv
  <1>1. /\ ipiq' = [ipiq EXCEPT ![d] = Append(@, Message(i, one))]
        /\ UNCHANGED <<sleepvars, td_flags, lwpvars, pc, args, crit, waking,
                       gd_delayed_wakeup>>
    BY DEF WakeupOnCpu
  <1>m. Message(i, one) \in Messages \cup [fn : {"signotify"}, td : Threads]
    BY DEF Message, Messages
  <1>q. ipiq[d] \in Seq(Messages \cup [fn : {"signotify"}, td : Threads])
    BY <1>t DEF TypeOK, CpuTypes
  <1>k. \A e \in Cpus : \A x : Contains(ipiq[e], x) => Contains(ipiq'[e], x)
    <2>1. \A x : Contains(ipiq[d], x) => Contains(Append(ipiq[d], Message(i, one)), x)
      BY <1>m, <1>q, AppendContains
    <2> QED
      BY <1>1, <1>t, <2>1 DEF TypeOK, CpuTypes
  <1>2. SignalsKept
    BY <1>k, ConstantsAssumption DEF SignalsKept
  <1>3. ThreadTypes' /\ States'
    BY <1>1, <1>2, SameStates DEF sleepvars
  <1>4. CpuTypes'
    <2>1. Append(ipiq[d], Message(i, one))
             \in Seq(Messages \cup [fn : {"signotify"}, td : Threads])
      BY <1>m, <1>q, AppendProperties
    <2> QED
      BY <1>1, <2>1, <1>t DEF TypeOK, CpuTypes
  <1>5. Delivery'
    BY <1>1, <1>k, DeliveryKept DEF sleepvars
  <1>6. QueueTypes' /\ Queues'
    BY <1>1 DEF IInv, TypeOK, Queues, MaskExact, OwedQueued, First, Queued,
       sleepvars, QueueTypes
  <1> QED
    BY <1>3, <1>4, <1>5, <1>6 DEF IInv, TypeOK

\* _wakeup() sends the IPIs: by MaskExact to every cpu with a thread that is
\* owed the wakeup.
LEMMA ForwardStep ==
  ASSUME IInv, NEW c \in Cpus, Forward(c)
  PROVE  IInv'
  <1> DEFINE i == waking[c].ident
             mask == slpque_cpumasks[Chain[i]] \ {c}
  <1>t. TypeOK /\ MaskExact /\ OwedQueued
    BY DEF IInv, Queues
  <1>1. /\ waking[c] # NULL
        /\ ipiq' = [d \in Cpus |-> IF d \in mask THEN Append(ipiq[d], waking[c]) ELSE ipiq[d]]
        /\ waking' = [waking EXCEPT ![c] = NULL]
        /\ UNCHANGED <<sleepvars, td_flags, lwpvars, pc, args, crit, gd_delayed_wakeup>>
    BY DEF Forward
  <1>m. waking[c] \in Messages /\ i \in Idents
    BY <1>1, <1>t DEF TypeOK, CpuTypes, Messages
  <1>k. \A d \in Cpus : /\ ipiq'[d] \in Seq(Messages \cup [fn : {"signotify"}, td : Threads])
                        /\ \A x : Contains(ipiq[d], x) => Contains(ipiq'[d], x)
                        /\ d \in mask => Contains(ipiq'[d], waking[c])
    <2> TAKE d \in Cpus
    <2>1. ipiq[d] \in Seq(Messages \cup [fn : {"signotify"}, td : Threads])
      BY <1>t DEF TypeOK, CpuTypes
    <2>2. waking[c] \in Messages \cup [fn : {"signotify"}, td : Threads]
      BY <1>m
    <2>3. /\ Append(ipiq[d], waking[c])
                \in Seq(Messages \cup [fn : {"signotify"}, td : Threads])
          /\ \A x : Contains(Append(ipiq[d], waking[c]), x)
                       <=> Contains(ipiq[d], x) \/ x = waking[c]
      BY <2>1, <2>2, AppendProperties, AppendContains
    <2>4. ipiq'[d] = IF d \in mask THEN Append(ipiq[d], waking[c]) ELSE ipiq[d]
      BY <1>1
    <2> HIDE DEF mask
    <2> QED
      BY <2>1, <2>3, <2>4
  <1> HIDE DEF mask
  <1>2. SignalsKept
    BY <1>k, ConstantsAssumption DEF SignalsKept
  <1>3. ThreadTypes' /\ States'
    BY <1>1, <1>2, SameStates DEF sleepvars
  <1>4. CpuTypes'
    BY <1>1, <1>k, <1>t DEF TypeOK, CpuTypes
  <1>5. QueueTypes' /\ Queues'
    BY <1>1 DEF IInv, TypeOK, Queues, MaskExact, OwedQueued, First, Queued,
       sleepvars, QueueTypes
  <1>6. ASSUME NEW t \in Threads, Queued(t), NEW ones \in {{FALSE}, BOOLEAN},
               Pending(CpuOf[t], td_wchan[t], ones)
        PROVE  Pending(CpuOf[t], td_wchan[t], ones)'
    <2>1. CpuOf[t] \in Cpus /\ td_wchan[t] \in Idents /\ td_wchan' = td_wchan
      BY <1>1, <1>6, <1>t, ConstantsAssumption DEF TypeOK, ThreadTypes, Queued,
         sleepvars
    <2>2. CASE \E b \in ones : CpuOf[t] # c /\ waking[c] = Message(td_wchan[t], b)
      <3>1. i = td_wchan[t]
        BY <2>2 DEF Message
      <3>2. Chain[i] \in Chains /\ t \in OnQueue(CpuOf[t], Chain[i])
        BY <3>1, <2>1, <1>6 DEF OnQueue, Chains
      <3>3. CpuOf[t] \in mask
        BY <2>1, <2>2, <3>2, <1>t, QueueSets DEF mask
      <3> QED
        BY <2>1, <2>2, <3>3, <1>k DEF Pending
    <2>3. CASE ~ \E b \in ones : CpuOf[t] # c /\ waking[c] = Message(td_wchan[t], b)
      <3>1. \A d \in Cpus \ {c} : waking'[d] = waking[d]
        BY <1>1, <1>t DEF TypeOK, CpuTypes
      <3>2. gd_delayed_wakeup' = gd_delayed_wakeup
        BY <1>1
      <3> QED
        BY <1>6, <2>1, <2>3, <3>1, <3>2, <1>k DEF Pending
    <2> QED
      BY <2>2, <2>3
  <1>7. Delivery'
    <2>1. /\ owed \subseteq Threads /\ owedOne \subseteq Threads
          /\ \A t \in owed \cup owedOne : Queued(t)
          /\ UNCHANGED <<owed, owedOne>>
      BY <1>1, <1>t DEF TypeOK, QueueTypes, OwedQueued, sleepvars
    <2>2. NoLostWakeup'
      BY <2>1, <1>6 DEF NoLostWakeup, IInv, Delivery
    <2>3. OnePending'
      BY <2>1, <1>6 DEF OnePending, IInv, Delivery
    <2> QED
      BY <2>2, <2>3 DEF Delivery
  <1> QED
    BY <1>3, <1>4, <1>5, <1>7 DEF IInv, TypeOK

\* A delayed wakeup() is recorded.
LEMMA RecordWakeupStep ==
  ASSUME IInv, NEW t \in Threads, NEW i \in Idents, RecordWakeup(t, i)
  PROVE  IInv'
  <1> DEFINE c == CpuOf[t]
  <1>t. TypeOK /\ Queues /\ c \in Cpus
    BY ConstantsAssumption DEF IInv
  <1>1. /\ Len(gd_delayed_wakeup[c]) < 2
        /\ gd_delayed_wakeup' = [gd_delayed_wakeup EXCEPT ![c] = Append(@, i)]
        /\ Settle(Sleepers(i), {}, {})
        /\ UNCHANGED <<gd_tsleep_hash, slpque_cpumasks, td_wchan, td_flags, lwpvars,
                       pc, args, crit, waking, ipiq>>
    BY DEF RecordWakeup, All
  <1>2. owed' = owed \cup Sleepers(i) /\ owedOne' = owedOne
    BY <1>1 DEF Settle
  <1>d. gd_delayed_wakeup[c] \in Seq(Idents)
    BY <1>t DEF TypeOK, CpuTypes
  <1>a. /\ Append(gd_delayed_wakeup[c], i) \in Seq(Idents)
        /\ Len(Append(gd_delayed_wakeup[c], i)) = Len(gd_delayed_wakeup[c]) + 1
        /\ \A x : Contains(Append(gd_delayed_wakeup[c], i), x)
                     <=> Contains(gd_delayed_wakeup[c], x) \/ x = i
    BY <1>d, AppendProperties, AppendContains
  <1>w. /\ gd_delayed_wakeup'[c] = Append(gd_delayed_wakeup[c], i)
        /\ \A d \in Cpus \ {c} : gd_delayed_wakeup'[d] = gd_delayed_wakeup[d]
    BY <1>1, <1>t DEF TypeOK, CpuTypes
  <1>3. ThreadTypes' /\ States'
    BY <1>1, SameStates DEF SignalsKept
  <1>4. CpuTypes'
    <2>1. gd_delayed_wakeup' \in [Cpus -> Seq(Idents)]
      BY <1>1, <1>a, <1>t DEF TypeOK, CpuTypes
    <2>2. \A d \in Cpus \ {c} : Len(gd_delayed_wakeup'[d]) <= 2
      BY <1>w, <1>t DEF TypeOK, CpuTypes
    <2>3. Len(gd_delayed_wakeup'[c]) <= 2
      BY <1>1, <1>w, <1>a, <1>d, LenProperties
    <2> QED
      BY <2>1, <2>2, <2>3, <1>1, <1>t DEF TypeOK, CpuTypes
  <1>5. QueueTypes'
    BY <1>1, <1>2, <1>t DEF TypeOK, QueueTypes, Sleepers
  <1>6. Queues'
    <2>1. \A u \in Sleepers(i) : Queued(u)
      BY <1>t, SleepersFirst
    <2> QED
      BY <2>1, <1>1, <1>2, <1>t DEF Queues, MaskExact, OwedQueued, First,
         Queued
  <1>p. \A d \in Cpus, j \in Idents, ones \in {{FALSE}, BOOLEAN} :
           Pending(d, j, ones) \/ j = i => Pending(d, j, ones)'
    <2>1. \A d \in Cpus : \A x : Contains(gd_delayed_wakeup[d], x) =>
             Contains(gd_delayed_wakeup'[d], x)
      BY <1>a, <1>w
    <2>2. Contains(gd_delayed_wakeup'[c], i)
      BY <1>a, <1>w
    <2> HIDE DEF c
    <2> QED
      BY <2>1, <2>2, <1>1, <1>t DEF Pending
  <1>7. Delivery'
    <2>1. \A u \in owed \cup owedOne \cup Sleepers(i) :
             CpuOf[u] \in Cpus /\ td_wchan[u] \in Idents
      BY <1>t, ConstantsAssumption DEF Queues, OwedQueued, Queued, Sleepers,
         TypeOK, QueueTypes, ThreadTypes
    <2>2. \A u \in Sleepers(i) : td_wchan[u] = i
      BY DEF Sleepers
    <2>3. td_wchan' = td_wchan
      BY <1>1
    <2>4. NoLostWakeup'
      BY <2>1, <2>2, <2>3, <1>2, <1>p DEF NoLostWakeup, IInv, Delivery
    <2>5. OnePending'
      BY <2>1, <2>3, <1>2, <1>p DEF OnePending, IInv, Delivery
    <2> QED
      BY <2>4, <2>5 DEF Delivery
  <1> QED
    BY <1>3, <1>4, <1>5, <1>6, <1>7 DEF IInv, TypeOK

\* lwp_signotify() on another cpu
LEMMA SignalRemoteStep ==
  ASSUME IInv, NEW t \in Lwps, SignalRemote(t)
  PROVE  IInv'
  <1>t. /\ TypeOK /\ Places /\ TimeoutPending /\ SignalPending /\ SleeperQueued
        /\ t \in Threads /\ CpuOf[t] \in Cpus
    BY ConstantsAssumption DEF IInv, States
  <1>1. /\ lwp_token[t] = "other" /\ sigs' = sigs \cup {t}
        /\ ipiq' = IF "SINTR" \in td_flags[t]
                   THEN [ipiq EXCEPT ![CpuOf[t]] = Append(@, Signotify(t))] ELSE ipiq
        /\ UNCHANGED <<sleepvars, td_flags, lwp_stat, lwp_token, callout,
                       pc, args, crit, waking, gd_delayed_wakeup>>
    BY DEF SignalRemote, Signotify
  <1>q. ipiq[CpuOf[t]] \in Seq(Messages \cup [fn : {"signotify"}, td : Threads])
    BY <1>t DEF TypeOK, CpuTypes
  <1>m. Signotify(t) \in Messages \cup [fn : {"signotify"}, td : Threads]
    BY <1>t DEF Signotify
  <1>a. /\ Append(ipiq[CpuOf[t]], Signotify(t))
              \in Seq(Messages \cup [fn : {"signotify"}, td : Threads])
        /\ \A x : Contains(Append(ipiq[CpuOf[t]], Signotify(t)), x)
                     <=> Contains(ipiq[CpuOf[t]], x) \/ x = Signotify(t)
    BY <1>q, <1>m, AppendProperties, AppendContains
  <1>k. /\ \A d \in Cpus : \A x : Contains(ipiq[d], x) => Contains(ipiq'[d], x)
        /\ "SINTR" \in td_flags[t] => Contains(ipiq'[CpuOf[t]], Signotify(t))
    BY <1>1, <1>a, <1>t DEF TypeOK, CpuTypes
  <1>2. CpuTypes' /\ ThreadTypes'
    BY <1>1, <1>a, <1>t DEF TypeOK, CpuTypes, ThreadTypes, sleepvars
  <1>3. Places'
    BY <1>1, <1>t, ConstantsAssumption DEF Places, Place, Sleeping, Queued,
       sleepvars, TypeOK, ThreadTypes
  <1>4. TimeoutPending' /\ SleeperQueued'
    BY <1>1, <1>t DEF TimeoutPending, SleeperQueued, Queued, sleepvars
  <1>5. SignalPending'
    <2> SUFFICES ASSUME NEW u \in sigs \cup {t}, pc[u] = "asleep", "PCATCH" \in args[u],
                        "RUNQ" \notin td_flags[u]
                 PROVE  Contains(ipiq'[CpuOf[u]], Signotify(u))
      BY <1>1 DEF SignalPending, Signotify
    <2>1. u \in Threads /\ CpuOf[u] \in Cpus
      BY <1>t, ConstantsAssumption DEF TypeOK, ThreadTypes
    <2>2. CASE u = t
      BY <2>1, <2>2, <1>k, <1>t DEF Places, Place, Sleeping
    <2>3. CASE u # t
      <3>1. Contains(ipiq[CpuOf[u]], Signotify(u))
        BY <2>3, <1>t DEF SignalPending, Signotify
      <3> QED
        BY <3>1, <2>1, <1>k
    <2> QED
      BY <2>2, <2>3
  <1>6. Delivery'
    BY <1>1, <1>k, DeliveryKept DEF sleepvars
  <1>7. QueueTypes' /\ Queues'
    BY <1>1 DEF IInv, TypeOK, Queues, MaskExact, OwedQueued, First, Queued,
       sleepvars, QueueTypes
  <1> QED
    BY <1>2, <1>3, <1>4, <1>5, <1>6, <1>7 DEF IInv, TypeOK, States
-----------------------------------------------------------------------------
(* The theorems *)

\* Nobody sleeps at the start.
LEMMA InitInv == Init => IInv
  <1> SUFFICES ASSUME Init PROVE IInv
    OBVIOUS
  <1>e. \A S : <<>> \in Seq(S) /\ Len(<<>>) = 0
    BY EmptySeq
  <1>1. ThreadTypes
    BY ConstantsAssumption DEF Init, ThreadTypes, Flags, PCs
  <1>2. QueueTypes
    BY <1>e DEF Init, QueueTypes
  <1>3. CpuTypes
    BY <1>e DEF Init, CpuTypes
  <1>4. States
    BY DEF Init, States, Places, Place, Sleeping, TimeoutPending,
       SignalPending, SleeperQueued, Queued
  <1>5. MaskExact
    BY <1>e DEF Init, MaskExact, IsInjective, Contains, Queued
  <1>6. OwedQueued /\ First(owedOne) /\ Delivery
    BY DEF Init, OwedQueued, First, Ahead, Delivery, NoLostWakeup, OnePending
  <1> QED
    BY <1>1, <1>2, <1>3, <1>4, <1>5, <1>6 DEF IInv, TypeOK, Queues

\* Every step keeps the invariant.
LEMMA NextInv == IInv /\ [Next]_vars => IInv'
  <1> SUFFICES ASSUME IInv, [Next]_vars PROVE IInv'
    OBVIOUS
  <1>0. CASE UNCHANGED vars
    <2>1. /\ UNCHANGED <<sleepvars, waking, ipiq, gd_delayed_wakeup>>
          /\ UNCHANGED <<td_wchan, td_flags, lwpvars, pc, args, crit>>
          /\ crit' \in [Cpus -> Threads \cup {NULL}] /\ SignalsKept
      BY <1>0 DEF vars, sleepvars, lwpvars, cpuvars, IInv, TypeOK, CpuTypes,
         SignalsKept
    <2>2. QueueTypes' /\ CpuTypes' /\ Queues' /\ Delivery'
      BY <2>1, QuietStep
    <2>3. ThreadTypes' /\ States'
      BY <2>1, SameStates
    <2> QED
      BY <2>2, <2>3 DEF IInv, TypeOK
  <1>1. ASSUME NEW t \in Threads, Call(t) PROVE IInv'
    BY <1>1, InterlockStep, InterlockAgainStep, CancelInterlockStep,
       TsleepStep, TakeSignalStep DEF Call
  <1>2. ASSUME NEW t \in Threads, Running(t) PROVE IInv'
    BY <1>2, InterlockInsertStep, GettokenBlockStep, TsleepSignalStep,
       TsleepLockedStep, TsleepWokenStep, DescheduleStep, TimeoutRaceStep,
       WakeStep, FlushStep DEF Running
  <1>3. ASSUME NEW t \in Threads, SwitchIn(t) \/ Timeout(t) PROVE IInv'
    BY <1>3, SwitchInStep, EndTsleepStep, EndTsleepBlockStep,
       EndTsleepResumeStep DEF Timeout
  <1>4. ASSUME NEW t \in Delayers, Delay(t) PROVE IInv'
    <2>1. t \in Threads
      BY ConstantsAssumption
    <2> QED
      BY <1>4, <2>1, StartDelayedStep, EndDelayedStep, RecordWakeupStep,
         RecordThirdStep DEF Delay
  <1>5. ASSUME NEW t \in Lwps, Signal(t) \/ OtherReltoken(t) PROVE IInv'
    BY <1>5, OtherGettokenStep, SignalRemoteStep, SignalLocalStep,
       OtherReltokenStep DEF Signal
  <1>6. ASSUME NEW c \in Cpus, Waker(c) PROVE IInv'
    <2>1. PICK w \in Wakes[c] : \/ Wakeup(c, w[1], w[2]) \/ WakeupMyCpu(c, w[1], w[2])
                                \/ \E d \in Cpus \ {c} : WakeupOnCpu(c, d, w[1], w[2])
      BY <1>6 DEF Waker
    <2>2. w[1] \in Idents /\ w[2] \in BOOLEAN
      BY ConstantsAssumption
    <2> QED
      BY <2>1, <2>2, WakeupStep, WakeupMyCpuStep, WakeupOnCpuStep
  <1>7. ASSUME NEW c \in Cpus, Forward(c) \/ Deliver(c) PROVE IInv'
    BY <1>7, ForwardStep, DeliverStep
  <1> QED
    BY <1>0, <1>1, <1>2, <1>3, <1>4, <1>5, <1>6, <1>7 DEF Next

\* The invariant holds at every step of tsleep(), wakeup(), endtsleep() and
\* lwp_signotify() on all cpus.
THEOREM TsleepInvariance == Spec => []IInv
  BY InitInv, NextInv, PTL DEF Spec

\* The masks in slpque_cpumasks[] are exact, every thread is queued where its
\* td_wchan says, and every descheduled sleeper is on a queue.
THEOREM TsleepConsistent == Spec => []Consistent
  <1>1. IInv => Consistent
    BY DEF IInv, Queues, States, Consistent
  <1> QED
    BY <1>1, TsleepInvariance, PTL

\* A wakeup() reaches every thread that was queued on its ident when it was
\* called, by way of the scan, the IPIs of _wakeup() or a delayed section.
THEOREM TsleepNoLostWakeup == Spec => []NoLostWakeup
  <1>1. IInv => NoLostWakeup
    BY DEF IInv, Delivery
  <1> QED
    BY <1>1, TsleepInvariance, PTL

\* A wakeup_one() schedules a thread that was queued when it was called, or is
\* on its way to one.
THEOREM TsleepNoLostWakeupOne == Spec => []NoLostWakeupOne
  <1>1. IInv => NoLostWakeupOne
    BY DEF IInv, Delivery, OnePending, Queues, OwedQueued, NoLostWakeupOne
  <1> QED
    BY <1>1, TsleepInvariance, PTL

\* The assertions of tsleep() and endtsleep() about TDF_TIMEOUT and
\* TDF_TSLEEP_DESCHEDULED hold, whatever races the timeout.
THEOREM TsleepNoPanic == Spec => []NoPanic
  <1>1. IInv => NoPanic
    BY DEF IInv, States, Places, Place, NoPanic
  <1> QED
    BY <1>1, TsleepInvariance, PTL

\* A sleep with a timeout has its callout armed or endtsleep() running until
\* the thread is scheduled.
THEOREM TsleepTimeoutPending == Spec => []TimeoutPending
  <1>1. IInv => TimeoutPending
    BY DEF IInv, States
  <1> QED
    BY <1>1, TsleepInvariance, PTL

\* A sleep with PCATCH is not entered, nor continued, with a signal that no
\* IPI is going to report.
THEOREM TsleepSignalPending == Spec => []SignalPending
  <1>1. IInv => SignalPending
    BY DEF IInv, States
  <1> QED
    BY <1>1, TsleepInvariance, PTL
=============================================================================
