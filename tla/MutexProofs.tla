----------------------------- MODULE MutexProofs -----------------------------
(***************************************************************************)
(* Proofs about Mutex, for every set of threads, every depth of recursion  *)
(* and with or without the kernel option INVARIANTS.                       *)
(***************************************************************************)
EXTENDS Mutex, FiniteSetTheorems, TLAPS

\* The lock word, with a count that may be wrong: see ChainRelease.
Words == [ex : BOOLEAN, shw : BOOLEAN, exw : BOOLEAN, exl : BOOLEAN, cnt : Int]

\* The types of what the list depends on.
LinkTypes == /\ mtx_lock \in Words
             /\ mtx_link \in Seq(Threads)
             /\ state \in [Threads -> LinkStates]
             /\ pc \in [Threads -> PCs]
             /\ target \in [Threads -> Threads \cup {NULL}]

\* Where a thread has its link on the list.
Linked == {"linked", "sleep", "woken", "delete", "unlink"}

\* A link is on the list, once, exactly while its state is LINKED, and only
\* while its thread is still in __mtx_lock_ex().
OnList == /\ IsInjective(mtx_link)
          /\ \A t \in Threads : (state[t] = "LINKED") <=> (t \in ToSet(mtx_link))
          /\ \A t \in ToSet(mtx_link) : t \in Threads /\ pc[t] \in Linked

\* A thread that hands the lock over, or aborts a request, does so to a thread.
Targets == \A t \in Threads :
              pc[t] \in {"chain_owner", "chain_clear", "wake", "abort"}
                 => target[t] \in Threads

\* The inductive invariant of the list.
LinkInv == LinkTypes /\ OnList /\ Targets /\ ExlinkExclusive
-----------------------------------------------------------------------------
(* The list of links *)

\* The list after link_in: a waiter that was not on it is at its end.
LEMMA AppendList ==
    ASSUME NEW q \in Seq(Threads), IsInjective(q), NEW t \in Threads, t \notin ToSet(q)
    PROVE  /\ Append(q, t) \in Seq(Threads) /\ IsInjective(Append(q, t))
           /\ ToSet(Append(q, t)) = ToSet(q) \cup {t}
  <1>1. /\ Append(q, t) \in Seq(Threads) /\ DOMAIN q = 1 .. Len(q)
        /\ DOMAIN Append(q, t) = 1 .. Len(q) + 1
        /\ \A i \in 1 .. Len(q) : Append(q, t)[i] = q[i]
        /\ Append(q, t)[Len(q) + 1] = t
    OBVIOUS
  <1>2. IsInjective(Append(q, t))
    BY <1>1 DEF IsInjective, ToSet
  <1>3. ToSet(Append(q, t)) = ToSet(q) \cup {t}
    BY <1>1 DEF ToSet
  <1> QED
    BY <1>1, <1>2, <1>3

\* The list after mtx_chain_link() took its head.
LEMMA TailList ==
    ASSUME NEW q \in Seq(Threads), IsInjective(q), q # <<>>
    PROVE  /\ Tail(q) \in Seq(Threads) /\ IsInjective(Tail(q))
           /\ Head(q) \in ToSet(q)
           /\ ToSet(Tail(q)) = ToSet(q) \ {Head(q)}
  <1>1. /\ Tail(q) \in Seq(Threads) /\ DOMAIN q = 1 .. Len(q) /\ Len(q) \in Nat \ {0}
        /\ DOMAIN Tail(q) = 1 .. Len(q) - 1 /\ Head(q) = q[1]
        /\ \A i \in 1 .. Len(q) - 1 : Tail(q)[i] = q[i + 1]
    OBVIOUS
  <1>2. IsInjective(Tail(q))
    BY <1>1 DEF IsInjective
  <1>3. Head(q) \in ToSet(q)
    BY <1>1 DEF ToSet
  <1>4. ASSUME NEW u \in ToSet(Tail(q)) PROVE u \in ToSet(q) \ {Head(q)}
    BY <1>1, <1>4 DEF ToSet, IsInjective
  <1>5. ASSUME NEW u \in ToSet(q) \ {Head(q)} PROVE u \in ToSet(Tail(q))
    <2>1. PICK i \in 1 .. Len(q) : q[i] = u /\ i # 1
      BY <1>1, <1>5 DEF ToSet
    <2>2. i - 1 \in 1 .. Len(q) - 1 /\ Tail(q)[i - 1] = u
      BY <1>1, <2>1
    <2> QED
      BY <1>1, <2>2 DEF ToSet
  <1> QED
    BY <1>1, <1>2, <1>3, <1>4, <1>5

\* The list after mtx_delete_link() or mtx_abort_ex_link() took the link of t out
\* of it: rotated, so that the successor of t is the head.
LEMMA UnlinkList ==
    ASSUME mtx_link \in Seq(Threads), IsInjective(mtx_link),
           NEW t \in ToSet(mtx_link), Unlink(t)
    PROVE  /\ mtx_link' \in Seq(Threads) /\ IsInjective(mtx_link')
           /\ ToSet(mtx_link') = ToSet(mtx_link) \ {t}
  <1> DEFINE q == mtx_link
             i == CHOOSE j \in DOMAIN q : q[j] = t
             n == Len(q)
             r == SubSeq(q, i + 1, n) \o SubSeq(q, 1, i - 1)
  <1>1. n \in Nat /\ DOMAIN q = 1 .. n /\ i \in 1 .. n /\ q[i] = t
    BY DEF ToSet
  <1>2. mtx_link' = r
    BY DEF Unlink
  <1> HIDE DEF i, n, q
  <1>3. /\ SubSeq(q, i + 1, n) \in Seq(Threads) /\ Len(SubSeq(q, i + 1, n)) = n - i
        /\ SubSeq(q, 1, i - 1) \in Seq(Threads) /\ Len(SubSeq(q, 1, i - 1)) = i - 1
        /\ \A j \in 1 .. n - i : SubSeq(q, i + 1, n)[j] = q[i + j]
        /\ \A j \in 1 .. i - 1 : SubSeq(q, 1, i - 1)[j] = q[j]
    <2>1. q \in Seq(Threads) /\ n = Len(q)
      BY DEF q, n
    <2>2. ASSUME NEW a \in Nat, NEW b \in Nat, a >= 1, b <= n, a <= b + 1
          PROVE  /\ SubSeq(q, a, b) \in Seq(Threads)
                 /\ Len(SubSeq(q, a, b)) = b - a + 1
                 /\ \A j \in 1 .. b - a + 1 : SubSeq(q, a, b)[j] = q[a + j - 1]
      BY <2>1, <2>2
    <2>3. i \in Nat /\ i >= 1 /\ i <= n /\ i + 1 \in Nat /\ i - 1 \in Nat
      BY <1>1
    <2>4. /\ n - (i + 1) + 1 = n - i /\ (i - 1) - 1 + 1 = i - 1
          /\ \A j \in Nat : (i + 1) + j - 1 = i + j /\ 1 + j - 1 = j
      BY <1>1
    <2>5. /\ SubSeq(q, i + 1, n) \in Seq(Threads)
          /\ Len(SubSeq(q, i + 1, n)) = n - (i + 1) + 1
          /\ \A j \in 1 .. n - (i + 1) + 1 :
                SubSeq(q, i + 1, n)[j] = q[(i + 1) + j - 1]
      <3>1. i + 1 >= 1 /\ n <= n /\ i + 1 <= n + 1 /\ n \in Nat
        BY <1>1
      <3> HIDE DEF n
      <3> QED
        BY <2>2, <2>3, <3>1
    <2>6. /\ SubSeq(q, 1, i - 1) \in Seq(Threads)
          /\ Len(SubSeq(q, 1, i - 1)) = (i - 1) - 1 + 1
          /\ \A j \in 1 .. (i - 1) - 1 + 1 : SubSeq(q, 1, i - 1)[j] = q[1 + j - 1]
      <3>1. 1 >= 1 /\ i - 1 <= n /\ 1 <= (i - 1) + 1
        BY <1>1
      <3> QED
        BY <2>2, <2>3, <3>1
    <2>7. /\ Len(SubSeq(q, i + 1, n)) = n - i
          /\ \A j \in 1 .. n - i : SubSeq(q, i + 1, n)[j] = q[i + j]
      <3>1. 1 .. n - (i + 1) + 1 = 1 .. n - i
        BY <2>4
      <3>2. ASSUME NEW j \in 1 .. n - i
            PROVE  SubSeq(q, i + 1, n)[j] = q[(i + 1) + j - 1] /\ j \in Nat
        BY <1>1, <2>5, <3>1
      <3>3. ASSUME NEW j \in 1 .. n - i
            PROVE  SubSeq(q, i + 1, n)[j] = q[i + j]
        BY <2>4, <3>2
      <3> QED
        BY <2>4, <2>5, <3>3
    <2>8. /\ Len(SubSeq(q, 1, i - 1)) = i - 1
          /\ \A j \in 1 .. i - 1 : SubSeq(q, 1, i - 1)[j] = q[j]
      BY <1>1, <2>4, <2>6
    <2> QED
      BY <2>5, <2>6, <2>7, <2>8
  <1>4. /\ r \in Seq(Threads) /\ Len(r) = n - 1 /\ DOMAIN r = 1 .. n - 1
        /\ \A j \in 1 .. n - i : r[j] = q[i + j]
        /\ \A j \in n - i + 1 .. n - 1 : r[j] = q[j - (n - i)]
    BY <1>1, <1>3
  <1> HIDE DEF r
  <1>5. \A a, b \in 1 .. n : q[a] = q[b] => a = b
    BY <1>1 DEF IsInjective, q
  <1>6. IsInjective(r)
    BY <1>1, <1>4, <1>5 DEF IsInjective
  <1>7. ASSUME NEW u \in ToSet(r) PROVE u \in ToSet(q) \ {t}
    <2>1. PICK j \in 1 .. n - 1 : r[j] = u
      BY <1>4 DEF ToSet
    <2>2. \E a \in 1 .. n : a # i /\ q[a] = u
      <3>1. CASE j <= n - i
        <4>1. i + j \in 1 .. n /\ i + j # i /\ q[i + j] = u
          BY <1>1, <1>4, <2>1, <3>1
        <4> QED
          BY <4>1
      <3>2. CASE j > n - i
        <4>1. j - (n - i) \in 1 .. n /\ j - (n - i) # i /\ q[j - (n - i)] = u
          BY <1>1, <1>4, <2>1, <3>2
        <4> QED
          BY <4>1
      <3> QED
        BY <1>1, <2>1, <3>1, <3>2
    <2> QED
      BY <1>1, <1>5, <2>2 DEF ToSet
  <1>8. ASSUME NEW u \in ToSet(q) \ {t} PROVE u \in ToSet(r)
    <2>1. PICK a \in 1 .. n : q[a] = u /\ a # i
      BY <1>1, <1>8 DEF ToSet
    <2>2. CASE a > i
      <3>1. a - i \in 1 .. n - 1 /\ r[a - i] = u
        BY <1>1, <1>4, <2>1, <2>2
      <3> QED
        BY <1>4, <3>1 DEF ToSet
    <2>3. CASE a < i
      <3>1. a + (n - i) \in n - i + 1 .. n - 1 /\ r[a + (n - i)] = u
        BY <1>1, <1>4, <2>1, <2>3
      <3>2. a + (n - i) \in 1 .. n - 1
        BY <1>1, <2>1, <2>3
      <3> QED
        BY <1>4, <3>1, <3>2 DEF ToSet
    <2> QED
      BY <1>1, <2>1, <2>2, <2>3
  <1> QED
    BY <1>2, <1>4, <1>6, <1>7, <1>8 DEF q
-----------------------------------------------------------------------------
(* The list and MTX_EXLINK *)

USE DEF Goto, Move, word, chain, held

\* EXLINK stays exclusive if one thread at a time gets it or releases it.
LEMMA ExlinkKept ==
    ASSUME ExlinkExclusive, NEW t \in Threads,
           \A u \in Threads \ {t} : pc'[u] = pc[u],
           \/ /\ mtx_lock'.exl = mtx_lock.exl
              /\ pc[t] \in ExlinkHolders <=> pc'[t] \in ExlinkHolders
           \/ /\ ~ mtx_lock.exl /\ mtx_lock'.exl
              /\ pc'[t] \in ExlinkHolders
           \/ /\ pc[t] \in ExlinkHolders /\ ~ mtx_lock'.exl
              /\ pc'[t] \notin ExlinkHolders
    PROVE  ExlinkExclusive'
  BY DEF ExlinkExclusive, Inside

\* mtx_lock == 0 is a lock word.
LEMMA UnlockedWord == Unlocked \in Words
  BY DEF Unlocked, Words

\* So are the words that the releases write, with a count or a flag.
LEMMA ReleasedWord ==
    ASSUME NEW n \in Int, NEW b \in BOOLEAN
    PROVE  /\ [Unlocked EXCEPT !.cnt = n] \in Words
           /\ [Unlocked EXCEPT !.ex = TRUE, !.cnt = n] \in Words
           /\ [Unlocked EXCEPT !.exl = b] \in Words
  BY UnlockedWord DEF Words

\* Exclusive locks without a wait.
LEMMA LockLinks ==
    ASSUME LinkInv, NEW t \in Threads,
           \/ LockEx(t) \/ TryEx(t) \/ LockExFree(t) \/ SetOwner(t)
           \/ LockExRecurse(t) \/ TryFail(t) \/ LockExLink(t)
    PROVE  LinkInv'
  <1>i. LinkTypes /\ OnList /\ Targets /\ ExlinkExclusive
    BY DEF LinkInv
  <1>1. LinkTypes'
    <2>1. mtx_lock' \in Words
      <3>1. CASE LockExFree(t)
        <4>1. 1 \in Int /\ TRUE \in BOOLEAN
          BY <1>i
        <4> QED
          BY <3>1, <4>1, ReleasedWord DEF LockExFree
      <3>2. CASE LockExRecurse(t)
        BY <1>i, <3>2 DEF LinkTypes, Words, LockExRecurse, Unlocked, Owned,
           LinkStates
      <3> QED
        BY <1>i, <3>1, <3>2 DEF LinkTypes, LockEx, TryEx, SetOwner, TryFail,
           LockExLink
    <2> QED
      BY <1>i, <2>1 DEF LinkTypes, PCs, LinkStates, LockEx, TryEx, LockExFree,
         SetOwner, LockExRecurse, TryFail, LockExLink
  <1>2. OnList'
    BY <1>i DEF LinkTypes, OnList, Linked, LockEx, TryEx, LockExFree, SetOwner,
       LockExRecurse, TryFail, LockExLink, Owned, LinkStates
  <1>3. Targets'
    BY <1>i DEF LinkTypes, Targets, LockEx, TryEx, LockExFree, SetOwner,
       LockExRecurse, TryFail, LockExLink, Owned, LinkStates
  <1>4. ExlinkExclusive'
    <2>1. /\ \A u \in Threads \ {t} : pc'[u] = pc[u]
          /\ \/ /\ mtx_lock'.exl = mtx_lock.exl
                /\ pc[t] \in ExlinkHolders <=> pc'[t] \in ExlinkHolders
             \/ /\ ~ mtx_lock.exl /\ mtx_lock'.exl
                /\ pc'[t] \in ExlinkHolders
             \/ /\ pc[t] \in ExlinkHolders /\ ~ mtx_lock'.exl
                /\ pc'[t] \notin ExlinkHolders
      BY <1>i DEF LinkTypes, Words, ExlinkHolders, LockEx, TryEx, LockExFree,
         SetOwner, LockExRecurse, TryFail, LockExLink, Unlocked, Owned,
         LinkStates
    <2> QED
      BY <1>i, <2>1, ExlinkKept
  <1> QED
    BY <1>1, <1>2, <1>3, <1>4 DEF LinkInv

\* A waiter gets EXLINK, and releases it.
LEMMA WaitLinks ==
    ASSUME LinkInv, NEW t \in Threads,
           \/ LockExWait(t) \/ LinkedRelease(t) \/ DeleteExlink(t)
           \/ DeleteRelease(t) \/ AbortRelease(t) \/ EarlyAbort(t)
    PROVE  LinkInv'
  <1>i. LinkTypes /\ OnList /\ Targets /\ ExlinkExclusive
    BY DEF LinkInv
  <1>1. LinkTypes'
    <2>1. mtx_lock' \in Words
      <3>1. CASE LockExWait(t)
        BY <1>i, <3>1 DEF LinkTypes, Words, LockExWait, Owned, ClearExlink,
           GetExlink
      <3>2. CASE LinkedRelease(t)
        BY <1>i, <3>2 DEF LinkTypes, Words, LinkedRelease, Unlocked, Owned,
           ClearExlink, GetExlink
      <3>3. CASE DeleteExlink(t)
        BY <1>i, <3>3 DEF LinkTypes, Words, DeleteExlink, Unlocked, Owned,
           ClearExlink, GetExlink
      <3>4. CASE DeleteRelease(t)
        BY <1>i, <3>4 DEF LinkTypes, Words, DeleteRelease, Unlocked, Owned,
           ClearExlink, GetExlink
      <3>5. CASE AbortRelease(t)
        BY <1>i, <3>5 DEF LinkTypes, Words, AbortRelease, Unlocked, Owned,
           ClearExlink, GetExlink
      <3>6. CASE EarlyAbort(t)
        BY <1>i, <3>6 DEF LinkTypes, Words, EarlyAbort, Unlocked, Owned,
           ClearExlink, GetExlink
      <3> QED
        BY <1>i, <3>1, <3>2, <3>3, <3>4, <3>5, <3>6
    <2> QED
      BY <1>i, <2>1 DEF LinkTypes, PCs, LinkStates, LockExWait, LinkedRelease,
         DeleteExlink, DeleteRelease, AbortRelease, EarlyAbort, ClearExlink,
         GetExlink
  <1>2. OnList'
    BY <1>i DEF LinkTypes, OnList, Linked, LockExWait, LinkedRelease,
       DeleteExlink, DeleteRelease, AbortRelease, EarlyAbort, Owned,
       ClearExlink, GetExlink
  <1>3. Targets'
    BY <1>i DEF LinkTypes, Targets, LockExWait, LinkedRelease, DeleteExlink,
       DeleteRelease, AbortRelease, EarlyAbort, Owned, ClearExlink, GetExlink
  <1>4. ExlinkExclusive'
    <2>1. /\ \A u \in Threads \ {t} : pc'[u] = pc[u]
          /\ \/ /\ mtx_lock'.exl = mtx_lock.exl
                /\ pc[t] \in ExlinkHolders <=> pc'[t] \in ExlinkHolders
             \/ /\ ~ mtx_lock.exl /\ mtx_lock'.exl
                /\ pc'[t] \in ExlinkHolders
             \/ /\ pc[t] \in ExlinkHolders /\ ~ mtx_lock'.exl
                /\ pc'[t] \notin ExlinkHolders
      BY <1>i DEF LinkTypes, Words, ExlinkHolders, LockExWait, LinkedRelease,
         DeleteExlink, DeleteRelease, AbortRelease, EarlyAbort, Unlocked,
         Owned, ClearExlink, GetExlink
    <2> QED
      BY <1>i, <2>1, ExlinkKept
  <1> QED
    BY <1>1, <1>2, <1>3, <1>4 DEF LinkInv

\* What a waiter does when tsleep() returns.
LEMMA WokenLinks ==
    ASSUME LinkInv, NEW t \in Threads,
           \/ Woken(t) \/ SleepError(t) \/ Acquired(t) \/ GiveUp(t)
           \/ Retry(t) \/ DeleteLink(t)
    PROVE  LinkInv'
  <1>i. LinkTypes /\ OnList /\ Targets /\ ExlinkExclusive
    BY DEF LinkInv
  <1>1. LinkTypes'
    <2>1. mtx_lock' \in Words
      <3> QED
        BY <1>i DEF LinkTypes, Woken, SleepError, Acquired, GiveUp, Retry,
           DeleteLink
    <2> QED
      BY <1>i, <2>1 DEF LinkTypes, PCs, Woken, SleepError, Acquired, GiveUp,
         Retry, DeleteLink, Kkassert
  <1>2. OnList'
    BY <1>i DEF LinkTypes, OnList, Linked, Woken, SleepError, Acquired, GiveUp,
       Retry, DeleteLink, Kkassert
  <1>3. Targets'
    BY <1>i DEF LinkTypes, Targets, Woken, SleepError, Acquired, GiveUp, Retry,
       DeleteLink, Kkassert
  <1>4. ExlinkExclusive'
    <2>1. /\ \A u \in Threads \ {t} : pc'[u] = pc[u]
          /\ \/ /\ mtx_lock'.exl = mtx_lock.exl
                /\ pc[t] \in ExlinkHolders <=> pc'[t] \in ExlinkHolders
             \/ /\ ~ mtx_lock.exl /\ mtx_lock'.exl
                /\ pc'[t] \in ExlinkHolders
             \/ /\ pc[t] \in ExlinkHolders /\ ~ mtx_lock'.exl
                /\ pc'[t] \notin ExlinkHolders
      BY <1>i DEF LinkTypes, ExlinkHolders, Woken, SleepError, Acquired,
         GiveUp, Retry, DeleteLink, Kkassert
    <2> QED
      BY <1>i, <2>1, ExlinkKept
  <1> QED
    BY <1>1, <1>2, <1>3, <1>4 DEF LinkInv

\* Shared locks.
LEMMA SharedLinks ==
    ASSUME LinkInv, NEW t \in Threads,
           \/ LockSh(t) \/ TrySh(t) \/ LockShGrant(t) \/ TryShFail(t)
           \/ LockShInterlock(t) \/ LockShWait(t) \/ LockShRace(t)
           \/ WokenSh(t) \/ SleepErrorSh(t)
    PROVE  LinkInv'
  <1>i. LinkTypes /\ OnList /\ Targets /\ ExlinkExclusive
    BY DEF LinkInv
  <1>1. LinkTypes'
    <2>1. mtx_lock' \in Words
      <3>1. CASE LockShGrant(t)
        BY <1>i, <3>1 DEF LinkTypes, Words, LockShGrant
      <3>2. CASE LockShWait(t)
        BY <1>i, <3>2 DEF LinkTypes, Words, LockShWait
      <3> QED
        BY <1>i, <3>1, <3>2 DEF LinkTypes, LockSh, TrySh, TryShFail,
           LockShInterlock, LockShRace, WokenSh, SleepErrorSh
    <2> QED
      BY <1>i, <2>1 DEF LinkTypes, PCs, LockSh, TrySh, LockShGrant, TryShFail,
         LockShInterlock, LockShWait, LockShRace, WokenSh, SleepErrorSh
  <1>2. OnList'
    BY <1>i DEF LinkTypes, OnList, Linked, LockSh, TrySh, LockShGrant,
       TryShFail, LockShInterlock, LockShWait, LockShRace, WokenSh,
       SleepErrorSh
  <1>3. Targets'
    BY <1>i DEF LinkTypes, Targets, LockSh, TrySh, LockShGrant, TryShFail,
       LockShInterlock, LockShWait, LockShRace, WokenSh, SleepErrorSh
  <1>4. ExlinkExclusive'
    <2>1. /\ \A u \in Threads \ {t} : pc'[u] = pc[u]
          /\ \/ /\ mtx_lock'.exl = mtx_lock.exl
                /\ pc[t] \in ExlinkHolders <=> pc'[t] \in ExlinkHolders
             \/ /\ ~ mtx_lock.exl /\ mtx_lock'.exl
                /\ pc'[t] \in ExlinkHolders
             \/ /\ pc[t] \in ExlinkHolders /\ ~ mtx_lock'.exl
                /\ pc'[t] \notin ExlinkHolders
      BY <1>i DEF LinkTypes, Words, ExlinkHolders, LockSh, TrySh, LockShGrant,
         TryShFail, LockShInterlock, LockShWait, LockShRace, WokenSh,
         SleepErrorSh
    <2> QED
      BY <1>i, <2>1, ExlinkKept
  <1> QED
    BY <1>1, <1>2, <1>3, <1>4 DEF LinkInv

\* Releases, until the lock is handed over.
LEMMA UnlockLinks ==
    ASSUME LinkInv, NEW t \in Threads,
           \/ UnlockEx(t) \/ UnlockSh(t) \/ ReleaseSh(t) \/ ClearOwner(t)
           \/ ReleaseEx(t) \/ ReleaseExRace(t) \/ ReleaseChain(t)
           \/ ReleaseCount(t)
    PROVE  LinkInv'
  <1>i. LinkTypes /\ OnList /\ Targets /\ ExlinkExclusive
    BY DEF LinkInv
  <1>1. LinkTypes'
    <2>1. mtx_lock' \in Words
      <3>1. CASE ReleaseSh(t)
        <4>1. 1 \in Int /\ mtx_lock.exl \in BOOLEAN
          BY <1>i DEF LinkTypes, Words
        <4> QED
          BY <3>1, <4>1, ReleasedWord DEF ReleaseSh
      <3>2. CASE ReleaseEx(t)
        <4>1. 1 \in Int /\ mtx_lock.exl \in BOOLEAN
          BY <1>i DEF LinkTypes, Words
        <4> QED
          BY <3>2, <4>1, ReleasedWord DEF ReleaseEx
      <3>3. CASE ReleaseChain(t)
        BY <1>i, <3>3 DEF LinkTypes, Words, ReleaseChain, Unlocked, Kkassert
      <3>4. CASE ReleaseCount(t)
        BY <1>i, <3>4 DEF LinkTypes, Words, ReleaseCount
      <3> QED
        BY <1>i, <3>1, <3>2, <3>3, <3>4 DEF LinkTypes, UnlockEx, UnlockSh,
           ClearOwner, ReleaseExRace
    <2> QED
      BY <1>i, <2>1 DEF LinkTypes, PCs, LinkStates, UnlockEx, UnlockSh,
         ReleaseSh, ClearOwner, ReleaseEx, ReleaseExRace, ReleaseChain,
         ReleaseCount, Kkassert
  <1>2. OnList'
    BY <1>i DEF LinkTypes, OnList, Linked, UnlockEx, UnlockSh, ReleaseSh,
       ClearOwner, ReleaseEx, ReleaseExRace, ReleaseChain, ReleaseCount,
       Kkassert
  <1>3. Targets'
    BY <1>i DEF LinkTypes, Targets, UnlockEx, UnlockSh, ReleaseSh, ClearOwner,
       ReleaseEx, ReleaseExRace, ReleaseChain, ReleaseCount, Kkassert
  <1>4. ExlinkExclusive'
    <2>1. /\ \A u \in Threads \ {t} : pc'[u] = pc[u]
          /\ \/ /\ mtx_lock'.exl = mtx_lock.exl
                /\ pc[t] \in ExlinkHolders <=> pc'[t] \in ExlinkHolders
             \/ /\ ~ mtx_lock.exl /\ mtx_lock'.exl
                /\ pc'[t] \in ExlinkHolders
             \/ /\ pc[t] \in ExlinkHolders /\ ~ mtx_lock'.exl
                /\ pc'[t] \notin ExlinkHolders
      BY <1>i DEF LinkTypes, Words, ExlinkHolders, UnlockEx, UnlockSh,
         ReleaseSh, ClearOwner, ReleaseEx, ReleaseExRace, ReleaseChain,
         ReleaseCount, Unlocked, Kkassert
    <2> QED
      BY <1>i, <2>1, ExlinkKept
  <1> QED
    BY <1>1, <1>2, <1>3, <1>4 DEF LinkInv

\* The end of a handover.
LEMMA ChainLinks ==
    ASSUME LinkInv, NEW t \in Threads,
           \/ ChainOwner(t) \/ ChainClear(t) \/ ChainEmpty(t)
           \/ ChainRelease(t) \/ ChainNull(t) \/ WakeLink(t) \/ WakeSh(t)
    PROVE  LinkInv'
  <1>i. LinkTypes /\ OnList /\ Targets /\ ExlinkExclusive
    BY DEF LinkInv
  <1>1. LinkTypes'
    <2>1. mtx_lock' \in Words
      <3>1. CASE ChainClear(t)
        BY <1>i, <3>1 DEF LinkTypes, Words, ChainClear, Unlocked
      <3>2. CASE ChainRelease(t)
        <4>1. mtx_lock.cnt - (mtx_lock.cnt % 2) \in Int /\ TRUE \in BOOLEAN
          BY <1>i DEF LinkTypes, Words
        <4> QED
          BY <3>2, <4>1, ReleasedWord DEF ChainRelease
      <3> QED
        BY <1>i, <3>1, <3>2 DEF LinkTypes, ChainOwner, ChainEmpty, ChainNull,
           WakeLink, WakeSh
    <2> QED
      BY <1>i, <2>1 DEF LinkTypes, PCs, ChainOwner, ChainClear, ChainEmpty,
         ChainRelease, ChainNull, WakeLink, WakeSh
  <1>2. OnList'
    BY <1>i DEF LinkTypes, OnList, Linked, ChainOwner, ChainClear, ChainEmpty,
       ChainRelease, ChainNull, WakeLink, WakeSh
  <1>3. Targets'
    BY <1>i DEF LinkTypes, Targets, ChainOwner, ChainClear, ChainEmpty,
       ChainRelease, ChainNull, WakeLink, WakeSh
  <1>4. ExlinkExclusive'
    <2>1. /\ \A u \in Threads \ {t} : pc'[u] = pc[u]
          /\ \/ /\ mtx_lock'.exl = mtx_lock.exl
                /\ pc[t] \in ExlinkHolders <=> pc'[t] \in ExlinkHolders
             \/ /\ ~ mtx_lock.exl /\ mtx_lock'.exl
                /\ pc'[t] \in ExlinkHolders
             \/ /\ pc[t] \in ExlinkHolders /\ ~ mtx_lock'.exl
                /\ pc'[t] \notin ExlinkHolders
      BY <1>i DEF LinkTypes, Words, ExlinkHolders, ChainOwner, ChainClear,
         ChainEmpty, ChainRelease, ChainNull, WakeLink, WakeSh, Unlocked
    <2> QED
      BY <1>i, <2>1, ExlinkKept
  <1> QED
    BY <1>1, <1>2, <1>3, <1>4 DEF LinkInv

\* Upgrades, and an aborted link that EXWANTED is cleared for.
LEMMA UpgradeLinks ==
    ASSUME LinkInv, NEW t \in Threads,
           \/ UpgradeQuick(t) \/ UpgradeSlow(t) \/ UpgradeOwned(t)
           \/ EarlyAbortTest(t) \/ EarlyAbortClear(t)
    PROVE  LinkInv'
  <1>i. LinkTypes /\ OnList /\ Targets /\ ExlinkExclusive
    BY DEF LinkInv
  <1>1. LinkTypes'
    <2>1. mtx_lock' \in Words
      <3>1. CASE UpgradeQuick(t)
        BY <1>i, <3>1 DEF LinkTypes, Words, UpgradeQuick, Kkassert
      <3>2. CASE UpgradeSlow(t)
        BY <1>i, <3>2 DEF LinkTypes, Words, UpgradeSlow, Kkassert
      <3>3. CASE EarlyAbortClear(t)
        BY <1>i, <3>3 DEF LinkTypes, Words, EarlyAbortClear, Unlocked, Kkassert
      <3> QED
        BY <1>i, <3>1, <3>2, <3>3 DEF LinkTypes, UpgradeOwned, EarlyAbortTest
    <2> QED
      BY <1>i, <2>1 DEF LinkTypes, PCs, LinkStates, UpgradeQuick, UpgradeSlow,
         UpgradeOwned, EarlyAbortTest, EarlyAbortClear, Kkassert
  <1>2. OnList'
    BY <1>i DEF LinkTypes, OnList, Linked, UpgradeQuick, UpgradeSlow,
       UpgradeOwned, EarlyAbortTest, EarlyAbortClear, Kkassert
  <1>3. Targets'
    BY <1>i DEF LinkTypes, Targets, UpgradeQuick, UpgradeSlow, UpgradeOwned,
       EarlyAbortTest, EarlyAbortClear, Kkassert
  <1>4. ExlinkExclusive'
    <2>1. /\ \A u \in Threads \ {t} : pc'[u] = pc[u]
          /\ \/ /\ mtx_lock'.exl = mtx_lock.exl
                /\ pc[t] \in ExlinkHolders <=> pc'[t] \in ExlinkHolders
             \/ /\ ~ mtx_lock.exl /\ mtx_lock'.exl
                /\ pc'[t] \in ExlinkHolders
             \/ /\ pc[t] \in ExlinkHolders /\ ~ mtx_lock'.exl
                /\ pc'[t] \notin ExlinkHolders
      BY <1>i DEF LinkTypes, Words, ExlinkHolders, UpgradeQuick, UpgradeSlow,
         UpgradeOwned, EarlyAbortTest, EarlyAbortClear, Unlocked, Kkassert
    <2> QED
      BY <1>i, <2>1, ExlinkKept
  <1> QED
    BY <1>1, <1>2, <1>3, <1>4 DEF LinkInv

\* A waiter puts its link on the list.
LEMMA LinkInLinks ==
    ASSUME LinkInv, NEW t \in Threads,
           LinkIn(t)
    PROVE  LinkInv'
  <1>i. LinkTypes /\ OnList /\ Targets /\ ExlinkExclusive
    BY DEF LinkInv
  <1>p. /\ Append(mtx_link, t) \in Seq(Threads) /\ IsInjective(Append(mtx_link, t))
        /\ ToSet(Append(mtx_link, t)) = ToSet(mtx_link) \cup {t}
    BY <1>i, AppendList DEF LinkTypes, OnList, Linked, LinkIn, Move
  <1>1. LinkTypes'
    BY <1>i DEF LinkTypes, PCs, LinkStates, LinkIn
  <1>2. OnList'
    BY <1>i, <1>p DEF LinkTypes, OnList, Linked, LinkIn
  <1>3. Targets'
    BY <1>i DEF Targets, LinkIn
  <1>4. ExlinkExclusive'
    BY <1>i, <1>p, ExlinkKept DEF ExlinkExclusive, ExlinkHolders, Inside,
       LinkIn
  <1> QED
    BY <1>1, <1>2, <1>3, <1>4 DEF LinkInv

\* A release takes the head of the list, which is LINKED.
LEMMA ChainLinkLinks ==
    ASSUME LinkInv, NEW t \in Threads,
           ChainLink(t)
    PROVE  LinkInv'
  <1>i. LinkTypes /\ OnList /\ Targets /\ ExlinkExclusive
    BY DEF LinkInv
  <1>a. /\ Tail(mtx_link) \in Seq(Threads) /\ IsInjective(Tail(mtx_link))
        /\ Head(mtx_link) \in ToSet(mtx_link)
        /\ ToSet(Tail(mtx_link)) = ToSet(mtx_link) \ {Head(mtx_link)}
    BY <1>i, TailList DEF LinkTypes, OnList, ChainLink
  <1>p. /\ Tail(mtx_link) \in Seq(Threads) /\ IsInjective(Tail(mtx_link))
        /\ Head(mtx_link) \in Threads /\ pc[Head(mtx_link)] \in Linked
        /\ ToSet(Tail(mtx_link)) = ToSet(mtx_link) \ {Head(mtx_link)}
        /\ pc' = [pc EXCEPT ![t] = "chain_owner"]
    BY <1>i, <1>a DEF OnList, ChainLink, Kkassert
  <1>1. LinkTypes'
    BY <1>i, <1>p DEF LinkTypes, PCs, LinkStates, ChainLink
  <1>2. OnList'
    BY <1>i, <1>p DEF LinkTypes, OnList, Linked, ChainLink
  <1>3. Targets'
    BY <1>i, <1>p DEF LinkTypes, Targets, ChainLink
  <1>4. ExlinkExclusive'
    BY <1>i, <1>p, ExlinkKept DEF ExlinkExclusive, ExlinkHolders, Inside,
       ChainLink
  <1> QED
    BY <1>1, <1>2, <1>3, <1>4 DEF LinkInv

\* A waiter takes its link off the list.
LEMMA DeleteUnlinkLinks ==
    ASSUME LinkInv, NEW t \in Threads,
           DeleteUnlink(t)
    PROVE  LinkInv'
  <1>i. LinkTypes /\ OnList /\ Targets /\ ExlinkExclusive
    BY DEF LinkInv
  <1>p. /\ state[t] = "LINKED" => /\ mtx_link' \in Seq(Threads) /\ IsInjective(mtx_link')
                                  /\ ToSet(mtx_link') = ToSet(mtx_link) \ {t}
        /\ state[t] # "LINKED" => mtx_link' = mtx_link
    BY <1>i, UnlinkList DEF LinkTypes, OnList, DeleteUnlink
  <1>1. LinkTypes'
    BY <1>i, <1>p DEF LinkTypes, PCs, LinkStates, DeleteUnlink
  <1>2. OnList'
    BY <1>i, <1>p DEF LinkTypes, OnList, Linked, DeleteUnlink
  <1>3. Targets'
    BY <1>i DEF Targets, DeleteUnlink
  <1>4. ExlinkExclusive'
    BY <1>i, <1>p, ExlinkKept DEF ExlinkExclusive, ExlinkHolders, Inside,
       DeleteUnlink
  <1> QED
    BY <1>1, <1>2, <1>3, <1>4 DEF LinkInv

\* Another thread takes it off.
LEMMA AbortLinkLinks ==
    ASSUME LinkInv, NEW t \in Threads,
           AbortLink(t)
    PROVE  LinkInv'
  <1>i. LinkTypes /\ OnList /\ Targets /\ ExlinkExclusive
    BY DEF LinkInv
  <1>p. /\ state[target[t]] = "LINKED" => /\ mtx_link' \in Seq(Threads) /\ IsInjective(mtx_link')
                                  /\ ToSet(mtx_link') = ToSet(mtx_link) \ {target[t]}
        /\ state[target[t]] # "LINKED" => mtx_link' = mtx_link /\ target[t] \in Threads
    BY <1>i, UnlinkList DEF LinkTypes, OnList, Targets, AbortLink
  <1>1. LinkTypes'
    BY <1>i, <1>p DEF LinkTypes, PCs, LinkStates, AbortLink
  <1>2. OnList'
    BY <1>i, <1>p DEF LinkTypes, OnList, Linked, AbortLink
  <1>3. Targets'
    BY <1>i DEF LinkTypes, Targets, AbortLink
  <1>4. ExlinkExclusive'
    BY <1>i, <1>p, ExlinkKept DEF ExlinkExclusive, ExlinkHolders, Inside,
       AbortLink
  <1> QED
    BY <1>1, <1>2, <1>3, <1>4 DEF LinkInv

\* An abort gets EXLINK.
LEMMA AbortExlinkLinks ==
    ASSUME LinkInv, NEW t \in Threads,
           \E u \in Threads : AbortExlink(t, u)
    PROVE  LinkInv'
  <1>i. LinkTypes /\ OnList /\ Targets /\ ExlinkExclusive
    BY DEF LinkInv
  <1>1. LinkTypes'
    <2>1. mtx_lock' \in Words
      BY <1>i DEF LinkTypes, Words, AbortExlink
    <2> QED
      BY <1>i, <2>1 DEF LinkTypes, PCs, AbortExlink
  <1>2. OnList'
    BY <1>i DEF OnList, Linked, AbortExlink
  <1>3. Targets'
    BY <1>i DEF LinkTypes, Targets, AbortExlink
  <1>4. ExlinkExclusive'
    BY <1>i, ExlinkKept DEF LinkTypes, ExlinkExclusive, ExlinkHolders, Inside,
       AbortExlink
  <1> QED
    BY <1>1, <1>2, <1>3, <1>4 DEF LinkInv

\* No thread moves: nothing changes.
LEMMA StutterLinks ==
    ASSUME LinkInv, UNCHANGED vars
    PROVE  LinkInv'
  BY DEF LinkInv, LinkTypes, OnList, Targets, ExlinkExclusive, Inside, vars

\* Initially the list is empty and nobody has EXLINK.
LEMMA InitLinks == Init => LinkInv
  <1> SUFFICES ASSUME Init PROVE LinkInv
    OBVIOUS
  <1>1. LinkTypes
    BY UnlockedWord DEF Init, LinkTypes, LinkStates, PCs
  <1>2. OnList
    BY DEF Init, OnList, IsInjective, ToSet
  <1>3. Targets /\ ExlinkExclusive
    BY DEF Init, Targets, ExlinkExclusive, ExlinkHolders, Inside, Unlocked
  <1> QED
    BY <1>1, <1>2, <1>3 DEF LinkInv

\* Callers without timeouts keep the list.
LEMMA NextLinks ==
    ASSUME LinkInv, Next
    PROVE  LinkInv'
  BY LockLinks, WaitLinks, WokenLinks, SharedLinks, UnlockLinks, ChainLinks,
     LinkInLinks, ChainLinkLinks
     DEF Next, Running, Request, Release

\* So does a release that finds the list empty.
LEMMA WithdrawnLinks ==
    ASSUME LinkInv, NEW t \in Threads, Withdrawn(t)
    PROVE  LinkInv'
  BY WokenLinks, ChainLinks DEF Withdrawn

\* So do timeouts and signals, and mtx_delete_link() after them.
LEMMA TimedLinks ==
    ASSUME LinkInv, [TimedNext]_vars
    PROVE  LinkInv'
  <1>1. ASSUME NEW t \in Threads, Timed(t) PROVE LinkInv'
    BY <1>1, WokenLinks, SharedLinks, WaitLinks, DeleteUnlinkLinks DEF Timed
  <1> QED
    BY <1>1, NextLinks, WithdrawnLinks, StutterLinks DEF TimedNext

\* So do mtx_abort_ex_link() and mtx_upgrade_try().
LEMMA AbortLinks ==
    ASSUME LinkInv, [AbortNext]_vars
    PROVE  LinkInv'
  <1>1. ASSUME NEW t \in Threads, Abort(t) PROVE LinkInv'
    BY <1>1, AbortExlinkLinks, AbortLinkLinks, WaitLinks, LockLinks,
       UpgradeLinks DEF Abort
  <1>2. ASSUME NEW t \in Threads, Upgrade(t) PROVE LinkInv'
    BY <1>2, UpgradeLinks DEF Upgrade
  <1> QED
    BY <1>1, <1>2, NextLinks, WithdrawnLinks, StutterLinks DEF AbortNext

\* What the list's invariant says of it.
LEMMA LinkInvSafe == LinkInv => LinksSafe
  <1> SUFFICES ASSUME LinkInv PROVE LinksSafe
    OBVIOUS
  <1>1. \A t \in Threads : Contains(mtx_link, t) <=> t \in ToSet(mtx_link)
    BY DEF LinkInv, Contains, ToSet
  <1> QED
    BY <1>1 DEF LinkInv, OnList, Linked, LinksSafe, NoDanglingLink

\* Links live on stacks: whatever timeouts, signals and handovers race, the list
\* of _mtx_lock_ex() and mtx_delete_link() has only links of threads that still
\* are in their call, and one thread at a time works on it.
THEOREM MutexTimedLinks == TimedSpec => []LinksSafe
  <1>1. LinkInv /\ [TimedNext]_vars => LinkInv'
    BY TimedLinks
  <1> QED
    BY InitLinks, <1>1, LinkInvSafe, PTL DEF TimedSpec

\* The same when other threads abort requests in mtx_abort_ex_link(), at any
\* time, and readers upgrade.
THEOREM MutexAbortLinks == AbortSpec => []LinksSafe
  <1>1. LinkInv /\ [AbortNext]_vars => LinkInv'
    BY AbortLinks
  <1> QED
    BY InitLinks, <1>1, LinkInvSafe, PTL DEF AbortSpec
-----------------------------------------------------------------------------
(* Counting *)

\* What the count of the lock word counts: the pair <<t, i>> for the i-th
\* acquisition of t, and <<t, 0>> for its count in transit.
IsCounted(t, i) == \/ i > 0 /\ i <= ex[t] + sh[t]
                   \/ i = 0 /\ InTransit(t)

Units == Threads \X Nat

Counted == {p \in Units : IsCounted(p[1], p[2])}

\* The acquisitions are numbers.
HeldTypes == ex \in [Threads -> Nat] /\ sh \in [Threads -> Nat]

One(b) == IF b THEN 1 ELSE 0

\* What a count of 0, or of 1, in the lock word says, if the count is not less
\* than the number of counts that threads have.
CountSays ==
    /\ \A t \in Threads : Present(t) => mtx_lock.cnt > 0
    /\ mtx_lock.cnt = 1 =>
         /\ \A t, u \in Threads : Present(t) /\ Present(u) => t = u
         /\ \A t \in Threads : InTransit(t) => ex[t] = 0 /\ sh[t] = 0
         /\ \A t \in Threads : ex[t] + sh[t] <= 1

\* The tests of the count in _mtx_unlock() and __mtx_lock_ex() are about the
\* threads that hold the lock.
LEMMA CountFacts ==
    ASSUME HeldTypes, mtx_lock.cnt \in Nat, IsFiniteSet(Counted),
           Cardinality(Counted) <= mtx_lock.cnt
    PROVE  CountSays
  <1>1. \A x : x \in Counted => mtx_lock.cnt > 0
    BY FS_EmptySet, FS_CardinalityType
  <1>2. \A x, y : mtx_lock.cnt = 1 /\ x \in Counted /\ y \in Counted => x = y
    <2> SUFFICES ASSUME mtx_lock.cnt = 1, NEW x \in Counted, NEW y \in Counted
                 PROVE  x = y
      OBVIOUS
    <2>1. Cardinality(Counted) \in Nat /\ Cardinality(Counted) # 0
      BY FS_EmptySet, FS_CardinalityType
    <2>2. \E z : Counted = {z}
      BY <2>1, FS_Singleton
    <2> QED
      BY <2>2
  <1>3. ASSUME NEW t \in Threads
        PROVE  /\ ex[t] + sh[t] > 0 => <<t, 1>> \in Counted
               /\ ex[t] + sh[t] > 1 => <<t, 2>> \in Counted
               /\ InTransit(t) => <<t, 0>> \in Counted
               /\ ex[t] \in Nat /\ sh[t] \in Nat
    BY DEF Counted, Units, IsCounted, HeldTypes
  <1>4. \A t \in Threads : Present(t) => mtx_lock.cnt > 0
    BY <1>1, <1>3 DEF Present
  <1>5. ASSUME mtx_lock.cnt = 1, NEW t \in Threads, NEW u \in Threads,
               Present(t), Present(u)
        PROVE  t = u
    <2>1. PICK i, j \in {0, 1} : <<t, i>> \in Counted /\ <<u, j>> \in Counted
      BY <1>3, <1>5 DEF Present
    <2>2. <<t, i>> = <<u, j>>
      BY <1>2, <1>5, <2>1
    <2> QED
      BY <2>2
  <1>6. ASSUME mtx_lock.cnt = 1, NEW t \in Threads, InTransit(t)
        PROVE  ex[t] = 0 /\ sh[t] = 0
    <2>1. <<t, 0>> # <<t, 1>>
      OBVIOUS
    <2>2. ~ (ex[t] + sh[t] > 0)
      BY <1>2, <1>3, <1>6, <2>1
    <2>3. ex[t] \in Nat /\ sh[t] \in Nat
      BY DEF HeldTypes
    <2> QED
      BY <2>2, <2>3
  <1>7. ASSUME mtx_lock.cnt = 1, NEW t \in Threads
        PROVE  ex[t] + sh[t] <= 1
    <2>1. <<t, 1>> # <<t, 2>> /\ ex[t] \in Nat /\ sh[t] \in Nat
      BY DEF HeldTypes
    <2>2. ex[t] + sh[t] > 1 => <<t, 1>> \in Counted /\ <<t, 2>> \in Counted
      BY <2>1 DEF Counted, Units, IsCounted
    <2>3. ~ (ex[t] + sh[t] > 1)
      BY <1>2, <1>7, <2>1, <2>2
    <2> QED
      BY <2>1, <2>3
  <1> QED
    BY <1>4, <1>5, <1>6, <1>7 DEF CountSays

\* Putting an element into a finite set, or taking it out.
LEMMA Toggle ==
    ASSUME NEW S, IsFiniteSet(S), NEW x, NEW on \in BOOLEAN, NEW T,
           T = IF on THEN S \cup {x} ELSE S \ {x}
    PROVE  /\ IsFiniteSet(T) /\ Cardinality(S) \in Nat
           /\ Cardinality(T) = Cardinality(S) + (One(on) - One(x \in S))
  <1>1. Cardinality(S) \in Nat
    BY FS_CardinalityType
  <1>2. CASE on
    BY <1>1, <1>2, FS_AddElement DEF One
  <1>3. CASE ~ on
    BY <1>1, <1>3, FS_RemoveElement DEF One
  <1> QED
    BY <1>1, <1>2, <1>3

\* How the number of counts changes when one thread takes a step.
LEMMA CountStep ==
    ASSUME HeldTypes, HeldTypes', IsFiniteSet(Counted), NEW t \in Threads,
           \A u \in Threads \ {t} : /\ ex'[u] + sh'[u] = ex[u] + sh[u]
                                    /\ InTransit(u)' <=> InTransit(u),
           (ex'[t] + sh'[t]) - (ex[t] + sh[t]) \in {-1, 0, 1}
    PROVE  /\ IsFiniteSet(Counted')
           /\ Cardinality(Counted) \in Nat
           /\ Cardinality(Counted') = Cardinality(Counted)
                 + (((ex'[t] + sh'[t]) - (ex[t] + sh[t]))
                      + (One(InTransit(t)') - One(InTransit(t))))
  <1> DEFINE N == ex[t] + sh[t]
             M == ex'[t] + sh'[t]
             C == InTransit(t)'
             S1 == IF M = N + 1 THEN Counted \cup {<<t, M>>}
                   ELSE IF M = N - 1 THEN Counted \ {<<t, N>>} ELSE Counted
             S2 == IF C THEN S1 \cup {<<t, 0>>} ELSE S1 \ {<<t, 0>>}
  <1>1. /\ N \in Nat /\ M \in Nat /\ M - N \in {-1, 0, 1}
        /\ Cardinality(Counted) \in Nat
    BY FS_CardinalityType DEF HeldTypes
  <1>2. /\ \A i \in Nat : <<t, i>> \in Counted <=> IsCounted(t, i)
        /\ M = N + 1 => <<t, M>> \notin Counted
        /\ M = N - 1 => <<t, N>> \in Counted
        /\ <<t, 0>> \in Counted <=> InTransit(t)
    <2>1. \A i \in Nat : <<t, i>> \in Counted <=> IsCounted(t, i)
      BY DEF Counted, Units
    <2>2. /\ M = N + 1 => ~ IsCounted(t, M)
          /\ M = N - 1 => IsCounted(t, N)
          /\ IsCounted(t, 0) <=> InTransit(t)
      BY <1>1 DEF IsCounted
    <2> QED
      BY <1>1, <2>1, <2>2
  <1>3. IsFiniteSet(S1) /\ Cardinality(S1) = Cardinality(Counted) + (M - N)
    <2>1. CASE M = N + 1
      <3>1. S1 = Counted \cup {<<t, M>>} /\ <<t, M>> \notin Counted
        BY <1>2, <2>1
      <3>2. /\ IsFiniteSet(Counted \cup {<<t, M>>})
            /\ Cardinality(Counted \cup {<<t, M>>}) = Cardinality(Counted) + 1
        BY <3>1, FS_AddElement
      <3> QED
        BY <1>1, <2>1, <3>1, <3>2
    <2>2. CASE M = N - 1
      <3>1. S1 = Counted \ {<<t, N>>} /\ <<t, N>> \in Counted
        BY <1>1, <1>2, <2>2
      <3>2. /\ IsFiniteSet(Counted \ {<<t, N>>})
            /\ Cardinality(Counted \ {<<t, N>>}) = Cardinality(Counted) - 1
        BY <3>1, FS_RemoveElement
      <3> QED
        BY <1>1, <2>2, <3>1, <3>2
    <2>3. CASE M = N
      BY <1>1, <2>3
    <2> QED
      BY <1>1, <2>1, <2>2, <2>3
  <1>4. <<t, 0>> \in S1 <=> InTransit(t)
    <2>1. /\ M = N + 1 => <<t, M>> # <<t, 0>>
          /\ M = N - 1 => <<t, N>> # <<t, 0>>
      BY <1>1
    <2> QED
      BY <1>2, <2>1
  <1>5. /\ IsFiniteSet(S2)
        /\ Cardinality(S2) = Cardinality(S1) + (One(C) - One(<<t, 0>> \in S1))
    <2>1. C \in BOOLEAN
      BY DEF InTransit
    <2> HIDE DEF S1, C
    <2> QED
      BY <1>3, <2>1, Toggle
  <1>6. Counted' = S2
    <2>1. Counted' = {p \in Units : IsCounted(p[1], p[2])'}
      BY DEF Counted, Units
    <2>2. ASSUME NEW p \in Units PROVE IsCounted(p[1], p[2])' <=> p \in S2
      <3>1. /\ p = <<p[1], p[2]>> /\ p[2] \in Nat /\ p[1] \in Threads
            /\ p \in Counted <=> IsCounted(p[1], p[2])
        BY DEF Units, Counted
      <3>2. CASE p[1] # t
        <4>1. p # <<t, 0>> /\ p # <<t, M>> /\ p # <<t, N>>
          BY <3>1, <3>2
        <4>2. p \in S2 <=> IsCounted(p[1], p[2])
          BY <3>1, <4>1
        <4> QED
          BY <3>1, <3>2, <4>2 DEF IsCounted
      <3>3. CASE p[1] = t /\ p[2] = 0
        <4>1. p = <<t, 0>>
          BY <3>1, <3>3
        <4>2. p \in S2 <=> C
          BY <4>1
        <4> QED
          BY <3>3, <4>2 DEF IsCounted
      <3>4. CASE p[1] = t /\ p[2] # 0
        <4>1. p # <<t, 0>>
          BY <3>1, <3>4
        <4>2. p \in S2 <=> p \in S1
          BY <4>1
        <4>3. IsCounted(p[1], p[2]) <=> p[2] <= N
          BY <1>1, <3>1, <3>4 DEF IsCounted
        <4>4. IsCounted(p[1], p[2])' <=> p[2] <= M
          BY <1>1, <3>1, <3>4 DEF IsCounted
        <4>5. /\ p = <<t, M>> <=> p[2] = M
              /\ p = <<t, N>> <=> p[2] = N
          BY <3>1, <3>4
        <4> HIDE DEF N, M
        <4> QED
          BY <1>1, <3>1, <4>2, <4>3, <4>4, <4>5
      <3> QED
        BY <3>2, <3>3, <3>4
    <2>3. S2 \subseteq Units
      BY <1>1 DEF Counted, Units
    <2> QED
      BY <2>1, <2>2, <2>3
  <1> QED
    <2>1. One(<<t, 0>> \in S1) = One(InTransit(t))
      BY <1>4 DEF One
    <2>2. One(C) \in Int /\ One(InTransit(t)) \in Int
      BY DEF One
    <2> HIDE DEF S1, S2, C, N, M
    <2>3. Cardinality(S2) = Cardinality(Counted)
                              + ((M - N) + (One(C) - One(InTransit(t))))
      BY <1>1, <1>3, <1>5, <2>1, <2>2
    <2> QED
      BY <1>1, <1>5, <1>6, <2>3 DEF M, N, C

\* The number of counts stays when mtx_chain_link() hands a count over.
LEMMA CountMove ==
    ASSUME IsFiniteSet(Counted), NEW t \in Threads, NEW h \in Threads, t # h,
           UNCHANGED <<ex, sh>>,
           \A u \in Threads \ {t, h} : InTransit(u)' <=> InTransit(u),
           InTransit(t), ~ InTransit(h), ~ InTransit(t)', InTransit(h)'
    PROVE  /\ IsFiniteSet(Counted')
           /\ Cardinality(Counted') = Cardinality(Counted)
  <1> DEFINE S == Counted \ {<<t, 0>>}
  <1>1. <<t, 0>> \in Counted /\ <<h, 0>> \notin Counted
    BY DEF Counted, Units, IsCounted
  <1>2. /\ IsFiniteSet(S) /\ Cardinality(S) = Cardinality(Counted) - 1
        /\ Cardinality(Counted) \in Nat
    BY <1>1, FS_RemoveElement, FS_CardinalityType
  <1>3. /\ IsFiniteSet(S \cup {<<h, 0>>})
        /\ Cardinality(S \cup {<<h, 0>>}) = Cardinality(Counted)
    <2>1. <<h, 0>> \notin S
      BY <1>1
    <2> HIDE DEF S
    <2> QED
      BY <1>2, <2>1, FS_AddElement
  <1>4. Counted' = S \cup {<<h, 0>>}
    <2>1. Counted' = {p \in Units : IsCounted(p[1], p[2])'}
      BY DEF Counted, Units
    <2>2. ASSUME NEW p \in Units
          PROVE  IsCounted(p[1], p[2])' <=> p \in S \cup {<<h, 0>>}
      <3>1. /\ p = <<p[1], p[2]>> /\ p[2] \in Nat /\ p[1] \in Threads
            /\ p \in Counted <=> IsCounted(p[1], p[2])
        BY DEF Units, Counted
      <3>2. /\ p = <<t, 0>> <=> p[1] = t /\ p[2] = 0
            /\ p = <<h, 0>> <=> p[1] = h /\ p[2] = 0
        BY <3>1
      <3> QED
        BY <3>1, <3>2 DEF IsCounted
    <2>3. S \cup {<<h, 0>>} \subseteq Units
      BY DEF Counted, Units
    <2> QED
      BY <2>1, <2>2, <2>3
  <1> QED
    BY <1>3, <1>4

\* The count of the lock word is not less than the number of counts, and exactly
\* that where no timeout withdraws a waiter or the recursion test finds the truth.
CountedLess == IsFiniteSet(Counted) /\ Cardinality(Counted) <= mtx_lock.cnt

Exact == Cardinality(Counted) = mtx_lock.cnt

\* Both stay so if the count moves with what one thread does.
LEMMA CountKept ==
    ASSUME HeldTypes, HeldTypes', CountedLess, NEW t \in Threads,
           mtx_lock.cnt \in Int, mtx_lock'.cnt \in Int, NEW d \in Int, NEW c \in Int,
           \A u \in Threads \ {t} : /\ ex'[u] + sh'[u] = ex[u] + sh[u]
                                    /\ InTransit(u)' <=> InTransit(u),
           (ex'[t] + sh'[t]) - (ex[t] + sh[t]) = d, d \in {-1, 0, 1},
           One(InTransit(t)') - One(InTransit(t)) = c,
           mtx_lock'.cnt >= mtx_lock.cnt + (d + c)
    PROVE  /\ CountedLess'
           /\ Exact /\ mtx_lock'.cnt = mtx_lock.cnt + (d + c) => Exact'
  <1>1. /\ IsFiniteSet(Counted') /\ Cardinality(Counted) \in Nat
        /\ Cardinality(Counted') = Cardinality(Counted) + (d + c)
    BY CountStep DEF CountedLess
  <1> QED
    BY <1>1 DEF CountedLess, Exact

\* In particular when nothing that is counted changes.
LEMMA CountSame ==
    ASSUME CountedLess, UNCHANGED <<ex, sh>>, mtx_lock'.cnt = mtx_lock.cnt,
           \A u \in Threads : InTransit(u)' <=> InTransit(u)
    PROVE  CountedLess' /\ (Exact => Exact')
  <1>1. ASSUME NEW p \in Units
        PROVE  IsCounted(p[1], p[2])' <=> IsCounted(p[1], p[2])
    BY DEF Units, IsCounted
  <1>2. Counted' = Counted
    BY <1>1 DEF Counted, Units
  <1> QED
    BY <1>2 DEF CountedLess, Exact
-----------------------------------------------------------------------------
(* Wakeups *)

\* The types of the rest; the count does not go below 0.
RestTypes == /\ mtx_lock.cnt \in Nat
             /\ mtx_owner \in Threads \cup {NULL}
             /\ sleepq \in [Threads -> {"none", "link", "mtx"}]
             /\ err \in [Threads -> BOOLEAN]
             /\ HeldTypes

\* A flag in the lock word is set only while the lock is held, so that it is a
\* release that looks at it.
Flags == /\ mtx_lock.ex \/ mtx_lock.exw => mtx_lock.cnt > 0
         /\ mtx_lock.shw => mtx_lock.ex

\* Between clearing the owner and releasing the lock nobody else has a count,
\* and nobody becomes the owner.
Releases == \A t \in Threads : pc[t] = "release" =>
               /\ mtx_lock.cnt = 1 /\ mtx_lock.ex /\ mtx_owner = NULL
               /\ \A u \in Threads : pc[u] \notin {"chain_owner", "chain_clear"}

\* MTX_EXWANTED is set while a link is on the list, or a thread is on its way to
\* put it there or to take it from there; the list is empty when a release that
\* found it so gives up.
Wanted == /\ mtx_link # <<>> => mtx_lock.exw
          /\ \A t \in Threads :
                /\ pc[t] \in {"link", "chain", "chain_owner", "chain_clear",
                              "chain_release"} => mtx_lock.exw
                /\ pc[t] \in {"chain", "chain_release"} => mtx_lock.ex
                /\ pc[t] = "chain_release" => mtx_link = <<>>

\* A waiter that has not looked at its link yet has been handed the lock or is
\* on the list, and in the first case its wakeup is coming.
Waiters == \A t \in Threads :
              /\ pc[t] = "linked" => state[t] = "LINKED"
              /\ pc[t] = "sleep" => state[t] \in {"LINKED", "ACQUIRED"}
              /\ pc[t] = "sleep" /\ sleepq[t] = "link" /\ state[t] = "ACQUIRED" =>
                    \E u \in Inside({"chain_owner", "chain_clear", "wake"}) :
                       target[u] = t

\* The inductive invariant with timeouts and signals.
TInv == /\ LinkInv
        /\ RestTypes
        /\ CountedLess
        /\ Flags
        /\ Releases
        /\ Wanted
        /\ Waiters
        /\ SharedWakeupPending

\* A lock word other than 0 has a flag or a count.
LEMMA NotUnlocked ==
    ASSUME mtx_lock \in Words, mtx_lock # Unlocked
    PROVE  mtx_lock.ex \/ mtx_lock.shw \/ mtx_lock.exw \/ mtx_lock.exl \/ mtx_lock.cnt # 0
  BY DEF Words, Unlocked

\* An exclusive lock call begins.
LEMMA LockExTimed ==
    ASSUME TInv, LinkInv', NEW t \in Threads,
           \/ LockEx(t) \/ TryEx(t)
    PROVE  TInv' /\ (Exact => Exact')
  <1>i. /\ LinkTypes /\ OnList /\ Targets /\ ExlinkExclusive /\ RestTypes
        /\ CountedLess /\ Flags /\ Releases /\ Wanted /\ Waiters
        /\ SharedWakeupPending /\ LinkTypes'
    BY DEF TInv, LinkInv
  <1>c. CountSays
    BY <1>i, CountFacts DEF RestTypes, CountedLess
  <1>1. RestTypes'
    BY <1>i DEF LinkTypes, RestTypes, HeldTypes, LockEx, TryEx
  <1>2. CountedLess' /\ (Exact => Exact')
    <2>1. /\ UNCHANGED <<ex, sh>> /\ mtx_lock'.cnt = mtx_lock.cnt
          /\ \A u \in Threads : InTransit(u)' <=> InTransit(u)
      BY <1>i DEF LinkTypes, InTransit, LockEx, TryEx
    <2> QED
      BY <1>i, <2>1, CountSame
  <1>3. Flags'
    BY <1>i DEF Flags, LockEx, TryEx
  <1>4. Releases'
    BY <1>i DEF LinkTypes, Releases, Flags, LockEx, TryEx
  <1>5. Wanted'
    BY <1>i DEF LinkTypes, Wanted, LockEx, TryEx
  <1>6. Waiters'
    BY <1>i DEF LinkTypes, Waiters, Inside, LockEx, TryEx
  <1>7. SharedWakeupPending'
    BY <1>i DEF LinkTypes, Flags, SharedWakeupPending, Inside, LockEx, TryEx
  <1> QED
    BY <1>1, <1>2, <1>3, <1>4, <1>5, <1>6, <1>7 DEF TInv

\* So does a shared one, or a try fails.
LEMMA CallTimed ==
    ASSUME TInv, LinkInv', NEW t \in Threads,
           \/ LockSh(t) \/ TrySh(t) \/ TryFail(t) \/ TryShFail(t)
    PROVE  TInv' /\ (Exact => Exact')
  <1>i. /\ LinkTypes /\ OnList /\ Targets /\ ExlinkExclusive /\ RestTypes
        /\ CountedLess /\ Flags /\ Releases /\ Wanted /\ Waiters
        /\ SharedWakeupPending /\ LinkTypes'
    BY DEF TInv, LinkInv
  <1>c. CountSays
    BY <1>i, CountFacts DEF RestTypes, CountedLess
  <1>1. RestTypes'
    BY <1>i DEF LinkTypes, RestTypes, HeldTypes, LockSh, TrySh, TryFail,
       TryShFail
  <1>2. CountedLess' /\ (Exact => Exact')
    <2>1. /\ UNCHANGED <<ex, sh>> /\ mtx_lock'.cnt = mtx_lock.cnt
          /\ \A u \in Threads : InTransit(u)' <=> InTransit(u)
      BY <1>i DEF LinkTypes, InTransit, LockSh, TrySh, TryFail, TryShFail
    <2> QED
      BY <1>i, <2>1, CountSame
  <1>3. Flags'
    BY <1>i DEF Flags, LockSh, TrySh, TryFail, TryShFail
  <1>4. Releases'
    BY <1>i DEF LinkTypes, Releases, Flags, LockSh, TrySh, TryFail, TryShFail
  <1>5. Wanted'
    BY <1>i DEF LinkTypes, Wanted, LockSh, TrySh, TryFail, TryShFail
  <1>6. Waiters'
    <2>1. /\ pc[t] \in {"idle", "try", "try_sh"}
          /\ pc'[t] \in {"idle", "lock_sh", "try_sh"}
          /\ \A u \in Threads \ {t} : pc'[u] = pc[u]
          /\ UNCHANGED <<state, sleepq, target>>
      BY <1>i DEF LinkTypes, LockSh, TrySh, TryFail, TryShFail
    <2> QED
      BY <1>i, <2>1 DEF Waiters, Inside
  <1>7. SharedWakeupPending'
    BY <1>i DEF LinkTypes, Flags, SharedWakeupPending, Inside, LockSh, TrySh,
       TryFail, TryShFail
  <1> QED
    BY <1>1, <1>2, <1>3, <1>4, <1>5, <1>6, <1>7 DEF TInv

\* A shared request sleeps, until it looks again or gives up.
LEMMA ShWaitTimed ==
    ASSUME TInv, LinkInv', NEW t \in Threads,
           \/ LockShInterlock(t) \/ LockShRace(t) \/ WokenSh(t)
           \/ SleepErrorSh(t) \/ LockShWait(t)
    PROVE  TInv' /\ (Exact => Exact')
  <1>i. /\ LinkTypes /\ OnList /\ Targets /\ ExlinkExclusive /\ RestTypes
        /\ CountedLess /\ Flags /\ Releases /\ Wanted /\ Waiters
        /\ SharedWakeupPending /\ LinkTypes'
    BY DEF TInv, LinkInv
  <1>c. CountSays
    BY <1>i, CountFacts DEF RestTypes, CountedLess
  <1>1. RestTypes'
    BY <1>i DEF LinkTypes, Words, RestTypes, HeldTypes, LockShInterlock,
       LockShRace, WokenSh, SleepErrorSh, LockShWait
  <1>2. CountedLess' /\ (Exact => Exact')
    <2>1. /\ UNCHANGED <<ex, sh>> /\ mtx_lock'.cnt = mtx_lock.cnt
          /\ \A u \in Threads : InTransit(u)' <=> InTransit(u)
      BY <1>i DEF LinkTypes, Words, InTransit, LockShInterlock, LockShRace,
         WokenSh, SleepErrorSh, LockShWait
    <2> QED
      BY <1>i, <2>1, CountSame
  <1>3. Flags'
    BY <1>i DEF LinkTypes, Words, Flags, LockShInterlock, LockShRace, WokenSh,
       SleepErrorSh, LockShWait
  <1>4. Releases'
    BY <1>i DEF LinkTypes, Words, Releases, Flags, LockShInterlock, LockShRace,
       WokenSh, SleepErrorSh, LockShWait
  <1>5. Wanted'
    BY <1>i DEF LinkTypes, Words, Wanted, LockShInterlock, LockShRace, WokenSh,
       SleepErrorSh, LockShWait
  <1>6. Waiters'
    BY <1>i DEF LinkTypes, RestTypes, Waiters, Inside, LockShInterlock,
       LockShRace, WokenSh, SleepErrorSh, LockShWait
  <1>7. SharedWakeupPending'
    BY <1>i DEF LinkTypes, Words, RestTypes, Flags, SharedWakeupPending,
       Inside, LockShInterlock, LockShRace, WokenSh, SleepErrorSh, LockShWait
  <1> QED
    BY <1>1, <1>2, <1>3, <1>4, <1>5, <1>6, <1>7 DEF TInv

\* tsleep() returns to a waiter.
LEMMA SleepTimed ==
    ASSUME TInv, LinkInv', NEW t \in Threads,
           \/ Woken(t) \/ SleepError(t) \/ GiveUp(t) \/ Retry(t)
           \/ DeleteLink(t)
    PROVE  TInv' /\ (Exact => Exact')
  <1>i. /\ LinkTypes /\ OnList /\ Targets /\ ExlinkExclusive /\ RestTypes
        /\ CountedLess /\ Flags /\ Releases /\ Wanted /\ Waiters
        /\ SharedWakeupPending /\ LinkTypes'
    BY DEF TInv, LinkInv
  <1>c. CountSays
    BY <1>i, CountFacts DEF RestTypes, CountedLess
  <1>1. RestTypes'
    BY <1>i DEF LinkTypes, RestTypes, HeldTypes, Woken, SleepError, GiveUp,
       Retry, DeleteLink
  <1>2. CountedLess' /\ (Exact => Exact')
    <2>1. /\ UNCHANGED <<ex, sh>> /\ mtx_lock'.cnt = mtx_lock.cnt
          /\ \A u \in Threads : InTransit(u)' <=> InTransit(u)
      BY <1>i DEF LinkTypes, InTransit, Woken, SleepError, GiveUp, Retry,
         DeleteLink
    <2> QED
      BY <1>i, <2>1, CountSame
  <1>3. Flags'
    BY <1>i DEF Flags, Woken, SleepError, GiveUp, Retry, DeleteLink
  <1>4. Releases'
    BY <1>i DEF LinkTypes, Releases, Flags, Woken, SleepError, GiveUp, Retry,
       DeleteLink
  <1>5. Wanted'
    BY <1>i DEF LinkTypes, Wanted, Woken, SleepError, GiveUp, Retry, DeleteLink
  <1>6. Waiters'
    BY <1>i DEF LinkTypes, RestTypes, Waiters, Inside, Woken, SleepError,
       GiveUp, Retry, DeleteLink
  <1>7. SharedWakeupPending'
    BY <1>i DEF LinkTypes, RestTypes, Flags, SharedWakeupPending, Inside,
       Woken, SleepError, GiveUp, Retry, DeleteLink
  <1> QED
    BY <1>1, <1>2, <1>3, <1>4, <1>5, <1>6, <1>7 DEF TInv

\* A waiter gets EXLINK.
LEMMA WaitTimed ==
    ASSUME TInv, LinkInv', NEW t \in Threads,
           LockExWait(t)
    PROVE  TInv' /\ (Exact => Exact')
  <1>i. /\ LinkTypes /\ OnList /\ Targets /\ ExlinkExclusive /\ RestTypes
        /\ CountedLess /\ Flags /\ Releases /\ Wanted /\ Waiters
        /\ SharedWakeupPending /\ LinkTypes'
    BY DEF TInv, LinkInv
  <1>c. CountSays
    BY <1>i, CountFacts DEF RestTypes, CountedLess
  <1>p. mtx_lock.cnt > 0
    BY <1>i, NotUnlocked DEF LinkTypes, RestTypes, Flags, LockExWait
  <1>1. RestTypes'
    BY <1>i, <1>p DEF LinkTypes, RestTypes, HeldTypes, LockExWait
  <1>2. CountedLess' /\ (Exact => Exact')
    <2>1. /\ UNCHANGED <<ex, sh>> /\ mtx_lock'.cnt = mtx_lock.cnt
          /\ \A u \in Threads : InTransit(u)' <=> InTransit(u)
      BY <1>i, <1>p DEF InTransit, LockExWait
    <2> QED
      BY <1>i, <2>1, CountSame
  <1>3. Flags'
    BY <1>i, <1>p DEF Flags, LockExWait
  <1>4. Releases'
    BY <1>i, <1>p DEF LinkTypes, Releases, Flags, LockExWait
  <1>5. Wanted'
    BY <1>i, <1>p DEF Wanted, LockExWait
  <1>6. Waiters'
    BY <1>i, <1>p DEF Waiters, Inside, LockExWait
  <1>7. SharedWakeupPending'
    BY <1>i, <1>p DEF Flags, SharedWakeupPending, Inside, LockExWait
  <1> QED
    BY <1>1, <1>2, <1>3, <1>4, <1>5, <1>6, <1>7 DEF TInv

\* A waiter releases EXLINK, or gets it to withdraw.
LEMMA ExlinkTimed ==
    ASSUME TInv, LinkInv', NEW t \in Threads,
           \/ LinkedRelease(t) \/ DeleteExlink(t) \/ DeleteRelease(t)
    PROVE  TInv' /\ (Exact => Exact')
  <1>i. /\ LinkTypes /\ OnList /\ Targets /\ ExlinkExclusive /\ RestTypes
        /\ CountedLess /\ Flags /\ Releases /\ Wanted /\ Waiters
        /\ SharedWakeupPending /\ LinkTypes'
    BY DEF TInv, LinkInv
  <1>c. CountSays
    BY <1>i, CountFacts DEF RestTypes, CountedLess
  <1>1. RestTypes'
    BY <1>i DEF LinkTypes, Words, RestTypes, HeldTypes, LinkedRelease,
       DeleteExlink, DeleteRelease, ClearExlink, GetExlink
  <1>2. CountedLess' /\ (Exact => Exact')
    <2>1. /\ UNCHANGED <<ex, sh>> /\ mtx_lock'.cnt = mtx_lock.cnt
          /\ \A u \in Threads : InTransit(u)' <=> InTransit(u)
      BY <1>i DEF LinkTypes, Words, InTransit, LinkedRelease, DeleteExlink,
         DeleteRelease, ClearExlink, GetExlink, Waiters
    <2> QED
      BY <1>i, <2>1, CountSame
  <1>3. Flags'
    BY <1>i DEF LinkTypes, Words, Flags, LinkedRelease, DeleteExlink,
       DeleteRelease, ClearExlink, GetExlink
  <1>4. Releases'
    BY <1>i DEF LinkTypes, Words, Releases, Flags, LinkedRelease, DeleteExlink,
       DeleteRelease, ClearExlink, GetExlink
  <1>5. Wanted'
    BY <1>i DEF LinkTypes, Words, Wanted, LinkedRelease, DeleteExlink,
       DeleteRelease, ClearExlink, GetExlink
  <1>6. Waiters'
    BY <1>i DEF LinkTypes, Waiters, Inside, LinkedRelease, DeleteExlink,
       DeleteRelease, ClearExlink, GetExlink
  <1>7. SharedWakeupPending'
    BY <1>i DEF LinkTypes, Words, Flags, SharedWakeupPending, Inside,
       LinkedRelease, DeleteExlink, DeleteRelease, ClearExlink, GetExlink
  <1> QED
    BY <1>1, <1>2, <1>3, <1>4, <1>5, <1>6, <1>7 DEF TInv

\* A waiter puts its link on the list.
LEMMA LinkInTimed ==
    ASSUME TInv, LinkInv', NEW t \in Threads,
           LinkIn(t)
    PROVE  TInv' /\ (Exact => Exact')
  <1>i. /\ LinkTypes /\ OnList /\ Targets /\ ExlinkExclusive /\ RestTypes
        /\ CountedLess /\ Flags /\ Releases /\ Wanted /\ Waiters
        /\ SharedWakeupPending /\ LinkTypes'
    BY DEF TInv, LinkInv
  <1>c. CountSays
    BY <1>i, CountFacts DEF RestTypes, CountedLess
  <1>1. RestTypes'
    BY <1>i DEF LinkTypes, RestTypes, HeldTypes, LinkIn
  <1>2. CountedLess' /\ (Exact => Exact')
    <2>1. /\ UNCHANGED <<ex, sh>> /\ mtx_lock'.cnt = mtx_lock.cnt
          /\ \A u \in Threads : InTransit(u)' <=> InTransit(u)
      BY <1>i DEF InTransit, LinkIn
    <2> QED
      BY <1>i, <2>1, CountSame
  <1>3. Flags'
    BY <1>i DEF Flags, LinkIn
  <1>4. Releases'
    BY <1>i DEF LinkTypes, Releases, Flags, LinkIn
  <1>5. Wanted'
    BY <1>i DEF Wanted, ExlinkExclusive, ExlinkHolders, Inside, LinkIn
  <1>6. Waiters'
    BY <1>i DEF LinkTypes, Waiters, Inside, LinkIn
  <1>7. SharedWakeupPending'
    BY <1>i DEF Flags, SharedWakeupPending, Inside, LinkIn
  <1> QED
    BY <1>1, <1>2, <1>3, <1>4, <1>5, <1>6, <1>7 DEF TInv

\* A waiter takes its link off the list.
LEMMA DeleteUnlinkTimed ==
    ASSUME TInv, LinkInv', NEW t \in Threads,
           DeleteUnlink(t)
    PROVE  TInv' /\ (Exact => Exact')
  <1>i. /\ LinkTypes /\ OnList /\ Targets /\ ExlinkExclusive /\ RestTypes
        /\ CountedLess /\ Flags /\ Releases /\ Wanted /\ Waiters
        /\ SharedWakeupPending /\ LinkTypes'
    BY DEF TInv, LinkInv
  <1>c. CountSays
    BY <1>i, CountFacts DEF RestTypes, CountedLess
  <1>p. state[t] = "LINKED" => mtx_link # <<>>
    BY <1>i DEF OnList, ToSet
  <1>1. RestTypes'
    BY <1>i, <1>p DEF LinkTypes, RestTypes, HeldTypes, DeleteUnlink
  <1>2. CountedLess' /\ (Exact => Exact')
    <2>1. /\ UNCHANGED <<ex, sh>> /\ mtx_lock'.cnt = mtx_lock.cnt
          /\ \A u \in Threads : InTransit(u)' <=> InTransit(u)
      BY <1>i, <1>p DEF LinkTypes, InTransit, DeleteUnlink
    <2> QED
      BY <1>i, <2>1, CountSame
  <1>3. Flags'
    BY <1>i, <1>p DEF Flags, DeleteUnlink
  <1>4. Releases'
    BY <1>i, <1>p DEF LinkTypes, Releases, Flags, DeleteUnlink
  <1>5. Wanted'
    BY <1>i, <1>p DEF Wanted, DeleteUnlink
  <1>6. Waiters'
    BY <1>i, <1>p DEF LinkTypes, Waiters, Inside, DeleteUnlink, OnList, Linked
  <1>7. SharedWakeupPending'
    BY <1>i, <1>p DEF Flags, SharedWakeupPending, Inside, DeleteUnlink
  <1> QED
    BY <1>1, <1>2, <1>3, <1>4, <1>5, <1>6, <1>7 DEF TInv

\* The last release begins.
LEMMA LastTimed ==
    ASSUME TInv, LinkInv', NEW t \in Threads,
           \/ ClearOwner(t) \/ ReleaseExRace(t) \/ ReleaseChain(t)
           \/ ChainEmpty(t)
    PROVE  TInv' /\ (Exact => Exact')
  <1>i. /\ LinkTypes /\ OnList /\ Targets /\ ExlinkExclusive /\ RestTypes
        /\ CountedLess /\ Flags /\ Releases /\ Wanted /\ Waiters
        /\ SharedWakeupPending /\ LinkTypes'
    BY DEF TInv, LinkInv
  <1>c. CountSays
    BY <1>i, CountFacts DEF RestTypes, CountedLess
  <1>1. RestTypes'
    BY <1>i, <1>c DEF LinkTypes, Words, RestTypes, HeldTypes, Present,
       InTransit, ClearOwner, ReleaseExRace, ReleaseChain, ChainEmpty
  <1>2. CountedLess' /\ (Exact => Exact')
    <2>1. /\ UNCHANGED <<ex, sh>> /\ mtx_lock'.cnt = mtx_lock.cnt
          /\ \A u \in Threads : InTransit(u)' <=> InTransit(u)
      BY <1>i DEF LinkTypes, Words, InTransit, ClearOwner, ReleaseExRace,
         ReleaseChain, ChainEmpty
    <2> QED
      BY <1>i, <2>1, CountSame
  <1>3. Flags'
    BY <1>i, <1>c DEF LinkTypes, Words, RestTypes, Flags, ClearOwner,
       ReleaseExRace, ReleaseChain, ChainEmpty
  <1>4. Releases'
    BY <1>i, <1>c DEF LinkTypes, RestTypes, Releases, Flags, CountSays,
       Present, InTransit, ClearOwner, ReleaseExRace, ReleaseChain, ChainEmpty,
       Wanted
  <1>5. Wanted'
    BY <1>i DEF LinkTypes, Words, Wanted, ClearOwner, ReleaseExRace,
       ReleaseChain, ChainEmpty
  <1>6. Waiters'
    BY <1>i DEF LinkTypes, Waiters, Inside, ClearOwner, ReleaseExRace,
       ReleaseChain, ChainEmpty
  <1>7. SharedWakeupPending'
    BY <1>i DEF LinkTypes, Words, Flags, SharedWakeupPending, Inside,
       ClearOwner, ReleaseExRace, ReleaseChain, ChainEmpty
  <1> QED
    BY <1>1, <1>2, <1>3, <1>4, <1>5, <1>6, <1>7 DEF TInv

\* A handover writes the owner.
LEMMA HandoffTimed ==
    ASSUME TInv, LinkInv', NEW t \in Threads,
           \/ ChainOwner(t) \/ ChainNull(t)
    PROVE  TInv' /\ (Exact => Exact')
  <1>i. /\ LinkTypes /\ OnList /\ Targets /\ ExlinkExclusive /\ RestTypes
        /\ CountedLess /\ Flags /\ Releases /\ Wanted /\ Waiters
        /\ SharedWakeupPending /\ LinkTypes'
    BY DEF TInv, LinkInv
  <1>c. CountSays
    BY <1>i, CountFacts DEF RestTypes, CountedLess
  <1>1. RestTypes'
    BY <1>i DEF LinkTypes, RestTypes, HeldTypes, ChainOwner, ChainNull, Targets
  <1>2. CountedLess' /\ (Exact => Exact')
    <2>1. /\ UNCHANGED <<ex, sh>> /\ mtx_lock'.cnt = mtx_lock.cnt
          /\ \A u \in Threads : InTransit(u)' <=> InTransit(u)
      BY <1>i DEF LinkTypes, InTransit, ChainOwner, ChainNull
    <2> QED
      BY <1>i, <2>1, CountSame
  <1>3. Flags'
    BY <1>i DEF Flags, ChainOwner, ChainNull
  <1>4. Releases'
    BY <1>i DEF LinkTypes, Releases, Flags, ChainOwner, ChainNull, Targets
  <1>5. Wanted'
    BY <1>i DEF LinkTypes, Wanted, ChainOwner, ChainNull
  <1>6. Waiters'
    BY <1>i DEF LinkTypes, Waiters, Inside, ChainOwner, ChainNull
  <1>7. SharedWakeupPending'
    BY <1>i DEF LinkTypes, Flags, SharedWakeupPending, Inside, ChainOwner,
       ChainNull
  <1> QED
    BY <1>1, <1>2, <1>3, <1>4, <1>5, <1>6, <1>7 DEF TInv

\* It clears EXLINK, and EXWANTED with the last waiter.
LEMMA ChainClearTimed ==
    ASSUME TInv, LinkInv', NEW t \in Threads,
           ChainClear(t)
    PROVE  TInv' /\ (Exact => Exact')
  <1>i. /\ LinkTypes /\ OnList /\ Targets /\ ExlinkExclusive /\ RestTypes
        /\ CountedLess /\ Flags /\ Releases /\ Wanted /\ Waiters
        /\ SharedWakeupPending /\ LinkTypes'
    BY DEF TInv, LinkInv
  <1>c. CountSays
    BY <1>i, CountFacts DEF RestTypes, CountedLess
  <1>1. RestTypes'
    BY <1>i DEF LinkTypes, RestTypes, HeldTypes, ChainClear, Targets
  <1>2. CountedLess' /\ (Exact => Exact')
    <2>1. /\ UNCHANGED <<ex, sh>> /\ mtx_lock'.cnt = mtx_lock.cnt
          /\ \A u \in Threads : InTransit(u)' <=> InTransit(u)
      BY <1>i DEF InTransit, ChainClear
    <2> QED
      BY <1>i, <2>1, CountSame
  <1>3. Flags'
    BY <1>i DEF LinkTypes, Words, Flags, ChainClear
  <1>4. Releases'
    BY <1>i DEF LinkTypes, Releases, Flags, ChainClear, Targets
  <1>5. Wanted'
    BY <1>i DEF LinkTypes, Words, Wanted, ExlinkExclusive, ExlinkHolders,
       Inside, ChainClear
  <1>6. Waiters'
    BY <1>i DEF Waiters, Inside, ChainClear
  <1>7. SharedWakeupPending'
    BY <1>i DEF Flags, SharedWakeupPending, Inside, ChainClear
  <1> QED
    BY <1>1, <1>2, <1>3, <1>4, <1>5, <1>6, <1>7 DEF TInv

\* A release wakes up the sleepers.
LEMMA WakeTimed ==
    ASSUME TInv, LinkInv', NEW t \in Threads,
           \/ WakeLink(t) \/ WakeSh(t)
    PROVE  TInv' /\ (Exact => Exact')
  <1>i. /\ LinkTypes /\ OnList /\ Targets /\ ExlinkExclusive /\ RestTypes
        /\ CountedLess /\ Flags /\ Releases /\ Wanted /\ Waiters
        /\ SharedWakeupPending /\ LinkTypes'
    BY DEF TInv, LinkInv
  <1>c. CountSays
    BY <1>i, CountFacts DEF RestTypes, CountedLess
  <1>1. RestTypes'
    BY <1>i DEF LinkTypes, RestTypes, HeldTypes, WakeLink, WakeSh, Targets
  <1>2. CountedLess' /\ (Exact => Exact')
    <2>1. /\ UNCHANGED <<ex, sh>> /\ mtx_lock'.cnt = mtx_lock.cnt
          /\ \A u \in Threads : InTransit(u)' <=> InTransit(u)
      BY <1>i DEF LinkTypes, InTransit, WakeLink, WakeSh
    <2> QED
      BY <1>i, <2>1, CountSame
  <1>3. Flags'
    BY <1>i DEF Flags, WakeLink, WakeSh
  <1>4. Releases'
    BY <1>i DEF LinkTypes, Releases, Flags, WakeLink, WakeSh
  <1>5. Wanted'
    BY <1>i DEF LinkTypes, Wanted, WakeLink, WakeSh
  <1>6. Waiters'
    BY <1>i DEF LinkTypes, RestTypes, Waiters, Inside, WakeLink, WakeSh,
       Targets
  <1>7. SharedWakeupPending'
    BY <1>i DEF LinkTypes, RestTypes, Flags, SharedWakeupPending, Inside,
       WakeLink, WakeSh, Targets
  <1> QED
    BY <1>1, <1>2, <1>3, <1>4, <1>5, <1>6, <1>7 DEF TInv

\* A free lock is taken.
LEMMA FreeTimed ==
    ASSUME TInv, LinkInv', NEW t \in Threads,
           LockExFree(t)
    PROVE  TInv' /\ (Exact => Exact')
  <1>i. /\ LinkTypes /\ OnList /\ Targets /\ ExlinkExclusive /\ RestTypes
        /\ CountedLess /\ Flags /\ Releases /\ Wanted /\ Waiters
        /\ SharedWakeupPending /\ LinkTypes'
    BY DEF TInv, LinkInv
  <1>c. CountSays
    BY <1>i, CountFacts DEF RestTypes, CountedLess
  <1>1. RestTypes'
    BY <1>i, <1>c DEF LinkTypes, RestTypes, HeldTypes, Present, InTransit,
       LockExFree, Unlocked
  <1>2. CountedLess' /\ (Exact => Exact')
    <2>1. \A u \in Threads \ {t} : /\ ex'[u] + sh'[u] = ex[u] + sh[u]
                                   /\ InTransit(u)' <=> InTransit(u)
      BY <1>i DEF LinkTypes, InTransit, LockExFree, Unlocked
    <2>2. (ex'[t] + sh'[t]) - (ex[t] + sh[t]) = 0
      BY <1>i DEF RestTypes, HeldTypes, LockExFree
    <2>3. One(InTransit(t)') - One(InTransit(t)) = 1
      BY <1>i DEF LinkTypes, InTransit, One, LockExFree
    <2>4. mtx_lock'.cnt = mtx_lock.cnt + (0 + 1)
      BY <1>i, <1>1 DEF LockExFree, Unlocked
    <2> QED
      BY <1>i, <1>1, <2>1, <2>2, <2>3, <2>4, CountKept DEF RestTypes
  <1>3. Flags'
    BY <1>i, <1>c DEF LinkTypes, RestTypes, Flags, LockExFree, Unlocked
  <1>4. Releases'
    BY <1>i, <1>c DEF LinkTypes, RestTypes, Releases, Flags, LockExFree,
       Unlocked
  <1>5. Wanted'
    BY <1>i DEF Wanted, LockExFree, Unlocked
  <1>6. Waiters'
    BY <1>i DEF Waiters, Inside, LockExFree, Unlocked
  <1>7. SharedWakeupPending'
    BY <1>i DEF Flags, SharedWakeupPending, Inside, LockExFree, Unlocked
  <1> QED
    BY <1>1, <1>2, <1>3, <1>4, <1>5, <1>6, <1>7 DEF TInv

\* A count is added, by the owner or to a shared lock.
LEMMA RecurseTimed ==
    ASSUME TInv, LinkInv', NEW t \in Threads,
           \/ LockExRecurse(t) \/ LockShGrant(t)
    PROVE  TInv' /\ (Exact => Exact')
  <1>i. /\ LinkTypes /\ OnList /\ Targets /\ ExlinkExclusive /\ RestTypes
        /\ CountedLess /\ Flags /\ Releases /\ Wanted /\ Waiters
        /\ SharedWakeupPending /\ LinkTypes'
    BY DEF TInv, LinkInv
  <1>c. CountSays
    BY <1>i, CountFacts DEF RestTypes, CountedLess
  <1>1. RestTypes'
    <2>1. mtx_lock'.cnt \in Nat
      BY <1>i DEF LinkTypes, Words, RestTypes, LockExRecurse, LockShGrant,
         Owned
    <2>2. HeldTypes'
      BY <1>i DEF RestTypes, HeldTypes, LockExRecurse, LockShGrant
    <2> QED
      BY <1>i, <2>1, <2>2 DEF RestTypes, LockExRecurse, LockShGrant
  <1>2. CountedLess' /\ (Exact => Exact')
    <2>1. \A u \in Threads \ {t} : /\ ex'[u] + sh'[u] = ex[u] + sh[u]
                                   /\ InTransit(u)' <=> InTransit(u)
      BY <1>i DEF LinkTypes, RestTypes, HeldTypes, InTransit, LockExRecurse, LockShGrant
    <2>2. (ex'[t] + sh'[t]) - (ex[t] + sh[t]) = 1
      BY <1>i DEF RestTypes, HeldTypes, LockExRecurse, LockShGrant
    <2>3. One(InTransit(t)') - One(InTransit(t)) = 0
      BY <1>i DEF LinkTypes, InTransit, One, LockExRecurse, LockShGrant
    <2>4. mtx_lock'.cnt = mtx_lock.cnt + (1 + 0)
      BY <1>i, <1>1 DEF LinkTypes, Words, LockExRecurse, LockShGrant
    <2> QED
      BY <1>i, <1>1, <2>1, <2>2, <2>3, <2>4, CountKept DEF RestTypes
  <1>3. Flags'
    BY <1>i DEF LinkTypes, Words, Flags, LockExRecurse, LockShGrant, Owned
  <1>4. Releases'
    BY <1>i, ConstantsAssumption DEF LinkTypes, RestTypes, Releases, Flags,
       LockExRecurse, LockShGrant, Owned
  <1>5. Wanted'
    BY <1>i DEF LinkTypes, Words, Wanted, LockExRecurse, LockShGrant, Owned
  <1>6. Waiters'
    BY <1>i DEF LinkTypes, Waiters, Inside, LockExRecurse, LockShGrant, Owned
  <1>7. SharedWakeupPending'
    BY <1>i DEF LinkTypes, Words, Flags, SharedWakeupPending, Inside,
       LockExRecurse, LockShGrant, Owned
  <1> QED
    BY <1>1, <1>2, <1>3, <1>4, <1>5, <1>6, <1>7 DEF TInv

\* The new owner returns to its caller.
LEMMA OwnTimed ==
    ASSUME TInv, LinkInv', NEW t \in Threads,
           SetOwner(t)
    PROVE  TInv' /\ (Exact => Exact')
  <1>i. /\ LinkTypes /\ OnList /\ Targets /\ ExlinkExclusive /\ RestTypes
        /\ CountedLess /\ Flags /\ Releases /\ Wanted /\ Waiters
        /\ SharedWakeupPending /\ LinkTypes'
    BY DEF TInv, LinkInv
  <1>c. CountSays
    BY <1>i, CountFacts DEF RestTypes, CountedLess
  <1>1. RestTypes'
    BY <1>i, <1>c DEF LinkTypes, RestTypes, HeldTypes, Present, InTransit,
       SetOwner
  <1>2. CountedLess' /\ (Exact => Exact')
    <2>1. \A u \in Threads \ {t} : /\ ex'[u] + sh'[u] = ex[u] + sh[u]
                                   /\ InTransit(u)' <=> InTransit(u)
      BY <1>i DEF LinkTypes, InTransit, SetOwner
    <2>2. (ex'[t] + sh'[t]) - (ex[t] + sh[t]) = 1
      BY <1>i DEF RestTypes, HeldTypes, SetOwner
    <2>3. One(InTransit(t)') - One(InTransit(t)) = -1
      BY <1>i DEF LinkTypes, InTransit, One, SetOwner
    <2>4. mtx_lock'.cnt = mtx_lock.cnt + (1 + -1)
      BY <1>i, <1>1 DEF RestTypes, SetOwner
    <2> QED
      BY <1>i, <1>1, <2>1, <2>2, <2>3, <2>4, CountKept DEF RestTypes
  <1>3. Flags'
    BY <1>i, <1>c DEF LinkTypes, RestTypes, Flags, SetOwner
  <1>4. Releases'
    BY <1>i, <1>c DEF LinkTypes, RestTypes, Releases, Flags, CountSays,
       Present, InTransit, SetOwner
  <1>5. Wanted'
    BY <1>i DEF Wanted, SetOwner
  <1>6. Waiters'
    BY <1>i DEF Waiters, Inside, SetOwner
  <1>7. SharedWakeupPending'
    BY <1>i DEF Flags, SharedWakeupPending, Inside, SetOwner
  <1> QED
    BY <1>1, <1>2, <1>3, <1>4, <1>5, <1>6, <1>7 DEF TInv

\* So does one that the lock was handed over to.
LEMMA AcquiredTimed ==
    ASSUME TInv, LinkInv', NEW t \in Threads,
           Acquired(t)
    PROVE  TInv' /\ (Exact => Exact')
  <1>i. /\ LinkTypes /\ OnList /\ Targets /\ ExlinkExclusive /\ RestTypes
        /\ CountedLess /\ Flags /\ Releases /\ Wanted /\ Waiters
        /\ SharedWakeupPending /\ LinkTypes'
    BY DEF TInv, LinkInv
  <1>c. CountSays
    BY <1>i, CountFacts DEF RestTypes, CountedLess
  <1>1. RestTypes'
    BY <1>i DEF LinkTypes, RestTypes, HeldTypes, Acquired, Kkassert
  <1>2. CountedLess' /\ (Exact => Exact')
    <2>1. \A u \in Threads \ {t} : /\ ex'[u] + sh'[u] = ex[u] + sh[u]
                                   /\ InTransit(u)' <=> InTransit(u)
      BY <1>i DEF LinkTypes, InTransit, Acquired, Kkassert
    <2>2. (ex'[t] + sh'[t]) - (ex[t] + sh[t]) = 1
      BY <1>i DEF RestTypes, HeldTypes, Acquired
    <2>3. One(InTransit(t)') - One(InTransit(t)) = -1
      BY <1>i DEF LinkTypes, InTransit, One, Acquired, Kkassert
    <2>4. mtx_lock'.cnt = mtx_lock.cnt + (1 + -1)
      BY <1>i, <1>1 DEF RestTypes, Acquired, Kkassert
    <2> QED
      BY <1>i, <1>1, <2>1, <2>2, <2>3, <2>4, CountKept DEF RestTypes
  <1>3. Flags'
    BY <1>i DEF Flags, Acquired, Kkassert
  <1>4. Releases'
    BY <1>i DEF LinkTypes, Releases, Flags, Acquired, Kkassert
  <1>5. Wanted'
    BY <1>i DEF Wanted, Acquired, Kkassert
  <1>6. Waiters'
    BY <1>i DEF Waiters, Inside, Acquired, Kkassert
  <1>7. SharedWakeupPending'
    BY <1>i DEF Flags, SharedWakeupPending, Inside, Acquired, Kkassert
  <1> QED
    BY <1>1, <1>2, <1>3, <1>4, <1>5, <1>6, <1>7 DEF TInv

\* A release begins.
LEMMA UnlockTimed ==
    ASSUME TInv, LinkInv', NEW t \in Threads,
           \/ UnlockEx(t) \/ UnlockSh(t)
    PROVE  TInv' /\ (Exact => Exact')
  <1>i. /\ LinkTypes /\ OnList /\ Targets /\ ExlinkExclusive /\ RestTypes
        /\ CountedLess /\ Flags /\ Releases /\ Wanted /\ Waiters
        /\ SharedWakeupPending /\ LinkTypes'
    BY DEF TInv, LinkInv
  <1>c. CountSays
    BY <1>i, CountFacts DEF RestTypes, CountedLess
  <1>1. RestTypes'
    <2>1. mtx_lock'.cnt \in Nat
      BY <1>i DEF RestTypes, UnlockEx, UnlockSh
    <2>2. HeldTypes'
      BY <1>i DEF RestTypes, HeldTypes, UnlockEx, UnlockSh
    <2> QED
      BY <1>i, <2>1, <2>2 DEF RestTypes, UnlockEx, UnlockSh
  <1>2. CountedLess' /\ (Exact => Exact')
    <2>1. \A u \in Threads \ {t} : /\ ex'[u] + sh'[u] = ex[u] + sh[u]
                                   /\ InTransit(u)' <=> InTransit(u)
      BY <1>i DEF LinkTypes, RestTypes, HeldTypes, InTransit, UnlockEx, UnlockSh
    <2>2. (ex'[t] + sh'[t]) - (ex[t] + sh[t]) = -1
      BY <1>i DEF RestTypes, HeldTypes, UnlockEx, UnlockSh
    <2>3. One(InTransit(t)') - One(InTransit(t)) = 1
      BY <1>i DEF LinkTypes, InTransit, One, UnlockEx, UnlockSh
    <2>4. mtx_lock'.cnt = mtx_lock.cnt + (-1 + 1)
      BY <1>i, <1>1 DEF RestTypes, UnlockEx, UnlockSh
    <2> QED
      BY <1>i, <1>1, <2>1, <2>2, <2>3, <2>4, CountKept DEF RestTypes
  <1>3. Flags'
    BY <1>i DEF Flags, UnlockEx, UnlockSh
  <1>4. Releases'
    BY <1>i DEF LinkTypes, Releases, Flags, UnlockEx, UnlockSh
  <1>5. Wanted'
    BY <1>i DEF LinkTypes, Wanted, UnlockEx, UnlockSh
  <1>6. Waiters'
    BY <1>i DEF LinkTypes, Words, Waiters, Inside, UnlockEx, UnlockSh
  <1>7. SharedWakeupPending'
    BY <1>i DEF LinkTypes, Flags, SharedWakeupPending, Inside, UnlockEx,
       UnlockSh
  <1> QED
    BY <1>1, <1>2, <1>3, <1>4, <1>5, <1>6, <1>7 DEF TInv

\* The last release without an exclusive waiter.
LEMMA DropTimed ==
    ASSUME TInv, LinkInv', NEW t \in Threads,
           \/ ReleaseSh(t) \/ ReleaseEx(t)
    PROVE  TInv' /\ (Exact => Exact')
  <1>i. /\ LinkTypes /\ OnList /\ Targets /\ ExlinkExclusive /\ RestTypes
        /\ CountedLess /\ Flags /\ Releases /\ Wanted /\ Waiters
        /\ SharedWakeupPending /\ LinkTypes'
    BY DEF TInv, LinkInv
  <1>c. CountSays
    BY <1>i, CountFacts DEF RestTypes, CountedLess
  <1>p. mtx_lock.cnt = 1
    BY <1>i DEF Releases, ReleaseSh, ReleaseEx
  <1>1. RestTypes'
    <2>1. mtx_lock'.cnt \in Nat
      BY <1>i, <1>p, <1>c DEF LinkTypes, RestTypes, ReleaseSh, ReleaseEx,
         Unlocked
    <2>2. HeldTypes'
      BY <1>i, <1>p DEF RestTypes, HeldTypes, ReleaseSh, ReleaseEx
    <2> QED
      BY <1>i, <2>1, <2>2 DEF RestTypes, ReleaseSh, ReleaseEx
  <1>2. CountedLess' /\ (Exact => Exact')
    <2>1. \A u \in Threads \ {t} : /\ ex'[u] + sh'[u] = ex[u] + sh[u]
                                   /\ InTransit(u)' <=> InTransit(u)
      BY <1>i DEF LinkTypes, InTransit, ReleaseSh, ReleaseEx, Unlocked
    <2>2. (ex'[t] + sh'[t]) - (ex[t] + sh[t]) = 0
      BY <1>i DEF RestTypes, HeldTypes, ReleaseSh, ReleaseEx
    <2>3. One(InTransit(t)') - One(InTransit(t)) = -1
      BY <1>i DEF LinkTypes, InTransit, One, ReleaseSh, ReleaseEx
    <2>4. mtx_lock'.cnt = mtx_lock.cnt + (0 + -1)
      BY <1>i, <1>p, <1>1 DEF ReleaseSh, ReleaseEx, Unlocked
    <2> QED
      BY <1>i, <1>1, <2>1, <2>2, <2>3, <2>4, CountKept DEF RestTypes
  <1>3. Flags'
    BY <1>i, <1>p, <1>c DEF LinkTypes, RestTypes, Flags, ReleaseSh, ReleaseEx,
       Unlocked
  <1>4. Releases'
    BY <1>i, <1>p, <1>c DEF LinkTypes, RestTypes, Releases, Flags, CountSays,
       Present, InTransit, ReleaseSh, ReleaseEx, Unlocked
  <1>5. Wanted'
    BY <1>i, <1>p DEF LinkTypes, Wanted, ExlinkExclusive, ExlinkHolders,
       Inside, ReleaseSh, ReleaseEx, Unlocked
  <1>6. Waiters'
    BY <1>i, <1>p DEF LinkTypes, Waiters, Inside, ReleaseSh, ReleaseEx,
       Unlocked
  <1>7. SharedWakeupPending'
    BY <1>i, <1>p DEF LinkTypes, Flags, SharedWakeupPending, Inside, ReleaseSh,
       ReleaseEx, Unlocked
  <1> QED
    BY <1>1, <1>2, <1>3, <1>4, <1>5, <1>6, <1>7 DEF TInv

\* A release that is not the last one.
LEMMA CountTimed ==
    ASSUME TInv, LinkInv', NEW t \in Threads,
           ReleaseCount(t)
    PROVE  TInv' /\ (Exact => Exact')
  <1>i. /\ LinkTypes /\ OnList /\ Targets /\ ExlinkExclusive /\ RestTypes
        /\ CountedLess /\ Flags /\ Releases /\ Wanted /\ Waiters
        /\ SharedWakeupPending /\ LinkTypes'
    BY DEF TInv, LinkInv
  <1>c. CountSays
    BY <1>i, CountFacts DEF RestTypes, CountedLess
  <1>1. RestTypes'
    BY <1>i, <1>c DEF LinkTypes, RestTypes, HeldTypes, CountSays, Present,
       InTransit, ReleaseCount, Kkassert
  <1>2. CountedLess' /\ (Exact => Exact')
    <2>1. \A u \in Threads \ {t} : /\ ex'[u] + sh'[u] = ex[u] + sh[u]
                                   /\ InTransit(u)' <=> InTransit(u)
      BY <1>i DEF LinkTypes, InTransit, ReleaseCount, Kkassert
    <2>2. (ex'[t] + sh'[t]) - (ex[t] + sh[t]) = 0
      BY <1>i DEF RestTypes, HeldTypes, ReleaseCount
    <2>3. One(InTransit(t)') - One(InTransit(t)) = -1
      BY <1>i DEF LinkTypes, InTransit, One, ReleaseCount, Kkassert
    <2>4. mtx_lock'.cnt = mtx_lock.cnt + (0 + -1)
      BY <1>i, <1>1 DEF RestTypes, ReleaseCount, Kkassert
    <2> QED
      BY <1>i, <1>1, <2>1, <2>2, <2>3, <2>4, CountKept DEF RestTypes
  <1>3. Flags'
    BY <1>i, <1>c DEF LinkTypes, RestTypes, Flags, ReleaseCount, Kkassert
  <1>4. Releases'
    BY <1>i, <1>c DEF LinkTypes, RestTypes, Releases, Flags, ReleaseCount,
       Kkassert
  <1>5. Wanted'
    BY <1>i DEF Wanted, ReleaseCount, Kkassert
  <1>6. Waiters'
    BY <1>i DEF Waiters, Inside, ReleaseCount, Kkassert
  <1>7. SharedWakeupPending'
    BY <1>i DEF Flags, SharedWakeupPending, Inside, ReleaseCount, Kkassert
  <1> QED
    BY <1>1, <1>2, <1>3, <1>4, <1>5, <1>6, <1>7 DEF TInv

\* A release that found the list empty.
LEMMA ChainReleaseTimed ==
    ASSUME TInv, LinkInv', NEW t \in Threads,
           ChainRelease(t)
    PROVE  TInv' /\ (Exact /\ mtx_lock.cnt = 1 => Exact')
  <1>i. /\ LinkTypes /\ OnList /\ Targets /\ ExlinkExclusive /\ RestTypes
        /\ CountedLess /\ Flags /\ Releases /\ Wanted /\ Waiters
        /\ SharedWakeupPending /\ LinkTypes'
    BY DEF TInv, LinkInv
  <1>c. CountSays
    BY <1>i, CountFacts DEF RestTypes, CountedLess
  <1>1. RestTypes'
    BY <1>i, <1>c DEF LinkTypes, RestTypes, HeldTypes, CountSays, Present,
       InTransit, ChainRelease, Unlocked
  <1>2. CountedLess' /\ (Exact /\ mtx_lock.cnt = 1 => Exact')
    <2>1. \A u \in Threads \ {t} : /\ ex'[u] + sh'[u] = ex[u] + sh[u]
                                   /\ InTransit(u)' <=> InTransit(u)
      BY <1>i DEF LinkTypes, InTransit, ChainRelease, Unlocked
    <2>2. (ex'[t] + sh'[t]) - (ex[t] + sh[t]) = 0
      BY <1>i DEF RestTypes, HeldTypes, ChainRelease
    <2>3. One(InTransit(t)') - One(InTransit(t)) = -1
      BY <1>i DEF LinkTypes, InTransit, One, ChainRelease
    <2>4. /\ mtx_lock'.cnt >= mtx_lock.cnt + (0 + -1)
          /\ mtx_lock.cnt = 1 => mtx_lock'.cnt = mtx_lock.cnt + (0 + -1)
      BY <1>i, <1>1 DEF RestTypes, ChainRelease, Unlocked
    <2> QED
      BY <1>i, <1>1, <2>1, <2>2, <2>3, <2>4, CountKept DEF RestTypes
  <1>3. Flags'
    BY <1>i, <1>c DEF LinkTypes, RestTypes, Flags, ChainRelease, Unlocked
  <1>4. Releases'
    BY <1>i, <1>c DEF LinkTypes, RestTypes, Releases, Flags, CountSays,
       Present, InTransit, ChainRelease, Unlocked
  <1>5. Wanted'
    BY <1>i DEF LinkTypes, Wanted, ExlinkExclusive, ExlinkHolders, Inside,
       ChainRelease, Unlocked
  <1>6. Waiters'
    BY <1>i DEF Waiters, Inside, ChainRelease, Unlocked
  <1>7. SharedWakeupPending'
    BY <1>i DEF LinkTypes, Flags, SharedWakeupPending, Inside, ChainRelease,
       Unlocked
  <1> QED
    BY <1>1, <1>2, <1>3, <1>4, <1>5, <1>6, <1>7 DEF TInv

\* A release hands its count over to the head of the list.
LEMMA ChainLinkTimed ==
    ASSUME TInv, LinkInv', NEW t \in Threads,
           ChainLink(t)
    PROVE  TInv' /\ (Exact => Exact')
  <1>i. /\ LinkTypes /\ OnList /\ Targets /\ ExlinkExclusive /\ RestTypes
        /\ CountedLess /\ Flags /\ Releases /\ Wanted /\ Waiters
        /\ SharedWakeupPending /\ LinkTypes'
    BY DEF TInv, LinkInv
  <1>c. CountSays
    BY <1>i, CountFacts DEF RestTypes, CountedLess
  <1>a. Head(mtx_link) \in ToSet(mtx_link)
    BY <1>i, TailList DEF LinkTypes, OnList, ChainLink
  <1>b. /\ Head(mtx_link) \in Threads /\ Head(mtx_link) # t
        /\ pc[Head(mtx_link)] \in Linked /\ state[Head(mtx_link)] = "LINKED"
    BY <1>i, <1>a DEF OnList, Linked, ChainLink
  <1>p. /\ Head(mtx_link) \in Threads /\ Head(mtx_link) # t
        /\ pc[Head(mtx_link)] \in {"sleep", "woken", "delete"}
        /\ state[Head(mtx_link)] = "LINKED"
        /\ pc' = [pc EXCEPT ![t] = "chain_owner"]
        /\ mtx_link # <<>>
    BY <1>i, <1>b DEF Linked, ExlinkExclusive, ExlinkHolders, Inside, ChainLink,
                      Kkassert
  <1>1. RestTypes'
    <2>1. mtx_lock'.cnt \in Nat
      BY <1>i, <1>p, <1>c DEF LinkTypes, RestTypes, ChainLink, Kkassert
    <2>2. HeldTypes'
      BY <1>i, <1>p DEF RestTypes, HeldTypes, ChainLink
    <2> QED
      BY <1>i, <2>1, <2>2 DEF RestTypes, ChainLink
  <1>2. CountedLess' /\ (Exact => Exact')
    <2>h. PICK h \in Threads : h = Head(mtx_link)
      BY <1>p
    <2>1. /\ UNCHANGED <<ex, sh>> /\ mtx_lock' = mtx_lock
          /\ \A u \in Threads \ {t, h} : InTransit(u)' <=> InTransit(u)
          /\ InTransit(t) /\ ~ InTransit(h)
          /\ ~ InTransit(t)' /\ InTransit(h)'
      BY <1>i, <1>p, <2>h DEF LinkTypes, InTransit, ChainLink
    <2>2. IsFiniteSet(Counted') /\ Cardinality(Counted') = Cardinality(Counted)
      BY <1>i, <2>h, <2>1, CountMove DEF CountedLess
    <2> QED
      BY <1>i, <2>1, <2>2 DEF CountedLess, Exact
  <1>3. Flags'
    BY <1>i, <1>p, <1>c DEF LinkTypes, RestTypes, Flags, ChainLink, Kkassert
  <1>4. Releases'
    BY <1>i, <1>p, <1>c DEF LinkTypes, RestTypes, Releases, Flags, CountSays,
       Present, InTransit, ChainLink, Kkassert
  <1>5. Wanted'
    BY <1>i, <1>p DEF Wanted, ChainLink, Kkassert
  <1>6. Waiters'
    BY <1>i, <1>p DEF LinkTypes, Words, Waiters, Inside, ChainLink, Kkassert
  <1>7. SharedWakeupPending'
    BY <1>i, <1>p DEF Flags, SharedWakeupPending, Inside, ChainLink, Kkassert
  <1> QED
    BY <1>1, <1>2, <1>3, <1>4, <1>5, <1>6, <1>7 DEF TInv

\* Initially nothing is counted and nobody sleeps.
LEMMA InitTimed == Init => TInv
  <1> SUFFICES ASSUME Init PROVE TInv
    OBVIOUS
  <1>1. RestTypes
    BY DEF Init, Unlocked, RestTypes, HeldTypes
  <1>2. CountedLess
    <2>1. ASSUME NEW p \in Units PROVE ~ IsCounted(p[1], p[2])
      BY DEF Init, Units, IsCounted, InTransit
    <2>2. Counted = {}
      BY <2>1 DEF Counted
    <2> QED
      BY <2>2, FS_EmptySet DEF Init, Unlocked, CountedLess
  <1>3. Flags /\ Releases /\ Wanted /\ Waiters /\ SharedWakeupPending
    BY DEF Init, Unlocked, Flags, Releases, Wanted, Waiters, SharedWakeupPending
  <1> QED
    BY <1>1, <1>2, <1>3, InitLinks DEF TInv

\* No thread moves.
LEMMA StutterTimed ==
    ASSUME TInv, LinkInv', UNCHANGED vars
    PROVE  TInv' /\ (Exact => Exact')
  <1>1. RestTypes' /\ Flags' /\ Releases' /\ Wanted' /\ Waiters'
    BY DEF TInv, RestTypes, HeldTypes, Flags, Releases, Wanted, Waiters, Inside, vars
  <1>2. CountedLess' /\ (Exact => Exact')
    <2>1. \A u \in Threads : InTransit(u)' <=> InTransit(u)
      BY DEF InTransit, vars
    <2> QED
      BY <2>1, CountSame DEF TInv, vars
  <1>3. SharedWakeupPending'
    BY DEF TInv, SharedWakeupPending, Inside, vars
  <1> QED
    BY <1>1, <1>2, <1>3 DEF TInv

\* Every step of callers without timeouts keeps the invariant, and an exact count.
LEMMA NextCounted ==
    ASSUME TInv, [Next]_vars
    PROVE  TInv' /\ (Exact => Exact')
  <1>1. LinkInv'
    BY NextLinks, StutterLinks DEF TInv
  <1>2. ASSUME NEW t \in Threads, Running(t) PROVE TInv' /\ (Exact => Exact')
    BY <1>1, <1>2, FreeTimed, OwnTimed, RecurseTimed, CallTimed, WaitTimed,
       LinkInTimed, ExlinkTimed, SleepTimed, AcquiredTimed, ShWaitTimed,
       DropTimed, LastTimed, CountTimed, ChainLinkTimed, HandoffTimed,
       ChainClearTimed, WakeTimed
       DEF Running
  <1>3. ASSUME NEW t \in Threads, Request(t) \/ Release(t)
        PROVE  TInv' /\ (Exact => Exact')
    BY <1>1, <1>3, LockExTimed, CallTimed, UnlockTimed DEF Request, Release
  <1> QED
    BY <1>1, <1>2, <1>3, StutterTimed DEF Next

\* So do timeouts and withdrawals, but for the exact count.
LEMMA NextTimed == TInv /\ [TimedNext]_vars => TInv'
  <1> SUFFICES ASSUME TInv, [TimedNext]_vars PROVE TInv'
    OBVIOUS
  <1>1. LinkInv'
    BY TimedLinks DEF TInv
  <1>2. ASSUME NEW t \in Threads, Withdrawn(t) \/ Timed(t) PROVE TInv'
    BY <1>1, <1>2, SleepTimed, LastTimed, ChainReleaseTimed, HandoffTimed,
       ShWaitTimed, ExlinkTimed, DeleteUnlinkTimed
       DEF Withdrawn, Timed
  <1> QED
    BY <1>2, NextCounted DEF TimedNext

\* The invariant holds throughout, whatever timeouts and signals race.
THEOREM MutexTimedInvariance == TimedSpec => []TInv
  <1> QED
    BY InitTimed, NextTimed, PTL DEF TimedSpec

\* A release that goes to mtx_chain_link() has the only count.
ChainAlone == \A t \in Threads :
                 pc[t] \in {"chain", "chain_release"} => mtx_lock.cnt = 1

\* A thread that asks for the exclusive lock has no shared one, and one that
\* waits for it has none at all.
Waiting(t) == /\ pc[t] \in {"lock", "try", "spin"} => sh[t] = 0
              /\ pc[t] \in {"link", "linked", "sleep", "woken", "delete", "unlink",
                            "unlinked"} => ex[t] = 0 /\ sh[t] = 0

WaitersEmpty == \A t \in Threads : Waiting(t)

\* The inductive invariant while the recursion test finds the truth: the count
\* is exact, even with timeouts.
OInv == TInv /\ Exact /\ ChainAlone /\ WaitersEmpty

\* What a step of t does to the counts: who comes to mtx_chain_link() has the
\* only one, and who changes the count of the word has one, or finds the lock
\* free or shared.
CountChange(t) ==
    /\ \A u \in Threads \ {t} : pc'[u] = pc[u] /\ ex'[u] = ex[u] /\ sh'[u] = sh[u]
    /\ pc'[t] \in {"chain", "chain_release"} =>
          /\ mtx_lock'.cnt = mtx_lock.cnt
          /\ mtx_lock.cnt = 1 \/ pc[t] \in {"chain", "chain_release"}
    /\ mtx_lock'.cnt # mtx_lock.cnt =>
          \/ ~ mtx_lock.ex
          \/ Present(t) /\ pc[t] \notin {"chain", "chain_release"}
          \/ pc[t] = "chain_release"
    /\ Waiting(t)'

\* Steps of an exclusive lock call.
LEMMA ExclusiveChange ==
    ASSUME LinkTypes, HeldTypes, WaitersEmpty, NEW t \in Threads,
           Owned(t) <=> ex[t] > 0,
           \/ LockExFree(t) \/ LockExRecurse(t) \/ LockExWait(t) \/ TryFail(t)
    PROVE  CountChange(t)
  <1>1. CASE LockExFree(t)
    <2>1. ~ mtx_lock.ex
      BY <1>1 DEF LockExFree, Unlocked
    <2> QED
      BY <1>1, <2>1 DEF LinkTypes, Waiting, CountChange, LockExFree
  <1>2. CASE LockExRecurse(t)
    <2>1. ex[t] > 0
      BY <1>2 DEF LockExRecurse
    <2>2. Present(t)
      BY <2>1 DEF HeldTypes, Present
    <2> QED
      BY <1>2, <2>2 DEF LinkTypes, HeldTypes, Waiting, CountChange, LockExRecurse
  <1>3. CASE LockExWait(t)
    <2>1. ~ (ex[t] > 0)
      BY <1>3 DEF LockExWait
    <2>2. ex[t] = 0 /\ sh[t] = 0
      BY <1>3, <2>1 DEF HeldTypes, WaitersEmpty, Waiting, LockExWait
    <2> QED
      BY <1>3, <2>2 DEF LinkTypes, Words, Waiting, CountChange, LockExWait
  <1>4. CASE TryFail(t)
    BY <1>4 DEF LinkTypes, Waiting, CountChange, TryFail
  <1> QED
    BY <1>1, <1>2, <1>3, <1>4

\* Its waiting.
LEMMA WaitChange ==
    ASSUME LinkTypes, HeldTypes, WaitersEmpty, NEW t \in Threads,
           \/ SetOwner(t) \/ LinkIn(t) \/ LinkedRelease(t) \/ Woken(t) \/ Acquired(t)
           \/ SleepError(t) \/ GiveUp(t) \/ Retry(t) \/ DeleteLink(t)
           \/ DeleteExlink(t) \/ DeleteUnlink(t) \/ DeleteRelease(t)
    PROVE  CountChange(t)
  BY DEF LinkTypes, Words, HeldTypes, WaitersEmpty, Waiting, CountChange, Kkassert,
         ClearExlink, GetExlink, SetOwner, LinkIn, LinkedRelease, Woken, Acquired,
         SleepError, GiveUp, Retry, DeleteLink, DeleteExlink, DeleteUnlink,
         DeleteRelease

\* Shared lock calls, and calls that begin.
LEMMA SharedChange ==
    ASSUME LinkTypes, HeldTypes, WaitersEmpty, NEW t \in Threads,
           \/ LockShGrant(t) \/ TryShFail(t) \/ LockShInterlock(t) \/ LockShWait(t)
           \/ LockShRace(t) \/ WokenSh(t) \/ SleepErrorSh(t) \/ LockEx(t)
           \/ TryEx(t) \/ LockSh(t) \/ TrySh(t) \/ UnlockEx(t) \/ UnlockSh(t)
    PROVE  CountChange(t)
  BY DEF LinkTypes, Words, HeldTypes, WaitersEmpty, Waiting, CountChange,
         LockShGrant, TryShFail, LockShInterlock, LockShWait, LockShRace, WokenSh,
         SleepErrorSh, LockEx, TryEx, LockSh, TrySh, UnlockEx, UnlockSh

\* Releases.
LEMMA ReleaseChange ==
    ASSUME LinkTypes, HeldTypes, WaitersEmpty, NEW t \in Threads,
           \/ ReleaseSh(t) \/ ClearOwner(t) \/ ReleaseEx(t) \/ ReleaseExRace(t)
           \/ ReleaseChain(t) \/ ReleaseCount(t)
    PROVE  CountChange(t)
  BY DEF LinkTypes, Words, HeldTypes, WaitersEmpty, Waiting, CountChange, Kkassert,
         Present, InTransit, ReleaseSh, ClearOwner, ReleaseEx, ReleaseExRace,
         ReleaseChain, ReleaseCount

\* mtx_chain_link(), and the wakeups.
LEMMA ChainChange ==
    ASSUME LinkTypes, HeldTypes, WaitersEmpty, NEW t \in Threads,
           \/ ChainLink(t) \/ ChainOwner(t) \/ ChainClear(t) \/ ChainEmpty(t)
           \/ ChainRelease(t) \/ ChainNull(t) \/ WakeLink(t) \/ WakeSh(t)
    PROVE  CountChange(t)
  BY DEF LinkTypes, Words, HeldTypes, WaitersEmpty, Waiting, CountChange, Kkassert,
         ChainLink, ChainOwner, ChainClear, ChainEmpty, ChainRelease, ChainNull,
         WakeLink, WakeSh

\* Every step is one of these: the test is true when a thread makes it.
LEMMA TrueOwnerChange ==
    ASSUME LinkTypes, HeldTypes, WaitersEmpty, TrueOwnerNext
    PROVE  \E t \in Threads : CountChange(t)
  <1>1. PICK t \in Threads : \/ Running(t) \/ Request(t) \/ Release(t)
                              \/ Withdrawn(t) \/ Timed(t)
    BY DEF TrueOwnerNext, TimedNext, Next
  <1>2. CASE LockExFree(t) \/ LockExRecurse(t) \/ LockExWait(t) \/ TryFail(t)
    <2>1. pc[t] \in {"lock", "try", "spin"} /\ pc'[t] # pc[t]
      BY <1>2 DEF LinkTypes, LockExFree, LockExRecurse, LockExWait, TryFail
    <2>2. Owned(t) <=> ex[t] > 0
      BY <2>1 DEF TrueOwnerNext
    <2> QED
      BY <1>2, <2>2, ExclusiveChange
  <1>3. CASE ~ (LockExFree(t) \/ LockExRecurse(t) \/ LockExWait(t) \/ TryFail(t))
    BY <1>1, <1>3, WaitChange, SharedChange, ReleaseChange, ChainChange
       DEF Running, Request, Release, Withdrawn, Timed
  <1> QED
    BY <1>2, <1>3

\* Nobody gets or drops a count while a release is in mtx_chain_link(), and
\* waiters stay without one.
LEMMA ChainAloneKept ==
    ASSUME OInv, TrueOwnerNext
    PROVE  ChainAlone' /\ WaitersEmpty'
  <1>i. /\ LinkTypes /\ ExlinkExclusive /\ RestTypes /\ CountedLess /\ Wanted
        /\ ChainAlone /\ WaitersEmpty /\ HeldTypes
    BY DEF OInv, TInv, LinkInv, RestTypes
  <1>c. CountSays
    BY <1>i, CountFacts DEF RestTypes, CountedLess
  <1>t. PICK t \in Threads : CountChange(t)
    BY <1>i, TrueOwnerChange
  <1>1. WaitersEmpty'
    BY <1>i, <1>t DEF WaitersEmpty, Waiting, CountChange
  <1>2. ASSUME NEW c \in Threads, pc'[c] \in {"chain", "chain_release"}
        PROVE  mtx_lock'.cnt = 1
    <2>1. CASE c = t
      BY <1>i, <1>t, <1>2, <2>1 DEF CountChange, ChainAlone
    <2>2. CASE c # t
      <3>1. pc[c] \in {"chain", "chain_release"}
        BY <1>t, <1>2, <2>2 DEF CountChange
      <3>2. mtx_lock.cnt = 1 /\ mtx_lock.ex
        BY <1>i, <3>1 DEF ChainAlone, Wanted
      <3>3. ~ Present(t)
        BY <1>c, <2>2, <3>1, <3>2 DEF CountSays, Present, InTransit
      <3>4. pc[t] # "chain_release"
        BY <3>3 DEF Present, InTransit
      <3> QED
        BY <1>t, <3>2, <3>3, <3>4 DEF CountChange
    <2> QED
      BY <2>1, <2>2
  <1> QED
    BY <1>1, <1>2 DEF ChainAlone

\* So the count stays exact: when mtx_chain_link() finds the list empty it drops
\* the one count that there is.
LEMMA ExactKept ==
    ASSUME OInv, TrueOwnerNext
    PROVE  Exact'
  <1>1. LinkInv'
    BY TimedLinks DEF OInv, TInv, TrueOwnerNext
  <1>2. ASSUME NEW t \in Threads, ChainRelease(t) PROVE Exact'
    BY <1>1, <1>2, ChainReleaseTimed DEF OInv, ChainAlone, ChainRelease
  <1>3. ASSUME NEW t \in Threads, Withdrawn(t) \/ Timed(t) PROVE Exact'
    BY <1>1, <1>2, <1>3, SleepTimed, LastTimed, HandoffTimed, ShWaitTimed,
       ExlinkTimed, DeleteUnlinkTimed
       DEF OInv, Withdrawn, Timed
  <1> QED
    BY <1>3, NextCounted DEF OInv, TrueOwnerNext, TimedNext

\* Initially nobody has a count and nobody asks.
LEMMA InitTrueOwner == Init => OInv
  <1> SUFFICES ASSUME Init PROVE OInv
    OBVIOUS
  <1>1. ASSUME NEW p \in Units PROVE ~ IsCounted(p[1], p[2])
    BY DEF Init, Units, IsCounted, InTransit
  <1>2. Counted = {}
    BY <1>1 DEF Counted
  <1>3. Exact
    BY <1>2, FS_EmptySet DEF Init, Unlocked, Exact
  <1> QED
    BY <1>3, InitTimed DEF Init, OInv, ChainAlone, WaitersEmpty, Waiting

\* Every step keeps it.
LEMMA NextTrueOwner == OInv /\ [TrueOwnerNext]_vars => OInv'
  <1> SUFFICES ASSUME OInv, [TrueOwnerNext]_vars PROVE OInv'
    OBVIOUS
  <1>1. CASE TrueOwnerNext
    <2>1. TInv'
      BY <1>1, NextTimed DEF OInv, TrueOwnerNext
    <2> QED
      BY <1>1, <2>1, ChainAloneKept, ExactKept DEF OInv
  <1>2. CASE UNCHANGED vars
    <2>1. TInv' /\ Exact'
      BY <1>2, StutterLinks, StutterTimed DEF OInv, TInv
    <2> QED
      BY <1>2, <2>1 DEF OInv, ChainAlone, WaitersEmpty, Waiting, vars
  <1> QED
    BY <1>1, <1>2

\* An exact count is somebody's.
LEMMA CountIsHeld ==
    ASSUME RestTypes, CountedLess, Exact, mtx_lock.cnt > 0
    PROVE  \E u \in Threads : Present(u)
  <1>1. Counted # {}
    BY FS_EmptySet DEF RestTypes, CountedLess, Exact
  <1>2. PICK p \in Units : IsCounted(p[1], p[2])
    BY <1>1 DEF Counted
  <1>3. p[1] \in Threads /\ p[2] \in Nat
    BY DEF Units
  <1> QED
    BY <1>2, <1>3 DEF IsCounted, Present, RestTypes, HeldTypes

\* With an exact count and waiters without one, no exclusive wakeup is lost.
LEMMA ExactHandoff ==
    ASSUME TInv, Exact,
           \A t \in Threads : pc[t] = "sleep" => ex[t] = 0 /\ sh[t] = 0
    PROVE  HandoffPending
  <1> SUFFICES ASSUME NEW t \in Threads, pc[t] = "sleep", sleepq[t] = "link"
               PROVE  \/ /\ state[t] = "LINKED" /\ Contains(mtx_link, t)
                         /\ mtx_lock.exw
                         /\ \E u \in Threads \ {t} : Present(u)
                      \/ \E u \in Inside({"chain_owner", "chain_clear", "wake"}) :
                            target[u] = t
    BY DEF HandoffPending
  <1>1. CASE state[t] = "LINKED"
    <2>1. Contains(mtx_link, t)
      BY <1>1, LinkInvSafe DEF TInv, LinksSafe, NoDanglingLink
    <2>2. mtx_link # <<>>
      BY <1>1 DEF TInv, LinkInv, OnList, ToSet
    <2>3. mtx_lock.exw /\ mtx_lock.cnt > 0
      BY <2>2 DEF TInv, Wanted, Flags
    <2>4. ~ Present(t)
      BY <1>1 DEF Present, InTransit
    <2>5. \E u \in Threads : Present(u)
      BY <2>3, CountIsHeld DEF TInv
    <2> QED
      BY <1>1, <2>1, <2>3, <2>4, <2>5
  <1>2. CASE state[t] = "ACQUIRED"
    BY <1>2 DEF TInv, Waiters
  <1> QED
    BY <1>1, <1>2 DEF TInv, Waiters

\* No exclusive wakeup is lost, even when other waiters time out: a waiter that
\* sleeps in __mtx_lock_ex() is on the list with MTX_EXWANTED set while another
\* thread really has the lock, or is about to be woken up by the release that
\* handed it the lock.  It needs the recursion test to find the truth: see
\* MutualExclusion for what a stale mtx_owner does.
THEOREM MutexHandoffPending == TrueOwnerSpec => []HandoffPending
  <1>1. OInv => HandoffPending
    BY ExactHandoff DEF OInv, WaitersEmpty, Waiting
  <1> QED
    BY InitTrueOwner, NextTrueOwner, <1>1, PTL DEF TrueOwnerSpec

\* No shared wakeup is lost: a thread that sleeps in __mtx_lock_sh() has its
\* MTX_SHWANTED in the word of an exclusive lock, or a release that took the
\* flag is about to wake it up.
THEOREM MutexSharedWakeupPending == TimedSpec => []SharedWakeupPending
  <1>1. TInv => SharedWakeupPending
    BY DEF TInv
  <1> QED
    BY MutexTimedInvariance, <1>1, PTL
-----------------------------------------------------------------------------
(* Holders, without timeouts *)

\* While the lock is exclusive one thread has all its counts, and none of them is
\* shared; otherwise no owner is recorded and nobody has it exclusively.
Modes == /\ mtx_lock.ex => /\ \A t, u \in Threads : Present(t) /\ Present(u) => t = u
                           /\ \A t \in Threads : sh[t] = 0
         /\ ~ mtx_lock.ex => /\ mtx_owner = NULL
                             /\ \A t \in Threads : /\ ex[t] = 0
                                                   /\ InTransit(t) => pc[t] = "unlock"

\* An exclusive holder is the recorded owner; the recorded owner has a count, or
\* has just handed it over.
Owners == /\ \A t \in Threads : ex[t] > 0 => mtx_owner = t
          /\ \A t \in Threads : mtx_owner = t => Present(t) \/ pc[t] = "chain_owner"
          /\ \A t \in Threads : pc[t] = "owner" =>
                mtx_owner = NULL /\ mtx_lock.cnt = 1 /\ mtx_lock.ex

\* What a caller in a lock routine has already.
Caller(t) == /\ pc[t] \in {"lock", "try", "spin"} => sh[t] = 0
             /\ pc[t] \in {"link", "linked", "sleep", "woken", "chain"}
                   => ex[t] = 0 /\ sh[t] = 0
             /\ pc[t] \in {"lock_sh", "try_sh", "want_sh", "sleep_sh"} => ex[t] = 0

Callers == \A t \in Threads : Caller(t)

\* Nobody wakes up a waiter but the release that made it the owner.
Sleeper(t) == /\ pc[t] = "linked" => sleepq[t] = "link"
              /\ pc[t] = "sleep" =>
                    \/ sleepq[t] = "link"
                    \/ sleepq[t] = "none" /\ state[t] = "ACQUIRED" /\ mtx_owner = t
              /\ pc[t] = "woken" => state[t] = "ACQUIRED" /\ mtx_owner = t

Sleepers == \A t \in Threads : Sleeper(t)

HandoverPCs == {"chain_owner", "chain_clear", "wake"}

\* One release at a time hands the lock over, to a waiter that sleeps until then;
\* MTX_EXWANTED comes with a link on the list, or with a thread that is about to
\* put it there or that took the last one.
Handovers == /\ \A t, u \in Threads :
                   pc[t] \in HandoverPCs /\ pc[u] \in HandoverPCs => t = u
             /\ \A t \in Threads : pc[t] \in HandoverPCs =>
                   /\ state[target[t]] = "ACQUIRED" /\ pc[target[t]] = "sleep"
                   /\ sleepq[target[t]] = "link"
                   /\ pc[t] # "chain_owner" => mtx_owner = target[t]
             /\ mtx_lock.exw => \/ mtx_link # <<>>
                                \/ \E t \in Threads :
                                      pc[t] \in {"link", "chain_owner", "chain_clear"}

\* No KKASSERT has failed, and a release that was given the list finds a link.
NoFailure == \A t \in Threads :
                pc[t] \notin {"delete", "unlink", "unlinked", "chain_release",
                              "chain_null", "panic"}

\* The inductive invariant without timeouts, on top of the one with them.
SInv == Exact /\ Modes /\ Owners /\ Callers /\ Sleepers /\ Handovers /\ NoFailure

\* What the invariant with timeouts says.
LEMMA TInvParts ==
    ASSUME TInv
    PROVE  /\ LinkTypes /\ OnList /\ Targets /\ ExlinkExclusive /\ RestTypes
           /\ CountedLess /\ Flags /\ Releases /\ Wanted /\ Waiters /\ CountSays
  BY CountFacts DEF TInv, LinkInv, RestTypes, CountedLess

\* A releaser that has all the counts of a lock with more than one of them has
\* still acquisitions of its own.
LEMMA MoreThanOne ==
    ASSUME HeldTypes, CountedLess, Exact, NEW t \in Threads, InTransit(t),
           mtx_lock.cnt # 1, \A u \in Threads : Present(u) => u = t
    PROVE  ex[t] + sh[t] > 0
  <1> SUFFICES ASSUME ~ (ex[t] + sh[t] > 0) PROVE FALSE
    OBVIOUS
  <1>1. ASSUME NEW p \in Units PROVE p \in Counted <=> p = <<t, 0>>
    <2>1. p = <<p[1], p[2]>> /\ p[1] \in Threads /\ p[2] \in Nat
      BY DEF Units
    <2>2. p = <<t, 0>> <=> p[1] = t /\ p[2] = 0
      BY <2>1
    <2>3. p \in Counted <=> IsCounted(p[1], p[2])
      BY DEF Counted
    <2>4. \A u \in Threads : ex[u] \in Nat /\ sh[u] \in Nat
      BY DEF HeldTypes
    <2>5. \A u \in Threads : ~ (ex[u] + sh[u] > 0)
      BY DEF Present
    <2> QED
      BY <2>1, <2>2, <2>3, <2>4, <2>5 DEF IsCounted, Present
  <1>2. Counted = {<<t, 0>>}
    <2>1. Counted \subseteq Units /\ <<t, 0>> \in Units
      BY DEF Counted, Units
    <2> QED
      BY <1>1, <2>1
  <1> QED
    BY <1>2, FS_Singleton DEF Exact

\* A step changes nothing about the other threads.
Alone(t) == \A u \in Threads \ {t} : /\ pc'[u] = pc[u] /\ state'[u] = state[u]
                                     /\ ex'[u] = ex[u] /\ sh'[u] = sh[u]

\* The other threads have the counts that they had.
LEMMA OthersPresent ==
    ASSUME NEW t \in Threads, Alone(t), NEW u \in Threads \ {t}
    PROVE  /\ Present(u)' <=> Present(u)
           /\ InTransit(u)' <=> InTransit(u)
  BY DEF Alone, Present, InTransit

\* The modes stay if nobody gets a count of an exclusive lock in addition to
\* those who have it.
LEMMA ModesKept ==
    ASSUME Modes, NEW t \in Threads, Alone(t), mtx_lock'.ex = mtx_lock.ex,
           mtx_lock.ex => (Present(t)' => Present(t)) /\ sh'[t] = 0,
           ~ mtx_lock.ex => /\ mtx_owner' = NULL /\ ex'[t] = 0
                            /\ InTransit(t)' => pc'[t] = "unlock"
    PROVE  Modes'
  <1>1. \A u \in Threads \ {t} : /\ Present(u)' <=> Present(u)
                                 /\ InTransit(u)' <=> InTransit(u)
    BY OthersPresent
  <1> QED
    BY <1>1 DEF Modes, Alone

\* The lock becomes, or stays, exclusive for the only thread that has a count.
LEMMA ModesExclusive ==
    ASSUME NEW t \in Threads, Alone(t), mtx_lock'.ex, sh'[t] = 0,
           \A u \in Threads \ {t} : ~ Present(u) /\ sh[u] = 0
    PROVE  Modes'
  <1>1. \A u \in Threads \ {t} : ~ Present(u)'
    BY OthersPresent
  <1> QED
    BY <1>1 DEF Modes, Alone

\* The lock becomes free when its only holder releases it.
LEMMA ModesFree ==
    ASSUME NEW t \in Threads, Alone(t), ~ mtx_lock'.ex, mtx_owner' = NULL,
           ex'[t] = 0, ~ InTransit(t)',
           \A u \in Threads \ {t} : ~ Present(u) /\ ex[u] = 0
    PROVE  Modes'
  <1>1. \A u \in Threads \ {t} : ~ Present(u)'
    BY OthersPresent
  <1> QED
    BY <1>1 DEF Modes, Alone, Present

\* The owner stays known if it keeps its count, and nobody else gets one.
LEMMA OwnersKept ==
    ASSUME Owners, NEW t \in Threads, Alone(t), mtx_owner' = mtx_owner,
           \A u \in Threads : pc[u] = "owner" => mtx_lock'.cnt = 1 /\ mtx_lock'.ex,
           pc'[t] # "owner", ex'[t] > 0 => mtx_owner = t,
           mtx_owner = t => Present(t)' \/ pc'[t] = "chain_owner"
    PROVE  Owners'
  <1>1. \A u \in Threads \ {t} : Present(u)' <=> Present(u)
    BY OthersPresent
  <1> QED
    BY <1>1 DEF Owners, Alone

\* What the other callers have stays.
LEMMA CallersKept ==
    ASSUME Callers, NEW t \in Threads, Alone(t), Caller(t)'
    PROVE  Callers'
  BY DEF Callers, Caller, Alone

\* The other sleepers are not disturbed if nobody takes the lock from the owner.
LEMMA SleepersKept ==
    ASSUME Sleepers, NEW t \in Threads, Alone(t), Sleeper(t)',
           \A u \in Threads \ {t} : /\ sleepq'[u] = sleepq[u] \/ sleepq[u] = "mtx"
                                    /\ mtx_owner = u /\ pc[u] \in {"sleep", "woken"}
                                          => mtx_owner' = u
    PROVE  Sleepers'
  BY DEF Sleepers, Sleeper, Alone

\* A handover goes on undisturbed by a thread that neither does it nor waits for
\* it.
LEMMA HandoversKept ==
    ASSUME Handovers, Targets, NEW t \in Threads, Alone(t),
           pc[t] \notin HandoverPCs, pc'[t] \notin HandoverPCs,
           pc[t] # "sleep" \/ sleepq[t] # "link", target' = target,
           \A u \in Threads : pc[u] \in {"chain_clear", "wake"} => mtx_owner' = mtx_owner,
           \A u \in Threads \ {t} : sleepq[u] = "link" => sleepq'[u] = "link",
           mtx_lock'.exw => \/ mtx_link' # <<>>
                            \/ pc'[t] = "link"
                            \/ mtx_lock.exw /\ mtx_link' = mtx_link /\ pc[t] # "link"
    PROVE  Handovers'
  <1>1. ASSUME NEW u \in Threads, pc'[u] \in HandoverPCs
        PROVE  /\ u # t /\ pc[u] \in HandoverPCs /\ pc'[u] = pc[u]
               /\ target[u] \in Threads /\ target[u] # t
    BY <1>1 DEF Handovers, Targets, HandoverPCs, Alone
  <1>2. \A u \in Threads : pc'[u] \in HandoverPCs =>
           /\ state'[target'[u]] = "ACQUIRED" /\ pc'[target'[u]] = "sleep"
           /\ sleepq'[target'[u]] = "link"
           /\ pc'[u] # "chain_owner" => mtx_owner' = target'[u]
    BY <1>1 DEF Handovers, HandoverPCs, Alone
  <1>3. \A u, v \in Threads : pc'[u] \in HandoverPCs /\ pc'[v] \in HandoverPCs => u = v
    BY <1>1 DEF Handovers
  <1>4. mtx_lock'.exw => \/ mtx_link' # <<>>
                         \/ \E u \in Threads :
                               pc'[u] \in {"link", "chain_owner", "chain_clear"}
    BY DEF Handovers, HandoverPCs, Alone
  <1> QED
    BY <1>2, <1>3, <1>4 DEF Handovers, HandoverPCs

\* A lock call begins.
LEMMA CallHeld ==
    ASSUME TInv, TInv', SInv, Exact', NEW t \in Threads,
           \/ LockEx(t) \/ TryEx(t) \/ LockSh(t) \/ TrySh(t)
    PROVE  SInv'
  <1>i. /\ LinkTypes /\ OnList /\ Targets /\ ExlinkExclusive /\ RestTypes
        /\ Flags /\ Releases /\ Wanted /\ Waiters /\ CountSays
        /\ Exact /\ Modes /\ Owners /\ Callers /\ Sleepers /\ Handovers /\ NoFailure
        /\ RestTypes'
    BY TInvParts DEF SInv, TInv
  <1>a. Alone(t)
    BY <1>i DEF Alone, LinkTypes, LockEx, TryEx, LockSh, TrySh
  <1>1. Modes'
    <2>1. /\ mtx_lock'.ex = mtx_lock.ex
          /\ mtx_lock.ex => (Present(t)' => Present(t)) /\ sh'[t] = 0
          /\ ~ mtx_lock.ex => /\ mtx_owner' = NULL /\ ex'[t] = 0
                              /\ InTransit(t)' => pc'[t] = "unlock"
      BY <1>i DEF LinkTypes, RestTypes, Modes, Owners, Callers, Caller,
         Present, InTransit, LockEx, TryEx, LockSh, TrySh
    <2> QED
      BY <1>i, <1>a, <2>1, ModesKept
  <1>2. Owners'
    <2>1. /\ mtx_owner' = mtx_owner /\ pc'[t] # "owner"
          /\ \A u \in Threads : pc[u] = "owner" => mtx_lock'.cnt = 1 /\ mtx_lock'.ex
          /\ ex'[t] > 0 => mtx_owner = t
          /\ mtx_owner = t => Present(t)' \/ pc'[t] = "chain_owner"
      BY <1>i DEF LinkTypes, RestTypes, Modes, Owners, Present, InTransit,
         LockEx, TryEx, LockSh, TrySh
    <2> QED
      BY <1>i, <1>a, <2>1, OwnersKept
  <1>3. Callers'
    <2>1. Caller(t)'
      BY <1>i DEF LinkTypes, RestTypes, Callers, Caller, Modes, Owners, LockEx,
         TryEx, LockSh, TrySh
    <2> QED
      BY <1>i, <1>a, <2>1, CallersKept
  <1>4. Sleepers'
    <2>1. /\ Sleeper(t)'
          /\ \A u \in Threads \ {t} : sleepq'[u] = sleepq[u] \/ sleepq[u] = "mtx"
          /\ \A u \in Threads \ {t} : mtx_owner = u /\ pc[u] \in {"sleep", "woken"}
                                        => mtx_owner' = u
      BY <1>i DEF LinkTypes, RestTypes, Sleepers, Sleeper, LockEx, TryEx,
         LockSh, TrySh
    <2> QED
      BY <1>i, <1>a, <2>1, SleepersKept
  <1>5. Handovers'
    <2>1. /\ pc[t] \notin HandoverPCs /\ pc'[t] \notin HandoverPCs
          /\ pc[t] # "sleep" \/ sleepq[t] # "link"
          /\ target' = target
      BY <1>i DEF LinkTypes, RestTypes, HandoverPCs, LockEx, TryEx, LockSh,
         TrySh
    <2>2. \A u \in Threads : pc[u] \in {"chain_clear", "wake"} => mtx_owner' = mtx_owner
      BY <1>i DEF LinkTypes, RestTypes, Handovers, HandoverPCs, Modes, Owners,
         Targets, Releases, Present, InTransit, LockEx, TryEx, LockSh, TrySh
    <2>3. \A u \in Threads \ {t} : sleepq[u] = "link" => sleepq'[u] = "link"
      BY <1>i DEF LinkTypes, LockEx, TryEx, LockSh, TrySh
    <2>4. mtx_lock'.exw => \/ mtx_link' # <<>>
                           \/ pc'[t] = "link"
                           \/ /\ mtx_lock.exw /\ mtx_link' = mtx_link
                              /\ pc[t] # "link"
      BY <1>i DEF LinkTypes, RestTypes, LockEx, TryEx, LockSh, TrySh
    <2> QED
      BY <1>i, <1>a, <2>1, <2>2, <2>3, <2>4, HandoversKept
  <1>6. NoFailure'
    BY <1>i DEF LinkTypes, NoFailure, LockEx, TryEx, LockSh, TrySh
  <1> QED
    BY <1>1, <1>2, <1>3, <1>4, <1>5, <1>6 DEF SInv

\* A try fails.
LEMMA TryHeld ==
    ASSUME TInv, TInv', SInv, Exact', NEW t \in Threads,
           \/ TryFail(t) \/ TryShFail(t)
    PROVE  SInv'
  <1>i. /\ LinkTypes /\ OnList /\ Targets /\ ExlinkExclusive /\ RestTypes
        /\ Flags /\ Releases /\ Wanted /\ Waiters /\ CountSays
        /\ Exact /\ Modes /\ Owners /\ Callers /\ Sleepers /\ Handovers /\ NoFailure
        /\ RestTypes'
    BY TInvParts DEF SInv, TInv
  <1>a. Alone(t)
    BY <1>i DEF Alone, LinkTypes, TryFail, TryShFail
  <1>1. Modes'
    <2>1. /\ mtx_lock'.ex = mtx_lock.ex
          /\ mtx_lock.ex => (Present(t)' => Present(t)) /\ sh'[t] = 0
          /\ ~ mtx_lock.ex => /\ mtx_owner' = NULL /\ ex'[t] = 0
                              /\ InTransit(t)' => pc'[t] = "unlock"
      BY <1>i DEF LinkTypes, RestTypes, Modes, Owners, Callers, Caller,
         Present, InTransit, TryFail, TryShFail
    <2> QED
      BY <1>i, <1>a, <2>1, ModesKept
  <1>2. Owners'
    <2>1. /\ mtx_owner' = mtx_owner /\ pc'[t] # "owner"
          /\ \A u \in Threads : pc[u] = "owner" => mtx_lock'.cnt = 1 /\ mtx_lock'.ex
          /\ ex'[t] > 0 => mtx_owner = t
          /\ mtx_owner = t => Present(t)' \/ pc'[t] = "chain_owner"
      BY <1>i DEF LinkTypes, RestTypes, Modes, Owners, Present, InTransit,
         TryFail, TryShFail
    <2> QED
      BY <1>i, <1>a, <2>1, OwnersKept
  <1>3. Callers'
    <2>1. Caller(t)'
      BY <1>i DEF LinkTypes, RestTypes, Callers, Caller, Modes, Owners,
         TryFail, TryShFail
    <2> QED
      BY <1>i, <1>a, <2>1, CallersKept
  <1>4. Sleepers'
    <2>1. /\ Sleeper(t)'
          /\ \A u \in Threads \ {t} : sleepq'[u] = sleepq[u] \/ sleepq[u] = "mtx"
          /\ \A u \in Threads \ {t} : mtx_owner = u /\ pc[u] \in {"sleep", "woken"}
                                        => mtx_owner' = u
      BY <1>i DEF LinkTypes, RestTypes, Sleepers, Sleeper, TryFail, TryShFail
    <2> QED
      BY <1>i, <1>a, <2>1, SleepersKept
  <1>5. Handovers'
    <2>1. /\ pc[t] \notin HandoverPCs /\ pc'[t] \notin HandoverPCs
          /\ pc[t] # "sleep" \/ sleepq[t] # "link"
          /\ target' = target
      BY <1>i DEF LinkTypes, RestTypes, HandoverPCs, TryFail, TryShFail
    <2>2. \A u \in Threads : pc[u] \in {"chain_clear", "wake"} => mtx_owner' = mtx_owner
      BY <1>i DEF LinkTypes, RestTypes, Handovers, HandoverPCs, Modes, Owners,
         Targets, Releases, Present, InTransit, TryFail, TryShFail
    <2>3. \A u \in Threads \ {t} : sleepq[u] = "link" => sleepq'[u] = "link"
      BY <1>i DEF LinkTypes, TryFail, TryShFail
    <2>4. mtx_lock'.exw => \/ mtx_link' # <<>>
                           \/ pc'[t] = "link"
                           \/ /\ mtx_lock.exw /\ mtx_link' = mtx_link
                              /\ pc[t] # "link"
      BY <1>i DEF LinkTypes, RestTypes, TryFail, TryShFail
    <2> QED
      BY <1>i, <1>a, <2>1, <2>2, <2>3, <2>4, HandoversKept
  <1>6. NoFailure'
    BY <1>i DEF LinkTypes, NoFailure, TryFail, TryShFail
  <1> QED
    BY <1>1, <1>2, <1>3, <1>4, <1>5, <1>6 DEF SInv

\* A shared request waits.
LEMMA ShWaitHeld ==
    ASSUME TInv, TInv', SInv, Exact', NEW t \in Threads,
           \/ LockShInterlock(t) \/ LockShWait(t) \/ LockShRace(t)
           \/ WokenSh(t)
    PROVE  SInv'
  <1>i. /\ LinkTypes /\ OnList /\ Targets /\ ExlinkExclusive /\ RestTypes
        /\ Flags /\ Releases /\ Wanted /\ Waiters /\ CountSays
        /\ Exact /\ Modes /\ Owners /\ Callers /\ Sleepers /\ Handovers /\ NoFailure
        /\ RestTypes'
    BY TInvParts DEF SInv, TInv
  <1>a. Alone(t)
    BY <1>i DEF Alone, LinkTypes, LockShInterlock, LockShWait, LockShRace,
       WokenSh
  <1>1. Modes'
    <2>1. /\ mtx_lock'.ex = mtx_lock.ex
          /\ mtx_lock.ex => (Present(t)' => Present(t)) /\ sh'[t] = 0
          /\ ~ mtx_lock.ex => /\ mtx_owner' = NULL /\ ex'[t] = 0
                              /\ InTransit(t)' => pc'[t] = "unlock"
      BY <1>i DEF LinkTypes, Words, RestTypes, Modes, Owners, Callers, Caller,
         Present, InTransit, LockShInterlock, LockShWait, LockShRace, WokenSh
    <2> QED
      BY <1>i, <1>a, <2>1, ModesKept
  <1>2. Owners'
    <2>1. /\ mtx_owner' = mtx_owner /\ pc'[t] # "owner"
          /\ \A u \in Threads : pc[u] = "owner" => mtx_lock'.cnt = 1 /\ mtx_lock'.ex
          /\ ex'[t] > 0 => mtx_owner = t
          /\ mtx_owner = t => Present(t)' \/ pc'[t] = "chain_owner"
      BY <1>i, ConstantsAssumption DEF LinkTypes, Words, RestTypes, Modes,
         Owners, Present, InTransit, LockShInterlock, LockShWait, LockShRace,
         WokenSh
    <2> QED
      BY <1>i, <1>a, <2>1, OwnersKept
  <1>3. Callers'
    <2>1. Caller(t)'
      BY <1>i DEF LinkTypes, RestTypes, Callers, Caller, Modes, Owners,
         LockShInterlock, LockShWait, LockShRace, WokenSh
    <2> QED
      BY <1>i, <1>a, <2>1, CallersKept
  <1>4. Sleepers'
    <2>1. /\ Sleeper(t)'
          /\ \A u \in Threads \ {t} : sleepq'[u] = sleepq[u] \/ sleepq[u] = "mtx"
          /\ \A u \in Threads \ {t} : mtx_owner = u /\ pc[u] \in {"sleep", "woken"}
                                        => mtx_owner' = u
      BY <1>i DEF LinkTypes, RestTypes, Sleepers, Sleeper, LockShInterlock,
         LockShWait, LockShRace, WokenSh
    <2> QED
      BY <1>i, <1>a, <2>1, SleepersKept
  <1>5. Handovers'
    <2>1. /\ pc[t] \notin HandoverPCs /\ pc'[t] \notin HandoverPCs
          /\ pc[t] # "sleep" \/ sleepq[t] # "link"
          /\ target' = target
      BY <1>i DEF LinkTypes, RestTypes, HandoverPCs, LockShInterlock,
         LockShWait, LockShRace, WokenSh
    <2>2. \A u \in Threads : pc[u] \in {"chain_clear", "wake"} => mtx_owner' = mtx_owner
      BY <1>i DEF LinkTypes, RestTypes, Handovers, HandoverPCs, Modes, Owners,
         Targets, Releases, Present, InTransit, LockShInterlock, LockShWait,
         LockShRace, WokenSh
    <2>3. \A u \in Threads \ {t} : sleepq[u] = "link" => sleepq'[u] = "link"
      BY <1>i DEF LinkTypes, RestTypes, LockShInterlock, LockShWait,
         LockShRace, WokenSh
    <2>4. mtx_lock'.exw => \/ mtx_link' # <<>>
                           \/ pc'[t] = "link"
                           \/ /\ mtx_lock.exw /\ mtx_link' = mtx_link
                              /\ pc[t] # "link"
      BY <1>i DEF LinkTypes, Words, RestTypes, LockShInterlock, LockShWait,
         LockShRace, WokenSh
    <2> QED
      BY <1>i, <1>a, <2>1, <2>2, <2>3, <2>4, HandoversKept
  <1>6. NoFailure'
    BY <1>i DEF LinkTypes, NoFailure, LockShInterlock, LockShWait, LockShRace,
       WokenSh
  <1> QED
    BY <1>1, <1>2, <1>3, <1>4, <1>5, <1>6 DEF SInv

\* An exclusive request gets EXLINK.
LEMMA WaitHeld ==
    ASSUME TInv, TInv', SInv, Exact', NEW t \in Threads,
           LockExWait(t)
    PROVE  SInv'
  <1>i. /\ LinkTypes /\ OnList /\ Targets /\ ExlinkExclusive /\ RestTypes
        /\ Flags /\ Releases /\ Wanted /\ Waiters /\ CountSays
        /\ Exact /\ Modes /\ Owners /\ Callers /\ Sleepers /\ Handovers /\ NoFailure
        /\ RestTypes'
    BY TInvParts DEF SInv, TInv
  <1>a. Alone(t)
    BY <1>i DEF Alone, LockExWait, Owned
  <1>1. Modes'
    <2>1. /\ mtx_lock'.ex = mtx_lock.ex
          /\ mtx_lock.ex => (Present(t)' => Present(t)) /\ sh'[t] = 0
          /\ ~ mtx_lock.ex => /\ mtx_owner' = NULL /\ ex'[t] = 0
                              /\ InTransit(t)' => pc'[t] = "unlock"
      BY <1>i DEF LinkTypes, RestTypes, Modes, Owners, Callers, Caller,
         Present, InTransit, LockExWait, Owned
    <2> QED
      BY <1>i, <1>a, <2>1, ModesKept
  <1>2. Owners'
    <2>1. /\ mtx_owner' = mtx_owner /\ pc'[t] # "owner"
          /\ \A u \in Threads : pc[u] = "owner" => mtx_lock'.cnt = 1 /\ mtx_lock'.ex
          /\ ex'[t] > 0 => mtx_owner = t
          /\ mtx_owner = t => Present(t)' \/ pc'[t] = "chain_owner"
      BY <1>i DEF LinkTypes, RestTypes, Modes, Owners, Present, InTransit,
         LockExWait, Owned
    <2> QED
      BY <1>i, <1>a, <2>1, OwnersKept
  <1>3. Callers'
    <2>1. Caller(t)'
      BY <1>i DEF LinkTypes, RestTypes, HeldTypes, Callers, Caller, Modes,
         Owners, LockExWait, Owned
    <2> QED
      BY <1>i, <1>a, <2>1, CallersKept
  <1>4. Sleepers'
    <2>1. /\ Sleeper(t)'
          /\ \A u \in Threads \ {t} : sleepq'[u] = sleepq[u] \/ sleepq[u] = "mtx"
          /\ \A u \in Threads \ {t} : mtx_owner = u /\ pc[u] \in {"sleep", "woken"}
                                        => mtx_owner' = u
      BY <1>i DEF LinkTypes, RestTypes, Sleepers, Sleeper, LockExWait, Owned
    <2> QED
      BY <1>i, <1>a, <2>1, SleepersKept
  <1>5. Handovers'
    <2>1. /\ pc[t] \notin HandoverPCs /\ pc'[t] \notin HandoverPCs
          /\ pc[t] # "sleep" \/ sleepq[t] # "link"
          /\ target' = target
      BY <1>i DEF LinkTypes, RestTypes, HandoverPCs, LockExWait, Owned
    <2>2. \A u \in Threads : pc[u] \in {"chain_clear", "wake"} => mtx_owner' = mtx_owner
      BY <1>i DEF LinkTypes, RestTypes, Handovers, HandoverPCs, Modes, Owners,
         Targets, Releases, Present, InTransit, LockExWait, Owned
    <2>3. \A u \in Threads \ {t} : sleepq[u] = "link" => sleepq'[u] = "link"
      BY <1>i DEF LinkTypes, LockExWait, Owned
    <2>4. mtx_lock'.exw => \/ mtx_link' # <<>>
                           \/ pc'[t] = "link"
                           \/ /\ mtx_lock.exw /\ mtx_link' = mtx_link
                              /\ pc[t] # "link"
      BY <1>i DEF LinkTypes, RestTypes, LockExWait, Owned
    <2> QED
      BY <1>i, <1>a, <2>1, <2>2, <2>3, <2>4, HandoversKept
  <1>6. NoFailure'
    BY <1>i DEF LinkTypes, NoFailure, LockExWait, Owned
  <1> QED
    BY <1>1, <1>2, <1>3, <1>4, <1>5, <1>6 DEF SInv

\* It puts its link on the list.
LEMMA LinkInHeld ==
    ASSUME TInv, TInv', SInv, Exact', NEW t \in Threads,
           LinkIn(t)
    PROVE  SInv'
  <1>i. /\ LinkTypes /\ OnList /\ Targets /\ ExlinkExclusive /\ RestTypes
        /\ Flags /\ Releases /\ Wanted /\ Waiters /\ CountSays
        /\ Exact /\ Modes /\ Owners /\ Callers /\ Sleepers /\ Handovers /\ NoFailure
        /\ RestTypes'
    BY TInvParts DEF SInv, TInv
  <1>a. Alone(t)
    BY <1>i DEF Alone, LinkIn
  <1>1. Modes'
    <2>1. /\ mtx_lock'.ex = mtx_lock.ex
          /\ mtx_lock.ex => (Present(t)' => Present(t)) /\ sh'[t] = 0
          /\ ~ mtx_lock.ex => /\ mtx_owner' = NULL /\ ex'[t] = 0
                              /\ InTransit(t)' => pc'[t] = "unlock"
      BY <1>i DEF LinkTypes, RestTypes, Modes, Owners, Callers, Caller,
         Present, InTransit, LinkIn
    <2> QED
      BY <1>i, <1>a, <2>1, ModesKept
  <1>2. Owners'
    <2>1. /\ mtx_owner' = mtx_owner /\ pc'[t] # "owner"
          /\ \A u \in Threads : pc[u] = "owner" => mtx_lock'.cnt = 1 /\ mtx_lock'.ex
          /\ ex'[t] > 0 => mtx_owner = t
          /\ mtx_owner = t => Present(t)' \/ pc'[t] = "chain_owner"
      BY <1>i DEF LinkTypes, RestTypes, Modes, Owners, Present, InTransit,
         LinkIn
    <2> QED
      BY <1>i, <1>a, <2>1, OwnersKept
  <1>3. Callers'
    <2>1. Caller(t)'
      BY <1>i DEF LinkTypes, RestTypes, Callers, Caller, Modes, Owners, LinkIn
    <2> QED
      BY <1>i, <1>a, <2>1, CallersKept
  <1>4. Sleepers'
    <2>1. /\ Sleeper(t)'
          /\ \A u \in Threads \ {t} : sleepq'[u] = sleepq[u] \/ sleepq[u] = "mtx"
          /\ \A u \in Threads \ {t} : mtx_owner = u /\ pc[u] \in {"sleep", "woken"}
                                        => mtx_owner' = u
      BY <1>i DEF LinkTypes, RestTypes, Sleepers, Sleeper, LinkIn
    <2> QED
      BY <1>i, <1>a, <2>1, SleepersKept
  <1>5. Handovers'
    <2>1. /\ pc[t] \notin HandoverPCs /\ pc'[t] \notin HandoverPCs
          /\ pc[t] # "sleep" /\ target' = target /\ mtx_owner' = mtx_owner
          /\ \A u \in Threads \ {t} : sleepq'[u] = sleepq[u]
      BY <1>i DEF HandoverPCs, LinkIn
    <2>2. mtx_link' # <<>>
      BY <1>i DEF LinkIn
    <2> QED
      BY <1>i, <1>a, <2>1, <2>2, HandoversKept
  <1>6. NoFailure'
    BY <1>i DEF LinkTypes, NoFailure, LinkIn
  <1> QED
    BY <1>1, <1>2, <1>3, <1>4, <1>5, <1>6 DEF SInv

\* It goes to sleep.
LEMMA LinkedReleaseHeld ==
    ASSUME TInv, TInv', SInv, Exact', NEW t \in Threads,
           LinkedRelease(t)
    PROVE  SInv'
  <1>i. /\ LinkTypes /\ OnList /\ Targets /\ ExlinkExclusive /\ RestTypes
        /\ Flags /\ Releases /\ Wanted /\ Waiters /\ CountSays
        /\ Exact /\ Modes /\ Owners /\ Callers /\ Sleepers /\ Handovers /\ NoFailure
        /\ RestTypes'
    BY TInvParts DEF SInv, TInv
  <1>a. Alone(t)
    BY <1>i DEF Alone, LinkedRelease, ClearExlink
  <1>1. Modes'
    <2>1. /\ mtx_lock'.ex = mtx_lock.ex
          /\ mtx_lock.ex => (Present(t)' => Present(t)) /\ sh'[t] = 0
          /\ ~ mtx_lock.ex => /\ mtx_owner' = NULL /\ ex'[t] = 0
                              /\ InTransit(t)' => pc'[t] = "unlock"
      BY <1>i DEF LinkTypes, RestTypes, Modes, Owners, Callers, Caller,
         Present, InTransit, LinkedRelease, ClearExlink, Waiters
    <2> QED
      BY <1>i, <1>a, <2>1, ModesKept
  <1>2. Owners'
    <2>1. /\ mtx_owner' = mtx_owner /\ pc'[t] # "owner"
          /\ \A u \in Threads : pc[u] = "owner" => mtx_lock'.cnt = 1 /\ mtx_lock'.ex
          /\ ex'[t] > 0 => mtx_owner = t
          /\ mtx_owner = t => Present(t)' \/ pc'[t] = "chain_owner"
      BY <1>i DEF LinkTypes, RestTypes, Modes, Owners, Present, InTransit,
         LinkedRelease, ClearExlink
    <2> QED
      BY <1>i, <1>a, <2>1, OwnersKept
  <1>3. Callers'
    <2>1. Caller(t)'
      BY <1>i DEF LinkTypes, RestTypes, Callers, Caller, Modes, Owners,
         LinkedRelease, ClearExlink
    <2> QED
      BY <1>i, <1>a, <2>1, CallersKept
  <1>4. Sleepers'
    <2>1. /\ Sleeper(t)'
          /\ \A u \in Threads \ {t} : sleepq'[u] = sleepq[u] \/ sleepq[u] = "mtx"
          /\ \A u \in Threads \ {t} : mtx_owner = u /\ pc[u] \in {"sleep", "woken"}
                                        => mtx_owner' = u
      BY <1>i DEF LinkTypes, RestTypes, Sleepers, Sleeper, LinkedRelease,
         ClearExlink
    <2> QED
      BY <1>i, <1>a, <2>1, SleepersKept
  <1>5. Handovers'
    <2>1. /\ pc[t] \notin HandoverPCs /\ pc'[t] \notin HandoverPCs
          /\ pc[t] # "sleep" \/ sleepq[t] # "link"
          /\ target' = target
      BY <1>i DEF LinkTypes, RestTypes, HandoverPCs, LinkedRelease, ClearExlink
    <2>2. \A u \in Threads : pc[u] \in {"chain_clear", "wake"} => mtx_owner' = mtx_owner
      BY <1>i DEF LinkTypes, RestTypes, Handovers, HandoverPCs, Modes, Owners,
         Targets, Releases, Present, InTransit, LinkedRelease, ClearExlink
    <2>3. \A u \in Threads \ {t} : sleepq[u] = "link" => sleepq'[u] = "link"
      BY <1>i DEF LinkTypes, LinkedRelease, ClearExlink
    <2>4. mtx_lock'.exw => \/ mtx_link' # <<>>
                           \/ pc'[t] = "link"
                           \/ /\ mtx_lock.exw /\ mtx_link' = mtx_link
                              /\ pc[t] # "link"
      BY <1>i DEF LinkTypes, RestTypes, LinkedRelease, ClearExlink
    <2> QED
      BY <1>i, <1>a, <2>1, <2>2, <2>3, <2>4, HandoversKept
  <1>6. NoFailure'
    BY <1>i DEF LinkTypes, NoFailure, LinkedRelease, ClearExlink
  <1> QED
    BY <1>1, <1>2, <1>3, <1>4, <1>5, <1>6 DEF SInv

\* A waiter has been woken up.
LEMMA WokenHeld ==
    ASSUME TInv, TInv', SInv, Exact', NEW t \in Threads,
           Woken(t)
    PROVE  SInv'
  <1>i. /\ LinkTypes /\ OnList /\ Targets /\ ExlinkExclusive /\ RestTypes
        /\ Flags /\ Releases /\ Wanted /\ Waiters /\ CountSays
        /\ Exact /\ Modes /\ Owners /\ Callers /\ Sleepers /\ Handovers /\ NoFailure
        /\ RestTypes'
    BY TInvParts DEF SInv, TInv
  <1>a. Alone(t)
    BY <1>i DEF Alone, Woken
  <1>1. Modes'
    <2>1. /\ mtx_lock'.ex = mtx_lock.ex
          /\ mtx_lock.ex => (Present(t)' => Present(t)) /\ sh'[t] = 0
          /\ ~ mtx_lock.ex => /\ mtx_owner' = NULL /\ ex'[t] = 0
                              /\ InTransit(t)' => pc'[t] = "unlock"
      BY <1>i DEF LinkTypes, RestTypes, Modes, Owners, Callers, Caller,
         Present, InTransit, Woken
    <2> QED
      BY <1>i, <1>a, <2>1, ModesKept
  <1>2. Owners'
    <2>1. /\ mtx_owner' = mtx_owner /\ pc'[t] # "owner"
          /\ \A u \in Threads : pc[u] = "owner" => mtx_lock'.cnt = 1 /\ mtx_lock'.ex
          /\ ex'[t] > 0 => mtx_owner = t
          /\ mtx_owner = t => Present(t)' \/ pc'[t] = "chain_owner"
      BY <1>i DEF LinkTypes, RestTypes, Modes, Owners, Present, InTransit,
         Woken
    <2> QED
      BY <1>i, <1>a, <2>1, OwnersKept
  <1>3. Callers'
    <2>1. Caller(t)'
      BY <1>i DEF LinkTypes, RestTypes, Callers, Caller, Modes, Owners, Woken
    <2> QED
      BY <1>i, <1>a, <2>1, CallersKept
  <1>4. Sleepers'
    <2>1. /\ Sleeper(t)'
          /\ \A u \in Threads \ {t} : sleepq'[u] = sleepq[u] \/ sleepq[u] = "mtx"
          /\ \A u \in Threads \ {t} : mtx_owner = u /\ pc[u] \in {"sleep", "woken"}
                                        => mtx_owner' = u
      BY <1>i DEF LinkTypes, RestTypes, Sleepers, Sleeper, Woken
    <2> QED
      BY <1>i, <1>a, <2>1, SleepersKept
  <1>5. Handovers'
    <2>1. /\ pc[t] \notin HandoverPCs /\ pc'[t] \notin HandoverPCs
          /\ pc[t] # "sleep" \/ sleepq[t] # "link"
          /\ target' = target
      BY <1>i DEF LinkTypes, RestTypes, HandoverPCs, Woken
    <2>2. \A u \in Threads : pc[u] \in {"chain_clear", "wake"} => mtx_owner' = mtx_owner
      BY <1>i DEF LinkTypes, RestTypes, Handovers, HandoverPCs, Modes, Owners,
         Targets, Releases, Present, InTransit, Woken
    <2>3. \A u \in Threads \ {t} : sleepq[u] = "link" => sleepq'[u] = "link"
      BY <1>i DEF LinkTypes, Woken
    <2>4. mtx_lock'.exw => \/ mtx_link' # <<>>
                           \/ pc'[t] = "link"
                           \/ /\ mtx_lock.exw /\ mtx_link' = mtx_link
                              /\ pc[t] # "link"
      BY <1>i DEF LinkTypes, RestTypes, Woken
    <2> QED
      BY <1>i, <1>a, <2>1, <2>2, <2>3, <2>4, HandoversKept
  <1>6. NoFailure'
    BY <1>i DEF LinkTypes, NoFailure, Woken
  <1> QED
    BY <1>1, <1>2, <1>3, <1>4, <1>5, <1>6 DEF SInv

\* It finds that it owns the lock.
LEMMA AcquiredHeld ==
    ASSUME TInv, TInv', SInv, Exact', NEW t \in Threads,
           Acquired(t)
    PROVE  SInv'
  <1>i. /\ LinkTypes /\ OnList /\ Targets /\ ExlinkExclusive /\ RestTypes
        /\ Flags /\ Releases /\ Wanted /\ Waiters /\ CountSays
        /\ Exact /\ Modes /\ Owners /\ Callers /\ Sleepers /\ Handovers /\ NoFailure
        /\ RestTypes'
    BY TInvParts DEF SInv, TInv
  <1>a. Alone(t)
    BY <1>i DEF Alone, Acquired, Kkassert
  <1>1. Modes'
    <2>1. /\ mtx_lock'.ex = mtx_lock.ex
          /\ mtx_lock.ex => (Present(t)' => Present(t)) /\ sh'[t] = 0
          /\ ~ mtx_lock.ex => /\ mtx_owner' = NULL /\ ex'[t] = 0
                              /\ InTransit(t)' => pc'[t] = "unlock"
      BY <1>i DEF LinkTypes, RestTypes, Modes, Owners, Callers, Caller,
         Present, InTransit, Acquired, Kkassert
    <2> QED
      BY <1>i, <1>a, <2>1, ModesKept
  <1>2. Owners'
    <2>1. /\ mtx_owner' = mtx_owner /\ pc'[t] # "owner"
          /\ \A u \in Threads : pc[u] = "owner" => mtx_lock'.cnt = 1 /\ mtx_lock'.ex
          /\ ex'[t] > 0 => mtx_owner = t
          /\ mtx_owner = t => Present(t)' \/ pc'[t] = "chain_owner"
      BY <1>i DEF LinkTypes, RestTypes, HeldTypes, Modes, Owners, Present,
         InTransit, Acquired, Kkassert, Sleepers, Sleeper
    <2> QED
      BY <1>i, <1>a, <2>1, OwnersKept
  <1>3. Callers'
    <2>1. Caller(t)'
      BY <1>i DEF LinkTypes, RestTypes, Callers, Caller, Modes, Owners,
         Acquired, Kkassert
    <2> QED
      BY <1>i, <1>a, <2>1, CallersKept
  <1>4. Sleepers'
    <2>1. /\ Sleeper(t)'
          /\ \A u \in Threads \ {t} : sleepq'[u] = sleepq[u] \/ sleepq[u] = "mtx"
          /\ \A u \in Threads \ {t} : mtx_owner = u /\ pc[u] \in {"sleep", "woken"}
                                        => mtx_owner' = u
      BY <1>i DEF LinkTypes, RestTypes, Sleepers, Sleeper, Acquired, Kkassert
    <2> QED
      BY <1>i, <1>a, <2>1, SleepersKept
  <1>5. Handovers'
    <2>1. /\ pc[t] \notin HandoverPCs /\ pc'[t] \notin HandoverPCs
          /\ pc[t] # "sleep" \/ sleepq[t] # "link"
          /\ target' = target
      BY <1>i DEF LinkTypes, RestTypes, HandoverPCs, Acquired, Kkassert
    <2>2. \A u \in Threads : pc[u] \in {"chain_clear", "wake"} => mtx_owner' = mtx_owner
      BY <1>i DEF LinkTypes, RestTypes, Handovers, HandoverPCs, Modes, Owners,
         Targets, Releases, Present, InTransit, Acquired, Kkassert
    <2>3. \A u \in Threads \ {t} : sleepq[u] = "link" => sleepq'[u] = "link"
      BY <1>i DEF LinkTypes, Acquired, Kkassert
    <2>4. mtx_lock'.exw => \/ mtx_link' # <<>>
                           \/ pc'[t] = "link"
                           \/ /\ mtx_lock.exw /\ mtx_link' = mtx_link
                              /\ pc[t] # "link"
      BY <1>i DEF LinkTypes, RestTypes, Acquired, Kkassert
    <2> QED
      BY <1>i, <1>a, <2>1, <2>2, <2>3, <2>4, HandoversKept
  <1>6. NoFailure'
    BY <1>i DEF LinkTypes, RestTypes, NoFailure, Acquired, Kkassert, Sleepers,
       Sleeper
  <1> QED
    BY <1>1, <1>2, <1>3, <1>4, <1>5, <1>6 DEF SInv

\* A free lock is taken.
LEMMA FreeHeld ==
    ASSUME TInv, TInv', SInv, Exact', NEW t \in Threads,
           LockExFree(t)
    PROVE  SInv'
  <1>i. /\ LinkTypes /\ OnList /\ Targets /\ ExlinkExclusive /\ RestTypes
        /\ Flags /\ Releases /\ Wanted /\ Waiters /\ CountSays
        /\ Exact /\ Modes /\ Owners /\ Callers /\ Sleepers /\ Handovers /\ NoFailure
        /\ RestTypes'
    BY TInvParts DEF SInv, TInv
  <1>p. \A u \in Threads : ~ Present(u) /\ ~ InTransit(u) /\ ex[u] = 0 /\ sh[u] = 0
    BY <1>i DEF RestTypes, HeldTypes, CountSays, Present, LockExFree, Unlocked
  <1>a. Alone(t)
    BY <1>i DEF Alone, LockExFree, Unlocked
  <1>1. Modes'
    BY <1>i, <1>p, <1>a, ModesExclusive DEF LinkTypes, RestTypes, Releases,
       LockExFree, Unlocked
  <1>2. Owners'
    BY <1>i, <1>p DEF LinkTypes, RestTypes, CountSays, Present, InTransit,
       Modes, Owners, Releases, Sleepers, Sleeper, Handovers, HandoverPCs,
       Alone, LockExFree, Unlocked
  <1>3. Callers'
    <2>1. Caller(t)'
      BY <1>i, <1>p DEF LinkTypes, RestTypes, Callers, Caller, Modes, Owners,
         LockExFree, Unlocked
    <2> QED
      BY <1>i, <1>a, <2>1, CallersKept
  <1>4. Sleepers'
    <2>1. /\ Sleeper(t)'
          /\ \A u \in Threads \ {t} : sleepq'[u] = sleepq[u] \/ sleepq[u] = "mtx"
          /\ \A u \in Threads \ {t} : mtx_owner = u /\ pc[u] \in {"sleep", "woken"}
                                        => mtx_owner' = u
      BY <1>i, <1>p DEF LinkTypes, RestTypes, Sleepers, Sleeper, LockExFree,
         Unlocked
    <2> QED
      BY <1>i, <1>a, <2>1, SleepersKept
  <1>5. Handovers'
    <2>1. /\ pc[t] \notin HandoverPCs /\ pc'[t] \notin HandoverPCs
          /\ pc[t] # "sleep" \/ sleepq[t] # "link"
          /\ target' = target
      BY <1>i, <1>p DEF LinkTypes, RestTypes, HandoverPCs, LockExFree, Unlocked
    <2>2. \A u \in Threads : pc[u] \in {"chain_clear", "wake"} => mtx_owner' = mtx_owner
      BY <1>i, <1>p DEF LinkTypes, RestTypes, Handovers, HandoverPCs, Modes,
         Owners, Targets, Releases, Present, InTransit, LockExFree, Unlocked
    <2>3. \A u \in Threads \ {t} : sleepq[u] = "link" => sleepq'[u] = "link"
      BY <1>i, <1>p DEF LinkTypes, LockExFree, Unlocked
    <2>4. mtx_lock'.exw => \/ mtx_link' # <<>>
                           \/ pc'[t] = "link"
                           \/ /\ mtx_lock.exw /\ mtx_link' = mtx_link
                              /\ pc[t] # "link"
      BY <1>i, <1>p DEF LinkTypes, RestTypes, LockExFree, Unlocked
    <2> QED
      BY <1>i, <1>a, <2>1, <2>2, <2>3, <2>4, HandoversKept
  <1>6. NoFailure'
    BY <1>i, <1>p DEF LinkTypes, NoFailure, LockExFree, Unlocked
  <1> QED
    BY <1>1, <1>2, <1>3, <1>4, <1>5, <1>6 DEF SInv

\* The new owner is recorded.
LEMMA OwnHeld ==
    ASSUME TInv, TInv', SInv, Exact', NEW t \in Threads,
           SetOwner(t)
    PROVE  SInv'
  <1>i. /\ LinkTypes /\ OnList /\ Targets /\ ExlinkExclusive /\ RestTypes
        /\ Flags /\ Releases /\ Wanted /\ Waiters /\ CountSays
        /\ Exact /\ Modes /\ Owners /\ Callers /\ Sleepers /\ Handovers /\ NoFailure
        /\ RestTypes'
    BY TInvParts DEF SInv, TInv
  <1>p. /\ ex[t] = 0 /\ sh[t] = 0 /\ InTransit(t) /\ Present(t)
        /\ \A u \in Threads \ {t} : ~ Present(u) /\ ex[u] = 0 /\ sh[u] = 0
    <2>1. mtx_lock.cnt = 1 /\ InTransit(t)
      BY <1>i DEF InTransit, Owners, SetOwner
    <2> QED
      BY <1>i, <2>1 DEF RestTypes, HeldTypes, CountSays, Present
  <1>a. Alone(t)
    BY <1>i DEF Alone, SetOwner
  <1>1. Modes'
    <2>1. /\ mtx_lock'.ex = mtx_lock.ex
          /\ mtx_lock.ex => (Present(t)' => Present(t)) /\ sh'[t] = 0
          /\ ~ mtx_lock.ex => /\ mtx_owner' = NULL /\ ex'[t] = 0
                              /\ InTransit(t)' => pc'[t] = "unlock"
      BY <1>i, <1>p DEF LinkTypes, RestTypes, Modes, Owners, Callers, Caller,
         Present, InTransit, SetOwner
    <2> QED
      BY <1>i, <1>a, <2>1, ModesKept
  <1>2. Owners'
    <2>1. /\ mtx_owner' = t /\ ex'[t] > 0 /\ sh'[t] \in Nat /\ pc'[t] = "idle"
          /\ \A u \in Threads \ {t} : ex'[u] = 0 /\ pc'[u] # "owner"
      BY <1>i, <1>p, <1>a DEF LinkTypes, RestTypes, HeldTypes, Alone, Present,
                              InTransit, SetOwner
    <2> QED
      BY <1>i, <2>1 DEF Owners, Present, RestTypes, HeldTypes
  <1>3. Callers'
    <2>1. Caller(t)'
      BY <1>i, <1>p DEF LinkTypes, RestTypes, Callers, Caller, Modes, Owners,
         SetOwner
    <2> QED
      BY <1>i, <1>a, <2>1, CallersKept
  <1>4. Sleepers'
    <2>1. /\ Sleeper(t)'
          /\ \A u \in Threads \ {t} : sleepq'[u] = sleepq[u] \/ sleepq[u] = "mtx"
          /\ \A u \in Threads \ {t} : mtx_owner = u /\ pc[u] \in {"sleep", "woken"}
                                        => mtx_owner' = u
      BY <1>i, <1>p DEF LinkTypes, RestTypes, Sleepers, Sleeper, SetOwner,
         Owners
    <2> QED
      BY <1>i, <1>a, <2>1, SleepersKept
  <1>5. Handovers'
    <2>1. /\ pc[t] \notin HandoverPCs /\ pc'[t] \notin HandoverPCs
          /\ pc[t] # "sleep" \/ sleepq[t] # "link"
          /\ target' = target
      BY <1>i, <1>p DEF LinkTypes, RestTypes, HandoverPCs, SetOwner
    <2>2. \A u \in Threads : pc[u] \in {"chain_clear", "wake"} => mtx_owner' = mtx_owner
      BY <1>i, <1>p DEF LinkTypes, RestTypes, Handovers, HandoverPCs, Modes,
         Owners, Targets, Releases, Present, InTransit, SetOwner
    <2>3. \A u \in Threads \ {t} : sleepq[u] = "link" => sleepq'[u] = "link"
      BY <1>i, <1>p DEF LinkTypes, SetOwner
    <2>4. mtx_lock'.exw => \/ mtx_link' # <<>>
                           \/ pc'[t] = "link"
                           \/ /\ mtx_lock.exw /\ mtx_link' = mtx_link
                              /\ pc[t] # "link"
      BY <1>i, <1>p DEF LinkTypes, RestTypes, SetOwner
    <2> QED
      BY <1>i, <1>a, <2>1, <2>2, <2>3, <2>4, HandoversKept
  <1>6. NoFailure'
    BY <1>i, <1>p DEF LinkTypes, NoFailure, SetOwner
  <1> QED
    BY <1>1, <1>2, <1>3, <1>4, <1>5, <1>6 DEF SInv

\* The owner takes the lock once more.
LEMMA RecurseHeld ==
    ASSUME TInv, TInv', SInv, Exact', NEW t \in Threads,
           LockExRecurse(t)
    PROVE  SInv'
  <1>i. /\ LinkTypes /\ OnList /\ Targets /\ ExlinkExclusive /\ RestTypes
        /\ Flags /\ Releases /\ Wanted /\ Waiters /\ CountSays
        /\ Exact /\ Modes /\ Owners /\ Callers /\ Sleepers /\ Handovers /\ NoFailure
        /\ RestTypes'
    BY TInvParts DEF SInv, TInv
  <1>a. Alone(t)
    BY <1>i DEF Alone, LockExRecurse, Owned
  <1>1. Modes'
    <2>1. /\ mtx_lock'.ex = mtx_lock.ex
          /\ mtx_lock.ex => (Present(t)' => Present(t)) /\ sh'[t] = 0
          /\ ~ mtx_lock.ex => /\ mtx_owner' = NULL /\ ex'[t] = 0
                              /\ InTransit(t)' => pc'[t] = "unlock"
      BY <1>i DEF LinkTypes, Words, RestTypes, Modes, Owners, Callers, Caller,
         Present, InTransit, LockExRecurse, Owned
    <2> QED
      BY <1>i, <1>a, <2>1, ModesKept
  <1>2. Owners'
    <2>1. /\ mtx_owner' = mtx_owner /\ pc'[t] # "owner"
          /\ \A u \in Threads : pc[u] = "owner" => mtx_lock'.cnt = 1 /\ mtx_lock'.ex
          /\ ex'[t] > 0 => mtx_owner = t
          /\ mtx_owner = t => Present(t)' \/ pc'[t] = "chain_owner"
      BY <1>i DEF LinkTypes, RestTypes, HeldTypes, Modes, Owners, Present,
         InTransit, LockExRecurse, Owned
    <2> QED
      BY <1>i, <1>a, <2>1, OwnersKept
  <1>3. Callers'
    <2>1. Caller(t)'
      BY <1>i DEF LinkTypes, RestTypes, Callers, Caller, Modes, Owners,
         LockExRecurse, Owned
    <2> QED
      BY <1>i, <1>a, <2>1, CallersKept
  <1>4. Sleepers'
    <2>1. /\ Sleeper(t)'
          /\ \A u \in Threads \ {t} : sleepq'[u] = sleepq[u] \/ sleepq[u] = "mtx"
          /\ \A u \in Threads \ {t} : mtx_owner = u /\ pc[u] \in {"sleep", "woken"}
                                        => mtx_owner' = u
      BY <1>i DEF LinkTypes, RestTypes, Sleepers, Sleeper, LockExRecurse, Owned
    <2> QED
      BY <1>i, <1>a, <2>1, SleepersKept
  <1>5. Handovers'
    <2>1. /\ pc[t] \notin HandoverPCs /\ pc'[t] \notin HandoverPCs
          /\ pc[t] # "sleep" \/ sleepq[t] # "link"
          /\ target' = target
      BY <1>i DEF LinkTypes, RestTypes, HandoverPCs, LockExRecurse, Owned
    <2>2. \A u \in Threads : pc[u] \in {"chain_clear", "wake"} => mtx_owner' = mtx_owner
      BY <1>i DEF LinkTypes, RestTypes, Handovers, HandoverPCs, Modes, Owners,
         Targets, Releases, Present, InTransit, LockExRecurse, Owned
    <2>3. \A u \in Threads \ {t} : sleepq[u] = "link" => sleepq'[u] = "link"
      BY <1>i DEF LinkTypes, LockExRecurse, Owned
    <2>4. mtx_lock'.exw => \/ mtx_link' # <<>>
                           \/ pc'[t] = "link"
                           \/ /\ mtx_lock.exw /\ mtx_link' = mtx_link
                              /\ pc[t] # "link"
      BY <1>i DEF LinkTypes, RestTypes, LockExRecurse, Owned
    <2> QED
      BY <1>i, <1>a, <2>1, <2>2, <2>3, <2>4, HandoversKept
  <1>6. NoFailure'
    BY <1>i DEF LinkTypes, NoFailure, LockExRecurse, Owned
  <1> QED
    BY <1>1, <1>2, <1>3, <1>4, <1>5, <1>6 DEF SInv

\* A shared request is granted.
LEMMA ShGrantHeld ==
    ASSUME TInv, TInv', SInv, Exact', NEW t \in Threads,
           LockShGrant(t)
    PROVE  SInv'
  <1>i. /\ LinkTypes /\ OnList /\ Targets /\ ExlinkExclusive /\ RestTypes
        /\ Flags /\ Releases /\ Wanted /\ Waiters /\ CountSays
        /\ Exact /\ Modes /\ Owners /\ Callers /\ Sleepers /\ Handovers /\ NoFailure
        /\ RestTypes'
    BY TInvParts DEF SInv, TInv
  <1>a. Alone(t)
    BY <1>i DEF Alone, LockShGrant
  <1>1. Modes'
    <2>1. /\ mtx_lock'.ex = mtx_lock.ex
          /\ mtx_lock.ex => (Present(t)' => Present(t)) /\ sh'[t] = 0
          /\ ~ mtx_lock.ex => /\ mtx_owner' = NULL /\ ex'[t] = 0
                              /\ InTransit(t)' => pc'[t] = "unlock"
      BY <1>i DEF LinkTypes, RestTypes, Modes, Owners, Callers, Caller,
         Present, InTransit, LockShGrant
    <2> QED
      BY <1>i, <1>a, <2>1, ModesKept
  <1>2. Owners'
    <2>1. /\ mtx_owner' = mtx_owner /\ pc'[t] # "owner"
          /\ \A u \in Threads : pc[u] = "owner" => mtx_lock'.cnt = 1 /\ mtx_lock'.ex
          /\ ex'[t] > 0 => mtx_owner = t
          /\ mtx_owner = t => Present(t)' \/ pc'[t] = "chain_owner"
      BY <1>i DEF LinkTypes, RestTypes, HeldTypes, Modes, Owners, Present,
         InTransit, LockShGrant
    <2> QED
      BY <1>i, <1>a, <2>1, OwnersKept
  <1>3. Callers'
    <2>1. Caller(t)'
      BY <1>i DEF LinkTypes, RestTypes, Callers, Caller, Modes, Owners,
         LockShGrant
    <2> QED
      BY <1>i, <1>a, <2>1, CallersKept
  <1>4. Sleepers'
    <2>1. /\ Sleeper(t)'
          /\ \A u \in Threads \ {t} : sleepq'[u] = sleepq[u] \/ sleepq[u] = "mtx"
          /\ \A u \in Threads \ {t} : mtx_owner = u /\ pc[u] \in {"sleep", "woken"}
                                        => mtx_owner' = u
      BY <1>i DEF LinkTypes, RestTypes, Sleepers, Sleeper, LockShGrant
    <2> QED
      BY <1>i, <1>a, <2>1, SleepersKept
  <1>5. Handovers'
    <2>1. /\ pc[t] \notin HandoverPCs /\ pc'[t] \notin HandoverPCs
          /\ pc[t] # "sleep" \/ sleepq[t] # "link"
          /\ target' = target
      BY <1>i DEF LinkTypes, RestTypes, HandoverPCs, LockShGrant
    <2>2. \A u \in Threads : pc[u] \in {"chain_clear", "wake"} => mtx_owner' = mtx_owner
      BY <1>i DEF LinkTypes, RestTypes, Handovers, HandoverPCs, Modes, Owners,
         Targets, Releases, Present, InTransit, LockShGrant
    <2>3. \A u \in Threads \ {t} : sleepq[u] = "link" => sleepq'[u] = "link"
      BY <1>i DEF LinkTypes, LockShGrant
    <2>4. mtx_lock'.exw => \/ mtx_link' # <<>>
                           \/ pc'[t] = "link"
                           \/ /\ mtx_lock.exw /\ mtx_link' = mtx_link
                              /\ pc[t] # "link"
      BY <1>i DEF LinkTypes, RestTypes, LockShGrant
    <2> QED
      BY <1>i, <1>a, <2>1, <2>2, <2>3, <2>4, HandoversKept
  <1>6. NoFailure'
    BY <1>i DEF LinkTypes, NoFailure, LockShGrant
  <1> QED
    BY <1>1, <1>2, <1>3, <1>4, <1>5, <1>6 DEF SInv

\* A release begins.
LEMMA UnlockHeld ==
    ASSUME TInv, TInv', SInv, Exact', NEW t \in Threads,
           \/ UnlockEx(t) \/ UnlockSh(t)
    PROVE  SInv'
  <1>i. /\ LinkTypes /\ OnList /\ Targets /\ ExlinkExclusive /\ RestTypes
        /\ Flags /\ Releases /\ Wanted /\ Waiters /\ CountSays
        /\ Exact /\ Modes /\ Owners /\ Callers /\ Sleepers /\ Handovers /\ NoFailure
        /\ RestTypes'
    BY TInvParts DEF SInv, TInv
  <1>a. Alone(t)
    BY <1>i DEF Alone, LinkTypes, RestTypes, HeldTypes, UnlockEx, UnlockSh
  <1>1. Modes'
    <2>1. /\ mtx_lock'.ex = mtx_lock.ex
          /\ mtx_lock.ex => (Present(t)' => Present(t)) /\ sh'[t] = 0
          /\ ~ mtx_lock.ex => /\ mtx_owner' = NULL /\ ex'[t] = 0
                              /\ InTransit(t)' => pc'[t] = "unlock"
      BY <1>i DEF LinkTypes, RestTypes, Modes, Owners, Callers, Caller,
         Present, InTransit, UnlockEx, UnlockSh
    <2> QED
      BY <1>i, <1>a, <2>1, ModesKept
  <1>2. Owners'
    <2>1. /\ mtx_owner' = mtx_owner /\ pc'[t] # "owner"
          /\ \A u \in Threads : pc[u] = "owner" => mtx_lock'.cnt = 1 /\ mtx_lock'.ex
          /\ ex'[t] > 0 => mtx_owner = t
          /\ mtx_owner = t => Present(t)' \/ pc'[t] = "chain_owner"
      BY <1>i DEF LinkTypes, RestTypes, Modes, Owners, Present, InTransit,
         UnlockEx, UnlockSh
    <2> QED
      BY <1>i, <1>a, <2>1, OwnersKept
  <1>3. Callers'
    <2>1. Caller(t)'
      BY <1>i DEF LinkTypes, RestTypes, Callers, Caller, Modes, Owners,
         UnlockEx, UnlockSh
    <2> QED
      BY <1>i, <1>a, <2>1, CallersKept
  <1>4. Sleepers'
    <2>1. /\ Sleeper(t)'
          /\ \A u \in Threads \ {t} : sleepq'[u] = sleepq[u] \/ sleepq[u] = "mtx"
          /\ \A u \in Threads \ {t} : mtx_owner = u /\ pc[u] \in {"sleep", "woken"}
                                        => mtx_owner' = u
      BY <1>i DEF LinkTypes, RestTypes, Sleepers, Sleeper, UnlockEx, UnlockSh
    <2> QED
      BY <1>i, <1>a, <2>1, SleepersKept
  <1>5. Handovers'
    <2>1. /\ pc[t] \notin HandoverPCs /\ pc'[t] \notin HandoverPCs
          /\ pc[t] # "sleep" \/ sleepq[t] # "link"
          /\ target' = target
      BY <1>i DEF LinkTypes, RestTypes, HandoverPCs, UnlockEx, UnlockSh
    <2>2. \A u \in Threads : pc[u] \in {"chain_clear", "wake"} => mtx_owner' = mtx_owner
      BY <1>i DEF LinkTypes, RestTypes, Handovers, HandoverPCs, Modes, Owners,
         Targets, Releases, Present, InTransit, UnlockEx, UnlockSh
    <2>3. \A u \in Threads \ {t} : sleepq[u] = "link" => sleepq'[u] = "link"
      BY <1>i DEF LinkTypes, UnlockEx, UnlockSh
    <2>4. mtx_lock'.exw => \/ mtx_link' # <<>>
                           \/ pc'[t] = "link"
                           \/ /\ mtx_lock.exw /\ mtx_link' = mtx_link
                              /\ pc[t] # "link"
      BY <1>i DEF LinkTypes, RestTypes, UnlockEx, UnlockSh
    <2> QED
      BY <1>i, <1>a, <2>1, <2>2, <2>3, <2>4, HandoversKept
  <1>6. NoFailure'
    BY <1>i DEF LinkTypes, NoFailure, UnlockEx, UnlockSh
  <1> QED
    BY <1>1, <1>2, <1>3, <1>4, <1>5, <1>6 DEF SInv

\* The last release of a shared lock.
LEMMA DropShHeld ==
    ASSUME TInv, TInv', SInv, Exact', NEW t \in Threads,
           ReleaseSh(t)
    PROVE  SInv'
  <1>i. /\ LinkTypes /\ OnList /\ Targets /\ ExlinkExclusive /\ RestTypes
        /\ Flags /\ Releases /\ Wanted /\ Waiters /\ CountSays
        /\ Exact /\ Modes /\ Owners /\ Callers /\ Sleepers /\ Handovers /\ NoFailure
        /\ RestTypes'
    BY TInvParts DEF SInv, TInv
  <1>a. Alone(t)
    BY <1>i DEF Alone, ReleaseSh, Unlocked
  <1>1. Modes'
    <2>1. /\ mtx_lock'.ex = mtx_lock.ex
          /\ mtx_lock.ex => (Present(t)' => Present(t)) /\ sh'[t] = 0
          /\ ~ mtx_lock.ex => /\ mtx_owner' = NULL /\ ex'[t] = 0
                              /\ InTransit(t)' => pc'[t] = "unlock"
      BY <1>i DEF LinkTypes, Words, RestTypes, Modes, Owners, Callers, Caller,
         Present, InTransit, ReleaseSh, Unlocked
    <2> QED
      BY <1>i, <1>a, <2>1, ModesKept
  <1>2. Owners'
    BY <1>i, ConstantsAssumption DEF LinkTypes, RestTypes, CountSays, Present,
       InTransit, Modes, Owners, Releases, Sleepers, Sleeper, Handovers,
       HandoverPCs, Alone, ReleaseSh, Unlocked
  <1>3. Callers'
    <2>1. Caller(t)'
      BY <1>i DEF LinkTypes, RestTypes, Callers, Caller, Modes, Owners,
         ReleaseSh, Unlocked
    <2> QED
      BY <1>i, <1>a, <2>1, CallersKept
  <1>4. Sleepers'
    <2>1. /\ Sleeper(t)'
          /\ \A u \in Threads \ {t} : sleepq'[u] = sleepq[u] \/ sleepq[u] = "mtx"
          /\ \A u \in Threads \ {t} : mtx_owner = u /\ pc[u] \in {"sleep", "woken"}
                                        => mtx_owner' = u
      BY <1>i DEF LinkTypes, RestTypes, Sleepers, Sleeper, ReleaseSh, Unlocked
    <2> QED
      BY <1>i, <1>a, <2>1, SleepersKept
  <1>5. Handovers'
    <2>1. /\ pc[t] \notin HandoverPCs /\ pc'[t] \notin HandoverPCs
          /\ pc[t] # "sleep" \/ sleepq[t] # "link"
          /\ target' = target
      BY <1>i DEF LinkTypes, RestTypes, HandoverPCs, ReleaseSh, Unlocked
    <2>2. \A u \in Threads : pc[u] \in {"chain_clear", "wake"} => mtx_owner' = mtx_owner
      BY <1>i DEF LinkTypes, RestTypes, Handovers, HandoverPCs, Modes, Owners,
         Targets, Releases, Present, InTransit, ReleaseSh, Unlocked
    <2>3. \A u \in Threads \ {t} : sleepq[u] = "link" => sleepq'[u] = "link"
      BY <1>i DEF LinkTypes, ReleaseSh, Unlocked
    <2>4. mtx_lock'.exw => \/ mtx_link' # <<>>
                           \/ pc'[t] = "link"
                           \/ /\ mtx_lock.exw /\ mtx_link' = mtx_link
                              /\ pc[t] # "link"
      BY <1>i DEF LinkTypes, RestTypes, ReleaseSh, Unlocked
    <2> QED
      BY <1>i, <1>a, <2>1, <2>2, <2>3, <2>4, HandoversKept
  <1>6. NoFailure'
    BY <1>i DEF LinkTypes, NoFailure, ReleaseSh, Unlocked
  <1> QED
    BY <1>1, <1>2, <1>3, <1>4, <1>5, <1>6 DEF SInv

\* The last release of an exclusive lock begins.
LEMMA ClearOwnerHeld ==
    ASSUME TInv, TInv', SInv, Exact', NEW t \in Threads,
           ClearOwner(t)
    PROVE  SInv'
  <1>i. /\ LinkTypes /\ OnList /\ Targets /\ ExlinkExclusive /\ RestTypes
        /\ Flags /\ Releases /\ Wanted /\ Waiters /\ CountSays
        /\ Exact /\ Modes /\ Owners /\ Callers /\ Sleepers /\ Handovers /\ NoFailure
        /\ RestTypes'
    BY TInvParts DEF SInv, TInv
  <1>p. /\ ex[t] = 0 /\ sh[t] = 0 /\ InTransit(t) /\ Present(t)
        /\ \A u \in Threads \ {t} : ~ Present(u) /\ ex[u] = 0 /\ sh[u] = 0
    <2>1. mtx_lock.cnt = 1 /\ InTransit(t)
      BY <1>i DEF InTransit, ClearOwner
    <2> QED
      BY <1>i, <2>1 DEF RestTypes, HeldTypes, CountSays, Present
  <1>a. Alone(t)
    BY <1>i DEF Alone, ClearOwner
  <1>1. Modes'
    <2>1. /\ mtx_lock'.ex = mtx_lock.ex
          /\ mtx_lock.ex => (Present(t)' => Present(t)) /\ sh'[t] = 0
          /\ ~ mtx_lock.ex => /\ mtx_owner' = NULL /\ ex'[t] = 0
                              /\ InTransit(t)' => pc'[t] = "unlock"
      BY <1>i, <1>p DEF LinkTypes, RestTypes, Modes, Owners, Callers, Caller,
         Present, InTransit, ClearOwner
    <2> QED
      BY <1>i, <1>a, <2>1, ModesKept
  <1>2. Owners'
    BY <1>i, <1>p, ConstantsAssumption DEF LinkTypes, RestTypes, CountSays,
       Present, InTransit, Modes, Owners, Releases, Sleepers, Sleeper,
       Handovers, HandoverPCs, Alone, ClearOwner
  <1>3. Callers'
    <2>1. Caller(t)'
      BY <1>i, <1>p DEF LinkTypes, RestTypes, Callers, Caller, Modes, Owners,
         ClearOwner
    <2> QED
      BY <1>i, <1>a, <2>1, CallersKept
  <1>4. Sleepers'
    <2>1. /\ Sleeper(t)'
          /\ \A u \in Threads \ {t} : sleepq'[u] = sleepq[u] \/ sleepq[u] = "mtx"
          /\ \A u \in Threads \ {t} : mtx_owner = u /\ pc[u] \in {"sleep", "woken"}
                                        => mtx_owner' = u
      BY <1>i, <1>p DEF LinkTypes, RestTypes, Sleepers, Sleeper, ClearOwner,
         Owners
    <2> QED
      BY <1>i, <1>a, <2>1, SleepersKept
  <1>5. Handovers'
    <2>1. /\ pc[t] \notin HandoverPCs /\ pc'[t] \notin HandoverPCs
          /\ pc[t] # "sleep" \/ sleepq[t] # "link"
          /\ target' = target
      BY <1>i, <1>p DEF LinkTypes, RestTypes, HandoverPCs, ClearOwner
    <2>2. \A u \in Threads : pc[u] \in {"chain_clear", "wake"} => mtx_owner' = mtx_owner
      BY <1>i, <1>p DEF LinkTypes, RestTypes, Handovers, HandoverPCs, Modes,
         Owners, Targets, Releases, Present, InTransit, ClearOwner
    <2>3. \A u \in Threads \ {t} : sleepq[u] = "link" => sleepq'[u] = "link"
      BY <1>i, <1>p DEF LinkTypes, ClearOwner
    <2>4. mtx_lock'.exw => \/ mtx_link' # <<>>
                           \/ pc'[t] = "link"
                           \/ /\ mtx_lock.exw /\ mtx_link' = mtx_link
                              /\ pc[t] # "link"
      BY <1>i, <1>p DEF LinkTypes, RestTypes, ClearOwner
    <2> QED
      BY <1>i, <1>a, <2>1, <2>2, <2>3, <2>4, HandoversKept
  <1>6. NoFailure'
    BY <1>i, <1>p DEF LinkTypes, NoFailure, ClearOwner
  <1> QED
    BY <1>1, <1>2, <1>3, <1>4, <1>5, <1>6 DEF SInv

\* It starts again.
LEMMA RaceHeld ==
    ASSUME TInv, TInv', SInv, Exact', NEW t \in Threads,
           ReleaseExRace(t)
    PROVE  SInv'
  <1>i. /\ LinkTypes /\ OnList /\ Targets /\ ExlinkExclusive /\ RestTypes
        /\ Flags /\ Releases /\ Wanted /\ Waiters /\ CountSays
        /\ Exact /\ Modes /\ Owners /\ Callers /\ Sleepers /\ Handovers /\ NoFailure
        /\ RestTypes'
    BY TInvParts DEF SInv, TInv
  <1>a. Alone(t)
    BY <1>i DEF Alone, ReleaseExRace
  <1>1. Modes'
    <2>1. /\ mtx_lock'.ex = mtx_lock.ex
          /\ mtx_lock.ex => (Present(t)' => Present(t)) /\ sh'[t] = 0
          /\ ~ mtx_lock.ex => /\ mtx_owner' = NULL /\ ex'[t] = 0
                              /\ InTransit(t)' => pc'[t] = "unlock"
      BY <1>i DEF LinkTypes, RestTypes, Modes, Owners, Callers, Caller,
         Present, InTransit, ReleaseExRace
    <2> QED
      BY <1>i, <1>a, <2>1, ModesKept
  <1>2. Owners'
    <2>1. /\ mtx_owner' = mtx_owner /\ pc'[t] # "owner"
          /\ \A u \in Threads : pc[u] = "owner" => mtx_lock'.cnt = 1 /\ mtx_lock'.ex
          /\ ex'[t] > 0 => mtx_owner = t
          /\ mtx_owner = t => Present(t)' \/ pc'[t] = "chain_owner"
      BY <1>i DEF LinkTypes, RestTypes, Modes, Owners, Present, InTransit,
         ReleaseExRace
    <2> QED
      BY <1>i, <1>a, <2>1, OwnersKept
  <1>3. Callers'
    <2>1. Caller(t)'
      BY <1>i DEF LinkTypes, RestTypes, Callers, Caller, Modes, Owners,
         ReleaseExRace
    <2> QED
      BY <1>i, <1>a, <2>1, CallersKept
  <1>4. Sleepers'
    <2>1. /\ Sleeper(t)'
          /\ \A u \in Threads \ {t} : sleepq'[u] = sleepq[u] \/ sleepq[u] = "mtx"
          /\ \A u \in Threads \ {t} : mtx_owner = u /\ pc[u] \in {"sleep", "woken"}
                                        => mtx_owner' = u
      BY <1>i DEF LinkTypes, RestTypes, Sleepers, Sleeper, ReleaseExRace
    <2> QED
      BY <1>i, <1>a, <2>1, SleepersKept
  <1>5. Handovers'
    <2>1. /\ pc[t] \notin HandoverPCs /\ pc'[t] \notin HandoverPCs
          /\ pc[t] # "sleep" \/ sleepq[t] # "link"
          /\ target' = target
      BY <1>i DEF LinkTypes, RestTypes, HandoverPCs, ReleaseExRace
    <2>2. \A u \in Threads : pc[u] \in {"chain_clear", "wake"} => mtx_owner' = mtx_owner
      BY <1>i DEF LinkTypes, RestTypes, Handovers, HandoverPCs, Modes, Owners,
         Targets, Releases, Present, InTransit, ReleaseExRace
    <2>3. \A u \in Threads \ {t} : sleepq[u] = "link" => sleepq'[u] = "link"
      BY <1>i DEF LinkTypes, ReleaseExRace
    <2>4. mtx_lock'.exw => \/ mtx_link' # <<>>
                           \/ pc'[t] = "link"
                           \/ /\ mtx_lock.exw /\ mtx_link' = mtx_link
                              /\ pc[t] # "link"
      BY <1>i DEF LinkTypes, RestTypes, ReleaseExRace
    <2> QED
      BY <1>i, <1>a, <2>1, <2>2, <2>3, <2>4, HandoversKept
  <1>6. NoFailure'
    BY <1>i DEF LinkTypes, NoFailure, ReleaseExRace
  <1> QED
    BY <1>1, <1>2, <1>3, <1>4, <1>5, <1>6 DEF SInv

\* The last release of an exclusive lock.
LEMMA DropExHeld ==
    ASSUME TInv, TInv', SInv, Exact', NEW t \in Threads,
           ReleaseEx(t)
    PROVE  SInv'
  <1>i. /\ LinkTypes /\ OnList /\ Targets /\ ExlinkExclusive /\ RestTypes
        /\ Flags /\ Releases /\ Wanted /\ Waiters /\ CountSays
        /\ Exact /\ Modes /\ Owners /\ Callers /\ Sleepers /\ Handovers /\ NoFailure
        /\ RestTypes'
    BY TInvParts DEF SInv, TInv
  <1>p. /\ ex[t] = 0 /\ sh[t] = 0 /\ InTransit(t) /\ Present(t)
        /\ \A u \in Threads \ {t} : ~ Present(u) /\ ex[u] = 0 /\ sh[u] = 0
    <2>1. mtx_lock.cnt = 1 /\ InTransit(t)
      BY <1>i DEF InTransit, Releases, ReleaseEx
    <2> QED
      BY <1>i, <2>1 DEF RestTypes, HeldTypes, CountSays, Present
  <1>a. Alone(t)
    BY <1>i DEF Alone, ReleaseEx, Unlocked
  <1>1. Modes'
    BY <1>i, <1>p, <1>a, ModesFree DEF LinkTypes, RestTypes, Releases,
       InTransit, ReleaseEx, Unlocked
  <1>2. Owners'
    BY <1>i, <1>p, ConstantsAssumption DEF LinkTypes, RestTypes, CountSays,
       Present, InTransit, Modes, Owners, Releases, Sleepers, Sleeper,
       Handovers, HandoverPCs, Alone, ReleaseEx, Unlocked
  <1>3. Callers'
    <2>1. Caller(t)'
      BY <1>i, <1>p DEF LinkTypes, RestTypes, Callers, Caller, Modes, Owners,
         ReleaseEx, Unlocked
    <2> QED
      BY <1>i, <1>a, <2>1, CallersKept
  <1>4. Sleepers'
    <2>1. /\ Sleeper(t)'
          /\ \A u \in Threads \ {t} : sleepq'[u] = sleepq[u] \/ sleepq[u] = "mtx"
          /\ \A u \in Threads \ {t} : mtx_owner = u /\ pc[u] \in {"sleep", "woken"}
                                        => mtx_owner' = u
      BY <1>i, <1>p DEF LinkTypes, RestTypes, Sleepers, Sleeper, ReleaseEx,
         Unlocked
    <2> QED
      BY <1>i, <1>a, <2>1, SleepersKept
  <1>5. Handovers'
    <2>1. /\ pc[t] \notin HandoverPCs /\ pc'[t] \notin HandoverPCs
          /\ pc[t] # "sleep" \/ sleepq[t] # "link"
          /\ target' = target
      BY <1>i, <1>p DEF LinkTypes, RestTypes, HandoverPCs, ReleaseEx, Unlocked
    <2>2. \A u \in Threads : pc[u] \in {"chain_clear", "wake"} => mtx_owner' = mtx_owner
      BY <1>i, <1>p DEF LinkTypes, RestTypes, Handovers, HandoverPCs, Modes,
         Owners, Targets, Releases, Present, InTransit, ReleaseEx, Unlocked
    <2>3. \A u \in Threads \ {t} : sleepq[u] = "link" => sleepq'[u] = "link"
      BY <1>i, <1>p DEF LinkTypes, ReleaseEx, Unlocked
    <2>4. mtx_lock'.exw => \/ mtx_link' # <<>>
                           \/ pc'[t] = "link"
                           \/ /\ mtx_lock.exw /\ mtx_link' = mtx_link
                              /\ pc[t] # "link"
      BY <1>i, <1>p DEF LinkTypes, RestTypes, ReleaseEx, Unlocked
    <2> QED
      BY <1>i, <1>a, <2>1, <2>2, <2>3, <2>4, HandoversKept
  <1>6. NoFailure'
    BY <1>i, <1>p DEF LinkTypes, NoFailure, ReleaseEx, Unlocked
  <1> QED
    BY <1>1, <1>2, <1>3, <1>4, <1>5, <1>6 DEF SInv

\* A release with waiters keeps the lock.
LEMMA ChainHeld ==
    ASSUME TInv, TInv', SInv, Exact', NEW t \in Threads,
           ReleaseChain(t)
    PROVE  SInv'
  <1>i. /\ LinkTypes /\ OnList /\ Targets /\ ExlinkExclusive /\ RestTypes
        /\ Flags /\ Releases /\ Wanted /\ Waiters /\ CountSays
        /\ Exact /\ Modes /\ Owners /\ Callers /\ Sleepers /\ Handovers /\ NoFailure
        /\ RestTypes'
    BY TInvParts DEF SInv, TInv
  <1>p. /\ ex[t] = 0 /\ sh[t] = 0 /\ InTransit(t) /\ Present(t)
        /\ \A u \in Threads \ {t} : ~ Present(u) /\ ex[u] = 0 /\ sh[u] = 0
    <2>1. mtx_lock.cnt = 1 /\ InTransit(t)
      BY <1>i DEF InTransit, ReleaseChain
    <2> QED
      BY <1>i, <2>1 DEF RestTypes, HeldTypes, CountSays, Present
  <1>a. Alone(t)
    BY <1>i DEF Alone, ReleaseChain
  <1>1. Modes'
    BY <1>i, <1>p, <1>a, ModesExclusive DEF LinkTypes, RestTypes, Releases,
       ReleaseChain
  <1>2. Owners'
    <2>1. /\ mtx_owner' = mtx_owner /\ pc'[t] # "owner"
          /\ \A u \in Threads : pc[u] = "owner" => mtx_lock'.cnt = 1 /\ mtx_lock'.ex
          /\ ex'[t] > 0 => mtx_owner = t
          /\ mtx_owner = t => Present(t)' \/ pc'[t] = "chain_owner"
      BY <1>i, <1>p DEF LinkTypes, RestTypes, Modes, Owners, Present,
         InTransit, ReleaseChain
    <2> QED
      BY <1>i, <1>a, <2>1, OwnersKept
  <1>3. Callers'
    <2>1. Caller(t)'
      BY <1>i, <1>p DEF LinkTypes, RestTypes, Callers, Caller, Modes, Owners,
         ReleaseChain
    <2> QED
      BY <1>i, <1>a, <2>1, CallersKept
  <1>4. Sleepers'
    <2>1. /\ Sleeper(t)'
          /\ \A u \in Threads \ {t} : sleepq'[u] = sleepq[u] \/ sleepq[u] = "mtx"
          /\ \A u \in Threads \ {t} : mtx_owner = u /\ pc[u] \in {"sleep", "woken"}
                                        => mtx_owner' = u
      BY <1>i, <1>p DEF LinkTypes, RestTypes, Sleepers, Sleeper, ReleaseChain
    <2> QED
      BY <1>i, <1>a, <2>1, SleepersKept
  <1>5. Handovers'
    <2>1. /\ pc[t] \notin HandoverPCs /\ pc'[t] \notin HandoverPCs
          /\ pc[t] # "sleep" \/ sleepq[t] # "link"
          /\ target' = target
      BY <1>i, <1>p DEF LinkTypes, RestTypes, HandoverPCs, ReleaseChain
    <2>2. \A u \in Threads : pc[u] \in {"chain_clear", "wake"} => mtx_owner' = mtx_owner
      BY <1>i, <1>p DEF LinkTypes, RestTypes, Handovers, HandoverPCs, Modes,
         Owners, Targets, Releases, Present, InTransit, ReleaseChain
    <2>3. \A u \in Threads \ {t} : sleepq[u] = "link" => sleepq'[u] = "link"
      BY <1>i, <1>p DEF LinkTypes, ReleaseChain
    <2>4. mtx_lock'.exw => \/ mtx_link' # <<>>
                           \/ pc'[t] = "link"
                           \/ /\ mtx_lock.exw /\ mtx_link' = mtx_link
                              /\ pc[t] # "link"
      BY <1>i, <1>p DEF LinkTypes, RestTypes, ReleaseChain
    <2> QED
      BY <1>i, <1>a, <2>1, <2>2, <2>3, <2>4, HandoversKept
  <1>6. NoFailure'
    BY <1>i, <1>p DEF LinkTypes, NoFailure, ReleaseChain
  <1> QED
    BY <1>1, <1>2, <1>3, <1>4, <1>5, <1>6 DEF SInv

\* A release that is not the last one.
LEMMA CountHeld ==
    ASSUME TInv, TInv', SInv, Exact', NEW t \in Threads,
           ReleaseCount(t)
    PROVE  SInv'
  <1>i. /\ LinkTypes /\ OnList /\ Targets /\ ExlinkExclusive /\ RestTypes
        /\ Flags /\ Releases /\ Wanted /\ Waiters /\ CountSays
        /\ Exact /\ Modes /\ Owners /\ Callers /\ Sleepers /\ Handovers /\ NoFailure
        /\ RestTypes'
    BY TInvParts DEF SInv, TInv
  <1>p. mtx_owner = t => ex[t] + sh[t] > 0
    <2> SUFFICES ASSUME mtx_owner = t PROVE ex[t] + sh[t] > 0
      OBVIOUS
    <2>1. mtx_lock.ex /\ mtx_lock.cnt # 1 /\ InTransit(t) /\ CountedLess
      BY <1>i, TInvParts, ConstantsAssumption DEF Modes, InTransit, ReleaseCount
    <2>2. \A u \in Threads : Present(u) => u = t
      BY <1>i, <2>1 DEF Modes, Present
    <2> QED
      BY <1>i, <2>1, <2>2, MoreThanOne DEF RestTypes
  <1>a. Alone(t)
    BY <1>i DEF Alone, ReleaseCount, Kkassert
  <1>1. Modes'
    <2>1. /\ mtx_lock'.ex = mtx_lock.ex
          /\ mtx_lock.ex => (Present(t)' => Present(t)) /\ sh'[t] = 0
          /\ ~ mtx_lock.ex => /\ mtx_owner' = NULL /\ ex'[t] = 0
                              /\ InTransit(t)' => pc'[t] = "unlock"
      BY <1>i, <1>p DEF LinkTypes, RestTypes, Modes, Owners, Callers, Caller,
         Present, InTransit, ReleaseCount, Kkassert
    <2> QED
      BY <1>i, <1>a, <2>1, ModesKept
  <1>2. Owners'
    <2>1. /\ mtx_owner' = mtx_owner /\ pc'[t] # "owner"
          /\ \A u \in Threads : pc[u] = "owner" => mtx_lock'.cnt = 1 /\ mtx_lock'.ex
          /\ ex'[t] > 0 => mtx_owner = t
          /\ mtx_owner = t => Present(t)' \/ pc'[t] = "chain_owner"
      BY <1>i, <1>p DEF LinkTypes, RestTypes, Modes, Owners, Present,
         InTransit, ReleaseCount, Kkassert
    <2> QED
      BY <1>i, <1>a, <2>1, OwnersKept
  <1>3. Callers'
    <2>1. Caller(t)'
      BY <1>i, <1>p DEF LinkTypes, RestTypes, Callers, Caller, Modes, Owners,
         ReleaseCount, Kkassert
    <2> QED
      BY <1>i, <1>a, <2>1, CallersKept
  <1>4. Sleepers'
    <2>1. /\ Sleeper(t)'
          /\ \A u \in Threads \ {t} : sleepq'[u] = sleepq[u] \/ sleepq[u] = "mtx"
          /\ \A u \in Threads \ {t} : mtx_owner = u /\ pc[u] \in {"sleep", "woken"}
                                        => mtx_owner' = u
      BY <1>i, <1>p DEF LinkTypes, RestTypes, Sleepers, Sleeper, ReleaseCount,
         Kkassert
    <2> QED
      BY <1>i, <1>a, <2>1, SleepersKept
  <1>5. Handovers'
    <2>1. /\ pc[t] \notin HandoverPCs /\ pc'[t] \notin HandoverPCs
          /\ pc[t] # "sleep" \/ sleepq[t] # "link"
          /\ target' = target
      BY <1>i, <1>p DEF LinkTypes, RestTypes, HandoverPCs, ReleaseCount,
         Kkassert
    <2>2. \A u \in Threads : pc[u] \in {"chain_clear", "wake"} => mtx_owner' = mtx_owner
      BY <1>i, <1>p DEF LinkTypes, RestTypes, Handovers, HandoverPCs, Modes,
         Owners, Targets, Releases, Present, InTransit, ReleaseCount, Kkassert
    <2>3. \A u \in Threads \ {t} : sleepq[u] = "link" => sleepq'[u] = "link"
      BY <1>i, <1>p DEF LinkTypes, ReleaseCount, Kkassert
    <2>4. mtx_lock'.exw => \/ mtx_link' # <<>>
                           \/ pc'[t] = "link"
                           \/ /\ mtx_lock.exw /\ mtx_link' = mtx_link
                              /\ pc[t] # "link"
      BY <1>i, <1>p DEF LinkTypes, RestTypes, ReleaseCount, Kkassert
    <2> QED
      BY <1>i, <1>a, <2>1, <2>2, <2>3, <2>4, HandoversKept
  <1>6. NoFailure'
    BY <1>i, <1>p DEF LinkTypes, RestTypes, NoFailure, ReleaseCount, Kkassert
  <1> QED
    BY <1>1, <1>2, <1>3, <1>4, <1>5, <1>6 DEF SInv

\* A release hands the lock over to the head of the list.
LEMMA ChainLinkHeld ==
    ASSUME TInv, TInv', SInv, Exact', NEW t \in Threads,
           ChainLink(t)
    PROVE  SInv'
  <1>i. /\ LinkTypes /\ OnList /\ Targets /\ ExlinkExclusive /\ RestTypes
        /\ Flags /\ Releases /\ Wanted /\ Waiters /\ CountSays
        /\ Exact /\ Modes /\ Owners /\ Callers /\ Sleepers /\ Handovers /\ NoFailure
        /\ RestTypes'
    BY TInvParts DEF SInv, TInv
  <1>h. PICK h : h = Head(mtx_link)
    OBVIOUS
  <1>l. mtx_link # <<>> /\ pc[t] = "chain"
    BY DEF ChainLink
  <1>b. h \in Threads /\ pc[h] \in Linked /\ state[h] = "LINKED"
    <2>1. h \in ToSet(mtx_link)
      BY <1>i, <1>h, <1>l, TailList DEF LinkTypes, OnList
    <2> QED
      BY <1>i, <2>1 DEF OnList
  <1>k. pc[h] = "sleep" /\ h # t
    BY <1>i, <1>b, <1>l DEF Linked, ExlinkExclusive, ExlinkHolders, Inside,
                            NoFailure, Sleepers, Sleeper
  <1>s. sleepq[h] = "link" /\ ex[h] = 0 /\ sh[h] = 0
    BY <1>i, <1>b, <1>k DEF Sleepers, Sleeper, Callers, Caller
  <1>m. /\ mtx_lock.ex /\ InTransit(t) /\ Present(t)
        /\ \A u \in Threads \ {t} : ~ Present(u)
        /\ \A u \in Threads : sh[u] = 0
    <2>1. mtx_lock.ex /\ InTransit(t) /\ Present(t)
      BY <1>i, <1>l DEF Wanted, InTransit, Present
    <2> QED
      BY <1>i, <2>1 DEF Modes
  <1>x. \A u \in Threads : ex[u] = 0 /\ pc[u] \notin HandoverPCs /\ pc[u] # "owner"
    <2>1. \A u \in Threads \ {t} : ex[u] = 0 /\ ~ InTransit(u)
      BY <1>i, <1>m DEF Present, RestTypes, HeldTypes
    <2>2. ex[t] = 0
      BY <1>i, <1>l DEF Callers, Caller
    <2>3. ASSUME NEW u \in Threads, pc[u] \in HandoverPCs PROVE FALSE
      <3>1. target[u] \in Threads /\ InTransit(target[u]) /\ target[u] # t
        BY <1>i, <1>l, <2>3 DEF Targets, Handovers, HandoverPCs, InTransit
      <3> QED
        BY <2>1, <3>1
    <2> QED
      BY <1>l, <2>1, <2>2, <2>3 DEF InTransit
  <1>p. /\ pc' = [pc EXCEPT ![t] = "chain_owner"] /\ target' = [target EXCEPT ![t] = h]
        /\ state' = [state EXCEPT ![h] = "ACQUIRED"]
        /\ UNCHANGED <<mtx_lock, mtx_owner, sleepq, ex, sh>>
    BY <1>i, <1>b, <1>h DEF ChainLink, Kkassert
  <1>q. /\ \A u \in Threads \ {t} : pc'[u] = pc[u]
        /\ \A u \in Threads \ {t, h} : ~ Present(u)'
        /\ Present(h)' /\ ~ Present(t)' /\ pc'[t] = "chain_owner"
        /\ target'[t] = h /\ state'[h] = "ACQUIRED"
    <2>1. /\ pc'[h] = "sleep" /\ state'[h] = "ACQUIRED" /\ target'[t] = h
          /\ pc'[t] = "chain_owner"
          /\ \A u \in Threads \ {t} : pc'[u] = pc[u]
          /\ \A u \in Threads \ {h} : state'[u] = state[u]
      BY <1>i, <1>b, <1>k, <1>p DEF LinkTypes
    <2>2. \A u \in Threads \ {t, h} : ~ Present(u)'
      BY <1>m, <1>p, <2>1 DEF Present, InTransit
    <2>3. Present(h)' /\ ~ Present(t)'
      BY <1>m, <1>x, <1>p, <2>1 DEF Present, InTransit
    <2> QED
      BY <2>1, <2>2, <2>3
  <1>1. Modes'
    BY <1>b, <1>m, <1>p, <1>q DEF Modes
  <1>2. Owners'
    <2>1. \A u \in Threads : mtx_owner = u => u = t
      BY <1>i, <1>m, <1>x DEF Owners, HandoverPCs
    <2> QED
      BY <1>x, <1>p, <1>q, <2>1 DEF Owners
  <1>3. Callers'
    BY <1>i, <1>p, <1>q DEF Callers, Caller
  <1>4. Sleepers'
    <2>1. \A u \in Threads \ {h} : state'[u] = state[u]
      BY <1>i, <1>p
    <2> QED
      BY <1>i, <1>b, <1>k, <1>s, <1>p, <1>q, <2>1 DEF Sleepers, Sleeper
  <1>5. Handovers'
    <2>1. \A u \in Threads : pc'[u] \in HandoverPCs => u = t
      BY <1>x, <1>q
    <2>2. pc'[h] = "sleep" /\ sleepq'[h] = "link"
      BY <1>b, <1>k, <1>s, <1>p, <1>q
    <2> QED
      BY <1>q, <2>1, <2>2 DEF Handovers, HandoverPCs
  <1>6. NoFailure'
    BY <1>i, <1>q DEF NoFailure
  <1> QED
    BY <1>1, <1>2, <1>3, <1>4, <1>5, <1>6 DEF SInv

\* It records the new owner.
LEMMA ChainOwnerHeld ==
    ASSUME TInv, TInv', SInv, Exact', NEW t \in Threads,
           ChainOwner(t)
    PROVE  SInv'
  <1>i. /\ LinkTypes /\ OnList /\ Targets /\ ExlinkExclusive /\ RestTypes
        /\ Flags /\ Releases /\ Wanted /\ Waiters /\ CountSays
        /\ Exact /\ Modes /\ Owners /\ Callers /\ Sleepers /\ Handovers /\ NoFailure
        /\ RestTypes'
    BY TInvParts DEF SInv, TInv
  <1>p. /\ target[t] \in Threads /\ target[t] # t /\ mtx_lock.ex
        /\ Present(target[t]) /\ ex[target[t]] = 0
        /\ \A u \in Threads \ {target[t]} : ~ Present(u) /\ ex[u] = 0 /\ pc[u] # "owner"
    <2>1. /\ target[t] \in Threads /\ pc[target[t]] = "sleep" /\ InTransit(target[t])
          /\ pc[t] = "chain_owner"
      BY <1>i DEF Targets, Handovers, HandoverPCs, InTransit, ChainOwner
    <2>2. mtx_lock.ex /\ Present(target[t]) /\ ex[target[t]] = 0
      BY <1>i, <2>1 DEF Modes, Present, Callers, Caller
    <2>3. \A u \in Threads \ {target[t]} : ~ Present(u)
      BY <1>i, <2>1, <2>2 DEF Modes
    <2> QED
      BY <1>i, <2>1, <2>2, <2>3 DEF RestTypes, HeldTypes, Present, InTransit
  <1>a. Alone(t)
    BY <1>i DEF Alone, ChainOwner
  <1>1. Modes'
    <2>1. /\ mtx_lock'.ex = mtx_lock.ex
          /\ mtx_lock.ex => (Present(t)' => Present(t)) /\ sh'[t] = 0
          /\ ~ mtx_lock.ex => /\ mtx_owner' = NULL /\ ex'[t] = 0
                              /\ InTransit(t)' => pc'[t] = "unlock"
      BY <1>i, <1>p DEF LinkTypes, RestTypes, Modes, Owners, Callers, Caller,
         Present, InTransit, ChainOwner
    <2> QED
      BY <1>i, <1>a, <2>1, ModesKept
  <1>2. Owners'
    <2>v. PICK v \in Threads : v = target[t]
      BY <1>p
    <2>1. /\ mtx_owner' = v /\ Present(v)'
          /\ \A u \in Threads : ex'[u] = 0 /\ pc'[u] # "owner"
      <3>1. Present(v)' /\ mtx_owner' = v
        BY <1>p, <1>a, <2>v, OthersPresent DEF ChainOwner
      <3>2. \A u \in Threads : ex'[u] = 0 /\ pc'[u] # "owner"
        BY <1>i, <1>p DEF Handovers, HandoverPCs, ChainOwner
      <3> QED
        BY <3>1, <3>2
    <2> QED
      BY <2>1 DEF Owners
  <1>3. Callers'
    <2>1. Caller(t)'
      BY <1>i, <1>p DEF LinkTypes, RestTypes, Callers, Caller, Modes, Owners,
         ChainOwner
    <2> QED
      BY <1>i, <1>a, <2>1, CallersKept
  <1>4. Sleepers'
    <2>1. /\ Sleeper(t)'
          /\ \A u \in Threads \ {t} : sleepq'[u] = sleepq[u] \/ sleepq[u] = "mtx"
          /\ \A u \in Threads \ {t} : mtx_owner = u /\ pc[u] \in {"sleep", "woken"}
                                        => mtx_owner' = u
      BY <1>i, <1>p DEF LinkTypes, RestTypes, Sleepers, Sleeper, ChainOwner,
         Owners
    <2> QED
      BY <1>i, <1>a, <2>1, SleepersKept
  <1>5. Handovers'
    <2>1. /\ pc[t] = "chain_owner" /\ pc' = [pc EXCEPT ![t] = "chain_clear"]
          /\ UNCHANGED <<state, sleepq, target>> /\ mtx_owner' = target[t]
      BY <1>i DEF ChainOwner
    <2>2. \A u \in Threads : pc'[u] \in HandoverPCs => u = t
      BY <1>i, <2>1 DEF Handovers, HandoverPCs
    <2>3. /\ state[target[t]] = "ACQUIRED" /\ pc'[target[t]] = "sleep"
          /\ sleepq[target[t]] = "link" /\ pc'[t] = "chain_clear"
      BY <1>i, <2>1 DEF LinkTypes, Handovers, HandoverPCs
    <2> QED
      BY <2>1, <2>2, <2>3 DEF Handovers
  <1>6. NoFailure'
    BY <1>i, <1>p DEF LinkTypes, NoFailure, ChainOwner
  <1> QED
    BY <1>1, <1>2, <1>3, <1>4, <1>5, <1>6 DEF SInv

\* It clears the flags.
LEMMA ChainClearHeld ==
    ASSUME TInv, TInv', SInv, Exact', NEW t \in Threads,
           ChainClear(t)
    PROVE  SInv'
  <1>i. /\ LinkTypes /\ OnList /\ Targets /\ ExlinkExclusive /\ RestTypes
        /\ Flags /\ Releases /\ Wanted /\ Waiters /\ CountSays
        /\ Exact /\ Modes /\ Owners /\ Callers /\ Sleepers /\ Handovers /\ NoFailure
        /\ RestTypes'
    BY TInvParts DEF SInv, TInv
  <1>a. Alone(t)
    BY <1>i DEF Alone, ChainClear
  <1>1. Modes'
    <2>1. /\ mtx_lock'.ex = mtx_lock.ex
          /\ mtx_lock.ex => (Present(t)' => Present(t)) /\ sh'[t] = 0
          /\ ~ mtx_lock.ex => /\ mtx_owner' = NULL /\ ex'[t] = 0
                              /\ InTransit(t)' => pc'[t] = "unlock"
      BY <1>i DEF LinkTypes, RestTypes, Modes, Owners, Callers, Caller,
         Present, InTransit, ChainClear
    <2> QED
      BY <1>i, <1>a, <2>1, ModesKept
  <1>2. Owners'
    <2>1. /\ mtx_owner' = mtx_owner /\ pc'[t] # "owner"
          /\ \A u \in Threads : pc[u] = "owner" => mtx_lock'.cnt = 1 /\ mtx_lock'.ex
          /\ ex'[t] > 0 => mtx_owner = t
          /\ mtx_owner = t => Present(t)' \/ pc'[t] = "chain_owner"
      BY <1>i DEF LinkTypes, RestTypes, Modes, Owners, Present, InTransit,
         ChainClear
    <2> QED
      BY <1>i, <1>a, <2>1, OwnersKept
  <1>3. Callers'
    <2>1. Caller(t)'
      BY <1>i DEF LinkTypes, RestTypes, Callers, Caller, Modes, Owners,
         ChainClear
    <2> QED
      BY <1>i, <1>a, <2>1, CallersKept
  <1>4. Sleepers'
    <2>1. /\ Sleeper(t)'
          /\ \A u \in Threads \ {t} : sleepq'[u] = sleepq[u] \/ sleepq[u] = "mtx"
          /\ \A u \in Threads \ {t} : mtx_owner = u /\ pc[u] \in {"sleep", "woken"}
                                        => mtx_owner' = u
      BY <1>i DEF LinkTypes, RestTypes, Sleepers, Sleeper, ChainClear
    <2> QED
      BY <1>i, <1>a, <2>1, SleepersKept
  <1>5. Handovers'
    <2>1. /\ pc[t] = "chain_clear" /\ pc' = [pc EXCEPT ![t] = "wake"] /\ target[t] \in Threads
          /\ UNCHANGED <<state, sleepq, target, mtx_owner, mtx_link>>
          /\ mtx_lock'.exw => mtx_link # <<>>
      BY <1>i DEF LinkTypes, Words, Targets, ChainClear
    <2>2. \A u \in Threads : pc'[u] \in HandoverPCs => pc[u] \in HandoverPCs /\ u = t
      BY <1>i, <2>1 DEF Handovers, HandoverPCs
    <2>3. /\ target[t] # t /\ mtx_owner = target[t] /\ state[target[t]] = "ACQUIRED"
          /\ pc[target[t]] = "sleep" /\ sleepq[target[t]] = "link"
      BY <1>i, <2>1 DEF Handovers, HandoverPCs
    <2>4. pc'[target[t]] = "sleep"
      BY <1>i, <2>1, <2>3
    <2> QED
      BY <2>1, <2>2, <2>3, <2>4 DEF Handovers
  <1>6. NoFailure'
    BY <1>i DEF LinkTypes, NoFailure, ChainClear
  <1> QED
    BY <1>1, <1>2, <1>3, <1>4, <1>5, <1>6 DEF SInv

\* It wakes up the new owner.
LEMMA WakeLinkHeld ==
    ASSUME TInv, TInv', SInv, Exact', NEW t \in Threads,
           WakeLink(t)
    PROVE  SInv'
  <1>i. /\ LinkTypes /\ OnList /\ Targets /\ ExlinkExclusive /\ RestTypes
        /\ Flags /\ Releases /\ Wanted /\ Waiters /\ CountSays
        /\ Exact /\ Modes /\ Owners /\ Callers /\ Sleepers /\ Handovers /\ NoFailure
        /\ RestTypes'
    BY TInvParts DEF SInv, TInv
  <1>a. Alone(t)
    BY <1>i DEF Alone, WakeLink
  <1>1. Modes'
    <2>1. /\ mtx_lock'.ex = mtx_lock.ex
          /\ mtx_lock.ex => (Present(t)' => Present(t)) /\ sh'[t] = 0
          /\ ~ mtx_lock.ex => /\ mtx_owner' = NULL /\ ex'[t] = 0
                              /\ InTransit(t)' => pc'[t] = "unlock"
      BY <1>i DEF LinkTypes, RestTypes, Modes, Owners, Callers, Caller,
         Present, InTransit, WakeLink
    <2> QED
      BY <1>i, <1>a, <2>1, ModesKept
  <1>2. Owners'
    <2>1. /\ mtx_owner' = mtx_owner /\ pc'[t] # "owner"
          /\ \A u \in Threads : pc[u] = "owner" => mtx_lock'.cnt = 1 /\ mtx_lock'.ex
          /\ ex'[t] > 0 => mtx_owner = t
          /\ mtx_owner = t => Present(t)' \/ pc'[t] = "chain_owner"
      BY <1>i DEF LinkTypes, RestTypes, Modes, Owners, Present, InTransit,
         WakeLink
    <2> QED
      BY <1>i, <1>a, <2>1, OwnersKept
  <1>3. Callers'
    <2>1. Caller(t)'
      BY <1>i DEF LinkTypes, RestTypes, Callers, Caller, Modes, Owners,
         WakeLink
    <2> QED
      BY <1>i, <1>a, <2>1, CallersKept
  <1>4. Sleepers'
    BY <1>i DEF LinkTypes, RestTypes, Sleepers, Sleeper, Modes, Present,
       InTransit, Handovers, HandoverPCs, Waiters, WakeLink
  <1>5. Handovers'
    BY <1>i DEF LinkTypes, RestTypes, Modes, Present, InTransit, Handovers,
       HandoverPCs, Targets, Alone, WakeLink
  <1>6. NoFailure'
    BY <1>i DEF LinkTypes, NoFailure, WakeLink
  <1> QED
    BY <1>1, <1>2, <1>3, <1>4, <1>5, <1>6 DEF SInv

\* A release wakes up the shared requests.
LEMMA WakeShHeld ==
    ASSUME TInv, TInv', SInv, Exact', NEW t \in Threads,
           WakeSh(t)
    PROVE  SInv'
  <1>i. /\ LinkTypes /\ OnList /\ Targets /\ ExlinkExclusive /\ RestTypes
        /\ Flags /\ Releases /\ Wanted /\ Waiters /\ CountSays
        /\ Exact /\ Modes /\ Owners /\ Callers /\ Sleepers /\ Handovers /\ NoFailure
        /\ RestTypes'
    BY TInvParts DEF SInv, TInv
  <1>a. Alone(t)
    BY <1>i DEF Alone, WakeSh
  <1>1. Modes'
    <2>1. /\ mtx_lock'.ex = mtx_lock.ex
          /\ mtx_lock.ex => (Present(t)' => Present(t)) /\ sh'[t] = 0
          /\ ~ mtx_lock.ex => /\ mtx_owner' = NULL /\ ex'[t] = 0
                              /\ InTransit(t)' => pc'[t] = "unlock"
      BY <1>i DEF LinkTypes, RestTypes, Modes, Owners, Callers, Caller,
         Present, InTransit, WakeSh
    <2> QED
      BY <1>i, <1>a, <2>1, ModesKept
  <1>2. Owners'
    <2>1. /\ mtx_owner' = mtx_owner /\ pc'[t] # "owner"
          /\ \A u \in Threads : pc[u] = "owner" => mtx_lock'.cnt = 1 /\ mtx_lock'.ex
          /\ ex'[t] > 0 => mtx_owner = t
          /\ mtx_owner = t => Present(t)' \/ pc'[t] = "chain_owner"
      BY <1>i DEF LinkTypes, RestTypes, Modes, Owners, Present, InTransit,
         WakeSh
    <2> QED
      BY <1>i, <1>a, <2>1, OwnersKept
  <1>3. Callers'
    <2>1. Caller(t)'
      BY <1>i DEF LinkTypes, RestTypes, Callers, Caller, Modes, Owners, WakeSh
    <2> QED
      BY <1>i, <1>a, <2>1, CallersKept
  <1>4. Sleepers'
    <2>1. /\ Sleeper(t)'
          /\ \A u \in Threads \ {t} : sleepq'[u] = sleepq[u] \/ sleepq[u] = "mtx"
          /\ \A u \in Threads \ {t} : mtx_owner = u /\ pc[u] \in {"sleep", "woken"}
                                        => mtx_owner' = u
      BY <1>i DEF LinkTypes, RestTypes, Sleepers, Sleeper, WakeSh
    <2> QED
      BY <1>i, <1>a, <2>1, SleepersKept
  <1>5. Handovers'
    <2>1. /\ pc[t] \notin HandoverPCs /\ pc'[t] \notin HandoverPCs
          /\ pc[t] # "sleep" \/ sleepq[t] # "link"
          /\ target' = target
      BY <1>i DEF LinkTypes, RestTypes, HandoverPCs, WakeSh
    <2>2. \A u \in Threads : pc[u] \in {"chain_clear", "wake"} => mtx_owner' = mtx_owner
      BY <1>i DEF LinkTypes, RestTypes, Handovers, HandoverPCs, Modes, Owners,
         Targets, Releases, Present, InTransit, WakeSh
    <2>3. \A u \in Threads \ {t} : sleepq[u] = "link" => sleepq'[u] = "link"
      BY <1>i DEF LinkTypes, WakeSh
    <2>4. mtx_lock'.exw => \/ mtx_link' # <<>>
                           \/ pc'[t] = "link"
                           \/ /\ mtx_lock.exw /\ mtx_link' = mtx_link
                              /\ pc[t] # "link"
      BY <1>i DEF LinkTypes, RestTypes, WakeSh
    <2> QED
      BY <1>i, <1>a, <2>1, <2>2, <2>3, <2>4, HandoversKept
  <1>6. NoFailure'
    BY <1>i DEF LinkTypes, NoFailure, WakeSh
  <1> QED
    BY <1>1, <1>2, <1>3, <1>4, <1>5, <1>6 DEF SInv

\* Initially nobody holds the lock.
LEMMA InitHeld == Init => SInv
  <1> SUFFICES ASSUME Init PROVE SInv
    OBVIOUS
  <1>1. Exact
    <2>1. ASSUME NEW p \in Units PROVE ~ IsCounted(p[1], p[2])
      BY DEF Init, Units, IsCounted, InTransit
    <2>2. Counted = {}
      BY <2>1 DEF Counted
    <2> QED
      BY <2>2, FS_EmptySet DEF Init, Unlocked, Exact
  <1>2. Modes /\ Owners
    BY ConstantsAssumption DEF Init, Unlocked, Modes, Owners, InTransit
  <1>3. Callers /\ Sleepers /\ Handovers /\ NoFailure
    BY DEF Init, Unlocked, Callers, Caller, Sleepers, Sleeper, Handovers,
           HandoverPCs, NoFailure
  <1> QED
    BY <1>1, <1>2, <1>3 DEF SInv

\* No thread moves.
LEMMA StutterHeld ==
    ASSUME SInv, Exact', UNCHANGED vars
    PROVE  SInv'
  <1>1. Modes' /\ Owners'
    BY DEF SInv, Modes, Owners, Present, InTransit, vars
  <1>2. Callers' /\ Sleepers' /\ NoFailure'
    BY DEF SInv, Callers, Caller, Sleepers, Sleeper, NoFailure, vars
  <1>3. Handovers'
    BY DEF SInv, Handovers, HandoverPCs, vars
  <1> QED
    BY <1>1, <1>2, <1>3 DEF SInv

\* Every step of callers without timeouts keeps both invariants.
LEMMA NextHeld == TInv /\ SInv /\ [Next]_vars => TInv' /\ SInv'
  <1> SUFFICES ASSUME TInv, SInv, [Next]_vars PROVE TInv' /\ SInv'
    OBVIOUS
  <1>1. TInv' /\ Exact'
    BY NextCounted DEF SInv
  <1>2. ASSUME NEW t \in Threads, Running(t) PROVE SInv'
    BY <1>1, <1>2, FreeHeld, OwnHeld, RecurseHeld, TryHeld, WaitHeld, LinkInHeld,
       LinkedReleaseHeld, WokenHeld, AcquiredHeld, ShGrantHeld, ShWaitHeld,
       DropShHeld, ClearOwnerHeld, DropExHeld, RaceHeld, ChainHeld, CountHeld,
       ChainLinkHeld, ChainOwnerHeld, ChainClearHeld, WakeLinkHeld, WakeShHeld
       DEF Running
  <1>3. ASSUME NEW t \in Threads, Request(t) \/ Release(t) PROVE SInv'
    BY <1>1, <1>3, CallHeld, UnlockHeld DEF Request, Release
  <1> QED
    BY <1>1, <1>2, <1>3, StutterHeld DEF Next

\* Both invariants hold throughout.
THEOREM MutexInvariance == Spec => [](TInv /\ SInv)
  <1>1. Init => TInv /\ SInv
    BY InitTimed, InitHeld
  <1> QED
    BY <1>1, NextHeld, PTL DEF Spec

\* The lock word, the list and the owner field agree with what threads hold, at
\* every instruction of the lock, unlock and handover routines: an exclusive
\* holder is mtx_owned().
THEOREM MutexConsistent == Spec => []Consistent
  <1>1. TInv /\ SInv => Consistent
    <2> SUFFICES ASSUME TInv, SInv PROVE Consistent
      OBVIOUS
    <2>1. TypeOK
      BY DEF TInv, LinkInv, LinkTypes, Words, RestTypes, HeldTypes, TypeOK
    <2>2. HolderIsOwner
      BY DEF TInv, RestTypes, SInv, Modes, Owners, HolderIsOwner, Owned
    <2> QED
      BY <2>1, <2>2 DEF Consistent
  <1> QED
    BY MutexInvariance, <1>1, PTL

\* No exclusive wakeup is lost between callers without timeouts, whose recursion
\* test always finds the truth.
THEOREM MutexPlainHandoffPending == Spec => []HandoffPending
  <1>1. TInv /\ SInv => HandoffPending
    BY ExactHandoff DEF SInv, Callers, Caller
  <1> QED
    BY MutexInvariance, <1>1, PTL

\* No KKASSERT of kern_mutex.c fails: the owner of a handed over lock is the
\* waiter that wakes up, the head of the list is LINKED, and the count does not
\* underflow.
THEOREM MutexNoPanic == Spec => []NoPanic
  <1>1. SInv => NoPanic
    BY DEF SInv, NoFailure, NoPanic
  <1> QED
    BY MutexInvariance, <1>1, PTL
-----------------------------------------------------------------------------
(* The mutex implements RWLock *)

\* One acquisition or release of the abstract lock.
Abstract == \E t \in Threads : \/ RW!AcquireExcl(t) \/ RW!AcquireShared(t)
                               \/ RW!ReleaseExcl(t) \/ RW!ReleaseShared(t)

\* An exclusive grant, where the count was taken, handed over or added: nobody
\* else holds the lock.
LEMMA ExclusiveRefines ==
    ASSUME TInv, SInv, NEW t \in Threads,
           SetOwner(t) \/ LockExRecurse(t) \/ Acquired(t)
    PROVE  RW!AcquireExcl(t)
  <1>1. RestTypes /\ Modes /\ Owners /\ Callers /\ Sleepers
    BY DEF TInv, SInv
  <1>2. mtx_lock.ex /\ Present(t)
    <2>1. CASE SetOwner(t)
      BY <1>1, <2>1 DEF Owners, Present, InTransit, SetOwner
    <2>2. CASE LockExRecurse(t)
      BY <1>1, <2>2 DEF Owners, Owned, LockExRecurse
    <2>3. CASE Acquired(t)
      BY <1>1, <2>3 DEF Modes, Sleepers, Sleeper, Present, InTransit, Acquired
    <2> QED
      BY <2>1, <2>2, <2>3
  <1>3. \A u \in Threads \ {t} : ~ Present(u)
    BY <1>1, <1>2 DEF Modes
  <1>4. \A u \in Threads \ {t} : ex[u] = 0 /\ sh[u] = 0
    BY <1>1, <1>3 DEF RestTypes, HeldTypes, Present
  <1>5. sh[t] = 0
    BY <1>1, <1>2 DEF Modes
  <1>6. ex' = [ex EXCEPT ![t] = @ + 1] /\ sh' = sh
    BY DEF SetOwner, LockExRecurse, Acquired
  <1> QED
    BY <1>4, <1>5, <1>6 DEF RW!AcquireExcl, RW!NoOtherHold

\* A shared grant: nobody holds the lock exclusively.
LEMMA SharedRefines ==
    ASSUME TInv, SInv, NEW t \in Threads, LockShGrant(t)
    PROVE  RW!AcquireShared(t)
  <1>1. \A u \in Threads : ex[u] = 0
    BY DEF SInv, Modes, LockShGrant
  <1> QED
    BY <1>1 DEF RW!AcquireShared, RW!NoOtherExcl, LockShGrant

\* A caller begins to release the lock.
LEMMA ReleaseRefines ==
    ASSUME NEW t \in Threads, UnlockEx(t) \/ UnlockSh(t)
    PROVE  RW!ReleaseExcl(t) \/ RW!ReleaseShared(t)
  BY DEF RW!ReleaseExcl, RW!ReleaseShared, UnlockEx, UnlockSh

\* Every other instruction leaves what the callers hold alone.
LEMMA OthersStutter ==
    ASSUME NEW t \in Threads,
           \/ LockExFree(t) \/ TryFail(t) \/ LockExWait(t) \/ LinkIn(t)
           \/ LinkedRelease(t) \/ Woken(t) \/ TryShFail(t) \/ LockShInterlock(t)
           \/ LockShWait(t) \/ LockShRace(t) \/ WokenSh(t) \/ ReleaseSh(t)
           \/ ClearOwner(t) \/ ReleaseEx(t) \/ ReleaseExRace(t)
           \/ ReleaseChain(t) \/ ReleaseCount(t) \/ ChainLink(t)
           \/ ChainOwner(t) \/ ChainClear(t) \/ WakeLink(t) \/ WakeSh(t)
           \/ Request(t)
    PROVE  UNCHANGED <<ex, sh>>
  BY DEF LockExFree, TryFail, LockExWait, LinkIn, LinkedRelease, ClearExlink, Woken,
         TryShFail, LockShInterlock, LockShWait, LockShRace, WokenSh, ReleaseSh,
         ClearOwner, ReleaseEx, ReleaseExRace, ReleaseChain, ReleaseCount,
         ChainLink, ChainOwner, ChainClear, WakeLink, WakeSh, Request, LockEx,
         TryEx, LockSh, TrySh

\* The mutex implements the abstract shared/exclusive lock: every instruction of
\* the lock, unlock and handover routines is one of its steps or changes nothing
\* in it.
THEOREM MutexRefinesRWLock == Spec => ImplementsRWLock
  <1>1. Init => RW!RWInit
    BY DEF Init, RW!RWInit
  <1>2. ASSUME TInv, SInv, [Next]_vars
        PROVE  [RW!RWNext]_(RW!rwvars)
    <2>1. CASE UNCHANGED vars
      BY <2>1 DEF vars, RW!rwvars
    <2>2. ASSUME NEW t \in Threads, Running(t) \/ Request(t) \/ Release(t)
          PROVE  Abstract \/ UNCHANGED <<ex, sh>>
      BY <1>2, <2>2, ExclusiveRefines, SharedRefines, ReleaseRefines, OthersStutter
         DEF Running, Release, Abstract
    <2>3. Abstract => RW!RWNext \/ UNCHANGED RW!rwvars
      BY DEF Abstract, RW!RWNext
    <2> QED
      BY <1>2, <2>1, <2>2, <2>3 DEF Next, RW!rwvars
  <1> QED
    BY <1>1, <1>2, MutexInvariance, PTL DEF Spec, ImplementsRWLock, RW!RWSpec
=============================================================================
