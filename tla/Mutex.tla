------------------------------- MODULE Mutex --------------------------------
(***************************************************************************)
(* The recursive shared/exclusive mutex of sys/kern/kern_mutex.c with the  *)
(* inline fast paths of sys/sys/mutex2.h: a lock word, an owner field that *)
(* is written separately from the word, and a circular list of exclusive   *)
(* waiters (links) to whose head the last release hands the lock over.     *)
(*                                                                         *)
(* One step is one atomic instruction on mtx_lock, or one unlocked access  *)
(* to a field that another thread may access at the same time.  A read of  *)
(* mtx_lock whose value the following atomic_cmpset_int() validates is one *)
(* step with it: when the comparison fails nothing changed and the code    *)
(* loops.  The list is circular with mtx_link as its head and new links go *)
(* in before the head: it is the sequence mtx_link, with a waiter standing *)
(* for its link (link->owner).                                             *)
(*                                                                         *)
(* tsleep_interlock(), tsleep() and wakeup() are modelled by the sleep     *)
(* queue a thread is on: the thread sleeps until it is off the queue.      *)
(***************************************************************************)
EXTENDS Integers, Sequences, SequencesExt, FiniteSets

CONSTANTS Threads,   (* the threads that use the mutex                     *)
          NULL,      (* no thread                                          *)
          INVARIANTS_,  (* whether the kernel has the option INVARIANTS     *)
          MaxHold    (* bound on one thread's recursive acquisitions       *)

ASSUME ConstantsAssumption == /\ NULL \notin Threads
                              /\ INVARIANTS_ \in BOOLEAN
                              /\ MaxHold \in Nat \ {0}

VARIABLES mtx_lock,   (* the lock word, as a record of its bit fields      *)
          mtx_owner,  (* mtx->mtx_owner                                    *)
          mtx_link,   (* the list of links, head first                     *)
          state,      (* link->state of each thread's link                 *)
          sleepq,     (* the ident whose sleep queue a thread is on        *)
          pc,         (* where each thread is in the code                  *)
          err,        (* its local variable error (tsleep() failed)        *)
          target,     (* the link argument of chain_link, abort_ex_link    *)
          ex, sh      (* acquisitions granted to its caller, not released  *)

word  == <<mtx_lock, mtx_owner>>
chain == <<mtx_link, state, target>>
held  == <<ex, sh>>
vars  == <<word, chain, sleepq, pc, err, held>>

LinkStates == {"IDLE", "ABORTED", "LINKED", "ACQUIRED"}

Unlocked == [ex |-> FALSE, shw |-> FALSE, exw |-> FALSE, exl |-> FALSE,
             cnt |-> 0]

\* mtx_init()
Init == /\ mtx_lock = Unlocked
        /\ mtx_owner = NULL
        /\ mtx_link = <<>>
        /\ state = [t \in Threads |-> "IDLE"]
        /\ sleepq = [t \in Threads |-> "none"]
        /\ pc = [t \in Threads |-> "idle"]
        /\ err = [t \in Threads |-> FALSE]
        /\ target = [t \in Threads |-> NULL]
        /\ ex = [t \in Threads |-> 0]
        /\ sh = [t \in Threads |-> 0]

Goto(t, l) == pc' = [pc EXCEPT ![t] = l]

Move(t, from, to) == pc[t] = from /\ Goto(t, to)

\* KKASSERT(cond) stops the thread in a panic when cond fails; without the
\* kernel option INVARIANTS it is nothing.
Kkassert(t, cond, l) == Goto(t, IF INVARIANTS_ => cond THEN l ELSE "panic")

\* mtx_owned()
Owned(t) == mtx_lock.ex /\ mtx_owner = t

UnlinkDropsPrefix(t) ==
    LET i == CHOOSE j \in DOMAIN mtx_link : mtx_link[j] = t
    IN  mtx_link' = SubSeq(mtx_link, i + 1, Len(mtx_link))

\* Removing a link moves the head to its successor, whichever link it was.
Unlink(t) == LET i == CHOOSE j \in DOMAIN mtx_link : mtx_link[j] = t
             IN  mtx_link' = SubSeq(mtx_link, i + 1, Len(mtx_link))
                               \o SubSeq(mtx_link, 1, i - 1)
-----------------------------------------------------------------------------
(* Exclusive locks: mtx_lock(), mtx_lock_ex*(), mtx_spinlock*() *)

\* A caller does not ask for an exclusive lock while it has a shared one.
LockEx(t) == /\ Move(t, "idle", "lock")
             /\ sh[t] = 0 /\ ex[t] < MaxHold
             /\ state' = [state EXCEPT ![t] = "IDLE"]     \* mtx_link_init()
             /\ UNCHANGED <<word, mtx_link, target, sleepq, err, held>>

\* mtx_lock_ex_try(), and the spin locks without the critical section that they
\* enter and the gd_spinlocks that they count.
TryEx(t) == /\ pc[t] = "idle"
            /\ \E l \in {"try", "spin"} : Goto(t, l)
            /\ sh[t] = 0 /\ ex[t] < MaxHold
            /\ UNCHANGED <<word, chain, sleepq, err, held>>

LockExFree(t) == /\ pc[t] \in {"lock", "try", "spin"}
                 /\ mtx_lock = Unlocked
                 /\ mtx_lock' = [Unlocked EXCEPT !.ex = TRUE, !.cnt = 1]
                 /\ Goto(t, "owner")
                 /\ UNCHANGED <<mtx_owner, chain, sleepq, err, held>>

\* The owner is written after the lock word.
SetOwner(t) == /\ Move(t, "owner", "idle")
               /\ mtx_owner' = t
               /\ ex' = [ex EXCEPT ![t] = @ + 1]
               /\ UNCHANGED <<mtx_lock, chain, sleepq, err, sh>>

LockExRecurse(t) == /\ pc[t] \in {"lock", "try", "spin"}
                    /\ Owned(t)
                    /\ mtx_lock' = [mtx_lock EXCEPT !.cnt = @ + 1]
                    /\ ex' = [ex EXCEPT ![t] = @ + 1]
                    /\ Goto(t, "idle")
                    /\ UNCHANGED <<mtx_owner, chain, sleepq, err, sh>>

TryFail(t) == /\ Move(t, "try", "idle")
              /\ mtx_lock # Unlocked /\ ~ Owned(t)
              /\ UNCHANGED <<word, chain, sleepq, err, held>>

\* Get EXLINK, and set EXWANTED with it.
LockExWait(t) == /\ Move(t, "lock", "link")
                 /\ mtx_lock # Unlocked /\ ~ Owned(t)
                 /\ ~ mtx_lock.exl
                 /\ mtx_lock' = [mtx_lock EXCEPT !.exw = TRUE, !.exl = TRUE]
                 /\ UNCHANGED <<mtx_owner, chain, sleepq, err, held>>

LinkInAtHead(t) == /\ Move(t, "link", "linked")
                   /\ state[t] # "ABORTED"
                   /\ state' = [state EXCEPT ![t] = "LINKED"]
                   /\ mtx_link' = <<t>> \o mtx_link
                   /\ sleepq' = [sleepq EXCEPT ![t] = "link"]
                   /\ UNCHANGED <<word, target, err, held>>

LinkIn(t) == /\ Move(t, "link", "linked")
             /\ state[t] # "ABORTED"
             /\ state' = [state EXCEPT ![t] = "LINKED"]
             /\ mtx_link' = Append(mtx_link, t)
             /\ sleepq' = [sleepq EXCEPT ![t] = "link"]   \* tsleep_interlock()
             /\ UNCHANGED <<word, target, err, held>>

ClearExlink(t, from, to) ==
    /\ Move(t, from, to)
    /\ mtx_lock' = [mtx_lock EXCEPT !.exl = FALSE]
    /\ UNCHANGED <<mtx_owner, chain, sleepq, err, held>>

LinkedRelease(t) == ClearExlink(t, "linked", "sleep")

\* tsleep() returns 0: somebody did a wakeup(link).
Woken(t) == /\ Move(t, "sleep", "woken")
            /\ sleepq[t] = "none"
            /\ err' = [err EXCEPT ![t] = FALSE]
            /\ UNCHANGED <<word, chain, sleepq, held>>

\* tsleep() fails: a timeout, or a signal with PCATCH, which it looks for
\* even when the thread has been woken up.  With one that is pending on entry
\* the thread comes back still on the queue.
SleepError(t) == /\ Move(t, "sleep", "woken")
                 /\ sleepq' \in {sleepq, [sleepq EXCEPT ![t] = "none"]}
                 /\ err' = [err EXCEPT ![t] = TRUE]
                 /\ UNCHANGED <<word, chain, held>>

\* What __mtx_lock_ex() makes of the state of its link.
Acquired(t) == /\ pc[t] = "woken" /\ state[t] = "ACQUIRED"
               /\ Kkassert(t, mtx_owner = t, "idle")
               /\ ex' = [ex EXCEPT ![t] = @ + 1]
               /\ UNCHANGED <<word, chain, sleepq, err, sh>>

GiveUpLinked(t) == /\ Move(t, "woken", "idle")
                   /\ state[t] = "ABORTED" \/ (state[t] # "ACQUIRED" /\ err[t])
                   /\ UNCHANGED <<word, chain, sleepq, err, held>>

GiveUp(t) == /\ Move(t, "woken", "idle")
             /\ state[t] = "ABORTED" \/ (state[t] = "IDLE" /\ err[t])
             /\ UNCHANGED <<word, chain, sleepq, err, held>>

Retry(t) == /\ Move(t, "woken", "lock")
            /\ state[t] = "IDLE" /\ ~ err[t]
            /\ UNCHANGED <<word, chain, sleepq, err, held>>

\* mtx_delete_link()
DeleteLink(t) == /\ Move(t, "woken", "delete")
                 /\ state[t] = "LINKED"
                 /\ UNCHANGED <<word, chain, sleepq, err, held>>

GetExlink(t, from, to) ==
    /\ Move(t, from, to)
    /\ ~ mtx_lock.exl
    /\ mtx_lock' = [mtx_lock EXCEPT !.exl = TRUE]
    /\ UNCHANGED <<mtx_owner, chain, sleepq, err, held>>

DeleteExlink(t) == GetExlink(t, "delete", "unlink")

DeleteUnlink(t) == /\ Move(t, "unlink", "unlinked")
                   /\ IF state[t] = "LINKED"
                      THEN /\ Unlink(t)
                           /\ state' = [state EXCEPT ![t] = "IDLE"]
                      ELSE UNCHANGED <<mtx_link, state>>
                   /\ UNCHANGED <<word, target, sleepq, err, held>>

DeleteRelease(t) == ClearExlink(t, "unlinked", "woken")
-----------------------------------------------------------------------------
(* Shared locks: mtx_lock_sh*() *)

\* A caller does not ask for a shared lock while it has an exclusive one.
LockSh(t) == /\ Move(t, "idle", "lock_sh")
             /\ ex[t] = 0 /\ sh[t] < MaxHold
             /\ UNCHANGED <<word, chain, sleepq, err, held>>

TrySh(t) == /\ Move(t, "idle", "try_sh")
            /\ ex[t] = 0 /\ sh[t] < MaxHold
            /\ UNCHANGED <<word, chain, sleepq, err, held>>

LockShGrant(t) == /\ pc[t] \in {"lock_sh", "try_sh"}
                  /\ ~ mtx_lock.ex
                  /\ mtx_lock' = [mtx_lock EXCEPT !.cnt = @ + 1]
                  /\ sh' = [sh EXCEPT ![t] = @ + 1]
                  /\ Goto(t, "idle")
                  /\ UNCHANGED <<mtx_owner, chain, sleepq, err, ex>>

TryShFail(t) == /\ Move(t, "try_sh", "idle")
                /\ mtx_lock.ex
                /\ UNCHANGED <<word, chain, sleepq, err, held>>

LockShInterlock(t) == /\ Move(t, "lock_sh", "want_sh")
                      /\ mtx_lock.ex
                      /\ sleepq' = [sleepq EXCEPT ![t] = "mtx"]
                      /\ UNCHANGED <<word, chain, err, held>>

LockShWait(t) == /\ Move(t, "want_sh", "sleep_sh")
                 /\ mtx_lock.ex
                 /\ mtx_lock' = [mtx_lock EXCEPT !.shw = TRUE]
                 /\ UNCHANGED <<mtx_owner, chain, sleepq, err, held>>

\* The lock word changed since it was read, in any field and maybe back to an
\* exclusive lock: tsleep_remove() and look again.
LockShRace(t) == /\ Move(t, "want_sh", "lock_sh")
                 /\ sleepq' = [sleepq EXCEPT ![t] = "none"]
                 /\ UNCHANGED <<word, chain, err, held>>

WokenSh(t) == /\ Move(t, "sleep_sh", "lock_sh")
              /\ sleepq[t] = "none"
              /\ UNCHANGED <<word, chain, sleepq, err, held>>

SleepErrorSh(t) == /\ Move(t, "sleep_sh", "idle")
                   /\ sleepq' \in {sleepq, [sleepq EXCEPT ![t] = "none"]}
                   /\ UNCHANGED <<word, chain, err, held>>
-----------------------------------------------------------------------------
(* mtx_unlock*() *)

UnlockEx(t) == /\ Move(t, "idle", "unlock")
               /\ ex[t] > 0
               /\ ex' = [ex EXCEPT ![t] = @ - 1]
               /\ UNCHANGED <<word, chain, sleepq, err, sh>>

UnlockSh(t) == /\ Move(t, "idle", "unlock")
               /\ sh[t] > 0
               /\ sh' = [sh EXCEPT ![t] = @ - 1]
               /\ UNCHANGED <<word, chain, sleepq, err, ex>>

\* Last release, shared lock, no exclusive waiters.
ReleaseSh(t) == /\ Move(t, "unlock", "idle")
                /\ mtx_lock.cnt = 1 /\ ~ mtx_lock.ex /\ ~ mtx_lock.exw
                /\ mtx_lock' = [Unlocked EXCEPT !.exl = mtx_lock.exl]
                /\ UNCHANGED <<mtx_owner, chain, sleepq, err, held>>

\* Last release, exclusive lock, no exclusive waiters: the owner is cleared
\* first; if a waiter set EXWANTED before the compare-and-set, start again.
ClearOwner(t) == /\ Move(t, "unlock", "release")
                 /\ mtx_lock.cnt = 1 /\ mtx_lock.ex /\ ~ mtx_lock.exw
                 /\ mtx_owner' = NULL
                 /\ UNCHANGED <<mtx_lock, chain, sleepq, err, held>>

ReleaseEx(t) == /\ pc[t] = "release"
                /\ ~ mtx_lock.exw
                /\ mtx_lock' = [Unlocked EXCEPT !.exl = mtx_lock.exl]
                /\ Goto(t, IF mtx_lock.shw THEN "wake_sh" ELSE "idle")
                /\ UNCHANGED <<mtx_owner, chain, sleepq, err, held>>

ReleaseExRace(t) == /\ Move(t, "release", "unlock")
                    /\ mtx_lock.exw
                    /\ UNCHANGED <<word, chain, sleepq, err, held>>

ReleaseChainShared(t) == /\ Move(t, "unlock", "chain")
                         /\ mtx_lock.cnt = 1 /\ mtx_lock.exw /\ ~ mtx_lock.exl
                         /\ mtx_lock' = [mtx_lock EXCEPT !.exl = TRUE]
                         /\ UNCHANGED <<mtx_owner, chain, sleepq, err, held>>

\* Last release with exclusive waiters: keep the lock (a shared one becomes
\* exclusive), get EXLINK and hand it over.
ReleaseChain(t) == /\ Move(t, "unlock", "chain")
                   /\ mtx_lock.cnt = 1 /\ mtx_lock.exw /\ ~ mtx_lock.exl
                   /\ mtx_lock' = [mtx_lock EXCEPT !.ex = TRUE, !.exl = TRUE]
                   /\ UNCHANGED <<mtx_owner, chain, sleepq, err, held>>

ReleaseCount(t) == /\ pc[t] = "unlock"
                   /\ mtx_lock.cnt # 1
                   /\ Kkassert(t, mtx_lock.cnt > 0, "idle")
                   /\ mtx_lock' = [mtx_lock EXCEPT !.cnt = @ - 1]
                   /\ UNCHANGED <<mtx_owner, chain, sleepq, err, held>>

\* mtx_chain_link()
ChainLink(t) == /\ pc[t] = "chain"
                /\ mtx_link # <<>>
                /\ Kkassert(t, state[Head(mtx_link)] = "LINKED", "chain_owner")
                /\ mtx_link' = Tail(mtx_link)
                /\ state' = [state EXCEPT ![Head(mtx_link)] = "ACQUIRED"]
                /\ target' = [target EXCEPT ![t] = Head(mtx_link)]
                /\ UNCHANGED <<word, sleepq, err, held>>

ChainOwnerForgotten(t) == /\ Move(t, "chain_owner", "chain_clear")
                          /\ UNCHANGED <<word, chain, sleepq, err, held>>

ChainOwner(t) == /\ Move(t, "chain_owner", "chain_clear")
                 /\ mtx_owner' = target[t]
                 /\ UNCHANGED <<mtx_lock, chain, sleepq, err, held>>

ChainClear(t) == /\ Move(t, "chain_clear", "wake")
                 /\ mtx_lock' = [mtx_lock EXCEPT !.exl = FALSE,
                                                 !.exw = @ /\ mtx_link # <<>>]
                 /\ UNCHANGED <<mtx_owner, chain, sleepq, err, held>>

\* The list was empty: release the lock.  Only the lowest bit of the count is
\* cleared.  The owner is cleared afterwards, and only with shared waiters.
ChainEmpty(t) == /\ Move(t, "chain", "chain_release")
                 /\ mtx_link = <<>>
                 /\ UNCHANGED <<word, chain, sleepq, err, held>>

ChainReleaseNoWakeup(t) == /\ Move(t, "chain_release", "idle")
                           /\ mtx_lock' = Unlocked
                           /\ UNCHANGED <<mtx_owner, chain, sleepq, err, held>>

ChainRelease(t) == /\ pc[t] = "chain_release"
                   /\ mtx_lock' = [Unlocked EXCEPT
                                      !.cnt = mtx_lock.cnt - (mtx_lock.cnt % 2)]
                   /\ Goto(t, IF mtx_lock.shw THEN "chain_null" ELSE "idle")
                   /\ UNCHANGED <<mtx_owner, chain, sleepq, err, held>>

ChainNull(t) == /\ Move(t, "chain_null", "wake_sh")
                /\ mtx_owner' = NULL
                /\ UNCHANGED <<mtx_lock, chain, sleepq, err, held>>

\* wakeup(link) and wakeup(mtx), after the lock word was changed
WakeLink(t) == /\ Move(t, "wake", "idle")
               /\ sleepq' = [sleepq EXCEPT ![target[t]] =
                               IF @ = "link" THEN "none" ELSE @]
               /\ target' = [target EXCEPT ![t] = NULL]
               /\ UNCHANGED <<word, mtx_link, state, err, held>>

WakeShClearsOwner(t) ==
    /\ Move(t, "wake_sh", "idle")
    /\ mtx_owner' = NULL
    /\ sleepq' = [u \in Threads |->
                    IF sleepq[u] = "mtx" THEN "none" ELSE sleepq[u]]
    /\ UNCHANGED <<mtx_lock, chain, err, held>>

WakeSh(t) == /\ Move(t, "wake_sh", "idle")
             /\ sleepq' = [u \in Threads |->
                             IF sleepq[u] = "mtx" THEN "none" ELSE sleepq[u]]
             /\ UNCHANGED <<word, chain, err, held>>
-----------------------------------------------------------------------------
(* mtx_abort_ex_link() by u on the link of t, at any time *)

AbortExlink(u, t) == /\ u # t
                     /\ Move(u, "idle", "abort")
                     /\ ~ mtx_lock.exl
                     /\ mtx_lock' = [mtx_lock EXCEPT !.exl = TRUE]
                     /\ target' = [target EXCEPT ![u] = t]
                     /\ UNCHANGED <<mtx_owner, mtx_link, state, sleepq, err, held>>

AbortLinkOnList(u) ==
    LET t == target[u]
    IN  /\ Move(u, "abort", "aborted")
        /\ state' = [state EXCEPT ![t] = IF @ = "ACQUIRED" THEN @ ELSE "ABORTED"]
        /\ sleepq' = [sleepq EXCEPT ![t] = IF @ = "link" THEN "none" ELSE @]
        /\ target' = [target EXCEPT ![u] = NULL]
        /\ UNCHANGED <<word, mtx_link, err, held>>

AbortLink(u) ==
    LET t == target[u]
    IN  /\ Move(u, "abort", "aborted")
        /\ state' = [state EXCEPT ![t] = IF @ = "ACQUIRED" THEN @ ELSE "ABORTED"]
        /\ IF state[t] = "LINKED"
           THEN /\ Unlink(t)
                /\ sleepq' = [sleepq EXCEPT ![t] = IF @ = "link" THEN "none" ELSE @]
           ELSE UNCHANGED <<mtx_link, sleepq>>
        /\ target' = [target EXCEPT ![u] = NULL]
        /\ UNCHANGED <<word, err, held>>

AbortRelease(u) == ClearExlink(u, "aborted", "idle")

\* mtx_lock_ex_link() with a link that the caller initialised earlier
LockExLink(t) == /\ Move(t, "idle", "lock")
                 /\ sh[t] = 0 /\ ex[t] < MaxHold
                 /\ UNCHANGED <<word, chain, sleepq, err, held>>

\* __mtx_lock_ex() finds its link aborted: EXLINK is released before the list
\* is looked at and EXWANTED is cleared.
EarlyAbort(t) == /\ state[t] = "ABORTED"
                 /\ ClearExlink(t, "link", "abort_test")

EarlyAbortTest(t) == /\ pc[t] = "abort_test"
                     /\ Goto(t, IF mtx_link = <<>> THEN "abort_clear" ELSE "idle")
                     /\ UNCHANGED <<word, chain, sleepq, err, held>>

EarlyAbortClear(t) == /\ Move(t, "abort_clear", "idle")
                      /\ mtx_lock' = [mtx_lock EXCEPT !.exw = FALSE]
                      /\ UNCHANGED <<mtx_owner, chain, sleepq, err, held>>
-----------------------------------------------------------------------------
(* mtx_upgrade_try() *)

\* The inline compare-and-set of the word 1 to MTX_EXCLUSIVE | 1
UpgradeQuick(t) == /\ pc[t] = "idle" /\ sh[t] = 1
                   /\ mtx_lock = [Unlocked EXCEPT !.cnt = 1]
                   /\ mtx_lock' = [mtx_lock EXCEPT !.ex = TRUE]
                   /\ sh' = [sh EXCEPT ![t] = 0]
                   /\ ex' = [ex EXCEPT ![t] = 1]
                   /\ UNCHANGED <<mtx_owner, chain, sleepq, pc, err>>

\* The slow path takes the same word with EXWANTED, or without it when it came
\* to be 1 after the quick test, and writes the owner.
UpgradeSlow(t) == /\ Move(t, "idle", "owner")
                  /\ sh[t] = 1
                  /\ mtx_lock = [Unlocked EXCEPT !.cnt = 1, !.exw = mtx_lock.exw]
                  /\ mtx_lock' = [mtx_lock EXCEPT !.ex = TRUE]
                  /\ sh' = [sh EXCEPT ![t] = 0]
                  /\ UNCHANGED <<mtx_owner, chain, sleepq, err, ex>>

UpgradeOwned(t) == /\ pc[t] = "idle" /\ ex[t] > 0
                   /\ mtx_lock.ex
                   /\ Kkassert(t, mtx_owner = t, "idle")
                   /\ UNCHANGED <<word, chain, sleepq, err, held>>
-----------------------------------------------------------------------------
\* Steps inside the routines: a thread that entered one goes on.
Running(t) ==
    \/ LockExFree(t) \/ SetOwner(t) \/ LockExRecurse(t) \/ TryFail(t)
    \/ LockExWait(t) \/ LinkIn(t) \/ LinkedRelease(t) \/ Woken(t) \/ Acquired(t)
    \/ LockShGrant(t) \/ TryShFail(t) \/ LockShInterlock(t) \/ LockShWait(t)
    \/ LockShRace(t) \/ WokenSh(t)
    \/ ReleaseSh(t) \/ ClearOwner(t) \/ ReleaseEx(t) \/ ReleaseExRace(t)
    \/ ReleaseChain(t) \/ ReleaseCount(t) \/ ChainLink(t) \/ ChainOwner(t)
    \/ ChainClear(t) \/ WakeLink(t) \/ WakeSh(t)

Request(t) == LockEx(t) \/ TryEx(t) \/ LockSh(t) \/ TrySh(t)

Release(t) == UnlockEx(t) \/ UnlockSh(t)

\* Callers that sleep without PCATCH and without a timeout.
Next == \E t \in Threads : Running(t) \/ Request(t) \/ Release(t)

Spec == Init /\ [][Next]_vars

Fairness == \A t \in Threads : WF_vars(Running(t)) /\ WF_vars(Release(t))

FairSpec == Spec /\ Fairness

\* A waiter that leaves the list by itself, and the release that then finds
\* the list empty.
Withdrawn(t) == GiveUp(t) \/ ChainEmpty(t) \/ ChainRelease(t) \/ ChainNull(t)

\* Callers whose sleep may fail.
Timed(t) == \/ SleepError(t) \/ SleepErrorSh(t) \/ DeleteLink(t)
            \/ DeleteExlink(t) \/ DeleteUnlink(t) \/ DeleteRelease(t)
            \/ Retry(t)

TimedNext == Next \/ \E t \in Threads : Withdrawn(t) \/ Timed(t)

TimedSpec == Init /\ [][TimedNext]_vars

\* The same as long as the recursion test of __mtx_lock_ex() finds the truth.
\* ChainRelease leaves a stale mtx_owner behind and ChainNull may clear that of
\* the next holder; a test made then counts a lock that is being released, or
\* queues a holder behind itself.
TrueOwnerNext ==
    /\ TimedNext
    /\ \A t \in Threads : pc[t] \in {"lock", "try", "spin"} /\ pc'[t] # pc[t]
                            => (Owned(t) <=> ex[t] > 0)

TrueOwnerSpec == Init /\ [][TrueOwnerNext]_vars

\* mtx_upgrade_try()
Upgrade(t) == UpgradeQuick(t) \/ UpgradeSlow(t) \/ UpgradeOwned(t)

\* Callers that pass a link, threads that abort it, and readers that upgrade.
Abort(t) == \/ \E u \in Threads : AbortExlink(t, u)
            \/ AbortLink(t) \/ AbortRelease(t) \/ LockExLink(t)
            \/ EarlyAbort(t) \/ EarlyAbortTest(t) \/ EarlyAbortClear(t)

AbortNext == Next \/ \E t \in Threads : Withdrawn(t) \/ Abort(t) \/ Upgrade(t)

AbortSpec == Init /\ [][AbortNext]_vars
-----------------------------------------------------------------------------
(* Properties *)

PCs == {"idle", "lock", "try", "spin", "owner", "link", "linked", "sleep",
        "woken", "delete", "unlink", "unlinked", "lock_sh", "try_sh",
        "want_sh", "sleep_sh", "unlock", "release", "chain", "chain_owner",
        "chain_clear", "chain_release", "chain_null", "wake", "wake_sh",
        "abort", "aborted", "abort_test", "abort_clear", "panic"}

\* Type invariant; the count field never goes below 0.
TypeOK == /\ mtx_lock \in [ex : BOOLEAN, shw : BOOLEAN, exw : BOOLEAN,
                           exl : BOOLEAN, cnt : Nat]
          /\ mtx_owner \in Threads \cup {NULL}
          /\ mtx_link \in Seq(Threads)
          /\ state \in [Threads -> LinkStates]
          /\ sleepq \in [Threads -> {"none", "link", "mtx"}]
          /\ pc \in [Threads -> PCs]
          /\ err \in [Threads -> BOOLEAN]
          /\ target \in [Threads -> Threads \cup {NULL}]
          /\ ex \in [Threads -> Nat]
          /\ sh \in [Threads -> Nat]

Inside(l) == {t \in Threads : pc[t] \in l}

\* "Exclusive-lock a mutex, block until acquired": while the exclusive lock is
\* granted to one thread, no other thread has been granted the lock in any way
\* (__mtx_lock_ex(), __mtx_lock_sh()).
MutualExclusion == \A t, u \in Threads : t # u =>
                      ~ (ex[t] > 0 /\ (ex[u] > 0 \/ sh[u] > 0))

\* No KKASSERT of kern_mutex.c fails: a handed over lock has its new owner when
\* the waiter looks ("we should own the exclusive lock now"), the head of the
\* list is LINKED, the count does not underflow.
NoPanic == \A t \in Threads : pc[t] # "panic"

\* mtx_owned() tells a thread that has been granted the exclusive lock so, from
\* the return of the lock call to the call of unlock, although mtx_owner is
\* written separately from mtx_lock by the holder, by the releaser and by the
\* releaser's predecessor.
HolderIsOwner == \A t \in Threads : pc[t] = "idle" /\ ex[t] > 0 => Owned(t)

\* The lock word, the list and the owner field agree with what threads hold: the
\* types, and mtx_owned() for every exclusive holder, through each handoff of
\* _mtx_unlock() and mtx_chain_link().
Consistent == TypeOK /\ HolderIsOwner

\* Where a thread has a count of the lock that its caller does not have: it was
\* just taken, or is about to be released, or was handed over to a waiter.
InTransit(t) ==
    \/ pc[t] \in {"owner", "unlock", "release", "chain", "chain_release"}
    \/ /\ pc[t] \in {"sleep", "woken", "delete", "unlink", "unlinked"}
       /\ state[t] = "ACQUIRED"

\* A thread has a count of the lock: it holds the lock, or it has the count in
\* transit.
Present(t) == ex[t] + sh[t] > 0 \/ InTransit(t)

\* No exclusive wakeup is lost: a thread that sleeps in __mtx_lock_ex() is on
\* the list, EXWANTED is set and another thread really has the lock, so that the
\* last release of _mtx_unlock() will hand it over; or a releaser in
\* mtx_chain_link() is about to wake it up.  (A count in mtx_lock alone would
\* not do: it may be one that no thread has.)
HandoffPending ==
    \A t \in Threads : pc[t] = "sleep" /\ sleepq[t] = "link" =>
       \/ /\ state[t] = "LINKED" /\ Contains(mtx_link, t)
          /\ mtx_lock.exw
          /\ \E u \in Threads \ {t} : Present(u)
       \/ \E u \in Inside({"chain_owner", "chain_clear", "wake"}) : target[u] = t

\* No shared wakeup is lost: a thread that sleeps in __mtx_lock_sh() has its
\* SHWANTED seen by the exclusive holder's release, or a releaser that cleared
\* SHWANTED has not done its wakeup(mtx) yet.
SharedWakeupPending ==
    \A t \in Threads : pc[t] = "sleep_sh" /\ sleepq[t] = "mtx" =>
       \/ mtx_lock.ex /\ mtx_lock.shw
       \/ Inside({"chain_null", "wake_sh"}) # {}

\* Links live on the stack of _mtx_lock_ex(): every link on the list is that of
\* a thread that is still in its call, is there once, and has state LINKED,
\* whatever timeouts, signals and handoffs race (mtx_delete_link() rechecks
\* the state under EXLINK).
NoDanglingLink ==
    /\ \A t \in Threads : (state[t] = "LINKED") <=> Contains(mtx_link, t)
    /\ \A t \in ToSet(mtx_link) :
          pc[t] \in {"linked", "sleep", "woken", "delete", "unlink"}
    /\ IsInjective(mtx_link)

ExlinkHolders == {"link", "linked", "unlink", "unlinked", "chain", "chain_owner",
                  "chain_clear", "chain_release", "abort", "aborted"}

\* MTX_EXLINK is a lock on the list: at most one thread is inside the sections
\* that it guards, and it is set exactly when there is one.
ExlinkExclusive == /\ \A t, u \in Inside(ExlinkHolders) : t = u
                   /\ mtx_lock.exl <=> Inside(ExlinkHolders) # {}

\* The list of links on thread stacks is protected and never dangles, whoever
\* queues, hands over, withdraws in mtx_delete_link() or aborts a link.
LinksSafe == NoDanglingLink /\ ExlinkExclusive

\* A thread that sleeps for the exclusive lock gets it, in spite of other
\* exclusive requesters (the list is first come first served), unless readers
\* overlap so that the lock is shared forever, since __mtx_lock_sh() does not
\* look at MTX_EXWANTED, or an owner recurses and so never releases it.
WaiterServed ==
    \A t \in Threads : \/ (pc[t] = "sleep") ~> (ex[t] > 0)
                       \/ <>[](mtx_lock.cnt > 0 /\ ~ mtx_lock.ex)
                       \/ \E u \in Threads : <>[](ex[u] > 0)

\* The mutex implements the abstract shared/exclusive lock, recursion included.
RW == INSTANCE RWLock

ImplementsRWLock == RW!RWSpec
=============================================================================
