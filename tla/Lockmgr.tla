------------------------------ MODULE Lockmgr -------------------------------
(***************************************************************************)
(* The lock manager of sys/kern/kern_lock.c: a recursive shared/exclusive  *)
(* lock with upgrades, downgrades and kernel ownership.  A lock word and a *)
(* holder field that is written separately from it; all waiters sleep on   *)
(* one queue, and every wakeup() wakes them all to look at the word again. *)
(*                                                                         *)
(* One step is one atomic instruction on lk_count, or one access to the    *)
(* holder or to the sleep queue that another thread can come in between    *)
(* with.  A read of lk_count that the next instruction validates with      *)
(* atomic_cmpset_int() is one step with it; where something comes in       *)
(* between (tsleep_interlock(), clearing lk_lockholder), the value read is *)
(* kept in count, and a comparison that fails leads back to "again:".      *)
(*                                                                         *)
(* The external flags (LK_NOWAIT, LK_SLEEPFAIL, LK_TIMELOCK, LK_PCATCH)    *)
(* are chosen where the code tests them.                                   *)
(***************************************************************************)
EXTENDS Integers, FiniteSets

CONSTANTS Threads,      (* the threads that use the lock                   *)
          DeadlkTreat,  (* the ones with TDF_DEADLKTREAT                   *)
          NULL,         (* no holder: NULL and LK_NOTHREAD                 *)
          KERN,         (* LK_KERNTHREAD                                   *)
          MaxHold       (* bound on one thread's recursive acquisitions    *)

ASSUME ConstantsAssumption == /\ DeadlkTreat \subseteq Threads
                              /\ NULL \notin Threads /\ KERN \notin Threads
                              /\ NULL # KERN
                              /\ MaxHold \in Nat \ {0}

VARIABLES lk_count,       (* the lock word, as a record of its bit fields  *)
          lk_lockholder,  (* lkp->lk_lockholder                            *)
          queue,          (* the threads on the sleep queue of lkp         *)
          pc,             (* where each thread is in the code              *)
          count, otd,     (* its local variables of these names            *)
          ex, sh          (* acquisitions granted to its caller, not released *)

local == <<count, otd>>
held  == <<ex, sh>>
vars  == <<lk_count, lk_lockholder, queue, pc, local, held>>

Holders == Threads \cup {KERN}

\* lk_count = 0
Free == [exreq |-> FALSE, shreq |-> FALSE, upreq |-> FALSE, excl |-> FALSE,
         upgrant |-> FALSE, cnt |-> 0]

\* lockinit()
Init == /\ lk_count = Free
        /\ lk_lockholder = NULL
        /\ queue = {}
        /\ pc = [t \in Threads |-> "idle"]
        /\ count = [t \in Threads |-> Free]
        /\ otd = [t \in Threads |-> NULL]
        /\ ex = [h \in Holders |-> 0]
        /\ sh = [h \in Holders |-> 0]

Goto(t, l) == pc' = [pc EXCEPT ![t] = l]

Move(t, from, to) == pc[t] = from /\ Goto(t, to)

\* KKASSERT() and the panics of lockmgr(): go on at l only if cond holds.
GotoIf(t, cond, l) == Goto(t, IF cond THEN l ELSE "panic")

Forget(t) == count' = [count EXCEPT ![t] = Free]

\* tsleep_interlock() after lk_count was read
Interlock(t, from, to) == /\ Move(t, from, to)
                          /\ queue' = queue \cup {t}
                          /\ count' = [count EXCEPT ![t] = lk_count]
                          /\ UNCHANGED <<lk_count, lk_lockholder, otd, held>>
-----------------------------------------------------------------------------
(* LK_SHARED *)

\* Without TDF_DEADLKTREAT a thread may not ask for a second shared lock: it
\* would wait for an exclusive requester that waits for it.
LockSh(t) == /\ Move(t, "idle", "shared")
             /\ ex[t] + sh[t] < MaxHold
             /\ sh[t] = 0 \/ t \in DeadlkTreat
             /\ UNCHANGED <<lk_count, lk_lockholder, queue, local, held>>

Contended == lk_count.exreq \/ lk_count.upreq \/ lk_count.excl

SharedBlockedTreated(t) ==
    t \notin DeadlkTreat /\ (lk_count.excl \/ lk_count.exreq \/ lk_count.upreq)

\* count & wflags
SharedBlocked(t) ==
    lk_count.excl \/ (t \notin DeadlkTreat /\ (lk_count.exreq \/ lk_count.upreq))

SharedGrant(t) == /\ Move(t, "shared", "idle")
                  /\ ~ Contended \/ (lk_lockholder # t /\ ~ SharedBlocked(t))
                  /\ lk_count' = [lk_count EXCEPT !.cnt = @ + 1]
                  /\ sh' = [sh EXCEPT ![t] = @ + 1]
                  /\ UNCHANGED <<lk_lockholder, queue, local, ex>>

\* A caller that holds the lock exclusively gets another exclusive count,
\* whatever it asked for (LK_CANRECURSE); a request for a shared lock does not
\* downgrade it, as lock.h and lock.9 have it.
Recurse(t) == /\ \/ pc[t] = "shared" /\ Contended
                 \/ pc[t] = "excl" /\ lk_count # Free
              /\ lk_lockholder = t
              /\ GotoIf(t, lk_count.excl, "idle")
              /\ lk_count' = [lk_count EXCEPT !.cnt = @ + 1]
              /\ ex' = [ex EXCEPT ![t] = @ + 1]
              /\ UNCHANGED <<lk_lockholder, queue, local, sh>>

SharedInterlock(t) == /\ lk_lockholder # t /\ SharedBlocked(t)
                      /\ Interlock(t, "shared", "sh_want")

SharedWait(t) == /\ Move(t, "sh_want", "sh_sleep")
                 /\ lk_count = count[t]
                 /\ lk_count' = [lk_count EXCEPT !.shreq = TRUE]
                 /\ Forget(t)
                 /\ UNCHANGED <<lk_lockholder, queue, otd, held>>
-----------------------------------------------------------------------------
(* LK_EXCLUSIVE *)

\* A caller does not ask for the exclusive lock while it has a shared one.
LockEx(t) == /\ Move(t, "idle", "excl")
             /\ sh[t] = 0 /\ ex[t] < MaxHold
             /\ UNCHANGED <<lk_count, lk_lockholder, queue, local, held>>

ExclGrant(t) == /\ Move(t, "excl", "owner")
                /\ lk_count = Free
                /\ lk_count' = [Free EXCEPT !.excl = TRUE, !.cnt = 1]
                /\ UNCHANGED <<lk_lockholder, queue, local, held>>

SetHolderForgotten(t) == /\ Move(t, "owner", "idle")
                         /\ ex' = [ex EXCEPT ![t] = @ + 1]
                         /\ UNCHANGED <<lk_count, lk_lockholder, queue, local, sh>>

\* The holder is written after the lock word.
SetHolder(t) == /\ Move(t, "owner", "idle")
                /\ lk_lockholder' = t
                /\ ex' = [ex EXCEPT ![t] = @ + 1]
                /\ UNCHANGED <<lk_count, queue, local, sh>>

ExclInterlock(t) == /\ lk_count # Free /\ lk_lockholder # t
                    /\ Interlock(t, "excl", "ex_want")

ExclWait(t) == /\ Move(t, "ex_want", "ex_sleep")
               /\ lk_count = count[t]
               /\ lk_count' = [lk_count EXCEPT !.exreq = TRUE]
               /\ Forget(t)
               /\ UNCHANGED <<lk_lockholder, queue, otd, held>>

\* EBUSY, for a caller with LK_NOWAIT
Nowait(t) == /\ \/ pc[t] = "shared" /\ (lk_lockholder = t \/ SharedBlocked(t))
                \/ pc[t] = "excl" /\ lk_count # Free
             /\ Goto(t, "idle")
             /\ UNCHANGED <<lk_count, lk_lockholder, queue, local, held>>
-----------------------------------------------------------------------------
(* LK_DOWNGRADE *)

Downgrade(t) == /\ Move(t, "idle", "downgrade")
                /\ ex[t] = 1
                /\ UNCHANGED <<lk_count, lk_lockholder, queue, local, held>>

\* The holder is cleared before LKC_EXCL is.
DowngradeClear(t) == /\ pc[t] = "downgrade"
                     /\ GotoIf(t, /\ lk_lockholder = t
                                  /\ lk_count.excl /\ lk_count.cnt = 1, "down")
                     /\ count' = [count EXCEPT ![t] = lk_count]
                     /\ otd' = [otd EXCEPT ![t] = lk_lockholder]
                     /\ lk_lockholder' = NULL
                     /\ UNCHANGED <<lk_count, queue, held>>

DowngradeNoWakeup(t) ==
    /\ Move(t, "down", "idle")
    /\ lk_count = count[t]
    /\ lk_count' = [lk_count EXCEPT !.excl = FALSE, !.shreq = FALSE]
    /\ ex' = [ex EXCEPT ![t] = 0]
    /\ sh' = [sh EXCEPT ![t] = @ + ex[t]]
    /\ Forget(t)
    /\ otd' = [otd EXCEPT ![t] = NULL]
    /\ UNCHANGED <<lk_lockholder, queue>>

DowngradeDone(t) ==
    /\ pc[t] = "down"
    /\ lk_count = count[t]
    /\ lk_count' = [lk_count EXCEPT !.excl = FALSE, !.shreq = FALSE]
    /\ Goto(t, IF lk_count.shreq THEN "wake" ELSE "idle")
    /\ ex' = [ex EXCEPT ![t] = 0]
    /\ sh' = [sh EXCEPT ![t] = @ + ex[t]]
    /\ Forget(t)
    /\ otd' = [otd EXCEPT ![t] = NULL]
    /\ UNCHANGED <<lk_lockholder, queue>>
-----------------------------------------------------------------------------
(* LK_UPGRADE, LK_EXCLUPGRADE and LK_WAITUPGRADE *)

Upgrade(t) == /\ pc[t] = "idle" /\ sh[t] = 1
              /\ \E l \in {"upgrade", "exclupgrade"} : Goto(t, l)
              /\ UNCHANGED <<lk_count, lk_lockholder, queue, local, held>>

\* By a caller that has the lock exclusively: the code makes it a NOP, where
\* lock.9 promises a panic.
UpgradeOwned(t) == /\ pc[t] = "idle" /\ ex[t] > 0
                   /\ \E l \in {"upgrade", "exclupgrade"} : Goto(t, l)
                   /\ UNCHANGED <<lk_count, lk_lockholder, queue, local, held>>

Upgrading(t) == \/ pc[t] = "upgrade"
                \/ pc[t] = "exclupgrade" /\ ~ lk_count.upreq

\* The shared lock is released: another upgrade is ahead of LK_EXCLUPGRADE ...
UpgradeAhead(t) == /\ Move(t, "exclupgrade", "release")
                   /\ lk_count.upreq
                   /\ sh' = [sh EXCEPT ![t] = @ - 1]
                   /\ UNCHANGED <<lk_count, lk_lockholder, queue, local, ex>>

UpgradeBlocked == /\ ~ lk_count.excl /\ lk_count.cnt > 0
                  /\ lk_count.upreq \/ lk_count.cnt > 1

\* ... or the upgrade would sleep and the caller passed LK_NOWAIT.
UpgradeNowait(t) == /\ Upgrading(t) /\ UpgradeBlocked
                    /\ Goto(t, "release")
                    /\ sh' = [sh EXCEPT ![t] = @ - 1]
                    /\ UNCHANGED <<lk_count, lk_lockholder, queue, local, ex>>

UpgradeSoleIgnoresUpreq(t) ==
    /\ Upgrading(t) /\ Goto(t, "owner")
    /\ lk_count.cnt = 1 /\ ~ lk_count.excl
    /\ lk_count' = [lk_count EXCEPT !.excl = TRUE]
    /\ sh' = [sh EXCEPT ![t] = @ - 1]
    /\ UNCHANGED <<lk_lockholder, queue, local, ex>>

UpgradeSole(t) == /\ Upgrading(t) /\ Goto(t, "owner")
                  /\ lk_count.cnt = 1 /\ ~ lk_count.upreq /\ ~ lk_count.excl
                  /\ lk_count' = [lk_count EXCEPT !.excl = TRUE]
                  /\ sh' = [sh EXCEPT ![t] = @ - 1]
                  /\ UNCHANGED <<lk_lockholder, queue, local, ex>>

\* Already exclusive: nothing to do.
UpgradeNop(t) == /\ Upgrading(t)
                 /\ lk_count.excl \/ lk_count.cnt = 0
                 /\ GotoIf(t, lk_count.excl /\ lk_lockholder = t, "idle")
                 /\ UNCHANGED <<lk_count, lk_lockholder, queue, local, held>>

UpgradeInterlock(t) ==
    /\ Upgrading(t) /\ UpgradeBlocked
    /\ Interlock(t, pc[t], IF pc[t] = "upgrade" THEN "up_want" ELSE "xup_want")

\* The compare-and-set of the word w with which the upgrader gives up its
\* shared count.
UpgradeTo(t, w, l) == /\ pc[t] \in {"up_want", "xup_want"}
                      /\ lk_count = count[t]
                      /\ lk_count' = w
                      /\ Goto(t, l)
                      /\ sh' = [sh EXCEPT ![t] = @ - 1]
                      /\ Forget(t)
                      /\ UNCHANGED <<lk_lockholder, queue, otd, ex>>

UpgradeRequest(t) == /\ ~ lk_count.upreq
                     /\ UpgradeTo(t, [lk_count EXCEPT !.upreq = TRUE,
                                                      !.cnt = @ - 1], "up_sleep")

UpgradeYieldNot(t) == /\ lk_count.upreq /\ lk_count.cnt > 1
                      /\ UpgradeTo(t, [lk_count EXCEPT !.cnt = @ - 1], "up_sleep")

\* Someone else has LKC_UPREQ: ask for an exclusive lock instead.
UpgradeYield(t) == /\ lk_count.upreq /\ lk_count.cnt > 1
                   /\ UpgradeTo(t, [lk_count EXCEPT !.exreq = TRUE,
                                                    !.cnt = @ - 1], "up_lost")

\* ... and this is the last shared count: the lock is theirs.
UpgradeGrant(t) == /\ lk_count.upreq /\ lk_count.cnt = 1
                   /\ UpgradeTo(t, [lk_count EXCEPT !.exreq = TRUE,
                                                    !.excl = TRUE,
                                                    !.upgrant = TRUE,
                                                    !.upreq = FALSE], "up_wake")

Granted(t) == /\ pc[t] = "waitup" /\ lk_count.upgrant
              /\ GotoIf(t, lk_count.excl, "owner")
              /\ lk_count' = [lk_count EXCEPT !.upgrant = FALSE]
              /\ UNCHANGED <<lk_lockholder, queue, local, held>>

WaitInterlock(t) == /\ ~ lk_count.upgrant
                    /\ Interlock(t, "waitup", "wait_want")

WaitAgain(t) == /\ Move(t, "wait_want", "wait_sleep")
                /\ lk_count = count[t]
                /\ Forget(t)
                /\ UNCHANGED <<lk_count, lk_lockholder, queue, otd, held>>
-----------------------------------------------------------------------------
(* Sleeping, waking up and starting again *)

\* "again:" after a comparison that failed.  The thread stays on the queue; a
\* lk_lockholder that was cleared is put back.
AgainKeepsNull(t) ==
    \E p \in {<<"sh_want", "shared">>, <<"ex_want", "excl">>,
              <<"up_want", "upgrade">>, <<"xup_want", "exclupgrade">>,
              <<"wait_want", "waitup">>, <<"down", "downgrade">>,
              <<"rel_last", "release">>} :
       /\ Move(t, p[1], p[2])
       /\ lk_count # count[t]
       /\ Forget(t)
       /\ otd' = [otd EXCEPT ![t] = NULL]
       /\ UNCHANGED <<lk_count, lk_lockholder, queue, held>>

Again(t) ==
    \E p \in {<<"sh_want", "shared">>, <<"ex_want", "excl">>,
              <<"up_want", "upgrade">>, <<"xup_want", "exclupgrade">>,
              <<"wait_want", "waitup">>, <<"down", "downgrade">>,
              <<"rel_last", "release">>} :
       /\ Move(t, p[1], p[2])
       /\ lk_count # count[t]
       /\ lk_lockholder' = IF p[1] \in {"down", "rel_last"} THEN otd[t]
                                                            ELSE lk_lockholder
       /\ Forget(t)
       /\ otd' = [otd EXCEPT ![t] = NULL]
       /\ UNCHANGED <<lk_count, queue, held>>

\* tsleep() returns 0.  An upgrader then waits for the grant if it set
\* LKC_UPREQ, and for an exclusive lock if another thread had.
Woken(t) ==
    \E p \in {<<"sh_sleep", "shared">>, <<"ex_sleep", "excl">>,
              <<"up_lost", "excl">>, <<"up_sleep", "waitup">>,
              <<"wait_sleep", "waitup">>} :
       /\ Move(t, p[1], p[2])
       /\ t \notin queue
       /\ UNCHANGED <<lk_count, lk_lockholder, queue, local, held>>

\* tsleep() fails (a timeout, a signal), or it returns and the caller passed
\* LK_SLEEPFAIL.  A signal that is pending on entry makes tsleep() return with
\* the thread still on the queue.
SleepFails(t, from, to) == /\ Move(t, from, to)
                           /\ queue' \in {queue, queue \ {t}}
                           /\ UNCHANGED <<lk_count, lk_lockholder, local, held>>

SleepError(t) == \E l \in {"sh_sleep", "ex_sleep", "up_lost"} :
                    SleepFails(t, l, "idle")

\* wakeup(lkp); after it an upgrader that granted the lock sleeps itself.
Wakeup(t) == /\ \E p \in {<<"wake", "idle">>, <<"up_wake", "up_lost">>} :
                   Move(t, p[1], p[2])
             /\ queue' = {}
             /\ UNCHANGED <<lk_count, lk_lockholder, local, held>>
-----------------------------------------------------------------------------
(* LK_RELEASE and lockmgr_kernproc() *)

\* Anyone may release a lock that belongs to the kernel.
Unlock(t) == /\ Move(t, "idle", "release")
             /\ \/ \E h \in {t, KERN} : /\ ex[h] > 0
                                        /\ ex' = [ex EXCEPT ![h] = @ - 1]
                                        /\ UNCHANGED sh
                \/ /\ sh[t] > 0
                   /\ sh' = [sh EXCEPT ![t] = @ - 1]
                   /\ UNCHANGED ex
             /\ UNCHANGED <<lk_count, lk_lockholder, queue, local>>

\* Exclusive: only the holder may.  The last count clears the holder first.
\* There is no way on from "rel_upreq", the code's branch for an exclusive
\* lock with an upgrade request: RequestUnderShared shows that it is dead.
ReleaseExcl(t) ==
    /\ pc[t] = "release"
    /\ lk_count.excl /\ lk_count.cnt = 1
    /\ GotoIf(t, lk_lockholder \in {KERN, t},
              IF lk_count.upreq THEN "rel_upreq" ELSE "rel_last")
    /\ count' = [count EXCEPT ![t] = lk_count]
    /\ otd' = [otd EXCEPT ![t] = lk_lockholder]
    /\ lk_lockholder' = NULL
    /\ UNCHANGED <<lk_count, queue, held>>

ReleaseLastExcl(t) ==
    /\ pc[t] = "rel_last"
    /\ lk_count = count[t]
    /\ lk_count' = [lk_count EXCEPT !.cnt = 0, !.excl = FALSE,
                                    !.exreq = FALSE, !.shreq = FALSE]
    /\ Goto(t, IF lk_count.exreq \/ lk_count.shreq THEN "wake" ELSE "idle")
    /\ Forget(t)
    /\ otd' = [otd EXCEPT ![t] = NULL]
    /\ UNCHANGED <<lk_lockholder, queue, held>>

ReleaseShNoWakeup(t) ==
    /\ Move(t, "release", "idle")
    /\ ~ lk_count.excl /\ lk_count.cnt = 1 /\ ~ lk_count.upreq
    /\ lk_count' = [lk_count EXCEPT !.cnt = 0, !.exreq = FALSE, !.shreq = FALSE]
    /\ UNCHANGED <<lk_lockholder, queue, local, held>>

ReleaseLastSh(t) ==
    /\ pc[t] = "release"
    /\ ~ lk_count.excl /\ lk_count.cnt = 1 /\ ~ lk_count.upreq
    /\ lk_count' = [lk_count EXCEPT !.cnt = 0, !.exreq = FALSE, !.shreq = FALSE]
    /\ Goto(t, IF lk_count.exreq \/ lk_count.shreq THEN "wake" ELSE "idle")
    /\ UNCHANGED <<lk_lockholder, queue, local, held>>

ReleaseGrantKeepsUpreq(t) ==
    /\ Move(t, "release", "wake")
    /\ ~ lk_count.excl /\ lk_count.cnt = 1 /\ lk_count.upreq
    /\ lk_count' = [lk_count EXCEPT !.excl = TRUE, !.upgrant = TRUE]
    /\ UNCHANGED <<lk_lockholder, queue, local, held>>

ReleaseGrantNoWakeup(t) ==
    /\ Move(t, "release", "idle")
    /\ ~ lk_count.excl /\ lk_count.cnt = 1 /\ lk_count.upreq
    /\ lk_count' = [lk_count EXCEPT !.upreq = FALSE, !.excl = TRUE,
                                    !.upgrant = TRUE]
    /\ UNCHANGED <<lk_lockholder, queue, local, held>>

\* The last shared count goes to the owner of the upgrade request.
ReleaseGrant(t) ==
    /\ Move(t, "release", "wake")
    /\ ~ lk_count.excl /\ lk_count.cnt = 1 /\ lk_count.upreq
    /\ lk_count' = [lk_count EXCEPT !.upreq = FALSE, !.excl = TRUE,
                                    !.upgrant = TRUE]
    /\ UNCHANGED <<lk_lockholder, queue, local, held>>

\* Not the last count (and "no lock held").
ReleaseCount(t) ==
    /\ pc[t] = "release" /\ lk_count.cnt # 1
    /\ GotoIf(t, /\ lk_count.cnt > 0
                 /\ lk_count.excl => lk_lockholder \in {KERN, t}, "idle")
    /\ lk_count' = [lk_count EXCEPT !.cnt = IF @ > 0 THEN @ - 1 ELSE 0]
    /\ UNCHANGED <<lk_lockholder, queue, local, held>>

Kernproc(t) == /\ pc[t] = "idle" /\ ex[t] > 0
               /\ GotoIf(t, lk_lockholder = t, "idle")
               /\ lk_lockholder' = KERN
               /\ ex' = [ex EXCEPT ![t] = 0, ![KERN] = ex[t]]
               /\ UNCHANGED <<lk_count, queue, local, sh>>
-----------------------------------------------------------------------------
(* An upgrade request that fails: undo_upreq() *)

\* The first sleep of an upgrade fails: error return.
UpgradeSleepError(t) == SleepFails(t, "up_sleep", "idle")

WaitSleepError(t) == SleepFails(t, "wait_sleep", "undo")

\* The grant came first: clear it and release the lock.
UndoGrant(t) == /\ Move(t, "undo", "release")
                /\ lk_count.upgrant
                /\ lk_count' = [lk_count EXCEPT !.upgrant = FALSE]
                /\ UNCHANGED <<lk_lockholder, queue, local, held>>

\* Take the request back.  Shared waiters are woken up unless an exclusive
\* request keeps them waiting.
UndoRequest(t) ==
    /\ pc[t] = "undo" /\ ~ lk_count.upgrant
    /\ lk_count' = [lk_count EXCEPT !.upreq = FALSE,
                       !.shreq = @ /\ (lk_count.excl \/ lk_count.exreq)]
    /\ GotoIf(t, lk_count.upreq /\ lk_count.cnt > 0,
              IF lk_count.excl \/ (lk_count.shreq /\ ~ lk_count.exreq)
              THEN "wake" ELSE "idle")
    /\ UNCHANGED <<lk_lockholder, queue, local, held>>
-----------------------------------------------------------------------------
\* Steps inside lockmgr() that no flag of the caller is needed for.
Running(t) ==
    \/ SharedGrant(t) \/ Recurse(t) \/ SharedInterlock(t) \/ SharedWait(t)
    \/ ExclGrant(t) \/ SetHolder(t) \/ ExclInterlock(t) \/ ExclWait(t)
    \/ DowngradeClear(t) \/ DowngradeDone(t)
    \/ UpgradeAhead(t) \/ UpgradeSole(t) \/ UpgradeNop(t) \/ UpgradeInterlock(t)
    \/ UpgradeRequest(t) \/ UpgradeYield(t) \/ UpgradeGrant(t)
    \/ Granted(t) \/ WaitInterlock(t) \/ WaitAgain(t)
    \/ Again(t) \/ Woken(t) \/ Wakeup(t)
    \/ ReleaseExcl(t) \/ ReleaseLastExcl(t) \/ ReleaseLastSh(t)
    \/ ReleaseGrant(t) \/ ReleaseCount(t)

\* Steps that only callers with LK_NOWAIT, LK_SLEEPFAIL, LK_TIMELOCK or
\* LK_PCATCH take.
Failing(t) == Nowait(t) \/ UpgradeNowait(t) \/ SleepError(t)

Request(t) == LockSh(t) \/ LockEx(t) \/ Upgrade(t)

\* Callers that block until they have what they ask for.
BlockingNext == \E t \in Threads : Running(t) \/ Request(t) \/ Unlock(t)

Next == \/ BlockingNext
        \/ \E t \in Threads : \/ Failing(t)
                              \/ Downgrade(t) \/ UpgradeOwned(t) \/ Kernproc(t)

Spec == Init /\ [][Next]_vars

\* The scheduler runs every thread, and a caller that has the lock does not
\* keep it forever.
Fairness == \A t \in Threads : WF_vars(Running(t)) /\ WF_vars(Unlock(t))

FairSpec == Init /\ [][BlockingNext]_vars /\ Fairness

\* Upgraders whose sleeps may fail.
UpgradeErrorNext ==
    Next \/ \E t \in Threads : \/ UpgradeSleepError(t) \/ WaitSleepError(t)
                              \/ UndoGrant(t) \/ UndoRequest(t)

UpgradeErrorSpec == Init /\ [][UpgradeErrorNext]_vars
-----------------------------------------------------------------------------
(* Properties *)

Sleeping == {"sh_sleep", "ex_sleep", "up_lost", "up_sleep", "wait_sleep"}

PCs == Sleeping \cup
       {"idle", "shared", "sh_want", "excl", "ex_want", "owner", "downgrade",
        "down", "upgrade", "exclupgrade", "up_want", "xup_want", "up_wake",
        "waitup", "wait_want", "undo", "wake", "release", "rel_last", "panic"}

Words == [exreq : BOOLEAN, shreq : BOOLEAN, upreq : BOOLEAN, excl : BOOLEAN,
          upgrant : BOOLEAN, cnt : Nat]

\* Type invariant.  "rel_upreq", the branch of LK_RELEASE for an exclusive lock
\* with an upgrade request, is not among the PCs.
TypeOK == /\ lk_count \in Words
          /\ lk_lockholder \in Holders \cup {NULL}
          /\ queue \subseteq Threads
          /\ pc \in [Threads -> PCs]
          /\ count \in [Threads -> Words]
          /\ otd \in [Threads -> Holders \cup {NULL}]
          /\ ex \in [Holders -> Nat]
          /\ sh \in [Holders -> Nat]

Inside(l) == {t \in Threads : pc[t] \in l}

\* The owner of the upgrade request: the thread that set LKC_UPREQ and now
\* waits for LKC_UPGRANT.
UpgradeOwner == {"up_sleep", "waitup", "wait_want", "wait_sleep", "undo"}

\* No panic or KKASSERT of lockmgr() is reached by callers that release what
\* they hold: "not exclusive lock holder", "no lock held", "upgrade unowned
\* lock", "not holding exclusive lock".  That includes an upgrade by the
\* exclusive holder (UpgradeOwned), for which lock.9 says that there is a panic:
\* the code and its comment make it a NOP, and this says that it is one.
NoPanic == \A t \in Threads : pc[t] # "panic"

\* Threads whose acquisition is in the lock word but not with the caller: not
\* yet recorded in lk_lockholder, or being released.
InCall == {"owner", "release", "rel_last", "panic"}

\* Everything that lk_count counts, each thing once: the first, second, ...
\* acquisition of every caller, <<t, 0>> for a thread that is InCall, and
\* <<NULL, 0>> for the count that LKC_UPGRANT keeps for the upgrader.
Counted == (UNION {{<<h, i>> : i \in 1 .. ex[h] + sh[h]} : h \in Holders})
              \cup {<<t, 0>> : t \in Inside(InCall)}
              \cup {<<n, 0>> : n \in IF lk_count.upgrant THEN {NULL} ELSE {}}

\* lk_count counts every acquisition exactly once, at every instruction.
HoldersCounted == lk_count.cnt = Cardinality(Counted)

\* A lock that nobody holds has no request flag left: LK_EXCLUSIVE only takes a
\* lock whose word is 0, so a left over LKC_EXREQ, LKC_SHREQ or LKC_UPREQ
\* would keep everyone out ("EXREQ is automatically cleared when all current
\* holders release so if we abort the operation we can safely leave it set").
IdleClean == lk_count.cnt = 0 => lk_count = Free

\* lockowned(), lockstatus() and the recursion test find a caller that holds
\* the lock exclusively in lk_lockholder, although release, downgrade and grant
\* clear and write it separately from the lock word.
HolderKnown == \A h \in Holders :
                  ex[h] > 0 /\ (h = KERN \/ pc[h] = "idle")
                     => lk_count.excl /\ lk_lockholder = h

\* At every instruction of lockmgr() the lock word and lk_lockholder agree with
\* what the threads hold and wait for: the types, the count, no flag on a free
\* lock, and the holder recorded.
Consistent == TypeOK /\ HoldersCounted /\ IdleClean /\ HolderKnown

\* An upgrade request is pending only while the lock is shared and has exactly
\* one owner.  (The branch of LK_RELEASE for LKC_EXCL with LKC_UPREQ, which has
\* no "goto again" when its compare-and-set fails, is therefore dead.)
RequestUnderShared == lk_count.upreq =>
                         /\ ~ lk_count.excl /\ lk_count.cnt > 0
                         /\ Cardinality(Inside(UpgradeOwner)) = 1

\* A granted upgrade has the lock exclusively, once, with no holder recorded,
\* and there is exactly one thread that comes to take it.
GrantTaken == lk_count.upgrant => /\ lk_count.excl /\ lk_count.cnt = 1
                                  /\ ~ lk_count.upreq
                                  /\ Cardinality(Inside(UpgradeOwner)) = 1

\* "we want to fail rather than have an intervening exclusive access": from the
\* release of its shared count until it is granted the lock, the owner of the
\* upgrade request sees no other exclusive holder.
NoInterveningExclusive ==
    \A t \in Inside(UpgradeOwner) : /\ \A h \in Holders : ex[h] = 0
                                    /\ Inside({"owner", "rel_last"}) = {}

\* No wakeup is lost: a thread that sleeps on the queue has its request flag
\* set, or a wakeup() is about to come.
WakeupPending ==
    \A t \in queue :
       \/ Inside({"wake", "up_wake"}) # {}
       \/ /\ pc[t] = "sh_sleep" => lk_count.shreq
          /\ pc[t] \in {"ex_sleep", "up_lost"} => lk_count.exreq
          /\ pc[t] \in {"up_sleep", "wait_sleep"} => lk_count.upreq

\* Every sleeper is eventually woken up, in spite of others that keep coming:
\* a request flag keeps new shared holders out until the lock is released.
SleeperWoken == \A t \in Threads : (pc[t] \in Sleeping) ~> (pc[t] \notin Sleeping)

\* Whoever owns the upgrade request gets the exclusive lock.
UpgradeServed == \A t \in Threads : (pc[t] = "up_sleep") ~> (ex[t] > 0)

\* The lock manager implements the abstract shared/exclusive lock, with the
\* kernel (LK_KERNTHREAD) as one more holder.
RW == INSTANCE RWLock WITH Threads <- Holders

ImplementsRWLock == RW!RWSpec
=============================================================================
