# DragonFly BSD kernel synchronisation layer: TLA+ models

This directory holds TLA+ models of the lock primitives of the DragonFly
kernel (`sys/kern`, `sys/sys`), the TLC configurations that check them and
TLAPS proofs about them. Everything is translated from the C code; comments and
manual pages are only used for what the code is said to promise.

The repository is a whole operating system. The models take the part that
everything else in the kernel rests on, that is the DragonFly project's own
work, and that tests hardly reach: locks built from single atomic instructions
on packed words, run by many cpus at once.

## 1. Inventory

### Components of the synchronisation layer

| Component | Source | State | Operations | Must guarantee |
|---|---|---|---|---|
| Spinlocks | `kern_spinlock.c`, `spinlock2.h` | one word `counta`: shared bit, exclusive-wait counter, holder counter; per-cpu `gd_spinlocks`, per-thread `td_critcount` | try, lock, contested lock, unlock; shared variants | exclusion; exclusive requesters have priority; no field overflows into the next; word is 0 at rest |
| Mutexes | `kern_mutex.c`, `mutex2.h` | word `mtx_lock` (EXCLUSIVE, SHWANTED, EXWANTED, EXLINK, count), `mtx_owner`, circular list of links on the waiters' stacks | exclusive/shared/try/spin lock, unlock with direct handoff, withdrawal after a failed sleep, abort, upgrade, downgrade | exclusion with recursion; no lost handoff or wakeup; list never dangles; owner known |
| Lock manager | `kern_lock.c`, `lock.h` | word `lk_count` (EXREQ, SHREQ, UPREQ, EXCL, UPGRANT, count), `lk_lockholder`, one sleep queue | LK_SHARED, EXCLUSIVE, DOWNGRADE, UPGRADE, EXCLUPGRADE, RELEASE, `undo_upreq`, `lockmgr_kernproc` | exclusion; an upgrade is not overtaken; every count released once; no lost wakeup |
| tsleep/wakeup | `kern_synch.c`, `kern_sig.c` | per-cpu hash queues, cpu masks per chain, TDF_TSLEEP flags, callout, delayed wakeups | interlock, sleep, wakeup (any/one/cpu), delayed wakeup, endtsleep, signal | a wakeup, timeout or signal after the interlock is never lost |
| LWKT tokens | `lwkt_token.c`, `lwkt_switch()` | `t_count`, `t_ref`, per-thread stack of references | get/try/release, swap, all-or-nothing reacquisition at switch | exclusion while running; counts exact; no livelock between orders |
| Serializers | `lwkt_serialize.c`, `atomic.h` | one word: held bit, handler-disable bit, waiter count; `last_td` | enter/adaptive/try/exit, handler enable/disable/call/try, `zsleep` | exclusion; no handler after disable; no lost wakeup; the count stays in its field |
| umtx | `kern_umtx.c` | user word, physical address as sleep ident | `umtx_sleep`, `umtx_wakeup` | no lost wakeup across copy-on-write |
| Scheduler/threads | `lwkt_thread.c` | run queues, thread flags | schedule, deschedule, switch, preempt | every runnable thread runs |
| IPI queues | `lwkt_ipiq.c` | ring per cpu pair, indices | send, process, wait, cpusync | in-order delivery, no deadlock when full |
| Message ports | `lwkt_msgport.c` | port queues, message flags | send, do, reply, abort, wait | each message replied to once |
| Callouts | `kern_timeout.c` | timer wheel | reset, stop, run | stop means not running afterwards |

`PROJECT.json` also lists the rest of the repository (VM, VFS, HAMMER, network,
drivers, userland), with the reason why it is left out.

### How they interact

* Spinlocks use nothing but atomic instructions and the per-cpu critical
  section count. A cpu inside one cannot switch threads.
* Mutexes and the lock manager sleep with
  `tsleep_interlock(ident)`; recheck and set a request flag with a
  compare-and-set; `tsleep(PINTERLOCKED)`. They are woken with `wakeup(ident)`,
  after the flag was cleared by another compare-and-set. A mutex hands the lock
  to the head of its list; the lock manager wakes everybody to try again, except
  that an upgrade is granted directly (UPGRANT).
* tsleep uses the scheduler, IPIs (a wakeup for another cpu), callouts and, for
  timeouts, the lwp token.
* Tokens and serializers are used by the code that calls all of these.

### What is hard

The whole list, with lines, is `hazards` in `PROJECT.json`. The main kinds:

* **Two instructions where one is meant.** The owner of a mutex or a lockmgr
  lock is written separately from the word; a contested exclusive spinlock
  requester announces itself in two atomic operations; a shared spin unlock
  takes two.
* **Check, then sleep.** Between the read of the word and the sleep the holder
  may release.
* **Handoff against withdrawal.** A releaser hands the lock over in four steps
  while the waiter times out, is interrupted, or is aborted.
* **Flags left behind.** Requesters that give up leave EXREQ or EXWANTED set,
  and later operations must cope with it.
* **Failure half way.** An upgrade has already given up its shared count when
  its sleep fails.
* **Several wakers of one sleeper.** A wakeup from another cpu, a timeout that
  itself blocks on the lwp token, and a signal race each other and the thread
  that is about to sleep.
* **All or nothing.** A thread gets all its tokens back or gives up all of them,
  while others do the same in another order.
* **Liveness.** Request flags must hold up newcomers long enough, without
  anybody waiting for somebody who waits for him.

## 2. Modules

```
RWLock            abstract shared/exclusive lock (the promise)  <- RWLockProofs
  ^ ^ ^ ^ ^
  | | | | +-- Token       <- MCToken
  | | | |        ^------- TokenProofs
  | | | +---- Serialize   <- MCSerialize
  | | |          ^------- SerializeProofs
  | | |
  | | +------ Lockmgr     <- MCLockmgr
  | |            ^------- LockmgrProofs
  | +-------- Mutex       <- MCMutex
  |              ^------- MutexProofs
  +---------- Spinlock    <- MCSpinlock
                 ^------- SpinlockProofs

Tsleep            the sleep queues                  <- MCTsleep
  ^------------------------- TsleepProofs
```

An arrow up to RWLock is `INSTANCE RWLock WITH ...`: each lock module defines
`ImplementsRWLock`, the abstract specification under a refinement mapping. The
other arrows are `EXTENDS`. The MC modules only add constants and symmetry.

The same conventions hold in all modules:

* One step is one atomic instruction on the lock word, or one plain access to
  state that another thread can see change. A read that is validated by the
  following compare-and-set is one step with it, since a failed comparison has
  no effect and loops. Where the code does something between the read and the
  compare-and-set, the model keeps the value read and the failure is a step.
* The word is a record of its bit fields. The counters of the spinlock and of
  the serializer have sizes (`LowLimit`, `WaitLimit`, `CntLimit`), since blind
  adds could overflow them.
* Memory is sequentially consistent. The code runs on x86, whose locked
  instructions order all accesses around them.
* `pc` is the place in the code. `"idle"`, or `"run"` in Tsleep and Token, is
  the caller's own code.
* In Mutex and Lockmgr `ex` and `sh` count what was granted to the caller and
  not yet given back. They are history variables: no guard of lock code reads
  them. Guards of *callers* do, since a caller releases only what it has. The
  other modules define these counts from `pc`.
* A failed `KKASSERT` or a `panic()` is `pc = "panic"`.
* Names of fields, functions and local variables are those of the source.

### RWLock

`ex` and `sh` per thread; acquire, release, upgrade, downgrade and transfer of
ownership, each atomic. It says what is granted and never how: readers exclude
writers, a writer excludes all others, recursion counts, a conversion has no
gap.

### Spinlock

`counta`, and per cpu `pc`, `gd_spinlocks`, `td_critcount`. Actors are cpus.

| Action | Code |
|---|---|
| `TrylockEnter`, `Trylock`, `TrylockContested` | `spin_trylock`, `spin_trylock_contested` |
| `LockEnter`, `LockAdd`, `LockGranted` | `_spin_lock_quick`: the blind add and its test |
| `LockContested`, `Transfer`, `Unshare`, `SpinAcquire` | `_spin_lock_contested`: move the count to EXCLWAIT, clear SHARED, loop |
| `Unlock` | `spin_unlock_quick` |
| `SharedEnter`, `SharedQuick`, `SharedContested`, `SharedSpinFirst`, `SharedSpinJoin` | `_spin_lock_shared_quick`, `_spin_lock_shared_contested` |
| `UnlockShared`, `ClearShared` | `spin_unlock_shared_quick` |

Left out: the backoff and the statistics, which only delay; and
`spin_indefinite_check()`, which prints, panics after a minute, and once the system
has panicked (or in a test mode of INVARIANTS) lets a requester go on without the
lock (`kern_spinlock.c:249-250`, `:326-327`). Nothing here is said of these cases.

### Mutex

`mtx_lock`, `mtx_owner`, `mtx_link` (the circular list as a sequence, head
first), `state` of each thread's link, `sleepq` (the ident a thread is queued
on), and the locals `err`, `target`. The operations are grouped by what kind of
caller uses them, so that each run can ask its question of the callers it is
about:

* `Next`: uninterruptible exclusive, shared, try and spin callers, unlock,
  handoff;
* `TimedNext` adds sleeps that fail (`SleepError*`) and `mtx_delete_link`;
* `TrueOwnerNext` is `TimedNext` without the steps in which the recursion test of
  `__mtx_lock_ex()` is wrong about who has the lock (section 3);
* `AbortNext` adds `mtx_abort_ex_link`, `mtx_lock_ex_link` with a link that
  may be aborted before or after, and `mtx_upgrade_try`.

`INVARIANTS_` is the kernel option: when FALSE a `KKASSERT` is nothing. The runs
about failed sleeps use FALSE for their list properties, because with TRUE the
system stops at an assertion that fails after a failed sleep (section 3).

Left out: `mtx_downgrade`, which frees an uncontested lock (section 3), so that
nothing holds afterwards; `mtx_refs` (`mtx_hold`, `mtx_drop`), which no lock
operation reads; the critical section and `gd_spinlocks` of `mtx_spinlock()`,
whose word and owner are those of the other forms.

### Lockmgr

`lk_count`, `lk_lockholder`, `queue` (threads on the sleep queue of the lock),
the locals `count` and `otd`. `ex` and `sh` have an extra index `KERN`, the
holder after `lockmgr_kernproc()`. The external flags are chosen where the code
tests them: `Nowait`, `UpgradeNowait`, `SleepError`. `DeadlkTreat` is the set of
threads with TDF_DEADLKTREAT.

`Next` has every request type, that of LK_UPGRADE and LK_EXCLUPGRADE by a thread
that has the lock exclusively included (`UpgradeOwned`), which the code turns into
nothing. The two sleep failures of an upgrade that break
the lock are in a specification of their own (`UpgradeErrorSpec`), so that the
main run can say what holds without them.

The branch of LK_RELEASE for an exclusive lock with UPREQ set
(`kern_lock.c:523-539`) is the place `"rel_upreq"`; `TypeOK` and
`RequestUnderShared` show that it is never reached, and with it the EXCL branch
of `undo_upreq()`. That matters because this branch has no retry.

Left out: `lockreinit`, `lockuninit`, the DEBUG_LOCKS stacks, the read-only
status functions and printing.

### Serialize

`interlock` (fields `acq`, `dis`, `cnt`), `last_td`, per thread `pc`, `op` (the
call it is in) and `sleepq`, and `event`, what callers of `zsleep()` wait for.
`Calls` says which calls each thread makes.

| Action | Code |
|---|---|
| `Enter`, `CondEnter`, `CondInc`, `Retry`, `CondDec` | `atomic_intr_cond_enter`: locked `btsl`, `incl`, the loop, `decl` |
| `Interlock`, `CondTest`, `Woken` | `lwkt_serialize_sleep` |
| `AdaptiveEnter`, `SpinTry`, `SpinEnd`, `Uncount` | `lwkt_serialize_adaptive_enter`, which queues before it tries again |
| `Try`, `CondTry` | `lwkt_serialize_try`, `atomic_intr_cond_try` |
| `HandlerCall`, `HandlerTry`, `HandlerCheck`, `HandlerRecheck`, `HandlerDone` | `lwkt_serialize_handler_call`, `_handler_try` |
| `SetTd`, `CallExit`, `Exit`, `CondExit`, `CondExitTest`, `Wakeup` | the writes of `last_td`, `lwkt_serialize_exit`, `atomic_intr_cond_exit` |
| `HandlerDisable`, `HandlerEnable` | done by a holder, as drivers do |
| `ZInterlock`, `ZSleep`, `Signal`, `Consume` | `zsleep()` and its callers' condition |

ASSERT_SERIALIZED and ASSERT_NOT_SERIALIZED are part of the steps at which the code
has them: the entry of the enters and of `try`, the exit, and both ends of
`zsleep()`.

### Tsleep

Per cpu the queues `gd_tsleep_hash`, the critical section `crit`, the wakeup it
has yet to forward (`waking`), the IPIs under way to it (`ipiq`) and the two
delayed wakeups; shared `slpque_cpumasks`; per thread `td_wchan`, `td_flags`,
`lwp_stat`, `lwp_token`, the armed timeout `callout`, and its place. What code
does on its own cpu inside a critical section is one step, except that masks,
IPIs and `lwp_token` are shared with others, so that each access to these starts a
new step. `owed` and `owedOne` are history: the threads that were on the queue
when a wakeup of their ident was called and that it has not reached yet.

| Action | Code |
|---|---|
| `Interlock`, `InterlockAgain`, `InterlockInsert`, `CancelInterlock` | `_tsleep_interlock`, `tsleep_remove` |
| `Tsleep`, `TsleepSignal`, `TsleepLocked`, `TsleepWoken`, `Deschedule`, `SwitchIn`, `Wake`, `TimeoutRace` | `tsleep` |
| `Wakeup`, `Forward`, `WakeupMyCpu`, `WakeupOnCpu`, `Deliver` | `_wakeup` on this cpu, its IPIs, and on the others |
| `StartDelayed`, `RecordWakeup`, `RecordThird`, `EndDelayed`, `Flush` | `wakeup_start_delayed` ... |
| `EndTsleep`, `EndTsleepBlock`, `EndTsleepResume` | `endtsleep`, which may block on `lwp_token` |
| `SignalLocal`, `SignalRemote`, `TakeSignal` | `lwp_signotify`, `lwp_signotify_remote` |
| `OtherGettoken`, `OtherReltoken`, `GettokenBlock` | others that hold `lwp_token` |

Abstracted: an ident is the pair of address and PDOMAIN; the mask is read and
the IPIs are sent in one step when there is room for them. Left out:
stopped processes, `lwkt_sleep` with TDF_SINTR, migration, process-wide signals
(`p_siglist`), which error `tsleep()` returns, and `ssleep`, `mtxsleep`, `lksleep`,
which are an interlock, an unlock, `tsleep()` and a lock.

A `wakeup_one()` that reaches a thread which a signal or timeout has already
resumed is used up by it. `NoLostWakeupOne` says no more than what the code does:
the wakeup reaches some thread of those that were queued.

### Token

`t_count` (fields `ex`, `req`, `cnt`) and `t_ref` of each token; per thread the
stack `toks`, the references it has (`have`) and those it is to acquire (`want`)
in the order it acquires them, `spinning` of `lwkt_switch()` and `idle`, whether
the idle thread is the one that switches to it.

| Action | Code |
|---|---|
| `Gettoken`, `GettokenShared`, `Trytoken`, `Reltoken`, `Swap` | `lwkt_gettoken` ... `lwkt_token_swap` |
| `TakeExcl`, `SetRef`, `Recurse`, `TakeShared`, `Fail`, `FailRequest`, `SetReq` | `_lwkt_trytokref`, `_lwkt_trytokref_spin` |
| `RelClear`, `RelCas`, `RelShared` | `_lwkt_reltokref` |
| `Switch`, `GetAllTokens` with `Order` | `lwkt_switch`, `lwkt_getalltokens`, `_lwkt_getalltokens_sorted` |
| `CheckRef` | the assertion at the end of `lwkt_gettoken` |

`Order` is the set of the orders in which `lwkt_getalltokens()` may acquire the
references: the order of the stack, or the one that is sorted by `Before`, by address
and for the same token by the stack, which is what the insertion sort of the code
computes. `Held` has what a thread has acquired of a token. It counts a reference
from the instruction that wins the bit to the one that gives it up, so that it
includes the windows in which `t_ref` is not written yet or cleared already.

Every thread has a cpu of its own. Of the `lwkt_token_spin` tries of the last token
two are told apart: the first that sees TOK_EXCLREQ clear, after which another
follows, and the last, which may set the bit when the token has already been
released and fails all the same (`"setlast"`). With DEBUG_LOCKS the code asserts that a
thread which holds a token only shared does not ask for it exclusively; the model
takes that as the contract of its callers. Left out: the scan of
other threads of the same cpu when the first cannot run, pool tokens (a hash),
collision counts and logging.

### The sleep queue in the lock modules

Mutex, Lockmgr and Serialize use what they need of tsleep. A thread
is put on a queue by `tsleep_interlock()`, `wakeup()` takes all threads of the
ident off, and `tsleep(PINTERLOCKED)` returns when the thread is off the queue.
That is what `NoLostWakeup` and `SleeperQueued` of Tsleep are about: a thread
on the queue when `wakeup()` is called is taken off by it or by an IPI under way,
and one that is off the queue does not stay descheduled.
A sleep that may fail returns an error at any time, *and may leave the thread on
the queue*: with a signal pending on entry, `tsleep()` returns before it
dequeues. The thread is then still taken off by a later wakeup or interlock.

## 3. Runs

All runs use 3 threads, except `spinlock` (4 cpus) and `token` (2 threads).

| Run | Specification | Shows |
|---|---|---|
| `spinlock` | `FairSpec`, 4 cpus | types (field overflow), `Quiescent`, `ExclPriority`, refinement, `StarvedOnlyByExclusive` |
| `mutex` | `FairSpec`, recursion 2 | `Consistent` (types, owner known), no panic, refinement, `WaiterServed`, no deadlock |
| `mutex_timed` | `TrueOwnerSpec`, recursion 2 | no waiter asleep behind a lock that nobody has, no lost shared wakeup, and a safe list, when waiters withdraw |
| `mutex_abort` | `AbortSpec` | `LinksSafe`: list and EXLINK under aborts and upgrades |
| `lockmgr` | `Spec`, recursion 2, one deadlock-treated thread | `Consistent` (word, count and holder agree), the upgrade protocol, no lost wakeup, no panic, refinement; no deadlock |
| `lockmgr_live` | `FairSpec` | no deadlock, `SleeperWoken`, `UpgradeServed` |
| `serialize` | `FairSpec`, two driver threads, one interrupt thread | no panic, no lost wakeup, exact waiter count, no disabled handler called, `zsleep()` interlocked, refinement, `SleeperWoken` |
| `tsleep` | `Spec`, 2 cpus, 2 idents on one chain | `Consistent` (masks exact, nobody asleep off the queue); no wakeup, wakeup_one, timeout or signal lost; no panic |
| `token` | `FairSpec`, 2 tokens, stacks of 3 and 2 | `Consistent` (counts and `t_ref` exact), no panic, a running thread has all its tokens, refinement, `LivelockOnlyThroughIdle`, no deadlock |

What the properties mean is said above each of them in the modules. `Consistent`
and `LinksSafe` are conjunctions of named parts (`TypeOK`, `HolderIsOwner`,
`HoldersCounted`, `MaskExact`, ...), so that a counterexample or a proof can speak
of one part. `HoldersCounted` says that the count of `lk_count` is the cardinality of
`Counted`, the set with one element per acquisition, per thread that is about to
get or to give back a count inside a call, and for a granted upgrade. Exclusion of spinlocks and serializers is not listed apart: the
refinement of RWLock implies it, and it is proved as a theorem. The ones that
carry the argument:

* `HandoffPending`, `SharedWakeupPending`, `WakeupPending`: a sleeper's wakeup
  is guaranteed by a flag that the holder's release must see, or it is on its
  way. This is the no-lost-wakeup property as an invariant, so that it also
  says which flag is responsible.
* `HandoffPending` asks for a thread that *has* the lock (`Present`: it has a count
  that it will give back, or is handed one, or is inside the release), not for a
  count in the word. The two differ in `TimedSpec`: there a stale owner can recurse
  while a release works on an empty list, the release then clears only the lowest
  bit of a count of 2, and a count that nobody has stays behind. A waiter
  that comes later sleeps for good, so that `HandoffPending` is false in
  `TimedSpec`. This follows from the recursion test that `mutex_timed_owner` is
  about, and `TrueOwnerSpec` says so: it leaves out nothing but the steps in which
  this test is wrong, and in it `HandoffPending` holds.
* `NoDanglingLink`, `ExlinkExclusive`: the list consists of exactly the links
  of threads still inside their call, and EXLINK is a lock.
* `HoldersCounted`, `RequestUnderShared`, `GrantTaken`,
  `NoInterveningExclusive`: the upgrade protocol of the lock manager. The count
  of a granted upgrade belongs to exactly one thread, which will take it, and no
  exclusive holder came in between.
* `MaskExact` with `NoLostWakeup` of Tsleep: a cpu whose mask bit is clear has
  nobody on the chain, so that no wakeup has to go there; and who was queued when
  the wakeup was called is reached by it, however many cpus it still has to go
  through.
* `TimeoutPending`, `SignalPending`: an interruptible sleeper whose timeout ran
  out or whose signal came is runnable, or somebody is on the way to make it so.
* `CountMatches`, `DeepestRef`: the word of a token and its `t_ref` say exactly who
  has it, while a release takes `t_ref` away first and may have to put it back.
* `DisabledHandlerNotCalled`: the second look of `handler_call()` is enough,
  since drivers change the bit with the serializer held.
* `IdleClean`, `Quiescent`, `CountIsWaiters`: nothing is left in the word of a free lock.

Each property has a mutant in `PROJECT.json`: a plausible slip in the code
under which TLC finds it violated.

### Disagreements between the code and what is said of it

Each of these is a run that TLC ends with a violation. The `findings` of
`PROJECT.json` quote the text.

| Run | Source | The code | The text |
|---|---|---|---|
| `mutex_timed_owner` | `kern_mutex.c:698` | a release on an emptied list leaves `mtx_owner`; that thread later recurses into another's lock | "Exclusive-lock a mutex, block until acquired" |
| `lockmgr_upgrade_error` | `kern_lock.c:416` | a failed first sleep leaves UPREQ; the lock is then granted to nobody | "we have to undo the upgrade request" |
| `tsleep_timeout_race` | `kern_synch.c:638` | a thread that waits for its running `endtsleep()` has lwp_stat LSRUN, so that `setrunnable()` does not schedule it | "then wait for us to get scheduled" |

The stale owner of `mutex_timed_owner` has a second consequence, the lost waiter
described at `HandoffPending` above.

They are reachable only for callers that use these functions and flags; how the
rest of the kernel uses them is not modelled.

Others, met while modelling, that have no run of their own:

* `kern_mutex.c:178`: `mtx_chain_link()` sets a link ACQUIRED (`:672`) before it
  writes `mtx_owner` (`:673`); a waiter whose sleep failed looks in between and
  fails its assertion, "we should own the exclusive lock now".
* `kern_mutex.c:698`: with SHWANTED set, `mtx_chain_link()` clears `mtx_owner` after
  the word is free, perhaps that of the next owner, which then waits for itself
  when it recurses, against "Recursion is allowed" (`:73`). In `TrueOwnerSpec` this
  is left out as well.
* `kern_mutex.c:134`: the early abort gives up EXLINK and then clears EXWANTED,
  perhaps that of a thread which has just linked itself: the next release then frees
  the lock with a waiter on the list, against `:539-541`.
* `mutex2.h:246`: the inline path of `mtx_downgrade()` sets the word of an
  uncontested exclusive lock to 0, against "converted to a shared count".
* `kern_lock.c:617`: `undo_upreq()` releases a granted upgrade without having made
  the thread the holder, so that the release panics (`:503`), against "release
  the granted lock" (`:612-613`). `UndoGrant` models it.
* `lwkt_serialize.c:218`: `lwkt_serialize_handler_try()` does not look at the
  handler bit again once it has the serializer, while its comment (`:198`) and
  `serializer.9:142` call it similar to `handler_call()`. `DisabledHandlerNotCalled` is
  therefore about `handler_call()`.
* `lwkt_token.c:330`: shared acquisitions ignore TOK_EXCLREQ ("XXX EXCLREQ should
  work"), while `thread.h:101-106` says that it prevents them. Overlapping readers
  can keep a writer out.
* `lwkt_thread.c:779`: a thread that is not on the run queue switches through the
  idle thread, whose `lwkt_switch()` starts with `spinning` 0 each time and never
  increases it: its tokens are never tried in address order, against "Ultimately
  token failures will spin into the scheduler and get here"
  (`lwkt_token.c:532-533`). Without the words "or idle", TLC refutes
  `LivelockOnlyThroughIdle`: such a thread and one that acquires by address can make
  each other fail forever.

* `kern_spinlock.c:192-199`: a reader can still enter between the add of
  EXCLWAIT and the clear of SPINLOCK_SHARED, against "No new shared lock can be
  acquired while we hold the EXCLWAIT bits". `ExclPriority` is what does hold.
* `mutex2.h:264`: the inline path of `mtx_upgrade_try()` does not write
  `mtx_owner`, so that `mtx_owned()` is false afterwards.
* `mutex2.h:245`: `mtx_downgrade()` clears `mtx_owner` before it calls
  `_mtx_downgrade()`, which asserts that the caller is the owner.
* `kern_mutex.c:87`: a link that was aborted earlier still gets a free lock.
* `kern_lock.c:288`: LK_DOWNGRADE panics on a recursive lock, while the comment
  above it and `lock.9:135` say that all counts become shared. The models call
  it with a count of 1 only.
* `kern_lock.c:356-363`: LK_UPGRADE and LK_EXCLUPGRADE of a lock that the caller has
  exclusively do nothing, as the comment above them says, while `lock.9:142-143`,
  `:147-148` and `:248-251` say that they panic. `NoPanic` of Lockmgr includes these
  calls, so that it shows the code's side.
* `kern_lock.c:137-158`: LK_SHARED by the thread that has the lock exclusively is
  one more exclusive count with LK_CANRECURSE (`Recurse`) and a panic without, while `lock.h:79-81` and `lock.9:124-125` say
  that the lock is downgraded.
* `mutex2.h:368-372`: `mtx_notlocked_ex()` returns the opposite of its name.

### Bounds and why they are enough

* **Threads.** The states of a lock distinguish a holder, a waiter and one more
  actor that releases, withdraws, aborts or comes first: three. For the upgrade
  protocol: the upgrader, a reader whose release grants, and a rival. The
  spinlock has 4 cpus: two contested writers and two readers.
* **`LowLimit`, `WaitLimit`** are just above the number of cpus, the smallest
  values the assumption allows: any count too many would overflow.
* **`CntLimit`** likewise.
* **Tsleep**: two threads on one cpu and one on the other, two idents on one hash
  chain, so that a chain may be empty of one ident and not of the other, and a
  third delayed wakeup finds both slots taken. One process thread is enough for
  timeout and signal, which concern one thread and its lwp token. `MaxIpi` is 1: a
  sender that finds no room waits with the rest of its work undone, the most
  that a delayed IPI can do.
* **Token**: a stack of 3 is the least in which a recursive reference can be moved
  away from the first by a swap; two tokens are the least with two orders.
  `SpinLoops` is 1 instead of 10: one failure in stack order, then by address.
* **`Calls`** limits what each thread of Serialize and Token does, so that together they
  do everything; the proofs about Serialize and Token do not depend on it.
* **`MaxHold`** bounds recursion: 2 where recursion matters (first and last
  count are different branches; in `mutex_timed` a recursion while a release is under
  way), 1 for the others.
* Sequences, queues and counters need no bound of their own: they are bounded
  by the threads.
* Symmetry is used in runs without liveness only. `Perms` of MCLockmgr
  keeps `DeadlkTreat`.

### Fairness

* **Spinlock**: weak fairness of each cpu inside the routines or holding the
  lock. A cpu there is in a hard critical section and executes. Nothing makes a
  cpu ask. For exclusive requesters the code's promise is that *readers* cannot
  starve them. For shared requesters it makes none: nothing in the word records
  a waiting reader.
* **Mutex**, **Lockmgr**: weak fairness of each thread's steps inside the
  routines (the scheduler runs every runnable thread) and of its release (a
  caller does not keep the lock forever).
* `WaiterServed` excepts a lock that is shared forever, because
  `__mtx_lock_sh()` does not look at EXWANTED, and an owner that recurses
  again and again, so that its release is never the last.
* `lockmgr_live` is about blocking callers: `Downgrade`, `lockmgr_kernproc()`
  and failing flags are not in `BlockingNext`, since when the kernel releases a
  lock given to it is not decided here. `DeadlkTreat` is empty: treated readers
  pass over EXREQ, so two of them may starve a writer, by design. `MaxHold` is 1,
  since an owner that recurses forever starves the others here, too.

* **Serialize**: weak fairness of the steps inside the routines and of leaving;
  nothing makes a thread enter or an event come. Who sleeps is woken; it may then
  find the serializer taken again, since nothing is handed over.
* **Token**: weak fairness of the steps inside the routines. Nobody has to
  release or yield: `LivelockOnlyThroughIdle` says that threads do not keep
  *each other* from running, so some thread always runs again.
* **Tsleep** has no fairness: its properties are invariants that name who is on the
  way to wake a thread. The liveness of the whole was too large for TLC.

Deadlock is checked in `spinlock`, `mutex`, `lockmgr`, `lockmgr_live` and `token`. In
`serialize` and `tsleep` all threads may wait for an event that never comes.
The others contain the steps that the disagreements show to end in a panic or
with a waiter forgotten.

## 4. Proofs

`RWLockProofs` proves `RWMutualExclusion`: in every state of the abstract lock, for
every set of threads, no count is negative and an exclusive holder is the only
holder. Each lock is proved below to implement `RWLock`, so this is what a caller of
any of them may rely on.

`SpinlockProofs` proves, for every finite set of cpus and all field sizes larger
than the number of cpus (`CpusAssumption`, `LimitAssumption`; the kernel has
2^20 and 2^11):

| Theorem | Statement |
|---|---|
| `SpinInvariance` | `Spec => []IInv` |
| `SpinTypeCorrect` | `Spec => []TypeOK`: no counter leaves its field |
| `SpinMutualExclusion` | `Spec => []MutualExclusion` |
| `SpinQuiescent` | `Spec => []Quiescent` |
| `SpinExclPriority` | `Spec => ExclPriority` |
| `SpinRefinesRWLock` | `Spec => ImplementsRWLock` |

**Argument.** Mutual exclusion is not inductive: it says nothing about the word.
`IInv` adds what the word means.

* `Counts`: `low` is the number of cpus at the places in `LowPCs` (testing after
  the add, about to transfer, holding), `wait` the number in `WaitPCs`. So a
  cpu that saw `low = 1` after its own add knows it is alone, and `low = 0`
  means there is no holder.
* `SharedBit`: while SHARED is set nobody holds exclusively and nobody is in the
  exclusive loop, and somebody is at a place from where it will be cleared.
  The first half gives exclusion and priority, the second `Quiescent`.
* `Crit`: the two critical section counts are 1 inside and 0 outside.

The lemma `AtMove` does the counting: moving one cpu changes the number of cpus
at a set of places by what this cpu contributes. `IInvMove` covers the steps that
do not touch the word; `IInvNext` has one case per remaining action. Type
correctness follows since a set of cpus is no larger than `Cpus`.

`SerializeProofs` proves, for every finite set of threads, whatever calls they
make, and every count field larger than their number (`ThreadsAssumption`,
`CntAssumption`; the kernel has 2^30):

| Theorem | Statement |
|---|---|
| `SerializeInvariance` | `Spec => []IInv` |
| `SerializeTypeCorrect` | `Spec => []TypeOK`: the count stays below bit 30 |
| `SerializeMutualExclusion` | `Spec => []MutualExclusion` |
| `SerializeNoPanic` | `Spec => []NoPanic` |
| `SerializeCountExact` | `Spec => []CountIsWaiters` |
| `SerializeNoLostWakeup` | `Spec => []NoLostWakeup` |
| `SerializeHandler` | `Spec => []DisabledHandlerNotCalled` |
| `SerializeZSleep` | `Spec => []ZSleepInterlocked` |
| `SerializeRefinesRWLock` | `Spec => ImplementsRWLock` |

**Argument.** The invariants need each other. Exclusion needs `AcqBit` (bit 31 is
set exactly while somebody is at a place in `HolderPCs`). `NoPanic` needs
`LastTd`, which needs exclusion. A releaser that reads a count of 0 leaves without a
wakeup; that this loses nobody needs `CountIsWaiters`. A disabled handler is not
called because whoever changes the bit holds the serializer, which again is exclusion.
The lemma `StepFacts` goes through the 31 actions once and reduces each to what it
does to the thread's place, the bit, the count, `last_td`, the handler
bit and the queues (`Moves`, `Bit`, `Counted`, `Named`, `Handler`, `Queued`,
`Slept`). One lemma per part of `IInv` then argues from these facts alone.

`LockmgrProofs` proves, for every set of threads, every choice of `DeadlkTreat`
and every `MaxHold`, of `Spec` (all request types and flags, but not the two
failing sleeps of an upgrade):

| Theorem | Statement |
|---|---|
| `LockmgrInvariance` | `Spec => []IInv` |
| `LockmgrConsistent` | `Spec => []Consistent`: types, exact count, clean free lock, known holder |
| `LockmgrNoPanic` | `Spec => []NoPanic` |
| `LockmgrRequestUnderShared` | `Spec => []RequestUnderShared` |
| `LockmgrGrantTaken` | `Spec => []GrantTaken` |
| `LockmgrNoInterveningExclusive` | `Spec => []NoInterveningExclusive` |
| `LockmgrWakeupPending` | `Spec => []WakeupPending` |
| `LockmgrRefinesRWLock` | `Spec => ImplementsRWLock` |

**Argument.** What a release or an upgrade does is decided by the count: a count of
1 must mean that nobody else has one. So the first part of `IInv` is
`HoldersCounted`, with `Counted` finite. `CountFacts` draws from it what the code
relies on (`CountSays`), `CountStep` and `CountMove` say that it is kept when the
count moves with what one thread does. The other parts:

* `Modes`: what LKC_EXCL says of the holders. It is what exclusion and the
  refinement follow from.
* `Recorded`: an exclusive holder is in `lk_lockholder`, except between the two
  writes of a downgrade, an exception that the code's own comments do not name.
* `Places`: what each place in `lockmgr()` knows of the lock and of its locals
  `count` and `otd`. Without it a stale local could pass a compare-and-set.
* `Requests`: UPREQ or UPGRANT is set exactly while one thread is on its way to
  take the grant. Needed since the grant is a count without a holder.

One lemma per action, or per group of actions that do the same to the invariant,
proves that it is kept; its steps are the parts of `IInv`.

`MutexProofs` proves, for every set of threads, every `MaxHold`, with and without
the kernel option INVARIANTS:

| Theorem | Statement |
|---|---|
| `MutexTimedLinks` | `TimedSpec => []LinksSafe` |
| `MutexAbortLinks` | `AbortSpec => []LinksSafe` |
| `MutexTimedInvariance` | `TimedSpec => []TInv` |
| `MutexHandoffPending` | `TrueOwnerSpec => []HandoffPending` |
| `MutexPlainHandoffPending` | `Spec => []HandoffPending` |
| `MutexSharedWakeupPending` | `TimedSpec => []SharedWakeupPending` |
| `MutexInvariance` | `Spec => [](TInv /\ SInv)` |
| `MutexConsistent` | `Spec => []Consistent` |
| `MutexNoPanic` | `Spec => []NoPanic` |
| `MutexRefinesRWLock` | `Spec => ImplementsRWLock` |

**Argument.** There are four layers, because the code keeps less when sleeps
fail, less again when the owner is then stale, and less still when requests are
aborted.

* `LinkInv` holds in all specifications. It needs of the word only EXLINK:
  `ExlinkKept` reduces each step to getting or releasing it. `AppendList`,
  `TailList` and `UnlinkList` say what the three list operations do to the
  elements of the sequence; the last is the circular list's removal, after which
  the sequence is rotated.
* `TInv` holds when sleeps fail. The count is then not exact: a release that
  finds the list empty clears only its lowest bit (`ChainRelease`), so that a
  count may stay behind. What survives is `CountedLess`: the count is *not less*
  than the number of counts that threads have, so that a count of 1 still means
  one thread. `Flags` and `Wanted` say that a flag is set only under a held lock
  and EXWANTED as long as there is a link; `Releases` that nobody can come in
  between clearing the owner and releasing the lock; `Waiters` that a waiter
  which was handed the lock has its wakeup coming.
* `OInv` is what `TrueOwnerSpec` adds to it. `HandoffPending` needs a thread behind
  every count, so `CountedLess` has to become `Exact`; the only step that
  breaks this is `ChainRelease` with a count above 1, and `ChainAlone` says that a
  release which works on an empty list has the only count. It is kept because
  nobody but the thread that has the lock recurses. `CountIsHeld` draws from
  `Exact` that somebody is `Present`, and `ExactHandoff` that it is not the sleeper.
  `Exact` also holds in `Spec`, hence `MutexPlainHandoffPending`.
* `SInv` holds when they do not. The count is `Exact`, which with `Modes` makes
  the only thread with counts of an exclusive lock its owner (`Owners`); `Handovers`
  says that one release at a time hands over and that its waiter sleeps until it is
  done, so that the assertion "we should own the exclusive lock now" holds.
  `MutualExclusion` fails in `TimedSpec` (the run `mutex_timed_owner`), so that
  this layer cannot be had there.

`TsleepProofs` proves, for every set of cpus, threads and idents, every hash of
idents to chains, every use that threads make of tsleep and wakeup, and every
bound on IPIs (`ConstantsAssumption`, which is only about types and names):

| Theorem | Statement |
|---|---|
| `TsleepInvariance` | `Spec => []IInv` |
| `TsleepConsistent` | `Spec => []Consistent`: types, exact masks, nobody asleep off the queue |
| `TsleepNoLostWakeup` | `Spec => []NoLostWakeup` |
| `TsleepNoLostWakeupOne` | `Spec => []NoLostWakeupOne` |
| `TsleepNoPanic` | `Spec => []NoPanic` |
| `TsleepTimeoutPending` | `Spec => []TimeoutPending` |
| `TsleepSignalPending` | `Spec => []SignalPending` |

**Argument.** `IInv` has three parts, each of which needs the ones before it.

* `States` is about single threads. `Places` says what each place in `tsleep()`
  knows: who has the critical section of its cpu, that TDF_TSLEEP_DESCHEDULED is
  set exactly between the switch away and the clean up, that LWP_SINTR is set
  before `lwp_token` is given up and no signal came before that. `NoPanic`,
  `TimeoutPending` and `SignalPending` follow from it.
* `Queues` is `MaskExact`, that only queued threads are owed a wakeup, and
  `First`: in every queue the threads that a `wakeup_one()` owes something come
  before all others on the same ident. `NoLostWakeupOne` is not inductive
  without it: a scan stops at the first thread that is asleep, and if this could
  be a thread that came later, the wakeup would be used up by it. New threads are
  appended and removal keeps the order (`AppendAhead`, `RemainingAhead`).
* `Delivery` is `NoLostWakeup` and `OnePending`, which says of *every* thread
  that a `wakeup_one()` may still owe something that the wakeup is on its way to
  this thread's cpu. Each cpu that the wakeup has been to drops its threads from
  the set, because a scan that finds none of them asleep has taken them all off
  its queue.

`ScannedMatch` and `ScannedFirst` describe the scan: it takes the threads of the
ident off up to the first that is asleep, which is the smallest position with
this property (`Smallest`, from the library's theorem that the naturals are well
founded).

`TokenProofs` proves, for every finite set of threads, every set of tokens, whatever
calls the threads make, every bound on their stacks and every `lwkt_spin_loops`
(`TokensAssumption`: tokens are addresses, that is numbers):

| Theorem | Statement |
|---|---|
| `TokenInvariance` | `Spec => []IInv` |
| `TokenConsistent` | `Spec => []Consistent`: types, exact counts, `t_ref` the deepest reference |
| `TokenNoPanic` | `Spec => []NoPanic` |
| `TokenRunsWithAllTokens` | `Spec => []RunsWithAllTokens` |
| `TokenRefinesRWLock` | `Spec => ImplementsRWLock`, for every token |

**Argument.** A release decides by `t_ref` alone whether it gives up the bit or one of
the count. That is right only if the reference in `t_ref` is the last of its thread
to go, and so the first it acquired, through every recursion, swap, switch and failed
attempt. `IInv` says why.

* `Local` is about one thread and only its own variables. `Lists`: references to the
  same token are acquired in the order of the stack, whether it is the stack's order
  or the order by address that is followed. `Place`: what the thread has and what it
  still wants at each place; what it asks for exclusively while it has it, it has
  exclusively (`Contract`). `Stack`: of the references to one token only the
  deepest is exclusive, except for the one on top while it is first tried
  (`Topmost`), which `Recurse` then turns into a counted one; and
  whatever was asked for exclusively has such a deepest reference. `NoPanic` and
  `DeepestRef` are not inductive without them.
* `Word` is about one token and all threads: bit, count and `t_ref` against `Holds`
  and `ExclHolds`, with the exception `Bare` for the thread that has the bit while
  `t_ref` is NULL. That no two threads are at such a place at once is what makes the
  assertion of `SetRef` hold.

Each action is first reduced to how it moves the thread (`Moves`), from which `Local`
follows by lemmas about sequences and stacks, then to what it does to the references
of one token (`Effect`: the same, one more, one less, or one that a swap has moved).
`Word` is kept by each kind of effect, and `EffectMaps` turns each into an acquisition,
a release or a stutter of the abstract lock.

The invariants `IInv`, `TInv` and `SInv` were checked with TLC on instances of three
threads, with two acquisitions for the locks, before they were proved; that of Token
on the instance of the run `token` and on one in which both threads make all calls.

### Only model-checked

* All liveness (`StarvedOnlyByExclusive`, `WaiterServed`, `SleeperWoken`,
  `UpgradeServed`, `LivelockOnlyThroughIdle`), because fairness and ENABLED are
  beyond the prover; the absence of deadlock.
* The failing upgrades of Lockmgr (`UpgradeErrorSpec`) appear in the run of their
  disagreement only. So does exclusion of a mutex with failing sleeps, which does not
  hold; of `TrueOwnerSpec` only the properties of `mutex_timed` are shown.

## 5. Not modelled

* Weak memory, interrupts inside a routine (the spinlock disables preemption by
  its critical section; the others may be interrupted anywhere, which is the
  interleaving that is modelled).
* Overflow of the holder counts of Mutex (28 bits) and Lockmgr (the low bits):
  they count acquisitions, of which there are far fewer.
* umtx: `umtx_sleep()` is a comparison and a `tsleep()`. What is hard about it is the
  physical address it sleeps on while a page is copied, which needs the VM's fault
  code.
* Users of the locks, and the other components of section 1.

## 6. Plan

Done: RWLock; Spinlock, Serialize, Lockmgr, Mutex, Token and Tsleep, all with proofs.

1. **An abstract sleep queue** that Tsleep refines, and that Mutex, Lockmgr and
   Serialize instantiate instead of stating it each.
2. **Ipiq** (`lwkt_ipiq.c`): ring indices, a full ring, cpusync; then **MsgPort**
   (`lwkt_msgport.c`): reply exactly once.
