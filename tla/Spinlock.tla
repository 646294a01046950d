------------------------------ MODULE Spinlock ------------------------------
(***************************************************************************)
(* The shared/exclusive spinlock of sys/kern/kern_spinlock.c and           *)
(* sys/sys/spinlock2.h.                                                    *)
(*                                                                         *)
(* The 32-bit word spin->counta is a record of its three bit fields:       *)
(*   shared  bit 31, SPINLOCK_SHARED                                       *)
(*   wait    bits 20..30, the counter in units of SPINLOCK_EXCLWAIT        *)
(*   low     bits 0..19, the counter of holders and new requesters         *)
(* One step is one atomic instruction on the word (or one read of it); a   *)
(* read whose value is validated by the compare-and-set that follows is    *)
(* one step with it, because a failed compare-and-set changes nothing and  *)
(* the code loops.                                                         *)
(*                                                                         *)
(* A cpu that is in any of these routines is in a hard critical section    *)
(* and cannot switch threads, so the actors are cpus.                      *)
(***************************************************************************)
EXTENDS Integers, FiniteSets

CONSTANTS Cpus,       (* the cpus that use the lock                        *)
          LowLimit,   (* size of the low counter: SPINLOCK_EXCLWAIT = 2^20 *)
          WaitLimit   (* size of the wait counter: 2^11                    *)

ASSUME CpusAssumption == IsFiniteSet(Cpus)

\* Every cpu is counted at most once in one of the fields.
ASSUME LimitAssumption == /\ LowLimit \in Nat
                          /\ WaitLimit \in Nat
                          /\ Cardinality(Cpus) < LowLimit
                          /\ Cardinality(Cpus) < WaitLimit

VARIABLES counta,        (* spin->counta                                   *)
          pc,            (* where each cpu is in the code                  *)
          gd_spinlocks,  (* gd->gd_spinlocks of each cpu                   *)
          td_critcount   (* gd->gd_curthread->td_critcount of each cpu     *)

vars == <<counta, pc, gd_spinlocks, td_critcount>>

Word(s, w, l) == [shared |-> s, wait |-> w, low |-> l]

Unlocked == Word(FALSE, 0, 0)

PCs == {"idle", "try", "add", "check", "transfer", "unshare", "spin", "excl",
        "sh_try", "sh_spin", "shared", "sh_clear"}

Move(c, from, to) == /\ pc[c] = from
                     /\ pc' = [pc EXCEPT ![c] = to]

\* Entering and leaving the hard critical section.
CritEnter(c) == /\ gd_spinlocks' = [gd_spinlocks EXCEPT ![c] = @ + 1]
                /\ td_critcount' = [td_critcount EXCEPT ![c] = @ + 1]

CritExit(c) == /\ gd_spinlocks' = [gd_spinlocks EXCEPT ![c] = @ - 1]
               /\ td_critcount' = [td_critcount EXCEPT ![c] = @ - 1]

CritSame == UNCHANGED <<gd_spinlocks, td_critcount>>

\* spin_init()
Init == /\ counta = Unlocked
        /\ pc = [c \in Cpus |-> "idle"]
        /\ gd_spinlocks = [c \in Cpus |-> 0]
        /\ td_critcount = [c \in Cpus |-> 0]
-----------------------------------------------------------------------------
(* spin_trylock() *)

TrylockEnter(c) == /\ Move(c, "idle", "try")
                   /\ CritEnter(c)
                   /\ UNCHANGED counta

Trylock(c) == /\ Move(c, "try", "excl")
              /\ counta = Unlocked
              /\ counta' = Word(FALSE, 0, 1)
              /\ CritSame

TrylockContestedStaysHard(c) == /\ Move(c, "try", "idle")
                                /\ counta # Unlocked
                                /\ CritSame /\ UNCHANGED counta

TrylockContested(c) == /\ Move(c, "try", "idle")
                       /\ counta # Unlocked
                       /\ CritExit(c)
                       /\ UNCHANGED counta
-----------------------------------------------------------------------------
(* _spin_lock_quick() and _spin_lock_contested() *)

LockEnter(c) == /\ Move(c, "idle", "add")
                /\ CritEnter(c)
                /\ UNCHANGED counta

LockAdd(c) == /\ Move(c, "add", "check")
              /\ counta' = [counta EXCEPT !.low = @ + 1]
              /\ CritSame

LockGrantedIgnoresShared(c) == /\ Move(c, "check", "excl")
                               /\ counta.low = 1 /\ counta.wait = 0
                               /\ CritSame /\ UNCHANGED counta

LockGranted(c) == /\ Move(c, "check", "excl")
                  /\ counta = Word(FALSE, 0, 1)
                  /\ CritSame /\ UNCHANGED counta

LockContested(c) == /\ Move(c, "check", "transfer")
                    /\ counta # Word(FALSE, 0, 1)
                    /\ CritSame /\ UNCHANGED counta

\* atomic_add_int(&spin->counta, SPINLOCK_EXCLWAIT - 1)
Transfer(c) == /\ Move(c, "transfer", "unshare")
               /\ counta' = [counta EXCEPT !.wait = @ + 1, !.low = @ - 1]
               /\ CritSame

\* atomic_clear_int(&spin->counta, SPINLOCK_SHARED)
Unshare(c) == /\ Move(c, "unshare", "spin")
              /\ counta' = Word(FALSE, counta.wait, counta.low)
              /\ CritSame

\* The low bits are zero: take one unit of EXCLWAIT back into them.  This is the
\* only way out of the loop here: spin_indefinite_check() ends it without the lock
\* after a panic or in a test mode of INVARIANTS, which is left out.
SpinAcquire(c) == /\ Move(c, "spin", "excl")
                  /\ counta.low = 0
                  /\ counta' = [counta EXCEPT !.wait = @ - 1, !.low = 1]
                  /\ CritSame

\* spin_unlock_quick()
Unlock(c) == /\ Move(c, "excl", "idle")
             /\ counta' = [counta EXCEPT !.low = @ - 1]
             /\ CritExit(c)
-----------------------------------------------------------------------------
(* _spin_lock_shared_quick() and _spin_lock_shared_contested() *)

SharedEnter(c) == /\ Move(c, "idle", "sh_try")
                  /\ CritEnter(c)
                  /\ UNCHANGED counta

SharedQuick(c) == /\ Move(c, "sh_try", "shared")
                  /\ counta = Unlocked
                  /\ counta' = Word(TRUE, 0, 1)
                  /\ CritSame

SharedContested(c) == /\ Move(c, "sh_try", "sh_spin")
                      /\ counta # Unlocked
                      /\ CritSame /\ UNCHANGED counta

SharedSpinFirstIgnoresWait(c) ==
    /\ Move(c, "sh_spin", "shared")
    /\ counta.low = 0
    /\ counta' = [counta EXCEPT !.shared = TRUE, !.low = 1]
    /\ CritSame

\* Here, too, without the way out of spin_indefinite_check().
SharedSpinFirst(c) == /\ Move(c, "sh_spin", "shared")
                      /\ counta = Unlocked
                      /\ counta' = Word(TRUE, 0, 1)
                      /\ CritSame

SharedSpinJoin(c) == /\ Move(c, "sh_spin", "shared")
                     /\ counta.shared
                     /\ counta' = [counta EXCEPT !.low = @ + 1]
                     /\ CritSame

\* spin_unlock_shared_quick(): drop the count, then see to it that
\* SPINLOCK_SHARED does not stay behind alone.
UnlockShared(c) == /\ Move(c, "shared", "sh_clear")
                   /\ counta' = [counta EXCEPT !.low = @ - 1]
                   /\ CritSame

ClearSharedForgotten(c) == /\ Move(c, "sh_clear", "idle")
                           /\ UNCHANGED counta
                           /\ CritExit(c)

ClearShared(c) == /\ Move(c, "sh_clear", "idle")
                  /\ counta' = IF counta = Word(TRUE, 0, 0)
                               THEN Unlocked ELSE counta
                  /\ CritExit(c)
-----------------------------------------------------------------------------
Exclusive(c) == \/ TrylockEnter(c) \/ Trylock(c) \/ TrylockContested(c)
                \/ LockEnter(c) \/ LockAdd(c) \/ LockGranted(c)
                \/ LockContested(c) \/ Transfer(c) \/ Unshare(c)
                \/ SpinAcquire(c) \/ Unlock(c)

Shared(c) == \/ SharedEnter(c) \/ SharedQuick(c) \/ SharedContested(c)
             \/ SharedSpinFirst(c) \/ SharedSpinJoin(c)
             \/ UnlockShared(c) \/ ClearShared(c)

Next == \E c \in Cpus : Exclusive(c) \/ Shared(c)

Spec == Init /\ [][Next]_vars

\* A cpu that is inside the routines, or holds the lock in its hard critical
\* section, keeps executing.  Nothing obliges a cpu to ask for the lock.
Fairness == \A c \in Cpus : WF_vars(pc[c] # "idle" /\ (Exclusive(c) \/ Shared(c)))

FairSpec == Spec /\ Fairness
-----------------------------------------------------------------------------
(* Properties *)

\* The cpus that spin_lock() or spin_lock_shared() let through.
Exclusives == {c \in Cpus : pc[c] = "excl"}
Sharers    == {c \in Cpus : pc[c] = "shared"}

\* Type invariant: the two counters of the word stay inside their bit fields
\* (a carry out of the low counter would count as an EXCLWAIT unit, one out of
\* the wait counter would set SPINLOCK_SHARED), although counta is changed by
\* blind adds, so the lock works with any number of cpus below the limits.
TypeOK == /\ counta \in [shared : BOOLEAN, wait : 0 .. WaitLimit - 1,
                         low : 0 .. LowLimit - 1]
          /\ pc \in [Cpus -> PCs]
          /\ gd_spinlocks \in [Cpus -> 0 .. 1]
          /\ td_critcount \in [Cpus -> 0 .. 1]

\* spin_lock() excludes everyone, spin_lock_shared() excludes spin_lock(),
\* although _spin_lock_contested() rewrites the word of a lock that readers
\* hold ("Force any existing shared locks to exclusive").
MutualExclusion == /\ \A c, d \in Exclusives : c = d
                   /\ Exclusives = {} \/ Sharers = {}

\* Between uses the word is 0 and the critical section counts are balanced:
\* in particular no order of the two steps of spin_unlock_shared_quick() and
\* the two of _spin_lock_contested() leaves SPINLOCK_SHARED behind.
Quiescent == (\A c \in Cpus : pc[c] = "idle") =>
                /\ counta = Unlocked
                /\ \A c \in Cpus : gd_spinlocks[c] = 0 /\ td_critcount[c] = 0

\* Once a contested exclusive requester has cleared SPINLOCK_SHARED, nobody
\* gets a new shared lock until it got the lock ("exclusive requesters have
\* priority", _spin_lock_shared_contested()).
ExclPriority ==
    [][(\E c \in Cpus : pc[c] = "spin") => Sharers' \subseteq Sharers]_vars

\* An exclusive requester that loops in _spin_lock_contested() gets the lock
\* unless other exclusive holders pass it again and again: the flow of
\* readers alone never starves it.
StarvedOnlyByExclusive ==
    \A c \in Cpus : \/ (pc[c] = "spin") ~> (pc[c] = "excl")
                    \/ []<>(\E d \in Cpus \ {c} : pc[d] = "excl")

\* The spinlock implements the abstract shared/exclusive lock.
ExclHeld   == [c \in Cpus |-> IF pc[c] = "excl" THEN 1 ELSE 0]
SharedHeld == [c \in Cpus |-> IF pc[c] = "shared" THEN 1 ELSE 0]

RW == INSTANCE RWLock WITH Threads <- Cpus, ex <- ExclHeld, sh <- SharedHeld

ImplementsRWLock == RW!RWSpec
=============================================================================
