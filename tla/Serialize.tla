----------------------------- MODULE Serialize ------------------------------
(***************************************************************************)
(* The LWKT serializer: sys/kern/lwkt_serialize.c, the atomic_intr_*()     *)
(* functions of sys/cpu/x86_64/include/atomic.h it is built from, and      *)
(* zsleep() of sys/kern/kern_synch.c.                                      *)
(*                                                                         *)
(* The 32-bit word s->interlock is a record of its three fields:           *)
(*   acq  bit 31, the serializer is held                                   *)
(*   dis  bit 30, the interrupt handler is disabled                        *)
(*   cnt  bits 0..29, the number of threads that wait                      *)
(* One step is one instruction on the word.  tsleep() and wakeup() are a   *)
(* wait set: a thread that called tsleep_interlock() is on the queue of    *)
(* an address until a wakeup() of that address takes it off.               *)
(***************************************************************************)
EXTENDS Integers, FiniteSets

CONSTANTS Threads,   (* the threads that use the serializer                *)
          Nobody,    (* last_td between the holders, (void * )-2 or -4     *)
          CntLimit,  (* size of the waiter count: 2^30                     *)
          Calls      (* the calls that each thread makes                   *)

ASSUME ThreadsAssumption == IsFiniteSet(Threads) /\ Nobody \notin Threads

\* Every thread is counted at most once.
ASSUME CntAssumption == CntLimit \in Nat /\ Cardinality(Threads) < CntLimit

VARIABLES interlock,  (* s->interlock                                      *)
          last_td,    (* s->last_td, written with INVARIANTS only          *)
          pc,         (* where each thread is                              *)
          op,         (* which call it is in                               *)
          sleepq,     (* the tsleep queue it is on: "none", "slz" or "id"  *)
          event       (* what the callers of zsleep() wait for             *)

vars == <<interlock, last_td, pc, op, sleepq, event>>

PCs == {"idle", "check", "try", "spin", "bts", "inc", "queue", "rebts", "test",
        "sleep", "uncount", "dec", "settd", "recheck", "func", "crit",
        "exit", "btr", "wtest", "wake", "zsleep", "panic"}

\* lwkt_serialize_enter(), _adaptive_enter(), _try(), _handler_call(),
\* _handler_try() and zsleep(); "none" outside of them
Ops == {"none", "enter", "adaptive", "try", "call", "handler_try", "zsleep"}

\* lwkt_serialize_init()
Init == /\ interlock = [acq |-> FALSE, dis |-> FALSE, cnt |-> 0]
        /\ last_td = Nobody
        /\ pc = [t \in Threads |-> "idle"]
        /\ op = [t \in Threads |-> "none"]
        /\ sleepq = [t \in Threads |-> "none"]
        /\ event = FALSE

Goto(t, l) == pc' = [pc EXCEPT ![t] = l]

Move(t, from, to) == pc[t] = from /\ Goto(t, to)

\* Go on to l; the call is over when it returns, without or with the serializer.
Return(t, l) == /\ Goto(t, l)
                /\ op' = IF l \in {"idle", "crit"}
                         THEN [op EXCEPT ![t] = "none"] ELSE op

\* KKASSERT(cond) with the option INVARIANTS: go on at l only if cond holds.
Kkassert(cond, l) == IF cond THEN l ELSE "panic"

\* Locked btsl $31: the thread that finds the bit clear has the serializer.
SetAcq == interlock' = [interlock EXCEPT !.acq = TRUE]
-----------------------------------------------------------------------------
(* The calls.  Each begins with the thread not holding the serializer. *)

Begin(t, o, l) == /\ Move(t, "idle", l)
                  /\ o \in Calls[t]
                  /\ op' = [op EXCEPT ![t] = o]
                  /\ UNCHANGED <<interlock, last_td, sleepq, event>>

\* ASSERT_NOT_SERIALIZED(s) reads last_td while others may be writing it.
Enter(t) == Begin(t, "enter", Kkassert(last_td # t, "bts"))

AdaptiveEnter(t) == Begin(t, "adaptive", Kkassert(last_td # t, "try"))

Try(t) == Begin(t, "try", Kkassert(last_td # t, "try"))

\* The handler of an interrupt is called by its thread, or tried by another
\* cpu (kern_intr.c); both ask first whether it is enabled.
HandlerCall(t) == Begin(t, "call", "check")

HandlerTry(t) == Begin(t, "handler_try", "check")

HandlerCheck(t) == /\ pc[t] = "check"
                   /\ Return(t, IF interlock.dis THEN "idle"
                                ELSE IF op[t] = "call" THEN "bts" ELSE "try")
                   /\ UNCHANGED <<interlock, last_td, sleepq, event>>
-----------------------------------------------------------------------------
(* atomic_intr_cond_try() *)

CondTry(t) == /\ pc[t] = "try"
              /\ SetAcq
              /\ Return(t, IF ~ interlock.acq THEN "settd"
                           ELSE IF op[t] = "adaptive" THEN "spin" ELSE "idle")
              /\ UNCHANGED <<last_td, sleepq, event>>

SpinTryForgetsTd(t) == /\ pc[t] = "spin" /\ Return(t, "crit")
                       /\ ~ interlock.acq
                       /\ SetAcq
                       /\ UNCHANGED <<last_td, sleepq, event>>

\* One of the SLZ_ADAPTIVE_SPINMAX iterations gets it ...
SpinTry(t) == /\ Move(t, "spin", "settd")
              /\ ~ interlock.acq
              /\ SetAcq
              /\ UNCHANGED <<last_td, op, sleepq, event>>

\* ... or none does.
SpinEnd(t) == /\ Move(t, "spin", "inc")
              /\ UNCHANGED <<interlock, last_td, op, sleepq, event>>
-----------------------------------------------------------------------------
(* atomic_intr_cond_enter() with lwkt_serialize_sleep(), and the sleep of   *)
(* lwkt_serialize_adaptive_enter()                                          *)

CondEnterBlind(t) == /\ Move(t, "bts", "settd")
                     /\ SetAcq
                     /\ UNCHANGED <<last_td, op, sleepq, event>>

CondEnter(t) == /\ pc[t] = "bts"
                /\ SetAcq
                /\ Goto(t, IF interlock.acq THEN "inc" ELSE "settd")
                /\ UNCHANGED <<last_td, op, sleepq, event>>

CondInc(t) == /\ pc[t] = "inc"
              /\ interlock' = [interlock EXCEPT !.cnt = @ + 1]
              /\ Goto(t, IF op[t] = "adaptive" THEN "queue" ELSE "rebts")
              /\ UNCHANGED <<last_td, op, sleepq, event>>

\* Try again with the count raised; adaptive_enter() is on the queue by then.
Retry(t) == /\ pc[t] = "rebts"
            /\ SetAcq
            /\ Goto(t, IF ~ interlock.acq THEN "dec"
                       ELSE IF op[t] = "adaptive" THEN "sleep" ELSE "queue")
            /\ UNCHANGED <<last_td, op, sleepq, event>>

\* tsleep_interlock(s, 0)
Interlock(t) == /\ pc[t] = "queue"
                /\ sleepq' = [sleepq EXCEPT ![t] = "slz"]
                /\ Goto(t, IF op[t] = "adaptive" THEN "rebts" ELSE "test")
                /\ UNCHANGED <<interlock, last_td, op, event>>

SleepUntested(t) == /\ Move(t, "test", "sleep")
                    /\ UNCHANGED <<interlock, last_td, op, sleepq, event>>

\* atomic_intr_cond_test(): sleep only while the serializer is held.  Else the
\* thread stays on the queue.
CondTest(t) == /\ pc[t] = "test"
               /\ Goto(t, IF interlock.acq THEN "sleep" ELSE "rebts")
               /\ UNCHANGED <<interlock, last_td, op, sleepq, event>>

\* tsleep(s, PINTERLOCKED) returns.
Woken(t) == /\ pc[t] = "sleep"
            /\ sleepq[t] # "slz"
            /\ Goto(t, IF op[t] = "adaptive" THEN "uncount" ELSE "rebts")
            /\ UNCHANGED <<interlock, last_td, op, sleepq, event>>

UncountForgotten(t) == /\ Move(t, "uncount", "spin")
                       /\ UNCHANGED <<interlock, last_td, op, sleepq, event>>

\* adaptive_enter() gives its count back and starts again.
Uncount(t) == /\ Move(t, "uncount", "spin")
              /\ interlock' = [interlock EXCEPT !.cnt = @ - 1]
              /\ UNCHANGED <<last_td, op, sleepq, event>>

CondDec(t) == /\ Move(t, "dec", "settd")
              /\ interlock' = [interlock EXCEPT !.cnt = @ - 1]
              /\ UNCHANGED <<last_td, op, sleepq, event>>

\* s->last_td = curthread; then the call returns, or goes on to the handler.
SetTd(t) == /\ pc[t] = "settd"
            /\ last_td' = t
            /\ Return(t, CASE op[t] = "call" -> "recheck"
                           [] op[t] = "handler_try" -> "func"
                           [] OTHER -> "crit")
            /\ UNCHANGED <<interlock, sleepq, event>>

HandlerNotRechecked(t) ==
    /\ Move(t, "recheck", "func")
    /\ UNCHANGED <<interlock, last_td, op, sleepq, event>>

\* handler_call() asks again now that it holds the serializer.
HandlerRecheck(t) == /\ pc[t] = "recheck"
                     /\ Goto(t, IF interlock.dis THEN "exit" ELSE "func")
                     /\ UNCHANGED <<interlock, last_td, op, sleepq, event>>

HandlerDone(t) == /\ Move(t, "func", "exit")
                  /\ UNCHANGED <<interlock, last_td, op, sleepq, event>>
-----------------------------------------------------------------------------
(* lwkt_serialize_exit(), also at the end of the handler calls *)

CallExit(t) == /\ Move(t, "crit", "exit")
               /\ UNCHANGED <<interlock, last_td, op, sleepq, event>>

\* ASSERT_SERIALIZED(s); s->last_td = (void * )-2
Exit(t) == /\ pc[t] = "exit"
           /\ Goto(t, Kkassert(last_td = t, "btr"))
           /\ last_td' = Nobody
           /\ UNCHANGED <<interlock, op, sleepq, event>>

\* atomic_intr_cond_exit(): clear the bit, then look at the count.
CondExit(t) == /\ Move(t, "btr", "wtest")
               /\ interlock' = [interlock EXCEPT !.acq = FALSE]
               /\ UNCHANGED <<last_td, op, sleepq, event>>

Exited(t) == IF op[t] = "zsleep" THEN "zsleep" ELSE "idle"

CondExitTest(t) == /\ pc[t] = "wtest"
                   /\ Return(t, IF interlock.cnt # 0 THEN "wake" ELSE Exited(t))
                   /\ UNCHANGED <<interlock, last_td, sleepq, event>>

WakeupOne(t) ==
    /\ pc[t] = "wake" /\ Return(t, Exited(t))
    /\ \/ \E u \in Threads : /\ sleepq[u] = "slz"
                             /\ sleepq' = [sleepq EXCEPT ![u] = "none"]
       \/ (\A u \in Threads : sleepq[u] # "slz") /\ UNCHANGED sleepq
    /\ UNCHANGED <<interlock, last_td, event>>

\* lwkt_serialize_wakeup()
Wakeup(t) == /\ pc[t] = "wake" /\ Return(t, Exited(t))
             /\ sleepq' = [u \in Threads |->
                             IF sleepq[u] = "slz" THEN "none" ELSE sleepq[u]]
             /\ UNCHANGED <<interlock, last_td, event>>
-----------------------------------------------------------------------------
(* What the holder does.  Drivers disable and enable their handler, and     *)
(* sleep with zsleep(), while they hold the serializer.                     *)

HandlerDisable(t) == /\ pc[t] = "crit" /\ ~ interlock.dis
                     /\ interlock' = [interlock EXCEPT !.dis = TRUE]
                     /\ UNCHANGED <<last_td, pc, op, sleepq, event>>

HandlerEnable(t) == /\ pc[t] = "crit" /\ interlock.dis
                    /\ interlock' = [interlock EXCEPT !.dis = FALSE]
                    /\ UNCHANGED <<last_td, pc, op, sleepq, event>>

\* The event comes: record it and wakeup(ident).
Signal(t) == /\ pc[t] = "crit" /\ ~ event
             /\ event' = TRUE
             /\ sleepq' = [u \in Threads |->
                             IF sleepq[u] = "id" THEN "none" ELSE sleepq[u]]
             /\ UNCHANGED <<interlock, last_td, pc, op>>

Consume(t) == /\ pc[t] = "crit" /\ event
              /\ event' = FALSE
              /\ UNCHANGED <<interlock, last_td, pc, op, sleepq>>

\* zsleep(): ASSERT_SERIALIZED(slz), the interlock, lwkt_serialize_exit(slz) ...
ZInterlock(t) == /\ Move(t, "crit", Kkassert(last_td = t, "exit"))
                 /\ "zsleep" \in Calls[t]
                 /\ ~ event
                 /\ sleepq' = [sleepq EXCEPT ![t] = "id"]
                 /\ op' = [op EXCEPT ![t] = "zsleep"]
                 /\ UNCHANGED <<interlock, last_td, event>>

ZSleepLateInterlock(t) ==
    /\ pc[t] = "zsleep"
    /\ \/ sleepq' = [sleepq EXCEPT ![t] = "id"] /\ UNCHANGED pc
       \/ sleepq[t] # "id" /\ Goto(t, "bts") /\ UNCHANGED sleepq
    /\ UNCHANGED <<interlock, last_td, op, event>>

\* ... then tsleep(ident, PINTERLOCKED), and lwkt_serialize_enter(slz) when it
\* returns.
ZSleep(t) == /\ Move(t, "zsleep", Kkassert(last_td # t, "bts"))
             /\ sleepq[t] # "id"
             /\ UNCHANGED <<interlock, last_td, op, sleepq, event>>
-----------------------------------------------------------------------------
Call(t) == \/ Enter(t) \/ AdaptiveEnter(t) \/ Try(t)
           \/ HandlerCall(t) \/ HandlerTry(t)

Running(t) == \/ HandlerCheck(t) \/ CondTry(t) \/ SpinTry(t) \/ SpinEnd(t)
              \/ CondEnter(t) \/ CondInc(t) \/ Retry(t) \/ Interlock(t)
              \/ CondTest(t) \/ Woken(t) \/ Uncount(t) \/ CondDec(t)
              \/ SetTd(t) \/ HandlerRecheck(t) \/ HandlerDone(t)
              \/ Exit(t) \/ CondExit(t) \/ CondExitTest(t) \/ Wakeup(t)
              \/ ZSleep(t)

Holder(t) == \/ HandlerDisable(t) \/ HandlerEnable(t) \/ Signal(t)
             \/ Consume(t)

Leave(t) == CallExit(t) \/ ZInterlock(t)

Next == \E t \in Threads : Call(t) \/ Running(t) \/ Holder(t) \/ Leave(t)

Spec == Init /\ [][Next]_vars

\* A thread inside the routines goes on, and a holder leaves.  Nothing obliges
\* a thread to enter, or an event to come.
Fairness == \A t \in Threads : WF_vars(Running(t)) /\ WF_vars(Leave(t))

FairSpec == Spec /\ Fairness
-----------------------------------------------------------------------------
(* Properties *)

\* Threads that hold the serializer, and threads that the count counts.
HolderPCs == {"dec", "settd", "recheck", "func", "crit", "exit", "btr"}

WaiterPCs == {"queue", "rebts", "test", "sleep", "uncount", "dec"}

At(S) == {t \in Threads : pc[t] \in S}

\* Type invariant: the waiter count, changed by blind incl and decl, neither
\* underflows nor carries into bit 30, where it would disable the handler.
\* adaptive_enter() and cond_enter() count a thread once between them.
TypeOK == /\ interlock \in [acq : BOOLEAN, dis : BOOLEAN, cnt : 0 .. CntLimit - 1]
          /\ last_td \in Threads \cup {Nobody}
          /\ pc \in [Threads -> PCs]
          /\ op \in [Threads -> Ops]
          /\ sleepq \in [Threads -> {"none", "slz", "id"}]
          /\ event \in BOOLEAN

\* At most one thread is between its successful btsl and its btrl, whichever of
\* the six calls it came by: enter, adaptive_enter, try, handler_call,
\* handler_try, and zsleep() which enters again.
MutualExclusion == \A t, u \in At(HolderPCs) : t = u

\* ASSERT_SERIALIZED and ASSERT_NOT_SERIALIZED never fail: last_td, written
\* apart from the interlock, names the holder in every exit and in zsleep(), and
\* never the caller of enter, adaptive_enter or try, which reads it while other
\* threads write it.
NoPanic == At({"panic"}) = {}

\* No wakeup is lost: a thread asleep for the serializer implies that it is
\* held, or that a releaser has cleared the bit and is still to look at the
\* count and wake everybody ("It is possible to race an interrupt which
\* acquires and releases the bit, then calls wakeup before we actually go to
\* sleep", lwkt_serialize_sleep()).
NoLostWakeup ==
    \A t \in Threads : pc[t] = "sleep" /\ sleepq[t] = "slz" =>
        interlock.acq \/ At({"wtest", "wake"}) # {}

\* The count is the number of threads between their incl and their decl: once
\* nobody uses the serializer nothing is left in the word but the handler bit.
CountIsWaiters == interlock.cnt = Cardinality(At(WaiterPCs))

\* After a driver disabled its handler with the serializer held,
\* lwkt_serialize_handler_call() does not run it, even if it looked at the
\* bit before and was waiting for the serializer at the time.
DisabledHandlerNotCalled ==
    \A t \in Threads : pc[t] = "func" /\ op[t] = "call" => ~ interlock.dis

\* zsleep() releases the serializer and goes to sleep as one: a thread that
\* waits on its queue has not missed an event that came while the serializer
\* was released.
ZSleepInterlocked == \A t \in Threads : sleepq[t] = "id" => ~ event

\* Whoever sleeps for the serializer is woken up, although a release wakes only
\* if it sees the count and the sleeper only queues after counting itself.
\* (It may then find the serializer taken again: nothing is handed over.)
SleeperWoken == \A t \in Threads : pc[t] = "sleep" ~> pc[t] # "sleep"

\* The serializer implements the abstract lock, exclusive and not recursive.
ExclHeld == [t \in Threads |-> IF pc[t] \in HolderPCs THEN 1 ELSE 0]

RW == INSTANCE RWLock WITH ex <- ExclHeld, sh <- [t \in Threads |-> 0]

ImplementsRWLock == RW!RWSpec
=============================================================================
