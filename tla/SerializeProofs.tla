--------------------------- MODULE SerializeProofs ---------------------------
(***************************************************************************)
(* Proofs about Serialize, for every finite set of threads, every choice   *)
(* of the calls they make and every size of the waiter count that exceeds  *)
(* the number of threads.                                                  *)
(***************************************************************************)
EXTENDS Serialize, FiniteSetTheorems, TLAPS

\* TypeOK without the bound of the count.
WordType == /\ interlock \in [acq : BOOLEAN, dis : BOOLEAN, cnt : Int]
            /\ last_td \in Threads \cup {Nobody}
            /\ pc \in [Threads -> PCs]
            /\ op \in [Threads -> Ops]
            /\ sleepq \in [Threads -> {"none", "slz", "id"}]
            /\ event \in BOOLEAN

\* Bit 31 is set exactly while some thread holds the serializer.
AcqBit == interlock.acq <=> At(HolderPCs) # {}

\* last_td names the holder that has written it and not yet erased it, and
\* nobody else.
LastTd == \A t \in Threads : pc[t] \in {"recheck", "func", "crit", "exit"}
                               <=> last_td = t

\* The inductive invariant.
IInv == /\ WordType
        /\ AcqBit
        /\ MutualExclusion
        /\ CountIsWaiters
        /\ LastTd
        /\ NoPanic
        /\ NoLostWakeup
        /\ DisabledHandlerNotCalled
        /\ ZSleepInterlocked

Step(t) == Call(t) \/ Running(t) \/ Holder(t) \/ Leave(t)
-----------------------------------------------------------------------------
(* Counting *)

\* The threads at some places are a finite set, no larger than Threads.
LEMMA AtFinite ==
    ASSUME NEW P
    PROVE  /\ IsFiniteSet(At(P))
           /\ Cardinality(At(P)) \in Nat
           /\ Cardinality(At(P)) <= Cardinality(Threads)
           /\ Cardinality(Threads) \in Nat
  <1>1. At(P) \subseteq Threads
    BY DEF At
  <1> QED
    BY <1>1, ThreadsAssumption, FS_Subset, FS_CardinalityType

\* A count of 0 means that nobody is there.
LEMMA AtNone ==
    ASSUME NEW P, Cardinality(At(P)) = 0
    PROVE  At(P) = {}
  BY AtFinite, FS_EmptySet

\* Moving one thread changes the count of a set of places by what that thread
\* contributes after and before the move.
LEMMA AtMove ==
    ASSUME pc \in [Threads -> PCs], NEW t \in Threads, NEW to, NEW P,
           pc' = [pc EXCEPT ![t] = to]
    PROVE  Cardinality(At(P)')
             = Cardinality(At(P)) + (IF to \in P THEN 1 ELSE 0)
                                  - (IF pc[t] \in P THEN 1 ELSE 0)
  <1> DEFINE Others == {u \in Threads \ {t} : pc[u] \in P}
  <1>1. IsFiniteSet(Others) /\ Cardinality(Others) \in Nat /\ t \notin Others
    <2>1. Others \subseteq Threads
      OBVIOUS
    <2> QED
      BY <2>1, ThreadsAssumption, FS_Subset, FS_CardinalityType
  <1>2. Cardinality(Others \cup {t}) = Cardinality(Others) + 1
    BY <1>1, FS_AddElement
  <1>3. At(P) = IF pc[t] \in P THEN Others \cup {t} ELSE Others
    BY DEF At
  <1>4. At(P)' = IF to \in P THEN Others \cup {t} ELSE Others
    BY DEF At
  <1> HIDE DEF Others
  <1>5. Cardinality(At(P)) = Cardinality(Others) + (IF pc[t] \in P THEN 1 ELSE 0)
    BY <1>1, <1>2, <1>3
  <1>6. Cardinality(At(P)') = Cardinality(Others) + (IF to \in P THEN 1 ELSE 0)
    BY <1>1, <1>2, <1>4
  <1> QED
    BY <1>1, <1>5, <1>6
-----------------------------------------------------------------------------
(* What a step of thread t does, seen from the thread and from the word *)

\* The thread alone moves, and everything keeps its type.
Moves(t) == /\ pc' = [pc EXCEPT ![t] = pc'[t]]
            /\ pc'[t] \in PCs \ {"panic"}
            /\ WordType'

\* Bit 31: who enters the held places found it clear and has set it, who leaves
\* them has cleared it, and nobody else changes it.
Bit(t) == CASE pc[t] \notin HolderPCs /\ pc'[t] \in HolderPCs ->
                     ~ interlock.acq /\ interlock'.acq
            [] pc[t] \in HolderPCs /\ pc'[t] \notin HolderPCs ->
                     ~ interlock'.acq /\ pc'[t] = "wtest"
            [] OTHER -> interlock'.acq = interlock.acq

\* The count moves with the thread.
Counted(t) == interlock'.cnt = interlock.cnt
                                 + (IF pc'[t] \in WaiterPCs THEN 1 ELSE 0)
                                 - (IF pc[t] \in WaiterPCs THEN 1 ELSE 0)

\* last_td is written at the two ends of the held section only.
Named(t) == CASE pc[t] = "settd" -> /\ last_td' = t
                                     /\ pc'[t] \in {"recheck", "func", "crit"}
              [] pc[t] = "exit" -> last_td' = Nobody /\ pc'[t] = "btr"
              [] OTHER -> /\ last_td' = last_td
                          /\ pc'[t] \in {"recheck", "func", "crit", "exit"}
                               <=> pc[t] \in {"recheck", "func", "crit", "exit"}

\* The handler bit changes under the serializer; handler_call() reads it there.
Handler(t) == /\ interlock'.dis # interlock.dis => pc[t] = "crit"
              /\ pc'[t] = "func" /\ op'[t] = "call" => ~ interlock'.dis
              /\ \A u \in Threads \ {t} : op'[u] = op[u]

\* Queues: a thread puts only itself on one, on that of an event which has
\* not come; the event takes everybody off.
Queued(t) == \/ event' = event /\ UNCHANGED sleepq
             \/ event' = event /\ pc[t] = "queue"
                  /\ sleepq' = [sleepq EXCEPT ![t] = "slz"]
             \/ event' = event /\ pc[t] = "crit" /\ ~ event
                  /\ sleepq' = [sleepq EXCEPT ![t] = "id"]
             \/ event' = event /\ pc[t] = "wake"
                  /\ \A u \in Threads : /\ sleepq'[u] # "slz"
                                        /\ sleepq'[u] = "id" => sleepq[u] = "id"
             \/ pc[t] = "crit" /\ pc'[t] = "crit" /\ event' = FALSE /\ UNCHANGED sleepq
             \/ pc[t] = "crit" /\ pc'[t] = "crit"
                  /\ \A u \in Threads : /\ sleepq'[u] # "id"
                                        /\ sleepq'[u] = "slz" => sleepq[u] = "slz"

\* Sleep is entered with the serializer held; a releaser that sees no waiter
\* may leave without a wakeup.
Slept(t) == /\ pc'[t] = "sleep" => pc[t] # "sleep" /\ interlock'.acq
            /\ pc[t] = "wtest" => pc'[t] = "wake" \/ interlock.cnt = 0
            /\ pc[t] = "wake" => \A u \in Threads : sleepq'[u] # "slz"

\* Every action is such a step.
LEMMA StepFacts ==
    ASSUME IInv, NEW t \in Threads, Step(t)
    PROVE  /\ Moves(t) /\ Bit(t) /\ Counted(t) /\ Named(t)
           /\ Handler(t) /\ Queued(t) /\ Slept(t)
  <1> USE DEF Moves, Bit, Counted, Named, Handler, Queued, Slept
  <1>t. WordType /\ LastTd
    BY DEF IInv
  <1>1. CASE Enter(t)
    BY <1>t, <1>1 DEF Kkassert, LastTd, Enter, Begin, Move, Goto, WordType, PCs, Ops,
       HolderPCs, WaiterPCs
  <1>2. CASE AdaptiveEnter(t)
    BY <1>t, <1>2 DEF Kkassert, LastTd, AdaptiveEnter, Begin, Move, Goto, WordType, PCs,
       Ops, HolderPCs, WaiterPCs
  <1>3. CASE Try(t)
    BY <1>t, <1>3 DEF Kkassert, LastTd, Try, Begin, Move, Goto, WordType, PCs, Ops,
       HolderPCs, WaiterPCs
  <1>4. CASE HandlerCall(t)
    BY <1>t, <1>4 DEF HandlerCall, Begin, Move, Goto, WordType, PCs, Ops,
       HolderPCs, WaiterPCs
  <1>5. CASE HandlerTry(t)
    BY <1>t, <1>5 DEF HandlerTry, Begin, Move, Goto, WordType, PCs, Ops,
       HolderPCs, WaiterPCs
  <1>6. CASE HandlerCheck(t)
    BY <1>t, <1>6 DEF HandlerCheck, Return, Goto, WordType, PCs, Ops, HolderPCs, WaiterPCs
  <1>7. CASE CondTry(t)
    <2>1. Moves(t)
      BY <1>t, <1>7 DEF CondTry, Return, Goto, SetAcq, WordType, PCs, Ops
    <2>2. Bit(t)
      <3>1. CASE interlock.acq
        <4>1. interlock.acq = TRUE /\ interlock'.acq = TRUE
          BY <1>t, <1>7, <3>1 DEF CondTry, SetAcq, WordType
        <4>2. pc[t] \notin HolderPCs /\ pc'[t] \notin HolderPCs
          BY <1>t, <1>7, <3>1 DEF CondTry, Return, Goto, SetAcq, WordType, HolderPCs
        <4> QED
          BY <4>1, <4>2
      <3>2. CASE ~ interlock.acq
        BY <1>t, <1>7, <3>2 DEF CondTry, Return, Goto, SetAcq, WordType, HolderPCs
      <3> QED
        BY <3>1, <3>2
    <2>3. Counted(t) /\ Named(t) /\ Slept(t)
      BY <1>t, <1>7 DEF CondTry, Return, Goto, SetAcq, WordType, WaiterPCs
    <2>4. Handler(t) /\ Queued(t)
      BY <1>t, <1>7 DEF CondTry, Return, Goto, SetAcq, WordType
    <2> QED
      BY <2>1, <2>2, <2>3, <2>4
  <1>8. CASE SpinTry(t)
    <2>1. Moves(t)
      BY <1>t, <1>8 DEF SpinTry, Move, Goto, SetAcq, WordType, PCs, Ops
    <2>2. Bit(t) /\ Counted(t)
      BY <1>t, <1>8 DEF SpinTry, Move, Goto, SetAcq, WordType, HolderPCs, WaiterPCs
    <2>3. Named(t) /\ Slept(t)
      BY <1>t, <1>8 DEF SpinTry, Move, Goto, SetAcq, WordType
    <2>4. Handler(t) /\ Queued(t)
      BY <1>t, <1>8 DEF SpinTry, Move, Goto, SetAcq, WordType
    <2> QED
      BY <2>1, <2>2, <2>3, <2>4
  <1>9. CASE SpinEnd(t)
    BY <1>t, <1>9 DEF SpinEnd, Move, Goto, WordType, PCs, Ops, HolderPCs, WaiterPCs
  <1>10. CASE CondEnter(t)
    <2>1. Moves(t)
      BY <1>t, <1>10 DEF CondEnter, Goto, SetAcq, WordType, PCs, Ops
    <2>2. Bit(t)
      <3>1. CASE interlock.acq
        <4>1. interlock.acq = TRUE /\ interlock'.acq = TRUE
          BY <1>t, <1>10, <3>1 DEF CondEnter, SetAcq, WordType
        <4>2. pc[t] \notin HolderPCs /\ pc'[t] \notin HolderPCs
          BY <1>t, <1>10, <3>1 DEF CondEnter, Goto, SetAcq, WordType, HolderPCs
        <4> QED
          BY <4>1, <4>2
      <3>2. CASE ~ interlock.acq
        BY <1>t, <1>10, <3>2 DEF CondEnter, Goto, SetAcq, WordType, HolderPCs
      <3> QED
        BY <3>1, <3>2
    <2>3. Counted(t) /\ Named(t) /\ Slept(t)
      BY <1>t, <1>10 DEF CondEnter, Goto, SetAcq, WordType, WaiterPCs
    <2>4. Handler(t) /\ Queued(t)
      BY <1>t, <1>10 DEF CondEnter, Goto, SetAcq, WordType
    <2> QED
      BY <2>1, <2>2, <2>3, <2>4
  <1>11. CASE CondInc(t)
    BY <1>t, <1>11 DEF CondInc, Goto, WordType, PCs, Ops, HolderPCs, WaiterPCs
  <1>12. CASE Retry(t)
    <2>1. Moves(t)
      BY <1>t, <1>12 DEF Retry, Goto, SetAcq, WordType, PCs, Ops
    <2>2. Bit(t)
      <3>1. CASE interlock.acq
        <4>1. interlock.acq = TRUE /\ interlock'.acq = TRUE
          BY <1>t, <1>12, <3>1 DEF Retry, SetAcq, WordType
        <4>2. pc[t] \notin HolderPCs /\ pc'[t] \notin HolderPCs
          BY <1>t, <1>12, <3>1 DEF Retry, Goto, SetAcq, WordType, HolderPCs
        <4> QED
          BY <4>1, <4>2
      <3>2. CASE ~ interlock.acq
        BY <1>t, <1>12, <3>2 DEF Retry, Goto, SetAcq, WordType, HolderPCs
      <3> QED
        BY <3>1, <3>2
    <2>3. Counted(t) /\ Named(t) /\ Slept(t)
      BY <1>t, <1>12 DEF Retry, Goto, SetAcq, WordType, WaiterPCs
    <2>4. Handler(t) /\ Queued(t)
      BY <1>t, <1>12 DEF Retry, Goto, SetAcq, WordType
    <2> QED
      BY <2>1, <2>2, <2>3, <2>4
  <1>13. CASE Interlock(t)
    BY <1>t, <1>13 DEF Interlock, Goto, WordType, PCs, Ops, HolderPCs, WaiterPCs
  <1>14. CASE CondTest(t)
    BY <1>t, <1>14 DEF CondTest, Goto, WordType, PCs, Ops, HolderPCs, WaiterPCs
  <1>15. CASE Woken(t)
    BY <1>t, <1>15 DEF Woken, Goto, WordType, PCs, Ops, HolderPCs, WaiterPCs
  <1>16. CASE Uncount(t)
    BY <1>t, <1>16 DEF Uncount, Move, Goto, WordType, PCs, Ops, HolderPCs, WaiterPCs
  <1>17. CASE CondDec(t)
    BY <1>t, <1>17 DEF CondDec, Move, Goto, WordType, PCs, Ops, HolderPCs, WaiterPCs
  <1>18. CASE SetTd(t)
    BY <1>t, <1>18 DEF SetTd, Return, Goto, WordType, PCs, Ops, HolderPCs, WaiterPCs
  <1>19. CASE HandlerRecheck(t)
    BY <1>t, <1>19 DEF HandlerRecheck, Goto, WordType, PCs, Ops, HolderPCs, WaiterPCs
  <1>20. CASE HandlerDone(t)
    BY <1>t, <1>20 DEF HandlerDone, Move, Goto, WordType, PCs, Ops, HolderPCs, WaiterPCs
  <1>21. CASE Exit(t)
    BY <1>t, <1>21 DEF Kkassert, Exit, Goto, LastTd, WordType, PCs, Ops, HolderPCs,
       WaiterPCs
  <1>22. CASE CondExit(t)
    <2>1. Moves(t)
      BY <1>t, <1>22 DEF CondExit, Move, Goto, WordType, PCs, Ops
    <2>2. Bit(t) /\ Counted(t)
      BY <1>t, <1>22 DEF CondExit, Move, Goto, WordType, HolderPCs, WaiterPCs
    <2>3. Named(t) /\ Slept(t)
      BY <1>t, <1>22 DEF CondExit, Move, Goto, WordType
    <2>4. Handler(t) /\ Queued(t)
      BY <1>t, <1>22 DEF CondExit, Move, Goto, WordType
    <2> QED
      BY <2>1, <2>2, <2>3, <2>4
  <1>23. CASE CondExitTest(t)
    BY <1>t, <1>23 DEF CondExitTest, Return, Goto, Exited, WordType, PCs, Ops,
       HolderPCs, WaiterPCs
  <1>24. CASE Wakeup(t)
    BY <1>t, <1>24 DEF Wakeup, Return, Goto, Exited, WordType, PCs, Ops,
       HolderPCs, WaiterPCs
  <1>25. CASE ZSleep(t)
    BY <1>t, <1>25 DEF Kkassert, LastTd, ZSleep, Move, Goto, WordType, PCs, Ops,
       HolderPCs, WaiterPCs
  <1>26. CASE HandlerDisable(t)
    <2>1. Moves(t)
      BY <1>t, <1>26 DEF HandlerDisable, WordType, PCs, Ops
    <2>2. Bit(t) /\ Counted(t)
      BY <1>t, <1>26 DEF HandlerDisable, WordType, HolderPCs, WaiterPCs
    <2>3. Named(t) /\ Slept(t)
      BY <1>t, <1>26 DEF HandlerDisable, WordType
    <2>4. Handler(t) /\ Queued(t)
      BY <1>t, <1>26 DEF HandlerDisable, WordType
    <2> QED
      BY <2>1, <2>2, <2>3, <2>4
  <1>27. CASE HandlerEnable(t)
    <2>1. Moves(t)
      BY <1>t, <1>27 DEF HandlerEnable, WordType, PCs, Ops
    <2>2. Bit(t) /\ Counted(t)
      BY <1>t, <1>27 DEF HandlerEnable, WordType, HolderPCs, WaiterPCs
    <2>3. Named(t) /\ Slept(t)
      BY <1>t, <1>27 DEF HandlerEnable, WordType
    <2>4. Handler(t) /\ Queued(t)
      BY <1>t, <1>27 DEF HandlerEnable, WordType
    <2> QED
      BY <2>1, <2>2, <2>3, <2>4
  <1>28. CASE Signal(t)
    <2>1. Moves(t)
      BY <1>t, <1>28 DEF Signal, WordType, PCs, Ops
    <2>2. Bit(t) /\ Counted(t)
      BY <1>t, <1>28 DEF Signal, WordType, HolderPCs, WaiterPCs
    <2>3. Named(t) /\ Slept(t)
      BY <1>t, <1>28 DEF Signal, WordType
    <2>4. Handler(t) /\ Queued(t)
      BY <1>t, <1>28 DEF Signal, WordType
    <2> QED
      BY <2>1, <2>2, <2>3, <2>4
  <1>29. CASE Consume(t)
    <2>1. Moves(t)
      BY <1>t, <1>29 DEF Consume, WordType, PCs, Ops
    <2>2. Bit(t) /\ Counted(t)
      BY <1>t, <1>29 DEF Consume, WordType, HolderPCs, WaiterPCs
    <2>3. Named(t) /\ Slept(t)
      BY <1>t, <1>29 DEF Consume, WordType
    <2>4. Handler(t) /\ Queued(t)
      BY <1>t, <1>29 DEF Consume, WordType
    <2> QED
      BY <2>1, <2>2, <2>3, <2>4
  <1>30. CASE CallExit(t)
    BY <1>t, <1>30 DEF CallExit, Move, Goto, WordType, PCs, Ops, HolderPCs, WaiterPCs
  <1>31. CASE ZInterlock(t)
    BY <1>t, <1>31 DEF Kkassert, LastTd, ZInterlock, Move, Goto, WordType, PCs, Ops,
       HolderPCs, WaiterPCs
  <1> QED
    BY <1>1, <1>2, <1>3, <1>4, <1>5, <1>6, <1>7, <1>8, <1>9, <1>10, <1>11,
       <1>12, <1>13, <1>14, <1>15, <1>16, <1>17, <1>18, <1>19, <1>20, <1>21,
       <1>22, <1>23, <1>24, <1>25, <1>26, <1>27, <1>28, <1>29, <1>30, <1>31
       DEF Step, Call, Running, Holder, Leave
-----------------------------------------------------------------------------
(* Invariance *)

\* lwkt_serialize_init() establishes the inductive invariant.
LEMMA IInvInit == Init => IInv
  <1> SUFFICES ASSUME Init PROVE IInv
    OBVIOUS
  <1>1. At(HolderPCs) = {} /\ At(WaiterPCs) = {} /\ At({"panic"}) = {}
    BY DEF Init, At, HolderPCs, WaiterPCs
  <1>2. WordType
    <2>1. interlock \in [acq : BOOLEAN, dis : BOOLEAN, cnt : Int]
      BY DEF Init
    <2>2. pc \in [Threads -> PCs] /\ op \in [Threads -> Ops]
      BY DEF Init, PCs, Ops
    <2>3. sleepq \in [Threads -> {"none", "slz", "id"}]
      BY DEF Init
    <2>4. last_td \in Threads \cup {Nobody} /\ event \in BOOLEAN
      BY DEF Init
    <2> QED
      BY <2>1, <2>2, <2>3, <2>4 DEF WordType
  <1>3. AcqBit /\ MutualExclusion /\ NoPanic
    BY <1>1 DEF Init, AcqBit, MutualExclusion, NoPanic
  <1>4. CountIsWaiters
    BY <1>1, FS_EmptySet DEF Init, CountIsWaiters
  <1>5. LastTd /\ NoLostWakeup /\ DisabledHandlerNotCalled /\ ZSleepInterlocked
    BY ThreadsAssumption DEF Init, LastTd, NoLostWakeup, DisabledHandlerNotCalled,
       ZSleepInterlocked
  <1> QED
    BY <1>2, <1>3, <1>4, <1>5 DEF IInv

\* The bit and its holder: nobody else holds the serializer when a thread
\* enters, and when it leaves nobody is left.
LEMMA HolderStep ==
    ASSUME IInv, NEW t \in Threads, Moves(t), Bit(t)
    PROVE  AcqBit' /\ MutualExclusion'
  <1>t. /\ pc \in [Threads -> PCs] /\ AcqBit /\ MutualExclusion
        /\ pc' = [pc EXCEPT ![t] = pc'[t]]
    BY DEF IInv, WordType, Moves
  <1>1. \A u \in Threads \ {t} : pc'[u] = pc[u]
    BY <1>t
  <1>2. CASE pc[t] \notin HolderPCs /\ pc'[t] \in HolderPCs
    <2>1. ~ interlock.acq /\ interlock'.acq
      BY <1>2 DEF Bit
    <2>2. At(HolderPCs)' = {t}
      BY <1>1, <1>2, <1>t, <2>1 DEF AcqBit, At
    <2> QED
      BY <2>1, <2>2 DEF AcqBit, MutualExclusion
  <1>3. CASE pc[t] \in HolderPCs /\ pc'[t] \notin HolderPCs
    <2>1. ~ interlock'.acq
      BY <1>3 DEF Bit
    <2>2. At(HolderPCs)' = {}
      BY <1>1, <1>3, <1>t DEF MutualExclusion, At
    <2> QED
      BY <2>1, <2>2 DEF AcqBit, MutualExclusion
  <1>4. CASE pc[t] \in HolderPCs <=> pc'[t] \in HolderPCs
    <2>1. interlock'.acq = interlock.acq
      BY <1>4 DEF Bit
    <2>2. At(HolderPCs)' = At(HolderPCs)
      BY <1>1, <1>4 DEF At
    <2> QED
      BY <1>t, <2>1, <2>2 DEF AcqBit, MutualExclusion
  <1> QED
    BY <1>2, <1>3, <1>4

\* The count follows the thread.
LEMMA CountStep ==
    ASSUME IInv, NEW t \in Threads, Moves(t), Counted(t)
    PROVE  CountIsWaiters'
  <1>1. Cardinality(At(WaiterPCs)')
          = Cardinality(At(WaiterPCs)) + (IF pc'[t] \in WaiterPCs THEN 1 ELSE 0)
                                       - (IF pc[t] \in WaiterPCs THEN 1 ELSE 0)
    BY AtMove DEF IInv, WordType, Moves
  <1> QED
    BY <1>1 DEF IInv, CountIsWaiters, Counted

\* last_td names the holder in spite of being written apart from the bit, since
\* whoever writes it holds the serializer.
LEMMA NamedStep ==
    ASSUME IInv, NEW t \in Threads, Moves(t), Bit(t), Named(t)
    PROVE  LastTd' /\ NoPanic'
  <1>t. /\ pc \in [Threads -> PCs] /\ LastTd /\ MutualExclusion /\ NoPanic
        /\ pc' = [pc EXCEPT ![t] = pc'[t]] /\ pc'[t] # "panic"
    BY DEF IInv, WordType, Moves
  <1>1. \A u \in Threads \ {t} : pc'[u] = pc[u]
    BY <1>t
  <1>2. NoPanic'
    BY <1>1, <1>t DEF NoPanic, At
  <1>3. ASSUME NEW u \in Threads, pc'[u] \in {"recheck", "func", "crit", "exit"}
        PROVE  last_td' = u
    <2>1. CASE u = t
      BY <1>t, <1>3, <2>1 DEF Named, LastTd
    <2>2. CASE u # t
      <3>1. pc[u] \in {"recheck", "func", "crit", "exit"} /\ last_td = u
        BY <1>1, <1>3, <1>t, <2>2 DEF LastTd
      <3>2. pc[t] \notin HolderPCs
        BY <1>t, <2>2, <3>1 DEF MutualExclusion, At, HolderPCs
      <3>3. last_td' = last_td
        BY <3>2 DEF Named, HolderPCs
      <3> QED
        BY <3>1, <3>3
    <2> QED
      BY <2>1, <2>2
  <1>4. ASSUME NEW u \in Threads, last_td' = u
        PROVE  pc'[u] \in {"recheck", "func", "crit", "exit"}
    <2>1. CASE u = t
      BY <1>t, <1>4, <2>1, ThreadsAssumption DEF Named, LastTd
    <2>2. CASE u # t
      <3>1. last_td = u
        BY <1>4, <2>2, ThreadsAssumption DEF Named
      <3> QED
        BY <1>1, <1>t, <2>2, <3>1 DEF LastTd
    <2> QED
      BY <2>1, <2>2
  <1> QED
    BY <1>2, <1>3, <1>4 DEF LastTd

\* A thread that is woken or not yet asleep needs nothing; one that sleeps keeps
\* the holder or the releaser it waits for.
LEMMA WakeupStep ==
    ASSUME IInv, NEW t \in Threads, Moves(t), Bit(t), Queued(t), Slept(t)
    PROVE  NoLostWakeup'
  <1>t. /\ pc \in [Threads -> PCs] /\ NoLostWakeup /\ CountIsWaiters
        /\ sleepq \in [Threads -> {"none", "slz", "id"}]
        /\ pc' = [pc EXCEPT ![t] = pc'[t]]
    BY DEF IInv, WordType, Moves
  <1>1. \A u \in Threads \ {t} : pc'[u] = pc[u]
    BY <1>t
  <1> SUFFICES ASSUME NEW u \in Threads, pc'[u] = "sleep", sleepq'[u] = "slz"
               PROVE  interlock'.acq \/ At({"wtest", "wake"})' # {}
    BY DEF NoLostWakeup
  <1>2. CASE u = t
    BY <1>2 DEF Slept
  <1>3. CASE u # t
    <2>1. pc[u] = "sleep"
      BY <1>1, <1>3
    <2>2. sleepq[u] = "slz"
      BY <1>3, <1>t DEF Queued
    <2>3. CASE interlock.acq
      <3>1. interlock'.acq \/ pc'[t] = "wtest"
        BY <2>3 DEF Bit
      <3> QED
        BY <3>1 DEF At
    <2>4. CASE ~ interlock.acq
      <3>1. PICK w \in Threads : pc[w] \in {"wtest", "wake"}
        BY <1>t, <2>1, <2>2, <2>4 DEF NoLostWakeup, At
      <3>2. CASE w # t
        BY <1>1, <3>1, <3>2 DEF At
      <3>3. CASE w = t
        <4>1. pc[t] = "wtest"
          BY <3>1, <3>3 DEF Slept
        <4>2. u \in At(WaiterPCs)
          BY <2>1 DEF At, WaiterPCs
        <4>3. interlock.cnt # 0
          BY <1>t, <4>2, AtNone DEF CountIsWaiters
        <4>4. pc'[t] = "wake"
          BY <4>1, <4>3 DEF Slept
        <4> QED
          BY <4>4 DEF At
      <3> QED
        BY <3>2, <3>3
    <2> QED
      BY <2>3, <2>4
  <1> QED
    BY <1>2, <1>3

\* The handler bit cannot change under a handler, which holds the serializer.
LEMMA HandlerStep ==
    ASSUME IInv, NEW t \in Threads, Moves(t), Handler(t)
    PROVE  DisabledHandlerNotCalled'
  <1>t. /\ pc \in [Threads -> PCs] /\ DisabledHandlerNotCalled /\ MutualExclusion
        /\ pc' = [pc EXCEPT ![t] = pc'[t]]
    BY DEF IInv, WordType, Moves
  <1> SUFFICES ASSUME NEW u \in Threads, pc'[u] = "func", op'[u] = "call"
               PROVE  ~ interlock'.dis
    BY DEF DisabledHandlerNotCalled
  <1>1. CASE u = t
    BY <1>1 DEF Handler
  <1>2. CASE u # t
    <2>1. pc[u] = "func" /\ op[u] = "call"
      BY <1>2, <1>t DEF Handler
    <2>2. ~ interlock.dis
      BY <1>t, <2>1 DEF DisabledHandlerNotCalled
    <2>3. pc[t] # "crit"
      BY <1>2, <1>t, <2>1 DEF MutualExclusion, At, HolderPCs
    <2> QED
      BY <2>2, <2>3 DEF Handler
  <1> QED
    BY <1>1, <1>2

\* Nobody is put on the queue of an event that has come.
LEMMA EventStep ==
    ASSUME IInv, NEW t \in Threads, Queued(t)
    PROVE  ZSleepInterlocked'
  <1>1. /\ sleepq \in [Threads -> {"none", "slz", "id"}] /\ ZSleepInterlocked
    BY DEF IInv, WordType
  <1> QED
    BY <1>1 DEF Queued, ZSleepInterlocked

\* Every step of a thread, and stuttering, preserves the inductive invariant.
LEMMA IInvNext == IInv /\ [Next]_vars => IInv'
  <1> SUFFICES ASSUME IInv, [Next]_vars PROVE IInv'
    OBVIOUS
  <1>u. CASE UNCHANGED vars
    BY <1>u DEF IInv, vars, WordType, AcqBit, MutualExclusion, CountIsWaiters,
                LastTd, NoPanic, NoLostWakeup, DisabledHandlerNotCalled,
                ZSleepInterlocked, At
  <1>n. CASE Next
    <2>1. PICK t \in Threads : Step(t)
      BY <1>n DEF Next, Step
    <2>2. /\ Moves(t) /\ Bit(t) /\ Counted(t) /\ Named(t)
          /\ Handler(t) /\ Queued(t) /\ Slept(t)
      BY <2>1, StepFacts
    <2>3. WordType'
      BY <2>2 DEF Moves
    <2>4. AcqBit' /\ MutualExclusion'
      BY <2>2, HolderStep
    <2>5. CountIsWaiters'
      BY <2>2, CountStep
    <2>6. LastTd' /\ NoPanic'
      BY <2>2, NamedStep
    <2>7. NoLostWakeup'
      BY <2>2, WakeupStep
    <2>8. DisabledHandlerNotCalled'
      BY <2>2, HandlerStep
    <2>9. ZSleepInterlocked'
      BY <2>2, EventStep
    <2> QED
      BY <2>3, <2>4, <2>5, <2>6, <2>7, <2>8, <2>9 DEF IInv
  <1> QED
    BY <1>u, <1>n

\* The inductive invariant holds in every state of the serializer.
THEOREM SerializeInvariance == Spec => []IInv
  <1>1. Init => IInv
    BY IInvInit
  <1>2. IInv /\ [Next]_vars => IInv'
    BY IInvNext
  <1> QED
    BY <1>1, <1>2, PTL DEF Spec

\* The blind incl and decl of the waiter count never underflow it and never
\* carry into bit 30, which would disable the handler.
THEOREM SerializeTypeCorrect == Spec => []TypeOK
  <1>1. IInv => TypeOK
    <2> SUFFICES ASSUME IInv PROVE TypeOK
      OBVIOUS
    <2>1. interlock.cnt \in 0 .. CntLimit - 1
      BY AtFinite, CntAssumption DEF IInv, CountIsWaiters
    <2>2. interlock = [acq |-> interlock.acq, dis |-> interlock.dis,
                       cnt |-> interlock.cnt]
      BY DEF IInv, WordType
    <2>3. interlock \in [acq : BOOLEAN, dis : BOOLEAN, cnt : 0 .. CntLimit - 1]
      BY <2>1, <2>2 DEF IInv, WordType
    <2> QED
      BY <2>3 DEF IInv, WordType, TypeOK
  <1> QED
    BY <1>1, SerializeInvariance, PTL

\* At most one thread holds the serializer, by whichever call.
THEOREM SerializeMutualExclusion == Spec => []MutualExclusion
  <1>1. IInv => MutualExclusion
    BY DEF IInv
  <1> QED
    BY <1>1, SerializeInvariance, PTL

\* ASSERT_SERIALIZED never fails in an exit.
THEOREM SerializeNoPanic == Spec => []NoPanic
  <1>1. IInv => NoPanic
    BY DEF IInv
  <1> QED
    BY <1>1, SerializeInvariance, PTL

\* The waiter count is exact, so nothing is left in the word of a serializer
\* that nobody uses.
THEOREM SerializeCountExact == Spec => []CountIsWaiters
  <1>1. IInv => CountIsWaiters
    BY DEF IInv
  <1> QED
    BY <1>1, SerializeInvariance, PTL

\* lwkt_serialize_sleep() does not miss the wakeup of a release that comes
\* between its look at the bit and its sleep.
THEOREM SerializeNoLostWakeup == Spec => []NoLostWakeup
  <1>1. IInv => NoLostWakeup
    BY DEF IInv
  <1> QED
    BY <1>1, SerializeInvariance, PTL

\* lwkt_serialize_handler_call() does not run a handler that was disabled while
\* it waited for the serializer.
THEOREM SerializeHandler == Spec => []DisabledHandlerNotCalled
  <1>1. IInv => DisabledHandlerNotCalled
    BY DEF IInv
  <1> QED
    BY <1>1, SerializeInvariance, PTL

\* zsleep() does not miss an event that comes after it released the serializer.
THEOREM SerializeZSleep == Spec => []ZSleepInterlocked
  <1>1. IInv => ZSleepInterlocked
    BY DEF IInv
  <1> QED
    BY <1>1, SerializeInvariance, PTL

\* The refinement: every step of the serializer is a step of the abstract lock
\* of RWLock, or leaves its state alone.
THEOREM SerializeRefinesRWLock == Spec => ImplementsRWLock
  <1>1. Init => RW!RWInit
    BY DEF Init, RW!RWInit, ExclHeld, HolderPCs
  <1>2. IInv /\ [Next]_vars => [RW!RWNext]_(RW!rwvars)
    <2> SUFFICES ASSUME IInv, [Next]_vars
                 PROVE  [RW!RWNext]_(RW!rwvars)
      OBVIOUS
    <2>u. CASE UNCHANGED vars
      BY <2>u DEF vars, RW!rwvars, ExclHeld
    <2>n. CASE Next
      <3>1. PICK t \in Threads : Step(t)
        BY <2>n DEF Next, Step
      <3>2. Moves(t) /\ Bit(t)
        BY <3>1, StepFacts
      <3>3. /\ pc \in [Threads -> PCs] /\ AcqBit /\ MutualExclusion
            /\ pc' = [pc EXCEPT ![t] = pc'[t]]
        BY <3>2 DEF IInv, WordType, Moves
      <3>4. CASE pc[t] \notin HolderPCs /\ pc'[t] \in HolderPCs
        <4>1. At(HolderPCs) = {}
          BY <3>2, <3>3, <3>4 DEF Bit, AcqBit
        <4>2. ExclHeld' = [ExclHeld EXCEPT ![t] = 1] /\ ExclHeld[t] = 0
          BY <3>3, <3>4 DEF ExclHeld
        <4>3. ExclHeld' = [ExclHeld EXCEPT ![t] = ExclHeld[t] + 1]
          BY <4>2
        <4>4. RW!NoOtherHold(t)
          BY <4>1 DEF RW!NoOtherHold, ExclHeld, At
        <4>5. RW!AcquireExcl(t)
          BY <4>3, <4>4 DEF RW!AcquireExcl
        <4> QED
          BY <4>5 DEF RW!RWNext, RW!rwvars
      <3>5. CASE pc[t] \in HolderPCs /\ pc'[t] \notin HolderPCs
        <4>1. ExclHeld' = [ExclHeld EXCEPT ![t] = 0] /\ ExclHeld[t] = 1
          BY <3>3, <3>5 DEF ExclHeld
        <4>2. ExclHeld' = [ExclHeld EXCEPT ![t] = ExclHeld[t] - 1]
          BY <4>1
        <4>3. RW!ReleaseExcl(t)
          BY <4>1, <4>2 DEF RW!ReleaseExcl
        <4> QED
          BY <4>3 DEF RW!RWNext, RW!rwvars
      <3>6. CASE pc[t] \in HolderPCs <=> pc'[t] \in HolderPCs
        BY <3>3, <3>6 DEF RW!rwvars, ExclHeld
      <3> QED
        BY <3>4, <3>5, <3>6
    <2> QED
      BY <2>u, <2>n
  <1> QED
    BY <1>1, <1>2, SerializeInvariance, PTL
       DEF Spec, ImplementsRWLock, RW!RWSpec
=============================================================================
