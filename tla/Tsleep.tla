------------------------------- MODULE Tsleep -------------------------------
(***************************************************************************)
(* tsleep(), tsleep_interlock(), wakeup*() and the timeout endtsleep() of  *)
(* sys/kern/kern_synch.c, with the signal side, lwp_signotify(), of        *)
(* sys/kern/kern_sig.c.                                                    *)
(*                                                                         *)
(* Every cpu has its own sleep queues, which only code on that cpu in a    *)
(* critical section touches; slpque_cpumasks[] tells which cpus have       *)
(* anybody on a hash chain, and a wakeup() goes to those cpus as an IPI.   *)
(* What runs in a critical section of one cpu is one step, except that     *)
(* the mask, the IPIs and lwp_token are shared with the other cpus.        *)
(*                                                                         *)
(* An ident is the pair of the address and the PDOMAIN slept on; Chain     *)
(* gives the hash chain, LOOKUP(), of its address.  The flag TDF_TSLEEPQ   *)
(* of a thread is td_wchan # NULL.                                         *)
(***************************************************************************)
EXTENDS Integers, Sequences, SequencesExt

CONSTANTS Cpus, Threads, Idents, NULL,
          CpuOf,      (* the cpu of each thread, td_gd                     *)
          Lwps,       (* the threads that have a td_lwp                    *)
          Sleeps,     (* the flags each thread calls tsleep() with ...     *)
          On,         (* ... and the idents it sleeps on                   *)
          Wakes,      (* the wakeups called on each cpu: <<ident, one>>    *)
          Delayers,   (* the threads that use wakeup_start_delayed()       *)
          Chain,      (* the hash chain of each ident                      *)
          MaxIpi      (* bound on the IPIs under way to a cpu              *)

\* A wakeup on its way to another cpu.
Messages == [fn : {"wakeup"}, ident : Idents, one : BOOLEAN]

ASSUME ConstantsAssumption == /\ CpuOf \in [Threads -> Cpus]
                              /\ Lwps \subseteq Threads
                              /\ Sleeps \in [Threads -> SUBSET SUBSET {"PCATCH", "timo"}]
                              /\ On \in [Threads -> SUBSET Idents]
                              /\ Wakes \in [Cpus -> SUBSET (Idents \X BOOLEAN)]
                              /\ Delayers \subseteq Threads
                              /\ NULL \notin Threads \cup Idents \cup Messages
                              /\ "other" \notin Threads \cup {NULL}
                              /\ MaxIpi \in Nat

VARIABLES gd_tsleep_hash,     (* [cpu][chain]: the queue of threads         *)
          slpque_cpumasks,    (* [chain]: the cpus with a thread on it      *)
          td_wchan,           (* [thread]: the ident it is queued on        *)
          td_flags,           (* [thread]: flags of the thread and its lwp  *)
          lwp_stat,           (* [thread]: LSRUN or LSSLEEP                 *)
          lwp_token,          (* [thread]: who has the token                *)
          callout,            (* [thread]: the timeout is armed             *)
          sigs,               (* the threads with a pending signal          *)
          pc, args,           (* where a thread is, and its call's flags    *)
          crit,               (* [cpu]: the thread in a critical section    *)
          waking,             (* [cpu]: the wakeup it has yet to forward    *)
          ipiq,               (* [cpu]: the IPIs under way to it            *)
          gd_delayed_wakeup,  (* [cpu]: the recorded wakeups                *)
          owed,               (* history: the threads that were queued when
                                 a wakeup() of their ident was called, and *)
          owedOne             (* the same of wakeup_one()                  *)

sleepvars == <<gd_tsleep_hash, slpque_cpumasks, td_wchan, owed, owedOne>>
lwpvars   == <<lwp_stat, lwp_token, callout, sigs>>
cpuvars   == <<crit, waking, ipiq, gd_delayed_wakeup>>
vars == <<sleepvars, td_flags, lwpvars, pc, args, cpuvars>>

Chains == {Chain[i] : i \in Idents}

Flags == {"RUNQ", "TSLEEP_DESCHEDULED", "TIMEOUT", "TIMEOUT_RUNNING",
          "SINTR", "DELAYED_WAKEUP"}

Init == /\ gd_tsleep_hash = [c \in Cpus |-> [h \in Chains |-> <<>>]]
        /\ slpque_cpumasks = [h \in Chains |-> {}]
        /\ td_wchan = [t \in Threads |-> NULL]
        /\ td_flags = [t \in Threads |-> {"RUNQ"}]
        /\ lwp_stat = [t \in Threads |-> "LSRUN"]
        /\ lwp_token = [t \in Threads |-> NULL]
        /\ callout = [t \in Threads |-> FALSE]
        /\ sigs = {}
        /\ pc = [t \in Threads |-> "run"]
        /\ args = [t \in Threads |-> {}]
        /\ crit = [c \in Cpus |-> NULL]
        /\ waking = [c \in Cpus |-> NULL]
        /\ ipiq = [c \in Cpus |-> <<>>]
        /\ gd_delayed_wakeup = [c \in Cpus |-> <<>>]
        /\ owed = {} /\ owedOne = {}

Goto(t, l) == pc' = [pc EXCEPT ![t] = l]

\* Nothing on cpu c is in a critical section: any thread or interrupt may run.
Preemptible(c) == crit[c] = NULL /\ waking[c] = NULL

Enter(t) == crit' = [crit EXCEPT ![CpuOf[t]] = t]
Leave(t) == crit' = [crit EXCEPT ![CpuOf[t]] = NULL]
Inside(t) == crit[CpuOf[t]] = t /\ waking[CpuOf[t]] = NULL

Asleep(t) == "TSLEEP_DESCHEDULED" \in td_flags[t]

\* The debts after a call that owes the threads all, and one of the threads
\* some, a wakeup, once a wakeup has taken the threads S off their queue: one
\* that is asleep settles the debt of a wakeup_one().
Settle(all, some, S) ==
    LET one == IF owedOne = {} THEN some ELSE owedOne
    IN  /\ owed' = (owed \cup all) \ S
        /\ owedOne' = IF \E t \in one \cap S : Asleep(t) THEN {} ELSE one \ S

\* What TAILQ_REMOVE() of the threads S leaves of the queue q: the others, in
\* the order that they have in q.
Remaining(q, S) ==
    {r \in SeqOf(ToSet(q) \ S, Len(q)) :
        /\ ToSet(r) = ToSet(q) \ S
        /\ \A j, k \in DOMAIN r : j < k =>
              \E m, n \in DOMAIN q : m < n /\ q[m] = r[j] /\ q[n] = r[k]}

\* _tsleep_remove() of the threads S of cpu c that sleep on chain h
DequeueClearsMask(c, h, S) ==
    /\ \E rest \in Remaining(gd_tsleep_hash[c][h], S) :
          gd_tsleep_hash' = [gd_tsleep_hash EXCEPT ![c][h] = rest]
    /\ slpque_cpumasks' = [slpque_cpumasks EXCEPT ![h] =
                             IF S # {} THEN @ \ {c} ELSE @]
    /\ td_wchan' = [t \in Threads |-> IF t \in S THEN NULL ELSE td_wchan[t]]

Dequeue(c, h, S) ==
    \E rest \in Remaining(gd_tsleep_hash[c][h], S) :
        /\ gd_tsleep_hash' = [gd_tsleep_hash EXCEPT ![c][h] = rest]
        /\ slpque_cpumasks' = [slpque_cpumasks EXCEPT ![h] =
                                 IF S # {} /\ rest = <<>> THEN @ \ {c} ELSE @]
        /\ td_wchan' = [t \in Threads |-> IF t \in S THEN NULL ELSE td_wchan[t]]

RemoveThread(t) ==
    IF td_wchan[t] = NULL THEN UNCHANGED sleepvars
    ELSE /\ Dequeue(CpuOf[t], Chain[td_wchan[t]], {t})
         /\ owed' = owed \ {t} /\ owedOne' = owedOne \ {t}
-----------------------------------------------------------------------------
(* tsleep_interlock() *)

Insert(t, i) ==
    LET c == CpuOf[t]
    IN  /\ gd_tsleep_hash' = [gd_tsleep_hash EXCEPT ![c][Chain[i]] = Append(@, t)]
        /\ slpque_cpumasks' = [slpque_cpumasks EXCEPT ![Chain[i]] = @ \cup {c}]
        /\ td_wchan' = [td_wchan EXCEPT ![t] = i]
        /\ UNCHANGED <<owed, owedOne>>

Interlock(t, i) == /\ pc[t] = "run" /\ Preemptible(CpuOf[t])
                   /\ td_wchan[t] = NULL
                   /\ Insert(t, i)
                   /\ UNCHANGED <<td_flags, lwpvars, pc, args, cpuvars>>

\* A thread that is still on a queue leaves that one first.  Another cpu may
\* look at the mask in between.
InterlockAgain(t) == /\ pc[t] = "run" /\ Preemptible(CpuOf[t])
                     /\ td_wchan[t] # NULL
                     /\ RemoveThread(t)
                     /\ Goto(t, "insert") /\ Enter(t)
                     /\ UNCHANGED <<td_flags, lwpvars, args, waking, ipiq,
                                    gd_delayed_wakeup>>

InterlockInsert(t, i) == /\ pc[t] = "insert" /\ Inside(t)
                         /\ Insert(t, i)
                         /\ Goto(t, "run") /\ Leave(t)
                         /\ UNCHANGED <<td_flags, lwpvars, args, waking, ipiq,
                                        gd_delayed_wakeup>>

\* tsleep_remove() by a caller that does not sleep after all
CancelInterlock(t) == /\ pc[t] = "run" /\ Preemptible(CpuOf[t])
                      /\ td_wchan[t] # NULL
                      /\ RemoveThread(t)
                      /\ UNCHANGED <<td_flags, lwpvars, pc, args, cpuvars>>
-----------------------------------------------------------------------------
(* tsleep(ident, PINTERLOCKED ...) with the flags a, among PCATCH and a     *)
(* timeout.  The critical section lasts until the thread switches away.     *)

Tsleep(t, a) == /\ pc[t] = "run" /\ Preemptible(CpuOf[t])
                /\ "DELAYED_WAKEUP" \notin td_flags[t]   \* flushed, see below
                /\ args' = [args EXCEPT ![t] = a]
                /\ Goto(t, "enter") /\ Enter(t)
                /\ UNCHANGED <<sleepvars, td_flags, lwpvars, waking, ipiq,
                               gd_delayed_wakeup>>

\* lwkt_gettoken(&lp->lwp_token) has to wait.
GettokenBlock(t) == /\ pc[t] = "enter" /\ Inside(t)
                    /\ t \in Lwps /\ lwp_token[t] \notin {NULL, t}
                    /\ Leave(t)
                    /\ UNCHANGED <<sleepvars, td_flags, lwpvars, pc, args, waking,
                                   ipiq, gd_delayed_wakeup>>

\* Back to the caller, with lwp_token released.
Return(t) == /\ Goto(t, "run") /\ Leave(t)
             /\ args' = [args EXCEPT ![t] = {}]
             /\ lwp_token' = [lwp_token EXCEPT ![t] = NULL]

\* A signal is pending: return at once, still on the queue.
TsleepSignal(t) == /\ pc[t] = "enter" /\ Inside(t)
                   /\ lwp_token[t] \in {NULL, t}
                   /\ "PCATCH" \in args[t] /\ t \in sigs
                   /\ Return(t)
                   /\ UNCHANGED <<sleepvars, td_flags, lwp_stat, callout, sigs,
                                  waking, ipiq, gd_delayed_wakeup>>

TsleepLockedUnchecked(t) ==
    /\ pc[t] = "enter" /\ Inside(t)
    /\ lwp_token[t] \in {NULL, t}
    /\ Goto(t, "locked")
    /\ lwp_token' = [lwp_token EXCEPT ![t] = IF t \in Lwps THEN t ELSE NULL]
    /\ td_flags' = [td_flags EXCEPT ![t] = @ \cup
                      IF "PCATCH" \in args[t] THEN {"SINTR"} ELSE {}]
    /\ UNCHANGED <<sleepvars, lwp_stat, callout, sigs, args, cpuvars>>

TsleepLocked(t) == /\ pc[t] = "enter" /\ Inside(t)
                   /\ lwp_token[t] \in {NULL, t}
                   /\ ~ ("PCATCH" \in args[t] /\ t \in sigs)
                   /\ Goto(t, "locked")
                   /\ lwp_token' = [lwp_token EXCEPT ![t] =
                                      IF t \in Lwps THEN t ELSE NULL]
                   /\ td_flags' = [td_flags EXCEPT ![t] = @ \cup
                                     IF "PCATCH" \in args[t] THEN {"SINTR"} ELSE {}]
                   /\ UNCHANGED <<sleepvars, lwp_stat, callout, sigs, args, cpuvars>>

\* A wakeup came between the interlock and here.
TsleepWoken(t) == /\ pc[t] = "locked" /\ Inside(t)
                  /\ td_wchan[t] = NULL
                  /\ Return(t)
                  /\ td_flags' = [td_flags EXCEPT ![t] = @ \ {"SINTR"}]
                  /\ UNCHANGED <<sleepvars, lwp_stat, callout, sigs, waking, ipiq,
                                 gd_delayed_wakeup>>

\* KKASSERT((td->td_flags & TDF_TIMEOUT) == 0); lwkt_switch() gives up the token.
Deschedule(t) ==
    /\ pc[t] = "locked" /\ Inside(t)
    /\ td_wchan[t] # NULL
    /\ Goto(t, IF "TIMEOUT" \in td_flags[t] THEN "panic" ELSE "asleep")
    /\ Leave(t)
    /\ td_flags' = [td_flags EXCEPT ![t] = (@ \ {"RUNQ"}) \cup {"TSLEEP_DESCHEDULED"}]
    /\ callout' = [callout EXCEPT ![t] = "timo" \in args[t]]
    /\ lwp_stat' = [lwp_stat EXCEPT ![t] = IF t \in Lwps THEN "LSSLEEP" ELSE @]
    /\ lwp_token' = [lwp_token EXCEPT ![t] = NULL]
    /\ UNCHANGED <<sleepvars, sigs, args, waking, ipiq, gd_delayed_wakeup>>

\* The scheduler runs t again; it has to get lwp_token back for it.
SwitchIn(t) == /\ pc[t] \in {"enter", "asleep", "tsrace"} /\ Preemptible(CpuOf[t])
               /\ "RUNQ" \in td_flags[t]
               /\ lwp_token[t] = NULL
               /\ Goto(t, IF pc[t] = "enter" THEN "enter" ELSE "awake") /\ Enter(t)
               /\ lwp_token' = [lwp_token EXCEPT ![t] = IF t \in Lwps THEN t ELSE NULL]
               /\ lwp_stat' = [lwp_stat EXCEPT ![t] = "LSRUN"]
               /\ UNCHANGED <<sleepvars, td_flags, callout, sigs, args, waking, ipiq,
                              gd_delayed_wakeup>>

\* The timeout runs but waits for lwp_token: deschedule and wait for it.
TimeoutRace(t) == /\ pc[t] = "awake" /\ Inside(t)
                  /\ "timo" \in args[t] /\ "TIMEOUT_RUNNING" \in td_flags[t]
                  /\ Goto(t, "tsrace") /\ Leave(t)
                  /\ td_flags' = [td_flags EXCEPT ![t] = @ \ {"RUNQ"}]
                  /\ lwp_token' = [lwp_token EXCEPT ![t] = NULL]
                  /\ UNCHANGED <<sleepvars, lwp_stat, callout, sigs, args, waking, ipiq,
                                 gd_delayed_wakeup>>

WakeForgetsCallout(t) ==
    /\ pc[t] = "awake" /\ Inside(t)
    /\ ~ ("timo" \in args[t] /\ "TIMEOUT_RUNNING" \in td_flags[t])
    /\ td_flags' = [td_flags EXCEPT ![t] = @ \ {"TIMEOUT", "TSLEEP_DESCHEDULED", "SINTR"}]
    /\ RemoveThread(t)
    /\ Return(t)
    /\ UNCHANGED <<lwp_stat, callout, sigs, waking, ipiq, gd_delayed_wakeup>>

\* Clean up after the sleep: callout_stop() or the timeout, and the queue,
\* which a thread that a signal woke up is still on.
Wake(t) ==
    /\ pc[t] = "awake" /\ Inside(t)
    /\ ~ ("timo" \in args[t] /\ "TIMEOUT_RUNNING" \in td_flags[t])
    /\ td_flags' = [td_flags EXCEPT ![t] = @ \ {"TIMEOUT", "TSLEEP_DESCHEDULED", "SINTR"}]
    /\ callout' = [callout EXCEPT ![t] = FALSE]
    /\ RemoveThread(t)
    /\ Return(t)
    /\ UNCHANGED <<lwp_stat, sigs, waking, ipiq, gd_delayed_wakeup>>
-----------------------------------------------------------------------------
(* endtsleep(), run by the callout thread of the cpu of t *)

\* setrunnable(lp) for a lwp, _tsleep_remove() and lwkt_schedule() otherwise;
\* flags is what td_flags is to be besides.
TimedOut(t, flags) ==
    IF t \notin Lwps \/ lwp_stat[t] = "LSSLEEP"
    THEN RemoveThread(t) /\ td_flags' = [td_flags EXCEPT ![t] = flags \cup {"RUNQ"}]
    ELSE UNCHANGED sleepvars /\ td_flags' = [td_flags EXCEPT ![t] = flags]

\* KKASSERT(td->td_flags & TDF_TSLEEP_DESCHEDULED)
StillAsleep(t) == IF "TSLEEP_DESCHEDULED" \in td_flags[t] THEN UNCHANGED pc
                  ELSE Goto(t, "panic")

EndTsleep(t) == /\ callout[t] /\ Preemptible(CpuOf[t])
                /\ lwp_token[t] = NULL
                /\ callout' = [callout EXCEPT ![t] = FALSE]
                /\ StillAsleep(t)
                /\ TimedOut(t, td_flags[t] \cup {"TIMEOUT"})
                /\ UNCHANGED <<lwp_stat, lwp_token, sigs, args, cpuvars>>

EndTsleepGivesUp(t) == /\ callout[t] /\ Preemptible(CpuOf[t])
                       /\ lwp_token[t] # NULL
                       /\ callout' = [callout EXCEPT ![t] = FALSE]
                       /\ UNCHANGED <<sleepvars, td_flags, lwp_stat, lwp_token, sigs, pc,
                                      args, cpuvars>>

EndTsleepBlock(t) == /\ callout[t] /\ Preemptible(CpuOf[t])
                     /\ lwp_token[t] # NULL
                     /\ callout' = [callout EXCEPT ![t] = FALSE]
                     /\ td_flags' = [td_flags EXCEPT ![t] =
                                       @ \cup {"TIMEOUT", "TIMEOUT_RUNNING"}]
                     /\ UNCHANGED <<sleepvars, lwp_stat, lwp_token, sigs, pc, args,
                                    cpuvars>>

EndTsleepResume(t) == /\ "TIMEOUT_RUNNING" \in td_flags[t]
                      /\ Preemptible(CpuOf[t])
                      /\ lwp_token[t] = NULL
                      /\ StillAsleep(t)
                      /\ TimedOut(t, td_flags[t] \ {"TIMEOUT_RUNNING"})
                      /\ UNCHANGED <<lwpvars, args, cpuvars>>
-----------------------------------------------------------------------------
(* _wakeup() *)

\* Where the threads that sleep on i are in the queue of cpu c.
Matching(c, i) == LET q == gd_tsleep_hash[c][Chain[i]]
                  IN  {n \in DOMAIN q : td_wchan[q[n]] = i}

\* The threads that the scan of the queue takes off it: with PWAKEUP_ONE it
\* ends at the first that it schedules.
Scanned(c, i, one) ==
    LET q == gd_tsleep_hash[c][Chain[i]]
    IN  {q[n] : n \in {n \in Matching(c, i) :
                          one => \A m \in Matching(c, i) : m < n => ~ Asleep(q[m])}}

\* What a call of wakeup(i) or wakeup_one(i) owes.
Sleepers(i) == {t \in Threads : td_wchan[t] = i}
All(i, one) == IF one THEN {} ELSE Sleepers(i)
Some(i, one) == IF one THEN Sleepers(i) ELSE {}

Scan(c, i, one, all, some) ==
    LET S == Scanned(c, i, one)
    IN  /\ Dequeue(c, Chain[i], S)
        /\ Settle(all, some, S)
        /\ td_flags' = [t \in Threads |-> IF t \in S /\ Asleep(t)
                                          THEN td_flags[t] \cup {"RUNQ"} ELSE td_flags[t]]

DoneOnRemoval(c, i, one) == one /\ Scanned(c, i, one) # {}

\* wakeup_one() is done when it has scheduled a thread of its own cpu.
Done(c, i, one) == one /\ \E t \in Scanned(c, i, one) : Asleep(t)

Message(i, one) == [fn |-> "wakeup", ident |-> i, one |-> one]

Room(c) == Len(ipiq[c]) < MaxIpi

\* wakeup(), wakeup_one(), wakeup_domain*() called on cpu c
Wakeup(c, i, one) ==
    /\ Preemptible(c)
    /\ Scan(c, i, one, All(i, one), Some(i, one))
    /\ waking' = [waking EXCEPT ![c] = IF Done(c, i, one) THEN NULL
                                       ELSE Message(i, one)]
    /\ UNCHANGED <<lwpvars, pc, args, crit, ipiq, gd_delayed_wakeup>>

\* The IPIs go to the other cpus that have their bit set now.
Forward(c) ==
    /\ waking[c] # NULL
    /\ LET mask == slpque_cpumasks[Chain[waking[c].ident]] \ {c}
       IN  /\ \A d \in mask : Room(d)
           /\ ipiq' = [d \in Cpus |-> IF d \in mask THEN Append(ipiq[d], waking[c])
                                      ELSE ipiq[d]]
    /\ waking' = [waking EXCEPT ![c] = NULL]
    /\ UNCHANGED <<sleepvars, td_flags, lwpvars, pc, args, crit, gd_delayed_wakeup>>

\* wakeup_mycpu*() and wakeup_oncpu*() of the own cpu
WakeupMyCpu(c, i, one) ==
    /\ Preemptible(c)
    /\ Scan(c, i, one, {}, {})
    /\ UNCHANGED <<lwpvars, pc, args, cpuvars>>

\* wakeup_oncpu*() of another cpu
WakeupOnCpu(c, d, i, one) ==
    /\ Preemptible(c) /\ Room(d)
    /\ ipiq' = [ipiq EXCEPT ![d] = Append(@, Message(i, one))]
    /\ UNCHANGED <<sleepvars, td_flags, lwpvars, pc, args, crit, waking,
                   gd_delayed_wakeup>>

\* An IPI runs outside of critical sections, and also inside of one while IPIs
\* are being sent, which processes incoming ones: in _wakeup(), and in
\* release_curproc() of tsleep().
Interruptible(c) == \/ Preemptible(c)
                    \/ waking[c] # NULL
                    \/ crit[c] # NULL /\ pc[crit[c]] = "locked"

\* _wakeup() with PWAKEUP_MYCPU, lwp_signotify_remote()
Deliver(c) ==
    /\ ipiq[c] # <<>> /\ Interruptible(c)
    /\ ipiq' = [ipiq EXCEPT ![c] = Tail(@)]
    /\ LET m == Head(ipiq[c])
       IN  IF m.fn = "wakeup" THEN Scan(c, m.ident, m.one, {}, {})
           ELSE /\ td_flags' = [td_flags EXCEPT ![m.td] =
                                  IF "SINTR" \in @ THEN @ \cup {"RUNQ"} ELSE @]
                /\ UNCHANGED sleepvars
    /\ UNCHANGED <<lwpvars, pc, args, crit, waking, gd_delayed_wakeup>>
-----------------------------------------------------------------------------
(* wakeup_start_delayed() and wakeup_end_delayed().  tsleep() begins with   *)
(* the latter when the section is still open.                               *)

StartDelayed(t) == /\ pc[t] = "run" /\ Preemptible(CpuOf[t])
                   /\ td_flags' = [td_flags EXCEPT ![t] = @ \cup {"DELAYED_WAKEUP"}]
                   /\ UNCHANGED <<sleepvars, lwpvars, pc, args, cpuvars>>

\* wakeup(): record up to two.
RecordWakeup(t, i) ==
    LET c == CpuOf[t]
    IN  /\ pc[t] = "run" /\ Preemptible(c)
        /\ "DELAYED_WAKEUP" \in td_flags[t]
        /\ Len(gd_delayed_wakeup[c]) < 2
        /\ gd_delayed_wakeup' = [gd_delayed_wakeup EXCEPT ![c] = Append(@, i)]
        /\ Settle(All(i, FALSE), {}, {})
        /\ UNCHANGED <<gd_tsleep_hash, slpque_cpumasks, td_wchan, td_flags, lwpvars,
                       pc, args, crit, waking, ipiq>>

RecordThirdForgets(t, i) ==
    LET c == CpuOf[t]
    IN  /\ pc[t] = "run" /\ Preemptible(c)
        /\ "DELAYED_WAKEUP" \in td_flags[t]
        /\ Len(gd_delayed_wakeup[c]) = 2
        /\ gd_delayed_wakeup' = [gd_delayed_wakeup EXCEPT ![c] = <<@[1], i>>]
        /\ Scan(c, i, FALSE, All(i, FALSE), {})
        /\ waking' = [waking EXCEPT ![c] = Message(i, FALSE)]
        /\ UNCHANGED <<lwpvars, pc, args, crit, ipiq>>

\* Both are taken: the swaps push the oldest out, which is done now.
RecordThird(t, i) ==
    LET c == CpuOf[t]
        oldest == Head(gd_delayed_wakeup[c])
    IN  /\ pc[t] = "run" /\ Preemptible(c)
        /\ "DELAYED_WAKEUP" \in td_flags[t]
        /\ Len(gd_delayed_wakeup[c]) = 2
        /\ gd_delayed_wakeup' = [gd_delayed_wakeup EXCEPT ![c] = <<@[2], i>>]
        /\ Scan(c, oldest, FALSE, All(i, FALSE), {})
        /\ waking' = [waking EXCEPT ![c] = Message(oldest, FALSE)]
        /\ UNCHANGED <<lwpvars, pc, args, crit, ipiq>>

EndDelayed(t) == /\ pc[t] = "run" /\ Preemptible(CpuOf[t])
                 /\ "DELAYED_WAKEUP" \in td_flags[t]
                 /\ td_flags' = [td_flags EXCEPT ![t] = @ \ {"DELAYED_WAKEUP"}]
                 /\ Goto(t, "flush") /\ Enter(t)
                 /\ UNCHANGED <<sleepvars, lwpvars, args, waking, ipiq,
                                gd_delayed_wakeup>>

Flush(t) ==
    LET c == CpuOf[t]
    IN  /\ pc[t] = "flush" /\ Inside(t)
        /\ IF gd_delayed_wakeup[c] = <<>>
           THEN /\ Goto(t, "run") /\ Leave(t)
                /\ UNCHANGED <<sleepvars, td_flags, waking, gd_delayed_wakeup>>
           ELSE /\ Scan(c, Head(gd_delayed_wakeup[c]), FALSE, {}, {})
                /\ waking' = [waking EXCEPT ![c] =
                                 Message(Head(gd_delayed_wakeup[c]), FALSE)]
                /\ gd_delayed_wakeup' = [gd_delayed_wakeup EXCEPT ![c] = Tail(@)]
                /\ UNCHANGED <<pc, crit>>
        /\ UNCHANGED <<lwpvars, args, ipiq>>
-----------------------------------------------------------------------------
(* Another thread that has lwp_token of t, to post a signal or otherwise *)

OtherGettoken(t) == /\ lwp_token[t] = NULL
                    /\ lwp_token' = [lwp_token EXCEPT ![t] = "other"]
                    /\ UNCHANGED <<sleepvars, td_flags, lwp_stat, callout, sigs, pc,
                                   args, cpuvars>>

OtherReltoken(t) == /\ lwp_token[t] = "other"
                    /\ lwp_token' = [lwp_token EXCEPT ![t] = NULL]
                    /\ UNCHANGED <<sleepvars, td_flags, lwp_stat, callout, sigs, pc,
                                   args, cpuvars>>

\* lwp_signotify() on another cpu than that of t ...
SignalRemote(t) == /\ lwp_token[t] = "other" /\ t \notin sigs
                   /\ sigs' = sigs \cup {t}
                   /\ IF "SINTR" \in td_flags[t]
                      THEN /\ Room(CpuOf[t])
                           /\ ipiq' = [ipiq EXCEPT ![CpuOf[t]] =
                                         Append(@, [fn |-> "signotify", td |-> t])]
                      ELSE UNCHANGED ipiq
                   /\ UNCHANGED <<sleepvars, td_flags, lwp_stat, lwp_token, callout,
                                  pc, args, crit, waking, gd_delayed_wakeup>>

\* ... and on the same one, where it is setrunnable().
SignalLocal(t) == /\ lwp_token[t] = "other" /\ t \notin sigs
                  /\ Preemptible(CpuOf[t])
                  /\ sigs' = sigs \cup {t}
                  /\ IF "SINTR" \in td_flags[t] /\ lwp_stat[t] = "LSSLEEP"
                     THEN /\ RemoveThread(t)
                          /\ td_flags' = [td_flags EXCEPT ![t] = @ \cup {"RUNQ"}]
                     ELSE UNCHANGED <<sleepvars, td_flags>>
                  /\ UNCHANGED <<lwp_stat, lwp_token, callout, pc, args, cpuvars>>

\* The thread returns to user mode and takes its signals.
TakeSignal(t) == /\ pc[t] = "run" /\ t \in sigs
                 /\ sigs' = sigs \ {t}
                 /\ UNCHANGED <<sleepvars, td_flags, lwp_stat, lwp_token, callout, pc,
                                args, cpuvars>>
-----------------------------------------------------------------------------
Call(t) == \/ \E i \in On[t] : Interlock(t, i)
           \/ InterlockAgain(t) \/ CancelInterlock(t)
           \/ \E a \in Sleeps[t] : Tsleep(t, a)
           \/ t \in sigs /\ TakeSignal(t)

Delay(t) == \/ StartDelayed(t) \/ EndDelayed(t)
            \/ \E i \in Idents : RecordWakeup(t, i) \/ RecordThird(t, i)

\* A thread inside tsleep(), tsleep_interlock() or wakeup_end_delayed()
Running(t) == \/ \E i \in On[t] : InterlockInsert(t, i)
              \/ GettokenBlock(t) \/ TsleepSignal(t) \/ TsleepLocked(t)
              \/ TsleepWoken(t) \/ Deschedule(t)
              \/ TimeoutRace(t) \/ Wake(t) \/ Flush(t)

Timeout(t) == EndTsleep(t) \/ EndTsleepBlock(t) \/ EndTsleepResume(t)

Signal(t) == OtherGettoken(t) \/ SignalRemote(t) \/ SignalLocal(t)

Waker(c) == \E w \in Wakes[c] :
               \/ Wakeup(c, w[1], w[2]) \/ WakeupMyCpu(c, w[1], w[2])
               \/ \E d \in Cpus \ {c} : WakeupOnCpu(c, d, w[1], w[2])

Next == \/ \E t \in Threads : Call(t) \/ Running(t) \/ SwitchIn(t) \/ Timeout(t)
        \/ \E t \in Delayers : Delay(t)
        \/ \E t \in Lwps : Signal(t) \/ OtherReltoken(t)
        \/ \E c \in Cpus : Waker(c) \/ Forward(c) \/ Deliver(c)

Spec == Init /\ [][Next]_vars
-----------------------------------------------------------------------------
(* Properties *)

PCs == {"run", "insert", "enter", "locked", "asleep", "awake", "tsrace", "flush",
        "panic"}

ThreadTypes == /\ td_wchan \in [Threads -> Idents \cup {NULL}]
               /\ td_flags \in [Threads -> SUBSET Flags]
               /\ lwp_stat \in [Threads -> {"LSRUN", "LSSLEEP"}]
               /\ lwp_token \in [Threads -> Threads \cup {NULL, "other"}]
               /\ callout \in [Threads -> BOOLEAN]
               /\ sigs \subseteq Lwps
               /\ pc \in [Threads -> PCs]
               /\ args \in [Threads -> SUBSET {"PCATCH", "timo"}]

QueueTypes == /\ gd_tsleep_hash \in [Cpus -> [Chains -> Seq(Threads)]]
              /\ slpque_cpumasks \in [Chains -> SUBSET Cpus]
              /\ owed \subseteq Threads /\ owedOne \subseteq Threads

CpuTypes == /\ crit \in [Cpus -> Threads \cup {NULL}]
            /\ waking \in [Cpus -> Messages \cup {NULL}]
            /\ ipiq \in [Cpus -> Seq(Messages \cup [fn : {"signotify"}, td : Threads])]
            /\ gd_delayed_wakeup \in [Cpus -> Seq(Idents)]
            /\ \A c \in Cpus : Len(gd_delayed_wakeup[c]) <= 2

\* Type invariant
TypeOK == ThreadTypes /\ QueueTypes /\ CpuTypes

Queued(t) == td_wchan[t] # NULL

\* The shared masks tell the truth about the private queues, however the cpus
\* insert, remove and requeue: a bit is set exactly when its queue has a
\* thread, and a thread is queued exactly once, on its own cpu and the chain of
\* its td_wchan.
MaskExact ==
    /\ \A c \in Cpus, h \in Chains :
          c \in slpque_cpumasks[h] <=> gd_tsleep_hash[c][h] # <<>>
    /\ \A c \in Cpus, h \in Chains : IsInjective(gd_tsleep_hash[c][h])
    /\ \A c \in Cpus, h \in Chains, t \in Threads :
          Contains(gd_tsleep_hash[c][h], t)
             <=> Queued(t) /\ CpuOf[t] = c /\ Chain[td_wchan[t]] = h

\* A wakeup of i that is to reach cpu c, a wakeup() if ones is {FALSE}.
Pending(c, i, ones) ==
    \/ \E d \in Cpus \ {c}, b \in ones : waking[d] = Message(i, b)
    \/ \E b \in ones : Contains(ipiq[c], Message(i, b))
    \/ \E d \in Cpus : Contains(gd_delayed_wakeup[d], i)

\* No wakeup() is lost on its way: a thread that was on the queue when it was
\* called, on whatever cpu, is off it, or the wakeup is still being forwarded,
\* under way to its cpu as an IPI, or recorded in a delayed wakeup section.
NoLostWakeup == \A t \in owed : Pending(CpuOf[t], td_wchan[t], {FALSE})

\* The same of wakeup_one(): until it has scheduled one of the threads that were
\* queued when it was called, it is on its way to one of them, although it also
\* takes threads off the queue that it has no need to schedule.
NoLostWakeupOne ==
    owedOne # {} => \E t \in owedOne : Queued(t) /\ Pending(CpuOf[t], td_wchan[t], BOOLEAN)

\* A thread that tsleep() descheduled is on a queue, where a wakeup finds it,
\* until it is scheduled: wakeups between the interlock and the deschedule,
\* signals and timeouts take no thread off the queue that they do not schedule.
SleeperQueued == \A t \in Threads : pc[t] = "asleep" /\ "RUNQ" \notin td_flags[t]
                                       => Queued(t)

\* Masks, queues, td_wchan and the state of the threads agree between any two
\* critical sections of tsleep(), tsleep_interlock(), wakeup() and endtsleep():
\* the types, exact masks, and every descheduled sleeper where a wakeup looks.
Consistent == TypeOK /\ MaskExact /\ SleeperQueued

\* No KKASSERT fails: endtsleep() finds the thread still descheduled and the
\* next tsleep() finds TDF_TIMEOUT clear, although a wakeup races the timeout.
NoPanic == \A t \in Threads : pc[t] # "panic"

\* A tsleep() with a timeout does not sleep forever: its callout is armed or
\* endtsleep() is running, until something has scheduled the thread.
TimeoutPending ==
    \A t \in Threads : pc[t] = "asleep" /\ "timo" \in args[t] /\ "RUNQ" \notin td_flags[t]
                         => callout[t] \/ "TIMEOUT_RUNNING" \in td_flags[t]

\* Nor does a tsleep() with PCATCH sleep through a signal: between the test for
\* pending signals, LWP_SINTR and the switch no signal gets by unnoticed, and
\* the IPI that one sent meanwhile is still under way.
SignalPending ==
    \A t \in sigs : pc[t] = "asleep" /\ "PCATCH" \in args[t] /\ "RUNQ" \notin td_flags[t]
                     => Contains(ipiq[CpuOf[t]], [fn |-> "signotify", td |-> t])

\* What the comment in tsleep() says of a thread that finds its timeout running
\* (it deschedules itself): "then wait for us to get scheduled".  endtsleep()
\* is still to schedule it, or has.
TimeoutRaceScheduled ==
    \A t \in Threads : pc[t] = "tsrace" =>
        "RUNQ" \in td_flags[t] \/ "TIMEOUT_RUNNING" \in td_flags[t]
=============================================================================
