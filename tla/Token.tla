-------------------------------- MODULE Token -------------------------------
(***************************************************************************)
(* LWKT tokens: sys/kern/lwkt_token.c, the loop of lwkt_switch() in        *)
(* sys/kern/lwkt_thread.c that gets back the tokens of a thread, and the   *)
(* layout of struct lwkt_token in sys/sys/thread.h.                        *)
(*                                                                         *)
(* A thread keeps a stack of references to the tokens it wants.  They are  *)
(* all released when it switches away and all acquired before it runs      *)
(* again.  t_count is a record of its fields TOK_EXCLUSIVE, TOK_EXCLREQ    *)
(* and the count above them; t_ref is the reference of the exclusive       *)
(* holder, <<thread, position in its stack>>.  One step is one access to   *)
(* a token that others may interleave with.  Every thread has a cpu of its *)
(* own, which is where tokens contend.                                     *)
(***************************************************************************)
EXTENDS Integers, Sequences, SequencesExt, FiniteSetsExt

CONSTANTS Threads, NULL,
          Tokens,      (* the tokens, which are their addresses             *)
          MaxToks,     (* the bound on each thread's stack, LWKT_MAXTOKENS  *)
          SpinLoops,   (* lwkt_spin_loops                                   *)
          Calls        (* what each thread does with tokens, see Call       *)

ASSUME TokensAssumption == /\ IsFiniteSet(Threads)
                           /\ Tokens \subseteq Nat /\ SpinLoops \in Nat
                           /\ MaxToks \in [Threads -> Nat]
                           /\ NULL \notin Threads \X Nat

VARIABLES t_count, t_ref,   (* of each token                                 *)
          toks,       (* td_toks_base .. td_toks_stop of each thread: tr_tok,
                         whether tr_count has TOK_EXCLUSIVE, and whether the
                         caller asked for the token exclusively             *)
          have,       (* the references acquired, in that order             *)
          want,       (* the references still to acquire, in that order     *)
          pc, call,   (* where each thread is, and in which call            *)
          saw,        (* the TOK_EXCLREQ that a release has read            *)
          spinning,   (* of lwkt_switch()                                   *)
          idle        (* the idle thread switches to it                     *)

tokvars == <<t_count, t_ref>>
refvars == <<toks, have, want>>
vars == <<tokvars, refvars, pc, call, saw, spinning, idle>>

Init == /\ t_count = [k \in Tokens |-> [ex |-> FALSE, req |-> FALSE, cnt |-> 0]]
        /\ t_ref = [k \in Tokens |-> NULL]
        /\ toks = [t \in Threads |-> <<>>]
        /\ have = [t \in Threads |-> <<>>]
        /\ want = [t \in Threads |-> <<>>]
        /\ pc = [t \in Threads |-> "run"]
        /\ call = [t \in Threads |-> "none"]
        /\ saw = [t \in Threads |-> FALSE]
        /\ spinning = [t \in Threads |-> 0]
        /\ idle = [t \in Threads |-> FALSE]

Goto(t, l) == pc' = [pc EXCEPT ![t] = l]

\* The stack of t in its own order.
All(t) == [i \in 1 .. Len(toks[t]) |-> i]

\* The reference being acquired, and its token.
Cur(t) == Head(want[t])
Tok(t) == toks[t][Cur(t)].tok
-----------------------------------------------------------------------------
(* The calls of a running thread *)

\* KKASSERT(ref < &td->td_toks_end) is a bound on what callers do.
Push(t, k, excl, c) ==
    /\ pc[t] = "run" /\ Len(toks[t]) < MaxToks[t]
    /\ toks' = [toks EXCEPT ![t] = Append(@, [tok |-> k, ex |-> excl, asked |-> excl])]
    /\ want' = [want EXCEPT ![t] = <<Len(toks[t]) + 1>>]
    /\ Goto(t, "try")
    /\ call' = [call EXCEPT ![t] = c]
    /\ UNCHANGED <<tokvars, have, saw, spinning, idle>>

\* With DEBUG_LOCKS it is asserted that a thread which holds a token only shared
\* does not ask for it exclusively.
Gettoken(t, k) == /\ \A i \in 1 .. Len(toks[t]) : toks[t][i].tok = k =>
                         \E j \in 1 .. Len(toks[t]) : toks[t][j].tok = k /\ toks[t][j].ex
                  /\ Push(t, k, TRUE, "get")

GettokenShared(t, k) == Push(t, k, FALSE, "getshared")

Trytoken(t, k) == Push(t, k, TRUE, "try")

Reltoken(t) == /\ pc[t] = "run" /\ toks[t] # <<>>
               /\ Goto(t, "rel")
               /\ call' = [call EXCEPT ![t] = "rel"]
               /\ UNCHANGED <<tokvars, refvars, saw, spinning, idle>>

\* lwkt_switch(), called to yield or, off the run queue, to sleep
Switch(t, asleep) == /\ pc[t] = "run" /\ toks[t] # <<>>
                     /\ Goto(t, "rel")
                     /\ call' = [call EXCEPT ![t] = "switch"]
                     /\ idle' = [idle EXCEPT ![t] = asleep]
                     /\ UNCHANGED <<tokvars, refvars, saw, spinning>>

SwapKeepsRef(t) ==
    LET n == Len(toks[t])
    IN  /\ pc[t] = "run" /\ n >= 2
        /\ toks[t][n].tok # toks[t][n - 1].tok
        /\ toks' = [toks EXCEPT ![t][n] = toks[t][n - 1], ![t][n - 1] = toks[t][n]]
        /\ UNCHANGED <<tokvars, have, want, pc, call, saw, spinning, idle>>

\* lwkt_token_swap(): the t_ref of an exclusive token follows its reference.
Swap(t) ==
    LET n == Len(toks[t])
        moved(r) == CASE r = <<t, n>> -> <<t, n - 1>>
                      [] r = <<t, n - 1>> -> <<t, n>>
                      [] OTHER -> r
    IN  /\ pc[t] = "run" /\ n >= 2
        /\ toks[t][n].tok # toks[t][n - 1].tok
        /\ toks' = [toks EXCEPT ![t][n] = toks[t][n - 1], ![t][n - 1] = toks[t][n]]
        /\ t_ref' = [k \in Tokens |-> moved(t_ref[k])]
        /\ UNCHANGED <<t_count, have, want, pc, call, saw, spinning, idle>>
-----------------------------------------------------------------------------
(* _lwkt_trytokref() *)

\* The reference is acquired: go on with the next, or run.  lwkt_gettoken()
\* asserts after its switch that t_ref is its reference.
Acquired(t) ==
    LET last == Tail(want[t]) = <<>>
    IN  /\ have' = [have EXCEPT ![t] = IF last THEN All(t) ELSE Append(@, Cur(t))]
        /\ want' = [want EXCEPT ![t] = Tail(@)]
        /\ Goto(t, IF ~ last THEN "try" ELSE IF call[t] = "getswitch" THEN "check" ELSE "run")
        /\ call' = IF last /\ call[t] # "getswitch" THEN [call EXCEPT ![t] = "none"] ELSE call
        /\ spinning' = IF last THEN [spinning EXCEPT ![t] = 0] ELSE spinning
        /\ idle' = IF last THEN [idle EXCEPT ![t] = FALSE] ELSE idle

Trying(t) == pc[t] \in {"try", "again"}

Free(k) == ~ t_count[k].ex /\ t_count[k].cnt = 0

\* t_ref points into the stack of t.
Mine(t, k) == t_count[k].ex /\ t_ref[k] # NULL /\ t_ref[k][1] = t

TakeExclUnderShared(t) ==
    /\ Trying(t) /\ toks[t][Cur(t)].ex
    /\ ~ t_count[Tok(t)].ex
    /\ t_count' = [t_count EXCEPT ![Tok(t)].ex = TRUE, ![Tok(t)].req = FALSE]
    /\ Goto(t, "setref")
    /\ UNCHANGED <<t_ref, refvars, call, saw, spinning, idle>>

TakeExcl(t) ==
    /\ Trying(t) /\ toks[t][Cur(t)].ex
    /\ Free(Tok(t))
    /\ t_count' = [t_count EXCEPT ![Tok(t)].ex = TRUE, ![Tok(t)].req = FALSE]
    /\ Goto(t, "setref")
    /\ UNCHANGED <<t_ref, refvars, call, saw, spinning, idle>>

\* KKASSERT(tok->t_ref == NULL); tok->t_ref = ref
SetRef(t) ==
    /\ pc[t] = "setref"
    /\ t_ref' = [t_ref EXCEPT ![Tok(t)] = <<t, Cur(t)>>]
    /\ IF t_ref[Tok(t)] = NULL THEN Acquired(t)
       ELSE Goto(t, "panic") /\ UNCHANGED <<have, want, call, spinning, idle>>
    /\ UNCHANGED <<t_count, toks, saw>>

\* The thread has the exclusive bit: count the reference as a shared one.
Recurse(t) ==
    /\ Trying(t) /\ Mine(t, Tok(t))
    /\ t_count' = [t_count EXCEPT ![Tok(t)].cnt = @ + 1]
    /\ toks' = [toks EXCEPT ![t][Cur(t)].ex = FALSE]
    /\ Acquired(t)
    /\ UNCHANGED <<t_ref, saw>>

\* TOK_EXCLREQ does not keep shared acquisitions out.
TakeShared(t) ==
    /\ Trying(t) /\ ~ toks[t][Cur(t)].ex
    /\ ~ t_count[Tok(t)].ex
    /\ t_count' = [t_count EXCEPT ![Tok(t)].cnt = @ + 1]
    /\ Acquired(t)
    /\ UNCHANGED <<t_ref, toks, saw>>

\* lwkt_switch() counts its failures, up to lwkt_spin_loops, but not those of a
\* thread that is not on the run queue, for which the idle thread tries.
CountSpin(t) == spinning' = IF /\ call[t] \in {"switch", "getswitch"}
                               /\ ~ idle[t] /\ spinning[t] < SpinLoops
                            THEN [spinning EXCEPT ![t] = @ + 1] ELSE spinning

\* Failure.  trytoken takes its reference off the stack; the others release
\* what they have and let the scheduler acquire the whole stack.
GiveUp(t) ==
    /\ want' = [want EXCEPT ![t] = <<>>]
    /\ IF call[t] = "try"
       THEN /\ toks' = [toks EXCEPT ![t] = Front(@)]
            /\ Goto(t, "run")
            /\ call' = [call EXCEPT ![t] = "none"]
            /\ UNCHANGED spinning
       ELSE /\ Goto(t, "rel")
            /\ call' = [call EXCEPT ![t] = CASE @ = "get" -> "getswitch"
                                             [] @ = "getshared" -> "switch"
                                             [] OTHER -> @]
            /\ CountSpin(t)
            /\ UNCHANGED toks
    /\ UNCHANGED <<have, saw, idle>>

Contended(t) == /\ ~ Mine(t, Tok(t))
                /\ IF toks[t][Cur(t)].ex THEN ~ Free(Tok(t)) ELSE t_count[Tok(t)].ex

\* An exclusive request that may block sees TOK_EXCLREQ clear and will set it.
Requests(t) == toks[t][Cur(t)].ex /\ call[t] # "try" /\ ~ t_count[Tok(t)].req

Fail(t) == /\ Trying(t) /\ Contended(t) /\ ~ Requests(t)
           /\ GiveUp(t)
           /\ UNCHANGED tokvars

\* The last reference of the stack is tried several times before giving up: the
\* first try that sees the request clear, and the last one, which is the one at
\* "again".  Failed tries change nothing but the request.
FailRequest(t) == /\ Trying(t) /\ Contended(t) /\ Requests(t)
                  /\ Goto(t, IF pc[t] = "try" /\ Cur(t) = Len(toks[t])
                             THEN "setreq" ELSE "setlast")
                  /\ UNCHANGED <<tokvars, refvars, call, saw, spinning, idle>>

\* The request is set after the test, maybe when the token has been released; a
\* last try fails all the same.
SetReq(t) == /\ pc[t] \in {"setreq", "setlast"}
             /\ t_count' = [t_count EXCEPT ![Tok(t)].req = TRUE]
             /\ IF pc[t] = "setreq"
                THEN Goto(t, "again") /\ UNCHANGED <<refvars, call, saw, spinning, idle>>
                ELSE GiveUp(t)
             /\ UNCHANGED t_ref

\* KKASSERT(tok->t_ref == ref) at the end of lwkt_gettoken()
CheckRef(t) == /\ pc[t] = "check"
               /\ LET n == Len(toks[t])
                  IN  Goto(t, IF t_ref[toks[t][n].tok] = <<t, n>> THEN "run" ELSE "panic")
               /\ call' = [call EXCEPT ![t] = "none"]
               /\ UNCHANGED <<tokvars, refvars, saw, spinning, idle>>
-----------------------------------------------------------------------------
(* _lwkt_reltokref(), for lwkt_reltoken(), lwkt_relalltokens() and a failed *)
(* lwkt_getalltokens()                                                      *)

Released(t) ==
    /\ have' = [have EXCEPT ![t] = Front(@)]
    /\ IF call[t] = "rel"
       THEN /\ toks' = [toks EXCEPT ![t] = Front(@)]
            /\ Goto(t, "run")
            /\ call' = [call EXCEPT ![t] = "none"]
       ELSE Goto(t, "rel") /\ UNCHANGED <<toks, call>>

RelRef(t) == Last(have[t])
RelTok(t) == toks[t][RelRef(t)].tok

\* The exclusive holder clears t_ref first.
RelClear(t) == /\ pc[t] = "rel" /\ have[t] # <<>>
               /\ t_ref[RelTok(t)] = <<t, RelRef(t)>>
               /\ t_ref' = [t_ref EXCEPT ![RelTok(t)] = NULL]
               /\ saw' = [saw EXCEPT ![t] = t_count[RelTok(t)].req]
               /\ Goto(t, IF t_count[RelTok(t)].ex THEN "cas" ELSE "panic")
               /\ UNCHANGED <<t_count, refvars, call, spinning, idle>>

RelCasUnrestored(t) ==
    /\ pc[t] = "cas"
    /\ IF t_count[RelTok(t)].req = saw[t]
       THEN /\ t_count' = [t_count EXCEPT ![RelTok(t)].ex = FALSE]
            /\ Released(t)
            /\ UNCHANGED t_ref
       ELSE /\ Goto(t, "rel")
            /\ UNCHANGED <<tokvars, toks, have, call>>
    /\ saw' = [saw EXCEPT ![t] = FALSE]
    /\ UNCHANGED <<want, spinning, idle>>

\* The count can only have changed by a request.
RelCas(t) ==
    /\ pc[t] = "cas"
    /\ IF t_count[RelTok(t)].req = saw[t]
       THEN /\ t_count' = [t_count EXCEPT ![RelTok(t)].ex = FALSE]
            /\ Released(t)
            /\ UNCHANGED t_ref
       ELSE /\ t_ref' = [t_ref EXCEPT ![RelTok(t)] = <<t, RelRef(t)>>]
            /\ Goto(t, "rel")
            /\ UNCHANGED <<t_count, toks, have, call>>
    /\ saw' = [saw EXCEPT ![t] = FALSE]
    /\ UNCHANGED <<want, spinning, idle>>

\* KKASSERT(count & TOK_COUNTMASK)
RelShared(t) == /\ pc[t] = "rel" /\ have[t] # <<>>
                /\ t_ref[RelTok(t)] # <<t, RelRef(t)>>
                /\ IF t_count[RelTok(t)].cnt > 0
                   THEN /\ t_count' = [t_count EXCEPT ![RelTok(t)].cnt = @ - 1]
                        /\ Released(t)
                   ELSE Goto(t, "panic") /\ UNCHANGED <<t_count, toks, have, call>>
                /\ UNCHANGED <<t_ref, want, saw, spinning, idle>>
-----------------------------------------------------------------------------
(* lwkt_switch() and lwkt_getalltokens() *)

InStackOrder(t) == {All(t)}

AllButLast(t) == {IF Len(toks[t]) > 1 THEN Front(All(t)) ELSE All(t)}

\* Reference i comes before j in the order by address: references to the same
\* token are in the order of the stack.
Before(t, i, j) == \/ toks[t][i].tok < toks[t][j].tok
                   \/ toks[t][i].tok = toks[t][j].tok /\ i < j

\* In the order of the stack at first, and by address, which is one order,
\* after lwkt_spin_loops failures.
Order(t) ==
    LET refs == 1 .. Len(toks[t])
    IN  IF spinning[t] < SpinLoops THEN {All(t)}
        ELSE {s \in [refs -> refs] :
                 /\ ToSet(s) = refs
                 /\ \A m, n \in refs : m < n => Before(t, s[m], s[n])}

\* Nothing is held any more: the scheduler, of the idle thread if this one was
\* not on the run queue, tries to get everything back.
GetAllTokens(t) == /\ pc[t] = "rel" /\ have[t] = <<>> /\ call[t] # "rel"
                   /\ \E s \in Order(t) : want' = [want EXCEPT ![t] = s]
                   /\ Goto(t, "try")
                   /\ UNCHANGED <<tokvars, toks, have, call, saw, spinning, idle>>
-----------------------------------------------------------------------------
Call(t) == \/ \E k \in Tokens :
                \/ "gettoken" \in Calls[t] /\ Gettoken(t, k)
                \/ "gettoken_shared" \in Calls[t] /\ GettokenShared(t, k)
                \/ "trytoken" \in Calls[t] /\ Trytoken(t, k)
           \/ Reltoken(t)
           \/ "token_swap" \in Calls[t] /\ Swap(t)
           \/ "yield" \in Calls[t] /\ Switch(t, FALSE)
           \/ "sleep" \in Calls[t] /\ Switch(t, TRUE)

Step(t) == \/ TakeExcl(t) \/ SetRef(t) \/ Recurse(t) \/ TakeShared(t)
           \/ Fail(t) \/ FailRequest(t) \/ SetReq(t) \/ CheckRef(t)
           \/ RelClear(t) \/ RelCas(t) \/ RelShared(t) \/ GetAllTokens(t)

Next == \E t \in Threads : Call(t) \/ Step(t)

Spec == Init /\ [][Next]_vars

\* The cpus run; no thread has to call anything, release a token or yield.
FairSpec == Spec /\ \A t \in Threads : WF_vars(Step(t))
-----------------------------------------------------------------------------
(* Properties *)

Ref == [tok : Tokens, ex : BOOLEAN, asked : BOOLEAN]

PCs == {"run", "try", "setref", "setreq", "setlast", "again", "check", "rel", "cas",
        "panic"}

InCalls == {"none", "get", "getshared", "try", "rel", "switch", "getswitch"}

\* All references that there can be.
Slots == UNION {{t} \X (1 .. MaxToks[t]) : t \in Threads}

WordTypes == /\ t_count \in [Tokens -> [ex : BOOLEAN, req : BOOLEAN,
                                       cnt : 0 .. Cardinality(Slots)]]
             /\ t_ref \in [Tokens -> {NULL} \cup (Threads \X Nat)]

ThreadTypes ==
    /\ toks \in [Threads -> Seq(Ref)]
    /\ have \in [Threads -> Seq(Nat)] /\ want \in [Threads -> Seq(Nat)]
    /\ \A t \in Threads : /\ Len(toks[t]) <= MaxToks[t]
                          /\ ToSet(have[t]) \cup ToSet(want[t]) \subseteq 1 .. Len(toks[t])
    /\ pc \in [Threads -> PCs] /\ call \in [Threads -> InCalls]
    /\ saw \in [Threads -> BOOLEAN]
    /\ spinning \in [Threads -> 0 .. SpinLoops]
    /\ idle \in [Threads -> BOOLEAN]

\* Type invariant
TypeOK == WordTypes /\ ThreadTypes

\* No KKASSERT of the token code fails: t_ref is NULL when the exclusive bit is
\* won, is the reference of the caller when lwkt_gettoken() returns, and every
\* release finds the bit or the count that it takes away.
NoPanic == \A t \in Threads : pc[t] # "panic"

\* The references of t to k that it has acquired; the bit comes before t_ref.
Held(t, k) == {i \in ToSet(have[t]) : toks[t][i].tok = k}
                 \cup (IF pc[t] = "setref" /\ Tok(t) = k THEN {Cur(t)} ELSE {})

Exclusive(t, k) == \E i \in Held(t, k) : toks[t][i].ex

\* The references to k that threads have, and those that have it exclusively.
Holds(k) == UNION {{t} \X Held(t, k) : t \in Threads}
ExclHolds(k) == {r \in Holds(k) : toks[r[1]][r[2]].ex}

\* The word says exactly who has the token: the bit is set while some thread
\* has an exclusive reference, which is the only one, and the count is the
\* number of the other references, recursive exclusive ones included.
CountMatches ==
    \A k \in Tokens :
        /\ t_count[k].ex <=> ExclHolds(k) # {}
        /\ Cardinality(ExclHolds(k)) <= 1
        /\ t_count[k].cnt + Cardinality(ExclHolds(k)) = Cardinality(Holds(k))

\* t_ref points to a reference in use, the deepest one that its thread has to
\* the token, through recursion, swaps and reacquisition in either order: "If
\* we were to swap it the first release would clear the token even though a
\* second ref is still present" (lwkt_token_swap()).
DeepestRef ==
    \A k \in Tokens : t_ref[k] # NULL =>
        LET t == t_ref[k][1]
            i == t_ref[k][2]
        IN  /\ i \in Held(t, k)
            /\ \A j \in 1 .. Len(toks[t]) : toks[t][j].tok = k => i <= j

\* The word and the t_ref of every token agree with the references that the
\* threads have acquired, at every instruction of _lwkt_trytokref(),
\* _lwkt_reltokref() and lwkt_token_swap().
Consistent == TypeOK /\ CountMatches /\ DeepestRef

\* A thread runs only with every token of its stack, and exclusively those that
\* it asked for exclusively, however often it lost them in between.
RunsWithAllTokens ==
    \A t \in Threads : pc[t] = "run" => \A i \in 1 .. Len(toks[t]) :
        LET k == toks[t][i].tok
        IN  IF toks[t][i].asked THEN Mine(t, k)
            ELSE t_count[k].cnt > 0 /\ (t_count[k].ex => Mine(t, k))

\* Every token implements the abstract lock; a recursive acquisition of the
\* exclusive holder, shared or not, is another exclusive one.
RW(k) == INSTANCE RWLock
           WITH ex <- [t \in Threads |-> IF Exclusive(t, k) THEN Cardinality(Held(t, k)) ELSE 0],
                sh <- [t \in Threads |-> IF Exclusive(t, k) THEN 0 ELSE Cardinality(Held(t, k))]

ImplementsRWLock == /\ \A k \in Tokens : RW(k)!RWInit
                    /\ [][\A k \in Tokens : RW(k)!RWNext \/ UNCHANGED RW(k)!rwvars]_vars

\* Threads that contend for the same tokens in different orders do not keep each
\* other from running forever: the order by address ends it.  An idle thread
\* never gets that far, since lwkt_switch() counts spinning only for a thread
\* that is on the run queue.
LivelockOnlyThroughIdle == []<>(\E t \in Threads : pc[t] = "run" \/ idle[t])
=============================================================================
