------------------------------ MODULE MCTsleep ------------------------------
(* The instances of Tsleep for TLC. *)
EXTENDS Tsleep

CONSTANTS c1, c2, t1, t2, t3, i1, i2

MCCpuOf == (t1 :> c1) @@ (t2 :> c1) @@ (t3 :> c2)

\* t1, a process, sleeps interruptibly and with a timeout; t2 and t3 just sleep.
MCSleeps == (t1 :> {{"PCATCH", "timo"}}) @@ (t2 :> {{}}) @@ (t3 :> {{}})

\* t1 shares its ident with t3 and its queue with t2: the two idents collide.
MCOn == (t1 :> {i1}) @@ (t2 :> {i2}) @@ (t3 :> {i1})

MCChain == (i1 :> 1) @@ (i2 :> 1)

\* wakeup_one() comes from c1, and t3 on c2 calls wakeup() in delayed sections.
MCWakes == (c1 :> {<<i1, TRUE>>}) @@ (c2 :> {})
=============================================================================
