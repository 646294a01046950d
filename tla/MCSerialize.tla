---------------------------- MODULE MCSerialize -----------------------------
(* The instance of Serialize for TLC. *)
EXTENDS Serialize, TLC

CONSTANTS t1, t2, t3

\* Two threads of a driver and the thread of its interrupt.
MCCalls == (t1 :> {"enter", "adaptive", "zsleep"}) @@ (t2 :> {"adaptive", "try"})
              @@ (t3 :> {"call", "handler_try"})

\* The smallest count field that CntAssumption allows.
SmallestLimit == Cardinality(Threads) + 1
=============================================================================
