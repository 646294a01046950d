----------------------------- MODULE MCSpinlock -----------------------------
(* The instance of Spinlock for TLC. *)
EXTENDS Spinlock

\* The smallest field size that LimitAssumption allows: one cpu that is counted
\* twice overflows the field.
SmallestLimit == Cardinality(Cpus) + 1
=============================================================================
