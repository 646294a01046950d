----------------------------- MODULE MCLockmgr ------------------------------
(* Instances of Lockmgr for TLC. *)
EXTENDS Lockmgr, TLC

Perms == Permutations(Threads \ DeadlkTreat)
=============================================================================
