------------------------------ MODULE MCMutex -------------------------------
(* Instances of Mutex for TLC. *)
EXTENDS Mutex, TLC

Perms == Permutations(Threads)
=============================================================================
