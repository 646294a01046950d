------------------------------- MODULE RWLock -------------------------------
(***************************************************************************)
(* What every shared/exclusive lock of the kernel promises its callers,    *)
(* independent of how the lock word is encoded: the abstract specification *)
(* that the detailed models of kern_spinlock.c, kern_mutex.c, kern_lock.c, *)
(* lwkt_serialize.c and lwkt_token.c are checked and proved to implement.  *)
(*                                                                         *)
(* ex[t] and sh[t] count the exclusive and the shared acquisitions that t  *)
(* was granted and has not begun to release.                               *)
(***************************************************************************)
EXTENDS Naturals

CONSTANT Threads

VARIABLES ex, sh

rwvars == <<ex, sh>>

RWInit == /\ ex = [t \in Threads |-> 0]
          /\ sh = [t \in Threads |-> 0]

\* No thread but t holds the lock exclusively / in any way.
NoOtherExcl(t) == \A u \in Threads \ {t} : ex[u] = 0
NoOtherHold(t) == \A u \in Threads \ {t} : ex[u] = 0 /\ sh[u] = 0

AcquireExcl(t) == /\ NoOtherHold(t)
                  /\ sh[t] = 0
                  /\ ex' = [ex EXCEPT ![t] = @ + 1]
                  /\ UNCHANGED sh

AcquireShared(t) == /\ NoOtherExcl(t)
                    /\ ex[t] = 0
                    /\ sh' = [sh EXCEPT ![t] = @ + 1]
                    /\ UNCHANGED ex

ReleaseExcl(t) == /\ ex[t] > 0
                  /\ ex' = [ex EXCEPT ![t] = @ - 1]
                  /\ UNCHANGED sh

ReleaseShared(t) == /\ sh[t] > 0
                    /\ sh' = [sh EXCEPT ![t] = @ - 1]
                    /\ UNCHANGED ex

\* The exclusive counts become shared counts, with no instant in between at
\* which another thread could get the lock exclusively.
Downgrade(t) == /\ ex[t] > 0
                /\ ex' = [ex EXCEPT ![t] = 0]
                /\ sh' = [sh EXCEPT ![t] = @ + ex[t]]

\* The sole shared holder becomes the exclusive holder.
Upgrade(t) == /\ NoOtherHold(t)
              /\ sh[t] = 1
              /\ ex' = [ex EXCEPT ![t] = @ + 1]
              /\ sh' = [sh EXCEPT ![t] = 0]

\* The exclusive holder gives the lock, as it is, to another holder.
Transfer(t, u) == /\ ex[t] > 0
                  /\ ex' = [ex EXCEPT ![t] = 0, ![u] = ex[t]]
                  /\ UNCHANGED sh

\* A step of the abstract lock changes who holds it; everything else that the
\* routines do is stuttering.
RWNext == /\ rwvars' # rwvars
          /\ \E t \in Threads :
                \/ AcquireExcl(t) \/ AcquireShared(t)
                \/ ReleaseExcl(t) \/ ReleaseShared(t)
                \/ Downgrade(t)   \/ Upgrade(t)
                \/ \E u \in Threads : Transfer(t, u)

RWSpec == RWInit /\ [][RWNext]_rwvars
=============================================================================
