------------------------------- MODULE Mutex -------------------------------
(***************************************************************************)
(* What every lock of the repository promises its callers: a thread asks   *)
(* for the lock, some time later owns it, and gives it back; at most one   *)
(* thread owns it; and while it is free, one of the threads that ask for   *)
(* it will get it.  Which one is left open: none of the locks is fair.     *)
(*                                                                         *)
(* Implemented by SpinLock and FutexMutex (lab2/2) and by TtasLock and     *)
(* ExchangeFutex (lab2/4); the module Locks says so.                       *)
(***************************************************************************)
CONSTANT Threads

VARIABLE mode

Modes == {"idle", "asking", "owner"}

Init == mode = [t \in Threads |-> "idle"]

Ask(t) ==
    /\ mode[t] = "idle"
    /\ mode' = [mode EXCEPT ![t] = "asking"]

Acquire(t) ==
    /\ mode[t] = "asking"
    /\ \A u \in Threads : mode[u] # "owner"
    /\ mode' = [mode EXCEPT ![t] = "owner"]

Release(t) ==
    /\ mode[t] = "owner"
    /\ mode' = [mode EXCEPT ![t] = "idle"]

Next == \E t \in Threads : Ask(t) \/ Acquire(t) \/ Release(t)

Spec == Init /\ [][Next]_mode

\* Some asking thread gets a free lock, and an owner gives the lock back; no
\* particular asking thread is promised anything.
Fairness ==
    /\ WF_mode(\E t \in Threads : Acquire(t))
    /\ \A t \in Threads : WF_mode(Release(t))
=============================================================================
