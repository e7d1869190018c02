------------------------------ MODULE SpinLock ------------------------------
(***************************************************************************)
(* The compare-and-swap spinlock of lab2/2/a-spinlock/queue.c.  The word   *)
(* `lock' is 1 while the lock is free and 0 while it is taken.             *)
(*                                                                         *)
(* at[t] says where thread t is: "idle" (outside the two functions, not    *)
(* holding), "cas" (in the loop of spinlock_lock, about to try), "held"    *)
(* (spinlock_lock has returned, spinlock_unlock not yet called).           *)
(***************************************************************************)
EXTENDS Integers

CONSTANT Threads

VARIABLES lock, at

Places == {"idle", "cas", "held"}

Goto(t, place) == at' = [at EXCEPT ![t] = place]

\* spinlock_init
Init == lock = 1 /\ at = [t \in Threads |-> "idle"]

\* A thread calls spinlock_lock.
Call(t) ==
    /\ at[t] = "idle"
    /\ Goto(t, "cas")
    /\ UNCHANGED lock

\* Faulty variant: the word is decremented instead of compared and exchanged.
DecrementInstead(t) ==
    /\ at[t] = "cas"
    /\ lock' = lock - 1
    /\ Goto(t, IF lock = 1 THEN "held" ELSE "cas")

\* One round of the loop: the exchange of 1 for 0 succeeds and ends the loop,
\* or fails and the thread spins.
CompareExchange(t) ==
    /\ at[t] = "cas"
    /\ lock' = IF lock = 1 THEN 0 ELSE lock
    /\ Goto(t, IF lock = 1 THEN "held" ELSE "cas")

spinlock_lock(t) == Call(t) \/ CompareExchange(t)

\* The exchange of 0 for 1; its result is ignored.
spinlock_unlock(t) ==
    /\ at[t] = "held"
    /\ lock' = IF lock = 0 THEN 1 ELSE lock
    /\ Goto(t, "idle")

Next == \E t \in Threads : spinlock_lock(t) \/ spinlock_unlock(t)

\* A thread in the loop tries again; the holder gives the lock back.
Moves(t) == CompareExchange(t) \/ spinlock_unlock(t)
=============================================================================
