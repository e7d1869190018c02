------------------------------ MODULE TtasLock ------------------------------
(***************************************************************************)
(* The spinlock of lab2/4/4.c, a test-and-test-and-set lock: an exchange   *)
(* that fails is followed by plain loads until the word is seen to be 0.   *)
(* Unlike in lab2/2 the word is 0 while the lock is free.                  *)
(***************************************************************************)
EXTENDS Naturals

CONSTANT Threads

VARIABLES lock, at

Places == {"idle", "exchange", "spin", "held"}

Goto(t, place) == at' = [at EXCEPT ![t] = place]

\* spinlock_init
Init == lock = 0 /\ at = [t \in Threads |-> "idle"]

\* A thread calls spinlock_lock.
Call(t) ==
    /\ at[t] = "idle"
    /\ Goto(t, "exchange")
    /\ UNCHANGED lock

\* Faulty variant: the old value is not looked at.
ExchangeIgnoresResult(t) ==
    /\ at[t] = "exchange"
    /\ lock' = 1
    /\ Goto(t, "held")

\* atomic_exchange(&lock->lock, 1), the condition of the outer loop
Exchange(t) ==
    /\ at[t] = "exchange"
    /\ lock' = 1
    /\ Goto(t, IF lock = 0 THEN "held" ELSE "spin")

\* atomic_load(&lock->lock), the condition of the inner loop
Spin(t) ==
    /\ at[t] = "spin"
    /\ Goto(t, IF lock = 0 THEN "exchange" ELSE "spin")
    /\ UNCHANGED lock

spinlock_lock(t) == Call(t) \/ Exchange(t) \/ Spin(t)

\* atomic_store(&lock->lock, 0)
spinlock_unlock(t) ==
    /\ at[t] = "held"
    /\ lock' = 0
    /\ Goto(t, "idle")

Next == \E t \in Threads : spinlock_lock(t) \/ spinlock_unlock(t)

\* A thread in either loop tries again; the holder gives the lock back.
Moves(t) == Exchange(t) \/ Spin(t) \/ spinlock_unlock(t)
=============================================================================
