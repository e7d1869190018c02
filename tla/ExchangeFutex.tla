--------------------------- MODULE ExchangeFutex ---------------------------
(***************************************************************************)
(* The futex mutex of lab2/4/4.c.  It differs from the one of lab2/2: the  *)
(* word is 0 while the mutex is free; locking exchanges 1 into it, so that *)
(* a failed attempt writes too; unlocking stores 0 without looking; and    *)
(* the result of the futex calls is ignored.                               *)
(*                                                                         *)
(* Places: idle, exchange (loop condition of futex_mutex_lock), wait       *)
(* (about to enter FUTEX_WAIT_PRIVATE), asleep, held, wake (word released, *)
(* FUTEX_WAKE_PRIVATE not yet called).                                     *)
(***************************************************************************)
EXTENDS Naturals

CONSTANT Threads

VARIABLES mutex, at

Places == {"idle", "exchange", "wait", "asleep", "held", "wake"}

Goto(t, place) == at' = [at EXCEPT ![t] = place]

Asleep == {t \in Threads : at[t] = "asleep"}

\* futex_mutex_init
Init == mutex = 0 /\ at = [t \in Threads |-> "idle"]

\* A thread calls futex_mutex_lock.
Call(t) ==
    /\ at[t] = "idle"
    /\ Goto(t, "exchange")
    /\ UNCHANGED mutex

\* __sync_lock_test_and_set(&(mutex->mutex), 1)
TestAndSet(t) ==
    /\ at[t] = "exchange"
    /\ mutex' = 1
    /\ Goto(t, IF mutex = 0 THEN "held" ELSE "wait")

\* syscall(SYS_futex, .., FUTEX_WAIT_PRIVATE, 1): sleep if the word is still 1
FutexWait(t) ==
    /\ at[t] = "wait"
    /\ Goto(t, IF mutex = 1 THEN "asleep" ELSE "exchange")
    /\ UNCHANGED mutex

\* The wait ends without a wake (spuriously or interrupted: both look alike
\* to the code).
WaitReturns(t) ==
    /\ at[t] = "asleep"
    /\ Goto(t, "exchange")
    /\ UNCHANGED mutex

futex_mutex_lock(t) ==
    Call(t) \/ TestAndSet(t) \/ FutexWait(t) \/ WaitReturns(t)

\* __sync_lock_release(&(mutex->mutex))
Release(t) ==
    /\ at[t] = "held"
    /\ mutex' = 0
    /\ Goto(t, "wake")

\* Faulty variant: the wake-up is dropped.
NoWake(t) ==
    /\ at[t] = "wake"
    /\ Goto(t, "idle")
    /\ UNCHANGED mutex

\* syscall(SYS_futex, .., FUTEX_WAKE_PRIVATE, 1)
FutexWake(t) ==
    /\ at[t] = "wake"
    /\ IF Asleep = {}
         THEN Goto(t, "idle")
         ELSE \E s \in Asleep :
                 at' = [at EXCEPT ![t] = "idle", ![s] = "exchange"]
    /\ UNCHANGED mutex

futex_mutex_unlock(t) == Release(t) \/ FutexWake(t)

Next == \E t \in Threads : futex_mutex_lock(t) \/ futex_mutex_unlock(t)

\* A thread awake inside either function, or holding, goes on.
Moves(t) == TestAndSet(t) \/ FutexWait(t) \/ futex_mutex_unlock(t)
=============================================================================
