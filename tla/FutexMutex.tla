----------------------------- MODULE FutexMutex -----------------------------
(***************************************************************************)
(* The futex mutex of lab2/2/e-mutex/queue.c.  The word `lock' is 1 while  *)
(* the mutex is free and 0 while it is taken.                              *)
(*                                                                         *)
(* at[t] is the place of thread t:                                         *)
(*   idle    outside both functions, not holding                           *)
(*   cas     in the loop of mutex_lock, about to compare and exchange      *)
(*   wait    the exchange failed, about to enter FUTEX_WAIT                *)
(*   asleep  queued by the kernel in FUTEX_WAIT                            *)
(*   held    mutex_lock has returned                                       *)
(*   wake    in mutex_unlock, the word is 1 again, FUTEX_WAKE not yet done *)
(*                                                                         *)
(* The kernel's side of the futex call is external: FUTEX_WAIT compares    *)
(* the word with 0 and queues the caller in one atomic step, FUTEX_WAKE    *)
(* takes one queued thread (any of them) off the queue, and a wait may     *)
(* return 0 without a wake.  EINTR, on which the code aborts, needs a      *)
(* signal handler; the program installs none.                              *)
(***************************************************************************)
EXTENDS Integers

CONSTANT Threads

VARIABLES lock, at

Places == {"idle", "cas", "wait", "asleep", "held", "wake"}

Goto(t, place) == at' = [at EXCEPT ![t] = place]

Asleep == {t \in Threads : at[t] = "asleep"}

\* mutex_init
Init == lock = 1 /\ at = [t \in Threads |-> "idle"]

\* A thread calls mutex_lock.
Call(t) ==
    /\ at[t] = "idle"
    /\ Goto(t, "cas")
    /\ UNCHANGED lock

\* atomic_compare_exchange_strong(&m->lock, &one, 0)
CompareExchange(t) ==
    /\ at[t] = "cas"
    /\ lock' = IF lock = 1 THEN 0 ELSE lock
    /\ Goto(t, IF lock = 1 THEN "held" ELSE "wait")

\* Faulty variant: the thread sleeps whatever the word is.
WaitWithoutCompare(t) ==
    /\ at[t] = "wait"
    /\ Goto(t, "asleep")
    /\ UNCHANGED lock

\* futex(&m->lock, FUTEX_WAIT, 0): sleep if the word is still 0, otherwise
\* EAGAIN, which the code takes as a reason to try again.
FutexWait(t) ==
    /\ at[t] = "wait"
    /\ Goto(t, IF lock = 0 THEN "asleep" ELSE "cas")
    /\ UNCHANGED lock

\* The kernel lets a sleeper go without a FUTEX_WAKE.
SpuriousWake(t) ==
    /\ at[t] = "asleep"
    /\ Goto(t, "cas")
    /\ UNCHANGED lock

mutex_lock(t) ==
    Call(t) \/ CompareExchange(t) \/ FutexWait(t) \/ SpuriousWake(t)

\* atomic_compare_exchange_strong(&m->lock, &zero, 1): only the thread that
\* changes the word goes on to FUTEX_WAKE.
UnlockExchange(t) ==
    /\ at[t] = "held"
    /\ lock' = IF lock = 0 THEN 1 ELSE lock
    /\ Goto(t, IF lock = 0 THEN "wake" ELSE "idle")

\* futex(&m->lock, FUTEX_WAKE, 1)
FutexWake(t) ==
    /\ at[t] = "wake"
    /\ IF Asleep = {}
         THEN Goto(t, "idle")
         ELSE \E s \in Asleep : at' = [at EXCEPT ![t] = "idle", ![s] = "cas"]
    /\ UNCHANGED lock

mutex_unlock(t) == UnlockExchange(t) \/ FutexWake(t)

Next == \E t \in Threads : mutex_lock(t) \/ mutex_unlock(t)

\* A thread awake inside either function, or holding, goes on.
Moves(t) == CompareExchange(t) \/ FutexWait(t) \/ mutex_unlock(t)
=============================================================================
