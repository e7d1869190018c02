----------------------------- MODULE LockedQueue -----------------------------
(***************************************************************************)
(* The queues of lab2/2/a-spinlock and lab2/2/e-mutex: ListQueue with each *)
(* body between the lock function and the unlock function.  The programs   *)
(* differ in the lock alone, SpinLock or FutexMutex, whose steps are the   *)
(* steps of a thread at "call" and at "exit".                              *)
(***************************************************************************)
EXTENDS ListQueue

VARIABLES
    program,    \* which of the two programs runs
    lock, at    \* the state of its lock

lockVars == <<program, lock, at>>

vars == <<queueVars, program, lock, at>>

Programs == {"a-spinlock", "e-mutex"}

Spin == INSTANCE SpinLock

Futex == INSTANCE FutexMutex

Init ==
    /\ QueueInit
    /\ \/ program = "a-spinlock" /\ Spin!Init
       \/ program = "e-mutex" /\ Futex!Init

\* spinlock_lock(spin) or mutex_lock(mutex), until it returns to the body
Lock(t) ==
    /\ At(t, "call")
    /\ \/ program = "a-spinlock" /\ Spin!spinlock_lock(t)
       \/ program = "e-mutex" /\ Futex!mutex_lock(t)
    /\ Goto(t, IF at'[t] = "held" THEN Begin(t) ELSE "call")
    /\ UNCHANGED <<q, heap, live, res, w, r, fault, program>>

\* Faulty variant: a refused call returns with the lock.
RefusedKeepsLock(t) ==
    /\ At(t, "exit")
    /\ IF res[t] = "refused"
         THEN Goto(t, "return") /\ UNCHANGED <<lock, at>>
         ELSE /\ \/ program = "a-spinlock" /\ Spin!spinlock_unlock(t)
                 \/ program = "e-mutex" /\ Futex!mutex_unlock(t)
              /\ Goto(t, IF at'[t] = "idle" THEN "return" ELSE "exit")
    /\ UNCHANGED <<q, heap, live, res, w, r, fault, program>>

\* spinlock_unlock(spin) or mutex_unlock(mutex), on each of the three ways out
\* of a body
Unlock(t) ==
    /\ At(t, "exit")
    /\ \/ program = "a-spinlock" /\ Spin!spinlock_unlock(t)
       \/ program = "e-mutex" /\ Futex!mutex_unlock(t)
    /\ Goto(t, IF at'[t] = "idle" THEN "return" ELSE "exit")
    /\ UNCHANGED <<q, heap, live, res, w, r, fault, program>>

Run(t) == (Body(t) \/ Loop(t)) /\ UNCHANGED lockVars

Step(t) == Lock(t) \/ Run(t) \/ Unlock(t)

Next == \E t \in Threads : Step(t)

Spec == Init /\ [][Next]_vars

\* A thread that can run does run: it has a CPU of its own, or its share of
\* one.  A thread asleep in FUTEX_WAIT cannot.
Asleep(t) == pc[t] = "call" /\ at[t] = "asleep"

FairSpec == Spec /\ \A t \in Threads : WF_vars(~Asleep(t) /\ Step(t))

-----------------------------------------------------------------------------
\* Types of the queue and of the lock (a-spinlock/queue.c, e-mutex/queue.c).
TypeOK ==
    /\ QueueTypeOK(CommonPlaces)
    /\ program \in Programs
    /\ lock \in {0, 1}
    /\ at \in [Threads -> Spin!Places \cup Futex!Places]

(***************************************************************************)
(* Some call of queue_add or queue_get returns, again and again            *)
(* (e-mutex/queue.c:137-199): the two threads are never both asleep in     *)
(* FUTEX_WAIT, and no way out of a body keeps the lock.  More is not true: *)
(* a thread may take the lock again each time before the other's exchange. *)
(***************************************************************************)
SomeCallReturns == []<>(\E t \in Threads : pc[t] = "return")
=============================================================================
