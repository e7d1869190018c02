-------------------------------- MODULE Locks --------------------------------
(***************************************************************************)
(* The four locks of the repository, each used by a set of threads: the    *)
(* spinlock and the futex mutex of lab2/2, and the spinlock and the futex  *)
(* mutex of lab2/4.  kind says which lock the threads use; it is chosen in *)
(* the initial state.                                                      *)
(***************************************************************************)
EXTENDS Integers

CONSTANT Threads

VARIABLES
    kind,   \* the lock the threads use
    word,   \* the integer the lock consists of
    at      \* the place of each thread in the two functions of the lock

vars == <<kind, word, at>>

Kinds == {"spinlock", "mutex", "ttas", "exchange"}

Spin == INSTANCE SpinLock WITH lock <- word

Futex == INSTANCE FutexMutex WITH lock <- word

Ttas == INSTANCE TtasLock WITH lock <- word

Exchange == INSTANCE ExchangeFutex WITH mutex <- word

Init ==
    \/ kind = "spinlock" /\ Spin!Init
    \/ kind = "mutex" /\ Futex!Init
    \/ kind = "ttas" /\ Ttas!Init
    \/ kind = "exchange" /\ Exchange!Init

\* The threads move inside the functions of the lock.
Next ==
    /\ \/ kind = "spinlock" /\ Spin!Next
       \/ kind = "mutex" /\ Futex!Next
       \/ kind = "ttas" /\ Ttas!Next
       \/ kind = "exchange" /\ Exchange!Next
    /\ UNCHANGED kind

Spec == Init /\ [][Next]_vars

\* What thread t does if the scheduler lets it run.
Moves(t) ==
    /\ \/ kind = "spinlock" /\ Spin!Moves(t)
       \/ kind = "mutex" /\ Futex!Moves(t)
       \/ kind = "ttas" /\ Ttas!Moves(t)
       \/ kind = "exchange" /\ Exchange!Moves(t)
    /\ UNCHANGED kind

\* A thread inside one of the functions keeps running, and so does the holder
\* of the lock.  A sleeper is promised nothing: the kernel owes it no spurious
\* wake-up.  Calling the lock function again is the thread's own choice.
FairSpec == Spec /\ \A t \in Threads : WF_vars(Moves(t))

-----------------------------------------------------------------------------
\* The word is 0 or 1 and every thread is inside the functions of the lock
\* (a-spinlock/queue.c:19-34, e-mutex/queue.c:26-62, lab2/4/4.c:20-50).
TypeOK ==
    /\ kind \in Kinds
    /\ word \in {0, 1}
    /\ kind = "spinlock" => at \in [Threads -> Spin!Places]
    /\ kind = "mutex" => at \in [Threads -> Futex!Places]
    /\ kind = "ttas" => at \in [Threads -> Ttas!Places]
    /\ kind = "exchange" => at \in [Threads -> Exchange!Places]

\* The locks of lab2/2 are free at 1, those of lab2/4 at 0.
Free == word = IF kind \in {"spinlock", "mutex"} THEN 1 ELSE 0

(***************************************************************************)
(* No wake-up is lost: while the lock is free and a thread sleeps on it,   *)
(* some other thread is still going to try the word or to call FUTEX_WAKE. *)
(* An unlock wakes one sleeper only (e-mutex/queue.c:55, lab2/4/4.c:49),   *)
(* so a sleeper depends on the thread woken before it, and on threads that *)
(* find the word free before that thread does.                             *)
(***************************************************************************)
NoLostWakeup ==
    Free /\ (\E t \in Threads : at[t] = "asleep") =>
        \E t \in Threads : at[t] \in {"cas", "exchange", "wait", "wake"}

Mode == [t \in Threads |->
            IF at[t] = "held" THEN "owner"
            ELSE IF at[t] \in {"idle", "wake"} THEN "idle" ELSE "asking"]

Abstract == INSTANCE Mutex WITH mode <- Mode

(***************************************************************************)
(* Every lock behaves as the abstract lock: whatever the interleaving of   *)
(* failed and successful exchanges and of the futex calls, a thread comes  *)
(* back from the lock function only when no other thread is between it and *)
(* the unlock function (a-spinlock/queue.c:19-34, e-mutex/queue.c:26-62,   *)
(* lab2/4/4.c:20-50).                                                      *)
(***************************************************************************)
ImplementsMutex == Abstract!Spec

(***************************************************************************)
(* With every runnable thread scheduled, a lock that is free and asked for *)
(* is taken by somebody: the threads are never all asleep in FUTEX_WAIT    *)
(* (e-mutex/queue.c:39, lab2/4/4.c:43) nor all caught in the inner loop of *)
(* the spinlock of lab2/4 (4.c:22).                                        *)
(***************************************************************************)
FreeLockIsTaken == Abstract!Fairness
=============================================================================
