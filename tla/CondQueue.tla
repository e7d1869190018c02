------------------------------ MODULE CondQueue ------------------------------
(***************************************************************************)
(* The queue of lab2/2/f-cond_var: ListQueue with each body under a        *)
(* pthread mutex, entered only when the flag `operation' names it, and     *)
(* followed by setting the flag to the other operation and signalling the  *)
(* condition variable.                                                     *)
(*                                                                         *)
(* The pthread primitives are external: a mutex has an owner or none;      *)
(* pthread_cond_wait gives up the mutex and joins the waiting threads in   *)
(* one step and has the mutex again when it returns;                       *)
(* pthread_cond_signal lets one waiting thread go, if there is one, and a  *)
(* waiting thread may also be let go without a signal.                     *)
(***************************************************************************)
EXTENDS ListQueue

VARIABLES
    mutex,      \* the owner of the mutex, or NULL
    waiting,    \* the threads that wait on condition_variable
    operation   \* whose turn it is: "READ" or "WRITE"

syncVars == <<mutex, waiting, operation>>

vars == <<queueVars, mutex, waiting, operation>>

\* pc values beside those of ListQueue: "test" is the condition of the while
\* loop around pthread_cond_wait, "wait" is inside that call, "unlock" is
\* pthread_mutex_unlock.
Places == CommonPlaces \cup {"test", "wait", "unlock"}

Mine(t) == IF t = "writer" THEN "WRITE" ELSE "READ"

Other(t) == IF t = "writer" THEN "READ" ELSE "WRITE"

Init ==
    /\ QueueInit
    /\ mutex = NULL
    /\ waiting = {}
    /\ operation = "WRITE"

\* Faulty variant: the condition is not tested again after a wait.
NoRetest(t) ==
    /\ At(t, "call") \/ (At(t, "wait") /\ t \notin waiting)
    /\ mutex = NULL
    /\ mutex' = t
    /\ Goto(t, IF pc[t] = "wait" THEN Begin(t) ELSE "test")
    /\ UNCHANGED <<q, heap, live, res, w, r, fault, waiting, operation>>

\* pthread_mutex_lock, also the last part of pthread_cond_wait
Acquire(t) ==
    /\ At(t, "call") \/ (At(t, "wait") /\ t \notin waiting)
    /\ mutex = NULL
    /\ mutex' = t
    /\ Goto(t, "test")
    /\ UNCHANGED <<q, heap, live, res, w, r, fault, waiting, operation>>

\* Faulty variant: the condition is not tested.
NoTest(t) ==
    /\ At(t, "test")
    /\ Goto(t, Begin(t))
    /\ UNCHANGED <<mutex, waiting>>
    /\ UNCHANGED <<q, heap, live, res, w, r, fault, operation>>

\* while (operation != ..) pthread_cond_wait(&condition_variable, &mutex)
Test(t) ==
    /\ At(t, "test")
    /\ IF operation = Mine(t)
         THEN Goto(t, Begin(t)) /\ UNCHANGED <<mutex, waiting>>
         ELSE /\ mutex' = NULL
              /\ waiting' = waiting \cup {t}
              /\ Goto(t, "wait")
    /\ UNCHANGED <<q, heap, live, res, w, r, fault, operation>>

\* The wait of t ends without a signal.
SpuriousWake(t) ==
    /\ At(t, "wait") /\ t \in waiting
    /\ waiting' = waiting \ {t}
    /\ UNCHANGED <<queueVars, mutex, operation>>

\* Faulty variant: the other thread is not signalled.
NoSignal(t) ==
    /\ At(t, "exit")
    /\ operation' = Other(t)
    /\ Goto(t, "unlock")
    /\ UNCHANGED <<q, heap, live, res, w, r, fault, mutex, waiting>>

\* operation = ..; pthread_cond_signal(&condition_variable)
Signal(t) ==
    /\ At(t, "exit")
    /\ operation' = Other(t)
    /\ IF waiting = {}
         THEN UNCHANGED waiting
         ELSE \E s \in waiting : waiting' = waiting \ {s}
    /\ Goto(t, "unlock")
    /\ UNCHANGED <<q, heap, live, res, w, r, fault, mutex>>

\* pthread_mutex_unlock
Unlock(t) ==
    /\ At(t, "unlock")
    /\ mutex' = NULL
    /\ Goto(t, "return")
    /\ UNCHANGED <<q, heap, live, res, w, r, fault, waiting, operation>>

Run(t) == (Body(t) \/ Loop(t)) /\ UNCHANGED syncVars

\* What t does of itself.
Step(t) == Acquire(t) \/ Test(t) \/ Run(t) \/ Signal(t) \/ Unlock(t)

Next == \E t \in Threads : Step(t) \/ SpuriousWake(t)

Spec == Init /\ [][Next]_vars

\* A thread that can run does run, and waits do not end without a signal again
\* and again for ever.  Without the second assumption a reader woken that way
\* could hold the mutex each time the writer tries it.
FairSpec ==
    /\ Spec
    /\ \A t \in Threads : WF_vars(Step(t))
    /\ <>[][\A t \in Threads : ~SpuriousWake(t)]_vars

-----------------------------------------------------------------------------
\* Types of the queue and of the pthread objects (f-cond_var/queue.c).
TypeOK ==
    /\ QueueTypeOK(Places)
    /\ mutex \in Threads \cup {NULL}
    /\ waiting \subseteq Threads
    /\ operation \in {"READ", "WRITE"}

(***************************************************************************)
(* "Reading and writing will always take place in turn" (the comment at    *)
(* f-cond_var/queue.c:14): the writer is never more than one attempt       *)
(* ahead, the reader never ahead of the writer.                            *)
(***************************************************************************)
Alternates == (q.add_attempts - q.get_attempts) % LongWidth \in {0, 1}

(***************************************************************************)
(* A queue that holds anything never refuses a call: as reads and writes   *)
(* alternate, the list is empty whenever queue_add looks at it and holds   *)
(* one node whenever queue_get does, so the refusing branches              *)
(* (queue.c:88-93, 132-137) are for a queue of capacity 0 only.            *)
(***************************************************************************)
NeverRefuses ==
    q.max_count > 0 => \A t \in Threads : res[t] # "refused"

(***************************************************************************)
(* The queue is a first-in first-out buffer that keeps moving: whenever    *)
(* the buffer is not full a value is put, and whenever it is not empty a   *)
(* value is got (queue.c:79-153).  In particular the signal of one thread  *)
(* is never lost on the other.                                             *)
(***************************************************************************)
ImplementsFairFifo == Abstract!Spec /\ Abstract!Fairness
=============================================================================
