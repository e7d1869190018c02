------------------------------ MODULE SemQueue ------------------------------
(***************************************************************************)
(* The queue of lab2/2/g-semaphore: ListQueue with each body under a       *)
(* pthread mutex, between waiting on one semaphore and posting the other.  *)
(* queue_add takes a unit of space_available and gives one to              *)
(* items_available, queue_get the other way round; both do so too when     *)
(* they refuse.                                                            *)
(*                                                                         *)
(* The pthread and semaphore primitives are external: sem_wait takes a     *)
(* unit or blocks, sem_post adds one, a mutex has an owner or none.        *)
(***************************************************************************)
EXTENDS ListQueue

VARIABLES
    mutex,              \* the owner of the mutex, or NULL
    items_available,    \* value of the semaphore
    space_available     \* value of the semaphore

syncVars == <<mutex, items_available, space_available>>

vars == <<queueVars, mutex, items_available, space_available>>

\* pc values beside those of ListQueue: "lock" is pthread_mutex_lock, "post"
\* is sem_post; sem_wait is "call", pthread_mutex_unlock is "exit".
Places == CommonPlaces \cup {"lock", "post"}

\* Faulty variant: sem_init(&items_available, 0, 1).
InitOneItem ==
    /\ QueueInit
    /\ mutex = NULL
    /\ items_available = 1
    /\ space_available = q.max_count

\* queue_init
Init ==
    /\ QueueInit
    /\ mutex = NULL
    /\ items_available = 0
    /\ space_available = q.max_count

\* sem_wait(&space_available)
WaitSpace ==
    /\ At("writer", "call")
    /\ space_available > 0
    /\ space_available' = space_available - 1
    /\ Goto("writer", "lock")
    /\ UNCHANGED <<q, heap, live, res, w, r, fault, mutex, items_available>>

\* Faulty variant: the reader does not block.
NoWait ==
    /\ At("reader", "call")
    /\ items_available' = items_available - 1
    /\ Goto("reader", "lock")
    /\ UNCHANGED <<q, heap, live, res, w, r, fault, mutex, space_available>>

\* sem_wait(&items_available)
WaitItems ==
    /\ At("reader", "call")
    /\ items_available > 0
    /\ items_available' = items_available - 1
    /\ Goto("reader", "lock")
    /\ UNCHANGED <<q, heap, live, res, w, r, fault, mutex, space_available>>

\* Faulty variant: the mutex is taken while it has an owner.
LockTaken(t) ==
    /\ At(t, "lock")
    /\ mutex' = t
    /\ Goto(t, Begin(t))
    /\ UNCHANGED <<q, heap, live, res, w, r, fault>>
    /\ UNCHANGED <<items_available, space_available>>

\* pthread_mutex_lock
Lock(t) ==
    /\ At(t, "lock")
    /\ mutex = NULL
    /\ mutex' = t
    /\ Goto(t, Begin(t))
    /\ UNCHANGED <<q, heap, live, res, w, r, fault>>
    /\ UNCHANGED <<items_available, space_available>>

\* pthread_mutex_unlock
Unlock(t) ==
    /\ At(t, "exit")
    /\ res[t] # "nomem"
    /\ mutex' = NULL
    /\ Goto(t, "post")
    /\ UNCHANGED <<q, heap, live, res, w, r, fault>>
    /\ UNCHANGED <<items_available, space_available>>

\* abort() where malloc has failed; here the mutex is still held.
Abort(t) ==
    /\ At(t, "exit")
    /\ res[t] = "nomem"
    /\ fault' = "abort"
    /\ UNCHANGED <<q, heap, live, pc, res, w, r, syncVars>>

\* sem_post(&items_available)
PostItems ==
    /\ At("writer", "post")
    /\ items_available' = items_available + 1
    /\ Goto("writer", "return")
    /\ UNCHANGED <<q, heap, live, res, w, r, fault, mutex, space_available>>

\* Faulty variant: the reader posts the semaphore it has waited on.
PostWrong ==
    /\ At("reader", "post")
    /\ items_available' = items_available + 1
    /\ Goto("reader", "return")
    /\ UNCHANGED <<q, heap, live, res, w, r, fault, mutex, space_available>>

\* sem_post(&space_available)
PostSpace ==
    /\ At("reader", "post")
    /\ space_available' = space_available + 1
    /\ Goto("reader", "return")
    /\ UNCHANGED <<q, heap, live, res, w, r, fault, mutex, items_available>>

Wait(t) == IF t = "writer" THEN WaitSpace ELSE WaitItems

Post(t) == IF t = "writer" THEN PostItems ELSE PostSpace

Run(t) == (Body(t) \/ Loop(t)) /\ UNCHANGED syncVars

Step(t) ==
    Wait(t) \/ Lock(t) \/ Run(t) \/ Unlock(t) \/ Abort(t) \/ Post(t)

Next == \E t \in Threads : Step(t)

Spec == Init /\ [][Next]_vars

\* A thread that can run does run.  Neither the mutex nor the semaphores need
\* be fair: the semaphores bound how often one thread can pass the other.
FairSpec == Spec /\ \A t \in Threads : WF_vars(Step(t))

-----------------------------------------------------------------------------
\* Types of the queue, the mutex and the semaphores (g-semaphore/queue.c).
TypeOK ==
    /\ QueueTypeOK(Places)
    /\ mutex \in Threads \cup {NULL}
    /\ items_available \in Nat
    /\ space_available \in Nat

\* Thread t has waited on one semaphore and not yet posted the other.
InFlight(t) == pc[t] \notin {"call", "return"}

(***************************************************************************)
(* Every unit of max_count is in one place (g-semaphore/queue.c:89-155):   *)
(* a unit of items_available for each node on the list, except one that    *)
(* the reader has waited for and not unlinked and one that the writer has  *)
(* linked and not posted; a unit of space_available for each free place,   *)
(* with the same exceptions the other way round.                           *)
(***************************************************************************)
TokensBalance ==
    LET One(condition) == IF condition THEN 1 ELSE 0
    IN  /\ items_available + One(InFlight("reader") /\ ~Unlinked)
             + One(InFlight("writer") /\ Linked) = Length
        /\ space_available + One(InFlight("writer") /\ ~Linked)
             + One(InFlight("reader") /\ Unlinked) = q.max_count - Length

(***************************************************************************)
(* A thread that has passed its semaphore is never refused: the branches   *)
(* queue.c:98-103 and 137-142, which give away a unit they did not earn,   *)
(* cannot be reached.                                                      *)
(***************************************************************************)
NeverRefuses == \A t \in Threads : res[t] # "refused"

(***************************************************************************)
(* The queue is a first-in first-out buffer that keeps moving              *)
(* (queue.c:89-155): whenever it is not full a value is put, and whenever  *)
(* it is not empty a value is got, although neither the mutex nor the      *)
(* semaphores promise to serve a particular thread.  Only running out of   *)
(* memory stops it.                                                        *)
(***************************************************************************)
ImplementsFairFifo ==
    Abstract!Spec /\ ([](fault = "none") => Abstract!Fairness)
=============================================================================
