--------------------------- MODULE SemQueueProofs ---------------------------
(***************************************************************************)
(* Proofs about SemQueue, for any capacity, any set of memory cells and    *)
(* any width of the integers.                                              *)
(*                                                                         *)
(* The refusing branches of queue_add and queue_get are dead code because  *)
(* the semaphores and q->count balance.  The balance is exact only if the  *)
(* two accesses of q->count++ and q->count-- are not interleaved, so the   *)
(* invariant also says that the mutex protects the bodies and that a       *)
(* loaded count is still the count when it is stored.                      *)
(***************************************************************************)
EXTENDS SemQueue, ListQueueProofs

Types ==
    /\ mutex \in Threads \cup {NULL}
    /\ items_available \in Nat
    /\ space_available \in Nat

\* The mutex belongs to the thread that is inside a body.
Guarded(t) == pc[t] \notin {"call", "lock", "post", "return"}

Exclusion == \A t \in Threads : Guarded(t) => mutex = t

\* The running call has changed q->count.
CountedUp ==
    \/ pc["writer"] = "add_count"
    \/ pc["writer"] \in {"exit", "post"} /\ res["writer"] = "done"

CountedDown ==
    \/ pc["reader"] = "get_count"
    \/ pc["reader"] \in {"exit", "post"} /\ res["reader"] = "done"

\* The semaphores against q->count: one unit is on its way in each call.
ItemsBalance ==
    items_available + One(InFlight("reader") /\ ~CountedDown)
        + One(InFlight("writer") /\ CountedUp) = q.count

SpaceBalance ==
    space_available + One(InFlight("writer") /\ ~CountedUp)
        + One(InFlight("reader") /\ CountedDown) = q.max_count - q.count

\* A loaded count is not stale when the changed one is stored.
Loaded ==
    /\ pc["writer"] = "add_store" => w.reg = q.count
    /\ pc["reader"] = "get_store" => r.reg = q.count

\* A call that has finished has succeeded or found no memory.
Outcomes ==
    /\ NeverRefuses
    /\ \A t \in Threads :
         /\ pc[t] \in {"call", "lock"} => res[t] = "none"
         /\ pc[t] = "exit" => res[t] \in {"done", "nomem"}
         /\ pc[t] = "post" => res[t] = "done"

Inv ==
    /\ Types
    /\ Exclusion
    /\ ItemsBalance
    /\ SpaceBalance
    /\ Loaded
    /\ Outcomes

IInv == QueueInv(Places) /\ ListInv /\ Inv

\* queue_init puts max_count units into space_available and none into the
\* other semaphore.
LEMMA InitInvariant == Init => IInv
<1> SUFFICES ASSUME Init PROVE IInv
  OBVIOUS
<1>1. QueueInv(Places) /\ ListInv
  BY QueueInitInv, ListInit DEF Init, Places
<1>2. Inv
  BY ListQueueAssumption
  DEF Init, QueueInit, Inv, Types, Exclusion, Guarded, ItemsBalance,
      SpaceBalance, One, InFlight, CountedUp, CountedDown, Loaded, Outcomes,
      NeverRefuses, Threads
<1> QED
  BY <1>1, <1>2 DEF IInv

\* No step touches the list or a count while another thread is in its body.
LEMMA OrderStep == IInv /\ [Next]_vars => QueueInv(Places)'
<1> SUFFICES ASSUME IInv, [Next]_vars PROVE QueueInv(Places)'
  OBVIOUS
<1>1. ASSUME NEW t \in Threads, Run(t) PROVE QueueInv(Places)'
  BY <1>1, RunKeepsOrder DEF IInv, Run, Places
<1>2. ASSUME NEW t \in Threads,
             Wait(t) \/ Lock(t) \/ Unlock(t) \/ Abort(t) \/ Post(t)
      PROVE  QueueInv(Places)'
  BY <1>2 DEF IInv, QueueInv, QueueTypeOK, Tested, Bounded, Wait, WaitSpace,
              WaitItems, Lock, Unlock, Abort, Post, PostItems, PostSpace, Begin,
              At, Goto, Threads, Places, CommonPlaces, AddBody, GetBody, Faults
<1>3. CASE UNCHANGED vars
  BY <1>3 DEF vars, queueVars, IInv, QueueInv, QueueTypeOK, Tested, Bounded
<1> QED
  BY <1>1, <1>2, <1>3 DEF Next, Step, Run

\* The mutex keeps the bodies apart, so the list stays a list.
LEMMA ListStep == IInv /\ [Next]_vars => ListInv'
<1> SUFFICES ASSUME IInv, [Next]_vars
             PROVE  ListInv'
  OBVIOUS
<1>1. ASSUME NEW t \in Threads, Run(t)
      PROVE  ListInv'
  <2>1. pc["writer"] \notin AddBody \/ pc["reader"] \notin GetBody
    BY DEF IInv, Inv, Exclusion, Guarded, Threads, AddBody, GetBody
  <2> QED
    BY <1>1, <2>1, RunKeepsList DEF IInv, Run
<1>2. ASSUME NEW t \in Threads, Lock(t)
      PROVE  ListInv'
  <2>1. /\ Goto(t, Begin(t)) /\ pc[t] \notin AddBody \cup GetBody
        /\ UNCHANGED <<q, heap, live, res, w, r, fault>>
    BY <1>2 DEF Lock, At, AddBody, GetBody
  <2>2. res[t] = "none"
    BY <1>2 DEF Lock, At, IInv, Inv, Outcomes
  <2> QED
    BY <2>1, <2>2, SyncKeepsList DEF IInv, QueueInv
<1>3. ASSUME NEW t \in Threads, Wait(t) \/ Unlock(t) \/ Post(t)
      PROVE  ListInv'
  <2>1. PICK place \in {"lock", "post", "return"} : Goto(t, place)
    BY <1>3 DEF Wait, WaitSpace, WaitItems, Unlock, Post, PostItems, PostSpace,
       Threads
  <2>2. /\ pc[t] \notin AddBody \cup GetBody
        /\ place \notin AddBody \cup GetBody
        /\ UNCHANGED <<q, heap, live, res, w, r, fault>>
    BY <1>3 DEF Wait, WaitSpace, WaitItems, Unlock, Post, PostItems, PostSpace,
       Threads, At, AddBody, GetBody
  <2> QED
    BY <2>1, <2>2, SyncKeepsList DEF IInv, QueueInv
<1>4. ASSUME NEW t \in Threads, Abort(t)
      PROVE  ListInv'
  BY <1>4, ListAborts DEF IInv, Abort
<1>5. CASE UNCHANGED vars
  BY <1>5, ListStutters DEF IInv, vars
<1> QED
  BY <1>1, <1>2, <1>3, <1>4, <1>5 DEF Next, Step

(***************************************************************************)
(* The statements of queue_add (g-semaphore/queue.c:94-123): the unit of   *)
(* space_available becomes a unit of count at q->count++.                  *)
(***************************************************************************)
LEMMA AddStep ==
  ASSUME IInv, queue_add, UNCHANGED syncVars
  PROVE  Inv'
<1> USE DEF IInv, QueueInv, QueueTypeOK, Bounded, Queues, Inv, Types, Exclusion,
            Guarded, ItemsBalance, SpaceBalance, One, InFlight, CountedUp,
            CountedDown, Loaded, Outcomes, NeverRefuses, At, Goto, Finish,
            Threads, syncVars
<1>1. CASE AddAttempts
  BY <1>1 DEF AddAttempts
<1>2. CASE AddCheck
  BY <1>2 DEF AddCheck
<1>3. CASE AddMalloc
  BY <1>3 DEF AddMalloc
<1>4. CASE AddFirst
  <2>1. CASE q.first = NULL
    <3>1. q'.count = q.count /\ q'.max_count = q.max_count
      BY <1>4, <2>1 DEF AddFirst
    <3>2. /\ pc' = [pc EXCEPT !["writer"] = "add_load"]
          /\ UNCHANGED <<res, w, r>>
      BY <1>4, <2>1 DEF AddFirst
    <3> QED
      BY <1>4, <3>1, <3>2 DEF AddFirst
  <2>2. CASE q.first # NULL
    BY <1>4, <2>2 DEF AddFirst
  <2> QED
    BY <2>1, <2>2
<1>5. CASE AddAppend
  BY <1>5 DEF AddAppend
<1>6. CASE AddLast
  BY <1>6 DEF AddLast
<1>7. CASE AddLoad
  BY <1>7 DEF AddLoad
<1>8. CASE AddStore
  BY <1>8 DEF AddStore
<1>9. CASE AddCount
  BY <1>9 DEF AddCount
<1> QED
  BY <1>1, <1>2, <1>3, <1>4, <1>5, <1>6, <1>7, <1>8, <1>9 DEF queue_add

(***************************************************************************)
(* The statements of queue_get (g-semaphore/queue.c:133-151): the unit of  *)
(* items_available goes out of count at q->count--.                        *)
(***************************************************************************)
LEMMA GetStep ==
  ASSUME IInv, queue_get, UNCHANGED syncVars
  PROVE  Inv'
<1> USE DEF IInv, QueueInv, QueueTypeOK, Bounded, Queues, Inv, Types, Exclusion,
            Guarded, ItemsBalance, SpaceBalance, One, InFlight, CountedUp,
            CountedDown, Loaded, Outcomes, NeverRefuses, At, Goto, Finish,
            Threads, syncVars
<1>1. CASE GetAttempts
  BY <1>1 DEF GetAttempts
<1>2. CASE GetCheck
  BY <1>2 DEF GetCheck
<1>3. CASE GetValue
  BY <1>3 DEF GetValue
<1>4. CASE GetNext
  BY <1>4 DEF GetNext
<1>5. CASE GetFirst
  BY <1>5 DEF GetFirst
<1>6. CASE GetFree
  BY <1>6 DEF GetFree
<1>7. CASE GetLoad
  BY <1>7 DEF GetLoad
<1>8. CASE GetStore
  BY <1>8 DEF GetStore
<1>9. CASE GetCount
  BY <1>9 DEF GetCount
<1> QED
  BY <1>1, <1>2, <1>3, <1>4, <1>5, <1>6, <1>7, <1>8, <1>9 DEF queue_get

\* The loops and the calls of the pthread and semaphore functions.
LEMMA SyncStep ==
  ASSUME IInv, NEW t \in Threads,
         \/ Loop(t) /\ UNCHANGED syncVars
         \/ Wait(t) \/ Lock(t) \/ Unlock(t) \/ Abort(t) \/ Post(t)
  PROVE  Inv'
<1> USE ListQueueAssumption
    DEF IInv, QueueInv, QueueTypeOK, Bounded, Queues, Inv, Types, Exclusion,
        Guarded, ItemsBalance, SpaceBalance, One, InFlight, CountedUp,
        CountedDown, Loaded, Outcomes, NeverRefuses, At, Goto, Finish, Threads,
        syncVars
<1>1. CASE Loop(t) /\ UNCHANGED syncVars
  BY <1>1 DEF Loop, Writer, Reader, NoWriterLocals, NoReaderLocals
<1>2. CASE Wait(t)
  BY <1>2 DEF Wait, WaitSpace, WaitItems
<1>3. CASE Lock(t)
  BY <1>3 DEF Lock, Begin
<1>4. CASE Unlock(t)
  BY <1>4 DEF Unlock
<1>5. CASE Abort(t)
  BY <1>5 DEF Abort
<1>6. CASE Post(t)
  BY <1>6 DEF Post, PostItems, PostSpace
<1> QED
  BY <1>1, <1>2, <1>3, <1>4, <1>5, <1>6

\* The invariant is inductive.
LEMMA InvariantStep == IInv /\ [Next]_vars => IInv'
<1> SUFFICES ASSUME IInv, [Next]_vars PROVE Inv'
  BY OrderStep, ListStep DEF IInv
<1>1. ASSUME NEW t \in Threads, Step(t) PROVE Inv'
  BY <1>1, AddStep, GetStep, SyncStep DEF Step, Run, Body, Threads
<1>2. CASE UNCHANGED vars
  BY <1>2
  DEF vars, queueVars, IInv, Inv, Types, Exclusion, Guarded, ItemsBalance,
      SpaceBalance, One, InFlight, CountedUp, CountedDown, Loaded, Outcomes,
      NeverRefuses
<1> QED
  BY <1>1, <1>2 DEF Next

\* The inductive invariant of the semaphore queue.
LEMMA Invariant == Spec => []IInv
  BY InitInvariant, InvariantStep, PTL DEF Spec

\* Type correctness of the queue and its semaphores (g-semaphore/queue.c).
THEOREM TypeCorrect == Spec => []TypeOK
<1>1. IInv => TypeOK
  BY DEF IInv, QueueInv, Inv, Types, TypeOK
<1> QED
  BY <1>1, Invariant, PTL

(***************************************************************************)
(* For every capacity, a thread that has passed its semaphore finds the    *)
(* count on the right side of its bound: the branches                      *)
(* g-semaphore/queue.c:98-103 and 137-142 are dead.                        *)
(***************************************************************************)
THEOREM NobodyRefused == Spec => []NeverRefuses
<1>1. IInv => NeverRefuses
  BY DEF IInv, Inv, Outcomes
<1> QED
  BY <1>1, Invariant, PTL

(***************************************************************************)
(* Under the semaphores and the mutex queue_add and queue_get touch no     *)
(* node that has been freed (g-semaphore/queue.c:89-155), and the reader's *)
(* own test (queue-threads.c:44) never fails.                              *)
(***************************************************************************)
THEOREM InSequence == Spec => [](TouchesAllocated /\ ReadsInSequence)
<1>1. IInv => TouchesAllocated /\ ReadsInSequence
  BY ListAllocated, ListMeans DEF IInv
<1> QED
  BY <1>1, Invariant, PTL

\* What the lemmas about the list ask for.
LEMMA ListKnown == IInv => Typed /\ Listing
  BY ContentsFollow DEF IInv, QueueInv, QueueTypeOK, Typed

(***************************************************************************)
(* Every unit of max_count is in one place (g-semaphore/queue.c:89-155):   *)
(* q->count lags behind the list by the node that is linked or unlinked    *)
(* and not counted yet, and so do the balances of the semaphores.          *)
(***************************************************************************)
THEOREM TokensKept == Spec => []TokensBalance
<1>1. ASSUME IInv
      PROVE  TokensBalance
  <2>1. /\ Length = Listed /\ q.count \in Nat /\ q.max_count \in Nat
        /\ items_available \in Nat /\ space_available \in Nat
    BY <1>1, ListKnown DEF Listing, Typed, Queues, IInv, Inv, Types
  <2>2. One(InFlight("writer") /\ Linked)
          = One(InFlight("writer") /\ CountedUp)
            + One(pc["writer"] \in {"add_last", "add_load", "add_store"})
    <3>1. /\ InFlight("writer") /\ Linked
               <=> \/ InFlight("writer") /\ CountedUp
                   \/ pc["writer"] \in {"add_last", "add_load", "add_store"}
          /\ pc["writer"] \in {"add_last", "add_load", "add_store"}
               => ~CountedUp
      BY <1>1, ListTells DEF IInv, QueueInv, QueueTypeOK, Inv, Outcomes,
         NeverRefuses, Linked, InFlight, CountedUp, Threads, Places,
         CommonPlaces, ResultsLate, AddBody, GetBody
    <3> QED
      BY <3>1 DEF One
  <2>3. One(InFlight("reader") /\ Unlinked)
          = One(InFlight("reader") /\ CountedDown)
            + One(pc["reader"] \in {"get_free", "get_load", "get_store"})
    <3>1. /\ InFlight("reader") /\ Unlinked
               <=> \/ InFlight("reader") /\ CountedDown
                   \/ pc["reader"] \in {"get_free", "get_load", "get_store"}
          /\ pc["reader"] \in {"get_free", "get_load", "get_store"}
               => ~CountedDown
      BY <1>1, ListTells DEF IInv, QueueInv, QueueTypeOK, Inv, Outcomes,
         NeverRefuses, Unlinked, InFlight, CountedDown, Threads, Places,
         CommonPlaces, ResultsLate, AddBody, GetBody
    <3> QED
      BY <3>1 DEF One
  <2>4. /\ One(InFlight("writer") /\ Linked)
            + One(InFlight("writer") /\ ~Linked) = One(InFlight("writer"))
        /\ One(InFlight("writer") /\ CountedUp)
            + One(InFlight("writer") /\ ~CountedUp) = One(InFlight("writer"))
        /\ One(InFlight("reader") /\ Unlinked)
            + One(InFlight("reader") /\ ~Unlinked) = One(InFlight("reader"))
        /\ One(InFlight("reader") /\ CountedDown)
            + One(InFlight("reader") /\ ~CountedDown) = One(InFlight("reader"))
    BY DEF One
  <2>5. ItemsBalance /\ SpaceBalance
    BY <1>1 DEF IInv, Inv
  <2> DEFINE adding ==
               One(pc["writer"] \in {"add_last", "add_load", "add_store"})
             getting ==
               One(pc["reader"] \in {"get_free", "get_load", "get_store"})
             put == One(InFlight("writer") /\ Linked)
             unput == One(InFlight("writer") /\ ~Linked)
             up == One(InFlight("writer") /\ CountedUp)
             unup == One(InFlight("writer") /\ ~CountedUp)
             writing == One(InFlight("writer"))
             got == One(InFlight("reader") /\ Unlinked)
             ungot == One(InFlight("reader") /\ ~Unlinked)
             down == One(InFlight("reader") /\ CountedDown)
             undown == One(InFlight("reader") /\ ~CountedDown)
             reading == One(InFlight("reader"))
  <2>6. /\ adding \in Int /\ put \in Int /\ unput \in Int /\ up \in Int
        /\ unup \in Int /\ writing \in Int
        /\ getting \in Int /\ got \in Int /\ ungot \in Int /\ down \in Int
        /\ undown \in Int /\ reading \in Int
    BY DEF One
  <2>7. /\ put = up + adding /\ got = down + getting
        /\ put + unput = writing /\ up + unup = writing
        /\ got + ungot = reading /\ down + undown = reading
        /\ Listed = q.count + adding - getting
        /\ items_available + undown + up = q.count
        /\ space_available + unup + down = q.max_count - q.count
    BY <2>2, <2>3, <2>4, <2>5 DEF Listed, ItemsBalance, SpaceBalance
  <2>8. /\ items_available + ungot + put = Length
        /\ space_available + unput + got = q.max_count - Length
    <3> HIDE DEF adding, getting, put, unput, up, unup, writing, got, ungot,
                 down, undown, reading
    <3> QED
      BY <2>1, <2>6, <2>7
  <2> QED
    BY <2>8 DEF TokensBalance, One
<1> QED
  BY <1>1, Invariant, PTL

\* Every step of the program is a step of the buffer, or none.
LEMMA StepImplements ==
  ASSUME IInv, IInv', Listing, Listing', [Next]_vars
  PROVE  FifoStep
<1>1. ASSUME NEW t \in Threads, Run(t)
      PROVE  FifoStep
  <2>1. pc["writer"] \notin AddBody \/ pc["reader"] \notin GetBody
    BY DEF IInv, Inv, Exclusion, Guarded, Threads, AddBody, GetBody
  <2> QED
    BY <1>1, <2>1, RunImplements DEF IInv, Run
<1>2. ASSUME NEW t \in Threads, Wait(t) \/ Lock(t) \/ Unlock(t) \/ Post(t)
      PROVE  FifoStep
  <2>1. UNCHANGED <<q, res, w, r>> /\ pc[t] \notin AddBody \cup GetBody
    BY <1>2 DEF Wait, WaitSpace, WaitItems, Lock, Unlock, Post, PostItems,
       PostSpace, Threads, At, AddBody, GetBody
  <2>2. PICK place : /\ Goto(t, place)
                     /\ \/ place \notin AddBody \cup GetBody
                        \/ place = Begin(t) /\ res[t] = "none"
    BY <1>2 DEF Wait, WaitSpace, WaitItems, Lock, Unlock, Post, PostItems,
       PostSpace, Threads, At, IInv, Inv, Outcomes, AddBody, GetBody
  <2> QED
    BY <2>1, <2>2, SyncImplements DEF IInv, QueueInv
<1>3. ASSUME NEW t \in Threads, Abort(t)
      PROVE  FifoStep
  BY <1>3, IdleImplements DEF Abort
<1>4. CASE UNCHANGED vars
  BY <1>4, IdleImplements DEF vars, queueVars
<1> QED
  BY <1>1, <1>2, <1>3, <1>4 DEF Next, Step

(***************************************************************************)
(* With the semaphores and the mutex queue_add and queue_get               *)
(* (g-semaphore/queue.c:89-155) are a first-in first-out buffer of         *)
(* max_count values: the part of ImplementsFairFifo that is no liveness.   *)
(***************************************************************************)
THEOREM IsFifo == Spec => Abstract!Spec
<1>1. Init => Abstract!Init
  <2>1. Init => IInv /\ QueueInit
    BY InitInvariant DEF Init
  <2> QED
    BY <2>1, ListKnown, InitImplements
<1>2. IInv /\ IInv' /\ [Next]_vars => FifoStep
  <2>1. IInv' => Listing'
    BY ListKnown, PTL
  <2> QED
    BY <2>1, ListKnown, StepImplements
<1> QED
  BY <1>1, <1>2, Invariant, PTL DEF Spec, Abstract!Spec, FifoStep

-----------------------------------------------------------------------------
(* Reader and writer do not wait for each other *)

\* The owner of the mutex is between taking it and giving it back.
Held == mutex # NULL => Guarded(mutex)

LEMMA HeldStep ==
  ASSUME IInv, Held, NEW t \in Threads, Step(t)
  PROVE  Held'
<1> USE DEF IInv, QueueInv, QueueTypeOK, Inv, Types, Held, Guarded, At, Goto,
            Threads
<1>1. CASE Run(t)
  <2>1. /\ UNCHANGED syncVars
        /\ \A u \in Threads \ {t} : pc'[u] = pc[u]
        /\ pc[t] = "return" \/ pc'[t] \in AddBody \cup GetBody \cup {"exit"}
    <3>1. CASE Loop(t)
      BY <1>1, <3>1 DEF Run, Loop, Writer, Reader
    <3>2. CASE Body(t) /\ t = "writer"
      BY <1>1, <3>2
      DEF Run, Body, queue_add, AddAttempts, AddCheck, AddMalloc, AddFirst,
          AddAppend, AddLast, AddLoad, AddStore, AddCount, Finish, AddBody
    <3>3. CASE Body(t) /\ t = "reader"
      BY <1>1, <3>3
      DEF Run, Body, queue_get, GetAttempts, GetCheck, GetValue, GetNext,
          GetFirst, GetFree, GetLoad, GetStore, GetCount, Finish, GetBody
    <3> QED
      BY <1>1, <3>1, <3>2, <3>3 DEF Run
  <2> QED
    BY <2>1 DEF syncVars, AddBody, GetBody
<1>2. CASE Lock(t)
  BY <1>2 DEF Lock, Begin
<1>3. CASE Wait(t) \/ Post(t)
  BY <1>3 DEF Wait, WaitSpace, WaitItems, Post, PostItems, PostSpace
<1>4. CASE Unlock(t) \/ Abort(t)
  BY <1>4 DEF Unlock, Abort, syncVars
<1> QED
  BY <1>1, <1>2, <1>3, <1>4 DEF Step

\* Thread t cannot go on: sem_wait finds no unit, or the mutex has an owner.
Waits(t) ==
    \/ /\ pc[t] = "call"
       /\ (IF t = "writer" THEN space_available ELSE items_available) = 0
    \/ pc[t] = "lock" /\ mutex # NULL

(***************************************************************************)
(* Reader and writer never wait for each other (g-semaphore/queue.c:       *)
(* 89-155), if there is a place for a value at all: a thread that has its  *)
(* unit and waits for the mutex waits for one that is inside a body, and   *)
(* two that have no unit would mean a queue both empty and full.           *)
(***************************************************************************)
THEOREM NeverBothWait ==
    Spec => [](q.max_count > 0 => \E t \in Threads : ~Waits(t))
<1>1. Init => Held
  BY DEF Init, Held
<1>2. IInv /\ Held /\ [Next]_vars => Held'
  <2>1. IInv /\ Held /\ Next => Held'
    BY HeldStep DEF Next
  <2>2. Held /\ UNCHANGED vars => Held'
    BY DEF Held, Guarded, vars, queueVars
  <2> QED
    BY <2>1, <2>2
<1>3. IInv /\ Held => (q.max_count > 0 => \E t \in Threads : ~Waits(t))
  <2> SUFFICES ASSUME IInv, Held, q.max_count > 0,
                      \A t \in Threads : Waits(t)
               PROVE  FALSE
    OBVIOUS
  <2>1. mutex = NULL
    BY DEF IInv, Inv, Types, Held, Guarded, Waits
  <2>2. /\ pc["writer"] = "call" /\ space_available = 0
        /\ pc["reader"] = "call" /\ items_available = 0
    BY <2>1 DEF Waits, Threads
  <2>3. q.count = 0
    BY <2>2 DEF IInv, Inv, ItemsBalance, InFlight, One
  <2>4. q.max_count - q.count = 0
    BY <2>2 DEF IInv, Inv, SpaceBalance, InFlight, One
  <2> QED
    BY <2>3, <2>4 DEF IInv, QueueInv, QueueTypeOK, Queues
<1> QED
  BY <1>1, <1>2, <1>3, Invariant, PTL DEF Spec
=============================================================================
