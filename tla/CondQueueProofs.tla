--------------------------- MODULE CondQueueProofs ---------------------------
(***************************************************************************)
(* Proofs about CondQueue, for any capacity, any set of memory cells and   *)
(* any width of the integers.                                              *)
(*                                                                         *)
(* The flag `operation' is a baton: only the thread it names is past its   *)
(* test.  So the bodies exclude each other and their attempts alternate,   *)
(* and as neither is ever refused the list has one node when the reader    *)
(* gets the baton and none when the writer does.                           *)
(***************************************************************************)
EXTENDS CondQueue, ListQueueProofs

\* The places of a call that has passed its test, up to the baton's handover
InCall(t) == pc[t] \in AddBody \cup GetBody \cup {"exit"}

Types ==
    /\ mutex \in Threads \cup {NULL}
    /\ waiting \subseteq Threads
    /\ operation \in {"READ", "WRITE"}

\* Who is past its test has the baton, and no result before its body.
Baton ==
    \A t \in Threads :
        /\ InCall(t) => operation = Mine(t)
        /\ pc[t] \in {"call", "test", "wait"} => res[t] = "none"

\* The running call has counted its attempt.
WriteTried == pc["writer"] \in (AddBody \ {"add_attempts"}) \cup {"exit"}

ReadTried == pc["reader"] \in (GetBody \ {"get_attempts"}) \cup {"exit"}

WriterAhead ==
    \/ operation = "WRITE" /\ WriteTried
    \/ operation = "READ" /\ ~ReadTried

\* The writer is one attempt ahead, or none.
Turns ==
    q.add_attempts =
        IF WriterAhead THEN Next_total(q.get_attempts) ELSE q.get_attempts

\* q->count has gone up, or down, in the running call.
CountedUp == pc["writer"] \in {"add_count", "exit"}

CountedDown == pc["reader"] \in {"get_count", "exit"}

OneNode ==
    q.max_count > 0 =>
        /\ operation = "WRITE" => q.count = One(CountedUp)
        /\ operation = "READ" => q.count = 1 - One(CountedDown)
        /\ \A t \in Threads : res[t] \notin {"refused", "nomem"}

Inv == Types /\ Baton /\ Turns

IInv == QueueInv(Places) /\ ListInv /\ Inv

-----------------------------------------------------------------------------
LEMMA InitInvariant == Init => IInv /\ OneNode
<1> SUFFICES ASSUME Init
             PROVE  IInv /\ OneNode
  OBVIOUS
<1>1. QueueInv(Places) /\ ListInv
  BY QueueInitInv, ListInit DEF Init, Places
<1>2. Inv /\ OneNode
  BY DEF Init, QueueInit, Inv, Types, Baton, Turns, OneNode, InCall,
     WriteTried, ReadTried, WriterAhead, CountedUp, CountedDown, One, Threads,
     Mine, AddBody, GetBody
<1> QED
  BY <1>1, <1>2 DEF IInv

\* What surrounds the bodies leaves the queue alone.
LEMMA SyncStep ==
  ASSUME IInv, NEW t \in Threads,
         Acquire(t) \/ Test(t) \/ SpuriousWake(t) \/ Signal(t) \/ Unlock(t)
  PROVE  IInv' /\ (OneNode => OneNode')
<1>1. UNCHANGED <<q, heap, live, res, w, r, fault>>
  BY DEF Acquire, Test, SpuriousWake, Signal, Unlock, queueVars
<1>2. ListInv'
  <2>1. CASE SpuriousWake(t)
    BY <2>1, ListStutters DEF IInv, SpuriousWake
  <2>2. CASE Test(t) /\ operation = Mine(t)
    <3>1. /\ Goto(t, Begin(t)) /\ res[t] = "none"
          /\ pc[t] \notin AddBody \cup GetBody
      BY <2>2 DEF Test, At, IInv, Inv, Baton, AddBody, GetBody
    <3> QED
      BY <1>1, <3>1, SyncKeepsList DEF IInv, QueueInv
  <2>3. CASE ~SpuriousWake(t) /\ ~(Test(t) /\ operation = Mine(t))
    <3>1. PICK place \in {"test", "wait", "unlock", "return"} : Goto(t, place)
      BY <2>3 DEF Acquire, Test, Signal, Unlock
    <3>2. pc[t] \notin AddBody \cup GetBody
      BY <2>3 DEF Acquire, Test, Signal, Unlock, At, AddBody, GetBody
    <3>3. place \notin AddBody \cup GetBody
      BY <3>1 DEF AddBody, GetBody
    <3> QED
      BY <1>1, <3>1, <3>2, <3>3, SyncKeepsList DEF IInv, QueueInv
  <2> QED
    BY <2>1, <2>2, <2>3
<1> USE DEF IInv, QueueInv, QueueTypeOK, Inv, At, Goto, Begin, Threads, Mine,
            Other, AddBody, GetBody, Places, CommonPlaces
<1>3. QueueInv(Places)'
  BY <1>1 DEF Acquire, Test, SpuriousWake, Signal, Unlock, Tested, Bounded,
     queueVars
<1>4. Types'
  BY DEF Acquire, Test, SpuriousWake, Signal, Unlock, Types
<1>5. Baton'
  BY <1>1 DEF Acquire, Test, SpuriousWake, Signal, Unlock, Baton, InCall,
     Types, queueVars
<1>6. Turns' /\ (OneNode => OneNode')
  <2>1. CASE Signal(t)
    BY <1>1, <2>1 DEF Signal, Baton, InCall, Turns, WriterAhead, WriteTried,
       ReadTried, OneNode, CountedUp, CountedDown, One, Types
  <2>2. CASE ~Signal(t)
    BY <1>1, <2>2 DEF Acquire, Test, SpuriousWake, Unlock, Baton, InCall,
       Turns, WriterAhead, WriteTried, ReadTried, OneNode, CountedUp,
       CountedDown, One, Types, queueVars
  <2> QED
    BY <2>1, <2>2
<1> QED
  BY <1>2, <1>3, <1>4, <1>5, <1>6

\* The two attempts are counted in turn.
LEMMA RunStep ==
  ASSUME IInv, NEW t \in Threads, Run(t)
  PROVE  IInv'
<1>1. pc["writer"] \notin AddBody \/ pc["reader"] \notin GetBody
  BY DEF IInv, Inv, Baton, InCall, Mine, Threads
<1>2. QueueInv(Places)' /\ ListInv'
  BY <1>1, RunKeepsOrder, RunKeepsList DEF IInv, Run, Places
<1>3. Types'
  BY DEF IInv, Inv, Types, Run, syncVars
<1> USE DEF IInv, QueueInv, QueueTypeOK, Inv, Types, Run, At, Goto, Finish,
            Threads, Mine, AddBody, GetBody, syncVars, Baton, InCall, Turns,
            WriterAhead, WriteTried, ReadTried, Queues
<1>4. CASE Loop(t)
  BY <1>2, <1>3, <1>4 DEF Loop, Writer, Reader
<1>5. CASE queue_add
  <2>1. Baton'
    BY <1>5 DEF queue_add, AddAttempts, AddCheck, AddMalloc, AddFirst,
       AddAppend, AddLast, AddLoad, AddStore, AddCount
  <2>2. CASE AddAttempts
    <3>1. /\ q'.add_attempts = Next_total(q.add_attempts)
          /\ q'.get_attempts = q.get_attempts
      BY <2>2 DEF AddAttempts
    <3>2. ~WriterAhead /\ WriterAhead'
      BY <2>2 DEF AddAttempts
    <3> QED
      BY <1>2, <1>3, <2>1, <3>1, <3>2
  <2>3. CASE ~AddAttempts
    <3>1. /\ q'.add_attempts = q.add_attempts
          /\ q'.get_attempts = q.get_attempts
      BY <1>5, <2>3 DEF queue_add, AddCheck, AddMalloc, AddFirst, AddAppend,
         AddLast, AddLoad, AddStore, AddCount
    <3>2. WriterAhead' <=> WriterAhead
      BY <1>5, <2>3 DEF queue_add, AddCheck, AddMalloc, AddFirst, AddAppend,
         AddLast, AddLoad, AddStore, AddCount
    <3> QED
      BY <1>2, <1>3, <2>1, <3>1, <3>2
  <2> QED
    BY <2>2, <2>3
<1>6. CASE queue_get
  <2>1. Baton'
    BY <1>6 DEF queue_get, GetAttempts, GetCheck, GetValue, GetNext, GetFirst,
       GetFree, GetLoad, GetStore, GetCount
  <2>2. Turns'
    BY <1>6 DEF queue_get, GetAttempts, GetCheck, GetValue, GetNext, GetFirst,
       GetFree, GetLoad, GetStore, GetCount
  <2> QED
    BY <1>2, <1>3, <2>1, <2>2
<1> QED
  BY <1>4, <1>5, <1>6 DEF Body

(***************************************************************************)
(* There is room for a node when the writer has the baton and a node when  *)
(* the reader has it.  malloc does not fail: no cell is allocated then.    *)
(***************************************************************************)
LEMMA OneNodeStep ==
  ASSUME IInv, OneNode, NEW t \in Threads, Run(t), Nodes # {}
  PROVE  OneNode'
<1> USE DEF IInv, QueueInv, QueueTypeOK, Inv, Types, Run, At, Goto, Finish,
            Threads, Mine, AddBody, GetBody, syncVars, Baton, InCall, OneNode,
            CountedUp, CountedDown, One, Queues
<1>0. /\ pc["writer"] = "add_store" => w.reg = q.count
      /\ pc["reader"] = "get_store" => r.reg = q.count
      /\ q.count = 0 /\ pc["writer"] = "add_malloc" => live # Nodes
  <2>1. PICK s \in [Nat -> Nodes \cup {NULL}], lo \in Nat, hi \in Nat :
          ListIs(s, lo, hi)
    BY DEF ListInv
  <2>2. q.count = 0 /\ pc["writer"] = "add_malloc" => live = {}
    BY <2>1 DEF ListIs, Shape, Chained, Allocated, Counted, InHand
  <2> QED
    BY <2>1, <2>2 DEF ListIs, Shape, Counted
<1>1. CASE Loop(t)
  <2>1. UNCHANGED <<q, operation>> /\ \A u \in Threads :
          res'[u] \in {res[u], "none"}
    BY <1>1 DEF Loop, Writer, Reader
  <2>2. (CountedUp' <=> CountedUp) /\ (CountedDown' <=> CountedDown)
    BY <1>1 DEF Loop, Writer, Reader
  <2> QED
    BY <2>1, <2>2
<1>2. CASE queue_add
  <2>1. operation = "WRITE" /\ operation' = operation
    BY <1>2 DEF queue_add, AddAttempts, AddCheck, AddMalloc, AddFirst,
       AddAppend, AddLast, AddLoad, AddStore, AddCount
  <2>2. CASE AddStore \/ AddCount
    BY <1>0, <2>1, <2>2 DEF AddStore, AddCount
  <2>3. CASE AddCheck \/ AddMalloc
    BY <1>0, <2>1, <2>3 DEF AddCheck, AddMalloc
  <2>4. CASE AddAttempts \/ AddFirst \/ AddAppend \/ AddLast \/ AddLoad
    BY <2>1, <2>4 DEF AddAttempts, AddFirst, AddAppend, AddLast, AddLoad
  <2> QED
    BY <1>2, <2>2, <2>3, <2>4 DEF queue_add
<1>3. CASE queue_get
  BY <1>0, <1>3 DEF queue_get, GetAttempts, GetCheck, GetValue, GetNext,
     GetFirst, GetFree, GetLoad, GetStore, GetCount
<1> QED
  BY <1>1, <1>2, <1>3 DEF Body

LEMMA Stutter ==
  ASSUME IInv, UNCHANGED vars
  PROVE  IInv' /\ (OneNode => OneNode')
<1>1. ListInv'
  BY ListStutters DEF IInv, vars
<1> QED
  BY <1>1 DEF vars, queueVars, IInv, QueueInv, QueueTypeOK, Tested, Bounded,
     Inv, Types, Baton, InCall, Turns, WriterAhead, WriteTried, ReadTried,
     OneNode, CountedUp, CountedDown

\* The inductive invariant of the queue with the condition variable.
LEMMA Invariant == Spec => []IInv
<1>1. IInv /\ [Next]_vars => IInv'
  BY SyncStep, RunStep, Stutter DEF Next, Step
<1> QED
  BY <1>1, InitInvariant, PTL DEF Spec

\* Types of the queue and of the pthread objects (f-cond_var/queue.c).
THEOREM TypeCorrect == Spec => []TypeOK
<1>1. IInv => TypeOK
  BY DEF IInv, QueueInv, Inv, Types, TypeOK
<1> QED
  BY <1>1, Invariant, PTL

(***************************************************************************)
(* Reading and writing take place in turn (f-cond_var/queue.c:14), however *)
(* often the counters have wrapped around and whenever waits end without   *)
(* a signal.                                                               *)
(***************************************************************************)
THEOREM TakeTurns == Spec => []Alternates
<1>1. ASSUME NEW m \in Totals
      PROVE  /\ (m - m) % LongWidth \in {0, 1}
             /\ (Next_total(m) - m) % LongWidth \in {0, 1}
  BY <1>1, ListQueueAssumption DEF Totals, Next_total
<1>2. IInv => Alternates
  BY <1>1, Fields DEF IInv, QueueInv, Inv, Turns, Alternates
<1> QED
  BY <1>2, Invariant, PTL

(***************************************************************************)
(* With a cell of memory and room for a node no call is ever refused: the  *)
(* branches f-cond_var/queue.c:88-93 and 132-137 are dead.                 *)
(***************************************************************************)
THEOREM NobodyRefused ==
  ASSUME Nodes # {}
  PROVE  Spec => []NeverRefuses
<1>1. IInv /\ OneNode /\ [Next]_vars => IInv' /\ OneNode'
  BY SyncStep, RunStep, OneNodeStep, Stutter DEF Next, Step
<1>2. IInv /\ OneNode => NeverRefuses
  BY DEF OneNode, NeverRefuses
<1> QED
  BY <1>1, <1>2, InitInvariant, PTL DEF Spec

(***************************************************************************)
(* Taking turns is as good as a lock: queue_add and queue_get touch no     *)
(* node that has been freed (f-cond_var/queue.c:79-153), and the reader's  *)
(* own test (queue-threads.c:44) never fails.                              *)
(***************************************************************************)
THEOREM InSequence == Spec => [](TouchesAllocated /\ ReadsInSequence)
<1>1. IInv => TouchesAllocated /\ ReadsInSequence
  BY ListAllocated, ListMeans DEF IInv
<1> QED
  BY <1>1, Invariant, PTL

\* What the lemmas about the list ask for.
LEMMA ListKnown == IInv => Typed /\ Listing
  BY ContentsFollow DEF IInv, QueueInv, QueueTypeOK, Typed

\* Every step of the program is a step of the buffer, or none.
LEMMA StepImplements ==
  ASSUME IInv, IInv', Listing, Listing', [Next]_vars
  PROVE  FifoStep
<1>1. ASSUME NEW t \in Threads, Run(t)
      PROVE  FifoStep
  <2>1. pc["writer"] \notin AddBody \/ pc["reader"] \notin GetBody
    BY DEF IInv, Inv, Baton, InCall, Mine, Threads
  <2> QED
    BY <1>1, <2>1, RunImplements DEF IInv, Run
<1>2. ASSUME NEW t \in Threads,
             Acquire(t) \/ Test(t) \/ Signal(t) \/ Unlock(t)
      PROVE  FifoStep
  <2>1. UNCHANGED <<q, res, w, r>> /\ pc[t] \notin AddBody \cup GetBody
    BY <1>2 DEF Acquire, Test, Signal, Unlock, At, AddBody, GetBody
  <2>2. PICK place : /\ Goto(t, place)
                     /\ \/ place \notin AddBody \cup GetBody
                        \/ place = Begin(t) /\ res[t] = "none"
    BY <1>2 DEF Acquire, Test, Signal, Unlock, At, IInv, Inv, Baton, AddBody,
       GetBody
  <2> QED
    BY <2>1, <2>2, SyncImplements DEF IInv, QueueInv
<1>3. CASE UNCHANGED queueVars
  BY <1>3, IdleImplements DEF queueVars
<1> QED
  BY <1>1, <1>2, <1>3 DEF Next, Step, SpuriousWake, vars

(***************************************************************************)
(* With the condition variable queue_add and queue_get                     *)
(* (f-cond_var/queue.c:79-153) are a first-in first-out buffer of          *)
(* max_count values: the part of ImplementsFairFifo that is no liveness.   *)
(***************************************************************************)
THEOREM IsFifo == Spec => Abstract!Spec
<1>1. Init => Abstract!Init
  <2>1. Init => IInv /\ QueueInit
    BY InitInvariant DEF Init
  <2> QED
    BY <2>1, ListKnown, InitImplements
<1>2. IInv /\ IInv' /\ [Next]_vars => FifoStep
  <2>1. IInv' => Listing'
    BY ListKnown, PTL
  <2> QED
    BY <2>1, ListKnown, StepImplements
<1> QED
  BY <1>1, <1>2, Invariant, PTL DEF Spec, Abstract!Spec, FifoStep

-----------------------------------------------------------------------------
(* No signal is lost *)

\* Where the owner of the mutex is, and why a thread waits for a signal.
Handover ==
    /\ mutex # NULL =>
         pc[mutex] \in AddBody \cup GetBody \cup {"test", "exit", "unlock"}
    /\ \A t \in waiting : pc[t] = "wait" /\ operation = Other(t)

\* The steps of one thread keep it: a thread leaves the places of an owner by
\* giving the mutex back, and the turn goes to the thread that is signalled.
LEMMA HandoverStep ==
  ASSUME IInv, Handover, NEW t \in Threads, Step(t) \/ SpuriousWake(t)
  PROVE  Handover'
<1> USE DEF IInv, QueueInv, QueueTypeOK, Inv, Types, Handover, At, Goto,
            Threads, Other
<1>1. CASE Acquire(t)
  BY <1>1 DEF Acquire
<1>2. CASE Test(t)
  <2>1. pc[t] = "test" /\ t \notin waiting /\ UNCHANGED operation
    BY <1>2 DEF Test
  <2>2. CASE operation = Mine(t)
    <3>1. /\ UNCHANGED <<mutex, waiting>> /\ Goto(t, Begin(t))
          /\ Begin(t) \in AddBody \cup GetBody
      BY <1>2, <2>2 DEF Test, Begin, AddBody, GetBody
    <3> QED
      BY <2>1, <3>1
  <2>3. CASE operation # Mine(t)
    <3>1. mutex' = NULL /\ waiting' = waiting \cup {t} /\ Goto(t, "wait")
      BY <1>2, <2>3 DEF Test
    <3>2. operation = Other(t)
      BY <2>3 DEF Mine
    <3> QED
      BY <2>1, <3>1, <3>2
  <2> QED
    BY <2>2, <2>3
<1>3. CASE Run(t)
  <2>1. /\ UNCHANGED syncVars
        /\ \A u \in Threads \ {t} : pc'[u] = pc[u]
        /\ pc[t] = "return" \/ pc[t] \in AddBody \cup GetBody
        /\ pc[t] \in AddBody \cup GetBody =>
             pc'[t] \in AddBody \cup GetBody \cup {"exit"}
    <3>1. CASE Loop(t)
      BY <1>3, <3>1 DEF Run, Loop, Writer, Reader, AddBody, GetBody
    <3>2. CASE Body(t) /\ t = "writer"
      BY <1>3, <3>2
      DEF Run, Body, queue_add, AddAttempts, AddCheck, AddMalloc, AddFirst,
          AddAppend, AddLast, AddLoad, AddStore, AddCount, Finish, AddBody
    <3>3. CASE Body(t) /\ t = "reader"
      BY <1>3, <3>3
      DEF Run, Body, queue_get, GetAttempts, GetCheck, GetValue, GetNext,
          GetFirst, GetFree, GetLoad, GetStore, GetCount, Finish, GetBody
    <3> QED
      BY <1>3, <3>1, <3>2, <3>3 DEF Run
  <2>2. mutex = t => pc[t] # "return"
    BY ListQueueAssumption DEF AddBody, GetBody
  <2>3. t \notin waiting
    BY <2>1 DEF AddBody, GetBody
  <2> QED
    BY <2>1, <2>2, <2>3 DEF syncVars
<1>4. CASE Signal(t)
  <2>1. t \notin waiting /\ waiting' = {}
    BY <1>4 DEF Signal
  <2> QED
    BY <1>4, <2>1 DEF Signal
<1>5. CASE Unlock(t)
  BY <1>5 DEF Unlock
<1>6. CASE SpuriousWake(t)
  BY <1>6 DEF SpuriousWake, queueVars
<1> QED
  BY <1>1, <1>2, <1>3, <1>4, <1>5, <1>6 DEF Step

LEMMA HandedOver == Spec => []Handover
<1>1. Init => Handover
  BY DEF Init, Handover
<1>2. IInv /\ Handover /\ [Next]_vars => Handover'
  <2>1. IInv /\ Handover /\ Next => Handover'
    BY HandoverStep DEF Next
  <2>2. Handover /\ UNCHANGED vars => Handover'
    BY DEF Handover, vars, queueVars
  <2> QED
    BY <2>1, <2>2
<1> QED
  BY <1>1, <1>2, Invariant, PTL DEF Spec

(***************************************************************************)
(* A thread that is asleep on condition_variable is never the one whose    *)
(* turn it is (f-cond_var/queue.c:79-153): the turn is handed over and the *)
(* other thread signalled under the same mutex, so no signal is lost.      *)
(***************************************************************************)
NoLostSignal == \A t \in waiting : operation # Mine(t)

THEOREM SignalsArrive == Spec => []NoLostSignal
<1>1. IInv /\ Handover => NoLostSignal
  BY DEF IInv, Inv, Types, Handover, NoLostSignal, Mine, Other
<1> QED
  BY <1>1, Invariant, HandedOver, PTL

\* Thread t cannot go on: it sleeps, or asks for a mutex that has an owner.
Waits(t) ==
    \/ pc[t] = "wait" /\ t \in waiting
    \/ pc[t] \in {"call", "wait"} /\ mutex # NULL

(***************************************************************************)
(* Reader and writer never wait for each other (f-cond_var/queue.c:79-153).*)
(***************************************************************************)
THEOREM NeverBothWait == Spec => [](\E t \in Threads : ~Waits(t))
<1>1. IInv /\ Handover => \E t \in Threads : ~Waits(t)
  <2> SUFFICES ASSUME IInv, Handover
               PROVE  \E t \in Threads : ~Waits(t)
    OBVIOUS
  <2>1. CASE mutex # NULL
    <3>1. /\ mutex \in Threads
          /\ pc[mutex] \in AddBody \cup GetBody \cup {"test", "exit", "unlock"}
      BY <2>1 DEF IInv, Inv, Types, Handover
    <3> QED
      BY <3>1 DEF Waits, AddBody, GetBody
  <2>2. CASE mutex = NULL
    <3>1. "writer" \notin waiting \/ "reader" \notin waiting
      BY DEF Handover, Other
    <3> QED
      BY <2>2, <3>1 DEF Waits, Threads
  <2> QED
    BY <2>1, <2>2
<1> QED
  BY <1>1, Invariant, HandedOver, PTL
=============================================================================
