-------------------------- MODULE LockedQueueProofs --------------------------
(***************************************************************************)
(* Proofs about the queues whose bodies exclude each other, for any        *)
(* capacity, any set of memory cells and any width of the integers.  In    *)
(* LockedQueue, with either lock, the queue keeps its types, its list      *)
(* stays a list, and the reader gets the values in the order in which they *)
(* were put.  In QueueExample, where one thread adds and gets, the list    *)
(* that it leaves is freed to the last node, and when no monitor reads it. *)
(***************************************************************************)
EXTENDS LockedQueue, QueueExample, ListQueueProofs

InBody(t) == pc[t] \in AddBody \cup GetBody

\* The word is 1 exactly while no thread holds the lock, and at most one does.
WordTells ==
    /\ lock \in {0, 1}
    /\ lock = 1 <=> \A t \in Threads : at[t] # "held"
    /\ \A t, u \in Threads : at[t] = "held" /\ at[u] = "held" => t = u

LockInv ==
    /\ program \in Programs
    /\ program = "a-spinlock" => at \in [Threads -> Spin!Places]
    /\ program = "e-mutex" => at \in [Threads -> Futex!Places]
    /\ WordTells

\* Where a thread is in the lock against where it is in its call.
Placed(t) ==
    /\ InBody(t) => at[t] = "held"
    /\ pc[t] = "call" => at[t] \notin {"held", "wake"} /\ res[t] = "none"
    /\ pc[t] = "exit" => at[t] \in {"held", "wake"}
    /\ pc[t] = "return" => at[t] = "idle"

IInv ==
    /\ QueueInv(CommonPlaces)
    /\ ListInv
    /\ Totalled
    /\ LockInv
    /\ \A t \in Threads : Placed(t)

\* The queue is empty and the lock free.
LEMMA InitInvariant == Init => IInv
<1> SUFFICES ASSUME Init
             PROVE  IInv
  OBVIOUS
<1>1. QueueInv(CommonPlaces) /\ ListInv /\ Totalled
  BY QueueInitInv, ListInit, TotalsInit DEF Init
<1>2. LockInv
  BY DEF Init, LockInv, WordTells, Programs, Spin!Init, Futex!Init, Spin!Places,
     Futex!Places
<1>3. \A t \in Threads : Placed(t)
  BY DEF Init, QueueInit, Placed, InBody, AddBody, GetBody, Spin!Init,
     Futex!Init
<1> QED
  BY <1>1, <1>2, <1>3 DEF IInv

\* A body runs under the lock, so never beside the other.
LEMMA RunStep ==
  ASSUME IInv, NEW t \in Threads, Run(t)
  PROVE  IInv'
<1>1. pc["writer"] \notin AddBody \/ pc["reader"] \notin GetBody
  BY DEF IInv, LockInv, WordTells, Placed, InBody, Threads
<1>2. QueueInv(CommonPlaces)' /\ ListInv'
  BY <1>1, RunKeepsOrder, RunKeepsList DEF IInv, Run
<1>3. LockInv'
  BY DEF IInv, LockInv, WordTells, Run, lockVars
<1>4. \A u \in Threads \ {t} : Placed(u)'
  BY DEF IInv, QueueInv, QueueTypeOK, Run, lockVars, Placed, InBody, Body,
     Loop, queue_add, AddAttempts, AddCheck, AddMalloc, AddFirst, AddAppend,
     AddLast, AddLoad, AddStore, AddCount, queue_get, GetAttempts, GetCheck,
     GetValue, GetNext, GetFirst, GetFree, GetLoad, GetStore, GetCount,
     Writer, Reader, Goto, Finish, Threads
<1>5. Placed(t)'
  <2> USE DEF IInv, QueueInv, QueueTypeOK, lockVars, Placed, InBody, At, Goto,
              Finish, AddBody, GetBody, Threads
  <2>1. CASE Loop(t)
    BY <2>1 DEF Run, Loop, Writer, Reader
  <2>2. CASE Body(t) /\ t = "writer"
    BY <2>2 DEF Run, Body, queue_add, AddAttempts, AddCheck, AddMalloc,
       AddFirst, AddAppend, AddLast, AddLoad, AddStore, AddCount
  <2>3. CASE Body(t) /\ t = "reader"
    BY <2>3 DEF Run, Body, queue_get, GetAttempts, GetCheck, GetValue, GetNext,
       GetFirst, GetFree, GetLoad, GetStore, GetCount
  <2> QED
    BY <2>1, <2>2, <2>3 DEF Run, Threads
<1>6. Totalled'
  <2>1. CASE Body(t)
    BY <2>1, BodyKeepsTotals DEF IInv
  <2>2. CASE Loop(t)
    <3>1. /\ UNCHANGED q /\ Goto(t, "call") /\ pc[t] = "return"
      BY <2>2 DEF Loop, Writer, Reader, At, Threads
    <3> QED
      BY <3>1, OtherKeepsTotals DEF IInv, QueueInv
  <2> QED
    BY <2>1, <2>2 DEF Run
<1> QED
  BY <1>2, <1>3, <1>4, <1>5, <1>6 DEF IInv

\* The other threads stay where they are or are woken.
OthersStay(t) ==
    \A u \in Threads \ {t} :
        at'[u] # at[u] => at[u] = "asleep" /\ at'[u] = "cas"

\* What the steps of the two locks do to the word and to the places.
LEMMA SpinLocks ==
  ASSUME IInv, NEW t \in Threads, program = "a-spinlock", program' = program,
         Spin!spinlock_lock(t)
  PROVE  /\ LockInv' /\ OthersStay(t)
         /\ at'[t] \notin {"idle", "wake"}
<1>1. at \in [Threads -> Spin!Places] /\ WordTells
  BY DEF IInv, LockInv
<1> USE DEF Spin!Goto, Spin!Places, OthersStay
<1>2. at' \in [Threads -> Spin!Places] /\ OthersStay(t)
  BY <1>1 DEF Spin!spinlock_lock, Spin!Call, Spin!CompareExchange
<1>3. CASE Spin!Call(t)
  BY <1>1, <1>2, <1>3 DEF Spin!Call, LockInv, WordTells, Programs
<1>4. CASE Spin!CompareExchange(t)
  BY <1>1, <1>2, <1>4 DEF Spin!CompareExchange, LockInv, WordTells, Programs
<1> QED
  BY <1>3, <1>4 DEF Spin!spinlock_lock

LEMMA SpinUnlocks ==
  ASSUME IInv, NEW t \in Threads, program = "a-spinlock", program' = program,
         Spin!spinlock_unlock(t)
  PROVE  /\ LockInv' /\ OthersStay(t)
         /\ at'[t] = "idle"
<1>1. at \in [Threads -> Spin!Places] /\ WordTells
  BY DEF IInv, LockInv
<1>2. at' \in [Threads -> Spin!Places] /\ OthersStay(t)
  BY <1>1 DEF Spin!spinlock_unlock, Spin!Goto, Spin!Places, OthersStay
<1> QED
  BY <1>1, <1>2
  DEF Spin!spinlock_unlock, Spin!Goto, LockInv, WordTells, Programs

LEMMA FutexLocks ==
  ASSUME IInv, NEW t \in Threads, program = "e-mutex", program' = program,
         Futex!mutex_lock(t)
  PROVE  /\ LockInv' /\ OthersStay(t)
         /\ at'[t] \notin {"idle", "wake"}
<1>1. at \in [Threads -> Futex!Places] /\ WordTells
  BY DEF IInv, LockInv
<1> USE DEF Futex!Goto, Futex!Places, OthersStay
<1>2. at' \in [Threads -> Futex!Places] /\ OthersStay(t)
  BY <1>1 DEF Futex!mutex_lock, Futex!Call, Futex!CompareExchange,
     Futex!FutexWait, Futex!SpuriousWake
<1>3. CASE Futex!CompareExchange(t)
  BY <1>1, <1>2, <1>3 DEF Futex!CompareExchange, LockInv, WordTells, Programs
<1>4. CASE Futex!Call(t) \/ Futex!FutexWait(t) \/ Futex!SpuriousWake(t)
  BY <1>1, <1>2, <1>4
  DEF Futex!Call, Futex!FutexWait, Futex!SpuriousWake, LockInv, WordTells,
      Programs
<1> QED
  BY <1>3, <1>4 DEF Futex!mutex_lock

LEMMA FutexUnlocks ==
  ASSUME IInv, NEW t \in Threads, program = "e-mutex", program' = program,
         Futex!mutex_unlock(t)
  PROVE  /\ LockInv' /\ OthersStay(t)
         /\ at'[t] \in {"idle", "wake"}
<1>1. at \in [Threads -> Futex!Places] /\ WordTells
  BY DEF IInv, LockInv
<1> USE DEF Futex!Goto, Futex!Places, OthersStay
<1>2. CASE Futex!UnlockExchange(t)
  <2>1. at' \in [Threads -> Futex!Places] /\ OthersStay(t)
    BY <1>1, <1>2 DEF Futex!UnlockExchange
  <2> QED
    BY <1>1, <1>2, <2>1 DEF Futex!UnlockExchange, LockInv, WordTells, Programs
<1>3. CASE Futex!FutexWake(t)
  <2>1. at[t] = "wake" /\ lock' = lock
    BY <1>3 DEF Futex!FutexWake
  <2>2. /\ at' \in [Threads -> Futex!Places] /\ OthersStay(t)
        /\ at'[t] = "idle"
    BY <1>1, <1>3, <2>1 DEF Futex!FutexWake, Futex!Asleep
  <2>3. WordTells'
    BY <1>1, <2>1, <2>2 DEF WordTells
  <2> QED
    BY <2>2, <2>3 DEF LockInv, Programs
<1> QED
  BY <1>2, <1>3 DEF Futex!mutex_unlock

\* The lock and unlock functions touch nothing but the lock.
LEMMA LockStep ==
  ASSUME IInv, NEW t \in Threads, Lock(t) \/ Unlock(t)
  PROVE  IInv'
<1>1. /\ program' = program /\ program \in Programs
      /\ UNCHANGED <<q, heap, live, res, w, r, fault>>
  BY DEF IInv, LockInv, Lock, Unlock
<1>2. \/ /\ Lock(t) /\ pc[t] = "call"
         /\ Goto(t, IF at'[t] = "held" THEN Begin(t) ELSE "call")
      \/ /\ Unlock(t) /\ pc[t] = "exit"
         /\ Goto(t, IF at'[t] = "idle" THEN "return" ELSE "exit")
  BY DEF Lock, Unlock, At
<1>3. /\ LockInv' /\ OthersStay(t)
      /\ Lock(t) => at'[t] \notin {"idle", "wake"}
      /\ Unlock(t) => at'[t] \in {"idle", "wake"}
  <2>1. CASE Lock(t)
    <3>1. pc[t] = "call" /\ ~Unlock(t)
      BY <2>1 DEF Lock, Unlock, At
    <3> QED
      BY <1>1, <2>1, <3>1, SpinLocks, FutexLocks DEF Lock
  <2>2. CASE Unlock(t)
    <3>1. pc[t] = "exit" /\ ~Lock(t)
      BY <2>2 DEF Lock, Unlock, At
    <3> QED
      BY <1>1, <2>2, <3>1, SpinUnlocks, FutexUnlocks DEF Unlock
  <2> QED
    BY <2>1, <2>2
<1>4. ListInv' /\ Totalled'
  <2>1. pc[t] \notin AddBody \cup GetBody
    BY <1>2 DEF AddBody, GetBody
  <2>2. PICK place : /\ Goto(t, place)
                     /\ \/ place \notin AddBody \cup GetBody
                        \/ place = Begin(t) /\ res[t] = "none"
    BY <1>2 DEF IInv, Placed, AddBody, GetBody
  <2>3. ListInv'
    BY <1>1, <2>1, <2>2, SyncKeepsList DEF IInv, QueueInv
  <2>4. place \notin {"add_count", "get_count"}
    BY <2>2 DEF Begin, AddBody, GetBody
  <2>5. Totalled'
    BY <1>1, <2>1, <2>2, <2>4, OtherKeepsTotals
    DEF IInv, QueueInv, AddBody, GetBody
  <2> QED
    BY <2>3, <2>5
<1>5. QueueInv(CommonPlaces)'
  BY <1>1, <1>2
  DEF IInv, QueueInv, QueueTypeOK, Tested, Bounded, Goto, Begin, Threads,
      CommonPlaces, AddBody, GetBody
<1>6. \A u \in Threads \ {t} : Placed(u)'
  BY <1>1, <1>2, <1>3
  DEF IInv, QueueInv, QueueTypeOK, Placed, InBody, Goto, AddBody, GetBody,
      OthersStay
<1>7. Placed(t)'
  BY <1>1, <1>2, <1>3
  DEF IInv, QueueInv, QueueTypeOK, Placed, InBody, Goto, Begin, AddBody,
      GetBody
<1> QED
  BY <1>1, <1>3, <1>4, <1>5, <1>6, <1>7 DEF IInv

\* The inductive invariant of the two queues.
LEMMA Invariant == Spec => []IInv
<1>1. IInv /\ UNCHANGED vars => IInv'
  <2> SUFFICES ASSUME IInv, UNCHANGED vars
               PROVE  IInv'
    OBVIOUS
  <2>1. ListInv' /\ Totalled'
    BY ListStutters DEF vars, IInv, queueVars, Totalled, Tallied, One
  <2> QED
    BY <2>1 DEF vars, queueVars, IInv, QueueInv, QueueTypeOK, Tested, Bounded,
       LockInv, WordTells, Placed, InBody
<1>2. IInv /\ [Next]_vars => IInv'
  BY <1>1, RunStep, LockStep DEF Next, Step
<1> QED
  BY <1>2, InitInvariant, PTL DEF Spec

\* Types of the queue and of its lock (a-spinlock and e-mutex/queue.c).
THEOREM TypeCorrect == Spec => []TypeOK
<1>1. IInv => TypeOK
  BY DEF IInv, QueueInv, LockInv, WordTells, Programs, TypeOK, Spin!Places,
         Futex!Places
<1> QED
  BY <1>1, Invariant, PTL

(***************************************************************************)
(* Under either lock queue_add and queue_get (queue.c:137-199) touch no    *)
(* node that has been freed, follow no pointer that is not a node and free *)
(* no node twice.                                                          *)
(***************************************************************************)
THEOREM NoFreedNode == Spec => []TouchesAllocated
<1>1. IInv => TouchesAllocated
  BY ListAllocated DEF IInv
<1> QED
  BY <1>1, Invariant, PTL

(***************************************************************************)
(* Under either lock the reader's own test (queue-threads.c:44) never      *)
(* fails, however often the integers have wrapped around.                  *)
(***************************************************************************)
THEOREM InSequence == Spec => []ReadsInSequence
<1>1. IInv => ReadsInSequence
  BY ListMeans DEF IInv
<1> QED
  BY <1>1, Invariant, PTL

\* What the lemmas about the list ask for.
LEMMA ListKnown == IInv => Typed /\ Listing
  BY ContentsFollow DEF IInv, QueueInv, QueueTypeOK, Typed

(***************************************************************************)
(* Under either lock, whenever no thread is inside a body, the queue is in *)
(* order (queue.c:137-199): no node is lost or dangles, q->count and the   *)
(* success counters are right, and q->last is the last node.               *)
(***************************************************************************)
THEOREM InOrder == Spec => []Consistent
<1>1. IInv => Consistent
  BY ListKnown, ListConsistent DEF IInv
<1> QED
  BY <1>1, Invariant, PTL

\* Every step of the programs is a step of the buffer, or none.
LEMMA StepImplements ==
  ASSUME IInv, IInv', Listing, Listing', [Next]_vars
  PROVE  FifoStep
<1>1. ASSUME NEW t \in Threads, Run(t)
      PROVE  FifoStep
  <2>1. pc["writer"] \notin AddBody \/ pc["reader"] \notin GetBody
    BY DEF IInv, LockInv, WordTells, Placed, InBody, Threads
  <2> QED
    BY <1>1, <2>1, RunImplements DEF IInv, Run
<1>2. ASSUME NEW t \in Threads, Lock(t) \/ Unlock(t)
      PROVE  FifoStep
  <2>1. UNCHANGED <<q, res, w, r>> /\ pc[t] \notin AddBody \cup GetBody
    BY <1>2 DEF Lock, Unlock, At, AddBody, GetBody
  <2>2. PICK place : /\ Goto(t, place)
                     /\ \/ place \notin AddBody \cup GetBody
                        \/ place = Begin(t) /\ res[t] = "none"
    BY <1>2 DEF Lock, Unlock, At, IInv, Placed, AddBody, GetBody
  <2> QED
    BY <2>1, <2>2, SyncImplements DEF IInv, QueueInv
<1>3. CASE UNCHANGED vars
  BY <1>3, IdleImplements DEF vars, queueVars
<1> QED
  BY <1>1, <1>2, <1>3 DEF Next, Step

(***************************************************************************)
(* Under either lock queue_add and queue_get (queue.c:137-199) are a       *)
(* first-in first-out buffer of max_count values: the queue implements     *)
(* Fifo.                                                                   *)
(***************************************************************************)
THEOREM IsFifo == Spec => ImplementsFifo
<1>1. Init => Abstract!Init
  <2>1. Init => IInv /\ QueueInit
    BY InitInvariant DEF Init
  <2> QED
    BY <2>1, ListKnown, InitImplements
<1>2. IInv /\ IInv' /\ [Next]_vars => FifoStep
  <2>1. IInv' => Listing'
    BY ListKnown, PTL
  <2> QED
    BY <2>1, ListKnown, StepImplements
<1> QED
  BY <1>1, <1>2, Invariant, PTL
  DEF Spec, ImplementsFifo, Abstract!Spec, FifoStep

\* While a thread sleeps the other is in the lock function or has the lock.
Wakeful ==
    \A t, u \in Threads :
        t # u /\ at[t] = "asleep" => at[u] \notin {"idle", "asleep"}

\* No step of either thread leaves the other asleep and alone.
LEMMA WakefulStep ==
  ASSUME IInv, IInv', Wakeful, [Next]_vars
  PROVE  Wakeful'
<1>1. CASE UNCHANGED <<lock, at>>
  BY <1>1 DEF Wakeful
<1>2. CASE program' = "a-spinlock"
  BY <1>2 DEF IInv, LockInv, Spin!Places, Wakeful
<1>3. ASSUME NEW t \in Threads, program = "e-mutex",
             Futex!mutex_lock(t) \/ Futex!mutex_unlock(t)
      PROVE  Wakeful'
  <2>1. at \in [Threads -> Futex!Places] /\ WordTells
    BY <1>3 DEF IInv, LockInv
  <2> USE DEF Wakeful, Futex!Goto, Futex!Places
  <2>2. CASE Futex!Call(t) \/ Futex!CompareExchange(t) \/ Futex!SpuriousWake(t)
    BY <2>1, <2>2
    DEF Futex!Call, Futex!CompareExchange, Futex!SpuriousWake
  <2>3. CASE Futex!FutexWait(t)
    <3>1. CASE lock = 1
      BY <2>1, <2>3, <3>1 DEF Futex!FutexWait
    <3>2. CASE lock = 0
      <4>1. PICK u \in Threads : at[u] = "held"
        BY <2>1, <3>2 DEF WordTells
      <4>2. u # t /\ \A v \in Threads : v # t => v = u
        BY <2>3, <4>1 DEF Futex!FutexWait, Threads
      <4> QED
        BY <2>1, <2>3, <4>1, <4>2 DEF Futex!FutexWait
    <3> QED
      BY <2>1, <3>1, <3>2 DEF WordTells
  <2>4. CASE Futex!UnlockExchange(t)
    <3>1. lock = 0
      BY <2>1, <2>4 DEF Futex!UnlockExchange, WordTells
    <3> QED
      BY <2>1, <2>4, <3>1 DEF Futex!UnlockExchange
  <2>5. CASE Futex!FutexWake(t)
    <3>1. CASE Futex!Asleep = {}
      BY <2>1, <2>5, <3>1 DEF Futex!FutexWake, Futex!Asleep
    <3>2. ASSUME NEW s \in Futex!Asleep,
                 at' = [at EXCEPT ![t] = "idle", ![s] = "cas"]
          PROVE  Wakeful'
      <4>1. s \in Threads /\ at[s] = "asleep" /\ at[t] = "wake"
        BY <2>5 DEF Futex!Asleep, Futex!FutexWake
      <4>2. \A v \in Threads : v = s \/ v = t
        BY <4>1 DEF Threads
      <4> QED
        BY <2>1, <3>2, <4>1, <4>2
    <3> QED
      BY <2>5, <3>1, <3>2 DEF Futex!FutexWake
  <2> QED
    BY <1>3, <2>2, <2>3, <2>4, <2>5 DEF Futex!mutex_lock, Futex!mutex_unlock
<1> QED
  BY <1>1, <1>2, <1>3 DEF Next, Step, Lock, Run, Unlock, vars, lockVars

(***************************************************************************)
(* Reader and writer are never both asleep in FUTEX_WAIT                   *)
(* (e-mutex/queue.c:39): whoever gives the lock back wakes the other, and  *)
(* nobody falls asleep on a lock that is free.                             *)
(***************************************************************************)
THEOREM NeverBothAsleep == Spec => [](\E t \in Threads : ~Asleep(t))
<1>1. Init => Wakeful
  BY DEF Init, Wakeful, Spin!Init, Futex!Init
<1>2. Spec => []Wakeful
  BY <1>1, WakefulStep, Invariant, PTL DEF Spec
<1>3. Wakeful => \E t \in Threads : ~Asleep(t)
  BY DEF Wakeful, Asleep, Threads
<1> QED
  BY <1>2, <1>3, PTL

-----------------------------------------------------------------------------
(* The sequential example (lab2/1/queue-example.c) *)

\* main is in one body at a time, and only while calls of its loop are left.
OneCaller ==
    /\ \A t \in Threads : pc[t] # "return"
    /\ main # "adding" \/ calls = 0 => pc["writer"] = "call"
    /\ main # "getting" \/ calls = 0 => pc["reader"] = "call"

\* What is true of the monitor, of the list and of the queue_t once
\* queue_destroy frees the nodes, and once it has freed the queue_t.
InTurn ==
    /\ main \in {"free", "return", "ended"} => monitor = "ended"
    /\ destroyed <=> main \in {"return", "ended"}
    /\ destroyed => q.first = NULL

\* queue_destroy frees the nodes without counting them down.
Remaining(s, lo, hi) ==
    /\ Chained(s, lo, hi) /\ Allocated(s, lo, hi) /\ MemorySafe
    /\ main \notin {"free", "return", "ended"} => Shape(s, lo, hi)

Remains ==
    \E s \in [Nat -> Nodes \cup {NULL}], lo \in Nat, hi \in Nat :
        Remaining(s, lo, hi)

ExampleInv ==
    /\ QueueInv(CommonPlaces)
    /\ ExampleTypeOK
    /\ OneCaller
    /\ InTurn
    /\ Remains

\* The queue is empty and main has called nothing.
LEMMA ExampleStarts == ExampleInit => ExampleInv
<1> SUFFICES ASSUME ExampleInit
             PROVE  ExampleInv
  OBVIOUS
<1>1. QueueInv(CommonPlaces)
  BY QueueInitInv DEF ExampleInit
<1>2. ExampleTypeOK
  BY <1>1, QueueExampleAssumption DEF ExampleInit, ExampleTypeOK, QueueInv
<1>3. OneCaller /\ InTurn
  BY DEF ExampleInit, QueueInit, OneCaller, InTurn, Threads
<1>4. Remains
  <2>1. ListInv
    BY ListInit DEF ExampleInit
  <2> QED
    BY <2>1 DEF ListInv, ListIs, Remains, Remaining, Shape
<1> QED
  BY <1>1, <1>2, <1>3, <1>4 DEF ExampleInv

\* A statement of queue_add or queue_get: main is in no other body.
LEMMA ExampleBody ==
  ASSUME ExampleInv, UNCHANGED mainVars, calls > 0,
         \/ main = "adding" /\ queue_add
         \/ main = "getting" /\ queue_get
  PROVE  ExampleInv'
<1>1. QueueInv(CommonPlaces)'
  BY AddKeepsOrder, GetKeepsOrder DEF ExampleInv
<1>2. ExampleTypeOK'
  BY <1>1 DEF ExampleInv, ExampleTypeOK, mainVars, QueueInv
<1>3. Remains'
  <2>1. PICK s \in [Nat -> Nodes \cup {NULL}], lo \in Nat, hi \in Nat :
          Shape(s, lo, hi)
    BY DEF ExampleInv, Remains, Remaining
  <2>2. KeepsList(s, lo, hi)
    <3>1. CASE main = "adding" /\ queue_add
      <4>1. pc["reader"] \notin GetBody
        BY <3>1 DEF ExampleInv, OneCaller, GetBody
      <4> QED
        BY <2>1, <3>1, <4>1, AddKeepsShape DEF ExampleInv
    <3>2. CASE main = "getting" /\ queue_get
      <4>1. pc["writer"] \notin AddBody
        BY <3>2 DEF ExampleInv, OneCaller, AddBody
      <4> QED
        BY <2>1, <3>2, <4>1, GetKeepsShape DEF ExampleInv
    <3> QED
      BY <3>1, <3>2
  <2> QED
    BY <2>2 DEF KeepsList, Remains, Remaining, Shape
<1>4. OneCaller'
  <2> USE DEF ExampleInv, QueueInv, QueueTypeOK, OneCaller, mainVars, Goto,
              Finish, Threads, AddBody, GetBody
  <2>1. CASE main = "adding" /\ queue_add
    BY <2>1
    DEF queue_add, AddAttempts, AddCheck, AddMalloc, AddFirst, AddAppend,
        AddLast, AddLoad, AddStore, AddCount
  <2>2. CASE main = "getting" /\ queue_get
    BY <2>2
    DEF queue_get, GetAttempts, GetCheck, GetValue, GetNext, GetFirst,
        GetFree, GetLoad, GetStore, GetCount
  <2> QED
    BY <2>1, <2>2
<1>5. InTurn'
  BY DEF ExampleInv, InTurn, mainVars
<1> QED
  BY <1>1, <1>2, <1>3, <1>4, <1>5 DEF ExampleInv

\* main enters a body, or comes back from one.
LEMMA ExampleCalls ==
  ASSUME ExampleInv,
         NEW t \in Threads, main = IF t = "writer" THEN "adding" ELSE "getting",
         calls > 0,
         \/ pc[t] = "call" /\ Goto(t, Begin(t)) /\ UNCHANGED calls
         \/ pc[t] = "exit" /\ Goto(t, "call") /\ calls' = calls - 1,
         UNCHANGED <<q, heap, live, res, main, wanted, monitor, cancelled,
                     destroyed>>,
         w' = w \/ (t = "writer" /\ w' = NoWriterLocals(Next_value(w.i))),
         r' = r \/ (t = "reader" /\ r' = NoReaderLocals(0)),
         fault' \in {fault, "none", "abort"}
  PROVE  ExampleInv'
<1>1. QueueInv(CommonPlaces)'
  <2>1. w' \in WriterLocals
    BY Fields, WrapAround
    DEF ExampleInv, QueueInv, QueueTypeOK, NoWriterLocals, WriterLocals,
        Pointers
  <2>2. r' \in ReaderLocals
    BY Zero
    DEF ExampleInv, QueueInv, QueueTypeOK, NoReaderLocals, ReaderLocals,
        Pointers
  <2>3. pc' \in [Threads -> CommonPlaces] /\ fault' \in Faults
    BY DEF ExampleInv, QueueInv, QueueTypeOK, Goto, Begin, CommonPlaces,
       AddBody, GetBody, Faults
  <2>4. QueueTypeOK(CommonPlaces)'
    BY <2>1, <2>2, <2>3 DEF ExampleInv, QueueInv, QueueTypeOK
  <2>5. Tested' /\ Bounded'
    BY DEF ExampleInv, QueueInv, QueueTypeOK, Tested, Bounded, Goto, Begin,
       Threads, CommonPlaces
  <2> QED
    BY <2>4, <2>5 DEF QueueInv
<1>2. ExampleTypeOK'
  BY <1>1 DEF ExampleInv, ExampleTypeOK, QueueInv
<1>3. Remains'
  <2>1. PICK s \in [Nat -> Nodes \cup {NULL}], lo \in Nat, hi \in Nat :
          Shape(s, lo, hi)
    BY DEF ExampleInv, Remains, Remaining, Threads
  <2>2. PICK place : /\ Goto(t, place)
                     /\ place \notin AddBody \cup GetBody \/ place = Begin(t)
    BY DEF AddBody, GetBody
  <2>3. pc[t] \notin AddBody \cup GetBody
    BY DEF AddBody, GetBody
  <2>4. /\ t = "writer" => r' = r
        /\ t = "reader" => w' = w
    OBVIOUS
  <2>5. Shape(s, lo, hi)'
    BY <2>1, <2>2, <2>3, <2>4, OutsideKeepsShape
    DEF ExampleInv, QueueInv
  <2> QED
    BY <2>5 DEF Remains, Remaining, Shape
<1>4. OneCaller' /\ InTurn'
  BY DEF ExampleInv, QueueInv, QueueTypeOK, OneCaller, InTurn, Goto, Begin,
     Threads
<1> QED
  BY <1>1, <1>2, <1>3, <1>4 DEF ExampleInv

\* main outside the bodies and the monitor, as long as no node is freed.
LEMMA ExampleElsewhere ==
  ASSUME ExampleInv,
         \/ Turn \/ Cancel \/ JoinMonitor \/ FreeQueue \/ Return
         \/ qmonitor
  PROVE  ExampleInv'
<1>1. /\ UNCHANGED <<q, heap, live, pc, res, w, r>>
      /\ fault' \in {fault, "none"}
  <2>1. CASE qmonitor
    BY <2>1
    DEF ExampleInv, InTurn, qmonitor, ReadStats, PrintLine, WakeUp,
        TakeCancellation, queueVars
  <2> QED
    BY <2>1 DEF Turn, Cancel, JoinMonitor, FreeQueue, Return, queueVars
<1>2. QueueInv(CommonPlaces)'
  BY <1>1 DEF ExampleInv, QueueInv, QueueTypeOK, Tested, Bounded, Faults
<1>3. ExampleTypeOK'
  <2>1. wanted \in Nat
    BY QueueExampleAssumption DEF ExampleInv, ExampleTypeOK
  <2> QED
    BY <1>2, <2>1
    DEF ExampleInv, ExampleTypeOK, QueueInv, Turn, Cancel, JoinMonitor,
        FreeQueue, Return, qmonitor, ReadStats, PrintLine, WakeUp,
        TakeCancellation
<1>4. OneCaller'
  BY <1>1
  DEF ExampleInv, OneCaller, Turn, Cancel, JoinMonitor, FreeQueue, Return,
      qmonitor, ReadStats, PrintLine, WakeUp, TakeCancellation, Threads
<1>5. InTurn'
  BY <1>1
  DEF ExampleInv, InTurn, Turn, Cancel, JoinMonitor, FreeQueue, Return,
      qmonitor, ReadStats, PrintLine, WakeUp, TakeCancellation
<1>6. Remains'
  <2>1. PICK s \in [Nat -> Nodes \cup {NULL}], lo \in Nat, hi \in Nat :
          Remaining(s, lo, hi)
    BY DEF ExampleInv, Remains
  <2>2. Chained(s, lo, hi)' /\ Allocated(s, lo, hi)' /\ MemorySafe'
    BY <1>1, <2>1 DEF Remaining, Chained, Allocated, InHand, MemorySafe
  <2>3. Counted(s, lo, hi) /\ Remembered(s, lo, hi)
          => Counted(s, lo, hi)' /\ Remembered(s, lo, hi)'
    BY <1>1 DEF Counted, Remembered, One
  <2>4. main' \notin {"free", "return", "ended"}
          => main \notin {"free", "return", "ended"}
    BY DEF Turn, Cancel, JoinMonitor, FreeQueue, Return, qmonitor, ReadStats,
       PrintLine, WakeUp, TakeCancellation
  <2> QED
    BY <2>1, <2>2, <2>3, <2>4 DEF Remains, Remaining, Shape
<1> QED
  BY <1>2, <1>3, <1>4, <1>5, <1>6 DEF ExampleInv

(***************************************************************************)
(* queue_destroy frees the first node (queue.c:57-61).  It is allocated,   *)
(* for it is on the list, and what is left of the list starts behind it.   *)
(***************************************************************************)
LEMMA ExampleFrees ==
  ASSUME ExampleInv, FreeNode
  PROVE  ExampleInv'
<1> USE DEF ExampleInv
<1>1. /\ main = "free" /\ pc["writer"] = "call" /\ pc["reader"] = "call"
      /\ UNCHANGED <<heap, pc, res, w, r, mainVars>>
  BY DEF FreeNode, OneCaller
<1>2. PICK s \in [Nat -> Nodes \cup {NULL}], lo \in Nat, hi \in Nat :
        Chained(s, lo, hi) /\ Allocated(s, lo, hi) /\ MemorySafe
  BY DEF Remains, Remaining
<1>3. lo < hi /\ q.first = s[lo] /\ lo \in lo .. hi - 1
  BY <1>2 DEF FreeNode, Chained
<1>4. /\ q.first \in Nodes /\ q.first \in live
      /\ heap[q.first].next = s[lo + 1]
  BY <1>2, <1>3 DEF Chained, Allocated
<1>5. /\ live' = live \ {s[lo]} /\ fault' = fault
      /\ q' = [q EXCEPT !.first = s[lo + 1]]
  BY <1>3, <1>4 DEF FreeNode
<1>6. q \in Queues /\ s[lo + 1] \in Pointers
  BY DEF QueueInv, QueueTypeOK, Pointers
<1>7. q' \in Queues /\ q'.first = s[lo + 1] /\ q'.last = q.last
      /\ q'.count = q.count /\ q'.max_count = q.max_count
  BY <1>5, <1>6 DEF Queues
<1>8. QueueInv(CommonPlaces)'
  <2>1. QueueTypeOK(CommonPlaces)'
    BY <1>1, <1>5, <1>7 DEF QueueInv, QueueTypeOK
  <2>2. Tested' /\ Bounded'
    BY <1>1, <1>5, <1>7 DEF QueueInv, Tested, Bounded
  <2> QED
    BY <2>1, <2>2 DEF QueueInv
<1>9. ExampleTypeOK'
  BY <1>1, <1>8 DEF ExampleTypeOK, QueueInv, mainVars
<1>10. OneCaller' /\ InTurn'
  BY <1>1 DEF OneCaller, InTurn, mainVars
<1>11. Remains'
  <2>1. Chained(s, lo + 1, hi)'
    BY <1>1, <1>2, <1>3, <1>7 DEF Chained
  <2>2. Allocated(s, lo + 1, hi)'
    <3>1. \A i \in lo + 1 .. hi - 1 : i \in lo .. hi - 1 /\ s[i] # s[lo]
      BY <1>2, <1>3 DEF Chained
    <3>2. \A n \in live' : \E i \in lo + 1 .. hi - 1 : n = s[i]
      BY <1>1, <1>2, <1>5 DEF Allocated, InHand
    <3> QED
      BY <1>1, <1>2, <1>5, <3>1, <3>2 DEF Allocated, InHand
  <2>3. MemorySafe' /\ main' = "free"
    BY <1>1, <1>2, <1>5 DEF MemorySafe, mainVars
  <2> QED
    BY <2>1, <2>2, <2>3 DEF Remains, Remaining
<1> QED
  BY <1>8, <1>9, <1>10, <1>11

\* The inductive invariant of the sequential example.
LEMMA ExampleInvariant == ExampleSpec => []ExampleInv
<1>1. ASSUME ExampleInv, Add \/ Added
      PROVE  ExampleInv'
  <2>1. CASE main = "adding" /\ calls > 0 /\ queue_add /\ UNCHANGED mainVars
    BY <1>1, <2>1, ExampleBody
  <2>2. ASSUME Add, ~queue_add
        PROVE  ExampleInv'
    <3>1. /\ main = "adding" /\ calls > 0 /\ pc["writer"] = "call"
          /\ Goto("writer", Begin("writer"))
          /\ UNCHANGED <<q, heap, live, res, w, r, fault, mainVars>>
      BY <2>2 DEF Add, At
    <3> QED
      BY <1>1, <3>1, ExampleCalls DEF Threads, mainVars
  <2>3. CASE Added
    <3>1. pc["writer"] = "exit" /\ Goto("writer", "call")
      BY <2>3 DEF Added, At
    <3>2. main = "adding" /\ calls > 0
      BY <1>1, <3>1 DEF ExampleInv, ExampleTypeOK, OneCaller
    <3>3. /\ UNCHANGED <<q, heap, live, res, r, main, wanted, monitor,
                         cancelled, destroyed>>
          /\ w' = NoWriterLocals(Next_value(w.i)) /\ calls' = calls - 1
          /\ fault' \in {fault, "none", "abort"}
      BY <2>3 DEF Added
    <3> QED
      BY <1>1, <3>1, <3>2, <3>3, ExampleCalls DEF Threads
  <2> QED
    BY <1>1, <2>1, <2>2, <2>3 DEF Add
<1>2. ASSUME ExampleInv, Get \/ Got
      PROVE  ExampleInv'
  <2>1. CASE main = "getting" /\ calls > 0 /\ queue_get /\ UNCHANGED mainVars
    BY <1>2, <2>1, ExampleBody
  <2>2. ASSUME Get, ~queue_get
        PROVE  ExampleInv'
    <3>1. /\ main = "getting" /\ calls > 0 /\ pc["reader"] = "call"
          /\ Goto("reader", Begin("reader"))
          /\ UNCHANGED <<q, heap, live, res, w, r, fault, mainVars>>
      BY <2>2 DEF Get, At
    <3> QED
      BY <1>2, <3>1, ExampleCalls DEF Threads, mainVars
  <2>3. CASE Got
    <3>1. pc["reader"] = "exit" /\ Goto("reader", "call")
      BY <2>3 DEF Got, At
    <3>2. main = "getting" /\ calls > 0
      BY <1>2, <3>1 DEF ExampleInv, ExampleTypeOK, OneCaller
    <3>3. /\ UNCHANGED <<q, heap, live, res, w, fault, main, wanted, monitor,
                         cancelled, destroyed>>
          /\ r' = NoReaderLocals(0) /\ calls' = calls - 1
      BY <2>3 DEF Got
    <3> QED
      BY <1>2, <3>1, <3>2, <3>3, ExampleCalls DEF Threads
  <2> QED
    BY <1>2, <2>1, <2>2, <2>3 DEF Get
<1>3. ASSUME ExampleInv, UNCHANGED exampleVars
      PROVE  ExampleInv'
  <2>1. UNCHANGED <<queueVars, main, calls, wanted, monitor, cancelled,
                    destroyed>>
    BY <1>3 DEF exampleVars, mainVars
  <2>2. QueueInv(CommonPlaces)'
    BY <1>3, <2>1
    DEF ExampleInv, QueueInv, QueueTypeOK, Tested, Bounded, queueVars
  <2>3. ExampleTypeOK' /\ OneCaller' /\ InTurn'
    BY <1>3, <2>1, <2>2
    DEF ExampleInv, QueueInv, ExampleTypeOK, OneCaller, InTurn, queueVars
  <2>4. Remains'
    <3>1. PICK s \in [Nat -> Nodes \cup {NULL}], lo \in Nat, hi \in Nat :
            Remaining(s, lo, hi)
      BY <1>3 DEF ExampleInv, Remains
    <3>2. Remaining(s, lo, hi)'
      BY <2>1, <3>1
      DEF Remaining, Shape, Chained, Allocated, Counted, Remembered, InHand,
          MemorySafe, queueVars
    <3> QED
      BY <3>2 DEF Remains
  <2> QED
    BY <2>2, <2>3, <2>4 DEF ExampleInv
<1>4. ExampleInv /\ [ExampleNext]_exampleVars => ExampleInv'
  BY <1>1, <1>2, <1>3, ExampleElsewhere, ExampleFrees
  DEF ExampleNext, Main, queue_destroy
<1> QED
  BY <1>4, ExampleStarts, PTL DEF ExampleSpec

\* Types of the example's queue, main and monitor (lab2/1/queue.c:12-65,
\* queue-example.c).
THEOREM ExampleTypeCorrect == ExampleSpec => []ExampleTypeOK
<1>1. ExampleInv => ExampleTypeOK
  BY DEF ExampleInv
<1> QED
  BY <1>1, ExampleInvariant, PTL

(***************************************************************************)
(* In the sequential example no statement of queue_add, queue_get or       *)
(* queue_destroy follows a pointer that is not a node or frees a node      *)
(* twice, and the monitor, which has no lock, never reads a queue_t that   *)
(* queue_destroy has freed (lab2/1/queue.c:12-65).                         *)
(***************************************************************************)
THEOREM ExampleNoWildPointer == ExampleSpec => []MemorySafe
<1>1. ExampleInv => MemorySafe
  BY DEF ExampleInv, Remains, Remaining
<1> QED
  BY <1>1, ExampleInvariant, PTL

(***************************************************************************)
(* However many values main leaves in the queue, queue_destroy             *)
(* (lab2/1/queue.c:46-65) leaves nothing allocated, and it returns after   *)
(* the monitor has ended.                                                  *)
(***************************************************************************)
THEOREM ExampleLeavesNothing == ExampleSpec => []NothingLeft
<1>1. ExampleInv => NothingLeft
  <2>1. SUFFICES ASSUME ExampleInv, main \in {"return", "ended"}
                 PROVE  live = {} /\ destroyed /\ monitor = "ended"
    BY DEF NothingLeft
  <2>2. destroyed /\ monitor = "ended" /\ q.first = NULL
    BY <2>1 DEF ExampleInv, ExampleTypeOK, InTurn
  <2>3. PICK s \in [Nat -> Nodes \cup {NULL}], lo \in Nat, hi \in Nat :
          Chained(s, lo, hi) /\ Allocated(s, lo, hi)
    BY <2>1 DEF ExampleInv, Remains, Remaining
  <2>4. ~(lo < hi)
    <3>1. lo < hi => lo \in lo .. hi - 1
      OBVIOUS
    <3> QED
      BY <2>2, <2>3, <3>1, ListQueueAssumption DEF Chained
  <2>5. live = {}
    BY <2>1, <2>3, <2>4 DEF ExampleInv, OneCaller, Allocated, InHand
  <2> QED
    BY <2>2, <2>5
<1> QED
  BY <1>1, ExampleInvariant, PTL
=============================================================================
