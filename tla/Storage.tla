------------------------------- MODULE Storage -------------------------------
(***************************************************************************)
(* lab2/3: a list with a lock in every node and the threads on it.         *)
(* Process threads walk the list comparing neighbours, swap threads walk   *)
(* it exchanging neighbours, all of them locking node by node with         *)
(* try-locks and going on without a lock when one is taken.                *)
(*                                                                         *)
(* The three programs differ only in the lock of a node: a pthread mutex,  *)
(* a pthread spinlock or a pthread read-write lock.  A program that only   *)
(* ever tries them cannot tell the first two apart.  Which kind of lock    *)
(* the program has is chosen in the initial state.  Line numbers are those *)
(* of lab2/3/mutex/main.c; the others have two lines more from 102 on.     *)
(*                                                                         *)
(* An action is one access to a shared link or one call on a lock; a link  *)
(* of a node that the thread has locked is read in the step that uses it.  *)
(* Left out: the values and their comparison, and the counters, which only *)
(* the monitor reads.                                                      *)
(***************************************************************************)
EXTENDS Naturals, Sequences

CONSTANTS
    Size,           \* the number of nodes; node 1 is storage->first
    Processors,     \* the threads that run process_thread
    Swappers        \* the threads that run swap_thread

ASSUME StorageAssumption ==
    /\ Size \in Nat /\ Size >= 3
    /\ Processors \cap Swappers = {}

NULL == 0

Nodes == 1 .. Size

Threads == Processors \cup Swappers

VARIABLES
    kind,       \* the kind of lock in the nodes
    next,       \* the links of the nodes
    locks,      \* the threads that hold the lock of each node
    pc,         \* control state of the threads
    loc,        \* their local variables
    crashed     \* a thread has dereferenced NULL

vars == <<kind, next, locks, pc, loc, crashed>>

Kinds == {"exclusive", "rwlock"}

\* curr is curr in process_thread and curr1 in swap_thread.
Locals == [curr : Nodes \cup {NULL}, curr2 : Nodes \cup {NULL},
           curr3 : Nodes \cup {NULL}]

At(t, place) == ~crashed /\ pc[t] = place

Goto(t, place) == pc' = [pc EXCEPT ![t] = place]

Curr(t) == loc[t].curr

MoveTo(t, n) == loc' = [loc EXCEPT ![t].curr = n]

-----------------------------------------------------------------------------
(* The locks.  Swap threads take read-write locks for writing and process  *)
(* threads for reading, so that it is enough to know who holds a lock.     *)

\* pthread_mutex_trylock, pthread_spin_trylock or pthread_rwlock_tryrdlock
\* succeeds.
CanRead(n) ==
    IF kind = "rwlock" THEN locks[n] \cap Swappers = {} ELSE locks[n] = {}

\* Faulty variant: a writer does not wait for the readers.
CanWriteDespiteReaders(n) == locks[n] \cap Swappers = {}

\* pthread_mutex_trylock, pthread_spin_trylock or pthread_rwlock_trywrlock
\* succeeds.
CanWrite(n) == locks[n] = {}

Lock(t, n) == locks' = [locks EXCEPT ![n] = @ \cup {t}]

Unlock(t, n) == locks' = [locks EXCEPT ![n] = @ \ {t}]

-----------------------------------------------------------------------------
\* add_node appends each node of fill_storage to the last one.
Filled == [n \in Nodes |-> IF n = Size THEN NULL ELSE n + 1]

\* add_node initialises the locks.
AllFree == [n \in Nodes |-> {}]

\* fill_storage, then main has started the threads.
Init ==
    /\ kind \in Kinds
    /\ next = Filled
    /\ locks = AllFree
    /\ pc = [t \in Threads |-> IF t \in Processors THEN "enter" ELSE "start"]
    /\ loc = [t \in Threads |-> [curr |-> 1, curr2 |-> NULL, curr3 |-> NULL]]
    /\ crashed = FALSE

-----------------------------------------------------------------------------
(* process_thread *)

\* if (storage->first->next == NULL) return
Enter(t) ==
    /\ At(t, "enter")
    /\ Goto(t, IF next[1] = NULL THEN "stopped" ELSE "start")
    /\ UNCHANGED <<kind, next, locks, loc, crashed>>

\* curr = storage->first; if (curr->next == NULL) break
Pass(t) ==
    /\ At(t, "start")
    /\ MoveTo(t, 1)
    /\ Goto(t, IF next[1] = NULL THEN "stopped" ELSE "try1")
    /\ UNCHANGED <<kind, next, locks, crashed>>

\* curr != NULL && trylock(curr): at the end of the list the pass is over.
ReadFirst(t) ==
    /\ At(t, "try1")
    /\ IF Curr(t) = NULL
         THEN Goto(t, "start") /\ UNCHANGED locks
         ELSE IF CanRead(Curr(t))
         THEN Lock(t, Curr(t)) /\ Goto(t, "try2")
         ELSE Goto(t, "step") /\ UNCHANGED locks
    /\ UNCHANGED <<kind, next, loc, crashed>>

\* curr->next != NULL && trylock(curr->next)
ReadSecond(t) ==
    /\ At(t, "try2")
    /\ LET n == next[Curr(t)] IN
       IF n # NULL /\ CanRead(n)
         THEN Lock(t, n) /\ Goto(t, "compare")
         ELSE Goto(t, "drop1") /\ UNCHANGED locks
    /\ UNCHANGED <<kind, next, loc, crashed>>

\* tmp = curr; curr = curr->next; unlock(tmp)
Compare(t) ==
    /\ At(t, "compare")
    /\ MoveTo(t, next[Curr(t)])
    /\ Unlock(t, Curr(t))
    /\ Goto(t, "free2")
    /\ UNCHANGED <<kind, next, crashed>>

\* unlock(curr)
FreeCurr(t) ==
    /\ At(t, "free2")
    /\ Unlock(t, Curr(t))
    /\ Goto(t, "try1")
    /\ UNCHANGED <<kind, next, loc, crashed>>

\* Faulty variant: the walk goes on without testing for the end.
DropAndStep(t) ==
    /\ At(t, "drop1")
    /\ MoveTo(t, next[Curr(t)])
    /\ Unlock(t, Curr(t))
    /\ Goto(t, "step")
    /\ UNCHANGED <<kind, next, crashed>>

\* tmp = curr; curr = curr->next; unlock(tmp), only curr being locked
DropFirst(t) ==
    /\ At(t, "drop1")
    /\ MoveTo(t, next[Curr(t)])
    /\ Unlock(t, Curr(t))
    /\ Goto(t, "try1")
    /\ UNCHANGED <<kind, next, crashed>>

\* curr = curr->next, without a lock
Step(t) ==
    /\ At(t, "step")
    /\ MoveTo(t, next[Curr(t)])
    /\ Goto(t, "try1")
    /\ UNCHANGED <<kind, next, locks, crashed>>

process_thread(t) ==
    \/ Enter(t) \/ Pass(t) \/ ReadFirst(t) \/ ReadSecond(t) \/ Compare(t)
    \/ FreeCurr(t) \/ DropFirst(t) \/ Step(t)

-----------------------------------------------------------------------------
(* swap_thread *)

\* curr1 = storage->first; curr1->next == NULL || ..
CheckFirst(t) ==
    /\ At(t, "start")
    /\ MoveTo(t, 1)
    /\ Goto(t, IF next[1] = NULL THEN "stopped" ELSE "check2")
    /\ UNCHANGED <<kind, next, locks, crashed>>

\* .. curr1->next->next == NULL, the load of curr1->next
CheckLoad(t) ==
    /\ At(t, "check2")
    /\ loc' = [loc EXCEPT ![t].curr2 = next[1]]
    /\ Goto(t, "check3")
    /\ UNCHANGED <<kind, next, locks, crashed>>

\* .. and the load of its link; should_swap = rand() % 2
CheckSecond(t) ==
    /\ At(t, "check3")
    /\ IF next[loc[t].curr2] = NULL
         THEN Goto(t, "stopped")
         ELSE \E place \in {"skip", "try1"} : Goto(t, place)
    /\ loc' = [loc EXCEPT ![t].curr2 = NULL]
    /\ UNCHANGED <<kind, next, locks, crashed>>

\* A pass that does not swap: if (curr1->next != NULL) .. else break
Skip(t) ==
    /\ At(t, "skip")
    /\ IF Curr(t) = NULL
         THEN crashed' = TRUE /\ UNCHANGED pc
         ELSE /\ Goto(t, IF next[Curr(t)] = NULL THEN "start" ELSE "skip_load")
              /\ UNCHANGED crashed
    /\ UNCHANGED <<kind, next, locks, loc>>

\* curr1 = curr1->next, the link read a second time
SkipLoad(t) ==
    /\ At(t, "skip_load")
    /\ MoveTo(t, next[Curr(t)])
    /\ Goto(t, "skip")
    /\ UNCHANGED <<kind, next, locks, crashed>>

\* curr1 != NULL && trylock(curr1)
WriteFirst(t) ==
    /\ At(t, "try1")
    /\ IF Curr(t) = NULL
         THEN Goto(t, "start") /\ UNCHANGED locks
         ELSE IF CanWrite(Curr(t))
         THEN Lock(t, Curr(t)) /\ Goto(t, "try2")
         ELSE Goto(t, "step") /\ UNCHANGED locks
    /\ UNCHANGED <<kind, next, loc, crashed>>

\* curr1->next != NULL && trylock(curr1->next)
WriteSecond(t) ==
    /\ At(t, "try2")
    /\ LET n == next[Curr(t)] IN
       IF n # NULL /\ CanWrite(n)
         THEN Lock(t, n) /\ Goto(t, "try3")
         ELSE Goto(t, "drop1") /\ UNCHANGED locks
    /\ UNCHANGED <<kind, next, loc, crashed>>

\* Faulty variant: the third node is not locked.
ThirdNotLocked(t) ==
    /\ At(t, "try3")
    /\ Goto(t, IF next[next[Curr(t)]] # NULL THEN "store1" ELSE "drop2")
    /\ UNCHANGED <<kind, next, locks, loc, crashed>>

\* curr1->next->next != NULL && trylock(curr1->next->next)
WriteThird(t) ==
    /\ At(t, "try3")
    /\ LET n == next[next[Curr(t)]] IN
       IF n # NULL /\ CanWrite(n)
         THEN Lock(t, n) /\ Goto(t, "store1")
         ELSE Goto(t, "drop2") /\ UNCHANGED locks
    /\ UNCHANGED <<kind, next, loc, crashed>>

\* Faulty variant: curr3->next is assigned before it is read.
StoredBeforeRead(t) ==
    /\ At(t, "store1")
    /\ LET second == next[Curr(t)]
           third  == next[second]
       IN  /\ loc' = [loc EXCEPT ![t].curr2 = second, ![t].curr3 = third]
           /\ next' = [next EXCEPT ![third] = second, ![second] = second]
    /\ Goto(t, "store2")
    /\ UNCHANGED <<kind, locks, crashed>>

\* curr2 = curr1->next; curr3 = curr1->next->next; curr2->next = curr3->next
Store1(t) ==
    /\ At(t, "store1")
    /\ LET second == next[Curr(t)]
           third  == next[second]
       IN  /\ loc' = [loc EXCEPT ![t].curr2 = second, ![t].curr3 = third]
           /\ next' = [next EXCEPT ![second] = next[third]]
    /\ Goto(t, "store2")
    /\ UNCHANGED <<kind, locks, crashed>>

\* curr3->next = curr2
Store2(t) ==
    /\ At(t, "store2")
    /\ next' = [next EXCEPT ![loc[t].curr3] = loc[t].curr2]
    /\ Goto(t, "store3")
    /\ UNCHANGED <<kind, locks, loc, crashed>>

\* curr1->next = curr3
Store3(t) ==
    /\ At(t, "store3")
    /\ next' = [next EXCEPT ![Curr(t)] = loc[t].curr3]
    /\ Goto(t, "swapped")
    /\ UNCHANGED <<kind, locks, loc, crashed>>

\* tmp = curr1; curr1 = tmp->next; curr2 = curr1->next; unlock(tmp)
Swapped(t) ==
    /\ At(t, "swapped")
    /\ LET second == next[Curr(t)] IN
       loc' = [loc EXCEPT ![t] = [curr |-> second, curr2 |-> next[second],
                                  curr3 |-> NULL]]
    /\ Unlock(t, Curr(t))
    /\ Goto(t, "free1")
    /\ UNCHANGED <<kind, next, crashed>>

\* unlock(curr1), the node moved forward
FreeMoved(t) ==
    /\ At(t, "free1")
    /\ Unlock(t, Curr(t))
    /\ Goto(t, "free3")
    /\ UNCHANGED <<kind, next, loc, crashed>>

\* unlock(curr2)
FreeSecond(t) ==
    /\ At(t, "free3")
    /\ Unlock(t, loc[t].curr2)
    /\ loc' = [loc EXCEPT ![t].curr2 = NULL]
    /\ Goto(t, "try1")
    /\ UNCHANGED <<kind, next, crashed>>

\* tmp = curr1; curr1 = curr1->next; unlock(tmp), two nodes being locked
DropSecond(t) ==
    /\ At(t, "drop2")
    /\ MoveTo(t, next[Curr(t)])
    /\ Unlock(t, Curr(t))
    /\ Goto(t, "free2")
    /\ UNCHANGED <<kind, next, crashed>>

swap_thread(t) ==
    \/ CheckFirst(t) \/ CheckLoad(t) \/ CheckSecond(t) \/ Skip(t) \/ SkipLoad(t)
    \/ WriteFirst(t) \/ WriteSecond(t) \/ WriteThird(t)
    \/ Store1(t) \/ Store2(t) \/ Store3(t) \/ Swapped(t) \/ FreeMoved(t)
    \/ FreeSecond(t) \/ DropSecond(t) \/ FreeCurr(t) \/ DropFirst(t) \/ Step(t)

-----------------------------------------------------------------------------
(* The three programs *)

\* lab2/3/mutex and lab2/3/spinlock
exclusive_process_thread(t) == kind = "exclusive" /\ process_thread(t)

exclusive_swap_thread(t) == kind = "exclusive" /\ swap_thread(t)

\* lab2/3/rwlock
rwlock_process_thread(t) == kind = "rwlock" /\ process_thread(t)

rwlock_swap_thread(t) == kind = "rwlock" /\ swap_thread(t)

Next ==
    \/ \E t \in Processors : exclusive_process_thread(t)
                           \/ rwlock_process_thread(t)
    \/ \E t \in Swappers : exclusive_swap_thread(t) \/ rwlock_swap_thread(t)

Spec == Init /\ [][Next]_vars

-----------------------------------------------------------------------------
Places == {"enter", "start", "stopped", "try1", "try2", "try3", "compare",
           "step", "drop1", "drop2", "free1", "free2", "free3", "check2",
           "check3", "skip", "skip_load", "store1", "store2", "store3",
           "swapped"}

\* Types of the list, the locks and the threads (main.c:26-152).
TypeOK ==
    /\ kind \in Kinds
    /\ next \in [Nodes -> Nodes \cup {NULL}]
    /\ locks \in [Nodes -> SUBSET Threads]
    /\ pc \in [Threads -> Places]
    /\ loc \in [Threads -> Locals]
    /\ crashed \in BOOLEAN

Between(t) == pc[t] \in {"store2", "store3"}

\* The links as if the swaps under way had not begun; none leads from NULL.
Settled ==
    [n \in Nodes \cup {NULL} |->
       LET ahead  == {t \in Swappers : Between(t) /\ loc[t].curr2 = n}
           behind == {t \in Swappers : pc[t] = "store3" /\ loc[t].curr3 = n}
       IN  IF n = NULL THEN NULL
           ELSE IF ahead # {} THEN loc[CHOOSE t \in ahead : TRUE].curr3
           ELSE IF behind # {} THEN next[loc[CHOOSE t \in behind : TRUE].curr2]
           ELSE next[n]]

\* A path along these links, and the same with one more node.
Longer ==
    [path \in Seq(Nodes \cup {NULL}) |-> Append(path, Settled[path[Len(path)]])]

Path[i \in 1 .. Size] == IF i = 1 THEN <<1>> ELSE Longer[Path[i - 1]]

\* The nodes in the order in which these links lead to them.
Order == Path[Size]

Abstract == INSTANCE AdjacentSwaps WITH order <- Order

(***************************************************************************)
(* The three stores of a swap (main.c:114-118), under the locks of the     *)
(* three nodes, exchange two neighbours in one step and do nothing else,   *)
(* whatever the other swap threads do to the neighbourhood at the same     *)
(* time: no node is lost and no cycle appears.                             *)
(***************************************************************************)
ImplementsSwaps == Abstract!Spec

\* Must thread t hold the lock of node n at its place?
Needs(t, n) ==
    \/ /\ pc[t] \in {"try2", "try3", "compare", "store1", "store2", "store3",
                     "swapped", "drop1", "drop2", "free1", "free2"}
       /\ n = Curr(t)
    \/ /\ pc[t] \in {"compare", "try3", "drop2", "store1", "swapped"}
       /\ n = next[Curr(t)]
    \/ /\ pc[t] \in {"store1", "swapped"}
       /\ n = next[next[Curr(t)]]
    \/ /\ pc[t] \in {"store2", "store3", "free1", "free3"}
       /\ n = loc[t].curr2
    \/ /\ pc[t] \in {"store2", "store3"}
       /\ n = loc[t].curr3

(***************************************************************************)
(* A thread holds exactly the locks it is going to give back.  The code    *)
(* remembers one of the nodes it has locked and finds the others again by  *)
(* following the links, after having changed them (main.c:56-59, 120-132), *)
(* so this says that the links of locked nodes are changed by nobody else. *)
(***************************************************************************)
LocksMatch ==
    \A t \in Threads, n \in Nodes : t \in locks[n] <=> Needs(t, n)

(***************************************************************************)
(* While a process thread compares two nodes (main.c:48-60) they are       *)
(* neighbours and stay so: it holds both locks and no swap thread holds    *)
(* either, even though other process threads may hold read-write locks of  *)
(* the same nodes.                                                         *)
(***************************************************************************)
ComparesNeighbours ==
    \A t \in Processors : pc[t] = "compare" =>
        /\ next[Curr(t)] # NULL
        /\ \A n \in {Curr(t), next[Curr(t)]} :
              t \in locks[n] /\ locks[n] \cap Swappers = {}

(***************************************************************************)
(* A process thread never finds fewer than two nodes (main.c:31-44), and   *)
(* the only NULL that is dereferenced is the one a swap thread can read    *)
(* when it walks without swapping (main.c:102-103): the link tested in the *)
(* condition is loaded again for the assignment.                           *)
(***************************************************************************)
OnlySkippingFails ==
    /\ \A t \in Processors : pc[t] # "stopped"
    /\ crashed => \E t \in Swappers : pc[t] = "skip" /\ Curr(t) = NULL
    /\ \A t \in Threads :
         pc[t] \in {"try2", "drop1", "step", "compare"} => Curr(t) # NULL

(***************************************************************************)
(* A swap thread prints "Too few elements in queue to swap" (main.c:91-95) *)
(* only when the list has fewer than three nodes; it never has.            *)
(***************************************************************************)
EnoughToSwap == \A t \in Swappers : pc[t] # "stopped"
=============================================================================
