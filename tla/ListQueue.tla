------------------------------ MODULE ListQueue ------------------------------
(***************************************************************************)
(* The linked-list queue that lab2/1 and the four queues of lab2/2 share:  *)
(* the bodies of queue_add and queue_get as they run between taking and    *)
(* giving back a lock, and the loops of the two threads that call them.    *)
(* The module says nothing about locking; UnsyncQueue, LockedQueue,        *)
(* CondQueue and SemQueue each add the code that surrounds                 *)
(* these bodies.  Line numbers are those of lab2/2/e-mutex.                *)
(*                                                                         *)
(* One action is one statement of the C code, and q->count++ and           *)
(* q->count--, on which both threads write, are a load and a store, as is  *)
(* q->first = q->first->next.  The other fields are written by one of the  *)
(* two threads only.  The program is built without optimisation, so every  *)
(* access of the source is an access of the machine.                       *)
(*                                                                         *)
(* The control state pc[t] of a thread names the statement it executes     *)
(* next.  "call" is the top of the thread's loop, "exit" the end of the    *)
(* body (what follows, such as an unlock, belongs to the extending         *)
(* module) and "return" the point in the loop where the call has returned. *)
(***************************************************************************)
EXTENDS Integers, Sequences, FiniteSets

CONSTANTS
    Nodes,       \* the memory cells malloc has for qnode_t
    NULL,
    Wild,        \* a pointer into nowhere: what free leaves in a dead node
    Capacities,  \* the arguments of queue_init
    Width,       \* the number of values an int has
    LongWidth    \* the number of values a long has

Threads == {"writer", "reader"}

ASSUME ListQueueAssumption ==
    /\ IsFiniteSet(Nodes)
    /\ NULL \notin Nodes \cup Threads
    /\ Wild \notin Nodes
    /\ NULL # Wild
    /\ Capacities \subseteq Nat
    /\ Width \in Nat \ {0}
    /\ LongWidth \in Nat \ {0}

VARIABLES
    q,      \* the queue_t
    heap,   \* the contents of the cells
    live,   \* the cells allocated and not freed
    pc,     \* control state of the two threads
    res,    \* what the running call is about to return
    w,      \* locals of writer and queue_add
    r,      \* locals of reader and queue_get
    fault   \* how the program has died, if it has

queueVars == <<q, heap, live, pc, res, w, r, fault>>

Pointers == Nodes \cup {NULL, Wild}

AddBody == {"add_attempts", "add_check", "add_malloc", "add_first",
            "add_append", "add_last", "add_load", "add_store", "add_count"}

GetBody == {"get_attempts", "get_check", "get_value", "get_next",
            "get_first", "get_free", "get_load", "get_store", "get_count"}

\* pc values of every variant of the queue
CommonPlaces == AddBody \cup GetBody \cup {"call", "exit", "return"}

Next_value(n) == (n + 1) % Width

Next_total(n) == (n + 1) % LongWidth

At(t, place) == fault = "none" /\ pc[t] = place

Goto(t, place) == pc' = [pc EXCEPT ![t] = place]

Finish(t, result) ==
    /\ res' = [res EXCEPT ![t] = result]
    /\ Goto(t, "exit")

\* First statement of the body that thread t calls.
Begin(t) == IF t = "writer" THEN "add_attempts" ELSE "get_attempts"

NoWriterLocals(i) == [i |-> i, new |-> NULL, reg |-> 0]

NoReaderLocals(expected) ==
    [expected |-> expected, val |-> 0, tmp |-> NULL, next |-> NULL, reg |-> 0]

\* queue_init, then main has started both threads.
QueueInit ==
    /\ \E m \in Capacities :
         q = [first |-> NULL, last |-> NULL, count |-> 0, max_count |-> m,
              add_attempts |-> 0, get_attempts |-> 0,
              add_count |-> 0, get_count |-> 0]
    /\ heap = [n \in Nodes |-> [val |-> 0, next |-> NULL]]
    /\ live = {}
    /\ pc = [t \in Threads |-> "call"]
    /\ res = [t \in Threads |-> "none"]
    /\ w = NoWriterLocals(0)
    /\ r = NoReaderLocals(0)
    /\ fault = "none"

-----------------------------------------------------------------------------
(* queue_add *)

\* q->add_attempts++
AddAttempts ==
    /\ At("writer", "add_attempts")
    /\ q' = [q EXCEPT !.add_attempts = Next_total(@)]
    /\ Goto("writer", "add_check")
    /\ UNCHANGED <<heap, live, res, w, r, fault>>

\* Faulty variant: the queue is taken to be full one node too late.
FullOneTooLate ==
    /\ At("writer", "add_check")
    /\ fault' = "none"
    /\ IF q.count > q.max_count
         THEN Finish("writer", "refused")
         ELSE Goto("writer", "add_malloc") /\ UNCHANGED res
    /\ UNCHANGED <<q, heap, live, w, r>>

\* assert(q->count <= q->max_count); if (q->count == q->max_count) return 0
AddCheck ==
    /\ At("writer", "add_check")
    /\ fault' = IF q.count > q.max_count THEN "assert" ELSE "none"
    /\ IF q.count = q.max_count
         THEN Finish("writer", "refused")
         ELSE Goto("writer", "add_malloc") /\ UNCHANGED res
    /\ UNCHANGED <<q, heap, live, w, r>>

\* new = malloc(..); new->val = val; new->next = NULL
AddMalloc ==
    /\ At("writer", "add_malloc")
    /\ \/ /\ live = Nodes
          /\ Finish("writer", "nomem")
          /\ UNCHANGED <<heap, live, w>>
       \/ \E n \in Nodes \ live :
            /\ live' = live \cup {n}
            /\ heap' = [heap EXCEPT ![n] = [val |-> w.i, next |-> NULL]]
            /\ w' = [w EXCEPT !.new = n]
            /\ Goto("writer", "add_first")
            /\ UNCHANGED res
    /\ UNCHANGED <<q, r, fault>>

\* Faulty variant: q->last, which dangles once the last node has been got, is
\* asked whether the queue is empty.
AddFirstIfNoLast ==
    /\ At("writer", "add_first")
    /\ IF q.last = NULL
         THEN /\ q' = [q EXCEPT !.first = w.new, !.last = w.new]
              /\ Goto("writer", "add_load")
         ELSE Goto("writer", "add_append") /\ UNCHANGED q
    /\ UNCHANGED <<heap, live, res, w, r, fault>>

\* if (!q->first) q->first = q->last = new.  One step even without a lock:
\* the reader writes first only when it is not NULL, and never touches last.
AddFirst ==
    /\ At("writer", "add_first")
    /\ IF q.first = NULL
         THEN /\ q' = [q EXCEPT !.first = w.new, !.last = w.new]
              /\ Goto("writer", "add_load")
         ELSE Goto("writer", "add_append") /\ UNCHANGED q
    /\ UNCHANGED <<heap, live, res, w, r, fault>>

\* else q->last->next = new
AddAppend ==
    /\ At("writer", "add_append")
    /\ IF q.last \in Nodes
         THEN /\ heap' = [heap EXCEPT ![q.last].next = w.new]
              /\ Goto("writer", "add_last")
              /\ UNCHANGED fault
         ELSE fault' = "segv" /\ UNCHANGED <<heap, pc>>
    /\ UNCHANGED <<q, live, res, w, r>>

\* q->last = q->last->next
AddLast ==
    /\ At("writer", "add_last")
    /\ q' = [q EXCEPT !.last = heap[q.last].next]
    /\ Goto("writer", "add_load")
    /\ UNCHANGED <<heap, live, res, w, r, fault>>

\* q->count++, the load
AddLoad ==
    /\ At("writer", "add_load")
    /\ w' = [w EXCEPT !.reg = q.count]
    /\ Goto("writer", "add_store")
    /\ UNCHANGED <<q, heap, live, res, r, fault>>

\* q->count++, the store
AddStore ==
    /\ At("writer", "add_store")
    /\ q' = [q EXCEPT !.count = w.reg + 1]
    /\ Goto("writer", "add_count")
    /\ UNCHANGED <<heap, live, res, w, r, fault>>

\* q->add_count++; return 1
AddCount ==
    /\ At("writer", "add_count")
    /\ q' = [q EXCEPT !.add_count = Next_total(@)]
    /\ Finish("writer", "done")
    /\ UNCHANGED <<heap, live, w, r, fault>>

queue_add ==
    \/ AddAttempts \/ AddCheck \/ AddMalloc \/ AddFirst \/ AddAppend
    \/ AddLast \/ AddLoad \/ AddStore \/ AddCount

-----------------------------------------------------------------------------
(* queue_get *)

\* q->get_attempts++
GetAttempts ==
    /\ At("reader", "get_attempts")
    /\ q' = [q EXCEPT !.get_attempts = Next_total(@)]
    /\ Goto("reader", "get_check")
    /\ UNCHANGED <<heap, live, res, w, r, fault>>

\* assert(q->count >= 0); if (q->count == 0) return 0
GetCheck ==
    /\ At("reader", "get_check")
    /\ fault' = IF q.count < 0 THEN "assert" ELSE "none"
    /\ IF q.count = 0
         THEN Finish("reader", "refused")
         ELSE Goto("reader", "get_value") /\ UNCHANGED res
    /\ UNCHANGED <<q, heap, live, w, r>>

\* Faulty variant: the value is taken from the other end.
ValueOfLast ==
    /\ At("reader", "get_value")
    /\ IF q.first \in Nodes
         THEN /\ r' = [r EXCEPT !.tmp = q.first,
                                !.val = IF q.last \in Nodes
                                        THEN heap[q.last].val ELSE 0]
              /\ Goto("reader", "get_next")
              /\ UNCHANGED fault
         ELSE fault' = "segv" /\ UNCHANGED <<r, pc>>
    /\ UNCHANGED <<q, heap, live, res, w>>

\* tmp = q->first; *val = tmp->val
GetValue ==
    /\ At("reader", "get_value")
    /\ IF q.first \in Nodes
         THEN /\ r' = [r EXCEPT !.tmp = q.first, !.val = heap[q.first].val]
              /\ Goto("reader", "get_next")
              /\ UNCHANGED fault
         ELSE fault' = "segv" /\ UNCHANGED <<r, pc>>
    /\ UNCHANGED <<q, heap, live, res, w>>

\* q->first = q->first->next, the load
GetNext ==
    /\ At("reader", "get_next")
    /\ r' = [r EXCEPT !.next = heap[q.first].next]
    /\ Goto("reader", "get_first")
    /\ UNCHANGED <<q, heap, live, res, w, fault>>

\* Faulty variant: the node that is freed next stays on the list.
NotUnlinked ==
    /\ At("reader", "get_first")
    /\ Goto("reader", "get_free")
    /\ UNCHANGED <<q, heap, live, res, w, r, fault>>

\* q->first = q->first->next, the store
GetFirst ==
    /\ At("reader", "get_first")
    /\ q' = [q EXCEPT !.first = r.next]
    /\ Goto("reader", "get_free")
    /\ UNCHANGED <<heap, live, res, w, r, fault>>

\* Faulty variant: the removed node is not freed.
NotFreed ==
    /\ At("reader", "get_free")
    /\ Goto("reader", "get_load")
    /\ UNCHANGED <<q, heap, live, res, w, r, fault>>

\* free(tmp): the allocator overwrites the first word of the cell and, if it
\* puts the cell into a thread's cache, the word that held next; freeing twice
\* aborts.
GetFree ==
    /\ At("reader", "get_free")
    /\ IF r.tmp \in live
         THEN /\ live' = live \ {r.tmp}
              /\ \E left \in {heap[r.tmp].next, Wild} :
                   heap' = [heap EXCEPT ![r.tmp] = [val |-> 0, next |-> left]]
              /\ Goto("reader", "get_load")
              /\ UNCHANGED fault
         ELSE fault' = "double_free" /\ UNCHANGED <<live, heap, pc>>
    /\ UNCHANGED <<q, res, w, r>>

\* q->count--, the load
GetLoad ==
    /\ At("reader", "get_load")
    /\ r' = [r EXCEPT !.reg = q.count]
    /\ Goto("reader", "get_store")
    /\ UNCHANGED <<q, heap, live, res, w, fault>>

\* Faulty variant: the removed node is counted down twice.
CountedTwice ==
    /\ At("reader", "get_store")
    /\ q' = [q EXCEPT !.count = r.reg - 2]
    /\ Goto("reader", "get_count")
    /\ UNCHANGED <<heap, live, res, w, r, fault>>

\* q->count--, the store
GetStore ==
    /\ At("reader", "get_store")
    /\ q' = [q EXCEPT !.count = r.reg - 1]
    /\ Goto("reader", "get_count")
    /\ UNCHANGED <<heap, live, res, w, r, fault>>

\* q->get_count++; return 1
GetCount ==
    /\ At("reader", "get_count")
    /\ q' = [q EXCEPT !.get_count = Next_total(@)]
    /\ Finish("reader", "done")
    /\ UNCHANGED <<heap, live, w, r, fault>>

queue_get ==
    \/ GetAttempts \/ GetCheck \/ GetValue \/ GetNext \/ GetFirst
    \/ GetFree \/ GetLoad \/ GetStore \/ GetCount

Body(t) == IF t = "writer" THEN queue_add ELSE queue_get

-----------------------------------------------------------------------------
(* The loops of the threads *)

\* writer: if (!ok) continue; i++.  A failed malloc has aborted the program.
Writer ==
    /\ At("writer", "return")
    /\ fault' = IF res["writer"] = "nomem" THEN "abort" ELSE "none"
    /\ w' = NoWriterLocals(IF res["writer"] = "done" THEN Next_value(w.i)
                           ELSE w.i)
    /\ res' = [res EXCEPT !["writer"] = "none"]
    /\ Goto("writer", "call")
    /\ UNCHANGED <<q, heap, live, r>>

\* reader: if (!ok) continue; report expected != val; expected = val + 1
Reader ==
    /\ At("reader", "return")
    /\ r' = NoReaderLocals(IF res["reader"] = "done" THEN Next_value(r.val)
                           ELSE r.expected)
    /\ res' = [res EXCEPT !["reader"] = "none"]
    /\ Goto("reader", "call")
    /\ UNCHANGED <<q, heap, live, w, fault>>

Loop(t) == IF t = "writer" THEN Writer ELSE Reader

-----------------------------------------------------------------------------
(* What the list holds *)

\* NodeAt[k] is the node k links away from q->first, NULL past the end.
NodeAt ==
    LET node[k \in 0 .. Cardinality(Nodes)] ==
          IF k = 0 THEN q.first
          ELSE LET before == node[k - 1]
               IN  IF before \in Nodes THEN heap[before].next ELSE NULL
    IN  node

Length == Cardinality({k \in DOMAIN NodeAt : NodeAt[k] \in Nodes})

\* The values in the list, first to last.
Contents == [k \in 1 .. Length |-> heap[NodeAt[k - 1]].val]

\* The writer has linked its node, the reader has unlinked its node, and the
\* call has not returned to the loop yet.
Linked ==
    \/ pc["writer"] \in {"add_last", "add_load", "add_store", "add_count"}
    \/ res["writer"] = "done"

Unlinked ==
    \/ pc["reader"] \in {"get_free", "get_load", "get_store", "get_count"}
    \/ res["reader"] = "done"

Abstract == INSTANCE Fifo WITH
    capacity <- q.max_count,
    buffer   <- Contents,
    written  <- IF Linked THEN Next_value(w.i) ELSE w.i,
    expected <- IF Unlinked THEN Next_value(r.val) ELSE r.expected

(***************************************************************************)
(* The list is a first-in first-out buffer of bounded size: the statements *)
(* of queue_add and queue_get (queue.c:137-199), interleaved as the        *)
(* variant's locking allows, put and get values one at a time and in       *)
(* order, nothing is lost, duplicated or put beyond the capacity.          *)
(***************************************************************************)
ImplementsFifo == Abstract!Spec

-----------------------------------------------------------------------------
Ints == 0 .. Width - 1

Totals == 0 .. LongWidth - 1

Queues ==
    [first : Pointers, last : Pointers, count : Nat, max_count : Nat,
     add_attempts : Totals, get_attempts : Totals,
     add_count : Totals, get_count : Totals]

Cells == [val : Ints, next : Pointers]

Results == {"none", "refused", "done", "nomem"}

WriterLocals == [i : Ints, new : Nodes \cup {NULL}, reg : Int]

ReaderLocals ==
    [expected : Ints, val : Ints, tmp : Nodes \cup {NULL},
     next : Pointers, reg : Int]

Faults == {"none", "assert", "abort", "segv", "double_free"}

QueueTypeOK(places) ==
    /\ q \in Queues
    /\ heap \in [Nodes -> Cells]
    /\ live \subseteq Nodes
    /\ pc \in [Threads -> places]
    /\ res \in [Threads -> Results]
    /\ w \in WriterLocals
    /\ r \in ReaderLocals
    /\ fault \in Faults

\* No thread is in the middle of a body.
Quiet == \A t \in Threads : pc[t] \notin AddBody \cup GetBody

(***************************************************************************)
(* Whenever no thread is inside a body the queue is in order: exactly the  *)
(* nodes on the list are allocated (no leak, no dangling link), q->count   *)
(* and the difference of the two success counters are its length, q->last  *)
(* is its last node (it may dangle only while the list is empty,           *)
(* queue.c:161-167 and 191).                                               *)
(***************************************************************************)
Consistent ==
    Quiet =>
        /\ live = {NodeAt[k] : k \in 0 .. Length - 1}
        /\ q.count = Length
        /\ (q.add_count - q.get_count) % LongWidth = Length % LongWidth
        /\ Length > 0 => q.last = NodeAt[Length - 1]

(***************************************************************************)
(* q->count stays within its bounds, so that the assertions of queue_add   *)
(* and queue_get (queue.c:142, 180) hold at whatever moment they read it,  *)
(* even where no lock keeps updates of the count from being lost.          *)
(***************************************************************************)
CountInRange == q.count \in 0 .. q.max_count /\ fault # "assert"

(***************************************************************************)
(* queue_add and queue_get touch no pointer that is not a node and free no *)
(* node twice: in particular queue_get, having seen count > 0, finds a     *)
(* first node (queue.c:182-193).                                           *)
(***************************************************************************)
MemorySafe == fault \notin {"segv", "double_free"}

(***************************************************************************)
(* Every node that queue_add and queue_get read, write or free is          *)
(* allocated at that moment.  In particular queue_add never links a node   *)
(* behind q->last once that has been freed, although q->last keeps         *)
(* pointing there while the queue is empty (queue.c:161-167), and          *)
(* queue_get, having seen count > 0, finds an allocated first node         *)
(* (queue.c:182-193).  Following a freed node is no fault in the model,    *)
(* since the cell is still there: this is more than MemorySafe.            *)
(***************************************************************************)
TouchesAllocated ==
    /\ MemorySafe
    /\ pc["writer"] \in {"add_append", "add_last"} => q.last \in live
    /\ pc["reader"] \in {"get_value", "get_next"} => q.first \in live
    /\ pc["reader"] = "get_free" => r.tmp \in live

(***************************************************************************)
(* The reader's own test (queue-threads.c:44): a value it gets is the one  *)
(* it expects, so that "ERROR: get value is .. but expected" is never      *)
(* printed.                                                                *)
(***************************************************************************)
ReadsInSequence ==
    pc["reader"] = "return" /\ res["reader"] = "done" => r.val = r.expected

-----------------------------------------------------------------------------
(* What is left of this where nothing excludes the bodies from each other *)

\* Types of the queue without a lock (lab2/1/queue.c).
CommonTypeOK == QueueTypeOK(CommonPlaces)

(***************************************************************************)
(* Whatever the races, the reader dereferences q->first only when it is a  *)
(* node that is still allocated, or NULL (lab2/1/queue.c:106-109), and no  *)
(* node is freed twice (queue.c:111): stale links stay behind q->last.     *)
(***************************************************************************)
FirstNeverDangles ==
    /\ fault # "double_free"
    /\ pc["reader"] \in {"get_value", "get_next"} =>
         q.first \in live \cup {NULL}

\* Cells allocated and neither on the list nor in the hands of a thread.
Leaked ==
    live \ ({NodeAt[k] : k \in DOMAIN NodeAt}
             \cup (IF pc["writer"] \in {"add_first", "add_append", "add_last"}
                     THEN {w.new} ELSE {}))

(***************************************************************************)
(* The reader never gets a value twice or late: when the value is not the  *)
(* expected one (lab2/1/queue-threads.c:48), values have been skipped, and *)
(* no more of them than there are nodes that queue_get has cut off and     *)
(* that nobody will free (lab2/1/queue.c:88 against 109).                  *)
(***************************************************************************)
SkippedValuesLeak ==
    pc["reader"] = "return" /\ res["reader"] = "done" =>
        (r.val - r.expected) % Width <= Cardinality(Leaked)
=============================================================================
