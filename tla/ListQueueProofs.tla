--------------------------- MODULE ListQueueProofs ---------------------------
(***************************************************************************)
(* Facts about the statements of ListQueue that serve every variant of the *)
(* queue.  QueueInv holds whatever surrounds the bodies: the types, and    *)
(* what a thread knows of the list and of q->count at its place in a body. *)
(* ListInv holds where the bodies exclude each other: the nodes are linked *)
(* in a row, they are the allocated ones, q->count is their number and     *)
(* their values follow each other.  From it follows what the operators say *)
(* that read the list along its links, and that each statement is a step   *)
(* of Fifo or none.  SingleLinks is what is left of the list where nothing *)
(* excludes the bodies.                                                    *)
(***************************************************************************)
EXTENDS ListQueue, FiniteSetTheorems, SequenceTheorems, TLAPS

\* The pointer a thread has tested still points to a cell when it is used:
\* only the writer assigns q->last, and it assigns q->first only if that is
\* NULL.
Tested ==
    /\ pc["writer"] = "add_last" => q.last \in Nodes
    /\ pc["reader"] = "get_next" => q.first \in Nodes

\* What the test of q->count is worth later in the body.  The other thread
\* moves the count away from the bound that was tested, and a stale count
\* that is stored has passed the same test.
Bounded ==
    /\ q.count \in 0 .. q.max_count
    /\ pc["writer"] \in {"add_malloc", "add_first", "add_append", "add_last",
                         "add_load"} => q.count < q.max_count
    /\ pc["writer"] = "add_store" => w.reg \in 0 .. q.max_count - 1
    /\ pc["reader"] \in {"get_value", "get_next", "get_first", "get_free",
                         "get_load"} => q.count > 0
    /\ pc["reader"] = "get_store" => r.reg \in 1 .. q.max_count
    /\ fault # "assert"

QueueInv(places) == QueueTypeOK(places) /\ Tested /\ Bounded

\* Integers wrap around within their types.
LEMMA WrapAround ==
  /\ \A n \in Ints : Next_value(n) \in Ints
  /\ \A n \in Totals : Next_total(n) \in Totals
  BY ListQueueAssumption DEF Next_value, Next_total, Ints, Totals

\* Zero is a value of both integer types.
LEMMA Zero == 0 \in Ints /\ 0 \in Totals
  BY ListQueueAssumption DEF Ints, Totals

\* queue_init returns a queue in order.
LEMMA QueueInitInv ==
  ASSUME NEW places, CommonPlaces \subseteq places, QueueInit
  PROVE  QueueInv(places)
  BY ListQueueAssumption, Zero
  DEF QueueInit, QueueInv, QueueTypeOK, Tested, Bounded, Queues, Cells, Results,
      WriterLocals, ReaderLocals, Faults, Pointers, Threads, CommonPlaces,
      NoWriterLocals, NoReaderLocals

\* Parts of the types that the steps below use one by one.
LEMMA Fields ==
  ASSUME NEW places, QueueTypeOK(places)
  PROVE  /\ q.add_attempts \in Totals /\ q.get_attempts \in Totals
         /\ q.add_count \in Totals /\ q.get_count \in Totals
         /\ w.i \in Ints /\ r.val \in Ints /\ r.expected \in Ints
         /\ \A n \in Nodes : heap[n].val \in Ints /\ heap[n].next \in Pointers
  BY DEF QueueTypeOK, Queues, WriterLocals, ReaderLocals, Cells

(***************************************************************************)
(* Every statement of queue_add (queue.c:137-173) keeps the queue in       *)
(* order, whatever the other thread has done since the previous one.       *)
(***************************************************************************)
LEMMA AddKeepsOrder ==
  ASSUME NEW places, CommonPlaces \subseteq places, QueueInv(places), queue_add
  PROVE  QueueInv(places)'
<1> USE DEF QueueInv, QueueTypeOK, Queues, WriterLocals, ReaderLocals, Results,
            Faults, Pointers, At, Goto, Finish, Threads, CommonPlaces, AddBody,
            GetBody
<1>1. CASE AddAttempts
  <2>1. QueueTypeOK(places)'
    BY <1>1, Fields, WrapAround DEF AddAttempts
  <2>2. Tested' /\ Bounded'
    BY <1>1 DEF AddAttempts, Tested, Bounded
  <2> QED
    BY <2>1, <2>2
<1>2. CASE AddCheck
  <2>1. QueueTypeOK(places)'
    BY <1>2, Fields DEF AddCheck
  <2>2. Tested' /\ Bounded'
    BY <1>2 DEF AddCheck, Tested, Bounded
  <2> QED
    BY <2>1, <2>2
<1>3. CASE AddMalloc
  <2>1. QueueTypeOK(places)'
    BY <1>3, Fields DEF AddMalloc, Cells
  <2>2. Tested' /\ Bounded'
    BY <1>3 DEF AddMalloc, Tested, Bounded
  <2> QED
    BY <2>1, <2>2
<1>4. CASE AddFirst
  <2>0. /\ w.new \in Nodes \cup {NULL}
        /\ UNCHANGED <<heap, live, res, w, r, fault>>
    BY <1>4 DEF AddFirst
  <2>1. QueueTypeOK(places)'
    <3>1. CASE q.first = NULL
      <4>1. q' = [q EXCEPT !.first = w.new, !.last = w.new]
        BY <1>4, <3>1 DEF AddFirst
      <4>2. q' \in Queues
        BY <2>0, <4>1, Fields
      <4>3. pc' \in [Threads -> places]
        BY <1>4, <3>1 DEF AddFirst
      <4> QED
        BY <2>0, <4>2, <4>3
    <3>2. CASE q.first # NULL
      <4>1. q' = q /\ pc' \in [Threads -> places]
        BY <1>4, <3>2 DEF AddFirst
      <4> QED
        BY <2>0, <4>1
    <3> QED
      BY <3>1, <3>2
  <2>2. Tested' /\ Bounded'
    <3>1. /\ q'.count = q.count /\ q'.max_count = q.max_count
          /\ pc["writer"] = "add_first"
          /\ \/ pc' = [pc EXCEPT !["writer"] = "add_load"]
             \/ pc' = [pc EXCEPT !["writer"] = "add_append"]
      BY <1>4 DEF AddFirst
    <3>2. pc["reader"] = "get_next" => q'.first = q.first
      BY <1>4, ListQueueAssumption DEF AddFirst, Tested
    <3>3. Tested'
      BY <3>1, <3>2 DEF Tested
    <3>4. Bounded'
      BY <2>0, <3>1 DEF Bounded
    <3> QED
      BY <3>3, <3>4
  <2> QED
    BY <2>1, <2>2
<1>5. CASE AddAppend
  <2>0. UNCHANGED <<q, live, res, w, r>>
    BY <1>5 DEF AddAppend
  <2>1. QueueTypeOK(places)'
    <3>1. CASE q.last \in Nodes
      <4>1. heap' = [heap EXCEPT ![q.last].next = w.new] /\ UNCHANGED fault
        BY <1>5, <3>1 DEF AddAppend
      <4>2. heap' \in [Nodes -> Cells]
        BY <3>1, <4>1, Fields DEF Cells
      <4>3. pc' \in [Threads -> places]
        BY <1>5, <3>1 DEF AddAppend
      <4> QED
        BY <2>0, <4>1, <4>2, <4>3
    <3>2. CASE q.last \notin Nodes
      <4>1. fault' = "segv" /\ UNCHANGED <<heap, pc>>
        BY <1>5, <3>2 DEF AddAppend
      <4> QED
        BY <2>0, <4>1
    <3> QED
      BY <3>1, <3>2
  <2>2. Tested' /\ Bounded'
    BY <1>5 DEF AddAppend, Tested, Bounded
  <2> QED
    BY <2>1, <2>2
<1>6. CASE AddLast
  <2>1. QueueTypeOK(places)'
    BY <1>6, Fields DEF AddLast, Tested
  <2>2. Tested' /\ Bounded'
    BY <1>6 DEF AddLast, Tested, Bounded
  <2> QED
    BY <2>1, <2>2
<1>7. CASE AddLoad
  <2>1. QueueTypeOK(places)'
    BY <1>7, Fields DEF AddLoad
  <2>2. Tested' /\ Bounded'
    BY <1>7 DEF AddLoad, Tested, Bounded
  <2> QED
    BY <2>1, <2>2
<1>8. CASE AddStore
  <2>1. QueueTypeOK(places)'
    BY <1>8, Fields DEF AddStore, Bounded
  <2>2. Tested' /\ Bounded'
    BY <1>8 DEF AddStore, Tested, Bounded
  <2> QED
    BY <2>1, <2>2
<1>9. CASE AddCount
  <2>1. QueueTypeOK(places)'
    BY <1>9, Fields, WrapAround DEF AddCount
  <2>2. Tested' /\ Bounded'
    BY <1>9 DEF AddCount, Tested, Bounded
  <2> QED
    BY <2>1, <2>2
<1> QED
  BY <1>1, <1>2, <1>3, <1>4, <1>5, <1>6, <1>7, <1>8, <1>9 DEF queue_add

(***************************************************************************)
(* Every statement of queue_get (queue.c:175-199) keeps the queue in       *)
(* order, whatever the other thread has done since the previous one.       *)
(***************************************************************************)
LEMMA GetKeepsOrder ==
  ASSUME NEW places, CommonPlaces \subseteq places, QueueInv(places), queue_get
  PROVE  QueueInv(places)'
<1> USE DEF QueueInv, QueueTypeOK, Queues, WriterLocals, ReaderLocals, Results,
            Faults, Pointers, At, Goto, Finish, Threads, CommonPlaces, AddBody,
            GetBody
<1>1. CASE GetAttempts
  <2>1. QueueTypeOK(places)'
    BY <1>1, Fields, WrapAround DEF GetAttempts
  <2>2. Tested' /\ Bounded'
    BY <1>1 DEF GetAttempts, Tested, Bounded
  <2> QED
    BY <2>1, <2>2
<1>2. CASE GetCheck
  <2>1. QueueTypeOK(places)'
    BY <1>2, Fields DEF GetCheck
  <2>2. Tested' /\ Bounded'
    BY <1>2 DEF GetCheck, Tested, Bounded
  <2> QED
    BY <2>1, <2>2
<1>3. CASE GetValue
  <2>0. UNCHANGED <<q, heap, live, res, w>>
    BY <1>3 DEF GetValue
  <2>1. QueueTypeOK(places)'
    <3>1. CASE q.first \in Nodes
      <4>1. /\ r' = [r EXCEPT !.tmp = q.first, !.val = heap[q.first].val]
            /\ UNCHANGED fault
        BY <1>3, <3>1 DEF GetValue
      <4>2. r' \in ReaderLocals
        BY <3>1, <4>1, Fields
      <4>3. pc' \in [Threads -> places]
        BY <1>3, <3>1 DEF GetValue
      <4> QED
        BY <2>0, <4>1, <4>2, <4>3
    <3>2. CASE q.first \notin Nodes
      <4>1. fault' = "segv" /\ UNCHANGED <<r, pc>>
        BY <1>3, <3>2 DEF GetValue
      <4> QED
        BY <2>0, <4>1
    <3> QED
      BY <3>1, <3>2
  <2>2. Tested' /\ Bounded'
    BY <1>3 DEF GetValue, Tested, Bounded
  <2> QED
    BY <2>1, <2>2
<1>4. CASE GetNext
  <2>1. QueueTypeOK(places)'
    BY <1>4, Fields DEF GetNext, Tested
  <2>2. Tested' /\ Bounded'
    BY <1>4 DEF GetNext, Tested, Bounded
  <2> QED
    BY <2>1, <2>2
<1>5. CASE GetFirst
  <2>1. QueueTypeOK(places)'
    BY <1>5, Fields DEF GetFirst
  <2>2. Tested' /\ Bounded'
    BY <1>5 DEF GetFirst, Tested, Bounded
  <2> QED
    BY <2>1, <2>2
<1>6. CASE GetFree
  <2>1. QueueTypeOK(places)'
    BY <1>6, Fields, Zero DEF GetFree, Cells
  <2>2. Tested' /\ Bounded'
    BY <1>6 DEF GetFree, Tested, Bounded
  <2> QED
    BY <2>1, <2>2
<1>7. CASE GetLoad
  <2>1. QueueTypeOK(places)'
    BY <1>7, Fields DEF GetLoad
  <2>2. Tested' /\ Bounded'
    BY <1>7 DEF GetLoad, Tested, Bounded
  <2> QED
    BY <2>1, <2>2
<1>8. CASE GetStore
  <2>1. QueueTypeOK(places)'
    BY <1>8, Fields DEF GetStore, Bounded
  <2>2. Tested' /\ Bounded'
    BY <1>8 DEF GetStore, Tested, Bounded
  <2> QED
    BY <2>1, <2>2
<1>9. CASE GetCount
  <2>1. QueueTypeOK(places)'
    BY <1>9, Fields, WrapAround DEF GetCount
  <2>2. Tested' /\ Bounded'
    BY <1>9 DEF GetCount, Tested, Bounded
  <2> QED
    BY <2>1, <2>2
<1> QED
  BY <1>1, <1>2, <1>3, <1>4, <1>5, <1>6, <1>7, <1>8, <1>9 DEF queue_get

\* The loops of the threads (queue-threads.c:31-68) keep it in order.
LEMMA LoopKeepsOrder ==
  ASSUME NEW places, CommonPlaces \subseteq places, QueueInv(places),
         Writer \/ Reader
  PROVE  QueueInv(places)'
<1> USE DEF QueueInv, QueueTypeOK, Tested, Bounded, At, Goto, Threads,
            CommonPlaces, AddBody, GetBody, Results, Faults
<1>1. CASE Writer
  BY <1>1, Fields, WrapAround DEF Writer, NoWriterLocals, WriterLocals
<1>2. CASE Reader
  BY <1>2, Fields, WrapAround, Zero
  DEF Reader, NoReaderLocals, ReaderLocals, Pointers
<1> QED
  BY <1>1, <1>2

\* Bodies and loops together, for the variants of the queue.
LEMMA RunKeepsOrder ==
  ASSUME NEW places, CommonPlaces \subseteq places, QueueInv(places),
         NEW t \in Threads, Body(t) \/ Loop(t)
  PROVE  QueueInv(places)'
  BY AddKeepsOrder, GetKeepsOrder, LoopKeepsOrder DEF Threads, Body, Loop

-----------------------------------------------------------------------------
(* The list when the bodies exclude each other *)

One(condition) == IF condition THEN 1 ELSE 0

\* The node a thread has in its hands: allocated, but not on the list.
InHand(n) ==
    \/ pc["writer"] \in {"add_first", "add_append"} /\ n = w.new
    \/ pc["reader"] = "get_free" /\ n = r.tmp

\* The nodes s[lo], .., s[hi - 1] are linked in this order.
Chained(s, lo, hi) ==
    /\ lo <= hi /\ s[hi] = NULL /\ q.first = s[lo]
    /\ \A i \in lo .. hi - 1 : s[i] \in Nodes /\ heap[s[i]].next = s[i + 1]
    /\ \A i, j \in lo .. hi - 1 : s[i] = s[j] => i = j
    /\ pc["writer"] = "add_last" => hi >= lo + 2 /\ q.last = s[hi - 2]
    /\ pc["writer"] # "add_last" /\ lo < hi => q.last = s[hi - 1]

\* Allocated are these nodes and the one in hand.
Allocated(s, lo, hi) ==
    /\ \A n \in live : InHand(n) \/ \E i \in lo .. hi - 1 : n = s[i]
    /\ \A i \in lo .. hi - 1 : s[i] \in live /\ ~InHand(s[i])
    /\ pc["writer"] \in {"add_first", "add_append"} => w.new \in live
    /\ pc["reader"] = "get_free" => r.tmp \in live

\* q->count is their number but for the node that is being put or got.
Counted(s, lo, hi) ==
    /\ q.count =
         hi - lo - One(pc["writer"] \in {"add_last", "add_load", "add_store"})
                 + One(pc["reader"] \in {"get_free", "get_load", "get_store"})
    /\ pc["writer"] = "add_store" => w.reg = q.count
    /\ pc["reader"] = "get_store" => r.reg = q.count

\* What the locals say of them.
Remembered(s, lo, hi) ==
    /\ pc["writer"] \in {"add_first", "add_append"} =>
         heap[w.new] = [val |-> w.i, next |-> NULL]
    /\ pc["writer"] = "add_append" => lo < hi
    /\ pc["reader"] \in {"get_next", "get_first"} => r.tmp = s[lo] /\ lo < hi
    /\ pc["reader"] = "get_first" => r.next = s[lo + 1]

\* The value the reader expects next, and the value the writer puts next
Awaited == IF Unlinked THEN Next_value(r.val) ELSE r.expected

Upcoming == IF Linked THEN Next_value(w.i) ELSE w.i

\* The values on the list lead from the one to the other.
Valued(s, lo, hi) ==
    /\ \A i \in lo .. hi - 1 :
         /\ i = lo => heap[s[i]].val = Awaited
         /\ i > lo => heap[s[i]].val = Next_value(heap[s[i - 1]].val)
    /\ lo = hi => Upcoming = Awaited
    /\ lo < hi => Upcoming = Next_value(heap[s[hi - 1]].val)

\* A value that has been got is the one that was expected.
AsExpected ==
    pc["reader"] \in {"get_next", "get_first"} \/ Unlinked =>
        r.val = r.expected

\* A result is there when the body is over.
ResultsLate ==
    /\ pc["writer"] \in AddBody \cup GetBody => res["writer"] = "none"
    /\ pc["reader"] \in AddBody \cup GetBody => res["reader"] = "none"

\* The nodes are a list, whatever their values are.
Shape(s, lo, hi) ==
    /\ Chained(s, lo, hi)
    /\ Allocated(s, lo, hi)
    /\ Counted(s, lo, hi)
    /\ Remembered(s, lo, hi)
    /\ MemorySafe

\* Their values are those of a queue that the loops of the threads fill and
\* empty.
Orderly(s, lo, hi) == Valued(s, lo, hi) /\ AsExpected /\ ResultsLate

ListIs(s, lo, hi) == Shape(s, lo, hi) /\ Orderly(s, lo, hi)

\* Some nodes are the list.  The indices never go down, so that getting a
\* node leaves s alone.
ListInv ==
    \E s \in [Nat -> Nodes \cup {NULL}], lo \in Nat, hi \in Nat :
        ListIs(s, lo, hi)

\* A step leaves a list, and one in order if it was.
KeepsList(s, lo, hi) ==
    \E z \in [Nat -> Nodes \cup {NULL}], l \in Nat, k \in Nat :
        Shape(z, l, k)' /\ (Orderly(s, lo, hi) => Orderly(z, l, k)')

\* z is s with a node more at place hi.
Longer(z, s, hi, n) ==
    /\ z[hi] = n /\ z[hi + 1] = NULL
    /\ \A i \in Nat : i < hi => z[i] = s[i]

\* There is such a sequence.
LEMMA LongerExists ==
  ASSUME NEW s \in [Nat -> Nodes \cup {NULL}], NEW hi \in Nat,
         NEW n \in Nodes \cup {NULL}
  PROVE  \E z \in [Nat -> Nodes \cup {NULL}] : Longer(z, s, hi, n)
<1> DEFINE z == [i \in Nat |-> IF i = hi THEN n
                               ELSE IF i = hi + 1 THEN NULL ELSE s[i]]
<1>1. z \in [Nat -> Nodes \cup {NULL}] /\ Longer(z, s, hi, n)
  BY DEF Longer
<1> QED
  BY <1>1

(***************************************************************************)
(* Every statement of queue_add (queue.c:137-173) keeps the list a list    *)
(* while the reader is outside its body.  A new node is linked when the    *)
(* first pointer or the last node's link is assigned.                      *)
(***************************************************************************)
LEMMA AddKeepsShape ==
  ASSUME NEW places, QueueInv(places), queue_add,
         NEW s \in [Nat -> Nodes \cup {NULL}], NEW lo \in Nat, NEW hi \in Nat,
         Shape(s, lo, hi), pc["reader"] \notin GetBody
  PROVE  KeepsList(s, lo, hi)
<1> USE DEF QueueInv, QueueTypeOK, At, Goto, Finish, Threads, AddBody, GetBody,
            Shape, Orderly, ResultsLate, AsExpected, MemorySafe, One, InHand,
            Linked, Unlinked
<1>0. /\ q \in Queues /\ w \in WriterLocals /\ r \in ReaderLocals
      /\ heap \in [Nodes -> Cells] /\ \A i \in Nat : s[i] \in Nodes \cup {NULL}
  OBVIOUS
<1>1. CASE AddAttempts
  <2>1. Chained(s, lo, hi)' /\ Allocated(s, lo, hi)'
    BY <1>1 DEF AddAttempts, Chained, Allocated
  <2>2. Counted(s, lo, hi)' /\ Remembered(s, lo, hi)'
    BY <1>1 DEF AddAttempts, Counted, Remembered
  <2>3. MemorySafe'
    BY <1>1 DEF AddAttempts
  <2>4. Orderly(s, lo, hi) => Orderly(s, lo, hi)'
    BY <1>1 DEF AddAttempts, Valued, Awaited, Upcoming
  <2> QED
    BY <2>1, <2>2, <2>3, <2>4 DEF KeepsList
<1>2. CASE AddCheck
  <2>1. Chained(s, lo, hi)' /\ Allocated(s, lo, hi)'
    BY <1>2 DEF AddCheck, Chained, Allocated
  <2>2. Counted(s, lo, hi)' /\ Remembered(s, lo, hi)'
    BY <1>2 DEF AddCheck, Counted, Remembered
  <2>3. MemorySafe'
    BY <1>2 DEF AddCheck
  <2>4. Orderly(s, lo, hi) => Orderly(s, lo, hi)'
    BY <1>2 DEF AddCheck, Valued, Awaited, Upcoming
  <2> QED
    BY <2>1, <2>2, <2>3, <2>4 DEF KeepsList
<1>3. CASE AddMalloc
  <2>1. CASE UNCHANGED <<heap, live, w>> /\ Finish("writer", "nomem")
    <3>1. Chained(s, lo, hi)' /\ Allocated(s, lo, hi)'
      BY <1>3, <2>1 DEF AddMalloc, Chained, Allocated
    <3>2. Counted(s, lo, hi)' /\ Remembered(s, lo, hi)'
      BY <1>3, <2>1 DEF AddMalloc, Counted, Remembered
    <3>3. Orderly(s, lo, hi) => Valued(s, lo, hi)'
      BY <1>3, <2>1 DEF AddMalloc, Valued, Awaited, Upcoming
    <3>4. MemorySafe' /\ (Orderly(s, lo, hi) => AsExpected' /\ ResultsLate')
      BY <1>3, <2>1 DEF AddMalloc
    <3> QED
      BY <3>1, <3>2, <3>3, <3>4 DEF KeepsList
  <2>2. ASSUME NEW n \in Nodes \ live,
               live' = live \cup {n},
               heap' = [heap EXCEPT ![n] = [val |-> w.i, next |-> NULL]],
               w' = [w EXCEPT !.new = n],
               Goto("writer", "add_first"), UNCHANGED res
        PROVE  KeepsList(s, lo, hi)
    <3>0. /\ UNCHANGED <<q, r, fault>> /\ pc["writer"] = "add_malloc"
          /\ w'.new = n /\ w'.i = w.i
          /\ heap'[n] = [val |-> w.i, next |-> NULL]
          /\ \A i \in lo .. hi - 1 : s[i] # n /\ heap'[s[i]] = heap[s[i]]
      BY <1>3, <2>2 DEF AddMalloc, Chained, Allocated, WriterLocals
    <3>1. Chained(s, lo, hi)'
      BY <2>2, <3>0 DEF Chained
    <3>2. Allocated(s, lo, hi)'
      BY <2>2, <3>0 DEF Allocated
    <3>3. Counted(s, lo, hi)' /\ Remembered(s, lo, hi)'
      BY <2>2, <3>0 DEF Counted, Remembered
    <3>4. Orderly(s, lo, hi) => Valued(s, lo, hi)'
      BY <2>2, <3>0 DEF Valued, Chained, Awaited, Upcoming
    <3>5. MemorySafe' /\ (Orderly(s, lo, hi) => AsExpected' /\ ResultsLate')
      BY <2>2, <3>0
    <3> QED
      BY <3>1, <3>2, <3>3, <3>4, <3>5 DEF KeepsList
  <2> QED
    BY <1>3, <2>1, <2>2 DEF AddMalloc
<1>4. CASE AddFirst
  <2>1. CASE q.first # NULL
    <3>0. lo < hi /\ UNCHANGED q
      BY <1>4, <2>1 DEF AddFirst, Chained
    <3>1. Chained(s, lo, hi)' /\ Allocated(s, lo, hi)'
      BY <1>4, <2>1, <3>0 DEF AddFirst, Chained, Allocated
    <3>2. Counted(s, lo, hi)' /\ Remembered(s, lo, hi)'
      BY <1>4, <2>1, <3>0 DEF AddFirst, Counted, Remembered
    <3>3. Orderly(s, lo, hi) => Valued(s, lo, hi)'
      BY <1>4, <2>1, <3>0 DEF AddFirst, Valued, Awaited, Upcoming
    <3>4. MemorySafe' /\ (Orderly(s, lo, hi) => AsExpected' /\ ResultsLate')
      BY <1>4, <2>1 DEF AddFirst
    <3> QED
      BY <3>1, <3>2, <3>3, <3>4 DEF KeepsList
  <2>2. CASE q.first = NULL
    <3>0. /\ lo = hi
          /\ q'.first = w.new /\ q'.last = w.new /\ q'.count = q.count
          /\ pc' = [pc EXCEPT !["writer"] = "add_load"]
          /\ UNCHANGED <<heap, live, res, w, r, fault>>
          /\ pc["writer"] = "add_first"
      <4>1. lo = hi
        <5>1. lo < hi => lo \in lo .. hi - 1
          OBVIOUS
        <5>2. ~(lo < hi)
          BY <2>2, <5>1, ListQueueAssumption DEF Chained
        <5> QED
          BY <5>2 DEF Chained
      <4>2. q' = [q EXCEPT !.first = w.new, !.last = w.new]
        BY <1>4, <2>2 DEF AddFirst
      <4> QED
        BY <1>4, <1>0, <2>2, <4>1, <4>2 DEF AddFirst, Queues
    <3>1. PICK z \in [Nat -> Nodes \cup {NULL}] :
            Longer(z, s, hi, w.new)
      BY <1>0, LongerExists DEF WriterLocals
    <3> USE DEF Longer
    <3>2. Chained(z, lo, hi + 1)'
      BY <3>0, <3>1, <1>0 DEF Chained, Remembered, Allocated
    <3>3. Allocated(z, lo, hi + 1)'
      BY <3>0, <3>1, <1>0 DEF Allocated
    <3>4. Counted(z, lo, hi + 1)' /\ Remembered(z, lo, hi + 1)'
      BY <3>0, <3>1, <1>0 DEF Counted, Remembered, Queues
    <3>5. Orderly(s, lo, hi) => Valued(z, lo, hi + 1)'
      BY <3>0, <3>1, <1>0 DEF Valued, Remembered, Awaited, Upcoming
    <3>6. MemorySafe' /\ (Orderly(s, lo, hi) => AsExpected' /\ ResultsLate')
      BY <3>0
    <3> QED
      BY <3>2, <3>3, <3>4, <3>5, <3>6 DEF KeepsList
  <2> QED
    BY <2>1, <2>2
<1>5. CASE AddAppend
  <2>0. /\ lo < hi /\ q.last = s[hi - 1] /\ q.last \in Nodes
        /\ w.new \in Nodes /\ w.new # q.last
        /\ pc["writer"] = "add_append"
    BY <1>5, <1>0 DEF AddAppend, Chained, Remembered, Allocated
  <2>1. /\ heap' = [heap EXCEPT ![q.last].next = w.new]
        /\ pc' = [pc EXCEPT !["writer"] = "add_last"]
        /\ UNCHANGED <<q, live, res, w, r, fault>>
    BY <1>5, <2>0 DEF AddAppend
  <2>2. PICK z \in [Nat -> Nodes \cup {NULL}] : Longer(z, s, hi, w.new)
    BY <1>0, LongerExists DEF WriterLocals
  <2>3. /\ heap'[s[hi - 1]].next = w.new
        /\ \A n \in Nodes : heap'[n].val = heap[n].val
        /\ \A n \in Nodes : n # s[hi - 1] => heap'[n] = heap[n]
        /\ heap'[w.new] = [val |-> w.i, next |-> NULL]
    BY <1>0, <2>0, <2>1 DEF Cells, Remembered
  <2>4. Chained(z, lo, hi + 1)'
    <3>1. \A i \in lo .. hi - 1 : s[i] # w.new
      BY <2>0 DEF Allocated
    <3>2. \A i \in lo .. hi - 1 : i # hi - 1 => s[i] # s[hi - 1]
      BY <2>0 DEF Chained
    <3>3. \A i \in lo .. hi :
            z[i] \in Nodes /\ heap'[z[i]].next = z[i + 1]
      <4> SUFFICES ASSUME NEW i \in lo .. hi
                   PROVE  z[i] \in Nodes /\ heap'[z[i]].next = z[i + 1]
        OBVIOUS
      <4>1. CASE i < hi - 1
        <5>1. i \in lo .. hi - 1 /\ z[i] = s[i] /\ z[i + 1] = s[i + 1]
          BY <2>2, <4>1 DEF Longer
        <5> QED
          BY <2>3, <3>2, <4>1, <5>1 DEF Chained
      <4>2. CASE i = hi - 1
        BY <2>0, <2>2, <2>3, <4>2 DEF Chained, Longer
      <4>3. CASE i = hi
        BY <2>0, <2>2, <2>3, <4>3 DEF Longer
      <4> QED
        BY <4>1, <4>2, <4>3
    <3>4. \A i, j \in lo .. hi : z[i] = z[j] => i = j
      BY <2>2, <3>1 DEF Chained, Longer
    <3>5. /\ lo <= hi + 1 /\ z[hi + 1] = NULL /\ q'.first = z[lo]
          /\ hi + 1 >= lo + 2 /\ q'.last = z[hi - 1]
      BY <2>0, <2>1, <2>2 DEF Chained, Longer
    <3> QED
      BY <2>1, <3>3, <3>4, <3>5 DEF Chained
  <2>5. Allocated(z, lo, hi + 1)'
    <3>1. live' = live /\ pc'["writer"] = "add_last" /\ \A n : ~InHand(n)'
      BY <2>0, <2>1
    <3>2. \A n \in live : n = w.new \/ \E i \in lo .. hi - 1 : n = s[i]
      BY <2>0 DEF Allocated
    <3>3. \A n \in live : \E i \in lo .. hi : n = z[i]
      BY <2>0, <2>2, <3>2 DEF Longer
    <3>4. \A i \in lo .. hi : z[i] \in live
      BY <2>0, <2>2 DEF Allocated, Longer
    <3>5. pc'["reader"] \notin GetBody /\ hi + 1 - 1 = hi
      BY <2>1
    <3> QED
      BY <3>1, <3>3, <3>4, <3>5 DEF Allocated
  <2>6. Counted(z, lo, hi + 1)' /\ Remembered(z, lo, hi + 1)'
    BY <1>0, <2>0, <2>1, <2>2 DEF Counted, Remembered, Queues
  <2>7. Orderly(s, lo, hi) => Valued(z, lo, hi + 1)'
    <3>0. SUFFICES ASSUME Orderly(s, lo, hi)
                   PROVE  Valued(z, lo, hi + 1)'
      OBVIOUS
    <3>1. Upcoming = w.i /\ Upcoming' = Next_value(w.i) /\ Awaited' = Awaited
      BY <2>0, <2>1, <3>0 DEF Upcoming, Awaited
    <3>2. \A i \in lo .. hi - 1 : heap'[z[i]].val = heap[s[i]].val
      BY <1>0, <2>2, <2>3 DEF Chained, Longer
    <3>3. heap'[z[hi]].val = w.i
      BY <2>2, <2>3 DEF Longer
    <3>4. w.i = Next_value(heap[s[hi - 1]].val)
      BY <2>0, <3>0, <3>1 DEF Valued
    <3>5. ASSUME NEW i \in lo .. hi, i > lo
          PROVE  heap'[z[i]].val = Next_value(heap'[z[i - 1]].val)
      <4>1. CASE i = hi
        <5>1. hi - 1 \in lo .. hi - 1 /\ z[hi - 1] = s[hi - 1]
          BY <2>0, <2>2 DEF Longer
        <5> QED
          BY <3>2, <3>3, <3>4, <4>1, <5>1
      <4>2. CASE i # hi
        <5>1. /\ i \in lo .. hi - 1 /\ i - 1 \in lo .. hi - 1
              /\ z[i - 1] = s[i - 1]
          BY <2>2, <3>5, <4>2 DEF Longer
        <5> QED
          BY <3>0, <3>2, <3>5, <5>1 DEF Valued
      <4> QED
        BY <4>1, <4>2
    <3>6. heap'[z[lo]].val = Awaited
      BY <2>0, <3>0, <3>2 DEF Valued
    <3>7. hi + 1 - 1 = hi /\ lo # hi + 1
      BY <2>0
    <3> QED
      <4>1. \A i \in lo .. hi + 1 - 1 :
              /\ i = lo => heap'[z[i]].val = Awaited'
              /\ i > lo => heap'[z[i]].val = Next_value(heap'[z[i - 1]].val)
        BY <3>1, <3>5, <3>6, <3>7
      <4>2. Upcoming' = Next_value(heap'[z[hi + 1 - 1]].val)
        BY <3>1, <3>3, <3>7
      <4> QED
        BY <3>7, <4>1, <4>2 DEF Valued
  <2>8. MemorySafe' /\ (Orderly(s, lo, hi) => AsExpected' /\ ResultsLate')
    BY <2>0, <2>1
  <2> QED
    BY <2>2, <2>4, <2>5, <2>6, <2>7, <2>8 DEF KeepsList
<1>6. CASE AddLast
  <2>1. Chained(s, lo, hi)' /\ Allocated(s, lo, hi)'
    BY <1>6 DEF AddLast, Chained, Allocated
  <2>2. Counted(s, lo, hi)' /\ Remembered(s, lo, hi)'
    BY <1>6 DEF AddLast, Counted, Remembered
  <2>3. MemorySafe'
    BY <1>6 DEF AddLast
  <2>4. Orderly(s, lo, hi) => Orderly(s, lo, hi)'
    BY <1>6 DEF AddLast, Valued, Awaited, Upcoming
  <2> QED
    BY <2>1, <2>2, <2>3, <2>4 DEF KeepsList
<1>7. CASE AddLoad
  <2>1. Chained(s, lo, hi)' /\ Allocated(s, lo, hi)'
    BY <1>7 DEF AddLoad, Chained, Allocated
  <2>2. Counted(s, lo, hi)' /\ Remembered(s, lo, hi)'
    BY <1>7 DEF AddLoad, Counted, Remembered
  <2>3. MemorySafe'
    BY <1>7 DEF AddLoad
  <2>4. Orderly(s, lo, hi) => Orderly(s, lo, hi)'
    BY <1>7 DEF AddLoad, Valued, Awaited, Upcoming
  <2> QED
    BY <2>1, <2>2, <2>3, <2>4 DEF KeepsList
<1>8. CASE AddStore
  <2>1. Chained(s, lo, hi)' /\ Allocated(s, lo, hi)'
    BY <1>8 DEF AddStore, Chained, Allocated
  <2>2. Counted(s, lo, hi)' /\ Remembered(s, lo, hi)'
    BY <1>8 DEF AddStore, Counted, Remembered
  <2>3. MemorySafe'
    BY <1>8 DEF AddStore
  <2>4. Orderly(s, lo, hi) => Orderly(s, lo, hi)'
    BY <1>8 DEF AddStore, Valued, Awaited, Upcoming
  <2> QED
    BY <2>1, <2>2, <2>3, <2>4 DEF KeepsList
<1>9. CASE AddCount
  <2>1. Chained(s, lo, hi)' /\ Allocated(s, lo, hi)'
    BY <1>9 DEF AddCount, Chained, Allocated
  <2>2. Counted(s, lo, hi)' /\ Remembered(s, lo, hi)'
    BY <1>9 DEF AddCount, Counted, Remembered
  <2>3. MemorySafe'
    BY <1>9 DEF AddCount
  <2>4. Orderly(s, lo, hi) => Orderly(s, lo, hi)'
    BY <1>9 DEF AddCount, Valued, Awaited, Upcoming
  <2> QED
    BY <2>1, <2>2, <2>3, <2>4 DEF KeepsList
<1> QED
  BY <1>1, <1>2, <1>3, <1>4, <1>5, <1>6, <1>7, <1>8, <1>9 DEF queue_add

(***************************************************************************)
(* Every statement of queue_get (queue.c:175-199) keeps the list a list    *)
(* while the writer is outside its body.  The first node leaves the list   *)
(* when q->first is assigned, before it is freed.                          *)
(***************************************************************************)
LEMMA GetKeepsShape ==
  ASSUME NEW places, QueueInv(places), queue_get,
         NEW s \in [Nat -> Nodes \cup {NULL}], NEW lo \in Nat, NEW hi \in Nat,
         Shape(s, lo, hi), pc["writer"] \notin AddBody
  PROVE  KeepsList(s, lo, hi)
<1> USE DEF QueueInv, QueueTypeOK, At, Goto, Finish, Threads, AddBody, GetBody,
            Shape, Orderly, ResultsLate, AsExpected, MemorySafe, One, InHand,
            Linked, Unlinked
<1>0. /\ q \in Queues /\ w \in WriterLocals /\ r \in ReaderLocals
      /\ heap \in [Nodes -> Cells] /\ \A i \in Nat : s[i] \in Nodes \cup {NULL}
  OBVIOUS
<1>1. CASE GetAttempts
  <2>1. Chained(s, lo, hi)' /\ Allocated(s, lo, hi)'
    BY <1>1 DEF GetAttempts, Chained, Allocated
  <2>2. Counted(s, lo, hi)' /\ Remembered(s, lo, hi)'
    BY <1>1 DEF GetAttempts, Counted, Remembered
  <2>3. MemorySafe'
    BY <1>1 DEF GetAttempts
  <2>4. Orderly(s, lo, hi) => Orderly(s, lo, hi)'
    BY <1>1 DEF GetAttempts, Valued, Awaited, Upcoming
  <2> QED
    BY <2>1, <2>2, <2>3, <2>4 DEF KeepsList
<1>2. CASE GetCheck
  <2>1. Chained(s, lo, hi)' /\ Allocated(s, lo, hi)'
    BY <1>2 DEF GetCheck, Chained, Allocated
  <2>2. Counted(s, lo, hi)' /\ Remembered(s, lo, hi)'
    BY <1>2 DEF GetCheck, Counted, Remembered
  <2>3. MemorySafe'
    BY <1>2 DEF GetCheck
  <2>4. Orderly(s, lo, hi) => Orderly(s, lo, hi)'
    BY <1>2 DEF GetCheck, Valued, Awaited, Upcoming
  <2> QED
    BY <2>1, <2>2, <2>3, <2>4 DEF KeepsList
<1>3. CASE GetValue
  <2>0. lo < hi /\ q.first \in Nodes /\ q.first = s[lo]
    BY <1>3 DEF GetValue, Bounded, Counted, Chained
  <2>1. /\ r'.tmp = q.first /\ r'.val = heap[q.first].val
        /\ r'.expected = r.expected /\ r'.reg = r.reg
        /\ pc' = [pc EXCEPT !["reader"] = "get_next"]
        /\ UNCHANGED <<q, heap, live, res, w, fault>>
        /\ pc["reader"] = "get_value"
    BY <1>3, <1>0, <2>0 DEF GetValue, ReaderLocals
  <2>2. Chained(s, lo, hi)' /\ Allocated(s, lo, hi)'
    BY <2>1 DEF Chained, Allocated
  <2>3. Counted(s, lo, hi)'
    BY <2>1 DEF Counted
  <2>4. Remembered(s, lo, hi)'
    BY <2>0, <2>1 DEF Remembered
  <2>5. Orderly(s, lo, hi) => Valued(s, lo, hi)'
    <3>0. SUFFICES ASSUME Orderly(s, lo, hi)
                   PROVE  Valued(s, lo, hi)'
      OBVIOUS
    <3>1. Upcoming' = Upcoming /\ Awaited' = Awaited /\ Awaited = r.expected
      BY <2>1, <3>0 DEF Upcoming, Awaited
    <3> QED
      BY <2>1, <3>0, <3>1 DEF Valued
  <2>6. MemorySafe' /\ (Orderly(s, lo, hi) => AsExpected' /\ ResultsLate')
    BY <2>0, <2>1 DEF Valued, Awaited
  <2> QED
    BY <2>2, <2>3, <2>4, <2>5, <2>6 DEF KeepsList
<1>4. CASE GetNext
  <2>0. /\ r'.next = heap[q.first].next /\ r'.tmp = r.tmp
        /\ r'.expected = r.expected /\ r'.reg = r.reg /\ r'.val = r.val
        /\ pc' = [pc EXCEPT !["reader"] = "get_first"]
        /\ UNCHANGED <<q, heap, live, res, w, fault>>
        /\ pc["reader"] = "get_next"
    BY <1>4, <1>0 DEF GetNext, ReaderLocals
  <2>1. Chained(s, lo, hi)' /\ Allocated(s, lo, hi)'
    BY <2>0 DEF Chained, Allocated
  <2>2. Counted(s, lo, hi)'
    BY <2>0 DEF Counted
  <2>3. Remembered(s, lo, hi)'
    BY <2>0 DEF Remembered, Chained
  <2>4. Orderly(s, lo, hi) => Valued(s, lo, hi)'
    BY <2>0 DEF Valued, Awaited, Upcoming
  <2>5. MemorySafe' /\ (Orderly(s, lo, hi) => AsExpected' /\ ResultsLate')
    BY <2>0
  <2> QED
    BY <2>1, <2>2, <2>3, <2>4, <2>5 DEF KeepsList
<1>5. CASE GetFirst
  <2>0. /\ lo < hi /\ r.tmp = s[lo] /\ r.next = s[lo + 1]
        /\ q'.first = r.next /\ q'.last = q.last /\ q'.count = q.count
        /\ pc' = [pc EXCEPT !["reader"] = "get_free"]
        /\ UNCHANGED <<heap, live, res, w, r, fault>>
        /\ pc["reader"] = "get_first"
    BY <1>5, <1>0 DEF GetFirst, Remembered, Queues
  <2>1. Chained(s, lo + 1, hi)'
    BY <2>0 DEF Chained
  <2>2. Allocated(s, lo + 1, hi)'
    BY <2>0 DEF Allocated, Chained
  <2>3. Counted(s, lo + 1, hi)' /\ Remembered(s, lo + 1, hi)'
    BY <1>0, <2>0 DEF Counted, Remembered, Queues
  <2>4. Orderly(s, lo, hi) => Valued(s, lo + 1, hi)'
    BY <2>0 DEF Valued, Awaited, Upcoming
  <2>5. MemorySafe' /\ (Orderly(s, lo, hi) => AsExpected' /\ ResultsLate')
    BY <2>0
  <2> QED
    BY <2>1, <2>2, <2>3, <2>4, <2>5 DEF KeepsList
<1>6. CASE GetFree
  <2>0. r.tmp \in live /\ \A i \in lo .. hi - 1 : s[i] # r.tmp
    BY <1>6 DEF GetFree, Allocated
  <2>1. /\ live' = live \ {r.tmp}
        /\ \A n \in Nodes : n # r.tmp => heap'[n] = heap[n]
        /\ pc' = [pc EXCEPT !["reader"] = "get_load"]
        /\ UNCHANGED <<q, res, w, r, fault>>
        /\ pc["reader"] = "get_free"
    BY <1>6, <1>0, <2>0 DEF GetFree
  <2>2. Chained(s, lo, hi)'
    BY <2>0, <2>1 DEF Chained
  <2>3. Allocated(s, lo, hi)'
    BY <2>0, <2>1 DEF Allocated
  <2>4. Counted(s, lo, hi)' /\ Remembered(s, lo, hi)'
    BY <2>0, <2>1 DEF Counted, Remembered
  <2>5. Orderly(s, lo, hi) => Valued(s, lo, hi)'
    BY <2>0, <2>1 DEF Valued, Chained, Awaited, Upcoming
  <2>6. MemorySafe' /\ (Orderly(s, lo, hi) => AsExpected' /\ ResultsLate')
    BY <2>1
  <2> QED
    BY <2>2, <2>3, <2>4, <2>5, <2>6 DEF KeepsList
<1>7. CASE GetLoad
  <2>1. Chained(s, lo, hi)' /\ Allocated(s, lo, hi)'
    BY <1>7 DEF GetLoad, Chained, Allocated
  <2>2. Counted(s, lo, hi)' /\ Remembered(s, lo, hi)'
    BY <1>7 DEF GetLoad, Counted, Remembered
  <2>3. MemorySafe'
    BY <1>7 DEF GetLoad
  <2>4. Orderly(s, lo, hi) => Orderly(s, lo, hi)'
    BY <1>7 DEF GetLoad, Valued, Awaited, Upcoming
  <2> QED
    BY <2>1, <2>2, <2>3, <2>4 DEF KeepsList
<1>8. CASE GetStore
  <2>1. Chained(s, lo, hi)' /\ Allocated(s, lo, hi)'
    BY <1>8 DEF GetStore, Chained, Allocated
  <2>2. Counted(s, lo, hi)' /\ Remembered(s, lo, hi)'
    BY <1>8 DEF GetStore, Counted, Remembered
  <2>3. MemorySafe'
    BY <1>8 DEF GetStore
  <2>4. Orderly(s, lo, hi) => Orderly(s, lo, hi)'
    BY <1>8 DEF GetStore, Valued, Awaited, Upcoming
  <2> QED
    BY <2>1, <2>2, <2>3, <2>4 DEF KeepsList
<1>9. CASE GetCount
  <2>1. Chained(s, lo, hi)' /\ Allocated(s, lo, hi)'
    BY <1>9 DEF GetCount, Chained, Allocated
  <2>2. Counted(s, lo, hi)' /\ Remembered(s, lo, hi)'
    BY <1>9 DEF GetCount, Counted, Remembered
  <2>3. MemorySafe'
    BY <1>9 DEF GetCount
  <2>4. Orderly(s, lo, hi) => Orderly(s, lo, hi)'
    BY <1>9 DEF GetCount, Valued, Awaited, Upcoming
  <2> QED
    BY <2>1, <2>2, <2>3, <2>4 DEF KeepsList
<1> QED
  BY <1>1, <1>2, <1>3, <1>4, <1>5, <1>6, <1>7, <1>8, <1>9 DEF queue_get

\* So bodies that exclude each other keep the list a list in order.
LEMMA ShapeKeepsList ==
  ASSUME NEW s, NEW lo, NEW hi, ListIs(s, lo, hi), KeepsList(s, lo, hi)
  PROVE  ListInv'
  BY DEF ListIs, KeepsList, ListInv

\* The queue starts without a node (queue.c:114-135).
LEMMA ListInit == QueueInit => ListInv
<1> SUFFICES ASSUME QueueInit
             PROVE  ListInv
  OBVIOUS
<1> DEFINE s == [i \in Nat |-> NULL]
<1>1. Chained(s, 0, 0) /\ Allocated(s, 0, 0)
  BY DEF QueueInit, Chained, Allocated, InHand, Threads
<1>2. Counted(s, 0, 0) /\ Remembered(s, 0, 0)
  BY DEF QueueInit, Counted, Remembered, One, Threads
<1>3. Valued(s, 0, 0)
  BY DEF QueueInit, Valued, Awaited, Upcoming, Linked, Unlinked, Threads,
     NoWriterLocals, NoReaderLocals
<1>4. AsExpected /\ ResultsLate /\ MemorySafe
  BY DEF QueueInit, AsExpected, ResultsLate, MemorySafe, Unlinked, Threads,
     AddBody, GetBody
<1>5. s \in [Nat -> Nodes \cup {NULL}] /\ ListIs(s, 0, 0)
  BY <1>1, <1>2, <1>3, <1>4 DEF ListIs, Shape, Orderly
<1> QED
  BY <1>5 DEF ListInv

(***************************************************************************)
(* A step of a thread outside the bodies, or into its own, that touches    *)
(* no node leaves the list a list, whatever it does with the locals of     *)
(* this thread.                                                            *)
(***************************************************************************)
LEMMA OutsideKeepsShape ==
  ASSUME NEW places, QueueTypeOK(places),
         NEW s \in [Nat -> Nodes \cup {NULL}], NEW lo \in Nat, NEW hi \in Nat,
         Shape(s, lo, hi),
         NEW t \in Threads, NEW place,
         pc[t] \notin AddBody \cup GetBody,
         place \notin AddBody \cup GetBody \/ place = Begin(t),
         Goto(t, place), UNCHANGED <<q, heap, live>>,
         t = "writer" => r' = r,
         t = "reader" => w' = w,
         fault' \in {fault, "none", "abort"}
  PROVE  Shape(s, lo, hi)'
<1> USE DEF QueueTypeOK, Goto, Threads, AddBody, GetBody, Begin, Shape, One,
            InHand
<1>1. Chained(s, lo, hi)' /\ Allocated(s, lo, hi)'
  BY DEF Chained, Allocated
<1>2. Counted(s, lo, hi)' /\ Remembered(s, lo, hi)'
  BY DEF Counted, Remembered
<1>3. MemorySafe'
  BY DEF MemorySafe
<1> QED
  BY <1>1, <1>2, <1>3

\* The loops of the threads (queue-threads.c:31-68) do not touch the list.
LEMMA LoopKeepsList ==
  ASSUME NEW places, QueueInv(places), NEW t \in Threads, Loop(t),
         NEW s \in [Nat -> Nodes \cup {NULL}], NEW lo \in Nat, NEW hi \in Nat,
         ListIs(s, lo, hi)
  PROVE  ListInv'
<1>1. Shape(s, lo, hi)'
  <2>1. /\ Goto(t, "call") /\ pc[t] \notin AddBody \cup GetBody
        /\ UNCHANGED <<q, heap, live>>
        /\ t = "writer" => r' = r
        /\ t = "reader" => w' = w
        /\ fault' \in {fault, "none", "abort"}
    BY DEF Loop, Writer, Reader, At, Threads, AddBody, GetBody
  <2>2. "call" \notin AddBody \cup GetBody
    BY DEF AddBody, GetBody
  <2> QED
    BY <2>1, <2>2, OutsideKeepsShape DEF ListIs, QueueInv
<1> USE DEF QueueInv, QueueTypeOK, At, Goto, Threads, AddBody, GetBody, ListIs,
            Orderly, ResultsLate, AsExpected, Linked, Unlinked, Loop
<1>2. Valued(s, lo, hi)'
  BY DEF Writer, Reader, Valued, Awaited, Upcoming, NoWriterLocals,
     NoReaderLocals
<1>3. AsExpected' /\ ResultsLate'
  BY DEF Writer, Reader
<1> QED
  BY <1>1, <1>2, <1>3 DEF ListInv

\* Nor does what surrounds the bodies.
LEMMA SyncKeepsList ==
  ASSUME NEW places, QueueTypeOK(places), ListInv,
         NEW t \in Threads, NEW place,
         pc[t] \notin AddBody \cup GetBody,
         \/ place \notin AddBody \cup GetBody
         \/ place = Begin(t) /\ res[t] = "none",
         Goto(t, place), UNCHANGED <<q, heap, live, res, w, r, fault>>
  PROVE  ListInv'
<1>1. PICK s \in [Nat -> Nodes \cup {NULL}], lo \in Nat, hi \in Nat :
        ListIs(s, lo, hi)
  BY DEF ListInv
<1>2. Shape(s, lo, hi)'
  BY <1>1, OutsideKeepsShape DEF ListIs
<1> USE DEF QueueTypeOK, Goto, Threads, AddBody, GetBody, Begin, ListIs,
            Orderly, ResultsLate, AsExpected, Linked, Unlinked
<1>3. Valued(s, lo, hi)'
  BY <1>1 DEF Valued, Awaited, Upcoming
<1>4. AsExpected' /\ ResultsLate'
  BY <1>1
<1> QED
  BY <1>2, <1>3, <1>4 DEF ListInv

\* A program that aborts leaves the list as it is.
LEMMA ListAborts ==
  ASSUME ListInv, UNCHANGED <<q, heap, live, pc, res, w, r>>,
         fault' \in {fault, "abort"}
  PROVE  ListInv'
<1>1. PICK s \in [Nat -> Nodes \cup {NULL}], lo \in Nat, hi \in Nat :
        ListIs(s, lo, hi)
  BY DEF ListInv
<1>2. ListIs(s, lo, hi)'
  BY <1>1
  DEF ListIs, Shape, Orderly, Chained, Allocated, InHand, Counted, Remembered,
      Valued, Awaited, Upcoming, Linked, Unlinked, AsExpected, ResultsLate,
      MemorySafe
<1> QED
  BY <1>2 DEF ListInv

\* Nor does a step that leaves the queue alone change it.
LEMMA ListStutters == ListInv /\ UNCHANGED queueVars => ListInv'
  BY ListAborts DEF queueVars

\* Bodies that exclude each other, and the loops, keep the list a list.
LEMMA RunKeepsList ==
  ASSUME NEW places, QueueInv(places), ListInv,
         NEW t \in Threads, Body(t) \/ Loop(t),
         pc["writer"] \notin AddBody \/ pc["reader"] \notin GetBody
  PROVE  ListInv'
<1>1. PICK s \in [Nat -> Nodes \cup {NULL}], lo \in Nat, hi \in Nat :
        ListIs(s, lo, hi)
  BY DEF ListInv
<1>2. CASE Loop(t)
  BY <1>1, <1>2, LoopKeepsList
<1>3. CASE Body(t) /\ t = "writer"
  <2>1. queue_add
    BY <1>3 DEF Body
  <2>2. pc["writer"] \in AddBody
    BY <2>1
    DEF queue_add, AddAttempts, AddCheck, AddMalloc, AddFirst, AddAppend,
        AddLast, AddLoad, AddStore, AddCount, At, AddBody
  <2> QED
    BY <1>1, <2>1, <2>2, AddKeepsShape, ShapeKeepsList DEF ListIs
<1>4. CASE Body(t) /\ t = "reader"
  <2>1. queue_get
    BY <1>4 DEF Body
  <2>2. pc["reader"] \in GetBody
    BY <2>1
    DEF queue_get, GetAttempts, GetCheck, GetValue, GetNext, GetFirst,
        GetFree, GetLoad, GetStore, GetCount, At, GetBody
  <2> QED
    BY <1>1, <2>1, <2>2, GetKeepsShape, ShapeKeepsList DEF ListIs
<1> QED
  BY <1>2, <1>3, <1>4 DEF Threads

\* What the invariant says of values that have been got.
LEMMA ListMeans == ListInv => ReadsInSequence
  BY DEF ListInv, ListIs, Orderly, AsExpected, ReadsInSequence, Unlinked

(***************************************************************************)
(* The nodes that the statements of queue_add and queue_get touch          *)
(* (queue.c:161-167, 182-193) are on the list or in the reader's hand.     *)
(* That there is a first node when queue_get has seen a count takes that   *)
(* the count is that of the list.                                          *)
(***************************************************************************)
LEMMA ListAllocated ==
  ASSUME NEW places, QueueInv(places), ListInv
  PROVE  TouchesAllocated
<1>1. PICK s \in [Nat -> Nodes \cup {NULL}], lo \in Nat, hi \in Nat :
        Shape(s, lo, hi)
  BY DEF ListInv, ListIs
<1>2. \A i \in lo .. hi - 1 : s[i] \in live
  BY <1>1 DEF Shape, Allocated
<1>3. ASSUME pc["writer"] = "add_append"
      PROVE  q.last \in live
  <2>1. lo < hi /\ q.last = s[hi - 1]
    BY <1>1, <1>3 DEF Shape, Remembered, Chained
  <2> QED
    BY <1>2, <2>1
<1>4. ASSUME pc["writer"] = "add_last"
      PROVE  q.last \in live
  <2>1. hi >= lo + 2 /\ q.last = s[hi - 2]
    BY <1>1, <1>4 DEF Shape, Chained
  <2> QED
    BY <1>2, <2>1
<1>5. ASSUME pc["reader"] \in {"get_value", "get_next"}
      PROVE  q.first \in live
  <2>1. q.first = s[lo]
    BY <1>1 DEF Shape, Chained
  <2>2. lo < hi
    <3>1. CASE pc["reader"] = "get_next"
      BY <1>1, <3>1 DEF Shape, Remembered
    <3>2. CASE pc["reader"] = "get_value"
      <4>1. q.count \in Nat /\ q.count > 0
        BY <3>2 DEF QueueInv, QueueTypeOK, Queues, Bounded
      <4>2. q.count <= hi - lo
        BY <1>1, <3>2 DEF Shape, Counted, One
      <4> QED
        BY <4>1, <4>2
    <3> QED
      BY <1>5, <3>1, <3>2
  <2> QED
    BY <1>2, <2>1, <2>2
<1> QED
  BY <1>1, <1>3, <1>4, <1>5 DEF TouchesAllocated, Shape, Allocated

-----------------------------------------------------------------------------
(* What the list holds, read along its links *)

(***************************************************************************)
(* A set of natural numbers has a least element.  It takes the place of    *)
(* induction below: two functions defined along the links that differ      *)
(* somewhere differ at a least place, and there they cannot.               *)
(***************************************************************************)
LEMMA LeastOne ==
  ASSUME NEW S \in SUBSET Nat, S # {}
  PROVE  \E n \in S : \A m \in S : n <= m
<1>1. PICK n \in S : \A m \in S : ~(<<m, n>> \in OpToRel(<, Nat))
  BY NatLessThanWellFounded, WFMin
<1>2. ASSUME NEW m \in S
      PROVE  n <= m
  <2>1. <<m, n>> \in Nat \X Nat /\ ~(<<m, n>> \in OpToRel(<, Nat))
    BY <1>1
  <2>2. ~(m < n)
    BY <2>1 DEF OpToRel
  <2> QED
    BY <2>2
<1> QED
  BY <1>2

\* NodeAt (the links from queue.c:191 on) finds the nodes of the list.
LEMMA NodesAt ==
  ASSUME NEW s \in [Nat -> Nodes \cup {NULL}], NEW lo \in Nat, NEW hi \in Nat,
         Chained(s, lo, hi)
  PROVE  NodeAt = [k \in 0 .. Cardinality(Nodes) |->
                     IF lo + k < hi THEN s[lo + k] ELSE NULL]
<1> DEFINE place == 0 .. Cardinality(Nodes)
           Follow(f) == [k \in place |->
                           IF k = 0 THEN q.first
                           ELSE LET before == f[k - 1]
                                IN  IF before \in Nodes THEN heap[before].next
                                    ELSE NULL]
           walk == [k \in place |-> IF lo + k < hi THEN s[lo + k] ELSE NULL]
<1>0. NULL \notin Nodes /\ Cardinality(Nodes) \in Nat
  BY ListQueueAssumption, FS_CardinalityType
<1>1. walk = Follow(walk)
  <2> SUFFICES ASSUME NEW k \in place
               PROVE  walk[k] = Follow(walk)[k]
    OBVIOUS
  <2>1. CASE k = 0
    BY <2>1 DEF Chained
  <2>2. CASE k # 0
    <3>1. k - 1 \in place
      BY <1>0, <2>2
    <3>2. CASE lo + k <= hi
      BY <1>0, <2>2, <3>1, <3>2 DEF Chained
    <3>3. CASE ~(lo + k <= hi)
      BY <1>0, <2>2, <3>1, <3>3
    <3> QED
      BY <3>2, <3>3
  <2> QED
    BY <2>1, <2>2
<1>2. NodeAt = CHOOSE f : f = Follow(f)
  BY DEF NodeAt
<1>3. NodeAt = Follow(NodeAt)
  <2> HIDE DEF Follow, walk
  <2> QED
    BY <1>1, <1>2
<1>4. ASSUME NodeAt # walk
      PROVE  FALSE
  <2> DEFINE wrong == {k \in place : NodeAt[k] # walk[k]}
  <2>1. wrong \in SUBSET Nat /\ wrong # {}
    BY <1>0, <1>3, <1>4
  <2>2. PICK n \in wrong : \A m \in wrong : n <= m
    BY <2>1, LeastOne
  <2>3. n # 0
    BY <1>1, <1>3, <2>2
  <2>4. n - 1 \in place /\ NodeAt[n - 1] = walk[n - 1]
    BY <1>0, <2>2, <2>3
  <2>5. Follow(NodeAt)[n] = Follow(walk)[n]
    BY <2>2, <2>3, <2>4
  <2> QED
    BY <1>1, <1>3, <2>2, <2>5
<1> QED
  BY <1>4

\* A list of different cells is not longer than the memory, so that NodeAt
\* reaches its end.
LEMMA ListFits ==
  ASSUME NEW s \in [Nat -> Nodes \cup {NULL}], NEW lo \in Nat, NEW hi \in Nat,
         Chained(s, lo, hi)
  PROVE  hi - lo <= Cardinality(Nodes)
<1> DEFINE number == hi - lo
           f == [k \in 1 .. number |-> s[lo + k - 1]]
<1>1. number \in Nat
  BY DEF Chained
<1>2. ASSUME NEW k \in 1 .. number
      PROVE  lo + k - 1 \in lo .. hi - 1 /\ f[k] = s[lo + k - 1]
  BY <1>1
<1>3. f \in [1 .. number -> Nodes]
  BY <1>2 DEF Chained
<1>4. ASSUME NEW i \in 1 .. number, NEW j \in 1 .. number, f[i] = f[j]
      PROVE  i = j
  <2>1. lo + i - 1 = lo + j - 1
    BY <1>2, <1>4 DEF Chained
  <2> QED
    BY <1>1, <2>1
<1>5. f \in Injection(1 .. number, Nodes)
  <2> HIDE DEF f
  <2> QED
    BY <1>3, <1>4 DEF Injection, IsInjective
<1>6. Cardinality(1 .. number) <= Cardinality(Nodes)
  BY <1>5, FS_Injection, ListQueueAssumption
<1>7. Cardinality(1 .. number) = IF 1 > number THEN 0 ELSE number - 1 + 1
  <2>1. 1 \in Int /\ number \in Int
    BY <1>1
  <2> HIDE DEF number
  <2> QED
    BY <2>1, FS_Interval
<1> QED
  BY <1>1, <1>6, <1>7

\* The list is as long as its first and its last place tell.
LEMMA LengthIs ==
  ASSUME NEW s \in [Nat -> Nodes \cup {NULL}], NEW lo \in Nat, NEW hi \in Nat,
         Chained(s, lo, hi)
  PROVE  Length = hi - lo
<1> DEFINE size == hi - lo
<1>1. size \in Nat /\ Cardinality(Nodes) \in Nat /\ NULL \notin Nodes
  BY ListQueueAssumption, FS_CardinalityType DEF Chained
<1>2. size <= Cardinality(Nodes)
  BY ListFits
<1>3. NodeAt = [k \in 0 .. Cardinality(Nodes) |->
                  IF lo + k < hi THEN s[lo + k] ELSE NULL]
  BY NodesAt
<1>4. ASSUME NEW k \in 0 .. Cardinality(Nodes)
      PROVE  NodeAt[k] \in Nodes <=> k \in 0 .. size - 1
  <2>1. CASE lo + k < hi
    <3>1. lo + k \in lo .. hi - 1
      BY <1>1, <2>1
    <3> QED
      BY <1>1, <1>3, <2>1, <3>1 DEF Chained
  <2>2. CASE ~(lo + k < hi)
    BY <1>1, <1>3, <2>2
  <2> QED
    BY <2>1, <2>2
<1>5. {k \in DOMAIN NodeAt : NodeAt[k] \in Nodes} = 0 .. size - 1
  BY <1>1, <1>2, <1>3, <1>4
<1>6. Cardinality(0 .. size - 1)
        = IF 0 > size - 1 THEN 0 ELSE size - 1 - 0 + 1
  <2>1. 0 \in Int /\ size - 1 \in Int
    BY <1>1
  <2> HIDE DEF size
  <2> QED
    BY <2>1, FS_Interval
<1>7. Length = Cardinality(0 .. size - 1)
  BY <1>5 DEF Length
<1> QED
  BY <1>1, <1>6, <1>7

\* The types of what the list is made of
Typed ==
    /\ q \in Queues /\ heap \in [Nodes -> Cells]
    /\ w \in WriterLocals /\ r \in ReaderLocals

\* How many nodes the list has while a call is linking or unlinking one.
Listed ==
    q.count + One(pc["writer"] \in {"add_last", "add_load", "add_store"})
            - One(pc["reader"] \in {"get_free", "get_load", "get_store"})

\* The values count up from the first one, and the writer's next value is
\* the one after the last.
Consecutive(values, first, next) ==
    /\ values \in Seq(Ints)
    /\ values = <<>> => next = first
    /\ values # <<>> =>
         values[1] = first /\ next = Next_value(values[Len(values)])
    /\ \A k \in 1 .. Len(values) - 1 : values[k + 1] = Next_value(values[k])

\* The values of the nodes in a row.
LEMMA ContentsAre ==
  ASSUME heap \in [Nodes -> Cells],
         NEW s \in [Nat -> Nodes \cup {NULL}], NEW lo \in Nat, NEW hi \in Nat,
         Chained(s, lo, hi)
  PROVE  /\ Contents \in Seq(Ints) /\ Len(Contents) = hi - lo
         /\ \A k \in 1 .. hi - lo : /\ lo + k - 1 \in lo .. hi - 1
                                    /\ Contents[k] = heap[s[lo + k - 1]].val
<1> DEFINE size == hi - lo
<1>1. size \in Nat /\ Length = size /\ size <= Cardinality(Nodes)
  <2>1. lo <= hi
    BY DEF Chained
  <2>2. Length = size /\ size <= Cardinality(Nodes)
    BY ListFits, LengthIs
  <2> QED
    BY <2>1, <2>2
<1>2. ASSUME NEW k \in 1 .. size
      PROVE  /\ lo + k - 1 \in lo .. hi - 1
             /\ NodeAt[k - 1] = s[lo + k - 1]
             /\ heap[NodeAt[k - 1]].val \in Ints
  <2>1. lo + k - 1 \in lo .. hi - 1
    BY <1>1
  <2>2. k - 1 \in 0 .. Cardinality(Nodes)
    <3>1. Cardinality(Nodes) \in Nat
      BY ListQueueAssumption, FS_CardinalityType
    <3> QED
      BY <1>1, <3>1
  <2>3. NodeAt[k - 1] = s[lo + k - 1]
    <3>1. NodeAt = [i \in 0 .. Cardinality(Nodes) |->
                      IF lo + i < hi THEN s[lo + i] ELSE NULL]
      BY NodesAt
    <3> QED
      BY <1>1, <2>1, <2>2, <3>1
  <2> QED
    BY <2>1, <2>3 DEF Chained, Cells
<1>3. Contents = [k \in 1 .. size |-> heap[NodeAt[k - 1]].val]
  BY <1>1 DEF Contents
<1>4. Contents \in [1 .. size -> Ints]
  BY <1>2, <1>3
<1>5. Contents \in Seq(Ints) /\ Len(Contents) = size
  BY <1>1, <1>4
<1> QED
  BY <1>2, <1>3, <1>5

\* On a queue in order they are as many as the count says, and they follow
\* each other from the value the reader expects.
Listing ==
    /\ Listed \in Nat /\ Len(Contents) = Listed /\ Length = Listed
    /\ Awaited \in Ints /\ Upcoming \in Ints
    /\ Consecutive(Contents, Awaited, Upcoming)

LEMMA ContentsFollow == Typed /\ ListInv => Listing
<1> SUFFICES ASSUME Typed, ListInv
             PROVE  Listing
  OBVIOUS
<1>1. PICK s \in [Nat -> Nodes \cup {NULL}], lo \in Nat, hi \in Nat :
        ListIs(s, lo, hi)
  BY DEF ListInv
<1> DEFINE size == hi - lo
<1>2. /\ size \in Nat /\ Length = size /\ Len(Contents) = size
      /\ Contents \in Seq(Ints)
      /\ \A k \in 1 .. size : /\ lo + k - 1 \in lo .. hi - 1
                              /\ Contents[k] = heap[s[lo + k - 1]].val
  <2>1. Chained(s, lo, hi) /\ lo <= hi /\ heap \in [Nodes -> Cells]
    BY <1>1 DEF ListIs, Shape, Chained, Typed
  <2>2. Length = size /\ size \in Nat
    BY <2>1, LengthIs
  <2>3. /\ Contents \in Seq(Ints) /\ Len(Contents) = size
        /\ \A k \in 1 .. size : /\ lo + k - 1 \in lo .. hi - 1
                                /\ Contents[k] = heap[s[lo + k - 1]].val
    BY <2>1, ContentsAre
  <2> QED
    BY <2>2, <2>3
<1>3. Listed = size
  <2>1. q.count \in Nat
    BY DEF Typed, Queues
  <2> QED
    BY <1>1, <1>2, <2>1 DEF ListIs, Shape, Counted, Listed, One
<1>4. Awaited \in Ints /\ Upcoming \in Ints
  BY WrapAround DEF Awaited, Upcoming, Typed, WriterLocals, ReaderLocals
<1>5. \A k \in 1 .. Len(Contents) - 1 :
        Contents[k + 1] = Next_value(Contents[k])
  <2> SUFFICES ASSUME NEW k \in 1 .. size - 1
               PROVE  Contents[k + 1] = Next_value(Contents[k])
    BY <1>2
  <2>1. k \in 1 .. size /\ k + 1 \in 1 .. size
    BY <1>2
  <2>2. /\ lo + k \in lo .. hi - 1 /\ lo + k > lo
        /\ lo + (k + 1) - 1 = lo + k
        /\ Contents[k] = heap[s[lo + k - 1]].val
        /\ Contents[k + 1] = heap[s[lo + k]].val
    BY <1>2, <2>1
  <2>3. heap[s[lo + k]].val = Next_value(heap[s[lo + k - 1]].val)
    BY <1>1, <2>2 DEF ListIs, Orderly, Valued
  <2> QED
    BY <2>2, <2>3
<1>6. CASE size = 0
  <2>1. Contents = <<>> /\ lo = hi
    BY <1>2, <1>6
  <2> QED
    BY <1>1, <1>2, <1>3, <1>4, <1>5, <2>1
    DEF Listing, Consecutive, ListIs, Shape, Orderly, Valued
<1>7. CASE size # 0
  <2>1. 1 \in 1 .. size /\ size \in 1 .. size /\ lo < hi
    BY <1>2, <1>7
  <2>2. /\ Contents[1] = heap[s[lo]].val
        /\ Contents[size] = heap[s[hi - 1]].val
        /\ lo \in lo .. hi - 1
    <3>1. lo + 1 - 1 = lo /\ lo + size - 1 = hi - 1
      OBVIOUS
    <3> QED
      BY <1>2, <2>1, <3>1
  <2>3. Contents[1] = Awaited /\ Upcoming = Next_value(Contents[size])
    BY <1>1, <2>1, <2>2 DEF ListIs, Orderly, Valued
  <2>4. Contents # <<>>
    BY <1>2, <1>7
  <2> QED
    BY <1>2, <1>3, <1>4, <1>5, <2>3, <2>4 DEF Listing, Consecutive
<1> QED
  BY <1>6, <1>7

\* Where such values start and how many they are says which they are.
LEMMA ConsecutiveUnique ==
  ASSUME NEW a, NEW b, NEW first, NEW next, NEW past,
         Consecutive(a, first, next), Consecutive(b, first, past),
         Len(a) = Len(b)
  PROVE  a = b
<1>1. a \in Seq(Ints) /\ b \in Seq(Ints) /\ Len(a) \in Nat
  BY DEF Consecutive
<1>2. ASSUME a # b
      PROVE  FALSE
  <2> DEFINE wrong == {k \in 1 .. Len(a) : a[k] # b[k]}
  <2>1. wrong \in SUBSET Nat /\ wrong # {}
    BY <1>1, <1>2
  <2>2. PICK n \in wrong : \A m \in wrong : n <= m
    BY <2>1, LeastOne
  <2>3. a # <<>> /\ b # <<>>
    BY <1>1, <2>2
  <2>4. n # 1
    BY <2>2, <2>3 DEF Consecutive
  <2>5. n - 1 \in 1 .. Len(a) - 1 /\ n - 1 + 1 = n
    BY <1>1, <2>2, <2>4
  <2>6. a[n - 1] = b[n - 1]
    BY <1>1, <2>2, <2>5
  <2>7. a[n] = Next_value(a[n - 1]) /\ b[n] = Next_value(b[n - 1])
    BY <2>5 DEF Consecutive
  <2> QED
    BY <2>2, <2>6, <2>7
<1> QED
  BY <1>2

\* The same after a step.
LEMMA ContentsFollowNext == Typed' /\ ListInv' => Listing'
  BY ContentsFollow, PTL

\* Three things can happen to the values, and the number of the nodes and the
\* two threads' next values tell which one it is.
LEMMA ValuesStay ==
  ASSUME Listing, Listing', Listed' = Listed, Awaited' = Awaited
  PROVE  Contents' = Contents
<1>1. Len(Contents') = Len(Contents)
  BY DEF Listing
<1>2. /\ Consecutive(Contents, Awaited, Upcoming)
      /\ Consecutive(Contents', Awaited, Upcoming')
  BY DEF Listing, Consecutive
<1> QED
  BY <1>1, <1>2, ConsecutiveUnique

LEMMA ValuePut ==
  ASSUME Listing, Listing', Listed' = Listed + 1, Awaited' = Awaited
  PROVE  Contents' = Append(Contents, Upcoming)
<1> DEFINE longer == Append(Contents, Upcoming)
<1>1. /\ Contents \in Seq(Ints) /\ Len(Contents) \in Nat /\ Upcoming \in Ints
      /\ Len(Contents') = Len(Contents) + 1
  BY DEF Listing, Consecutive
<1>2. /\ longer \in Seq(Ints) /\ Len(longer) = Len(Contents) + 1
      /\ longer[Len(Contents) + 1] = Upcoming
      /\ \A k \in 1 .. Len(Contents) : longer[k] = Contents[k]
  BY <1>1
<1>3. longer # <<>> /\ longer[1] = Awaited
  <2>1. CASE Contents = <<>>
    BY <1>1, <1>2, <2>1 DEF Listing, Consecutive
  <2>2. CASE Contents # <<>>
    <3>1. 1 \in 1 .. Len(Contents) /\ Contents[1] = Awaited
      BY <1>1, <2>2 DEF Listing, Consecutive
    <3> QED
      BY <1>1, <1>2, <3>1
  <2> QED
    BY <2>1, <2>2
<1>4. ASSUME NEW k \in 1 .. Len(longer) - 1
      PROVE  longer[k + 1] = Next_value(longer[k])
  <2>1. k \in 1 .. Len(Contents) /\ Contents # <<>> /\ longer[k] = Contents[k]
    BY <1>1, <1>2, <1>4
  <2>2. CASE k = Len(Contents)
    BY <1>1, <1>2, <2>1, <2>2 DEF Listing, Consecutive
  <2>3. CASE k # Len(Contents)
    <3>1. k \in 1 .. Len(Contents) - 1 /\ k + 1 \in 1 .. Len(Contents)
      BY <1>1, <2>1, <2>3
    <3> QED
      BY <1>2, <2>1, <3>1 DEF Listing, Consecutive
  <2> QED
    BY <2>2, <2>3
<1>5. Consecutive(longer, Awaited, Next_value(Upcoming))
  BY <1>1, <1>2, <1>3, <1>4 DEF Consecutive
<1>6. Consecutive(Contents', Awaited, Upcoming')
  BY DEF Listing, Consecutive
<1> QED
  BY <1>1, <1>2, <1>5, <1>6, ConsecutiveUnique

LEMMA ValueGot ==
  ASSUME Listing, Listing', Listed' = Listed - 1,
         Awaited' = Next_value(Awaited)
  PROVE  /\ Contents # <<>> /\ Head(Contents) = Awaited
         /\ Contents' = Tail(Contents)
<1> DEFINE rest == Tail(Contents)
<1>1. /\ Contents \in Seq(Ints) /\ Len(Contents) \in Nat \ {0}
      /\ Len(Contents') = Len(Contents) - 1
  BY DEF Listing, Consecutive
<1>2. Contents # <<>> /\ Contents[1] = Awaited /\ Head(Contents) = Awaited
  BY <1>1 DEF Listing, Consecutive
<1>3. /\ rest \in Seq(Ints) /\ Len(rest) = Len(Contents) - 1
      /\ \A k \in 1 .. Len(rest) : rest[k] = Contents[k + 1]
  BY <1>1, <1>2, HeadTailProperties
<1>4. ASSUME rest # <<>>
      PROVE  rest[1] = Next_value(Awaited)
  <2>1. 1 \in 1 .. Len(rest) /\ 1 \in 1 .. Len(Contents) - 1
    BY <1>1, <1>3, <1>4
  <2> QED
    BY <1>2, <1>3, <2>1 DEF Listing, Consecutive
<1>5. ASSUME NEW k \in 1 .. Len(rest) - 1
      PROVE  rest[k + 1] = Next_value(rest[k])
  <2>1. /\ k \in 1 .. Len(rest) /\ k + 1 \in 1 .. Len(rest)
        /\ k + 1 \in 1 .. Len(Contents) - 1
    BY <1>1, <1>3
  <2> QED
    BY <1>3, <2>1 DEF Listing, Consecutive
<1>6. Consecutive(rest, Awaited',
                  IF rest = <<>> THEN Awaited' ELSE Next_value(rest[Len(rest)]))
  BY <1>3, <1>4, <1>5 DEF Consecutive
<1>7. Consecutive(Contents', Awaited', Upcoming')
  BY DEF Listing, Consecutive
<1>8. Contents' = rest
  BY <1>1, <1>3, <1>6, <1>7, ConsecutiveUnique
<1> QED
  BY <1>2, <1>8

-----------------------------------------------------------------------------
(* The queue as a first-in first-out buffer *)

\* What a step of Fifo means here.
LEMMA StepStays ==
  ASSUME Listing, Listing', Listed' = Listed, Awaited' = Awaited,
         Upcoming' = Upcoming, q'.max_count = q.max_count
  PROVE  UNCHANGED Abstract!vars
  BY ValuesStay DEF Abstract!vars, Awaited, Upcoming

LEMMA StepPuts ==
  ASSUME Listing, Listing', Listed' = Listed + 1, Awaited' = Awaited,
         Upcoming' = Next_value(Upcoming), q'.max_count = q.max_count,
         Listed < q.max_count
  PROVE  Abstract!Put
<1>1. Contents' = Append(Contents, Upcoming) /\ Len(Contents) < q.max_count
  BY ValuePut DEF Listing
<1> QED
  BY <1>1 DEF Abstract!Put, Abstract!Next_value, Next_value, Awaited, Upcoming

LEMMA StepGets ==
  ASSUME Listing, Listing', Listed' = Listed - 1,
         Awaited' = Next_value(Awaited), Upcoming' = Upcoming,
         q'.max_count = q.max_count
  PROVE  Abstract!Get
<1>1. /\ Contents # <<>> /\ Head(Contents) = Awaited
      /\ Contents' = Tail(Contents)
  BY ValueGot
<1> QED
  BY <1>1 DEF Abstract!Get, Abstract!Next_value, Next_value, Awaited, Upcoming

\* A step of the program is a put, a get or nothing to the buffer.
FifoStep == [Abstract!Next]_(Abstract!vars)

\* What the invariant says of the places around the assignments.
LEMMA ListTells ==
  ASSUME ListInv
  PROVE  /\ pc["writer"] = "add_store" => w.reg = q.count
         /\ pc["reader"] = "get_store" => r.reg = q.count
         /\ AsExpected /\ ResultsLate /\ MemorySafe
  BY DEF ListInv, ListIs, Shape, Orderly, Counted

(***************************************************************************)
(* queue_add (queue.c:137-173) puts the writer's value into the buffer at  *)
(* the assignment that links the new node, to first or to last->next; its  *)
(* other statements do not change the buffer.                              *)
(***************************************************************************)
LEMMA AddImplements ==
  ASSUME NEW places, QueueInv(places), ListInv, ListInv', Listing, Listing',
         queue_add, pc["reader"] \notin GetBody
  PROVE  FifoStep
<1> USE DEF At, Goto, Finish, Threads, GetBody, One, Linked, Unlinked
<1>0. /\ q \in Queues /\ w \in WriterLocals /\ pc \in [Threads -> places]
      /\ res \in [Threads -> Results]
      /\ q.count \in Nat /\ q.max_count \in Nat
  BY DEF QueueInv, QueueTypeOK, Queues
<1>1. CASE AddFirst /\ q.first = NULL
  <2>1. /\ pc["writer"] = "add_first" /\ q.count < q.max_count
        /\ res["writer"] = "none"
    BY <1>1, ListTells DEF AddFirst, QueueInv, Bounded, ResultsLate, AddBody
  <2>2. /\ q'.count = q.count /\ q'.max_count = q.max_count
        /\ pc' = [pc EXCEPT !["writer"] = "add_load"]
        /\ UNCHANGED <<w, r, res>>
    BY <1>0, <1>1 DEF AddFirst, Queues
  <2>3. /\ Listed' = Listed + 1 /\ Listed < q.max_count
        /\ Awaited' = Awaited /\ Upcoming' = Next_value(Upcoming)
    BY <1>0, <2>1, <2>2 DEF Listed, Awaited, Upcoming
  <2> QED
    BY <2>2, <2>3, StepPuts DEF FifoStep, Abstract!Next
<1>2. CASE AddAppend
  <2>1. /\ pc["writer"] = "add_append" /\ q.count < q.max_count
        /\ res["writer"] = "none"
    BY <1>2, ListTells DEF AddAppend, QueueInv, Bounded, ResultsLate, AddBody
  <2>2. fault' # "segv"
    BY DEF ListInv, ListIs, Shape, MemorySafe
  <2>3. /\ pc' = [pc EXCEPT !["writer"] = "add_last"]
        /\ UNCHANGED <<q, w, r, res>>
    BY <1>2, <2>2 DEF AddAppend
  <2>4. /\ Listed' = Listed + 1 /\ Listed < q.max_count
        /\ Awaited' = Awaited /\ Upcoming' = Next_value(Upcoming)
    BY <1>0, <2>1, <2>3 DEF Listed, Awaited, Upcoming
  <2> QED
    BY <2>3, <2>4, StepPuts DEF FifoStep, Abstract!Next
<1>3. CASE AddStore
  <2>1. /\ pc["writer"] = "add_store" /\ q'.count = q.count + 1
        /\ q'.max_count = q.max_count
        /\ pc' = [pc EXCEPT !["writer"] = "add_count"]
        /\ UNCHANGED <<w, r, res>>
    BY <1>0, <1>3, ListTells DEF AddStore, Queues
  <2>2. /\ Listed' = Listed /\ Awaited' = Awaited /\ Upcoming' = Upcoming
    BY <1>0, <2>1 DEF Listed, Awaited, Upcoming
  <2> QED
    BY <2>1, <2>2, StepStays DEF FifoStep
<1>4. CASE \/ AddAttempts \/ AddCheck \/ AddMalloc \/ AddLast \/ AddLoad
           \/ AddCount
  <2>1. /\ q'.count = q.count /\ q'.max_count = q.max_count
        /\ w'.i = w.i /\ UNCHANGED r
    BY <1>0, <1>4
    DEF AddAttempts, AddCheck, AddMalloc, AddLast, AddLoad, AddCount,
        Queues, WriterLocals
  <2>2. /\ Linked' = Linked /\ Unlinked' = Unlinked
        /\ UNCHANGED pc["reader"]
        /\ pc["writer"] \in {"add_last", "add_load", "add_store"}
             <=> pc'["writer"] \in {"add_last", "add_load", "add_store"}
    BY <1>0, <1>4, ListTells
    DEF AddAttempts, AddCheck, AddMalloc, AddLast, AddLoad, AddCount,
        ResultsLate, AddBody
  <2>3. Listed' = Listed /\ Awaited' = Awaited /\ Upcoming' = Upcoming
    BY <2>1, <2>2 DEF Listed, Awaited, Upcoming
  <2> QED
    BY <2>1, <2>3, StepStays DEF FifoStep
<1>5. CASE AddFirst /\ q.first # NULL
  <2>1. /\ UNCHANGED <<q, w, r, res>> /\ pc["writer"] = "add_first"
        /\ pc' = [pc EXCEPT !["writer"] = "add_append"]
    BY <1>5 DEF AddFirst
  <2>2. Listed' = Listed /\ Awaited' = Awaited /\ Upcoming' = Upcoming
    BY <1>0, <2>1 DEF Listed, Awaited, Upcoming
  <2> QED
    BY <2>1, <2>2, StepStays DEF FifoStep
<1> QED
  BY <1>1, <1>2, <1>3, <1>4, <1>5 DEF queue_add

(***************************************************************************)
(* queue_get (queue.c:175-199) gets the value at the assignment of first.  *)
(***************************************************************************)
LEMMA GetImplements ==
  ASSUME NEW places, QueueInv(places), ListInv, ListInv', Listing, Listing',
         queue_get, pc["writer"] \notin AddBody
  PROVE  FifoStep
<1> USE DEF At, Goto, Finish, Threads, AddBody, One, Linked, Unlinked
<1>0. /\ q \in Queues /\ r \in ReaderLocals /\ pc \in [Threads -> places]
      /\ res \in [Threads -> Results]
      /\ q.count \in Nat /\ q.max_count \in Nat
  BY DEF QueueInv, QueueTypeOK, Queues
<1>1. CASE GetFirst
  <2>1. /\ pc["reader"] = "get_first" /\ res["reader"] = "none"
        /\ r.val = r.expected
    BY <1>1, ListTells DEF GetFirst, ResultsLate, AsExpected, GetBody
  <2>2. /\ q'.count = q.count /\ q'.max_count = q.max_count
        /\ pc' = [pc EXCEPT !["reader"] = "get_free"]
        /\ UNCHANGED <<w, r, res>>
    BY <1>0, <1>1 DEF GetFirst, Queues
  <2>3. /\ Listed' = Listed - 1 /\ Awaited' = Next_value(Awaited)
        /\ Upcoming' = Upcoming
    BY <1>0, <2>1, <2>2 DEF Listed, Awaited, Upcoming
  <2> QED
    BY <2>2, <2>3, StepGets DEF FifoStep, Abstract!Next
<1>2. CASE GetStore
  <2>1. /\ pc["reader"] = "get_store" /\ q'.count = q.count - 1
        /\ q'.max_count = q.max_count
        /\ pc' = [pc EXCEPT !["reader"] = "get_count"]
        /\ UNCHANGED <<w, r, res>>
    BY <1>0, <1>2, ListTells DEF GetStore, Queues
  <2>2. /\ Listed' = Listed /\ Awaited' = Awaited /\ Upcoming' = Upcoming
    BY <1>0, <2>1 DEF Listed, Awaited, Upcoming
  <2> QED
    BY <2>1, <2>2, StepStays DEF FifoStep
<1>3. CASE GetFree
  <2>1. /\ pc["reader"] = "get_free" /\ r.tmp \in live
    BY <1>3 DEF GetFree, MemorySafe, ListInv, ListIs, Shape
  <2>2. /\ UNCHANGED <<q, w, r, res>>
        /\ pc' = [pc EXCEPT !["reader"] = "get_load"]
    BY <1>3, <2>1 DEF GetFree
  <2>3. Listed' = Listed /\ Awaited' = Awaited /\ Upcoming' = Upcoming
    BY <1>0, <2>1, <2>2 DEF Listed, Awaited, Upcoming
  <2> QED
    BY <2>2, <2>3, StepStays DEF FifoStep
<1>4. CASE GetValue
  <2>1. /\ UNCHANGED <<q, w, res>> /\ r'.expected = r.expected
        /\ pc["reader"] = "get_value" /\ res["reader"] = "none"
        /\ \/ pc' = pc
           \/ pc' = [pc EXCEPT !["reader"] = "get_next"]
    BY <1>0, <1>4, ListTells DEF GetValue, ReaderLocals, ResultsLate, GetBody
  <2>2. Listed' = Listed /\ Awaited' = Awaited /\ Upcoming' = Upcoming
    BY <1>0, <2>1 DEF Listed, Awaited, Upcoming
  <2> QED
    BY <2>1, <2>2, StepStays DEF FifoStep
<1>5. CASE GetAttempts \/ GetCheck \/ GetNext \/ GetLoad \/ GetCount
  <2>1. /\ q'.count = q.count /\ q'.max_count = q.max_count
        /\ r'.val = r.val /\ r'.expected = r.expected /\ UNCHANGED w
    BY <1>0, <1>5
    DEF GetAttempts, GetCheck, GetNext, GetLoad, GetCount, Queues, ReaderLocals
  <2>2. /\ Linked' = Linked /\ Unlinked' = Unlinked
        /\ UNCHANGED pc["writer"]
        /\ pc["reader"] \in {"get_free", "get_load", "get_store"}
             <=> pc'["reader"] \in {"get_free", "get_load", "get_store"}
    BY <1>0, <1>5, ListTells
    DEF GetAttempts, GetCheck, GetNext, GetLoad, GetCount, ResultsLate, GetBody
  <2>3. Listed' = Listed /\ Awaited' = Awaited /\ Upcoming' = Upcoming
    BY <2>1, <2>2 DEF Listed, Awaited, Upcoming
  <2> QED
    BY <2>1, <2>3, StepStays DEF FifoStep
<1> QED
  BY <1>1, <1>2, <1>3, <1>4, <1>5 DEF queue_get

\* The loops of the threads (queue-threads.c:31-68) move on to the next value
\* only after a call that has put or got the last one.
LEMMA LoopImplements ==
  ASSUME NEW places, QueueInv(places), Listing, Listing', Writer \/ Reader
  PROVE  FifoStep
<1>1. /\ w \in WriterLocals /\ r \in ReaderLocals
      /\ pc \in [Threads -> places] /\ res \in [Threads -> Results]
  BY DEF QueueInv, QueueTypeOK
<1>2. Listed' = Listed /\ q' = q
  BY <1>1 DEF Writer, Reader, Listed, At, Goto, Threads, One
<1>3. Awaited' = Awaited /\ Upcoming' = Upcoming
  BY <1>1 DEF Writer, Reader, Awaited, Upcoming, Linked, Unlinked, At, Goto,
     Threads, NoWriterLocals, NoReaderLocals, WriterLocals, ReaderLocals
<1> QED
  BY <1>2, <1>3, StepStays DEF FifoStep

\* What surrounds the bodies does not change the buffer.
LEMMA SyncImplements ==
  ASSUME NEW places, QueueTypeOK(places), Listing, Listing',
         NEW t \in Threads, NEW place,
         pc[t] \notin AddBody \cup GetBody,
         \/ place \notin AddBody \cup GetBody
         \/ place = Begin(t) /\ res[t] = "none",
         Goto(t, place), UNCHANGED <<q, res, w, r>>
  PROVE  FifoStep
<1>1. /\ Linked' = Linked /\ Unlinked' = Unlinked
      /\ One(pc["writer"] \in {"add_last", "add_load", "add_store"})' =
           One(pc["writer"] \in {"add_last", "add_load", "add_store"})
      /\ One(pc["reader"] \in {"get_free", "get_load", "get_store"})' =
           One(pc["reader"] \in {"get_free", "get_load", "get_store"})
  BY DEF QueueTypeOK, Linked, Unlinked, Goto, Begin, Threads, AddBody, GetBody,
     One
<1>2. Listed' = Listed /\ Awaited' = Awaited /\ Upcoming' = Upcoming
  BY <1>1 DEF Listed, Awaited, Upcoming
<1> QED
  BY <1>2, StepStays DEF FifoStep

\* Nor does the end of the program, or a step of something else.
LEMMA IdleImplements ==
  ASSUME Listing, Listing', UNCHANGED <<q, pc, res, w, r>>
  PROVE  FifoStep
  BY StepStays DEF FifoStep, Listed, Awaited, Upcoming, Linked, Unlinked, One

\* Bodies that exclude each other, and the loops, implement the buffer.
LEMMA RunImplements ==
  ASSUME NEW places, QueueInv(places), ListInv, ListInv', Listing, Listing',
         NEW t \in Threads, Body(t) \/ Loop(t),
         pc["writer"] \notin AddBody \/ pc["reader"] \notin GetBody
  PROVE  FifoStep
<1>1. CASE Loop(t)
  BY <1>1, LoopImplements DEF Loop
<1>2. CASE Body(t) /\ t = "writer"
  <2>1. queue_add /\ pc["writer"] \in AddBody
    BY <1>2
    DEF Body, queue_add, AddAttempts, AddCheck, AddMalloc, AddFirst, AddAppend,
        AddLast, AddLoad, AddStore, AddCount, At, AddBody
  <2> QED
    BY <2>1, AddImplements
<1>3. CASE Body(t) /\ t = "reader"
  <2>1. queue_get /\ pc["reader"] \in GetBody
    BY <1>3
    DEF Body, queue_get, GetAttempts, GetCheck, GetValue, GetNext, GetFirst,
        GetFree, GetLoad, GetStore, GetCount, At, GetBody
  <2> QED
    BY <2>1, GetImplements
<1> QED
  BY <1>1, <1>2, <1>3 DEF Threads

\* The buffer starts empty.
LEMMA InitImplements ==
  ASSUME QueueInit, Listing
  PROVE  Abstract!Init
<1>1. Listed = 0 /\ Awaited = 0 /\ Upcoming = 0 /\ q.max_count \in Nat
  BY ListQueueAssumption
  DEF QueueInit, Listed, Awaited, Upcoming, Linked, Unlinked, One, Threads,
      NoWriterLocals, NoReaderLocals
<1>2. Contents = <<>>
  BY <1>1 DEF Listing, Consecutive
<1> QED
  BY <1>1, <1>2 DEF Abstract!Init, Awaited, Upcoming

-----------------------------------------------------------------------------
(* The counters of successful calls *)

\* How many nodes the two success counters tell of: a call counts itself last.
Tallied ==
    q.count - One(pc["writer"] = "add_count") + One(pc["reader"] = "get_count")

\* Their difference is that number, up to the times they have wrapped around.
Totalled ==
    \E k \in Int : q.add_count - q.get_count = Tallied + k * LongWidth

\* A counter that goes up grows by one, or wraps around.
LEMMA CountsUp ==
  ASSUME NEW n \in Totals
  PROVE  \E k \in Int : Next_total(n) = n + 1 + k * LongWidth
<1>0. LongWidth \in Nat \ {0}
  BY ListQueueAssumption
<1>1. CASE n + 1 < LongWidth
  <2>1. Next_total(n) = n + 1 + 0 * LongWidth
    BY <1>0, <1>1 DEF Next_total, Totals
  <2> QED
    BY <2>1
<1>2. CASE ~(n + 1 < LongWidth)
  <2>1. Next_total(n) = n + 1 + (-1) * LongWidth
    BY <1>0, <1>2 DEF Next_total, Totals
  <2> QED
    BY <2>1
<1> QED
  BY <1>1, <1>2

\* Numbers that differ by whole turns leave the same remainder.
LEMMA SameRemainder ==
  ASSUME NEW size \in Nat \ {0},
         NEW a \in Int, NEW b \in Int, NEW k \in Int, a = b + k * size
  PROVE  a % size = b % size
<1> DEFINE turns == (a \div size) - (b \div size) - k
           gap == (b % size) - (a % size)
<1>1. /\ a = size * (a \div size) + (a % size)
      /\ b = size * (b \div size) + (b % size)
      /\ a % size \in 0 .. size - 1 /\ b % size \in 0 .. size - 1
      /\ a \div size \in Int /\ b \div size \in Int
  OBVIOUS
<1>2. turns \in Int /\ gap \in Int /\ gap < size /\ -size < gap
  BY <1>1
<1>3. size * turns = gap
  BY <1>1
<1>4. turns = 0
  <2> HIDE DEF turns, gap
  <2>1. turns >= 1 => size * turns >= size
    BY <1>2
  <2>2. turns <= -1 => size * turns <= -size
    BY <1>2
  <2> QED
    BY <1>2, <1>3, <2>1, <2>2
<1>5. gap = 0
  BY <1>3, <1>4
<1> QED
  BY <1>1, <1>5

\* queue_init zeroes them.
LEMMA TotalsInit == QueueInit => Totalled
<1> SUFFICES ASSUME QueueInit
             PROVE  Totalled
  OBVIOUS
<1>1. q.add_count - q.get_count = Tallied + 0 * LongWidth
  BY ListQueueAssumption DEF QueueInit, Tallied, One, Threads
<1> QED
  BY <1>1 DEF Totalled

\* A step that changes neither side keeps them equal.
LEMMA TotalsStay ==
  ASSUME Totalled, q'.add_count = q.add_count, q'.get_count = q.get_count,
         Tallied' = Tallied
  PROVE  Totalled'
  BY DEF Totalled

(***************************************************************************)
(* A body that runs alone (queue.c:137-199) changes q->count and its       *)
(* success counter in turn, each by one.                                   *)
(***************************************************************************)
LEMMA BodyKeepsTotals ==
  ASSUME NEW places, QueueInv(places), ListInv, Totalled,
         NEW t \in Threads, Body(t)
  PROVE  Totalled'
<1> USE DEF At, Goto, Finish, Threads, One
<1>0. /\ q \in Queues /\ pc \in [Threads -> places]
      /\ q.count \in Int /\ q.add_count \in Totals /\ q.get_count \in Totals
      /\ LongWidth \in Nat \ {0}
  BY ListQueueAssumption DEF QueueInv, QueueTypeOK, Queues
<1>1. CASE AddStore
  <2>1. Tallied' = Tallied
    BY <1>0, <1>1, ListTells DEF AddStore, Tallied, Queues
  <2> QED
    BY <1>0, <1>1, <2>1, TotalsStay DEF AddStore, Queues
<1>2. CASE GetStore
  <2>1. Tallied' = Tallied
    BY <1>0, <1>2, ListTells DEF GetStore, Tallied, Queues
  <2> QED
    BY <1>0, <1>2, <2>1, TotalsStay DEF GetStore, Queues
<1>3. CASE AddCount
  <2>1. /\ q'.add_count = Next_total(q.add_count)
        /\ q'.get_count = q.get_count /\ Tallied' = Tallied + 1
        /\ Tallied \in Int
    BY <1>0, <1>3 DEF AddCount, Tallied, Queues
  <2>2. PICK k \in Int : q.add_count - q.get_count = Tallied + k * LongWidth
    BY DEF Totalled
  <2>3. PICK j \in Int :
          Next_total(q.add_count) = q.add_count + 1 + j * LongWidth
    BY <1>0, CountsUp
  <2>4. /\ k + j \in Int
        /\ q'.add_count - q'.get_count = Tallied' + (k + j) * LongWidth
    BY <1>0, <2>1, <2>2, <2>3 DEF Totals
  <2> QED
    BY <2>4 DEF Totalled
<1>4. CASE GetCount
  <2>1. /\ q'.get_count = Next_total(q.get_count)
        /\ q'.add_count = q.add_count /\ Tallied' = Tallied - 1
        /\ Tallied \in Int
    BY <1>0, <1>4 DEF GetCount, Tallied, Queues
  <2>2. PICK k \in Int : q.add_count - q.get_count = Tallied + k * LongWidth
    BY DEF Totalled
  <2>3. PICK j \in Int :
          Next_total(q.get_count) = q.get_count + 1 + j * LongWidth
    BY <1>0, CountsUp
  <2>4. /\ k - j \in Int
        /\ q'.add_count - q'.get_count = Tallied' + (k - j) * LongWidth
    BY <1>0, <2>1, <2>2, <2>3 DEF Totals
  <2> QED
    BY <2>4 DEF Totalled
<1>5. CASE queue_add /\ ~AddStore /\ ~AddCount
  <2>1. /\ q'.count = q.count /\ q'.add_count = q.add_count
        /\ q'.get_count = q.get_count
        /\ pc'["writer"] # "add_count" /\ pc["writer"] # "add_count"
        /\ pc'["reader"] = pc["reader"]
    BY <1>0, <1>5 DEF queue_add, AddAttempts, AddCheck, AddMalloc, AddFirst,
       AddAppend, AddLast, AddLoad, Queues
  <2> QED
    BY <2>1, TotalsStay DEF Tallied
<1>6. CASE queue_get /\ ~GetStore /\ ~GetCount
  <2>1. /\ q'.count = q.count /\ q'.add_count = q.add_count
        /\ q'.get_count = q.get_count
        /\ pc'["reader"] # "get_count" /\ pc["reader"] # "get_count"
        /\ pc'["writer"] = pc["writer"]
    BY <1>0, <1>6 DEF queue_get, GetAttempts, GetCheck, GetValue, GetNext,
       GetFirst, GetFree, GetLoad, Queues
  <2> QED
    BY <2>1, TotalsStay DEF Tallied
<1> QED
  BY <1>1, <1>2, <1>3, <1>4, <1>5, <1>6 DEF Body

\* So do the loops, and what surrounds the bodies.
LEMMA OtherKeepsTotals ==
  ASSUME NEW places, QueueTypeOK(places), Totalled, UNCHANGED q,
         NEW t \in Threads, NEW place, Goto(t, place),
         pc[t] \notin {"add_count", "get_count"},
         place \notin {"add_count", "get_count"}
  PROVE  Totalled'
<1>1. Tallied' = Tallied
  BY DEF QueueTypeOK, Tallied, One, Goto, Threads
<1> QED
  BY <1>1, TotalsStay

(***************************************************************************)
(* Outside the bodies the list is in order (queue.c:137-199): ListInv told *)
(* along the links.                                                        *)
(***************************************************************************)
LEMMA ListConsistent ==
  ASSUME Typed, ListInv, Totalled
  PROVE  Consistent
<1> SUFFICES ASSUME Quiet
             PROVE  /\ live = {NodeAt[k] : k \in 0 .. Length - 1}
                    /\ q.count = Length
                    /\ (q.add_count - q.get_count) % LongWidth
                         = Length % LongWidth
                    /\ Length > 0 => q.last = NodeAt[Length - 1]
  BY DEF Consistent
<1>1. PICK s \in [Nat -> Nodes \cup {NULL}], lo \in Nat, hi \in Nat :
        ListIs(s, lo, hi)
  BY DEF ListInv
<1> DEFINE size == hi - lo
<1>2. /\ Chained(s, lo, hi) /\ Allocated(s, lo, hi) /\ Counted(s, lo, hi)
      /\ size \in Nat /\ Length = size
  <2>1. Chained(s, lo, hi) /\ lo <= hi
    BY <1>1 DEF ListIs, Shape, Chained
  <2> QED
    BY <1>1, <2>1, LengthIs DEF ListIs, Shape
<1>3. /\ pc["writer"] \notin AddBody \cup GetBody
      /\ pc["reader"] \notin AddBody \cup GetBody
  BY DEF Quiet, Threads
<1>4. ASSUME NEW k \in 0 .. size - 1
      PROVE  NodeAt[k] = s[lo + k] /\ lo + k \in lo .. hi - 1
  <2>1. size <= Cardinality(Nodes) /\ Cardinality(Nodes) \in Nat
    BY <1>2, ListFits, ListQueueAssumption, FS_CardinalityType
  <2>2. NodeAt = [i \in 0 .. Cardinality(Nodes) |->
                    IF lo + i < hi THEN s[lo + i] ELSE NULL]
    BY <1>2, NodesAt
  <2> QED
    BY <1>2, <2>1, <2>2
<1>5. \A n : ~InHand(n)
  BY <1>3 DEF InHand, AddBody, GetBody
<1>6. live = {NodeAt[k] : k \in 0 .. size - 1}
  <2>1. ASSUME NEW n \in live
        PROVE  \E k \in 0 .. size - 1 : n = NodeAt[k]
    <3>1. PICK i \in lo .. hi - 1 : n = s[i]
      BY <1>2, <1>5 DEF Allocated
    <3>2. i - lo \in 0 .. size - 1 /\ lo + (i - lo) = i
      BY <1>2
    <3> QED
      BY <1>4, <3>1, <3>2
  <2>2. ASSUME NEW k \in 0 .. size - 1
        PROVE  NodeAt[k] \in live
    BY <1>2, <1>4 DEF Allocated
  <2> QED
    BY <2>1, <2>2
<1>7. q.count = size /\ Tallied = size
  BY <1>2, <1>3 DEF Counted, Tallied, One, AddBody, GetBody, Typed, Queues
<1>8. (q.add_count - q.get_count) % LongWidth = size % LongWidth
  <2>1. PICK k \in Int : q.add_count - q.get_count = size + k * LongWidth
    BY <1>7 DEF Totalled
  <2>2. q.add_count - q.get_count \in Int /\ size \in Int
    BY <1>2 DEF Typed, Queues, Totals
  <2>3. LongWidth \in Nat \ {0}
    BY ListQueueAssumption
  <2> QED
    BY <2>1, <2>2, <2>3, SameRemainder
<1>9. ASSUME size > 0
      PROVE  q.last = NodeAt[size - 1]
  <2>1. lo < hi /\ size - 1 \in 0 .. size - 1 /\ lo + (size - 1) = hi - 1
    BY <1>2, <1>9
  <2>2. NodeAt[size - 1] = s[hi - 1]
    BY <1>4, <2>1
  <2> QED
    BY <1>2, <1>3, <2>1, <2>2 DEF Chained, AddBody
<1> QED
  BY <1>2, <1>6, <1>7, <1>8, <1>9

-----------------------------------------------------------------------------
(***************************************************************************)
(* The queue without a lock                                                *)
(*                                                                         *)
(* UnsyncQueue adds to these statements only the moments at which a call   *)
(* begins and ends.  Its theorems stand here because they need nothing but *)
(* facts about the statements.                                             *)
(***************************************************************************)
Unsync == INSTANCE UnsyncQueue

\* Whatever can be reached from q->first is allocated, and nothing points
\* twice to a node: only a node about to be freed still points to q->first.
Unshared ==
    /\ q.first \in live \cup {NULL}
    /\ \A n \in live : heap[n].next \in live \cup {NULL}
    /\ \A a, b \in live :
         heap[a].next = heap[b].next /\ heap[a].next # NULL => a = b
    /\ \A n \in live : heap[n].next = q.first /\ q.first # NULL =>
                         pc["reader"] = "get_free" /\ n = r.tmp

\* Nothing points to the writer's node before the writer has linked it.
Fresh ==
    pc["writer"] \in {"add_first", "add_append"} =>
        /\ w.new \in live /\ w.new # q.first
        /\ \A n \in live : heap[n].next # w.new
        /\ pc["reader"] \in {"get_next", "get_first", "get_free"} =>
             w.new # r.tmp
        /\ pc["reader"] = "get_first" => w.new # r.next

\* Nothing but q->first points to the node the reader takes off the list,
\* and nothing but that node to the next one.
Detached ==
    /\ pc["reader"] \in {"get_next", "get_first"} =>
         r.tmp \in live /\ q.first = r.tmp
    /\ pc["reader"] = "get_first" =>
         /\ r.next \in live \cup {NULL} /\ r.next # r.tmp
         /\ \A n \in live \ {r.tmp} : heap[n].next = r.next => r.next = NULL
    /\ pc["reader"] = "get_free" =>
         /\ r.tmp \in live /\ q.first # r.tmp
         /\ \A n \in live : heap[n].next # r.tmp
    /\ fault # "double_free"

SingleLinks == Unshared /\ Fresh /\ Detached

\* The queue that is started has no nodes.
LEMMA FirstLinks ==
  ASSUME QueueInit
  PROVE  SingleLinks
  BY ListQueueAssumption
  DEF QueueInit, SingleLinks, Unshared, Fresh, Detached, Threads

\* Most statements do not touch the list.
LEMMA LinksStay ==
  ASSUME SingleLinks, UNCHANGED <<heap, live>>, q'.first = q.first,
         pc'["writer"] \in {"add_first", "add_append"} =>
           pc["writer"] \in {"add_first", "add_append"} /\ w'.new = w.new,
         \A place \in {"get_next", "get_first", "get_free"} :
           /\ pc'["reader"] = place <=> pc["reader"] = place
           /\ pc["reader"] = place => r'.tmp = r.tmp /\ r'.next = r.next,
         fault' # "double_free"
  PROVE  SingleLinks'
<1>1. Unshared'
  BY DEF SingleLinks, Unshared
<1>2. Fresh'
  BY DEF SingleLinks, Fresh
<1>3. Detached'
  BY DEF SingleLinks, Detached
<1> QED
  BY <1>1, <1>2, <1>3 DEF SingleLinks

(***************************************************************************)
(* The statements of queue_add (lab2/1/queue.c:68-96) keep the links       *)
(* single, whatever the reader does in between: a new node hangs on one    *)
(* pointer.                                                                *)
(***************************************************************************)
LEMMA AddKeepsLinks ==
  ASSUME NEW places, QueueInv(places), SingleLinks, queue_add
  PROVE  SingleLinks'
<1> USE DEF At, Goto
<1>0. /\ pc \in [Threads -> places] /\ heap \in [Nodes -> Cells]
      /\ w \in WriterLocals /\ r \in ReaderLocals /\ q \in Queues
      /\ live \subseteq Nodes /\ NULL \notin Nodes
      /\ "writer" \in Threads /\ "reader" \in Threads
  BY ListQueueAssumption DEF QueueInv, QueueTypeOK, Threads
<1>1. CASE AddMalloc
  <2>1. /\ pc["writer"] = "add_malloc" /\ UNCHANGED <<q, r, fault>>
        /\ pc'["reader"] = pc["reader"]
    BY <1>0, <1>1 DEF AddMalloc, Finish
  <2>2. CASE live = Nodes /\ UNCHANGED <<heap, live, w>>
                          /\ Finish("writer", "nomem")
    <3>1. pc'["writer"] = "exit"
      BY <1>0, <2>2 DEF Finish
    <3> QED
      BY <2>1, <2>2, <3>1, LinksStay DEF SingleLinks, Detached
  <2>3. ASSUME NEW n \in Nodes \ live,
               live' = live \cup {n},
               heap' = [heap EXCEPT ![n] = [val |-> w.i, next |-> NULL]],
               w' = [w EXCEPT !.new = n]
        PROVE  SingleLinks'
    <3>1. w'.new = n
      BY <1>0, <2>3 DEF WriterLocals
    <3>2. /\ heap'[n].next = NULL
          /\ \A a \in live : heap'[a].next = heap[a].next
      BY <1>0, <2>3
    <3>3. Unshared'
      BY <1>0, <2>1, <2>3, <3>2 DEF SingleLinks, Unshared
    <3>4. Fresh'
      BY <1>0, <2>1, <2>3, <3>1, <3>2
      DEF SingleLinks, Unshared, Fresh, Detached
    <3>5. Detached'
      BY <1>0, <2>1, <2>3, <3>2 DEF SingleLinks, Detached
    <3> QED
      BY <3>3, <3>4, <3>5 DEF SingleLinks
  <2> QED
    BY <1>1, <2>2, <2>3 DEF AddMalloc
<1>2. CASE AddFirst
  <2>1. /\ pc["writer"] = "add_first" /\ pc'["reader"] = pc["reader"]
        /\ UNCHANGED <<heap, live, w, r, fault>>
    BY <1>0, <1>2 DEF AddFirst
  <2>2. CASE q.first = NULL
    <3>1. q'.first = w.new /\ pc'["writer"] = "add_load"
      BY <1>0, <1>2, <2>2 DEF AddFirst, Queues
    <3>2. Unshared'
      BY <2>1, <3>1 DEF SingleLinks, Unshared, Fresh
    <3>3. Fresh'
      BY <3>1 DEF Fresh
    <3>4. Detached'
      BY <1>0, <2>1, <2>2, <3>1 DEF SingleLinks, Fresh, Detached
    <3> QED
      BY <3>2, <3>3, <3>4 DEF SingleLinks
  <2>3. CASE q.first # NULL
    <3>1. UNCHANGED q /\ pc'["writer"] = "add_append"
      BY <1>0, <1>2, <2>3 DEF AddFirst
    <3> QED
      BY <2>1, <3>1, LinksStay DEF SingleLinks, Detached
  <2> QED
    BY <2>2, <2>3
<1>3. CASE AddAppend
  <2>1. /\ pc["writer"] = "add_append" /\ UNCHANGED <<q, live, w, r>>
    BY <1>3 DEF AddAppend
  <2>2. CASE q.last \in Nodes
    <3>1. /\ heap' = [heap EXCEPT ![q.last].next = w.new] /\ UNCHANGED fault
          /\ pc'["writer"] = "add_last" /\ pc'["reader"] = pc["reader"]
      BY <1>0, <1>3, <2>2 DEF AddAppend
    <3>2. /\ heap'[q.last].next = w.new
          /\ \A n \in live \ {q.last} : heap'[n].next = heap[n].next
      BY <1>0, <2>2, <3>1 DEF Cells
    <3>3. Unshared'
      BY <1>0, <2>1, <3>1, <3>2 DEF SingleLinks, Unshared, Fresh
    <3>4. Fresh'
      BY <3>1 DEF Fresh
    <3>5. Detached'
      BY <1>0, <2>1, <3>1, <3>2 DEF SingleLinks, Fresh, Detached
    <3> QED
      BY <3>3, <3>4, <3>5 DEF SingleLinks
  <2>3. CASE q.last \notin Nodes
    <3>1. UNCHANGED <<heap, pc>> /\ fault' = "segv"
      BY <1>3, <2>3 DEF AddAppend
    <3> QED
      BY <2>1, <3>1, LinksStay
  <2> QED
    BY <2>2, <2>3
<1>4. CASE AddLast
  <2>1. /\ q'.first = q.first /\ pc'["writer"] = "add_load"
        /\ pc'["reader"] = pc["reader"] /\ UNCHANGED <<heap, live, w, r, fault>>
    BY <1>0, <1>4 DEF AddLast, Queues
  <2> QED
    BY <2>1, LinksStay DEF SingleLinks, Detached
<1>5. CASE AddAttempts \/ AddCheck \/ AddLoad \/ AddStore \/ AddCount
  <2>1. /\ q'.first = q.first /\ pc'["reader"] = pc["reader"]
        /\ pc'["writer"] \notin {"add_first", "add_append"}
        /\ UNCHANGED <<heap, live, r>> /\ fault' # "double_free"
    <3>1. CASE AddAttempts
      BY <1>0, <3>1 DEF AddAttempts, Queues, SingleLinks, Detached
    <3>2. CASE AddCheck
      BY <1>0, <3>2 DEF AddCheck, Finish
    <3>3. CASE AddLoad
      BY <1>0, <3>3 DEF AddLoad, SingleLinks, Detached
    <3>4. CASE AddStore
      BY <1>0, <3>4 DEF AddStore, Queues, SingleLinks, Detached
    <3>5. CASE AddCount
      BY <1>0, <3>5 DEF AddCount, Finish, Queues, SingleLinks, Detached
    <3> QED
      BY <1>5, <3>1, <3>2, <3>3, <3>4, <3>5
  <2> QED
    BY <2>1, LinksStay
<1> QED
  BY <1>1, <1>2, <1>3, <1>4, <1>5 DEF queue_add

(***************************************************************************)
(* So do those of queue_get (lab2/1/queue.c:98-116): the node the reader   *)
(* frees hangs on nothing any more.                                        *)
(***************************************************************************)
LEMMA GetKeepsLinks ==
  ASSUME NEW places, QueueInv(places), SingleLinks, queue_get
  PROVE  SingleLinks'
<1> USE DEF At, Goto
<1>0. /\ pc \in [Threads -> places] /\ heap \in [Nodes -> Cells]
      /\ w \in WriterLocals /\ r \in ReaderLocals /\ q \in Queues
      /\ live \subseteq Nodes /\ NULL \notin Nodes
      /\ "writer" \in Threads /\ "reader" \in Threads
  BY ListQueueAssumption DEF QueueInv, QueueTypeOK, Threads
<1>1. CASE GetValue
  <2>1. pc["reader"] = "get_value" /\ UNCHANGED <<q, heap, live, w>>
    BY <1>1 DEF GetValue
  <2>2. CASE q.first \in Nodes
    <3>1. /\ r'.tmp = q.first /\ pc'["reader"] = "get_next"
          /\ pc'["writer"] = pc["writer"] /\ UNCHANGED fault
      BY <1>0, <1>1, <2>2 DEF GetValue, ReaderLocals
    <3>2. Unshared'
      BY <2>1, <3>1 DEF SingleLinks, Unshared
    <3>3. Fresh'
      BY <2>1, <3>1 DEF SingleLinks, Fresh
    <3>4. Detached'
      BY <1>0, <2>1, <2>2, <3>1 DEF SingleLinks, Unshared, Detached
    <3> QED
      BY <3>2, <3>3, <3>4 DEF SingleLinks
  <2>3. CASE q.first \notin Nodes
    <3>1. UNCHANGED <<r, pc>> /\ fault' = "segv"
      BY <1>1, <2>3 DEF GetValue
    <3> QED
      BY <2>1, <3>1, LinksStay
  <2> QED
    BY <2>2, <2>3
<1>2. CASE GetNext
  <2>1. /\ pc["reader"] = "get_next" /\ pc'["reader"] = "get_first"
        /\ pc'["writer"] = pc["writer"] /\ UNCHANGED <<q, heap, live, w, fault>>
        /\ r'.tmp = r.tmp /\ r'.next = heap[q.first].next
    BY <1>0, <1>2 DEF GetNext, ReaderLocals
  <2>2. q.first = r.tmp /\ r.tmp \in live
    BY <2>1 DEF SingleLinks, Detached
  <2>3. Unshared'
    BY <2>1 DEF SingleLinks, Unshared
  <2>4. Fresh'
    BY <2>1, <2>2 DEF SingleLinks, Fresh
  <2>5. Detached'
    BY <1>0, <2>1, <2>2 DEF SingleLinks, Unshared, Detached
  <2> QED
    BY <2>3, <2>4, <2>5 DEF SingleLinks
<1>3. CASE GetFirst
  <2>1. /\ pc["reader"] = "get_first" /\ pc'["reader"] = "get_free"
        /\ pc'["writer"] = pc["writer"] /\ q'.first = r.next
        /\ UNCHANGED <<heap, live, w, r, fault>>
    BY <1>0, <1>3 DEF GetFirst, Queues
  <2>2. Unshared'
    BY <2>1 DEF SingleLinks, Unshared, Detached
  <2>3. Fresh'
    BY <2>1 DEF SingleLinks, Fresh
  <2>4. Detached'
    BY <1>0, <2>1 DEF SingleLinks, Unshared, Detached
  <2> QED
    BY <2>2, <2>3, <2>4 DEF SingleLinks
<1>4. CASE GetFree
  <2>1. /\ pc["reader"] = "get_free" /\ UNCHANGED <<q, res, w, r>>
        /\ r.tmp \in live /\ q.first # r.tmp
        /\ \A n \in live : heap[n].next # r.tmp
    BY <1>4 DEF GetFree, SingleLinks, Detached
  <2>2. /\ live' = live \ {r.tmp} /\ UNCHANGED fault
        /\ pc'["reader"] = "get_load" /\ pc'["writer"] = pc["writer"]
        /\ \A n \in live' : heap'[n] = heap[n]
    BY <1>0, <1>4, <2>1 DEF GetFree
  <2>3. Unshared'
    BY <2>1, <2>2 DEF SingleLinks, Unshared
  <2>4. Fresh'
    BY <2>1, <2>2 DEF SingleLinks, Fresh
  <2>5. Detached'
    BY <2>2 DEF SingleLinks, Detached
  <2> QED
    BY <2>3, <2>4, <2>5 DEF SingleLinks
<1>5. CASE GetAttempts \/ GetCheck \/ GetLoad \/ GetStore \/ GetCount
  <2>1. /\ q'.first = q.first /\ pc'["writer"] = pc["writer"]
        /\ pc["reader"] \notin {"get_next", "get_first", "get_free"}
        /\ pc'["reader"] \notin {"get_next", "get_first", "get_free"}
        /\ UNCHANGED <<heap, live, w>> /\ fault' # "double_free"
    <3>1. CASE GetAttempts
      BY <1>0, <3>1 DEF GetAttempts, Queues, SingleLinks, Detached
    <3>2. CASE GetCheck
      BY <1>0, <3>2 DEF GetCheck, Finish
    <3>3. CASE GetLoad
      BY <1>0, <3>3 DEF GetLoad, SingleLinks, Detached
    <3>4. CASE GetStore
      BY <1>0, <3>4 DEF GetStore, Queues, SingleLinks, Detached
    <3>5. CASE GetCount
      BY <1>0, <3>5 DEF GetCount, Finish, Queues, SingleLinks, Detached
    <3> QED
      BY <1>5, <3>1, <3>2, <3>3, <3>4, <3>5
  <2> QED
    BY <2>1, LinksStay
<1> QED
  BY <1>1, <1>2, <1>3, <1>4, <1>5 DEF queue_get

\* The statements that the instance speaks of are the ones of this module.
LEMMA SameStatements ==
  /\ Unsync!queue_add <=> queue_add
  /\ Unsync!queue_get <=> queue_get
  /\ Unsync!Writer <=> Writer
  /\ Unsync!Reader <=> Reader
<1> USE DEF Unsync!At, At, Unsync!Goto, Goto, Unsync!Finish, Finish,
            Unsync!Next_value, Next_value, Unsync!Next_total, Next_total,
            Unsync!NoWriterLocals, NoWriterLocals, Unsync!NoReaderLocals,
            NoReaderLocals
<1>1. Unsync!queue_add <=> queue_add
  BY DEF Unsync!queue_add, queue_add, Unsync!AddAttempts, AddAttempts,
         Unsync!AddCheck, AddCheck, Unsync!AddMalloc, AddMalloc,
         Unsync!AddFirst, AddFirst, Unsync!AddAppend, AddAppend,
         Unsync!AddLast, AddLast, Unsync!AddLoad, AddLoad, Unsync!AddStore,
         AddStore, Unsync!AddCount, AddCount
<1>2. Unsync!queue_get <=> queue_get
  BY DEF Unsync!queue_get, queue_get, Unsync!GetAttempts, GetAttempts,
         Unsync!GetCheck, GetCheck, Unsync!GetValue, GetValue, Unsync!GetNext,
         GetNext, Unsync!GetFirst, GetFirst, Unsync!GetFree, GetFree,
         Unsync!GetLoad, GetLoad, Unsync!GetStore, GetStore, Unsync!GetCount,
         GetCount
<1>3. Unsync!Writer <=> Writer
  BY DEF Unsync!Writer, Writer
<1>4. Unsync!Reader <=> Reader
  BY DEF Unsync!Reader, Reader
<1> QED
  BY <1>1, <1>2, <1>3, <1>4

LEMMA UnsyncSteps ==
  ASSUME QueueInv(CommonPlaces), [Unsync!Next]_(Unsync!queueVars)
  PROVE  /\ QueueInv(CommonPlaces)'
         /\ SingleLinks => SingleLinks'
<1>1. ASSUME NEW t \in Threads, Body(t) \/ Loop(t)
      PROVE  /\ QueueInv(CommonPlaces)'
             /\ SingleLinks => SingleLinks'
  <2>1. QueueInv(CommonPlaces)'
    BY <1>1, RunKeepsOrder
  <2>2. ASSUME SingleLinks
        PROVE  SingleLinks'
    <3>1. CASE queue_add
      BY <2>2, <3>1, AddKeepsLinks
    <3>2. CASE queue_get
      BY <2>2, <3>2, GetKeepsLinks
    <3>3. CASE Writer \/ Reader
      <4>1. /\ UNCHANGED <<q, heap, live>> /\ fault' # "double_free"
            /\ \A u \in Threads : pc'[u] # pc[u] => pc'[u] = "call"
            /\ pc'["reader"] # pc["reader"] => pc["reader"] = "return"
            /\ pc'["writer"] = pc["writer"] => UNCHANGED w
            /\ pc'["reader"] = pc["reader"] => UNCHANGED r
        BY <2>2, <3>3
        DEF Writer, Reader, At, Goto, QueueInv, QueueTypeOK, Threads,
            SingleLinks, Detached
      <4> QED
        BY <2>2, <4>1, LinksStay DEF Threads
    <3> QED
      BY <1>1, <3>1, <3>2, <3>3 DEF Body, Loop
  <2> QED
    BY <2>1, <2>2
<1>2. ASSUME NEW t \in Threads, Unsync!Enter(t) \/ Unsync!Leave(t)
      PROVE  /\ QueueInv(CommonPlaces)'
             /\ SingleLinks => SingleLinks'
  <2>1. /\ UNCHANGED <<q, heap, live, res, w, r, fault>>
        /\ \E place \in {"add_attempts", "get_attempts", "return"} :
             pc' = [pc EXCEPT ![t] = place]
        /\ pc[t] \in {"call", "exit"}
    BY <1>2
    DEF Unsync!Enter, Unsync!Leave, Unsync!Begin, Unsync!At, Unsync!Goto
  <2>2. QueueInv(CommonPlaces)'
    BY <2>1 DEF QueueInv, QueueTypeOK, Tested, Bounded, Threads,
                CommonPlaces, AddBody, GetBody
  <2>3. /\ pc'["writer"] \in {"add_first", "add_append"} =>
             pc'["writer"] = pc["writer"]
        /\ \A place \in {"get_next", "get_first", "get_free"} :
             pc'["reader"] = place <=> pc["reader"] = place
    BY <2>1 DEF QueueInv, QueueTypeOK, Threads
  <2> QED
    BY <2>1, <2>2, <2>3, LinksStay DEF SingleLinks, Detached
<1>3. CASE UNCHANGED queueVars
  <2>1. QueueInv(CommonPlaces)'
    BY <1>3 DEF queueVars, QueueInv, QueueTypeOK, Tested, Bounded
  <2> QED
    BY <1>3, <2>1, LinksStay DEF queueVars, SingleLinks, Detached
<1> QED
  BY <1>1, <1>2, <1>3, SameStatements
  DEF Unsync!Next, Unsync!Step, Unsync!Body, Unsync!Loop, Body, Loop,
      Unsync!Threads, Threads, Unsync!queueVars, queueVars

\* Every step of the program keeps the queue in order, and its links.
LEMMA UnsyncInvariant ==
  Unsync!Spec => [](QueueInv(CommonPlaces) /\ SingleLinks)
<1>1. Unsync!Init => QueueInv(CommonPlaces) /\ SingleLinks
  <2>1. Unsync!Init => QueueInit
    BY DEF Unsync!Init, Unsync!QueueInit, QueueInit, Unsync!NoWriterLocals,
           NoWriterLocals, Unsync!NoReaderLocals, NoReaderLocals,
           Unsync!Threads, Threads
  <2> QED
    BY <2>1, QueueInitInv, FirstLinks
<1>2. /\ QueueInv(CommonPlaces) /\ SingleLinks
      /\ [Unsync!Next]_(Unsync!queueVars)
      => (QueueInv(CommonPlaces) /\ SingleLinks)'
  BY UnsyncSteps
<1> QED
  BY <1>1, <1>2, PTL DEF Unsync!Spec

\* Type correctness of the queue of lab2/1 (lab2/1/queue.c): every int stays
\* in its width, every pointer is NULL, a cell or a stale link.
THEOREM UnsyncTypeCorrect == Unsync!Spec => []CommonTypeOK
<1>1. QueueInv(CommonPlaces) => CommonTypeOK
  BY DEF QueueInv, CommonTypeOK
<1> QED
  BY <1>1, UnsyncInvariant, PTL

(***************************************************************************)
(* The assertions of queue_add and queue_get (lab2/1/queue.c:71, 101) hold *)
(* for every capacity and every interleaving of the unlocked threads: lost *)
(* updates make q->count wrong, never negative or above max_count.         *)
(***************************************************************************)
THEOREM UnsyncAssertionsHold == Unsync!Spec => []CountInRange
<1>1. QueueInv(CommonPlaces) => CountInRange
  BY DEF QueueInv, Bounded, CountInRange
<1> QED
  BY <1>1, UnsyncInvariant, PTL

(***************************************************************************)
(* Whatever the races, q->first is NULL or an allocated node whenever      *)
(* queue_get follows it (lab2/1/queue.c:106-109), and no node is freed     *)
(* twice (queue.c:111): a node that has left the list cannot come back,    *)
(* because nothing that is allocated points to it.                         *)
(***************************************************************************)
THEOREM UnsyncFirstIsAllocated == Unsync!Spec => []FirstNeverDangles
<1>1. SingleLinks => FirstNeverDangles
  BY DEF SingleLinks, Unshared, Detached, FirstNeverDangles
<1> QED
  BY <1>1, UnsyncInvariant, PTL

(***************************************************************************)
(* What the reader skips                                                   *)
(*                                                                         *)
(* Nodes have numbers: how many the writer had made before.  E is the      *)
(* number that the reader expects, N that of the writer's value, and G     *)
(* that of the node which the reader has got.  The numbers grow along the  *)
(* links, and every one from E on is that of an allocated node, so that    *)
(* what is skipped stays allocated.                                        *)
(***************************************************************************)

\* The result of a call is there only after its body.
Late == \A t \in Threads : res[t] # "none" => pc[t] \in {"exit", "return"}

\* The node to which queue_add will link the next one
Newest == IF pc["writer"] = "add_last" THEN w.new ELSE q.last

\* It is the end of the list, or has left it and nothing is on the list.
LastLinks ==
    /\ Newest \in live => heap[Newest].next = NULL
    /\ Newest \in Nodes \ live => q.first = NULL
    /\ pc["reader"] = "get_first" /\ r.tmp = Newest => r.next = NULL
    /\ pc["reader"] = "get_free" /\ r.tmp = Newest => q.first = NULL
    /\ pc["writer"] \in {"add_first", "add_append"} =>
         heap[w.new].next = NULL
    /\ pc["writer"] = "add_first" /\ q.last = w.new => q.first = NULL
    /\ pc["writer"] = "add_append" => q.last # w.new
    /\ pc["writer"] = "add_last" =>
         /\ w.new \in Nodes /\ q.last \in Nodes
         /\ heap[q.last].next \in {w.new, Wild}

\* Numbers of the nodes made, and of those linked, are below these.
MadeUpTo(N) ==
    IF pc["writer"] \in {"add_first", "add_append"} \/ Linked THEN N + 1
    ELSE N

LinkedUpTo(N) == IF Linked THEN N + 1 ELSE N

Taken == pc["reader"] \in {"get_next", "get_first"} \/ Unlinked

Freed ==
    pc["reader"] \in {"get_load", "get_store", "get_count"}
      \/ res["reader"] = "done"

\* The numbers tell the values, and the order of the links.
Numbered(number, N) ==
    /\ \A n \in live :
         heap[n].val = number[n] % Width /\ number[n] < MadeUpTo(N)
    /\ \A a, b \in live : number[a] = number[b] => a = b
    /\ \A n \in live : heap[n].next # NULL => number[heap[n].next] > number[n]
    /\ pc["writer"] \in {"add_first", "add_append", "add_last"} =>
         number[w.new] = N

\* The reader gets no number twice or late.
Upwards(number, E, N, G) ==
    /\ r.expected = E % Width /\ w.i = N % Width /\ E <= LinkedUpTo(N)
    /\ Taken => r.val = G % Width /\ E <= G /\ G < LinkedUpTo(N)
    /\ pc["reader"] \in {"get_next", "get_first", "get_free"} =>
         number[r.tmp] = G
    /\ pc["reader"] = "get_first" /\ r.next # NULL => number[r.next] > G
    /\ q.first # NULL => /\ number[q.first] >= E
                         /\ Unlinked => number[q.first] > G

\* The nodes of all numbers that the reader may still expect are allocated.
Kept(number, E, N, G) ==
    \A k \in Nat :
      k >= E /\ k < MadeUpTo(N) =>
        (\E n \in live : number[n] = k) \/ (Freed /\ k = G)

Account(number, E, N, G) ==
    /\ Numbered(number, N)
    /\ Upwards(number, E, N, G)
    /\ Kept(number, E, N, G)

Accounted ==
    \E number \in [Nodes -> Nat], E, N, G \in Nat : Account(number, E, N, G)

\* The parts of the types that are used one by one below.
LEMMA Parts ==
  ASSUME NEW places, QueueInv(places)
  PROVE  /\ pc \in [Threads -> places] /\ res \in [Threads -> Results]
         /\ heap \in [Nodes -> Cells] /\ live \subseteq Nodes
         /\ w \in WriterLocals /\ r \in ReaderLocals /\ q \in Queues
         /\ NULL \notin Nodes /\ Wild \notin Nodes /\ NULL # Wild
         /\ "writer" \in Threads /\ "reader" \in Threads
  BY ListQueueAssumption DEF QueueInv, QueueTypeOK, Threads

\* Results come and go at the end of a body and at the top of the loop.
LEMMA LateStays ==
  ASSUME QueueInv(CommonPlaces), Late,
         \/ queue_add \/ queue_get \/ Writer \/ Reader
         \/ \E t \in Threads : Unsync!Enter(t) \/ Unsync!Leave(t)
         \/ UNCHANGED queueVars
  PROVE  Late'
<1>0. /\ pc \in [Threads -> CommonPlaces] /\ res \in [Threads -> Results]
      /\ Threads = {"writer", "reader"}
  BY Parts DEF Threads
<1>1. ASSUME NEW t \in Threads, NEW place, NEW result,
             pc[t] \notin {"exit", "return"},
             pc' = [pc EXCEPT ![t] = place],
             \/ UNCHANGED res
             \/ place = "exit" /\ res' = [res EXCEPT ![t] = result]
      PROVE  Late'
  BY <1>0, <1>1 DEF Late
<1>2. CASE queue_add
  <2>1. UNCHANGED <<pc, res>> => Late'
    BY DEF Late
  <2> QED
    BY <1>0, <1>1, <1>2, <2>1
    DEF queue_add, AddAttempts, AddCheck, AddMalloc, AddFirst, AddAppend,
        AddLast, AddLoad, AddStore, AddCount, At, Goto, Finish
<1>3. CASE queue_get
  <2>1. UNCHANGED <<pc, res>> => Late'
    BY DEF Late
  <2> QED
    BY <1>0, <1>1, <1>3, <2>1
    DEF queue_get, GetAttempts, GetCheck, GetValue, GetNext, GetFirst,
        GetFree, GetLoad, GetStore, GetCount, At, Goto, Finish
<1>4. CASE Writer \/ Reader
  BY <1>0, <1>4 DEF Writer, Reader, At, Goto, Late
<1>5. CASE \E t \in Threads : Unsync!Enter(t) \/ Unsync!Leave(t)
  BY <1>0, <1>5
  DEF Unsync!Enter, Unsync!Leave, Unsync!At, Unsync!Goto, Late
<1>6. CASE UNCHANGED queueVars
  BY <1>6 DEF queueVars, Late
<1> QED
  BY <1>2, <1>3, <1>4, <1>5, <1>6

\* Most statements move neither end of the list.
LEMMA LastStays ==
  ASSUME LastLinks, UNCHANGED <<heap, live>>,
         q'.first = q.first, q'.last = q.last,
         pc'["writer"] = "add_last" <=> pc["writer"] = "add_last",
         \A place \in {"add_first", "add_append", "add_last"} :
           pc'["writer"] = place => pc["writer"] = place /\ w'.new = w.new,
         \A place \in {"get_first", "get_free"} :
           pc'["reader"] = place =>
             pc["reader"] = place /\ r'.tmp = r.tmp /\ r'.next = r.next
  PROVE  LastLinks'
<1>1. Newest' = Newest
  BY DEF Newest
<1> QED
  BY <1>1 DEF LastLinks

(***************************************************************************)
(* queue_add (lab2/1/queue.c:68-96) links the new node behind the end of   *)
(* the list, or behind a node that has left it: then the new node is lost. *)
(***************************************************************************)
LEMMA AddKeepsLast ==
  ASSUME NEW places, QueueInv(places), SingleLinks, LastLinks, queue_add
  PROVE  LastLinks'
<1> USE DEF At, Goto
<1>0. /\ pc \in [Threads -> places] /\ heap \in [Nodes -> Cells]
      /\ w \in WriterLocals /\ r \in ReaderLocals /\ q \in Queues
      /\ live \subseteq Nodes /\ NULL \notin Nodes
      /\ Wild \notin Nodes /\ NULL # Wild
      /\ "writer" \in Threads /\ "reader" \in Threads
  BY Parts
<1>1. CASE AddMalloc
  <2>1. /\ pc["writer"] = "add_malloc" /\ UNCHANGED <<q, r>>
        /\ pc'["reader"] = pc["reader"]
    BY <1>0, <1>1 DEF AddMalloc, Finish
  <2>2. CASE live = Nodes /\ UNCHANGED <<heap, live, w>>
                          /\ Finish("writer", "nomem")
    <3>1. pc'["writer"] = "exit"
      BY <1>0, <2>2 DEF Finish
    <3> QED
      BY <2>1, <2>2, <3>1, LastStays
  <2>3. ASSUME NEW n \in Nodes \ live,
               live' = live \cup {n},
               heap' = [heap EXCEPT ![n] = [val |-> w.i, next |-> NULL]],
               w' = [w EXCEPT !.new = n],
               Goto("writer", "add_first")
        PROVE  LastLinks'
    <3>1. w'.new = n /\ pc'["writer"] = "add_first"
      BY <1>0, <2>3 DEF WriterLocals
    <3>2. /\ heap'[n].next = NULL
          /\ \A a \in live : heap'[a].next = heap[a].next
      BY <1>0, <2>3
    <3>3. Newest = q.last /\ Newest' = q.last
      BY <2>1, <3>1 DEF Newest
    <3> QED
      BY <1>0, <2>1, <2>3, <3>1, <3>2, <3>3 DEF LastLinks
  <2> QED
    BY <1>1, <2>2, <2>3 DEF AddMalloc
<1>2. CASE AddFirst
  <2>1. /\ pc["writer"] = "add_first" /\ pc'["reader"] = pc["reader"]
        /\ UNCHANGED <<heap, live, w, r>>
    BY <1>0, <1>2 DEF AddFirst
  <2>2. w.new \in live
    BY <2>1 DEF SingleLinks, Fresh
  <2>3. CASE q.first = NULL
    <3>1. /\ q'.first = w.new /\ q'.last = w.new
          /\ pc'["writer"] = "add_load"
      BY <1>0, <1>2, <2>3 DEF AddFirst, Queues
    <3>2. Newest' = w.new
      BY <3>1 DEF Newest
    <3>3. pc'["reader"] \in {"get_first", "get_free"} => r'.tmp # w.new
      BY <2>1 DEF SingleLinks, Fresh
    <3> QED
      BY <2>1, <2>2, <3>1, <3>2, <3>3 DEF LastLinks
  <2>4. CASE q.first # NULL
    <3>1. UNCHANGED q /\ pc'["writer"] = "add_append"
      BY <1>0, <1>2, <2>4 DEF AddFirst
    <3>2. Newest = q.last /\ Newest' = q.last
      BY <2>1, <3>1 DEF Newest
    <3> QED
      BY <2>1, <2>4, <3>1, <3>2 DEF LastLinks
  <2> QED
    BY <2>3, <2>4
<1>3. CASE AddAppend
  <2>1. /\ pc["writer"] = "add_append" /\ UNCHANGED <<q, live, w, r>>
    BY <1>3 DEF AddAppend
  <2>2. CASE q.last \in Nodes
    <3>1. /\ heap' = [heap EXCEPT ![q.last].next = w.new]
          /\ pc'["writer"] = "add_last" /\ pc'["reader"] = pc["reader"]
      BY <1>0, <1>3, <2>2 DEF AddAppend
    <3>2. /\ heap'[q.last].next = w.new /\ w.new \in live
          /\ w.new # q.last /\ heap[w.new].next = NULL
      BY <1>0, <2>1, <2>2, <3>1 DEF Cells, SingleLinks, Fresh, LastLinks
    <3>3. heap'[w.new].next = NULL
      BY <1>0, <3>1, <3>2
    <3>4. Newest' = w.new
      BY <2>1, <3>1 DEF Newest
    <3>5. pc'["reader"] \in {"get_first", "get_free"} => r'.tmp # w.new
      BY <2>1, <3>1 DEF SingleLinks, Fresh
    <3> QED
      BY <1>0, <2>1, <2>2, <3>1, <3>2, <3>3, <3>4, <3>5 DEF LastLinks
  <2>3. CASE q.last \notin Nodes
    <3>1. UNCHANGED <<heap, pc>>
      BY <1>3, <2>3 DEF AddAppend
    <3> QED
      BY <2>1, <3>1, LastStays
  <2> QED
    BY <2>2, <2>3
<1>4. CASE AddLast
  <2>1. /\ q'.first = q.first /\ q'.last = heap[q.last].next
        /\ pc["writer"] = "add_last" /\ pc'["writer"] = "add_load"
        /\ pc'["reader"] = pc["reader"] /\ UNCHANGED <<heap, live, w, r>>
    BY <1>0, <1>4 DEF AddLast, Queues
  <2>2. Newest = w.new /\ Newest' \in {w.new, Wild}
    BY <2>1 DEF LastLinks, Newest
  <2>3. r.tmp # Wild
    BY <1>0 DEF ReaderLocals
  <2> QED
    BY <1>0, <2>1, <2>2, <2>3 DEF LastLinks
<1>5. CASE AddAttempts \/ AddCheck \/ AddLoad \/ AddStore \/ AddCount
  <2>1. /\ q'.first = q.first /\ q'.last = q.last
        /\ pc'["reader"] = pc["reader"] /\ UNCHANGED <<heap, live, r>>
        /\ \A place \in {"add_first", "add_append", "add_last"} :
             pc["writer"] # place /\ pc'["writer"] # place
    <3>1. CASE AddAttempts
      BY <1>0, <3>1 DEF AddAttempts, Queues
    <3>2. CASE AddCheck
      BY <1>0, <3>2 DEF AddCheck, Finish
    <3>3. CASE AddLoad
      BY <1>0, <3>3 DEF AddLoad
    <3>4. CASE AddStore
      BY <1>0, <3>4 DEF AddStore, Queues
    <3>5. CASE AddCount
      BY <1>0, <3>5 DEF AddCount, Finish, Queues
    <3> QED
      BY <1>5, <3>1, <3>2, <3>3, <3>4, <3>5
  <2> QED
    BY <2>1, LastStays
<1> QED
  BY <1>1, <1>2, <1>3, <1>4, <1>5 DEF queue_add

\* queue_get (lab2/1/queue.c:98-116) takes the end of the list off it only
\* when nothing is left on the list.
LEMMA GetKeepsLast ==
  ASSUME NEW places, QueueInv(places), SingleLinks, LastLinks, queue_get
  PROVE  LastLinks'
<1> USE DEF At, Goto
<1>0. /\ pc \in [Threads -> places] /\ heap \in [Nodes -> Cells]
      /\ w \in WriterLocals /\ r \in ReaderLocals /\ q \in Queues
      /\ live \subseteq Nodes /\ NULL \notin Nodes
      /\ "writer" \in Threads /\ "reader" \in Threads
  BY Parts
<1>1. CASE GetNext
  <2>1. /\ pc["reader"] = "get_next" /\ pc'["reader"] = "get_first"
        /\ pc'["writer"] = pc["writer"] /\ UNCHANGED <<q, heap, live, w>>
        /\ r'.tmp = r.tmp /\ r'.next = heap[q.first].next
    BY <1>0, <1>1 DEF GetNext, ReaderLocals
  <2>2. q.first = r.tmp /\ r.tmp \in live
    BY <2>1 DEF SingleLinks, Detached
  <2>3. Newest' = Newest
    BY <2>1 DEF Newest
  <2> QED
    BY <2>1, <2>2, <2>3 DEF LastLinks
<1>2. CASE GetFirst
  <2>1. /\ pc["reader"] = "get_first" /\ pc'["reader"] = "get_free"
        /\ pc'["writer"] = pc["writer"]
        /\ q'.first = r.next /\ q'.last = q.last
        /\ UNCHANGED <<heap, live, w, r>>
    BY <1>0, <1>2 DEF GetFirst, Queues
  <2>2. q.first \in live
    BY <2>1 DEF SingleLinks, Detached
  <2>3. Newest' = Newest
    BY <2>1 DEF Newest
  <2> QED
    BY <1>0, <2>1, <2>2, <2>3 DEF LastLinks
<1>3. CASE GetFree
  <2>1. /\ pc["reader"] = "get_free" /\ UNCHANGED <<q, w, r>>
        /\ r.tmp \in live
        /\ pc["writer"] \in {"add_first", "add_append"} => w.new # r.tmp
    BY <1>3 DEF GetFree, SingleLinks, Detached, Fresh
  <2>2. /\ live' = live \ {r.tmp}
        /\ pc'["reader"] = "get_load" /\ pc'["writer"] = pc["writer"]
        /\ \A n \in Nodes \ {r.tmp} : heap'[n] = heap[n]
        /\ heap'[r.tmp].next \in {heap[r.tmp].next, Wild}
    BY <1>0, <1>3, <2>1 DEF GetFree
  <2>3. Newest' = Newest
    BY <2>1, <2>2 DEF Newest
  <2>4. Newest \in live' => heap'[Newest].next = NULL
    BY <1>0, <2>1, <2>2 DEF LastLinks
  <2>5. Newest \in Nodes \ live' => q.first = NULL
    BY <2>1, <2>2 DEF LastLinks
  <2>6. pc["writer"] \in {"add_first", "add_append"} =>
          heap'[w.new].next = NULL
    BY <1>0, <2>1, <2>2 DEF LastLinks, SingleLinks, Fresh
  <2>7. pc["writer"] = "add_last" => heap'[q.last].next \in {w.new, Wild}
    BY <2>1, <2>2 DEF LastLinks
  <2> QED
    BY <2>1, <2>2, <2>3, <2>4, <2>5, <2>6, <2>7 DEF LastLinks
<1>4. CASE GetAttempts \/ GetCheck \/ GetValue \/ GetLoad \/ GetStore
             \/ GetCount
  <2>1. /\ q'.first = q.first /\ q'.last = q.last
        /\ pc'["writer"] = pc["writer"] /\ UNCHANGED <<heap, live, w>>
        /\ pc'["reader"] \notin {"get_first", "get_free"}
    <3>1. CASE GetAttempts
      BY <1>0, <3>1 DEF GetAttempts, Queues
    <3>2. CASE GetCheck
      BY <1>0, <3>2 DEF GetCheck, Finish
    <3>3. CASE GetValue
      BY <1>0, <3>3 DEF GetValue
    <3>4. CASE GetLoad
      BY <1>0, <3>4 DEF GetLoad
    <3>5. CASE GetStore
      BY <1>0, <3>5 DEF GetStore, Queues
    <3>6. CASE GetCount
      BY <1>0, <3>6 DEF GetCount, Finish, Queues
    <3> QED
      BY <1>4, <3>1, <3>2, <3>3, <3>4, <3>5, <3>6
  <2> QED
    BY <2>1, LastStays
<1> QED
  BY <1>1, <1>2, <1>3, <1>4 DEF queue_get

\* Most statements move no node and no number.
LEMMA AccountStays ==
  ASSUME NEW number, NEW E, NEW N, NEW G, Account(number, E, N, G),
         UNCHANGED <<heap, live>>, q'.first = q.first, w'.i = w.i,
         r'.expected = r.expected, Taken => r'.val = r.val,
         Linked' <=> Linked,
         pc'["writer"] \in {"add_first", "add_append"} <=>
           pc["writer"] \in {"add_first", "add_append"},
         pc'["writer"] \in {"add_first", "add_append", "add_last"} =>
           /\ pc["writer"] \in {"add_first", "add_append", "add_last"}
           /\ w'.new = w.new,
         Unlinked' <=> Unlinked, Taken' <=> Taken, Freed' <=> Freed,
         \A place \in {"get_next", "get_first", "get_free"} :
           pc'["reader"] = place =>
             pc["reader"] = place /\ r'.tmp = r.tmp /\ r'.next = r.next
  PROVE  Account(number, E, N, G)'
<1>1. MadeUpTo(N)' = MadeUpTo(N) /\ LinkedUpTo(N)' = LinkedUpTo(N)
  BY DEF MadeUpTo, LinkedUpTo
<1>2. Numbered(number, N)'
  BY <1>1 DEF Account, Numbered
<1>3. Upwards(number, E, N, G)'
  BY <1>1 DEF Account, Upwards
<1>4. Kept(number, E, N, G)'
  BY <1>1 DEF Account, Kept
<1> QED
  BY <1>2, <1>3, <1>4 DEF Account

\* queue_init leaves nothing to number.
LEMMA AccountInit ==
  ASSUME QueueInit
  PROVE  Late /\ LastLinks /\ Accounted
<1>1. /\ pc = [t \in Threads |-> "call"] /\ res = [t \in Threads |-> "none"]
      /\ live = {} /\ q.first = NULL /\ q.last = NULL
      /\ w.i = 0 /\ r.expected = 0
      /\ "writer" \in Threads /\ "reader" \in Threads
      /\ NULL \notin Nodes /\ Width \in Nat \ {0}
  BY ListQueueAssumption
  DEF QueueInit, NoWriterLocals, NoReaderLocals, Threads
<1>2. Late
  BY <1>1 DEF Late
<1>3. LastLinks
  BY <1>1 DEF LastLinks, Newest
<1>4. PICK number \in [Nodes -> Nat] : number = [n \in Nodes |-> 0]
  OBVIOUS
<1>5. ~Linked /\ ~Unlinked /\ ~Taken
  BY <1>1 DEF Linked, Unlinked, Taken
<1>6. MadeUpTo(0) = 0 /\ LinkedUpTo(0) = 0
  BY <1>1, <1>5 DEF MadeUpTo, LinkedUpTo
<1>7. 0 % Width = 0
  BY <1>1
<1>8. Numbered(number, 0)
  BY <1>1 DEF Numbered
<1>9. Upwards(number, 0, 0, 0)
  BY <1>1, <1>5, <1>6, <1>7 DEF Upwards
<1>10. Kept(number, 0, 0, 0)
  BY <1>6 DEF Kept
<1>11. Account(number, 0, 0, 0)
  BY <1>8, <1>9, <1>10 DEF Account
<1> QED
  BY <1>2, <1>3, <1>4, <1>11 DEF Accounted

(***************************************************************************)
(* queue_add (lab2/1/queue.c:68-96) gives its node the next number, and    *)
(* links it behind smaller numbers only.                                   *)
(***************************************************************************)
LEMMA AddKeepsAccount ==
  ASSUME NEW places, QueueInv(places), SingleLinks, LastLinks, Late,
         Accounted, queue_add
  PROVE  Accounted'
<1> USE DEF At, Goto
<1>0. /\ pc \in [Threads -> places] /\ res \in [Threads -> Results]
      /\ heap \in [Nodes -> Cells]
      /\ w \in WriterLocals /\ r \in ReaderLocals /\ q \in Queues
      /\ live \subseteq Nodes /\ NULL \notin Nodes
      /\ "writer" \in Threads /\ "reader" \in Threads
  BY Parts
<1>1. PICK number \in [Nodes -> Nat], E \in Nat, N \in Nat, G \in Nat :
        Account(number, E, N, G)
  BY DEF Accounted
<1>2. SUFFICES \E num \in [Nodes -> Nat] : Account(num, E, N, G)'
  BY DEF Accounted
<1>3. /\ res["writer"] = "none"
      /\ pc'["reader"] = pc["reader"] /\ res'["reader"] = res["reader"]
      /\ UNCHANGED r
  <2>1. pc["writer"] \in AddBody
    BY DEF queue_add, AddAttempts, AddCheck, AddMalloc, AddFirst, AddAppend,
           AddLast, AddLoad, AddStore, AddCount, AddBody
  <2>2. res["writer"] = "none"
    BY <1>0, <2>1 DEF Late, AddBody
  <2> QED
    BY <1>0, <2>2
    DEF queue_add, AddAttempts, AddCheck, AddMalloc, AddFirst, AddAppend,
        AddLast, AddLoad, AddStore, AddCount, Finish
<1>4. (Unlinked' <=> Unlinked) /\ (Taken' <=> Taken) /\ (Freed' <=> Freed)
  BY <1>3 DEF Unlinked, Taken, Freed
<1>5. CASE AddMalloc
  <2>1. /\ pc["writer"] = "add_malloc" /\ UNCHANGED q
    BY <1>5 DEF AddMalloc
  <2>2. CASE live = Nodes /\ UNCHANGED <<heap, live, w>>
                          /\ Finish("writer", "nomem")
    <3>1. pc'["writer"] = "exit" /\ res'["writer"] = "nomem"
      BY <1>0, <2>2 DEF Finish
    <3>2. ~Linked /\ ~Linked'
      BY <1>3, <2>1, <3>1 DEF Linked
    <3>3. Account(number, E, N, G)'
      BY <1>1, <1>3, <1>4, <2>1, <2>2, <3>1, <3>2, AccountStays
    <3> QED
      BY <3>3
  <2>3. ASSUME NEW n \in Nodes \ live,
               live' = live \cup {n},
               heap' = [heap EXCEPT ![n] = [val |-> w.i, next |-> NULL]],
               w' = [w EXCEPT !.new = n],
               Goto("writer", "add_first"), UNCHANGED res
        PROVE  \E num \in [Nodes -> Nat] : Account(num, E, N, G)'
    <3>1. w'.new = n /\ w'.i = w.i /\ pc'["writer"] = "add_first"
      BY <1>0, <2>3 DEF WriterLocals
    <3>2. /\ heap'[n].next = NULL /\ heap'[n].val = w.i
          /\ \A a \in live : heap'[a] = heap[a]
      BY <1>0, <2>3
    <3>3. PICK num \in [Nodes -> Nat] : num = [number EXCEPT ![n] = N]
      OBVIOUS
    <3>4. num[n] = N /\ \A a \in live : num[a] = number[a]
      BY <1>0, <2>3, <3>3
    <3>5. ~Linked /\ ~Linked'
      BY <1>3, <2>1, <2>3, <3>1 DEF Linked
    <3>6. /\ MadeUpTo(N) = N /\ MadeUpTo(N)' = N + 1
          /\ LinkedUpTo(N) = N /\ LinkedUpTo(N)' = N
      BY <2>1, <3>1, <3>5 DEF MadeUpTo, LinkedUpTo
    <3>7. /\ \A a \in live : heap[a].next # NULL => heap[a].next \in live
          /\ q.first # NULL => q.first \in live
          /\ pc["reader"] \in {"get_next", "get_first", "get_free"} =>
               r.tmp \in live
          /\ pc["reader"] = "get_first" /\ r.next # NULL => r.next \in live
      BY DEF SingleLinks, Unshared, Detached
    <3>8. Numbered(number, N) /\ Upwards(number, E, N, G)
          /\ Kept(number, E, N, G)
      BY <1>1 DEF Account
    <3>9. Numbered(num, N)'
      <4>1. \A a \in live' : heap'[a].val = num[a] % Width
                             /\ num[a] < MadeUpTo(N)'
        BY <1>0, <2>3, <3>2, <3>4, <3>6, <3>8 DEF Numbered, Upwards
      <4>2. \A a, b \in live' : num[a] = num[b] => a = b
        BY <1>0, <2>3, <3>4, <3>6, <3>8 DEF Numbered
      <4>3. \A a \in live' : heap'[a].next # NULL =>
                               num[heap'[a].next] > num[a]
        BY <2>3, <3>2, <3>4, <3>7, <3>8 DEF Numbered
      <4> QED
        BY <3>1, <3>4, <4>1, <4>2, <4>3 DEF Numbered
    <3>10. Upwards(num, E, N, G)'
      BY <1>3, <1>4, <2>1, <3>1, <3>4, <3>6, <3>7, <3>8 DEF Upwards
    <3>11. Kept(num, E, N, G)'
      <4> SUFFICES ASSUME NEW k \in Nat, k >= E, k < N + 1,
                          ~(Freed /\ k = G)
                   PROVE  \E a \in live' : num[a] = k
        BY <1>4, <3>6 DEF Kept
      <4>1. CASE k = N
        BY <2>3, <3>4, <4>1
      <4>2. CASE k < N
        BY <2>3, <3>4, <3>6, <3>8, <4>2 DEF Kept
      <4> QED
        BY <4>1, <4>2
    <3> QED
      BY <3>9, <3>10, <3>11 DEF Account
  <2> QED
    BY <1>5, <2>2, <2>3 DEF AddMalloc
<1>6. CASE AddFirst
  <2>1. /\ pc["writer"] = "add_first" /\ UNCHANGED <<heap, live, res, w>>
    BY <1>6 DEF AddFirst
  <2>2. ~Linked
    BY <1>3, <2>1 DEF Linked
  <2>3. CASE q.first = NULL
    <3>1. q'.first = w.new /\ pc'["writer"] = "add_load"
      BY <1>0, <1>6, <2>3 DEF AddFirst, Queues
    <3>2. Linked'
      BY <3>1 DEF Linked
    <3>3. /\ MadeUpTo(N) = N + 1 /\ MadeUpTo(N)' = N + 1
          /\ LinkedUpTo(N) = N /\ LinkedUpTo(N)' = N + 1
      BY <2>1, <2>2, <3>1, <3>2 DEF MadeUpTo, LinkedUpTo
    <3>4. Numbered(number, N) /\ Upwards(number, E, N, G)
          /\ Kept(number, E, N, G)
      BY <1>1 DEF Account
    <3>5. Numbered(number, N)'
      BY <2>1, <3>1, <3>3, <3>4 DEF Numbered
    <3>6. Unlinked => Taken
      BY DEF Taken
    <3>7. number[w.new] = N
      BY <2>1, <3>4 DEF Numbered
    <3>8. Upwards(number, E, N, G)'
      BY <1>3, <1>4, <2>1, <3>1, <3>3, <3>4, <3>6, <3>7 DEF Upwards
    <3>9. Kept(number, E, N, G)'
      BY <1>4, <2>1, <3>3, <3>4 DEF Kept
    <3> QED
      BY <3>5, <3>8, <3>9 DEF Account
  <2>4. CASE q.first # NULL
    <3>1. UNCHANGED q /\ pc'["writer"] = "add_append"
      BY <1>0, <1>6, <2>4 DEF AddFirst
    <3>2. ~Linked'
      BY <1>3, <2>1, <3>1 DEF Linked
    <3>3. Account(number, E, N, G)'
      BY <1>1, <1>3, <1>4, <2>1, <2>2, <3>1, <3>2, AccountStays
    <3> QED
      BY <3>3
  <2> QED
    BY <2>3, <2>4
<1>7. CASE AddAppend
  <2>1. /\ pc["writer"] = "add_append" /\ UNCHANGED <<q, live, res, w>>
    BY <1>7 DEF AddAppend
  <2>2. ~Linked
    BY <1>3, <2>1 DEF Linked
  <2>3. CASE q.last \in Nodes
    <3>1. /\ heap' = [heap EXCEPT ![q.last].next = w.new]
          /\ pc'["writer"] = "add_last"
      BY <1>0, <1>7, <2>3 DEF AddAppend
    <3>2. w.new \in live /\ w.new # q.last
      BY <2>1 DEF SingleLinks, Fresh, LastLinks
    <3>3. /\ \A n \in live : heap'[n].val = heap[n].val
          /\ \A n \in live \ {q.last} : heap'[n].next = heap[n].next
          /\ heap'[q.last].next = w.new
      BY <1>0, <2>3, <3>1 DEF Cells
    <3>4. Linked'
      BY <3>1 DEF Linked
    <3>5. /\ MadeUpTo(N) = N + 1 /\ MadeUpTo(N)' = N + 1
          /\ LinkedUpTo(N) = N /\ LinkedUpTo(N)' = N + 1
      BY <2>1, <2>2, <3>1, <3>4 DEF MadeUpTo, LinkedUpTo
    <3>6. Numbered(number, N) /\ Upwards(number, E, N, G)
          /\ Kept(number, E, N, G)
      BY <1>1 DEF Account
    <3>7. number[w.new] = N
      BY <2>1, <3>6 DEF Numbered
    <3>8. q.last \in live => number[q.last] < N
      BY <1>0, <3>2, <3>5, <3>6, <3>7 DEF Numbered
    <3>9. Numbered(number, N)'
      BY <2>1, <3>1, <3>3, <3>5, <3>6, <3>7, <3>8 DEF Numbered
    <3>10. Upwards(number, E, N, G)'
      BY <1>3, <1>4, <2>1, <3>5, <3>6 DEF Upwards
    <3>11. Kept(number, E, N, G)'
      BY <1>4, <2>1, <3>5, <3>6 DEF Kept
    <3> QED
      BY <3>9, <3>10, <3>11 DEF Account
  <2>4. CASE q.last \notin Nodes
    <3>1. UNCHANGED <<heap, pc>>
      BY <1>7, <2>4 DEF AddAppend
    <3>2. Linked' <=> Linked
      BY <2>1, <3>1 DEF Linked
    <3>3. Account(number, E, N, G)'
      BY <1>1, <1>3, <1>4, <2>1, <3>1, <3>2, AccountStays
    <3> QED
      BY <3>3
  <2> QED
    BY <2>3, <2>4
<1>8. CASE AddAttempts \/ AddCheck \/ AddLast \/ AddLoad \/ AddStore
             \/ AddCount
  <2>1. /\ q'.first = q.first /\ w'.i = w.i /\ UNCHANGED <<heap, live>>
        /\ pc'["writer"] \notin {"add_first", "add_append", "add_last"}
        /\ pc["writer"] \notin {"add_first", "add_append"}
        /\ Linked' <=> Linked
    <3>1. CASE AddAttempts
      BY <1>0, <1>3, <3>1 DEF AddAttempts, Queues, Linked
    <3>2. CASE AddCheck
      BY <1>0, <1>3, <3>2 DEF AddCheck, Finish, Linked
    <3>3. CASE AddLast
      BY <1>0, <3>3 DEF AddLast, Queues, Linked
    <3>4. CASE AddLoad
      BY <1>0, <3>4 DEF AddLoad, WriterLocals, Linked
    <3>5. CASE AddStore
      BY <1>0, <3>5 DEF AddStore, Queues, Linked
    <3>6. CASE AddCount
      BY <1>0, <3>6 DEF AddCount, Finish, Queues, Linked
    <3> QED
      BY <1>8, <3>1, <3>2, <3>3, <3>4, <3>5, <3>6
  <2>2. Account(number, E, N, G)'
    BY <1>1, <1>3, <1>4, <2>1, AccountStays
  <2> QED
    BY <2>2
<1> QED
  BY <1>5, <1>6, <1>7, <1>8 DEF queue_add

(***************************************************************************)
(* queue_get (lab2/1/queue.c:98-116) follows the links, and so meets       *)
(* larger numbers only; it frees the one node whose number it has got.     *)
(***************************************************************************)
LEMMA GetKeepsAccount ==
  ASSUME NEW places, QueueInv(places), SingleLinks, Late, Accounted,
         queue_get
  PROVE  Accounted'
<1> USE DEF At, Goto
<1>0. /\ pc \in [Threads -> places] /\ res \in [Threads -> Results]
      /\ heap \in [Nodes -> Cells]
      /\ w \in WriterLocals /\ r \in ReaderLocals /\ q \in Queues
      /\ live \subseteq Nodes /\ NULL \notin Nodes
      /\ "writer" \in Threads /\ "reader" \in Threads
  BY Parts
<1>1. PICK number \in [Nodes -> Nat], E \in Nat, N \in Nat, G \in Nat :
        Account(number, E, N, G)
  BY DEF Accounted
<1>2. SUFFICES \E H \in Nat : Account(number, E, N, H)'
  BY DEF Accounted
<1>3. /\ res["reader"] = "none"
      /\ pc'["writer"] = pc["writer"] /\ res'["writer"] = res["writer"]
      /\ UNCHANGED w
  <2>1. pc["reader"] \in GetBody
    BY DEF queue_get, GetAttempts, GetCheck, GetValue, GetNext, GetFirst,
           GetFree, GetLoad, GetStore, GetCount, GetBody
  <2>2. res["reader"] = "none"
    BY <1>0, <2>1 DEF Late, GetBody
  <2> QED
    BY <1>0, <2>2
    DEF queue_get, GetAttempts, GetCheck, GetValue, GetNext, GetFirst,
        GetFree, GetLoad, GetStore, GetCount, Finish
<1>4. /\ Linked' <=> Linked
      /\ MadeUpTo(N)' = MadeUpTo(N) /\ LinkedUpTo(N)' = LinkedUpTo(N)
  BY <1>3 DEF Linked, MadeUpTo, LinkedUpTo
<1>5. Numbered(number, N) /\ Upwards(number, E, N, G) /\ Kept(number, E, N, G)
  BY <1>1 DEF Account
<1>6. CASE GetValue
  <2>1. pc["reader"] = "get_value" /\ UNCHANGED <<q, heap, live, res>>
    BY <1>6 DEF GetValue
  <2>2. ~Unlinked /\ ~Taken /\ ~Freed
    BY <1>3, <2>1 DEF Unlinked, Taken, Freed
  <2>3. CASE q.first \in Nodes
    <3>1. /\ r'.tmp = q.first /\ r'.val = heap[q.first].val
          /\ r'.expected = r.expected /\ pc'["reader"] = "get_next"
      BY <1>0, <1>6, <2>3 DEF GetValue, ReaderLocals
    <3>2. ~Unlinked' /\ Taken' /\ ~Freed'
      BY <1>3, <2>1, <3>1 DEF Unlinked, Taken, Freed
    <3>3. q.first \in live /\ q.first # NULL
      BY <1>0, <2>3 DEF SingleLinks, Unshared
    <3>4. PICK H \in Nat : H = number[q.first]
      BY <2>3
    <3>5. heap[q.first].val = H % Width /\ E <= H
      BY <1>5, <3>3, <3>4 DEF Numbered, Upwards
    <3>6. H < LinkedUpTo(N)
      <4>1. CASE Linked
        BY <1>5, <3>3, <3>4, <4>1 DEF Numbered, MadeUpTo, LinkedUpTo
      <4>2. CASE ~Linked /\ pc["writer"] \in {"add_first", "add_append"}
        <5>1. w.new \in live /\ w.new # q.first /\ number[w.new] = N
          BY <1>5, <4>2 DEF SingleLinks, Fresh, Numbered
        <5>2. H # N /\ H < N + 1
          BY <1>5, <3>3, <3>4, <4>2, <5>1 DEF Numbered, MadeUpTo
        <5> QED
          BY <4>2, <5>2 DEF LinkedUpTo
      <4>3. CASE ~Linked /\ pc["writer"] \notin {"add_first", "add_append"}
        BY <1>5, <3>3, <3>4, <4>3 DEF Numbered, MadeUpTo, LinkedUpTo
      <4> QED
        BY <4>1, <4>2, <4>3
    <3>7. Numbered(number, N)'
      BY <1>3, <1>4, <1>5, <2>1 DEF Numbered
    <3>8. Upwards(number, E, N, H)'
      BY <1>3, <1>4, <1>5, <2>1, <3>1, <3>2, <3>4, <3>5, <3>6 DEF Upwards
    <3>9. Kept(number, E, N, H)'
      BY <1>4, <1>5, <2>1, <2>2 DEF Kept
    <3> QED
      BY <3>4, <3>7, <3>8, <3>9 DEF Account
  <2>4. CASE q.first \notin Nodes
    <3>1. UNCHANGED <<r, pc>>
      BY <1>6, <2>4 DEF GetValue
    <3>2. /\ Unlinked' <=> Unlinked
          /\ Taken' <=> Taken
          /\ Freed' <=> Freed
      BY <2>1, <3>1 DEF Unlinked, Taken, Freed
    <3>3. Account(number, E, N, G)'
      BY <1>1, <1>3, <1>4, <2>1, <3>1, <3>2, AccountStays
    <3> QED
      BY <3>3
  <2> QED
    BY <2>3, <2>4
<1>7. CASE GetNext
  <2>1. /\ pc["reader"] = "get_next" /\ pc'["reader"] = "get_first"
        /\ UNCHANGED <<q, heap, live, res>>
        /\ r'.tmp = r.tmp /\ r'.next = heap[q.first].next
        /\ r'.val = r.val /\ r'.expected = r.expected
    BY <1>0, <1>7 DEF GetNext, ReaderLocals
  <2>2. /\ ~Unlinked /\ Taken /\ ~Freed
        /\ ~Unlinked' /\ Taken' /\ ~Freed'
    BY <1>3, <2>1 DEF Unlinked, Taken, Freed
  <2>3. q.first = r.tmp /\ r.tmp \in live
    BY <2>1 DEF SingleLinks, Detached
  <2>4. r'.next # NULL => number[r'.next] > G
    BY <1>5, <2>1, <2>3 DEF Numbered, Upwards
  <2>5. Numbered(number, N)'
    BY <1>3, <1>4, <1>5, <2>1 DEF Numbered
  <2>6. Upwards(number, E, N, G)'
    BY <1>3, <1>4, <1>5, <2>1, <2>2, <2>4 DEF Upwards
  <2>7. Kept(number, E, N, G)'
    BY <1>4, <1>5, <2>1, <2>2 DEF Kept
  <2> QED
    BY <2>5, <2>6, <2>7 DEF Account
<1>8. CASE GetFirst
  <2>1. /\ pc["reader"] = "get_first" /\ pc'["reader"] = "get_free"
        /\ q'.first = r.next /\ UNCHANGED <<heap, live, res, r>>
    BY <1>0, <1>8 DEF GetFirst, Queues
  <2>2. ~Unlinked /\ Taken /\ ~Freed /\ Unlinked' /\ Taken' /\ ~Freed'
    BY <1>3, <2>1 DEF Unlinked, Taken, Freed
  <2>3. r.next # NULL => number[r.next] > G /\ number[r.next] \in Nat
    BY <1>0, <1>5, <2>1 DEF Upwards, SingleLinks, Detached
  <2>4. Numbered(number, N)'
    BY <1>3, <1>4, <1>5, <2>1 DEF Numbered
  <2>5. Upwards(number, E, N, G)'
    BY <1>3, <1>4, <1>5, <2>1, <2>2, <2>3 DEF Upwards
  <2>6. Kept(number, E, N, G)'
    BY <1>4, <1>5, <2>1, <2>2 DEF Kept
  <2> QED
    BY <2>4, <2>5, <2>6 DEF Account
<1>9. CASE GetFree
  <2>1. /\ pc["reader"] = "get_free" /\ UNCHANGED <<q, res, r>>
        /\ r.tmp \in live
    BY <1>9 DEF GetFree, SingleLinks, Detached
  <2>2. /\ live' = live \ {r.tmp} /\ pc'["reader"] = "get_load"
        /\ \A n \in live' : heap'[n] = heap[n]
    BY <1>0, <1>9, <2>1 DEF GetFree
  <2>3. Unlinked /\ Taken /\ ~Freed /\ Unlinked' /\ Taken' /\ Freed'
    BY <1>3, <2>1, <2>2 DEF Unlinked, Taken, Freed
  <2>4. number[r.tmp] = G
    BY <1>5, <2>1 DEF Upwards
  <2>5. Numbered(number, N)'
    BY <1>3, <1>4, <1>5, <2>1, <2>2 DEF Numbered
  <2>6. Upwards(number, E, N, G)'
    BY <1>3, <1>4, <1>5, <2>1, <2>2, <2>3 DEF Upwards
  <2>7. Kept(number, E, N, G)'
    BY <1>4, <1>5, <2>2, <2>3, <2>4 DEF Kept
  <2> QED
    BY <2>5, <2>6, <2>7 DEF Account
<1>10. CASE GetAttempts \/ GetCheck \/ GetLoad \/ GetStore \/ GetCount
  <2>1. /\ q'.first = q.first /\ UNCHANGED <<heap, live>>
        /\ r'.expected = r.expected /\ r'.val = r.val
        /\ pc'["reader"] \notin {"get_next", "get_first", "get_free"}
        /\ Unlinked' <=> Unlinked
        /\ Taken' <=> Taken
        /\ Freed' <=> Freed
    <3>1. CASE GetAttempts
      BY <1>0, <1>3, <3>1 DEF GetAttempts, Queues, Unlinked, Taken, Freed
    <3>2. CASE GetCheck
      BY <1>0, <1>3, <3>2 DEF GetCheck, Finish, Unlinked, Taken, Freed
    <3>3. CASE GetLoad
      BY <1>0, <3>3 DEF GetLoad, ReaderLocals, Unlinked, Taken, Freed
    <3>4. CASE GetStore
      BY <1>0, <3>4 DEF GetStore, Queues, Unlinked, Taken, Freed
    <3>5. CASE GetCount
      BY <1>0, <3>5 DEF GetCount, Finish, Queues, Unlinked, Taken, Freed
    <3> QED
      BY <1>10, <3>1, <3>2, <3>3, <3>4, <3>5
  <2>2. Account(number, E, N, G)'
    BY <1>1, <1>3, <1>4, <2>1, AccountStays
  <2> QED
    BY <2>2
<1> QED
  BY <1>6, <1>7, <1>8, <1>9, <1>10 DEF queue_get

\* An int that has wrapped around is still the number, modulo its width.
LEMMA NextNumber ==
  ASSUME NEW n \in Nat
  PROVE  Next_value(n % Width) = (n + 1) % Width
<1>0. Width \in Nat \ {0}
  BY ListQueueAssumption
<1>1. PICK turns \in Int : turns = n \div Width
  BY <1>0
<1>2. PICK m \in Int : m = n % Width
  BY <1>0
<1>3. n = Width * turns + m
  BY <1>0, <1>1, <1>2
<1>4. PICK k \in Int : k = -turns
  OBVIOUS
<1>5. m + 1 \in Int /\ n + 1 \in Int /\ m + 1 = (n + 1) + k * Width
  BY <1>0, <1>3, <1>4
<1>6. (m + 1) % Width = (n + 1) % Width
  <2> DEFINE a == m + 1
             b == n + 1
  <2>1. a \in Int /\ b \in Int /\ a = b + k * Width
    BY <1>5
  <2> HIDE DEF a, b
  <2>2. a % Width = b % Width
    BY <1>0, <2>1, SameRemainder
  <2> QED
    BY <2>2 DEF a, b
<1> QED
  BY <1>2, <1>6 DEF Next_value

\* After a call that has succeeded the loops (lab2/1/queue-threads.c:42-52,
\* 64-69) go on to the next number.
LEMMA LoopKeepsAccount ==
  ASSUME NEW places, QueueInv(places), SingleLinks, LastLinks, Accounted,
         Writer \/ Reader
  PROVE  LastLinks' /\ Accounted'
<1> USE DEF At, Goto
<1>0. /\ pc \in [Threads -> places] /\ res \in [Threads -> Results]
      /\ live \subseteq Nodes
      /\ "writer" \in Threads /\ "reader" \in Threads
  BY Parts
<1>1. LastLinks'
  BY <1>0, LastStays DEF Writer, Reader
<1>2. PICK number \in [Nodes -> Nat], E \in Nat, N \in Nat, G \in Nat :
        Account(number, E, N, G)
  BY DEF Accounted
<1>3. Numbered(number, N) /\ Upwards(number, E, N, G) /\ Kept(number, E, N, G)
  BY <1>2 DEF Account
<1>4. SUFFICES \E F, M \in Nat : Account(number, F, M, G)'
  BY <1>1 DEF Accounted
<1>5. CASE Writer
  <2>1. /\ pc["writer"] = "return" /\ pc'["writer"] = "call"
        /\ res'["writer"] = "none" /\ UNCHANGED <<q, heap, live, r>>
        /\ w'.i = IF res["writer"] = "done" THEN Next_value(w.i) ELSE w.i
        /\ pc'["reader"] = pc["reader"] /\ res'["reader"] = res["reader"]
    BY <1>0, <1>5 DEF Writer, NoWriterLocals
  <2>2. /\ Unlinked' <=> Unlinked
        /\ Taken' <=> Taken
        /\ Freed' <=> Freed
    BY <2>1 DEF Unlinked, Taken, Freed
  <2>3. ~Linked' /\ (Linked <=> res["writer"] = "done")
    BY <2>1 DEF Linked
  <2>4. CASE res["writer"] = "done"
    <3>1. w'.i = (N + 1) % Width
      BY <1>3, <2>1, <2>4, NextNumber DEF Upwards
    <3>2. /\ MadeUpTo(N) = N + 1 /\ MadeUpTo(N + 1)' = N + 1
          /\ LinkedUpTo(N) = N + 1 /\ LinkedUpTo(N + 1)' = N + 1
      BY <2>1, <2>3, <2>4 DEF MadeUpTo, LinkedUpTo
    <3>3. Numbered(number, N + 1)'
      BY <1>3, <2>1, <3>2 DEF Numbered
    <3>4. Upwards(number, E, N + 1, G)'
      BY <1>3, <2>1, <2>2, <3>1, <3>2 DEF Upwards
    <3>5. Kept(number, E, N + 1, G)'
      BY <1>3, <2>1, <2>2, <3>2 DEF Kept
    <3>6. Account(number, E, N + 1, G)'
      BY <3>3, <3>4, <3>5 DEF Account
    <3> QED
      BY <3>6
  <2>5. CASE res["writer"] # "done"
    <3>1. Account(number, E, N, G)'
      BY <1>2, <2>1, <2>2, <2>3, <2>5, AccountStays
    <3> QED
      BY <3>1
  <2> QED
    BY <2>4, <2>5
<1>6. CASE Reader
  <2>1. /\ pc["reader"] = "return" /\ pc'["reader"] = "call"
        /\ res'["reader"] = "none" /\ UNCHANGED <<q, heap, live, w>>
        /\ r'.expected = IF res["reader"] = "done" THEN Next_value(r.val)
                         ELSE r.expected
        /\ pc'["writer"] = pc["writer"] /\ res'["writer"] = res["writer"]
    BY <1>0, <1>6 DEF Reader, NoReaderLocals
  <2>2. /\ Linked' <=> Linked
        /\ MadeUpTo(N)' = MadeUpTo(N) /\ LinkedUpTo(N)' = LinkedUpTo(N)
    BY <2>1 DEF Linked, MadeUpTo, LinkedUpTo
  <2>3. /\ ~Unlinked' /\ ~Taken' /\ ~Freed'
        /\ Unlinked <=> res["reader"] = "done"
        /\ Taken <=> res["reader"] = "done"
        /\ Freed <=> res["reader"] = "done"
    BY <2>1 DEF Unlinked, Taken, Freed
  <2>4. CASE res["reader"] = "done"
    <3>1. r'.expected = (G + 1) % Width
      BY <1>3, <2>1, <2>3, <2>4, NextNumber DEF Upwards
    <3>2. Numbered(number, N)'
      BY <1>3, <2>1, <2>2 DEF Numbered
    <3>3. E <= G /\ LinkedUpTo(N) \in Nat
      BY <1>3, <2>3, <2>4 DEF Upwards, LinkedUpTo
    <3>4. q.first # NULL => number[q.first] >= G + 1
      <4>1. q.first # NULL => q.first \in Nodes
        BY <1>0 DEF SingleLinks, Unshared
      <4>2. q.first # NULL => number[q.first] > G
        BY <1>3, <2>3, <2>4 DEF Upwards
      <4> QED
        BY <4>1, <4>2
    <3>5. Upwards(number, G + 1, N, G)'
      BY <1>3, <2>1, <2>2, <2>3, <2>4, <3>1, <3>3, <3>4 DEF Upwards
    <3>6. Kept(number, G + 1, N, G)'
      BY <1>3, <2>1, <2>2, <3>3 DEF Kept
    <3>7. Account(number, G + 1, N, G)'
      BY <3>2, <3>5, <3>6 DEF Account
    <3> QED
      BY <3>7
  <2>5. CASE res["reader"] # "done"
    <3>1. Account(number, E, N, G)'
      BY <1>2, <2>1, <2>2, <2>3, <2>5, AccountStays
    <3> QED
      BY <3>1
  <2> QED
    BY <2>4, <2>5
<1> QED
  BY <1>5, <1>6

LEMMA UnsyncKeepsAccount ==
  ASSUME QueueInv(CommonPlaces), SingleLinks, Late, LastLinks, Accounted,
         [Unsync!Next]_(Unsync!queueVars)
  PROVE  Late' /\ LastLinks' /\ Accounted'
<1>0. /\ pc \in [Threads -> CommonPlaces]
      /\ "writer" \in Threads /\ "reader" \in Threads
  BY Parts
<1>1. CASE queue_add
  BY <1>1, LateStays, AddKeepsLast, AddKeepsAccount
<1>2. CASE queue_get
  <2>1. Late'
    BY <1>2, LateStays
  <2>2. LastLinks'
    BY <1>2, GetKeepsLast
  <2>3. Accounted'
    BY <1>2, GetKeepsAccount
  <2> QED
    BY <2>1, <2>2, <2>3
<1>3. CASE Writer \/ Reader
  BY <1>3, LateStays, LoopKeepsAccount
<1>4. CASE \/ \E t \in Threads : Unsync!Enter(t) \/ Unsync!Leave(t)
           \/ UNCHANGED queueVars
  <2>1. Late'
    BY <1>4, LateStays
  <2>2. /\ UNCHANGED <<q, heap, live, res, w, r>>
        /\ \A t \in Threads :
             pc'[t] = pc[t] \/ (/\ pc[t] \in {"call", "exit"}
                                /\ pc'[t] \in {"add_attempts", "get_attempts",
                                               "return"})
    BY <1>0, <1>4
    DEF Unsync!Enter, Unsync!Leave, Unsync!Begin, Unsync!At, Unsync!Goto,
        queueVars
  <2>3. LastLinks'
    BY <1>0, <2>2, LastStays
  <2>4. PICK number \in [Nodes -> Nat], E \in Nat, N \in Nat, G \in Nat :
          Account(number, E, N, G)
    BY DEF Accounted
  <2>5. /\ Linked' <=> Linked
        /\ Unlinked' <=> Unlinked
        /\ Taken' <=> Taken
        /\ Freed' <=> Freed
    BY <1>0, <2>2 DEF Linked, Unlinked, Taken, Freed
  <2>6. Account(number, E, N, G)'
    BY <1>0, <2>2, <2>4, <2>5, AccountStays
  <2> QED
    BY <2>1, <2>3, <2>4, <2>6 DEF Accounted
<1> QED
  BY <1>1, <1>2, <1>3, <1>4, SameStatements
  DEF Unsync!Next, Unsync!Step, Unsync!Body, Unsync!Loop,
      Unsync!Threads, Threads, Unsync!queueVars, queueVars

\* NodeAt (the links from lab2/1/queue.c:109 on) is what its definition says:
\* from every pointer there is such a walk.
LEMMA NodesFollow ==
  NodeAt = [k \in 0 .. Cardinality(Nodes) |->
              IF k = 0 THEN q.first
              ELSE IF NodeAt[k - 1] \in Nodes THEN heap[NodeAt[k - 1]].next
                   ELSE NULL]
<1> DEFINE Follow(f, m) ==
             [k \in 0 .. m |->
                IF k = 0 THEN q.first
                ELSE LET before == f[k - 1]
                     IN  IF before \in Nodes THEN heap[before].next ELSE NULL]
           missing == {m \in Nat : \A f : f # Follow(f, m)}
<1>1. missing = {}
  <2> SUFFICES ASSUME missing # {}
               PROVE  FALSE
    OBVIOUS
  <2>1. missing \in SUBSET Nat
    OBVIOUS
  <2> HIDE DEF missing, Follow
  <2>2. PICK m \in missing : \A k \in missing : m <= k
    BY <2>1, LeastOne
  <2>3. CASE m = 0
    <3>1. PICK f : f = [k \in 0 .. 0 |-> q.first]
      OBVIOUS
    <3>2. f = Follow(f, 0)
      BY <3>1 DEF Follow
    <3> QED
      BY <2>2, <2>3, <3>2 DEF missing
  <2>4. CASE m # 0
    <3>1. m \in Nat /\ m - 1 \in Nat /\ m - 1 \notin missing
      BY <2>1, <2>2, <2>4
    <3>2. PICK f : f = Follow(f, m - 1)
      BY <3>1 DEF missing
    <3>3. PICK g : g = Follow(f, m)
      OBVIOUS
    <3>4. \A k \in 0 .. m - 1 : g[k] = f[k]
      <4> SUFFICES ASSUME NEW k \in 0 .. m - 1
                   PROVE  g[k] = f[k]
        OBVIOUS
      <4>1. k \in 0 .. m
        BY <3>1
      <4>2. g[k] = Follow(f, m)[k] /\ f[k] = Follow(f, m - 1)[k]
        BY <3>2, <3>3
      <4> QED
        BY <4>1, <4>2 DEF Follow
    <3>5. Follow(g, m) = Follow(f, m)
      <4>1. \A k \in 0 .. m : k # 0 => k - 1 \in 0 .. m - 1
        BY <3>1
      <4> QED
        BY <3>4, <4>1 DEF Follow
    <3>6. g = Follow(g, m)
      BY <3>3, <3>5
    <3> QED
      BY <2>2, <3>6 DEF missing
  <2> QED
    BY <2>3, <2>4
<1>2. Cardinality(Nodes) \in Nat
  BY ListQueueAssumption, FS_CardinalityType
<1>3. PICK f : f = Follow(f, Cardinality(Nodes))
  BY <1>1, <1>2
<1>4. NodeAt = CHOOSE g : g = Follow(g, Cardinality(Nodes))
  BY DEF NodeAt
<1>5. NodeAt = Follow(NodeAt, Cardinality(Nodes))
  <2> HIDE DEF Follow
  <2> QED
    BY <1>3, <1>4
<1> QED
  BY <1>5

\* The distance of two ints that have wrapped around is not larger than that
\* of the numbers.
LEMMA Distance ==
  ASSUME NEW a \in Nat, NEW b \in Nat, b <= a,
         NEW m, m = a % Width, NEW n, n = b % Width
  PROVE  (m - n) % Width <= a - b
<1>0. Width \in Nat \ {0}
  BY ListQueueAssumption
<1>1. m \in Int /\ n \in Int
  BY <1>0
<1>2. PICK turns \in Int : turns = a \div Width
  BY <1>0
<1>3. PICK others \in Int : others = b \div Width
  BY <1>0
<1>4. PICK gap \in Nat : gap = a - b
  OBVIOUS
<1>5. PICK k \in Int : k = others - turns
  OBVIOUS
<1>6. m - n = gap + k * Width
  <2>1. a = Width * turns + m /\ b = Width * others + n
    BY <1>0, <1>2, <1>3
  <2> QED
    BY <1>0, <1>1, <1>4, <1>5, <2>1
<1>7. (m - n) % Width = gap % Width
  <2>1. PICK c \in Int : c = m - n
    BY <1>1
  <2>2. c = gap + k * Width /\ gap \in Int
    BY <1>6, <2>1
  <2>3. c % Width = gap % Width
    BY <1>0, <2>2, SameRemainder
  <2> QED
    BY <2>1, <2>3
<1>8. gap % Width <= gap
  <2>1. CASE gap < Width
    BY <1>0, <2>1
  <2>2. CASE gap >= Width
    <3>1. gap % Width < Width /\ gap % Width \in Int
      BY <1>0
    <3> QED
      BY <1>0, <2>2, <3>1
  <2> QED
    BY <1>0, <2>1, <2>2
<1> QED
  BY <1>4, <1>7, <1>8

\* When the reader has got number G, what is on the list has larger numbers.
LEMMA ListIsLater ==
  ASSUME NEW places, QueueInv(places), SingleLinks, Unlinked,
         NEW number \in [Nodes -> Nat], NEW E \in Nat, NEW N \in Nat,
         NEW G \in Nat, Account(number, E, N, G),
         NEW k \in DOMAIN NodeAt
  PROVE  NodeAt[k] \in live => number[NodeAt[k]] > G
<1> DEFINE Later(n) == n = NULL \/ (n \in live /\ number[n] > G)
           wrong == {j \in 0 .. Cardinality(Nodes) : ~Later(NodeAt[j])}
<1>0. NULL \notin Nodes /\ live \subseteq Nodes
  BY Parts
<1>1. Cardinality(Nodes) \in Nat
  BY ListQueueAssumption, FS_CardinalityType
<1>2. DOMAIN NodeAt = 0 .. Cardinality(Nodes)
  BY NodesFollow
<1>3. ASSUME NEW j \in 0 .. Cardinality(Nodes)
      PROVE  NodeAt[j] = IF j = 0 THEN q.first
                         ELSE IF NodeAt[j - 1] \in Nodes
                              THEN heap[NodeAt[j - 1]].next ELSE NULL
  BY NodesFollow
<1>4. Later(q.first)
  BY <1>0 DEF SingleLinks, Unshared, Account, Upwards
<1>5. ASSUME NEW n, Later(n), n \in Nodes
      PROVE  Later(heap[n].next)
  <2>1. n \in live /\ number[n] > G
    BY <1>0, <1>5
  <2>2. CASE heap[n].next # NULL
    <3>1. heap[n].next \in live /\ number[heap[n].next] > number[n]
      BY <2>1, <2>2 DEF SingleLinks, Unshared, Account, Numbered
    <3>2. number[heap[n].next] \in Nat /\ number[n] \in Nat
      BY <1>0, <2>1, <3>1
    <3> QED
      BY <2>1, <3>1, <3>2
  <2> QED
    BY <2>2
<1>6. wrong = {}
  <2> SUFFICES ASSUME wrong # {}
               PROVE  FALSE
    OBVIOUS
  <2>1. wrong \in SUBSET Nat
    BY <1>1
  <2>2. PICK j \in wrong : \A i \in wrong : j <= i
    <3> HIDE DEF wrong
    <3> QED
      BY <2>1, LeastOne
  <2>3. j \in 0 .. Cardinality(Nodes) /\ ~Later(NodeAt[j])
    OBVIOUS
  <2> HIDE DEF Later
  <2>4. j # 0
    BY <1>3, <1>4, <2>3
  <2>5. j - 1 \in 0 .. Cardinality(Nodes) /\ j - 1 \notin wrong
    BY <1>1, <2>1, <2>2, <2>3, <2>4
  <2>6. Later(NodeAt[j - 1])
    BY <2>5
  <2>7. CASE NodeAt[j - 1] \in Nodes
    BY <1>3, <1>5, <2>3, <2>4, <2>6, <2>7
  <2>8. CASE NodeAt[j - 1] \notin Nodes
    BY <1>3, <2>3, <2>4, <2>8 DEF Later
  <2> QED
    BY <2>7, <2>8
<1> QED
  BY <1>0, <1>2, <1>6

\* So the nodes of the numbers that the reader has skipped are nobody's.
LEMMA SkippedLeak ==
  ASSUME NEW places, QueueInv(places), SingleLinks, Accounted
  PROVE  SkippedValuesLeak
<1> SUFFICES ASSUME pc["reader"] = "return", res["reader"] = "done"
             PROVE  (r.val - r.expected) % Width <= Cardinality(Leaked)
  BY DEF SkippedValuesLeak
<1>0. live \subseteq Nodes
  BY Parts
<1>1. PICK number \in [Nodes -> Nat], E \in Nat, N \in Nat, G \in Nat :
        Account(number, E, N, G)
  BY DEF Accounted
<1>2. Unlinked /\ Taken
  BY DEF Unlinked, Taken
<1>3. /\ r.val = G % Width /\ r.expected = E % Width
      /\ E <= G /\ G < LinkedUpTo(N)
  BY <1>1, <1>2 DEF Account, Upwards
<1>4. LinkedUpTo(N) <= MadeUpTo(N) /\ LinkedUpTo(N) \in N .. N + 1
  BY DEF LinkedUpTo, MadeUpTo
<1>5. ASSUME NEW k \in E .. G - 1
      PROVE  \E n \in Leaked : number[n] = k
  <2>1. k \in Nat /\ k >= E /\ k < G /\ k < MadeUpTo(N)
    BY <1>3, <1>4 DEF MadeUpTo
  <2>2. PICK n \in live : number[n] = k
    BY <1>1, <2>1 DEF Account, Kept
  <2>3. ASSUME NEW i \in DOMAIN NodeAt
        PROVE  n # NodeAt[i]
    <3>1. NodeAt[i] \in live => number[NodeAt[i]] > G
      BY <1>1, <1>2, ListIsLater
    <3> QED
      BY <2>1, <2>2, <3>1
  <2>4. ASSUME pc["writer"] \in {"add_first", "add_append", "add_last"}
        PROVE  n # w.new
    <3>1. number[w.new] = N
      BY <1>1, <2>4 DEF Account, Numbered
    <3>2. k < N
      BY <1>3, <1>4, <2>1
    <3> QED
      BY <2>2, <3>1, <3>2
  <2>5. n \in Leaked
    BY <2>2, <2>3, <2>4 DEF Leaked
  <2> QED
    BY <2>2, <2>5
<1>6. IsFiniteSet(Leaked) /\ Cardinality(Leaked) \in Nat
  <2>1. Leaked \in SUBSET Nodes
    BY <1>0 DEF Leaked
  <2> QED
    BY <2>1, ListQueueAssumption, FS_Subset, FS_CardinalityType
<1>7. G - E <= Cardinality(Leaked)
  <2> DEFINE skipped == E .. G - 1
  <2>1. PICK f \in [skipped -> Leaked] : \A k \in skipped : number[f[k]] = k
    <3>1. PICK f : f = [k \in skipped |-> CHOOSE n \in Leaked : number[n] = k]
      OBVIOUS
    <3>2. ASSUME NEW k \in skipped
          PROVE  f[k] \in Leaked /\ number[f[k]] = k
      BY <1>5, <3>1
    <3> QED
      BY <3>1, <3>2
  <2>2. f \in Injection(skipped, Leaked)
    <3> HIDE DEF skipped
    <3>1. \A i, j \in skipped : f[i] = f[j] => i = j
      BY <2>1
    <3> QED
      BY <3>1 DEF Injection, IsInjective
  <2>3. Cardinality(skipped) <= Cardinality(Leaked)
    <3> HIDE DEF skipped
    <3> QED
      BY <1>6, <2>2, FS_Injection
  <2>4. Cardinality(skipped) = G - E
    <3>1. PICK last \in Int : last = G - 1
      OBVIOUS
    <3>2. Cardinality(E .. last) = IF E > last THEN 0 ELSE last - E + 1
      BY FS_Interval
    <3> QED
      BY <1>3, <3>1, <3>2
  <2> QED
    BY <2>3, <2>4
<1>8. (r.val - r.expected) % Width <= G - E
  BY <1>3, Distance
<1>9. (r.val - r.expected) % Width \in Int
  <2>1. Width \in Nat \ {0}
    BY ListQueueAssumption
  <2>2. r.val \in Int /\ r.expected \in Int
    BY <1>3, <2>1
  <2> QED
    BY <2>1, <2>2
<1> QED
  BY <1>6, <1>7, <1>8, <1>9

(***************************************************************************)
(* Whatever the races of lab2/1, a value is ahead of the one the reader    *)
(* expects (lab2/1/queue-threads.c:48) by no more than the number of nodes *)
(* that are allocated and out of everyone's reach: the values skipped sit  *)
(* in nodes that queue_get cut off while queue_add was linking them        *)
(* (lab2/1/queue.c:88 against 109).                                        *)
(***************************************************************************)
THEOREM UnsyncSkippedLeak == Unsync!Spec => []SkippedValuesLeak
<1> DEFINE Order == QueueInv(CommonPlaces) /\ SingleLinks
           Tale == Late /\ LastLinks /\ Accounted
<1>1. Unsync!Init => Tale
  <2>1. Unsync!Init => QueueInit
    BY DEF Unsync!Init, Unsync!QueueInit, QueueInit, Unsync!NoWriterLocals,
           NoWriterLocals, Unsync!NoReaderLocals, NoReaderLocals,
           Unsync!Threads, Threads
  <2> QED
    BY <2>1, AccountInit
<1>2. Order /\ Tale /\ [Unsync!Next]_(Unsync!queueVars) => Tale'
  BY UnsyncKeepsAccount
<1>3. Order /\ Tale => SkippedValuesLeak
  BY SkippedLeak
<1>4. Unsync!Spec => []Order
  BY UnsyncInvariant
<1> QED
  BY <1>1, <1>2, <1>3, <1>4, PTL DEF Unsync!Spec
=============================================================================
