---------------------------- MODULE QueueExample -----------------------------
(***************************************************************************)
(* lab2/1/queue-example.c: main adds values to the queue of lab2/1, gets   *)
(* more than it has added and destroys the queue, while the monitor thread *)
(* that queue_init has started prints the fields of the queue.  The bodies *)
(* of queue_add and queue_get are those of ListQueue: main is its writer   *)
(* first and its reader afterwards.  The monitor reads the queue without a *)
(* lock, so all that keeps it from reading a queue that is gone is the     *)
(* order of the steps of queue_destroy.                                    *)
(***************************************************************************)
EXTENDS ListQueue

CONSTANTS
    Adds,   \* how many values main adds (10)
    Gets    \* how many gets main may make (12)

ASSUME QueueExampleAssumption == Adds \in Nat /\ Gets \subseteq Nat

VARIABLES
    main,       \* what main is doing
    calls,      \* how many calls are left of the loop main is in
    wanted,     \* how many gets it will make
    monitor,    \* what the monitor thread is doing
    cancelled,  \* pthread_cancel has been called for it
    destroyed   \* the queue_t is freed

mainVars == <<main, calls, wanted, monitor, cancelled, destroyed>>

exampleVars == <<queueVars, mainVars>>

\* queue_init(1000) has started the monitor.
ExampleInit ==
    /\ QueueInit
    /\ main = "adding"
    /\ calls = Adds
    /\ wanted \in Gets
    /\ monitor = "reading"
    /\ cancelled = FALSE
    /\ destroyed = FALSE

-----------------------------------------------------------------------------
(* main *)

\* ok = queue_add(q, i), and a statement of it
Add ==
    /\ main = "adding" /\ calls > 0
    /\ \/ /\ At("writer", "call")
          /\ Goto("writer", Begin("writer"))
          /\ UNCHANGED <<q, heap, live, res, w, r, fault>>
       \/ queue_add
    /\ UNCHANGED mainVars

\* queue_add has returned; queue_print_stats(q) reads what only main writes.
Added ==
    /\ At("writer", "exit")
    /\ fault' = IF res["writer"] = "nomem" THEN "abort" ELSE "none"
    /\ w' = NoWriterLocals(Next_value(w.i))
    /\ calls' = calls - 1
    /\ Goto("writer", "call")
    /\ UNCHANGED <<q, heap, live, res, r, main, wanted, monitor, cancelled,
                   destroyed>>

\* ok = queue_get(q, &val), and a statement of it
Get ==
    /\ main = "getting" /\ calls > 0
    /\ \/ /\ At("reader", "call")
          /\ Goto("reader", Begin("reader"))
          /\ UNCHANGED <<q, heap, live, res, w, r, fault>>
       \/ queue_get
    /\ UNCHANGED mainVars

\* queue_get has returned.
Got ==
    /\ At("reader", "exit")
    /\ r' = NoReaderLocals(0)
    /\ calls' = calls - 1
    /\ Goto("reader", "call")
    /\ UNCHANGED <<q, heap, live, res, w, fault, main, wanted, monitor,
                   cancelled, destroyed>>

\* The first loop ends, the second begins or ends.
Turn ==
    /\ fault = "none" /\ calls = 0
    /\ \/ main = "adding" /\ main' = "getting" /\ calls' = wanted
       \/ main = "getting" /\ main' = "cancel" /\ calls' = 0
    /\ UNCHANGED <<queueVars, wanted, monitor, cancelled, destroyed>>

-----------------------------------------------------------------------------
(* queue_destroy *)

\* Faulty variant: the monitor is joined without having been cancelled.
NotCancelled ==
    /\ main = "cancel"
    /\ main' = "join"
    /\ UNCHANGED <<queueVars, calls, wanted, monitor, cancelled, destroyed>>

\* pthread_cancel(q->qmonitor_tid)
Cancel ==
    /\ main = "cancel"
    /\ cancelled' = TRUE
    /\ main' = "join"
    /\ UNCHANGED <<queueVars, calls, wanted, monitor, destroyed>>

\* Faulty variant: the end of the monitor is not waited for.
NotJoined ==
    /\ main = "join"
    /\ main' = "free"
    /\ UNCHANGED <<queueVars, calls, wanted, monitor, cancelled, destroyed>>

\* pthread_join(q->qmonitor_tid, NULL)
JoinMonitor ==
    /\ main = "join"
    /\ monitor = "ended"
    /\ main' = "free"
    /\ UNCHANGED <<queueVars, calls, wanted, monitor, cancelled, destroyed>>

\* temp = q->first; q->first = q->first->next; free(temp)
FreeNode ==
    /\ main = "free" /\ fault = "none"
    /\ q.first # NULL
    /\ IF q.first \in live
         THEN /\ live' = live \ {q.first}
              /\ q' = [q EXCEPT !.first = heap[q.first].next]
              /\ UNCHANGED fault
         ELSE /\ fault' = IF q.first \in Nodes THEN "double_free" ELSE "segv"
              /\ UNCHANGED <<q, live>>
    /\ UNCHANGED <<heap, pc, res, w, r, mainVars>>

\* Faulty variant: free(q) does not free what is in the queue.
FreeQueueOnly ==
    /\ main = "free" /\ fault = "none"
    /\ destroyed' = TRUE
    /\ main' = "return"
    /\ UNCHANGED <<queueVars, calls, wanted, monitor, cancelled>>

\* The loop is over: free(q)
FreeQueue ==
    /\ main = "free" /\ fault = "none"
    /\ q.first = NULL
    /\ destroyed' = TRUE
    /\ main' = "return"
    /\ UNCHANGED <<queueVars, calls, wanted, monitor, cancelled>>

queue_destroy == Cancel \/ JoinMonitor \/ FreeNode \/ FreeQueue

\* return 0, which ends the process
Return ==
    /\ main = "return" /\ fault = "none"
    /\ main' = "ended"
    /\ UNCHANGED <<queueVars, calls, wanted, monitor, cancelled, destroyed>>

Main == Add \/ Added \/ Get \/ Got \/ Turn \/ queue_destroy \/ Return

-----------------------------------------------------------------------------
(* qmonitor.  The cancellation of a thread takes effect when the thread    *)
(* comes to printf, where it may, or to sleep, where it must.              *)

Running == main # "ended" /\ fault = "none"

\* The arguments of printf in queue_print_stats(q)
ReadStats ==
    /\ Running /\ monitor = "reading"
    /\ monitor' = "printing"
    /\ fault' = IF destroyed THEN "segv" ELSE "none"
    /\ UNCHANGED <<q, heap, live, pc, res, w, r, main, calls, wanted, cancelled,
                   destroyed>>

\* printf, then sleep(1)
PrintLine ==
    /\ Running /\ monitor = "printing"
    /\ monitor' = "sleeping"
    /\ UNCHANGED <<queueVars, main, calls, wanted, cancelled, destroyed>>

\* sleep returns; while (1)
WakeUp ==
    /\ Running /\ monitor = "sleeping" /\ ~cancelled
    /\ monitor' = "reading"
    /\ UNCHANGED <<queueVars, main, calls, wanted, cancelled, destroyed>>

\* The thread ends.
TakeCancellation ==
    /\ Running /\ monitor \in {"printing", "sleeping"} /\ cancelled
    /\ monitor' = "ended"
    /\ UNCHANGED <<queueVars, main, calls, wanted, cancelled, destroyed>>

qmonitor == ReadStats \/ PrintLine \/ WakeUp \/ TakeCancellation

ExampleNext == Main \/ qmonitor

\* Both threads are scheduled; sleep(1) and printf end.
ExampleSpec ==
    /\ ExampleInit /\ [][ExampleNext]_exampleVars
    /\ WF_exampleVars(Main) /\ WF_exampleVars(qmonitor)

-----------------------------------------------------------------------------
\* Types of the queue, of main and of the monitor (queue.c, queue-example.c).
ExampleTypeOK ==
    /\ QueueTypeOK(CommonPlaces)
    /\ main \in {"adding", "getting", "cancel", "join", "free", "return",
                 "ended"}
    /\ calls \in Nat /\ wanted \in Gets
    /\ monitor \in {"reading", "printing", "sleeping", "ended"}
    /\ cancelled \in BOOLEAN /\ destroyed \in BOOLEAN

(***************************************************************************)
(* queue_destroy leaves nothing allocated, whatever main has left in the   *)
(* queue, and the monitor has ended by then (queue.c:46-65).               *)
(***************************************************************************)
NothingLeft ==
    main \in {"return", "ended"} => live = {} /\ destroyed /\ monitor = "ended"

(***************************************************************************)
(* The program ends: pthread_join is not called for a thread that goes on  *)
(* for ever (queue.c:12-15, 48-51).                                        *)
(***************************************************************************)
Terminates == <>(main = "ended" \/ fault # "none")
=============================================================================
