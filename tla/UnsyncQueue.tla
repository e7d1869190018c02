----------------------------- MODULE UnsyncQueue -----------------------------
(***************************************************************************)
(* The queue of lab2/1: the statements of ListQueue with nothing around    *)
(* them.  The writer and the reader are pinned to one CPU, but either may  *)
(* be preempted between any two accesses to memory.                        *)
(***************************************************************************)
EXTENDS ListQueue

Init == QueueInit

\* queue_add or queue_get is called and starts at once.
Enter(t) ==
    /\ At(t, "call")
    /\ Goto(t, Begin(t))
    /\ UNCHANGED <<q, heap, live, res, w, r, fault>>

\* The function returns from the end of its body.
Leave(t) ==
    /\ At(t, "exit")
    /\ Goto(t, "return")
    /\ UNCHANGED <<q, heap, live, res, w, r, fault>>

Step(t) == Enter(t) \/ Body(t) \/ Leave(t) \/ Loop(t)

Next == \E t \in Threads : Step(t)

Spec == Init /\ [][Next]_queueVars
=============================================================================
