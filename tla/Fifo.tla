-------------------------------- MODULE Fifo --------------------------------
(***************************************************************************)
(* What the queues of lab2/2 promise their one writer and one reader: a    *)
(* first-in first-out buffer of at most `capacity' values.  The writer     *)
(* puts consecutive integers, the reader expects to get consecutive        *)
(* integers.  A refused put or get changes nothing.                        *)
(*                                                                         *)
(* The integers of the C program wrap around; Width is the number of       *)
(* values they can take.                                                   *)
(***************************************************************************)
EXTENDS Naturals, Sequences

CONSTANT Width

VARIABLES
    capacity,   \* chosen when the queue is created
    buffer,     \* values put and not yet got
    written,    \* the next value the writer puts
    expected    \* the next value the reader expects

vars == <<capacity, buffer, written, expected>>

Next_value(n) == (n + 1) % Width

Init ==
    /\ capacity \in Nat
    /\ buffer = <<>>
    /\ written = 0
    /\ expected = 0

Put ==
    /\ Len(buffer) < capacity
    /\ buffer' = Append(buffer, written)
    /\ written' = Next_value(written)
    /\ UNCHANGED <<capacity, expected>>

\* The reader resynchronises on whatever it gets.
Get ==
    /\ buffer # <<>>
    /\ expected' = Next_value(Head(buffer))
    /\ buffer' = Tail(buffer)
    /\ UNCHANGED <<capacity, written>>

Next == Put \/ Get

Spec == Init /\ [][Next]_vars

\* The strengthening kept by the queues whose two sides never shut each
\* other out: values keep being put and got.
Fairness == WF_vars(Put) /\ WF_vars(Get)
=============================================================================
