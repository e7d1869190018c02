--------------------------- MODULE AdjacentSwaps ---------------------------
(***************************************************************************)
(* What the programs of lab2/3 do to their list: nodes are never added,    *)
(* lost or duplicated, the first one stays, and the order of the others    *)
(* changes by swapping two neighbours at a time.                           *)
(***************************************************************************)
EXTENDS Naturals

CONSTANT Size

VARIABLE order      \* the nodes from first to last

Init == order = [i \in 1 .. Size |-> i]

Exchange(sequence, i) ==
    [sequence EXCEPT ![i] = sequence[i + 1], ![i + 1] = sequence[i]]

Exchanges(sequence) == {Exchange(sequence, i) : i \in 2 .. Size - 1}

Next == order' \in Exchanges(order)

Spec == Init /\ [][Next]_order
=============================================================================
