----------------------------- MODULE MCStorage -----------------------------
(***************************************************************************)
(* Storage on small lists.  Neither the process threads nor the swap       *)
(* threads can be told apart among themselves.                             *)
(***************************************************************************)
EXTENDS Storage, TLC

Symmetry == Permutations(Processors) \cup Permutations(Swappers)
=============================================================================
