--------------------------- MODULE MCUnsyncQueue ---------------------------
(***************************************************************************)
(* UnsyncQueue for TLC.  The cells malloc hands out are interchangeable,   *)
(* and no liveness is checked, so states that differ by a permutation of   *)
(* the cells count once.                                                   *)
(***************************************************************************)
EXTENDS UnsyncQueue, TLC

CellSymmetry == Permutations(Nodes)
=============================================================================
