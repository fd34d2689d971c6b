--------------------------- MODULE MCSortedVector ---------------------------
(* Instance of SortedVector for TLC. *)
EXTENDS SortedVector

ElemSymmetry == Permutations(Elems)
=============================================================================
