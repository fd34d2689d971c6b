---------------------------- MODULE MCDescriptors ---------------------------
(* An instance of Descriptors for TLC. *)
EXTENDS Descriptors, TLC

HandleSymmetry == Permutations(Handles)
=============================================================================
