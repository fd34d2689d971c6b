----------------------------- MODULE MCTimeouts -----------------------------
(* Instances of Timeouts for TLC. *)
EXTENDS Timeouts

\* Safety runs only.
HandleSymmetry == Permutations(Handles)
=============================================================================
