------------------------------ MODULE MCIdlers ------------------------------
(* Instances of Idlers for TLC. *)
EXTENDS Idlers, TLC

\* Safety runs only.
IdleSymmetry == Permutations(Idles)
=============================================================================
