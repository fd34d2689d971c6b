------------------------------- MODULE Vector -------------------------------
(***************************************************************************)
(* Deletions from a struct sol_vector (sol-vector.c), on sequences.        *)
(* Indices start at 1, in the code at 0.                                   *)
(***************************************************************************)
EXTENDS Naturals, Sequences

\* sol_vector_del(): the entries behind entry i move down.
sol_vector_del(v, i) == SubSeq(v, 1, i - 1) \o SubSeq(v, i + 1, Len(v))

\* What is left of v by a walk that deletes all entries but those at the indices S.
Kept(v, S) ==
  LET upTo[n \in 0..Len(v)] ==
        IF n = 0 THEN <<>>
        ELSE IF n \in S THEN Append(upTo[n - 1], v[n]) ELSE upTo[n - 1]
  IN  upTo[Len(v)]
=============================================================================
