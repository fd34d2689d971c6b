----------------------------- MODULE PtrVector -----------------------------
(***************************************************************************)
(* The sorted operations of struct sol_ptr_vector (sol-vector.c), as       *)
(* operators on sequences.  The comparison callback is by a key: key[x] is *)
(* the key of element x, and compare(a, b) has the sign of key[a] - key[b].*)
(* Indices start at 1, in the code at 0.                                   *)
(***************************************************************************)
EXTENDS Vector, Integers, SequencesExt

\* The ranges of indices of a vector of length n, from low to high, and their middle.
Ranges(n) == {r \in (1..n) \X (1..n) : r[1] <= r[2]}
Mid(r) == (r[1] + r[2]) \div 2

\* The loop of ptr_vector_find_sorted(): k is between the first and the last key.
BinarySearch(v, key, k) ==
  LET search[r \in Ranges(Len(v))] ==
        IF r[1] = r[2] \/ key[v[Mid(r)]] = k THEN Mid(r)
        ELSE IF key[v[Mid(r)]] > k THEN search[<<r[1], Mid(r)>>]
        ELSE search[<<Mid(r) + 1, r[2]>>]
  IN  search[<<1, Len(v)>>]

\* ptr_vector_find_sorted(): an index of key k in a vector that is not empty, or
\* an approximate match when the key is not there.
ptr_vector_find_sorted(v, key, k) ==
  IF k <= key[v[1]] \/ Len(v) = 1 THEN 1
  ELSE IF k >= key[v[Len(v)]] THEN Len(v)
  ELSE BinarySearch(v, key, k)

\* Mutant of InsertIndex: stops at the first equal element.
MutInsertBeforeEquals(v, key, k) ==
  IF v = <<>> THEN 1
  ELSE LET match == ptr_vector_find_sorted(v, key, k)
       IN  IF key[v[match]] < k THEN match + 1 ELSE match

\* Mutant of InsertIndex: an approximate match is taken as the place.
MutInsertAtMatch(v, key, k) ==
  IF v = <<>> THEN 1 ELSE ptr_vector_find_sorted(v, key, k)

\* Where sol_ptr_vector_insert_sorted() puts a key: it walks over the elements
\* that are equal to it and stops before the first that is greater.
InsertIndex(v, key, k) ==
  IF v = <<>> THEN 1
  ELSE LET match == ptr_vector_find_sorted(v, key, k)
           stop == CHOOSE i \in match..Len(v) :
                     /\ key[v[i]] # k \/ i = Len(v)
                     /\ \A j \in match..(i - 1) : key[v[j]] = k
       IN  IF k >= key[v[stop]] THEN stop + 1 ELSE stop

sol_ptr_vector_insert_sorted(v, key, x) == InsertAt(v, InsertIndex(v, key, key[x]), x)

\* Mutant of sol_ptr_vector_update_sorted: the tail is not moved down before
\* the element is inserted again, so a neighbour is overwritten.
MutUpdateOverwrites(v, key, i) ==
  LET front == SubSeq(v, 1, Len(v) - 1)
      index == InsertIndex(front, key, key[v[i]])
  IN  IF Len(v) = 1 THEN [v |-> v, index |-> i]
      ELSE [v |-> InsertAt(front, index, v[i]), index |-> index]

\* sol_ptr_vector_update_sorted(): element i has got a new key; it stays where
\* it is if it is not smaller than its left and smaller than its right
\* neighbour, else it is taken out and inserted again.  The result is the
\* vector and the new index.
sol_ptr_vector_update_sorted(v, key, i) ==
  LET inPlace == /\ i > 1 => key[v[i - 1]] <= key[v[i]]
                 /\ i < Len(v) => key[v[i]] < key[v[i + 1]]
      without == RemoveAt(v, i)
      index == InsertIndex(without, key, key[v[i]])
  IN  IF Len(v) = 1 \/ inPlace
      THEN [v |-> v, index |-> i]
      ELSE [v |-> InsertAt(without, index, v[i]), index |-> index]

\* sol_ptr_vector_match_sorted(): 0 stands for -ENODATA.
sol_ptr_vector_match_sorted(v, key, k) ==
  IF v = <<>> THEN 0
  ELSE LET i == ptr_vector_find_sorted(v, key, k)
       IN  IF key[v[i]] = k THEN i ELSE 0

\* sol_vector_del_range(): len is cut at the end of the vector.
sol_vector_del_range(v, start, len) ==
  LET n == IF start + len > Len(v) THEN Len(v) - start + 1 ELSE len
  IN  SubSeq(v, 1, start - 1) \o SubSeq(v, start + n, Len(v))

\* sol_ptr_vector_del_element(): every occurrence goes, the order stays.
sol_ptr_vector_del_element(v, x) == Kept(v, {i \in DOMAIN v : v[i] # x})

SortedBy(v, key) == \A i, j \in DOMAIN v : i < j => key[v[i]] <= key[v[j]]
=============================================================================
