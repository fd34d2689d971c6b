---------------------------- MODULE SortedVector ----------------------------
(***************************************************************************)
(* A client of one sorted sol_ptr_vector: any sequence of insertions, key  *)
(* changes followed by an update, and deletions.  It checks the operators  *)
(* of PtrVector on every vector that such a client can build.              *)
(***************************************************************************)
EXTENDS PtrVector, FiniteSets

CONSTANTS
  Elems,    \* pointers
  MaxKey    \* bound on the keys

ASSUME SortedVectorAssumption == IsFiniteSet(Elems) /\ MaxKey \in Nat

Keys == 0..MaxKey

VARIABLES
  vector,   \* the vector
  key_of,   \* the key of every element
  touched   \* the elements inserted or moved by the last operation

clientVars == <<vector, key_of, touched>>

VectorInit ==
  /\ vector = <<>>
  /\ key_of = [x \in Elems |-> 0]
  /\ touched = {}

InsertSorted(x, k) ==
  /\ x \notin Range(vector)
  /\ key_of' = [key_of EXCEPT ![x] = k]
  /\ vector' = sol_ptr_vector_insert_sorted(vector, key_of', x)
  /\ touched' = {x}

\* The client changes the key of one element and calls the update.
UpdateSorted(i, k) ==
  /\ key_of' = [key_of EXCEPT ![vector[i]] = k]
  /\ vector' = sol_ptr_vector_update_sorted(vector, key_of', i).v
  /\ touched' = {vector[i]}

DelRange(start, len) ==
  /\ vector' = sol_vector_del_range(vector, start, len)
  /\ touched' = {}
  /\ UNCHANGED key_of

DelElement(x) ==
  /\ x \in Range(vector)
  /\ vector' = sol_ptr_vector_del_element(vector, x)
  /\ touched' = {}
  /\ UNCHANGED key_of

VectorNext ==
  \/ \E x \in Elems, k \in Keys : InsertSorted(x, k)
  \/ \E i \in DOMAIN vector, k \in Keys : UpdateSorted(i, k)
  \/ \E start \in DOMAIN vector, len \in 1..Cardinality(Elems) : DelRange(start, len)
  \/ \E x \in Elems : DelElement(x)

VectorSpec == VectorInit /\ [][VectorNext]_clientVars

-----------------------------------------------------------------------------

\* sol_ptr_vector_match_sorted() finds a key exactly when it is there.
MatchFinds ==
  \A k \in Keys :
    LET i == sol_ptr_vector_match_sorted(vector, key_of, k)
    IN  IF \E j \in DOMAIN vector : key_of[vector[j]] = k
        THEN i \in DOMAIN vector /\ key_of[vector[i]] = k
        ELSE i = 0

\* The vector stays sorted, whatever is inserted, moved or deleted, no element is
\* duplicated by the memmove() of an update, and searches find what is there.
StaysSorted == SortedBy(vector, key_of) /\ IsInjective(vector) /\ MatchFinds

\* An element that was inserted or updated comes after all those with the same
\* key: timeouts that expire together run in the order they were armed.
TouchedIsLastOfItsKey ==
  \A i, j \in DOMAIN vector : i < j /\ vector[i] \in touched => key_of[vector[i]] < key_of[vector[j]]

Before(s, x, y) == \E i, j \in DOMAIN s : i < j /\ s[i] = x /\ s[j] = y

\* Nothing but the touched element changes its place among the others, and
\* only a deletion makes elements disappear.
OthersKeepTheirOrder ==
  [][ /\ touched' # {} => Range(vector') = Range(vector) \cup touched'
      /\ \A x, y \in Range(vector') \ touched' :
           Before(vector', x, y) <=> Before(vector, x, y)]_clientVars
=============================================================================
