---------------------------- MODULE VectorProofs ----------------------------
(***************************************************************************)
(* What the operations on vectors do, for vectors of any length: first     *)
(* what sol_vector_del() and the walks that keep some of the entries       *)
(* leave, then what the sorted operations of sol_ptr_vector find and where *)
(* they insert.  The proofs about the components rest on these lemmas.     *)
(***************************************************************************)
EXTENDS PtrVector, SequenceTheorems, FiniteSetTheorems, WellFoundedInduction,
        TLAPS

\* A set of natural numbers has a least element: what takes the place of
\* induction in the proofs of this project.
LEMMA Least ==
  ASSUME NEW T, T \subseteq Nat, T # {}
  PROVE  \E x \in T : \A y \in T : x <= y
  <1>1. PICK x \in T : \A y \in T : ~ (<<y, x>> \in OpToRel(<, Nat))
        BY NatLessThanWellFounded, WFMin
  <1>2. \A y \in T : ~(y < x)
        BY <1>1 DEF OpToRel
  <1>3. QED
        BY <1>2

\* Min and Max of FiniteSetsExt on a set of indices.
LEMMA MinMax ==
  ASSUME NEW n \in Nat, NEW T, T \subseteq 0..n, T # {}
  PROVE  /\ Min(T) \in T /\ \A y \in T : Min(T) <= y
         /\ Max(T) \in T /\ \A y \in T : y <= Max(T)
  <1>1. \E x \in T : \A y \in T : x <= y
    <2>1. T \subseteq Nat
          OBVIOUS
    <2>2. QED
          BY <2>1, Least
  <1> DEFINE U == {u \in 0..n : n - u \in T}
  <1>2. U \subseteq Nat /\ U # {}
    <2>1. PICK t \in T : TRUE
          OBVIOUS
    <2>2. n - t \in U
          BY <2>1
    <2>3. QED BY <2>2
  <1>3. PICK z \in U : \A u \in U : z <= u
        BY <1>2, Least
  <1>4. \A y \in T : n - y \in U
        OBVIOUS
  <1>5. n - z \in T /\ \A y \in T : n - z >= y
        BY <1>3, <1>4
  <1>6. QED
        BY <1>1, <1>5 DEF Min, Max

\* The first n entries, and what is behind them.
LEMMA PrefixProperties ==
  ASSUME NEW E, NEW q \in Seq(E), NEW n \in 0..Len(q)
  PROVE  /\ SubSeq(q, 1, n) \in Seq(E) /\ Len(SubSeq(q, 1, n)) = n
         /\ \A j \in 1..n : SubSeq(q, 1, n)[j] = q[j]
         /\ SubSeq(q, n + 1, Len(q)) \in Seq(E) /\ Len(SubSeq(q, n + 1, Len(q))) = Len(q) - n
         /\ \A j \in 1..(Len(q) - n) : SubSeq(q, n + 1, Len(q))[j] = q[n + j]
  <1>1. Len(q) \in Nat /\ \A j \in 1..Len(q) : q[j] \in E
        BY ElementOfSeq, LenProperties
  <1>2. /\ \A j \in 1..n : q[j] \in E
        /\ \A j \in (n + 1)..Len(q) : q[j] \in E
        BY <1>1
  <1>3. /\ SubSeq(q, 1, n) \in Seq(E)
        /\ Len(SubSeq(q, 1, n)) = IF 1 <= n THEN n - 1 + 1 ELSE 0
        /\ \A j \in 1..(n - 1 + 1) : SubSeq(q, 1, n)[j] = q[1 + j - 1]
        BY <1>1, <1>2, SubSeqProperties
  <1>4. SubSeq(q, 1, n) \in Seq(E) /\ Len(SubSeq(q, 1, n)) = n
        BY <1>1, <1>3
  <1>5. \A j \in 1..n : SubSeq(q, 1, n)[j] = q[j]
        BY <1>1, <1>3
  <1> DEFINE m == n + 1
  <1>6. m \in Nat /\ n = m - 1
        BY <1>1
  <1>7. /\ SubSeq(q, m, Len(q)) \in Seq(E)
        /\ Len(SubSeq(q, m, Len(q))) = IF m <= Len(q) THEN Len(q) - m + 1 ELSE 0
        /\ \A j \in 1..(Len(q) - m + 1) : SubSeq(q, m, Len(q))[j] = q[m + j - 1]
        BY <1>1, <1>2, <1>6, SubSeqProperties
  <1> HIDE DEF m
  <1>8. SubSeq(q, m, Len(q)) \in Seq(E) /\ Len(SubSeq(q, m, Len(q))) = Len(q) - n
        BY <1>1, <1>6, <1>7
  <1>9. \A j \in 1..(Len(q) - n) : SubSeq(q, m, Len(q))[j] = q[n + j]
        BY <1>1, <1>6, <1>7
  <1>10. QED
        BY <1>4, <1>5, <1>8, <1>9 DEF m

\* sol_vector_del() takes out one entry and leaves the others in their order.
LEMMA DeletedProperties ==
  ASSUME NEW E, NEW q \in Seq(E), NEW k \in 1..Len(q)
  PROVE  /\ sol_vector_del(q, k) \in Seq(E)
         /\ Len(sol_vector_del(q, k)) = Len(q) - 1
         /\ \A j \in 1..(Len(q) - 1) : sol_vector_del(q, k)[j] = IF j < k THEN q[j] ELSE q[j + 1]
  <1>1. \A j \in 1..Len(q) : q[j] \in E
        BY ElementOfSeq
  <1>2. /\ SubSeq(q, 1, k - 1) \in Seq(E) /\ Len(SubSeq(q, 1, k - 1)) = k - 1
        /\ \A j \in 1..(k - 1) : SubSeq(q, 1, k - 1)[j] = q[j]
    <2>1. \A j \in 1..(k - 1) : q[j] \in E
          BY <1>1
    <2>2. QED
          BY <2>1, SubSeqProperties
  <1>3. /\ SubSeq(q, k + 1, Len(q)) \in Seq(E) /\ Len(SubSeq(q, k + 1, Len(q))) = Len(q) - k
        /\ \A j \in 1..(Len(q) - k) : SubSeq(q, k + 1, Len(q))[j] = q[k + j]
    <2>1. \A j \in (k + 1)..Len(q) : q[j] \in E
          BY <1>1
    <2>2. QED
          BY <2>1, SubSeqProperties
  <1> DEFINE a == SubSeq(q, 1, k - 1)
             b == SubSeq(q, k + 1, Len(q))
  <1>4. sol_vector_del(q, k) = a \o b /\ Len(q) \in Nat
        BY LenProperties DEF sol_vector_del
  <1> HIDE DEF a, b
  <1>5. /\ a \o b \in Seq(E) /\ Len(a \o b) = Len(a) + Len(b)
        /\ \A j \in 1..(Len(a) + Len(b)) :
             (a \o b)[j] = IF j <= Len(a) THEN a[j] ELSE b[j - Len(a)]
        BY <1>2, <1>3, ConcatProperties DEF a, b
  <1>6. /\ Len(a) = k - 1 /\ Len(b) = Len(q) - k
        /\ \A j \in 1..(k - 1) : a[j] = q[j]
        /\ \A j \in 1..(Len(q) - k) : b[j] = q[k + j]
        BY <1>2, <1>3 DEF a, b
  <1>7. \A j \in 1..(Len(q) - 1) : (a \o b)[j] = IF j < k THEN q[j] ELSE q[j + 1]
    <2> SUFFICES ASSUME NEW j \in 1..(Len(q) - 1)
                 PROVE  (a \o b)[j] = IF j < k THEN q[j] ELSE q[j + 1]
        OBVIOUS
    <2>1. CASE j < k
          BY <1>4, <1>5, <1>6, <2>1
    <2>2. CASE j >= k
      <3> DEFINE m == j - (k - 1)
      <3>1. m \in 1..(Len(q) - k) /\ k + m = j + 1
            BY <1>4, <2>2
      <3>2. (a \o b)[j] = b[m]
            BY <1>4, <1>5, <1>6, <2>2
      <3> HIDE DEF m
      <3>3. b[m] = q[j + 1]
            BY <1>6, <3>1
      <3>4. QED
            BY <2>2, <3>2, <3>3
    <2>3. j < k \/ j >= k
          BY <1>4
    <2>4. QED
          BY <2>1, <2>2, <2>3
  <1>8. QED
        BY <1>4, <1>5, <1>6, <1>7

\* f is the function in Kept(), on the first m entries.
Defines(f, q, S, m) ==
  f = [n \in 0..m |-> IF n = 0 THEN <<>>
         ELSE IF n \in S THEN Append(f[n - 1], q[n]) ELSE f[n - 1]]

\* r has the entries at S of the first m of q, in their order: place[j] is the
\* index in q of entry j of r.
Selects(r, q, S, m) ==
  \E place \in [1..Len(r) -> S \cap (1..m)] :
    /\ \A j \in 1..Len(r) : r[j] = q[place[j]]
    /\ \A j, k \in 1..Len(r) : j < k => place[j] < place[k]
    /\ \A n \in S \cap (1..m) : \E j \in 1..Len(r) : place[j] = n

\* The recursive function in Kept() exists.
LEMMA KeptDefined ==
  ASSUME NEW q, NEW l \in Nat, NEW S
  PROVE  \E f : Defines(f, q, S, l)
  <1> DEFINE Missing == {m \in 0..l : ~ \E f : Defines(f, q, S, m)}
  <1>1. SUFFICES ASSUME Missing # {} PROVE FALSE
        OBVIOUS
  <1>2. PICK m \in Missing : \A y \in Missing : m <= y
    <2>1. Missing \subseteq Nat
          OBVIOUS
    <2> HIDE DEF Missing
    <2>2. QED
          BY <1>1, <2>1, Least
  <1>3. m # 0
    <2>1. Defines([n \in 0..0 |-> <<>>], q, S, 0)
          BY DEF Defines
    <2>2. QED
          BY <2>1
  <1>4. m \in 1..l /\ m - 1 \in 0..l /\ m - 1 \notin Missing
    <2>1. m \in 0..l
          OBVIOUS
    <2> HIDE DEF Missing
    <2>2. QED
          BY <1>2, <1>3, <2>1
  <1>5. PICK f : Defines(f, q, S, m - 1)
        BY <1>4
  <1> DEFINE g == [n \in 0..m |-> IF n < m THEN f[n]
                     ELSE IF n \in S THEN Append(f[n - 1], q[n]) ELSE f[n - 1]]
  <1> HIDE DEF Missing
  <1>6. \A n \in 0..(m - 1) : f[n] = IF n = 0 THEN <<>>
                     ELSE IF n \in S THEN Append(f[n - 1], q[n]) ELSE f[n - 1]
        BY <1>4, <1>5 DEF Defines
  <1>7. \A n \in 0..m : g[n] = IF n = 0 THEN <<>>
                     ELSE IF n \in S THEN Append(g[n - 1], q[n]) ELSE g[n - 1]
        BY <1>4, <1>6
  <1>8. Defines(g, q, S, m)
        BY <1>4, <1>7 DEF Defines
  <1>9. QED
        BY <1>8 DEF Missing

\* Kept() takes over the entries at S, in their order.
LEMMA KeptProperties ==
  ASSUME NEW E, NEW q \in Seq(E), NEW S
  PROVE  Kept(q, S) \in Seq(E) /\ Selects(Kept(q, S), q, S, Len(q))
  <1> DEFINE f == CHOOSE h : Defines(h, q, S, Len(q))
  <1>1. Len(q) \in Nat /\ \A n \in 1..Len(q) : q[n] \in E
        BY ElementOfSeq, LenProperties
  <1>2. Defines(f, q, S, Len(q))
        BY <1>1, KeptDefined
  <1>3. Kept(q, S) = f[Len(q)]
        BY DEF Kept, Defines
  <1> HIDE DEF f
  <1>4. /\ f[0] = <<>>
        /\ \A n \in 1..Len(q) : f[n] = IF n \in S THEN Append(f[n - 1], q[n]) ELSE f[n - 1]
    <2>1. \A n \in 0..Len(q) : f[n] = IF n = 0 THEN <<>>
                     ELSE IF n \in S THEN Append(f[n - 1], q[n]) ELSE f[n - 1]
          BY <1>1, <1>2 DEF Defines
    <2>2. QED
          BY <1>1, <2>1
  <1> DEFINE Wrong == {m \in 0..Len(q) : ~ (f[m] \in Seq(E) /\ Selects(f[m], q, S, m))}
  <1>5. SUFFICES ASSUME Wrong # {} PROVE FALSE
        BY <1>1, <1>3
  <1>6. PICK m \in Wrong : \A y \in Wrong : m <= y
    <2>1. Wrong \subseteq Nat
          OBVIOUS
    <2> HIDE DEF Wrong
    <2>2. QED
          BY <1>5, <2>1, Least
  <1>7. m # 0
    <2> DEFINE none == [j \in 1..0 |-> 0]
    <2>1. none \in [1..Len(<<>>) -> S \cap (1..0)]
          OBVIOUS
    <2>2. Selects(<<>>, q, S, 0)
      <3>1. 1..Len(<<>>) = {} /\ 1..0 = {}
            OBVIOUS
      <3>2. QED
            BY <2>1, <3>1 DEF Selects
    <2>3. <<>> \in Seq(E)
          OBVIOUS
    <2>4. QED
          BY <1>4, <2>2, <2>3
  <1>8. m \in 1..Len(q) /\ m - 1 \in 0..Len(q) /\ m - 1 \notin Wrong
    <2>1. m \in 0..Len(q)
          OBVIOUS
    <2> HIDE DEF Wrong
    <2>2. QED
          BY <1>1, <1>6, <1>7, <2>1
  <1> DEFINE p == f[m - 1]
  <1>9. p \in Seq(E) /\ Selects(p, q, S, m - 1)
        BY <1>8
  <1>10. ~ (f[m] \in Seq(E) /\ Selects(f[m], q, S, m))
        OBVIOUS
  <1>11. f[m] = IF m \in S THEN Append(p, q[m]) ELSE p
        BY <1>4, <1>8
  <1> HIDE DEF Wrong, p
  <1>12. CASE m \notin S
    <2>1. S \cap (1..m) = S \cap (1..(m - 1))
          BY <1>8, <1>12
    <2>2. Selects(p, q, S, m)
          BY <1>9, <2>1 DEF Selects
    <2>3. QED
          BY <1>9, <1>10, <1>11, <1>12, <2>2
  <1>13. CASE m \in S
    <2>1. PICK place \in [1..Len(p) -> S \cap (1..(m - 1))] :
            /\ \A j \in 1..Len(p) : p[j] = q[place[j]]
            /\ \A j, k \in 1..Len(p) : j < k => place[j] < place[k]
            /\ \A n \in S \cap (1..(m - 1)) : \E j \in 1..Len(p) : place[j] = n
          BY <1>9 DEF Selects
    <2> DEFINE r == Append(p, q[m])
               longer == [j \in 1..Len(r) |-> IF j <= Len(p) THEN place[j] ELSE m]
    <2>2. /\ r \in Seq(E) /\ Len(r) = Len(p) + 1 /\ Len(p) \in Nat
          /\ \A j \in 1..Len(p) : r[j] = p[j]
          /\ r[Len(p) + 1] = q[m]
          BY <1>1, <1>8, <1>9, AppendProperties, LenProperties
    <2> HIDE DEF r
    <2>3. longer \in [1..Len(r) -> S \cap (1..m)]
          BY <1>8, <1>13, <2>1, <2>2
    <2>4. /\ \A j \in 1..Len(p) : longer[j] = place[j] /\ longer[j] \in 1..(m - 1)
          /\ longer[Len(p) + 1] = m
          BY <1>8, <2>1, <2>2
    <2> HIDE DEF longer
    <2>5. \A j \in 1..Len(r) : r[j] = q[longer[j]]
          BY <2>1, <2>2, <2>4
    <2>6. \A j, k \in 1..Len(r) : j < k => longer[j] < longer[k]
      <3> SUFFICES ASSUME NEW j \in 1..Len(r), NEW k \in 1..Len(r), j < k
                   PROVE  longer[j] < longer[k]
          OBVIOUS
      <3>1. j \in 1..Len(p)
            BY <2>2
      <3>2. CASE k \in 1..Len(p)
            BY <2>1, <2>4, <3>1, <3>2
      <3>3. CASE k = Len(p) + 1
            BY <1>8, <2>4, <3>1, <3>3
      <3>4. QED
            BY <2>2, <3>2, <3>3
    <2>7. \A n \in S \cap (1..m) : \E j \in 1..Len(r) : longer[j] = n
      <3> SUFFICES ASSUME NEW n \in S \cap (1..m)
                   PROVE  \E j \in 1..Len(r) : longer[j] = n
          OBVIOUS
      <3>1. CASE n = m
            BY <3>1, <2>2, <2>4
      <3>2. CASE n # m
        <4>1. PICK j \in 1..Len(p) : place[j] = n
          <5>1. n \in S \cap (1..(m - 1))
                BY <1>8, <3>2
          <5>2. QED
                BY <5>1, <2>1
        <4>2. QED
              BY <4>1, <2>2, <2>4
      <3>3. QED
            BY <3>1, <3>2
    <2>8. Selects(r, q, S, m)
          BY <2>3, <2>5, <2>6, <2>7 DEF Selects
    <2>9. QED
          BY <1>10, <1>11, <1>13, <2>2, <2>8 DEF r
  <1>14. QED
         BY <1>12, <1>13

\* A set of indices is finite, and has no more elements than there are indices.
LEMMA IndicesFinite ==
  ASSUME NEW l \in Nat, NEW T, T \subseteq 1..l
  PROVE  IsFiniteSet(T) /\ Cardinality(T) \in Nat /\ Cardinality(T) <= l
  <1>1. 1 \in Int /\ l \in Int
        OBVIOUS
  <1>2. IsFiniteSet(1..l) /\ Cardinality(1..l) = IF 1 > l THEN 0 ELSE l - 1 + 1
        BY <1>1, FS_Interval
  <1>3. Cardinality(1..l) <= l
        BY <1>2
  <1>4. T \in SUBSET (1..l)
        OBVIOUS
  <1>5. IsFiniteSet(T) /\ Cardinality(T) <= Cardinality(1..l)
        BY <1>2, <1>4, FS_Subset
  <1>6. Cardinality(T) \in Nat /\ Cardinality(1..l) \in Nat
        BY <1>2, <1>5, FS_CardinalityType
  <1>7. QED
        BY <1>3, <1>5, <1>6

\* No entry is in q twice.
Distinct(q) == \A j, k \in 1..Len(q) : q[j] = q[k] => j = k

\* x is an entry of q.
In(x, q) == \E k \in 1..Len(q) : q[k] = x

\* Of the entries of q that are in M, fewer than M has are behind one of them: a
\* sweep that walks backwards and counts down from that number reaches them all.
LEMMA FewerBehind ==
  ASSUME NEW E, NEW q \in Seq(E), Distinct(q), NEW M, IsFiniteSet(M),
         NEW x \in 1..Len(q), q[x] \in M
  PROVE  /\ Cardinality({y \in {k \in 1..Len(q) : q[k] \in M} : y > x}) \in Nat
         /\ Cardinality({y \in {k \in 1..Len(q) : q[k] \in M} : y > x}) < Cardinality(M)
  <1> DEFINE behind == {y \in {k \in 1..Len(q) : q[k] \in M} : y > x}
             others == M \ {q[x]}
             f == [y \in behind |-> q[y]]
  <1>1. Len(q) \in Nat
        BY LenProperties
  <1>2. \A y \in behind : y # x /\ y \in 1..Len(q) /\ q[y] \in M
        BY <1>1
  <1>3. f \in [behind -> others]
        BY <1>2 DEF Distinct
  <1>4. f \in Injection(behind, others)
        BY <1>2, <1>3 DEF Distinct, Injection, IsInjective
  <1>5. /\ IsFiniteSet(others) /\ Cardinality(others) = Cardinality(M) - 1
        /\ Cardinality(M) \in Nat
        BY FS_RemoveElement, FS_CardinalityType
  <1> HIDE DEF behind, others, f
  <1>6. IsFiniteSet(behind) /\ Cardinality(behind) <= Cardinality(others)
        BY <1>4, <1>5, FS_Injection
  <1>7. Cardinality(behind) \in Nat
        BY <1>6, FS_CardinalityType
  <1>8. QED
        BY <1>5, <1>6, <1>7 DEF behind

\* A walk that keeps some entries leaves each of them once, and no other.
LEMMA KeptEntries ==
  ASSUME NEW E, NEW q \in Seq(E), Distinct(q), NEW r \in Seq(E), NEW S, Selects(r, q, S, Len(q))
  PROVE  /\ Distinct(r)
         /\ \A x : In(x, r) <=> \E k \in S \cap (1..Len(q)) : q[k] = x
  <1>1. PICK place \in [1..Len(r) -> S \cap (1..Len(q))] :
              /\ \A j \in 1..Len(r) : r[j] = q[place[j]]
              /\ \A j, k \in 1..Len(r) : j < k => place[j] < place[k]
              /\ \A n \in S \cap (1..Len(q)) : \E j \in 1..Len(r) : place[j] = n
        BY DEF Selects
  <1>2. Len(q) \in Nat /\ Len(r) \in Nat
        BY LenProperties
  <1>3. \A j, k \in 1..Len(r) : place[j] = place[k] => j = k
    <2> SUFFICES ASSUME NEW j \in 1..Len(r), NEW k \in 1..Len(r), place[j] = place[k], j # k
                 PROVE  FALSE
        OBVIOUS
    <2>1. place[j] \in Int /\ place[k] \in Int
          BY <1>1, <1>2
    <2>2. j < k \/ k < j
          BY <1>2
    <2>3. place[j] < place[k] \/ place[k] < place[j]
          BY <1>1, <2>2
    <2>4. QED
          BY <2>1, <2>3
  <1>4. Distinct(r)
        BY <1>1, <1>3 DEF Distinct
  <1>5. \A x : In(x, r) <=> \E k \in S \cap (1..Len(q)) : q[k] = x
    <2>1. ASSUME NEW x, In(x, r)
          PROVE  \E k \in S \cap (1..Len(q)) : q[k] = x
      <3>1. PICK j \in 1..Len(r) : r[j] = x
            BY <2>1 DEF In
      <3>2. place[j] \in S \cap (1..Len(q)) /\ q[place[j]] = x
            BY <1>1, <3>1
      <3>3. QED
            BY <3>2
    <2>2. ASSUME NEW x, NEW k \in S \cap (1..Len(q)), q[k] = x
          PROVE  In(x, r)
      <3>1. PICK j \in 1..Len(r) : place[j] = k
            BY <1>1
      <3>2. QED
            BY <1>1, <2>2, <3>1 DEF In
    <2>3. QED
          BY <2>1, <2>2
  <1>6. QED
        BY <1>4, <1>5

\* sol_ptr_vector_append(): one more entry, the last.
LEMMA AppendedEntries ==
  ASSUME NEW E, NEW q \in Seq(E), NEW x \in E
  PROVE  /\ Append(q, x) \in Seq(E) /\ Len(Append(q, x)) = Len(q) + 1 /\ Len(q) \in Nat
         /\ \A k \in 1..Len(q) : Append(q, x)[k] = q[k]
         /\ Append(q, x)[Len(q) + 1] = x
         /\ \A y : In(y, Append(q, x)) <=> In(y, q) \/ y = x
         /\ Distinct(q) /\ ~In(x, q) => Distinct(Append(q, x))
  <1> DEFINE r == Append(q, x)
  <1>1. /\ r \in Seq(E) /\ Len(r) = Len(q) + 1 /\ Len(q) \in Nat
        /\ \A k \in 1..Len(q) : r[k] = q[k]
        /\ r[Len(q) + 1] = x
        BY AppendProperties, LenProperties
  <1> HIDE DEF r
  <1>2. \A k \in 1..Len(r) : k \in 1..Len(q) \/ k = Len(q) + 1
        BY <1>1
  <1>3. 1..Len(q) \subseteq 1..Len(r) /\ Len(q) + 1 \in 1..Len(r)
        BY <1>1
  <1>4. \A y : In(y, r) <=> In(y, q) \/ y = x
    <2>1. ASSUME NEW y, In(y, r) PROVE In(y, q) \/ y = x
          BY <1>1, <1>2, <2>1 DEF In
    <2>2. ASSUME NEW y, In(y, q) PROVE In(y, r)
          BY <1>1, <1>3, <2>2 DEF In
    <2>3. In(x, r)
          BY <1>1, <1>3 DEF In
    <2>4. QED
          BY <2>1, <2>2, <2>3
  <1>5. Distinct(q) /\ ~In(x, q) => Distinct(r)
        BY <1>1, <1>2 DEF Distinct, In
  <1>6. QED
        BY <1>1, <1>4, <1>5 DEF r

\* The vector of a walk is put behind the one that was filled meanwhile.
LEMMA JoinedEntries ==
  ASSUME NEW E, NEW q \in Seq(E), NEW r \in Seq(E)
  PROVE  /\ q \o r \in Seq(E)
         /\ \A y : In(y, q \o r) <=> In(y, q) \/ In(y, r)
         /\ Distinct(q) /\ Distinct(r) /\ (\A y : ~(In(y, q) /\ In(y, r))) => Distinct(q \o r)
         /\ q = <<>> => q \o r = r
  <1> DEFINE s == q \o r
  <1>1. /\ s \in Seq(E) /\ Len(s) = Len(q) + Len(r) /\ Len(q) \in Nat /\ Len(r) \in Nat
        /\ \A k \in 1..Len(s) : s[k] = IF k <= Len(q) THEN q[k] ELSE r[k - Len(q)]
        BY ConcatProperties, LenProperties
  <1>2. q = <<>> => s = r
        BY ConcatEmptySeq
  <1> HIDE DEF s
  <1>3. \A k \in 1..Len(s) : \/ k \in 1..Len(q) /\ s[k] = q[k]
                             \/ k - Len(q) \in 1..Len(r) /\ s[k] = r[k - Len(q)]
        BY <1>1
  <1>4. \A k \in 1..Len(q) : k \in 1..Len(s) /\ s[k] = q[k]
        BY <1>1
  <1>5. \A k \in 1..Len(r) : k + Len(q) \in 1..Len(s) /\ s[k + Len(q)] = r[k]
    <2> SUFFICES ASSUME NEW k \in 1..Len(r)
                 PROVE  k + Len(q) \in 1..Len(s) /\ s[k + Len(q)] = r[k]
        OBVIOUS
    <2>1. k + Len(q) \in 1..Len(s) /\ ~(k + Len(q) <= Len(q)) /\ (k + Len(q)) - Len(q) = k
          BY <1>1
    <2>2. QED
          BY <1>1, <2>1
  <1>6. \A y : In(y, s) <=> In(y, q) \/ In(y, r)
    <2>1. ASSUME NEW y, In(y, s) PROVE In(y, q) \/ In(y, r)
          BY <1>3, <2>1 DEF In
    <2>2. ASSUME NEW y, In(y, q) PROVE In(y, s)
          BY <1>4, <2>2 DEF In
    <2>3. ASSUME NEW y, In(y, r) PROVE In(y, s)
          BY <1>5, <2>3 DEF In
    <2>4. QED
          BY <2>1, <2>2, <2>3
  <1>7. ASSUME Distinct(q), Distinct(r), \A y : ~(In(y, q) /\ In(y, r)),
               NEW j \in 1..Len(s), NEW k \in 1..Len(s), s[j] = s[k]
        PROVE  j = k
    <2>1. j \in Int /\ k \in Int
          BY <1>1
    <2>2. CASE j \in 1..Len(q) /\ s[j] = q[j] /\ k \in 1..Len(q) /\ s[k] = q[k]
          BY <1>7, <2>2 DEF Distinct
    <2>3. CASE /\ j - Len(q) \in 1..Len(r) /\ s[j] = r[j - Len(q)]
               /\ k - Len(q) \in 1..Len(r) /\ s[k] = r[k - Len(q)]
      <3>1. j - Len(q) = k - Len(q)
            BY <1>7, <2>3 DEF Distinct
      <3>2. QED
            BY <1>1, <2>1, <3>1
    <2>4. CASE j \in 1..Len(q) /\ s[j] = q[j] /\ k - Len(q) \in 1..Len(r) /\ s[k] = r[k - Len(q)]
          BY <1>7, <2>4 DEF In
    <2>5. CASE k \in 1..Len(q) /\ s[k] = q[k] /\ j - Len(q) \in 1..Len(r) /\ s[j] = r[j - Len(q)]
          BY <1>7, <2>5 DEF In
    <2>6. QED
          BY <1>3, <2>2, <2>3, <2>4, <2>5
  <1>8. QED
        BY <1>1, <1>2, <1>6, <1>7 DEF s, Distinct

-----------------------------------------------------------------------------
(***************************************************************************)
(* Searches, insertions, updates and range deletions in a sorted vector.   *)
(***************************************************************************)

\* f is the binary search in ptr_vector_find_sorted(), on the ranges in D.
Searches(f, v, key, k, D) ==
  f = [r \in D |->
        IF r[1] = r[2] \/ key[v[Mid(r)]] = k THEN Mid(r)
        ELSE IF key[v[Mid(r)]] > k THEN f[<<r[1], Mid(r)>>]
        ELSE f[<<Mid(r) + 1, r[2]>>]]

\* The ranges that are not wider than w.
Narrow(n, w) == {r \in Ranges(n) : r[2] - r[1] <= w}

\* Both halves of a range are narrower.
LEMMA Halves ==
  ASSUME NEW n \in Nat, NEW w \in Nat, NEW r \in Narrow(n, w), r[1] # r[2]
  PROVE  <<r[1], Mid(r)>> \in Narrow(n, w - 1) /\ <<Mid(r) + 1, r[2]>> \in Narrow(n, w - 1)
  <1>1. PICK low \in 1..n, high \in 1..n : r = <<low, high>>
        BY DEF Narrow, Ranges
  <1>2. low < high /\ high - low <= w
        BY <1>1 DEF Narrow, Ranges
  <1> DEFINE mid == (low + high) \div 2
  <1>3. mid \in Int /\ low <= mid /\ mid < high
        BY <1>2
  <1> HIDE DEF mid
  <1>4. mid \in 1..n /\ mid + 1 \in 1..n /\ mid - low <= w - 1 /\ high - (mid + 1) <= w - 1 /\ w # 0
        BY <1>2, <1>3
  <1>5. <<low, mid>> \in Narrow(n, w - 1) /\ <<mid + 1, high>> \in Narrow(n, w - 1)
        BY <1>2, <1>3, <1>4 DEF Narrow, Ranges
  <1>6. QED
        BY <1>1, <1>4, <1>5 DEF mid, Mid

\* The recursive function in ptr_vector_find_sorted() exists.
LEMMA SearchDefined ==
  ASSUME NEW v, NEW key, NEW k, NEW n \in Nat
  PROVE  \E f : Searches(f, v, key, k, Ranges(n))
  <1> DEFINE Missing == {w \in 0..n : ~ \E f : Searches(f, v, key, k, Narrow(n, w))}
  <1>1. SUFFICES ASSUME Missing # {} PROVE FALSE
    <2>1. Narrow(n, n) = Ranges(n)
          BY DEF Narrow, Ranges
    <2>2. QED
          BY <2>1
  <1>2. PICK w \in Missing : \A y \in Missing : w <= y
    <2>1. Missing \subseteq Nat
          OBVIOUS
    <2> HIDE DEF Missing
    <2>2. QED
          BY <1>1, <2>1, Least
  <1>3. w \in 0..n /\ ~ \E f : Searches(f, v, key, k, Narrow(n, w))
        OBVIOUS
  <1>4. w # 0
    <2> DEFINE f == [r \in Narrow(n, 0) |-> Mid(r)]
    <2>1. \A r \in Narrow(n, 0) : r[1] = r[2]
          BY DEF Narrow, Ranges
    <2>2. Searches(f, v, key, k, Narrow(n, 0))
          BY <2>1 DEF Searches
    <2>3. QED
          BY <1>3, <2>2
  <1>5. w - 1 \in 0..n /\ w - 1 \notin Missing
    <2> HIDE DEF Missing
    <2>1. QED
          BY <1>2, <1>3, <1>4
  <1>6. PICK f : Searches(f, v, key, k, Narrow(n, w - 1))
        BY <1>5
  <1> HIDE DEF Missing
  <1> DEFINE h(r) == IF r[1] = r[2] \/ key[v[Mid(r)]] = k THEN Mid(r)
                     ELSE IF key[v[Mid(r)]] > k THEN f[<<r[1], Mid(r)>>]
                     ELSE f[<<Mid(r) + 1, r[2]>>]
             g == [r \in Narrow(n, w) |-> h(r)]
  <1>7. \A r \in Narrow(n, w - 1) : f[r] = h(r)
        BY <1>6 DEF Searches
  <1> HIDE DEF h
  <1>8. g = [r \in Narrow(n, w) |-> g[r]] /\ \A r \in Narrow(n, w) : g[r] = h(r)
        OBVIOUS
  <1> HIDE DEF g
  <1>9. \A r \in Narrow(n, w - 1) : r \in Narrow(n, w) /\ g[r] = f[r]
    <2>1. Narrow(n, w - 1) \subseteq Narrow(n, w)
          BY <1>3 DEF Narrow, Ranges
    <2>2. QED
          BY <1>7, <1>8, <2>1
  <1>10. ASSUME NEW r \in Narrow(n, w), r[1] # r[2]
        PROVE  /\ g[<<r[1], Mid(r)>>] = f[<<r[1], Mid(r)>>]
               /\ g[<<Mid(r) + 1, r[2]>>] = f[<<Mid(r) + 1, r[2]>>]
    <2>1. <<r[1], Mid(r)>> \in Narrow(n, w - 1) /\ <<Mid(r) + 1, r[2]>> \in Narrow(n, w - 1)
          BY <1>3, <1>10, Halves
    <2>2. QED
          BY <1>9, <2>1
  <1>11. Searches(g, v, key, k, Narrow(n, w))
    <2> DEFINE b(r) == IF r[1] = r[2] \/ key[v[Mid(r)]] = k THEN Mid(r)
                       ELSE IF key[v[Mid(r)]] > k THEN g[<<r[1], Mid(r)>>]
                       ELSE g[<<Mid(r) + 1, r[2]>>]
    <2>1. \A r \in Narrow(n, w) : g[r] = b(r)
      <3> SUFFICES ASSUME NEW r \in Narrow(n, w)
                   PROVE  g[r] = b(r)
          OBVIOUS
      <3>1. CASE r[1] = r[2]
            BY <1>8, <3>1 DEF h
      <3>2. CASE r[1] # r[2]
            BY <1>10, <1>8, <3>2 DEF h
      <3>3. QED
            BY <3>1, <3>2
    <2>2. QED
          BY <1>8, <2>1 DEF Searches
  <1>12. QED
        BY <1>3, <1>11

\* The keys along a vector.
KeysOf(v, key) == [j \in 1..Len(v) |-> key[v[j]]]

\* The keys never fall.
Ascending(c, n) == \A j, m \in 1..n : j < m => c[j] <= c[m]

\* Where the search for k ends: at an equal key, or at the first greater one.
Hit(c, k, m) == c[m] = k \/ (c[m] > k /\ \A j \in 1..(m - 1) : c[j] < k)

\* c are the keys along the first n entries of v.
KeysAlong(c, v, key, n) == c \in [1..n -> Int] /\ \A j \in 1..n : c[j] = key[v[j]]

\* What one step of the search f does in the range from low to high.
Steps(f, c, k, low, high) ==
  /\ low = high => f[<<low, high>>] = low
  /\ low < high =>
       \E mid \in low..(high - 1) :
         /\ k = c[mid] => f[<<low, high>>] = mid
         /\ k < c[mid] => f[<<low, high>>] = f[<<low, mid>>]
         /\ k > c[mid] => f[<<low, high>>] = f[<<mid + 1, high>>]

\* A step of the search decides, or goes on in one half of the range.
LEMMA SearchStep ==
  ASSUME NEW v, NEW key, NEW k \in Int, NEW n \in Nat, NEW c, KeysAlong(c, v, key, n),
         NEW f, Searches(f, v, key, k, Ranges(n)),
         NEW low \in 1..n, NEW high \in 1..n, low <= high
  PROVE  Steps(f, c, k, low, high)
  <1> DEFINE r == <<low, high>>
             mid == Mid(r)
  <1>1. r \in Ranges(n) /\ r[1] = low /\ r[2] = high
        BY DEF Ranges
  <1>2. f[r] = IF low = high \/ key[v[mid]] = k THEN mid
               ELSE IF key[v[mid]] > k THEN f[<<low, mid>>]
               ELSE f[<<mid + 1, high>>]
        BY <1>1 DEF Searches
  <1>3. mid = (low + high) \div 2
        BY <1>1 DEF Mid
  <1> HIDE DEF r, mid
  <1>4. CASE low = high
    <2>1. mid = low
          BY <1>3, <1>4
    <2>2. QED
          BY <1>2, <1>4, <2>1 DEF r, Steps
  <1>5. CASE low < high
    <2>1. mid \in low..(high - 1)
          BY <1>3, <1>5
    <2>2. c[mid] = key[v[mid]] /\ c[mid] \in Int
          BY <2>1 DEF KeysAlong
    <2>3. /\ k = c[mid] => f[r] = mid
          /\ k < c[mid] => f[r] = f[<<low, mid>>]
          /\ k > c[mid] => f[r] = f[<<mid + 1, high>>]
          BY <1>2, <1>5, <2>2
    <2>4. \E m \in low..(high - 1) :
            /\ k = c[m] => f[<<low, high>>] = m
            /\ k < c[m] => f[<<low, high>>] = f[<<low, m>>]
            /\ k > c[m] => f[<<low, high>>] = f[<<m + 1, high>>]
          BY <2>1, <2>3 DEF r
    <2>5. low # high
          BY <1>5
    <2>6. QED
          BY <2>4, <2>5, Zenon DEF Steps
  <1>6. QED
        BY <1>4, <1>5

\* The search ends at an equal key, or at the first that is greater.
LEMMA SearchHits ==
  ASSUME NEW v, NEW key, NEW k \in Int, NEW n \in Nat, NEW c, KeysAlong(c, v, key, n), Ascending(c, n),
         NEW f, Searches(f, v, key, k, Ranges(n)),
         NEW l \in 1..n, NEW h \in 1..n, l <= h, k < c[h], \A j \in 1..(l - 1) : c[j] < k
  PROVE  f[<<l, h>>] \in 1..n /\ Hit(c, k, f[<<l, h>>])
  <1>1. c \in [1..n -> Int]
        BY DEF KeysAlong
  <1> DEFINE Asks(low, high) == low <= high /\ k < c[high] /\ \A j \in 1..(low - 1) : c[j] < k
             Good(low, high) == f[<<low, high>>] \in 1..n /\ Hit(c, k, f[<<low, high>>])
             Wrong == {w \in 0..n : \E low, high \in 1..n :
                         high - low = w /\ Asks(low, high) /\ ~Good(low, high)}
  <1>2. SUFFICES ASSUME Wrong # {} PROVE FALSE
    <2>1. h - l \in 0..n
          OBVIOUS
    <2>2. QED
          BY <2>1
  <1>3. PICK w \in Wrong : \A y \in Wrong : w <= y
    <2>1. Wrong \subseteq Nat
          OBVIOUS
    <2> HIDE DEF Wrong
    <2>2. QED
          BY <1>2, <2>1, Least
  <1>4. PICK low \in 1..n, high \in 1..n : high - low = w /\ Asks(low, high) /\ ~Good(low, high)
        OBVIOUS
  <1>5. ASSUME NEW a \in 1..n, NEW b \in 1..n, Asks(a, b), b - a < high - low
        PROVE  Good(a, b)
    <2> SUFFICES ASSUME ~Good(a, b) PROVE FALSE
        OBVIOUS
    <2>1. b - a \in 0..n
          BY <1>5
    <2>2. b - a \in Wrong
          BY <1>5, <2>1
    <2> HIDE DEF Wrong
    <2>3. QED
          BY <1>3, <1>4, <1>5, <2>1, <2>2
  <1> HIDE DEF Wrong
  <1>6. low <= high /\ k < c[high] /\ (\A j \in 1..(low - 1) : c[j] < k)
        BY <1>4
  <1>7. Steps(f, c, k, low, high)
        BY <1>6, SearchStep
  <1>8. CASE low = high
    <2>1. f[<<low, high>>] = low
          BY <1>8, <1>7 DEF Steps
    <2>2. Good(low, high)
          BY <1>1, <1>6, <1>8, <2>1 DEF Hit
    <2>3. QED
          BY <1>4, <2>2
  <1>9. CASE low < high
    <2>1. PICK mid \in low..(high - 1) :
          /\ k = c[mid] => f[<<low, high>>] = mid
          /\ k < c[mid] => f[<<low, high>>] = f[<<low, mid>>]
          /\ k > c[mid] => f[<<low, high>>] = f[<<mid + 1, high>>]
          BY <1>9, <1>7 DEF Steps
    <2>2. mid \in 1..n /\ mid + 1 \in 1..n /\ c[mid] \in Int /\ low <= mid /\ mid < high
      <3>1. mid \in 1..n /\ mid + 1 \in 1..n /\ low <= mid /\ mid < high
            OBVIOUS
      <3>2. QED
            BY <1>1, <3>1
    <2>3. CASE k = c[mid]
          BY <1>4, <2>1, <2>2, <2>3 DEF Hit
    <2>4. CASE k < c[mid]
      <3>1. Asks(low, mid)
            BY <1>6, <2>2, <2>4
      <3>2. Good(low, mid)
            BY <1>5, <2>2, <3>1
      <3>3. QED
            BY <1>4, <2>1, <2>4, <3>2
    <2>5. CASE k > c[mid]
      <3>1. \A j \in 1..((mid + 1) - 1) : c[j] < k
        <4> SUFFICES ASSUME NEW j \in 1..((mid + 1) - 1) PROVE c[j] < k
            OBVIOUS
        <4>1. j \in 1..n /\ (j < mid \/ j = mid)
              BY <2>2
        <4>2. c[j] <= c[mid] /\ c[j] \in Int
              BY <1>1, <2>2, <4>1 DEF Ascending
        <4>3. QED
              BY <2>2, <2>5, <4>2
      <3>2. Asks(mid + 1, high)
            BY <1>6, <2>2, <3>1
      <3>3. Good(mid + 1, high)
        <4>1. high - (mid + 1) < high - low
              BY <2>2
        <4>2. QED
              BY <1>5, <2>2, <3>2, <4>1
      <3>4. QED
            BY <1>4, <2>1, <2>5, <3>3
    <2>6. QED
          BY <2>2, <2>3, <2>4, <2>5
  <1>10. QED
        BY <1>6, <1>8, <1>9

\* The keys along a sorted vector.
LEMMA SortedKeys ==
  ASSUME NEW E, NEW v \in Seq(E), NEW key \in [E -> Int], SortedBy(v, key)
  PROVE  /\ Len(v) \in Nat /\ KeysAlong(KeysOf(v, key), v, key, Len(v))
         /\ Ascending(KeysOf(v, key), Len(v))
  <1>1. Len(v) \in Nat /\ DOMAIN v = 1..Len(v) /\ \A j \in 1..Len(v) : v[j] \in E
        BY LenProperties, ElementOfSeq
  <1>2. KeysAlong(KeysOf(v, key), v, key, Len(v))
        BY <1>1 DEF KeysAlong, KeysOf
  <1>3. Ascending(KeysOf(v, key), Len(v))
        BY <1>1 DEF Ascending, KeysOf, SortedBy
  <1>4. QED
        BY <1>1, <1>2, <1>3

\* ptr_vector_find_sorted() finds the key, or the first that is greater, or the
\* last entry if all are smaller.
LEMMA FindSorted ==
  ASSUME NEW E, NEW v \in Seq(E), NEW key \in [E -> Int], NEW k \in Int,
         SortedBy(v, key), v # <<>>
  PROVE  LET m == ptr_vector_find_sorted(v, key, k)
             c == KeysOf(v, key)
         IN  m \in 1..Len(v) /\ (Hit(c, k, m) \/ (m = Len(v) /\ c[m] < k))
  <1> DEFINE n == Len(v)
             c == KeysOf(v, key)
             f == CHOOSE g : Searches(g, v, key, k, Ranges(n))
             find == ptr_vector_find_sorted(v, key, k)
  <1>1. n \in Nat /\ n # 0 /\ KeysAlong(c, v, key, n) /\ Ascending(c, n)
        BY SortedKeys, EmptySeq
  <1>2. Searches(f, v, key, k, Ranges(n))
        BY <1>1, SearchDefined
  <1>3. find = IF k <= key[v[1]] \/ n = 1 THEN 1
               ELSE IF k >= key[v[n]] THEN n ELSE BinarySearch(v, key, k)
        BY DEF ptr_vector_find_sorted
  <1>4. BinarySearch(v, key, k) = f[<<1, n>>]
        BY DEF BinarySearch, Searches
  <1> HIDE DEF n, c, f, find
  <1>5. /\ 1 \in 1..n /\ n \in 1..n /\ c[1] = key[v[1]] /\ c[n] = key[v[n]]
        /\ c[1] \in Int /\ c[n] \in Int
    <2>1. 1 \in 1..n /\ n \in 1..n
          BY <1>1
    <2>2. QED
          BY <1>1, <2>1 DEF KeysAlong
  <1>6. CASE k <= c[1] \/ n = 1
    <2>1. find = 1
          BY <1>3, <1>5, <1>6
    <2>2. QED
      <3>1. Hit(c, k, 1) \/ (1 = n /\ c[1] < k)
            BY <1>5, <1>6 DEF Hit
      <3>2. QED
            BY <1>5, <2>1, <3>1 DEF n, c, find
  <1>7. CASE ~(k <= c[1] \/ n = 1) /\ k >= c[n]
    <2>1. find = n
          BY <1>3, <1>5, <1>7
    <2>2. QED
          BY <1>5, <1>7, <2>1 DEF Hit, n, c, find
  <1>8. CASE ~(k <= c[1] \/ n = 1) /\ k < c[n]
    <2>1. find = f[<<1, n>>]
          BY <1>3, <1>5, <1>8, <1>4
    <2>2. 1 <= n /\ \A j \in 1..(1 - 1) : c[j] < k
          BY <1>1
    <2>3. f[<<1, n>>] \in 1..n /\ Hit(c, k, f[<<1, n>>])
          BY <1>1, <1>2, <1>5, <1>8, <2>2, SearchHits
    <2>4. QED
          BY <2>1, <2>3 DEF n, c, find
  <1>9. QED
        BY <1>5, <1>6, <1>7, <1>8

\* m is behind the keys that are not greater than k, and in front of the others.
Splits(c, n, k, m) ==
  /\ m \in 1..(n + 1)
  /\ \A j \in 1..n : (j < m => c[j] <= k) /\ (j >= m => c[j] > k)

\* sol_ptr_vector_insert_sorted() inserts behind all keys that are not greater.
LEMMA InsertIndexSplits ==
  ASSUME NEW E, NEW v \in Seq(E), NEW key \in [E -> Int], NEW k \in Int, SortedBy(v, key)
  PROVE  Splits(KeysOf(v, key), Len(v), k, InsertIndex(v, key, k))
  <1> DEFINE n == Len(v)
             c == KeysOf(v, key)
             match == ptr_vector_find_sorted(v, key, k)
             Stops(i) == (c[i] # k \/ i = n) /\ \A j \in match..(i - 1) : c[j] = k
             stop == CHOOSE i \in match..n :
                       (key[v[i]] # k \/ i = n) /\ \A j \in match..(i - 1) : key[v[j]] = k
             index == InsertIndex(v, key, k)
  <1>1. /\ n \in Nat /\ c \in [1..n -> Int] /\ Ascending(c, n)
        /\ \A j \in 1..n : c[j] = key[v[j]]
        BY SortedKeys DEF KeysAlong
  <1>2. CASE v = <<>>
    <2>1. n = 0 /\ index = 1
          BY <1>2, EmptySeq DEF InsertIndex
    <2> HIDE DEF n, c, index
    <2>2. Splits(c, n, k, index)
          BY <2>1 DEF Splits
    <2>3. QED
          BY <2>2 DEF n, c, index
  <1>3. CASE v # <<>>
    <2>1. match \in 1..n /\ (Hit(c, k, match) \/ (match = n /\ c[match] < k))
          BY <1>3, FindSorted
    <2>2. index = IF k >= key[v[stop]] THEN stop + 1 ELSE stop
          BY <1>3 DEF InsertIndex
    <2> HIDE DEF n, c, match, index
    <2>3. \E i \in match..n : Stops(i)
      <3> DEFINE T == {i \in match..n : c[i] # k \/ i = n}
      <3>1. n \in T
            BY <1>1, <2>1
      <3>2. PICK i \in T : \A y \in T : i <= y
        <4>1. T \subseteq Nat /\ T # {}
              BY <2>1, <3>1
        <4> HIDE DEF T
        <4>2. QED
              BY <4>1, Least
      <3>3. i \in match..n /\ (c[i] # k \/ i = n)
            OBVIOUS
      <3>4. \A j \in match..(i - 1) : c[j] = k
        <4> SUFFICES ASSUME NEW j \in match..(i - 1), c[j] # k PROVE FALSE
            OBVIOUS
        <4>1. j \in match..n /\ ~(i <= j)
              BY <1>1, <2>1, <3>3
        <4>2. j \in T
              BY <4>1
        <4> HIDE DEF T
        <4>3. QED
              BY <3>2, <4>1, <4>2
      <3>5. QED
            BY <3>3, <3>4
    <2>4. stop \in match..n /\ Stops(stop)
      <3>1. \E i \in match..n :
                (key[v[i]] # k \/ i = n) /\ \A j \in match..(i - 1) : key[v[j]] = k
        <4>1. PICK i \in match..n : Stops(i)
              BY <2>3
        <4>2. \A j \in match..i : j \in 1..n
              BY <1>1, <2>1
        <4>3. key[v[i]] = c[i] /\ \A j \in match..(i - 1) : key[v[j]] = c[j]
              BY <1>1, <2>1, <4>2
        <4>4. QED
              BY <4>1, <4>3
      <3>2. /\ stop \in match..n
            /\ key[v[stop]] # k \/ stop = n
            /\ \A j \in match..(stop - 1) : key[v[j]] = k
            BY <3>1
      <3> HIDE DEF stop
      <3>3. key[v[stop]] = c[stop] /\ \A j \in match..(stop - 1) : key[v[j]] = c[j]
            BY <1>1, <2>1, <3>2
      <3>4. QED
            BY <3>2, <3>3
    <2>5. /\ stop \in match..n /\ (c[stop] # k \/ stop = n)
          /\ \A j \in match..(stop - 1) : c[j] = k
          BY <2>4
    <2> HIDE DEF stop
    <2>6. stop \in 1..n /\ match <= stop /\ c[stop] \in Int /\ c[match] \in Int /\ key[v[stop]] = c[stop]
          BY <1>1, <2>1, <2>5
    <2>7. \A j \in 1..(stop - 1) : j \in 1..n /\ c[j] <= k
      <3> SUFFICES ASSUME NEW j \in 1..(stop - 1) PROVE j \in 1..n /\ c[j] <= k
          OBVIOUS
      <3>1. j \in 1..n /\ c[j] \in Int
            BY <1>1, <2>6
      <3>2. CASE j >= match
            BY <2>1, <2>5, <2>6, <3>1, <3>2
      <3>3. CASE j < match
        <4>1. c[j] <= c[match]
              BY <1>1, <2>1, <3>1, <3>3 DEF Ascending
        <4>2. c[match] <= k \/ c[j] < k
              BY <2>1, <2>6, <3>1, <3>3 DEF Hit
        <4>3. QED
              BY <2>6, <3>1, <4>1, <4>2
      <3>4. QED
            BY <2>1, <3>1, <3>2, <3>3
    <2>8. CASE k >= c[stop]
      <3>1. index = stop + 1
            BY <2>2, <2>6, <2>8
      <3>2. \A j \in 1..n : j > stop => c[j] > k
        <4> SUFFICES ASSUME NEW j \in 1..n, j > stop PROVE c[j] > k
            OBVIOUS
        <4>1. stop # n /\ c[stop] # k /\ c[stop] < k
              BY <1>1, <2>5, <2>6, <2>8
        <4>2. match = stop
          <5> SUFFICES ASSUME match < stop PROVE FALSE
              BY <2>1, <2>6
          <5>1. match \in match..(stop - 1)
                BY <2>1, <2>6
          <5>2. c[match] = k
                BY <2>5, <5>1
          <5>3. c[match] <= c[stop]
                BY <1>1, <2>1, <2>6 DEF Ascending
          <5>4. QED
                BY <2>6, <4>1, <5>2, <5>3
        <4>3. QED
              BY <2>1, <2>6, <4>1, <4>2 DEF Hit
      <3>3. Splits(c, n, k, index)
        <4>1. index \in 1..(n + 1)
              BY <1>1, <2>6, <3>1
        <4>2. ASSUME NEW j \in 1..n
              PROVE  (j < index => c[j] <= k) /\ (j >= index => c[j] > k)
          <5>1. j \in Int /\ stop \in Int /\ (j > stop \/ j = stop \/ j \in 1..(stop - 1))
                BY <1>1, <2>6
          <5>2. CASE j > stop
                BY <3>1, <3>2, <5>1, <5>2
          <5>3. CASE j = stop
                BY <2>6, <2>8, <3>1, <5>1, <5>3
          <5>4. CASE j \in 1..(stop - 1)
            <6>1. c[j] <= k
                  BY <2>7, <5>4
            <6>2. QED
                  BY <3>1, <5>1, <5>4, <6>1
          <5>5. QED
                BY <5>1, <5>2, <5>3, <5>4
        <4>3. QED
              BY <4>1, <4>2 DEF Splits
      <3>4. QED
            BY <3>3 DEF n, c, index
    <2>9. CASE k < c[stop]
      <3>1. index = stop
            BY <2>2, <2>6, <2>9
      <3>2. \A j \in 1..n : j >= stop => c[j] > k
        <4> SUFFICES ASSUME NEW j \in 1..n, j >= stop PROVE c[j] > k
            OBVIOUS
        <4>1. c[j] \in Int /\ (j = stop \/ c[stop] <= c[j])
              BY <1>1, <2>6 DEF Ascending
        <4>2. QED
              BY <2>6, <2>9, <4>1
      <3>3. Splits(c, n, k, index)
            BY <1>1, <2>6, <2>7, <3>1, <3>2 DEF Splits
      <3>4. QED
            BY <3>3 DEF n, c, index
    <2>10. QED
          BY <2>6, <2>8, <2>9
  <1>4. QED
        BY <1>2, <1>3

\* Where entry j of a vector goes when an entry is put in at index m.
Shifted(j, m) == IF j < m THEN j ELSE j + 1

\* r is q with x put in at index m.
PutIn(r, q, m, x) ==
  /\ Len(r) = Len(q) + 1 /\ m \in 1..Len(r) /\ r[m] = x
  /\ \A j \in 1..Len(q) : r[Shifted(j, m)] = q[j]

\* sol_ptr_vector_insert_at()
LEMMA InsertedAt ==
  ASSUME NEW E, NEW q \in Seq(E), NEW x \in E, NEW m \in 1..(Len(q) + 1)
  PROVE  InsertAt(q, m, x) \in Seq(E) /\ PutIn(InsertAt(q, m, x), q, m, x)
  <1> DEFINE l == m - 1
             a == SubSeq(q, 1, l)
             b == SubSeq(q, l + 1, Len(q))
             o == <<x>>
             ao == a \o o
             r == ao \o b
  <1>1. Len(q) \in Nat /\ l \in 0..Len(q) /\ m = l + 1
        BY LenProperties
  <1>2. /\ a \in Seq(E) /\ Len(a) = l /\ \A j \in 1..l : a[j] = q[j]
        /\ b \in Seq(E) /\ Len(b) = Len(q) - l /\ \A j \in 1..(Len(q) - l) : b[j] = q[l + j]
    <2>1. l \in 0..Len(q)
          BY <1>1
    <2> HIDE DEF l
    <2>2. QED
          BY <2>1, PrefixProperties
  <1>3. o \in Seq(E) /\ Len(o) = 1 /\ o[1] = x
        OBVIOUS
  <1>4. InsertAt(q, m, x) = r
    <2>1. SubSeq(q, m, Len(q)) = b
          BY <1>1
    <2>2. QED
          BY <2>1 DEF InsertAt
  <1> HIDE DEF a, b, o, l
  <1>5. /\ ao \in Seq(E) /\ Len(ao) = Len(a) + Len(o)
        /\ \A j \in 1..(Len(a) + Len(o)) : ao[j] = IF j <= Len(a) THEN a[j] ELSE o[j - Len(a)]
        BY <1>2, <1>3, ConcatProperties
  <1> HIDE DEF ao
  <1>6. /\ r \in Seq(E) /\ Len(r) = Len(ao) + Len(b)
        /\ \A j \in 1..(Len(ao) + Len(b)) : r[j] = IF j <= Len(ao) THEN ao[j] ELSE b[j - Len(ao)]
    <2>1. ao \in Seq(E) /\ b \in Seq(E)
          BY <1>2, <1>5
    <2>2. QED
          BY <2>1, ConcatProperties
  <1> HIDE DEF r
  <1>7. Len(ao) = m /\ Len(r) = Len(q) + 1
        BY <1>1, <1>2, <1>3, <1>5, <1>6
  <1>8. ao[m] = x /\ \A j \in 1..l : ao[j] = q[j]
        BY <1>1, <1>2, <1>3, <1>5
  <1>9. \A j \in 1..m : r[j] = ao[j]
    <2>1. \A j \in 1..m : j \in 1..(Len(ao) + Len(b)) /\ j <= Len(ao)
          BY <1>1, <1>2, <1>7
    <2>2. QED
          BY <1>6, <2>1
  <1>10. r[m] = x
        BY <1>8, <1>9
  <1>11. \A j \in 1..Len(q) : r[Shifted(j, m)] = q[j]
    <2> SUFFICES ASSUME NEW j \in 1..Len(q) PROVE r[Shifted(j, m)] = q[j]
        OBVIOUS
    <2>1. CASE j < m
      <3>1. j \in 1..m /\ j \in 1..l /\ Shifted(j, m) = j
            BY <1>1, <2>1 DEF Shifted
      <3>2. QED
            BY <1>8, <1>9, <3>1
    <2>2. CASE j >= m
      <3>1. /\ j + 1 \in 1..(Len(ao) + Len(b)) /\ ~(j + 1 <= Len(ao))
            /\ (j + 1) - Len(ao) = j - l /\ j - l \in 1..(Len(q) - l) /\ l + (j - l) = j
            BY <1>1, <1>2, <1>7, <2>2
      <3>2. r[j + 1] = b[j - l]
            BY <1>6, <3>1
      <3>3. b[j - l] = q[j]
            BY <1>2, <3>1
      <3>4. QED
            BY <1>1, <2>2, <3>2, <3>3 DEF Shifted
    <2>3. QED
          BY <1>1, <2>1, <2>2
  <1>12. QED
        BY <1>1, <1>4, <1>6, <1>7, <1>10, <1>11 DEF PutIn

\* The memmove() of sol_ptr_vector_update_sorted().
LEMMA RemovedAt ==
  ASSUME NEW E, NEW q \in Seq(E), NEW m \in 1..Len(q)
  PROVE  /\ RemoveAt(q, m) \in Seq(E) /\ Len(RemoveAt(q, m)) = Len(q) - 1
         /\ PutIn(q, RemoveAt(q, m), m, q[m])
  <1> DEFINE d == RemoveAt(q, m)
  <1>1. d = sol_vector_del(q, m)
        BY DEF RemoveAt, sol_vector_del
  <1> HIDE DEF d
  <1>2. /\ d \in Seq(E) /\ Len(d) = Len(q) - 1 /\ Len(q) \in Nat
        /\ \A j \in 1..(Len(q) - 1) : d[j] = IF j < m THEN q[j] ELSE q[j + 1]
    <2>1. /\ sol_vector_del(q, m) \in Seq(E) /\ Len(sol_vector_del(q, m)) = Len(q) - 1
          /\ \A j \in 1..(Len(q) - 1) : sol_vector_del(q, m)[j] = IF j < m THEN q[j] ELSE q[j + 1]
          BY DeletedProperties
    <2>2. Len(q) \in Nat
          BY LenProperties
    <2>3. QED
          BY <1>1, <2>1, <2>2
  <1>3. \A j \in 1..Len(d) : q[Shifted(j, m)] = d[j]
        BY <1>2 DEF Shifted
  <1>4. QED
        BY <1>2, <1>3 DEF PutIn, d

\* The places of the entries of q in r.
LEMMA ShiftedPlaces ==
  ASSUME NEW n \in Nat, NEW m \in 1..(n + 1)
  PROVE  /\ \A j \in 1..n : Shifted(j, m) \in 1..(n + 1) /\ Shifted(j, m) # m
         /\ \A j, l \in 1..n : j < l <=> Shifted(j, m) < Shifted(l, m)
         /\ \A j \in 1..n : (j < m <=> Shifted(j, m) < m)
         /\ \A k \in 1..(n + 1) : k # m => \E j \in 1..n : Shifted(j, m) = k
  <1>1. \A j \in 1..n : Shifted(j, m) \in 1..(n + 1) /\ Shifted(j, m) # m
        BY DEF Shifted
  <1>2. \A j, l \in 1..n : j < l <=> Shifted(j, m) < Shifted(l, m)
        BY DEF Shifted
  <1>3. \A j \in 1..n : (j < m <=> Shifted(j, m) < m)
        BY DEF Shifted
  <1>4. ASSUME NEW k \in 1..(n + 1), k # m
        PROVE  \E j \in 1..n : Shifted(j, m) = k
    <2>1. CASE k < m
      <3>1. k \in 1..n /\ Shifted(k, m) = k
            BY <2>1 DEF Shifted
      <3>2. QED
            BY <3>1
    <2>2. CASE k > m
      <3>1. k - 1 \in 1..n /\ Shifted(k - 1, m) = k
            BY <2>2 DEF Shifted
      <3>2. QED
            BY <3>1
    <2>3. QED
          BY <1>4, <2>1, <2>2
  <1>5. QED
        BY <1>1, <1>2, <1>3, <1>4

\* The entries of r are those of q and x.
LEMMA PutInEntries ==
  ASSUME NEW E, NEW q \in Seq(E), NEW r \in Seq(E), NEW m, NEW x, PutIn(r, q, m, x)
  PROVE  /\ \A y : In(y, r) <=> In(y, q) \/ y = x
         /\ Distinct(r) => Distinct(q) /\ ~In(x, q)
         /\ Distinct(q) /\ ~In(x, q) => Distinct(r)
  <1>1. /\ Len(q) \in Nat /\ Len(r) = Len(q) + 1 /\ m \in 1..(Len(q) + 1) /\ r[m] = x
        /\ \A j \in 1..Len(q) : r[Shifted(j, m)] = q[j]
        BY LenProperties DEF PutIn
  <1>2. /\ \A j \in 1..Len(q) : Shifted(j, m) \in 1..Len(r) /\ Shifted(j, m) # m
        /\ \A j, l \in 1..Len(q) : j < l <=> Shifted(j, m) < Shifted(l, m)
        /\ \A k \in 1..Len(r) : k # m => \E j \in 1..Len(q) : Shifted(j, m) = k
        BY <1>1, ShiftedPlaces
  <1>3. \A j, l \in 1..Len(q) : Shifted(j, m) = Shifted(l, m) => j = l
        BY <1>1 DEF Shifted
  <1>4. \A y : In(y, r) <=> In(y, q) \/ y = x
    <2>1. ASSUME NEW y, In(y, r) PROVE In(y, q) \/ y = x
      <3>1. PICK k \in 1..Len(r) : r[k] = y
            BY <2>1 DEF In
      <3>2. CASE k = m
            BY <1>1, <3>1, <3>2
      <3>3. CASE k # m
        <4>1. PICK j \in 1..Len(q) : Shifted(j, m) = k
              BY <1>2, <3>3
        <4>2. q[j] = y
              BY <1>1, <3>1, <4>1
        <4>3. QED
              BY <4>2 DEF In
      <3>4. QED
            BY <3>2, <3>3
    <2>2. ASSUME NEW y, In(y, q) PROVE In(y, r)
      <3>1. PICK j \in 1..Len(q) : q[j] = y
            BY <2>2 DEF In
      <3>2. r[Shifted(j, m)] = y /\ Shifted(j, m) \in 1..Len(r)
            BY <1>1, <1>2, <3>1
      <3>3. QED
            BY <3>2 DEF In
    <2>3. In(x, r)
          BY <1>1 DEF In
    <2>4. QED
          BY <2>1, <2>2, <2>3
  <1>5. ASSUME Distinct(r) PROVE Distinct(q) /\ ~In(x, q)
    <2>1. Distinct(q)
          BY <1>1, <1>2, <1>3, <1>5 DEF Distinct
    <2>2. ~In(x, q)
          BY <1>1, <1>2, <1>5 DEF Distinct, In
    <2>3. QED
          BY <2>1, <2>2
  <1>6. ASSUME Distinct(q), ~In(x, q) PROVE Distinct(r)
    <2> SUFFICES ASSUME NEW k \in 1..Len(r), NEW l \in 1..Len(r), r[k] = r[l] PROVE k = l
        BY DEF Distinct
    <2>1. ASSUME NEW h \in 1..Len(r), h # m PROVE \E j \in 1..Len(q) : Shifted(j, m) = h /\ r[h] = q[j]
          BY <1>1, <1>2, <2>1
    <2>2. ASSUME NEW h \in 1..Len(r), h # m PROVE r[h] # x
          BY <1>6, <2>1, <2>2 DEF In
    <2>3. CASE k = m \/ l = m
          BY <1>1, <2>2, <2>3
    <2>4. CASE k # m /\ l # m
          BY <1>6, <2>1, <2>4 DEF Distinct
    <2>5. QED
          BY <2>3, <2>4
  <1>7. QED
        BY <1>4, <1>5, <1>6

\* Taking an entry out leaves the others sorted.
LEMMA RestIsSorted ==
  ASSUME NEW E, NEW q \in Seq(E), NEW r \in Seq(E), NEW m, NEW x, PutIn(r, q, m, x),
         NEW key, SortedBy(r, key)
  PROVE  SortedBy(q, key)
  <1>1. /\ Len(q) \in Nat /\ Len(r) = Len(q) + 1 /\ m \in 1..(Len(q) + 1)
        /\ \A j \in 1..Len(q) : r[Shifted(j, m)] = q[j]
        /\ DOMAIN q = 1..Len(q) /\ DOMAIN r = 1..Len(r)
        BY LenProperties DEF PutIn
  <1>2. /\ \A j \in 1..Len(q) : Shifted(j, m) \in 1..Len(r)
        /\ \A j, l \in 1..Len(q) : j < l <=> Shifted(j, m) < Shifted(l, m)
        BY <1>1, ShiftedPlaces
  <1>3. QED
        BY <1>1, <1>2 DEF SortedBy

\* All keys behind index m are greater than the one there.
LastOfItsKey(r, key, m) == \A j \in 1..Len(r) : j > m => key[r[m]] < key[r[j]]

\* Put in where the keys that are not greater end, x leaves the vector sorted and
\* is the last of its key.
LEMMA PutInSorted ==
  ASSUME NEW E, NEW q \in Seq(E), NEW r \in Seq(E), NEW key \in [E -> Int], SortedBy(q, key),
         NEW m, NEW x \in E, PutIn(r, q, m, x), Splits(KeysOf(q, key), Len(q), key[x], m)
  PROVE  SortedBy(r, key) /\ LastOfItsKey(r, key, m)
  <1>1. /\ Len(q) \in Nat /\ Len(r) = Len(q) + 1 /\ m \in 1..(Len(q) + 1) /\ r[m] = x
        /\ \A j \in 1..Len(q) : r[Shifted(j, m)] = q[j]
        /\ DOMAIN q = 1..Len(q) /\ DOMAIN r = 1..Len(r) /\ \A k \in 1..Len(r) : r[k] \in E
        BY LenProperties, ElementOfSeq DEF PutIn
  <1>2. /\ \A j, l \in 1..Len(q) : j < l <=> Shifted(j, m) < Shifted(l, m)
        /\ \A j \in 1..Len(q) : j < m <=> Shifted(j, m) < m
        /\ \A k \in 1..Len(r) : k # m => \E j \in 1..Len(q) : Shifted(j, m) = k
        BY <1>1, ShiftedPlaces
  <1>3. \A j \in 1..Len(q) : (j < m => key[q[j]] <= key[x]) /\ (j >= m => key[x] < key[q[j]])
    <2>1. KeysAlong(KeysOf(q, key), q, key, Len(q))
          BY SortedKeys
    <2>2. \A j \in 1..Len(q) : KeysOf(q, key)[j] = key[q[j]] /\ key[q[j]] \in Int /\ key[x] \in Int
          BY <2>1 DEF KeysAlong
    <2>3. QED
          BY <2>2 DEF Splits
  <1>4. \A j, l \in 1..Len(q) : j < l => key[q[j]] <= key[q[l]]
        BY <1>1 DEF SortedBy
  <1>5. \A k \in 1..Len(r) : key[r[k]] \in Int
        BY <1>1
  <1>6. LastOfItsKey(r, key, m)
    <2> SUFFICES ASSUME NEW k \in 1..Len(r), k > m PROVE key[r[m]] < key[r[k]]
        BY DEF LastOfItsKey
    <2>1. PICK j \in 1..Len(q) : Shifted(j, m) = k
          BY <1>1, <1>2
    <2>2. j >= m
          BY <1>1, <1>2, <2>1
    <2>3. QED
          BY <1>1, <1>3, <2>1, <2>2
  <1>7. SortedBy(r, key)
    <2> SUFFICES ASSUME NEW k \in 1..Len(r), NEW l \in 1..Len(r), k < l
                 PROVE  key[r[k]] <= key[r[l]]
        BY <1>1 DEF SortedBy
    <2>1. CASE k = m
          BY <1>5, <1>6, <2>1 DEF LastOfItsKey
    <2>2. CASE l = m
      <3>1. k # m
            BY <1>1, <2>2
      <3>2. PICK j \in 1..Len(q) : Shifted(j, m) = k
            BY <1>2, <3>1
      <3>3. QED
            BY <1>1, <1>2, <1>3, <2>2, <3>2
    <2>3. CASE k # m /\ l # m
      <3>1. PICK j \in 1..Len(q) : Shifted(j, m) = k
            BY <1>2, <2>3
      <3>2. PICK g \in 1..Len(q) : Shifted(g, m) = l
            BY <1>2, <2>3
      <3>3. j < g
            BY <1>2, <3>1, <3>2
      <3>4. QED
            BY <1>1, <1>4, <3>1, <3>2, <3>3
    <2>4. QED
          BY <2>1, <2>2, <2>3
  <1>8. QED
        BY <1>6, <1>7

\* sol_ptr_vector_insert_sorted()
LEMMA InsertedSorted ==
  ASSUME NEW E, NEW q \in Seq(E), NEW key \in [E -> Int], SortedBy(q, key), NEW x \in E
  PROVE  \E m \in 1..(Len(q) + 1) : LET r == sol_ptr_vector_insert_sorted(q, key, x) IN
           r \in Seq(E) /\ PutIn(r, q, m, x) /\ SortedBy(r, key) /\ LastOfItsKey(r, key, m)
  <1> DEFINE m == InsertIndex(q, key, key[x])
             r == sol_ptr_vector_insert_sorted(q, key, x)
  <1>1. Splits(KeysOf(q, key), Len(q), key[x], m)
        BY InsertIndexSplits
  <1>2. m \in 1..(Len(q) + 1)
        BY <1>1 DEF Splits
  <1>3. r = InsertAt(q, m, x)
        BY DEF sol_ptr_vector_insert_sorted
  <1> HIDE DEF m, r
  <1>4. r \in Seq(E) /\ PutIn(r, q, m, x)
        BY <1>2, <1>3, InsertedAt
  <1>5. SortedBy(r, key) /\ LastOfItsKey(r, key, m)
        BY <1>1, <1>4, PutInSorted
  <1>6. QED
        BY <1>2, <1>4, <1>5 DEF r

\* sol_ptr_vector_update_sorted(): if the others are sorted, entry i goes behind
\* those that are not greater, and the index that is returned is its new one.
LEMMA UpdatedSorted ==
  ASSUME NEW E, NEW q \in Seq(E), NEW i \in 1..Len(q), NEW key \in [E -> Int],
         SortedBy(RemoveAt(q, i), key)
  PROVE  LET u == sol_ptr_vector_update_sorted(q, key, i) IN
         /\ u.v \in Seq(E) /\ Len(u.v) = Len(q) /\ u.index \in 1..Len(q)
         /\ PutIn(u.v, RemoveAt(q, i), u.index, q[i])
         /\ SortedBy(u.v, key) /\ LastOfItsKey(u.v, key, u.index)
  <1> DEFINE w == RemoveAt(q, i)
             x == q[i]
             u == sol_ptr_vector_update_sorted(q, key, i)
             inPlace == /\ i > 1 => key[q[i - 1]] <= key[x]
                        /\ i < Len(q) => key[x] < key[q[i + 1]]
             m == InsertIndex(w, key, key[x])
  <1>1. w \in Seq(E) /\ Len(w) = Len(q) - 1 /\ PutIn(q, w, i, x) /\ Len(q) \in Nat /\ x \in E
        BY RemovedAt, LenProperties, ElementOfSeq
  <1>2. /\ Len(q) = 1 \/ inPlace => u = [v |-> q, index |-> i]
        /\ ~(Len(q) = 1 \/ inPlace) => u = [v |-> InsertAt(w, m, x), index |-> m]
        BY DEF sol_ptr_vector_update_sorted
  <1>3. SortedBy(w, key)
        OBVIOUS
  <1> HIDE DEF w, x, u, m
  <1>4. CASE Len(q) = 1 \/ inPlace
    <2>1. u.v = q /\ u.index = i
          BY <1>2, <1>4
    <2>2. Splits(KeysOf(w, key), Len(w), key[x], i)
      <3>1. /\ \A j \in 1..Len(w) : KeysOf(w, key)[j] = key[w[j]] /\ key[w[j]] \in Int
            /\ \A j, l \in 1..Len(w) : j < l => key[w[j]] <= key[w[l]]
        <4>1. KeysAlong(KeysOf(w, key), w, key, Len(w)) /\ Ascending(KeysOf(w, key), Len(w))
              BY <1>1, <1>3, SortedKeys
        <4>2. \A j \in 1..Len(w) : KeysOf(w, key)[j] = key[w[j]] /\ key[w[j]] \in Int
              BY <4>1 DEF KeysAlong
        <4>3. QED
              BY <4>1, <4>2 DEF Ascending
      <3>2. Len(w) \in Nat /\ Len(q) = Len(w) + 1 /\ i \in 1..(Len(w) + 1)
            BY <1>1
      <3>3. ASSUME NEW j \in 1..Len(w)
            PROVE  (j < i => w[j] = q[j]) /\ (j >= i => w[j] = q[j + 1])
        <4>1. q[Shifted(j, i)] = w[j]
              BY <1>1 DEF PutIn
        <4>2. (j < i => Shifted(j, i) = j) /\ (j >= i => Shifted(j, i) = j + 1)
              BY <3>2 DEF Shifted
        <4>3. QED
              BY <4>1, <4>2
      <3>4. key[x] \in Int
            BY <1>1
      <3>5. ASSUME NEW j \in 1..Len(w), j < i PROVE key[w[j]] <= key[x]
        <4>1. i - 1 \in 1..Len(w) /\ i - 1 < i /\ i > 1 /\ Len(q) # 1 /\ (j = i - 1 \/ j < i - 1)
              BY <3>2, <3>5
        <4>2. key[w[i - 1]] <= key[x]
          <5>1. w[i - 1] = q[i - 1]
                BY <3>3, <4>1
          <5>2. key[q[i - 1]] <= key[x]
                BY <1>4, <4>1
          <5>3. QED
                BY <5>1, <5>2
        <4>3. key[w[j]] <= key[w[i - 1]]
              BY <3>1, <4>1
        <4>4. QED
              BY <3>1, <3>4, <4>1, <4>2, <4>3
      <3>6. ASSUME NEW j \in 1..Len(w), j >= i PROVE key[x] < key[w[j]]
        <4>1. i \in 1..Len(w) /\ i < Len(q) /\ Len(q) # 1 /\ (j = i \/ i < j) /\ i >= i
              BY <3>2, <3>6
        <4>2. key[x] < key[w[i]]
          <5>1. w[i] = q[i + 1]
                BY <3>3, <4>1
          <5>2. QED
                BY <1>4, <4>1, <5>1
        <4>3. key[w[i]] <= key[w[j]]
              BY <3>1, <4>1
        <4>4. QED
              BY <3>1, <3>4, <4>1, <4>2, <4>3
      <3>7. i \in 1..(Len(w) + 1)
            BY <1>1
      <3>8. QED
            BY <3>1, <3>4, <3>5, <3>6, <3>7 DEF Splits
    <2>3. SortedBy(q, key) /\ LastOfItsKey(q, key, i)
          BY <1>1, <1>3, <2>2, PutInSorted
    <2>4. QED
          BY <1>1, <2>1, <2>3 DEF u, w, x
  <1>5. CASE ~(Len(q) = 1 \/ inPlace)
    <2>1. u.v = InsertAt(w, m, x) /\ u.index = m
          BY <1>2, <1>5
    <2>2. key[x] \in Int
          BY <1>1
    <2>3. Splits(KeysOf(w, key), Len(w), key[x], m)
          BY <1>1, <1>3, <2>2, InsertIndexSplits DEF m
    <2>4. m \in 1..(Len(w) + 1)
          BY <2>3 DEF Splits
    <2>5. u.v \in Seq(E) /\ PutIn(u.v, w, m, x)
          BY <1>1, <2>1, <2>4, InsertedAt
    <2>6. SortedBy(u.v, key) /\ LastOfItsKey(u.v, key, m)
          BY <1>1, <1>3, <2>3, <2>5, PutInSorted
    <2>7. Len(u.v) = Len(q) /\ m \in 1..Len(q)
          BY <1>1, <2>4, <2>5 DEF PutIn
    <2>8. QED
          BY <2>1, <2>5, <2>6, <2>7 DEF u, w, x
  <1>6. QED
        BY <1>4, <1>5

\* sol_ptr_vector_match_sorted() finds a key exactly when it is there.
LEMMA MatchedSorted ==
  ASSUME NEW E, NEW q \in Seq(E), NEW key \in [E -> Int], SortedBy(q, key), NEW k \in Int
  PROVE  LET i == sol_ptr_vector_match_sorted(q, key, k) IN
         /\ (\E j \in 1..Len(q) : key[q[j]] = k) => i \in 1..Len(q) /\ key[q[i]] = k
         /\ ~(\E j \in 1..Len(q) : key[q[j]] = k) => i = 0
  <1> DEFINE n == Len(q)
             c == KeysOf(q, key)
             m == ptr_vector_find_sorted(q, key, k)
             i == sol_ptr_vector_match_sorted(q, key, k)
  <1>1. /\ n \in Nat /\ Ascending(c, n)
        /\ \A j \in 1..n : c[j] = key[q[j]] /\ c[j] \in Int
        BY SortedKeys DEF KeysAlong
  <1>2. CASE q = <<>>
    <2>1. n = 0 /\ i = 0
          BY <1>2, EmptySeq DEF sol_ptr_vector_match_sorted
    <2> HIDE DEF n, i
    <2>2. 1..n = {}
          BY <2>1
    <2>3. QED
          BY <2>1, <2>2 DEF n, i
  <1>3. CASE q # <<>>
    <2>1. m \in 1..n /\ (Hit(c, k, m) \/ (m = n /\ c[m] < k))
          BY <1>3, FindSorted
    <2>2. i = IF key[q[m]] = k THEN m ELSE 0
          BY <1>3 DEF sol_ptr_vector_match_sorted
    <2> HIDE DEF n, c, m, i
    <2>3. CASE c[m] = k
      <3>1. i = m /\ key[q[m]] = k
            BY <1>1, <2>1, <2>2, <2>3
      <3>2. QED
            BY <2>1, <3>1 DEF n, i
    <2>4. CASE c[m] # k
      <3>1. i = 0
            BY <1>1, <2>1, <2>2, <2>4
      <3>2. ASSUME NEW j \in 1..n, key[q[j]] = k PROVE FALSE
        <4>1. c[j] = k /\ c[m] \in Int
              BY <1>1, <2>1, <3>2
        <4>2. j < m => c[j] <= c[m]
              BY <1>1, <2>1 DEF Ascending
        <4>3. m < j => c[m] <= c[j]
              BY <1>1, <2>1 DEF Ascending
        <4>4. j # m /\ j \in Int /\ m \in Int
              BY <1>1, <2>1, <2>4, <4>1
        <4>5. CASE c[m] > k /\ \A l \in 1..(m - 1) : c[l] < k
          <5>1. j < m
                BY <4>1, <4>3, <4>4, <4>5
          <5>2. j \in 1..(m - 1)
                BY <1>1, <2>1, <5>1
          <5>3. QED
                BY <4>1, <4>5, <5>2
        <4>6. CASE m = n /\ c[m] < k
          <5>1. j < m
                BY <1>1, <4>4, <4>6
          <5>2. QED
                BY <4>1, <4>2, <4>6, <5>1
        <4>7. QED
              BY <2>1, <2>4, <4>5, <4>6 DEF Hit
      <3>3. QED
            BY <3>1, <3>2 DEF n, i
    <2>5. QED
          BY <2>3, <2>4
  <1>4. QED
        BY <1>2, <1>3

\* A walk that keeps some entries leaves them sorted.
LEMMA SelectedSorted ==
  ASSUME NEW E, NEW q \in Seq(E), NEW r \in Seq(E), NEW S, Selects(r, q, S, Len(q)),
         NEW key, SortedBy(q, key)
  PROVE  SortedBy(r, key)
  <1>1. PICK place \in [1..Len(r) -> S \cap (1..Len(q))] :
              /\ \A j \in 1..Len(r) : r[j] = q[place[j]]
              /\ \A j, k \in 1..Len(r) : j < k => place[j] < place[k]
        BY DEF Selects
  <1>2. DOMAIN q = 1..Len(q) /\ DOMAIN r = 1..Len(r)
        BY LenProperties
  <1>3. \A j \in 1..Len(r) : place[j] \in 1..Len(q)
        BY <1>1
  <1>4. QED
        BY <1>1, <1>2, <1>3 DEF SortedBy

\* sol_vector_del_range() keeps the entries in front of the range and behind it.
LEMMA RangeDeleted ==
  ASSUME NEW E, NEW q \in Seq(E), NEW start \in 1..Len(q), NEW len \in Nat
  PROVE  /\ sol_vector_del_range(q, start, len) \in Seq(E)
         /\ \E S : Selects(sol_vector_del_range(q, start, len), q, S, Len(q))
  <1> DEFINE n == IF start + len > Len(q) THEN Len(q) - start + 1 ELSE len
             a == SubSeq(q, 1, start - 1)
             b == SubSeq(q, start + n, Len(q))
             r == a \o b
             S == 1..(start - 1) \cup (start + n)..Len(q)
             place == [j \in 1..Len(r) |-> IF j < start THEN j ELSE j + n]
  <1>1. Len(q) \in Nat /\ start \in Nat /\ n \in Nat /\ start - 1 \in 0..Len(q)
        /\ start + n - 1 \in 0..Len(q)
        BY LenProperties
  <1>2. sol_vector_del_range(q, start, len) = r
        BY DEF sol_vector_del_range
  <1> HIDE DEF n
  <1>3. a \in Seq(E) /\ Len(a) = start - 1 /\ \A j \in 1..(start - 1) : a[j] = q[j]
    <2> DEFINE l == start - 1
    <2>1. l \in 0..Len(q)
          BY <1>1
    <2> HIDE DEF l
    <2>2. /\ SubSeq(q, 1, l) \in Seq(E) /\ Len(SubSeq(q, 1, l)) = l
          /\ \A j \in 1..l : SubSeq(q, 1, l)[j] = q[j]
          BY <2>1, PrefixProperties
    <2>3. QED
          BY <2>2 DEF l
  <1>4. /\ b \in Seq(E) /\ Len(b) = Len(q) - (start + n - 1)
        /\ \A j \in 1..Len(b) : b[j] = q[(start + n - 1) + j]
    <2> DEFINE l == start + n - 1
    <2>1. l \in 0..Len(q) /\ start + n = l + 1
          BY <1>1
    <2> HIDE DEF l
    <2>2. /\ SubSeq(q, l + 1, Len(q)) \in Seq(E) /\ Len(SubSeq(q, l + 1, Len(q))) = Len(q) - l
          /\ \A j \in 1..(Len(q) - l) : SubSeq(q, l + 1, Len(q))[j] = q[l + j]
          BY <2>1, PrefixProperties
    <2>3. b = SubSeq(q, l + 1, Len(q))
          BY <2>1
    <2> HIDE DEF b
    <2>4. QED
          BY <2>2, <2>3 DEF l
  <1> HIDE DEF a, b
  <1>5. /\ r \in Seq(E) /\ Len(r) = Len(a) + Len(b)
        /\ \A j \in 1..(Len(a) + Len(b)) : r[j] = IF j <= Len(a) THEN a[j] ELSE b[j - Len(a)]
    <2>1. a \in Seq(E) /\ b \in Seq(E)
          BY <1>3, <1>4
    <2>2. QED
          BY <2>1, ConcatProperties
  <1> HIDE DEF r
  <1>6. Len(r) = Len(q) - n /\ Len(r) \in Nat
        BY <1>1, <1>3, <1>4, <1>5
  <1>7. \A j \in 1..Len(r) : /\ j < start => place[j] = j /\ r[j] = q[j]
                             /\ j >= start => place[j] = j + n /\ r[j] = q[j + n]
    <2> SUFFICES ASSUME NEW j \in 1..Len(r)
                 PROVE  /\ j < start => place[j] = j /\ r[j] = q[j]
                        /\ j >= start => place[j] = j + n /\ r[j] = q[j + n]
        OBVIOUS
    <2>1. CASE j < start
      <3>1. j \in 1..(Len(a) + Len(b)) /\ j <= Len(a) /\ j \in 1..(start - 1)
            BY <1>1, <1>3, <1>5, <2>1
      <3>2. QED
            BY <1>1, <1>3, <1>5, <2>1, <3>1
    <2>2. CASE j >= start
      <3>1. /\ j \in 1..(Len(a) + Len(b)) /\ ~(j <= Len(a)) /\ j - Len(a) \in 1..Len(b)
            /\ (start + n - 1) + (j - Len(a)) = j + n
        <4>1. /\ Len(a) = start - 1 /\ Len(b) = Len(q) - (start + n - 1)
              /\ Len(r) = Len(a) + Len(b) /\ j \in 1..Len(r)
              BY <1>3, <1>4, <1>5
        <4> HIDE DEF r
        <4>2. QED
              BY <1>1, <2>2, <4>1
      <3>2. r[j] = b[j - Len(a)] /\ b[j - Len(a)] = q[j + n]
            BY <1>4, <1>5, <3>1
      <3>3. ~(j < start)
            BY <1>1, <2>2
      <3>4. QED
            BY <3>2, <3>3
    <2>3. QED
          BY <1>1, <2>1, <2>2
  <1>8. place \in [1..Len(r) -> S \cap (1..Len(q))]
        BY <1>1, <1>6
  <1> HIDE DEF place
  <1>9. \A j \in 1..Len(r) : r[j] = q[place[j]]
        BY <1>1, <1>6, <1>7
  <1>10. \A j, k \in 1..Len(r) : j < k => place[j] < place[k]
        BY <1>1, <1>6, <1>7
  <1>11. \A m \in S \cap (1..Len(q)) : \E j \in 1..Len(r) : place[j] = m
    <2> SUFFICES ASSUME NEW m \in S \cap (1..Len(q)) PROVE \E j \in 1..Len(r) : place[j] = m
        OBVIOUS
    <2>1. CASE m < start
      <3>1. m \in 1..Len(r)
            BY <1>1, <1>6, <2>1
      <3>2. QED
            BY <1>7, <2>1, <3>1
    <2>2. CASE m >= start
      <3>1. m - n \in 1..Len(r) /\ m - n >= start /\ (m - n) + n = m
            BY <1>1, <1>6, <2>2
      <3>2. QED
            BY <1>7, <3>1
    <2>3. QED
          BY <1>1, <2>1, <2>2
  <1>12. Selects(r, q, S, Len(q))
        BY <1>8, <1>9, <1>10, <1>11 DEF Selects
  <1>13. QED
        BY <1>2, <1>5, <1>12
=============================================================================
