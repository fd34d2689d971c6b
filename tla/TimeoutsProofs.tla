--------------------------- MODULE TimeoutsProofs ---------------------------
(***************************************************************************)
(* The timeouts, for any number of handles, threads and expiries: memory,  *)
(* the order of the vectors, the sleep, and the promise of the API.        *)
(*                                                                         *)
(* MemoryInv and CountInv need one another: the sweep frees all marked     *)
(* timeouts only if its count is exact, and the count is exact only if the *)
(* vectors hold each of them once.  The order of the vectors carries the   *)
(* sleep: the first live timeout is the first to expire.                   *)
(*                                                                         *)
(* The last part is about SortedVector: any client of a vector that is     *)
(* kept sorted as timeout_vector is.                                       *)
(***************************************************************************)
EXTENDS Timeouts, SortedVector, VectorProofs

Status == {"free", "live", "deleted"}
Deleted == {h \in Handles : tstatus[h] = "deleted"}
Passing == {"scan", "cb", "end"}
Places == {"woken", "passed", "first", "sleep", "shutdown"} \cup Passing

\* The timeouts and the vectors.
EntriesInv ==
  /\ tstatus \in [Handles -> Status]
  /\ period \in [Handles -> Periods \cup {0}]
  /\ expire \in [Handles -> Nat]
  /\ timeout_vector \in Seq(Handles) /\ timeout_v_process \in Seq(Handles)

\* The clock, the sleep and the flags.
SleepTypes ==
  /\ run_loop \in BOOLEAN /\ notified \in BOOLEAN
  /\ clock \in 0..MaxClock /\ now \in 0..MaxClock /\ deadline \in Nat
  /\ first \in Handles \cup {NoTimeout}

\* Both vectors together hold what is allocated, each timeout once.
MemoryInv ==
  /\ Distinct(timeout_vector) /\ Distinct(timeout_v_process)
  /\ \A h \in Handles :
       /\ ~(In(h, timeout_vector) /\ In(h, timeout_v_process))
       /\ In(h, timeout_vector) \/ In(h, timeout_v_process) <=> tstatus[h] # "free"

\* The count is exact, and no mark outlives the pass.
CountInv ==
  /\ timeout_pending_deletion = Cardinality(Deleted)
  /\ ~timeout_processing => Deleted = {} /\ timeout_v_process = <<>>

\* What is true at each place of the pass.
PlaceInv ==
  /\ mpc \in Places /\ timeout_processing \in BOOLEAN
  /\ timeout_processing <=> mpc \in Passing
  /\ i \in 1..(Len(timeout_v_process) + 1)
  /\ mpc = "cb" => i \in 1..Len(timeout_v_process)

IInv ==
  /\ EntriesInv /\ SleepTypes /\ MemoryInv /\ CountInv /\ PlaceInv
  /\ VectorsSorted

-----------------------------------------------------------------------------
(* The sweep and the merge.                                                *)

\* Any set of timeouts can be counted.
LEMMA Countable ==
  ASSUME NEW S \in SUBSET Handles
  PROVE  /\ IsFiniteSet(S) /\ Cardinality(S) \in Nat /\ Cardinality(Handles) \in Nat
         /\ Cardinality(S) <= Cardinality(Handles)
  <1>1. IsFiniteSet(Handles)
        BY TimeoutsAssumption
  <1>2. QED
        BY <1>1, FS_Subset, FS_CardinalityType

\* A vector without duplicates is not longer than there are timeouts.
LEMMA NotLonger ==
  ASSUME NEW v \in Seq(Handles), Distinct(v)
  PROVE  Len(v) \in Nat /\ Len(v) <= Cardinality(Handles)
  <1>1. Len(v) \in Nat /\ \A k \in 1..Len(v) : v[k] \in Handles
        BY LenProperties, ElementOfSeq
  <1> DEFINE f == [k \in 1..Len(v) |-> v[k]]
  <1>2. f \in Injection(1..Len(v), Handles)
        BY <1>1 DEF Injection, IsInjective, Distinct
  <1>3. IsFiniteSet(1..Len(v)) /\ Cardinality(1..Len(v)) = Len(v)
    <2> DEFINE l == Len(v)
    <2>1. 1 \in Int /\ l \in Int
          BY <1>1
    <2> HIDE DEF l
    <2>2. IsFiniteSet(1..l) /\ Cardinality(1..l) = IF 1 > l THEN 0 ELSE l - 1 + 1
          BY <2>1, FS_Interval
    <2>3. QED
          BY <1>1, <2>2 DEF l
  <1>4. IsFiniteSet(Handles) /\ Cardinality(Handles) \in Nat
        BY Countable
  <1>5. QED
        BY <1>1, <1>2, <1>3, <1>4, FS_Injection

\* timeout_cleanup() frees every marked timeout and no other, if its count is
\* exact, and leaves the vector sorted.
LEMMA Sweep ==
  ASSUME NEW v \in Seq(Handles), Distinct(v), NEW st \in [Handles -> Status], NEW n,
         n = Cardinality({h \in Handles : st[h] = "deleted"}),
         \A h \in Handles : st[h] = "deleted" => In(h, v),
         expire \in [Handles -> Nat], SortedBy(v, expire),
         timeout_cleanup(v, st, n)
  PROVE  /\ timeout_vector' \in Seq(Handles) /\ Distinct(timeout_vector')
         /\ \A h \in Handles : In(h, timeout_vector') <=> In(h, v) /\ st[h] # "deleted"
         /\ timeout_pending_deletion' = 0
         /\ tstatus' = [h \in Handles |-> IF st[h] = "deleted" THEN "free" ELSE st[h]]
         /\ period' = [h \in Handles |-> IF st[h] = "deleted" THEN 0 ELSE period[h]]
         /\ expire' = [h \in Handles |-> IF st[h] = "deleted" THEN 0 ELSE expire[h]]
         /\ SortedBy(timeout_vector', expire')
  <1> DEFINE M == {h \in Handles : st[h] = "deleted"}
             marked == {k \in DOMAIN v : st[v[k]] = "deleted"}
             victims == {v[k] : k \in {x \in marked : Cardinality({y \in marked : y > x}) < n}}
             S == {k \in 1..Len(v) : st[v[k]] # "deleted"}
  <1>1. Len(v) \in Nat /\ DOMAIN v = 1..Len(v) /\ \A k \in 1..Len(v) : v[k] \in Handles
        BY LenProperties, ElementOfSeq
  <1>2. IsFiniteSet(M) /\ Cardinality(M) \in Nat /\ n = Cardinality(M)
        BY Countable
  <1>3. marked = {k \in 1..Len(v) : v[k] \in M}
        BY <1>1
  <1>4. \A x \in marked : Cardinality({y \in marked : y > x}) < n
    <2> SUFFICES ASSUME NEW x \in marked PROVE Cardinality({y \in marked : y > x}) < n
        OBVIOUS
    <2>1. x \in 1..Len(v) /\ v[x] \in M
          BY <1>3
    <2> HIDE DEF M
    <2>2. Cardinality({y \in {k \in 1..Len(v) : v[k] \in M} : y > x}) < Cardinality(M)
          BY <1>2, <2>1, FewerBehind
    <2>3. QED
          BY <1>2, <1>3, <2>2
  <1>5. victims = {v[k] : k \in marked}
        BY <1>4
  <1>6. victims = M
    <2>1. ASSUME NEW h \in M PROVE h \in victims
      <3>1. PICK k \in 1..Len(v) : v[k] = h
            BY <2>1 DEF In
      <3>2. k \in marked
            BY <1>1, <2>1, <3>1
      <3>3. QED
            BY <1>5, <3>1, <3>2
    <2>2. QED
          BY <1>1, <1>5, <2>1
  <1>7. {k \in DOMAIN v : v[k] \notin victims} = S
        BY <1>1, <1>6
  <1>8. /\ timeout_vector' = Kept(v, {k \in DOMAIN v : v[k] \notin victims})
        /\ timeout_pending_deletion' = n - Cardinality(victims)
        /\ tstatus' = [h \in Handles |-> IF h \in victims THEN "free" ELSE st[h]]
        /\ period' = [h \in Handles |-> IF h \in victims THEN 0 ELSE period[h]]
        /\ expire' = [h \in Handles |-> IF h \in victims THEN 0 ELSE expire[h]]
        BY DEF timeout_cleanup
  <1>9. /\ timeout_vector' \in Seq(Handles)
        /\ Selects(timeout_vector', v, S, Len(v))
    <2> HIDE DEF S, victims
    <2>1. QED
          BY <1>7, <1>8, KeptProperties
  <1>10. /\ Distinct(timeout_vector')
         /\ \A h : In(h, timeout_vector') <=> \E k \in S \cap (1..Len(v)) : v[k] = h
    <2> HIDE DEF S
    <2>1. QED
          BY <1>9, KeptEntries
  <1>11. \A h \in Handles : In(h, timeout_vector') <=> In(h, v) /\ st[h] # "deleted"
    <2> SUFFICES ASSUME NEW h \in Handles
                 PROVE  In(h, timeout_vector') <=> In(h, v) /\ st[h] # "deleted"
        OBVIOUS
    <2>1. In(h, timeout_vector') => In(h, v) /\ st[h] # "deleted"
      <3> SUFFICES ASSUME In(h, timeout_vector') PROVE In(h, v) /\ st[h] # "deleted"
          OBVIOUS
      <3>1. PICK k \in S \cap (1..Len(v)) : v[k] = h
            BY <1>10
      <3>2. QED
            BY <3>1 DEF In
    <2>2. In(h, v) /\ st[h] # "deleted" => In(h, timeout_vector')
      <3> SUFFICES ASSUME In(h, v), st[h] # "deleted" PROVE In(h, timeout_vector')
          OBVIOUS
      <3>1. PICK k \in 1..Len(v) : v[k] = h
            BY DEF In
      <3>2. k \in S \cap (1..Len(v))
            BY <3>1
      <3>3. QED
            BY <1>10, <3>1, <3>2
    <2>3. QED
          BY <2>1, <2>2
  <1>12. timeout_pending_deletion' = 0
    <2> HIDE DEF victims, M
    <2>1. timeout_pending_deletion' = n - Cardinality(victims)
          BY <1>8
    <2>2. QED
          BY <1>2, <1>6, <2>1
  <1>13. \A h \in Handles : h \in victims <=> st[h] = "deleted"
         BY <1>6
  <1>14. /\ tstatus' = [h \in Handles |-> IF st[h] = "deleted" THEN "free" ELSE st[h]]
         /\ period' = [h \in Handles |-> IF st[h] = "deleted" THEN 0 ELSE period[h]]
         /\ expire' = [h \in Handles |-> IF st[h] = "deleted" THEN 0 ELSE expire[h]]
    <2> HIDE DEF victims
    <2>1. QED
          BY <1>8, <1>13
  <1>15. SortedBy(timeout_vector', expire')
    <2> DEFINE w == timeout_vector'
    <2>1. SortedBy(w, expire)
      <3> HIDE DEF w, S
      <3>1. w \in Seq(Handles) /\ Selects(w, v, S, Len(v))
            BY <1>9 DEF w
      <3>2. QED
            BY <3>1, SelectedSorted
    <2>2. ASSUME NEW k \in DOMAIN w PROVE expire'[w[k]] = expire[w[k]]
      <3>1. w[k] \in Handles /\ In(w[k], w)
            BY <1>9, <2>2, LenProperties, ElementOfSeq DEF In
      <3>2. st[w[k]] # "deleted"
            BY <1>11, <3>1
      <3>3. QED
            BY <1>14, <3>1, <3>2
    <2> HIDE DEF w
    <2>3. SortedBy(w, expire')
          BY <2>1, <2>2 DEF SortedBy
    <2>4. QED
          BY <2>3 DEF w
  <1>16. QED
         BY <1>9, <1>10, <1>11, <1>12, <1>14, <1>15

\* f is the function in timeout_vector_update(), on the first m entries of p.
Merges(f, q, p, key, m) ==
  f = [n \in 0..m |-> IF n = 0 THEN q
                      ELSE sol_ptr_vector_insert_sorted(f[n - 1], key, p[n])]

\* The recursive function in timeout_vector_update() exists.
LEMMA MergeDefined ==
  ASSUME NEW q, NEW p, NEW key, NEW l \in Nat
  PROVE  \E f : Merges(f, q, p, key, l)
  <1> DEFINE Missing == {m \in 0..l : ~ \E f : Merges(f, q, p, key, m)}
  <1>1. SUFFICES ASSUME Missing # {} PROVE FALSE
        OBVIOUS
  <1>2. PICK m \in Missing : \A y \in Missing : m <= y
    <2>1. Missing \subseteq Nat
          OBVIOUS
    <2> HIDE DEF Missing
    <2>2. QED
          BY <1>1, <2>1, Least
  <1>3. m # 0
    <2>1. Merges([n \in 0..0 |-> q], q, p, key, 0)
          BY DEF Merges
    <2>2. QED
          BY <2>1
  <1>4. m \in 1..l /\ m - 1 \in 0..l /\ m - 1 \notin Missing
    <2>1. m \in 0..l
          OBVIOUS
    <2> HIDE DEF Missing
    <2>2. QED
          BY <1>2, <1>3, <2>1
  <1>5. PICK f : Merges(f, q, p, key, m - 1)
        BY <1>4
  <1> DEFINE g == [n \in 0..m |-> IF n < m THEN f[n]
                                  ELSE sol_ptr_vector_insert_sorted(f[n - 1], key, p[n])]
  <1> HIDE DEF Missing
  <1>6. \A n \in 0..(m - 1) : f[n] = IF n = 0 THEN q
                                     ELSE sol_ptr_vector_insert_sorted(f[n - 1], key, p[n])
        BY <1>4, <1>5 DEF Merges
  <1>7. \A n \in 0..m : g[n] = IF n = 0 THEN q
                               ELSE sol_ptr_vector_insert_sorted(g[n - 1], key, p[n])
        BY <1>4, <1>6
  <1>8. Merges(g, q, p, key, m)
        BY <1>4, <1>7 DEF Merges
  <1>9. QED
        BY <1>8 DEF Missing

\* r is q with the first m entries of p sorted in.
Merged(r, q, p, key, m) ==
  /\ SortedBy(r, key) /\ Distinct(r)
  /\ \A y : In(y, r) <=> In(y, q) \/ \E k \in 1..m : p[k] = y

\* timeout_vector_update() sorts what the pass leaves into what was added.
LEMMA MergedEntries ==
  ASSUME NEW E, NEW q \in Seq(E), NEW p \in Seq(E), NEW key \in [E -> Int], SortedBy(q, key),
         Distinct(q), Distinct(p), \A y : ~(In(y, q) /\ In(y, p)),
         NEW f, Merges(f, q, p, key, Len(p))
  PROVE  f[Len(p)] \in Seq(E) /\ Merged(f[Len(p)], q, p, key, Len(p))
  <1>1. Len(p) \in Nat /\ \A n \in 1..Len(p) : p[n] \in E
        BY ElementOfSeq, LenProperties
  <1>2. /\ f[0] = q
        /\ \A n \in 1..Len(p) : f[n] = sol_ptr_vector_insert_sorted(f[n - 1], key, p[n])
    <2>1. \A n \in 0..Len(p) : f[n] = IF n = 0 THEN q
                                      ELSE sol_ptr_vector_insert_sorted(f[n - 1], key, p[n])
          BY <1>1 DEF Merges
    <2>2. QED
          BY <1>1, <2>1
  <1> DEFINE Good(m) == f[m] \in Seq(E) /\ Merged(f[m], q, p, key, m)
             Wrong == {m \in 0..Len(p) : ~Good(m)}
  <1>3. SUFFICES ASSUME Wrong # {} PROVE FALSE
        BY <1>1
  <1>4. PICK m \in Wrong : \A y \in Wrong : m <= y
    <2>1. Wrong \subseteq Nat
          OBVIOUS
    <2> HIDE DEF Wrong
    <2>2. QED
          BY <1>3, <2>1, Least
  <1>5. m # 0
    <2>1. Merged(q, q, p, key, 0)
          BY DEF Merged
    <2>2. Good(0)
          BY <1>2, <2>1
    <2> HIDE DEF Good
    <2>3. QED
          BY <2>2
  <1>6. m \in 1..Len(p) /\ m - 1 \in 0..Len(p) /\ m - 1 \notin Wrong
    <2>1. m \in 0..Len(p)
          OBVIOUS
    <2> HIDE DEF Wrong
    <2>2. QED
          BY <1>1, <1>4, <1>5, <2>1
  <1>7. Good(m - 1) /\ ~Good(m)
        BY <1>6
  <1> HIDE DEF Wrong
  <1> DEFINE s == f[m - 1]
             r == f[m]
             x == p[m]
  <1>8. s \in Seq(E) /\ SortedBy(s, key) /\ Distinct(s)
        /\ \A y : In(y, s) <=> In(y, q) \/ \E k \in 1..(m - 1) : p[k] = y
        BY <1>7 DEF Merged
  <1>9. r = sol_ptr_vector_insert_sorted(s, key, x) /\ x \in E
        BY <1>1, <1>2, <1>6
  <1> HIDE DEF s, r, x
  <1>10. PICK n \in 1..(Len(s) + 1) : r \in Seq(E) /\ PutIn(r, s, n, x) /\ SortedBy(r, key)
         BY <1>8, <1>9, InsertedSorted
  <1>11. ~In(x, s)
    <2>1. In(x, p)
          BY <1>6 DEF In, x
    <2>2. \A k \in 1..(m - 1) : p[k] # x
      <3> SUFFICES ASSUME NEW k \in 1..(m - 1), p[k] = p[m] PROVE FALSE
          BY DEF x
      <3>1. k \in 1..Len(p) /\ k # m
            BY <1>1, <1>6
      <3>2. QED
            BY <1>6, <3>1 DEF Distinct
    <2>3. QED
          BY <1>8, <2>1, <2>2
  <1>12. /\ \A y : In(y, r) <=> In(y, s) \/ y = x
         /\ Distinct(r)
         BY <1>8, <1>10, <1>11, PutInEntries
  <1>13. ASSUME NEW y
         PROVE  (\E k \in 1..m : p[k] = y) <=> (\E k \in 1..(m - 1) : p[k] = y) \/ y = x
    <2>1. m \in 1..m /\ \A k \in 1..m : k = m \/ k \in 1..(m - 1)
          BY <1>1, <1>6
    <2>2. \A k \in 1..(m - 1) : k \in 1..m
          BY <1>1, <1>6
    <2>3. QED
          BY <2>1, <2>2 DEF x
  <1>14. \A y : In(y, r) <=> In(y, q) \/ \E k \in 1..m : p[k] = y
         BY <1>8, <1>12, <1>13
  <1>15. Merged(r, q, p, key, m)
         BY <1>10, <1>12, <1>14 DEF Merged
  <1>16. QED
         BY <1>7, <1>10, <1>15 DEF r

\* The same, of the vectors of the timeouts.
LEMMA UpdateMerges ==
  ASSUME IInv
  PROVE  /\ timeout_vector_update \in Seq(Handles) /\ Distinct(timeout_vector_update)
         /\ SortedBy(timeout_vector_update, expire)
         /\ \A h \in Handles : In(h, timeout_vector_update) <=> tstatus[h] # "free"
  <1> DEFINE q == timeout_vector
             p == timeout_v_process
             f == CHOOSE g : Merges(g, q, p, expire, Len(p))
  <1>1. /\ q \in Seq(Handles) /\ p \in Seq(Handles) /\ expire \in [Handles -> Int]
        /\ Distinct(q) /\ Distinct(p) /\ SortedBy(q, expire)
        BY DEF IInv, EntriesInv, MemoryInv, VectorsSorted
  <1>2. \A y : ~(In(y, q) /\ In(y, p))
    <2>1. \A y : In(y, q) => y \in Handles
          BY <1>1, ElementOfSeq DEF In
    <2>2. QED
          BY <2>1 DEF IInv, MemoryInv
  <1>3. Len(p) \in Nat
        BY <1>1, LenProperties
  <1>4. Merges(f, q, p, expire, Len(p))
        BY <1>3, MergeDefined
  <1>5. timeout_vector_update = f[Len(p)]
        BY DEF timeout_vector_update, Merges
  <1>6. \A h \in Handles : In(h, q) \/ In(h, p) <=> tstatus[h] # "free"
        BY DEF IInv, MemoryInv
  <1> HIDE DEF f, q, p
  <1>7. f[Len(p)] \in Seq(Handles) /\ Merged(f[Len(p)], q, p, expire, Len(p))
        BY <1>1, <1>2, <1>4, MergedEntries
  <1>8. QED
        BY <1>5, <1>6, <1>7 DEF Merged, In

\* The number of marks when one is added.
LEMMA OneMore ==
  ASSUME IInv, NEW h \in Handles, tstatus[h] = "live"
  PROVE  LET st == [tstatus EXCEPT ![h] = "deleted"] IN
         /\ st \in [Handles -> Status]
         /\ {g \in Handles : st[g] = "deleted"} = Deleted \cup {h}
         /\ timeout_pending_deletion + 1 = Cardinality(Deleted \cup {h})
  <1>1. tstatus \in [Handles -> Status]
        BY DEF IInv, EntriesInv
  <1>2. Deleted \in SUBSET Handles /\ h \notin Deleted
        BY DEF Deleted
  <1>3. Cardinality(Deleted \cup {h}) = Cardinality(Deleted) + 1
        BY <1>2, Countable, FS_AddElement
  <1>4. timeout_pending_deletion = Cardinality(Deleted)
        BY DEF IInv, CountInv
  <1>5. {g \in Handles : [tstatus EXCEPT ![h] = "deleted"][g] = "deleted"} = Deleted \cup {h}
        BY <1>1 DEF Deleted
  <1>6. [tstatus EXCEPT ![h] = "deleted"] \in [Handles -> Status]
        BY <1>1 DEF Status
  <1>7. QED
        BY <1>3, <1>4, <1>5, <1>6

-----------------------------------------------------------------------------
(* The invariant.                                                          *)

\* The state in terms of numbers, indices and handles.
LEMMA Types ==
  ASSUME IInv
  PROVE  /\ Len(timeout_vector) \in Nat /\ Len(timeout_v_process) \in Nat
         /\ DOMAIN timeout_vector = 1..Len(timeout_vector)
         /\ DOMAIN timeout_v_process = 1..Len(timeout_v_process)
         /\ \A n \in 1..Len(timeout_vector) :
              timeout_vector[n] \in Handles /\ tstatus[timeout_vector[n]] # "free"
         /\ \A n \in 1..Len(timeout_v_process) :
              timeout_v_process[n] \in Handles /\ tstatus[timeout_v_process[n]] # "free"
         /\ tstatus \in [Handles -> Status]
  <1>1. /\ timeout_vector \in Seq(Handles) /\ timeout_v_process \in Seq(Handles)
        /\ tstatus \in [Handles -> Status]
        BY DEF IInv, EntriesInv
  <1>2. /\ Len(timeout_vector) \in Nat /\ Len(timeout_v_process) \in Nat
        /\ DOMAIN timeout_vector = 1..Len(timeout_vector)
        /\ DOMAIN timeout_v_process = 1..Len(timeout_v_process)
        BY <1>1, LenProperties
  <1>3. /\ \A n \in 1..Len(timeout_vector) : timeout_vector[n] \in Handles
        /\ \A n \in 1..Len(timeout_v_process) : timeout_v_process[n] \in Handles
        BY <1>1, ElementOfSeq
  <1>4. \A h \in Handles : In(h, timeout_vector) \/ In(h, timeout_v_process) <=> tstatus[h] # "free"
        BY DEF IInv, MemoryInv
  <1>5. /\ \A n \in 1..Len(timeout_vector) : In(timeout_vector[n], timeout_vector)
        /\ \A n \in 1..Len(timeout_v_process) : In(timeout_v_process[n], timeout_v_process)
        BY DEF In
  <1>6. QED
        BY <1>1, <1>2, <1>3, <1>4, <1>5

\* The timeout whose callback runs is allocated, and in the vector of the pass.
LEMMA CurrentType ==
  ASSUME IInv, mpc = "cb"
  PROVE  /\ i \in 1..Len(timeout_v_process) /\ cur \in Handles /\ cur # NoTimeout
         /\ tstatus[cur] \in {"live", "deleted"} /\ In(cur, timeout_v_process)
  <1>1. i \in 1..Len(timeout_v_process)
        BY DEF IInv, PlaceInv
  <1>2. cur \in Handles /\ tstatus[cur] # "free"
        BY <1>1, Types DEF cur
  <1>3. tstatus[cur] \in Status
        BY <1>2, Types
  <1>4. QED
        BY <1>1, <1>2, <1>3, TimeoutsAssumption DEF cur, In, Status

\* Keys that are the same for the entries of a vector leave it sorted.
LEMMA SameKeys ==
  ASSUME NEW v \in Seq(Handles), NEW a, NEW b, SortedBy(v, a),
         \A h \in Handles : In(h, v) => a[h] = b[h]
  PROVE  SortedBy(v, b)
  <1>1. DOMAIN v = 1..Len(v) /\ \A k \in 1..Len(v) : v[k] \in Handles /\ In(v[k], v)
        BY LenProperties, ElementOfSeq DEF In
  <1>2. \A k \in DOMAIN v : a[v[k]] = b[v[k]]
        BY <1>1
  <1>3. QED
        BY <1>2 DEF SortedBy

\* Steps that touch neither the timeouts nor the vectors.
LEMMA Still ==
  ASSUME IInv, UNCHANGED <<entryVars, vectorVars, countVars>>
  PROVE  EntriesInv' /\ MemoryInv' /\ CountInv' /\ VectorsSorted'
  BY DEF IInv, EntriesInv, MemoryInv, CountInv, VectorsSorted, Deleted, In, Distinct, SortedBy,
         entryVars, vectorVars, countVars

\* sol_timeout_add(): one more timeout, in its place.
LEMMA AddPreserves ==
  ASSUME IInv, NEW h \in Handles, NEW ms \in Periods, NEW other \in BOOLEAN,
         sol_timeout_add(h, ms, other)
  PROVE  IInv'
  <1> DEFINE armed == [expire EXCEPT ![h] = clock + ms]
  <1>1. /\ tstatus[h] = "free" /\ tstatus' = [tstatus EXCEPT ![h] = "live"]
        /\ period' = [period EXCEPT ![h] = ms] /\ expire' = armed
        /\ timeout_vector' = sol_ptr_vector_insert_sorted(timeout_vector, armed, h)
        /\ notified' = (notified \/ other)
        /\ UNCHANGED <<timeout_v_process, timeout_pending_deletion, timeout_processing, run_loop,
                       clock, now, i, mpc, first, deadline>>
        BY DEF sol_timeout_add, countVars, timeVars, passVars
  <1>2. /\ tstatus \in [Handles -> Status] /\ period \in [Handles -> Periods \cup {0}]
        /\ expire \in [Handles -> Nat] /\ clock \in Nat /\ ms \in Nat
        /\ timeout_vector \in Seq(Handles) /\ timeout_v_process \in Seq(Handles)
        BY TimeoutsAssumption DEF IInv, EntriesInv, SleepTypes
  <1>3. armed \in [Handles -> Nat] /\ \A g \in Handles : g # h => armed[g] = expire[g]
    <2>1. clock + ms \in Nat
          BY <1>2
    <2>2. QED
          BY <1>2, <2>1
  <1>4. ~In(h, timeout_vector) /\ ~In(h, timeout_v_process)
        BY <1>1 DEF IInv, MemoryInv
  <1> HIDE DEF armed
  <1>5. SortedBy(timeout_vector, armed) /\ SortedBy(timeout_v_process, armed)
    <2>1. \A g \in Handles : In(g, timeout_vector) \/ In(g, timeout_v_process) => expire[g] = armed[g]
          BY <1>3, <1>4
    <2>2. SortedBy(timeout_vector, expire) /\ SortedBy(timeout_v_process, expire)
          BY DEF IInv, VectorsSorted
    <2>3. QED
          BY <1>2, <2>1, <2>2, SameKeys
  <1> DEFINE r == sol_ptr_vector_insert_sorted(timeout_vector, armed, h)
  <1>6. PICK m \in 1..(Len(timeout_vector) + 1) :
          r \in Seq(Handles) /\ PutIn(r, timeout_vector, m, h) /\ SortedBy(r, armed)
    <2>1. armed \in [Handles -> Int]
          BY <1>3
    <2>2. QED
          BY <1>2, <1>5, <2>1, InsertedSorted
  <1> HIDE DEF r
  <1>7. timeout_vector' = r
        BY <1>1 DEF r
  <1>8. Distinct(r) /\ \A g : In(g, r) <=> In(g, timeout_vector) \/ g = h
    <2>1. Distinct(timeout_vector)
          BY DEF IInv, MemoryInv
    <2>2. QED
          BY <1>2, <1>4, <1>6, <2>1, PutInEntries
  <1>9. MemoryInv'
    <2>1. \A g \in Handles : In(g, timeout_v_process)' <=> In(g, timeout_v_process)
          BY <1>1 DEF In
    <2>2. \A g \in Handles : tstatus'[g] # "free" <=> tstatus[g] # "free" \/ g = h
          BY <1>1, <1>2 DEF Status
    <2>3. Distinct(timeout_vector') /\ Distinct(timeout_v_process)'
          BY <1>1, <1>7, <1>8 DEF IInv, MemoryInv, Distinct
    <2>4. \A g \in Handles : In(g, timeout_vector') <=> In(g, timeout_vector) \/ g = h
          BY <1>7, <1>8
    <2>5. QED
          BY <1>4, <2>1, <2>2, <2>3, <2>4 DEF IInv, MemoryInv
  <1>10. Deleted' = Deleted
         BY <1>1, <1>2 DEF Deleted, Status
  <1>11. CountInv'
         BY <1>1, <1>10 DEF IInv, CountInv
  <1>12. EntriesInv'
    <2>1. tstatus' \in [Handles -> Status] /\ period' \in [Handles -> Periods \cup {0}]
          BY <1>1, <1>2 DEF Status
    <2>2. QED
          BY <1>1, <1>2, <1>3, <1>6, <1>7, <2>1 DEF EntriesInv
  <1>13. SleepTypes' /\ PlaceInv'
         BY <1>1 DEF IInv, SleepTypes, PlaceInv
  <1>14. VectorsSorted'
    <2>1. SortedBy(timeout_vector', expire')
          BY <1>1, <1>6, <1>7
    <2>2. SortedBy(timeout_v_process', expire')
          BY <1>1, <1>5
    <2>3. QED
          BY <2>1, <2>2 DEF VectorsSorted
  <1>15. QED
         BY <1>9, <1>11, <1>12, <1>13, <1>14 DEF IInv

\* sol_timeout_del() outside the pass frees the timeout and nothing else.
LEMMA DelFrees ==
  ASSUME IInv, NEW h \in Handles, NEW other \in BOOLEAN, sol_timeout_del(h, other),
         ~timeout_processing
  PROVE  /\ timeout_vector' \in Seq(Handles) /\ Distinct(timeout_vector')
         /\ \A g \in Handles : In(g, timeout_vector') <=> In(g, timeout_vector) /\ g # h
         /\ timeout_pending_deletion' = 0
         /\ tstatus' = [tstatus EXCEPT ![h] = "free"]
         /\ period' = [period EXCEPT ![h] = 0] /\ expire' = [expire EXCEPT ![h] = 0]
         /\ SortedBy(timeout_vector', expire')
  <1> DEFINE st == [tstatus EXCEPT ![h] = "deleted"]
             n == timeout_pending_deletion + 1
  <1>1. tstatus[h] = "live" /\ timeout_cleanup(timeout_vector, st, n)
        BY DEF sol_timeout_del
  <1>2. /\ tstatus \in [Handles -> Status] /\ timeout_vector \in Seq(Handles)
        /\ Distinct(timeout_vector) /\ SortedBy(timeout_vector, expire)
        /\ period \in [Handles -> Periods \cup {0}] /\ expire \in [Handles -> Nat]
        BY DEF IInv, EntriesInv, MemoryInv, VectorsSorted
  <1>3. st \in [Handles -> Status] /\ n = Cardinality({g \in Handles : st[g] = "deleted"})
        BY <1>1, OneMore
  <1>4. Deleted = {} /\ \A g \in Handles : ~In(g, timeout_v_process)
        BY DEF IInv, CountInv, In
  <1>5. \A g \in Handles : st[g] = "deleted" <=> g = h
        BY <1>2, <1>4 DEF Deleted
  <1>6. \A g \in Handles : st[g] = "deleted" => In(g, timeout_vector)
        BY <1>1, <1>4, <1>5 DEF IInv, MemoryInv
  <1> HIDE DEF st, n
  <1>7. /\ timeout_vector' \in Seq(Handles) /\ Distinct(timeout_vector')
        /\ \A g \in Handles : In(g, timeout_vector') <=> In(g, timeout_vector) /\ st[g] # "deleted"
        /\ timeout_pending_deletion' = 0
        /\ tstatus' = [g \in Handles |-> IF st[g] = "deleted" THEN "free" ELSE st[g]]
        /\ period' = [g \in Handles |-> IF st[g] = "deleted" THEN 0 ELSE period[g]]
        /\ expire' = [g \in Handles |-> IF st[g] = "deleted" THEN 0 ELSE expire[g]]
        /\ SortedBy(timeout_vector', expire')
        BY <1>1, <1>2, <1>3, <1>6, Sweep
  <1>8. tstatus' = [tstatus EXCEPT ![h] = "free"]
        BY <1>2, <1>5, <1>7 DEF st
  <1>9. period' = [period EXCEPT ![h] = 0] /\ expire' = [expire EXCEPT ![h] = 0]
        BY <1>2, <1>5, <1>7
  <1>10. QED
         BY <1>5, <1>7, <1>8, <1>9

\* One more mark during the pass.
LEMMA MarkPreserves ==
  ASSUME IInv, NEW h \in Handles, tstatus[h] = "live", timeout_processing,
         tstatus' = [tstatus EXCEPT ![h] = "deleted"],
         timeout_pending_deletion' = timeout_pending_deletion + 1,
         UNCHANGED <<period, expire, vectorVars, timeout_processing>>
  PROVE  EntriesInv' /\ MemoryInv' /\ CountInv' /\ VectorsSorted'
  <1>1. /\ tstatus' \in [Handles -> Status] /\ Deleted' = Deleted \cup {h}
        /\ timeout_pending_deletion' = Cardinality(Deleted \cup {h})
        BY OneMore DEF Deleted
  <1>2. \A g \in Handles : tstatus'[g] # "free" <=> tstatus[g] # "free"
        BY DEF IInv, EntriesInv
  <1>3. MemoryInv'
        BY <1>2 DEF IInv, MemoryInv, In, Distinct, vectorVars
  <1>4. CountInv'
        BY <1>1 DEF CountInv
  <1>5. EntriesInv' /\ VectorsSorted'
        BY <1>1 DEF IInv, EntriesInv, VectorsSorted, vectorVars
  <1>6. QED
        BY <1>3, <1>4, <1>5

\* sol_timeout_del(): marks during the pass, else frees at once.
LEMMA DelPreserves ==
  ASSUME IInv, NEW h \in Handles, NEW other \in BOOLEAN, sol_timeout_del(h, other)
  PROVE  IInv'
  <1>1. /\ tstatus[h] = "live"
        /\ UNCHANGED <<timeout_v_process, timeout_processing, run_loop, clock, now, i, mpc, first,
                       deadline, notified>>
        BY DEF sol_timeout_del, timeVars, passVars, sleepVars
  <1>2. SleepTypes' /\ PlaceInv'
        BY <1>1 DEF IInv, SleepTypes, PlaceInv
  <1>3. CASE timeout_processing
    <2>1. /\ tstatus' = [tstatus EXCEPT ![h] = "deleted"]
          /\ timeout_pending_deletion' = timeout_pending_deletion + 1
          /\ UNCHANGED <<period, expire, vectorVars, timeout_processing>>
          BY <1>1, <1>3 DEF sol_timeout_del, vectorVars
    <2>2. EntriesInv' /\ MemoryInv' /\ CountInv' /\ VectorsSorted'
          BY <1>1, <1>3, <2>1, MarkPreserves
    <2>3. QED
          BY <1>2, <2>2 DEF IInv
  <1>4. CASE ~timeout_processing
    <2>1. /\ timeout_vector' \in Seq(Handles) /\ Distinct(timeout_vector')
          /\ \A g \in Handles : In(g, timeout_vector') <=> In(g, timeout_vector) /\ g # h
          /\ timeout_pending_deletion' = 0
          /\ tstatus' = [tstatus EXCEPT ![h] = "free"]
          /\ period' = [period EXCEPT ![h] = 0] /\ expire' = [expire EXCEPT ![h] = 0]
          /\ SortedBy(timeout_vector', expire')
          BY <1>4, DelFrees
    <2>2. /\ tstatus \in [Handles -> Status] /\ period \in [Handles -> Periods \cup {0}]
          /\ expire \in [Handles -> Nat]
          BY DEF IInv, EntriesInv
    <2>3. /\ Deleted = {} /\ timeout_v_process = <<>>
          /\ \A g \in Handles : ~In(g, timeout_v_process)
          BY <1>4 DEF IInv, CountInv, In
    <2>4. MemoryInv'
      <3>1. (\A g \in Handles : ~In(g, timeout_v_process)') /\ Distinct(timeout_v_process)'
            BY <1>1, <2>3 DEF In, Distinct
      <3>2. \A g \in Handles : tstatus'[g] # "free" <=> tstatus[g] # "free" /\ g # h
            BY <2>1, <2>2
      <3>3. QED
            BY <2>1, <2>3, <3>1, <3>2 DEF IInv, MemoryInv
    <2>5. CountInv'
      <3>1. Deleted' = {}
            BY <2>1, <2>2, <2>3 DEF Deleted
      <3>2. QED
            BY <1>1, <2>1, <2>3, <3>1, FS_EmptySet DEF CountInv
    <2>6. EntriesInv'
      <3>1. /\ tstatus' \in [Handles -> Status] /\ period' \in [Handles -> Periods \cup {0}]
            /\ expire' \in [Handles -> Nat]
            BY <2>1, <2>2 DEF Status
      <3>2. <<>> \in Seq(Handles)
            OBVIOUS
      <3>3. QED
            BY <1>1, <2>1, <2>3, <3>1, <3>2 DEF EntriesInv
    <2>7. VectorsSorted'
      <3>1. SortedBy(timeout_v_process', expire')
            BY <1>1, <2>3 DEF SortedBy
      <3>2. QED
            BY <2>1, <3>1 DEF VectorsSorted
    <2>8. QED
          BY <1>2, <2>4, <2>5, <2>6, <2>7 DEF IInv
  <1>5. QED
        BY <1>3, <1>4

\* The end of the pass merges the vectors and frees what is marked.
LEMMA EndSweeps ==
  ASSUME IInv, ProcessEnd
  PROVE  /\ timeout_vector' \in Seq(Handles) /\ Distinct(timeout_vector')
         /\ \A h \in Handles : In(h, timeout_vector') <=> tstatus[h] = "live"
         /\ timeout_pending_deletion' = 0
         /\ tstatus' = [h \in Handles |-> IF tstatus[h] = "deleted" THEN "free" ELSE tstatus[h]]
         /\ period' = [h \in Handles |-> IF tstatus[h] = "deleted" THEN 0 ELSE period[h]]
         /\ expire' = [h \in Handles |-> IF tstatus[h] = "deleted" THEN 0 ELSE expire[h]]
         /\ SortedBy(timeout_vector', expire')
  <1> DEFINE v == timeout_vector_update
             n == timeout_pending_deletion
  <1>1. timeout_cleanup(v, tstatus, n)
        BY DEF ProcessEnd
  <1>2. tstatus \in [Handles -> Status] /\ expire \in [Handles -> Nat]
        BY DEF IInv, EntriesInv
  <1>3. /\ v \in Seq(Handles) /\ Distinct(v) /\ SortedBy(v, expire)
        /\ \A h \in Handles : In(h, v) <=> tstatus[h] # "free"
        BY UpdateMerges
  <1>4. n = Cardinality({h \in Handles : tstatus[h] = "deleted"})
        BY DEF IInv, CountInv, Deleted
  <1> HIDE DEF v, n
  <1>5. \A h \in Handles : tstatus[h] = "deleted" => In(h, v)
        BY <1>3
  <1>6. /\ timeout_vector' \in Seq(Handles) /\ Distinct(timeout_vector')
        /\ \A h \in Handles : In(h, timeout_vector') <=> In(h, v) /\ tstatus[h] # "deleted"
        /\ timeout_pending_deletion' = 0
        /\ tstatus' = [h \in Handles |-> IF tstatus[h] = "deleted" THEN "free" ELSE tstatus[h]]
        /\ period' = [h \in Handles |-> IF tstatus[h] = "deleted" THEN 0 ELSE period[h]]
        /\ expire' = [h \in Handles |-> IF tstatus[h] = "deleted" THEN 0 ELSE expire[h]]
        /\ SortedBy(timeout_vector', expire')
        BY <1>1, <1>2, <1>3, <1>4, <1>5, Sweep
  <1>7. \A h \in Handles : In(h, timeout_vector') <=> tstatus[h] = "live"
        BY <1>2, <1>3, <1>6 DEF Status
  <1>8. QED
        BY <1>6, <1>7

\* The end of the pass: nothing is marked any more.
LEMMA EndPreserves ==
  ASSUME IInv, ProcessEnd
  PROVE  IInv'
  <1>1. /\ timeout_vector' \in Seq(Handles) /\ Distinct(timeout_vector')
        /\ \A h \in Handles : In(h, timeout_vector') <=> tstatus[h] = "live"
        /\ timeout_pending_deletion' = 0
        /\ tstatus' = [h \in Handles |-> IF tstatus[h] = "deleted" THEN "free" ELSE tstatus[h]]
        /\ period' = [h \in Handles |-> IF tstatus[h] = "deleted" THEN 0 ELSE period[h]]
        /\ expire' = [h \in Handles |-> IF tstatus[h] = "deleted" THEN 0 ELSE expire[h]]
        /\ SortedBy(timeout_vector', expire')
        BY EndSweeps
  <1>2. /\ timeout_v_process' = <<>> /\ timeout_processing' = FALSE /\ i' = 1 /\ now' = 0
        /\ mpc' = "passed" /\ UNCHANGED <<run_loop, clock, first, deadline, notified>>
        BY DEF ProcessEnd, MainGoes, sleepVars
  <1>3. /\ tstatus \in [Handles -> Status] /\ period \in [Handles -> Periods \cup {0}]
        /\ expire \in [Handles -> Nat]
        BY DEF IInv, EntriesInv
  <1>4. /\ <<>> \in Seq(Handles) /\ Distinct(<<>>) /\ Len(<<>>) = 0 /\ (\A h : ~In(h, <<>>))
        /\ SortedBy(<<>>, expire')
        BY DEF In, Distinct, SortedBy
  <1>5. MemoryInv'
    <2>1. \A h \in Handles : tstatus'[h] # "free" <=> tstatus[h] = "live"
          BY <1>1, <1>3 DEF Status
    <2>2. QED
          BY <1>1, <1>2, <1>4, <2>1 DEF MemoryInv
  <1>6. CountInv'
    <2>1. Deleted' = {}
          BY <1>1 DEF Deleted
    <2>2. QED
          BY <1>1, <1>2, <2>1, FS_EmptySet DEF CountInv
  <1>7. EntriesInv'
    <2>1. /\ tstatus' \in [Handles -> Status] /\ period' \in [Handles -> Periods \cup {0}]
          /\ expire' \in [Handles -> Nat]
          BY <1>1, <1>3 DEF Status
    <2>2. QED
          BY <1>1, <1>2, <1>4, <2>1 DEF EntriesInv
  <1>8. SleepTypes'
    <2>1. 0 \in 0..MaxClock
          BY TimeoutsAssumption
    <2>2. QED
          BY <1>2, <2>1 DEF IInv, SleepTypes
  <1>9. PlaceInv'
    <2>1. mpc' \in Places /\ mpc' \notin Passing /\ mpc' # "cb"
          BY <1>2 DEF Places, Passing
    <2>2. i' \in 1..(Len(timeout_v_process') + 1)
          BY <1>2, <1>4
    <2>3. QED
          BY <1>2, <2>1, <2>2, Zenon DEF PlaceInv
  <1>10. VectorsSorted'
         BY <1>1, <1>2, <1>4 DEF VectorsSorted
  <1>11. QED
         BY <1>5, <1>6, <1>7, <1>8, <1>9, <1>10 DEF IInv

\* The callback returns FALSE: its timeout is marked, once.
LEMMA ReturnFalsePreserves ==
  ASSUME IInv, ReturnFalse
  PROVE  IInv'
  <1>1. /\ mpc = "cb" /\ mpc' = "scan" /\ i' = i + 1
        /\ UNCHANGED <<period, expire, timeout_vector, timeout_v_process, timeout_processing, run_loop,
                       clock, now, first, deadline, notified>>
        BY DEF ReturnFalse, MainGoes, vectorVars, timeVars, sleepVars
  <1>2. /\ i \in 1..Len(timeout_v_process) /\ cur \in Handles /\ Len(timeout_v_process) \in Nat
        /\ tstatus[cur] \in {"live", "deleted"} /\ timeout_processing
        BY <1>1, CurrentType, Types DEF IInv, PlaceInv, Passing
  <1>3. SleepTypes'
        BY <1>1 DEF IInv, SleepTypes
  <1>4. PlaceInv'
    <2>1. i + 1 \in 1..(Len(timeout_v_process) + 1)
          BY <1>2
    <2>2. QED
          BY <1>1, <1>2, <2>1 DEF PlaceInv, Places, Passing
  <1>5. EntriesInv' /\ MemoryInv' /\ CountInv' /\ VectorsSorted'
    <2>1. CASE tstatus[cur] = "deleted"
      <3>1. UNCHANGED <<entryVars, vectorVars, countVars>>
            BY <1>1, <2>1 DEF ReturnFalse, entryVars, vectorVars, countVars
      <3>2. QED
            BY <3>1, Still
    <2>2. CASE tstatus[cur] # "deleted"
      <3>1. /\ tstatus' = [tstatus EXCEPT ![cur] = "deleted"] /\ tstatus[cur] = "live"
            /\ timeout_pending_deletion' = timeout_pending_deletion + 1
            /\ UNCHANGED <<period, expire, vectorVars, timeout_processing>>
            BY <1>1, <1>2, <2>2 DEF ReturnFalse, vectorVars
      <3> DEFINE h == cur
      <3>2. h \in Handles /\ tstatus' = [tstatus EXCEPT ![h] = "deleted"] /\ tstatus[h] = "live"
            BY <1>2, <3>1
      <3> HIDE DEF h
      <3>3. QED
            BY <1>2, <3>1, <3>2, MarkPreserves
    <2>3. QED
          BY <2>1, <2>2
  <1>6. QED
        BY <1>3, <1>4, <1>5 DEF IInv

\* The callback returns TRUE: its timeout is armed anew and moved to its place.
LEMMA ReturnTruePreserves ==
  ASSUME IInv, ReturnTrue
  PROVE  IInv'
  <1> DEFINE p == timeout_v_process
             h == cur
             armed == [expire EXCEPT ![h] = now + period[h]]
             moved == sol_ptr_vector_update_sorted(p, armed, i)
             rest == RemoveAt(p, i)
             w == moved.v
             index == moved.index
  <1>1. /\ mpc = "cb" /\ mpc' = "scan" /\ expire' = armed /\ timeout_v_process' = w
        /\ i' = IF index = i THEN i + 1 ELSE i
        /\ UNCHANGED <<tstatus, period, timeout_vector, timeout_pending_deletion, timeout_processing,
                       run_loop, clock, now, first, deadline, notified>>
        BY DEF ReturnTrue, MainGoes, countVars, timeVars, sleepVars
  <1>2. /\ i \in 1..Len(p) /\ h \in Handles /\ h = p[i] /\ In(h, p) /\ timeout_processing
        BY <1>1, CurrentType DEF cur, IInv, PlaceInv, Passing
  <1>3. /\ p \in Seq(Handles) /\ timeout_vector \in Seq(Handles) /\ Distinct(p) /\ Len(p) \in Nat
        /\ expire \in [Handles -> Nat] /\ SortedBy(p, expire) /\ SortedBy(timeout_vector, expire)
        BY LenProperties DEF IInv, EntriesInv, MemoryInv, VectorsSorted
  <1>4. armed \in [Handles -> Nat] /\ \A g \in Handles : g # h => armed[g] = expire[g]
    <2>1. now \in Nat /\ period[h] \in Nat
      <3>1. now \in Nat
            BY TimeoutsAssumption DEF IInv, SleepTypes
      <3>2. period[h] \in Periods \cup {0}
            BY <1>2 DEF IInv, EntriesInv
      <3>3. \A x \in Periods \cup {0} : x \in Nat
            BY TimeoutsAssumption
      <3>4. QED
            BY <3>1, <3>2, <3>3
    <2>2. now + period[h] \in Nat
          BY <2>1
    <2>3. QED
          BY <1>2, <1>3, <2>2
  <1> HIDE DEF p, h, armed
  <1>5. /\ rest \in Seq(Handles) /\ Len(rest) = Len(p) - 1 /\ PutIn(p, rest, i, h)
        BY <1>2, <1>3, RemovedAt
  <1>6. /\ \A y : In(y, p) <=> In(y, rest) \/ y = h
        /\ Distinct(rest) /\ ~In(h, rest)
    <2> HIDE DEF rest
    <2>1. QED
          BY <1>3, <1>5, PutInEntries
  <1>7. SortedBy(rest, armed)
    <2> HIDE DEF rest
    <2>1. SortedBy(rest, expire)
          BY <1>3, <1>5, RestIsSorted
    <2>2. \A g \in Handles : In(g, rest) => expire[g] = armed[g]
          BY <1>4, <1>6
    <2>3. QED
          BY <1>5, <2>1, <2>2, SameKeys
  <1>8. /\ w \in Seq(Handles) /\ Len(w) = Len(p) /\ index \in 1..Len(p)
        /\ PutIn(w, rest, index, h) /\ SortedBy(w, armed)
    <2>1. armed \in [Handles -> Int]
          BY <1>4
    <2>2. LET u == sol_ptr_vector_update_sorted(p, armed, i) IN
          /\ u.v \in Seq(Handles) /\ Len(u.v) = Len(p) /\ u.index \in 1..Len(p)
          /\ PutIn(u.v, RemoveAt(p, i), u.index, p[i])
          /\ SortedBy(u.v, armed) /\ LastOfItsKey(u.v, armed, u.index)
      <3>1. i \in 1..Len(p) /\ p \in Seq(Handles) /\ SortedBy(RemoveAt(p, i), armed)
            BY <1>2, <1>3, <1>7
      <3>2. QED
            BY <2>1, <3>1, UpdatedSorted
    <2>3. /\ w \in Seq(Handles) /\ Len(w) = Len(p) /\ index \in 1..Len(p)
          /\ PutIn(w, rest, index, p[i]) /\ SortedBy(w, armed)
          BY <2>2, Zenon
    <2> HIDE DEF moved, rest, w, index
    <2>4. QED
          BY <1>2, <2>3
  <1> HIDE DEF moved, rest, w, index
  <1>9. Distinct(w) /\ \A y : In(y, w) <=> In(y, p)
        BY <1>5, <1>6, <1>8, PutInEntries
  <1>10. SortedBy(timeout_vector, armed)
    <2>1. \A g \in Handles : In(g, timeout_vector) => g # h
          BY <1>2 DEF IInv, MemoryInv, p
    <2>2. \A g \in Handles : In(g, timeout_vector) => expire[g] = armed[g]
          BY <1>4, <2>1
    <2>3. QED
          BY <1>3, <2>2, SameKeys
  <1>11. EntriesInv'
         BY <1>1, <1>4, <1>8 DEF IInv, EntriesInv
  <1>12. SleepTypes'
         BY <1>1 DEF IInv, SleepTypes
  <1>13. MemoryInv'
    <2>1. Distinct(timeout_vector)' /\ Distinct(timeout_v_process')
          BY <1>1, <1>9 DEF IInv, MemoryInv, Distinct
    <2>2. \A g \in Handles : /\ In(g, timeout_vector)' <=> In(g, timeout_vector)
                             /\ In(g, timeout_v_process') <=> In(g, timeout_v_process)
          BY <1>1, <1>9 DEF In, p
    <2>3. QED
          BY <1>1, <2>1, <2>2 DEF IInv, MemoryInv
  <1>14. CountInv'
         BY <1>1, <1>2 DEF IInv, CountInv, Deleted
  <1>15. PlaceInv'
    <2>1. i' \in 1..(Len(w) + 1)
          BY <1>1, <1>2, <1>3, <1>8
    <2>2. QED
          BY <1>1, <1>2, <2>1 DEF PlaceInv, Places, Passing
  <1>16. VectorsSorted'
         BY <1>1, <1>8, <1>10 DEF VectorsSorted
  <1>17. QED
         BY <1>11, <1>12, <1>13, <1>14, <1>15, <1>16 DEF IInv

\* The pass takes the vector of what was added until then.
LEMMA BeginPreserves ==
  ASSUME IInv, ProcessBegin
  PROVE  IInv'
  <1>1. /\ mpc \in {"woken", "passed"} /\ mpc' = "scan" /\ i' = 1 /\ now' = clock
        /\ timeout_v_process' = timeout_vector /\ timeout_vector' = <<>> /\ timeout_processing' = TRUE
        /\ UNCHANGED <<tstatus, period, expire, timeout_pending_deletion, run_loop, clock, first,
                       deadline, notified>>
        BY DEF ProcessBegin, entryVars, sleepVars
  <1>2. timeout_v_process = <<>> /\ Len(timeout_vector) \in Nat
        BY <1>1, Types DEF IInv, PlaceInv, CountInv, Passing
  <1>3. /\ <<>> \in Seq(Handles) /\ Distinct(<<>>) /\ (\A h : ~In(h, <<>>)) /\ SortedBy(<<>>, expire)
        BY DEF In, Distinct, SortedBy
  <1>4. EntriesInv' /\ SleepTypes' /\ VectorsSorted'
        BY <1>1, <1>3 DEF IInv, EntriesInv, SleepTypes, VectorsSorted
  <1>5. MemoryInv'
        BY <1>1, <1>2, <1>3 DEF IInv, MemoryInv
  <1>6. CountInv'
        BY <1>1 DEF IInv, CountInv, Deleted
  <1>7. PlaceInv'
        BY <1>1, <1>2 DEF PlaceInv, Places, Passing
  <1>8. QED
        BY <1>4, <1>5, <1>6, <1>7 DEF IInv

\* sol_mainloop_common_timeout_first() finds the live timeout that is the first
\* to expire.
LEMMA FirstExpires ==
  ASSUME IInv, TimeoutFirst
  PROVE  /\ first' \in Handles \cup {NoTimeout}
         /\ first' # NoTimeout => first' \in Handles /\ tstatus[first'] = "live"
         /\ \A h \in Handles : tstatus[h] = "live"
              => first' # NoTimeout /\ expire[first'] <= expire[h]
  <1> DEFINE v == timeout_vector
             live == {k \in DOMAIN v : tstatus[v[k]] = "live"}
             least == CHOOSE k \in live : \A l \in live : k <= l
  <1>1. /\ Len(v) \in Nat /\ DOMAIN v = 1..Len(v) /\ expire \in [Handles -> Nat]
        /\ \A n \in 1..Len(v) : v[n] \in Handles
        BY Types DEF IInv, EntriesInv
  <1>2. first' = IF live = {} THEN NoTimeout ELSE v[least]
        BY DEF TimeoutFirst
  <1>3. ASSUME NEW h \in Handles, tstatus[h] = "live"
        PROVE  \E k \in live : v[k] = h
    <2>1. mpc = "passed"
          BY DEF TimeoutFirst, MainGoes
    <2>2. timeout_v_process = <<>>
          BY <2>1 DEF IInv, CountInv, PlaceInv, Passing
    <2>3. ~In(h, timeout_v_process)
          BY <2>2 DEF In
    <2>4. In(h, v)
          BY <1>3, <2>3 DEF IInv, MemoryInv
    <2>5. QED
          BY <1>1, <1>3, <2>4 DEF In
  <1>4. CASE live = {}
        BY <1>2, <1>3, <1>4
  <1>5. CASE live # {}
    <2>1. live \subseteq Nat
          BY <1>1
    <2>2. least \in live /\ \A l \in live : least <= l
      <3> HIDE DEF live
      <3>1. \E k \in live : \A l \in live : k <= l
            BY <1>5, <2>1, Least
      <3>2. QED
            BY <3>1
    <2> HIDE DEF least
    <2>3. first' = v[least] /\ least \in 1..Len(v) /\ tstatus[v[least]] = "live" /\ v[least] \in Handles
          BY <1>1, <1>2, <1>5, <2>2
    <2>4. ASSUME NEW h \in Handles, tstatus[h] = "live"
          PROVE  expire[v[least]] <= expire[h]
      <3>1. PICK k \in live : v[k] = h
            BY <1>3, <2>4
      <3>2. k \in 1..Len(v) /\ least <= k
            BY <1>1, <2>2, <3>1
      <3>3. least < k => expire[v[least]] <= expire[v[k]]
            BY <1>1, <2>3, <3>2 DEF IInv, VectorsSorted, SortedBy
      <3>4. CASE least = k
            BY <1>1, <2>3, <3>1, <3>4
      <3>5. CASE least # k
        <4>1. least < k
              BY <1>1, <2>3, <3>2, <3>5
        <4>2. QED
              BY <3>1, <3>3, <4>1
      <3>6. QED
            BY <3>4, <3>5
    <2>5. v[least] # NoTimeout
          BY <2>3, TimeoutsAssumption
    <2> HIDE DEF v
    <2>6. QED
          BY <2>3, <2>4, <2>5
  <1>6. QED
        BY <1>4, <1>5

\* The steps of the walk, of the sleep and of the loop that leave the timeouts alone.
LEMMA QuietPreserves ==
  ASSUME IInv,
         \/ UNCHANGED vars \/ Skip \/ ScanDone \/ Call \/ TimeoutFirst \/ TimespecFirst \/ WakeDue
         \/ WakeOther \/ sol_run \/ Tick \/ \E other \in BOOLEAN : sol_quit(other)
  PROVE  IInv'
  <1>1. UNCHANGED <<entryVars, vectorVars, countVars>>
        BY DEF vars, Skip, ScanDone, Call, TimeoutFirst, TimespecFirst, WakeDue, WakeOther, sol_run,
           sol_quit, Tick
  <1>2. EntriesInv' /\ MemoryInv' /\ CountInv' /\ VectorsSorted'
        BY <1>1, Still
  <1>3. timeout_v_process' = timeout_v_process /\ timeout_processing' = timeout_processing
        BY <1>1 DEF vectorVars, countVars
  <1>4. /\ mpc \in Places /\ timeout_processing \in BOOLEAN /\ (timeout_processing <=> mpc \in Passing)
        /\ i \in 1..(Len(timeout_v_process) + 1) /\ (mpc = "cb" => i \in 1..Len(timeout_v_process))
        /\ Len(timeout_v_process) \in Nat
        BY Types DEF IInv, PlaceInv
  <1>5. PlaceInv'
    <2>1. CASE Skip
      <3>1. i' \in 1..(Len(timeout_v_process) + 1) /\ mpc' = "scan" /\ mpc = "scan"
            BY <1>4, <2>1 DEF Skip
      <3>2. QED
            BY <1>3, <1>4, <3>1 DEF PlaceInv, Passing
    <2>2. CASE Call
      <3>1. i' = i /\ i \in 1..Len(timeout_v_process) /\ mpc' = "cb" /\ mpc = "scan"
            BY <1>4, <2>2 DEF Call, MainGoes
      <3>2. QED
            BY <1>3, <1>4, <3>1 DEF PlaceInv, Passing, Places
    <2>3. CASE ScanDone \/ TimeoutFirst \/ TimespecFirst \/ WakeDue \/ WakeOther \/ sol_run
      <3>1. /\ i' = i /\ mpc' \in Places /\ mpc' # "cb" /\ (mpc' \in Passing <=> mpc \in Passing)
            BY <2>3 DEF ScanDone, TimeoutFirst, TimespecFirst, WakeDue, WakeOther, sol_run, MainGoes,
               Places, Passing
      <3>2. QED
            BY <1>3, <1>4, <3>1 DEF PlaceInv
    <2>4. CASE UNCHANGED vars \/ Tick \/ \E other \in BOOLEAN : sol_quit(other)
      <3>1. i' = i /\ mpc' = mpc
            BY <2>4 DEF vars, Tick, sol_quit, passVars
      <3>2. QED
            BY <1>3, <1>4, <3>1 DEF PlaceInv
    <2>5. QED
          BY <2>1, <2>2, <2>3, <2>4
  <1>6. SleepTypes'
    <2>1. SleepTypes
          BY DEF IInv
    <2>2. CASE UNCHANGED vars \/ Skip \/ ScanDone \/ Call
          BY <2>1, <2>2 DEF vars, Skip, ScanDone, Call, SleepTypes, timeVars, sleepVars
    <2>3. CASE TimeoutFirst
      <3>1. first' \in Handles \cup {NoTimeout}
            BY <2>3, FirstExpires
      <3>2. QED
            BY <2>1, <2>3, <3>1 DEF TimeoutFirst, SleepTypes, timeVars
    <2>4. CASE TimespecFirst
      <3>1. deadline' \in Nat
        <4>1. Never \in Nat /\ 0..Never \subseteq Nat
              BY TimeoutsAssumption DEF Never
        <4>2. first # NoTimeout => expire[first] \in Nat
              BY DEF IInv, EntriesInv, SleepTypes
        <4>3. deadline' \in IF first = NoTimeout THEN {Never}
                            ELSE IF tstatus[first] = "free" THEN 0..Never ELSE {expire[first]}
              BY <2>4 DEF TimespecFirst
        <4>4. QED
              BY <4>1, <4>2, <4>3
      <3>2. QED
            BY <2>1, <2>4, <3>1 DEF TimespecFirst, SleepTypes, timeVars
    <2>5. CASE WakeDue \/ WakeOther \/ sol_run \/ \E other \in BOOLEAN : sol_quit(other)
      <3>1. /\ clock' = clock /\ now' = now /\ first' = first /\ (deadline' = deadline \/ deadline' = 0)
            /\ run_loop' \in BOOLEAN /\ notified' \in BOOLEAN
            BY <2>1, <2>5, Zenon DEF WakeDue, WakeOther, sol_run, sol_quit, SleepTypes, timeVars, sleepVars
      <3>2. deadline' \in Nat
            BY <2>1, <3>1 DEF SleepTypes
      <3>3. QED
            BY <2>1, <3>1, <3>2, Zenon DEF SleepTypes
    <2>6. CASE Tick
      <3>1. clock' \in 0..MaxClock
            BY <2>1, <2>6, TimeoutsAssumption DEF Tick, SleepTypes
      <3>2. QED
            BY <2>1, <2>6, <3>1 DEF Tick, SleepTypes, sleepVars
    <2>7. QED
          BY <2>2, <2>3, <2>4, <2>5, <2>6
  <1>7. QED
        BY <1>2, <1>5, <1>6 DEF IInv

\* sol_shutdown() frees what is left.
LEMMA ShutdownPreserves ==
  ASSUME IInv, sol_mainloop_impl_shutdown
  PROVE  IInv'
  <1>1. /\ mpc \in {"woken", "passed"} /\ mpc' = "shutdown" /\ tstatus' = [h \in Handles |-> "free"]
        /\ timeout_vector' = <<>>
        /\ UNCHANGED <<period, expire, timeout_v_process, timeout_pending_deletion,
                       timeout_processing, run_loop, clock, now, i, first, deadline, notified>>
        BY DEF sol_mainloop_impl_shutdown, countVars, timeVars, sleepVars
  <1>2. ~timeout_processing /\ timeout_v_process = <<>> /\ Deleted = {}
        BY <1>1 DEF IInv, PlaceInv, CountInv, Passing
  <1>3. /\ <<>> \in Seq(Handles) /\ Distinct(<<>>) /\ (\A h : ~In(h, <<>>)) /\ SortedBy(<<>>, expire)
        BY DEF In, Distinct, SortedBy
  <1>4. MemoryInv'
        BY <1>1, <1>2, <1>3 DEF MemoryInv
  <1>5. CountInv'
    <2>1. Deleted' = {}
          BY <1>1 DEF Deleted
    <2>2. QED
          BY <1>1, <1>2, <2>1 DEF IInv, CountInv
  <1>6. EntriesInv'
    <2>1. tstatus' \in [Handles -> Status]
          BY <1>1 DEF Status
    <2>2. QED
          BY <1>1, <1>3, <2>1 DEF IInv, EntriesInv
  <1>7. SleepTypes' /\ VectorsSorted'
        BY <1>1, <1>3 DEF IInv, SleepTypes, VectorsSorted
  <1>8. PlaceInv'
        BY <1>1, <1>2 DEF IInv, PlaceInv, Places, Passing
  <1>9. QED
        BY <1>4, <1>5, <1>6, <1>7, <1>8 DEF IInv

\* The invariant of the timeouts, whatever the threads and the callbacks add
\* and delete during passes and sleeps.
THEOREM TimeoutsInvariant == Spec => []IInv
  <1>1. Init => IInv
    <2> SUFFICES ASSUME Init PROVE IInv
        OBVIOUS
    <2>1. /\ <<>> \in Seq(Handles) /\ Distinct(<<>>) /\ (\A h : ~In(h, <<>>)) /\ SortedBy(<<>>, expire)
          /\ Len(<<>>) = 0
          BY DEF In, Distinct, SortedBy
    <2>2. Deleted = {}
          BY DEF Init, Deleted
    <2>3. EntriesInv /\ MemoryInv /\ CountInv /\ VectorsSorted
          BY <2>1, <2>2, FS_EmptySet DEF Init, EntriesInv, MemoryInv, CountInv, VectorsSorted, Status
    <2>4. PlaceInv
      <3>1. mpc \in Places /\ mpc \notin Passing /\ mpc # "cb"
            BY DEF Init, Places, Passing
      <3>2. i \in 1..(Len(timeout_v_process) + 1)
            BY <2>1 DEF Init
      <3>3. timeout_processing = FALSE
            BY DEF Init
      <3>4. QED
            BY <3>1, <3>2, <3>3, Zenon DEF PlaceInv
    <2>5. SleepTypes
      <3>1. clock \in 0..MaxClock /\ now \in 0..MaxClock /\ deadline \in Nat
            BY TimeoutsAssumption DEF Init
      <3>2. QED
            BY <3>1, Zenon DEF Init, SleepTypes
    <2>6. QED
          BY <2>3, <2>4, <2>5 DEF IInv
  <1>2. IInv /\ [Next]_vars => IInv'
    <2> SUFFICES ASSUME IInv, [Next]_vars PROVE IInv'
        OBVIOUS
    <2>1. CASE Process
          BY <2>1, BeginPreserves, QuietPreserves, EndPreserves DEF Process
    <2>2. CASE Callback
          BY <2>2, ReturnTruePreserves, ReturnFalsePreserves DEF Callback
    <2>3. CASE \E h \in Handles, other \in BOOLEAN :
                 sol_timeout_del(h, other) \/ \E ms \in Periods : sol_timeout_add(h, ms, other)
          BY <2>3, AddPreserves, DelPreserves
    <2>4. CASE WakeOther \/ sol_run \/ Tick \/ UNCHANGED vars \/ \E other \in BOOLEAN : sol_quit(other)
          BY <2>4, QuietPreserves
    <2>5. CASE sol_mainloop_impl_shutdown
          BY <2>5, ShutdownPreserves
    <2>6. QED
          BY <2>1, <2>2, <2>3, <2>4, <2>5 DEF Next
  <1>3. QED
        BY <1>1, <1>2, PTL DEF Spec

\* Neither vector points to freed memory, what is allocated is linked exactly
\* once, and nothing that is deleted stays allocated for good.
THEOREM NeverDangles == Spec => []NoDanglingTimeout
  <1>1. IInv => NoDanglingTimeout
    <2> SUFFICES ASSUME IInv PROVE NoDanglingTimeout
        OBVIOUS
    <2> DEFINE q == timeout_vector
               p == timeout_v_process
               both == q \o p
    <2>1. /\ q \in Seq(Handles) /\ p \in Seq(Handles) /\ Distinct(q) /\ Distinct(p)
          /\ Len(q) \in Nat /\ Len(p) \in Nat /\ DOMAIN q = 1..Len(q) /\ DOMAIN p = 1..Len(p)
          /\ \A n \in 1..Len(q) : q[n] \in Handles
          /\ \A n \in 1..Len(p) : p[n] \in Handles
          BY Types DEF IInv, EntriesInv, MemoryInv
    <2>2. \A h : ~(In(h, q) /\ In(h, p))
      <3>1. \A h : In(h, q) => h \in Handles
            BY <2>1 DEF In
      <3>2. QED
            BY <3>1 DEF IInv, MemoryInv
    <2>3. /\ both \in Seq(Handles) /\ Distinct(both)
          /\ \A h : In(h, both) <=> In(h, q) \/ In(h, p)
          BY <2>1, <2>2, JoinedEntries
    <2>4. DOMAIN both = 1..Len(both) /\ \A k \in 1..Len(both) : both[k] \in Handles
          BY <2>3, LenProperties, ElementOfSeq
    <2>5. \A h \in Handles : In(h, both) <=> tstatus[h] # "free"
          BY <2>3 DEF IInv, MemoryInv
    <2> HIDE DEF both
    <2>6. IsInjective(both)
          BY <2>3, <2>4 DEF IsInjective, Distinct
    <2>7. Range(both) = {h \in Handles : tstatus[h] # "free"}
      <3>1. \A h : h \in Range(both) <=> In(h, both)
            BY <2>4 DEF Range, In
      <3>2. \A h : In(h, both) => h \in Handles
            BY <2>4 DEF In
      <3>3. QED
            BY <2>5, <3>1, <3>2
    <2>8. PendingExact
          BY DEF IInv, CountInv, PendingExact, Deleted
    <2>9. TypeOK
      <3>1. Range(q) \subseteq Handles /\ Range(p) \subseteq Handles
            BY <2>1 DEF Range
      <3>2. timeout_pending_deletion \in 0..Cardinality(Handles)
        <4>1. Deleted \in SUBSET Handles /\ timeout_pending_deletion = Cardinality(Deleted)
              BY DEF Deleted, IInv, CountInv
        <4>2. /\ Cardinality(Deleted) \in Nat /\ Cardinality(Handles) \in Nat
              /\ Cardinality(Deleted) <= Cardinality(Handles)
              BY <4>1, Countable
        <4>3. QED
              BY <4>1, <4>2
      <3>3. i \in 1..(Cardinality(Handles) + 1)
        <4>1. Len(p) <= Cardinality(Handles) /\ Cardinality(Handles) \in Nat
              BY <2>1, NotLonger, Countable
        <4>2. i \in 1..(Len(p) + 1)
              BY DEF IInv, PlaceInv
        <4>3. QED
              BY <2>1, <4>1, <4>2
      <3>4. /\ mpc \in {"woken", "scan", "cb", "end", "passed", "first", "sleep", "shutdown"}
            /\ timeout_processing \in BOOLEAN
            BY DEF IInv, PlaceInv, Places, Passing
      <3>5. QED
            BY <3>1, <3>2, <3>3, <3>4 DEF IInv, EntriesInv, SleepTypes, TypeOK, Status
    <2>10. QED
           BY <2>6, <2>7, <2>8, <2>9 DEF NoDanglingTimeout, both
  <1>2. QED
        BY <1>1, TimeoutsInvariant, PTL

\* Both vectors are sorted by expiry at every moment, although periodic timeouts
\* are armed anew in the middle of the walk and others are added meanwhile.
THEOREM AlwaysSorted == Spec => []VectorsSorted
  <1>1. IInv => VectorsSorted
        BY DEF IInv
  <1>2. QED
        BY <1>1, TimeoutsInvariant, PTL

-----------------------------------------------------------------------------
(* The sleep.                                                              *)

\* The timeout that was found is live, nothing expires before it, and nothing
\* expires during the sleep, unless a notification is there to end it.
SleepInv ==
  /\ mpc = "first" /\ first # NoTimeout => first \in Handles /\ tstatus[first] = "live"
  /\ mpc = "first" /\ ~notified =>
       \A h \in Handles : tstatus[h] = "live" => first # NoTimeout /\ expire[first] <= expire[h]
  /\ mpc = "sleep" /\ ~notified => \A h \in Handles : tstatus[h] = "live" => deadline <= expire[h]

\* A timeout that is added during the sleep comes from another thread, which
\* notifies, or from a source, and then it does not expire before the first.
LEMMA AddSleeps ==
  ASSUME IInv, SleepInv, LateCalls = {}, NEW h \in Handles, NEW ms \in Periods,
         NEW other \in BOOLEAN, sol_timeout_add(h, ms, other)
  PROVE  SleepInv'
  <1>1. /\ MayAdd(clock + ms, other)
        /\ tstatus[h] = "free" /\ tstatus' = [tstatus EXCEPT ![h] = "live"]
        /\ expire' = [expire EXCEPT ![h] = clock + ms]
        /\ notified' = (notified \/ other) /\ UNCHANGED <<mpc, first, deadline>>
        BY DEF sol_timeout_add, passVars
  <1>2. tstatus \in [Handles -> Status] /\ expire \in [Handles -> Nat]
        BY Types DEF IInv, EntriesInv
  <1>3. \A g \in Handles : g # h => tstatus'[g] = tstatus[g] /\ expire'[g] = expire[g]
        BY <1>1, <1>2
  <1>4. CASE mpc = "first"
    <2>1. ASSUME first # NoTimeout
          PROVE  first \in Handles /\ first # h /\ tstatus'[first] = "live" /\ expire'[first] = expire[first]
          BY <1>1, <1>3, <1>4, <2>1 DEF SleepInv
    <2>2. ASSUME ~notified', NEW g \in Handles, tstatus'[g] = "live"
          PROVE  first # NoTimeout /\ expire'[first] <= expire'[g]
      <3>1. ~notified /\ ~other
            BY <1>1, <2>2, Zenon
      <3>2. first # NoTimeout /\ expire[first] <= clock + ms
            BY <1>1, <1>4, <3>1 DEF MayAdd
      <3>3. CASE g = h
            BY <1>1, <1>2, <2>1, <3>2, <3>3
      <3>4. CASE g # h
            BY <1>3, <1>4, <2>1, <2>2, <3>1, <3>2, <3>4 DEF SleepInv
      <3>5. QED
            BY <3>3, <3>4
    <2>3. QED
          BY <1>1, <1>4, <2>1, <2>2 DEF SleepInv
  <1>5. CASE mpc # "first"
    <2>1. mpc = "sleep" => notified'
          BY <1>1, <1>5, Zenon DEF MayAdd, InUserCode
    <2>2. QED
          BY <1>1, <1>5, <2>1 DEF SleepInv
  <1>6. QED
        BY <1>4, <1>5

\* A source deletes any timeout but the first.
LEMMA DelSleeps ==
  ASSUME IInv, SleepInv, LateCalls = {}, ~OtherThreadsDel, NEW h \in Handles,
         NEW other \in BOOLEAN, sol_timeout_del(h, other)
  PROVE  SleepInv'
  <1>1. MayDel(h, other) /\ UNCHANGED <<mpc, first, notified>>
        BY DEF sol_timeout_del, passVars, sleepVars
  <1>2. InUserCode /\ (mpc = "first" => h # first)
        BY <1>1 DEF MayDel
  <1>3. mpc' # "sleep"
        BY <1>1, <1>2 DEF InUserCode
  <1>4. CASE mpc = "first"
    <2>1. ~timeout_processing
          BY <1>4 DEF IInv, PlaceInv, Passing
    <2>2. tstatus' = [tstatus EXCEPT ![h] = "free"] /\ expire' = [expire EXCEPT ![h] = 0]
          BY <2>1, DelFrees
    <2>3. tstatus \in [Handles -> Status] /\ expire \in [Handles -> Nat]
          BY Types DEF IInv, EntriesInv
    <2>4. /\ \A g \in Handles : g # h => tstatus'[g] = tstatus[g] /\ expire'[g] = expire[g]
          /\ tstatus'[h] # "live"
          BY <2>2, <2>3
    <2>5. QED
          BY <1>1, <1>2, <1>3, <1>4, <2>4 DEF SleepInv
  <1>5. CASE mpc # "first"
        BY <1>1, <1>3, <1>5 DEF SleepInv
  <1>6. QED
        BY <1>4, <1>5

\* ppoll() does not sleep past the expiry of a timeout, and timespec_first() does
\* not read freed memory, while every thread adds timeouts and the sources add and
\* delete them in the middle of timespec_first(): if only the main thread deletes,
\* and the sources leave the timeout that was found the first one.  Without either
\* condition, what the second section under the lock reads is freed or stale.
THEOREM SleepsInTime ==
  ASSUME ~OtherThreadsDel, LateCalls = {}
  PROVE  Spec => []SleepsNotTooLong
  <1>1. Init => SleepInv
        BY DEF Init, SleepInv
  <1>2. ASSUME IInv, SleepInv, [Next]_vars
        PROVE  SleepInv'
    <2>1. CASE mpc' \notin {"first", "sleep"}
          BY <2>1 DEF SleepInv
    <2>2. CASE TimeoutFirst
      <3>1. mpc' = "first" /\ UNCHANGED <<tstatus, expire, notified>>
            BY <2>2 DEF TimeoutFirst, MainGoes, entryVars
      <3>2. /\ first' # NoTimeout => first' \in Handles /\ tstatus[first'] = "live"
            /\ \A h \in Handles : tstatus[h] = "live" => first' # NoTimeout /\ expire[first'] <= expire[h]
            BY <1>2, <2>2, FirstExpires
      <3>3. QED
            BY <3>1, <3>2 DEF SleepInv
    <2>3. CASE TimespecFirst
      <3>1. /\ mpc = "first" /\ mpc' = "sleep" /\ UNCHANGED <<tstatus, expire, notified>>
            /\ deadline' \in IF first = NoTimeout THEN {Never}
                             ELSE IF tstatus[first] = "free" THEN 0..Never ELSE {expire[first]}
            BY <2>3 DEF TimespecFirst, MainGoes, entryVars
      <3>2. ASSUME ~notified, NEW h \in Handles, tstatus[h] = "live"
            PROVE  deadline' <= expire[h]
        <4>1. first # NoTimeout /\ expire[first] <= expire[h] /\ tstatus[first] = "live"
              BY <1>2, <3>1, <3>2 DEF SleepInv
        <4>2. deadline' = expire[first]
              BY <3>1, <4>1
        <4>3. QED
              BY <4>1, <4>2
      <3>3. QED
            BY <3>1, <3>2 DEF SleepInv
    <2>4. CASE UNCHANGED vars \/ Tick \/ \E other \in BOOLEAN : sol_quit(other)
      <3>1. UNCHANGED <<mpc, first, deadline, tstatus, expire>>
            BY <2>4 DEF vars, Tick, sol_quit, entryVars, passVars, sleepVars
      <3>2. notified => notified'
        <4>1. CASE UNCHANGED vars \/ Tick
              BY <4>1 DEF vars, Tick, sleepVars
        <4>2. CASE \E other \in BOOLEAN : sol_quit(other)
              BY <4>2, Zenon DEF sol_quit
        <4>3. QED
              BY <2>4, <4>1, <4>2
      <3>3. QED
            BY <1>2, <3>1, <3>2 DEF SleepInv
    <2>5. CASE \E h \in Handles, other \in BOOLEAN :
                 sol_timeout_del(h, other) \/ \E ms \in Periods : sol_timeout_add(h, ms, other)
      <3>1. PICK h \in Handles, other \in BOOLEAN :
              sol_timeout_del(h, other) \/ \E ms \in Periods : sol_timeout_add(h, ms, other)
            BY <2>5
      <3>2. CASE sol_timeout_del(h, other)
            BY <1>2, <3>2, DelSleeps
      <3>3. CASE \E ms \in Periods : sol_timeout_add(h, ms, other)
            BY <1>2, <3>3, AddSleeps
      <3>4. QED
            BY <3>1, <3>2, <3>3
    <2>6. CASE \/ ProcessBegin \/ Skip \/ ScanDone \/ Call \/ ProcessEnd \/ WakeDue \/ WakeOther
               \/ ReturnTrue \/ ReturnFalse \/ sol_run \/ sol_mainloop_impl_shutdown
      <3>1. mpc' \notin {"first", "sleep"}
            BY <2>6 DEF ProcessBegin, Skip, ScanDone, Call, ProcessEnd, WakeDue, WakeOther, ReturnTrue,
               ReturnFalse, sol_run, sol_mainloop_impl_shutdown, MainGoes
      <3>2. QED
            BY <2>1, <3>1
    <2>7. QED
          BY <1>2, <2>2, <2>3, <2>4, <2>5, <2>6 DEF Next, Process, Callback
  <1>3. SleepInv => SleepsNotTooLong
        BY DEF SleepInv, SleepsNotTooLong, FirstIsAllocated
  <1>4. QED
        BY <1>1, <1>2, <1>3, TimeoutsInvariant, PTL DEF Spec

-----------------------------------------------------------------------------
(* The promise of the API.                                                 *)

\* The timeout whose callback is on the stack.
Running == IF mpc = "cb" THEN cur ELSE NoTimeout

\* The phases of the life of a timeout, by its status.
LEMMA Phases ==
  ASSUME NEW h \in Handles, tstatus \in [Handles -> Status]
  PROVE  /\ lifecycle_phase[h] = "live" <=> tstatus[h] = "live"
         /\ lifecycle_phase[h] = "dead" <=> tstatus[h] = "deleted"
         /\ lifecycle_phase[h] = "free" <=> tstatus[h] = "free"
  BY DEF lifecycle_phase, Status

\* The same, before and after a step.
LEMMA PhaseMap ==
  ASSUME tstatus \in [Handles -> Status], tstatus' \in [Handles -> Status]
  PROVE  /\ lifecycle_phase = [h \in Handles |-> IF tstatus[h] = "deleted" THEN "dead" ELSE tstatus[h]]
         /\ lifecycle_phase' = [h \in Handles |-> IF tstatus'[h] = "deleted" THEN "dead" ELSE tstatus'[h]]
  <1>1. \A h \in Handles : lifecycle_phase[h] = IF tstatus[h] = "deleted" THEN "dead" ELSE tstatus[h]
        BY DEF lifecycle_phase, Status
  <1>2. \A h \in Handles : lifecycle_phase'[h] = IF tstatus'[h] = "deleted" THEN "dead" ELSE tstatus'[h]
        BY DEF lifecycle_phase, Status
  <1>3. lifecycle_phase \in [Handles -> {"free", "live", "dead"}]
        BY DEF lifecycle_phase, Status
  <1>4. lifecycle_phase' \in [Handles -> {"free", "live", "dead"}]
        BY DEF lifecycle_phase, Status
  <1>5. QED
        BY <1>1, <1>2, <1>3, <1>4

\* A step that changes no status, and calls nothing, is not seen.
LEMMA Unseen ==
  ASSUME tstatus' = tstatus, Running' = Running
  PROVE  UNCHANGED Lifecycle!lifecycleVars
  BY DEF Lifecycle!lifecycleVars, lifecycle_phase, Running

\* sol_timeout_del() marks during a pass and frees at once otherwise.
LEMMA DelStep ==
  ASSUME IInv, NEW h \in Handles, NEW other \in BOOLEAN, sol_timeout_del(h, other)
  PROVE  Lifecycle!Del(h)
  <1>1. tstatus \in [Handles -> Status] /\ tstatus[h] = "live"
        BY Types DEF sol_timeout_del
  <1>2. Running' = Running
        BY DEF sol_timeout_del, passVars, Running, cur
  <1>3. PICK S \in SUBSET {h} :
          /\ Running \notin S
          /\ tstatus' = [k \in Handles |-> IF k \in S THEN "free"
                                           ELSE IF k = h THEN "deleted" ELSE tstatus[k]]
    <2>1. CASE timeout_processing
      <3>1. tstatus' = [tstatus EXCEPT ![h] = "deleted"]
            BY <2>1 DEF sol_timeout_del
      <3>2. tstatus' = [k \in Handles |-> IF k \in {} THEN "free"
                                          ELSE IF k = h THEN "deleted" ELSE tstatus[k]]
            BY <1>1, <3>1
      <3>3. {} \in SUBSET {h} /\ Running \notin {}
            OBVIOUS
      <3>4. QED
            BY <3>2, <3>3
    <2>2. CASE ~timeout_processing
      <3>1. tstatus' = [tstatus EXCEPT ![h] = "free"]
            BY <2>2, DelFrees
      <3>2. tstatus' = [k \in Handles |-> IF k \in {h} THEN "free"
                                          ELSE IF k = h THEN "deleted" ELSE tstatus[k]]
            BY <1>1, <3>1
      <3>3. Running \notin {h}
            BY <2>2, TimeoutsAssumption DEF IInv, PlaceInv, Passing, Running
      <3>4. QED
            BY <3>2, <3>3
    <2>3. QED
          BY <2>1, <2>2
  <1>4. S \in SUBSET {k \in Handles : lifecycle_phase[k] = "dead" \/ k = h}
        BY <1>3
  <1>5. lifecycle_phase' = [k \in Handles |-> IF k \in S THEN "free"
                                              ELSE IF k = h THEN "dead" ELSE lifecycle_phase[k]]
    <2>1. tstatus' \in [Handles -> Status]
          BY <1>1, <1>3 DEF Status
    <2>2. QED
          BY <1>1, <1>3, <2>1, PhaseMap
  <1>6. lifecycle_phase[h] = "live"
        BY <1>1, Phases
  <1>7. QED
        BY <1>2, <1>3, <1>4, <1>5, <1>6 DEF Lifecycle!Del, Running

\* The end of the pass frees what is marked, and nothing else.
LEMMA EndStep ==
  ASSUME IInv, ProcessEnd
  PROVE  [Lifecycle!LNext]_(Lifecycle!lifecycleVars)
  <1>1. tstatus' = [h \in Handles |-> IF tstatus[h] = "deleted" THEN "free" ELSE tstatus[h]]
        BY EndSweeps
  <1>2. tstatus \in [Handles -> Status]
        BY Types
  <1>3. Running = NoTimeout /\ Running' = NoTimeout
        BY DEF ProcessEnd, MainGoes, Running
  <1>4. CASE Deleted = {}
    <2>1. tstatus' = tstatus
          BY <1>1, <1>2, <1>4 DEF Deleted
    <2>2. QED
          BY <1>3, <2>1, Unseen
  <1>5. CASE Deleted # {}
    <2>1. \A h \in Deleted : lifecycle_phase[h] = "dead"
          BY <1>2, Phases DEF Deleted
    <2>2. lifecycle_phase' = [h \in Handles |-> IF h \in Deleted THEN "free" ELSE lifecycle_phase[h]]
      <3>1. tstatus' \in [Handles -> Status]
            BY <1>1, <1>2 DEF Status
      <3>2. QED
            BY <1>1, <1>2, <3>1, PhaseMap DEF Deleted
    <2>3. NoTimeout \notin Deleted /\ Deleted \in SUBSET Handles
          BY TimeoutsAssumption DEF Deleted
    <2>4. Lifecycle!Free(Deleted)
          BY <1>3, <1>5, <2>1, <2>2, <2>3 DEF Lifecycle!Free, Running
    <2>5. QED
          BY <2>3, <2>4 DEF Lifecycle!LNext
  <1>6. QED
        BY <1>4, <1>5

\* A callback is called on a live timeout, and returns before that is freed.
LEMMA CallStep ==
  ASSUME IInv, Call \/ ReturnTrue \/ ReturnFalse
  PROVE  [Lifecycle!LNext]_(Lifecycle!lifecycleVars)
  <1>1. tstatus \in [Handles -> Status]
        BY Types
  <1>2. CASE Call
    <2>1. i \in 1..Len(timeout_v_process)
      <3>1. i \in 1..(Len(timeout_v_process) + 1) /\ i <= Len(timeout_v_process)
            /\ Len(timeout_v_process) \in Nat
            BY <1>2, Types DEF Call, IInv, PlaceInv
      <3>2. QED
            BY <3>1
    <2>2. cur \in Handles
          BY <2>1, Types DEF cur
    <2>3. tstatus' = tstatus /\ tstatus[cur] = "live" /\ Running = NoTimeout /\ Running' = cur
          BY <1>2 DEF Call, MainGoes, entryVars, vectorVars, Running, cur
    <2>4. lifecycle_phase' = lifecycle_phase /\ lifecycle_phase[cur] = "live"
          BY <1>1, <2>2, <2>3, Phases DEF lifecycle_phase
    <2>5. Lifecycle!Start(cur)
          BY <2>3, <2>4 DEF Lifecycle!Start, Running
    <2>6. QED
          BY <2>2, <2>5 DEF Lifecycle!LNext
  <1>3. CASE ReturnTrue \/ ReturnFalse
    <2>1. mpc = "cb" /\ mpc' = "scan"
          BY <1>3 DEF ReturnTrue, ReturnFalse, MainGoes
    <2>2. cur \in Handles /\ cur # NoTimeout /\ tstatus[cur] \in {"live", "deleted"}
          BY <2>1, CurrentType
    <2>3. Running = cur /\ Running # NoTimeout /\ Running' = NoTimeout
          BY <2>1, <2>2 DEF Running
    <2>4. CASE ReturnTrue \/ tstatus[cur] = "deleted"
      <3>1. lifecycle_phase' = lifecycle_phase
        <4>1. tstatus' = tstatus
              BY <1>3, <2>4 DEF ReturnTrue, ReturnFalse
        <4>2. QED
              BY <4>1 DEF lifecycle_phase
      <3>2. Lifecycle!Finish(TRUE)
            BY <2>3, <3>1 DEF Lifecycle!Finish, Running
      <3>3. QED
            BY <3>2 DEF Lifecycle!LNext
    <2>5. CASE ~(ReturnTrue \/ tstatus[cur] = "deleted")
      <3>1. tstatus' = [tstatus EXCEPT ![cur] = "deleted"]
            BY <1>3, <2>5 DEF ReturnFalse
      <3>2. lifecycle_phase' = [lifecycle_phase EXCEPT ![cur] = "dead"]
        <4>1. tstatus' \in [Handles -> Status]
              BY <1>1, <3>1 DEF Status
        <4>2. QED
              BY <1>1, <2>2, <3>1, <4>1, PhaseMap
      <3>3. Lifecycle!Finish(FALSE)
            BY <2>3, <3>2 DEF Lifecycle!Finish, Running
      <3>4. QED
            BY <3>3 DEF Lifecycle!LNext
    <2>6. QED
          BY <2>4, <2>5
  <1>4. QED
        BY <1>2, <1>3

\* The timeouts keep what sol_timeout_add() and sol_timeout_del() promise, with
\* calls from every thread: every step of the pass, of its sweep and of the API is
\* a step of HandlerLifecycle, or is not seen by it.
THEOREM Refinement == Spec => ImplementsLifecycle
  <1>1. Init => Lifecycle!LInit
        BY DEF Init, Lifecycle!LInit, lifecycle_phase
  <1>2. ASSUME IInv, [Next]_vars
        PROVE  [Lifecycle!LNext]_(Lifecycle!lifecycleVars)
    <2>1. tstatus \in [Handles -> Status]
          BY <1>2, Types
    <2>2. CASE \/ UNCHANGED vars \/ ProcessBegin \/ Skip \/ ScanDone \/ TimeoutFirst \/ TimespecFirst
               \/ WakeDue \/ WakeOther \/ sol_run \/ Tick \/ \E other \in BOOLEAN : sol_quit(other)
      <3>1. tstatus' = tstatus /\ Running' = Running
            BY <2>2 DEF vars, ProcessBegin, Skip, ScanDone, TimeoutFirst, TimespecFirst, WakeDue,
               WakeOther, sol_run, Tick, sol_quit, MainGoes, entryVars, vectorVars, passVars, Running, cur
      <3>2. QED
            BY <3>1, Unseen
    <2>3. CASE Call \/ ReturnTrue \/ ReturnFalse
          BY <1>2, <2>3, CallStep
    <2>4. CASE ProcessEnd
          BY <1>2, <2>4, EndStep
    <2>5. CASE \E h \in Handles, other \in BOOLEAN :
                 sol_timeout_del(h, other) \/ \E ms \in Periods : sol_timeout_add(h, ms, other)
      <3>1. PICK h \in Handles, other \in BOOLEAN :
              sol_timeout_del(h, other) \/ \E ms \in Periods : sol_timeout_add(h, ms, other)
            BY <2>5
      <3>2. CASE \E ms \in Periods : sol_timeout_add(h, ms, other)
        <4>1. /\ tstatus[h] = "free" /\ tstatus' = [tstatus EXCEPT ![h] = "live"]
              /\ Running' = Running
              BY <3>2 DEF sol_timeout_add, passVars, Running, cur
        <4>2. lifecycle_phase' = [lifecycle_phase EXCEPT ![h] = "live"]
          <5>1. tstatus' \in [Handles -> Status]
                BY <2>1, <4>1 DEF Status
          <5>2. QED
                BY <2>1, <4>1, <5>1, PhaseMap
        <4>3. Lifecycle!Add(h)
              BY <2>1, <4>1, <4>2, Phases DEF Lifecycle!Add, Running
        <4>4. QED
              BY <4>3 DEF Lifecycle!LNext
      <3>3. CASE sol_timeout_del(h, other)
        <4>1. Lifecycle!Del(h)
              BY <1>2, <3>3, DelStep
        <4>2. QED
              BY <4>1 DEF Lifecycle!LNext
      <3>4. QED
            BY <3>1, <3>2, <3>3
    <2>6. CASE sol_mainloop_impl_shutdown
      <3>1. tstatus' = [h \in Handles |-> "free"] /\ Running = NoTimeout /\ Running' = NoTimeout
            BY <2>6 DEF sol_mainloop_impl_shutdown, Running
      <3>2. lifecycle_phase' = [h \in Handles |-> "free"]
            BY <3>1 DEF lifecycle_phase
      <3>3. Lifecycle!Shutdown
            BY <3>1, <3>2 DEF Lifecycle!Shutdown, Running
      <3>4. QED
            BY <3>3 DEF Lifecycle!LNext
    <2>7. QED
          BY <1>2, <2>2, <2>3, <2>4, <2>5, <2>6 DEF Next, Process, Callback
  <1>3. QED
        BY <1>1, <1>2, TimeoutsInvariant, PTL DEF Spec, ImplementsLifecycle, Lifecycle!LSpec

-----------------------------------------------------------------------------
(* A client of one sorted vector, with any keys: what the timeouts rely on *)
(* holds of the vector whatever is inserted, moved and deleted.  The       *)
(* lemmas about the operations themselves are in VectorProofs.             *)

\* The vector is sorted and has no entry twice, and what the last operation
\* touched is the last of its key.
ClientInv ==
  /\ vector \in Seq(Elems) /\ key_of \in [Elems -> Keys] /\ touched \in SUBSET Elems
  /\ Distinct(vector) /\ SortedBy(vector, key_of)
  /\ \A m \in 1..Len(vector) : vector[m] \in touched => LastOfItsKey(vector, key_of, m)

\* Keys are integers.
LEMMA KeysAreIntegers == Keys \subseteq Int /\ \A f : f \in [Elems -> Keys] => f \in [Elems -> Int]
  BY SortedVectorAssumption DEF Keys

\* A vector is a function on its indices.
LEMMA Indices ==
  ASSUME NEW q \in Seq(Elems)
  PROVE  /\ DOMAIN q = 1..Len(q) /\ Len(q) \in Nat
         /\ \A j \in 1..Len(q) : q[j] \in Elems
         /\ \A x : x \in Range(q) <=> In(x, q)
  <1>1. DOMAIN q = 1..Len(q) /\ Len(q) \in Nat /\ \A j \in 1..Len(q) : q[j] \in Elems
        BY LenProperties, ElementOfSeq
  <1>2. QED
        BY <1>1 DEF Range, In

\* The keys of other elements do not matter.
LEMMA SameKeysSorted ==
  ASSUME NEW q \in Seq(Elems), NEW f, NEW g, \A j \in 1..Len(q) : f[q[j]] = g[q[j]], SortedBy(q, f)
  PROVE  SortedBy(q, g)
  BY Indices DEF SortedBy

\* The steps that put one element in its place.
Touches(q, x) ==
  /\ vector' \in Seq(Elems) /\ Distinct(q) /\ ~In(x, q) /\ x \in Elems
  /\ touched' = {x} /\ key_of' \in [Elems -> Keys]
  /\ \E m \in 1..Len(vector') :
       PutIn(vector', q, m, x) /\ SortedBy(vector', key_of') /\ LastOfItsKey(vector', key_of', m)

\* An insertion puts its element into the vector.
LEMMA InsertTouches ==
  ASSUME ClientInv, NEW x \in Elems, NEW k \in Keys, InsertSorted(x, k)
  PROVE  Touches(vector, x)
  <1>1. key_of' = [key_of EXCEPT ![x] = k] /\ touched' = {x} /\ ~In(x, vector)
        BY Indices DEF ClientInv, InsertSorted
  <1>2. key_of' \in [Elems -> Keys] /\ key_of' \in [Elems -> Int]
        BY <1>1, KeysAreIntegers DEF ClientInv
  <1>3. \A j \in 1..Len(vector) : key_of[vector[j]] = key_of'[vector[j]]
        BY <1>1, Indices DEF ClientInv, In
  <1>4. SortedBy(vector, key_of')
    <2> DEFINE f == key_of
               g == key_of'
    <2>1. vector \in Seq(Elems) /\ SortedBy(vector, f)
          BY DEF ClientInv
    <2>2. \A j \in 1..Len(vector) : f[vector[j]] = g[vector[j]]
          BY <1>3
    <2> HIDE DEF f, g
    <2>3. SortedBy(vector, g)
          BY <2>1, <2>2, SameKeysSorted
    <2>4. QED
          BY <2>3 DEF g
  <1>5. PICK m \in 1..(Len(vector) + 1) :
          /\ vector' \in Seq(Elems) /\ PutIn(vector', vector, m, x)
          /\ SortedBy(vector', key_of') /\ LastOfItsKey(vector', key_of', m)
    <2>1. vector \in Seq(Elems) /\ vector' = sol_ptr_vector_insert_sorted(vector, key_of', x)
          BY DEF ClientInv, InsertSorted
    <2> DEFINE h == key_of'
    <2>2. h \in [Elems -> Int] /\ SortedBy(vector, h)
          BY <1>2, <1>4
    <2> HIDE DEF h
    <2>3. \E m \in 1..(Len(vector) + 1) : LET r == sol_ptr_vector_insert_sorted(vector, h, x) IN
            r \in Seq(Elems) /\ PutIn(r, vector, m, x) /\ SortedBy(r, h) /\ LastOfItsKey(r, h, m)
          BY <2>1, <2>2, InsertedSorted
    <2>4. QED
          BY <2>1, <2>3 DEF h
  <1>6. m \in 1..Len(vector')
        BY <1>5 DEF PutIn
  <1>7. QED
        BY <1>1, <1>2, <1>5, <1>6 DEF Touches, ClientInv

\* An update takes its element out of the vector and puts it in again.
LEMMA UpdateTouches ==
  ASSUME ClientInv, NEW at \in DOMAIN vector, NEW k \in Keys, UpdateSorted(at, k)
  PROVE  /\ Touches(RemoveAt(vector, at), vector[at])
         /\ RemoveAt(vector, at) \in Seq(Elems) /\ PutIn(vector, RemoveAt(vector, at), at, vector[at])
  <1> DEFINE q == RemoveAt(vector, at)
             x == vector[at]
  <1>1. /\ vector \in Seq(Elems) /\ at \in 1..Len(vector) /\ x \in Elems
        /\ Distinct(vector) /\ SortedBy(vector, key_of)
        BY Indices DEF ClientInv
  <1>2. /\ key_of' = [key_of EXCEPT ![x] = k] /\ touched' = {x}
        /\ vector' = sol_ptr_vector_update_sorted(vector, key_of', at).v
        BY DEF UpdateSorted
  <1>3. q \in Seq(Elems) /\ PutIn(vector, q, at, x)
        BY <1>1, RemovedAt
  <1> HIDE DEF q, x
  <1>4. Distinct(q) /\ ~In(x, q)
        BY <1>1, <1>3, PutInEntries
  <1>5. SortedBy(q, key_of)
        BY <1>1, <1>3, RestIsSorted
  <1>6. key_of' \in [Elems -> Keys] /\ key_of' \in [Elems -> Int]
        BY <1>1, <1>2, KeysAreIntegers DEF ClientInv
  <1>7. \A j \in 1..Len(q) : key_of[q[j]] = key_of'[q[j]]
        BY <1>1, <1>2, <1>3, <1>4, Indices DEF ClientInv, In
  <1>8. SortedBy(q, key_of')
        BY <1>3, <1>5, <1>7, SameKeysSorted
  <1> DEFINE h == key_of'
             u == sol_ptr_vector_update_sorted(vector, h, at)
  <1>9. h \in [Elems -> Int] /\ SortedBy(RemoveAt(vector, at), h)
        BY <1>6, <1>8 DEF q
  <1> HIDE DEF h
  <1>10. /\ u.v \in Seq(Elems) /\ Len(u.v) = Len(vector) /\ u.index \in 1..Len(vector)
         /\ PutIn(u.v, RemoveAt(vector, at), u.index, vector[at])
         /\ SortedBy(u.v, h) /\ LastOfItsKey(u.v, h, u.index)
        BY <1>1, <1>9, UpdatedSorted
  <1>11. vector' = u.v
        BY <1>2 DEF h
  <1> HIDE DEF u
  <1>12. QED
        BY <1>1, <1>2, <1>3, <1>4, <1>6, <1>10, <1>11 DEF Touches, h, q, x

\* The steps that delete keep some entries.
Deletes ==
  /\ vector' \in Seq(Elems) /\ touched' = {} /\ key_of' = key_of
  /\ \E S : Selects(vector', vector, S, Len(vector))

\* Deleting a range, or an element, is such a step.
LEMMA DeletionDeletes ==
  ASSUME ClientInv,
         \/ \E start \in DOMAIN vector, len \in 1..Cardinality(Elems) : DelRange(start, len)
         \/ \E x \in Elems : DelElement(x)
  PROVE  Deletes
  <1>1. vector \in Seq(Elems) /\ DOMAIN vector = 1..Len(vector)
        BY Indices DEF ClientInv
  <1>2. CASE \E start \in DOMAIN vector, len \in 1..Cardinality(Elems) : DelRange(start, len)
    <2>1. PICK start \in DOMAIN vector, len \in 1..Cardinality(Elems) : DelRange(start, len)
          BY <1>2
    <2>2. start \in 1..Len(vector) /\ len \in Nat
          BY <1>1, SortedVectorAssumption, FS_CardinalityType
    <2>3. vector' = sol_vector_del_range(vector, start, len) /\ touched' = {} /\ key_of' = key_of
          BY <2>1 DEF DelRange
    <2>4. QED
          BY <1>1, <2>2, <2>3, RangeDeleted DEF Deletes
  <1>3. CASE \E x \in Elems : DelElement(x)
    <2>1. PICK x \in Elems : DelElement(x)
          BY <1>3
    <2>2. PICK S : vector' = Kept(vector, S) /\ touched' = {} /\ key_of' = key_of
          BY <2>1 DEF DelElement, sol_ptr_vector_del_element
    <2>3. QED
          BY <1>1, <2>2, KeptProperties DEF Deletes
  <1>4. QED
        BY <1>2, <1>3

\* Every step touches one element, in or out of the vector, or deletes.
LEMMA StepCases ==
  ASSUME ClientInv, VectorNext
  PROVE  \/ \E x \in Elems : Touches(vector, x)
         \/ \E q \in Seq(Elems), at \in 1..Len(vector), x \in Elems : Touches(q, x) /\ PutIn(vector, q, at, x)
         \/ Deletes
  <1>1. CASE \E x \in Elems, k \in Keys : InsertSorted(x, k)
        BY <1>1, InsertTouches
  <1>2. CASE \E at \in DOMAIN vector, k \in Keys : UpdateSorted(at, k)
    <2>1. PICK at \in DOMAIN vector, k \in Keys : UpdateSorted(at, k)
          BY <1>2
    <2>2. at \in 1..Len(vector) /\ vector[at] \in Elems
          BY Indices DEF ClientInv
    <2>3. QED
          BY <2>1, <2>2, UpdateTouches
  <1>3. QED
        BY <1>1, <1>2, DeletionDeletes DEF VectorNext

\* The invariant of a sorted vector.
THEOREM SortedVectorInvariant == VectorSpec => []ClientInv
  <1>1. VectorInit => ClientInv
    <2> SUFFICES ASSUME VectorInit PROVE ClientInv
        OBVIOUS
    <2>1. vector = <<>> /\ key_of = [x \in Elems |-> 0] /\ touched = {}
          BY DEF VectorInit
    <2>2. vector \in Seq(Elems) /\ Len(vector) = 0 /\ DOMAIN vector = {}
          BY <2>1, EmptySeq
    <2>3. 1..Len(vector) = {}
          BY <2>2
    <2>4. key_of \in [Elems -> Keys]
          BY <2>1, SortedVectorAssumption DEF Keys
    <2>5. QED
          BY <2>1, <2>2, <2>3, <2>4 DEF ClientInv, Distinct, SortedBy
  <1>2. ASSUME ClientInv, [VectorNext]_clientVars PROVE ClientInv'
    <2>1. ASSUME NEW q \in Seq(Elems), NEW x \in Elems, Touches(q, x) PROVE ClientInv'
      <3>1. PICK m \in 1..Len(vector') :
              PutIn(vector', q, m, x) /\ SortedBy(vector', key_of') /\ LastOfItsKey(vector', key_of', m)
            BY <2>1 DEF Touches
      <3>2. vector' \in Seq(Elems) /\ key_of' \in [Elems -> Keys] /\ touched' = {x} /\ Distinct(q) /\ ~In(x, q)
            BY <2>1 DEF Touches
      <3>3. Distinct(vector')
            BY <3>1, <3>2, PutInEntries
      <3>4. \A l \in 1..Len(vector') : vector'[l] \in touched' => l = m
            BY <3>1, <3>2, <3>3 DEF Distinct, PutIn
      <3>5. QED
            BY <3>1, <3>2, <3>3, <3>4 DEF ClientInv
    <2>2. CASE Deletes
      <3>1. PICK S : Selects(vector', vector, S, Len(vector))
            BY <2>2 DEF Deletes
      <3>2. vector \in Seq(Elems) /\ vector' \in Seq(Elems) /\ touched' = {} /\ key_of' = key_of
            BY <1>2, <2>2 DEF Deletes, ClientInv
      <3>3. Distinct(vector')
            BY <1>2, <3>1, <3>2, KeptEntries DEF ClientInv
      <3>4. SortedBy(vector', key_of')
            BY <1>2, <3>1, <3>2, SelectedSorted DEF ClientInv
      <3>5. QED
            BY <1>2, <3>2, <3>3, <3>4 DEF ClientInv
    <2>3. CASE UNCHANGED clientVars
          BY <1>2, <2>3 DEF clientVars, ClientInv
    <2>4. vector \in Seq(Elems)
          BY <1>2 DEF ClientInv
    <2>5. QED
          BY <1>2, <2>1, <2>2, <2>3, <2>4, StepCases
  <1>3. QED
        BY <1>1, <1>2, PTL DEF VectorSpec

\* The vector stays sorted and without duplicates, whatever is inserted, moved
\* and deleted: the binary search, the walk over equal keys and the memmove() of
\* an update fit together; and match_sorted() finds exactly the keys there are.
THEOREM ClientSorted == VectorSpec => []StaysSorted
  <1>1. ClientInv => StaysSorted
    <2> SUFFICES ASSUME ClientInv PROVE StaysSorted
        OBVIOUS
    <2>1. /\ vector \in Seq(Elems) /\ DOMAIN vector = 1..Len(vector)
          /\ SortedBy(vector, key_of) /\ key_of \in [Elems -> Int]
          BY Indices, KeysAreIntegers DEF ClientInv
    <2>2. IsInjective(vector)
          BY <2>1 DEF ClientInv, Distinct, IsInjective
    <2>3. MatchFinds
      <3> SUFFICES ASSUME NEW k \in Keys
                   PROVE  LET at == sol_ptr_vector_match_sorted(vector, key_of, k)
                          IN  IF \E j \in DOMAIN vector : key_of[vector[j]] = k
                              THEN at \in DOMAIN vector /\ key_of[vector[at]] = k
                              ELSE at = 0
          BY DEF MatchFinds
      <3>1. k \in Int
            BY KeysAreIntegers
      <3>2. LET at == sol_ptr_vector_match_sorted(vector, key_of, k) IN
            /\ (\E j \in 1..Len(vector) : key_of[vector[j]] = k) => at \in 1..Len(vector) /\ key_of[vector[at]] = k
            /\ ~(\E j \in 1..Len(vector) : key_of[vector[j]] = k) => at = 0
            BY <2>1, <3>1, MatchedSorted
      <3>3. QED
            BY <2>1, <3>2
    <2>4. QED
          BY <2>1, <2>2, <2>3 DEF StaysSorted
  <1>2. QED
        BY <1>1, SortedVectorInvariant, PTL

\* What was inserted or moved last comes behind all entries with the same key:
\* timeouts that expire together run in the order in which they were armed.
THEOREM TouchedAlwaysLast == VectorSpec => []TouchedIsLastOfItsKey
  <1>1. ClientInv => TouchedIsLastOfItsKey
    <2>1. ClientInv => DOMAIN vector = 1..Len(vector)
          BY Indices DEF ClientInv
    <2>2. QED
          BY <2>1 DEF ClientInv, TouchedIsLastOfItsKey, LastOfItsKey
  <1>2. QED
        BY <1>1, SortedVectorInvariant, PTL

-----------------------------------------------------------------------------
(* The order of the others.                                                *)

\* Putting an element in or taking it out does not change the order of others.
LEMMA OrderPutIn ==
  ASSUME NEW q \in Seq(Elems), NEW r \in Seq(Elems), NEW m, NEW z, PutIn(r, q, m, z),
         NEW x, NEW y, x # z, y # z
  PROVE  Before(r, x, y) <=> Before(q, x, y)
  <1>1. /\ Len(q) \in Nat /\ Len(r) = Len(q) + 1 /\ m \in 1..(Len(q) + 1) /\ r[m] = z
        /\ DOMAIN q = 1..Len(q) /\ DOMAIN r = 1..Len(r)
        /\ \A j \in 1..Len(q) : r[Shifted(j, m)] = q[j]
        BY Indices DEF PutIn
  <1>2. /\ \A j \in 1..Len(q) : Shifted(j, m) \in 1..Len(r)
        /\ \A j, l \in 1..Len(q) : j < l <=> Shifted(j, m) < Shifted(l, m)
        /\ \A k \in 1..Len(r) : k # m => \E j \in 1..Len(q) : Shifted(j, m) = k
    <2>1. Len(q) \in Nat /\ m \in 1..(Len(q) + 1)
          BY <1>1
    <2>2. /\ \A j \in 1..Len(q) : Shifted(j, m) \in 1..(Len(q) + 1) /\ Shifted(j, m) # m
          /\ \A j, l \in 1..Len(q) : j < l <=> Shifted(j, m) < Shifted(l, m)
          /\ \A j \in 1..Len(q) : (j < m <=> Shifted(j, m) < m)
          /\ \A k \in 1..(Len(q) + 1) : k # m => \E j \in 1..Len(q) : Shifted(j, m) = k
          BY <2>1, ShiftedPlaces
    <2>3. QED
          BY <1>1, <2>2
  <1>3. ASSUME Before(r, x, y) PROVE Before(q, x, y)
    <2>1. PICK a \in 1..Len(r), b \in 1..Len(r) : a < b /\ r[a] = x /\ r[b] = y
          BY <1>1, <1>3 DEF Before
    <2>2. PICK j \in 1..Len(q) : Shifted(j, m) = a
          BY <1>1, <1>2, <2>1
    <2>3. PICK l \in 1..Len(q) : Shifted(l, m) = b
          BY <1>1, <1>2, <2>1
    <2>4. j < l /\ q[j] = x /\ q[l] = y
          BY <1>1, <1>2, <2>1, <2>2, <2>3
    <2>5. QED
          BY <1>1, <2>4 DEF Before
  <1>4. ASSUME Before(q, x, y) PROVE Before(r, x, y)
    <2>1. PICK j \in 1..Len(q), l \in 1..Len(q) : j < l /\ q[j] = x /\ q[l] = y
          BY <1>1, <1>4 DEF Before
    <2>2. /\ Shifted(j, m) \in 1..Len(r) /\ Shifted(l, m) \in 1..Len(r)
          /\ Shifted(j, m) < Shifted(l, m) /\ r[Shifted(j, m)] = x /\ r[Shifted(l, m)] = y
          BY <1>1, <1>2, <2>1
    <2>3. QED
          BY <1>1, <2>2 DEF Before
  <1>5. QED
        BY <1>3, <1>4

\* A deletion does not change the order of what is left.
LEMMA OrderSelected ==
  ASSUME NEW q \in Seq(Elems), NEW r \in Seq(Elems), Distinct(q), NEW S, Selects(r, q, S, Len(q)),
         NEW x, NEW y, In(x, r), In(y, r)
  PROVE  Before(r, x, y) <=> Before(q, x, y)
  <1>1. PICK place \in [1..Len(r) -> S \cap (1..Len(q))] :
              /\ \A j \in 1..Len(r) : r[j] = q[place[j]]
              /\ \A j, k \in 1..Len(r) : j < k => place[j] < place[k]
        BY DEF Selects
  <1>2. /\ DOMAIN q = 1..Len(q) /\ DOMAIN r = 1..Len(r) /\ Len(q) \in Nat /\ Len(r) \in Nat
        BY Indices
  <1>3. \A j \in 1..Len(r) : place[j] \in 1..Len(q)
        BY <1>1
  <1>4. ASSUME Before(r, x, y) PROVE Before(q, x, y)
        BY <1>1, <1>2, <1>3, <1>4 DEF Before
  <1>5. ASSUME Before(q, x, y) PROVE Before(r, x, y)
    <2>1. PICK j \in 1..Len(q), l \in 1..Len(q) : j < l /\ q[j] = x /\ q[l] = y
          BY <1>2, <1>5 DEF Before
    <2>2. PICK a \in 1..Len(r) : r[a] = x
          BY DEF In
    <2>3. PICK b \in 1..Len(r) : r[b] = y
          BY DEF In
    <2>4. place[a] = j /\ place[b] = l
      <3>1. place[a] \in 1..Len(q) /\ q[place[a]] = x
            BY <1>1, <1>3, <2>2
      <3>2. place[b] \in 1..Len(q) /\ q[place[b]] = y
            BY <1>1, <1>3, <2>3
      <3>3. QED
            BY <2>1, <3>1, <3>2 DEF Distinct
    <2>5. a < b
      <3>1. CASE a = b
            BY <1>2, <2>1, <2>4, <3>1
      <3>2. CASE b < a
        <4>1. place[b] < place[a]
              BY <1>1, <3>2
        <4>2. QED
              BY <1>2, <2>1, <2>4, <4>1
      <3>3. QED
            BY <1>2, <3>1, <3>2
    <2>6. QED
          BY <1>2, <2>2, <2>3, <2>5 DEF Before
  <1>6. QED
        BY <1>4, <1>5

\* Nothing but the element that is inserted or updated changes its place among
\* the others, and no insertion or update loses or doubles an element.
THEOREM OrderIsKept == VectorSpec => OthersKeepTheirOrder
  <1> DEFINE A == /\ touched' # {} => Range(vector') = Range(vector) \cup touched'
                  /\ \A x, y \in Range(vector') \ touched' : Before(vector', x, y) <=> Before(vector, x, y)
  <1>1. ASSUME ClientInv, ClientInv', [VectorNext]_clientVars PROVE [A]_clientVars
    <2>1. vector \in Seq(Elems) /\ vector' \in Seq(Elems) /\ Distinct(vector)
          BY <1>1 DEF ClientInv
    <2>2. \A x : (x \in Range(vector) <=> In(x, vector)) /\ (x \in Range(vector') <=> In(x, vector'))
          BY <2>1, Indices
    <2>3. ASSUME NEW z \in Elems, Touches(vector, z) PROVE A
      <3>1. PICK m \in 1..Len(vector') : PutIn(vector', vector, m, z)
            BY <2>3 DEF Touches
      <3>2. touched' = {z}
            BY <2>3 DEF Touches
      <3>3. \A x : In(x, vector') <=> In(x, vector) \/ x = z
            BY <2>1, <3>1, PutInEntries
      <3>4. Range(vector') = Range(vector) \cup touched'
            BY <2>2, <3>2, <3>3
      <3>5. \A x, y : x # z /\ y # z => (Before(vector', x, y) <=> Before(vector, x, y))
            BY <2>1, <3>1, OrderPutIn
      <3>6. QED
            BY <3>2, <3>4, <3>5
    <2>4. ASSUME NEW q \in Seq(Elems), NEW at \in 1..Len(vector), NEW z \in Elems,
                 Touches(q, z), PutIn(vector, q, at, z)
          PROVE  A
      <3>1. PICK m \in 1..Len(vector') : PutIn(vector', q, m, z)
            BY <2>4 DEF Touches
      <3>2. touched' = {z}
            BY <2>4 DEF Touches
      <3>3. (\A x : In(x, vector') <=> In(x, q) \/ x = z) /\ (\A x : In(x, vector) <=> In(x, q) \/ x = z)
            BY <2>1, <2>4, <3>1, PutInEntries
      <3>4. Range(vector') = Range(vector) \cup touched'
            BY <2>2, <3>2, <3>3
      <3>5. \A x, y : x # z /\ y # z => (Before(vector', x, y) <=> Before(q, x, y))
            BY <2>1, <3>1, OrderPutIn
      <3>6. \A x, y : x # z /\ y # z => (Before(vector, x, y) <=> Before(q, x, y))
            BY <2>1, <2>4, OrderPutIn
      <3>7. QED
            BY <3>2, <3>4, <3>5, <3>6
    <2>5. CASE Deletes
      <3>1. PICK S : Selects(vector', vector, S, Len(vector))
            BY <2>5 DEF Deletes
      <3>2. \A x, y : In(x, vector') /\ In(y, vector') => (Before(vector', x, y) <=> Before(vector, x, y))
            BY <2>1, <3>1, OrderSelected
      <3>3. QED
            BY <2>2, <2>5, <3>2 DEF Deletes
    <2> HIDE DEF A
    <2>6. CASE UNCHANGED clientVars
          BY <2>6
    <2>7. CASE VectorNext
          BY <1>1, <2>3, <2>4, <2>5, <2>7, StepCases
    <2>8. QED
          BY <1>1, <2>6, <2>7
  <1>2. QED
        BY <1>1, SortedVectorInvariant, PTL DEF VectorSpec, OthersKeepTheirOrder
=============================================================================
