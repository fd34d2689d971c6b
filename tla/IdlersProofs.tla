---------------------------- MODULE IdlersProofs ----------------------------
(***************************************************************************)
(* The idlers are memory-safe for any finite set of idlers, whoever        *)
(* deletes them: no vector and no walk holds a freed idler, everything     *)
(* allocated is linked, and the sweep never stops short of a marked idler. *)
(*                                                                         *)
(* The three depend on one another.  idler_cleanup() stops when its count  *)
(* is used up, so that it empties a vector of marked idlers only if the    *)
(* count covers them (PendingCoversDeleted) and if no idler is counted as  *)
(* coming before itself (OrderInv); a sweep outside a pass reaches all of  *)
(* them only if nothing is left in the stolen vector (PassInv).            *)
(***************************************************************************)
EXTENDS Idlers, FiniteSetTheorems, TLAPS

\* An idler is linked once.
OrderInv == \A h \in Idles : <<h, h>> \notin before

\* The vector is stolen, and an idler visited, only during a pass.
PassInv ==
  /\ idler_processing <=> mpc \notin {"outside", "shutdown"}
  /\ ~idler_processing => idler_v_process = {}
  /\ cur # NoIdle <=> mpc \in {"awaken", "settle_awaken", "cb"}

IInv == TypeOK /\ NoDanglingIdler /\ PendingCoversDeleted /\ OrderInv /\ PassInv

\* With deletions on the main thread only: the idler that is about to be made
\* ready is still the one that was found waiting.
WaitingInv == mpc \in {"awaken", "settle_awaken"} => status[cur] = "next"

-----------------------------------------------------------------------------

\* Sets of idlers can be counted, and a subset has no more elements.
LEMMA Countable ==
  ASSUME NEW S \in SUBSET Idles
  PROVE  /\ IsFiniteSet(S) /\ Cardinality(S) \in Nat
         /\ \A T \in SUBSET S : IsFiniteSet(T) /\ Cardinality(T) \in Nat
                                  /\ Cardinality(T) <= Cardinality(S)
  <1>1. IsFiniteSet(S)
        BY IdlersAssumption, FS_Subset
  <1>2. QED
        BY <1>1, FS_Subset, FS_CardinalityType

\* idler_cleanup() called with a count that covers the marked idlers of the
\* vector takes out and frees exactly these.
LEMMA Sweep ==
  ASSUME NEW v \in SUBSET Idles, NEW order \in SUBSET (Idles \X Idles),
         NEW st \in [Idles -> Status], NEW n \in Nat,
         \A h \in Idles : <<h, h>> \notin order,
         Cardinality({h \in v : st[h] = "deleted"}) <= n,
         idler_cleanup(v, order, st, n)
  PROVE  LET marked == {h \in v : st[h] = "deleted"} IN
         /\ idler_vector' = v \ marked
         /\ before' \subseteq order
         /\ status' = [h \in Idles |-> IF h \in marked THEN "free" ELSE st[h]]
         /\ idler_pending_deletion' \in Nat
  <1> DEFINE marked == {h \in v : st[h] = "deleted"}
             After(h) == {k \in marked : <<h, k>> \in order}
             victims == {h \in marked : Cardinality(After(h)) < n}
  <1>1. Cardinality(marked) \in Nat /\ IsFiniteSet(marked)
        BY Countable
  <1>2. ASSUME NEW h \in marked PROVE Cardinality(After(h)) < n
    <2>1. After(h) \subseteq marked \ {h}
          OBVIOUS
    <2>2. /\ IsFiniteSet(marked \ {h})
          /\ Cardinality(marked \ {h}) = Cardinality(marked) - 1
          BY <1>1, <1>2, FS_RemoveElement
    <2>3. Cardinality(After(h)) \in Nat /\ Cardinality(After(h)) <= Cardinality(marked \ {h})
          BY <2>1, <2>2, FS_Subset, FS_CardinalityType
    <2>4. QED
          BY <1>1, <2>2, <2>3
  <1>3. victims = marked
        BY <1>2
  <1>4. /\ idler_vector' = v \ victims
        /\ before' = {p \in order : p[1] \notin victims /\ p[2] \notin victims}
        /\ status' = [h \in Idles |-> IF h \in victims THEN "free" ELSE st[h]]
        /\ idler_pending_deletion' = n - Cardinality(victims)
        BY DEF idler_cleanup
  <1>5. Cardinality(marked) <= n
        OBVIOUS
  <1> HIDE DEF victims, marked
  <1>6. idler_pending_deletion' \in Nat /\ before' \subseteq order
        BY <1>1, <1>3, <1>4, <1>5
  <1>7. QED
        BY <1>3, <1>4, <1>6 DEF marked

-----------------------------------------------------------------------------

LEMMA InitIInv == Init => IInv
  <1> SUFFICES ASSUME Init PROVE IInv
      OBVIOUS
  <1>1. Deleted = {} /\ {h \in Idles : status[h] # "free"} = {}
        BY DEF Init, Deleted
  <1>2. PendingCoversDeleted
        BY <1>1, FS_EmptySet DEF Init, PendingCoversDeleted
  <1>3. QED
        BY <1>1, <1>2 DEF Init, IInv, TypeOK, Status, NoDanglingIdler, OrderInv, PassInv

\* A step that frees nothing and marks no idler keeps the count ahead.
LEMMA CountKept ==
  ASSUME TypeOK, PendingCoversDeleted,
         idler_pending_deletion' = idler_pending_deletion,
         Deleted' \subseteq Deleted
  PROVE  PendingCoversDeleted'
  <1>1. Deleted \in SUBSET Idles
        BY DEF Deleted
  <1>2. /\ Cardinality(Deleted) \in Nat /\ Cardinality(Deleted') \in Nat
        /\ Cardinality(Deleted') <= Cardinality(Deleted)
        BY <1>1, Countable
  <1>3. QED
        BY <1>2 DEF PendingCoversDeleted, TypeOK

\* A step that marks one idler and counts it keeps the count ahead.
LEMMA CountAdded ==
  ASSUME TypeOK, PendingCoversDeleted, NEW h \in Idles,
         idler_pending_deletion' = idler_pending_deletion + 1,
         Deleted' \subseteq Deleted \cup {h}
  PROVE  PendingCoversDeleted'
  <1>1. Deleted \in SUBSET Idles /\ Deleted \cup {h} \in SUBSET Idles
        BY DEF Deleted
  <1>2. Cardinality(Deleted \cup {h}) <= Cardinality(Deleted) + 1
        BY <1>1, Countable, FS_AddElement
  <1>3. /\ Cardinality(Deleted) \in Nat
        /\ Cardinality(Deleted \cup {h}) \in Nat /\ Cardinality(Deleted') \in Nat
        /\ Cardinality(Deleted') <= Cardinality(Deleted \cup {h})
        BY <1>1, Countable
  <1>4. QED
        BY <1>2, <1>3 DEF PendingCoversDeleted, TypeOK

-----------------------------------------------------------------------------
(* The steps that link, mark or free.                                      *)

LEMMA AddPreserves ==
  ASSUME IInv, NEW h \in Idles, sol_idle_add(h)
  PROVE  IInv'
  <1> USE DEF IInv
  <1>1. TypeOK' /\ PassInv'
        BY DEF sol_idle_add, countVars, TypeOK, Status, PassInv
  <1>2. NoDanglingIdler'
        BY DEF sol_idle_add, TypeOK, NoDanglingIdler
  <1>3. OrderInv'
    <2>1. h \notin idler_vector
          BY DEF sol_idle_add, NoDanglingIdler
    <2>2. QED
          BY <2>1 DEF sol_idle_add, OrderInv
  <1>4. PendingCoversDeleted'
    <2>1. Deleted' \subseteq Deleted
          BY DEF sol_idle_add, Deleted, TypeOK
    <2>2. QED
          BY <2>1, CountKept DEF sol_idle_add, countVars
  <1>5. QED
        BY <1>1, <1>2, <1>3, <1>4

\* Every marked idler is in the vector once nothing is stolen.
LEMMA DelPreserves ==
  ASSUME IInv, NEW h \in Idles, sol_idle_del(h)
  PROVE  IInv'
  <1> USE DEF IInv
  <1> DEFINE marked == [status EXCEPT ![h] = "deleted"]
  <1>1. marked \in [Idles -> Status] /\ h \in idler_vector \cup idler_v_process
        BY DEF sol_idle_del, TypeOK, Status, NoDanglingIdler
  <1>2. CASE idler_processing
    <2>1. /\ status' = marked
          /\ idler_pending_deletion' = idler_pending_deletion + 1
          /\ UNCHANGED <<idler_vector, before, idler_v_process, idler_processing,
                         run_loop, mpc, todo, cur>>
          BY <1>2 DEF sol_idle_del
    <2>2. TypeOK' /\ OrderInv' /\ PassInv'
          BY <1>1, <2>1 DEF TypeOK, OrderInv, PassInv
    <2>3. NoDanglingIdler'
          BY <1>1, <2>1 DEF sol_idle_del, TypeOK, NoDanglingIdler
    <2>4. Deleted' \subseteq Deleted \cup {h}
          BY <2>1 DEF Deleted, TypeOK
    <2>5. PendingCoversDeleted'
          BY <2>1, <2>4, CountAdded
    <2>6. QED
          BY <2>2, <2>3, <2>5
  <1>3. CASE ~idler_processing
    <2>1. /\ idler_cleanup(idler_vector, before, marked, idler_pending_deletion + 1)
          /\ UNCHANGED <<idler_v_process, idler_processing, run_loop, mpc, todo, cur>>
          BY <1>3 DEF sol_idle_del
    <2>2. idler_v_process = {} /\ todo = {} /\ cur = NoIdle
          BY <1>3 DEF PassInv, NoDanglingIdler
    <2> DEFINE victims == {k \in idler_vector : marked[k] = "deleted"}
    <2>3. victims = Deleted \cup {h}
          BY <1>1, <2>2 DEF Deleted, TypeOK, NoDanglingIdler
    <2>4. Cardinality(victims) <= idler_pending_deletion + 1
      <3>1. Deleted \in SUBSET Idles
            BY DEF Deleted
      <3>2. Cardinality(Deleted \cup {h}) <= Cardinality(Deleted) + 1
            BY <3>1, Countable, FS_AddElement
      <3>3. /\ Cardinality(Deleted) \in Nat /\ Cardinality(Deleted \cup {h}) \in Nat
            /\ idler_pending_deletion \in Nat
            BY <3>1, Countable DEF TypeOK
      <3> HIDE DEF victims
      <3>4. QED
            BY <2>3, <3>2, <3>3 DEF PendingCoversDeleted
    <2>5. /\ idler_vector' = idler_vector \ victims
          /\ before' \subseteq before
          /\ status' = [k \in Idles |-> IF k \in victims THEN "free" ELSE marked[k]]
          /\ idler_pending_deletion' \in Nat
      <3>1. idler_vector \in SUBSET Idles /\ before \in SUBSET (Idles \X Idles)
            /\ idler_pending_deletion + 1 \in Nat
            BY DEF TypeOK
      <3>2. \A k \in Idles : <<k, k>> \notin before
            BY DEF OrderInv
      <3> HIDE DEF marked
      <3>3. QED
            BY <1>1, <2>1, <2>4, <3>1, <3>2, Sweep
    <2>6. TypeOK' /\ OrderInv' /\ PassInv'
          BY <1>1, <2>1, <2>5 DEF TypeOK, Status, OrderInv, PassInv
    <2>7. NoDanglingIdler'
          BY <1>1, <2>1, <2>2, <2>3, <2>5 DEF TypeOK, Status, NoDanglingIdler, Deleted
    <2>8. PendingCoversDeleted'
      <3>1. Deleted' = {}
            BY <1>1, <2>3, <2>5 DEF Deleted
      <3>2. QED
            BY <2>5, <3>1, FS_EmptySet DEF PendingCoversDeleted
    <2>9. QED
          BY <2>6, <2>7, <2>8
  <1>4. QED
        BY <1>2, <1>3 DEF TypeOK

LEMMA EndPreserves ==
  ASSUME IInv, ProcessEnd
  PROVE  IInv'
  <1> USE DEF IInv
  <1> DEFINE v == idler_vector \cup idler_v_process
             order == before \cup (idler_vector \X idler_v_process)
  <1>1. /\ idler_cleanup(v, order, status, idler_pending_deletion)
        /\ idler_v_process' = {} /\ todo' = {} /\ idler_processing' = FALSE
        /\ mpc = "settle" /\ mpc' = "outside" /\ UNCHANGED <<run_loop, cur>>
        BY DEF ProcessEnd, MainGoes
  <1>2. /\ v \in SUBSET Idles /\ order \in SUBSET (Idles \X Idles)
        /\ status \in [Idles -> Status] /\ idler_pending_deletion \in Nat
        BY DEF TypeOK
  <1>3. \A h \in Idles : <<h, h>> \notin order
        BY DEF OrderInv, NoDanglingIdler
  <1> DEFINE victims == {h \in v : status[h] = "deleted"}
  <1>4. victims = Deleted
        BY DEF Deleted, NoDanglingIdler
  <1>5. Cardinality(victims) <= idler_pending_deletion
    <2>1. Cardinality(Deleted) \in Nat
          BY Countable DEF Deleted
    <2>2. QED
          BY <1>2, <1>4, <2>1 DEF PendingCoversDeleted
  <1>6. /\ idler_vector' = v \ victims
        /\ before' \subseteq order
        /\ status' = [h \in Idles |-> IF h \in victims THEN "free" ELSE status[h]]
        /\ idler_pending_deletion' \in Nat
    <2> HIDE DEF v, order
    <2>1. QED
          BY <1>1, <1>2, <1>3, <1>5, Sweep
  <1>7. TypeOK' /\ OrderInv' /\ PassInv'
        BY <1>1, <1>2, <1>3, <1>6 DEF TypeOK, Status, OrderInv, PassInv
  <1>8. NoDanglingIdler'
        BY <1>1, <1>2, <1>4, <1>6 DEF NoDanglingIdler, Deleted, TypeOK, PassInv
  <1>9. PendingCoversDeleted'
    <2>1. Deleted' = {}
          BY <1>4, <1>6 DEF Deleted
    <2>2. QED
          BY <1>6, <2>1, FS_EmptySet DEF PendingCoversDeleted
  <1>10. QED
         BY <1>7, <1>8, <1>9

-----------------------------------------------------------------------------
(* The steps of a pass that free nothing.                                  *)

\* Statuses are only read, or made ready: nothing is freed or marked.
LEMMA WalkPreserves ==
  ASSUME IInv,
         \/ ProcessBegin \/ Awakened \/ TimeoutsProcessed \/ ScanDone
         \/ \E h \in Idles : Skip(h) \/ Awaken(h) \/ Call(h)
         \/ sol_run \/ sol_quit
  PROVE  IInv'
  <1> USE IdlersAssumption DEF IInv, TypeOK, MainGoes, countVars, vectorVars
  <1>1. /\ idler_pending_deletion' = idler_pending_deletion
        /\ before' = before
        /\ Deleted' \subseteq Deleted
        BY DEF ProcessBegin, Awakened, TimeoutsProcessed, ScanDone, Skip, Awaken, Call,
               sol_run, sol_quit, Deleted
  <1>2. PendingCoversDeleted' /\ OrderInv'
        BY <1>1, CountKept DEF OrderInv
  <1>3. CASE ProcessBegin
        BY <1>2, <1>3 DEF ProcessBegin, NoDanglingIdler, PassInv
  <1>4. CASE Awakened
    <2>1. cur \in Idles /\ status[cur] # "free"
          BY <1>4 DEF Awakened, PassInv, NoDanglingIdler
    <2>2. NoDanglingIdler'
          BY <1>4, <2>1 DEF Awakened, NoDanglingIdler
    <2>3. QED
          BY <1>2, <1>4, <2>1, <2>2 DEF Awakened, Status, PassInv
  <1>5. CASE TimeoutsProcessed \/ ScanDone
        BY <1>2, <1>5 DEF TimeoutsProcessed, ScanDone, NoDanglingIdler, PassInv
  <1>6. ASSUME NEW h \in Idles, Skip(h) \/ Awaken(h) \/ Call(h) PROVE IInv'
        BY <1>2, <1>6 DEF Skip, Awaken, Call, Visits, NoDanglingIdler, PassInv
  <1>7. CASE sol_run \/ sol_quit
    <2>1. run_loop' \in BOOLEAN /\ UNCHANGED <<status, idler_vector, idler_v_process,
               before, idler_pending_deletion, idler_processing, mpc, todo, cur>>
          BY <1>7 DEF sol_run, sol_quit
    <2>2. QED
          BY <1>2, <2>1 DEF NoDanglingIdler, PassInv
  <1>8. QED
        BY <1>3, <1>4, <1>5, <1>6, <1>7

\* The callback's answer marks and counts its idler at most once.
LEMMA ReturnPreserves ==
  ASSUME IInv, NEW keep \in BOOLEAN, Return(keep)
  PROVE  IInv'
  <1> USE DEF IInv
  <1>1. cur \in idler_v_process /\ cur \in Idles /\ status[cur] # "free"
        BY DEF Return, MainGoes, TypeOK, PassInv, NoDanglingIdler
  <1>2. /\ mpc = "cb" /\ mpc' = "timeouts" /\ cur' = NoIdle
        /\ UNCHANGED <<idler_vector, idler_v_process, before, idler_processing, run_loop, todo>>
        BY DEF Return, MainGoes, vectorVars
  <1>3. CASE keep \/ status[cur] = "deleted"
    <2>1. UNCHANGED <<status, idler_pending_deletion>>
          BY <1>3 DEF Return
    <2>2. PendingCoversDeleted'
          BY <2>1, CountKept DEF Deleted
    <2>3. QED
          BY <1>2, <2>1, <2>2 DEF TypeOK, NoDanglingIdler, OrderInv, PassInv
  <1>4. CASE ~(keep \/ status[cur] = "deleted")
    <2>1. /\ status' = [status EXCEPT ![cur] = "deleted"]
          /\ idler_pending_deletion' = idler_pending_deletion + 1
          BY <1>4 DEF Return
    <2>2. Deleted' \subseteq Deleted \cup {cur}
          BY <2>1 DEF Deleted, TypeOK
    <2>3. PendingCoversDeleted'
          BY <1>1, <2>1, <2>2, CountAdded
    <2>4. TypeOK' /\ OrderInv' /\ PassInv'
          BY <1>2, <2>1 DEF TypeOK, Status, OrderInv, PassInv
    <2>5. NoDanglingIdler'
          BY <1>1, <1>2, <2>1 DEF TypeOK, NoDanglingIdler
    <2>6. QED
          BY <2>3, <2>4, <2>5
  <1>5. QED
        BY <1>3, <1>4

LEMMA ShutdownPreserves ==
  ASSUME IInv, sol_mainloop_impl_shutdown
  PROVE  IInv'
  <1> USE DEF IInv, sol_mainloop_impl_shutdown, MainGoes, countVars
  <1>1. idler_v_process = {} /\ ~idler_processing
        BY DEF PassInv
  <1>2. Deleted' \subseteq Deleted
        BY DEF Deleted, TypeOK
  <1>3. PendingCoversDeleted'
        BY <1>2, CountKept
  <1>4. NoDanglingIdler'
        BY <1>1 DEF TypeOK, NoDanglingIdler
  <1>5. QED
        BY <1>1, <1>3, <1>4 DEF TypeOK, Status, OrderInv, PassInv

-----------------------------------------------------------------------------

\* The invariant is inductive.
THEOREM Inductive == Spec => []IInv
  <1>1. Init => IInv
        BY InitIInv
  <1>2. IInv /\ [Next]_idlerVars => IInv'
    <2> SUFFICES ASSUME IInv, [Next]_idlerVars PROVE IInv'
        OBVIOUS
    <2>1. CASE Process
          BY <2>1, WalkPreserves, EndPreserves DEF Process
    <2>2. CASE Callback
          BY <2>2, ReturnPreserves DEF Callback
    <2>3. CASE \E h \in Idles : sol_idle_add(h) \/ sol_idle_del(h)
          BY <2>3, AddPreserves, DelPreserves
    <2>4. CASE sol_run \/ sol_quit
          BY <2>4, WalkPreserves
    <2>5. CASE sol_mainloop_impl_shutdown
          BY <2>5, ShutdownPreserves
    <2>6. CASE UNCHANGED idlerVars
      <3>1. Deleted' = Deleted
            BY <2>6 DEF idlerVars, Deleted
      <3>2. QED
            BY <2>6, <3>1 DEF idlerVars, IInv, TypeOK, NoDanglingIdler,
               PendingCoversDeleted, OrderInv, PassInv
    <2>7. QED
          BY <2>1, <2>2, <2>3, <2>4, <2>5, <2>6 DEF Next
  <1>3. QED
        BY <1>1, <1>2, PTL DEF Spec

\* However many idlers there are and whoever deletes them, the state keeps its
\* type; in particular idler_cleanup() never takes the counter below zero.
THEOREM TypeCorrect == Spec => []TypeOK
  <1>1. IInv => TypeOK
        BY DEF IInv
  <1>2. QED
        BY <1>1, Inductive, PTL

\* sol_mainloop_common_idler_process() and idler_cleanup() never touch a freed
\* idler, and never lose one that is allocated.
THEOREM MemorySafe == Spec => []NoDanglingIdler
  <1>1. IInv => NoDanglingIdler
        BY DEF IInv
  <1>2. QED
        BY <1>1, Inductive, PTL

\* The sweep has always enough of a count to reach every marked idler.
THEOREM CounterCovers == Spec => []PendingCoversDeleted
  <1>1. IInv => PendingCoversDeleted
        BY DEF IInv
  <1>2. QED
        BY <1>1, Inductive, PTL

\* No deletion comes between the test and the assignment that make an idler
\* ready, when the thread that deletes is the one that does both.
LEMMA StillWaiting ==
  ASSUME OtherThreadsDel = FALSE
  PROVE  Spec => []WaitingInv
  <1>1. Init => WaitingInv
        BY DEF Init, WaitingInv
  <1>2. ASSUME IInv, WaitingInv, [Next]_idlerVars PROVE WaitingInv'
    <2> USE <1>2 DEF IInv, TypeOK, MainGoes, WaitingInv
    <2>1. CASE Process
      <3> USE <2>1 DEF Process
      <3>1. CASE ProcessBegin \/ Awakened \/ TimeoutsProcessed \/ ScanDone \/ ProcessEnd
            BY <3>1 DEF ProcessBegin, Awakened, TimeoutsProcessed, ScanDone, ProcessEnd
      <3>2. CASE \E h \in Idles : Skip(h) \/ Awaken(h) \/ Call(h)
            BY <3>2 DEF Skip, Awaken, Call
      <3>3. QED
            BY <3>1, <3>2
    <2>2. CASE Callback
          BY <2>2 DEF Callback, Return
    <2>3. CASE \E h \in Idles : sol_idle_add(h)
      <3>1. PICK h \in Idles : sol_idle_add(h)
            BY <2>3
      <3>2. QED
            BY <3>1, <1>2 DEF sol_idle_add
    <2>4. CASE \E h \in Idles : sol_idle_del(h)
          BY <2>4 DEF sol_idle_del, InUserCode
    <2>5. CASE sol_run \/ sol_quit \/ sol_mainloop_impl_shutdown \/ UNCHANGED idlerVars
          BY <2>5 DEF sol_run, sol_quit, sol_mainloop_impl_shutdown, idlerVars
    <2>6. QED
          BY <2>1, <2>2, <2>3, <2>4, <2>5 DEF Next
  <1>3. QED
        BY <1>1, <1>2, Inductive, PTL DEF Spec

\* With deletions on the main thread only, sol_idle_del() is final: no step of
\* a pass makes a deleted idler ready again.
THEOREM DeleteFinal ==
  ASSUME OtherThreadsDel = FALSE
  PROVE  Spec => DeleteIsFinal
  <1> DEFINE Final == \A h \in Idles : status[h] = "deleted" => status'[h] \in {"deleted", "free"}
  <1>1. ASSUME IInv, WaitingInv, [Next]_idlerVars PROVE [Final]_idlerVars
    <2> USE <1>1 DEF IInv, TypeOK, MainGoes, WaitingInv
    <2>1. CASE Process
      <3> USE <2>1 DEF Process
      <3>1. CASE Awakened
            BY <3>1 DEF Awakened
      <3>2. CASE ProcessEnd
            BY <3>2 DEF ProcessEnd, idler_cleanup
      <3>3. CASE ProcessBegin \/ TimeoutsProcessed \/ ScanDone
                   \/ \E h \in Idles : Skip(h) \/ Awaken(h) \/ Call(h)
            BY <3>3 DEF ProcessBegin, TimeoutsProcessed, ScanDone, Skip, Awaken, Call
      <3>4. QED
            BY <3>1, <3>2, <3>3
    <2>2. CASE Callback
          BY <2>2 DEF Callback, Return
    <2>3. CASE \E h \in Idles : sol_idle_add(h)
          BY <2>3 DEF sol_idle_add
    <2>4. CASE \E h \in Idles : sol_idle_del(h)
      <3>1. PICK h \in Idles : sol_idle_del(h)
            BY <2>4
      <3>2. CASE idler_processing
            BY <3>1, <3>2 DEF sol_idle_del
      <3>3. CASE ~idler_processing
            BY <3>1, <3>3 DEF sol_idle_del, idler_cleanup
      <3>4. QED
            BY <3>2, <3>3
    <2>5. CASE sol_run \/ sol_quit \/ sol_mainloop_impl_shutdown
          BY <2>5 DEF sol_run, sol_quit, sol_mainloop_impl_shutdown
    <2>6. QED
          BY <2>1, <2>2, <2>3, <2>4, <2>5 DEF Next
  <1>2. QED
        BY <1>1, Inductive, StillWaiting, PTL DEF Spec, DeleteIsFinal

-----------------------------------------------------------------------------
(* Idlers implements HandlerLifecycle.                                     *)

running == IF mpc = "cb" THEN cur ELSE NoIdle

\* The phases of the idlers, one by one.
LEMMA Phases ==
  ASSUME NEW h \in Idles, status \in [Idles -> Status]
  PROVE  /\ lifecycle_phase[h] = "live" <=> status[h] \in {"ready", "next"}
         /\ lifecycle_phase[h] = "dead" <=> status[h] = "deleted"
         /\ lifecycle_phase[h] = "free" <=> status[h] = "free"
  BY DEF lifecycle_phase, Status

\* A step that leaves alive what is alive, and calls nothing, is not seen.
LEMMA Unseen ==
  ASSUME lifecycle_phase' = lifecycle_phase, running' = running
  PROVE  UNCHANGED Lifecycle!lifecycleVars
  BY DEF Lifecycle!lifecycleVars, running

\* sol_idle_del() frees some of the marked idlers, or only marks.
LEMMA DelStep ==
  ASSUME IInv, NEW h \in Idles, sol_idle_del(h)
  PROVE  Lifecycle!Del(h)
  <1> USE DEF IInv, TypeOK
  <1>1. status \in [Idles -> Status] /\ status[h] \in {"ready", "next"}
        BY DEF sol_idle_del
  <1>2. running' = running
        BY DEF sol_idle_del, running
  <1>3. PICK S \in SUBSET {k \in Idles : status[k] = "deleted" \/ k = h} :
          /\ running \notin S
          /\ status' = [k \in Idles |-> IF k \in S THEN "free"
                                        ELSE IF k = h THEN "deleted" ELSE status[k]]
    <2>1. CASE idler_processing
      <3>1. status' = [status EXCEPT ![h] = "deleted"]
            BY <2>1 DEF sol_idle_del
      <3>2. status' = [k \in Idles |-> IF k \in {} THEN "free"
                                       ELSE IF k = h THEN "deleted" ELSE status[k]]
            BY <1>1, <3>1
      <3> WITNESS {} \in SUBSET {k \in Idles : status[k] = "deleted" \/ k = h}
      <3>3. QED
            BY <3>2
    <2>2. CASE ~idler_processing
      <3> DEFINE st == [status EXCEPT ![h] = "deleted"]
                 marked == {k \in idler_vector : st[k] = "deleted"}
                 victims == {k \in marked :
                               Cardinality({j \in marked : <<k, j>> \in before})
                                 < idler_pending_deletion + 1}
      <3>1. status' = [k \in Idles |-> IF k \in victims THEN "free" ELSE st[k]]
            BY <2>2 DEF sol_idle_del, idler_cleanup
      <3>2. victims \in SUBSET {k \in Idles : status[k] = "deleted" \/ k = h}
            BY <1>1
      <3>3. running \notin victims
        <4>1. running = NoIdle
              BY <2>2 DEF PassInv, running
        <4>2. QED
              BY <4>1, <3>2, IdlersAssumption
      <3> HIDE DEF victims
      <3>4. QED
            BY <1>1, <3>1, <3>2, <3>3
    <2>3. QED
          BY <2>1, <2>2
  <1>4. S \in SUBSET {k \in Idles : lifecycle_phase[k] = "dead" \/ k = h}
        BY <1>1, <1>3, Phases
  <1>5. lifecycle_phase' = [k \in Idles |-> IF k \in S THEN "free"
                                            ELSE IF k = h THEN "dead" ELSE lifecycle_phase[k]]
        BY <1>1, <1>3 DEF lifecycle_phase
  <1>6. lifecycle_phase[h] = "live"
        BY <1>1, Phases
  <1>7. QED
        BY <1>2, <1>3, <1>4, <1>5, <1>6 DEF Lifecycle!Del, running

\* The sweep at the end of a pass frees marked idlers only.
LEMMA SweepStep ==
  ASSUME IInv, ProcessEnd
  PROVE  [Lifecycle!LNext]_(Lifecycle!lifecycleVars)
  <1> USE DEF IInv, TypeOK
  <1> DEFINE v == idler_vector \cup idler_v_process
             order == before \cup (idler_vector \X idler_v_process)
             marked == {k \in v : status[k] = "deleted"}
             victims == {k \in marked : Cardinality({j \in marked : <<k, j>> \in order})
                                          < idler_pending_deletion}
  <1>1. status' = [k \in Idles |-> IF k \in victims THEN "free" ELSE status[k]]
        BY DEF ProcessEnd, idler_cleanup
  <1>2. victims \in SUBSET Idles /\ \A k \in victims : status[k] = "deleted"
        OBVIOUS
  <1>3. running = NoIdle /\ running' = NoIdle
        BY DEF ProcessEnd, MainGoes, running
  <1> HIDE DEF victims
  <1>4. lifecycle_phase' = [k \in Idles |-> IF k \in victims THEN "free" ELSE lifecycle_phase[k]]
        BY <1>1, <1>2 DEF lifecycle_phase
  <1>5. CASE victims = {}
    <2>1. lifecycle_phase' = lifecycle_phase
          BY <1>4, <1>5 DEF lifecycle_phase
    <2>2. QED
          BY <2>1, <1>3, Unseen
  <1>6. CASE victims # {}
    <2>1. \A k \in victims : lifecycle_phase[k] = "dead"
          BY <1>2, Phases
    <2>2. running \notin victims
          BY <1>2, <1>3, IdlersAssumption
    <2>3. Lifecycle!Free(victims)
          BY <1>3, <1>4, <1>6, <2>1, <2>2 DEF Lifecycle!Free, running
    <2>4. QED
          BY <1>2, <2>3 DEF Lifecycle!LNext
  <1>7. QED
        BY <1>5, <1>6

\* With deletions on the main thread only, the idlers keep what
\* sol_idle_add() and sol_idle_del() promise: every step of the passes, the
\* sweeps and the calls is a step of HandlerLifecycle, or is not seen by it.
THEOREM Refinement ==
  ASSUME OtherThreadsDel = FALSE
  PROVE  Spec => ImplementsLifecycle
  <1>1. Init => Lifecycle!LInit
        BY DEF Init, Lifecycle!LInit, lifecycle_phase
  <1>2. ASSUME IInv, WaitingInv, [Next]_idlerVars
        PROVE  [Lifecycle!LNext]_(Lifecycle!lifecycleVars)
    <2>1. status \in [Idles -> Status] /\ cur \in Idles \cup {NoIdle}
          BY <1>2 DEF IInv, TypeOK
    <2>2. CASE UNCHANGED idlerVars \/ sol_run \/ sol_quit \/ TimeoutsProcessed
                 \/ ProcessBegin \/ ScanDone \/ \E h \in Idles : Skip(h) \/ Awaken(h)
      <3>1. status' = status /\ running' = running
            BY <2>2 DEF idlerVars, sol_run, sol_quit, TimeoutsProcessed, ProcessBegin, ScanDone,
                        Skip, Awaken, MainGoes, running
      <3>2. QED
            BY <3>1, Unseen DEF lifecycle_phase
    <2>3. CASE Awakened
      <3>1. /\ status' = [status EXCEPT ![cur] = "ready"] /\ status[cur] = "next"
            /\ running' = running
            BY <1>2, <2>3 DEF Awakened, MainGoes, WaitingInv, running
      <3>2. lifecycle_phase' = lifecycle_phase
            BY <2>1, <3>1 DEF lifecycle_phase
      <3>3. QED
            BY <3>1, <3>2, Unseen
    <2>4. CASE \E h \in Idles : Call(h)
      <3>1. PICK h \in Idles : Call(h)
            BY <2>4
      <3>2. /\ status' = status /\ status[h] = "ready"
            /\ running = NoIdle /\ running' = h
            BY <3>1 DEF Call, MainGoes, running
      <3>3. lifecycle_phase' = lifecycle_phase /\ lifecycle_phase[h] = "live"
            BY <2>1, <3>2, Phases DEF lifecycle_phase
      <3>4. Lifecycle!Start(h)
            BY <3>2, <3>3 DEF Lifecycle!Start, running
      <3>5. QED
            BY <3>4 DEF Lifecycle!LNext
    <2>5. CASE Callback
      <3>1. PICK keep \in BOOLEAN : Return(keep)
            BY <2>5 DEF Callback
      <3>2. /\ running = cur /\ running # NoIdle /\ running' = NoIdle
            /\ cur \in Idles
            BY <1>2, <2>1, <3>1 DEF Return, MainGoes, running, IInv, PassInv
      <3>3. CASE keep \/ status[cur] = "deleted"
        <4>1. lifecycle_phase' = lifecycle_phase
              BY <3>1, <3>3 DEF Return, lifecycle_phase
        <4>2. Lifecycle!Finish(TRUE)
              BY <3>2, <4>1 DEF Lifecycle!Finish, running
        <4>3. QED
              BY <4>2 DEF Lifecycle!LNext
      <3>4. CASE ~(keep \/ status[cur] = "deleted")
        <4>1. status' = [status EXCEPT ![cur] = "deleted"]
              BY <3>1, <3>4 DEF Return
        <4>2. lifecycle_phase' = [lifecycle_phase EXCEPT ![cur] = "dead"]
              BY <2>1, <3>2, <4>1 DEF lifecycle_phase
        <4>3. Lifecycle!Finish(FALSE)
              BY <3>2, <4>2 DEF Lifecycle!Finish, running
        <4>4. QED
              BY <4>3 DEF Lifecycle!LNext
      <3>5. QED
            BY <3>3, <3>4
    <2>6. CASE ProcessEnd
          BY <1>2, <2>6, SweepStep
    <2>7. CASE \E h \in Idles : sol_idle_add(h)
      <3>1. PICK h \in Idles : sol_idle_add(h)
            BY <2>7
      <3>2. PICK s \in {"next", "ready"} : status' = [status EXCEPT ![h] = s]
            BY <3>1 DEF sol_idle_add
      <3>3. status[h] = "free" /\ running' = running
            BY <3>1 DEF sol_idle_add, running
      <3>4. lifecycle_phase' = [lifecycle_phase EXCEPT ![h] = "live"]
            BY <2>1, <3>2 DEF lifecycle_phase
      <3>5. Lifecycle!Add(h)
            BY <2>1, <3>3, <3>4, Phases DEF Lifecycle!Add, running
      <3>6. QED
            BY <3>5 DEF Lifecycle!LNext
    <2>8. CASE \E h \in Idles : sol_idle_del(h)
      <3>1. PICK h \in Idles : sol_idle_del(h)
            BY <2>8
      <3>2. Lifecycle!Del(h)
            BY <1>2, <3>1, DelStep
      <3>3. QED
            BY <3>2 DEF Lifecycle!LNext
    <2>9. CASE sol_mainloop_impl_shutdown
      <3>1. \A h \in Idles : h \in idler_vector \/ status[h] = "free"
            BY <1>2, <2>9 DEF sol_mainloop_impl_shutdown, MainGoes, IInv, PassInv, NoDanglingIdler
      <3>2. status' = [h \in Idles |-> "free"]
            BY <2>1, <2>9, <3>1 DEF sol_mainloop_impl_shutdown
      <3>3. lifecycle_phase' = [h \in Idles |-> "free"]
            BY <3>2 DEF lifecycle_phase
      <3>4. running = NoIdle /\ running' = NoIdle
            BY <2>9 DEF sol_mainloop_impl_shutdown, MainGoes, running
      <3>5. Lifecycle!Shutdown
            BY <3>3, <3>4 DEF Lifecycle!Shutdown, running
      <3>6. QED
            BY <3>5 DEF Lifecycle!LNext
    <2>10. QED
           BY <1>2, <2>2, <2>3, <2>4, <2>5, <2>6, <2>7, <2>8, <2>9 DEF Next, Process
  <1>3. QED
        BY <1>1, <1>2, Inductive, StillWaiting, PTL DEF Spec, ImplementsLifecycle, Lifecycle!LSpec
=============================================================================
