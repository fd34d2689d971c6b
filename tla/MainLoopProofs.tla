--------------------------- MODULE MainLoopProofs ---------------------------
(***************************************************************************)
(* Two parts of the main loop are correct for every value of their         *)
(* constants: the sources and the walks over them, and the wakeup protocol *)
(* of MainLoopWakeup (second half).                                        *)
(*                                                                         *)
(* Sources.  Held, CountInv and PlaceInv say what the vectors, the counter *)
(* and the program counter have to do with one another, OwedInv where the  *)
(* sources that must still be dispatched are.  They hold whoever deletes.  *)
(* That the sweeps stay in the vector needs SweepInv, which holds when     *)
(* only the main thread sweeps and a dispose() inside a dispose() deletes  *)
(* nothing: otherwise a sweep can shorten the vector under another one.    *)
(*                                                                         *)
(* Wakeup.  Neither safety property is inductive: both rest on what        *)
(* have_notified means (NotifiedInv), on a single byte being under way     *)
(* (OneByte) and on the lock discipline (LockInv).                         *)
(***************************************************************************)
EXTENDS Sources, MainLoopWakeup, VectorProofs

Status == {"free", "live", "marked", "disposed"}
Frame == [source : Handles, next : Nat, pass : Passes \cup {"none"}]
InPass == {"walk", "cb", "sweep"}
Places == (InPass \X Passes)
            \cup {Between(w) : w \in {"outside", "prepared", "polling", "checked", "down"}}

\* Vectors v and w together hold what st says is allocated, each source once.
Held(v, w, st) ==
  /\ Distinct(v) /\ Distinct(w)
  /\ \A s \in Handles : /\ ~(In(s, v) /\ In(s, w))
                        /\ In(s, v) \/ In(s, w) <=> st[s] \in {"live", "marked"}

\* The sweeps sw are in dispose() of different sources, those st says are disposed.
Framed(sw, st) ==
  /\ \A t \in Threads : \A k \in 1..Len(sw[t]) : st[sw[t][k].source] = "disposed"
  /\ \A s \in Handles : st[s] = "disposed" =>
       \E t \in Threads : \E k \in 1..Len(sw[t]) : sw[t][k].source = s
  /\ \A t, u \in Threads : \A j \in 1..Len(sw[t]), k \in 1..Len(sw[u]) :
       sw[t][j].source = sw[u][k].source => t = u /\ j = k

\* The sources whose deletion is pending.
Doomed(st) == {s \in Handles : st[s] \in {"marked", "disposed"}}

TypeInv == TypeOK /\ sweeps \in [Threads -> Seq(Frame)]

MemoryInv == Held(source_vector, source_v_process, status)

FrameInv == ~strayed => Framed(sweeps, status)

\* The count is exact: a source is counted until it is freed.
CountInv == mpc # Between("down") => source_pending_deletion = Cardinality(Doomed(status))

\* What is true at each place of fd_process().
PlaceInv ==
  /\ mpc \in Places
  /\ source_processing <=> mpc[1] \in InPass
  /\ mpc[1] \notin {"walk", "cb"} => source_v_process = <<>>
  /\ mpc[1] = "walk" => at \in 1..(Len(source_v_process) + 1)
  /\ mpc[1] = "cb" => at \in 1..Len(source_v_process)
  /\ mpc[1] \notin {"outside", "polling", "sweep"} => sweeps[MainThread] = <<>>
  /\ mpc[1] = "down" => \A t \in Threads : sweeps[t] = <<>>
  /\ mpc[1] = "sweep" => Len(sweeps[MainThread]) = 1 /\ sweeps[MainThread][1].pass = mpc[2]
  /\ \A t \in Threads : t # MainThread \/ mpc[1] # "sweep" =>
       \A k \in 1..Len(sweeps[t]) : sweeps[t][k].pass = "none"

\* Sources that said they are ready still are, are seen by sources_ready, and the
\* walk that calls prepare() is behind them, the one that dispatches in front.
OwedInv ==
  /\ owed # {} => run_loop /\ sources_ready
  /\ \A s \in owed : status[s] = "live" /\ ready[s]
  /\ mpc \in {Between("outside"), Between("down"), At("sweep", "dispatch")} => owed = {}
  /\ mpc \in {At("walk", "prepare"), At("cb", "prepare")} =>
       \A s \in owed : \E j \in 1..(at - 1) : source_v_process[j] = s
  /\ mpc = At("walk", "dispatch") =>
       \A s \in owed : \E j \in at..Len(source_v_process) : source_v_process[j] = s
  /\ mpc = At("cb", "dispatch") =>
       \A s \in owed : \E j \in (at + 1)..Len(source_v_process) : source_v_process[j] = s

IInv == TypeInv /\ MemoryInv /\ FrameInv /\ CountInv /\ PlaceInv /\ OwedInv

\* With deletions on the main thread and at most two of them nested.
SweepInv ==
  LET frames == sweeps[MainThread] IN
  /\ ~strayed
  /\ \A t \in OtherThreads : sweeps[t] = <<>>
  /\ Len(frames) <= 2
  /\ mpc[1] = "sweep" => frames[1].next <= Len(source_vector)
  /\ mpc[1] # "sweep" /\ Len(frames) = 1 =>
       frames[1].next <= Len(source_vector) \/ \A s \in Handles : status[s] # "marked"
  /\ mpc[1] # "sweep" /\ Len(frames) = 2 =>
       /\ frames[2].next <= Len(source_vector)
       /\ \A k \in 1..Len(source_vector) :
            status[source_vector[k]] = "marked" => k <= frames[2].next

-----------------------------------------------------------------------------
(* Facts about vectors and counts.                                         *)

LEMMA Countable ==
  ASSUME NEW S \in SUBSET Handles
  PROVE  /\ IsFiniteSet(S) /\ Cardinality(S) \in Nat /\ Cardinality(Handles) \in Nat
         /\ Cardinality(S) <= Cardinality(Handles)
  <1>1. IsFiniteSet(Handles)
        BY SourcesAssumption
  <1>2. QED
        BY <1>1, FS_Subset, FS_CardinalityType

\* A vector without duplicates is no longer than there are sources.
LEMMA NoLongerThanHandles ==
  ASSUME NEW q \in Seq(Handles), Distinct(q)
  PROVE  Len(q) \in 0..Cardinality(Handles)
  <1>1. Len(q) \in Nat /\ q \in [1..Len(q) -> Handles]
        BY LenProperties
  <1>2. q \in Injection(1..Len(q), Handles)
        BY <1>1 DEF Distinct, Injection, IsInjective
  <1>3. Cardinality(1..Len(q)) <= Cardinality(Handles)
        BY <1>2, SourcesAssumption, FS_Injection
  <1>4. Cardinality(1..Len(q)) = Len(q)
        BY <1>1, FS_Interval
  <1>5. QED
        BY <1>1, <1>3, <1>4, Countable

\* sol_vector_del() of entry k.
LEMMA DeletedEntries ==
  ASSUME NEW q \in Seq(Handles), Distinct(q), NEW k \in 1..Len(q)
  PROVE  LET r == sol_vector_del(q, k) IN
         /\ r \in Seq(Handles) /\ Distinct(r) /\ Len(r) = Len(q) - 1
         /\ \A s : In(s, r) <=> In(s, q) /\ s # q[k]
         /\ \A j \in 1..(Len(q) - 1) : r[j] = IF j < k THEN q[j] ELSE q[j + 1]
  <1> DEFINE r == sol_vector_del(q, k)
  <1>1. /\ r \in Seq(Handles) /\ Len(r) = Len(q) - 1
        /\ \A j \in 1..(Len(q) - 1) : r[j] = IF j < k THEN q[j] ELSE q[j + 1]
        BY DeletedProperties
  <1>2. PutIn(q, r, k, q[k])
    <2> HIDE DEF r
    <2>1. Len(q) \in Nat /\ Len(q) = Len(r) + 1
          BY <1>1, LenProperties
    <2>2. QED
          BY <1>1, <2>1 DEF PutIn, Shifted
  <1> HIDE DEF r
  <1>3. Distinct(r) /\ ~In(q[k], r) /\ \A s : In(s, q) <=> In(s, r) \/ s = q[k]
        BY <1>1, <1>2, PutInEntries
  <1>4. QED
        BY <1>1, <1>3 DEF r

\* What the frames of sweeps hold.
LEMMA FrameTypes ==
  ASSUME NEW sw \in [Threads -> Seq(Frame)]
  PROVE  \A u \in Threads : \A k \in 1..Len(sw[u]) :
           sw[u][k] \in Frame /\ sw[u][k].source \in Handles /\ sw[u][k].next \in Nat
  <1>1. \A u \in Threads : \A k \in 1..Len(sw[u]) : sw[u][k] \in Frame
        BY ElementOfSeq
  <1>2. \A g \in Frame : g.source \in Handles /\ g.next \in Nat
        BY DEF Frame
  <1>3. QED
        BY <1>1, <1>2

-----------------------------------------------------------------------------
(* The three ways a stretch of source_cleanup() goes.                      *)

\* It is over.
Stops(t, below, pass, v, st, n, i) ==
  /\ n = 0 \/ (i <= Len(v) /\ \A k \in 1..i : st[v[k]] # "marked")
  /\ source_vector' = v /\ status' = st
  /\ SweepEnds(t, below, pass)
  /\ strayed' = strayed

\* It reads beyond the vector.
Strays(v, st, n, i) ==
  /\ n # 0 /\ i > Len(v)
  /\ strayed' = TRUE
  /\ source_vector' = v /\ status' = st
  /\ UNCHANGED <<sweeps, source_processing, mpc, at>>

\* It takes entry k, the last one that is marked, out of the vector.
Takes(t, below, pass, v, st, n, i, k) ==
  /\ n # 0 /\ i <= Len(v)
  /\ k \in 1..i /\ st[v[k]] = "marked"
  /\ \A m \in 1..i : st[v[m]] = "marked" => m <= k
  /\ source_vector' = sol_vector_del(v, k)
  /\ status' = [st EXCEPT ![v[k]] = "disposed"]
  /\ sweeps' = [sweeps EXCEPT ![t] = Append(below, [source |-> v[k], next |-> k - 1, pass |-> pass])]
  /\ mpc' = IF pass = "none" THEN mpc ELSE At("sweep", pass)
  /\ UNCHANGED <<source_processing, at, strayed>>

LEMMA CleanupGoes ==
  ASSUME NEW t, NEW below, NEW pass, NEW v \in Seq(Handles), NEW st, NEW n, NEW i \in Nat,
         source_cleanup(t, below, pass, v, st, n, i)
  PROVE  /\ source_pending_deletion' = n
         /\ \/ Stops(t, below, pass, v, st, n, i)
            \/ Strays(v, st, n, i)
            \/ \E k \in 1..Len(v) : Takes(t, below, pass, v, st, n, i, k)
  <1> DEFINE marked == {k \in 1..i : k <= Len(v) /\ st[v[k]] = "marked"}
             k == Max(marked)
  <1>1. Len(v) \in Nat
        BY LenProperties
  <1>2. source_pending_deletion' = n
        BY DEF source_cleanup
  <1>3. CASE n = 0 \/ (i <= Len(v) /\ marked = {})
    <2>1. /\ source_vector' = v /\ status' = st
          /\ SweepEnds(t, below, pass) /\ strayed' = strayed
          BY <1>3 DEF source_cleanup
    <2>2. n = 0 \/ (i <= Len(v) /\ \A m \in 1..i : st[v[m]] # "marked")
          BY <1>1, <1>3
    <2>3. QED
          BY <1>2, <2>1, <2>2 DEF Stops
  <1>4. CASE ~(n = 0 \/ (i <= Len(v) /\ marked = {})) /\ i > Len(v)
    <2>1. /\ strayed' = TRUE /\ source_vector' = v /\ status' = st
          /\ UNCHANGED <<sweeps, source_processing, mpc, at>>
          BY <1>4 DEF source_cleanup
    <2>2. QED
          BY <1>2, <1>4, <2>1 DEF Strays
  <1>5. CASE ~(n = 0 \/ (i <= Len(v) /\ marked = {})) /\ ~(i > Len(v))
    <2>1. /\ source_vector' = sol_vector_del(v, k)
          /\ status' = [st EXCEPT ![v[k]] = "disposed"]
          /\ sweeps' = [sweeps EXCEPT ![t] = Append(below, [source |-> v[k], next |-> k - 1, pass |-> pass])]
          /\ IF pass = "none" THEN UNCHANGED mpc ELSE mpc' = At("sweep", pass)
          /\ UNCHANGED <<source_processing, at, strayed>>
          BY <1>5 DEF source_cleanup
    <2>2. i <= Len(v) /\ marked # {} /\ marked \subseteq 0..i
          BY <1>1, <1>5
    <2>3. k \in marked /\ \A m \in marked : m <= k
      <3> HIDE DEF marked
      <3>1. QED
            BY <2>2, MinMax
    <2>4. k \in 1..i /\ k \in 1..Len(v) /\ st[v[k]] = "marked"
      <3> HIDE DEF k
      <3>1. QED
            BY <1>1, <2>2, <2>3
    <2>5. \A m \in 1..i : st[v[m]] = "marked" => m <= k
      <3>1. \A m \in 1..i : st[v[m]] = "marked" => m \in marked
            BY <1>1, <2>2
      <3> HIDE DEF k, marked
      <3>2. QED
            BY <2>3, <3>1
    <2> HIDE DEF k, marked
    <2>6. Takes(t, below, pass, v, st, n, i, k)
          BY <1>5, <2>1, <2>2, <2>4, <2>5 DEF Takes
    <2>7. QED
          BY <1>2, <2>4, <2>6
  <1>6. QED
        BY <1>3, <1>4, <1>5

\* A stretch of source_cleanup() whose vector, frames and count agree with the
\* statuses.
Sweeping(t, below, pass, v, st, n, i) ==
  /\ t \in Threads /\ below \in Seq(Frame) /\ pass \in Passes \cup {"none"}
  /\ v \in Seq(Handles) /\ st \in [Handles -> Status] /\ i \in Nat
  /\ sweeps \in [Threads -> Seq(Frame)] /\ source_v_process' \in Seq(Handles)
  /\ Held(v, source_v_process', st) /\ strayed = FALSE
  /\ Framed([sweeps EXCEPT ![t] = below], st)
  /\ n = Cardinality(Doomed(st))
  /\ source_cleanup(t, below, pass, v, st, n, i)

\* A stretch of source_cleanup() keeps what is allocated in the vectors, and what
\* it takes out in the frame of its sweep.
LEMMA CleanupKeeps ==
  ASSUME NEW t, NEW below, NEW pass, NEW v, NEW st, NEW n, NEW i,
         Sweeping(t, below, pass, v, st, n, i)
  PROVE  /\ source_vector' \in Seq(Handles) /\ status' \in [Handles -> Status]
         /\ sweeps' \in [Threads -> Seq(Frame)] /\ strayed' \in BOOLEAN
         /\ MemoryInv' /\ FrameInv'
         /\ source_pending_deletion' = Cardinality(Doomed(status'))
         /\ source_pending_deletion' \in 0..Cardinality(Handles)
         /\ \A s \in Handles : st[s] = "live" => status'[s] = "live"
  <1>0. /\ t \in Threads /\ below \in Seq(Frame) /\ pass \in Passes \cup {"none"}
        /\ v \in Seq(Handles) /\ st \in [Handles -> Status] /\ i \in Nat
        /\ sweeps \in [Threads -> Seq(Frame)] /\ source_v_process' \in Seq(Handles)
        /\ Held(v, source_v_process', st) /\ strayed = FALSE
        /\ Framed([sweeps EXCEPT ![t] = below], st)
        /\ n = Cardinality(Doomed(st))
        /\ source_cleanup(t, below, pass, v, st, n, i)
        BY DEF Sweeping
  <1> USE <1>0
  <1>1. source_pending_deletion' = n /\ n \in 0..Cardinality(Handles)
    <2>1. Doomed(st) \in SUBSET Handles
          BY DEF Doomed
    <2>2. QED
          BY <2>1, CleanupGoes, Countable
  <1>2. CASE Stops(t, below, pass, v, st, n, i)
    <2>1. source_vector' = v /\ status' = st /\ strayed' = strayed /\ sweeps' = [sweeps EXCEPT ![t] = below]
          BY <1>2 DEF Stops, SweepEnds
    <2>2. MemoryInv' /\ FrameInv'
          BY <2>1 DEF MemoryInv, FrameInv
    <2>3. QED
          BY <1>1, <2>1, <2>2
  <1>3. CASE Strays(v, st, n, i)
    <2>1. source_vector' = v /\ status' = st /\ strayed' = TRUE /\ sweeps' = sweeps
          BY <1>3 DEF Strays
    <2>2. MemoryInv' /\ FrameInv'
          BY <2>1 DEF MemoryInv, FrameInv
    <2>3. QED
          BY <1>1, <2>1, <2>2
  <1>4. ASSUME NEW k \in 1..Len(v), Takes(t, below, pass, v, st, n, i, k)
        PROVE  /\ source_vector' \in Seq(Handles) /\ status' \in [Handles -> Status]
               /\ sweeps' \in [Threads -> Seq(Frame)] /\ strayed' = FALSE
               /\ MemoryInv' /\ Framed(sweeps', status')
               /\ Doomed(status') = Doomed(st)
               /\ \A s \in Handles : st[s] = "live" => status'[s] = "live"
    <2> DEFINE x == v[k]
               r == sol_vector_del(v, k)
               f == [source |-> x, next |-> k - 1, pass |-> pass]
               frames == Append(below, f)
               st2 == [st EXCEPT ![x] = "disposed"]
               sw == [sweeps EXCEPT ![t] = below]
               sw2 == [sweeps EXCEPT ![t] = frames]
    <2>1. /\ st[x] = "marked" /\ source_vector' = r /\ status' = st2 /\ sweeps' = sw2 /\ strayed' = FALSE
          BY <1>4 DEF Takes
    <2>2. x \in Handles /\ Len(v) \in Nat
          BY ElementOfSeq, LenProperties
    <2>3. r \in Seq(Handles) /\ Distinct(r) /\ \A s : In(s, r) <=> In(s, v) /\ s # x
      <3>1. Distinct(v)
            BY DEF Held
      <3> HIDE DEF x, r
      <3>2. QED
            BY <3>1, DeletedEntries DEF x, r
    <2>4. f \in Frame
      <3>1. k - 1 \in Nat
            BY <2>2
      <3> HIDE DEF x
      <3>2. QED
            BY <2>2, <3>1 DEF Frame
    <2>5. /\ frames \in Seq(Frame) /\ Len(frames) = Len(below) + 1 /\ Len(below) \in Nat
          /\ \A j \in 1..Len(below) : frames[j] = below[j]
          /\ frames[Len(below) + 1] = f
      <3> HIDE DEF f
      <3>1. QED
            BY <2>4, AppendedEntries
    <2>6. st2 \in [Handles -> Status] /\ \A s \in Handles : st2[s] = IF s = x THEN "disposed" ELSE st[s]
      <3> HIDE DEF x
      <3>1. QED
            BY <2>2 DEF Status
    <2>7. sw2 \in [Threads -> Seq(Frame)]
      <3> HIDE DEF frames
      <3>1. QED
            BY <2>5
    <2>8. MemoryInv'
      <3> HIDE DEF x, r, st2
      <3>1. /\ Distinct(source_v_process')
            /\ \A s \in Handles : /\ ~(In(s, v) /\ In(s, source_v_process'))
                                  /\ In(s, v) \/ In(s, source_v_process') <=> st[s] \in {"live", "marked"}
            BY DEF Held
      <3>2. In(x, v)
            BY DEF In, x
      <3>3. \A s \in Handles : /\ ~(In(s, r) /\ In(s, source_v_process'))
                               /\ In(s, r) \/ In(s, source_v_process') <=> st2[s] \in {"live", "marked"}
            BY <2>1, <2>2, <2>3, <2>6, <3>1, <3>2
      <3>4. Held(r, source_v_process', st2)
            BY <2>3, <3>1, <3>3 DEF Held
      <3>5. QED
            BY <2>1, <3>4 DEF MemoryInv
    <2>9. Framed(sw2, st2)
      <3>1. /\ \A u \in Threads : sw[u] = IF u = t THEN below ELSE sweeps[u]
            /\ \A u \in Threads : sw2[u] = IF u = t THEN frames ELSE sweeps[u]
            BY <2>5
      <3>2. f.source = x
            OBVIOUS
      <3>3. Framed(sw, st)
            OBVIOUS
      <3>4. \A u \in Threads : \A j \in 1..Len(sw[u]) : /\ sw[u][j].source \in Handles
                                                        /\ st[sw[u][j].source] = "disposed"
        <4>1. sw \in [Threads -> Seq(Frame)]
              OBVIOUS
        <4> HIDE DEF sw
        <4>2. \A u \in Threads : \A j \in 1..Len(sw[u]) : sw[u][j].source \in Handles
              BY <4>1, FrameTypes
        <4>3. QED
              BY <4>2, <3>3 DEF Framed
      <3>5. \A u \in Threads : \A j \in 1..Len(sw[u]) :
              j \in 1..Len(sw2[u]) /\ sw2[u][j] = sw[u][j]
        <4> HIDE DEF frames, f, sw, sw2
        <4>1. SUFFICES ASSUME NEW u \in Threads, NEW j \in 1..Len(sw[u])
                       PROVE  j \in 1..Len(sw2[u]) /\ sw2[u][j] = sw[u][j]
              OBVIOUS
        <4>2. CASE u = t
              BY <4>2, <2>5, <3>1
        <4>3. CASE u # t
              BY <4>3, <3>1
        <4>4. QED
              BY <4>2, <4>3
      <3>6. \A u \in Threads : \A j \in 1..Len(sw2[u]) :
              \/ j \in 1..Len(sw[u]) /\ sw2[u][j] = sw[u][j]
              \/ u = t /\ j = Len(below) + 1 /\ sw2[u][j] = f
        <4> HIDE DEF frames, f, sw, sw2
        <4>1. QED
              BY <2>5, <3>1
      <3>7. Len(below) + 1 \in 1..Len(sw2[t]) /\ sw2[t][Len(below) + 1] = f
        <4> HIDE DEF frames, f, sw, sw2
        <4>1. QED
              BY <2>5, <3>1
      <3> HIDE DEF x, f, frames, sw, sw2, st2
      <3>8. \A u \in Threads : \A j \in 1..Len(sw2[u]) : st2[sw2[u][j].source] = "disposed"
        <4> SUFFICES ASSUME NEW u \in Threads, NEW j \in 1..Len(sw2[u])
                     PROVE  st2[sw2[u][j].source] = "disposed"
            OBVIOUS
        <4>1. CASE j \in 1..Len(sw[u]) /\ sw2[u][j] = sw[u][j]
              BY <4>1, <2>6, <3>4
        <4>2. CASE sw2[u][j] = f
              BY <4>2, <2>2, <2>6, <3>2
        <4>3. QED
              BY <4>1, <4>2, <3>6
      <3>9. \A s \in Handles : st2[s] = "disposed" =>
              \E u \in Threads : \E j \in 1..Len(sw2[u]) : sw2[u][j].source = s
        <4> SUFFICES ASSUME NEW s \in Handles, st2[s] = "disposed"
                     PROVE  \E u \in Threads : \E j \in 1..Len(sw2[u]) : sw2[u][j].source = s
            OBVIOUS
        <4>1. CASE s = x
              BY <4>1, <3>2, <3>7
        <4>2. CASE s # x
          <5>1. PICK u \in Threads : \E j \in 1..Len(sw[u]) : sw[u][j].source = s
                BY <4>2, <2>6, <3>3 DEF Framed
          <5>2. QED
                BY <5>1, <3>5
        <4>3. QED
              BY <4>1, <4>2
      <3>10. ASSUME NEW u \in Threads, NEW w \in Threads, NEW j \in 1..Len(sw2[u]), NEW l \in 1..Len(sw2[w]),
                    sw2[u][j].source = sw2[w][l].source
             PROVE  u = w /\ j = l
        <4>1. ASSUME NEW y \in Threads, NEW m \in 1..Len(sw[y]) PROVE sw[y][m].source # x
              BY <4>1, <2>1, <3>4
        <4>2. CASE j \in 1..Len(sw[u]) /\ sw2[u][j] = sw[u][j] /\ l \in 1..Len(sw[w]) /\ sw2[w][l] = sw[w][l]
              BY <4>2, <3>3, <3>10 DEF Framed
        <4>3. CASE u = t /\ j = Len(below) + 1 /\ sw2[u][j] = f
              BY <4>1, <4>3, <3>2, <3>6, <3>10
        <4>4. CASE w = t /\ l = Len(below) + 1 /\ sw2[w][l] = f
              BY <4>1, <4>4, <3>2, <3>6, <3>10
        <4>5. QED
              BY <4>2, <4>3, <4>4, <3>6
      <3>11. QED
             BY <3>8, <3>9, <3>10 DEF Framed
    <2>10. Doomed(st2) = Doomed(st) /\ \A s \in Handles : st[s] = "live" => st2[s] = "live"
      <3> HIDE DEF x, st2
      <3>1. QED
            BY <2>1, <2>2, <2>6 DEF Doomed
    <2> HIDE DEF x, r, f, frames, st2, sw, sw2
    <2>11. QED
           BY <2>1, <2>3, <2>6, <2>7, <2>8, <2>9, <2>10
  <1>5. CASE \E k \in 1..Len(v) : Takes(t, below, pass, v, st, n, i, k)
        BY <1>1, <1>4, <1>5 DEF FrameInv
  <1>6. QED
        BY <1>2, <1>3, <1>5, CleanupGoes


-----------------------------------------------------------------------------
(* The inductive invariant: initial states and the steps of a walk.        *)

\* Places are told apart by their two parts.
LEMMA PlacesDiffer ==
  /\ \A w, p : At(w, p)[1] = w /\ At(w, p)[2] = p /\ Between(w)[1] = w
  /\ \A w, p, x, q : At(w, p) = At(x, q) <=> w = x /\ p = q
  /\ \A w, x : Between(w) = Between(x) <=> w = x
  /\ \A w, x : \A p \in Passes : At(w, p) # Between(x)
  /\ \A p \in Passes : \A w \in InPass : At(w, p) \in Places
  /\ \A w \in {"outside", "prepared", "polling", "checked", "down"} : Between(w) \in Places
  /\ \A p \in Passes : After(p) \in {"outside", "prepared", "polling", "checked"}
  /\ \A m \in Places : \/ m[1] \in InPass /\ m[2] \in Passes /\ m = At(m[1], m[2])
                       \/ /\ m[1] \in {"outside", "prepared", "polling", "checked", "down"}
                          /\ m = Between(m[1])
  BY DEF At, Between, Passes, Places, InPass, After

LEMMA InitIInv == Init => IInv
  <1> SUFFICES ASSUME Init PROVE IInv
      OBVIOUS
  <1> USE DEF Init
  <1>1. 0 \in 0..Cardinality(Handles) /\ 0 \in 0..(Cardinality(Handles) + 1) /\ {} \subseteq Handles
    <2>1. Cardinality(Handles) \in Nat
          BY Countable
    <2>2. QED
          BY <2>1
  <1>2. <<>> \in Seq(Handles) /\ <<>> \in Seq(Frame) /\ \A s : ~In(s, <<>>)
        BY DEF In
  <1>3. TypeInv
        BY <1>1, <1>2 DEF TypeInv, TypeOK
  <1>4. MemoryInv
        BY <1>2 DEF MemoryInv, Held, Distinct
  <1>5. FrameInv
        BY DEF FrameInv, Framed
  <1>6. CountInv
    <2>1. Doomed(status) = {}
          BY DEF Doomed
    <2>2. QED
          BY <2>1, FS_EmptySet DEF CountInv
  <1>7. PlaceInv
    <2>1. MainThread \in Threads
          BY DEF Threads
    <2>2. QED
          BY <2>1, PlacesDiffer DEF PlaceInv, InPass
  <1>8. OwedInv
        BY DEF OwedInv
  <1>9. QED
        BY <1>3, <1>4, <1>5, <1>6, <1>7, <1>8 DEF IInv

\* What a step keeps that leaves the sources and the sweeps alone.
LEMMA SourcesKept ==
  ASSUME IInv, UNCHANGED <<status, source_pending_deletion, sweeps, strayed>>,
         mpc # Between("down")
  PROVE  FrameInv' /\ CountInv' /\ sweeps' \in [Threads -> Seq(Frame)]
  <1>1. FrameInv'
        BY DEF IInv, FrameInv, Framed
  <1>2. CountInv'
        BY DEF IInv, CountInv
  <1>3. QED
        BY <1>1, <1>2 DEF IInv, TypeInv

LEMMA StealPreserves ==
  ASSUME IInv, NEW p \in Passes, Steal(p), sources_ready' \in BOOLEAN,
         NEW w \in {"outside", "prepared", "polling", "checked"}, mpc = Between(w),
         sweeps[MainThread] = <<>>,
         owed # {} => sources_ready', p = "prepare" => owed = {}
  PROVE  IInv'
  <1> USE DEF Steal
  <1>1. source_v_process = <<>> /\ mpc # Between("down") /\ mpc[1] \notin InPass
        BY PlacesDiffer DEF IInv, PlaceInv, InPass
  <1>2. FrameInv' /\ CountInv' /\ sweeps' \in [Threads -> Seq(Frame)]
        BY <1>1, SourcesKept
  <1>3. <<>> \in Seq(Handles) /\ \A s : ~In(s, <<>>)
        BY DEF In
  <1>4. TypeInv'
    <2>1. Cardinality(Handles) \in Nat
          BY Countable
    <2>2. 1 \in 0..(Cardinality(Handles) + 1)
          BY <2>1
    <2>3. TypeOK'
          BY <1>3, <2>2 DEF IInv, TypeInv, TypeOK
    <2>4. QED
          BY <1>2, <2>3 DEF TypeInv
  <1>5. MemoryInv'
    <2>1. \A s \in Handles : In(s, source_vector) <=> status[s] \in {"live", "marked"}
          BY <1>1, <1>3 DEF IInv, MemoryInv, Held
    <2>2. Distinct(source_vector)
          BY DEF IInv, MemoryInv, Held
    <2>3. Held(<<>>, source_vector, status)
          BY <1>3, <2>1, <2>2 DEF Held, Distinct
    <2>4. QED
          BY <2>3 DEF MemoryInv
  <1>6. PlaceInv'
    <2>1. mpc' = At("walk", p) /\ mpc'[1] = "walk" /\ mpc' \in Places
          BY PlacesDiffer DEF InPass
    <2>2. Len(source_vector) \in Nat
          BY LenProperties DEF IInv, TypeInv, TypeOK
    <2>3. \A t \in Threads : \A k \in 1..Len(sweeps[t]) : sweeps[t][k].pass = "none"
          BY <1>1 DEF IInv, PlaceInv, InPass
    <2>4. QED
          BY <2>1, <2>2, <2>3 DEF PlaceInv, InPass
  <1>7. OwedInv'
    <2>1. mpc' = At("walk", p) /\ mpc' \notin {Between("outside"), Between("down")}
          BY PlacesDiffer
    <2>2. /\ owed # {} => run_loop /\ sources_ready'
          /\ \A s \in owed : status[s] = "live" /\ ready[s]
          BY DEF IInv, OwedInv
    <2>3. \A s \in owed : \E j \in 1..Len(source_vector) : source_vector[j] = s
      <3>1. \A s \in owed : s \in Handles /\ In(s, source_vector)
            BY <1>1, <1>3, <2>2 DEF IInv, TypeInv, TypeOK, MemoryInv, Held
      <3>2. QED
            BY <3>1 DEF In
    <2>4. At("walk", p) # At("sweep", "dispatch") /\ At("walk", p) # At("cb", "prepare") /\ At("walk", p) # At("cb", "dispatch")
          BY PlacesDiffer
    <2>5. At("walk", p) = At("walk", "prepare") => p = "prepare"
          BY PlacesDiffer
    <2>6. QED
          BY <2>1, <2>2, <2>3, <2>4, <2>5 DEF OwedInv
  <1>8. QED
        BY <1>2, <1>4, <1>5, <1>6, <1>7 DEF IInv

LEMMA BeginsPreserves ==
  ASSUME IInv, PrepareBegins \/ GetNextTimeoutBegins \/ CheckBegins \/ DispatchBegins
  PROVE  IInv'
  <1> USE DEF InDispose
  <1>1. CASE PrepareBegins
    <2>1. owed = {}
          BY <1>1 DEF PrepareBegins, IInv, OwedInv
    <2>2. QED
          BY <1>1, <2>1, StealPreserves DEF PrepareBegins, Passes
  <1>2. CASE GetNextTimeoutBegins
    <2>1. sweeps[MainThread] = <<>>
          BY <1>2, PlacesDiffer DEF GetNextTimeoutBegins, IInv, PlaceInv
    <2>2. sources_ready' \in BOOLEAN /\ (owed # {} => sources_ready')
          BY <1>2 DEF GetNextTimeoutBegins, IInv, OwedInv, TypeInv, TypeOK
    <2>3. QED
          BY <1>2, <2>1, <2>2, StealPreserves DEF GetNextTimeoutBegins, Passes
  <1>3. CASE CheckBegins
    <2>1. sources_ready' \in BOOLEAN /\ (owed # {} => sources_ready')
          BY <1>3 DEF CheckBegins, IInv, OwedInv, TypeInv, TypeOK
    <2>2. QED
          BY <1>3, <2>1, StealPreserves DEF CheckBegins, Passes
  <1>4. CASE DispatchBegins
    <2>1. sweeps[MainThread] = <<>>
          BY <1>4, PlacesDiffer DEF DispatchBegins, IInv, PlaceInv
    <2>2. sources_ready' \in BOOLEAN /\ sources_ready'
          BY <1>4 DEF DispatchBegins, IInv, TypeInv, TypeOK
    <2>3. QED
          BY <1>4, <2>1, <2>2, StealPreserves DEF DispatchBegins, Passes
  <1>5. QED
        BY <1>1, <1>2, <1>3, <1>4

LEMMA MovesOnPreserves ==
  ASSUME IInv, IdlerFirst \/ NothingReady
  PROVE  IInv'
  <1>1. PICK w \in {"prepared", "checked"}, x \in {"outside", "polling"} :
          /\ mpc = Between(w) /\ mpc' = Between(x)
          /\ x = "outside" => ~sources_ready
          /\ UNCHANGED <<status, ready, vectorVars, source_pending_deletion, source_processing,
                         run_loop, sources_ready, at, sweeps, owed, strayed>>
    <2>1. CASE IdlerFirst
          BY <2>1 DEF IdlerFirst
    <2>2. CASE NothingReady
          BY <2>2 DEF NothingReady
    <2>3. QED
          BY <2>1, <2>2
  <1> USE DEF vectorVars
  <1>2. mpc # Between("down") /\ mpc[1] \notin InPass
        BY <1>1, PlacesDiffer DEF InPass
  <1>3. FrameInv' /\ CountInv' /\ sweeps' \in [Threads -> Seq(Frame)]
        BY <1>1, <1>2, SourcesKept
  <1>4. TypeInv' /\ MemoryInv'
        BY <1>1, <1>3 DEF IInv, TypeInv, TypeOK, MemoryInv
  <1>5. PlaceInv'
    <2>1. mpc' \in Places /\ mpc'[1] \in {"outside", "polling"}
          BY <1>1, PlacesDiffer
    <2>2. QED
          BY <1>1, <1>2, <2>1 DEF IInv, PlaceInv, InPass
  <1>6. OwedInv'
    <2>1. owed # {} => mpc' = Between("polling")
          BY <1>1 DEF IInv, OwedInv
    <2>2. /\ Between("polling") # Between("outside") /\ Between("polling") # Between("down")
          /\ \A y : \A p \in Passes : At(y, p) # Between("polling")
          BY PlacesDiffer
    <2>3. QED
          BY <1>1, <2>1, <2>2 DEF IInv, OwedInv, Passes
  <1>7. QED
        BY <1>3, <1>4, <1>5, <1>6 DEF IInv

\* In a walk, the index is within the vector, and so is the one after it.
LEMMA WalkIndex ==
  ASSUME IInv, NEW p \in Passes, mpc = At("walk", p) \/ mpc = At("cb", p)
  PROVE  /\ Len(source_v_process) \in Nat /\ at \in Nat /\ at >= 1
         /\ \A j \in 1..Len(source_v_process) : source_v_process[j] \in Handles
         /\ at <= Len(source_v_process) => at + 1 \in 0..(Cardinality(Handles) + 1)
         /\ mpc = At("cb", p) => at <= Len(source_v_process)
         /\ mpc # Between("down") /\ mpc[1] \in {"walk", "cb"} /\ sweeps[MainThread] = <<>>
         /\ \A j, k \in 1..Len(source_v_process) : source_v_process[j] = source_v_process[k] => j = k
  <1>1. source_v_process \in Seq(Handles) /\ Distinct(source_v_process)
        BY DEF IInv, TypeInv, TypeOK, MemoryInv, Held
  <1>2. /\ Len(source_v_process) \in Nat
        /\ \A j \in 1..Len(source_v_process) : source_v_process[j] \in Handles
        BY <1>1, LenProperties, ElementOfSeq
  <1>3. /\ mpc = At("walk", p) => mpc[1] = "walk"
        /\ mpc = At("cb", p) => mpc[1] = "cb"
        /\ mpc # Between("down")
        BY PlacesDiffer
  <1>4. /\ at \in 1..(Len(source_v_process) + 1)
        /\ mpc[1] = "cb" => at <= Len(source_v_process)
        /\ sweeps[MainThread] = <<>>
        BY <1>2, <1>3 DEF IInv, PlaceInv
  <1>5. Len(source_v_process) \in 0..Cardinality(Handles)
        BY <1>1, NoLongerThanHandles
  <1>6. Cardinality(Handles) \in Nat
        BY Countable
  <1>7. QED
        BY <1>1, <1>2, <1>3, <1>4, <1>5, <1>6 DEF Distinct

LEMMA SkipPreserves ==
  ASSUME IInv, NEW p \in Passes, Skip(p)
  PROVE  IInv'
  <1> USE DEF vectorVars
  <1>1. /\ mpc = At("walk", p) /\ at <= Len(source_v_process) /\ at' = at + 1
        /\ UNCHANGED <<status, ready, vectorVars, source_pending_deletion, source_processing,
                       run_loop, sources_ready, mpc, sweeps, owed, strayed>>
        BY DEF Skip, Goes
  <1>2. /\ Len(source_v_process) \in Nat /\ at \in Nat /\ at >= 1
        /\ at + 1 \in 0..(Cardinality(Handles) + 1) /\ mpc # Between("down")
        BY <1>1, WalkIndex
  <1>3. FrameInv' /\ CountInv' /\ sweeps' \in [Threads -> Seq(Frame)]
        BY <1>1, <1>2, SourcesKept
  <1>4. TypeInv' /\ MemoryInv'
        BY <1>1, <1>2, <1>3 DEF IInv, TypeInv, TypeOK, MemoryInv
  <1>5. PlaceInv'
    <2>1. mpc[1] = "walk"
          BY <1>1, PlacesDiffer
    <2>2. QED
          BY <1>1, <1>2, <2>1 DEF IInv, PlaceInv
  <1>6. OwedInv'
    <2>1. ASSUME NEW s \in owed, p = "dispatch"
          PROVE  \E j \in (at + 1)..Len(source_v_process) : source_v_process[j] = s
      <3>1. PICK j \in at..Len(source_v_process) : source_v_process[j] = s
            BY <1>1, <2>1 DEF IInv, OwedInv
      <3>2. status[s] = "live" /\ ready[s]
            BY DEF IInv, OwedInv
      <3>3. s # source_v_process[at]
            BY <3>2 DEF Skip, Called, Current
      <3>4. QED
            BY <1>2, <3>1, <3>3
    <2>2. ASSUME NEW s \in owed, p = "prepare"
          PROVE  \E j \in 1..((at + 1) - 1) : source_v_process[j] = s
      <3>1. PICK j \in 1..(at - 1) : source_v_process[j] = s
            BY <1>1, <2>2 DEF IInv, OwedInv
      <3>2. QED
            BY <1>2, <3>1
    <2>3. /\ At("walk", p) # At("cb", "prepare") /\ At("walk", p) # At("cb", "dispatch")
          /\ At("walk", p) = At("walk", "prepare") => p = "prepare"
          /\ At("walk", p) = At("walk", "dispatch") => p = "dispatch"
          BY PlacesDiffer
    <2>4. QED
          BY <1>1, <2>1, <2>2, <2>3 DEF IInv, OwedInv
  <1>7. QED
        BY <1>3, <1>4, <1>5, <1>6 DEF IInv

LEMMA CallPreserves ==
  ASSUME IInv, NEW p \in Passes, Call(p)
  PROVE  IInv'
  <1> USE DEF vectorVars
  <1>1. /\ mpc = At("walk", p) /\ at <= Len(source_v_process) /\ mpc' = At("cb", p)
        /\ owed' = IF p = "dispatch" THEN owed \ {Current} ELSE owed
        /\ UNCHANGED <<status, ready, vectorVars, source_pending_deletion, source_processing,
                       run_loop, sources_ready, at, sweeps, strayed>>
        BY DEF Call, Goes
  <1>2. /\ Len(source_v_process) \in Nat /\ at \in Nat /\ at >= 1 /\ mpc # Between("down")
        /\ sweeps[MainThread] = <<>>
        BY <1>1, WalkIndex
  <1>3. FrameInv' /\ CountInv' /\ sweeps' \in [Threads -> Seq(Frame)]
        BY <1>1, <1>2, SourcesKept
  <1>4. TypeInv' /\ MemoryInv'
        BY <1>1, <1>2, <1>3 DEF IInv, TypeInv, TypeOK, MemoryInv
  <1>5. PlaceInv'
    <2>1. mpc[1] = "walk" /\ mpc'[1] = "cb" /\ mpc' \in Places
          BY <1>1, PlacesDiffer DEF InPass
    <2>2. QED
          BY <1>1, <1>2, <2>1 DEF IInv, PlaceInv, InPass
  <1>6. OwedInv'
    <2>1. ASSUME NEW s \in owed', p = "dispatch"
          PROVE  \E j \in (at + 1)..Len(source_v_process) : source_v_process[j] = s
      <3>1. PICK j \in at..Len(source_v_process) : source_v_process[j] = s
            BY <1>1, <2>1 DEF IInv, OwedInv
      <3>2. s # source_v_process[at]
            BY <1>1, <2>1 DEF Current
      <3>3. QED
            BY <1>2, <3>1, <3>2
    <2>2. ASSUME NEW s \in owed', p = "prepare"
          PROVE  \E j \in 1..(at - 1) : source_v_process[j] = s
          BY <1>1, <2>2 DEF IInv, OwedInv
    <2>3. /\ At("cb", p) # At("walk", "prepare") /\ At("cb", p) # At("walk", "dispatch")
          /\ At("cb", p) # At("sweep", "dispatch")
          /\ At("cb", p) # Between("outside") /\ At("cb", p) # Between("down")
          /\ At("cb", p) = At("cb", "prepare") => p = "prepare"
          /\ At("cb", p) = At("cb", "dispatch") => p = "dispatch"
          BY PlacesDiffer
    <2>4. owed' \subseteq owed
          BY <1>1
    <2>5. /\ owed' # {} => run_loop' /\ sources_ready'
          /\ \A s \in owed' : status'[s] = "live" /\ ready'[s]
          BY <1>1, <2>4 DEF IInv, OwedInv
    <2>6. QED
          BY <1>1, <2>1, <2>2, <2>3, <2>5 DEF OwedInv
  <1>7. QED
        BY <1>3, <1>4, <1>5, <1>6 DEF IInv

LEMMA ReturnPreserves ==
  ASSUME IInv, NEW p \in Passes, NEW result \in BOOLEAN, Return(p, result)
  PROVE  IInv'
  <1> USE DEF vectorVars
  <1> DEFINE c == source_v_process[at]
             said == p \in {"prepare", "check"} /\ result /\ run_loop /\ status[c] = "live"
  <1>1. /\ mpc = At("cb", p) /\ mpc' = At("walk", p) /\ at' = at + 1
        /\ ready' = [ready EXCEPT ![c] = ReadyAfter(p, result)]
        /\ sources_ready' = (sources_ready \/ (p \in {"prepare", "check"} /\ ready'[c]))
        /\ owed' = IF said THEN owed \cup {c} ELSE owed
        /\ UNCHANGED <<status, vectorVars, source_pending_deletion, source_processing, run_loop,
                       sweeps, strayed>>
        BY DEF Return, Current
  <1>2. /\ Len(source_v_process) \in Nat /\ at \in Nat /\ at >= 1 /\ at <= Len(source_v_process)
        /\ at + 1 \in 0..(Cardinality(Handles) + 1) /\ mpc # Between("down")
        /\ sweeps[MainThread] = <<>>
        BY <1>1, WalkIndex
  <1>3. c \in Handles /\ \A j \in 1..Len(source_v_process) : source_v_process[j] = c => j = at
        BY <1>1, <1>2, WalkIndex
  <1> HIDE DEF c
  <1>4. ready \in [Handles -> BOOLEAN] /\ owed \subseteq Handles /\ sources_ready \in BOOLEAN
        BY DEF IInv, TypeInv, TypeOK
  <1>5. /\ ReadyAfter(p, result) \in BOOLEAN
        /\ p = "prepare" => ReadyAfter(p, result) = result
        /\ p = "timeout" => ReadyAfter(p, result) = ready[c]
        /\ p = "check" => ReadyAfter(p, result) = (ready[c] \/ result)
        /\ p = "dispatch" => ReadyAfter(p, result) = FALSE
        BY <1>3, <1>4, Zenon DEF ReadyAfter, Passes, Current, c
  <1>6. /\ ready' \in [Handles -> BOOLEAN] /\ ready'[c] = ReadyAfter(p, result)
        /\ \A s \in Handles : s # c => ready'[s] = ready[s]
        BY <1>1, <1>3, <1>4, <1>5
  <1>7. sources_ready' \in BOOLEAN /\ owed' \subseteq Handles
        BY <1>1, <1>3, <1>4, <1>5, <1>6
  <1>8. FrameInv' /\ CountInv' /\ sweeps' \in [Threads -> Seq(Frame)]
        BY <1>1, <1>2, SourcesKept
  <1>9. TypeInv' /\ MemoryInv'
        BY <1>1, <1>2, <1>6, <1>7, <1>8 DEF IInv, TypeInv, TypeOK, MemoryInv
  <1>10. PlaceInv'
    <2>1. mpc[1] = "cb" /\ mpc'[1] = "walk" /\ mpc' \in Places
          BY <1>1, PlacesDiffer DEF InPass
    <2>2. QED
          BY <1>1, <1>2, <2>1 DEF IInv, PlaceInv, InPass
  <1>11. /\ owed # {} => run_loop /\ sources_ready
         /\ \A s \in owed : status[s] = "live" /\ ready[s]
         BY DEF IInv, OwedInv
  <1>12. \A s \in owed : p \in {"prepare", "dispatch"} => s # c
    <2>1. CASE p = "prepare"
      <3>1. \A s \in owed : \E j \in 1..(at - 1) : source_v_process[j] = s
            BY <1>1, <2>1 DEF IInv, OwedInv
      <3>2. QED
            BY <1>2, <1>3, <3>1
    <2>2. CASE p = "dispatch"
      <3>1. \A s \in owed : \E j \in (at + 1)..Len(source_v_process) : source_v_process[j] = s
            BY <1>1, <2>2 DEF IInv, OwedInv
      <3>2. QED
            BY <1>2, <1>3, <3>1
    <2>3. QED
          BY <2>1, <2>2
  <1>13. /\ owed' # {} => run_loop' /\ sources_ready'
         /\ \A s \in owed' : status'[s] = "live" /\ ready'[s]
    <2>1. said => ready'[c] /\ status[c] = "live" /\ run_loop /\ sources_ready'
          BY <1>1, <1>5, <1>6
    <2>2. sources_ready => sources_ready'
          BY <1>1
    <2>3. \A s \in owed : ready'[s]
      <3>1. SUFFICES ASSUME NEW s \in owed, s = c PROVE ready'[s]
            BY <1>4, <1>6, <1>11
      <3>2. p \in {"timeout", "check"}
            BY <3>1, <1>12 DEF Passes
      <3>3. ready[c]
            BY <3>1, <1>11
      <3>4. QED
            BY <3>1, <3>2, <3>3, <1>5, <1>6
    <2> HIDE DEF said
    <2>4. QED
          BY <1>1, <1>11, <2>1, <2>2, <2>3
  <1>14. OwedInv'
    <2>1. ASSUME NEW s \in owed', p = "dispatch"
          PROVE  \E j \in (at + 1)..Len(source_v_process) : source_v_process[j] = s
          BY <1>1, <2>1 DEF IInv, OwedInv
    <2>2. ASSUME NEW s \in owed', p = "prepare"
          PROVE  \E j \in 1..((at + 1) - 1) : source_v_process[j] = s
      <3>1. CASE s = c
            BY <3>1, <1>2 DEF c
      <3>2. CASE s \in owed
        <4>1. PICK j \in 1..(at - 1) : source_v_process[j] = s
              BY <1>1, <2>2, <3>2 DEF IInv, OwedInv
        <4>2. QED
              BY <1>2, <4>1
      <3>3. QED
            BY <3>1, <3>2, <1>1
    <2>3. /\ At("walk", p) # At("cb", "prepare") /\ At("walk", p) # At("cb", "dispatch")
          /\ At("walk", p) # At("sweep", "dispatch")
          /\ At("walk", p) # Between("outside") /\ At("walk", p) # Between("down")
          /\ At("walk", p) = At("walk", "prepare") => p = "prepare"
          /\ At("walk", p) = At("walk", "dispatch") => p = "dispatch"
          BY PlacesDiffer
    <2>4. QED
          BY <1>1, <1>13, <2>1, <2>2, <2>3 DEF OwedInv
  <1>15. QED
         BY <1>8, <1>9, <1>10, <1>14 DEF IInv

-----------------------------------------------------------------------------
(* The inductive invariant: the steps of source_cleanup().                 *)

\* Where a stretch of source_cleanup() leads: out of the vector, on in a deletion
\* outside of a pass, to the end of the pass, or into the sweep that ends it.
Lost(v, i) ==
  /\ strayed' = TRUE /\ i > Len(v)
  /\ UNCHANGED <<sweeps, source_processing, mpc, at>>

StaysInPlace(t, below, pass) ==
  /\ pass = "none"
  /\ UNCHANGED <<source_processing, mpc, at>>
  /\ \A u \in Threads : u # t => sweeps'[u] = sweeps[u]
  /\ \A k \in 1..Len(sweeps'[t]) : \/ k \in 1..Len(below) /\ sweeps'[t][k] = below[k]
                                  \/ sweeps'[t][k].pass = "none"

LeavesPass(t, below, pass) ==
  /\ pass # "none" /\ source_processing' = FALSE
  /\ mpc' = Between(After(pass)) /\ at' = 0
  /\ sweeps' = [sweeps EXCEPT ![t] = below]

SweepsPass(t, below, pass) ==
  /\ pass # "none" /\ mpc' = At("sweep", pass)
  /\ UNCHANGED <<source_processing, at>>
  /\ \A u \in Threads : u # t => sweeps'[u] = sweeps[u]
  /\ Len(sweeps'[t]) = Len(below) + 1
  /\ sweeps'[t][Len(below) + 1].pass = pass

LEMMA CleanupPlace ==
  ASSUME NEW t, NEW below, NEW pass, NEW v, NEW st, NEW n, NEW i,
         Sweeping(t, below, pass, v, st, n, i)
  PROVE  \/ Lost(v, i) \/ StaysInPlace(t, below, pass)
         \/ LeavesPass(t, below, pass) \/ SweepsPass(t, below, pass)
  <1>0. /\ t \in Threads /\ below \in Seq(Frame) /\ pass \in Passes \cup {"none"}
        /\ v \in Seq(Handles) /\ i \in Nat /\ sweeps \in [Threads -> Seq(Frame)]
        /\ source_cleanup(t, below, pass, v, st, n, i)
        BY DEF Sweeping
  <1> USE <1>0
  <1>1. CASE Stops(t, below, pass, v, st, n, i)
    <2>1. SweepEnds(t, below, pass)
          BY <1>1 DEF Stops
    <2>2. sweeps'[t] = below /\ \A u \in Threads : u # t => sweeps'[u] = sweeps[u]
          BY <2>1 DEF SweepEnds
    <2>3. Len(below) \in Nat
          BY LenProperties
    <2>4. QED
          BY <2>1, <2>2, <2>3 DEF SweepEnds, StaysInPlace, LeavesPass
  <1>2. CASE Strays(v, st, n, i)
        BY <1>2 DEF Strays, Lost
  <1>3. ASSUME NEW k \in 1..Len(v), Takes(t, below, pass, v, st, n, i, k)
        PROVE  /\ mpc' = IF pass = "none" THEN mpc ELSE At("sweep", pass)
               /\ UNCHANGED <<source_processing, at>>
               /\ \A u \in Threads : u # t => sweeps'[u] = sweeps[u]
               /\ Len(below) \in Nat /\ Len(sweeps'[t]) = Len(below) + 1
               /\ sweeps'[t][Len(below) + 1].pass = pass
               /\ \A j \in 1..Len(below) : sweeps'[t][j] = below[j]
    <2> DEFINE f == [source |-> v[k], next |-> k - 1, pass |-> pass]
    <2>1. /\ mpc' = IF pass = "none" THEN mpc ELSE At("sweep", pass)
          /\ UNCHANGED <<source_processing, at>>
          /\ sweeps' = [sweeps EXCEPT ![t] = Append(below, f)]
          BY <1>3 DEF Takes
    <2>2. f \in Frame /\ f.pass = pass
      <3>1. v[k] \in Handles /\ k - 1 \in Nat
            BY ElementOfSeq, LenProperties
      <3>2. QED
            BY <3>1 DEF Frame
    <2> HIDE DEF f
    <2>3. /\ Len(Append(below, f)) = Len(below) + 1 /\ Len(below) \in Nat
          /\ \A j \in 1..Len(below) : Append(below, f)[j] = below[j]
          /\ Append(below, f)[Len(below) + 1] = f
          BY <2>2, AppendedEntries
    <2>4. QED
          BY <2>1, <2>2, <2>3
  <1>4. CASE \E k \in 1..Len(v) : Takes(t, below, pass, v, st, n, i, k)
    <2>1. /\ mpc' = IF pass = "none" THEN mpc ELSE At("sweep", pass)
          /\ UNCHANGED <<source_processing, at>>
          /\ \A u \in Threads : u # t => sweeps'[u] = sweeps[u]
          /\ Len(below) \in Nat /\ Len(sweeps'[t]) = Len(below) + 1
          /\ sweeps'[t][Len(below) + 1].pass = pass
          /\ \A j \in 1..Len(below) : sweeps'[t][j] = below[j]
          BY <1>3, <1>4
    <2>2. \A k \in 1..Len(sweeps'[t]) : k \in 1..Len(below) \/ k = Len(below) + 1
          BY <2>1
    <2>3. CASE pass = "none"
          BY <2>1, <2>2, <2>3 DEF StaysInPlace
    <2>4. CASE pass # "none"
          BY <2>1, <2>4 DEF SweepsPass
    <2>5. QED
          BY <2>3, <2>4
  <1>5. QED
        BY <1>1, <1>2, <1>4, CleanupGoes

LEMMA CleanupPreserves ==
  ASSUME IInv, mpc # Between("down"),
         NEW t, NEW below, NEW pass, NEW v, NEW st, NEW n, NEW i,
         Sweeping(t, below, pass, v, st, n, i),
         UNCHANGED <<ready, run_loop, sources_ready>>,
         owed' \subseteq owed, \A s \in owed' : st[s] = "live",
         pass = "none" => /\ source_v_process' = source_v_process
                          /\ t = MainThread => mpc[1] \in {"outside", "polling"}
                          /\ \A k \in 1..Len(below) : below[k].pass = "none",
         pass # "none" => /\ t = MainThread /\ below = <<>> /\ source_v_process' = <<>>
                          /\ mpc = At("sweep", pass) \/ (mpc = At("walk", pass) /\ i = Len(v))
                          /\ pass = "dispatch" => owed' = {}
  PROVE  IInv'
  <1>1. /\ t \in Threads /\ pass \in Passes \cup {"none"} /\ v \in Seq(Handles) /\ i \in Nat
        /\ sweeps \in [Threads -> Seq(Frame)] /\ source_v_process' \in Seq(Handles) /\ TypeOK
        BY DEF IInv, TypeInv, Sweeping
  <1>2. /\ source_vector' \in Seq(Handles) /\ status' \in [Handles -> Status]
        /\ sweeps' \in [Threads -> Seq(Frame)] /\ strayed' \in BOOLEAN
        /\ MemoryInv' /\ FrameInv'
        /\ source_pending_deletion' = Cardinality(Doomed(status'))
        /\ source_pending_deletion' \in 0..Cardinality(Handles)
        /\ \A s \in Handles : st[s] = "live" => status'[s] = "live"
        BY CleanupKeeps
  <1>3. CountInv'
        BY <1>2 DEF CountInv
  <1>4. owed' \subseteq Handles /\ at \in 0..(Cardinality(Handles) + 1) /\ source_processing \in BOOLEAN
        BY <1>1 DEF TypeOK
  <1>5. /\ owed' # {} => run_loop' /\ sources_ready'
        /\ \A s \in owed' : status'[s] = "live" /\ ready'[s]
        BY <1>2, <1>4 DEF IInv, OwedInv
  <1>6. ASSUME at' \in 0..(Cardinality(Handles) + 1), source_processing' \in BOOLEAN
        PROVE  TypeInv'
        BY <1>1, <1>2, <1>4, <1>6 DEF TypeInv, TypeOK, Status
  <1>7. MainThread \in Threads
        BY DEF Threads
  <1>8. CASE Lost(v, i)
    <2>1. Len(v) \in Nat
          BY <1>1, LenProperties
    <2>2. source_v_process' = source_v_process
      <3>1. CASE pass = "none"
            BY <3>1
      <3>2. CASE pass # "none"
        <4>1. mpc = At("sweep", pass) /\ source_v_process' = <<>>
              BY <3>2, <2>1, <1>8 DEF Lost
        <4>2. mpc[1] = "sweep"
              BY <4>1, PlacesDiffer
        <4>3. QED
              BY <4>1, <4>2 DEF IInv, PlaceInv
      <3>3. QED
            BY <3>1, <3>2
    <2>3. PlaceInv'
          BY <1>8, <2>2 DEF IInv, PlaceInv, Lost
    <2>4. OwedInv'
          BY <1>5, <1>8, <2>2 DEF IInv, OwedInv, Lost
    <2>5. QED
          BY <1>2, <1>3, <1>4, <1>6, <1>8, <2>3, <2>4 DEF IInv, Lost
  <1>9. CASE StaysInPlace(t, below, pass)
    <2>1. source_v_process' = source_v_process /\ (t = MainThread => mpc[1] \in {"outside", "polling"})
          BY <1>9 DEF StaysInPlace
    <2>2. \A k \in 1..Len(sweeps'[t]) : sweeps'[t][k].pass = "none"
          BY <1>9 DEF StaysInPlace
    <2>3. PlaceInv'
      <3>1. /\ mpc' \in Places
            /\ source_processing' <=> mpc'[1] \in InPass
            /\ mpc'[1] \notin {"walk", "cb"} => source_v_process' = <<>>
            /\ mpc'[1] = "walk" => at' \in 1..(Len(source_v_process') + 1)
            /\ mpc'[1] = "cb" => at' \in 1..Len(source_v_process')
            BY <1>9, <2>1 DEF IInv, PlaceInv, StaysInPlace
      <3>2. /\ mpc'[1] \notin {"outside", "polling", "sweep"} => sweeps'[MainThread] = <<>>
            /\ mpc'[1] = "sweep" => Len(sweeps'[MainThread]) = 1 /\ sweeps'[MainThread][1].pass = mpc'[2]
            BY <1>7, <1>9, <2>1 DEF IInv, PlaceInv, StaysInPlace
      <3>3. mpc'[1] # "down"
            BY <1>9, PlacesDiffer DEF IInv, PlaceInv, StaysInPlace, InPass
      <3>4. \A u \in Threads : u # MainThread \/ mpc'[1] # "sweep" =>
              \A k \in 1..Len(sweeps'[u]) : sweeps'[u][k].pass = "none"
            BY <1>9, <2>2 DEF IInv, PlaceInv, StaysInPlace
      <3>5. QED
            BY <3>1, <3>2, <3>3, <3>4 DEF PlaceInv
    <2>4. OwedInv'
          BY <1>5, <1>9, <2>1 DEF IInv, OwedInv, StaysInPlace
    <2>5. QED
          BY <1>2, <1>3, <1>4, <1>6, <1>9, <2>3, <2>4 DEF IInv, StaysInPlace
  <1>10. ASSUME pass # "none"
         PROVE  /\ pass \in Passes /\ t = MainThread /\ below = <<>> /\ source_v_process' = <<>>
                /\ mpc[1] \in InPass /\ (pass = "dispatch" => owed' = {})
                /\ \A u \in Threads : u # t => \A k \in 1..Len(sweeps[u]) : sweeps[u][k].pass = "none"
    <2>1. mpc[1] \in InPass
          BY <1>10, PlacesDiffer DEF InPass
    <2>2. QED
          BY <1>1, <1>10, <2>1 DEF IInv, PlaceInv
  <1>11. CASE LeavesPass(t, below, pass)
    <2>1. /\ sweeps'[MainThread] = <<>>
          /\ \A u \in Threads : u # MainThread => sweeps'[u] = sweeps[u]
          BY <1>1, <1>7, <1>10, <1>11 DEF LeavesPass
    <2>2. /\ mpc' \in Places /\ mpc'[1] \in {"outside", "prepared", "polling", "checked"}
          BY <1>10, <1>11, PlacesDiffer DEF LeavesPass
    <2>3. PlaceInv'
          BY <1>10, <1>11, <2>1, <2>2 DEF PlaceInv, InPass, LeavesPass
    <2>4. OwedInv'
      <3>1. /\ mpc' # Between("down")
            /\ \A w : \A p \in Passes : mpc' # At(w, p)
            BY <2>2, <1>10, <1>11, PlacesDiffer DEF LeavesPass
      <3>2. mpc' = Between("outside") => pass = "dispatch"
        <4>1. mpc' = Between("outside") => After(pass) = "outside"
              BY <1>11, PlacesDiffer DEF LeavesPass
        <4>2. After(pass) = "outside" => pass = "dispatch"
              BY <1>10, <1>11 DEF After, Passes, LeavesPass
        <4>3. QED
              BY <4>1, <4>2
      <3>3. QED
            BY <1>5, <1>10, <1>11, <3>1, <3>2 DEF OwedInv, Passes, LeavesPass
    <2>5. at' \in 0..(Cardinality(Handles) + 1)
          BY <1>11, Countable DEF LeavesPass
    <2>6. QED
          BY <1>2, <1>3, <1>6, <1>11, <2>3, <2>4, <2>5 DEF IInv, LeavesPass
  <1>12. CASE SweepsPass(t, below, pass)
    <2>1. Len(sweeps'[MainThread]) = 1 /\ sweeps'[MainThread][1].pass = pass
      <3>1. Len(below) = 0
            BY <1>10, <1>12 DEF SweepsPass
      <3>2. QED
            BY <1>10, <1>12, <3>1 DEF SweepsPass
    <2>2. mpc' \in Places /\ mpc'[1] = "sweep" /\ mpc'[2] = pass
          BY <1>10, <1>12, PlacesDiffer DEF InPass, SweepsPass
    <2>3. source_processing'
          BY <1>10, <1>12 DEF IInv, PlaceInv, SweepsPass
    <2>4. PlaceInv'
          BY <1>10, <1>12, <2>1, <2>2, <2>3 DEF PlaceInv, InPass, SweepsPass
    <2>5. OwedInv'
      <3>1. /\ mpc' # Between("down") /\ mpc' # Between("outside")
            /\ \A p \in Passes : mpc' # At("walk", p) /\ mpc' # At("cb", p)
            /\ mpc' = At("sweep", "dispatch") => pass = "dispatch"
            BY <1>10, <1>12, PlacesDiffer DEF SweepsPass
      <3>2. QED
            BY <1>5, <1>10, <1>12, <3>1 DEF OwedInv, Passes, SweepsPass
    <2>6. QED
          BY <1>2, <1>3, <1>4, <1>6, <1>12, <2>4, <2>5 DEF IInv, SweepsPass
  <1>13. QED
         BY <1>8, <1>9, <1>11, <1>12, CleanupPlace

\* The stretch of source_cleanup() at the end of a pass.
LEMMA PassEndsSweeps ==
  ASSUME IInv, NEW p \in Passes, strayed = FALSE, PassEnds(p)
  PROVE  LET v == source_vector \o source_v_process IN
         Sweeping(MainThread, <<>>, p, v, status, source_pending_deletion, Len(v))
  <1> DEFINE v == source_vector \o source_v_process
  <1>1. /\ mpc = At("walk", p) /\ source_v_process' = <<>>
        /\ at > Len(source_v_process) \/ (~run_loop /\ p # "timeout")
        /\ source_cleanup(MainThread, <<>>, p, v, status, source_pending_deletion, Len(v))
        /\ UNCHANGED <<ready, run_loop, sources_ready, owed>>
        BY DEF PassEnds
  <1>2. /\ mpc # Between("down") /\ sweeps[MainThread] = <<>>
        /\ Len(source_v_process) \in Nat /\ at \in Nat
        BY <1>1, WalkIndex
  <1>3. /\ source_vector \in Seq(Handles) /\ source_v_process \in Seq(Handles)
        /\ status \in [Handles -> Status] /\ sweeps \in [Threads -> Seq(Frame)]
        BY DEF IInv, TypeInv, TypeOK, Status
  <1>4. v \in Seq(Handles) /\ Len(v) \in Nat /\ Held(v, <<>>, status)
    <2>1. /\ v \in Seq(Handles)
          /\ \A y : In(y, v) <=> In(y, source_vector) \/ In(y, source_v_process)
          /\ Distinct(source_vector) /\ Distinct(source_v_process)
             /\ (\A y : ~(In(y, source_vector) /\ In(y, source_v_process))) => Distinct(v)
          BY <1>3, JoinedEntries
    <2> HIDE DEF v
    <2>2. /\ Distinct(source_vector) /\ Distinct(source_v_process)
          /\ \A s \in Handles : /\ ~(In(s, source_vector) /\ In(s, source_v_process))
                                /\ In(s, source_vector) \/ In(s, source_v_process)
                                     <=> status[s] \in {"live", "marked"}
          BY DEF IInv, MemoryInv, Held
    <2>3. \A y : In(y, source_vector) => y \in Handles
          BY <1>3, ElementOfSeq DEF In
    <2>4. Distinct(v)
          BY <2>1, <2>2, <2>3
    <2>5. Distinct(<<>>) /\ \A s : ~In(s, <<>>)
          BY DEF Distinct, In
    <2>6. QED
          BY <2>1, <2>2, <2>4, <2>5, LenProperties DEF Held
  <1>5. Framed([sweeps EXCEPT ![MainThread] = <<>>], status)
    <2>1. [sweeps EXCEPT ![MainThread] = <<>>] = sweeps
          BY <1>2, <1>3
    <2>2. QED
          BY <2>1 DEF IInv, FrameInv
  <1>6. source_pending_deletion = Cardinality(Doomed(status))
        BY <1>2 DEF IInv, CountInv
  <1> HIDE DEF v
  <1>7. Sweeping(MainThread, <<>>, p, v, status, source_pending_deletion, Len(v))
    <2>1. MainThread \in Threads /\ <<>> \in Seq(Frame) /\ <<>> \in Seq(Handles)
          BY DEF Threads
    <2>2. QED
          BY <1>1, <1>3, <1>4, <1>5, <1>6, <2>1 DEF Sweeping
  <1>8. QED
        BY <1>7 DEF v

LEMMA PassEndsPreserves ==
  ASSUME IInv, NEW p \in Passes, strayed = FALSE, PassEnds(p)
  PROVE  IInv'
  <1> DEFINE v == source_vector \o source_v_process
  <1>1. /\ mpc = At("walk", p) /\ source_v_process' = <<>>
        /\ at > Len(source_v_process) \/ (~run_loop /\ p # "timeout")
        /\ UNCHANGED <<ready, run_loop, sources_ready, owed>>
        BY DEF PassEnds
  <1>2. /\ mpc # Between("down") /\ Len(source_v_process) \in Nat /\ at \in Nat
        BY <1>1, WalkIndex
  <1>3. Sweeping(MainThread, <<>>, p, v, status, source_pending_deletion, Len(v))
        BY PassEndsSweeps
  <1> HIDE DEF v
  <1>4. p = "dispatch" => owed = {}
    <2>1. SUFFICES ASSUME p = "dispatch", owed # {} PROVE FALSE
          OBVIOUS
    <2>2. run_loop /\ \A s \in owed : \E j \in at..Len(source_v_process) : source_v_process[j] = s
          BY <1>1, <2>1 DEF IInv, OwedInv
    <2>3. QED
          BY <1>1, <1>2, <2>1, <2>2
  <1>5. \A s \in owed' : status[s] = "live"
        BY <1>1 DEF IInv, OwedInv
  <1>6. p # "none"
         BY DEF Passes
  <1>7. QED
         BY <1>1, <1>2, <1>3, <1>4, <1>5, <1>6, CleanupPreserves

\* The innermost sweep of a thread that is in dispose().
LEMMA InnermostFrame ==
  ASSUME IInv, NEW t \in Threads, InDispose(t)
  PROVE  /\ Len(sweeps[t]) \in Nat /\ Len(sweeps[t]) >= 1 /\ Innermost(t) \in Frame
         /\ Popped(t) \in Seq(Frame) /\ Len(Popped(t)) = Len(sweeps[t]) - 1
         /\ \A k \in 1..(Len(sweeps[t]) - 1) : Popped(t)[k] = sweeps[t][k]
  <1>1. sweeps[t] \in Seq(Frame) /\ sweeps[t] # <<>>
        BY DEF IInv, TypeInv, InDispose
  <1>2. Len(sweeps[t]) \in Nat /\ Len(sweeps[t]) >= 1
        BY <1>1, LenProperties, EmptySeq
  <1>3. Len(sweeps[t]) - 1 \in 0..Len(sweeps[t])
        BY <1>2
  <1>4. /\ Popped(t) \in Seq(Frame) /\ Len(Popped(t)) = Len(sweeps[t]) - 1
        /\ \A k \in 1..(Len(sweeps[t]) - 1) : Popped(t)[k] = sweeps[t][k]
        BY <1>1, <1>3, PrefixProperties DEF Popped
  <1>5. Innermost(t) \in Frame
        BY <1>1, <1>2, ElementOfSeq DEF Innermost
  <1>6. QED
        BY <1>2, <1>4, <1>5

\* The stretch of source_cleanup() that follows dispose().
LEMMA ReturnSweeps ==
  ASSUME IInv, NEW t \in Threads, strayed = FALSE, DisposeReturns(t)
  PROVE  LET f == Innermost(t) IN
         /\ mpc # Between("down")
         /\ Sweeping(t, Popped(t), f.pass, source_vector, [status EXCEPT ![f.source] = "free"],
                     source_pending_deletion - 1, f.next)
         /\ status[f.source] = "disposed"
  <1> DEFINE f == Innermost(t)
             x == f.source
             l == Len(sweeps[t])
             below == Popped(t)
             st == [status EXCEPT ![x] = "free"]
             sw == [sweeps EXCEPT ![t] = below]
  <1>1. /\ InDispose(t) /\ source_v_process' = source_v_process
        /\ source_cleanup(t, below, f.pass, source_vector, st, source_pending_deletion - 1, f.next)
        BY DEF DisposeReturns
  <1>2. /\ l \in Nat /\ l >= 1 /\ f \in Frame /\ f = sweeps[t][l]
        /\ below \in Seq(Frame) /\ Len(below) = l - 1
        /\ \A k \in 1..(l - 1) : below[k] = sweeps[t][k]
        BY <1>1, InnermostFrame DEF Innermost
  <1>3. x \in Handles /\ f.next \in Nat /\ f.pass \in Passes \cup {"none"}
    <2> HIDE DEF f
    <2>1. QED
          BY <1>2 DEF Frame
  <1>4. /\ source_vector \in Seq(Handles) /\ source_v_process \in Seq(Handles)
        /\ status \in [Handles -> Status] /\ sweeps \in [Threads -> Seq(Frame)]
        BY DEF IInv, TypeInv, TypeOK, Status
  <1>5. mpc # Between("down")
    <2>1. mpc[1] # "down"
          BY <1>1 DEF IInv, PlaceInv, InDispose
    <2>2. QED
          BY <2>1, PlacesDiffer
  <1> HIDE DEF f, below
  <1>6. Framed(sweeps, status)
        BY DEF IInv, FrameInv
  <1>7. status[x] = "disposed"
        BY <1>2, <1>6 DEF Framed
  <1>8. st \in [Handles -> Status] /\ \A s \in Handles : st[s] = IF s = x THEN "free" ELSE status[s]
    <2> HIDE DEF x
    <2>1. QED
          BY <1>3, <1>4 DEF Status
  <1>9. Held(source_vector, source_v_process, st)
    <2> HIDE DEF x, st
    <2>1. Held(source_vector, source_v_process, status)
          BY DEF IInv, MemoryInv
    <2>2. QED
          BY <1>3, <1>7, <1>8, <2>1 DEF Held
  <1>10. Framed(sw, st)
    <2>1. \A u \in Threads : sw[u] = IF u = t THEN below ELSE sweeps[u]
          BY <1>4
    <2> HIDE DEF st, sw
    <2>2. ASSUME NEW u \in Threads, NEW k \in 1..Len(sw[u])
          PROVE  /\ k \in 1..Len(sweeps[u]) /\ sw[u][k] = sweeps[u][k]
                 /\ ~(u = t /\ k = l)
      <3>1. CASE u = t
        <4>1. k \in 1..(l - 1)
              BY <1>2, <2>1, <2>2, <3>1
        <4>2. k \in 1..l /\ k # l /\ sw[u][k] = sweeps[u][k]
              BY <1>2, <2>1, <3>1, <4>1
        <4>3. QED
              BY <3>1, <4>2
      <3>2. CASE u # t
            BY <2>1, <2>2, <3>2
      <3>3. QED
            BY <3>1, <3>2
    <2>3. ASSUME NEW u \in Threads, NEW k \in 1..Len(sweeps[u]), ~(u = t /\ k = l)
          PROVE  k \in 1..Len(sw[u]) /\ sw[u][k] = sweeps[u][k]
      <3>1. CASE u = t
        <4>1. k \in 1..(l - 1)
              BY <1>2, <2>3, <3>1
        <4>2. QED
              BY <1>2, <2>1, <3>1, <4>1
      <3>2. CASE u # t
            BY <2>1, <2>3, <3>2
      <3>3. QED
            BY <3>1, <3>2
    <2>4. l \in 1..Len(sweeps[t]) /\ sweeps[t][l].source = x
          BY <1>2
    <2>5. \A u \in Threads : \A k \in 1..Len(sweeps[u]) : sweeps[u][k].source \in Handles
          BY <1>4, FrameTypes
    <2> HIDE DEF x, l
    <2>6. \A u \in Threads : \A k \in 1..Len(sw[u]) : st[sw[u][k].source] = "disposed"
      <3> SUFFICES ASSUME NEW u \in Threads, NEW k \in 1..Len(sw[u])
                   PROVE  st[sw[u][k].source] = "disposed"
          OBVIOUS
      <3>1. k \in 1..Len(sweeps[u]) /\ sw[u][k] = sweeps[u][k] /\ ~(u = t /\ k = l)
            BY <2>2
      <3>2. sweeps[u][k].source # x
            BY <3>1, <2>4, <1>6 DEF Framed
      <3>3. status[sweeps[u][k].source] = "disposed"
            BY <3>1, <1>6 DEF Framed
      <3>4. QED
            BY <3>1, <3>2, <3>3, <2>5, <1>8
    <2>7. \A s \in Handles : st[s] = "disposed" =>
            \E u \in Threads : \E k \in 1..Len(sw[u]) : sw[u][k].source = s
      <3> SUFFICES ASSUME NEW s \in Handles, st[s] = "disposed"
                   PROVE  \E u \in Threads : \E k \in 1..Len(sw[u]) : sw[u][k].source = s
          OBVIOUS
      <3>1. s # x /\ status[s] = "disposed"
            BY <1>8
      <3>2. PICK u \in Threads : \E k \in 1..Len(sweeps[u]) : sweeps[u][k].source = s
            BY <3>1, <1>6 DEF Framed
      <3>3. PICK k \in 1..Len(sweeps[u]) : sweeps[u][k].source = s
            BY <3>2
      <3>4. ~(u = t /\ k = l)
            BY <3>1, <3>3, <2>4
      <3>5. k \in 1..Len(sw[u]) /\ sw[u][k] = sweeps[u][k]
            BY <3>4, <2>3
      <3>6. QED
            BY <3>3, <3>5
    <2>8. \A u, y \in Threads : \A j \in 1..Len(sw[u]), k \in 1..Len(sw[y]) :
            sw[u][j].source = sw[y][k].source => u = y /\ j = k
          BY <2>2, <1>6 DEF Framed
    <2>9. QED
          BY <2>6, <2>7, <2>8 DEF Framed
  <1>11. source_pending_deletion - 1 = Cardinality(Doomed(st))
    <2> HIDE DEF x, st
    <2>1. Doomed(st) = Doomed(status) \ {x} /\ x \in Doomed(status)
          BY <1>3, <1>4, <1>7, <1>8 DEF Doomed, Status
    <2>2. Doomed(status) \in SUBSET Handles
          BY DEF Doomed
    <2>3. IsFiniteSet(Doomed(status)) /\ Cardinality(Doomed(status)) \in Nat
          BY <2>2, Countable
    <2>4. Cardinality(Doomed(status) \ {x}) = Cardinality(Doomed(status)) - 1
          BY <2>1, <2>3, FS_RemoveElement
    <2>5. source_pending_deletion = Cardinality(Doomed(status))
          BY <1>5 DEF IInv, CountInv
    <2>6. QED
          BY <2>1, <2>4, <2>5
  <1> HIDE DEF x, st, l
  <1>12. Sweeping(t, below, f.pass, source_vector, st, source_pending_deletion - 1, f.next)
         BY <1>1, <1>2, <1>3, <1>4, <1>8, <1>9, <1>10, <1>11 DEF Sweeping
  <1>13. QED
         BY <1>5, <1>7, <1>12 DEF x, st, f, below

LEMMA DisposeReturnsPreserves ==
  ASSUME IInv, NEW t \in Threads, strayed = FALSE, DisposeReturns(t)
  PROVE  IInv'
  <1> DEFINE f == Innermost(t)
             below == Popped(t)
             st == [status EXCEPT ![f.source] = "free"]
  <1>1. /\ mpc # Between("down") /\ status[f.source] = "disposed"
        /\ Sweeping(t, below, f.pass, source_vector, st, source_pending_deletion - 1, f.next)
        BY ReturnSweeps
  <1>2. /\ InDispose(t)
        /\ UNCHANGED <<ready, source_v_process, run_loop, sources_ready, owed>>
        BY DEF DisposeReturns
  <1>3. /\ Len(sweeps[t]) \in Nat /\ Len(sweeps[t]) >= 1 /\ f \in Frame
        /\ f = sweeps[t][Len(sweeps[t])]
        /\ below \in Seq(Frame) /\ Len(below) = Len(sweeps[t]) - 1
        /\ \A k \in 1..(Len(sweeps[t]) - 1) : below[k] = sweeps[t][k]
        BY <1>2, InnermostFrame DEF Innermost
  <1>4. f.pass \in Passes \cup {"none"} /\ f.source \in Handles /\ "none" \notin Passes
    <2> HIDE DEF f
    <2>1. QED
          BY <1>3 DEF Frame, Passes
  <1>5. \A s \in owed' : st[s] = "live"
    <2>1. \A s \in owed : s \in Handles /\ status[s] = "live"
          BY DEF IInv, OwedInv, TypeInv, TypeOK
    <2>2. status \in [Handles -> Status]
          BY DEF IInv, TypeInv, TypeOK, Status
    <2> HIDE DEF f
    <2>3. QED
          BY <1>1, <1>2, <1>4, <2>1, <2>2
  <1> HIDE DEF f, below
  <1>6. /\ mpc \in Places
        /\ mpc[1] \notin {"walk", "cb"} => source_v_process = <<>>
        /\ mpc[1] \notin {"outside", "polling", "sweep"} => sweeps[MainThread] = <<>>
        /\ mpc[1] = "sweep" => Len(sweeps[MainThread]) = 1 /\ sweeps[MainThread][1].pass = mpc[2]
        /\ \A u \in Threads : u # MainThread \/ mpc[1] # "sweep" =>
             \A k \in 1..Len(sweeps[u]) : sweeps[u][k].pass = "none"
        BY DEF IInv, PlaceInv
  <1>7. sweeps[t] # <<>>
        BY <1>2 DEF InDispose
  <1>8. CASE t = MainThread /\ mpc[1] = "sweep"
    <2>1. mpc[2] \in Passes /\ mpc = At("sweep", mpc[2]) /\ f.pass = mpc[2]
      <3>1. mpc[2] \in Passes /\ mpc = At("sweep", mpc[2])
            BY <1>6, <1>8, PlacesDiffer DEF InPass
      <3>2. QED
            BY <1>3, <1>6, <1>8, <3>1
    <2>2. below = <<>>
      <3>1. Len(below) = 0
            BY <1>3, <1>6, <1>8
      <3>2. QED
            BY <1>3, <3>1, EmptySeq
    <2>3. f.pass = "dispatch" => owed' = {}
      <3>1. mpc = At("sweep", "dispatch") => owed = {}
            BY DEF IInv, OwedInv
      <3>2. QED
            BY <1>2, <2>1, <3>1
    <2>4. f.pass # "none" /\ source_v_process' = <<>>
          BY <1>2, <1>4, <1>6, <1>8, <2>1
    <2> HIDE DEF st
    <2>5. QED
          BY <1>1, <1>2, <1>5, <1>8, <2>1, <2>2, <2>3, <2>4, CleanupPreserves
  <1>9. CASE ~(t = MainThread /\ mpc[1] = "sweep")
    <2>1. f.pass = "none" /\ \A k \in 1..Len(below) : below[k].pass = "none"
          BY <1>3, <1>6, <1>9
    <2>2. t = MainThread => mpc[1] \in {"outside", "polling"}
          BY <1>6, <1>7, <1>9
    <2> HIDE DEF st
    <2>3. QED
          BY <1>1, <1>2, <1>5, <2>1, <2>2, CleanupPreserves
  <1>10. QED
         BY <1>8, <1>9

-----------------------------------------------------------------------------
(* The inductive invariant: the API.                                       *)

LEMMA AddPreserves ==
  ASSUME IInv, NEW s \in Handles, sol_mainloop_add_source(s)
  PROVE  IInv'
  <1> DEFINE st == [status EXCEPT ![s] = "live"]
             v == Append(source_vector, s)
  <1>1. /\ status[s] = "free" /\ mpc # Between("down")
        /\ status' = st /\ ready' = [ready EXCEPT ![s] = FALSE] /\ source_vector' = v
        /\ UNCHANGED <<walkVars, source_pending_deletion, run_loop, sweeps, owed, strayed>>
        BY DEF sol_mainloop_add_source
  <1> USE DEF walkVars
  <1>2. /\ status \in [Handles -> Status] /\ ready \in [Handles -> BOOLEAN]
        /\ source_vector \in Seq(Handles)
        BY DEF IInv, TypeInv, TypeOK, Status
  <1>3. st \in [Handles -> Status] /\ \A x \in Handles : st[x] = IF x = s THEN "live" ELSE status[x]
        BY <1>2 DEF Status
  <1>4. /\ ready' \in [Handles -> BOOLEAN]
        /\ \A x \in Handles : x # s => ready'[x] = ready[x]
        BY <1>1, <1>2
  <1>5. /\ v \in Seq(Handles) /\ \A y : In(y, v) <=> In(y, source_vector) \/ y = s
        /\ Distinct(source_vector) /\ ~In(s, source_vector) => Distinct(v)
        BY <1>2, AppendedEntries
  <1> HIDE DEF st, v
  <1>6. TypeInv'
        BY <1>1, <1>3, <1>4, <1>5 DEF IInv, TypeInv, TypeOK, Status
  <1>7. MemoryInv'
    <2>1. Held(source_vector, source_v_process, status)
          BY DEF IInv, MemoryInv
    <2>2. ~In(s, source_vector) /\ ~In(s, source_v_process)
          BY <1>1, <2>1 DEF Held
    <2>3. Held(v, source_v_process, st)
          BY <1>3, <1>5, <2>1, <2>2 DEF Held
    <2>4. QED
          BY <1>1, <2>3 DEF MemoryInv
  <1>8. FrameInv'
    <2>1. ASSUME ~strayed PROVE Framed(sweeps, st)
      <3>1. Framed(sweeps, status)
            BY <2>1 DEF IInv, FrameInv
      <3>2. \A u \in Threads : \A k \in 1..Len(sweeps[u]) : sweeps[u][k].source \in Handles
            BY FrameTypes DEF IInv, TypeInv
      <3>3. QED
            BY <1>1, <1>3, <3>1, <3>2 DEF Framed
    <2>2. QED
          BY <1>1, <2>1 DEF FrameInv
  <1>9. CountInv'
    <2>1. Doomed(st) = Doomed(status)
          BY <1>1, <1>3 DEF Doomed
    <2>2. QED
          BY <1>1, <2>1 DEF IInv, CountInv
  <1>10. PlaceInv'
         BY <1>1 DEF IInv, PlaceInv
  <1>11. OwedInv'
    <2>1. \A x \in owed : x \in Handles /\ x # s /\ status[x] = "live" /\ ready[x]
          BY <1>1 DEF IInv, OwedInv, TypeInv, TypeOK
    <2>2. \A x \in owed' : status'[x] = "live" /\ ready'[x]
          BY <1>1, <1>3, <1>4, <2>1
    <2>3. QED
          BY <1>1, <2>2 DEF IInv, OwedInv
  <1>12. QED
         BY <1>6, <1>7, <1>8, <1>9, <1>10, <1>11 DEF IInv

\* What marking a source for deletion changes.
LEMMA MarkKeeps ==
  ASSUME IInv, strayed = FALSE, mpc # Between("down"), NEW s \in Handles, status[s] = "live"
  PROVE  LET st == [status EXCEPT ![s] = "marked"] IN
         /\ st \in [Handles -> Status]
         /\ \A x \in Handles : st[x] = IF x = s THEN "marked" ELSE status[x]
         /\ Held(source_vector, source_v_process, st) /\ Framed(sweeps, st)
         /\ source_pending_deletion + 1 = Cardinality(Doomed(st))
         /\ source_pending_deletion + 1 \in 0..Cardinality(Handles)
         /\ \A x \in owed \ {s} : st[x] = "live"
  <1> DEFINE st == [status EXCEPT ![s] = "marked"]
  <1>1. status \in [Handles -> Status] /\ owed \subseteq Handles
        BY DEF IInv, TypeInv, TypeOK, Status
  <1>2. st \in [Handles -> Status] /\ \A x \in Handles : st[x] = IF x = s THEN "marked" ELSE status[x]
        BY <1>1 DEF Status
  <1> HIDE DEF st
  <1>3. Held(source_vector, source_v_process, st)
        BY <1>2 DEF IInv, MemoryInv, Held
  <1>4. Framed(sweeps, st)
    <2>1. Framed(sweeps, status)
          BY DEF IInv, FrameInv
    <2>2. \A u \in Threads : \A k \in 1..Len(sweeps[u]) : sweeps[u][k].source \in Handles
          BY FrameTypes DEF IInv, TypeInv
    <2>3. QED
          BY <1>2, <2>1, <2>2 DEF Framed
  <1>5. /\ source_pending_deletion + 1 = Cardinality(Doomed(st))
        /\ source_pending_deletion + 1 \in 0..Cardinality(Handles)
    <2>1. Doomed(st) = Doomed(status) \cup {s} /\ s \notin Doomed(status)
          BY <1>2 DEF Doomed
    <2>2. Doomed(status) \in SUBSET Handles /\ Doomed(st) \in SUBSET Handles
          BY DEF Doomed
    <2>3. /\ IsFiniteSet(Doomed(status)) /\ Cardinality(Doomed(st)) \in Nat
          /\ Cardinality(Handles) \in Nat /\ Cardinality(Doomed(st)) <= Cardinality(Handles)
          BY <2>2, Countable
    <2>4. Cardinality(Doomed(status) \cup {s}) = Cardinality(Doomed(status)) + 1
          BY <2>1, <2>3, FS_AddElement
    <2>5. source_pending_deletion = Cardinality(Doomed(status))
          BY DEF IInv, CountInv
    <2>6. QED
          BY <2>1, <2>3, <2>4, <2>5
  <1>6. \A x \in owed \ {s} : st[x] = "live"
        BY <1>1, <1>2 DEF IInv, OwedInv
  <1>7. QED
        BY <1>2, <1>3, <1>4, <1>5, <1>6 DEF st

\* The stretch of source_cleanup() in sol_mainloop_del_source(), outside of a pass.
LEMMA DelSweeps ==
  ASSUME IInv, strayed = FALSE, NEW t \in Threads, NEW s \in Handles,
         sol_mainloop_del_source(t, s)
  PROVE  LET st == [status EXCEPT ![s] = "marked"] IN
         /\ status[s] = "live" /\ mpc # Between("down")
         /\ ~source_processing =>
              /\ t = MainThread => mpc[1] \in {"outside", "polling"}
              /\ Sweeping(t, sweeps[t], "none", source_vector, st,
                          source_pending_deletion + 1, Len(source_vector))
  <1> DEFINE st == [status EXCEPT ![s] = "marked"]
  <1>1. status[s] = "live" /\ InUserCode(t)
        BY DEF sol_mainloop_del_source
  <1>2. MainThread \in Threads
        BY DEF Threads
  <1>3. mpc # Between("down")
    <2>1. CASE t = MainThread
      <3>1. sweeps[t] # <<>> \/ mpc[1] \in {"outside", "polling", "cb"}
            BY <1>1, <2>1 DEF InUserCode, InDispose
      <3>2. mpc[1] # "down"
            BY <2>1, <3>1 DEF IInv, PlaceInv
      <3>3. QED
            BY <3>2, PlacesDiffer
    <2>2. CASE t # MainThread
          BY <1>1, <2>2 DEF InUserCode
    <2>3. QED
          BY <2>1, <2>2
  <1>4. ASSUME ~source_processing
        PROVE  /\ t = MainThread => mpc[1] \in {"outside", "polling"}
               /\ Sweeping(t, sweeps[t], "none", source_vector, st,
                           source_pending_deletion + 1, Len(source_vector))
    <2>1. mpc[1] \notin InPass
          BY <1>4 DEF IInv, PlaceInv
    <2>2. t = MainThread => mpc[1] \in {"outside", "polling"}
      <3>1. t = MainThread => sweeps[MainThread] # <<>> \/ mpc[1] \in {"outside", "polling", "cb"}
            BY <1>1 DEF InUserCode, InDispose
      <3>2. QED
            BY <2>1, <3>1 DEF IInv, PlaceInv, InPass
    <2>3. /\ source_cleanup(t, sweeps[t], "none", source_vector, st,
                            source_pending_deletion + 1, Len(source_vector))
          /\ source_v_process' = source_v_process
          BY <1>4 DEF sol_mainloop_del_source
    <2>4. /\ source_vector \in Seq(Handles) /\ source_v_process \in Seq(Handles)
          /\ sweeps \in [Threads -> Seq(Frame)] /\ sweeps[t] \in Seq(Frame)
          /\ Len(source_vector) \in Nat
          BY LenProperties DEF IInv, TypeInv, TypeOK
    <2>5. /\ st \in [Handles -> Status]
          /\ Held(source_vector, source_v_process, st) /\ Framed(sweeps, st)
          /\ source_pending_deletion + 1 = Cardinality(Doomed(st))
          BY <1>1, <1>3, MarkKeeps
    <2> HIDE DEF st
    <2>6. [sweeps EXCEPT ![t] = sweeps[t]] = sweeps
          BY <2>4
    <2>7. Sweeping(t, sweeps[t], "none", source_vector, st,
                   source_pending_deletion + 1, Len(source_vector))
          BY <2>3, <2>4, <2>5, <2>6 DEF Sweeping
    <2>8. QED
          BY <2>2, <2>7
  <1>5. QED
        BY <1>1, <1>3, <1>4

LEMMA DelPreserves ==
  ASSUME IInv, strayed = FALSE, NEW t \in Threads, NEW s \in Handles,
         sol_mainloop_del_source(t, s)
  PROVE  IInv'
  <1> DEFINE st == [status EXCEPT ![s] = "marked"]
  <1>1. /\ owed' = owed \ {s}
        /\ UNCHANGED <<ready, source_v_process, run_loop, sources_ready>>
        BY DEF sol_mainloop_del_source
  <1>2. status[s] = "live" /\ mpc # Between("down")
        BY DelSweeps
  <1>3. /\ st \in [Handles -> Status]
        /\ Held(source_vector, source_v_process, st) /\ Framed(sweeps, st)
        /\ source_pending_deletion + 1 = Cardinality(Doomed(st))
        /\ source_pending_deletion + 1 \in 0..Cardinality(Handles)
        /\ \A x \in owed \ {s} : st[x] = "live"
        BY <1>2, MarkKeeps
  <1>4. CASE source_processing
    <2>1. /\ status' = st /\ source_pending_deletion' = source_pending_deletion + 1
          /\ UNCHANGED <<source_vector, source_processing, mpc, at, sweeps, strayed>>
          BY <1>4 DEF sol_mainloop_del_source
    <2> HIDE DEF st
    <2>2. TypeInv'
          BY <1>1, <1>3, <2>1 DEF IInv, TypeInv, TypeOK, Status
    <2>3. MemoryInv' /\ FrameInv' /\ CountInv'
          BY <1>1, <1>3, <2>1 DEF MemoryInv, FrameInv, CountInv
    <2>4. PlaceInv'
          BY <1>1, <2>1 DEF IInv, PlaceInv
    <2>5. OwedInv'
      <3>1. \A x \in owed' : x \in owed /\ status'[x] = "live"
            BY <1>1, <1>3, <2>1
      <3>2. QED
            BY <1>1, <2>1, <3>1 DEF IInv, OwedInv
    <2>6. QED
          BY <2>2, <2>3, <2>4, <2>5 DEF IInv
  <1>5. CASE ~source_processing
    <2>1. /\ t = MainThread => mpc[1] \in {"outside", "polling"}
          /\ Sweeping(t, sweeps[t], "none", source_vector, st,
                      source_pending_deletion + 1, Len(source_vector))
          BY <1>5, DelSweeps
    <2>2. \A k \in 1..Len(sweeps[t]) : sweeps[t][k].pass = "none"
      <3>1. t # MainThread \/ mpc[1] # "sweep"
            BY <2>1
      <3>2. QED
            BY <3>1 DEF IInv, PlaceInv
    <2> HIDE DEF st
    <2>3. QED
          BY <1>1, <1>2, <1>3, <2>1, <2>2, CleanupPreserves
  <1>6. source_processing \in BOOLEAN
        BY DEF IInv, TypeInv, TypeOK
  <1>7. QED
        BY <1>4, <1>5, <1>6

LEMMA RunQuitPreserves ==
  ASSUME IInv, sol_run \/ sol_quit
  PROVE  IInv'
  <1> USE DEF vectorVars
  <1>1. /\ UNCHANGED <<status, ready, vectorVars, source_pending_deletion, source_processing,
                       sources_ready, mpc, at, sweeps, strayed>>
        /\ run_loop' \in BOOLEAN
        /\ owed' = {} \/ (owed' = owed /\ run_loop')
        BY DEF sol_run, sol_quit
  <1>2. TypeInv' /\ MemoryInv'
        BY <1>1 DEF IInv, TypeInv, TypeOK, MemoryInv
  <1>3. FrameInv' /\ CountInv'
        BY <1>1 DEF IInv, FrameInv, Framed, CountInv
  <1>4. PlaceInv'
        BY <1>1 DEF IInv, PlaceInv
  <1>5. OwedInv'
        BY <1>1 DEF IInv, OwedInv
  <1>6. QED
        BY <1>2, <1>3, <1>4, <1>5 DEF IInv

LEMMA ShutdownPreserves ==
  ASSUME IInv, sol_mainloop_common_source_shutdown
  PROVE  IInv'
  <1>1. /\ mpc = Between("outside") /\ mpc' = Between("down")
        /\ \A t \in Threads : sweeps[t] = <<>>
        /\ status' = [s \in Handles |-> IF \E k \in DOMAIN source_vector : source_vector[k] = s
                                        THEN "free" ELSE status[s]]
        /\ source_vector' = <<>>
        /\ UNCHANGED <<ready, source_v_process, source_pending_deletion, source_processing,
                       run_loop, sources_ready, at, sweeps, owed, strayed>>
        BY DEF sol_mainloop_common_source_shutdown, InDispose
  <1>2. source_vector \in Seq(Handles) /\ status \in [Handles -> Status]
        BY DEF IInv, TypeInv, TypeOK, Status
  <1>3. \A s \in Handles : status'[s] = IF In(s, source_vector) THEN "free" ELSE status[s]
    <2>1. DOMAIN source_vector = 1..Len(source_vector)
          BY <1>2, LenProperties
    <2>2. QED
          BY <1>1, <2>1 DEF In
  <1>4. status' \in [Handles -> Status]
    <2>1. \A s \in Handles : status'[s] \in Status
          BY <1>2, <1>3 DEF Status
    <2>2. QED
          BY <1>1, <2>1
  <1>5. <<>> \in Seq(Handles) /\ \A s : ~In(s, <<>>)
        BY DEF In
  <1>6. TypeInv'
        BY <1>1, <1>4, <1>5 DEF IInv, TypeInv, TypeOK, Status
  <1>7. source_v_process = <<>> /\ mpc[1] = "outside"
        BY <1>1, PlacesDiffer DEF IInv, PlaceInv
  <1>8. MemoryInv'
    <2>1. \A s \in Handles : In(s, source_vector) <=> status[s] \in {"live", "marked"}
          BY <1>5, <1>7 DEF IInv, MemoryInv, Held
    <2>2. Held(<<>>, <<>>, status')
          BY <1>3, <1>5, <2>1 DEF Held, Distinct
    <2>3. QED
          BY <1>1, <1>7, <2>2 DEF MemoryInv
  <1>9. FrameInv'
    <2>1. ASSUME ~strayed
          PROVE  \A s \in Handles : status'[s] # "disposed"
      <3>1. \A s \in Handles : status[s] # "disposed"
            BY <1>1, <2>1 DEF IInv, FrameInv, Framed
      <3>2. QED
            BY <1>3, <3>1
    <2>2. QED
          BY <1>1, <2>1 DEF FrameInv, Framed
  <1>10. CountInv'
         BY <1>1 DEF CountInv
  <1>11. PlaceInv'
    <2>1. mpc' \in Places /\ mpc'[1] = "down"
          BY <1>1, PlacesDiffer
    <2>2. MainThread \in Threads
          BY DEF Threads
    <2>3. ~source_processing
          BY <1>7 DEF IInv, PlaceInv, InPass
    <2>4. QED
          BY <1>1, <1>7, <2>1, <2>2, <2>3 DEF PlaceInv, InPass
  <1>12. OwedInv'
    <2>1. owed' = {}
          BY <1>1 DEF IInv, OwedInv
    <2>2. QED
          BY <2>1 DEF OwedInv
  <1>13. QED
         BY <1>6, <1>8, <1>9, <1>10, <1>11, <1>12 DEF IInv

LEMMA NextIInv == IInv /\ [Next]_vars => IInv'
  <1> SUFFICES ASSUME IInv, [Next]_vars PROVE IInv'
      OBVIOUS
  <1>1. CASE UNCHANGED vars
        BY <1>1 DEF vars, IInv, TypeInv, TypeOK, MemoryInv, FrameInv, CountInv, PlaceInv, OwedInv
  <1>2. CASE Next
    <2>1. strayed = FALSE
          BY <1>2 DEF Next, IInv, TypeInv, TypeOK
    <2>2. CASE MainStep
      <3>1. CASE PrepareBegins \/ GetNextTimeoutBegins \/ CheckBegins \/ DispatchBegins
            BY <3>1, BeginsPreserves
      <3>2. CASE IdlerFirst \/ NothingReady
            BY <3>2, MovesOnPreserves
      <3>3. ASSUME NEW p \in Passes, Skip(p) \/ Call(p) \/ PassEnds(p)
            PROVE  IInv'
            BY <2>1, <3>3, SkipPreserves, CallPreserves, PassEndsPreserves
      <3>4. QED
            BY <2>2, <3>1, <3>2, <3>3 DEF MainStep
    <2>3. CASE CallbackReturns
          BY <2>3, ReturnPreserves DEF CallbackReturns
    <2>4. CASE \E t \in Threads : DisposeReturns(t)
          BY <2>1, <2>4, DisposeReturnsPreserves
    <2>5. CASE \E s \in Handles : sol_mainloop_add_source(s)
          BY <2>5, AddPreserves
    <2>6. CASE \E t \in Threads, s \in Handles : sol_mainloop_del_source(t, s)
          BY <2>1, <2>6, DelPreserves
    <2>7. CASE sol_run \/ sol_quit
          BY <2>7, RunQuitPreserves
    <2>8. CASE sol_mainloop_common_source_shutdown
          BY <2>8, ShutdownPreserves
    <2>9. QED
          BY <1>2, <2>2, <2>3, <2>4, <2>5, <2>6, <2>7, <2>8 DEF Next
  <1>3. QED
        BY <1>1, <1>2

\* The inductive invariant holds in every reachable state: whatever threads,
\* callbacks and dispose() add and delete, the two vectors hold the allocated
\* sources, each once, and source_pending_deletion counts the deleted ones.
THEOREM SourcesInvariant == Spec => []IInv
  <1>1. QED
        BY InitIInv, NextIInv, PTL DEF Spec

\* A source that prepare() or check() found ready is dispatched in the same
\* iteration, unless it is deleted or the loop is told to stop
\* (source_prepare, source_check, source_dispatch of sol-mainloop-common.c).
THEOREM ReadyAlwaysDispatched == Spec => []ReadyIsDispatched
  <1>1. IInv => ReadyIsDispatched
        BY DEF IInv, OwedInv, ReadyIsDispatched
  <1>2. QED
        BY <1>1, SourcesInvariant, PTL

-----------------------------------------------------------------------------
(* No sweep reads beyond the vector, when only the main thread deletes     *)
(* sources and deletions nest at most twice.                               *)

\* Every marked source is in the vector that is swept.
LEMMA MarkedAreSwept ==
  ASSUME NEW v, NEW st, Held(v, <<>>, st), NEW s \in Handles, st[s] = "marked"
  PROVE  \E m \in 1..Len(v) : v[m] = s
  <1>1. ~In(s, <<>>)
        BY DEF In
  <1>2. In(s, v)
        BY <1>1 DEF Held
  <1>3. QED
        BY <1>2 DEF In

\* A stretch of source_cleanup() on the main thread that starts within the vector,
\* and in a nested sweep not below a marked source.
LEMMA CleanupSafe ==
  ASSUME NEW below, NEW pass, NEW v, NEW st, NEW n, NEW i,
         Sweeping(MainThread, below, pass, v, st, n, i),
         \A u \in OtherThreads : sweeps[u] = <<>>,
         n = 0 \/ i <= Len(v), source_v_process' = <<>>,
         pass = "none" => mpc[1] # "sweep",
         \/ below = <<>>
         \/ /\ Len(below) = 1 /\ pass = "none"
            /\ \A m \in 1..Len(v) : st[v[m]] = "marked" => m <= i
  PROVE  SweepInv'
  <1>1. /\ below \in Seq(Frame) /\ pass \in Passes \cup {"none"}
        /\ v \in Seq(Handles) /\ st \in [Handles -> Status] /\ i \in Nat
        /\ sweeps \in [Threads -> Seq(Frame)] /\ strayed = FALSE
        /\ Held(v, <<>>, st) /\ Distinct(v) /\ n = Cardinality(Doomed(st))
        /\ source_cleanup(MainThread, below, pass, v, st, n, i)
        BY DEF Sweeping, Held
  <1>2. MainThread \in Threads /\ OtherThreads \subseteq Threads /\ MainThread \notin OtherThreads
        BY SourcesAssumption DEF Threads
  <1>3. Len(v) \in Nat /\ (\A m \in 1..Len(v) : v[m] \in Handles) /\ Len(below) \in 0..1
        BY <1>1, LenProperties, ElementOfSeq
  <1>4. below # <<>> => /\ Len(below) = 1 /\ pass = "none"
                        /\ \A m \in 1..Len(v) : st[v[m]] = "marked" => m <= i
        OBVIOUS
  <1>5. CASE Stops(MainThread, below, pass, v, st, n, i)
    <2>1. /\ source_vector' = v /\ status' = st /\ strayed' = FALSE
          /\ sweeps' = [sweeps EXCEPT ![MainThread] = below]
          BY <1>1, <1>5 DEF Stops, SweepEnds
    <2>2. sweeps'[MainThread] = below /\ \A u \in OtherThreads : sweeps'[u] = <<>>
          BY <1>1, <1>2, <2>1
    <2>3. mpc'[1] # "sweep"
      <3>1. CASE pass = "none"
            BY <1>5, <3>1 DEF Stops, SweepEnds
      <3>2. CASE pass # "none"
        <4>1. mpc' = Between(After(pass)) /\ pass \in Passes
              BY <1>1, <1>5, <3>2 DEF Stops, SweepEnds
        <4>2. QED
              BY <4>1, PlacesDiffer
      <3>3. QED
            BY <3>1, <3>2
    <2>4. CASE below = <<>>
      <3>1. Len(below) = 0
            BY <2>4
      <3>2. QED
            BY <2>1, <2>2, <2>3, <3>1 DEF SweepInv
    <2>5. CASE below # <<>>
      <3>1. \A s \in Handles : st[s] # "marked"
        <4> SUFFICES ASSUME NEW s \in Handles, st[s] = "marked" PROVE FALSE
            OBVIOUS
        <4>1. PICK m \in 1..Len(v) : v[m] = s
              BY <1>1, MarkedAreSwept
        <4>2. n # 0
          <5>1. s \in Doomed(st) /\ Doomed(st) \in SUBSET Handles
                BY DEF Doomed
          <5>2. IsFiniteSet(Doomed(st)) /\ Doomed(st) # {}
                BY <5>1, Countable
          <5>3. QED
                BY <1>1, <5>2, FS_EmptySet
        <4>3. m \in 1..i
              BY <1>4, <1>1, <1>3, <2>5, <4>1
        <4>4. QED
              BY <1>5, <4>1, <4>2, <4>3 DEF Stops
      <3>2. Len(sweeps'[MainThread]) = 1
            BY <1>4, <2>2, <2>5
      <3>3. \A s \in Handles : status'[s] # "marked"
            BY <2>1, <3>1
      <3>4. QED
            BY <2>1, <2>2, <2>3, <3>2, <3>3 DEF SweepInv
    <2>6. QED
          BY <2>4, <2>5
  <1>6. CASE Strays(v, st, n, i)
        BY <1>1, <1>3, <1>6 DEF Strays
  <1>7. ASSUME NEW k \in 1..Len(v), Takes(MainThread, below, pass, v, st, n, i, k)
        PROVE  SweepInv'
    <2> DEFINE f == [source |-> v[k], next |-> k - 1, pass |-> pass]
               r == sol_vector_del(v, k)
               st2 == [st EXCEPT ![v[k]] = "disposed"]
    <2>1. /\ source_vector' = r /\ status' = st2 /\ strayed' = FALSE
          /\ sweeps' = [sweeps EXCEPT ![MainThread] = Append(below, f)]
          /\ mpc' = IF pass = "none" THEN mpc ELSE At("sweep", pass)
          /\ \A m \in 1..i : st[v[m]] = "marked" => m <= k
          BY <1>1, <1>7 DEF Takes
    <2>2. f \in Frame /\ f.next = k - 1
          BY <1>1, <1>3 DEF Frame
    <2>3. r \in Seq(Handles) /\ Len(r) = Len(v) - 1 /\ \A j \in 1..(Len(v) - 1) : r[j] = IF j < k THEN v[j] ELSE v[j + 1]
          BY <1>1, DeletedEntries
    <2>4. \A s \in Handles : st2[s] = IF s = v[k] THEN "disposed" ELSE st[s]
          BY <1>1
    <2> HIDE DEF f, r, st2
    <2>5. /\ Len(Append(below, f)) = Len(below) + 1 /\ Len(below) \in Nat
          /\ Append(below, f)[Len(below) + 1] = f
          BY <1>1, <2>2, AppendedEntries
    <2>6. /\ sweeps'[MainThread] = Append(below, f)
          /\ \A u \in OtherThreads : sweeps'[u] = <<>>
          BY <1>1, <1>2, <2>1
    <2>7. k - 1 <= Len(r)
          BY <1>3, <2>3
    <2>8. CASE below = <<>>
      <3>1. Len(sweeps'[MainThread]) = 1 /\ sweeps'[MainThread][1].next <= Len(source_vector')
        <4>1. Len(below) = 0
              BY <2>8
        <4>2. QED
              BY <2>1, <2>2, <2>5, <2>6, <2>7, <4>1
      <3>2. QED
            BY <2>1, <2>6, <3>1 DEF SweepInv
    <2>9. CASE below # <<>>
      <3>1. /\ Len(sweeps'[MainThread]) = 2 /\ sweeps'[MainThread][2].next = k - 1
            /\ sweeps'[MainThread][2].next <= Len(source_vector')
        <4>1. Len(below) = 1
              BY <1>4, <2>9
        <4>2. Len(sweeps'[MainThread]) = 2 /\ sweeps'[MainThread][2] = f
              BY <2>5, <2>6, <4>1
        <4>3. QED
              BY <2>1, <2>2, <2>7, <4>2
      <3>2. mpc'[1] # "sweep"
            BY <1>4, <2>1, <2>9
      <3>3. ASSUME NEW j \in 1..Len(r), st2[r[j]] = "marked"
            PROVE  j <= k - 1
        <4>1. SUFFICES ASSUME j >= k PROVE FALSE
              BY <1>3, <2>3
        <4>2. r[j] = v[j + 1] /\ j + 1 \in 1..Len(v) /\ j + 1 > k
              BY <1>3, <2>3, <4>1
        <4>3. v[j + 1] # v[k] /\ v[j + 1] \in Handles
          <5>1. \A a, b \in 1..Len(v) : v[a] = v[b] => a = b
                BY <1>1 DEF Distinct
          <5>2. j + 1 # k
                BY <1>3, <2>3, <4>2
          <5>3. QED
                BY <1>3, <4>2, <5>1, <5>2
        <4>4. st[v[j + 1]] = "marked"
              BY <2>4, <3>3, <4>2, <4>3
        <4>5. j + 1 <= i
              BY <1>4, <2>9, <4>2, <4>4
        <4>6. QED
              BY <1>1, <1>3, <2>1, <4>2, <4>4, <4>5
      <3>4. \A j \in 1..Len(source_vector') :
              status'[source_vector'[j]] = "marked" => j <= sweeps'[MainThread][2].next
            BY <2>1, <3>1, <3>3
      <3>5. QED
            BY <2>1, <2>6, <3>1, <3>2, <3>4 DEF SweepInv
    <2>10. QED
           BY <2>8, <2>9
  <1>8. QED
    <2>1. \/ Stops(MainThread, below, pass, v, st, n, i)
          \/ Strays(v, st, n, i)
          \/ \E k \in 1..Len(v) : Takes(MainThread, below, pass, v, st, n, i, k)
          BY <1>1, CleanupGoes
    <2>2. QED
          BY <1>5, <1>6, <1>7, <2>1

LEMMA SafePassEnds ==
  ASSUME IInv, SweepInv, NEW p \in Passes, PassEnds(p)
  PROVE  SweepInv'
  <1> DEFINE v == source_vector \o source_v_process
  <1>1. strayed = FALSE /\ \A u \in OtherThreads : sweeps[u] = <<>>
        BY DEF IInv, TypeInv, TypeOK, SweepInv
  <1>2. Sweeping(MainThread, <<>>, p, v, status, source_pending_deletion, Len(v))
        BY <1>1, PassEndsSweeps
  <1>3. source_v_process' = <<>> /\ p # "none"
        BY DEF PassEnds, Passes
  <1> HIDE DEF v
  <1>4. Len(v) <= Len(v)
    <2>1. Len(v) \in Nat
          BY <1>2, LenProperties DEF Sweeping
    <2>2. QED
          BY <2>1
  <1>5. QED
        BY <1>1, <1>2, <1>3, <1>4, CleanupSafe

LEMMA SafeDisposeReturns ==
  ASSUME IInv, SweepInv, NEW t \in Threads, DisposeReturns(t)
  PROVE  SweepInv'
  <1> DEFINE f == Innermost(t)
             below == Popped(t)
             st == [status EXCEPT ![f.source] = "free"]
             n == source_pending_deletion - 1
  <1>1. strayed = FALSE /\ (\A u \in OtherThreads : sweeps[u] = <<>>) /\ Len(sweeps[MainThread]) <= 2
        BY DEF IInv, TypeInv, TypeOK, SweepInv
  <1>2. InDispose(t) /\ source_v_process' = source_v_process
        BY DEF DisposeReturns
  <1>3. t = MainThread
        BY <1>1, <1>2 DEF InDispose, Threads
  <1>4. /\ Sweeping(t, below, f.pass, source_vector, st, n, f.next)
        /\ status[f.source] = "disposed"
        BY <1>1, ReturnSweeps
  <1>5. /\ Len(sweeps[t]) \in Nat /\ Len(sweeps[t]) >= 1 /\ f \in Frame
        /\ f = sweeps[t][Len(sweeps[t])]
        /\ below \in Seq(Frame) /\ Len(below) = Len(sweeps[t]) - 1
        BY <1>2, InnermostFrame DEF Innermost
  <1>6. f.source \in Handles /\ f.next \in Nat /\ status \in [Handles -> Status]
    <2> HIDE DEF f
    <2>1. QED
          BY <1>5 DEF Frame, IInv, TypeInv, TypeOK, Status
  <1>7. /\ \A s \in Handles : st[s] = IF s = f.source THEN "free" ELSE status[s]
        /\ n = Cardinality(Doomed(st)) /\ Held(source_vector, source_v_process', st)
    <2>1. n = Cardinality(Doomed(st)) /\ Held(source_vector, source_v_process', st)
          BY <1>4 DEF Sweeping
    <2> HIDE DEF f
    <2>2. QED
          BY <1>6, <2>1
  <1> HIDE DEF f, below, st, n
  <1>8. /\ mpc[1] \notin {"walk", "cb"} => source_v_process = <<>>
        /\ mpc[1] \notin {"outside", "polling", "sweep"} => sweeps[MainThread] = <<>>
        /\ mpc[1] = "sweep" => Len(sweeps[MainThread]) = 1
        /\ mpc[1] # "sweep" => \A k \in 1..Len(sweeps[MainThread]) : sweeps[MainThread][k].pass = "none"
        /\ mpc \in Places /\ (mpc[1] = "sweep" => sweeps[MainThread][1].pass = mpc[2])
    <2>1. MainThread \in Threads
          BY DEF Threads
    <2>2. QED
          BY <2>1 DEF IInv, PlaceInv
  <1>9. source_v_process' = <<>>
        BY <1>2, <1>3, <1>8 DEF InDispose
  <1>10. f.pass = "none" => mpc[1] # "sweep"
    <2>1. mpc[1] = "sweep" => mpc[2] \in Passes
          BY <1>8, PlacesDiffer DEF InPass
    <2>2. mpc[1] = "sweep" => f.pass = mpc[2]
          BY <1>3, <1>5, <1>8
    <2>3. QED
          BY <2>1, <2>2 DEF Passes
  <1>11. CASE Len(sweeps[t]) = 1
    <2>1. below = <<>>
          BY <1>5, <1>11, EmptySeq
    <2>2. f = sweeps[MainThread][1]
          BY <1>3, <1>5, <1>11
    <2>3. n = 0 \/ f.next <= Len(source_vector)
      <3>1. CASE f.next <= Len(source_vector)
            BY <3>1
      <3>2. CASE ~(f.next <= Len(source_vector))
        <4>1. \A s \in Handles : status[s] # "marked"
              BY <1>3, <1>11, <2>2, <3>2 DEF SweepInv
        <4>2. \A s \in Handles : status[s] = "disposed" => s = f.source
          <5> SUFFICES ASSUME NEW s \in Handles, status[s] = "disposed" PROVE s = f.source
              OBVIOUS
          <5>1. PICK u \in Threads : \E k \in 1..Len(sweeps[u]) : sweeps[u][k].source = s
                BY <1>1 DEF IInv, FrameInv, Framed
          <5>2. PICK k \in 1..Len(sweeps[u]) : sweeps[u][k].source = s
                BY <5>1
          <5>3. u = MainThread
            <6>1. u \in OtherThreads => Len(sweeps[u]) = 0
                  BY <1>1
            <6>2. QED
                  BY <5>2, <6>1 DEF Threads
          <5>4. k = 1
                BY <1>3, <1>11, <5>2, <5>3
          <5>5. QED
                BY <2>2, <5>2, <5>3, <5>4
        <4>3. Doomed(st) = {}
              BY <1>7, <4>1, <4>2 DEF Doomed
        <4>4. QED
              BY <1>7, <4>3, FS_EmptySet
      <3>3. QED
            BY <3>1, <3>2
    <2>4. QED
          BY <1>1, <1>3, <1>4, <1>9, <1>10, <2>1, <2>3, CleanupSafe
  <1>12. CASE Len(sweeps[t]) = 2
    <2>1. mpc[1] # "sweep" /\ f = sweeps[MainThread][2] /\ f.pass = "none" /\ Len(below) = 1
      <3>1. mpc[1] # "sweep"
            BY <1>3, <1>8, <1>12
      <3>2. f = sweeps[MainThread][2] /\ Len(below) = 1
            BY <1>3, <1>5, <1>12
      <3>3. QED
            BY <1>3, <1>8, <1>12, <3>1, <3>2
    <2>2. /\ f.next <= Len(source_vector)
          /\ \A k \in 1..Len(source_vector) : status[source_vector[k]] = "marked" => k <= f.next
          BY <1>3, <1>12, <2>1 DEF SweepInv
    <2>3. \A k \in 1..Len(source_vector) : st[source_vector[k]] = "marked" => k <= f.next
      <3>1. source_vector \in Seq(Handles)
            BY DEF IInv, TypeInv, TypeOK
      <3>2. \A k \in 1..Len(source_vector) : source_vector[k] \in Handles
            BY <3>1, ElementOfSeq
      <3>3. QED
            BY <1>7, <2>2, <3>2
    <2>4. QED
          BY <1>1, <1>3, <1>4, <1>9, <2>1, <2>2, <2>3, CleanupSafe
  <1>13. Len(sweeps[t]) = 1 \/ Len(sweeps[t]) = 2
    <2>1. Len(sweeps[t]) <= 2
          BY <1>1, <1>3
    <2>2. Len(sweeps[t]) \in Nat /\ Len(sweeps[t]) >= 1
          BY <1>5
    <2>3. \A x \in Nat : x >= 1 /\ x <= 2 => x = 1 \/ x = 2
          OBVIOUS
    <2>4. QED
          BY <2>1, <2>2, <2>3, Zenon
  <1>14. QED
         BY <1>11, <1>12, <1>13

LEMMA SafeAdd ==
  ASSUME IInv, SweepInv, NEW s \in Handles, sol_mainloop_add_source(s)
  PROVE  SweepInv'
  <1>1. /\ status[s] = "free" /\ status' = [status EXCEPT ![s] = "live"]
        /\ source_vector' = Append(source_vector, s)
        /\ UNCHANGED <<mpc, sweeps, strayed>>
        BY DEF sol_mainloop_add_source, walkVars
  <1>2. source_vector \in Seq(Handles) /\ status \in [Handles -> Status]
        BY DEF IInv, TypeInv, TypeOK, Status
  <1>3. /\ Len(source_vector') = Len(source_vector) + 1 /\ Len(source_vector) \in Nat
        /\ \A k \in 1..Len(source_vector) : source_vector'[k] = source_vector[k]
        /\ source_vector'[Len(source_vector) + 1] = s
        BY <1>1, <1>2, AppendedEntries
  <1>4. \A x \in Handles : status'[x] = IF x = s THEN "live" ELSE status[x]
        BY <1>1, <1>2
  <1>5. \A k \in 1..Len(source_vector) : source_vector[k] \in Handles
        BY <1>2, ElementOfSeq
  <1>6. \A k \in 1..Len(source_vector') : status'[source_vector'[k]] = "marked" =>
          k \in 1..Len(source_vector) /\ status[source_vector[k]] = "marked"
    <2> SUFFICES ASSUME NEW k \in 1..Len(source_vector'), status'[source_vector'[k]] = "marked"
                 PROVE  k \in 1..Len(source_vector) /\ status[source_vector[k]] = "marked"
        OBVIOUS
    <2>1. k # Len(source_vector) + 1
          BY <1>3, <1>4
    <2>2. k \in 1..Len(source_vector)
          BY <1>3, <2>1
    <2>3. QED
          BY <1>3, <1>4, <1>5, <2>2
  <1>7. \A u \in Threads : \A k \in 1..Len(sweeps[u]) : sweeps[u][k].next \in Nat
        BY FrameTypes DEF IInv, TypeInv
  <1>8. MainThread \in Threads
        BY DEF Threads
  <1>9. mpc[1] = "sweep" => sweeps[MainThread][1].next <= Len(source_vector')
    <2>1. mpc[1] = "sweep" => Len(sweeps[MainThread]) = 1 /\ sweeps[MainThread][1].next <= Len(source_vector)
          BY DEF IInv, PlaceInv, SweepInv
    <2>2. QED
          BY <1>3, <1>7, <1>8, <2>1
  <1>10. mpc[1] # "sweep" /\ Len(sweeps[MainThread]) = 1 =>
           sweeps[MainThread][1].next <= Len(source_vector') \/ \A x \in Handles : status'[x] # "marked"
    <2>1. mpc[1] # "sweep" /\ Len(sweeps[MainThread]) = 1 =>
            sweeps[MainThread][1].next <= Len(source_vector) \/ \A x \in Handles : status[x] # "marked"
          BY DEF SweepInv
    <2>2. QED
          BY <1>3, <1>4, <1>7, <1>8, <2>1
  <1>11. mpc[1] # "sweep" /\ Len(sweeps[MainThread]) = 2 =>
           /\ sweeps[MainThread][2].next <= Len(source_vector')
           /\ \A k \in 1..Len(source_vector') :
                status'[source_vector'[k]] = "marked" => k <= sweeps[MainThread][2].next
    <2>1. mpc[1] # "sweep" /\ Len(sweeps[MainThread]) = 2 =>
            /\ sweeps[MainThread][2].next <= Len(source_vector)
            /\ \A k \in 1..Len(source_vector) :
                 status[source_vector[k]] = "marked" => k <= sweeps[MainThread][2].next
          BY DEF SweepInv
    <2>2. QED
          BY <1>3, <1>6, <1>7, <1>8, <2>1
  <1>12. QED
         BY <1>1, <1>9, <1>10, <1>11 DEF SweepInv

LEMMA SafeDel ==
  ASSUME OtherThreadsDel = FALSE, MaxNesting <= 2, IInv, SweepInv,
         NEW t \in Threads, NEW s \in Handles, sol_mainloop_del_source(t, s)
  PROVE  SweepInv'
  <1> DEFINE st == [status EXCEPT ![s] = "marked"]
  <1>1. strayed = FALSE /\ (\A u \in OtherThreads : sweeps[u] = <<>>)
        BY DEF IInv, TypeInv, TypeOK, SweepInv
  <1>2. t = MainThread /\ Len(sweeps[MainThread]) < MaxNesting /\ source_v_process' = source_v_process
        BY DEF sol_mainloop_del_source, Threads
  <1>3. Len(sweeps[MainThread]) \in Nat /\ Len(sweeps[MainThread]) <= 1 /\ sweeps[MainThread] \in Seq(Frame)
    <2>1. sweeps[MainThread] \in Seq(Frame)
          BY <1>2 DEF IInv, TypeInv
    <2>2. Len(sweeps[MainThread]) \in Nat
          BY <2>1, LenProperties
    <2>3. QED
          BY <1>2, <2>1, <2>2, SourcesAssumption
  <1>4. CASE source_processing
    <2>1. UNCHANGED <<source_vector, mpc, sweeps, strayed>>
          BY <1>4 DEF sol_mainloop_del_source
    <2>2. mpc[1] # "sweep" => sweeps[MainThread] = <<>>
          BY <1>4 DEF IInv, PlaceInv, InPass
    <2>3. mpc[1] # "sweep" => Len(sweeps[MainThread]) = 0
          BY <2>2
    <2>4. QED
          BY <2>1, <2>3 DEF SweepInv
  <1>5. CASE ~source_processing
    <2>1. /\ mpc[1] \in {"outside", "polling"}
          /\ Sweeping(MainThread, sweeps[MainThread], "none", source_vector, st,
                      source_pending_deletion + 1, Len(source_vector))
          BY <1>1, <1>2, <1>5, DelSweeps
    <2>2. source_v_process' = <<>>
          BY <1>2, <2>1 DEF IInv, PlaceInv
    <2>3. Len(source_vector) \in Nat
          BY LenProperties DEF IInv, TypeInv, TypeOK
    <2>4. \A m \in 1..Len(source_vector) : st[source_vector[m]] = "marked" => m <= Len(source_vector)
          BY <2>3
    <2>5. sweeps[MainThread] = <<>> \/ Len(sweeps[MainThread]) = 1
      <3>1. Len(sweeps[MainThread]) = 0 \/ Len(sweeps[MainThread]) = 1
        <4>1. \A x \in Nat : x <= 1 => x = 0 \/ x = 1
              OBVIOUS
        <4>2. QED
              BY <1>3, <4>1, Zenon
      <3>2. QED
        <4>1. Len(sweeps[MainThread]) = 0 => sweeps[MainThread] = <<>>
              BY <1>3, EmptySeq
        <4>2. QED
              BY <3>1, <4>1
    <2>6. Len(source_vector) <= Len(source_vector)
          BY <2>3
    <2> HIDE DEF st
    <2>7. QED
          BY <1>1, <2>1, <2>2, <2>4, <2>5, <2>6, CleanupSafe
  <1>6. source_processing \in BOOLEAN
        BY DEF IInv, TypeInv, TypeOK
  <1>7. QED
        BY <1>4, <1>5, <1>6

\* The other steps: main thread outside of a sweep.
LEMMA SafeElsewhere ==
  ASSUME IInv, SweepInv, sweeps[MainThread] = <<>>, UNCHANGED <<sweeps, strayed>>, mpc'[1] # "sweep"
  PROVE  SweepInv'
  <1>1. Len(sweeps[MainThread]) = 0
        OBVIOUS
  <1>2. QED
        BY <1>1 DEF SweepInv

LEMMA NextSweepInv ==
  ASSUME OtherThreadsDel = FALSE, MaxNesting <= 2
  PROVE  IInv /\ SweepInv /\ [Next]_vars => SweepInv'
  <1> SUFFICES ASSUME IInv, SweepInv, [Next]_vars PROVE SweepInv'
      OBVIOUS
  <1>1. CASE UNCHANGED vars
        BY <1>1 DEF vars, SweepInv
  <1>2. CASE PrepareBegins \/ GetNextTimeoutBegins \/ CheckBegins \/ DispatchBegins
    <2>1. UNCHANGED <<sweeps, strayed>> /\ mpc'[1] = "walk"
      <3>1. PICK p : Steal(p)
            BY <1>2 DEF PrepareBegins, GetNextTimeoutBegins, CheckBegins, DispatchBegins
      <3>2. QED
            BY <3>1, PlacesDiffer DEF Steal
    <2>2. sweeps[MainThread] = <<>>
      <3>1. CASE PrepareBegins \/ CheckBegins
            BY <3>1 DEF PrepareBegins, CheckBegins, InDispose
      <3>2. CASE GetNextTimeoutBegins \/ DispatchBegins
        <4>1. mpc[1] \in {"prepared", "checked"}
              BY <3>2, PlacesDiffer DEF GetNextTimeoutBegins, DispatchBegins
        <4>2. QED
              BY <4>1 DEF IInv, PlaceInv
      <3>3. QED
            BY <1>2, <3>1, <3>2
    <2>3. QED
          BY <2>1, <2>2, SafeElsewhere
  <1>3. CASE IdlerFirst \/ NothingReady
    <2>1. UNCHANGED <<sweeps, strayed>> /\ mpc'[1] # "sweep" /\ mpc[1] \in {"prepared", "checked"}
          BY <1>3, PlacesDiffer DEF IdlerFirst, NothingReady
    <2>2. QED
          BY <2>1, SafeElsewhere DEF IInv, PlaceInv
  <1>4. ASSUME NEW p \in Passes, Skip(p) \/ Call(p)
        PROVE  SweepInv'
    <2>1. UNCHANGED <<sweeps, strayed>> /\ mpc = At("walk", p) /\ (mpc' = mpc \/ mpc' = At("cb", p))
          BY <1>4 DEF Skip, Call, Goes
    <2>2. mpc[1] = "walk" /\ mpc'[1] # "sweep"
          BY <2>1, PlacesDiffer
    <2>3. QED
          BY <2>1, <2>2, SafeElsewhere DEF IInv, PlaceInv
  <1>5. ASSUME NEW p \in Passes, NEW result \in BOOLEAN, Return(p, result)
        PROVE  SweepInv'
    <2>1. UNCHANGED <<sweeps, strayed>> /\ sweeps[MainThread] = <<>> /\ mpc' = At("walk", p)
          BY <1>5 DEF Return, InDispose
    <2>2. mpc'[1] # "sweep"
          BY <2>1, PlacesDiffer
    <2>3. QED
          BY <2>1, <2>2, SafeElsewhere
  <1>6. CASE sol_run \/ sol_quit
        BY <1>6 DEF sol_run, sol_quit, vectorVars, SweepInv
  <1>7. CASE sol_mainloop_common_source_shutdown
    <2>1. UNCHANGED <<sweeps, strayed>> /\ mpc'[1] # "sweep" /\ sweeps[MainThread] = <<>>
          BY <1>7, PlacesDiffer DEF sol_mainloop_common_source_shutdown, InDispose, Threads
    <2>2. QED
          BY <2>1, SafeElsewhere
  <1>8. ASSUME NEW p \in Passes, PassEnds(p)
        PROVE  SweepInv'
        BY <1>8, SafePassEnds
  <1>9. CASE MainStep
        BY <1>2, <1>3, <1>4, <1>8, <1>9 DEF MainStep
  <1>10. CASE CallbackReturns
         BY <1>5, <1>10 DEF CallbackReturns
  <1>11. CASE \E t \in Threads : DisposeReturns(t)
         BY <1>11, SafeDisposeReturns
  <1>12. CASE \E s \in Handles : sol_mainloop_add_source(s)
         BY <1>12, SafeAdd
  <1>13. CASE \E t \in Threads, s \in Handles : sol_mainloop_del_source(t, s)
         BY <1>13, SafeDel
  <1>14. QED
         BY <1>1, <1>6, <1>7, <1>9, <1>10, <1>11, <1>12, <1>13 DEF Next

\* If only the main thread deletes sources and dispose() nests once at most, no
\* walk and no sweep of source_cleanup() leaves the vector or meets a source
\* that is freed, although the sweep goes on after dispose() with its old index.
THEOREM SourcesAlwaysValid ==
  ASSUME OtherThreadsDel = FALSE, MaxNesting <= 2
  PROVE  Spec => []SourcesStayValid
  <1>1. Init => SweepInv
    <2>1. MainThread \in Threads /\ OtherThreads \subseteq Threads
          BY DEF Threads
    <2>2. Init => mpc[1] # "sweep"
          BY PlacesDiffer DEF Init
    <2>3. QED
          BY <2>1, <2>2 DEF Init, SweepInv
  <1>2. IInv /\ SweepInv => SourcesStayValid
    <2> SUFFICES ASSUME IInv, SweepInv PROVE SourcesStayValid
        OBVIOUS
    <2> DEFINE all == source_vector \o source_v_process
    <2>1. TypeOK /\ ~strayed
          BY DEF IInv, TypeInv, SweepInv
    <2>2. source_vector \in Seq(Handles) /\ source_v_process \in Seq(Handles)
          BY <2>1 DEF TypeOK
    <2>3. /\ all \in Seq(Handles)
          /\ \A y : In(y, all) <=> In(y, source_vector) \/ In(y, source_v_process)
          /\ Distinct(source_vector) /\ Distinct(source_v_process)
             /\ (\A y : ~(In(y, source_vector) /\ In(y, source_v_process))) => Distinct(all)
          BY <2>2, JoinedEntries
    <2> HIDE DEF all
    <2>4. /\ Distinct(source_vector) /\ Distinct(source_v_process)
          /\ \A s \in Handles : /\ ~(In(s, source_vector) /\ In(s, source_v_process))
                                /\ In(s, source_vector) \/ In(s, source_v_process)
                                     <=> status[s] \in {"live", "marked"}
          BY DEF IInv, MemoryInv, Held
    <2>5. \A y : In(y, source_vector) => y \in Handles
          BY <2>2, ElementOfSeq DEF In
    <2>6. Distinct(all)
          BY <2>3, <2>4, <2>5
    <2>7. DOMAIN all = 1..Len(all) /\ \A k \in 1..Len(all) : all[k] \in Handles
          BY <2>3, LenProperties, ElementOfSeq
    <2>8. \A s : s \in Entries(all) <=> In(s, all)
          BY <2>7 DEF Entries, In
    <2>9. Entries(all) = {s \in Handles : status[s] \in {"live", "marked"}}
      <3>1. \A s : In(s, all) => s \in Handles
            BY <2>7 DEF In
      <3>2. QED
            BY <2>3, <2>4, <2>8, <3>1
    <2>10. \A j, k \in DOMAIN all : all[j] = all[k] => j = k
           BY <2>6, <2>7 DEF Distinct
    <2>11. QED
           BY <2>1, <2>9, <2>10 DEF SourcesStayValid, all
  <1>3. QED
        BY <1>1, <1>2, NextSweepInv, SourcesInvariant, PTL DEF Spec

-----------------------------------------------------------------------------
(* The wakeup protocol.                                                    *)

\* The flag is up exactly while a byte is in the pipe, a thread is between the
\* test-and-set and its write(), or the loop is between read() and clear.
NotifiedInv ==
  have_notified <=> (pipe = 1 \/ Writers # {} \/ lpc = "ack_clear")

\* Those three exclude one another, and there is one writer at most.
OneByte ==
  /\ pipe = 1 => Writers = {} /\ lpc # "ack_clear"
  /\ lpc = "ack_clear" => Writers = {}
  /\ \A v, w \in Writers : v = w

\* ml_lock is held exactly inside the critical sections of more than one step.
LockInv ==
  /\ \A w \in Workers : ml_lock = w <=> wpc[w] \in {"post_notify", "post_write"}
  /\ ml_lock = MainThread <=> lpc = "ack_clear"

\* A byte seen by ppoll() stays until main_thread_ack() takes it.
ReadableInv ==
  /\ lpc = "fds" /\ readable => pipe = 1
  /\ lpc = "ack_read" => pipe = 1

\* Between the last test of the run flag and the sleep, and in the sleep, a
\* quit or a post has a wakeup coming.
SleepInv ==
  /\ lpc \in {"prepare", "ppoll"} /\ ~run_loop => WakeComing
  /\ lpc = "ppoll" /\ block /\ posted # {} => WakeComing

WakeupInv == WakeupTypeOK /\ NotifiedInv /\ OneByte /\ LockInv /\ ReadableInv /\ SleepInv

-----------------------------------------------------------------------------

\* The signal storage is empty at the start and after signals_process().
LEMMA EmptyStorage ==
  /\ <<>> \in Seq(SignalKind)
  /\ Len(<<>>) = 0
  OBVIOUS

LEMMA InitWakeupInv == WakeupInit => WakeupInv
  <1> SUFFICES ASSUME WakeupInit PROVE WakeupInv
      OBVIOUS
  <1>1. WakeupTypeOK
    <2>1. siginfo_storage \in Seq(SignalKind) /\ Len(siginfo_storage) <= SigCapacity
          BY EmptyStorage, WakeupAssumption DEF WakeupInit
    <2>2. posts \in [Workers -> 0..MaxPosts] /\ signals \in 0..MaxSignals
          BY WakeupAssumption DEF WakeupInit
    <2>3. wpc \in [Workers -> WorkerPC] /\ lpc \in MainPC
          BY DEF WakeupInit, MainPC, WorkerPC
    <2>4. QED
          BY <2>1, <2>2, <2>3 DEF WakeupInit, WakeupTypeOK
  <1>2. Writers = {}
        BY DEF WakeupInit, Writers
  <1>3. NotifiedInv /\ OneByte
        BY <1>2 DEF WakeupInit, NotifiedInv, OneByte
  <1>4. LockInv
        BY WakeupAssumption DEF WakeupInit, LockInv
  <1>5. ReadableInv /\ SleepInv
        BY DEF WakeupInit, ReadableInv, SleepInv
  <1>6. QED
        BY <1>1, <1>3, <1>4, <1>5 DEF WakeupInv

\* Steps of the main thread leave the workers where they are.
LEMMA WakeupMain == WakeupInv /\ Main => WakeupInv'
  <1> SUFFICES ASSUME WakeupInv, Main PROVE WakeupInv'
      OBVIOUS
  <1> USE WakeupAssumption DEF WakeupInv, WakeupTypeOK, MainGoes, flagVars, notifyVars,
          pollVars, sigVars, workerVars, MainPC, NotifiedInv, OneByte, LockInv,
          ReadableInv, SleepInv, WakeComing
  <1>0. wpc' = wpc /\ Writers' = Writers /\ Notifiers' = Notifiers
        BY DEF Main, sol_run_begin, sol_mainloop_impl_run, loop_check, fd_process_check,
           fd_prepare, ppoll, fd_process, main_thread_ack_read,
           main_thread_ack_clear, signals_process, run_handlers, Writers, Notifiers
  <1>1. CASE sol_run_begin
        BY <1>0, <1>1 DEF sol_run_begin
  <1>2. CASE sol_mainloop_impl_run
        BY <1>0, <1>2 DEF sol_mainloop_impl_run
  <1>3. CASE loop_check
        BY <1>0, <1>3 DEF loop_check
  <1>4. CASE fd_process_check
        BY <1>0, <1>4 DEF fd_process_check
  <1>5. CASE fd_prepare
        BY <1>0, <1>5 DEF fd_prepare
  <1>6. CASE ppoll
    <2>1. readable' \in BOOLEAN /\ (readable' => pipe = 1)
      <3>1. CASE pipe > 0 /\ ~eintr
            BY <1>6, <3>1 DEF ppoll
      <3>2. CASE ~(pipe > 0 /\ ~eintr)
            BY <1>6, <3>2, Zenon DEF ppoll
      <3>3. QED
            BY <3>1, <3>2
    <2>2. QED
          BY <1>0, <1>6, <2>1 DEF ppoll
  <1>7. CASE fd_process
        BY <1>0, <1>7 DEF fd_process
  <1>8. CASE main_thread_ack_read
    <2>1. pipe = 1 /\ pipe' = 0 /\ lpc' = "ack_clear" /\ ml_lock' = MainThread
          BY <1>8 DEF main_thread_ack_read
    <2>2. have_notified' = have_notified /\ have_notified /\ Writers = {}
          BY <1>8, <2>1 DEF main_thread_ack_read
    <2>3. \A w \in Workers : wpc[w] \notin {"post_notify", "post_write"}
          BY <1>8 DEF main_thread_ack_read
    <2>4. NotifiedInv' /\ OneByte'
          BY <1>0, <2>1, <2>2
    <2>5. LockInv' /\ ReadableInv' /\ SleepInv'
          BY <1>0, <2>1, <2>3
    <2>6. WakeupTypeOK'
          BY <1>8, <2>1 DEF main_thread_ack_read
    <2>7. QED
          BY <2>4, <2>5, <2>6
  <1>9. CASE main_thread_ack_clear
        BY <1>0, <1>9 DEF main_thread_ack_clear
  <1>10. CASE signals_process
    <2>1. CASE mainloop_running /\ \E i \in DOMAIN siginfo_storage : siginfo_storage[i] = "quit"
      <3>1. /\ have_notified' = TRUE
            /\ pipe' = IF have_notified THEN pipe ELSE pipe + 1
            /\ lpc = "signals" /\ lpc' = "handlers"
            /\ UNCHANGED ml_lock
            BY <1>10, <2>1 DEF signals_process
      <3>2. NotifiedInv' /\ OneByte'
        <4>1. CASE have_notified
              BY <1>0, <3>1, <4>1
        <4>2. CASE ~have_notified
              BY <1>0, <3>1, <4>2
        <4>3. QED
              BY <4>1, <4>2
      <3>3. LockInv' /\ ReadableInv' /\ SleepInv'
            BY <1>0, <3>1
      <3>4. pipe' \in {0, 1}
        <4>1. CASE have_notified
              BY <3>1, <4>1
        <4>2. CASE ~have_notified
              BY <3>1, <4>2
        <4>3. QED
              BY <4>1, <4>2
      <3>5. WakeupTypeOK'
        <4>1. siginfo_storage' \in Seq(SignalKind) /\ Len(siginfo_storage') <= SigCapacity
              BY <1>10, EmptyStorage DEF signals_process
        <4>2. QED
              BY <1>10, <2>1, <3>4, <4>1 DEF signals_process
      <3>6. QED
            BY <3>2, <3>3, <3>5
    <2>2. CASE ~(mainloop_running /\ \E i \in DOMAIN siginfo_storage : siginfo_storage[i] = "quit")
          BY <1>0, <1>10, <2>2 DEF signals_process
    <2>3. QED
          BY <2>1, <2>2
  <1>11. CASE run_handlers
        BY <1>0, <1>11 DEF run_handlers
  <1>12. QED
        BY <1>1, <1>2, <1>3, <1>4, <1>5, <1>6, <1>7, <1>8, <1>9, <1>10, <1>11 DEF Main

\* Steps of a worker inside an API function, and its entry into one.
LEMMA WakeupWorker ==
  ASSUME WakeupInv, NEW w \in Workers, Post(w) \/ sol_quit_with_code(w) \/ InCall(w)
  PROVE  WakeupInv'
  <1> USE WakeupAssumption DEF WakeupInv, WakeupTypeOK, WorkerGoes, flagVars, notifyVars,
          pollVars, sigVars, workerVars, WorkerPC, NotifiedInv, OneByte, LockInv,
          ReadableInv, SleepInv, WakeComing, Writers, Notifiers
  <1>1. CASE Post(w)
        BY <1>1 DEF Post
  <1>2. CASE sol_quit_with_code(w)
        BY <1>2 DEF sol_quit_with_code
  <1>3. CASE PostNotify(w)
    <2>1. CASE have_notified
          BY <1>3, <2>1, SMTT(30) DEF PostNotify
    <2>2. CASE ~have_notified
      <3>1. /\ pipe = 0 /\ pipe' = 0 /\ Writers = {} /\ lpc # "ack_clear" /\ lpc' = lpc
            /\ have_notified' = TRUE /\ ml_lock' = ml_lock
            BY <1>3, <2>2 DEF PostNotify
      <3>2. wpc[w] = "post_notify" /\ wpc' = [wpc EXCEPT ![w] = "post_write"]
            BY <1>3, <2>2 DEF PostNotify
      <3>3. Writers' = {w}
            BY <3>1, <3>2
      <3>4. NotifiedInv' /\ OneByte'
            BY <3>1, <3>3
      <3>5. LockInv'
            BY <3>1, <3>2
      <3>6. ReadableInv' /\ SleepInv'
            BY <1>3, <2>2, <3>1, <3>3 DEF PostNotify
      <3>7. WakeupTypeOK'
            BY <1>3, <2>2, <3>2 DEF PostNotify
      <3>8. QED
            BY <3>4, <3>5, <3>6, <3>7
    <2>3. QED
          BY <2>1, <2>2
  <1>4. CASE PostWrite(w)
        BY <1>4 DEF PostWrite
  <1>5. CASE QuitRunning(w)
        BY <1>5, ZenonT(60) DEF QuitRunning
  <1>6. CASE sol_mainloop_impl_quit(w)
        BY <1>6, ZenonT(60) DEF sol_mainloop_impl_quit
  <1>7. CASE QuitNotify(w)
        BY <1>7 DEF QuitNotify
  <1>8. CASE QuitWrite(w)
        BY <1>8 DEF QuitWrite
  <1>9. QED
        BY <1>1, <1>2, <1>3, <1>4, <1>5, <1>6, <1>7, <1>8 DEF InCall

LEMMA WakeupSignal ==
  ASSUME WakeupInv, NEW k \in SignalKind, sighandler(k)
  PROVE  WakeupInv'
  BY WakeupAssumption DEF sighandler, WakeupInv, WakeupTypeOK, flagVars, notifyVars, workerVars,
     NotifiedInv, OneByte, LockInv, ReadableInv, SleepInv, WakeComing, Writers, Notifiers

LEMMA WakeupStutters == WakeupInv /\ UNCHANGED wakeupVars => WakeupInv'
  BY DEF wakeupVars, WakeupInv, WakeupTypeOK, NotifiedInv, OneByte, LockInv, ReadableInv, SleepInv,
     WakeComing, Writers, Notifiers

\* The inductive invariant holds in every reachable state.
THEOREM WakeupInvariant == WakeupSpec => []WakeupInv
  <1>1. WakeupInv /\ [WakeupNext]_wakeupVars => WakeupInv'
        BY WakeupMain, WakeupWorker, WakeupSignal, WakeupStutters DEF WakeupNext
  <1>2. QED
        BY InitWakeupInv, <1>1, PTL DEF WakeupSpec

\* Type correctness, and with it that the notification pipe never holds more
\* than one byte.
THEOREM WakeupTypeCorrect == WakeupSpec => []WakeupTypeOK
  BY WakeupInvariant, PTL DEF WakeupInv

\* The main thread never sleeps over linked work or a quit without a wakeup
\* on its way (sol_mainloop_impl_main_thread_notify, main_thread_ack).
THEOREM NeverLosesWakeup == WakeupSpec => []NoLostWakeup
  <1>1. WakeupInv => NoLostWakeup
        BY DEF WakeupInv, SleepInv, NoLostWakeup
  <1>2. QED
        BY WakeupInvariant, <1>1, PTL

\* main_thread_ack() never blocks in read() with ml_lock held.
THEOREM AckDoesNotBlock == WakeupSpec => []AckNeverBlocks
  <1>1. WakeupInv => AckNeverBlocks
        BY DEF WakeupInv, ReadableInv, AckNeverBlocks
  <1>2. QED
        BY WakeupInvariant, <1>1, PTL
=============================================================================
