-------------------------- MODULE DescriptorsProofs -------------------------
(***************************************************************************)
(* fd_process() finds the handlers of descriptors by number in a table     *)
(* that is older than they are, and yet neither sleeps over one nor calls  *)
(* the wrong one, for any number of handlers, numbers and threads.         *)
(*                                                                         *)
(* MemoryInv: the two vectors hold the allocated handlers, each once, and  *)
(* the count that stops the sweep is exact.  Mapped(v): the table lists    *)
(* the handlers of v in the order of v, and those without an entry come    *)
(* last.  The walk relies on it, with ReachInv: entries of handlers that   *)
(* were visited are in front of j, those of the others are not.            *)
(***************************************************************************)
EXTENDS Descriptors, VectorProofs

Status == {"free", "live", "marked"}
Marked == {h \in Handles : status[h] = "marked"}
Walking == {"walk", "cb", "timeouts"}
Places == {"outside", "prepared", "polled", "down"} \cup Walking
PollFd == [fd : Numbers \cup {0}, events : SUBSET Events,
           revents : SUBSET (Events \cup {"nval"}), owner : Handles]

\* Both vectors together hold what is allocated, each handler once.
MemoryInv ==
  /\ Distinct(fd_vector) /\ Distinct(fd_v_process)
  /\ \A h \in Handles : /\ ~(In(h, fd_vector) /\ In(h, fd_v_process))
                        /\ In(h, fd_vector) \/ In(h, fd_v_process) <=> status[h] # "free"

\* The count is exact, and no mark outlives the walk.
CountInv ==
  /\ fd_pending_deletion = Cardinality(Marked)
  /\ ~fd_processing => Marked = {} /\ fd_v_process = <<>>

\* What is true at each place of fd_process().
PlaceInv ==
  /\ mpc \in Places /\ i \in Nat
  /\ fd_processing <=> mpc \in Walking
  /\ mpc \in {"cb", "timeouts"} => i \in 1..Len(fd_v_process)
  /\ mpc \in Walking => i >= 1 /\ j >= 1
  /\ mpc \notin Walking => j = 0
  /\ mpc \notin Walking \cup {"polled"} => nfds = 0

\* The handler has an entry with its number and flags.
InTable(h) ==
  \E k \in 1..Len(pollfds) :
    pollfds[k].owner = h /\ pollfds[k].fd = fd[h] /\ pollfds[k].events = flags[h]

\* While nothing has changed, the table is up to date.
TableInv ==
  /\ pollfds \in Seq(PollFd)
  /\ ~fd_changed => \A h \in Live : InTable(h)

\* No two live handlers have the same number.
OpenInv == \A h, g \in Live : fd[h] = fd[g] => h = g

IInv == TypeOK /\ MemoryInv /\ CountInv /\ PlaceInv /\ TableInv /\ OpenInv

\* The sleep: what has changed since the table was made is notified.
SleepInv == mpc = "prepared" /\ ~notified => \A h \in Live : InTable(h)

\* Entry k of table p was made for entry n of v, with the number f gives it now.
HasEntry(v, p, f, n, k) == p[k].owner = v[n] /\ p[k].fd = f[v[n]]

\* No number of a handler of v leads to an entry of another one, entries are in
\* the order of v, and the handlers without an entry come last.
Maps(v, p, f) ==
  \A n \in 1..Len(v), k \in 1..Len(p) :
    /\ p[k].fd = f[v[n]] => p[k].owner = v[n]
    /\ HasEntry(v, p, f, n, k) =>
         \A m \in 1..Len(v) : m < n =>
           /\ \E l \in 1..Len(p) : HasEntry(v, p, f, m, l)
           /\ \A l \in 1..Len(p) : HasEntry(v, p, f, m, l) => l < k

Mapped(v) == Maps(v, pollfds, fd)

NumbersDiffer == \A k, l \in 1..Len(pollfds) : pollfds[k].fd = pollfds[l].fd => k = l

MatchInv ==
  /\ NumbersDiffer
  /\ ~fd_processing /\ (~fd_changed \/ mpc \in {"prepared", "polled"}) => Mapped(fd_vector)
  /\ fd_processing => /\ Mapped(fd_v_process)
                      /\ ~fd_changed => fd_vector = <<>> /\ Marked = {}

\* The entries from index j on for which there are events.
Pending == {k \in 1..Len(pollfds) : k >= j /\ pollfds[k].revents # {}}

\* Handlers that were visited have their entries in front of j, the others not.
Reaches ==
  \A n \in 1..Len(fd_v_process), k \in 1..Len(pollfds) :
    HasEntry(fd_v_process, pollfds, fd, n, k) =>
      /\ n < i \/ (n = i /\ mpc # "walk") => k < j \/ status[fd_v_process[n]] # "live"
      /\ n > i \/ (n = i /\ mpc = "walk") => k >= j

\* nfds counts at least the entries from j on, so that the walk does not stop early.
ReachInv ==
  /\ mpc \in Walking \cup {"polled"} => Cardinality(Pending) <= nfds
  /\ fd_processing => Reaches

WalkInv == MatchInv /\ ReachInv

-----------------------------------------------------------------------------
(* The sweep.                                                              *)

\* Any set of handlers can be counted.
LEMMA Countable ==
  ASSUME NEW S \in SUBSET Handles
  PROVE  /\ IsFiniteSet(S) /\ Cardinality(S) \in Nat /\ Cardinality(Handles) \in Nat
         /\ Cardinality(S) <= Cardinality(Handles)
  <1>1. IsFiniteSet(Handles)
        BY DescriptorsAssumption
  <1>2. QED
        BY <1>1, FS_Subset, FS_CardinalityType

\* fd_cleanup() frees every marked handler and no other, if its count is exact.
LEMMA Sweep ==
  ASSUME NEW v \in Seq(Handles), Distinct(v), NEW st \in [Handles -> Status], NEW n,
         n = Cardinality({h \in Handles : st[h] = "marked"}),
         \A h \in Handles : st[h] = "marked" => In(h, v),
         fd_cleanup(v, st, n)
  PROVE  /\ fd_vector' \in Seq(Handles) /\ Distinct(fd_vector')
         /\ Selects(fd_vector', v, {k \in 1..Len(v) : st[v[k]] # "marked"}, Len(v))
         /\ \A h \in Handles : In(h, fd_vector') <=> In(h, v) /\ st[h] # "marked"
         /\ fd_pending_deletion' = 0
         /\ status' = [h \in Handles |-> IF st[h] = "marked" THEN "free" ELSE st[h]]
         /\ fd' = [h \in Handles |-> IF st[h] = "marked" THEN 0 ELSE fd[h]]
         /\ flags' = [h \in Handles |-> IF st[h] = "marked" THEN {} ELSE flags[h]]
  <1> DEFINE M == {h \in Handles : st[h] = "marked"}
             marked == {k \in DOMAIN v : st[v[k]] = "marked"}
             victims == {v[k] : k \in {x \in marked : Cardinality({y \in marked : y > x}) < n}}
             S == {k \in 1..Len(v) : st[v[k]] # "marked"}
  <1>1. Len(v) \in Nat /\ DOMAIN v = 1..Len(v) /\ \A k \in 1..Len(v) : v[k] \in Handles
        BY LenProperties, ElementOfSeq
  <1>2. IsFiniteSet(M) /\ Cardinality(M) \in Nat /\ n = Cardinality(M)
        BY Countable
  <1>3. marked = {k \in 1..Len(v) : v[k] \in M}
        BY <1>1
  <1>4. \A x \in marked : Cardinality({y \in marked : y > x}) < n
    <2> SUFFICES ASSUME NEW x \in marked PROVE Cardinality({y \in marked : y > x}) < n
        OBVIOUS
    <2>1. x \in 1..Len(v) /\ v[x] \in M
          BY <1>3
    <2> HIDE DEF M
    <2>2. Cardinality({y \in {k \in 1..Len(v) : v[k] \in M} : y > x}) < Cardinality(M)
          BY <1>2, <2>1, FewerBehind
    <2>3. QED
          BY <1>2, <1>3, <2>2
  <1>5. victims = {v[k] : k \in marked}
        BY <1>4
  <1>6. victims = M
    <2>1. ASSUME NEW h \in M PROVE h \in victims
      <3>1. PICK k \in 1..Len(v) : v[k] = h
            BY <2>1 DEF In
      <3>2. k \in marked
            BY <1>1, <2>1, <3>1
      <3>3. QED
            BY <1>5, <3>1, <3>2
    <2>2. QED
          BY <1>1, <1>5, <2>1
  <1>7. {k \in DOMAIN v : v[k] \notin victims} = S
        BY <1>1, <1>6
  <1>8. /\ fd_vector' = Kept(v, {k \in DOMAIN v : v[k] \notin victims})
        /\ fd_pending_deletion' = n - Cardinality(victims)
        /\ status' = [h \in Handles |-> IF h \in victims THEN "free" ELSE st[h]]
        /\ fd' = [h \in Handles |-> IF h \in victims THEN 0 ELSE fd[h]]
        /\ flags' = [h \in Handles |-> IF h \in victims THEN {} ELSE flags[h]]
        BY DEF fd_cleanup
  <1>9. /\ fd_vector' \in Seq(Handles)
        /\ Selects(fd_vector', v, S, Len(v))
    <2> HIDE DEF S, victims
    <2>1. QED
          BY <1>7, <1>8, KeptProperties
  <1>10. /\ Distinct(fd_vector')
         /\ \A h : In(h, fd_vector') <=> \E k \in S \cap (1..Len(v)) : v[k] = h
    <2> HIDE DEF S
    <2>1. QED
          BY <1>9, KeptEntries
  <1>11. \A h \in Handles : In(h, fd_vector') <=> In(h, v) /\ st[h] # "marked"
    <2> SUFFICES ASSUME NEW h \in Handles
                 PROVE  In(h, fd_vector') <=> In(h, v) /\ st[h] # "marked"
        OBVIOUS
    <2>1. In(h, fd_vector') => In(h, v) /\ st[h] # "marked"
      <3> SUFFICES ASSUME In(h, fd_vector') PROVE In(h, v) /\ st[h] # "marked"
          OBVIOUS
      <3>1. PICK k \in S \cap (1..Len(v)) : v[k] = h
            BY <1>10
      <3>2. QED
            BY <3>1 DEF In
    <2>2. In(h, v) /\ st[h] # "marked" => In(h, fd_vector')
      <3> SUFFICES ASSUME In(h, v), st[h] # "marked" PROVE In(h, fd_vector')
          OBVIOUS
      <3>1. PICK k \in 1..Len(v) : v[k] = h
            BY DEF In
      <3>2. k \in S \cap (1..Len(v))
            BY <3>1
      <3>3. QED
            BY <1>10, <3>1, <3>2
    <2>3. QED
          BY <2>1, <2>2
  <1>12. fd_pending_deletion' = 0
    <2> HIDE DEF victims, M
    <2>1. fd_pending_deletion' = n - Cardinality(victims)
          BY <1>8
    <2>2. QED
          BY <1>2, <1>6, <2>1
  <1>13. \A h \in Handles : h \in victims <=> st[h] = "marked"
         BY <1>6
  <1>14. /\ status' = [h \in Handles |-> IF st[h] = "marked" THEN "free" ELSE st[h]]
         /\ fd' = [h \in Handles |-> IF st[h] = "marked" THEN 0 ELSE fd[h]]
         /\ flags' = [h \in Handles |-> IF st[h] = "marked" THEN {} ELSE flags[h]]
    <2> HIDE DEF victims
    <2>1. QED
          BY <1>8, <1>13
  <1>15. QED
         BY <1>9, <1>10, <1>11, <1>12, <1>14

\* The number of marks when one is added.
LEMMA OneMore ==
  ASSUME IInv, NEW h \in Handles, status[h] = "live"
  PROVE  LET st == [status EXCEPT ![h] = "marked"] IN
         /\ st \in [Handles -> Status]
         /\ {g \in Handles : st[g] = "marked"} = Marked \cup {h}
         /\ fd_pending_deletion + 1 = Cardinality(Marked \cup {h})
         /\ fd_pending_deletion + 1 \in 0..Cardinality(Handles)
  <1>1. status \in [Handles -> Status]
        BY DEF IInv, TypeOK, Status
  <1>2. Marked \in SUBSET Handles /\ h \notin Marked /\ Marked \cup {h} \in SUBSET Handles
        BY DEF Marked
  <1>3. /\ Cardinality(Marked \cup {h}) = Cardinality(Marked) + 1
        /\ Cardinality(Marked) \in Nat /\ Cardinality(Marked) + 1 <= Cardinality(Handles)
        /\ Cardinality(Handles) \in Nat
        BY <1>2, Countable, FS_AddElement
  <1>4. fd_pending_deletion = Cardinality(Marked)
        BY DEF IInv, CountInv
  <1>5. {g \in Handles : [status EXCEPT ![h] = "marked"][g] = "marked"} = Marked \cup {h}
        BY <1>1 DEF Marked
  <1>6. [status EXCEPT ![h] = "marked"] \in [Handles -> Status]
        BY <1>1 DEF Status
  <1>7. fd_pending_deletion + 1 \in 0..Cardinality(Handles)
        BY <1>3, <1>4
  <1>8. QED
        BY <1>3, <1>4, <1>5, <1>6, <1>7

-----------------------------------------------------------------------------
(* The invariant.                                                          *)

\* The state in terms of numbers, indices and handlers.
LEMMA Types ==
  ASSUME IInv
  PROVE  /\ Len(fd_vector) \in Nat /\ Len(fd_v_process) \in Nat /\ Len(pollfds) \in Nat
         /\ DOMAIN fd_vector = 1..Len(fd_vector) /\ DOMAIN fd_v_process = 1..Len(fd_v_process)
         /\ DOMAIN pollfds = 1..Len(pollfds)
         /\ \A n \in 1..Len(fd_vector) : fd_vector[n] \in Handles /\ status[fd_vector[n]] # "free"
         /\ \A n \in 1..Len(fd_v_process) :
              fd_v_process[n] \in Handles /\ status[fd_v_process[n]] # "free"
         /\ \A k \in 1..Len(pollfds) : pollfds[k] \in PollFd
         /\ status \in [Handles -> Status]
  <1>1. fd_vector \in Seq(Handles) /\ fd_v_process \in Seq(Handles) /\ pollfds \in Seq(PollFd)
        /\ status \in [Handles -> Status]
        BY DEF IInv, TypeOK, TableInv, Status
  <1>2. /\ Len(fd_vector) \in Nat /\ Len(fd_v_process) \in Nat /\ Len(pollfds) \in Nat
        /\ DOMAIN fd_vector = 1..Len(fd_vector) /\ DOMAIN fd_v_process = 1..Len(fd_v_process)
        /\ DOMAIN pollfds = 1..Len(pollfds)
        BY <1>1, LenProperties
  <1>3. /\ \A n \in 1..Len(fd_vector) : fd_vector[n] \in Handles
        /\ \A n \in 1..Len(fd_v_process) : fd_v_process[n] \in Handles
        /\ \A k \in 1..Len(pollfds) : pollfds[k] \in PollFd
        BY <1>1, ElementOfSeq
  <1>4. \A h \in Handles : In(h, fd_vector) \/ In(h, fd_v_process) <=> status[h] # "free"
        BY DEF IInv, MemoryInv
  <1>5. /\ \A n \in 1..Len(fd_vector) : In(fd_vector[n], fd_vector)
        /\ \A n \in 1..Len(fd_v_process) : In(fd_v_process[n], fd_v_process)
        BY DEF In
  <1>6. QED
        BY <1>1, <1>2, <1>3, <1>4, <1>5

\* ppoll() and the end of the walk change only what was found.
LEMMA OnlyFound ==
  ASSUME IInv, NEW f \in [1..Len(pollfds) -> SUBSET (Events \cup {"nval"})],
         pollfds' = [k \in DOMAIN pollfds |-> [pollfds[k] EXCEPT !.revents = f[k]]]
  PROVE  /\ pollfds' \in Seq(PollFd) /\ Len(pollfds') = Len(pollfds)
         /\ \A k \in 1..Len(pollfds) : /\ pollfds'[k].owner = pollfds[k].owner
                                       /\ pollfds'[k].fd = pollfds[k].fd
                                       /\ pollfds'[k].events = pollfds[k].events
                                       /\ pollfds'[k].revents = f[k]
  <1>1. /\ Len(pollfds) \in Nat /\ DOMAIN pollfds = 1..Len(pollfds)
        /\ \A k \in 1..Len(pollfds) : pollfds[k] \in PollFd
        BY Types
  <1>2. \A k \in 1..Len(pollfds) : [pollfds[k] EXCEPT !.revents = f[k]] \in PollFd
    <2> SUFFICES ASSUME NEW k \in 1..Len(pollfds)
                 PROVE  [pollfds[k] EXCEPT !.revents = f[k]] \in PollFd
        OBVIOUS
    <2>1. pollfds[k] \in PollFd /\ f[k] \in SUBSET (Events \cup {"nval"})
          BY <1>1
    <2>2. QED
          BY <2>1 DEF PollFd
  <1>3. pollfds' \in [1..Len(pollfds) -> PollFd] /\ DOMAIN pollfds' = 1..Len(pollfds)
        BY <1>1, <1>2
  <1>4. pollfds' \in Seq(PollFd) /\ Len(pollfds') = Len(pollfds)
        BY <1>1, <1>3, IsASeq, LenProperties
  <1>5. \A k \in 1..Len(pollfds) : /\ pollfds'[k].owner = pollfds[k].owner
                                   /\ pollfds'[k].fd = pollfds[k].fd
                                   /\ pollfds'[k].events = pollfds[k].events
                                   /\ pollfds'[k].revents = f[k]
        BY <1>1 DEF PollFd
  <1>6. QED
        BY <1>4, <1>5

\* Who has an entry, when neither handlers nor the numbers in the table change.
LEMMA StillInTable ==
  ASSUME Len(pollfds') = Len(pollfds),
         \A k \in 1..Len(pollfds) : /\ pollfds'[k].owner = pollfds[k].owner
                                    /\ pollfds'[k].fd = pollfds[k].fd
                                    /\ pollfds'[k].events = pollfds[k].events,
         NEW h \in Handles, fd'[h] = fd[h], flags'[h] = flags[h], InTable(h)
  PROVE  InTable(h)'
  BY DEF InTable

\* Steps that touch neither the handlers nor the vectors.
LEMMA Still ==
  ASSUME IInv, UNCHANGED <<status, fd, fd_vector, fd_v_process, fd_pending_deletion, fd_processing>>
  PROVE  MemoryInv' /\ CountInv' /\ OpenInv' /\ Live' = Live
  BY DEF IInv, MemoryInv, CountInv, OpenInv, Marked, Live, In, Distinct

\* sol_fd_add(): one more handler, with a number no live one has.
LEMMA AddPreserves ==
  ASSUME IInv, NEW thread \in {"main", "other"}, NEW h \in Handles, NEW n \in Numbers,
         NEW f \in SUBSET Events, sol_fd_add(thread, h, n, f)
  PROVE  IInv'
  <1>1. /\ status[h] = "free" /\ status' = [status EXCEPT ![h] = "live"]
        /\ fd' = [fd EXCEPT ![h] = n] /\ flags' = [flags EXCEPT ![h] = f]
        /\ fd_vector' = Append(fd_vector, h) /\ fd_changed' = TRUE
        /\ UNCHANGED <<fd_v_process, fd_pending_deletion, fd_processing, pollfds, nfds, run_loop,
                       mpc, i, j>>
        /\ \A g \in Live : fd[g] # n
        BY DEF sol_fd_add, pollVars, walkVars, MayOpen
  <1>2. notified' \in BOOLEAN
        BY DEF sol_fd_add, Notify
  <1>3. /\ status \in [Handles -> Status] /\ fd \in [Handles -> Numbers \cup {0}]
        /\ flags \in [Handles -> SUBSET Events] /\ fd_vector \in Seq(Handles)
        BY DEF IInv, TypeOK, Status
  <1>4. /\ fd_vector' \in Seq(Handles)
        /\ \A g : In(g, fd_vector') <=> In(g, fd_vector) \/ g = h
        /\ ~In(h, fd_vector) => Distinct(fd_vector')
        BY <1>1, <1>3, AppendedEntries DEF IInv, MemoryInv
  <1>5. ~In(h, fd_vector) /\ ~In(h, fd_v_process)
        BY <1>1 DEF IInv, MemoryInv
  <1>6. MemoryInv'
    <2>1. \A g \in Handles : In(g, fd_v_process)' <=> In(g, fd_v_process)
          BY <1>1 DEF In
    <2>2. \A g \in Handles : status'[g] # "free" <=> status[g] # "free" \/ g = h
          BY <1>1, <1>3 DEF Status
    <2>3. Distinct(fd_vector') /\ Distinct(fd_v_process)'
          BY <1>1, <1>4, <1>5 DEF IInv, MemoryInv, Distinct
    <2>4. QED
          BY <1>1, <1>4, <1>5, <2>1, <2>2, <2>3 DEF IInv, MemoryInv
  <1>7. Marked' = Marked
        BY <1>1, <1>3 DEF Marked, Status
  <1>8. CountInv'
        BY <1>1, <1>7 DEF IInv, CountInv
  <1>9. OpenInv'
    <2>1. \A g \in Live' : g \in Handles /\ (g = h \/ (g \in Live /\ fd'[g] = fd[g]))
          BY <1>1, <1>3 DEF Live
    <2>2. fd'[h] = n
          BY <1>1, <1>3
    <2>3. QED
          BY <1>1, <2>1, <2>2 DEF IInv, OpenInv
  <1>10. TypeOK'
    <2>1. /\ status' \in [Handles -> {"free", "live", "marked"}]
          /\ fd' \in [Handles -> Numbers \cup {0}] /\ flags' \in [Handles -> SUBSET Events]
          BY <1>1, <1>3 DEF Status
    <2>2. QED
          BY <1>1, <1>2, <1>4, <2>1 DEF IInv, TypeOK
  <1>11. PlaceInv' /\ TableInv'
         BY <1>1 DEF IInv, PlaceInv, TableInv, Places, Walking
  <1>12. QED
         BY <1>6, <1>8, <1>9, <1>10, <1>11 DEF IInv

\* sol_fd_del() outside the walk frees the handler and nothing else.
LEMMA DelFrees ==
  ASSUME IInv, NEW thread \in {"main", "other"}, NEW h \in Handles, sol_fd_del(thread, h),
         ~fd_processing
  PROVE  /\ fd_vector' \in Seq(Handles) /\ Distinct(fd_vector')
         /\ Selects(fd_vector', fd_vector, {k \in 1..Len(fd_vector) : fd_vector[k] # h}, Len(fd_vector))
         /\ \A g \in Handles : In(g, fd_vector') <=> In(g, fd_vector) /\ g # h
         /\ fd_pending_deletion' = 0
         /\ status' = [status EXCEPT ![h] = "free"]
         /\ fd' = [fd EXCEPT ![h] = 0]
         /\ flags' = [flags EXCEPT ![h] = {}]
  <1> DEFINE st == [status EXCEPT ![h] = "marked"]
             n == fd_pending_deletion + 1
  <1>1. status[h] = "live" /\ fd_cleanup(fd_vector, st, n)
        BY DEF sol_fd_del
  <1>2. /\ status \in [Handles -> Status] /\ fd_vector \in Seq(Handles) /\ Distinct(fd_vector)
        /\ fd \in [Handles -> Numbers \cup {0}] /\ flags \in [Handles -> SUBSET Events]
        BY DEF IInv, TypeOK, Status, MemoryInv
  <1>3. st \in [Handles -> Status] /\ n = Cardinality({g \in Handles : st[g] = "marked"})
        BY <1>1, OneMore
  <1>4. Marked = {} /\ \A g \in Handles : ~In(g, fd_v_process)
        BY DEF IInv, CountInv, In
  <1>5. \A g \in Handles : st[g] = "marked" <=> g = h
        BY <1>2, <1>4 DEF Marked
  <1>6. \A g \in Handles : st[g] = "marked" => In(g, fd_vector)
        BY <1>1, <1>4, <1>5 DEF IInv, MemoryInv
  <1> HIDE DEF st, n
  <1>7. /\ fd_vector' \in Seq(Handles) /\ Distinct(fd_vector')
        /\ Selects(fd_vector', fd_vector, {k \in 1..Len(fd_vector) : st[fd_vector[k]] # "marked"},
                   Len(fd_vector))
        /\ \A g \in Handles : In(g, fd_vector') <=> In(g, fd_vector) /\ st[g] # "marked"
        /\ fd_pending_deletion' = 0
        /\ status' = [g \in Handles |-> IF st[g] = "marked" THEN "free" ELSE st[g]]
        /\ fd' = [g \in Handles |-> IF st[g] = "marked" THEN 0 ELSE fd[g]]
        /\ flags' = [g \in Handles |-> IF st[g] = "marked" THEN {} ELSE flags[g]]
        BY <1>1, <1>2, <1>3, <1>6, Sweep
  <1>8. {k \in 1..Len(fd_vector) : st[fd_vector[k]] # "marked"}
          = {k \in 1..Len(fd_vector) : fd_vector[k] # h}
        BY <1>5, Types
  <1>9. status' = [status EXCEPT ![h] = "free"]
        BY <1>2, <1>5, <1>7 DEF st
  <1>10. fd' = [fd EXCEPT ![h] = 0] /\ flags' = [flags EXCEPT ![h] = {}]
         BY <1>2, <1>5, <1>7
  <1>11. QED
         BY <1>5, <1>7, <1>8, <1>9, <1>10

\* sol_fd_del(): marks during the walk, else frees at once.
LEMMA DelPreserves ==
  ASSUME IInv, NEW thread \in {"main", "other"}, NEW h \in Handles, sol_fd_del(thread, h)
  PROVE  IInv'
  <1> DEFINE st == [status EXCEPT ![h] = "marked"]
  <1>1. /\ status[h] = "live" /\ fd_changed' = TRUE
        /\ UNCHANGED <<fd_v_process, fd_processing, pollfds, nfds, run_loop, mpc, i, j, notified>>
        BY DEF sol_fd_del, pollVars, walkVars
  <1>2. /\ st \in [Handles -> Status]
        /\ {g \in Handles : st[g] = "marked"} = Marked \cup {h}
        /\ fd_pending_deletion + 1 = Cardinality(Marked \cup {h})
        /\ fd_pending_deletion + 1 \in 0..Cardinality(Handles)
        BY <1>1, OneMore
  <1>3. /\ status \in [Handles -> Status] /\ fd \in [Handles -> Numbers \cup {0}]
        /\ flags \in [Handles -> SUBSET Events] /\ fd_vector \in Seq(Handles)
        /\ fd_v_process \in Seq(Handles)
        BY DEF IInv, TypeOK, Status
  <1>4. \A g \in Handles : /\ st[g] # "free" <=> status[g] # "free"
                           /\ st[g] = "live" => status[g] = "live"
        BY <1>1, <1>3 DEF Status
  <1>5. PlaceInv' /\ TableInv'
        BY <1>1 DEF IInv, PlaceInv, TableInv, Places, Walking
  <1>6. CASE fd_processing
    <2>1. /\ status' = st /\ fd_pending_deletion' = fd_pending_deletion + 1
          /\ UNCHANGED <<fd, flags, fd_vector>>
          BY <1>6 DEF sol_fd_del
    <2> HIDE DEF st
    <2>2. MemoryInv'
          BY <1>1, <1>4, <2>1 DEF IInv, MemoryInv, In, Distinct
    <2>3. Marked' = Marked \cup {h}
          BY <1>2, <2>1 DEF Marked
    <2>4. CountInv'
          BY <1>1, <1>2, <1>6, <2>1, <2>3 DEF CountInv
    <2>5. OpenInv'
          BY <1>4, <2>1 DEF IInv, OpenInv, Live
    <2>6. TypeOK'
          BY <1>1, <1>2, <2>1 DEF IInv, TypeOK, Status
    <2>7. QED
          BY <1>5, <2>2, <2>4, <2>5, <2>6 DEF IInv
  <1>7. CASE ~fd_processing
    <2>1. /\ fd_vector' \in Seq(Handles) /\ Distinct(fd_vector')
          /\ \A g \in Handles : In(g, fd_vector') <=> In(g, fd_vector) /\ g # h
          /\ fd_pending_deletion' = 0
          /\ status' = [status EXCEPT ![h] = "free"]
          /\ fd' = [fd EXCEPT ![h] = 0]
          /\ flags' = [flags EXCEPT ![h] = {}]
          BY <1>7, DelFrees
    <2>2. Marked = {} /\ fd_v_process = <<>> /\ \A g \in Handles : ~In(g, fd_v_process)
          BY <1>7 DEF IInv, CountInv, In
    <2>5. MemoryInv'
      <3>1. (\A g \in Handles : ~In(g, fd_v_process)') /\ Distinct(fd_v_process)'
            BY <1>1, <2>2 DEF In, Distinct
      <3>2. \A g \in Handles : status'[g] # "free" <=> status[g] # "free" /\ g # h
            BY <1>3, <2>1
      <3>3. QED
            BY <2>1, <2>2, <3>1, <3>2 DEF IInv, MemoryInv
    <2>6. Marked' = {}
          BY <1>3, <2>1, <2>2 DEF Marked
    <2>7. CountInv'
          BY <1>1, <2>1, <2>2, <2>6, FS_EmptySet DEF CountInv
    <2>8. OpenInv'
          BY <1>3, <2>1 DEF IInv, OpenInv, Live
    <2>9. TypeOK'
      <3>1. /\ status' \in [Handles -> {"free", "live", "marked"}]
            /\ fd' \in [Handles -> Numbers \cup {0}] /\ flags' \in [Handles -> SUBSET Events]
            BY <1>3, <2>1 DEF Status
      <3>2. 0 \in 0..Cardinality(Handles)
            BY Countable
      <3>3. QED
            BY <1>1, <2>1, <3>1, <3>2 DEF IInv, TypeOK
    <2>10. QED
           BY <1>5, <2>5, <2>7, <2>8, <2>9 DEF IInv
  <1>8. QED
        BY <1>6, <1>7

\* The end of the walk gives the vector back without the marked handlers.
LEMMA EndSweeps ==
  ASSUME IInv, WalkEnds
  PROVE  LET v == fd_vector \o fd_v_process IN
         /\ v \in Seq(Handles) /\ Distinct(v)
         /\ \A h \in Handles : In(h, v) <=> status[h] # "free"
         /\ fd_vector' \in Seq(Handles) /\ Distinct(fd_vector')
         /\ Selects(fd_vector', v, {k \in 1..Len(v) : status[v[k]] # "marked"}, Len(v))
         /\ \A h \in Handles : In(h, fd_vector') <=> status[h] = "live"
         /\ fd_pending_deletion' = 0
         /\ status' = [h \in Handles |-> IF status[h] = "marked" THEN "free" ELSE status[h]]
         /\ fd' = [h \in Handles |-> IF status[h] = "marked" THEN 0 ELSE fd[h]]
         /\ flags' = [h \in Handles |-> IF status[h] = "marked" THEN {} ELSE flags[h]]
  <1> DEFINE v == fd_vector \o fd_v_process
             n == fd_pending_deletion
  <1>1. fd_cleanup(v, status, n)
        BY DEF WalkEnds
  <1>2. /\ status \in [Handles -> Status] /\ fd_vector \in Seq(Handles) /\ fd_v_process \in Seq(Handles)
        /\ Distinct(fd_vector) /\ Distinct(fd_v_process)
        BY DEF IInv, TypeOK, Status, MemoryInv
  <1>3. \A h : ~(In(h, fd_vector) /\ In(h, fd_v_process))
    <2>1. \A h : In(h, fd_vector) => h \in Handles
          BY Types DEF In
    <2>2. QED
          BY <2>1 DEF IInv, MemoryInv
  <1>4. /\ v \in Seq(Handles) /\ Distinct(v)
        /\ \A h : In(h, v) <=> In(h, fd_vector) \/ In(h, fd_v_process)
        BY <1>2, <1>3, JoinedEntries
  <1>5. n = Cardinality({h \in Handles : status[h] = "marked"})
        BY DEF IInv, CountInv, Marked
  <1> HIDE DEF v, n
  <1>6. \A h \in Handles : In(h, v) <=> status[h] # "free"
        BY <1>4 DEF IInv, MemoryInv
  <1>7. \A h \in Handles : status[h] = "marked" => In(h, v)
        BY <1>6
  <1>8. /\ fd_vector' \in Seq(Handles) /\ Distinct(fd_vector')
        /\ Selects(fd_vector', v, {k \in 1..Len(v) : status[v[k]] # "marked"}, Len(v))
        /\ \A h \in Handles : In(h, fd_vector') <=> In(h, v) /\ status[h] # "marked"
        /\ fd_pending_deletion' = 0
        /\ status' = [h \in Handles |-> IF status[h] = "marked" THEN "free" ELSE status[h]]
        /\ fd' = [h \in Handles |-> IF status[h] = "marked" THEN 0 ELSE fd[h]]
        /\ flags' = [h \in Handles |-> IF status[h] = "marked" THEN {} ELSE flags[h]]
        BY <1>1, <1>2, <1>4, <1>5, <1>7, Sweep
  <1>9. \A h \in Handles : In(h, fd_vector') <=> status[h] = "live"
        BY <1>2, <1>6, <1>8 DEF Status
  <1>10. QED
         BY <1>4, <1>6, <1>8, <1>9 DEF v

\* The end of the walk: nothing is marked any more.
LEMMA EndPreserves ==
  ASSUME IInv, WalkEnds
  PROVE  IInv'
  <1>1. /\ fd_vector' \in Seq(Handles) /\ Distinct(fd_vector')
        /\ \A h \in Handles : In(h, fd_vector') <=> status[h] = "live"
        /\ fd_pending_deletion' = 0
        /\ status' = [h \in Handles |-> IF status[h] = "marked" THEN "free" ELSE status[h]]
        /\ fd' = [h \in Handles |-> IF status[h] = "marked" THEN 0 ELSE fd[h]]
        /\ flags' = [h \in Handles |-> IF status[h] = "marked" THEN {} ELSE flags[h]]
        BY EndSweeps
  <1>2. /\ fd_v_process' = <<>> /\ fd_processing' = FALSE /\ mpc' = "outside"
        /\ i' = 0 /\ j' = 0 /\ nfds' = 0 /\ UNCHANGED <<fd_changed, run_loop, notified>>
        /\ pollfds' = [k \in DOMAIN pollfds |-> [pollfds[k] EXCEPT !.revents = {}]]
        BY DEF WalkEnds
  <1>3. /\ status \in [Handles -> Status] /\ fd \in [Handles -> Numbers \cup {0}]
        /\ flags \in [Handles -> SUBSET Events] /\ pollfds \in Seq(PollFd)
        BY DEF IInv, TypeOK, TableInv, Status
  <1>4. /\ pollfds' \in Seq(PollFd) /\ Len(pollfds') = Len(pollfds)
        /\ \A k \in 1..Len(pollfds) : /\ pollfds'[k].owner = pollfds[k].owner
                                      /\ pollfds'[k].fd = pollfds[k].fd
                                      /\ pollfds'[k].events = pollfds[k].events
    <2> DEFINE none == [k \in 1..Len(pollfds) |-> {}]
    <2>1. /\ none \in [1..Len(pollfds) -> SUBSET (Events \cup {"nval"})]
          /\ pollfds' = [k \in DOMAIN pollfds |-> [pollfds[k] EXCEPT !.revents = none[k]]]
          BY <1>2, Types
    <2> HIDE DEF none
    <2>2. /\ pollfds' \in Seq(PollFd) /\ Len(pollfds') = Len(pollfds)
          /\ \A k \in 1..Len(pollfds) : /\ pollfds'[k].owner = pollfds[k].owner
                                        /\ pollfds'[k].fd = pollfds[k].fd
                                        /\ pollfds'[k].events = pollfds[k].events
                                        /\ pollfds'[k].revents = none[k]
          BY <2>1, OnlyFound
    <2>3. QED
          BY <2>2
  <1>5. <<>> \in Seq(Handles) /\ Distinct(<<>>) /\ \A h : ~In(h, <<>>)
        BY DEF In, Distinct
  <1>6. MemoryInv'
    <2>1. \A h \in Handles : status'[h] # "free" <=> status[h] = "live"
          BY <1>1, <1>3 DEF Status
    <2>2. QED
          BY <1>1, <1>2, <1>5, <2>1 DEF MemoryInv
  <1>7. CountInv'
    <2>1. Marked' = {}
          BY <1>1 DEF Marked
    <2>2. QED
          BY <1>1, <1>2, <2>1, FS_EmptySet DEF CountInv
  <1>8. Live' = Live /\ \A h \in Live : h \in Handles /\ fd'[h] = fd[h] /\ flags'[h] = flags[h]
        BY <1>1, <1>3 DEF Live
  <1>9. OpenInv'
        BY <1>8 DEF IInv, OpenInv
  <1>10. TableInv'
    <2>1. ASSUME ~fd_changed, NEW h \in Live PROVE InTable(h)'
      <3>1. InTable(h)
            BY <2>1 DEF IInv, TableInv
      <3>2. QED
            BY <1>4, <1>8, <3>1, StillInTable
    <2>2. QED
          BY <1>2, <1>4, <1>8, <2>1 DEF TableInv
  <1>11. PlaceInv'
         BY <1>2 DEF PlaceInv, Places, Walking
  <1>12. TypeOK'
    <2>1. /\ status' \in [Handles -> {"free", "live", "marked"}]
          /\ fd' \in [Handles -> Numbers \cup {0}] /\ flags' \in [Handles -> SUBSET Events]
          BY <1>1, <1>3 DEF Status
    <2>2. 0 \in 0..Cardinality(Handles)
          BY Countable
    <2>3. 0 \in 0..Len(pollfds') /\ 0 \in 0..(Len(pollfds') + 1)
          BY <1>4, LenProperties
    <2>4. QED
          BY <1>1, <1>2, <1>5, <2>1, <2>2, <2>3 DEF IInv, TypeOK
  <1>13. QED
         BY <1>6, <1>7, <1>9, <1>10, <1>11, <1>12 DEF IInv

\* The callback returns; FALSE marks the handler.
LEMMA ReturnPreserves ==
  ASSUME IInv, NEW keep \in BOOLEAN, Return(keep)
  PROVE  IInv'
  <1>1. /\ mpc = "cb" /\ mpc' = "timeouts"
        /\ UNCHANGED <<fd, flags, fd_vector, fd_v_process, fd_processing, pollfds, nfds, run_loop,
                       i, j, notified>>
        BY DEF Return, pollVars
  <1>2. PlaceInv'
        BY <1>1 DEF IInv, PlaceInv, Places, Walking
  <1>3. CASE keep \/ status[Current] = "marked"
    <2>1. UNCHANGED <<status, fd_pending_deletion, fd_changed>>
          BY <1>3 DEF Return
    <2>2. MemoryInv' /\ CountInv' /\ OpenInv'
          BY <1>1, <2>1, Still
    <2>3. TypeOK' /\ TableInv'
          BY <1>1, <2>1 DEF IInv, TypeOK, TableInv, Live, InTable
    <2>4. QED
          BY <1>2, <2>2, <2>3 DEF IInv
  <1>4. CASE ~(keep \/ status[Current] = "marked")
    <2>1. /\ status' = [status EXCEPT ![Current] = "marked"] /\ fd_changed' = TRUE
          /\ fd_pending_deletion' = fd_pending_deletion + 1
          BY <1>4 DEF Return
    <2>2. Current \in Handles /\ status[Current] = "live" /\ status \in [Handles -> Status]
      <3>1. i \in 1..Len(fd_v_process)
            BY <1>1 DEF IInv, PlaceInv
      <3>2. Current \in Handles /\ status[Current] # "free" /\ status \in [Handles -> Status]
            BY <3>1, Types DEF Current
      <3>3. QED
            BY <1>4, <3>2 DEF Status
    <2> DEFINE h == Current
    <2>3. /\ status' \in [Handles -> Status] /\ Marked' = Marked \cup {h}
          /\ fd_pending_deletion' = Cardinality(Marked \cup {h})
          /\ fd_pending_deletion' \in 0..Cardinality(Handles)
          BY <2>1, <2>2, OneMore DEF Marked
    <2>4. \A g \in Handles : /\ status'[g] # "free" <=> status[g] # "free"
                             /\ status'[g] = "live" => status[g] = "live"
          BY <2>1, <2>2
    <2> HIDE DEF h
    <2>5. MemoryInv'
          BY <1>1, <2>4 DEF IInv, MemoryInv, In, Distinct
    <2>6. fd_processing
          BY <1>1 DEF IInv, PlaceInv, Walking
    <2>7. CountInv'
          BY <1>1, <2>3, <2>6 DEF CountInv
    <2>8. OpenInv'
          BY <1>1, <2>4 DEF IInv, OpenInv, Live
    <2>9. TypeOK'
          BY <1>1, <2>1, <2>3 DEF IInv, TypeOK, Status
    <2>10. TableInv'
           BY <1>1, <2>1 DEF IInv, TableInv
    <2>11. QED
           BY <1>2, <2>5, <2>7, <2>8, <2>9, <2>10 DEF IInv
  <1>5. QED
        BY <1>3, <1>4

\* fd_prepare(): the new table has an entry for every handler, in their order.
LEMMA TableMade ==
  ASSUME IInv, fd_prepare, fd_changed
  PROVE  /\ pollfds' \in Seq(PollFd)
         /\ \E place \in [1..Len(pollfds') -> 1..Len(fd_vector)] :
              /\ \A k \in 1..Len(pollfds') :
                   /\ pollfds'[k].owner = fd_vector[place[k]]
                   /\ pollfds'[k].fd = fd[fd_vector[place[k]]]
                   /\ pollfds'[k].events = flags[fd_vector[place[k]]]
              /\ \A k, l \in 1..Len(pollfds') : k < l => place[k] < place[l]
              /\ \A n \in 1..Len(fd_vector) : \E k \in 1..Len(pollfds') : place[k] = n
  <1> DEFINE S == {k \in DOMAIN fd_vector : status[fd_vector[k]] # "marked"}
             kept == Kept(fd_vector, S)
  <1>1. pollfds' = [k \in DOMAIN kept |-> Entry(kept[k])]
        BY DEF fd_prepare
  <1>2. /\ fd_vector \in Seq(Handles) /\ fd \in [Handles -> Numbers \cup {0}]
        /\ flags \in [Handles -> SUBSET Events]
        BY DEF IInv, TypeOK
  <1>3. Marked = {}
        BY DEF fd_prepare, IInv, PlaceInv, CountInv, Walking
  <1>4. S = 1..Len(fd_vector) /\ S \cap (1..Len(fd_vector)) = 1..Len(fd_vector)
        BY <1>3, Types DEF Marked
  <1> HIDE DEF S
  <1>5. kept \in Seq(Handles) /\ Selects(kept, fd_vector, S, Len(fd_vector))
        BY <1>2, KeptProperties
  <1> HIDE DEF kept
  <1>6. /\ Len(kept) \in Nat /\ DOMAIN kept = 1..Len(kept)
        /\ \A k \in 1..Len(kept) : kept[k] \in Handles
        BY <1>5, LenProperties, ElementOfSeq
  <1>7. \A k \in 1..Len(kept) : Entry(kept[k]) \in PollFd
        BY <1>2, <1>6 DEF Entry, PollFd
  <1>8. pollfds' \in [1..Len(kept) -> PollFd] /\ DOMAIN pollfds' = 1..Len(kept)
        BY <1>1, <1>6, <1>7
  <1>9. pollfds' \in Seq(PollFd) /\ Len(pollfds') = Len(kept)
        BY <1>6, <1>8, IsASeq, LenProperties
  <1>10. PICK place \in [1..Len(kept) -> 1..Len(fd_vector)] :
              /\ \A k \in 1..Len(kept) : kept[k] = fd_vector[place[k]]
              /\ \A k, l \in 1..Len(kept) : k < l => place[k] < place[l]
              /\ \A n \in 1..Len(fd_vector) : \E k \in 1..Len(kept) : place[k] = n
         BY <1>4, <1>5 DEF Selects
  <1>11. \A k \in 1..Len(kept) : /\ pollfds'[k].owner = kept[k]
                                 /\ pollfds'[k].fd = fd[kept[k]]
                                 /\ pollfds'[k].events = flags[kept[k]]
         BY <1>1, <1>6 DEF Entry
  <1>12. \A k \in 1..Len(pollfds') :
           /\ pollfds'[k].owner = fd_vector[place[k]]
           /\ pollfds'[k].fd = fd[fd_vector[place[k]]]
           /\ pollfds'[k].events = flags[fd_vector[place[k]]]
         BY <1>9, <1>10, <1>11
  <1>13. /\ place \in [1..Len(pollfds') -> 1..Len(fd_vector)]
         /\ \A k, l \in 1..Len(pollfds') : k < l => place[k] < place[l]
         /\ \A n \in 1..Len(fd_vector) : \E k \in 1..Len(pollfds') : place[k] = n
         BY <1>9, <1>10
  <1>14. QED
         BY <1>9, <1>12, <1>13

\* Afterwards the table is up to date.
LEMMA PreparePreserves ==
  ASSUME IInv, fd_prepare
  PROVE  IInv' /\ \A h \in Live : InTable(h)'
  <1>1. /\ mpc = "outside" /\ mpc' = "prepared" /\ fd_changed' = FALSE
        /\ UNCHANGED <<status, fd, flags, fd_vector, fd_v_process, fd_pending_deletion, fd_processing,
                       nfds, run_loop, i, j, notified>>
        BY DEF fd_prepare, handlerVars, vectorVars
  <1>2. MemoryInv' /\ CountInv' /\ OpenInv' /\ Live' = Live
        BY <1>1, Still
  <1>3. PlaceInv' /\ nfds = 0 /\ j = 0
        BY <1>1 DEF IInv, PlaceInv, Places, Walking
  <1>4. pollfds' \in Seq(PollFd) /\ \A h \in Live : InTable(h)'
    <2>1. CASE fd_changed
      <3>1. pollfds' \in Seq(PollFd)
            BY <2>1, TableMade
      <3>2. PICK place \in [1..Len(pollfds') -> 1..Len(fd_vector)] :
              /\ \A k \in 1..Len(pollfds') :
                   /\ pollfds'[k].owner = fd_vector[place[k]]
                   /\ pollfds'[k].fd = fd[fd_vector[place[k]]]
                   /\ pollfds'[k].events = flags[fd_vector[place[k]]]
              /\ \A n \in 1..Len(fd_vector) : \E k \in 1..Len(pollfds') : place[k] = n
            BY <2>1, TableMade
      <3>3. ASSUME NEW h \in Live PROVE InTable(h)'
        <4>1. In(h, fd_vector)
          <5>1. ~In(h, fd_v_process)
                BY <1>1 DEF IInv, CountInv, PlaceInv, Walking, In
          <5>2. QED
                BY <5>1 DEF IInv, MemoryInv, Live
        <4>2. PICK n \in 1..Len(fd_vector) : fd_vector[n] = h
              BY <4>1 DEF In
        <4>3. PICK k \in 1..Len(pollfds') : place[k] = n
              BY <3>2
        <4>4. /\ pollfds'[k].owner = h /\ pollfds'[k].fd = fd'[h] /\ pollfds'[k].events = flags'[h]
              BY <1>1, <3>2, <4>2, <4>3
        <4>5. QED
              BY <4>4 DEF InTable
      <3>4. QED
            BY <3>1, <3>3
    <2>2. CASE ~fd_changed
      <3>1. pollfds' = pollfds
            BY <2>2 DEF fd_prepare
      <3>2. QED
            BY <1>1, <2>2, <3>1 DEF IInv, TableInv, InTable
    <2>3. QED
          BY <2>1, <2>2
  <1>5. TableInv'
        BY <1>2, <1>4 DEF TableInv
  <1>6. TypeOK'
    <2>1. nfds' \in 0..Len(pollfds') /\ j' \in 0..(Len(pollfds') + 1)
          BY <1>1, <1>3, <1>4, LenProperties
    <2>2. QED
          BY <1>1, <2>1 DEF IInv, TypeOK
  <1>7. QED
        BY <1>2, <1>3, <1>4, <1>5, <1>6 DEF IInv

\* ppoll() counts the entries for which it has found something.
LEMMA PollPreserves ==
  ASSUME IInv, PollEnds
  PROVE  /\ IInv' /\ mpc = "prepared" /\ mpc' = "polled"
         /\ UNCHANGED <<status, fd, flags, fd_vector, fd_v_process, fd_processing, fd_changed,
                        run_loop, i, j>>
         /\ Len(pollfds') = Len(pollfds)
         /\ \A k \in 1..Len(pollfds) : /\ pollfds'[k].owner = pollfds[k].owner
                                       /\ pollfds'[k].fd = pollfds[k].fd
         /\ nfds' = Cardinality({k \in 1..Len(pollfds) : pollfds'[k].revents # {}})
  <1>1. PICK revents \in [DOMAIN pollfds -> (SUBSET Events) \cup {{"nval"}}] : PollReturns(revents)
        BY DEF PollEnds
  <1>2. /\ mpc = "prepared" /\ mpc' = "polled" /\ notified' = FALSE
        /\ UNCHANGED <<status, fd, flags, fd_vector, fd_v_process, fd_pending_deletion, fd_processing,
                       fd_changed, run_loop, i, j>>
        /\ pollfds' = [k \in DOMAIN pollfds |-> [pollfds[k] EXCEPT !.revents = revents[k]]]
        /\ nfds' = Cardinality({k \in DOMAIN pollfds : revents[k] # {}})
        BY <1>1 DEF PollReturns, handlerVars, vectorVars
  <1>3. revents \in [1..Len(pollfds) -> SUBSET (Events \cup {"nval"})] /\ Len(pollfds) \in Nat
        /\ DOMAIN pollfds = 1..Len(pollfds)
    <2>1. ASSUME NEW x \in (SUBSET Events) \cup {{"nval"}} PROVE x \in SUBSET (Events \cup {"nval"})
      <3>1. CASE x \in SUBSET Events
            BY <3>1
      <3>2. CASE x = {"nval"}
            BY <3>2
      <3>3. QED
            BY <3>1, <3>2
    <2>2. QED
          BY <2>1, Types
  <1>4. /\ pollfds' \in Seq(PollFd) /\ Len(pollfds') = Len(pollfds)
        /\ \A k \in 1..Len(pollfds) : /\ pollfds'[k].owner = pollfds[k].owner
                                      /\ pollfds'[k].fd = pollfds[k].fd
                                      /\ pollfds'[k].events = pollfds[k].events
                                      /\ pollfds'[k].revents = revents[k]
        BY <1>2, <1>3, OnlyFound
  <1>5. MemoryInv' /\ CountInv' /\ OpenInv' /\ Live' = Live
        BY <1>2, Still
  <1>6. PlaceInv' /\ j = 0
        BY <1>2 DEF IInv, PlaceInv, Places, Walking
  <1>7. TableInv'
    <2>1. ASSUME ~fd_changed, NEW h \in Live PROVE InTable(h)'
      <3>1. InTable(h) /\ h \in Handles
            BY <2>1 DEF IInv, TableInv, Live
      <3>2. QED
            BY <1>2, <1>4, <3>1, StillInTable
    <2>2. QED
          BY <1>2, <1>4, <1>5, <2>1 DEF TableInv
  <1>8. nfds' = Cardinality({k \in 1..Len(pollfds) : pollfds'[k].revents # {}})
    <2>1. {k \in 1..Len(pollfds) : pollfds'[k].revents # {}} = {k \in DOMAIN pollfds : revents[k] # {}}
          BY <1>3, <1>4
    <2>2. QED
          BY <1>2, <2>1
  <1>9. nfds' \in 0..Len(pollfds')
    <2> DEFINE found == {k \in 1..Len(pollfds) : pollfds'[k].revents # {}}
    <2>1. found \subseteq 1..Len(pollfds)
          OBVIOUS
    <2> HIDE DEF found
    <2>3. Cardinality(found) <= Len(pollfds) /\ Cardinality(found) \in Nat
          BY <1>3, <2>1, IndicesFinite
    <2>4. nfds' = Cardinality(found)
          BY <1>8 DEF found
    <2>5. QED
          BY <1>3, <1>4, <2>3, <2>4
  <1>10. TypeOK'
    <2>1. j' \in 0..(Len(pollfds') + 1)
          BY <1>2, <1>3, <1>4, <1>6
    <2>2. QED
          BY <1>2, <1>9, <2>1 DEF IInv, TypeOK
  <1>11. QED
         BY <1>2, <1>4, <1>5, <1>6, <1>7, <1>8, <1>10 DEF IInv

\* The first entry from index j on with the number of the handler.
LEMMA FirstMatching ==
  ASSUME IInv, Matching # {}
  PROVE  /\ Min(Matching) \in 1..Len(pollfds) /\ Min(Matching) >= j
         /\ pollfds[Min(Matching)].fd = fd[Current]
         /\ \A k \in 1..Len(pollfds) : k >= j /\ pollfds[k].fd = fd[Current] => Min(Matching) <= k
  <1>1. Len(pollfds) \in Nat /\ DOMAIN pollfds = 1..Len(pollfds)
        BY Types
  <1>2. Matching \subseteq 0..Len(pollfds)
        BY <1>1 DEF Matching
  <1>3. Min(Matching) \in Matching /\ \A y \in Matching : Min(Matching) <= y
        BY <1>1, <1>2, MinMax
  <1>4. QED
        BY <1>1, <1>3 DEF Matching

\* The steps of the walk move the indices; none of them touches a handler.
LEMMA WalkPreserves ==
  ASSUME IInv, SkipMarked \/ SkipNotReady \/ Call \/ TimeoutsProcessed
  PROVE  IInv'
  <1>1. /\ UNCHANGED <<status, fd, flags, fd_vector, fd_v_process, fd_pending_deletion, fd_processing,
                       fd_changed, pollfds, run_loop, notified>>
        BY DEF SkipMarked, SkipNotReady, Call, TimeoutsProcessed, handlerVars, vectorVars, pollVars
  <1>2. MemoryInv' /\ CountInv' /\ OpenInv' /\ Live' = Live
        BY <1>1, Still
  <1>3. TableInv'
        BY <1>1, <1>2 DEF IInv, TableInv, InTable
  <1>4. /\ nfds \in 0..Len(pollfds) /\ j \in 0..(Len(pollfds) + 1) /\ i \in Nat /\ Len(pollfds) \in Nat
        /\ Len(fd_v_process) \in Nat
        BY Types DEF IInv, TypeOK, PlaceInv
  <1>5. /\ j' \in 0..(Len(pollfds) + 1) /\ nfds' \in 0..Len(pollfds) /\ i' \in Nat
        /\ i' >= i /\ j' >= j
    <2>1. CASE SkipMarked \/ TimeoutsProcessed
      <3>1. i' = i + 1 /\ j' = j /\ nfds' = nfds
            BY <2>1 DEF SkipMarked, TimeoutsProcessed, pollVars
      <3>2. QED
            BY <1>4, <3>1
    <2>2. CASE SkipNotReady \/ Call
      <3>1. /\ Min(Matching) \in 1..Len(pollfds) /\ Min(Matching) >= j
            BY <2>2, FirstMatching DEF SkipNotReady, Call
      <3>2. j' = Min(Matching) + 1 /\ i' \in {i, i + 1} /\ nfds' \in {nfds, nfds - 1} /\ nfds > 0
            BY <2>2 DEF SkipNotReady, Call, pollVars, Goes
      <3>3. QED
            BY <1>4, <3>1, <3>2
    <2>3. QED
          BY <2>1, <2>2
  <1>6. mpc \in Walking /\ mpc' \in Walking
        BY DEF SkipMarked, SkipNotReady, Call, TimeoutsProcessed, Goes, Walking
  <1>7. i >= 1 /\ j >= 1
        BY <1>6 DEF IInv, PlaceInv
  <1>8. i' >= 1 /\ j' >= 1
        BY <1>4, <1>5, <1>7
  <1>9. mpc' \in {"cb", "timeouts"} => i' \in 1..Len(fd_v_process)
    <2>1. CASE Call
      <3>1. i <= Len(fd_v_process) /\ i' = i
            BY <2>1 DEF Call, Goes
      <3>2. QED
            BY <1>4, <1>7, <3>1
    <2>2. CASE ~Call
          BY <2>2 DEF SkipMarked, SkipNotReady, TimeoutsProcessed, Goes
    <2>3. QED
          BY <2>1, <2>2
  <1>10. PlaceInv'
         BY <1>1, <1>5, <1>6, <1>8, <1>9 DEF IInv, PlaceInv, Places, Walking
  <1>11. TypeOK'
         BY <1>1, <1>5 DEF IInv, TypeOK
  <1>12. QED
         BY <1>2, <1>3, <1>10, <1>11 DEF IInv

\* The vector is stolen; all that is linked is now in the other one.
LEMMA StealPreserves ==
  ASSUME IInv, Steal
  PROVE  IInv'
  <1>1. /\ mpc = "polled" /\ mpc' = "walk" /\ i' = 1 /\ j' = 1
        /\ fd_v_process' = fd_vector /\ fd_vector' = <<>> /\ fd_processing' = TRUE
        /\ UNCHANGED <<status, fd, flags, fd_pending_deletion, fd_changed, pollfds, nfds, run_loop,
                       notified>>
        BY DEF Steal, handlerVars, pollVars
  <1>2. ~fd_processing /\ fd_v_process = <<>>
        BY <1>1 DEF IInv, PlaceInv, CountInv, Walking
  <1>3. <<>> \in Seq(Handles) /\ Distinct(<<>>) /\ \A h : ~In(h, <<>>)
        BY DEF In, Distinct
  <1>4. MemoryInv'
        BY <1>1, <1>2, <1>3 DEF IInv, MemoryInv
  <1>5. CountInv' /\ OpenInv' /\ TableInv'
        BY <1>1 DEF IInv, CountInv, OpenInv, TableInv, Marked, Live, InTable
  <1>6. PlaceInv'
        BY <1>1 DEF IInv, PlaceInv, Places, Walking
  <1>7. TypeOK'
    <2>1. 1 \in 0..(Len(pollfds) + 1)
          BY Types
    <2>2. QED
          BY <1>1, <1>3, <2>1 DEF IInv, TypeOK
  <1>8. QED
        BY <1>4, <1>5, <1>6, <1>7 DEF IInv

\* A change of flags, sol_run() and sol_quit() leave the vectors alone.
LEMMA QuietPreserves ==
  ASSUME IInv,
         \/ UNCHANGED vars \/ sol_run \/ sol_quit
         \/ \E thread \in {"main", "other"}, h \in Handles, f \in SUBSET Events :
              sol_fd_set_flags(thread, h, f)
  PROVE  IInv'
  <1>1. UNCHANGED <<status, fd, fd_vector, fd_v_process, fd_pending_deletion, fd_processing,
                    pollfds, nfds, mpc, i, j>>
        BY DEF vars, sol_run, sol_quit, sol_fd_set_flags, handlerVars, vectorVars, pollVars, walkVars
  <1>2. MemoryInv' /\ CountInv' /\ OpenInv' /\ Live' = Live
        BY <1>1, Still
  <1>3. PlaceInv'
        BY <1>1 DEF IInv, PlaceInv
  <1>4. fd_changed' \/ (flags' = flags /\ fd_changed' = fd_changed)
        BY DEF vars, sol_run, sol_quit, sol_fd_set_flags, handlerVars
  <1>5. TableInv'
        BY <1>1, <1>2, <1>4 DEF IInv, TableInv, InTable
  <1>6. /\ flags' \in [Handles -> SUBSET Events] /\ notified' \in BOOLEAN
        /\ fd_changed' \in BOOLEAN /\ run_loop' \in BOOLEAN
        BY DEF vars, sol_run, sol_quit, sol_fd_set_flags, handlerVars, Notify, IInv, TypeOK
  <1>7. TypeOK'
        BY <1>1, <1>6 DEF IInv, TypeOK
  <1>8. QED
        BY <1>2, <1>3, <1>5, <1>7 DEF IInv

\* sol_shutdown() frees what is left.
LEMMA ShutdownPreserves ==
  ASSUME IInv, Shutdown
  PROVE  IInv'
  <1>1. /\ mpc = "outside" /\ mpc' = "down" /\ status' = [h \in Handles |-> "free"]
        /\ fd' = [h \in Handles |-> 0] /\ flags' = [h \in Handles |-> {}]
        /\ fd_vector' = <<>> /\ pollfds' = <<>>
        /\ UNCHANGED <<fd_v_process, fd_pending_deletion, fd_processing, fd_changed, nfds, run_loop,
                       i, j, notified>>
        BY DEF Shutdown
  <1>2. ~fd_processing /\ fd_v_process = <<>> /\ Marked = {} /\ nfds = 0 /\ j = 0
        BY <1>1 DEF IInv, PlaceInv, CountInv, Walking
  <1>3. /\ <<>> \in Seq(Handles) /\ <<>> \in Seq(PollFd) /\ Len(<<>>) = 0
        /\ Distinct(<<>>) /\ \A h : ~In(h, <<>>)
        BY DEF In, Distinct
  <1>4. Marked' = {} /\ Live' = {}
        BY <1>1 DEF Marked, Live
  <1>5. MemoryInv'
        BY <1>1, <1>2, <1>3 DEF MemoryInv
  <1>6. CountInv' /\ OpenInv' /\ TableInv'
        BY <1>1, <1>2, <1>3, <1>4 DEF IInv, CountInv, OpenInv, TableInv
  <1>7. PlaceInv'
        BY <1>1, <1>2 DEF IInv, PlaceInv, Places, Walking
  <1>8. TypeOK'
        BY <1>1, <1>2, <1>3 DEF IInv, TypeOK
  <1>9. QED
        BY <1>5, <1>6, <1>7, <1>8 DEF IInv

\* The invariant of the handlers of descriptors, whatever the threads, the
\* callbacks and get_next_timeout() add, change and delete.
THEOREM DescriptorsInvariant == Spec => []IInv
  <1>1. Init => IInv
    <2> SUFFICES ASSUME Init PROVE IInv
        OBVIOUS
    <2>1. /\ <<>> \in Seq(Handles) /\ <<>> \in Seq(PollFd) /\ Len(<<>>) = 0
          /\ Distinct(<<>>) /\ \A h : ~In(h, <<>>)
          BY DEF In, Distinct
    <2>2. Marked = {} /\ Live = {}
          BY DEF Init, Marked, Live
    <2>3. MemoryInv /\ CountInv /\ OpenInv /\ TableInv
          BY <2>1, <2>2, FS_EmptySet DEF Init, MemoryInv, CountInv, OpenInv, TableInv
    <2>4. PlaceInv
          BY DEF Init, PlaceInv, Places, Walking
    <2>5. TypeOK
      <3>1. Cardinality(Handles) \in Nat
            BY Countable
      <3>2. 0 \in 0..Cardinality(Handles)
            BY <3>1
      <3>3. nfds \in 0..Len(pollfds) /\ j \in 0..(Len(pollfds) + 1)
            BY <2>1 DEF Init
      <3>4. QED
            BY <2>1, <3>2, <3>3 DEF Init, TypeOK
    <2>6. QED
          BY <2>3, <2>4, <2>5 DEF IInv
  <1>2. IInv /\ [Next]_vars => IInv'
    <2> SUFFICES ASSUME IInv, [Next]_vars PROVE IInv'
        OBVIOUS
    <2>1. CASE MainStep
          BY <2>1, PreparePreserves, PollPreserves, StealPreserves, WalkPreserves, EndPreserves
             DEF MainStep
    <2>2. CASE \E keep \in BOOLEAN : Return(keep)
          BY <2>2, ReturnPreserves
    <2>3. CASE \E thread \in {"main", "other"} : Api(thread)
          BY <2>3, AddPreserves, DelPreserves, QuietPreserves DEF Api
    <2>4. CASE sol_run \/ sol_quit \/ Shutdown \/ UNCHANGED vars
          BY <2>4, QuietPreserves, ShutdownPreserves
    <2>5. QED
          BY <2>1, <2>2, <2>3, <2>4 DEF Next
  <1>3. QED
        BY <1>1, <1>2, PTL DEF Spec

-----------------------------------------------------------------------------
(* The sleep.                                                              *)

\* fd_process() does not sleep over a descriptor: every live handler is in the
\* table ppoll() was given, with its flags, or a notification ends the sleep.
\* This needs sources whose get_next_timeout() neither adds handlers nor changes
\* flags: on the main thread, after fd_prepare(), nobody is notified.
THEOREM NeverOversleeps ==
  ASSUME ~ChangedLate
  PROVE  Spec => []NoDescriptorOverslept
  <1>1. Init => SleepInv
        BY DEF Init, SleepInv
  <1>2. ASSUME IInv, IInv', SleepInv, [Next]_vars PROVE SleepInv'
    <2> SUFFICES ASSUME mpc' = "prepared", ~notified', NEW h \in Live'
                 PROVE  InTable(h)'
        BY DEF SleepInv
    <2>1. CASE fd_prepare
          BY <1>2, <2>1, PreparePreserves DEF fd_prepare, handlerVars, Live
    <2>2. CASE ~fd_prepare
      <3>1. mpc = "prepared" /\ pollfds' = pollfds
            BY <1>2, <2>2 DEF Next, MainStep, PollEnds, PollReturns, Steal, SkipMarked, SkipNotReady,
               Call, TimeoutsProcessed, WalkEnds, Return, Api, sol_fd_add, sol_fd_del,
               sol_fd_set_flags, sol_run, sol_quit, Shutdown, Goes, pollVars, walkVars, vars
      <3>2. /\ status \in [Handles -> Status] /\ fd \in [Handles -> Numbers \cup {0}]
            /\ flags \in [Handles -> SUBSET Events]
            BY <1>2 DEF IInv, TypeOK, Status
      <3>3. ~notified /\ h \in Live /\ fd'[h] = fd[h] /\ flags'[h] = flags[h]
        <4>1. CASE UNCHANGED <<status, fd, flags, notified>>
              BY <4>1 DEF Live
        <4>2. CASE \E thread \in {"main", "other"} : Api(thread)
          <5>1. PICK thread \in {"main", "other"} : Api(thread)
                BY <4>2
          <5>2. CASE \/ \E g \in Handles, n \in Numbers, f \in SUBSET Events : sol_fd_add(thread, g, n, f)
                     \/ \E g \in Handles, f \in SUBSET Events : sol_fd_set_flags(thread, g, f)
                BY <3>1, <5>2 DEF sol_fd_add, sol_fd_set_flags, Notify, MayChange
          <5>3. CASE \E g \in Handles : sol_fd_del(thread, g)
            <6>1. PICK g \in Handles : sol_fd_del(thread, g)
                  BY <5>3
            <6>2. ~fd_processing
                  BY <1>2, <3>1 DEF IInv, PlaceInv, Walking
            <6>3. /\ status' = [status EXCEPT ![g] = "free"]
                  /\ fd' = [fd EXCEPT ![g] = 0] /\ flags' = [flags EXCEPT ![g] = {}]
                  BY <1>2, <6>1, <6>2, DelFrees
            <6>4. notified' = notified
                  BY <6>1 DEF sol_fd_del
            <6>5. QED
                  BY <3>2, <6>3, <6>4 DEF Live
          <5>4. QED
                BY <5>1, <5>2, <5>3 DEF Api
        <4>3. CASE sol_run \/ sol_quit
              BY <4>1, <4>3 DEF sol_run, sol_quit, handlerVars
        <4>4. QED
              BY <1>2, <2>2, <3>1, <4>1, <4>2, <4>3 DEF Next, MainStep, PollEnds, PollReturns, Steal,
                 SkipMarked, SkipNotReady, Call, TimeoutsProcessed, WalkEnds, Return, Shutdown,
                 Goes, vars
      <3>4. InTable(h)
            BY <1>2, <3>1, <3>3 DEF SleepInv
      <3>5. QED
            BY <3>1, <3>3, <3>4 DEF InTable
    <2>3. QED
          BY <2>1, <2>2
  <1>3. ASSUME IInv, SleepInv PROVE NoDescriptorOverslept
    <2>1. DOMAIN pollfds = 1..Len(pollfds)
          BY <1>3, Types
    <2>2. QED
          BY <1>3, <2>1 DEF IInv, SleepInv, InTable, NoDescriptorOverslept
  <1>4. QED
        BY <1>1, <1>2, <1>3, DescriptorsInvariant, PTL DEF Spec

-----------------------------------------------------------------------------
(* The walk.                                                               *)

\* What is left of a vector is mapped as before, if its numbers are the same.
LEMMA MapsPart ==
  ASSUME NEW v, NEW w, NEW p, NEW q, NEW f, NEW g, Len(v) \in Nat, Len(w) \in Nat, Len(q) = Len(p),
         \A k \in 1..Len(p) : q[k].owner = p[k].owner /\ q[k].fd = p[k].fd,
         NEW place \in [1..Len(w) -> 1..Len(v)],
         \A m \in 1..Len(w) : w[m] = v[place[m]] /\ g[w[m]] = f[w[m]],
         \A m, n \in 1..Len(w) : m < n => place[m] < place[n],
         Maps(v, p, f)
  PROVE  Maps(w, q, g)
  <1>1. \A n \in 1..Len(w) : place[n] \in 1..Len(v)
        OBVIOUS
  <1>2. \A n \in 1..Len(w), k \in 1..Len(p) :
          HasEntry(w, q, g, n, k) <=> HasEntry(v, p, f, place[n], k)
        BY DEF HasEntry
  <1>3. SUFFICES ASSUME NEW n \in 1..Len(w), NEW k \in 1..Len(p)
                 PROVE  /\ q[k].fd = g[w[n]] => q[k].owner = w[n]
                        /\ HasEntry(w, q, g, n, k) =>
                             \A m \in 1..Len(w) : m < n =>
                               /\ \E l \in 1..Len(p) : HasEntry(w, q, g, m, l)
                               /\ \A l \in 1..Len(p) : HasEntry(w, q, g, m, l) => l < k
        BY DEF Maps
  <1>4. q[k].fd = g[w[n]] => q[k].owner = w[n]
        BY <1>1 DEF Maps
  <1>5. ASSUME HasEntry(w, q, g, n, k), NEW m \in 1..Len(w), m < n
        PROVE  /\ \E l \in 1..Len(p) : HasEntry(w, q, g, m, l)
               /\ \A l \in 1..Len(p) : HasEntry(w, q, g, m, l) => l < k
    <2>1. HasEntry(v, p, f, place[n], k) /\ place[m] < place[n]
          BY <1>2, <1>5
    <2>2. /\ \E l \in 1..Len(p) : HasEntry(v, p, f, place[m], l)
          /\ \A l \in 1..Len(p) : HasEntry(v, p, f, place[m], l) => l < k
          BY <1>1, <2>1 DEF Maps
    <2>3. QED
          BY <1>2, <2>2
  <1>6. QED
        BY <1>4, <1>5

\* The same vector, and a table with the same numbers.
LEMMA MapsStill ==
  ASSUME NEW v, NEW p, NEW q, NEW f, NEW g, Len(v) \in Nat, Len(q) = Len(p),
         \A k \in 1..Len(p) : q[k].owner = p[k].owner /\ q[k].fd = p[k].fd,
         \A m \in 1..Len(v) : g[v[m]] = f[v[m]],
         Maps(v, p, f)
  PROVE  Maps(v, q, g)
  <1> DEFINE place == [m \in 1..Len(v) |-> m]
  <1>1. /\ place \in [1..Len(v) -> 1..Len(v)]
        /\ \A m \in 1..Len(v) : v[m] = v[place[m]] /\ g[v[m]] = f[v[m]]
        /\ \A m, n \in 1..Len(v) : m < n => place[m] < place[n]
        OBVIOUS
  <1> HIDE DEF place
  <1>2. QED
        BY <1>1, MapsPart

\* A handler with a number that is not in the table comes last.
LEMMA MapsAppended ==
  ASSUME NEW v \in Seq(Handles), NEW p, NEW f \in [Handles -> Numbers \cup {0}],
         NEW h \in Handles, NEW n \in Numbers, ~In(h, v),
         \A k \in 1..Len(p) : p[k].fd # n,
         Maps(v, p, f)
  PROVE  Maps(Append(v, h), p, [f EXCEPT ![h] = n])
  <1> DEFINE w == Append(v, h)
             g == [f EXCEPT ![h] = n]
  <1>1. /\ Len(w) = Len(v) + 1 /\ Len(v) \in Nat /\ w[Len(v) + 1] = h
        /\ \A m \in 1..Len(v) : w[m] = v[m]
        BY AppendedEntries
  <1>2. \A m \in 1..Len(v) : v[m] \in Handles
        BY ElementOfSeq
  <1>3. g[h] = n /\ \A m \in 1..Len(v) : g[v[m]] = f[v[m]]
        BY <1>2 DEF In
  <1> HIDE DEF w, g
  <1>4. \A m \in 1..Len(w) : m \in 1..Len(v) \/ m = Len(v) + 1
        BY <1>1
  <1>5. \A m \in 1..Len(v), k \in 1..Len(p) : HasEntry(w, p, g, m, k) <=> HasEntry(v, p, f, m, k)
        BY <1>1, <1>3 DEF HasEntry
  <1>6. \A k \in 1..Len(p) : ~HasEntry(w, p, g, Len(v) + 1, k) /\ p[k].fd # g[w[Len(v) + 1]]
        BY <1>1, <1>3 DEF HasEntry
  <1>7. SUFFICES ASSUME NEW m \in 1..Len(w), NEW k \in 1..Len(p)
                 PROVE  /\ p[k].fd = g[w[m]] => p[k].owner = w[m]
                        /\ HasEntry(w, p, g, m, k) =>
                             \A x \in 1..Len(w) : x < m =>
                               /\ \E l \in 1..Len(p) : HasEntry(w, p, g, x, l)
                               /\ \A l \in 1..Len(p) : HasEntry(w, p, g, x, l) => l < k
        BY DEF Maps, w, g
  <1>8. CASE m = Len(v) + 1
        BY <1>6, <1>8
  <1>9. CASE m \in 1..Len(v)
    <2>1. p[k].fd = g[w[m]] => p[k].owner = w[m]
          BY <1>1, <1>3, <1>9 DEF Maps
    <2>2. ASSUME HasEntry(w, p, g, m, k), NEW x \in 1..Len(w), x < m
          PROVE  /\ \E l \in 1..Len(p) : HasEntry(w, p, g, x, l)
                 /\ \A l \in 1..Len(p) : HasEntry(w, p, g, x, l) => l < k
      <3>1. x \in 1..Len(v)
            BY <1>1, <1>9, <2>2
      <3>2. HasEntry(v, p, f, m, k)
            BY <1>5, <1>9, <2>2
      <3>3. /\ \E l \in 1..Len(p) : HasEntry(v, p, f, x, l)
            /\ \A l \in 1..Len(p) : HasEntry(v, p, f, x, l) => l < k
            BY <1>9, <2>2, <3>1, <3>2 DEF Maps
      <3>4. QED
            BY <1>5, <3>1, <3>3
    <2>3. QED
          BY <2>1, <2>2
  <1>10. QED
         BY <1>4, <1>8, <1>9

\* A walk that keeps some of the entries keeps the order.
LEMMA MapsSelected ==
  ASSUME NEW v \in Seq(Handles), NEW w \in Seq(Handles), NEW S, Selects(w, v, S, Len(v)),
         NEW p, NEW q, NEW f, NEW g, Len(q) = Len(p),
         \A k \in 1..Len(p) : q[k].owner = p[k].owner /\ q[k].fd = p[k].fd,
         \A m \in 1..Len(w) : g[w[m]] = f[w[m]],
         Maps(v, p, f)
  PROVE  Maps(w, q, g)
  <1>1. PICK place \in [1..Len(w) -> S \cap (1..Len(v))] :
              /\ \A m \in 1..Len(w) : w[m] = v[place[m]]
              /\ \A m, n \in 1..Len(w) : m < n => place[m] < place[n]
        BY DEF Selects
  <1>2. place \in [1..Len(w) -> 1..Len(v)]
        BY <1>1
  <1>3. Len(v) \in Nat /\ Len(w) \in Nat
        BY LenProperties
  <1>4. /\ \A m \in 1..Len(w) : w[m] = v[place[m]] /\ g[w[m]] = f[w[m]]
        /\ \A m, n \in 1..Len(w) : m < n => place[m] < place[n]
        BY <1>1
  <1>5. QED
        BY <1>2, <1>3, <1>4, MapsPart

\* The table that fd_prepare() makes maps the vector.
LEMMA MadeMaps ==
  ASSUME IInv, fd_prepare, fd_changed
  PROVE  NumbersDiffer' /\ Maps(fd_vector, pollfds', fd)
  <1>1. PICK place \in [1..Len(pollfds') -> 1..Len(fd_vector)] :
              /\ \A k \in 1..Len(pollfds') :
                   /\ pollfds'[k].owner = fd_vector[place[k]]
                   /\ pollfds'[k].fd = fd[fd_vector[place[k]]]
              /\ \A k, l \in 1..Len(pollfds') : k < l => place[k] < place[l]
              /\ \A n \in 1..Len(fd_vector) : \E k \in 1..Len(pollfds') : place[k] = n
        BY TableMade
  <1>2. Len(fd_vector) \in Nat /\ Len(pollfds') \in Nat
        BY TableMade, Types, LenProperties
  <1>3. \A n \in 1..Len(fd_vector) : fd_vector[n] \in Live
    <2>1. Marked = {}
          BY DEF fd_prepare, IInv, PlaceInv, CountInv, Walking
    <2>2. QED
          BY <2>1, Types DEF Marked, Live, Status
  <1>4. \A m, n \in 1..Len(fd_vector) : fd[fd_vector[m]] = fd[fd_vector[n]] => m = n
        BY <1>3 DEF IInv, OpenInv, MemoryInv, Distinct
  <1>5. \A k \in 1..Len(pollfds') : place[k] \in 1..Len(fd_vector)
        BY <1>1
  <1>6. \A k, l \in 1..Len(pollfds') : place[k] < place[l] => k < l
    <2> SUFFICES ASSUME NEW k \in 1..Len(pollfds'), NEW l \in 1..Len(pollfds'), place[k] < place[l], ~(k < l)
                 PROVE  FALSE
        OBVIOUS
    <2>1. place[k] \in Int /\ place[l] \in Int
          BY <1>2, <1>5
    <2>2. l < k \/ k = l
          BY <1>2
    <2>3. place[l] < place[k] \/ place[l] = place[k]
          BY <1>1, <2>2
    <2>4. QED
          BY <2>1, <2>3
  <1>7. \A k, l \in 1..Len(pollfds') : place[k] = place[l] => k = l
    <2> SUFFICES ASSUME NEW k \in 1..Len(pollfds'), NEW l \in 1..Len(pollfds'), place[k] = place[l], k # l
                 PROVE  FALSE
        OBVIOUS
    <2>1. place[k] \in Int /\ place[l] \in Int
          BY <1>2, <1>5
    <2>2. l < k \/ k < l
          BY <1>2
    <2>3. place[l] < place[k] \/ place[k] < place[l]
          BY <1>1, <2>2
    <2>4. QED
          BY <2>1, <2>3
  <1>8. NumbersDiffer'
        BY <1>1, <1>4, <1>5, <1>7 DEF NumbersDiffer
  <1>9. \A n \in 1..Len(fd_vector), k \in 1..Len(pollfds') :
          pollfds'[k].fd = fd[fd_vector[n]] => place[k] = n
        BY <1>1, <1>4, <1>5
  <1>10. \A n \in 1..Len(fd_vector), k \in 1..Len(pollfds') :
          HasEntry(fd_vector, pollfds', fd, n, k) <=> place[k] = n
         BY <1>1, <1>9 DEF HasEntry
  <1>11. ASSUME NEW n \in 1..Len(fd_vector), NEW k \in 1..Len(pollfds'), place[k] = n,
                NEW m \in 1..Len(fd_vector), m < n
         PROVE  /\ \E l \in 1..Len(pollfds') : HasEntry(fd_vector, pollfds', fd, m, l)
                /\ \A l \in 1..Len(pollfds') : HasEntry(fd_vector, pollfds', fd, m, l) => l < k
    <2>1. PICK l \in 1..Len(pollfds') : place[l] = m
          BY <1>1
    <2>2. \A x \in 1..Len(pollfds') : place[x] = m => x < k
          BY <1>6, <1>11
    <2>3. QED
          BY <1>10, <2>1, <2>2
  <1>12. \A n \in 1..Len(fd_vector), k \in 1..Len(pollfds') :
           pollfds'[k].fd = fd[fd_vector[n]] => pollfds'[k].owner = fd_vector[n]
         BY <1>1, <1>9
  <1>13. Maps(fd_vector, pollfds', fd)
         BY <1>10, <1>11, <1>12 DEF Maps
  <1>14. QED
         BY <1>8, <1>13

\* Steps that leave the table, the order of the vectors and the flag as they are.
LEMMA MatchStill ==
  ASSUME IInv, MatchInv, UNCHANGED <<fd_vector, fd_v_process, fd_processing, fd, pollfds>>,
         mpc' = mpc \/ fd_processing,
         fd_changed' \/ (fd_changed' = fd_changed /\ status' = status)
  PROVE  MatchInv'
  <1>1. NumbersDiffer' = NumbersDiffer /\ Maps(fd_vector, pollfds, fd)' = Maps(fd_vector, pollfds, fd)
        /\ Maps(fd_v_process, pollfds, fd)' = Maps(fd_v_process, pollfds, fd)
        BY DEF NumbersDiffer, Maps, HasEntry
  <1>2. QED
        BY <1>1 DEF MatchInv, Mapped, Marked

\* sol_fd_add(): a new number is not in the table of the poll that goes on.
LEMMA AddMatches ==
  ASSUME ~ReusedEarly, IInv, MatchInv, NEW thread \in {"main", "other"}, NEW h \in Handles,
         NEW n \in Numbers, NEW f \in SUBSET Events, sol_fd_add(thread, h, n, f)
  PROVE  MatchInv'
  <1>1. /\ status[h] = "free" /\ fd' = [fd EXCEPT ![h] = n]
        /\ fd_vector' = Append(fd_vector, h) /\ fd_changed' = TRUE
        /\ UNCHANGED <<fd_v_process, fd_processing, pollfds, mpc>>
        BY DEF sol_fd_add, pollVars, walkVars
  <1>2. fd \in [Handles -> Numbers \cup {0}] /\ fd_vector \in Seq(Handles)
        BY DEF IInv, TypeOK
  <1>3. ~In(h, fd_vector) /\ ~In(h, fd_v_process)
        BY <1>1 DEF IInv, MemoryInv
  <1>4. NumbersDiffer'
        BY <1>1 DEF MatchInv, NumbersDiffer
  <1>5. ASSUME fd_processing PROVE Maps(fd_v_process, pollfds, fd')
    <2>1. Maps(fd_v_process, pollfds, fd) /\ Len(fd_v_process) \in Nat
          BY <1>5, Types DEF MatchInv, Mapped
    <2>2. \A m \in 1..Len(fd_v_process) : fd'[fd_v_process[m]] = fd[fd_v_process[m]]
          BY <1>1, <1>2, <1>3, Types DEF In
    <2>3. QED
          BY <2>1, <2>2, MapsStill
  <1>6. ASSUME ~fd_processing, mpc \in {"prepared", "polled"}
        PROVE  Maps(fd_vector', pollfds, fd')
    <2>1. Maps(fd_vector, pollfds, fd)
          BY <1>6 DEF MatchInv, Mapped
    <2>2. \A k \in 1..Len(pollfds) : pollfds[k].fd # n
          BY <1>6, Types DEF sol_fd_add, MayOpen, InWindow
    <2>3. Maps(Append(fd_vector, h), pollfds, [fd EXCEPT ![h] = n])
          BY <1>2, <1>3, <2>1, <2>2, MapsAppended
    <2>4. QED
          BY <1>1, <2>3
  <1>7. QED
        BY <1>1, <1>4, <1>5, <1>6 DEF MatchInv, Mapped

\* sol_fd_del(), at once: the others keep their order.
LEMMA DelMatches ==
  ASSUME IInv, MatchInv, NEW thread \in {"main", "other"}, NEW h \in Handles, sol_fd_del(thread, h)
  PROVE  MatchInv'
  <1>1. fd_changed' = TRUE /\ UNCHANGED <<fd_v_process, fd_processing, pollfds, mpc>>
        BY DEF sol_fd_del, pollVars, walkVars
  <1>2. CASE fd_processing
    <2>1. UNCHANGED <<fd, fd_vector>>
          BY <1>2 DEF sol_fd_del
    <2>2. QED
          BY <1>1, <2>1, MatchStill
  <1>3. CASE ~fd_processing
    <2>1. /\ fd_vector' \in Seq(Handles) /\ fd' = [fd EXCEPT ![h] = 0]
          /\ Selects(fd_vector', fd_vector, {k \in 1..Len(fd_vector) : fd_vector[k] # h}, Len(fd_vector))
          /\ \A g \in Handles : In(g, fd_vector') <=> In(g, fd_vector) /\ g # h
          BY <1>3, DelFrees
    <2>2. fd \in [Handles -> Numbers \cup {0}] /\ fd_vector \in Seq(Handles)
          BY DEF IInv, TypeOK
    <2>3. \A m \in 1..Len(fd_vector') : fd_vector'[m] \in Handles /\ fd_vector'[m] # h
      <3>1. \A m \in 1..Len(fd_vector') : fd_vector'[m] \in Handles
            BY <2>1, ElementOfSeq
      <3>2. \A m \in 1..Len(fd_vector') : In(fd_vector'[m], fd_vector')
            BY DEF In
      <3>3. QED
            BY <2>1, <3>1, <3>2
    <2>4. \A m \in 1..Len(fd_vector') : fd'[fd_vector'[m]] = fd[fd_vector'[m]]
          BY <2>1, <2>2, <2>3
    <2>5. NumbersDiffer'
          BY <1>1 DEF MatchInv, NumbersDiffer
    <2>6. ASSUME Maps(fd_vector, pollfds, fd) PROVE Maps(fd_vector', pollfds, fd')
      <3> DEFINE S == {k \in 1..Len(fd_vector) : fd_vector[k] # h}
      <3>1. Selects(fd_vector', fd_vector, S, Len(fd_vector))
            BY <2>1
      <3> HIDE DEF S
      <3>2. QED
            BY <2>1, <2>2, <2>4, <2>6, <3>1, MapsSelected
    <2>7. QED
          BY <1>1, <1>3, <2>5, <2>6 DEF MatchInv, Mapped
  <1>4. QED
        BY <1>2, <1>3

\* The end of the walk: unless something has changed, nothing was added and
\* nothing is freed.
LEMMA EndMatches ==
  ASSUME IInv, MatchInv, WalkEnds
  PROVE  MatchInv'
  <1>1. /\ ~fd_processing' /\ mpc' = "outside" /\ fd_changed' = fd_changed
        /\ pollfds' = [k \in DOMAIN pollfds |-> [pollfds[k] EXCEPT !.revents = {}]]
        BY DEF WalkEnds
  <1>2. Len(pollfds') = Len(pollfds)
        /\ \A k \in 1..Len(pollfds) : /\ pollfds'[k].owner = pollfds[k].owner
                                      /\ pollfds'[k].fd = pollfds[k].fd
    <2> DEFINE f == [k \in 1..Len(pollfds) |-> {}]
    <2>1. f \in [1..Len(pollfds) -> SUBSET (Events \cup {"nval"})]
          OBVIOUS
    <2>2. pollfds' = [k \in DOMAIN pollfds |-> [pollfds[k] EXCEPT !.revents = f[k]]]
          BY <1>1, Types
    <2> HIDE DEF f
    <2>3. QED
          BY <2>1, <2>2, OnlyFound
  <1>3. NumbersDiffer'
        BY <1>2 DEF MatchInv, NumbersDiffer
  <1>4. ASSUME ~fd_changed PROVE Maps(fd_vector', pollfds', fd')
    <2> DEFINE v == fd_vector \o fd_v_process
               S == {k \in 1..Len(v) : status[v[k]] # "marked"}
    <2>1. fd_processing
          BY DEF WalkEnds, IInv, PlaceInv, Walking
    <2>2. fd_vector = <<>> /\ Marked = {} /\ Maps(fd_v_process, pollfds, fd)
          BY <1>4, <2>1 DEF MatchInv, Mapped
    <2>3. /\ fd_vector \in Seq(Handles) /\ fd_v_process \in Seq(Handles)
          /\ fd \in [Handles -> Numbers \cup {0}]
          BY DEF IInv, TypeOK
    <2>4. v = fd_v_process
          BY <2>2, <2>3, JoinedEntries
    <2>5. /\ fd_vector' \in Seq(Handles) /\ Selects(fd_vector', v, S, Len(v))
          /\ fd' = [h \in Handles |-> IF status[h] = "marked" THEN 0 ELSE fd[h]]
          BY EndSweeps
    <2>6. \A h \in Handles : fd'[h] = fd[h]
          BY <2>2, <2>5 DEF Marked
    <2>7. \A m \in 1..Len(fd_vector') : fd'[fd_vector'[m]] = fd[fd_vector'[m]]
      <3>1. \A m \in 1..Len(fd_vector') : fd_vector'[m] \in Handles
            BY <2>5, ElementOfSeq
      <3>2. QED
            BY <2>6, <3>1
    <2> HIDE DEF v, S
    <2>8. QED
          BY <1>2, <2>2, <2>3, <2>4, <2>5, <2>7, MapsSelected
  <1>5. QED
        BY <1>1, <1>3, <1>4 DEF MatchInv, Mapped

\* Every step keeps numbers and handlers together, if no number is opened again
\* between fd_prepare() and the walk.
LEMMA MatchStep ==
  ASSUME ~ReusedEarly, IInv, MatchInv, [Next]_vars
  PROVE  MatchInv'
  <1>1. CASE fd_prepare
    <2>1. /\ mpc = "outside" /\ mpc' = "prepared"
          /\ UNCHANGED <<fd, fd_vector, fd_v_process, fd_processing>>
          BY <1>1 DEF fd_prepare, handlerVars, vectorVars
    <2>2. ~fd_processing
          BY <2>1 DEF IInv, PlaceInv, Walking
    <2>3. CASE fd_changed
      <3>1. NumbersDiffer' /\ Maps(fd_vector, pollfds', fd)
            BY <1>1, <2>3, MadeMaps
      <3>2. QED
            BY <2>1, <2>2, <3>1 DEF MatchInv, Mapped
    <2>4. CASE ~fd_changed
      <3>1. pollfds' = pollfds
            BY <1>1, <2>4 DEF fd_prepare
      <3>2. NumbersDiffer' /\ Maps(fd_vector, pollfds', fd)
            BY <2>2, <2>4, <3>1 DEF MatchInv, Mapped, NumbersDiffer
      <3>3. QED
            BY <2>1, <2>2, <3>2 DEF MatchInv, Mapped
    <2>5. QED
          BY <2>3, <2>4
  <1>2. CASE PollEnds
    <2>1. /\ mpc = "prepared" /\ mpc' = "polled"
          /\ UNCHANGED <<fd, fd_vector, fd_v_process, fd_processing>>
          /\ Len(pollfds') = Len(pollfds)
          /\ \A k \in 1..Len(pollfds) : /\ pollfds'[k].owner = pollfds[k].owner
                                        /\ pollfds'[k].fd = pollfds[k].fd
          BY <1>2, PollPreserves
    <2>2. ~fd_processing
          BY <2>1 DEF IInv, PlaceInv, Walking
    <2>3. Maps(fd_vector, pollfds, fd) /\ Len(fd_vector) \in Nat
          BY <2>1, <2>2, Types DEF MatchInv, Mapped
    <2>4. Maps(fd_vector, pollfds', fd)
          BY <2>1, <2>3, MapsStill
    <2>5. NumbersDiffer'
          BY <2>1 DEF MatchInv, NumbersDiffer
    <2>6. QED
          BY <2>1, <2>2, <2>4, <2>5 DEF MatchInv, Mapped
  <1>3. CASE Steal
    <2>1. /\ mpc = "polled" /\ mpc' = "walk" /\ fd_v_process' = fd_vector /\ fd_vector' = <<>>
          /\ fd_processing' = TRUE /\ UNCHANGED <<fd, pollfds, status, fd_changed>>
          BY <1>3 DEF Steal, handlerVars, pollVars
    <2>2. ~fd_processing /\ Marked = {}
          BY <2>1 DEF IInv, PlaceInv, CountInv, Walking
    <2>3. Maps(fd_vector, pollfds, fd)
          BY <2>1, <2>2 DEF MatchInv, Mapped
    <2>4. NumbersDiffer' /\ Marked' = {}
          BY <2>1, <2>2 DEF MatchInv, NumbersDiffer, Marked
    <2>5. QED
          BY <2>1, <2>3, <2>4 DEF MatchInv, Mapped
  <1>4. CASE SkipMarked \/ SkipNotReady \/ Call \/ TimeoutsProcessed
    <2>1. /\ mpc \in Walking
          /\ UNCHANGED <<fd_vector, fd_v_process, fd_processing, fd, pollfds, fd_changed, status>>
          BY <1>4 DEF SkipMarked, SkipNotReady, Call, TimeoutsProcessed, Goes, Walking,
             handlerVars, vectorVars, pollVars
    <2>2. fd_processing
          BY <2>1 DEF IInv, PlaceInv
    <2>3. QED
          BY <2>1, <2>2, MatchStill
  <1>5. CASE WalkEnds
        BY <1>5, EndMatches
  <1>6. CASE \E keep \in BOOLEAN : Return(keep)
    <2>1. /\ mpc = "cb" /\ UNCHANGED <<fd_vector, fd_v_process, fd_processing, fd, pollfds>>
          /\ fd_changed' \/ (fd_changed' = fd_changed /\ status' = status)
          BY <1>6 DEF Return, pollVars
    <2>2. fd_processing
          BY <2>1 DEF IInv, PlaceInv, Walking
    <2>3. QED
          BY <2>1, <2>2, MatchStill
  <1>7. CASE \E thread \in {"main", "other"} : Api(thread)
    <2>1. PICK thread \in {"main", "other"}, h \in Handles :
            \/ \E n \in Numbers, f \in SUBSET Events : sol_fd_add(thread, h, n, f)
            \/ sol_fd_del(thread, h)
            \/ \E f \in SUBSET Events : sol_fd_set_flags(thread, h, f)
          BY <1>7 DEF Api
    <2>2. CASE \E f \in SUBSET Events : sol_fd_set_flags(thread, h, f)
      <3>1. /\ UNCHANGED <<fd_vector, fd_v_process, fd_processing, fd, pollfds, mpc>>
            /\ fd_changed' = TRUE
            BY <2>2 DEF sol_fd_set_flags, vectorVars, pollVars, walkVars
      <3>2. QED
            BY <3>1, MatchStill
    <2>3. QED
          BY <2>1, <2>2, AddMatches, DelMatches
  <1>8. CASE sol_run \/ sol_quit \/ UNCHANGED vars
    <2>1. UNCHANGED <<fd_vector, fd_v_process, fd_processing, fd, pollfds, fd_changed, status, mpc>>
          BY <1>8 DEF sol_run, sol_quit, vars, handlerVars, vectorVars, pollVars, walkVars
    <2>2. QED
          BY <2>1, MatchStill
  <1>9. CASE Shutdown
    <2>1. /\ mpc = "outside" /\ fd_vector' = <<>> /\ pollfds' = <<>> /\ fd_processing' = fd_processing
          BY <1>9 DEF Shutdown
    <2>2. ~fd_processing
          BY <2>1 DEF IInv, PlaceInv, Walking
    <2>3. Len(pollfds') = 0
          BY <2>1
    <2>4. QED
          BY <2>1, <2>2, <2>3 DEF MatchInv, Mapped, Maps, NumbersDiffer
  <1>10. QED
         BY <1>1, <1>2, <1>3, <1>4, <1>5, <1>6, <1>7, <1>8, <1>9 DEF Next, MainStep

\* Of at most n elements some are left.
LEMMA FewerLeft ==
  ASSUME NEW T, IsFiniteSet(T), NEW U \in SUBSET T, NEW n \in Nat, Cardinality(T) <= n
  PROVE  /\ Cardinality(U) <= n
         /\ \A x \in T : x \notin U => Cardinality(U) <= n - 1
         /\ T # {} => n > 0
  <1>1. /\ IsFiniteSet(U) /\ Cardinality(U) <= Cardinality(T)
        BY FS_Subset
  <1>2. Cardinality(U) \in Nat /\ Cardinality(T) \in Nat
        BY <1>1, FS_CardinalityType
  <1>3. ASSUME NEW x \in T, x \notin U PROVE Cardinality(U) <= n - 1
    <2>1. IsFiniteSet(T \ {x}) /\ Cardinality(T \ {x}) = Cardinality(T) - 1
          BY FS_RemoveElement
    <2>2. U \in SUBSET (T \ {x})
          BY <1>3
    <2>3. Cardinality(U) <= Cardinality(T \ {x})
          BY <2>1, <2>2, FS_Subset
    <2>4. QED
          BY <1>2, <2>1, <2>3
  <1>4. T # {} => Cardinality(T) # 0
        BY FS_EmptySet
  <1>5. QED
        BY <1>1, <1>2, <1>3, <1>4

\* Steps of others, that at most delete a handler of the walk.
LEMMA ReachStill ==
  ASSUME IInv, ReachInv, UNCHANGED <<pollfds, nfds, fd_v_process, fd_processing, i, j>>,
         mpc' = mpc \/ (mpc = "cb" /\ mpc' = "timeouts"),
         \A n \in 1..Len(fd_v_process) :
           /\ fd'[fd_v_process[n]] = fd[fd_v_process[n]]
           /\ status'[fd_v_process[n]] = "live" => status[fd_v_process[n]] = "live"
  PROVE  ReachInv'
  <1>1. /\ mpc' \in Walking \cup {"polled"} <=> mpc \in Walking \cup {"polled"}
        /\ mpc' = "walk" <=> mpc = "walk"
        BY DEF Walking
  <1>2. Pending' = Pending
        BY DEF Pending
  <1>3. ASSUME Reaches PROVE Reaches'
        BY <1>1, <1>3 DEF Reaches, HasEntry
  <1>4. QED
        BY <1>1, <1>2, <1>3 DEF ReachInv

\* The entry that the search finds is the one of the handler, and the entries of
\* the handlers behind it are behind it.
LEMMA SearchFinds ==
  ASSUME IInv, MatchInv, fd_processing, i \in 1..Len(fd_v_process), Matching # {}
  PROVE  /\ pollfds[Min(Matching)].owner = Current
         /\ \A k \in 1..Len(pollfds) :
              pollfds[k].fd = fd[Current] => k = Min(Matching)
         /\ \A n \in 1..Len(fd_v_process), k \in 1..Len(pollfds) :
              n > i /\ HasEntry(fd_v_process, pollfds, fd, n, k) => k > Min(Matching)
  <1> DEFINE m == Min(Matching)
  <1>1. m \in 1..Len(pollfds) /\ pollfds[m].fd = fd[Current]
        BY FirstMatching
  <1> HIDE DEF m
  <1>2. Len(pollfds) \in Nat /\ Len(fd_v_process) \in Nat
        BY Types
  <1>3. Maps(fd_v_process, pollfds, fd) /\ NumbersDiffer
        BY DEF MatchInv, Mapped
  <1>4. pollfds[m].owner = Current
        BY <1>1, <1>3 DEF Maps, Current
  <1>5. HasEntry(fd_v_process, pollfds, fd, i, m)
        BY <1>1, <1>4 DEF HasEntry, Current
  <1>6. \A k \in 1..Len(pollfds) : pollfds[k].fd = fd[Current] => k = m
        BY <1>1, <1>3 DEF NumbersDiffer
  <1>7. ASSUME NEW n \in 1..Len(fd_v_process), NEW k \in 1..Len(pollfds), n > i,
               HasEntry(fd_v_process, pollfds, fd, n, k)
        PROVE  k > m
    <2>1. i < n
          BY <1>2, <1>7
    <2>2. m < k
          BY <1>1, <1>3, <1>5, <1>7, <2>1 DEF Maps
    <2>3. QED
          BY <1>1, <1>2, <2>2
  <1>8. QED
        BY <1>4, <1>6, <1>7 DEF m

\* The walk goes past a marked handler, and past one whose timeouts are done.
LEMMA GoOnReaches ==
  ASSUME IInv, ReachInv, SkipMarked \/ TimeoutsProcessed
  PROVE  ReachInv'
  <1>1. /\ UNCHANGED <<fd_v_process, fd_processing, fd, pollfds, nfds, status, j>>
        /\ i' = i + 1 /\ mpc' = "walk" /\ mpc \in {"walk", "timeouts"}
        /\ mpc = "walk" => status[fd_v_process[i]] = "marked"
        BY DEF SkipMarked, TimeoutsProcessed, Goes, Current, handlerVars, vectorVars, pollVars
  <1>2. i \in Nat /\ fd_processing /\ mpc \in Walking /\ mpc' \in Walking
        BY <1>1 DEF IInv, PlaceInv, Walking
  <1>3. Reaches /\ Cardinality(Pending) <= nfds
        BY <1>2 DEF ReachInv
  <1>4. Pending' = Pending
        BY <1>1 DEF Pending
  <1>5. ASSUME NEW n \in 1..Len(fd_v_process), NEW k \in 1..Len(pollfds),
               HasEntry(fd_v_process, pollfds, fd, n, k)
        PROVE  /\ n < i' => k < j \/ status[fd_v_process[n]] # "live"
               /\ n > i' \/ n = i' => k >= j
    <2>1. n < i' => n < i \/ n = i
          BY <1>1, <1>2, Types
    <2>2. n > i' \/ n = i' => n > i
          BY <1>1, <1>2, Types
    <2>3. n > i => k >= j
          BY <1>3, <1>5 DEF Reaches
    <2>4. n < i \/ n = i => k < j \/ status[fd_v_process[n]] # "live"
          BY <1>1, <1>3, <1>5 DEF Reaches
    <2>5. QED
          BY <2>1, <2>2, <2>3, <2>4
  <1>6. Reaches'
        BY <1>1, <1>5 DEF Reaches, HasEntry
  <1>7. QED
        BY <1>1, <1>3, <1>4, <1>6 DEF ReachInv

\* The search goes on behind the entry it has found.
LEMMA FoundReaches ==
  ASSUME IInv, MatchInv, ReachInv, SkipNotReady \/ Call
  PROVE  ReachInv'
  <1> DEFINE m == Min(Matching)
  <1>1. /\ UNCHANGED <<fd_v_process, fd_processing, fd, pollfds, status>>
        /\ mpc = "walk" /\ i <= Len(fd_v_process) /\ Matching # {} /\ j' = m + 1
        BY DEF SkipNotReady, Call, Goes, handlerVars, vectorVars, pollVars
  <1>2. \/ mpc' = "walk" /\ i' = i + 1 /\ nfds' = nfds
        \/ mpc' = "cb" /\ i' = i /\ nfds' = nfds - 1 /\ pollfds[m].revents # {}
        BY DEF SkipNotReady, Call, Goes, pollVars
  <1>3. /\ Len(pollfds) \in Nat /\ Len(fd_v_process) \in Nat /\ nfds \in Nat /\ j \in Nat /\ i \in Nat
        BY Types DEF IInv, TypeOK, PlaceInv
  <1>4. i \in 1..Len(fd_v_process) /\ fd_processing
    <2>1. i >= 1 /\ fd_processing
          BY <1>1 DEF IInv, PlaceInv, Walking
    <2>2. QED
          BY <1>1, <1>3, <2>1
  <1>5. /\ m \in 1..Len(pollfds) /\ m >= j
        BY <1>1, FirstMatching
  <1>6. /\ \A k \in 1..Len(pollfds) : pollfds[k].fd = fd[Current] => k = m
        /\ \A n \in 1..Len(fd_v_process), k \in 1..Len(pollfds) :
             n > i /\ HasEntry(fd_v_process, pollfds, fd, n, k) => k > m
        BY <1>1, <1>4, SearchFinds
  <1> HIDE DEF m
  <1>7. Reaches /\ Cardinality(Pending) <= nfds
        BY <1>1, <1>4 DEF ReachInv, Walking
  <1>8. Cardinality(Pending') <= nfds'
    <2>1. IsFiniteSet(Pending)
      <3>1. Pending \subseteq 1..Len(pollfds)
            BY DEF Pending
      <3>2. QED
            BY <1>3, <3>1, IndicesFinite
    <2>2. Pending' \in SUBSET Pending /\ m \notin Pending'
          BY <1>1, <1>3, <1>5 DEF Pending
    <2>3. pollfds[m].revents # {} => m \in Pending
          BY <1>5 DEF Pending
    <2>4. /\ Cardinality(Pending') <= nfds
          /\ m \in Pending => Cardinality(Pending') <= nfds - 1
          BY <1>3, <1>7, <2>1, <2>2, FewerLeft
    <2>5. QED
          BY <1>2, <2>3, <2>4
  <1>9. ASSUME NEW n \in 1..Len(fd_v_process), NEW k \in 1..Len(pollfds),
               HasEntry(fd_v_process, pollfds, fd, n, k)
        PROVE  /\ n < i \/ n = i => k < j' \/ status[fd_v_process[n]] # "live"
               /\ n > i => k >= j'
    <2>1. CASE n < i
      <3>1. k < j \/ status[fd_v_process[n]] # "live"
            BY <1>7, <1>9, <2>1 DEF Reaches
      <3>2. k < j => k < j'
            BY <1>1, <1>3, <1>5
      <3>3. QED
            BY <1>3, <2>1, <3>1, <3>2
    <2>2. CASE n = i
      <3>1. k = m
            BY <1>6, <1>9, <2>2 DEF HasEntry, Current
      <3>2. k < j'
            BY <1>1, <1>3, <3>1
      <3>3. QED
            BY <1>3, <2>2, <3>2
    <2>3. CASE n > i
      <3>1. k > m
            BY <1>6, <1>9, <2>3
      <3>2. k >= j'
            BY <1>1, <1>3, <1>5, <3>1
      <3>3. QED
            BY <1>3, <2>3, <3>2
    <2>4. QED
          BY <1>3, <2>1, <2>2, <2>3
  <1>10. Reaches'
    <2> SUFFICES ASSUME NEW n \in 1..Len(fd_v_process), NEW k \in 1..Len(pollfds),
                        HasEntry(fd_v_process, pollfds, fd, n, k)
                 PROVE  /\ n < i' \/ (n = i' /\ mpc' # "walk") => k < j' \/ status[fd_v_process[n]] # "live"
                        /\ n > i' \/ (n = i' /\ mpc' = "walk") => k >= j'
        BY <1>1 DEF Reaches, HasEntry
    <2>1. CASE mpc' = "walk" /\ i' = i + 1
      <3>1. n < i' => n < i \/ n = i
            BY <1>3, <2>1
      <3>2. n > i' \/ n = i' => n > i
            BY <1>3, <2>1
      <3>3. QED
            BY <1>9, <2>1, <3>1, <3>2
    <2>2. CASE mpc' = "cb" /\ i' = i
          BY <1>9, <2>2
    <2>3. QED
          BY <1>2, <2>1, <2>2
  <1>11. QED
         BY <1>8, <1>10 DEF ReachInv

\* Every step keeps the walk and the table in step.
LEMMA ReachStep ==
  ASSUME IInv, MatchInv, ReachInv, [Next]_vars
  PROVE  ReachInv'
  <1>1. CASE fd_prepare \/ WalkEnds \/ Shutdown
    <2>1. mpc' \notin Walking \cup {"polled"} /\ ~fd_processing'
          BY <1>1 DEF fd_prepare, WalkEnds, Shutdown, vectorVars, Walking, IInv, PlaceInv
    <2>2. QED
          BY <2>1 DEF ReachInv
  <1>2. CASE PollEnds
    <2>1. /\ mpc = "prepared" /\ UNCHANGED <<fd_processing, j>>
          /\ Len(pollfds') = Len(pollfds)
          /\ nfds' = Cardinality({k \in 1..Len(pollfds) : pollfds'[k].revents # {}})
          BY <1>2, PollPreserves
    <2>2. ~fd_processing /\ j = 0 /\ Len(pollfds) \in Nat
          BY <2>1, Types DEF IInv, PlaceInv, Walking
    <2>3. Pending' = {k \in 1..Len(pollfds) : pollfds'[k].revents # {}}
          BY <2>1, <2>2 DEF Pending
    <2>4. nfds' = Cardinality(Pending') /\ nfds' \in Int
      <3>1. Pending' \subseteq 1..Len(pollfds)
            BY <2>3
      <3>2. Cardinality(Pending') \in Nat
            BY <2>2, <3>1, IndicesFinite
      <3>3. QED
            BY <2>1, <2>3, <3>2
    <2>5. Cardinality(Pending') <= nfds'
          BY <2>4
    <2>6. QED
          BY <2>1, <2>2, <2>5 DEF ReachInv
  <1>3. CASE Steal
    <2>1. /\ mpc = "polled" /\ mpc' = "walk" /\ i' = 1 /\ j' = 1 /\ UNCHANGED <<pollfds, nfds>>
          BY <1>3 DEF Steal, pollVars
    <2>2. Len(pollfds) \in Nat /\ j = 0 /\ Len(fd_v_process') \in Nat
          BY <1>3, <2>1, Types, StealPreserves DEF Steal, IInv, PlaceInv, Walking
    <2>3. Pending' = Pending
          BY <2>1, <2>2 DEF Pending
    <2>4. Cardinality(Pending) <= nfds
          BY <2>1 DEF ReachInv
    <2>5. Reaches'
          BY <2>1, <2>2 DEF Reaches
    <2>6. QED
          BY <2>1, <2>3, <2>4, <2>5 DEF ReachInv
  <1>4. CASE SkipMarked \/ TimeoutsProcessed
        BY <1>4, GoOnReaches
  <1>5. CASE SkipNotReady \/ Call
        BY <1>5, FoundReaches
  <1>6. CASE \E keep \in BOOLEAN : Return(keep)
    <2>1. PICK keep \in BOOLEAN : Return(keep)
          BY <1>6
    <2>2. /\ UNCHANGED <<pollfds, nfds, fd_v_process, fd_processing, i, j, fd>>
          /\ mpc = "cb" /\ mpc' = "timeouts"
          /\ status' = status \/ status' = [status EXCEPT ![Current] = "marked"]
          BY <2>1 DEF Return, pollVars
    <2>3. \A h \in Handles : status'[h] = "live" => status[h] = "live"
          BY <2>2, Types
    <2>4. QED
          BY <2>2, <2>3, Types, ReachStill
  <1>7. CASE \E thread \in {"main", "other"} : Api(thread)
    <2>1. PICK thread \in {"main", "other"}, h \in Handles :
            \/ \E n \in Numbers, f \in SUBSET Events : sol_fd_add(thread, h, n, f)
            \/ sol_fd_del(thread, h)
            \/ \E f \in SUBSET Events : sol_fd_set_flags(thread, h, f)
          BY <1>7 DEF Api
    <2>2. UNCHANGED <<pollfds, nfds, fd_v_process, fd_processing, i, j, mpc>>
          BY <2>1 DEF sol_fd_add, sol_fd_del, sol_fd_set_flags, vectorVars, pollVars, walkVars
    <2>3. fd \in [Handles -> Numbers \cup {0}]
          BY DEF IInv, TypeOK
    <2>4. \A n \in 1..Len(fd_v_process) :
           /\ fd'[fd_v_process[n]] = fd[fd_v_process[n]]
           /\ status'[fd_v_process[n]] = "live" => status[fd_v_process[n]] = "live"
      <3>1. CASE \E n \in Numbers, f \in SUBSET Events : sol_fd_add(thread, h, n, f)
        <4>1. PICK n \in Numbers, f \in SUBSET Events : sol_fd_add(thread, h, n, f)
              BY <3>1
        <4>2. /\ status[h] = "free" /\ status' = [status EXCEPT ![h] = "live"]
              /\ fd' = [fd EXCEPT ![h] = n]
              BY <4>1 DEF sol_fd_add
        <4>3. QED
              BY <2>3, <4>2, Types
      <3>2. CASE sol_fd_del(thread, h)
        <4>1. CASE fd_processing
          <5>1. status' = [status EXCEPT ![h] = "marked"] /\ fd' = fd
                BY <3>2, <4>1 DEF sol_fd_del
          <5>2. QED
                BY <5>1, Types
        <4>2. CASE ~fd_processing
          <5>1. fd_v_process = <<>>
                BY <4>2 DEF IInv, CountInv
          <5>2. Len(fd_v_process) = 0
                BY <5>1
          <5>3. QED
                BY <5>2
        <4>3. QED
              BY <4>1, <4>2
      <3>3. CASE \E f \in SUBSET Events : sol_fd_set_flags(thread, h, f)
            BY <3>3 DEF sol_fd_set_flags
      <3>4. QED
            BY <2>1, <3>1, <3>2, <3>3
    <2>5. QED
          BY <2>2, <2>4, ReachStill
  <1>8. CASE sol_run \/ sol_quit \/ UNCHANGED vars
    <2>1. UNCHANGED <<pollfds, nfds, fd_v_process, fd_processing, i, j, mpc, status, fd>>
          BY <1>8 DEF sol_run, sol_quit, vars, handlerVars, vectorVars, pollVars, walkVars
    <2>2. QED
          BY <2>1, ReachStill
  <1>9. QED
        BY <1>1, <1>2, <1>3, <1>4, <1>5, <1>6, <1>7, <1>8 DEF Next, MainStep

\* A ready entry from j on is the one of a handler that was not visited yet.
LEMMA DueAhead ==
  ASSUME IInv, ReachInv, mpc = "walk", NEW k \in 1..Len(pollfds), k >= j, Due(k)
  PROVE  \E n \in 1..Len(fd_v_process) :
           n >= i /\ HasEntry(fd_v_process, pollfds, fd, n, k)
  <1>1. /\ status[pollfds[k].owner] = "live" /\ fd[pollfds[k].owner] = pollfds[k].fd
        BY DEF Due
  <1>2. PICK n \in 1..Len(fd_v_process) : fd_v_process[n] = pollfds[k].owner
        BY Types DEF Due
  <1>3. HasEntry(fd_v_process, pollfds, fd, n, k)
        BY <1>1, <1>2 DEF HasEntry
  <1>4. Reaches
        BY DEF ReachInv, IInv, PlaceInv, Walking
  <1>5. ~(k < j) /\ i \in Nat /\ Len(fd_v_process) \in Nat
    <2>1. k \in Int /\ j \in Int /\ i \in Nat /\ Len(fd_v_process) \in Nat
          BY Types DEF IInv, TypeOK, PlaceInv
    <2>2. QED
          BY <2>1
  <1>6. ~(n < i)
        BY <1>1, <1>2, <1>3, <1>4, <1>5 DEF Reaches
  <1>7. n >= i
        BY <1>5, <1>6
  <1>8. QED
        BY <1>3, <1>7

\* A handler is called for its own entry, and the walk passes no entry that is due.
LEMMA FoundIsDue ==
  ASSUME IInv, MatchInv, ReachInv, SkipNotReady \/ Call
  PROVE  /\ mpc' = "cb" => Call
         /\ j' - 1 = Min(Matching) /\ pollfds[j' - 1].owner = Current
         /\ \A k \in 1..Len(pollfds) : k >= j /\ k < j' /\ Due(k) => k = j' - 1 /\ mpc' = "cb"
  <1> DEFINE m == Min(Matching)
  <1>1. /\ mpc = "walk" /\ i <= Len(fd_v_process) /\ Matching # {} /\ j' = m + 1
        BY DEF SkipNotReady, Call, Goes
  <1>2. mpc' = "cb" \/ (mpc' = "walk" /\ pollfds[m].revents = {})
        BY DEF SkipNotReady, Call, Goes
  <1>3. mpc' = "cb" => Call
        BY <1>1 DEF SkipNotReady
  <1>4. /\ Len(pollfds) \in Nat /\ Len(fd_v_process) \in Nat /\ i \in Nat /\ j \in Nat
        BY Types DEF IInv, TypeOK, PlaceInv
  <1>5. i \in 1..Len(fd_v_process) /\ fd_processing
    <2>1. i >= 1 /\ fd_processing
          BY <1>1 DEF IInv, PlaceInv, Walking
    <2>2. QED
          BY <1>1, <1>4, <2>1
  <1>6. m \in 1..Len(pollfds)
        BY <1>1, FirstMatching
  <1>7. /\ pollfds[m].owner = Current
        /\ \A k \in 1..Len(pollfds) : pollfds[k].fd = fd[Current] => k = m
        /\ \A n \in 1..Len(fd_v_process), k \in 1..Len(pollfds) :
             n > i /\ HasEntry(fd_v_process, pollfds, fd, n, k) => k > m
        BY <1>1, <1>5, SearchFinds
  <1> HIDE DEF m
  <1>8. j' - 1 = m
        BY <1>1, <1>4, <1>6
  <1>9. ASSUME NEW k \in 1..Len(pollfds), k >= j, k < j', Due(k)
        PROVE  k = j' - 1 /\ mpc' = "cb"
    <2>1. PICK n \in 1..Len(fd_v_process) : n >= i /\ HasEntry(fd_v_process, pollfds, fd, n, k)
          BY <1>1, <1>9, DueAhead
    <2>2. ~(k > m)
          BY <1>1, <1>4, <1>6, <1>9
    <2>3. n = i
          BY <1>4, <1>7, <2>1, <2>2
    <2>4. k = m
          BY <1>7, <2>1, <2>3 DEF HasEntry, Current
    <2>5. pollfds[k].revents # {}
          BY <1>9 DEF Due
    <2>6. QED
          BY <1>2, <1>8, <2>4, <2>5
  <1>10. QED
         BY <1>3, <1>7, <1>8, <1>9 DEF m

\* The walk does not end with an entry that is due, unless the loop is to quit.
LEMMA EndLeavesNone ==
  ASSUME IInv, MatchInv, ReachInv, WalkEnds, run_loop,
         NEW k \in 1..Len(pollfds), k >= j, Due(k)
  PROVE  FALSE
  <1>1. mpc = "walk" /\ fd_processing
        BY DEF WalkEnds, IInv, PlaceInv, Walking
  <1>2. PICK n \in 1..Len(fd_v_process) : n >= i /\ HasEntry(fd_v_process, pollfds, fd, n, k)
        BY <1>1, DueAhead
  <1>3. /\ Len(pollfds) \in Nat /\ Len(fd_v_process) \in Nat /\ i \in Nat /\ nfds \in Nat /\ j \in Nat
        BY Types DEF IInv, TypeOK, PlaceInv
  <1>4. i \in 1..Len(fd_v_process)
    <2>1. i >= 1
          BY <1>1 DEF IInv, PlaceInv, Walking
    <2>2. QED
          BY <1>2, <1>3, <2>1
  <1>5. nfds > 0
    <2>1. Pending \subseteq 1..Len(pollfds) /\ Pending # {}
          BY DEF Pending, Due
    <2>2. IsFiniteSet(Pending) /\ Pending \in SUBSET Pending
          BY <1>3, <2>1, IndicesFinite
    <2>3. Cardinality(Pending) <= nfds
          BY <1>1 DEF ReachInv, Walking
    <2>4. QED
          BY <1>3, <2>1, <2>2, <2>3, FewerLeft
  <1>6. Goes
        BY <1>1, <1>3, <1>4, <1>5 DEF Goes
  <1>7. Matching = {}
        BY <1>6 DEF WalkEnds
  <1>8. \E l \in 1..Len(pollfds) : HasEntry(fd_v_process, pollfds, fd, i, l)
    <2>1. CASE n = i
          BY <1>2, <2>1
    <2>2. CASE i < n
          BY <1>1, <1>2, <1>4, <2>2 DEF MatchInv, Mapped, Maps
    <2>3. QED
          BY <1>2, <1>3, <2>1, <2>2
  <1>9. PICK l \in 1..Len(pollfds) : HasEntry(fd_v_process, pollfds, fd, i, l)
        BY <1>8
  <1>10. l >= j
         BY <1>1, <1>4, <1>9 DEF ReachInv, Reaches
  <1>11. l \in Matching
         BY <1>9, <1>10, Types DEF Matching, HasEntry, Current
  <1>12. QED
         BY <1>7, <1>11

\* The search by number calls each handler for what ppoll() found for it, and
\* passes over none that is ready, whatever threads and callbacks add and delete
\* meanwhile; provided that nobody closes a number and opens it again between
\* fd_prepare() and the walk.
THEOREM FoundByNumber ==
  ASSUME ~ReusedEarly
  PROVE  Spec => EventsReachTheirHandlers
  <1>1. Init => WalkInv
    <2> SUFFICES ASSUME Init PROVE WalkInv
        OBVIOUS
    <2>1. Len(pollfds) = 0 /\ ~fd_processing /\ mpc \notin Walking \cup {"polled"}
          BY DEF Init, Walking
    <2>2. QED
          BY <2>1 DEF WalkInv, MatchInv, ReachInv, Mapped, Maps, NumbersDiffer
  <1>2. IInv /\ WalkInv /\ [Next]_vars => WalkInv'
        BY MatchStep, ReachStep DEF WalkInv
  <1>3. ASSUME IInv, WalkInv, [Next]_vars
        PROVE  [mpc = "walk" =>
                  /\ mpc' = "cb" => pollfds[j' - 1].owner = Current
                  /\ run_loop /\ (mpc' = "outside" \/ j' > j) =>
                       \A k \in DOMAIN pollfds :
                         k >= j /\ (mpc' = "outside" \/ k < j') /\ Due(k) => mpc' = "cb" /\ k = j' - 1]_vars
    <2> SUFFICES ASSUME Next, mpc = "walk"
                 PROVE  /\ mpc' = "cb" => pollfds[j' - 1].owner = Current
                        /\ run_loop /\ (mpc' = "outside" \/ j' > j) =>
                             \A k \in 1..Len(pollfds) :
                               k >= j /\ (mpc' = "outside" \/ k < j') /\ Due(k) => mpc' = "cb" /\ k = j' - 1
        BY <1>3, Types
    <2>1. MatchInv /\ ReachInv
          BY <1>3 DEF WalkInv
    <2>2. j \in Int
          BY <1>3, Types DEF IInv, TypeOK
    <2>3. CASE SkipNotReady \/ Call
      <3>1. mpc' # "outside"
            BY <2>3 DEF SkipNotReady, Call, Goes
      <3>2. QED
            BY <1>3, <2>1, <2>3, <3>1, FoundIsDue
    <2>4. CASE WalkEnds
      <3>1. mpc' # "cb"
            BY <2>4 DEF WalkEnds
      <3>2. QED
            BY <1>3, <2>1, <2>4, <3>1, EndLeavesNone
    <2>5. CASE ~(SkipNotReady \/ Call \/ WalkEnds)
      <3>1. mpc' = "walk" /\ j' = j
            BY <2>5 DEF Next, MainStep, fd_prepare, PollEnds, PollReturns, Steal, SkipMarked,
               TimeoutsProcessed, Return, Api, sol_fd_add, sol_fd_del, sol_fd_set_flags,
               sol_run, sol_quit, Shutdown, Goes, walkVars
      <3>2. ~(j' > j)
            BY <2>2, <3>1
      <3>3. QED
            BY <3>1, <3>2
    <2>6. QED
          BY <2>3, <2>4, <2>5
  <1>4. QED
        BY <1>1, <1>2, <1>3, DescriptorsInvariant, PTL DEF Spec, EventsReachTheirHandlers

-----------------------------------------------------------------------------
(* The promise of the API.                                                 *)

\* The phases of the life of a handler, by its status.
LEMMA Phases ==
  ASSUME NEW h \in Handles, status \in [Handles -> Status]
  PROVE  /\ lifecycle_phase[h] = "live" <=> status[h] = "live"
         /\ lifecycle_phase[h] = "dead" <=> status[h] = "marked"
         /\ lifecycle_phase[h] = "free" <=> status[h] = "free"
  BY DEF lifecycle_phase, Status

\* The same, before and after a step.
LEMMA PhaseMap ==
  ASSUME status \in [Handles -> Status], status' \in [Handles -> Status]
  PROVE  /\ lifecycle_phase = [h \in Handles |-> IF status[h] = "marked" THEN "dead" ELSE status[h]]
         /\ lifecycle_phase' = [h \in Handles |-> IF status'[h] = "marked" THEN "dead" ELSE status'[h]]
  <1>1. \A h \in Handles : lifecycle_phase[h] = IF status[h] = "marked" THEN "dead" ELSE status[h]
        BY DEF lifecycle_phase, Status
  <1>2. \A h \in Handles : lifecycle_phase'[h] = IF status'[h] = "marked" THEN "dead" ELSE status'[h]
        BY DEF lifecycle_phase, Status
  <1>3. lifecycle_phase \in [Handles -> {"free", "live", "dead"}]
        BY DEF lifecycle_phase, Status
  <1>4. lifecycle_phase' \in [Handles -> {"free", "live", "dead"}]
        BY DEF lifecycle_phase, Status
  <1>5. QED
        BY <1>1, <1>2, <1>3, <1>4

\* A step that changes no status, and calls nothing, is not seen.
LEMMA Unseen ==
  ASSUME status' = status, Running' = Running
  PROVE  UNCHANGED Lifecycle!lifecycleVars
  BY DEF Lifecycle!lifecycleVars, lifecycle_phase

\* sol_fd_del() marks during a walk and frees at once otherwise.
LEMMA DelStep ==
  ASSUME IInv, NEW thread \in {"main", "other"}, NEW h \in Handles, sol_fd_del(thread, h)
  PROVE  Lifecycle!Del(h)
  <1>1. status \in [Handles -> Status] /\ status[h] = "live"
        BY Types DEF sol_fd_del
  <1>2. Running' = Running
        BY DEF sol_fd_del, walkVars, Running, Current
  <1>3. PICK S \in SUBSET {h} :
          /\ Running \notin S
          /\ status' = [k \in Handles |-> IF k \in S THEN "free"
                                          ELSE IF k = h THEN "marked" ELSE status[k]]
    <2>1. CASE fd_processing
      <3>1. status' = [status EXCEPT ![h] = "marked"]
            BY <2>1 DEF sol_fd_del
      <3>2. status' = [k \in Handles |-> IF k \in {} THEN "free"
                                         ELSE IF k = h THEN "marked" ELSE status[k]]
            BY <1>1, <3>1
      <3>3. {} \in SUBSET {h} /\ Running \notin {}
            OBVIOUS
      <3>4. QED
            BY <3>2, <3>3
    <2>2. CASE ~fd_processing
      <3>1. status' = [status EXCEPT ![h] = "free"]
            BY <2>2, DelFrees
      <3>2. status' = [k \in Handles |-> IF k \in {h} THEN "free"
                                         ELSE IF k = h THEN "marked" ELSE status[k]]
            BY <1>1, <3>1
      <3>3. Running \notin {h}
            BY <2>2, DescriptorsAssumption DEF IInv, PlaceInv, Walking, Running
      <3>4. QED
            BY <3>2, <3>3
    <2>3. QED
          BY <2>1, <2>2
  <1>4. S \in SUBSET {k \in Handles : lifecycle_phase[k] = "dead" \/ k = h}
        BY <1>3
  <1>5. lifecycle_phase' = [k \in Handles |-> IF k \in S THEN "free"
                                              ELSE IF k = h THEN "dead" ELSE lifecycle_phase[k]]
    <2>1. status' \in [Handles -> Status]
          BY <1>1, <1>3 DEF Status
    <2>2. QED
          BY <1>1, <1>3, <2>1, PhaseMap
  <1>6. lifecycle_phase[h] = "live"
        BY <1>1, Phases
  <1>7. QED
        BY <1>2, <1>3, <1>4, <1>5, <1>6 DEF Lifecycle!Del

\* The end of the walk frees what is marked, and nothing else.
LEMMA EndStep ==
  ASSUME IInv, WalkEnds
  PROVE  [Lifecycle!LNext]_(Lifecycle!lifecycleVars)
  <1>1. status' = [h \in Handles |-> IF status[h] = "marked" THEN "free" ELSE status[h]]
        BY EndSweeps
  <1>2. status \in [Handles -> Status]
        BY Types
  <1>3. Running = NoHandle /\ Running' = NoHandle
        BY DEF WalkEnds, Running
  <1>4. CASE Marked = {}
    <2>1. status' = status
          BY <1>1, <1>2, <1>4 DEF Marked
    <2>2. QED
          BY <1>3, <2>1, Unseen
  <1>5. CASE Marked # {}
    <2>1. \A h \in Marked : lifecycle_phase[h] = "dead"
          BY <1>2, Phases DEF Marked
    <2>2. lifecycle_phase' = [h \in Handles |-> IF h \in Marked THEN "free" ELSE lifecycle_phase[h]]
      <3>1. status' \in [Handles -> Status]
            BY <1>1, <1>2 DEF Status
      <3>2. QED
            BY <1>1, <1>2, <3>1, PhaseMap DEF Marked
    <2>3. NoHandle \notin Marked /\ Marked \in SUBSET Handles
          BY DescriptorsAssumption DEF Marked
    <2>4. Lifecycle!Free(Marked)
          BY <1>3, <1>5, <2>1, <2>2, <2>3 DEF Lifecycle!Free
    <2>5. QED
          BY <2>3, <2>4 DEF Lifecycle!LNext
  <1>6. QED
        BY <1>4, <1>5

\* A callback is called on a live handler, and returns before that is freed.
LEMMA CallStep ==
  ASSUME IInv, Call \/ \E keep \in BOOLEAN : Return(keep)
  PROVE  [Lifecycle!LNext]_(Lifecycle!lifecycleVars)
  <1>1. status \in [Handles -> Status]
        BY Types
  <1>2. i \in 1..Len(fd_v_process)
    <2>1. CASE Call
      <3>1. i \in Nat /\ i >= 1 /\ i <= Len(fd_v_process) /\ Len(fd_v_process) \in Nat
            BY <2>1, Types DEF Call, Goes, IInv, PlaceInv, Walking
      <3>2. QED
            BY <3>1
    <2>2. CASE ~Call
          BY <2>2 DEF Return, IInv, PlaceInv
    <2>3. QED
          BY <2>1, <2>2
  <1>3. Current \in Handles /\ status[Current] # "free" /\ Current # NoHandle
        BY <1>2, Types, DescriptorsAssumption DEF Current
  <1>4. CASE Call
    <2>1. /\ status' = status /\ status[Current] = "live" /\ Running = NoHandle /\ Running' = Current
          BY <1>1, <1>3, <1>4 DEF Call, Goes, handlerVars, vectorVars, Running, Current, Status
    <2>2. lifecycle_phase' = lifecycle_phase /\ lifecycle_phase[Current] = "live"
          BY <1>1, <1>3, <2>1, Phases DEF lifecycle_phase
    <2>3. Lifecycle!Start(Current)
          BY <2>1, <2>2 DEF Lifecycle!Start
    <2>4. QED
          BY <1>3, <2>3 DEF Lifecycle!LNext
  <1>5. CASE \E keep \in BOOLEAN : Return(keep)
    <2>1. PICK keep \in BOOLEAN : Return(keep)
          BY <1>5
    <2>2. Running = Current /\ Running # NoHandle /\ Running' = NoHandle
          BY <1>3, <2>1 DEF Return, Running
    <2>3. CASE keep \/ status[Current] = "marked"
      <3>1. lifecycle_phase' = lifecycle_phase
        <4>1. status' = status
              BY <2>1, <2>3 DEF Return
        <4>2. QED
              BY <4>1 DEF lifecycle_phase
      <3>2. Lifecycle!Finish(TRUE)
            BY <2>2, <3>1 DEF Lifecycle!Finish
      <3>3. QED
            BY <3>2 DEF Lifecycle!LNext
    <2>4. CASE ~(keep \/ status[Current] = "marked")
      <3>1. status' = [status EXCEPT ![Current] = "marked"]
            BY <2>1, <2>4 DEF Return
      <3>2. lifecycle_phase' = [lifecycle_phase EXCEPT ![Current] = "dead"]
        <4>1. status' \in [Handles -> Status]
              BY <1>1, <3>1 DEF Status
        <4>2. QED
              BY <1>1, <1>3, <3>1, <4>1, PhaseMap
      <3>3. Lifecycle!Finish(FALSE)
            BY <2>2, <3>2 DEF Lifecycle!Finish
      <3>4. QED
            BY <3>3 DEF Lifecycle!LNext
    <2>5. QED
          BY <2>3, <2>4
  <1>6. QED
        BY <1>4, <1>5

\* The handlers of descriptors keep what sol_fd_add() and sol_fd_del() promise,
\* with calls from every thread: every step of fd_process(), of its sweep and of
\* the API is a step of HandlerLifecycle, or is not seen by it.
THEOREM Refinement == Spec => ImplementsLifecycle
  <1>1. Init => Lifecycle!LInit
        BY DEF Init, Lifecycle!LInit, lifecycle_phase, Running
  <1>2. ASSUME IInv, [Next]_vars
        PROVE  [Lifecycle!LNext]_(Lifecycle!lifecycleVars)
    <2>1. status \in [Handles -> Status]
          BY <1>2, Types
    <2>2. CASE UNCHANGED vars \/ sol_run \/ sol_quit \/ fd_prepare \/ PollEnds \/ Steal \/ SkipMarked
                 \/ SkipNotReady \/ TimeoutsProcessed
      <3>1. status' = status /\ Running' = Running
            BY <2>2 DEF vars, sol_run, sol_quit, fd_prepare, PollEnds, PollReturns, Steal, SkipMarked,
               SkipNotReady, TimeoutsProcessed, Goes, handlerVars, vectorVars, walkVars, Running, Current
      <3>2. QED
            BY <3>1, Unseen
    <2>3. CASE Call \/ \E keep \in BOOLEAN : Return(keep)
          BY <1>2, <2>3, CallStep
    <2>4. CASE WalkEnds
          BY <1>2, <2>4, EndStep
    <2>5. CASE \E thread \in {"main", "other"} : Api(thread)
      <3>1. PICK thread \in {"main", "other"}, h \in Handles :
              \/ \E n \in Numbers, f \in SUBSET Events : sol_fd_add(thread, h, n, f)
              \/ sol_fd_del(thread, h)
              \/ \E f \in SUBSET Events : sol_fd_set_flags(thread, h, f)
            BY <2>5 DEF Api
      <3>2. CASE \E n \in Numbers, f \in SUBSET Events : sol_fd_add(thread, h, n, f)
        <4>1. /\ status[h] = "free" /\ status' = [status EXCEPT ![h] = "live"] /\ Running' = Running
              BY <3>2 DEF sol_fd_add, walkVars, Running, Current
        <4>2. lifecycle_phase' = [lifecycle_phase EXCEPT ![h] = "live"]
          <5>1. status' \in [Handles -> Status]
                BY <2>1, <4>1 DEF Status
          <5>2. QED
                BY <2>1, <4>1, <5>1, PhaseMap
        <4>3. Lifecycle!Add(h)
              BY <2>1, <4>1, <4>2, Phases DEF Lifecycle!Add
        <4>4. QED
              BY <4>3 DEF Lifecycle!LNext
      <3>3. CASE sol_fd_del(thread, h)
        <4>1. Lifecycle!Del(h)
              BY <1>2, <3>3, DelStep
        <4>2. QED
              BY <4>1 DEF Lifecycle!LNext
      <3>4. CASE \E f \in SUBSET Events : sol_fd_set_flags(thread, h, f)
        <4>1. status' = status /\ Running' = Running
              BY <3>4 DEF sol_fd_set_flags, vectorVars, walkVars, Running, Current
        <4>2. QED
              BY <4>1, Unseen
      <3>5. QED
            BY <3>1, <3>2, <3>3, <3>4
    <2>6. CASE Shutdown
      <3>1. status' = [h \in Handles |-> "free"] /\ Running = NoHandle /\ Running' = NoHandle
            BY <2>6 DEF Shutdown, Running
      <3>2. lifecycle_phase' = [h \in Handles |-> "free"]
            BY <3>1 DEF lifecycle_phase
      <3>3. Lifecycle!Shutdown
            BY <3>1, <3>2 DEF Lifecycle!Shutdown
      <3>4. QED
            BY <3>3 DEF Lifecycle!LNext
    <2>7. QED
          BY <1>2, <2>2, <2>3, <2>4, <2>5, <2>6 DEF Next, MainStep
  <1>3. QED
        BY <1>1, <1>2, DescriptorsInvariant, PTL DEF Spec, ImplementsLifecycle, Lifecycle!LSpec
=============================================================================
