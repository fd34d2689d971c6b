---------------------------- MODULE Descriptors -----------------------------
(***************************************************************************)
(* The descriptor handlers of sol-mainloop-impl-posix.c in the build with  *)
(* threads: sol_fd_add(), sol_fd_del() and sol_fd_set_flags(), called on   *)
(* any thread, against fd_process(), which polls a table of numbers it has *)
(* prepared earlier and afterwards looks for the handlers by number.       *)
(*                                                                         *)
(* A section under ml_lock is one step.  Callers respect the contract of   *)
(* the API: a handle is deleted once, and not after its callback returned  *)
(* FALSE; no two live handlers have the same number.  That a thread's      *)
(* notification ends the sleep is what MainLoopWakeup shows.               *)
(***************************************************************************)
EXTENDS Vector, FiniteSets, FiniteSetsExt

CONSTANTS
  Handles,      \* addresses of struct sol_fd_posix
  NoHandle,
  Numbers,      \* descriptor numbers
  Events,       \* what can be asked for: POLLIN, POLLOUT, ...
  ReusedEarly,  \* may a number be closed and opened again between fd_prepare()
                \* and the walk over the handlers?
  ChangedLate   \* does the get_next_timeout() of a source, which is called after
                \* fd_prepare(), add handlers or change their flags?

ASSUME DescriptorsAssumption ==
  /\ IsFiniteSet(Handles) /\ NoHandle \notin Handles
  /\ "nval" \notin Events
  /\ ReusedEarly \in BOOLEAN /\ ChangedLate \in BOOLEAN

VARIABLES
  status,              \* "free", "live" or "marked" (remove_me is set)
  fd, flags,           \* of each handler
  fd_vector,           \* FD_ACUM
  fd_v_process,        \* FD_PROCESS
  fd_pending_deletion,
  fd_processing,
  fd_changed,
  pollfds,             \* the first pollfds_used entries; owner: the handler an
                       \* entry was made for (history)
  nfds,
  run_loop,
  mpc,                 \* where the main thread is in fd_process()
  i, j,                \* its indices into fd_v_process and pollfds
  notified             \* a thread has asked for the sleep to end

vars == <<status, fd, flags, fd_vector, fd_v_process, fd_pending_deletion, fd_processing,
          fd_changed, pollfds, nfds, run_loop, mpc, i, j, notified>>
handlerVars == <<status, fd, flags>>
vectorVars == <<fd_vector, fd_v_process, fd_pending_deletion, fd_processing>>
pollVars == <<pollfds, nfds>>
walkVars == <<mpc, i, j>>

Init ==
  /\ status = [h \in Handles |-> "free"]
  /\ fd = [h \in Handles |-> 0]
  /\ flags = [h \in Handles |-> {}]
  /\ fd_vector = <<>> /\ fd_v_process = <<>>
  /\ fd_pending_deletion = 0 /\ fd_processing = FALSE
  /\ fd_changed = FALSE
  /\ pollfds = <<>> /\ nfds = 0
  /\ run_loop = FALSE
  /\ mpc = "outside" /\ i = 0 /\ j = 0
  /\ notified = FALSE

Live == {h \in Handles : status[h] = "live"}

\* Code of the application runs on the main thread: outside of fd_process(), in
\* the get_next_timeout() of a source, in a handler, and in the timeouts that are
\* processed after every handler.
InUserCode == mpc \in {"outside", "prepared", "cb", "timeouts"}

\* A call made on the main thread or on another one.  Only other threads
\* notify (sol_mainloop_common_main_thread_check_notify()); what is left of a
\* notification that finds nobody asleep is an early return of the next ppoll().
CallFrom(thread) == thread = "main" => InUserCode
MayChange(thread) == CallFrom(thread) /\ (thread = "main" /\ mpc = "prepared" => ChangedLate)
Notify(thread) == notified' = (notified \/ (thread = "other" /\ mpc = "prepared"))

-----------------------------------------------------------------------------
(* fd_cleanup() and the API.                                               *)

\* fd_cleanup(): walks vector v backwards and frees what st marks, until n
\* deletions are done.
fd_cleanup(v, st, n) ==
  LET marked == {k \in DOMAIN v : st[v[k]] = "marked"}
      victims == {v[k] : k \in {x \in marked : Cardinality({y \in marked : y > x}) < n}}
  IN
  /\ fd_vector' = Kept(v, {k \in DOMAIN v : v[k] \notin victims})
  /\ fd_pending_deletion' = n - Cardinality(victims)
  /\ status' = [h \in Handles |-> IF h \in victims THEN "free" ELSE st[h]]
  /\ fd' = [h \in Handles |-> IF h \in victims THEN 0 ELSE fd[h]]
  /\ flags' = [h \in Handles |-> IF h \in victims THEN {} ELSE flags[h]]

\* The table is prepared, and the walk over the handlers has not begun.
InWindow == mpc \in {"prepared", "polled"}

MayOpen(n) ==
  /\ \A h \in Live : fd[h] # n
  /\ ReusedEarly \/ ~(InWindow /\ \E k \in DOMAIN pollfds : pollfds[k].fd = n)

\* Mutant of sol_fd_add: the table of numbers is not made anew.
MutAddNotPolled(thread, h, n, f) ==
  /\ MayChange(thread) /\ status[h] = "free" /\ MayOpen(n)
  /\ status' = [status EXCEPT ![h] = "live"]
  /\ fd' = [fd EXCEPT ![h] = n]
  /\ flags' = [flags EXCEPT ![h] = f]
  /\ fd_vector' = Append(fd_vector, h)
  /\ Notify(thread)
  /\ UNCHANGED <<fd_v_process, fd_pending_deletion, fd_processing, fd_changed, pollVars, run_loop,
                 walkVars>>

\* Mutant of sol_fd_add: the walk finds what is added while it goes on.
MutAddToWalk(thread, h, n, f) ==
  /\ MayChange(thread) /\ status[h] = "free" /\ MayOpen(n)
  /\ status' = [status EXCEPT ![h] = "live"]
  /\ fd' = [fd EXCEPT ![h] = n]
  /\ flags' = [flags EXCEPT ![h] = f]
  /\ IF fd_processing
     THEN fd_v_process' = Append(fd_v_process, h) /\ UNCHANGED fd_vector
     ELSE fd_vector' = Append(fd_vector, h) /\ UNCHANGED fd_v_process
  /\ fd_changed' = TRUE
  /\ Notify(thread)
  /\ UNCHANGED <<fd_pending_deletion, fd_processing, pollVars, run_loop, walkVars>>

sol_fd_add(thread, h, n, f) ==
  /\ MayChange(thread) /\ status[h] = "free" /\ MayOpen(n)
  /\ status' = [status EXCEPT ![h] = "live"]
  /\ fd' = [fd EXCEPT ![h] = n]
  /\ flags' = [flags EXCEPT ![h] = f]
  /\ fd_vector' = Append(fd_vector, h)
  /\ fd_changed' = TRUE
  /\ Notify(thread)
  /\ UNCHANGED <<fd_v_process, fd_pending_deletion, fd_processing, pollVars, run_loop, walkVars>>

\* Mutant of sol_fd_del: frees at once, even while the handlers are walked over.
MutDelFreesAlways(thread, h) ==
  /\ CallFrom(thread) /\ status[h] = "live"
  /\ status' = [status EXCEPT ![h] = "free"]
  /\ fd' = [fd EXCEPT ![h] = 0]
  /\ flags' = [flags EXCEPT ![h] = {}]
  /\ fd_vector' = Kept(fd_vector, {k \in DOMAIN fd_vector : fd_vector[k] # h})
  /\ fd_changed' = TRUE
  /\ UNCHANGED <<fd_v_process, fd_processing, fd_pending_deletion, pollVars, run_loop, walkVars, notified>>

\* Nobody is notified of a deletion: ppoll() goes on with the old number.
sol_fd_del(thread, h) ==
  /\ CallFrom(thread) /\ status[h] = "live"
  /\ fd_changed' = TRUE
  /\ LET st == [status EXCEPT ![h] = "marked"]
         n == fd_pending_deletion + 1
     IN  IF fd_processing
         THEN /\ status' = st
              /\ fd_pending_deletion' = n
              /\ UNCHANGED <<fd, flags, fd_vector>>
         ELSE fd_cleanup(fd_vector, st, n)
  /\ UNCHANGED <<fd_v_process, fd_processing, pollVars, run_loop, walkVars, notified>>

\* sol_fd_add_flags() and sol_fd_remove_flags() read the flags without the lock
\* and may call this with any outcome of that.
sol_fd_set_flags(thread, h, f) ==
  /\ MayChange(thread) /\ status[h] = "live" /\ f # flags[h]
  /\ flags' = [flags EXCEPT ![h] = f]
  /\ fd_changed' = TRUE
  /\ Notify(thread)
  /\ UNCHANGED <<status, fd, vectorVars, pollVars, run_loop, walkVars>>

-----------------------------------------------------------------------------
(* fd_process().                                                           *)

Entry(h) == [fd |-> fd[h], events |-> flags[h], revents |-> {}, owner |-> h]

\* fd_prepare(), if the loop has not been told to quit: the table is made anew
\* if anything has changed.
fd_prepare ==
  LET kept == Kept(fd_vector, {k \in DOMAIN fd_vector : status[fd_vector[k]] # "marked"})
  IN
  /\ mpc = "outside" /\ run_loop
  /\ mpc' = "prepared"
  /\ pollfds' = IF fd_changed THEN [k \in DOMAIN kept |-> Entry(kept[k])] ELSE pollfds
  /\ fd_changed' = FALSE
  /\ UNCHANGED <<handlerVars, vectorVars, nfds, run_loop, i, j, notified>>

\* What ppoll() may find for an entry: any part of what is asked for.  A number
\* that was closed is invalid.
Found(e) ==
  IF \E h \in Live : fd[h] = e.fd THEN SUBSET e.events ELSE {{}, {"nval"}}

\* ppoll() returns: something is ready, a thread has notified, or there was a
\* timeout or a signal.
PollReturns(revents) ==
  /\ mpc = "prepared"
  /\ \A k \in DOMAIN pollfds : revents[k] \in Found(pollfds[k])
  /\ pollfds' = [k \in DOMAIN pollfds |-> [pollfds[k] EXCEPT !.revents = revents[k]]]
  /\ nfds' = Cardinality({k \in DOMAIN pollfds : revents[k] # {}})
  /\ notified' = FALSE
  /\ mpc' = "polled"
  /\ UNCHANGED <<handlerVars, vectorVars, fd_changed, run_loop, i, j>>

PollEnds == \E revents \in [DOMAIN pollfds -> (SUBSET Events) \cup {{"nval"}}] : PollReturns(revents)

\* The vector is stolen.
Steal ==
  /\ mpc = "polled"
  /\ fd_v_process' = fd_vector
  /\ fd_vector' = <<>>
  /\ fd_processing' = TRUE
  /\ mpc' = "walk" /\ i' = 1 /\ j' = 1
  /\ UNCHANGED <<handlerVars, fd_pending_deletion, fd_changed, pollVars, run_loop, notified>>

Goes == mpc = "walk" /\ i <= Len(fd_v_process) /\ run_loop /\ nfds > 0
Current == fd_v_process[i]

\* The entries from index j on with the number of the handler.
Matching == {k \in DOMAIN pollfds : k >= j /\ pollfds[k].fd = fd[Current]}

SkipMarked ==
  /\ Goes /\ status[Current] = "marked"
  /\ i' = i + 1
  /\ UNCHANGED <<handlerVars, vectorVars, fd_changed, pollVars, run_loop, mpc, j, notified>>

SkipNotReady ==
  /\ Goes /\ status[Current] # "marked" /\ Matching # {}
  /\ pollfds[Min(Matching)].revents = {}
  /\ i' = i + 1 /\ j' = Min(Matching) + 1
  /\ UNCHANGED <<handlerVars, vectorVars, fd_changed, pollVars, run_loop, mpc, notified>>

Call ==
  /\ Goes /\ status[Current] # "marked" /\ Matching # {}
  /\ pollfds[Min(Matching)].revents # {}
  /\ j' = Min(Matching) + 1
  /\ nfds' = nfds - 1
  /\ mpc' = "cb"
  /\ UNCHANGED <<handlerVars, vectorVars, fd_changed, pollfds, run_loop, i, notified>>

\* The callback returns; FALSE deletes the handler, if it is not deleted yet.
Return(keep) ==
  /\ mpc = "cb"
  /\ IF keep \/ status[Current] = "marked"
     THEN UNCHANGED <<status, fd_pending_deletion, fd_changed>>
     ELSE /\ status' = [status EXCEPT ![Current] = "marked"]
          /\ fd_pending_deletion' = fd_pending_deletion + 1
          /\ fd_changed' = TRUE
  /\ mpc' = "timeouts"
  /\ UNCHANGED <<fd, flags, fd_vector, fd_v_process, fd_processing, pollVars, run_loop, i, j, notified>>

\* sol_mainloop_common_timeout_process()
TimeoutsProcessed ==
  /\ mpc = "timeouts"
  /\ mpc' = "walk" /\ i' = i + 1
  /\ UNCHANGED <<handlerVars, vectorVars, fd_changed, pollVars, run_loop, j, notified>>

\* The walk is over: all visited, quit, nothing left that is ready, or a handler
\* without an entry in the rest of the table.
WalkEnds ==
  /\ mpc = "walk"
  /\ Goes => (status[Current] # "marked" /\ Matching = {})
  /\ fd_v_process' = <<>>
  /\ fd_processing' = FALSE
  /\ fd_cleanup(fd_vector \o fd_v_process, status, fd_pending_deletion)
  /\ mpc' = "outside" /\ i' = 0 /\ j' = 0
  /\ nfds' = 0
  /\ pollfds' = [k \in DOMAIN pollfds |-> [pollfds[k] EXCEPT !.revents = {}]]
  /\ UNCHANGED <<fd_changed, run_loop, notified>>

-----------------------------------------------------------------------------
sol_run ==
  /\ mpc = "outside" /\ ~run_loop
  /\ run_loop' = TRUE
  /\ UNCHANGED <<handlerVars, vectorVars, fd_changed, pollVars, walkVars, notified>>

sol_quit ==
  /\ run_loop
  /\ run_loop' = FALSE
  /\ UNCHANGED <<handlerVars, vectorVars, fd_changed, pollVars, walkVars, notified>>

\* sol_mainloop_impl_platform_shutdown(); threads have finished by then.
Shutdown ==
  /\ mpc = "outside" /\ ~run_loop
  /\ status' = [h \in Handles |-> "free"]
  /\ fd' = [h \in Handles |-> 0] /\ flags' = [h \in Handles |-> {}]
  /\ fd_vector' = <<>>
  /\ pollfds' = <<>>
  /\ mpc' = "down"
  /\ UNCHANGED <<fd_v_process, fd_pending_deletion, fd_processing, fd_changed, nfds, run_loop,
                 i, j, notified>>

MainStep ==
  fd_prepare \/ PollEnds \/ Steal \/ SkipMarked \/ SkipNotReady \/ Call \/ TimeoutsProcessed \/ WalkEnds

Api(thread) ==
  /\ mpc # "down"
  /\ \E h \in Handles :
       \/ \E n \in Numbers, f \in SUBSET Events : sol_fd_add(thread, h, n, f)
       \/ sol_fd_del(thread, h)
       \/ \E f \in SUBSET Events : sol_fd_set_flags(thread, h, f)

Next ==
  \/ MainStep
  \/ \E keep \in BOOLEAN : Return(keep)
  \/ \E thread \in {"main", "other"} : Api(thread)
  \/ sol_run \/ sol_quit \/ Shutdown

Spec == Init /\ [][Next]_vars

-----------------------------------------------------------------------------
(* Properties.                                                             *)

\* Type invariant.
TypeOK ==
  /\ status \in [Handles -> {"free", "live", "marked"}]
  /\ fd \in [Handles -> Numbers \cup {0}] /\ flags \in [Handles -> SUBSET Events]
  /\ fd_vector \in Seq(Handles) /\ fd_v_process \in Seq(Handles)
  /\ fd_pending_deletion \in 0..Cardinality(Handles)
  /\ fd_processing \in BOOLEAN /\ fd_changed \in BOOLEAN /\ run_loop \in BOOLEAN
  /\ nfds \in 0..Len(pollfds) /\ j \in 0..(Len(pollfds) + 1)
  /\ notified \in BOOLEAN

Running == IF mpc = "cb" THEN Current ELSE NoHandle

\* Ready for what it asked for, and still among the handlers that are walked over.
Due(k) ==
  LET e == pollfds[k] IN
  /\ e.revents # {} /\ status[e.owner] = "live" /\ fd[e.owner] = e.fd
  /\ \E n \in DOMAIN fd_v_process : fd_v_process[n] = e.owner

\* The search by number in fd_process() is never misled: a handler is called for
\* what ppoll() has found for it, not for what it found for a handler that is
\* gone, and none that is ready is passed over, unless the loop is told to quit;
\* whatever other threads and callbacks add and delete, and though callbacks
\* close numbers and open them again.
EventsReachTheirHandlers ==
  [][mpc = "walk" =>
       /\ mpc' = "cb" => pollfds[j' - 1].owner = Current
       /\ run_loop /\ (mpc' = "outside" \/ j' > j) =>
            \A k \in DOMAIN pollfds :
              k >= j /\ (mpc' = "outside" \/ k < j') /\ Due(k) => mpc' = "cb" /\ k = j' - 1]_vars

\* The loop does not sleep over a descriptor: whatever is added or changed, before
\* or during the sleep, is in the table that ppoll() was given, with the flags as
\* they are now, or the sleep ends.
NoDescriptorOverslept ==
  /\ TypeOK
  /\ mpc = "prepared" /\ ~notified =>
       \A h \in Live : \E k \in DOMAIN pollfds :
         pollfds[k].owner = h /\ pollfds[k].fd = fd[h] /\ pollfds[k].events = flags[h]

lifecycle_phase == [h \in Handles |-> CASE status[h] = "live" -> "live"
                                        [] status[h] = "marked" -> "dead"
                                        [] status[h] = "free" -> "free"]

Lifecycle == INSTANCE HandlerLifecycle WITH
  phase <- lifecycle_phase, running <- Running

\* The handlers of descriptors implement the life cycle that the API promises,
\* with deletions from every thread.
ImplementsLifecycle == Lifecycle!LSpec
=============================================================================
