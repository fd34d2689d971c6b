------------------------------ MODULE Sources -------------------------------
(***************************************************************************)
(* The sources of events of sol-mainloop-common.c in the build with        *)
(* threads, and the part of fd_process() that walks over them: in every    *)
(* iteration all sources are asked to prepare, for their next timeout,     *)
(* after ppoll() to check, and those that are ready are dispatched.        *)
(*                                                                         *)
(* A section under ml_lock is one step.  Unlike the sweep of the other     *)
(* handlers, source_cleanup() gives the lock away around dispose(), in the *)
(* middle of its walk, and dispose() may call the API again.  The sweeps a *)
(* thread is in are the frames of sweeps[t], the innermost one last.       *)
(*                                                                         *)
(* Callers respect the contract of the API: a handle is deleted once.      *)
(* Dispose callbacks do not call the API in sol_shutdown().                *)
(***************************************************************************)
EXTENDS MainLoop, Vector, FiniteSets, FiniteSetsExt

CONSTANTS
  Handles,         \* addresses of struct sol_mainloop_source_common
  OtherThreads,
  OtherThreadsDel, \* do they call sol_mainloop_del_source()?
  MaxNesting       \* how deep deletions in dispose() nest: with 2, the dispose()
                   \* of a source that dispose() deleted deletes none itself

ASSUME SourcesAssumption ==
  /\ IsFiniteSet(Handles) /\ MainThread \notin OtherThreads
  /\ OtherThreadsDel \in BOOLEAN /\ MaxNesting \in Nat \ {0}

Threads == {MainThread} \cup OtherThreads

VARIABLES
  status,                 \* "free", "live", "marked" (remove_me is set) or
                          \* "disposed" (out of the vector, in dispose())
  ready,
  source_vector,          \* SOURCE_ACUM
  source_v_process,       \* SOURCE_PROCESS
  source_pending_deletion,
  source_processing,
  sources_ready,          \* what the walks of this iteration have returned
  mpc,                    \* where the main thread is in fd_process()
  at,                     \* the index of its walk over source_v_process
  sweeps,                 \* per thread: the sweeps that are in dispose()
  owed,                   \* history: sources that said in this iteration they
                          \* are ready, and were neither dispatched nor deleted
  strayed                 \* a sweep has read beyond the end of the vector

vars == <<status, ready, source_vector, source_v_process, source_pending_deletion,
          source_processing, run_loop, sources_ready, mpc, at, sweeps, owed, strayed>>
vectorVars == <<source_vector, source_v_process>>
walkVars == <<source_v_process, source_processing, sources_ready, mpc, at>>

Passes == {"prepare", "timeout", "check", "dispatch"}

\* Where fd_process() goes on after each walk.
After(p) == CASE p = "prepare" -> "prepared"
              [] p = "timeout" -> "polling"
              [] p = "check" -> "checked"
              [] p = "dispatch" -> "outside"

\* mpc is <<"walk", p>> between two sources of pass p, <<"cb", p>> in a
\* callback of it and <<"sweep", p>> in its source_cleanup().
At(where, p) == <<where, p>>
Between(where) == <<where, "none">>

Init ==
  /\ status = [s \in Handles |-> "free"]
  /\ ready = [s \in Handles |-> FALSE]
  /\ source_vector = <<>> /\ source_v_process = <<>>
  /\ source_pending_deletion = 0 /\ source_processing = FALSE
  /\ run_loop = FALSE /\ sources_ready = FALSE
  /\ mpc = Between("outside") /\ at = 0
  /\ sweeps = [t \in Threads |-> <<>>]
  /\ owed = {} /\ strayed = FALSE

-----------------------------------------------------------------------------
(* source_cleanup().                                                       *)

InDispose(t) == sweeps[t] # <<>>
Innermost(t) == sweeps[t][Len(sweeps[t])]
Popped(t) == SubSeq(sweeps[t], 1, Len(sweeps[t]) - 1)

\* The end of a sweep: sol_mainloop_del_source() returns, or the pass is over.
SweepEnds(t, below, pass) ==
  /\ sweeps' = [sweeps EXCEPT ![t] = below]
  /\ IF pass = "none" THEN UNCHANGED <<source_processing, mpc, at>>
     ELSE /\ source_processing' = FALSE
          /\ mpc' = Between(After(pass))
          /\ at' = 0

\* The walk backwards over vector v, from index i on, of thread t, with n
\* deletions pending and the statuses st; below are the sweeps it is nested in,
\* and pass is the pass it ends, or "none".  It stops at the first source to delete,
\* takes it out of the vector and releases the lock for dispose().
source_cleanup(t, below, pass, v, st, n, i) ==
  LET marked == {k \in 1..i : k <= Len(v) /\ st[v[k]] = "marked"}
      k == Max(marked)
  IN
  /\ source_pending_deletion' = n
  /\ IF n = 0 \/ (i <= Len(v) /\ marked = {})
     THEN /\ source_vector' = v
          /\ status' = st
          /\ SweepEnds(t, below, pass)
          /\ UNCHANGED strayed
     ELSE IF i > Len(v)
     THEN /\ strayed' = TRUE
          /\ source_vector' = v
          /\ status' = st
          /\ UNCHANGED <<sweeps, source_processing, mpc, at>>
     ELSE /\ source_vector' = sol_vector_del(v, k)
          /\ status' = [st EXCEPT ![v[k]] = "disposed"]
          /\ sweeps' = [sweeps EXCEPT ![t] = Append(below, [source |-> v[k], next |-> k - 1, pass |-> pass])]
          /\ IF pass = "none" THEN UNCHANGED mpc ELSE mpc' = At("sweep", pass)
          /\ UNCHANGED <<source_processing, at, strayed>>

\* Mutant of DisposeReturns: the walk goes on from the end of the vector as it
\* was when the source was taken out.
MutIndexNotMoved(t) ==
  LET f == Innermost(t) IN
  /\ InDispose(t)
  /\ source_cleanup(t, Popped(t), f.pass, source_vector, [status EXCEPT ![f.source] = "free"],
                    source_pending_deletion - 1, f.next + 1)
  /\ UNCHANGED <<ready, source_v_process, run_loop, sources_ready, owed>>

\* dispose() has returned: the source is freed, and the walk goes on, in a
\* vector that may be a different one, until no deletion is pending.
DisposeReturns(t) ==
  LET f == Innermost(t) IN
  /\ InDispose(t)
  /\ source_cleanup(t, Popped(t), f.pass, source_vector, [status EXCEPT ![f.source] = "free"],
                    source_pending_deletion - 1, f.next)
  /\ UNCHANGED <<ready, source_v_process, run_loop, sources_ready, owed>>

-----------------------------------------------------------------------------
(* The API.                                                                *)

\* Code of the application runs on thread t.
InUserCode(t) ==
  IF t = MainThread THEN InDispose(t) \/ mpc[1] \in {"outside", "polling", "cb"}
  ELSE mpc # Between("down")

sol_mainloop_add_source(s) ==
  /\ \E t \in Threads : InUserCode(t)
  /\ status[s] = "free" /\ mpc # Between("down")
  /\ status' = [status EXCEPT ![s] = "live"]
  /\ ready' = [ready EXCEPT ![s] = FALSE]
  /\ source_vector' = Append(source_vector, s)
  /\ UNCHANGED <<walkVars, source_pending_deletion, run_loop, sweeps, owed, strayed>>

\* Mutant of sol_mainloop_del_source: during a pass the deletion is not counted.
MutDelNotCounted(t, s) ==
  /\ InUserCode(t) /\ Len(sweeps[t]) < MaxNesting
  /\ t \in OtherThreads => OtherThreadsDel
  /\ status[s] = "live"
  /\ LET st == [status EXCEPT ![s] = "marked"]
         n == source_pending_deletion + 1
     IN  IF source_processing
         THEN /\ status' = st
              /\ UNCHANGED <<source_pending_deletion, source_vector, source_processing, mpc, at, sweeps, strayed>>
         ELSE source_cleanup(t, sweeps[t], "none", source_vector, st, n, Len(source_vector))
  /\ owed' = owed \ {s}
  /\ UNCHANGED <<ready, source_v_process, run_loop, sources_ready>>

sol_mainloop_del_source(t, s) ==
  /\ InUserCode(t) /\ Len(sweeps[t]) < MaxNesting
  /\ t \in OtherThreads => OtherThreadsDel
  /\ status[s] = "live"
  /\ LET st == [status EXCEPT ![s] = "marked"]
         n == source_pending_deletion + 1
     IN  IF source_processing
         THEN /\ status' = st
              /\ source_pending_deletion' = n
              /\ UNCHANGED <<source_vector, source_processing, mpc, at, sweeps, strayed>>
         ELSE source_cleanup(t, sweeps[t], "none", source_vector, st, n, Len(source_vector))
  /\ owed' = owed \ {s}
  /\ UNCHANGED <<ready, source_v_process, run_loop, sources_ready>>

-----------------------------------------------------------------------------
(* The four walks.                                                         *)

\* The vector is stolen.
Steal(p) ==
  /\ source_v_process' = source_vector
  /\ source_vector' = <<>>
  /\ source_processing' = TRUE
  /\ mpc' = At("walk", p)
  /\ at' = 1
  /\ UNCHANGED <<status, ready, source_pending_deletion, run_loop, sweeps, owed, strayed>>

\* fd_process() begins, with sol_mainloop_common_source_prepare().
PrepareBegins ==
  /\ mpc = Between("outside") /\ ~InDispose(MainThread) /\ run_loop
  /\ Steal("prepare")
  /\ sources_ready' = FALSE

\* sol_mainloop_common_source_get_next_timeout_locked().
GetNextTimeoutBegins ==
  /\ mpc = Between("prepared")
  /\ Steal("timeout")
  /\ UNCHANGED sources_ready

\* There is an idler: no need to know the next timeout.
IdlerFirst ==
  /\ mpc = Between("prepared")
  /\ mpc' = Between("polling")
  /\ UNCHANGED <<status, ready, vectorVars, source_pending_deletion, source_processing,
                 run_loop, sources_ready, at, sweeps, owed, strayed>>

\* ppoll() has returned, and the descriptors that were ready have been called.
CheckBegins ==
  /\ mpc = Between("polling") /\ ~InDispose(MainThread)
  /\ Steal("check")
  /\ UNCHANGED sources_ready

DispatchBegins ==
  /\ mpc = Between("checked") /\ sources_ready
  /\ Steal("dispatch")
  /\ UNCHANGED sources_ready

NothingReady ==
  /\ mpc = Between("checked") /\ ~sources_ready
  /\ mpc' = Between("outside")
  /\ UNCHANGED <<status, ready, vectorVars, source_pending_deletion, source_processing,
                 run_loop, sources_ready, at, sweeps, owed, strayed>>

\* All walks but get_next_timeout's stop when the loop has been told to quit.
Goes(p) == mpc = At("walk", p) /\ at <= Len(source_v_process) /\ (run_loop \/ p = "timeout")
Current == source_v_process[at]
Called(p) == status[Current] # "marked" /\ (p = "dispatch" => ready[Current])

Skip(p) ==
  /\ Goes(p) /\ ~Called(p)
  /\ at' = at + 1
  /\ UNCHANGED <<status, ready, vectorVars, source_pending_deletion, source_processing,
                 run_loop, sources_ready, mpc, sweeps, owed, strayed>>

Call(p) ==
  /\ Goes(p) /\ Called(p)
  /\ mpc' = At("cb", p)
  /\ owed' = IF p = "dispatch" THEN owed \ {Current} ELSE owed
  /\ UNCHANGED <<status, ready, vectorVars, source_pending_deletion, source_processing,
                 run_loop, sources_ready, at, sweeps, strayed>>

\* Mutant of ReadyAfter: check() overrides what prepare() has said.
MutCheckOverrides(p, result) ==
  CASE p = "prepare" -> result
    [] p = "timeout" -> ready[Current]
    [] p = "check" -> result
    [] p = "dispatch" -> FALSE

\* source->ready after the callback of pass p returned result.  A type without
\* prepare() is one whose prepare() returns FALSE.
ReadyAfter(p, result) ==
  CASE p = "prepare" -> result
    [] p = "timeout" -> ready[Current]
    [] p = "check" -> ready[Current] \/ result
    [] p = "dispatch" -> FALSE

Return(p, result) ==
  /\ mpc = At("cb", p) /\ ~InDispose(MainThread)
  /\ ready' = [ready EXCEPT ![Current] = ReadyAfter(p, result)]
  /\ sources_ready' = (sources_ready \/ (p \in {"prepare", "check"} /\ ready'[Current]))
  /\ owed' = IF p \in {"prepare", "check"} /\ result /\ run_loop /\ status[Current] = "live"
             THEN owed \cup {Current} ELSE owed
  /\ mpc' = At("walk", p)
  /\ at' = at + 1
  /\ UNCHANGED <<status, vectorVars, source_pending_deletion, source_processing, run_loop,
                 sweeps, strayed>>

\* The sources of the pass are put behind those added meanwhile, and swept.
PassEnds(p) ==
  LET v == source_vector \o source_v_process IN
  /\ mpc = At("walk", p)
  /\ at > Len(source_v_process) \/ (~run_loop /\ p # "timeout")
  /\ source_v_process' = <<>>
  /\ source_cleanup(MainThread, <<>>, p, v, status, source_pending_deletion, Len(v))
  /\ UNCHANGED <<ready, run_loop, sources_ready, owed>>

-----------------------------------------------------------------------------
(* sol_run(), sol_quit() and sol_shutdown(), as far as sources see them.   *)

sol_run ==
  /\ mpc = Between("outside") /\ ~InDispose(MainThread) /\ ~run_loop
  /\ run_loop' = TRUE
  /\ UNCHANGED <<status, ready, vectorVars, source_pending_deletion, source_processing,
                 sources_ready, mpc, at, sweeps, owed, strayed>>

sol_quit ==
  /\ run_loop
  /\ run_loop' = FALSE
  /\ owed' = {}
  /\ UNCHANGED <<status, ready, vectorVars, source_pending_deletion, source_processing,
                 sources_ready, mpc, at, sweeps, strayed>>

\* After all threads have finished every source is disposed of.
sol_mainloop_common_source_shutdown ==
  /\ mpc = Between("outside") /\ ~run_loop
  /\ \A t \in Threads : ~InDispose(t)
  /\ status' = [s \in Handles |-> IF \E k \in DOMAIN source_vector : source_vector[k] = s
                                  THEN "free" ELSE status[s]]
  /\ source_vector' = <<>>
  /\ mpc' = Between("down")
  /\ UNCHANGED <<ready, source_v_process, source_pending_deletion, source_processing,
                 run_loop, sources_ready, at, sweeps, owed, strayed>>

-----------------------------------------------------------------------------
MainStep ==
  \/ PrepareBegins \/ GetNextTimeoutBegins \/ IdlerFirst \/ CheckBegins
  \/ DispatchBegins \/ NothingReady
  \/ \E p \in Passes : Skip(p) \/ Call(p) \/ PassEnds(p)

CallbackReturns == \E p \in Passes, result \in BOOLEAN : Return(p, result)

\* Nothing is said about what happens after an invalid read.
Next ==
  /\ ~strayed
  /\ \/ MainStep
     \/ CallbackReturns
     \/ \E t \in Threads : DisposeReturns(t)
     \/ \E s \in Handles : sol_mainloop_add_source(s)
     \/ \E t \in Threads, s \in Handles : sol_mainloop_del_source(t, s)
     \/ sol_run \/ sol_quit \/ sol_mainloop_common_source_shutdown

Spec == Init /\ [][Next]_vars

\* The main thread runs, and callbacks return.
FairSpec ==
  /\ Spec
  /\ WF_vars(~strayed /\ MainStep) /\ WF_vars(~strayed /\ CallbackReturns)
  /\ \A t \in Threads : WF_vars(~strayed /\ DisposeReturns(t))

-----------------------------------------------------------------------------
(* Properties.                                                             *)

Entries(v) == {v[k] : k \in DOMAIN v}

\* Type invariant.
TypeOK ==
  /\ status \in [Handles -> {"free", "live", "marked", "disposed"}]
  /\ ready \in [Handles -> BOOLEAN]
  /\ source_vector \in Seq(Handles) /\ source_v_process \in Seq(Handles)
  /\ source_pending_deletion \in 0..Cardinality(Handles)
  /\ source_processing \in BOOLEAN /\ run_loop \in BOOLEAN /\ sources_ready \in BOOLEAN
  /\ at \in 0..(Cardinality(Handles) + 1)
  /\ owed \subseteq Handles /\ strayed \in BOOLEAN

\* No sweep reads beyond the vector, though the lock is released in the middle
\* of its walk and sources are added and deleted meanwhile ("Walk backwards so
\* deletion doesn't impact the indices"); both vectors together hold every
\* allocated source that is not being disposed of, once, and no freed one.
SourcesStayValid ==
  /\ TypeOK
  /\ ~strayed
  /\ LET all == source_vector \o source_v_process IN
       /\ \A j, k \in DOMAIN all : all[j] = all[k] => j = k
       /\ Entries(all) = {s \in Handles : status[s] \in {"live", "marked"}}

\* A source whose prepare() or check() said it is ready is dispatched in the same
\* iteration, unless it is deleted or the loop is told to quit.
ReadyIsDispatched == mpc = Between("outside") => owed = {}

\* A deleted source is disposed of: when the deletion was made during a pass, or
\* behind the back of a sweep, a later sweep finds it, as long as the loop runs.
DeletedIsDisposed ==
  \A s \in Handles : status[s] = "marked" ~> (status[s] # "marked" \/ ~run_loop)
=============================================================================
