------------------------------ MODULE Timeouts ------------------------------
(***************************************************************************)
(* The timeouts of sol-mainloop-common.c in the build with threads: adding *)
(* and deleting them from callbacks and from other threads, the pass that  *)
(* runs the expired ones, and the sleep in ppoll() until the first expires *)
(* (fd_process() and sol_mainloop_common_timespec_first()).                *)
(*                                                                         *)
(* A section under ml_lock is one step, except in timespec_first(), which  *)
(* releases the lock in its middle.  The vectors are sequences sorted by   *)
(* expire (PtrVector).  The notification pipe is one flag: MainLoopWakeup  *)
(* shows that a notification is not lost.                                  *)
(***************************************************************************)
EXTENDS PtrVector, FiniteSets

CONSTANTS
  Handles,          \* addresses of struct sol_timeout_common
  NoTimeout,
  Periods,          \* the values of timeout_ms in use
  OtherThreadsDel,  \* do threads other than the main one call sol_timeout_del()?
  LateCalls,        \* what get_next_timeout() and dispose() of a source do, while
                    \* the sleep is computed: "add earlier", "delete first"
  MaxClock          \* bound on the clock

ASSUME TimeoutsAssumption ==
  /\ IsFiniteSet(Handles) /\ NoTimeout \notin Handles
  /\ Periods \subseteq Nat
  /\ OtherThreadsDel \in BOOLEAN
  /\ MaxClock \in Nat

ASSUME LateCallsAssumption == LateCalls \subseteq {"add earlier", "delete first"}

VARIABLES
  tstatus,                  \* "free", "live" or "deleted" (remove_me)
  period,                   \* timeout->timeout
  expire,                   \* timeout->expire
  timeout_vector,           \* TIMEOUT_ACUM
  timeout_v_process,        \* TIMEOUT_PROCESS
  timeout_pending_deletion,
  timeout_processing,
  run_loop,
  clock,                    \* sol_util_timespec_get_current()
  now,                      \* the pass's own reading of it
  i,                        \* the pass's index in timeout_v_process
  mpc,                      \* where the main thread is
  first,                    \* timespec_first()'s timeout
  deadline,                 \* when ppoll() gives up
  notified                  \* a notification waits in the pipe

timeVars == <<clock, now>>
passVars == <<i, mpc>>
sleepVars == <<first, deadline, notified>>
vectorVars == <<timeout_vector, timeout_v_process>>
countVars == <<timeout_pending_deletion, timeout_processing>>
entryVars == <<tstatus, period, expire>>
vars == <<entryVars, vectorVars, countVars, run_loop, timeVars, passVars, sleepVars>>

Never == MaxClock + 1

Init ==
  /\ tstatus = [h \in Handles |-> "free"]
  /\ period = [h \in Handles |-> 0]
  /\ expire = [h \in Handles |-> 0]
  /\ timeout_vector = <<>> /\ timeout_v_process = <<>>
  /\ timeout_pending_deletion = 0 /\ timeout_processing = FALSE
  /\ run_loop = FALSE
  /\ clock = 0 /\ now = 0
  /\ i = 1 /\ mpc = "woken"
  /\ first = NoTimeout /\ deadline = 0 /\ notified = FALSE

MainGoes(from, to) == mpc = from /\ mpc' = to

\* Code of the application runs on the main thread: between the passes (fds,
\* idlers, sources, before sol_run()), in the callback of a timeout, and in
\* get_next_timeout() and dispose() of the sources, which timespec_first() calls
\* with the lock released.
InUserCode == mpc \in {"woken", "passed", "cb", "first"}

\* There, only LateCalls put another timeout before the one that timespec_first()
\* has found, or delete that one.
MayAdd(expiry, other) ==
  \/ other
  \/ /\ InUserCode
     /\ mpc = "first" => \/ "add earlier" \in LateCalls
                         \/ first # NoTimeout /\ expire[first] <= expiry

MayDel(h, other) ==
  IF other THEN OtherThreadsDel
  ELSE InUserCode /\ (mpc = "first" /\ h = first => "delete first" \in LateCalls)

cur == timeout_v_process[i]

-----------------------------------------------------------------------------
(* sol_timeout_add(), sol_timeout_del() and the sweep.                     *)

\* timeout_cleanup(): walks backwards and frees what is marked, until the
\* count is down to zero.  What freed memory holds is of no interest: zeros.
timeout_cleanup(v, st, n) ==
  LET marked == {j \in DOMAIN v : st[v[j]] = "deleted"}
      victims == {v[j] : j \in {j \in marked : Cardinality({k \in marked : k > j}) < n}}
  IN
  /\ timeout_vector' = Kept(v, {k \in DOMAIN v : v[k] \notin victims})
  /\ tstatus' = [h \in Handles |-> IF h \in victims THEN "free" ELSE st[h]]
  /\ period' = [h \in Handles |-> IF h \in victims THEN 0 ELSE period[h]]
  /\ expire' = [h \in Handles |-> IF h \in victims THEN 0 ELSE expire[h]]
  /\ timeout_pending_deletion' = n - Cardinality(victims)

\* Mutant of sol_timeout_add: the main thread is not notified.
MutAddNoNotify(h, ms, other) ==
  /\ MayAdd(clock + ms, other) /\ mpc # "shutdown"
  /\ tstatus[h] = "free"
  /\ tstatus' = [tstatus EXCEPT ![h] = "live"]
  /\ period' = [period EXCEPT ![h] = ms]
  /\ expire' = [expire EXCEPT ![h] = clock + ms]
  /\ timeout_vector' = sol_ptr_vector_insert_sorted(timeout_vector, expire', h)
  /\ UNCHANGED <<timeout_v_process, countVars, run_loop, timeVars, passVars, sleepVars>>

\* Only another thread has to notify the main one.
sol_timeout_add(h, ms, other) ==
  /\ MayAdd(clock + ms, other) /\ mpc # "shutdown"
  /\ tstatus[h] = "free"
  /\ tstatus' = [tstatus EXCEPT ![h] = "live"]
  /\ period' = [period EXCEPT ![h] = ms]
  /\ expire' = [expire EXCEPT ![h] = clock + ms]
  /\ timeout_vector' = sol_ptr_vector_insert_sorted(timeout_vector, expire', h)
  /\ notified' = (notified \/ other)
  /\ UNCHANGED <<timeout_v_process, countVars, run_loop, timeVars, passVars, first, deadline>>

\* Mutant of sol_timeout_del: sweeps even while a pass is running.
MutDelSweepsAlways(h, other) ==
  /\ MayDel(h, other)
  /\ tstatus[h] = "live"
  /\ tstatus' = [tstatus EXCEPT ![h] = "free"]
  /\ timeout_vector' = sol_ptr_vector_del_element(timeout_vector, h)
  /\ UNCHANGED <<period, expire, timeout_v_process, countVars, run_loop,
                 timeVars, passVars, sleepVars>>

\* Refused for a timeout that is marked already.
sol_timeout_del(h, other) ==
  /\ MayDel(h, other)
  /\ tstatus[h] = "live"
  /\ LET marked == [tstatus EXCEPT ![h] = "deleted"]
         pending == timeout_pending_deletion + 1
     IN  IF timeout_processing
         THEN /\ tstatus' = marked
              /\ timeout_pending_deletion' = pending
              /\ UNCHANGED <<timeout_vector, period, expire>>
         ELSE timeout_cleanup(timeout_vector, marked, pending)
  /\ UNCHANGED <<timeout_v_process, timeout_processing, run_loop,
                 timeVars, passVars, sleepVars>>

-----------------------------------------------------------------------------
(* sol_mainloop_common_timeout_process().  It is the first step of an      *)
(* iteration and follows every fd and idler callback.                      *)

ProcessBegin ==
  /\ run_loop
  /\ mpc \in {"woken", "passed"} /\ mpc' = "scan"
  /\ timeout_v_process' = timeout_vector
  /\ timeout_vector' = <<>>
  /\ timeout_processing' = TRUE
  /\ now' = clock
  /\ i' = 1
  /\ UNCHANGED <<entryVars, timeout_pending_deletion, run_loop, clock, sleepVars>>

Skip ==
  /\ mpc = "scan" /\ run_loop
  /\ i <= Len(timeout_v_process) /\ tstatus[cur] = "deleted"
  /\ i' = i + 1
  /\ UNCHANGED <<entryVars, vectorVars, countVars, run_loop, timeVars, mpc, sleepVars>>

\* The loop ends at the first timeout that is not due.
ScanDone ==
  /\ MainGoes("scan", "end")
  /\ \/ ~run_loop
     \/ i > Len(timeout_v_process)
     \/ i <= Len(timeout_v_process) /\ tstatus[cur] = "live" /\ expire[cur] > now
  /\ UNCHANGED <<entryVars, vectorVars, countVars, run_loop, timeVars, i, sleepVars>>

Call ==
  /\ MainGoes("scan", "cb") /\ run_loop
  /\ i <= Len(timeout_v_process)
  /\ tstatus[cur] = "live" /\ expire[cur] <= now
  /\ UNCHANGED <<entryVars, vectorVars, countVars, run_loop, timeVars, i, sleepVars>>

\* The callback returns FALSE: the timeout is marked, unless it already is.
ReturnFalse ==
  /\ MainGoes("cb", "scan")
  /\ IF tstatus[cur] = "deleted"
     THEN UNCHANGED <<tstatus, timeout_pending_deletion>>
     ELSE /\ tstatus' = [tstatus EXCEPT ![cur] = "deleted"]
          /\ timeout_pending_deletion' = timeout_pending_deletion + 1
  /\ i' = i + 1
  /\ UNCHANGED <<period, expire, vectorVars, timeout_processing, run_loop, timeVars, sleepVars>>

\* It returns TRUE: armed anew from the pass's time and moved to its place;
\* the index stays if another timeout has taken this place.
ReturnTrue ==
  /\ MainGoes("cb", "scan")
  /\ LET armed == [expire EXCEPT ![cur] = now + period[cur]]
         moved == sol_ptr_vector_update_sorted(timeout_v_process, armed, i)
     IN  /\ expire' = armed
         /\ timeout_v_process' = moved.v
         /\ i' = IF moved.index = i THEN i + 1 ELSE i
  /\ UNCHANGED <<tstatus, period, timeout_vector, countVars, run_loop, timeVars, sleepVars>>

\* Mutant of timeout_vector_update: appended, as the other handlers are.
MutUpdateAppends == timeout_vector \o timeout_v_process

\* timeout_vector_update(): what the pass leaves is sorted into what was added.
timeout_vector_update ==
  LET merged[n \in 0..Len(timeout_v_process)] ==
        IF n = 0 THEN timeout_vector
        ELSE sol_ptr_vector_insert_sorted(merged[n - 1], expire, timeout_v_process[n])
  IN  merged[Len(timeout_v_process)]

ProcessEnd ==
  /\ MainGoes("end", "passed")
  /\ \E merged \in {timeout_vector_update} :
       timeout_cleanup(merged, tstatus, timeout_pending_deletion)
  /\ timeout_v_process' = <<>>
  /\ timeout_processing' = FALSE
  /\ i' = 1
  /\ now' = 0
  /\ UNCHANGED <<run_loop, clock, sleepVars>>

-----------------------------------------------------------------------------
(* The sleep.                                                              *)

\* sol_mainloop_common_timeout_first(), under the lock ...
TimeoutFirst ==
  /\ run_loop
  /\ MainGoes("passed", "first")
  /\ LET live == {j \in DOMAIN timeout_vector : tstatus[timeout_vector[j]] = "live"} IN
       first' = IF live = {} THEN NoTimeout
                ELSE timeout_vector[CHOOSE j \in live : \A k \in live : j <= k]
  /\ UNCHANGED <<entryVars, vectorVars, countVars, run_loop, timeVars, i, deadline, notified>>

\* Mutant of TimespecFirst: sleeps for ever when there is a timeout.
MutSleepsForEver ==
  /\ MainGoes("first", "sleep")
  /\ deadline' = Never
  /\ first' = NoTimeout
  /\ UNCHANGED <<entryVars, vectorVars, countVars, run_loop, timeVars, i, notified>>

\* ... and, after sol_mainloop_common_source_get_next_timeout_locked() has
\* released and taken it again, the read of timeout->expire.  Freed memory
\* holds anything.
TimespecFirst ==
  /\ MainGoes("first", "sleep")
  /\ deadline' \in IF first = NoTimeout THEN {Never}
                   ELSE IF tstatus[first] = "free" THEN 0..Never
                   ELSE {expire[first]}
  /\ first' = NoTimeout
  /\ UNCHANGED <<entryVars, vectorVars, countVars, run_loop, timeVars, i, notified>>

\* ppoll() returns: the time is up, or the pipe is readable.  It is read, unless
\* the loop has been told to quit.
WakeDue ==
  /\ MainGoes("sleep", "woken")
  /\ notified \/ clock >= deadline
  /\ notified' = (notified /\ ~run_loop)
  /\ deadline' = 0
  /\ UNCHANGED <<entryVars, vectorVars, countVars, run_loop, timeVars, i, first>>

\* Some other descriptor is ready, or there is an idler.
WakeOther ==
  /\ MainGoes("sleep", "woken")
  /\ deadline' = 0
  /\ UNCHANGED <<entryVars, vectorVars, countVars, run_loop, timeVars, i, first, notified>>

-----------------------------------------------------------------------------
(* The loop and the clock.                                                 *)

sol_run ==
  /\ mpc \in {"woken", "passed"} /\ ~run_loop
  /\ run_loop' = TRUE
  /\ mpc' = "woken"
  /\ UNCHANGED <<entryVars, vectorVars, countVars, timeVars, i, sleepVars>>

\* Notifies on every thread.
sol_quit(other) ==
  /\ other \/ InUserCode
  /\ run_loop
  /\ run_loop' = FALSE
  /\ notified' = TRUE
  /\ UNCHANGED <<entryVars, vectorVars, countVars, timeVars, passVars, first, deadline>>

sol_mainloop_impl_shutdown ==
  /\ mpc \in {"woken", "passed"} /\ mpc' = "shutdown"
  /\ ~run_loop
  /\ tstatus' = [h \in Handles |-> "free"]
  /\ timeout_vector' = <<>>
  /\ UNCHANGED <<period, expire, timeout_v_process, countVars, run_loop, timeVars, i, sleepVars>>

Tick ==
  /\ clock < MaxClock
  /\ clock' = clock + 1
  /\ UNCHANGED <<entryVars, vectorVars, countVars, run_loop, now, passVars, sleepVars>>

-----------------------------------------------------------------------------

Process ==
  \/ ProcessBegin \/ Skip \/ ScanDone \/ Call \/ ProcessEnd
  \/ TimeoutFirst \/ TimespecFirst \/ WakeDue

Callback == ReturnTrue \/ ReturnFalse

Next ==
  \/ Process
  \/ Callback
  \/ WakeOther
  \/ \E h \in Handles, other \in BOOLEAN :
       sol_timeout_del(h, other) \/ \E ms \in Periods : sol_timeout_add(h, ms, other)
  \/ sol_run
  \/ \E other \in BOOLEAN : sol_quit(other)
  \/ sol_mainloop_impl_shutdown
  \/ Tick

Spec == Init /\ [][Next]_vars

\* The main thread runs and callbacks return; time does not have to pass.
FairSpec == Spec /\ WF_vars(Process) /\ WF_vars(Callback)

-----------------------------------------------------------------------------
(* Properties.                                                             *)

\* Type invariant.
TypeOK ==
  /\ tstatus \in [Handles -> {"free", "live", "deleted"}]
  /\ period \in [Handles -> Periods \cup {0}]
  /\ expire \in [Handles -> Nat]
  /\ Range(timeout_vector) \subseteq Handles
  /\ Range(timeout_v_process) \subseteq Handles
  /\ timeout_pending_deletion \in 0..Cardinality(Handles)
  /\ timeout_processing \in BOOLEAN /\ run_loop \in BOOLEAN /\ notified \in BOOLEAN
  /\ clock \in 0..MaxClock /\ now \in 0..MaxClock /\ deadline \in Nat
  /\ i \in 1..(Cardinality(Handles) + 1)
  /\ mpc \in {"woken", "scan", "cb", "end", "passed", "first", "sleep", "shutdown"}
  /\ first \in Handles \cup {NoTimeout}

\* The counter that stops the sweep is exact, and no mark outlives a pass.
PendingExact ==
  LET deleted == {h \in Handles : tstatus[h] = "deleted"} IN
  /\ timeout_pending_deletion = Cardinality(deleted)
  /\ ~timeout_processing => deleted = {}

\* Neither vector points to freed memory, and what is allocated is linked
\* exactly once, also while other threads add and delete during a pass; nothing
\* that is deleted stays allocated for good.
NoDanglingTimeout ==
  /\ TypeOK
  /\ PendingExact
  /\ LET both == timeout_vector \o timeout_v_process IN
       /\ IsInjective(both)
       /\ Range(both) = {h \in Handles : tstatus[h] # "free"}

\* Both vectors are sorted by expiry at every moment, although periodic
\* timeouts get new expiries in the middle of the walk: the pass stops at the
\* first timeout that is not due, and the sleep looks at the first only.
VectorsSorted ==
  SortedBy(timeout_vector, expire) /\ SortedBy(timeout_v_process, expire)

\* The memory that timespec_first() is about to read is still allocated.
FirstIsAllocated ==
  mpc = "first" /\ first # NoTimeout => tstatus[first] # "free"

\* ppoll() does not sleep past the expiry of any timeout, unless a
\* notification is there to wake it: a timeout added while the sleep is being
\* computed is seen by it or notified.
SleepsNotTooLong ==
  /\ FirstIsAllocated
  /\ mpc = "sleep" /\ ~notified
       => \A h \in Handles : tstatus[h] = "live" => deadline <= expire[h] \/ deadline <= clock

\* A timeout that has expired is called, while the loop runs and unless it is
\* deleted first.
DueTimeoutRuns ==
  \A h \in Handles :
    (tstatus[h] = "live" /\ expire[h] <= clock)
      ~> ((mpc = "cb" /\ cur = h) \/ tstatus[h] # "live" \/ ~run_loop)

lifecycle_phase ==
  [h \in Handles |-> CASE tstatus[h] = "live" -> "live"
                       [] tstatus[h] = "deleted" -> "dead"
                       [] tstatus[h] = "free" -> "free"]

Lifecycle == INSTANCE HandlerLifecycle WITH
  NoHandle <- NoTimeout, phase <- lifecycle_phase,
  running <- IF mpc = "cb" THEN cur ELSE NoTimeout

\* The timeouts implement the life cycle that the API promises, with deletions
\* from every thread.
ImplementsLifecycle == Lifecycle!LSpec
=============================================================================
