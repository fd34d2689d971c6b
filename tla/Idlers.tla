------------------------------- MODULE Idlers -------------------------------
(***************************************************************************)
(* The idlers of sol-mainloop-common.c in the build with threads:          *)
(* sol_idle_add() and sol_idle_del() from callbacks of the main thread and *)
(* from other threads, against sol_mainloop_common_idler_process().        *)
(*                                                                         *)
(* A section under ml_lock is one step.  What process() does outside the   *)
(* lock is split where another thread can get in between: after the steal, *)
(* between handlers, inside the callback, and between the test and the     *)
(* assignment of "if (status == idler_ready_on_next_iteration) status =    *)
(* idler_ready", which no lock protects.  A vector is the set of its       *)
(* entries, with one relation for the order of the entries of both.        *)
(*                                                                         *)
(* Callers respect the contract of the API: a handle is deleted once, and  *)
(* not after its callback returned FALSE.                                  *)
(***************************************************************************)
EXTENDS Naturals, FiniteSets

CONSTANTS
  Idles,          \* addresses of struct sol_idler_common
  NoIdle,
  OtherThreadsDel,\* do threads other than the main one call sol_idle_del()?
  MaxPending      \* bound on idler_pending_deletion

ASSUME IdlersAssumption ==
  /\ NoIdle \notin Idles
  /\ IsFiniteSet(Idles)
  /\ OtherThreadsDel \in BOOLEAN
  /\ MaxPending \in Nat

VARIABLES
  status,                 \* "free", or the enum of struct sol_idler_common
  idler_vector,           \* IDLER_ACUM
  idler_v_process,        \* IDLER_PROCESS
  before,                 \* <<h, k>>: h comes before k in their vector
  idler_pending_deletion,
  idler_processing,
  run_loop,
  mpc,                    \* where the main thread is
  todo,                   \* the part of idler_v_process not yet visited
  cur                     \* the idler being visited

idlerVars == <<status, idler_vector, idler_v_process, before,
               idler_pending_deletion, idler_processing, run_loop, mpc, todo, cur>>
vectorVars == <<idler_vector, idler_v_process, before>>
countVars == <<idler_pending_deletion, idler_processing>>

Init ==
  /\ status = [h \in Idles |-> "free"]
  /\ idler_vector = {}
  /\ idler_v_process = {}
  /\ before = {}
  /\ idler_pending_deletion = 0
  /\ idler_processing = FALSE
  /\ run_loop = FALSE
  /\ mpc = "outside"
  /\ todo = {}
  /\ cur = NoIdle

MainGoes(from, to) == mpc = from /\ mpc' = to

\* Code of the application runs on the main thread: before and between
\* sol_run(), in callbacks of other handlers, in an idler, and in the timeouts
\* that are processed after every idler.
InUserCode == mpc \in {"outside", "cb", "timeouts"}

-----------------------------------------------------------------------------
(* sol_idle_add(), sol_idle_del() and the sweep.                           *)

\* Mutant of idler_cleanup: every entry walked over is counted as freed.
MutCleanupCountsAll(v, order, st, n) ==
  LET victims == {h \in v : st[h] = "deleted"} IN
  /\ idler_vector' = v \ victims
  /\ before' = {p \in order : p[1] \notin victims /\ p[2] \notin victims}
  /\ status' = [h \in Idles |-> IF h \in victims THEN "free" ELSE st[h]]
  /\ idler_pending_deletion' = IF n = 0 THEN 0 ELSE n - Cardinality(v)

\* idler_cleanup(): walks the vector backwards and frees the idlers marked
\* deleted until idler_pending_deletion reaches zero.  The arguments are the
\* entries, their order, the statuses and the count it is called with.
idler_cleanup(v, order, st, n) ==
  LET marked == {h \in v : st[h] = "deleted"}
      victims == {h \in marked : Cardinality({k \in marked : <<h, k>> \in order}) < n}
  IN
  /\ idler_vector' = v \ victims
  /\ before' = {p \in order : p[1] \notin victims /\ p[2] \notin victims}
  /\ status' = [h \in Idles |-> IF h \in victims THEN "free" ELSE st[h]]
  /\ idler_pending_deletion' = n - Cardinality(victims)

sol_idle_add(h) ==
  /\ status[h] = "free" /\ mpc # "shutdown"
  /\ status' = [status EXCEPT ![h] = IF idler_processing THEN "next" ELSE "ready"]
  /\ idler_vector' = idler_vector \cup {h}
  /\ before' = before \cup (idler_vector \X {h})
  /\ UNCHANGED <<idler_v_process, countVars, run_loop, mpc, todo, cur>>

\* Mutant of sol_idle_del: the deletion is not counted.
MutDelNotCounted(h) ==
  /\ OtherThreadsDel \/ InUserCode
  /\ status[h] \in {"ready", "next"}
  /\ LET marked == [status EXCEPT ![h] = "deleted"] IN
       IF idler_processing
       THEN /\ status' = marked
            /\ UNCHANGED <<idler_vector, before, idler_pending_deletion>>
       ELSE idler_cleanup(idler_vector, before, marked, idler_pending_deletion)
  /\ UNCHANGED <<idler_v_process, idler_processing, run_loop, mpc, todo, cur>>

\* Mutant of sol_idle_del: frees at once even while a pass is running.
MutDelFreesAlways(h) ==
  /\ OtherThreadsDel \/ InUserCode
  /\ status[h] \in {"ready", "next"}
  /\ status' = [status EXCEPT ![h] = "free"]
  /\ idler_vector' = idler_vector \ {h}
  /\ before' = {p \in before : h \notin {p[1], p[2]}}
  /\ UNCHANGED <<idler_v_process, countVars, run_loop, mpc, todo, cur>>

sol_idle_del(h) ==
  /\ OtherThreadsDel \/ InUserCode
  /\ status[h] \in {"ready", "next"}
  /\ idler_pending_deletion < MaxPending
  /\ LET marked == [status EXCEPT ![h] = "deleted"]
         pending == idler_pending_deletion + 1
     IN  IF idler_processing
         THEN /\ status' = marked
              /\ idler_pending_deletion' = pending
              /\ UNCHANGED <<idler_vector, before>>
         ELSE idler_cleanup(idler_vector, before, marked, pending)
  /\ UNCHANGED <<idler_v_process, idler_processing, run_loop, mpc, todo, cur>>

-----------------------------------------------------------------------------
(* sol_mainloop_common_idler_process().                                    *)

\* The locked section at the start: the vector is stolen.
ProcessBegin ==
  /\ run_loop
  /\ MainGoes("outside", "scan")
  /\ idler_v_process' = idler_vector
  /\ todo' = idler_vector
  /\ idler_vector' = {}
  /\ idler_processing' = TRUE
  /\ UNCHANGED <<status, before, idler_pending_deletion, run_loop, cur>>

\* The walk has come to h.
Visits(h) == h \in todo /\ \A k \in todo : <<k, h>> \notin before

\* A deleted idler is passed over.
Skip(h) ==
  /\ mpc = "scan" /\ run_loop
  /\ Visits(h) /\ status[h] = "deleted"
  /\ todo' = todo \ {h}
  /\ UNCHANGED <<status, vectorVars, countVars, run_loop, mpc, cur>>

\* Either loop: an idler added during the pass before is found ...
Awaken(h) ==
  /\ \/ MainGoes("scan", "awaken") /\ run_loop /\ Visits(h)
     \/ MainGoes("settle", "settle_awaken")
  /\ h \in todo /\ status[h] = "next"
  /\ cur' = h
  /\ todo' = todo \ {h}
  /\ UNCHANGED <<status, vectorVars, countVars, run_loop>>

\* Mutant of Awakened: the idler keeps waiting.
MutNeverReady ==
  /\ MainGoes("awaken", "scan") \/ MainGoes("settle_awaken", "settle")
  /\ cur' = NoIdle
  /\ UNCHANGED <<status, vectorVars, countVars, run_loop, todo>>

\* ... and made ready for the next one, without a lock.
Awakened ==
  /\ MainGoes("awaken", "scan") \/ MainGoes("settle_awaken", "settle")
  /\ status' = [status EXCEPT ![cur] = "ready"]
  /\ cur' = NoIdle
  /\ UNCHANGED <<vectorVars, countVars, run_loop, todo>>

\* Mutant of Call: the walk stays at an idler that is still ready.
MutCallAgain(h) ==
  /\ MainGoes("scan", "cb") /\ run_loop
  /\ Visits(h) /\ status[h] = "ready"
  /\ cur' = h
  /\ UNCHANGED <<status, vectorVars, countVars, run_loop, todo>>

\* The test of the status and the call.  A deletion that another thread makes
\* after the test is not seen by the call, as if it were made inside it.
Call(h) ==
  /\ MainGoes("scan", "cb") /\ run_loop
  /\ Visits(h) /\ status[h] = "ready"
  /\ cur' = h
  /\ todo' = todo \ {h}
  /\ UNCHANGED <<status, vectorVars, countVars, run_loop>>

\* Mutant of Return: a callback that returns TRUE is kept, deleted or not.
MutReturnRevives(keep) ==
  /\ MainGoes("cb", "timeouts")
  /\ status' = [status EXCEPT ![cur] = IF keep THEN "ready" ELSE "deleted"]
  /\ idler_pending_deletion' =
       IF ~keep /\ status[cur] # "deleted" THEN idler_pending_deletion + 1
       ELSE IF keep /\ status[cur] = "deleted" THEN idler_pending_deletion - 1
       ELSE idler_pending_deletion
  /\ cur' = NoIdle
  /\ UNCHANGED <<vectorVars, idler_processing, run_loop, todo>>

Return(keep) ==
  /\ MainGoes("cb", "timeouts")
  /\ IF keep \/ status[cur] = "deleted"
     THEN UNCHANGED <<status, idler_pending_deletion>>
     ELSE /\ status' = [status EXCEPT ![cur] = "deleted"]
          /\ idler_pending_deletion' = idler_pending_deletion + 1
  /\ cur' = NoIdle
  /\ UNCHANGED <<vectorVars, idler_processing, run_loop, todo>>

\* sol_mainloop_common_timeout_process() after every idler.
TimeoutsProcessed ==
  /\ MainGoes("timeouts", "scan")
  /\ UNCHANGED <<status, vectorVars, countVars, run_loop, todo, cur>>

\* The first loop ends: all visited, or the loop was told to stop.
ScanDone ==
  /\ MainGoes("scan", "settle")
  /\ todo = {} \/ ~run_loop
  /\ todo' = idler_v_process
  /\ UNCHANGED <<status, vectorVars, countVars, run_loop, cur>>

\* The locked section at the end: the pass is put back behind what was added
\* meanwhile, cleanup, flag.
ProcessEnd ==
  /\ MainGoes("settle", "outside")
  /\ \A h \in todo : status[h] # "next"
  /\ idler_v_process' = {}
  /\ todo' = {}
  /\ idler_processing' = FALSE
  /\ idler_cleanup(idler_vector \cup idler_v_process,
                   before \cup (idler_vector \X idler_v_process),
                   status, idler_pending_deletion)
  /\ UNCHANGED <<run_loop, cur>>

-----------------------------------------------------------------------------
(* sol_run(), sol_quit() and sol_shutdown(), as far as idlers see them.    *)

sol_run ==
  /\ mpc = "outside" /\ ~run_loop
  /\ run_loop' = TRUE
  /\ UNCHANGED <<status, vectorVars, countVars, mpc, todo, cur>>

sol_quit ==
  /\ run_loop
  /\ run_loop' = FALSE
  /\ UNCHANGED <<status, vectorVars, countVars, mpc, todo, cur>>

\* Threads are finished by now; the vector is freed, its entries with it.
sol_mainloop_impl_shutdown ==
  /\ MainGoes("outside", "shutdown") /\ ~run_loop
  /\ status' = [h \in Idles |-> IF h \in idler_vector THEN "free" ELSE status[h]]
  /\ idler_vector' = {}
  /\ before' = {}
  /\ UNCHANGED <<idler_v_process, countVars, run_loop, todo, cur>>

-----------------------------------------------------------------------------

\* What the main thread does without any help of the application.
Process ==
  \/ ProcessBegin \/ Awakened \/ TimeoutsProcessed \/ ScanDone \/ ProcessEnd
  \/ \E h \in Idles : Skip(h) \/ Awaken(h) \/ Call(h)

Callback == \E keep \in BOOLEAN : Return(keep)

Next ==
  \/ Process
  \/ Callback
  \/ \E h \in Idles : sol_idle_add(h) \/ sol_idle_del(h)
  \/ sol_run \/ sol_quit \/ sol_mainloop_impl_shutdown

Spec == Init /\ [][Next]_idlerVars

\* The main thread runs and callbacks return.
FairSpec == Spec /\ WF_idlerVars(Process) /\ WF_idlerVars(Callback)

-----------------------------------------------------------------------------
(* Properties.                                                             *)

Status == {"free", "ready", "next", "deleted"}

\* Type invariant.
TypeOK ==
  /\ status \in [Idles -> Status]
  /\ idler_vector \subseteq Idles
  /\ idler_v_process \subseteq Idles
  /\ before \subseteq Idles \X Idles
  /\ idler_pending_deletion \in Nat
  /\ idler_processing \in BOOLEAN
  /\ run_loop \in BOOLEAN
  /\ mpc \in {"outside", "scan", "awaken", "cb", "timeouts", "settle",
              "settle_awaken", "shutdown"}
  /\ todo \subseteq Idles
  /\ cur \in Idles \cup {NoIdle}

\* No pointer to freed memory: whatever either vector holds, the pass has
\* still to visit, or is visiting, is allocated, even when other threads
\* delete idlers while the callbacks run outside the lock; and what is
\* allocated is in exactly one vector, so that it is freed in the end.
NoDanglingIdler ==
  /\ idler_vector \cap idler_v_process = {}
  /\ todo \subseteq idler_v_process
  /\ cur # NoIdle => cur \in idler_v_process
  /\ idler_vector \cup idler_v_process = {h \in Idles : status[h] # "free"}

Deleted == {h \in Idles : status[h] = "deleted"}

\* idler_cleanup() stops when the counter reaches zero: the counter never
\* falls behind the idlers marked deleted, or one would stay behind for good.
PendingCoversDeleted == idler_pending_deletion >= Cardinality(Deleted)

\* A deleted idler never comes back: once sol_idle_del() returned, the handle
\* is not called again until the memory is allocated anew.
DeleteIsFinal ==
  [][\A h \in Idles : status[h] = "deleted" => status'[h] \in {"deleted", "free"}]_idlerVars

\* A pass ends even if every callback adds idlers for ever: what is added
\* during a pass waits for the next one.
PassEnds == (mpc = "scan") ~> (mpc = "outside")

\* An idler that is not deleted and whose loop keeps running is called.
AddedIdlerRuns ==
  \A h \in Idles :
    (status[h] \in {"ready", "next"})
      ~> ((cur = h /\ mpc = "cb") \/ status[h] \in {"deleted", "free"} \/ ~run_loop)

\* The idlers implement the life cycle that the API promises.
lifecycle_phase ==
  [h \in Idles |-> CASE status[h] \in {"ready", "next"} -> "live"
                     [] status[h] = "deleted" -> "dead"
                     [] OTHER -> "free"]

Lifecycle == INSTANCE HandlerLifecycle WITH
  Handles <- Idles, NoHandle <- NoIdle,
  phase <- lifecycle_phase, running <- IF mpc = "cb" THEN cur ELSE NoIdle

\* Every step of the idlers is a step of HandlerLifecycle or none.
ImplementsLifecycle == Lifecycle!LSpec
=============================================================================
