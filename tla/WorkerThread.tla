---------------------------- MODULE WorkerThread ----------------------------
(***************************************************************************)
(* sol-worker-thread-impl-posix.c on top of the main loop's idlers: worker *)
(* threads run setup/iterate/cleanup, schedule feedback() on the main      *)
(* thread through an idler, and when they end, an idler that joins them,   *)
(* calls finished() and frees the struct.  The main thread may cancel a    *)
(* worker from any callback.  thread->idler is shared by both sides.       *)
(*                                                                         *)
(* Idlers gives the idlers: its state is this module's, its actions are    *)
(* conjoined with what the callbacks of the worker threads do.             *)
(***************************************************************************)
EXTENDS Naturals, FiniteSets

CONSTANTS
  Workers,          \* structs sol_worker_thread_posix
  FeedbackIdlers,   \* per worker, addresses malloc() gives to its feedback idlers
  Finished,         \* per worker, the address of the idler that finishes it
  NoIdle, NoWorker,
  FeedbackWorkers,  \* workers whose iterate() calls sol_worker_thread_feedback()
  CancelWorkers,    \* workers the application may cancel
  MaxRuns,          \* bound: how often the application calls sol_run()
  MaxPending        \* bound of Idlers

Idles == Workers \X (FeedbackIdlers \cup {Finished})

ASSUME WorkerAssumption ==
  /\ IsFiniteSet(Workers) /\ IsFiniteSet(FeedbackIdlers)
  /\ Finished \notin FeedbackIdlers
  /\ NoWorker \notin Workers /\ NoIdle \notin Idles
  /\ FeedbackWorkers \subseteq Workers /\ CancelWorkers \subseteq Workers
  /\ MaxRuns \in Nat /\ MaxPending \in Nat

VARIABLES
  status, idler_vector, idler_v_process, before, idler_pending_deletion,
  idler_processing, run_loop, mpc, todo, cur,     \* see Idlers
  obj,        \* the struct: "none", "alive" or "freed"
  tpc,        \* where the worker thread is
  cancel,     \* thread->cancel
  lock,       \* is thread->lock held by the worker across a call?
  idler,      \* thread->idler
  finished,   \* how often config.finished was called
  body,       \* where the main thread is inside an idler's callback
  cpc,        \* where it is inside sol_worker_thread_cancel() ...
  target,     \* ... and of which worker
  runs        \* how often sol_run() was called

threadVars == <<obj, tpc, cancel, lock, idler, finished, body, cpc, target, runs>>
idlerVars == <<status, idler_vector, idler_v_process, before, idler_pending_deletion,
               idler_processing, run_loop, mpc, todo, cur>>
vars == <<idlerVars, threadVars>>

I == INSTANCE Idlers WITH OtherThreadsDel <- TRUE

Init ==
  /\ I!Init
  /\ obj = [w \in Workers |-> "none"]
  /\ tpc = [w \in Workers |-> "none"]
  /\ cancel = [w \in Workers |-> FALSE]
  /\ lock = [w \in Workers |-> FALSE]
  /\ idler = [w \in Workers |-> NoIdle]
  /\ finished = [w \in Workers |-> 0]
  /\ body = "none"
  /\ cpc = "none"
  /\ target = NoWorker
  /\ runs = 0

ThreadGoes(w, from, to) == tpc[w] = from /\ tpc' = [tpc EXCEPT ![w] = to]

\* The application's code is on top of the main thread's stack, also in
\* config.feedback() and config.finished().
InUserCode ==
  /\ cpc = "none"
  /\ mpc \in {"outside", "timeouts"} \/ body \in {"feedback", "return"}

\* sol_idle_del(h): no effect on NULL or on an idler already marked.
IdleDel(h) ==
  IF h # NoIdle /\ status[h] # "deleted" THEN I!sol_idle_del(h) ELSE UNCHANGED idlerVars

-----------------------------------------------------------------------------
(* The worker thread.                                                      *)

sol_worker_thread_impl_new(w) ==
  /\ InUserCode
  /\ obj[w] = "none"
  /\ obj' = [obj EXCEPT ![w] = "alive"]
  /\ ThreadGoes(w, "none", "setup")
  /\ UNCHANGED <<idlerVars, cancel, lock, idler, finished, body, cpc, target, runs>>

\* config.setup() fails or succeeds, the loop tests cancel, config.iterate()
\* returns TRUE or FALSE, config.cleanup() runs.
Setup(w, ok) ==
  /\ ThreadGoes(w, "setup", IF ok THEN "loop" ELSE "end")
  /\ UNCHANGED <<idlerVars, obj, cancel, lock, idler, finished, body, cpc, target, runs>>

CancelCheck(w) ==
  /\ ThreadGoes(w, "loop", IF cancel[w] THEN "end" ELSE "iterate")
  /\ UNCHANGED <<idlerVars, obj, cancel, lock, idler, finished, body, cpc, target, runs>>

Iterate(w, again) ==
  /\ ThreadGoes(w, "iterate", IF again THEN "loop" ELSE "end")
  /\ UNCHANGED <<idlerVars, obj, cancel, lock, idler, finished, body, cpc, target, runs>>

\* sol_worker_thread_feedback() from iterate(): the test of cancel ...
sol_worker_thread_impl_feedback(w) ==
  /\ w \in FeedbackWorkers
  /\ ThreadGoes(w, "iterate", IF cancel[w] THEN "loop" ELSE "feedback")
  /\ UNCHANGED <<idlerVars, obj, cancel, lock, idler, finished, body, cpc, target, runs>>

\* ... and the locked section: one idler at a time.
FeedbackAdd(w) ==
  /\ ThreadGoes(w, "feedback", "loop")
  /\ ~lock[w]
  /\ IF idler[w] = NoIdle
     THEN \E f \in FeedbackIdlers :
            /\ I!sol_idle_add(<<w, f>>)
            /\ idler' = [idler EXCEPT ![w] = <<w, f>>]
     ELSE UNCHANGED <<idlerVars, idler>>
  /\ UNCHANGED <<obj, cancel, lock, finished, body, cpc, target, runs>>

\* The end of sol_worker_thread_do(): under the lock, the feedback idler that
\* is still pending is deleted ...
EndDel(w) ==
  /\ ThreadGoes(w, "end", "end_add")
  /\ ~lock[w]
  /\ lock' = [lock EXCEPT ![w] = TRUE]
  /\ IdleDel(idler[w])
  /\ UNCHANGED <<obj, cancel, idler, finished, body, cpc, target, runs>>

\* Mutant of EndAdd: the finishing idler is not remembered in the struct.
MutEndNotStored(w) ==
  /\ ThreadGoes(w, "end_add", "returning")
  /\ I!sol_idle_add(<<w, Finished>>)
  /\ idler' = [idler EXCEPT ![w] = NoIdle]
  /\ lock' = [lock EXCEPT ![w] = FALSE]
  /\ UNCHANGED <<obj, cancel, finished, body, cpc, target, runs>>

\* Mutant of EndAdd: no idler is added.
MutEndNoAdd(w) ==
  /\ ThreadGoes(w, "end_add", "returning")
  /\ idler' = [idler EXCEPT ![w] = NoIdle]
  /\ lock' = [lock EXCEPT ![w] = FALSE]
  /\ UNCHANGED <<idlerVars, obj, cancel, finished, body, cpc, target, runs>>

\* ... and the idler that finishes the thread is added.
EndAdd(w) ==
  /\ ThreadGoes(w, "end_add", "returning")
  /\ I!sol_idle_add(<<w, Finished>>)
  /\ idler' = [idler EXCEPT ![w] = <<w, Finished>>]
  /\ lock' = [lock EXCEPT ![w] = FALSE]
  /\ UNCHANGED <<obj, cancel, finished, body, cpc, target, runs>>

Exit(w) ==
  /\ ThreadGoes(w, "returning", "exited")
  /\ UNCHANGED <<idlerVars, obj, cancel, lock, idler, finished, body, cpc, target, runs>>

-----------------------------------------------------------------------------
(* The main thread: the two callbacks and sol_worker_thread_cancel().      *)

\* What idler_process() does between callbacks.
MainLoop ==
  /\ cpc = "none" /\ body = "none"
  /\ \/ I!ProcessBegin \/ I!Awakened \/ I!TimeoutsProcessed \/ I!ScanDone \/ I!ProcessEnd
     \/ \E h \in Idles : I!Skip(h) \/ I!Awaken(h)
  /\ UNCHANGED threadVars

CallIdler(h) ==
  /\ cpc = "none"
  /\ I!Call(h)
  /\ body' = IF h[2] = Finished THEN "finished" ELSE "dispatch"
  /\ UNCHANGED <<obj, tpc, cancel, lock, idler, finished, cpc, target, runs>>

\* sol_worker_thread_feedback_dispatch(): thread->idler is cleared under the
\* lock, whatever it is by then, and config.feedback() is called.
sol_worker_thread_feedback_dispatch ==
  /\ body = "dispatch"
  /\ LET w == cur[1] IN
       /\ ~lock[w]
       /\ idler' = [idler EXCEPT ![w] = NoIdle]
  /\ body' = "feedback"
  /\ UNCHANGED <<idlerVars, obj, tpc, cancel, lock, finished, cpc, target, runs>>

\* sol_worker_thread_finished(), from the idler or from cancel.
FinishedEffect(w) ==
  /\ idler' = [idler EXCEPT ![w] = NoIdle]
  /\ finished' = [finished EXCEPT ![w] = @ + 1]
  /\ obj' = [obj EXCEPT ![w] = "freed"]

\* As an idler: waits for the thread unless cancel already has.
sol_worker_thread_finished ==
  /\ body = "finished"
  /\ LET w == cur[1] IN
       /\ cancel[w] \/ tpc[w] = "exited"
       /\ finished[w] < 2
       /\ FinishedEffect(w)
  /\ body' = "return"
  /\ UNCHANGED <<idlerVars, tpc, cancel, lock, cpc, target, runs>>

\* Both callbacks return FALSE.
CallbackReturns ==
  /\ cpc = "none"
  /\ body \in {"feedback", "return"}
  /\ I!Return(FALSE)
  /\ body' = "none"
  /\ UNCHANGED <<obj, tpc, cancel, lock, idler, finished, cpc, target, runs>>

\* sol_worker_thread_cancel(): refused when already cancelled; the flag is set
\* and config.cancel() is called ...
sol_worker_thread_impl_cancel(w) ==
  /\ w \in CancelWorkers
  /\ InUserCode
  /\ obj[w] = "alive" /\ ~cancel[w]
  /\ cancel' = [cancel EXCEPT ![w] = TRUE]
  /\ cpc' = "join"
  /\ target' = w
  /\ UNCHANGED <<idlerVars, obj, tpc, lock, idler, finished, body, runs>>

\* Mutant of CancelJoin: does not wait for the thread.
MutCancelNoJoin ==
  /\ cpc = "join"
  /\ cpc' = "del"
  /\ UNCHANGED <<idlerVars, obj, tpc, cancel, lock, idler, finished, body, target, runs>>

\* ... the thread is joined ...
CancelJoin ==
  /\ cpc = "join" /\ tpc[target] = "exited"
  /\ cpc' = "del"
  /\ UNCHANGED <<idlerVars, obj, tpc, cancel, lock, idler, finished, body, target, runs>>

\* ... its idler is deleted, without the lock ...
CancelDel ==
  /\ cpc = "del"
  /\ IdleDel(idler[target])
  /\ cpc' = "finished"
  /\ UNCHANGED <<obj, tpc, cancel, lock, idler, finished, body, target, runs>>

\* ... and the struct is finished and freed.
CancelFinished ==
  /\ cpc = "finished"
  /\ FinishedEffect(target)
  /\ cpc' = "none"
  /\ target' = NoWorker
  /\ UNCHANGED <<idlerVars, tpc, cancel, lock, body, runs>>

sol_run ==
  /\ InUserCode
  /\ runs < MaxRuns
  /\ I!sol_run
  /\ runs' = runs + 1
  /\ UNCHANGED <<obj, tpc, cancel, lock, idler, finished, body, cpc, target>>

sol_quit ==
  /\ InUserCode
  /\ I!sol_quit
  /\ UNCHANGED threadVars

-----------------------------------------------------------------------------

\* The worker thread; its iterate() may go on for ever.
Thread(w) ==
  \/ \E ok \in BOOLEAN : Setup(w, ok)
  \/ CancelCheck(w)
  \/ \E again \in BOOLEAN : Iterate(w, again)
  \/ sol_worker_thread_impl_feedback(w) \/ FeedbackAdd(w)
  \/ EndDel(w) \/ EndAdd(w) \/ Exit(w)

Main ==
  \/ MainLoop
  \/ \E h \in Idles : CallIdler(h)
  \/ sol_worker_thread_feedback_dispatch
  \/ sol_worker_thread_finished
  \/ CallbackReturns
  \/ CancelJoin \/ CancelDel \/ CancelFinished

Next ==
  \/ Main
  \/ \E w \in Workers : Thread(w) \/ sol_worker_thread_impl_new(w)
                          \/ sol_worker_thread_impl_cancel(w)
  \/ sol_run \/ sol_quit

Spec == Init /\ [][Next]_vars

\* Threads are scheduled.
FairSpec == Spec /\ WF_vars(Main) /\ \A w \in Workers : WF_vars(Thread(w))

-----------------------------------------------------------------------------
(* Properties.                                                             *)

\* Type invariant; the types of the idlers' state are Idlers' own.
TypeOK ==
  /\ I!TypeOK
  /\ obj \in [Workers -> {"none", "alive", "freed"}]
  /\ tpc \in [Workers -> {"none", "setup", "loop", "iterate", "feedback", "end",
                          "end_add", "returning", "exited"}]
  /\ cancel \in [Workers -> BOOLEAN]
  /\ lock \in [Workers -> BOOLEAN]
  /\ idler \in [Workers -> Idles \cup {NoIdle}]
  /\ finished \in [Workers -> 0..2]
  /\ body \in {"none", "dispatch", "feedback", "finished", "return"}
  /\ cpc \in {"none", "join", "del", "finished"}
  /\ target \in Workers \cup {NoWorker}
  /\ runs \in 0..MaxRuns

\* config.finished() is called at most once, by the idler or by cancel.
FinishedOnce == \A w \in Workers : finished[w] <= 1

\* thread->idler is never a dangling pointer when somebody may look at it: it
\* is NULL or an idler that is still allocated, outside the section in which
\* the worker replaces it.
IdlerPointerValid ==
  \A w \in Workers :
    obj[w] = "alive" /\ tpc[w] # "end_add" /\ idler[w] # NoIdle /\ cpc # "finished"
      => status[idler[w]] # "free"

\* The struct is freed only after the thread has ended, no callback of the main
\* thread is entered with a freed one, and the idler it points to is allocated;
\* besides, the state has its type.
NoUseAfterFree ==
  /\ TypeOK
  /\ IdlerPointerValid
  /\ \A w \in Workers : tpc[w] \notin {"none", "exited"} => obj[w] = "alive"
  /\ body \in {"dispatch", "finished"} => obj[cur[1]] = "alive"
  /\ cpc # "none" => obj[target] = "alive"

\* A thread that ended is joined, reported through finished() and freed, as
\* long as the main loop runs.
EndedIsFinished ==
  \A w \in Workers : (tpc[w] = "exited") ~> (obj[w] = "freed" \/ ~run_loop)
=============================================================================
