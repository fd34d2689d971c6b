--------------------------- MODULE MainLoopWakeup ---------------------------
(***************************************************************************)
(* How the POSIX main loop sleeps and is woken: sol_run() and              *)
(* sol_quit_with_code() (sol-mainloop.c), the run flag and the loop        *)
(* (sol-mainloop-common.c), and the notification pipe, ppoll() and the     *)
(* signal storage of sol-mainloop-impl-posix.c, in the build with PTHREAD. *)
(*                                                                         *)
(* The main thread runs iterations; any number of other threads may post   *)
(* work (sol_idle_add(), sol_timeout_add(0), sol_fd_add() ...: all take    *)
(* ml_lock, link a handler and notify) and call sol_quit(); signals        *)
(* interrupt the main thread wherever it is.  What the work does is not    *)
(* modelled here: a posted item is due at once and is run by the handler   *)
(* phase of the next iteration.                                            *)
(***************************************************************************)
EXTENDS MainLoop, Naturals, Sequences

CONSTANTS
  Workers,        \* the threads other than the main one
  Nobody,         \* "ml_lock is free"
  MaxPosts,       \* bound: how many times one worker posts work
  MaxSignals,     \* bound: how many signals arrive
  SigCapacity,    \* SIGINFO_STORAGE_CAPACITY (64 in the code)
  EarlyThreads    \* TRUE: the application starts threads before sol_run();
                  \* FALSE: threads are started by callbacks of the loop

ASSUME WakeupAssumption ==
  /\ Nobody \notin Workers /\ MainThread \notin Workers /\ MainThread # Nobody
  /\ MaxPosts \in Nat
  /\ MaxSignals \in Nat
  /\ SigCapacity \in Nat \ {0}
  /\ EarlyThreads \in BOOLEAN

VARIABLES
  mainloop_running, \* set by sol_run(), cleared by sol_quit_with_code()
  have_notified,    \* the atomic flag of the notification protocol
  pipe,             \* bytes in the notification pipe
  ml_lock,          \* the holder; a critical section whose every access is
                    \* protected by the lock is one step taken while it is free
  posted,           \* the workers that have unprocessed work linked
  posts,            \* how often each worker has posted (bound)
  lpc,              \* where the main thread is
  wpc,              \* where each worker is
  block,            \* fd_process's ts: TRUE is ppoll(NULL), FALSE is zero
  readable,         \* ppoll reported POLLIN for the pipe
  eintr,            \* a signal was delivered inside ppoll
  siginfo_storage,  \* signals caught and not yet processed
  signals           \* how many signals have arrived (bound)

wakeupVars ==
  <<mainloop_running, run_loop, have_notified, pipe, ml_lock, posted,
    posts, lpc, wpc, block, readable, eintr, siginfo_storage, signals>>

flagVars == <<mainloop_running, run_loop>>
notifyVars == <<have_notified, pipe>>
pollVars == <<block, readable, eintr>>
sigVars == <<siginfo_storage, signals>>
workerVars == <<ml_lock, posted, posts, wpc>>

SignalKind == {"quit", "child"}

WakeupInit ==
  /\ mainloop_running = FALSE
  /\ run_loop = FALSE
  /\ have_notified = FALSE
  /\ pipe = 0
  /\ ml_lock = Nobody
  /\ posted = {}
  /\ posts = [w \in Workers |-> 0]
  /\ lpc = "init"
  /\ wpc = [w \in Workers |-> "user"]
  /\ block = FALSE
  /\ readable = FALSE
  /\ eintr = FALSE
  /\ siginfo_storage = <<>>
  /\ signals = 0

MainGoes(from, to) == lpc = from /\ lpc' = to
WorkerGoes(w, from, to) == wpc[w] = from /\ wpc' = [wpc EXCEPT ![w] = to]

-----------------------------------------------------------------------------
(* The main thread.                                                        *)

\* sol_run() up to the call of the implementation.
sol_run_begin ==
  /\ MainGoes("init", "enter")
  /\ mainloop_running' = TRUE
  /\ UNCHANGED <<run_loop, notifyVars, workerVars, pollVars, sigVars>>

\* sol_mainloop_impl_run() raises the run flag ...
sol_mainloop_impl_run ==
  /\ MainGoes("enter", "check")
  /\ run_loop' = TRUE
  /\ UNCHANGED <<mainloop_running, notifyVars, workerVars, pollVars, sigVars>>

\* ... and tests it before every iteration.  fd_process() tests it again.
loop_check ==
  /\ lpc = "check"
  /\ lpc' = IF run_loop THEN "fd_process" ELSE "returned"
  /\ UNCHANGED <<flagVars, notifyVars, workerVars, pollVars, sigVars>>

fd_process_check ==
  /\ lpc = "fd_process"
  /\ lpc' = IF run_loop THEN "prepare" ELSE "signals"
  /\ UNCHANGED <<flagVars, notifyVars, workerVars, pollVars, sigVars>>

\* fd_process(): the locked section that chooses ppoll's timeout.
fd_prepare ==
  /\ MainGoes("prepare", "ppoll")
  /\ ml_lock = Nobody
  /\ block' = (posted = {})
  /\ eintr' = FALSE
  /\ UNCHANGED <<readable, flagVars, notifyVars, workerVars, sigVars>>

\* ppoll() returns: a descriptor is readable, the timeout is zero, or a
\* signal was delivered while it slept (then no revents are looked at).
ppoll ==
  /\ MainGoes("ppoll", "fds")
  /\ pipe > 0 \/ ~block \/ eintr
  /\ readable' = (pipe > 0 /\ ~eintr)
  /\ UNCHANGED <<block, eintr, flagVars, notifyVars, workerVars, sigVars>>

\* Mutant of fd_process: the callback runs without looking at revents.
MutFdProcessNoRevents ==
  /\ lpc = "fds"
  /\ lpc' = IF run_loop THEN "ack_read" ELSE "signals"
  /\ UNCHANGED <<flagVars, notifyVars, workerVars, pollVars, sigVars>>

\* The loop over the handlers, with main_thread_ack() as the pipe's callback;
\* a cleared run flag ends it.
fd_process ==
  /\ lpc = "fds"
  /\ lpc' = IF run_loop /\ readable THEN "ack_read" ELSE "signals"
  /\ UNCHANGED <<flagVars, notifyVars, workerVars, pollVars, sigVars>>

\* read() from a blocking descriptor: there must be a byte.
main_thread_ack_read ==
  /\ MainGoes("ack_read", "ack_clear")
  /\ ml_lock = Nobody
  /\ pipe > 0
  /\ pipe' = pipe - 1
  /\ ml_lock' = MainThread
  /\ UNCHANGED <<have_notified, posted, posts, wpc, flagVars, pollVars, sigVars>>

\* Mutant of main_thread_ack_clear: the flag is not cleared.
MutAckNoClear ==
  /\ MainGoes("ack_clear", "signals")
  /\ ml_lock' = Nobody
  /\ UNCHANGED <<notifyVars, posted, posts, wpc, flagVars, pollVars, sigVars>>

\* sol_quit() takes no lock, so it may run between the read and the clear.
main_thread_ack_clear ==
  /\ MainGoes("ack_clear", "signals")
  /\ have_notified' = FALSE
  /\ ml_lock' = Nobody
  /\ UNCHANGED <<pipe, posted, posts, wpc, flagVars, pollVars, sigVars>>

\* signals_process(): signals are blocked while the storage is walked, so this
\* is one step.  SIGINT, SIGQUIT and SIGTERM call sol_quit() on this thread.
signals_process ==
  /\ MainGoes("signals", "handlers")
  /\ siginfo_storage' = <<>>
  /\ IF mainloop_running /\ \E i \in DOMAIN siginfo_storage : siginfo_storage[i] = "quit"
     THEN /\ mainloop_running' = FALSE
          /\ run_loop' = FALSE
          /\ have_notified' = TRUE
          /\ pipe' = IF have_notified THEN pipe ELSE pipe + 1
     ELSE UNCHANGED <<flagVars, notifyVars>>
  /\ UNCHANGED <<signals, workerVars, pollVars>>

\* Timeouts and idlers: everything linked by now is run, unless the loop quits.
run_handlers ==
  /\ MainGoes("handlers", "check")
  /\ ml_lock = Nobody
  /\ posted' = IF run_loop THEN {} ELSE posted
  /\ UNCHANGED <<ml_lock, posts, wpc, flagVars, notifyVars, pollVars, sigVars>>

-----------------------------------------------------------------------------
(* The other threads.                                                      *)

WorkersMayAct == EarlyThreads \/ lpc \notin {"init", "enter"}

\* sol_mainloop_impl_{idle,timeout,fd,child_watch,source}_add(): ml_lock is
\* taken and the handler is linked.
Post(w) ==
  /\ WorkersMayAct
  /\ WorkerGoes(w, "user", "post_notify")
  /\ posts[w] < MaxPosts
  /\ ml_lock = Nobody
  /\ ml_lock' = w
  /\ posted' = posted \cup {w}
  /\ posts' = [posts EXCEPT ![w] = @ + 1]
  /\ UNCHANGED <<lpc, flagVars, notifyVars, pollVars, sigVars>>

\* Mutant of PostNotify: the handler is linked without a notification.
MutPostNoNotify(w) ==
  /\ WorkerGoes(w, "post_notify", "user")
  /\ ml_lock' = Nobody
  /\ UNCHANGED <<lpc, notifyVars, posted, posts, flagVars, pollVars, sigVars>>

\* sol_mainloop_common_main_thread_check_notify() with the lock held.
PostNotify(w) ==
  /\ wpc[w] = "post_notify"
  /\ have_notified' = TRUE
  /\ IF have_notified
     THEN /\ wpc' = [wpc EXCEPT ![w] = "user"]
          /\ ml_lock' = Nobody
     ELSE /\ wpc' = [wpc EXCEPT ![w] = "post_write"]
          /\ UNCHANGED ml_lock
  /\ UNCHANGED <<lpc, pipe, posted, posts, flagVars, pollVars, sigVars>>

PostWrite(w) ==
  /\ WorkerGoes(w, "post_write", "user")
  /\ pipe' = pipe + 1
  /\ ml_lock' = Nobody
  /\ UNCHANGED <<lpc, have_notified, posted, posts, flagVars, pollVars, sigVars>>

\* sol_quit_with_code(): returns at once when the loop is not running.
sol_quit_with_code(w) ==
  /\ WorkersMayAct
  /\ mainloop_running
  /\ WorkerGoes(w, "user", "quit_running")
  /\ UNCHANGED <<lpc, ml_lock, posted, posts, flagVars, notifyVars, pollVars, sigVars>>

QuitRunning(w) ==
  /\ WorkerGoes(w, "quit_running", "quit_loop")
  /\ mainloop_running' = FALSE
  /\ UNCHANGED <<lpc, run_loop, ml_lock, posted, posts, notifyVars, pollVars, sigVars>>

\* sol_mainloop_impl_quit(): no lock is taken.
sol_mainloop_impl_quit(w) ==
  /\ WorkerGoes(w, "quit_loop", "quit_notify")
  /\ run_loop' = FALSE
  /\ UNCHANGED <<lpc, mainloop_running, ml_lock, posted, posts, notifyVars, pollVars, sigVars>>

\* Mutant of QuitNotify: writes whether or not a byte is on its way.
MutQuitAlwaysWrites(w) ==
  /\ WorkerGoes(w, "quit_notify", "quit_write")
  /\ have_notified' = TRUE
  /\ UNCHANGED <<lpc, pipe, ml_lock, posted, posts, flagVars, pollVars, sigVars>>

\* Mutant of QuitNotify: the flag is raised, the byte is not written.
MutQuitNoWrite(w) ==
  /\ WorkerGoes(w, "quit_notify", "user")
  /\ have_notified' = TRUE
  /\ UNCHANGED <<lpc, pipe, ml_lock, posted, posts, flagVars, pollVars, sigVars>>

\* sol_mainloop_impl_main_thread_notify() as called by sol_mainloop_impl_quit().
QuitNotify(w) ==
  /\ wpc[w] = "quit_notify"
  /\ have_notified' = TRUE
  /\ wpc' = [wpc EXCEPT ![w] = IF have_notified THEN "user" ELSE "quit_write"]
  /\ UNCHANGED <<lpc, pipe, ml_lock, posted, posts, flagVars, pollVars, sigVars>>

QuitWrite(w) ==
  /\ WorkerGoes(w, "quit_write", "user")
  /\ pipe' = pipe + 1
  /\ UNCHANGED <<lpc, have_notified, ml_lock, posted, posts, flagVars, pollVars, sigVars>>

-----------------------------------------------------------------------------
(* Signals.  They are not blocked while the loop runs, so sighandler() may  *)
(* interrupt the main thread at any point; workers have them blocked.      *)

sighandler(kind) ==
  /\ signals < MaxSignals
  /\ lpc # "returned"
  /\ signals' = signals + 1
  /\ siginfo_storage' = IF Len(siginfo_storage) >= SigCapacity
                        THEN siginfo_storage
                        ELSE Append(siginfo_storage, kind)
  /\ eintr' = (eintr \/ lpc = "ppoll")
  /\ UNCHANGED <<lpc, block, readable, flagVars, notifyVars, workerVars>>

-----------------------------------------------------------------------------

Main ==
  \/ sol_run_begin \/ sol_mainloop_impl_run \/ loop_check \/ fd_process_check
  \/ fd_prepare \/ ppoll \/ fd_process
  \/ main_thread_ack_read \/ main_thread_ack_clear
  \/ signals_process \/ run_handlers

\* What a thread does once it has entered an API function.
InCall(w) ==
  \/ PostNotify(w) \/ PostWrite(w)
  \/ QuitRunning(w) \/ sol_mainloop_impl_quit(w) \/ QuitNotify(w) \/ QuitWrite(w)

WakeupNext ==
  \/ Main
  \/ \E w \in Workers : Post(w) \/ sol_quit_with_code(w) \/ InCall(w)
  \/ \E k \in SignalKind : sighandler(k)

WakeupSpec == WakeupInit /\ [][WakeupNext]_wakeupVars

\* The kernel schedules every runnable thread; nobody has to post or quit.
Fairness == WF_wakeupVars(Main) /\ \A w \in Workers : WF_wakeupVars(InCall(w))

WakeupFairSpec == WakeupSpec /\ Fairness

-----------------------------------------------------------------------------
(* Properties.                                                             *)

MainPC == {"init", "enter", "check", "fd_process", "prepare", "ppoll", "fds",
           "ack_read", "ack_clear", "signals", "handlers", "returned"}

WorkerPC == {"user", "post_notify", "post_write", "quit_running", "quit_loop",
             "quit_notify", "quit_write"}

\* Type invariant.  pipe <= 1 is part of it: the notification flag keeps the
\* number of unread bytes at one, so write() on the blocking pipe, made with
\* ml_lock held, never waits.
WakeupTypeOK ==
  /\ mainloop_running \in BOOLEAN
  /\ run_loop \in BOOLEAN
  /\ have_notified \in BOOLEAN
  /\ pipe \in {0, 1}
  /\ ml_lock \in Workers \cup {MainThread, Nobody}
  /\ posted \subseteq Workers
  /\ posts \in [Workers -> 0..MaxPosts]
  /\ lpc \in MainPC
  /\ wpc \in [Workers -> WorkerPC]
  /\ block \in BOOLEAN
  /\ readable \in BOOLEAN
  /\ eintr \in BOOLEAN
  /\ siginfo_storage \in Seq(SignalKind)
  /\ Len(siginfo_storage) <= SigCapacity
  /\ signals \in 0..MaxSignals

Writers == {w \in Workers : wpc[w] \in {"post_write", "quit_write"}}
Notifiers == {w \in Workers : wpc[w] \in {"post_notify", "quit_notify"}}

\* A byte is in the pipe, or a thread is about to put one there or to find
\* that somebody else has.
WakeComing == pipe > 0 \/ Writers # {} \/ Notifiers # {}

\* The main thread never sleeps in ppoll() without a timeout while work posted
\* by another thread is linked, or the loop was told to stop, unless a wakeup
\* is on its way: sol_mainloop_impl_main_thread_notify() may skip its write()
\* only when another one is still going to be noticed.
NoLostWakeup ==
  lpc = "ppoll" /\ block /\ (posted # {} \/ ~run_loop) => WakeComing

\* main_thread_ack() reads the pipe with ml_lock held and the descriptor is
\* blocking: when it gets there, the byte that ppoll() saw is still there, so
\* the loop cannot block inside the lock.
AckNeverBlocks == lpc = "ack_read" => pipe > 0

\* Work linked by another thread is run, or the loop is stopped: the pair
\* have_notified/pipe never lets the loop sleep over it.
PostedWorkRuns ==
  \A w \in Workers : (w \in posted) ~> (w \notin posted \/ ~run_loop)

\* A sol_quit() of another thread that found the loop running stops it.
QuitStops ==
  \A w \in Workers : (wpc[w] = "quit_loop") ~> (lpc = "returned")
=============================================================================
