-------------------------- MODULE HandlerLifecycle --------------------------
(***************************************************************************)
(* What sol_idle_add()/sol_idle_del(), sol_timeout_add()/sol_timeout_del() *)
(* and sol_fd_add()/sol_fd_del() promise their callers, whatever the       *)
(* vectors, counters and flags behind them: a handler is called only while *)
(* it is live, its memory outlives the callback that is running on it, and *)
(* only deleted memory is given back.  Idlers, Timeouts and Descriptors    *)
(* implement this module.                                                  *)
(***************************************************************************)
EXTENDS Naturals

CONSTANTS
  Handles,    \* addresses of handlers; malloc() may return one again
  NoHandle    \* "no callback is running"

VARIABLES
  phase,      \* per handle: "free" memory, "live", or "dead" (to be freed)
  running     \* the handle whose callback is on the stack

lifecycleVars == <<phase, running>>

Phase == {"free", "live", "dead"}

LInit ==
  /\ phase = [h \in Handles |-> "free"]
  /\ running = NoHandle

Add(h) ==
  /\ phase[h] = "free"
  /\ phase' = [phase EXCEPT ![h] = "live"]
  /\ UNCHANGED running

Start(h) ==
  /\ running = NoHandle
  /\ phase[h] = "live"
  /\ running' = h
  /\ UNCHANGED phase

\* The callback returns TRUE and stays as it is, or FALSE and is removed.
Finish(keep) ==
  /\ running # NoHandle
  /\ running' = NoHandle
  /\ phase' = IF keep THEN phase ELSE [phase EXCEPT ![running] = "dead"]

\* Deletion frees at once, together with whatever was waiting, or later.
Del(h) ==
  /\ phase[h] = "live"
  /\ \E S \in SUBSET {k \in Handles : phase[k] = "dead" \/ k = h} :
       /\ running \notin S
       /\ phase' = [k \in Handles |-> IF k \in S THEN "free"
                                      ELSE IF k = h THEN "dead" ELSE phase[k]]
  /\ UNCHANGED running

\* The sweep after a pass.
Free(S) ==
  /\ S # {}
  /\ running \notin S
  /\ \A h \in S : phase[h] = "dead"
  /\ phase' = [h \in Handles |-> IF h \in S THEN "free" ELSE phase[h]]
  /\ UNCHANGED running

\* sol_shutdown() frees the handlers that are still linked, live or dead.
Shutdown ==
  /\ running = NoHandle
  /\ phase' = [h \in Handles |-> "free"]
  /\ UNCHANGED running

LNext ==
  \/ \E h \in Handles : Add(h) \/ Start(h) \/ Del(h)
  \/ \E keep \in BOOLEAN : Finish(keep)
  \/ \E S \in SUBSET Handles : Free(S)
  \/ Shutdown

LSpec == LInit /\ [][LNext]_lifecycleVars
=============================================================================
