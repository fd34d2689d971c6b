------------------------------ MODULE MainLoop ------------------------------
(***************************************************************************)
(* What the wakeup protocol and the sources both see of the main loop.     *)
(***************************************************************************)

CONSTANT
  MainThread    \* the thread that called sol_init()

VARIABLE
  run_loop      \* the atomic flag that sol_mainloop_impl_run() tests
=============================================================================
