------------------------- MODULE WorkerThreadProofs -------------------------
(***************************************************************************)
(* Worker threads on top of the idlers, for any finite set of workers and  *)
(* of idlers: the struct of a worker is not used after it is freed, and    *)
(* finished() is called once.                                              *)
(*                                                                         *)
(* A worker's struct is freed by its finishing idler or by cancel, and     *)
(* both kinds of idler have a pointer to it.  No callback finds it freed   *)
(* because the finishing idler is always behind every feedback idler that  *)
(* can still be called (WaitsFor, FeedbackInv), and because cancel deletes *)
(* the one idler that is left after it joined the thread (FinInv).  That   *)
(* is so if no worker both sends feedback and is cancelled, and if         *)
(* sol_run() is called once: a feedback that is dispatched after the       *)
(* thread ended clears thread->idler, which then is the finishing idler,   *)
(* and a second run finds the finishing idler in front of a feedback idler *)
(* that the first one, told to stop, did not come to.                      *)
(*                                                                         *)
(* The idlers themselves are those of Idlers (UsesIdlers), whose theorems  *)
(* are instantiated here.                                                  *)
(***************************************************************************)
EXTENDS WorkerThread, FiniteSetTheorems, TLAPS

P == INSTANCE IdlersProofs WITH OtherThreadsDel <- TRUE

Fin(w) == <<w, Finished>>
Feedbacks(w) == {<<w, f>> : f \in FeedbackIdlers}

\* The idler is not called any more, unless it is allocated anew.
Dead(h) == status[h] \in {"free", "deleted"} /\ cur # h
Executing(h) == cur = h /\ mpc = "cb"

\* The main loop may still call idlers.
Calls == run_loop \/ runs = 0

Ending == {"end_add", "returning", "exited"}
Ended == {"returning", "exited"}

\* The types of the worker threads' own state.
ThreadTypes ==
  /\ obj \in [Workers -> {"none", "alive", "freed"}]
  /\ tpc \in [Workers -> {"none", "setup", "loop", "iterate", "feedback", "end",
                          "end_add", "returning", "exited"}]
  /\ cancel \in [Workers -> BOOLEAN]
  /\ lock \in [Workers -> BOOLEAN]
  /\ idler \in [Workers -> Idles \cup {NoIdle}]
  /\ finished \in [Workers -> Nat]
  /\ body \in {"none", "dispatch", "feedback", "finished", "return"}
  /\ cpc \in {"none", "join", "del", "finished"}
  /\ target \in Workers \cup {NoWorker}
  /\ cpc # "none" => target \in Workers
  /\ runs \in 0..MaxRuns

\* What is used of the invariant of Idlers.
IdlersInv ==
  /\ I!TypeOK
  /\ I!NoDanglingIdler
  /\ idler_processing <=> mpc \notin {"outside", "shutdown"}
  /\ ~idler_processing => idler_v_process = {}
  /\ cur # NoIdle <=> mpc \in {"awaken", "settle_awaken", "cb"}

\* More about the idlers' own state.
LinkInv ==
  /\ mpc # "shutdown"
  /\ idler_processing => \A h \in idler_vector : status[h] # "ready"
  /\ cur \notin todo

ThreadOK(w) ==
  /\ obj[w] = "none" <=> tpc[w] = "none"
  /\ obj[w] = "freed" => tpc[w] = "exited"
  /\ lock[w] <=> tpc[w] = "end_add"
  /\ tpc[w] = "feedback" => w \in FeedbackWorkers
  /\ cancel[w] => w \in CancelWorkers /\ obj[w] # "none"
  /\ cancel[w] /\ obj[w] = "alive" => cpc # "none" /\ target = w
  /\ finished[w] = IF obj[w] = "freed" THEN 1 ELSE 0

ThreadInv == \A w \in Workers : ThreadOK(w)

\* The main thread: where it is in a callback and in a cancellation.
MainInv ==
  /\ body # "none" <=> mpc = "cb"
  /\ body \in {"dispatch", "feedback"} => cur[2] # Finished
  /\ body \in {"finished", "return"} => cur[2] = Finished
  /\ body \in {"dispatch", "finished"} => obj[cur[1]] = "alive"
  /\ body = "return" => obj[cur[1]] = "freed"
  /\ cpc # "none" => /\ target \in CancelWorkers /\ obj[target] = "alive"
                     /\ mpc \in {"outside", "timeouts"} \/ body \in {"feedback", "return"}
  /\ cpc \in {"del", "finished"} => tpc[target] = "exited"
  /\ runs = 0 => mpc = "outside" /\ ~run_loop

\* The idler that finishes the thread.
FinOK(w) ==
  /\ tpc[w] \notin Ended => status[Fin(w)] = "free" /\ idler[w] \in Feedbacks(w) \cup {NoIdle}
  /\ tpc[w] \in Ended => idler[w] \in {Fin(w), NoIdle}
  /\ tpc[w] \in Ended /\ obj[w] = "alive" =>
       /\ w \in CancelWorkers => idler[w] = Fin(w)
       /\ IF cpc = "finished" /\ target = w THEN Dead(Fin(w))
          ELSE status[Fin(w)] \in {"ready", "next"}
  /\ obj[w] = "freed" => Dead(Fin(w)) \/ (cur = Fin(w) /\ body = "return")

FinInv == \A w \in Workers : FinOK(w)

\* The idler fin waits until g has been called.
WaitsFor(fin, g) ==
  \/ fin \in idler_vector /\ g \in idler_v_process /\ status[fin] = "next"
  \/ fin \in idler_vector /\ g \in idler_vector /\ (status[fin] = "next" \/ <<g, fin>> \in before)
  \/ /\ mpc \in {"scan", "awaken", "cb", "timeouts"}
     /\ fin \in idler_v_process /\ g \in todo
     /\ fin \in todo => status[fin] = "next" \/ <<g, fin>> \in before

FeedbackOK(w, g) ==
  /\ w \notin FeedbackWorkers \/ tpc[w] = "none" => status[g] = "free"
  /\ tpc[w] \notin Ending /\ g = idler[w] =>
       /\ status[g] \in {"ready", "next"}
       /\ Executing(g) => body = "dispatch" /\ status[g] = "ready"
  /\ tpc[w] \notin Ending /\ g # idler[w] =>
       Dead(g) \/ (Executing(g) /\ body = "feedback" /\ status[g] = "ready")
  /\ tpc[w] \in Ending => status[g] # "next"
  /\ tpc[w] \in Ended /\ Calls => Dead(g) \/ Executing(g) \/ WaitsFor(Fin(w), g)
  /\ obj[w] = "freed" \/ (body = "finished" /\ cur = Fin(w)) => Dead(g)

FeedbackInv == \A w \in Workers : \A g \in Feedbacks(w) : FeedbackOK(w, g)

WInv == LinkInv /\ ThreadInv /\ MainInv /\ FinInv /\ FeedbackInv

-----------------------------------------------------------------------------
(* The idlers of the workers.                                              *)

\* The addresses of a worker's idlers tell the worker and the callback.
LEMMA Addresses ==
  /\ \A w \in Workers : Fin(w) \in Idles /\ Fin(w)[1] = w /\ Fin(w)[2] = Finished
  /\ \A w \in Workers : \A g \in Feedbacks(w) : g \in Idles /\ g[1] = w /\ g[2] # Finished
  /\ \A h \in Idles : /\ h[1] \in Workers
                      /\ h[2] = Finished => h = Fin(h[1])
                      /\ h[2] # Finished => h \in Feedbacks(h[1])
  /\ NoIdle \notin Idles
  BY WorkerAssumption DEF Fin, Feedbacks, Idles

\* There are finitely many of them.
LEMMA FiniteIdles == IsFiniteSet(Idles)
  <1>1. IsFiniteSet(FeedbackIdlers \cup {Finished})
        BY WorkerAssumption, FS_AddElement
  <1>2. QED
        BY <1>1, WorkerAssumption, FS_Product DEF Idles

-----------------------------------------------------------------------------
(* Steps of a thread that leave the idlers alone.                          *)

\* All of it together.
Inv == IdlersInv /\ ThreadTypes /\ WInv

\* Thread u goes on to another place, and is made by the first such step.
Moves(u, to) ==
  /\ tpc' = [tpc EXCEPT ![u] = to]
  /\ to \in {"setup", "loop", "iterate", "feedback", "end", "exited"}
  /\ tpc[u] = "returning" <=> to = "exited"
  /\ tpc[u] \notin {"end_add", "exited"}
  /\ to = "feedback" => u \in FeedbackWorkers
  /\ IF tpc[u] = "none" THEN obj' = [obj EXCEPT ![u] = "alive"] ELSE UNCHANGED obj
  /\ UNCHANGED <<idlerVars, cancel, lock, idler, finished, body, cpc, target, runs>>

\* A callback runs for one of the workers' idlers.
LEMMA CallbackOf ==
  ASSUME Inv
  PROVE  /\ cur # NoIdle => cur \in Idles /\ cur \in idler_v_process /\ status[cur] # "free"
         /\ mpc = "cb" => cur \in Idles /\ cur[1] \in Workers
         /\ body # "none" => cur \in Idles /\ cur[1] \in Workers
         /\ cpc # "none" => target \in Workers
  BY Addresses, WorkerAssumption
     DEF Inv, IdlersInv, WInv, MainInv, I!TypeOK, I!NoDanglingIdler

\* Most steps of a thread only move it on.
LEMMA ThreadMoves ==
  ASSUME Inv, NEW u \in Workers,
         \/ sol_worker_thread_impl_new(u) \/ CancelCheck(u) \/ Exit(u)
         \/ sol_worker_thread_impl_feedback(u)
         \/ \E ok \in BOOLEAN : Setup(u, ok) \/ Iterate(u, ok)
         \/ FeedbackAdd(u) /\ idler[u] # NoIdle
  PROVE  \E to : Moves(u, to)
  <1> USE DEF Moves, ThreadGoes, idlerVars
  <1>1. CASE sol_worker_thread_impl_new(u)
    <2>1. Moves(u, "setup")
          BY <1>1 DEF sol_worker_thread_impl_new
    <2>2. QED
          BY <2>1
  <1>2. CASE CancelCheck(u)
    <2>1. Moves(u, IF cancel[u] THEN "end" ELSE "iterate")
          BY <1>2 DEF CancelCheck
    <2>2. QED
          BY <2>1
  <1>3. CASE Exit(u)
    <2>1. Moves(u, "exited")
          BY <1>3 DEF Exit
    <2>2. QED
          BY <2>1
  <1>4. CASE sol_worker_thread_impl_feedback(u)
    <2>1. Moves(u, IF cancel[u] THEN "loop" ELSE "feedback")
          BY <1>4 DEF sol_worker_thread_impl_feedback
    <2>2. QED
          BY <2>1
  <1>5. CASE \E ok \in BOOLEAN : Setup(u, ok) \/ Iterate(u, ok)
    <2>1. Moves(u, "loop") \/ Moves(u, "end")
          BY <1>5 DEF Setup, Iterate
    <2>2. QED
          BY <2>1
  <1>6. CASE FeedbackAdd(u) /\ idler[u] # NoIdle
    <2>1. Moves(u, "loop")
          BY <1>6 DEF FeedbackAdd
    <2>2. QED
          BY <2>1
  <1>7. QED
        BY <1>1, <1>2, <1>3, <1>4, <1>5, <1>6

\* Moving on keeps the invariant: the idlers and the main thread do not see it.
LEMMA MovesPreserves ==
  ASSUME Inv, NEW u \in Workers, NEW to, Moves(u, to)
  PROVE  WInv'
  <1> USE DEF Inv, WInv, Moves, idlerVars, Ended, Ending
  <1>1. LinkInv'
        BY DEF LinkInv
  <1>2. MainInv'
    <2>1. tpc[u] = "none" => obj[u] = "none"
          BY DEF ThreadInv, ThreadOK
    <2>2. /\ body \in {"dispatch", "finished"} => obj'[cur[1]] = "alive"
          /\ body = "return" => obj'[cur[1]] = "freed"
          BY <2>1, CallbackOf DEF MainInv, ThreadTypes
    <2>3. cpc # "none" => obj'[target] = "alive"
          BY <2>1, CallbackOf DEF MainInv, ThreadTypes
    <2>4. cpc \in {"del", "finished"} => tpc'[target] = "exited"
          BY DEF MainInv, ThreadTypes
    <2>5. QED
          BY <2>2, <2>3, <2>4 DEF MainInv
  <1>3. ASSUME NEW w \in Workers PROVE ThreadOK(w)' /\ FinOK(w)'
    <2>1. ThreadOK(w) /\ FinOK(w)
          BY DEF ThreadInv, FinInv
    <2>2. CASE w = u
      <3>1. ThreadOK(w)'
            BY <2>1, <2>2 DEF ThreadOK, ThreadTypes
      <3>2. FinOK(w)'
            BY <2>1, <2>2 DEF ThreadOK, FinOK, ThreadTypes, Dead
      <3>3. QED
            BY <3>1, <3>2
    <2>3. CASE w # u
      <3>1. tpc'[w] = tpc[w] /\ obj'[w] = obj[w]
            BY <2>3 DEF ThreadTypes
      <3>2. QED
            BY <2>1, <3>1 DEF ThreadOK, FinOK, Dead
    <2>4. QED
          BY <2>2, <2>3
  <1>4. ASSUME NEW w \in Workers, NEW g \in Feedbacks(w) PROVE FeedbackOK(w, g)'
    <2>1. FeedbackOK(w, g) /\ ThreadOK(w)
          BY DEF FeedbackInv, ThreadInv
    <2>2. (Dead(g)' <=> Dead(g)) /\ (Executing(g)' <=> Executing(g)) /\ (Calls' <=> Calls)
          /\ (WaitsFor(Fin(w), g)' <=> WaitsFor(Fin(w), g))
          BY DEF Dead, Executing, Calls, WaitsFor, Fin
    <2>3. CASE w = u
          BY <2>1, <2>2, <2>3 DEF ThreadOK, FeedbackOK, ThreadTypes
    <2>4. CASE w # u
      <3>1. tpc'[w] = tpc[w] /\ obj'[w] = obj[w]
            BY <2>4 DEF ThreadTypes
      <3>2. QED
            BY <2>1, <2>2, <3>1 DEF FeedbackOK, Fin
    <2>5. QED
          BY <2>3, <2>4
  <1>5. QED
        BY <1>1, <1>2, <1>3, <1>4 DEF ThreadInv, FinInv, FeedbackInv, Feedbacks

-----------------------------------------------------------------------------
(* Steps that add an idler.                                                *)

\* What is added was free, so that nobody is visiting it.
LEMMA Added ==
  ASSUME Inv, NEW h \in Idles, I!sol_idle_add(h)
  PROVE  /\ status[h] = "free" /\ cur # h /\ h \notin idler_v_process /\ h \notin todo
         /\ status' = [status EXCEPT ![h] = IF idler_processing THEN "next" ELSE "ready"]
         /\ status'[h] = IF idler_processing THEN "next" ELSE "ready"
         /\ \A k \in Idles : k # h => status'[k] = status[k]
         /\ idler_vector' = idler_vector \cup {h}
         /\ before' = before \cup (idler_vector \X {h})
         /\ UNCHANGED <<idler_v_process, idler_processing, run_loop, mpc, todo, cur>>
         /\ LinkInv'
  <1>1. /\ status[h] = "free"
        /\ status' = [status EXCEPT ![h] = IF idler_processing THEN "next" ELSE "ready"]
        /\ idler_vector' = idler_vector \cup {h}
        /\ before' = before \cup (idler_vector \X {h})
        /\ UNCHANGED <<idler_v_process, idler_processing, run_loop, mpc, todo, cur>>
        BY DEF I!sol_idle_add, I!countVars
  <1>2. cur # h /\ h \notin idler_v_process /\ h \notin todo
        BY <1>1, Addresses DEF Inv, IdlersInv, I!NoDanglingIdler
  <1>3. status'[h] = (IF idler_processing THEN "next" ELSE "ready")
        /\ \A k \in Idles : k # h => status'[k] = status[k]
        BY <1>1 DEF Inv, IdlersInv, I!TypeOK
  <1>4. LinkInv'
        BY <1>1, <1>3 DEF Inv, WInv, LinkInv, IdlersInv, I!TypeOK
  <1>5. QED
        BY <1>1, <1>2, <1>3, <1>4

\* Adding h does not disturb the idlers of other workers.
LEMMA AddedOther ==
  ASSUME Inv, NEW h \in Idles, I!sol_idle_add(h), NEW w \in Workers, h[1] # w,
         tpc'[w] = tpc[w], obj'[w] = obj[w], idler'[w] = idler[w],
         UNCHANGED <<body, cpc, target, runs>>
  PROVE  FinOK(w)' /\ \A g \in Feedbacks(w) : FeedbackOK(w, g)'
  <1>1. /\ status'[Fin(w)] = status[Fin(w)]
        /\ \A g \in Feedbacks(w) : status'[g] = status[g]
        /\ UNCHANGED <<idler_v_process, run_loop, mpc, todo, cur>>
        /\ idler_vector \subseteq idler_vector' /\ before \subseteq before'
        BY Added, Addresses
  <1>2. FinOK(w)'
    <2>1. FinOK(w)
          BY DEF Inv, WInv, FinInv
    <2>2. QED
          BY <1>1, <2>1 DEF FinOK, Dead, Fin
  <1>3. ASSUME NEW g \in Feedbacks(w) PROVE FeedbackOK(w, g)'
    <2>1. FeedbackOK(w, g)
          BY DEF Inv, WInv, FeedbackInv
    <2>2. (Dead(g)' <=> Dead(g)) /\ (Executing(g)' <=> Executing(g)) /\ (Calls' <=> Calls)
          BY <1>1 DEF Dead, Executing, Calls
    <2>3. WaitsFor(Fin(w), g) => WaitsFor(Fin(w), g)'
          BY <1>1 DEF WaitsFor, Fin
    <2>4. QED
          BY <1>1, <2>1, <2>2, <2>3 DEF FeedbackOK, Fin
  <1>4. QED
        BY <1>2, <1>3

\* sol_worker_thread_feedback() adds an idler only when none is pending.
LEMMA FeedbackAddPreserves ==
  ASSUME Inv, NEW u \in Workers, FeedbackAdd(u), idler[u] = NoIdle
  PROVE  WInv'
  <1>1. PICK h \in Feedbacks(u) : I!sol_idle_add(h) /\ idler' = [idler EXCEPT ![u] = h]
        BY DEF FeedbackAdd, Feedbacks
  <1>2. /\ tpc[u] = "feedback" /\ tpc' = [tpc EXCEPT ![u] = "loop"] /\ ~lock[u]
        /\ UNCHANGED <<obj, cancel, lock, finished, body, cpc, target, runs>>
        BY DEF FeedbackAdd, ThreadGoes
  <1>3. h \in Idles /\ h[1] = u /\ h[2] # Finished
        BY Addresses
  <1>4. LinkInv' /\ UNCHANGED <<run_loop, mpc, cur>>
        BY <1>1, <1>3, Added
  <1> USE DEF Inv, WInv
  <1>5. MainInv'
    <2>1. cpc \in {"del", "finished"} => tpc'[target] = "exited"
          BY <1>2 DEF MainInv, ThreadTypes
    <2>2. QED
          BY <1>2, <1>4, <2>1 DEF MainInv
  <1>6. ASSUME NEW w \in Workers
        PROVE  ThreadOK(w)' /\ FinOK(w)' /\ \A g \in Feedbacks(w) : FeedbackOK(w, g)'
    <2>1. ThreadOK(w) /\ FinOK(w) /\ \A g \in Feedbacks(w) : FeedbackOK(w, g)
          BY DEF ThreadInv, FinInv, FeedbackInv
    <2>2. ThreadOK(w)'
          BY <1>2, <2>1 DEF ThreadOK, ThreadTypes
    <2>3. CASE w # u
      <3>1. tpc'[w] = tpc[w] /\ obj'[w] = obj[w] /\ idler'[w] = idler[w]
            BY <1>1, <1>2, <2>3 DEF ThreadTypes
      <3>2. QED
            BY <1>1, <1>2, <1>3, <2>2, <2>3, <3>1, AddedOther
    <2>4. CASE w = u
      <3>1. tpc'[w] = "loop" /\ obj'[w] = "alive" /\ idler'[w] = h /\ w \in FeedbackWorkers
            BY <1>1, <1>2, <2>1, <2>4 DEF ThreadTypes, ThreadOK
      <3>2. status'[Fin(w)] = "free" /\ cur # Fin(w) /\ Fin(w) \in Idles
        <4>1. status[Fin(w)] = "free" /\ Fin(w) # h /\ Fin(w) \in Idles /\ NoIdle \notin Idles
              BY <1>2, <1>3, <2>1, <2>4, Addresses DEF FinOK, Ended
        <4>2. QED
              BY <1>1, <1>3, <4>1, Added DEF IdlersInv, I!NoDanglingIdler
      <3>3. FinOK(w)'
            BY <2>4, <3>1, <3>2 DEF FinOK, Ended, Fin
      <3>4. ASSUME NEW g \in Feedbacks(w) PROVE FeedbackOK(w, g)'
        <4>1. g \in Idles /\ FeedbackOK(w, g) /\ g # idler[w]
              BY <2>1, <2>4, Addresses
        <4>2. CASE g = h
          <5>1. status'[g] \in {"ready", "next"} /\ cur' # g
                BY <1>1, <1>3, <4>2, Added
          <5>2. QED
                BY <1>4, <3>1, <3>2, <4>2, <5>1 DEF FeedbackOK, Ended, Ending, Executing, Fin
        <4>3. CASE g # h
          <5>1. status'[g] = status[g] /\ (Dead(g)' <=> Dead(g)) /\ (Executing(g)' <=> Executing(g))
                BY <1>1, <1>3, <1>4, <4>1, <4>3, Added DEF Dead, Executing
          <5>2. Dead(g) \/ (Executing(g) /\ body = "feedback" /\ status[g] = "ready")
                BY <1>2, <2>4, <4>1 DEF FeedbackOK, Ending
          <5>3. QED
                BY <1>2, <1>4, <3>1, <3>2, <4>3, <5>1, <5>2 DEF FeedbackOK, Ended, Ending, Fin
        <4>4. QED
              BY <4>2, <4>3
      <3>5. QED
            BY <2>2, <3>3, <3>4
    <2>5. QED
          BY <2>3, <2>4
  <1>7. QED
        BY <1>4, <1>5, <1>6 DEF ThreadInv, FinInv, FeedbackInv, Feedbacks

\* The finishing idler is put behind the feedback idlers that may still be called.
LEMMA EndAddPreserves ==
  ASSUME Inv, NEW u \in Workers, EndAdd(u)
  PROVE  WInv'
  <1>1. /\ I!sol_idle_add(Fin(u)) /\ idler' = [idler EXCEPT ![u] = Fin(u)]
        /\ tpc[u] = "end_add" /\ tpc' = [tpc EXCEPT ![u] = "returning"]
        /\ lock' = [lock EXCEPT ![u] = FALSE]
        /\ UNCHANGED <<obj, cancel, finished, body, cpc, target, runs>>
        BY DEF EndAdd, ThreadGoes, Fin
  <1>2. Fin(u) \in Idles /\ Fin(u)[1] = u
        BY Addresses
  <1>3. LinkInv' /\ UNCHANGED <<run_loop, mpc, cur>> /\ cur # Fin(u)
        BY <1>1, <1>2, Added
  <1> USE DEF Inv, WInv
  <1>4. cpc \in {"del", "finished"} => tpc'[target] = "exited" /\ target # u
        BY <1>1 DEF MainInv, ThreadTypes
  <1>5. MainInv'
        BY <1>1, <1>3, <1>4 DEF MainInv
  <1>6. ASSUME NEW w \in Workers
        PROVE  ThreadOK(w)' /\ FinOK(w)' /\ \A g \in Feedbacks(w) : FeedbackOK(w, g)'
    <2>1. ThreadOK(w) /\ FinOK(w) /\ \A g \in Feedbacks(w) : FeedbackOK(w, g)
          BY DEF ThreadInv, FinInv, FeedbackInv
    <2>2. ThreadOK(w)'
          BY <1>1, <2>1 DEF ThreadOK, ThreadTypes
    <2>3. CASE w # u
      <3>1. tpc'[w] = tpc[w] /\ obj'[w] = obj[w] /\ idler'[w] = idler[w]
            BY <1>1, <2>3 DEF ThreadTypes
      <3>2. QED
            BY <1>1, <1>2, <2>2, <2>3, <3>1, AddedOther
    <2>4. CASE w = u
      <3>1. tpc'[w] = "returning" /\ obj'[w] = "alive" /\ idler'[w] = Fin(w)
            BY <1>1, <2>1, <2>4 DEF ThreadTypes, ThreadOK
      <3>2. status'[Fin(w)] \in {"ready", "next"}
            BY <1>1, <1>2, <2>4, Added
      <3>3. FinOK(w)'
            BY <1>1, <1>4, <2>4, <3>1, <3>2 DEF FinOK, Ended, Fin
      <3>4. ASSUME NEW g \in Feedbacks(w) PROVE FeedbackOK(w, g)'
        <4>1. g \in Idles /\ FeedbackOK(w, g) /\ g # Fin(u)
              BY <2>1, <2>4, Addresses
        <4>2. status[g] # "next" /\ (w \notin FeedbackWorkers => status[g] = "free")
              BY <1>1, <2>4, <4>1 DEF FeedbackOK, Ending
        <4>3. status'[g] = status[g] /\ (Dead(g)' <=> Dead(g)) /\ (Executing(g)' <=> Executing(g))
              BY <1>1, <1>2, <1>3, <4>1, Added DEF Dead, Executing
        <4>4. Dead(g) \/ Executing(g) \/ WaitsFor(Fin(w), g)'
          <5>1. SUFFICES ASSUME ~Dead(g), ~Executing(g) PROVE WaitsFor(Fin(w), g)'
                OBVIOUS
          <5>2. g \in idler_vector \cup idler_v_process
                BY <4>1, <5>1, CallbackOf, Addresses DEF Dead, IdlersInv, I!NoDanglingIdler
          <5>3. /\ Fin(w) \in idler_vector' /\ idler_v_process' = idler_v_process
                /\ g \in idler_vector => g \in idler_vector' /\ <<g, Fin(w)>> \in before'
                BY <1>1, <1>2, <2>4, Added
          <5>4. CASE g \in idler_v_process
            <6>1. status'[Fin(w)] = "next"
                  BY <1>1, <1>2, <2>4, <5>4, Added DEF IdlersInv
            <6>2. QED
                  BY <5>3, <5>4, <6>1 DEF WaitsFor, Fin
          <5>5. CASE g \in idler_vector
                BY <5>3, <5>5 DEF WaitsFor, Fin
          <5>6. QED
                BY <5>2, <5>4, <5>5
        <4>5. QED
              BY <1>1, <1>3, <2>4, <3>1, <4>2, <4>3, <4>4 DEF FeedbackOK, Ended, Ending, Fin
      <3>5. QED
            BY <2>2, <3>3, <3>4
    <2>5. QED
          BY <2>3, <2>4
  <1>7. QED
        BY <1>3, <1>5, <1>6 DEF ThreadInv, FinInv, FeedbackInv, Feedbacks

-----------------------------------------------------------------------------
(* Steps that delete an idler.                                             *)

\* h is marked or freed; what was marked before may be freed too.
Losing(h) ==
  /\ \A k \in Idles : \/ status'[k] = status[k]
                      \/ status'[k] \in {"deleted", "free"} /\ (k = h \/ status[k] = "deleted")
  /\ h \in Idles => status'[h] \in {"deleted", "free"}
  /\ idler_vector' \subseteq idler_vector
  /\ \A j, k \in Idles : /\ status'[j] # "free" /\ status'[k] # "free"
                         /\ <<j, k>> \in before
                         => <<j, k>> \in before'
  /\ UNCHANGED <<idler_v_process, idler_processing, run_loop, mpc, todo, cur>>

\* Deleting an idler, or none, is such a step.
LEMMA DelLoses ==
  ASSUME Inv, NEW h \in Idles \cup {NoIdle}, IdleDel(h)
  PROVE  Losing(h)
  <1> USE DEF Inv, IdlersInv, I!TypeOK
  <1>1. CASE h = NoIdle \/ status[h] = "deleted"
        BY <1>1, Addresses DEF IdleDel, Losing, idlerVars
  <1>2. CASE h # NoIdle /\ status[h] # "deleted"
    <2>1. h \in Idles /\ I!sol_idle_del(h)
          BY <1>2 DEF IdleDel
    <2>2. UNCHANGED <<idler_v_process, idler_processing, run_loop, mpc, todo, cur>>
          BY <2>1 DEF I!sol_idle_del
    <2> DEFINE st == [status EXCEPT ![h] = "deleted"]
    <2>3. st[h] = "deleted" /\ \A k \in Idles : k # h => st[k] = status[k]
          BY <2>1
    <2>4. CASE idler_processing
      <3>1. status' = st /\ UNCHANGED <<idler_vector, before>>
            BY <2>1, <2>4 DEF I!sol_idle_del
      <3> HIDE DEF st
      <3>2. QED
            BY <2>1, <2>2, <2>3, <3>1 DEF Losing
    <2>5. CASE ~idler_processing
      <3>1. I!idler_cleanup(idler_vector, before, st, idler_pending_deletion + 1)
            BY <2>1, <2>5 DEF I!sol_idle_del
      <3>2. PICK S \in SUBSET {k \in idler_vector : st[k] = "deleted"} :
              /\ idler_vector' = idler_vector \ S
              /\ before' = {p \in before : p[1] \notin S /\ p[2] \notin S}
              /\ status' = [k \in Idles |-> IF k \in S THEN "free" ELSE st[k]]
        <4> HIDE DEF st
        <4>1. QED
              BY <3>1 DEF I!idler_cleanup
      <3> HIDE DEF st
      <3>3. \A k \in S : st[k] = "deleted" /\ k \in Idles
            BY <3>2
      <3>4. \A k \in Idles : status'[k] = IF k \in S THEN "free" ELSE st[k]
            BY <3>2
      <3>5. \A k \in Idles : \/ status'[k] = status[k]
                             \/ /\ status'[k] \in {"deleted", "free"}
                                /\ k = h \/ status[k] = "deleted"
            BY <2>3, <3>3, <3>4
      <3>6. status'[h] \in {"deleted", "free"}
            BY <2>1, <2>3, <3>4
      <3>7. \A j, k \in Idles : /\ status'[j] # "free" /\ status'[k] # "free"
                                /\ <<j, k>> \in before
                                => <<j, k>> \in before'
            BY <3>2, <3>4
      <3>8. QED
            BY <2>2, <3>2, <3>5, <3>6, <3>7 DEF Losing
    <2>6. QED
          BY <2>4, <2>5
  <1>3. QED
        BY <1>1, <1>2

\* A deletion adds nothing to the vectors.
LEMMA LosingLinks ==
  ASSUME Inv, NEW h, Losing(h)
  PROVE  LinkInv'
  BY DEF Inv, IdlersInv, I!TypeOK, WInv, LinkInv, Losing

\* An idler of a worker without feedback is dead.
LEMMA NoFeedback ==
  ASSUME Inv, NEW w \in Workers, w \notin FeedbackWorkers, NEW g \in Feedbacks(w)
  PROVE  status[g] = "free" /\ Dead(g) /\ g \in Idles
  <1>1. status[g] = "free" /\ g \in Idles
        BY Addresses DEF Inv, WInv, FeedbackInv, FeedbackOK
  <1>2. QED
        BY <1>1, CallbackOf, Addresses DEF Dead

\* The constants: no worker both sends feedback and is cancelled, and the main
\* loop runs once.
Separate == FeedbackWorkers \cap CancelWorkers = {} /\ MaxRuns <= 1

\* Deleting h does not disturb the other workers.
LEMMA LosingOther ==
  ASSUME Separate, Inv, IdlersInv', NEW h, Losing(h), NEW w \in Workers,
         h # Fin(w), h \notin Feedbacks(w),
         tpc'[w] = tpc[w], obj'[w] = obj[w], idler'[w] = idler[w],
         UNCHANGED <<body, target, runs>>, cpc' = cpc \/ target # w
  PROVE  FinOK(w)' /\ \A g \in Feedbacks(w) : FeedbackOK(w, g)'
  <1> DEFINE fin == Fin(w)
  <1>1. /\ fin \in Idles
        /\ \/ status'[fin] = status[fin]
           \/ status'[fin] \in {"deleted", "free"} /\ status[fin] = "deleted"
        /\ UNCHANGED <<idler_v_process, idler_processing, run_loop, mpc, todo, cur>>
        BY Addresses DEF Losing
  <1>2. FinOK(w) /\ ThreadOK(w)
        BY DEF Inv, WInv, FinInv, ThreadInv
  <1>3. FinOK(w)'
        BY <1>1, <1>2 DEF FinOK, Dead, Fin, Ended
  <1>4. ASSUME NEW g \in Feedbacks(w) PROVE FeedbackOK(w, g)'
    <2>1. FeedbackOK(w, g) /\ g \in Idles
          BY Addresses DEF Inv, WInv, FeedbackInv
    <2>2. \/ status'[g] = status[g]
          \/ status'[g] \in {"deleted", "free"} /\ status[g] = "deleted"
          BY <2>1 DEF Losing
    <2>3. (Dead(g) => Dead(g)') /\ (Executing(g)' <=> Executing(g)) /\ (Calls' <=> Calls)
          BY <1>1, <2>2 DEF Dead, Executing, Calls
    <2>4. tpc[w] \in Ended /\ Calls => Dead(g)' \/ Executing(g)' \/ WaitsFor(fin, g)'
      <3>1. SUFFICES ASSUME tpc[w] \in Ended, WaitsFor(fin, g), ~Dead(g)'
                     PROVE  WaitsFor(fin, g)'
            BY <2>1, <2>3 DEF FeedbackOK
      <3>2. w \in FeedbackWorkers /\ w \notin CancelWorkers
            BY <2>3, <3>1, NoFeedback DEF Separate
      <3>3. obj[w] = "alive"
            BY <1>2, <2>1, <2>3, <3>1 DEF FeedbackOK, ThreadOK, Ended, Inv, ThreadTypes
      <3>4. ~(cpc = "finished" /\ target = w)
            BY <3>2 DEF Inv, WInv, MainInv
      <3>5. status[fin] \in {"ready", "next"}
            BY <1>2, <3>1, <3>3, <3>4 DEF FinOK
      <3>6. status'[fin] = status[fin] /\ status'[fin] # "free"
            BY <1>1, <3>5
      <3>7. status'[g] # "free"
        <4>1. g # NoIdle /\ NoIdle \notin Idles
              BY <2>1, Addresses
        <4>2. cur = g => g \in idler_v_process'
              BY <1>1, <4>1, CallbackOf
        <4>3. g \in idler_v_process' => status'[g] # "free"
              BY DEF IdlersInv, I!NoDanglingIdler
        <4>4. QED
              BY <1>1, <3>1, <4>2, <4>3 DEF Dead
      <3>8. \A k \in {g, fin} : k \in idler_vector => k \in idler_vector'
        <4>1. \A k \in {g, fin} : /\ k \in idler_vector' \cup idler_v_process'
                                  /\ k \in idler_vector => k \notin idler_v_process'
              BY <1>1, <2>1, <3>6, <3>7 DEF Inv, IdlersInv, I!NoDanglingIdler
        <4>2. QED
              BY <4>1
      <3>9. <<g, fin>> \in before => <<g, fin>> \in before'
            BY <1>1, <2>1, <3>6, <3>7 DEF Losing
      <3> HIDE DEF fin
      <3>10. QED
             BY <1>1, <3>1, <3>6, <3>8, <3>9 DEF WaitsFor
    <2>5. QED
          BY <1>1, <2>1, <2>2, <2>3, <2>4 DEF FeedbackOK, Fin, Dead, Ending
  <1>5. QED
        BY <1>3, <1>4

\* The end of the thread deletes the feedback idler under the lock.
LEMMA EndDelPreserves ==
  ASSUME Separate, Inv, IdlersInv', NEW u \in Workers, EndDel(u)
  PROVE  WInv'
  <1> DEFINE h == idler[u]
  <1>1. /\ tpc[u] = "end" /\ tpc' = [tpc EXCEPT ![u] = "end_add"] /\ IdleDel(h)
        /\ lock' = [lock EXCEPT ![u] = TRUE]
        /\ UNCHANGED <<obj, cancel, idler, finished, body, cpc, target, runs>>
        BY DEF EndDel, ThreadGoes
  <1> USE DEF Inv, WInv
  <1>2. /\ h \in Feedbacks(u) \cup {NoIdle} /\ status[Fin(u)] = "free"
        /\ h \in Idles \cup {NoIdle}
        BY <1>1 DEF FinInv, FinOK, Ended, ThreadTypes
  <1>3. Losing(h)
        BY <1>1, <1>2, DelLoses
  <1> HIDE DEF h
  <1>4. LinkInv' /\ UNCHANGED <<run_loop, mpc, cur>>
        BY <1>3, LosingLinks DEF Losing
  <1>5. MainInv'
    <2>1. cpc \in {"del", "finished"} => tpc'[target] = "exited"
          BY <1>1 DEF MainInv, ThreadTypes
    <2>2. QED
          BY <1>1, <1>4, <2>1 DEF MainInv
  <1>6. ASSUME NEW w \in Workers
        PROVE  ThreadOK(w)' /\ FinOK(w)' /\ \A g \in Feedbacks(w) : FeedbackOK(w, g)'
    <2>1. ThreadOK(w) /\ FinOK(w) /\ \A g \in Feedbacks(w) : FeedbackOK(w, g)
          BY DEF ThreadInv, FinInv, FeedbackInv
    <2>2. ThreadOK(w)'
          BY <1>1, <2>1 DEF ThreadOK, ThreadTypes
    <2>3. CASE w # u
      <3>1. tpc'[w] = tpc[w] /\ obj'[w] = obj[w] /\ idler'[w] = idler[w]
            BY <1>1, <2>3 DEF ThreadTypes
      <3>2. h # Fin(w) /\ h \notin Feedbacks(w)
            BY <1>2, <2>3, Addresses
      <3>3. QED
            BY <1>1, <1>3, <2>2, <3>1, <3>2, LosingOther
    <2>4. CASE w = u
      <3>1. tpc'[w] = "end_add" /\ obj'[w] = "alive" /\ idler'[w] = h
            BY <1>1, <2>1, <2>4 DEF ThreadTypes, ThreadOK, h
      <3>2. Fin(w) \in Idles /\ status'[Fin(w)] = "free" /\ cur # Fin(w)
        <4>1. Fin(w) \in Idles /\ Fin(w) # h /\ NoIdle \notin Idles
              BY <1>2, <2>4, Addresses
        <4>2. QED
              BY <1>2, <1>3, <2>4, <4>1, CallbackOf DEF Losing
      <3>3. FinOK(w)'
            BY <1>2, <2>4, <3>1, <3>2 DEF FinOK, Ended, Fin, Feedbacks
      <3>4. ASSUME NEW g \in Feedbacks(w) PROVE FeedbackOK(w, g)'
        <4>1. FeedbackOK(w, g) /\ g \in Idles
              BY <2>1, Addresses
        <4>2. w \notin FeedbackWorkers => status'[g] = "free"
              BY <1>1, <1>3, <2>4, <4>1 DEF FeedbackOK, Losing, Ending, h
        <4>3. status'[g] # "next"
          <5>1. CASE g = h
                BY <1>3, <4>1, <5>1 DEF Losing
          <5>2. CASE g # h
                BY <1>1, <1>3, <2>4, <4>1, <5>2 DEF Losing, FeedbackOK, Ending, Dead, h
          <5>3. QED
                BY <5>1, <5>2
        <4>4. QED
              BY <1>4, <3>1, <3>2, <4>2, <4>3 DEF FeedbackOK, Ending, Ended, Fin
      <3>5. QED
            BY <2>2, <3>3, <3>4
    <2>5. QED
          BY <2>3, <2>4
  <1>7. QED
        BY <1>4, <1>5, <1>6 DEF ThreadInv, FinInv, FeedbackInv, Feedbacks

\* The cancellation deletes the finishing idler of a thread that has been joined.
LEMMA CancelDelPreserves ==
  ASSUME Separate, Inv, IdlersInv', CancelDel
  PROVE  WInv'
  <1> DEFINE h == idler[target]
  <1>1. /\ cpc = "del" /\ cpc' = "finished" /\ IdleDel(h)
        /\ UNCHANGED <<obj, tpc, cancel, lock, idler, finished, body, target, runs>>
        BY DEF CancelDel
  <1> USE DEF Inv, WInv
  <1>2. /\ target \in Workers /\ target \in CancelWorkers /\ target \notin FeedbackWorkers
        /\ obj[target] = "alive" /\ tpc[target] = "exited"
        BY <1>1, CallbackOf DEF MainInv, Separate
  <1>3. h = Fin(target) /\ status[h] \in {"ready", "next"} /\ h \in Idles
        BY <1>1, <1>2, Addresses DEF FinInv, FinOK, Ended
  <1>4. Losing(h)
        BY <1>1, <1>3, DelLoses
  <1> HIDE DEF h
  <1>5. LinkInv' /\ UNCHANGED <<run_loop, mpc, cur>>
        BY <1>4, LosingLinks DEF Losing
  <1>6. MainInv'
        BY <1>1, <1>2, <1>5 DEF MainInv
  <1>7. ThreadInv'
        BY <1>1 DEF ThreadInv, ThreadOK
  <1>8. ASSUME NEW w \in Workers
        PROVE  FinOK(w)' /\ \A g \in Feedbacks(w) : FeedbackOK(w, g)'
    <2>1. FinOK(w) /\ ThreadOK(w) /\ \A g \in Feedbacks(w) : FeedbackOK(w, g)
          BY DEF ThreadInv, FinInv, FeedbackInv
    <2>2. CASE w # target
      <3>1. h # Fin(w) /\ h \notin Feedbacks(w)
            BY <1>2, <1>3, <2>2, Addresses
      <3>2. QED
            BY <1>1, <1>4, <2>2, <3>1, LosingOther
    <2>3. CASE w = target
      <3>1. Dead(Fin(w))'
        <4>1. status'[Fin(w)] \in {"deleted", "free"}
              BY <1>3, <1>4, <2>3 DEF Losing
        <4>2. cur # Fin(w)
          <5>1. CASE mpc \in {"outside", "timeouts"}
            <6>1. cur = NoIdle
                  BY <5>1 DEF IdlersInv
            <6>2. QED
                  BY <6>1, <1>3, <2>3, Addresses
          <5>2. CASE body = "feedback"
                BY <1>2, <2>3, <5>2, Addresses DEF MainInv
          <5>3. CASE body = "return"
                BY <1>2, <2>3, <5>3, Addresses DEF MainInv
          <5>4. QED
                BY <1>1, <5>1, <5>2, <5>3 DEF MainInv
        <4>3. QED
              BY <1>5, <4>1, <4>2 DEF Dead, Fin
      <3>2. FinOK(w)'
            BY <1>1, <1>2, <1>3, <2>1, <2>3, <3>1 DEF FinOK, Ended, Fin, h
      <3>3. ASSUME NEW g \in Feedbacks(w) PROVE FeedbackOK(w, g)'
        <4>1. status[g] = "free" /\ g \in Idles /\ Dead(g) /\ g # h
              BY <1>2, <1>3, <2>3, NoFeedback, Addresses
        <4>2. status'[g] = "free" /\ Dead(g)'
              BY <1>4, <1>5, <4>1 DEF Losing, Dead
        <4>3. QED
              BY <1>1, <1>2, <2>3, <4>2 DEF FeedbackOK, Ended, Ending
      <3>4. QED
            BY <3>2, <3>3
    <2>4. QED
          BY <2>2, <2>3
  <1>9. QED
        BY <1>5, <1>6, <1>7, <1>8 DEF FinInv, FeedbackInv, Feedbacks

-----------------------------------------------------------------------------
(* Steps of a pass between callbacks.                                      *)

\* A marked idler may be freed, the one visited made ready, and a waiting one
\* visited.
Walks ==
  /\ cpc = "none" /\ body = "none" /\ runs # 0 /\ mpc # "cb" /\ mpc' # "cb"
  /\ \A k \in Idles : \/ status'[k] = status[k]
                      \/ status[k] = "deleted" /\ status'[k] = "free"
                      \/ k = cur /\ status'[k] = "ready"
  /\ cur' = cur \/ cur' = NoIdle \/ (cur' \in Idles /\ status[cur'] = "next")
  /\ UNCHANGED <<threadVars, run_loop>>

\* The sweep at the end of a pass.
LEMMA ProcessEndFrees ==
  ASSUME Inv, I!ProcessEnd
  PROVE  /\ mpc = "settle" /\ mpc' = "outside" /\ cur = NoIdle
         /\ idler_v_process' = {} /\ todo' = {} /\ idler_processing' = FALSE
         /\ UNCHANGED <<run_loop, cur>>
         /\ \A k \in Idles : \/ status'[k] = status[k]
                             \/ status[k] = "deleted" /\ status'[k] = "free"
         /\ \A k \in Idles : status[k] \in {"ready", "next"} => k \in idler_vector'
         /\ \A j, k \in Idles : /\ status[j] \in {"ready", "next"} /\ status[k] \in {"ready", "next"}
                                /\ <<j, k>> \in before
                                => <<j, k>> \in before'
  <1> USE DEF Inv, IdlersInv, I!TypeOK
  <1> DEFINE v == idler_vector \cup idler_v_process
             order == before \cup (idler_vector \X idler_v_process)
  <1>1. /\ mpc = "settle" /\ mpc' = "outside" /\ cur = NoIdle
        /\ idler_v_process' = {} /\ todo' = {} /\ idler_processing' = FALSE
        /\ UNCHANGED <<run_loop, cur>>
        /\ I!idler_cleanup(v, order, status, idler_pending_deletion)
        BY DEF I!ProcessEnd, I!MainGoes
  <1>2. v = {k \in Idles : status[k] # "free"} /\ before \subseteq order
        BY DEF I!NoDanglingIdler
  <1> HIDE DEF v, order
  <1>3. PICK S \in SUBSET {k \in v : status[k] = "deleted"} :
          /\ idler_vector' = v \ S
          /\ before' = {p \in order : p[1] \notin S /\ p[2] \notin S}
          /\ status' = [k \in Idles |-> IF k \in S THEN "free" ELSE status[k]]
        BY <1>1 DEF I!idler_cleanup
  <1>4. /\ \A k \in Idles : \/ status'[k] = status[k]
                            \/ status[k] = "deleted" /\ status'[k] = "free"
        /\ \A k \in Idles : status[k] \in {"ready", "next"} => k \notin S
        BY <1>3
  <1>5. \A k \in Idles : status[k] \in {"ready", "next"} => k \in idler_vector'
        BY <1>2, <1>3, <1>4
  <1>6. \A j, k \in Idles : /\ status[j] \in {"ready", "next"} /\ status[k] \in {"ready", "next"}
                            /\ <<j, k>> \in before
                            => <<j, k>> \in before'
        BY <1>2, <1>3, <1>4
  <1>7. QED
        BY <1>1, <1>4, <1>5, <1>6

\* The steps of the main loop between callbacks.
LEMMA MainLoopWalks ==
  ASSUME Inv, MainLoop
  PROVE  Walks /\ LinkInv'
  <1> USE DEF Inv, WInv, IdlersInv, I!TypeOK, I!MainGoes, I!vectorVars, I!countVars
  <1>1. /\ cpc = "none" /\ body = "none" /\ mpc # "cb" /\ UNCHANGED threadVars
        BY DEF MainLoop, MainInv
  <1>2. runs # 0 /\ cur \notin idler_vector
    <2>1. cur \notin idler_vector
          BY CallbackOf, Addresses DEF I!NoDanglingIdler
    <2>2. SUFFICES ASSUME runs = 0 PROVE FALSE
          BY <2>1
    <2>3. mpc = "outside" /\ ~run_loop
          BY <2>2 DEF MainInv
    <2>4. QED
          BY <2>3 DEF MainLoop, I!ProcessBegin, I!Awakened, I!TimeoutsProcessed, I!ScanDone,
                      I!ProcessEnd, I!Skip, I!Awaken
  <1>3. CASE I!ProcessBegin
        BY <1>1, <1>2, <1>3 DEF I!ProcessBegin, Walks, LinkInv, I!NoDanglingIdler
  <1>4. CASE I!Awakened
    <2>1. /\ mpc' \in {"scan", "settle"} /\ status' = [status EXCEPT ![cur] = "ready"]
          /\ cur' = NoIdle
          /\ UNCHANGED <<idler_vector, idler_v_process, before, idler_processing, run_loop, todo>>
          BY <1>4 DEF I!Awakened
    <2>2. Walks
          BY <1>1, <1>2, <2>1 DEF Walks
    <2>3. LinkInv'
          BY <1>2, <2>1, Addresses DEF LinkInv, I!NoDanglingIdler
    <2>4. QED
          BY <2>2, <2>3
  <1>5. CASE I!TimeoutsProcessed \/ I!ScanDone
    <2>1. /\ mpc' \in {"scan", "settle"} /\ cur = NoIdle
          /\ todo' \subseteq idler_v_process
          /\ UNCHANGED <<status, idler_vector, idler_processing, run_loop, cur>>
          BY <1>5 DEF I!TimeoutsProcessed, I!ScanDone, I!NoDanglingIdler
    <2>2. Walks
          BY <1>1, <1>2, <2>1 DEF Walks
    <2>3. LinkInv'
          BY <2>1, Addresses DEF LinkInv
    <2>4. QED
          BY <2>2, <2>3
  <1>6. CASE I!ProcessEnd
    <2>1. /\ mpc' = "outside" /\ todo' = {} /\ idler_processing' = FALSE
          /\ UNCHANGED <<run_loop, cur>>
          /\ \A k \in Idles : \/ status'[k] = status[k]
                              \/ status[k] = "deleted" /\ status'[k] = "free"
          BY <1>6, ProcessEndFrees
    <2>2. QED
          BY <1>1, <1>2, <2>1 DEF Walks, LinkInv
  <1>7. ASSUME NEW h \in Idles, I!Skip(h) \/ I!Awaken(h) PROVE Walks /\ LinkInv'
    <2>1. /\ mpc' \in {"scan", "awaken", "settle_awaken"} /\ todo' = todo \ {h}
          /\ cur' = cur \/ (cur' = h /\ status[h] = "next")
          /\ UNCHANGED <<status, idler_vector, idler_processing, run_loop>>
          BY <1>7 DEF I!Skip, I!Awaken
    <2>2. Walks
          BY <1>1, <1>2, <2>1 DEF Walks
    <2>3. LinkInv'
          BY <2>1 DEF LinkInv
    <2>4. QED
          BY <2>2, <2>3
  <1>8. QED
        BY <1>3, <1>4, <1>5, <1>6, <1>7 DEF MainLoop

\* A pass keeps the finishing idler waiting, until the walk has come to the
\* feedback idler in front of it.
LEMMA WalksKeepWaiting ==
  ASSUME Inv, MainLoop, run_loop, NEW fin \in Idles, NEW g \in Idles,
         status[fin] \in {"ready", "next"}, status[g] # "next", WaitsFor(fin, g), ~Dead(g)'
  PROVE  WaitsFor(fin, g)'
  <1> USE DEF Inv, WInv, IdlersInv, I!MainGoes, I!vectorVars, I!countVars
  <1>1. CASE I!ProcessBegin
    <2>1. idler_v_process = {} /\ todo = {}
          BY <1>1 DEF I!ProcessBegin, I!NoDanglingIdler
    <2>2. QED
          BY <1>1, <2>1 DEF I!ProcessBegin, WaitsFor
  <1>2. CASE I!Awakened
    <2>1. /\ status' = [status EXCEPT ![cur] = "ready"]
          /\ UNCHANGED <<idler_vector, idler_v_process, before, todo>>
          /\ mpc = "awaken" => mpc' = "scan"
          /\ mpc \in {"awaken", "settle_awaken"}
          BY <1>2 DEF I!Awakened
    <2>2. cur \notin idler_vector /\ cur \notin todo
          BY CallbackOf, Addresses, <2>1 DEF I!NoDanglingIdler, LinkInv
    <2>3. fin # cur => status'[fin] = status[fin]
          BY <2>1 DEF I!TypeOK
    <2>4. QED
          BY <2>1, <2>2, <2>3 DEF WaitsFor
  <1>3. CASE I!TimeoutsProcessed
        BY <1>3 DEF I!TimeoutsProcessed, WaitsFor
  <1>4. CASE I!ScanDone
        BY <1>4 DEF I!ScanDone, WaitsFor
  <1>5. CASE I!ProcessEnd
    <2>1. mpc = "settle" /\ cur' = NoIdle /\ mpc' = "outside"
          BY <1>5, ProcessEndFrees
    <2>2. status[g] \in {"ready", "next"} /\ status'[fin] = status[fin]
      <3>1. status'[g] \notin {"free", "deleted"}
            BY <2>1, Addresses DEF Dead
      <3>2. /\ status'[g] = status[g] \/ status'[g] = "free"
            /\ status[g] \in {"free", "ready", "next", "deleted"}
            BY <1>5, ProcessEndFrees DEF I!TypeOK, I!Status
      <3>3. status'[fin] = status[fin]
            BY <1>5, ProcessEndFrees
      <3>4. QED
            BY <3>1, <3>2, <3>3
    <2>3. /\ g \in idler_vector' /\ fin \in idler_vector'
          /\ <<g, fin>> \in before => <<g, fin>> \in before'
          BY <1>5, <2>2, ProcessEndFrees
    <2>4. QED
          BY <2>1, <2>2, <2>3 DEF WaitsFor
  <1>6. ASSUME NEW h \in Idles, I!Skip(h) PROVE WaitsFor(fin, g)'
    <2>1. h # g
          BY <1>6, Addresses DEF I!Skip, Dead
    <2>2. QED
          BY <1>6, <2>1 DEF I!Skip, WaitsFor
  <1>7. ASSUME NEW h \in Idles, I!Awaken(h) PROVE WaitsFor(fin, g)'
        BY <1>7 DEF I!Awaken, WaitsFor
  <1>8. QED
        BY <1>1, <1>2, <1>3, <1>4, <1>5, <1>6, <1>7 DEF MainLoop

\* The main loop keeps the invariant: it loses no idler and calls none.
LEMMA MainLoopPreserves ==
  ASSUME Inv, MainLoop
  PROVE  WInv'
  <1>1. Walks /\ LinkInv'
        BY MainLoopWalks
  <1> USE DEF Inv, WInv
  <1>2. UNCHANGED <<obj, tpc, cancel, lock, idler, finished, body, cpc, target, runs, run_loop>>
        BY <1>1 DEF Walks, threadVars
  <1>3. ThreadInv'
        BY <1>2 DEF ThreadInv, ThreadOK
  <1>4. MainInv'
        BY <1>1, <1>2 DEF Walks, MainInv
  <1>5. ASSUME NEW h \in Idles
        PROVE  /\ status[h] = "free" => status'[h] = "free"
               /\ status[h] \in {"ready", "next"} => status'[h] \in {"ready", "next"}
               /\ status[h] # "next" => status'[h] # "next"
               /\ Dead(h) => Dead(h)'
               /\ ~Executing(h) /\ ~Executing(h)'
    <2>1. cur = h => status[h] # "free"
          BY CallbackOf, Addresses
    <2>2. \/ status'[h] = status[h]
          \/ status[h] = "deleted" /\ status'[h] = "free"
          \/ h = cur /\ status'[h] = "ready"
          BY <1>1 DEF Walks
    <2>3. cur' = h => cur = h \/ status[h] = "next"
          BY <1>1, Addresses DEF Walks
    <2>4. QED
          BY <1>1, <2>1, <2>2, <2>3 DEF Walks, Dead, Executing
  <1>6. ASSUME NEW w \in Workers
        PROVE  FinOK(w)' /\ \A g \in Feedbacks(w) : FeedbackOK(w, g)'
    <2>1. FinOK(w) /\ ThreadOK(w) /\ Fin(w) \in Idles
          BY Addresses DEF ThreadInv, FinInv
    <2>2. cpc = "none" /\ body = "none" /\ runs # 0
          BY <1>1 DEF Walks
    <2>3. FinOK(w)'
          BY <1>2, <1>5, <2>1, <2>2 DEF FinOK, Fin, Feedbacks
    <2>4. ASSUME NEW g \in Feedbacks(w) PROVE FeedbackOK(w, g)'
      <3>1. FeedbackOK(w, g) /\ g \in Idles
            BY Addresses DEF FeedbackInv
      <3>2. tpc[w] \in Ended /\ Calls => Dead(g)' \/ WaitsFor(Fin(w), g)'
        <4>1. SUFFICES ASSUME tpc[w] \in Ended, Calls, ~Dead(g)' PROVE WaitsFor(Fin(w), g)'
              OBVIOUS
        <4>2. ~Dead(g) /\ WaitsFor(Fin(w), g) /\ status[g] # "next"
              BY <1>5, <3>1, <4>1 DEF FeedbackOK, Ended, Ending
        <4>3. obj[w] = "alive"
              BY <2>1, <3>1, <4>1, <4>2 DEF FeedbackOK, ThreadOK, Ended, ThreadTypes
        <4>4. status[Fin(w)] \in {"ready", "next"} /\ run_loop
              BY <2>1, <2>2, <4>1, <4>3 DEF FinOK, Calls
        <4>5. QED
              BY <2>1, <3>1, <4>1, <4>2, <4>4, WalksKeepWaiting
      <3>3. Calls' <=> Calls
            BY <1>2 DEF Calls
      <3>4. QED
            BY <1>2, <1>5, <2>2, <3>1, <3>2, <3>3 DEF FeedbackOK, Fin
    <2>5. QED
          BY <2>3, <2>4
  <1>7. QED
        BY <1>1, <1>3, <1>4, <1>6 DEF FinInv, FeedbackInv, Feedbacks

-----------------------------------------------------------------------------
(* Callbacks.                                                              *)

\* The walk comes to the finishing idler only after the feedback idlers.
LEMMA CallIdlerPreserves ==
  ASSUME Inv, NEW h \in Idles, CallIdler(h)
  PROVE  WInv'
  <1>1. /\ mpc = "scan" /\ mpc' = "cb" /\ run_loop /\ I!Visits(h) /\ status[h] = "ready"
        /\ cur' = h /\ todo' = todo \ {h}
        /\ UNCHANGED <<status, idler_vector, idler_v_process, before, idler_processing, run_loop>>
        /\ cpc = "none" /\ body' = IF h[2] = Finished THEN "finished" ELSE "dispatch"
        /\ UNCHANGED <<obj, tpc, cancel, lock, idler, finished, cpc, target, runs>>
        BY DEF CallIdler, I!Call, I!MainGoes, I!vectorVars, I!countVars
  <1> USE DEF Inv, WInv
  <1>2. cur = NoIdle /\ NoIdle \notin Idles /\ body = "none" /\ runs # 0
        BY <1>1, Addresses DEF IdlersInv, MainInv
  <1>3. LinkInv'
        BY <1>1 DEF LinkInv
  <1>4. ThreadInv'
        BY <1>1 DEF ThreadInv, ThreadOK
  <1>5. h[1] \in Workers /\ obj[h[1]] = "alive"
    <2>1. h[1] \in Workers /\ (h = Fin(h[1]) \/ h \in Feedbacks(h[1]))
          BY Addresses
    <2>2. ThreadOK(h[1]) /\ FinOK(h[1]) /\ \A g \in Feedbacks(h[1]) : FeedbackOK(h[1], g)
          BY <2>1 DEF ThreadInv, FinInv, FeedbackInv
    <2>3. ~Dead(h)
          BY <1>1 DEF Dead
    <2>4. tpc[h[1]] # "none" /\ obj[h[1]] # "freed"
      <3>1. CASE h = Fin(h[1])
            BY <1>1, <1>2, <2>2, <2>3, <3>1 DEF FinOK, Ended
      <3>2. CASE h \in Feedbacks(h[1])
            BY <1>1, <1>2, <2>2, <2>3, <3>2 DEF FeedbackOK
      <3>3. QED
            BY <2>1, <3>1, <3>2
    <2>5. QED
          BY <2>1, <2>2, <2>4 DEF ThreadOK, ThreadTypes
  <1>6. MainInv'
        BY <1>1, <1>2, <1>5 DEF MainInv
  <1>7. ASSUME NEW k \in Idles PROVE Dead(k) => Dead(k)'
        BY <1>1 DEF Dead
  <1>8. ASSUME NEW w \in Workers
        PROVE  FinOK(w)' /\ \A g \in Feedbacks(w) : FeedbackOK(w, g)'
    <2>1. FinOK(w) /\ ThreadOK(w) /\ Fin(w) \in Idles /\ Fin(w)[2] = Finished
          BY Addresses DEF ThreadInv, FinInv
    <2>2. FinOK(w)'
          BY <1>1, <1>2, <1>7, <2>1 DEF FinOK, Fin, Feedbacks
    <2>3. ASSUME NEW g \in Feedbacks(w) PROVE FeedbackOK(w, g)'
      <3>1. FeedbackOK(w, g) /\ g \in Idles /\ g[2] # Finished
            BY Addresses DEF FeedbackInv
      <3>2. ~Executing(g) /\ (Executing(g)' <=> h = g) /\ Calls /\ Calls'
            BY <1>1 DEF Executing, Calls
      <3>3. CASE h = Fin(w)
        <4>1. tpc[w] \in Ended
              BY <1>1, <2>1, <3>3 DEF FinOK
        <4>2. ~WaitsFor(Fin(w), g)
          <5>1. h \in todo /\ h \notin idler_vector /\ (g \in todo => <<g, h>> \notin before)
                BY <1>1 DEF I!Visits, IdlersInv, I!NoDanglingIdler
          <5>2. QED
                BY <1>1, <3>3, <5>1 DEF WaitsFor
        <4>3. Dead(g)
              BY <3>1, <3>2, <4>1, <4>2 DEF FeedbackOK
        <4>4. QED
              BY <1>1, <1>7, <3>1, <3>2, <4>1, <4>3 DEF FeedbackOK, Ended, Ending, Dead
      <3>4. CASE h # Fin(w)
        <4>1. WaitsFor(Fin(w), g) => WaitsFor(Fin(w), g)' \/ h = g
              BY <1>1 DEF WaitsFor, Fin
        <4>2. h = g => body' = "dispatch"
              BY <1>1, <3>1
        <4>3. CASE h = g
              BY <1>1, <3>1, <3>2, <3>4, <4>2, <4>3 DEF FeedbackOK, Dead, Fin
        <4>4. CASE h # g
              BY <1>1, <1>2, <1>7, <3>1, <3>2, <3>4, <4>1, <4>4 DEF FeedbackOK, Fin
        <4>5. QED
              BY <4>3, <4>4
      <3>5. QED
            BY <3>3, <3>4
    <2>4. QED
          BY <2>2, <2>3
  <1>9. QED
        BY <1>3, <1>4, <1>6, <1>8 DEF FinInv, FeedbackInv, Feedbacks

\* The dispatch clears thread->idler: it is the idler called, unless the thread
\* has ended, and then nobody cancels it.
LEMMA DispatchPreserves ==
  ASSUME Separate, Inv, sol_worker_thread_feedback_dispatch
  PROVE  WInv'
  <1> DEFINE u == cur[1]
  <1>1. /\ body = "dispatch" /\ body' = "feedback" /\ ~lock[u]
        /\ idler' = [idler EXCEPT ![u] = NoIdle]
        /\ UNCHANGED <<status, idler_vector, idler_v_process, before, idler_processing, run_loop,
                       mpc, todo, cur>>
        /\ UNCHANGED <<obj, tpc, cancel, lock, finished, cpc, target, runs>>
        BY DEF sol_worker_thread_feedback_dispatch, idlerVars
  <1> USE DEF Inv, WInv
  <1>2. /\ u \in Workers /\ cur \in Feedbacks(u) /\ mpc = "cb" /\ cur \in Idles
        /\ status[cur] # "free" /\ NoIdle \notin Idles /\ obj[u] = "alive" /\ cpc = "none"
        /\ cur[2] # Finished
        BY <1>1, CallbackOf, Addresses DEF MainInv
  <1>3. /\ ThreadOK(u) /\ FinOK(u) /\ FeedbackOK(u, cur)
        BY <1>2 DEF ThreadInv, FinInv, FeedbackInv
  <1>4. u \in FeedbackWorkers /\ u \notin CancelWorkers
        BY <1>2, <1>3 DEF FeedbackOK, Separate
  <1>5. tpc[u] \notin Ending => idler[u] = cur /\ status[cur] = "ready"
        BY <1>1, <1>2, <1>3 DEF FeedbackOK, Dead, Executing
  <1> HIDE DEF u
  <1>6. LinkInv' /\ ThreadInv'
        BY <1>1 DEF LinkInv, ThreadInv, ThreadOK
  <1>7. MainInv'
        BY <1>1, <1>2 DEF MainInv
  <1>8. ASSUME NEW w \in Workers
        PROVE  FinOK(w)' /\ \A g \in Feedbacks(w) : FeedbackOK(w, g)'
    <2>1. FinOK(w) /\ ThreadOK(w) /\ (w # u => idler'[w] = idler[w]) /\ idler'[u] = NoIdle
          BY <1>1, <1>2 DEF ThreadInv, FinInv, ThreadTypes
    <2>2. FinOK(w)'
          BY <1>1, <1>4, <2>1 DEF FinOK, Fin, Feedbacks, Dead
    <2>3. ASSUME NEW g \in Feedbacks(w) PROVE FeedbackOK(w, g)'
      <3>1. FeedbackOK(w, g) /\ g \in Idles /\ g[1] = w
            BY Addresses DEF FeedbackInv
      <3>2. (Dead(g)' <=> Dead(g)) /\ (Executing(g)' <=> Executing(g)) /\ (Calls' <=> Calls)
            /\ (WaitsFor(Fin(w), g)' <=> WaitsFor(Fin(w), g))
            BY <1>1 DEF Dead, Executing, Calls, WaitsFor, Fin
      <3>3. CASE w # u
        <4>1. ~Executing(g)
              BY <3>1, <3>3 DEF Executing, u
        <4>2. QED
              BY <1>1, <2>1, <3>1, <3>2, <3>3, <4>1 DEF FeedbackOK, Fin
      <3>4. CASE w = u
        <4>1. g # NoIdle
              BY <1>2, <3>1
        <4>2. tpc[w] \notin Ending => Dead(g) \/ (Executing(g) /\ status[g] = "ready")
              BY <1>1, <1>2, <1>5, <3>1, <3>4 DEF FeedbackOK, Executing
        <4>3. QED
              BY <1>1, <2>1, <3>1, <3>2, <3>4, <4>1, <4>2 DEF FeedbackOK, Fin
      <3>5. QED
            BY <3>3, <3>4
    <2>4. QED
          BY <2>2, <2>3
  <1>9. QED
        BY <1>6, <1>7, <1>8 DEF FinInv, FeedbackInv, Feedbacks

\* The finishing idler finds the struct allocated and its thread joined, and frees it.
LEMMA FinishedPreserves ==
  ASSUME Inv, sol_worker_thread_finished
  PROVE  WInv'
  <1> DEFINE u == cur[1]
  <1>1. /\ body = "finished" /\ body' = "return" /\ (cancel[u] \/ tpc[u] = "exited")
        /\ idler' = [idler EXCEPT ![u] = NoIdle]
        /\ finished' = [finished EXCEPT ![u] = @ + 1]
        /\ obj' = [obj EXCEPT ![u] = "freed"]
        /\ UNCHANGED <<status, idler_vector, idler_v_process, before, idler_processing, run_loop,
                       mpc, todo, cur>>
        /\ UNCHANGED <<tpc, cancel, lock, cpc, target, runs>>
        BY DEF sol_worker_thread_finished, FinishedEffect, idlerVars
  <1> USE DEF Inv, WInv
  <1>2. u \in Workers /\ cur = Fin(u) /\ mpc = "cb" /\ obj[u] = "alive" /\ cpc = "none"
        BY <1>1, CallbackOf, Addresses DEF MainInv
  <1>3. tpc[u] = "exited" /\ finished[u] = 0
        BY <1>1, <1>2 DEF ThreadInv, ThreadOK
  <1> HIDE DEF u
  <1>4. LinkInv'
        BY <1>1 DEF LinkInv
  <1>5. MainInv'
        BY <1>1, <1>2 DEF MainInv, u, ThreadTypes
  <1>6. ASSUME NEW w \in Workers
        PROVE  ThreadOK(w)' /\ FinOK(w)' /\ \A g \in Feedbacks(w) : FeedbackOK(w, g)'
    <2>1. ThreadOK(w) /\ FinOK(w) /\ \A g \in Feedbacks(w) : FeedbackOK(w, g) /\ g # cur
          BY <1>2, Addresses DEF ThreadInv, FinInv, FeedbackInv
    <2>2. CASE w # u
      <3>1. /\ obj'[w] = obj[w] /\ idler'[w] = idler[w] /\ finished'[w] = finished[w]
            /\ cur # Fin(w)
            BY <1>1, <1>2, <2>2, Addresses DEF ThreadTypes
      <3>2. ThreadOK(w)' /\ FinOK(w)'
            BY <1>1, <2>1, <3>1 DEF ThreadOK, FinOK, Fin, Feedbacks, Dead
      <3>3. ASSUME NEW g \in Feedbacks(w) PROVE FeedbackOK(w, g)'
        <4>1. (Dead(g)' <=> Dead(g)) /\ ~Executing(g) /\ ~Executing(g)' /\ (Calls' <=> Calls)
              /\ (WaitsFor(Fin(w), g)' <=> WaitsFor(Fin(w), g))
              BY <1>1, <2>1 DEF Dead, Executing, Calls, WaitsFor, Fin
        <4>2. FeedbackOK(w, g)
              BY <2>1
        <4>3. QED
              BY <1>1, <3>1, <4>1, <4>2 DEF FeedbackOK, Fin
      <3>4. QED
            BY <3>2, <3>3
    <2>3. CASE w = u
      <3>1. obj'[w] = "freed" /\ idler'[w] = NoIdle /\ finished'[w] = 1 /\ tpc'[w] = "exited"
            BY <1>1, <1>3, <2>3 DEF ThreadTypes
      <3>2. ThreadOK(w)'
            BY <1>1, <2>1, <3>1 DEF ThreadOK
      <3>3. FinOK(w)'
            BY <1>1, <1>2, <2>3, <3>1 DEF FinOK, Fin, Ended
      <3>4. ASSUME NEW g \in Feedbacks(w) PROVE FeedbackOK(w, g)'
        <4>1. Dead(g) /\ Dead(g)' /\ FeedbackOK(w, g)
              BY <1>1, <1>2, <2>1, <2>3 DEF FeedbackOK, Dead
        <4>2. QED
              BY <1>1, <3>1, <4>1 DEF FeedbackOK, Ended, Ending, Dead
      <3>5. QED
            BY <3>2, <3>3, <3>4
    <2>4. QED
          BY <2>2, <2>3
  <1>7. QED
        BY <1>4, <1>5, <1>6 DEF ThreadInv, FinInv, FeedbackInv, Feedbacks

\* Both callbacks return FALSE, and their idler is marked.
LEMMA ReturnsPreserves ==
  ASSUME Inv, CallbackReturns
  PROVE  WInv'
  <1>1. /\ body \in {"feedback", "return"} /\ body' = "none" /\ cpc = "none"
        /\ mpc = "cb" /\ mpc' = "timeouts" /\ cur' = NoIdle
        /\ \/ status' = status /\ status[cur] = "deleted"
           \/ status' = [status EXCEPT ![cur] = "deleted"]
        /\ UNCHANGED <<idler_vector, idler_v_process, before, idler_processing, run_loop, todo>>
        /\ UNCHANGED <<obj, tpc, cancel, lock, idler, finished, cpc, target, runs>>
        BY DEF CallbackReturns, I!Return, I!MainGoes, I!vectorVars
  <1> USE DEF Inv, WInv
  <1>2. /\ cur \in Idles /\ cur[1] \in Workers /\ cur \notin idler_vector /\ cur \notin todo
        /\ status[cur] # "free" /\ runs # 0 /\ NoIdle \notin Idles
        BY <1>1, CallbackOf, Addresses DEF LinkInv, MainInv, IdlersInv, I!NoDanglingIdler
  <1>3. status'[cur] = "deleted" /\ \A k \in Idles : k # cur => status'[k] = status[k]
        BY <1>1, <1>2 DEF IdlersInv, I!TypeOK
  <1>4. LinkInv'
        BY <1>1, <1>2, <1>3 DEF LinkInv, IdlersInv, I!TypeOK, I!NoDanglingIdler
  <1>5. ThreadInv' /\ MainInv'
        BY <1>1, <1>2 DEF ThreadInv, ThreadOK, MainInv
  <1>6. ASSUME NEW k \in Idles
        PROVE  (Dead(k) => Dead(k)') /\ (k = cur => Dead(k)') /\ ~Executing(k)'
        BY <1>1, <1>2, <1>3 DEF Dead, Executing
  <1>7. ASSUME NEW w \in Workers
        PROVE  FinOK(w)' /\ \A g \in Feedbacks(w) : FeedbackOK(w, g)'
    <2>1. FinOK(w) /\ ThreadOK(w) /\ Fin(w) \in Idles /\ Fin(w)[1] = w /\ Fin(w)[2] = Finished
          BY Addresses DEF ThreadInv, FinInv
    <2>2. FinOK(w)'
      <3>1. CASE Fin(w) = cur
        <4>1. obj[w] = "freed" /\ tpc[w] = "exited"
              BY <1>1, <2>1, <3>1 DEF MainInv, ThreadOK
        <4>2. QED
              BY <1>1, <1>6, <2>1, <3>1, <4>1 DEF FinOK, Ended, Fin
      <3>2. CASE Fin(w) # cur
            BY <1>1, <1>3, <1>6, <2>1, <3>2 DEF FinOK, Fin, Feedbacks
      <3>3. QED
            BY <3>1, <3>2
    <2>3. ASSUME NEW g \in Feedbacks(w) PROVE FeedbackOK(w, g)'
      <3>1. FeedbackOK(w, g) /\ g \in Idles /\ g[2] # Finished
            BY Addresses DEF FeedbackInv
      <3>2. CASE g = cur
        <4>1. Executing(g) /\ body = "feedback"
              BY <1>1, <3>1, <3>2 DEF Executing, MainInv
        <4>2. w \in FeedbackWorkers /\ tpc[w] # "none" /\ (tpc[w] \notin Ending => g # idler[w])
              BY <1>2, <3>1, <3>2, <4>1 DEF FeedbackOK
        <4>3. QED
              BY <1>1, <1>3, <1>6, <3>1, <3>2, <4>2 DEF FeedbackOK
      <3>3. CASE g # cur
        <4>1. ~Executing(g) /\ (Calls' <=> Calls) /\ status'[g] = status[g]
              BY <1>1, <1>3, <3>1, <3>3 DEF Executing, Calls
        <4>2. WaitsFor(Fin(w), g) => WaitsFor(Fin(w), g)'
          <5>1. Fin(w) \in idler_vector \/ Fin(w) \in todo => status'[Fin(w)] = status[Fin(w)]
                BY <1>2, <1>3, <2>1
          <5>2. QED
                BY <1>1, <5>1 DEF WaitsFor, Fin
        <4>3. QED
              BY <1>1, <1>6, <3>1, <4>1, <4>2 DEF FeedbackOK, Fin
      <3>4. QED
            BY <3>2, <3>3
    <2>4. QED
          BY <2>2, <2>3
  <1>8. QED
        BY <1>4, <1>5, <1>7 DEF FinInv, FeedbackInv, Feedbacks

-----------------------------------------------------------------------------
(* Cancellation, sol_run() and sol_quit().                                 *)

\* The idlers and what the invariant says of them stay as they are.
LEMMA IdlersKept ==
  ASSUME Inv, UNCHANGED <<idlerVars, tpc, idler, obj, body, runs>>,
         cpc \notin {"finished"}, cpc' # "finished"
  PROVE  LinkInv' /\ FinInv' /\ FeedbackInv'
  <1> USE DEF Inv, WInv, idlerVars
  <1>1. LinkInv'
        BY DEF LinkInv
  <1>2. FinInv'
        BY DEF FinInv, FinOK, Fin, Feedbacks, Dead
  <1>3. ASSUME NEW w \in Workers, NEW g \in Feedbacks(w) PROVE FeedbackOK(w, g)'
    <2>1. FeedbackOK(w, g)
          BY DEF FeedbackInv
    <2>2. (Dead(g)' <=> Dead(g)) /\ (Executing(g)' <=> Executing(g)) /\ (Calls' <=> Calls)
          /\ (WaitsFor(Fin(w), g)' <=> WaitsFor(Fin(w), g))
          BY DEF Dead, Executing, Calls, WaitsFor, Fin
    <2>3. QED
          BY <2>1, <2>2 DEF FeedbackOK, Fin
  <1>4. QED
        BY <1>1, <1>2, <1>3 DEF FeedbackInv, Feedbacks

\* A cancellation begins only where application code runs.
LEMMA CancelPreserves ==
  ASSUME Inv, NEW u \in Workers, sol_worker_thread_impl_cancel(u)
  PROVE  WInv'
  <1>1. /\ u \in CancelWorkers /\ obj[u] = "alive" /\ cpc = "none" /\ cpc' = "join"
        /\ target' = u /\ cancel' = [cancel EXCEPT ![u] = TRUE]
        /\ mpc \in {"outside", "timeouts"} \/ body \in {"feedback", "return"}
        /\ UNCHANGED <<idlerVars, obj, tpc, lock, idler, finished, body, runs>>
        BY DEF sol_worker_thread_impl_cancel, InUserCode
  <1>2. LinkInv' /\ FinInv' /\ FeedbackInv'
        BY <1>1, IdlersKept
  <1> USE DEF Inv, WInv, idlerVars
  <1>3. MainInv'
        BY <1>1 DEF MainInv
  <1>4. ASSUME NEW w \in Workers PROVE ThreadOK(w)'
    <2>1. ThreadOK(w)
          BY DEF ThreadInv
    <2>2. cancel'[w] = IF w = u THEN TRUE ELSE cancel[w]
          BY <1>1 DEF ThreadTypes
    <2>3. QED
          BY <1>1, <2>1, <2>2 DEF ThreadOK
  <1>5. QED
        BY <1>2, <1>3, <1>4 DEF ThreadInv

\* pthread_join() returns after the thread has ended.
LEMMA JoinPreserves ==
  ASSUME Inv, CancelJoin
  PROVE  WInv'
  <1>1. /\ cpc = "join" /\ cpc' = "del" /\ tpc[target] = "exited"
        /\ UNCHANGED <<idlerVars, obj, tpc, cancel, lock, idler, finished, body, target, runs>>
        BY DEF CancelJoin
  <1>2. LinkInv' /\ FinInv' /\ FeedbackInv'
        BY <1>1, IdlersKept
  <1>3. MainInv' /\ ThreadInv'
        BY <1>1 DEF Inv, WInv, idlerVars, MainInv, ThreadInv, ThreadOK
  <1>4. QED
        BY <1>2, <1>3 DEF WInv

\* The cancellation frees the struct when no idler of it can be called any more.
LEMMA CancelFinishedPreserves ==
  ASSUME Separate, Inv, CancelFinished
  PROVE  WInv'
  <1> DEFINE u == target
  <1>1. /\ cpc = "finished" /\ cpc' = "none" /\ target' = NoWorker
        /\ idler' = [idler EXCEPT ![u] = NoIdle]
        /\ finished' = [finished EXCEPT ![u] = @ + 1]
        /\ obj' = [obj EXCEPT ![u] = "freed"]
        /\ UNCHANGED <<status, idler_vector, idler_v_process, before, idler_processing, run_loop,
                       mpc, todo, cur>>
        /\ UNCHANGED <<tpc, cancel, lock, body, runs>>
        BY DEF CancelFinished, FinishedEffect, idlerVars
  <1> USE DEF Inv, WInv
  <1>2. /\ u \in Workers /\ u \notin FeedbackWorkers /\ obj[u] = "alive" /\ tpc[u] = "exited"
        /\ body \notin {"dispatch", "finished"}
        BY <1>1, CallbackOf DEF MainInv, Separate
  <1>3. finished[u] = 0 /\ Dead(Fin(u))
        BY <1>1, <1>2 DEF ThreadInv, ThreadOK, FinInv, FinOK, Ended
  <1>4. LinkInv'
        BY <1>1 DEF LinkInv
  <1>5. MainInv'
    <2>1. body = "return" => obj'[cur[1]] = "freed"
          BY <1>1, <1>2, CallbackOf DEF MainInv, ThreadTypes
    <2>2. QED
          BY <1>1, <1>2, <2>1 DEF MainInv
  <1>6. ASSUME NEW w \in Workers
        PROVE  ThreadOK(w)' /\ FinOK(w)' /\ \A g \in Feedbacks(w) : FeedbackOK(w, g)'
    <2>1. ThreadOK(w) /\ FinOK(w) /\ \A g \in Feedbacks(w) : FeedbackOK(w, g)
          BY DEF ThreadInv, FinInv, FeedbackInv
    <2>2. CASE w # u
      <3>1. /\ obj'[w] = obj[w] /\ idler'[w] = idler[w] /\ finished'[w] = finished[w]
            BY <1>1, <2>2 DEF ThreadTypes
      <3>2. ThreadOK(w)' /\ FinOK(w)'
            BY <1>1, <2>1, <2>2, <3>1 DEF ThreadOK, FinOK, Fin, Feedbacks, Dead
      <3>3. ASSUME NEW g \in Feedbacks(w) PROVE FeedbackOK(w, g)'
        <4>1. /\ (Dead(g)' <=> Dead(g)) /\ (Executing(g)' <=> Executing(g)) /\ (Calls' <=> Calls)
              /\ (WaitsFor(Fin(w), g)' <=> WaitsFor(Fin(w), g))
              BY <1>1 DEF Dead, Executing, Calls, WaitsFor, Fin
        <4>2. FeedbackOK(w, g)
              BY <2>1
        <4>3. QED
              BY <1>1, <3>1, <4>1, <4>2 DEF FeedbackOK, Fin
      <3>4. QED
            BY <3>2, <3>3
    <2>3. CASE w = u
      <3>1. obj'[w] = "freed" /\ idler'[w] = NoIdle /\ finished'[w] = 1 /\ tpc'[w] = "exited"
            BY <1>1, <1>2, <1>3, <2>3 DEF ThreadTypes
      <3>2. ThreadOK(w)'
            BY <1>1, <2>1, <3>1 DEF ThreadOK
      <3>3. FinOK(w)'
            BY <1>1, <1>3, <2>3, <3>1 DEF FinOK, Fin, Ended, Dead
      <3>4. ASSUME NEW g \in Feedbacks(w) PROVE FeedbackOK(w, g)'
        <4>1. status[g] = "free" /\ Dead(g) /\ Dead(g)'
              BY <1>1, <1>2, <2>3, NoFeedback DEF Dead
        <4>2. QED
              BY <1>1, <3>1, <4>1 DEF FeedbackOK, Ended, Ending
      <3>5. QED
            BY <3>2, <3>3, <3>4
    <2>4. QED
          BY <2>2, <2>3
  <1>7. QED
        BY <1>4, <1>5, <1>6 DEF ThreadInv, FinInv, FeedbackInv, Feedbacks

\* sol_run() is called once, so that after sol_quit() no idler is called.
LEMMA RunQuitPreserves ==
  ASSUME Separate, Inv, sol_run \/ sol_quit
  PROVE  WInv'
  <1>1. /\ UNCHANGED <<status, idler_vector, idler_v_process, before, idler_processing, mpc, todo, cur>>
        /\ UNCHANGED <<obj, tpc, cancel, lock, idler, finished, body, cpc, target>>
        BY DEF sol_run, sol_quit, I!sol_run, I!sol_quit, I!vectorVars, I!countVars, threadVars
  <1> USE DEF Inv, WInv
  <1>2. runs' # 0 /\ (Calls' => Calls)
    <2>1. CASE sol_run
      <3>1. runs < MaxRuns /\ runs' = runs + 1 /\ runs \in Nat /\ MaxRuns \in Nat
            BY <2>1, WorkerAssumption DEF sol_run, ThreadTypes
      <3>2. runs = 0 /\ runs' # 0
            BY <3>1 DEF Separate
      <3>3. QED
            BY <3>2 DEF Calls
    <2>2. CASE sol_quit
          BY <2>2 DEF sol_quit, I!sol_quit, threadVars, MainInv, Calls
    <2>3. QED
          BY <2>1, <2>2
  <1>3. LinkInv' /\ ThreadInv' /\ FinInv'
        BY <1>1 DEF LinkInv, ThreadInv, ThreadOK, FinInv, FinOK, Fin, Feedbacks, Dead
  <1>4. MainInv'
        BY <1>1, <1>2 DEF MainInv
  <1>5. ASSUME NEW w \in Workers, NEW g \in Feedbacks(w) PROVE FeedbackOK(w, g)'
    <2>1. FeedbackOK(w, g)
          BY DEF FeedbackInv
    <2>2. (Dead(g)' <=> Dead(g)) /\ (Executing(g)' <=> Executing(g))
          /\ (WaitsFor(Fin(w), g)' <=> WaitsFor(Fin(w), g))
          BY <1>1 DEF Dead, Executing, WaitsFor, Fin
    <2>3. QED
          BY <1>1, <1>2, <2>1, <2>2 DEF FeedbackOK, Fin
  <1>6. QED
        BY <1>3, <1>4, <1>5 DEF FeedbackInv, Feedbacks
-----------------------------------------------------------------------------
(* The worker threads use the idlers as Idlers says.                       *)

\* The types of the threads' own state are kept by every step.
LEMMA TypesPreserved ==
  ASSUME ThreadTypes, [Next]_vars
  PROVE  ThreadTypes'
  <1> USE WorkerAssumption DEF ThreadTypes, ThreadGoes
  <1>1. CASE UNCHANGED vars
        BY <1>1 DEF vars, threadVars
  <1>2. CASE \E w \in Workers : Thread(w) \/ sol_worker_thread_impl_new(w)
                                  \/ sol_worker_thread_impl_cancel(w)
    <2> PICK w \in Workers : Thread(w) \/ sol_worker_thread_impl_new(w)
                               \/ sol_worker_thread_impl_cancel(w)
        BY <1>2
    <2>1. CASE FeedbackAdd(w)
      <3>1. \A f \in FeedbackIdlers : <<w, f>> \in Idles
            BY DEF Idles
      <3>2. QED
            BY <2>1, <3>1 DEF FeedbackAdd
    <2>2. CASE EndAdd(w)
          BY <2>2 DEF EndAdd, Idles
    <2>3. CASE EndDel(w)
          BY <2>3 DEF EndDel
    <2>4. CASE \/ sol_worker_thread_impl_new(w) \/ sol_worker_thread_impl_cancel(w)
               \/ CancelCheck(w) \/ Exit(w) \/ sol_worker_thread_impl_feedback(w)
               \/ \E ok \in BOOLEAN : Setup(w, ok) \/ Iterate(w, ok)
          BY <2>4 DEF sol_worker_thread_impl_new, sol_worker_thread_impl_cancel, CancelCheck,
                      Exit, sol_worker_thread_impl_feedback, Setup, Iterate
    <2>5. QED
          BY <2>1, <2>2, <2>3, <2>4 DEF Thread
  <1>3. CASE MainLoop \/ sol_quit
        BY <1>3 DEF MainLoop, sol_quit, threadVars
  <1>4. CASE \/ \E h \in Idles : CallIdler(h)
             \/ sol_worker_thread_feedback_dispatch \/ CallbackReturns
        BY <1>4 DEF CallIdler, sol_worker_thread_feedback_dispatch, CallbackReturns
  <1>5. CASE sol_worker_thread_finished \/ CancelFinished
        BY <1>5 DEF sol_worker_thread_finished, CancelFinished, FinishedEffect
  <1>6. CASE CancelJoin \/ CancelDel
        BY <1>6 DEF CancelJoin, CancelDel
  <1>7. CASE sol_run
        BY <1>7 DEF sol_run
  <1>8. QED
        BY <1>1, <1>2, <1>3, <1>4, <1>5, <1>6, <1>7 DEF Next, Main

\* The two instances of Idlers sweep alike.
LEMMA SameCleanup ==
  ASSUME NEW v, NEW order, NEW st, NEW n
  PROVE  I!idler_cleanup(v, order, st, n) => P!idler_cleanup(v, order, st, n)
  <1>1. \A S : I!Cardinality(S) = P!Cardinality(S)
        BY DEF I!Cardinality, P!Cardinality, I!IsFiniteSet, P!IsFiniteSet
  <1> DEFINE marked == {h \in v : st[h] = "deleted"}
             victims == {h \in marked : I!Cardinality({k \in marked : <<h, k>> \in order}) < n}
  <1>2. victims = {h \in marked : P!Cardinality({k \in marked : <<h, k>> \in order}) < n}
        BY <1>1
  <1>3. QED
        BY <1>1, <1>2 DEF I!idler_cleanup, P!idler_cleanup

\* What worker threads do to the idlers is a step of Idlers, or none.
LEMMA IdlersStep ==
  ASSUME ThreadTypes, [Next]_vars
  PROVE  [P!Next]_(P!idlerVars)
  <1>1. ASSUME NEW h \in Idles, I!sol_idle_add(h)
        PROVE  P!Next
        BY <1>1 DEF P!Next, P!sol_idle_add, I!sol_idle_add, P!countVars, I!countVars
  <1>2. ASSUME NEW h \in Idles \cup {NoIdle}, IdleDel(h)
        PROVE  P!Next \/ UNCHANGED P!idlerVars
    <2>1. CASE UNCHANGED idlerVars
          BY <2>1 DEF idlerVars, P!idlerVars
    <2>2. CASE h # NoIdle /\ I!sol_idle_del(h)
      <3>1. P!sol_idle_del(h)
            BY <2>2, SameCleanup DEF P!sol_idle_del, I!sol_idle_del,
                                       P!InUserCode, I!InUserCode
      <3>2. QED
            BY <2>2, <3>1 DEF P!Next
    <2>3. QED
          BY <1>2, <2>1, <2>2 DEF IdleDel
  <1>3. ASSUME I!ProcessEnd
        PROVE  P!ProcessEnd
        BY <1>3, SameCleanup DEF P!ProcessEnd, I!ProcessEnd, P!MainGoes, I!MainGoes
  <1>4. CASE MainLoop
    <2> USE DEF P!MainGoes, I!MainGoes, P!vectorVars, I!vectorVars, P!countVars, I!countVars,
                P!Visits, I!Visits
    <2>1. CASE I!ProcessBegin \/ I!Awakened \/ I!TimeoutsProcessed \/ I!ScanDone
          BY <2>1 DEF I!ProcessBegin, I!Awakened, I!TimeoutsProcessed, I!ScanDone,
                      P!ProcessBegin, P!Awakened, P!TimeoutsProcessed, P!ScanDone,
                      P!Next, P!Process
    <2>2. CASE \E h \in Idles : I!Skip(h) \/ I!Awaken(h)
          BY <2>2 DEF I!Skip, I!Awaken, P!Skip, P!Awaken, P!Next, P!Process
    <2>3. CASE I!ProcessEnd
          BY <2>3, <1>3 DEF P!Next, P!Process
    <2>4. QED
          BY <1>4, <2>1, <2>2, <2>3 DEF MainLoop
  <1>5. CASE \E h \in Idles : CallIdler(h)
        BY <1>5 DEF CallIdler, I!Call, P!Call, P!MainGoes, I!MainGoes, P!Visits, I!Visits,
                    P!vectorVars, I!vectorVars, P!countVars, I!countVars, P!Next, P!Process
  <1>6. CASE CallbackReturns
    <2>1. P!Return(FALSE)
          BY <1>6 DEF CallbackReturns, I!Return, P!Return, P!MainGoes, I!MainGoes,
                      P!vectorVars, I!vectorVars
    <2>2. QED
          BY <2>1 DEF P!Next, P!Callback
  <1>7. CASE sol_run \/ sol_quit
        BY <1>7 DEF sol_run, sol_quit, I!sol_run, I!sol_quit, P!sol_run, P!sol_quit,
                    P!vectorVars, I!vectorVars, P!countVars, I!countVars, P!Next
  <1>8. CASE \E w \in Workers : FeedbackAdd(w) \/ EndAdd(w) \/ EndDel(w)
    <2> PICK w \in Workers : FeedbackAdd(w) \/ EndAdd(w) \/ EndDel(w)
        BY <1>8
    <2>1. CASE FeedbackAdd(w)
          BY <2>1, <1>1 DEF FeedbackAdd, Idles, idlerVars, P!idlerVars
    <2>2. CASE EndAdd(w)
          BY <2>2, <1>1 DEF EndAdd, Idles
    <2>3. CASE EndDel(w)
          BY <2>3, <1>2 DEF EndDel, ThreadTypes
    <2>4. QED
          BY <2>1, <2>2, <2>3
  <1>9. CASE CancelDel
    <2>1. idler[target] \in Idles \cup {NoIdle}
          BY <1>9 DEF CancelDel, ThreadTypes
    <2>2. QED
          BY <1>9, <2>1, <1>2 DEF CancelDel
  <1>10. CASE UNCHANGED idlerVars
         BY <1>10 DEF idlerVars, P!idlerVars
  <1>11. CASE \/ sol_worker_thread_feedback_dispatch \/ sol_worker_thread_finished
              \/ CancelJoin \/ CancelFinished \/ UNCHANGED vars
         BY <1>10, <1>11 DEF sol_worker_thread_feedback_dispatch, sol_worker_thread_finished,
                             CancelJoin, CancelFinished, vars
  <1>12. CASE \E w \in Workers :
                \/ sol_worker_thread_impl_new(w) \/ sol_worker_thread_impl_cancel(w)
                \/ CancelCheck(w) \/ Exit(w) \/ sol_worker_thread_impl_feedback(w)
                \/ \E ok \in BOOLEAN : Setup(w, ok) \/ Iterate(w, ok)
         BY <1>10, <1>12 DEF sol_worker_thread_impl_new, sol_worker_thread_impl_cancel,
                             CancelCheck, Exit, sol_worker_thread_impl_feedback, Setup, Iterate
  <1>13. QED
         BY <1>4, <1>5, <1>6, <1>7, <1>8, <1>9, <1>11, <1>12 DEF Next, Main, Thread

\* The idlers of the workers satisfy what Idlers assumes of its constants.
LEMMA IdlersConstants ==
  /\ NoIdle \notin Idles
  /\ P!IsFiniteSet(Idles)
  /\ TRUE \in BOOLEAN
  /\ MaxPending \in Nat
  BY FiniteIdles, WorkerAssumption DEF IsFiniteSet, P!IsFiniteSet

\* The main loop's idlers under worker threads behave as Idlers says: worker
\* threads only call sol_idle_add() and sol_idle_del(), so that what is proved
\* of Idlers holds of them.
THEOREM UsesIdlers == Spec => P!Spec
  <1>1. Init => ThreadTypes /\ P!Init
        BY WorkerAssumption DEF Init, I!Init, P!Init, ThreadTypes
  <1>2. ThreadTypes /\ [Next]_vars => ThreadTypes' /\ [P!Next]_(P!idlerVars)
        BY TypesPreserved, IdlersStep
  <1>3. QED
        BY <1>1, <1>2, PTL DEF Spec, P!Spec

\* The invariant of Idlers holds of the idlers of worker threads.
LEMMA IdlersInvariant == Spec => []IdlersInv
  <1>1. P!Spec => []P!IInv
        BY P!Inductive, IdlersConstants DEF P!Inductive
  <1>2. P!IInv => IdlersInv
        BY DEF P!IInv, P!TypeOK, P!NoDanglingIdler, P!PassInv, I!TypeOK, I!NoDanglingIdler,
               P!Status, I!Status, IdlersInv
  <1>3. QED
        BY <1>1, <1>2, UsesIdlers, PTL

-----------------------------------------------------------------------------
(* The invariant of the worker threads.                                    *)

\* The invariant holds before any thread is made.
LEMMA InitWInv == Init => WInv
  <1> SUFFICES ASSUME Init PROVE WInv
      OBVIOUS
  <1> USE Addresses DEF Init, I!Init
  <1>1. LinkInv /\ MainInv
        BY DEF LinkInv, MainInv
  <1>2. ThreadInv
        BY DEF ThreadInv, ThreadOK
  <1>3. FinInv
        BY DEF FinInv, FinOK, Ended
  <1>4. FeedbackInv
    <2> SUFFICES ASSUME NEW w \in Workers, NEW g \in Feedbacks(w) PROVE FeedbackOK(w, g)
        BY DEF FeedbackInv
    <2>1. g # NoIdle /\ status[g] = "free" /\ Dead(g)
          BY DEF Dead
    <2>2. QED
          BY <2>1 DEF FeedbackOK, Ending, Ended
  <1>5. QED
        BY <1>1, <1>2, <1>3, <1>4 DEF WInv

\* Steps of others.
LEMMA StutterPreserves ==
  ASSUME Inv, UNCHANGED vars
  PROVE  WInv'
  BY DEF Inv, vars, idlerVars, threadVars, WInv, LinkInv, ThreadInv, ThreadOK, MainInv,
         FinInv, FinOK, FeedbackInv, FeedbackOK, WaitsFor, Dead, Executing, Calls

\* Every step keeps the invariant, as long as no worker that sends feedback is
\* cancelled and sol_run() is called once.
LEMMA StepPreserves ==
  ASSUME Separate, Inv, IdlersInv', [Next]_vars
  PROVE  WInv'
  <1>1. CASE UNCHANGED vars
        BY <1>1, StutterPreserves
  <1>2. CASE Main
        BY <1>2, MainLoopPreserves, CallIdlerPreserves, DispatchPreserves, FinishedPreserves,
           ReturnsPreserves, JoinPreserves, CancelDelPreserves, CancelFinishedPreserves DEF Main
  <1>3. CASE sol_run \/ sol_quit
        BY <1>3, RunQuitPreserves
  <1>4. CASE \E w \in Workers : Thread(w) \/ sol_worker_thread_impl_new(w)
                                  \/ sol_worker_thread_impl_cancel(w)
    <2> PICK w \in Workers : Thread(w) \/ sol_worker_thread_impl_new(w)
                               \/ sol_worker_thread_impl_cancel(w)
        BY <1>4
    <2>1. CASE sol_worker_thread_impl_cancel(w)
          BY <2>1, CancelPreserves
    <2>2. CASE EndAdd(w) \/ EndDel(w)
          BY <2>2, EndAddPreserves, EndDelPreserves
    <2>3. CASE FeedbackAdd(w) /\ idler[w] = NoIdle
          BY <2>3, FeedbackAddPreserves
    <2>4. CASE \/ sol_worker_thread_impl_new(w) \/ CancelCheck(w) \/ Exit(w)
               \/ sol_worker_thread_impl_feedback(w)
               \/ \E ok \in BOOLEAN : Setup(w, ok) \/ Iterate(w, ok)
               \/ FeedbackAdd(w) /\ idler[w] # NoIdle
      <3>1. PICK to : Moves(w, to)
            BY <2>4, ThreadMoves
      <3>2. QED
            BY <3>1, MovesPreserves
    <2>5. QED
          BY <2>1, <2>2, <2>3, <2>4 DEF Thread
  <1>5. QED
        BY <1>1, <1>2, <1>3, <1>4 DEF Next

\* Worker threads, whose feedback and cancellation are not mixed, under one
\* sol_run(): what sol-worker-thread-impl-posix.c relies on between its lock,
\* its two idlers and pthread_join() holds at every step.
THEOREM WorkersInvariant ==
  ASSUME Separate
  PROVE  Spec => []Inv
  <1>1. Init => ThreadTypes /\ WInv
        BY InitWInv, WorkerAssumption DEF Init, ThreadTypes
  <1>2. Inv /\ IdlersInv' /\ [Next]_vars => Inv'
        BY StepPreserves, TypesPreserved DEF Inv
  <1>3. Inv <=> IdlersInv /\ ThreadTypes /\ WInv
        BY DEF Inv
  <1>4. QED
        BY <1>1, <1>2, <1>3, IdlersInvariant, PTL DEF Spec

\* sol_worker_thread_finished() runs at most once for a worker, from its idler
\* or from sol_worker_thread_cancel(), never from both.
THEOREM AlwaysFinishedOnce ==
  ASSUME Separate
  PROVE  Spec => []FinishedOnce
  <1>1. Inv => FinishedOnce
        BY DEF Inv, WInv, ThreadInv, ThreadOK, FinishedOnce
  <1>2. QED
        BY <1>1, WorkersInvariant, PTL

\* The struct of a worker is freed only after its thread has ended, neither
\* callback is entered and no cancellation goes on with a freed struct, and
\* thread->idler points to an allocated idler whenever it is looked at.
THEOREM NeverUsedAfterFree ==
  ASSUME Separate
  PROVE  Spec => []NoUseAfterFree
  <1>1. ASSUME Inv PROVE NoUseAfterFree
    <2> USE <1>1 DEF Inv, WInv
    <2>1. TypeOK
          BY DEF TypeOK, ThreadTypes, IdlersInv, ThreadInv, ThreadOK
    <2>2. IdlerPointerValid
      <3> SUFFICES ASSUME NEW w \in Workers, obj[w] = "alive", tpc[w] # "end_add",
                          idler[w] # NoIdle, cpc # "finished"
                   PROVE  status[idler[w]] # "free"
          BY DEF IdlerPointerValid
      <3>1. CASE tpc[w] \in Ended
            BY <3>1 DEF FinInv, FinOK
      <3>2. CASE tpc[w] \notin Ended
            BY <3>2 DEF FinInv, FinOK, FeedbackInv, FeedbackOK, Ending, Ended
      <3>3. QED
            BY <3>1, <3>2
    <2>3. \A w \in Workers : tpc[w] \notin {"none", "exited"} => obj[w] = "alive"
          BY DEF ThreadTypes, ThreadInv, ThreadOK
    <2>4. QED
          BY <2>1, <2>2, <2>3 DEF NoUseAfterFree, MainInv
  <1>2. QED
        BY <1>1, WorkersInvariant, PTL
=============================================================================
