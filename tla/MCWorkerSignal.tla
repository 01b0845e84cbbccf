--------------------------- MODULE MCWorkerSignal ---------------------------
(***************************************************************************)
(* UmsDispatch, and signals that also reach sleeping workers: SIGSTOP and  *)
(* SIGCONT, or any signal with a handler.  A worker sleeps in              *)
(* TASK_INTERRUPTIBLE and calls schedule() once, without checking why it   *)
(* returned.                                                               *)
(***************************************************************************)
EXTENDS UmsDispatch

SignalNext == Next \/ \E w \in Workers : Signal(w)

SignalSpec == Init /\ [][SignalNext]_vars

\* doc/userspace/thread_execution.rst: "A newly created UMS worker thread is
\* queued to the specified completion list and does not begin running until
\* the application's UMS scheduler selects it to run."  Selecting a worker is
\* what makes a scheduler its parent (exec_ums_context).
BeginsRunningWhenSelected ==
    \A w \in Workers : pc[w] = "run" => parent[w] \in Schedulers
=============================================================================
