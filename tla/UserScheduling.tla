--------------------------- MODULE UserScheduling ---------------------------
(***************************************************************************)
(* What linux-ums promises its users: cooperative scheduling of worker     *)
(* threads by scheduler threads.  A worker is ready or runs on exactly one *)
(* scheduler, a scheduler runs at most one worker, and a worker leaves the *)
(* processor only by its own yield or end.                                 *)
(***************************************************************************)
CONSTANTS
    Schedulers,
    Workers,
    Nobody       \* what a scheduler runs when it runs no worker

VARIABLES
    status,      \* of each worker: created, ready, running or done
    current      \* the worker each scheduler runs

vars == <<status, current>>

Init ==
    /\ status = [w \in Workers |-> "created"]
    /\ current = [s \in Schedulers |-> Nobody]

\* The worker has entered worker mode and waits to be selected.
Arrive(w) ==
    /\ status[w] = "created"
    /\ status' = [status EXCEPT ![w] = "ready"]
    /\ UNCHANGED current

\* The worker could not enter worker mode.
Abandon(w) ==
    /\ status[w] = "created"
    /\ status' = [status EXCEPT ![w] = "done"]
    /\ UNCHANGED current

\* An idle scheduler selects a worker that is ready.
Execute(s, w) ==
    /\ current[s] = Nobody
    /\ status[w] = "ready"
    /\ status' = [status EXCEPT ![w] = "running"]
    /\ current' = [current EXCEPT ![s] = w]

\* The worker gives the processor back and is ready again.
Yield(s, w) ==
    /\ current[s] = w
    /\ status' = [status EXCEPT ![w] = "ready"]
    /\ current' = [current EXCEPT ![s] = Nobody]

\* The worker gives the processor back for good.
End(s, w) ==
    /\ current[s] = w
    /\ status' = [status EXCEPT ![w] = "done"]
    /\ current' = [current EXCEPT ![s] = Nobody]

Next ==
    \E w \in Workers :
        \/ Arrive(w)
        \/ Abandon(w)
        \/ \E s \in Schedulers : Execute(s, w) \/ Yield(s, w) \/ End(s, w)

Spec == Init /\ [][Next]_vars
=============================================================================
