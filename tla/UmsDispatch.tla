---------------------------- MODULE UmsDispatch ----------------------------
(***************************************************************************)
(* The dispatch core of linux-ums: how scheduler threads and worker        *)
(* threads hand the processor to each other.  The kernel handlers are      *)
(* those of src/module/src/{scheduler,worker,complist,context}.c; they are *)
(* driven by the event loop of src/lib/src/scheduler.c, by the worker      *)
(* wrapper of src/lib/src/worker.c and by the run queue of                 *)
(* examples/00-simple-example/main.c.                                      *)
(*                                                                         *)
(* A thread is in one place of that code, pc[t].  A handler is split only  *)
(* where another thread can observe or disturb it: at each list operation  *)
(* done under a lock, at each change of a task's state and at schedule().  *)
(* "asleep" is the call of schedule(), which returns once the task is      *)
(* TASK_RUNNING, whoever made it so.                                       *)
(***************************************************************************)
EXTENDS Naturals, Sequences

CONSTANTS
    Schedulers,   \* threads that call enter_ums_scheduling_mode
    Workers,      \* threads created by ums_pthread_create
    CompList,     \* the completion list all of them share
    Uninit,       \* the content of a pointer of kmalloc'ed memory never assigned
    MaxFaults,    \* bound: failing allocations, symlinks and user copies
    MaxSignals    \* bound: signals delivered to sleeping schedulers

Threads == Schedulers \cup Workers

\* What has a struct list_head of workers: the completion list, the context
\* of a worker (the rest of the list it was dequeued with) and, in user space,
\* the run queue of a scheduler thread.
Heads == {CompList} \cup Threads

ASSUME ThreadsAssumption ==
    /\ Schedulers \cap Workers = {}
    /\ CompList \notin Threads
    /\ Uninit \notin Threads

ASSUME BoundsAssumption ==
    /\ MaxFaults \in Nat
    /\ MaxSignals \in Nat

VARIABLES
    pc,          \* where each thread is
    schedulers,  \* data->schedulers, the hash table of scheduler contexts
    workers,     \* data->workers, the hash table of worker contexts
    state,       \* context->state
    task,        \* the state of context->task
    parent,      \* context->parent
    event_q,     \* scheduler->event_q
    list,        \* the members of the list that starts at each head
    ctx,         \* the worker context a scheduler thread is working on
    faults,      \* failures so far
    signals      \* signals so far

vars == <<pc, schedulers, workers, state, task, parent, event_q,
          list, ctx, faults, signals>>

SchedulerPCs == {"start", "dqevent", "next_context", "dqcontext", "requeue",
                 "collect", "switch", "switch_wake", "asleep", "exited"}

WorkerPCs == {"new", "enter_add", "asleep", "run", "switch", "switch_wake",
              "yield_add", "end_wake", "end_destroy", "done", "gone"}

Event == [type: {"SCHEDULER_STARTUP"}]
           \cup [type: {"THREAD_YIELD", "THREAD_TERMINATED"}, context: Workers]

Init ==
    /\ pc = [t \in Threads |-> IF t \in Schedulers THEN "start" ELSE "new"]
    /\ schedulers = {}
    /\ workers = {}
    /\ state = [t \in Threads |-> "RUNNING"]
    /\ task = [t \in Threads |-> "running"]
    /\ parent = [t \in Threads |-> Uninit]
    /\ event_q = [s \in Schedulers |-> <<>>]
    /\ list = [h \in Heads |-> <<>>]
    /\ ctx = [s \in Schedulers |-> Uninit]
    /\ faults = 0
    /\ signals = 0

-----------------------------------------------------------------------------
(* Building blocks shared by the handlers.                                 *)

\* A call that may fail does so here.
Fault ==
    /\ faults < MaxFaults
    /\ faults' = faults + 1

Goto(t, label) == pc' = [pc EXCEPT ![t] = label]

PrepareSuspendContext(t) ==
    /\ state' = [state EXCEPT ![t] = "IDLE"]
    /\ task' = [task EXCEPT ![t] = "interruptible"]

WakeUpContext(t) ==
    /\ state' = [state EXCEPT ![t] = "RUNNING"]
    /\ task' = [task EXCEPT ![t] = "running"]

\* Variant: `to' runs before `from' is marked as sleeping.
PrepareSwitchContext_WakesFirst(from, to, after) ==
    \/ /\ pc[from] = "switch"
       /\ parent' = [parent EXCEPT ![to] = from]
       /\ WakeUpContext(to)
       /\ Goto(from, "switch_wake")
    \/ /\ pc[from] = "switch_wake"
       /\ PrepareSuspendContext(from)
       /\ Goto(from, after)
       /\ UNCHANGED parent

\* Variant: `to' does not learn who runs it.
PrepareSwitchContext_NoParent(from, to, after) ==
    \/ /\ pc[from] = "switch"
       /\ PrepareSuspendContext(from)
       /\ Goto(from, "switch_wake")
       /\ UNCHANGED parent
    \/ /\ pc[from] = "switch_wake"
       /\ WakeUpContext(to)
       /\ Goto(from, after)
       /\ UNCHANGED parent

\* The two observable steps of prepare_switch_context: `from' is marked as
\* sleeping before `to' may run, and may be woken in between.
PrepareSwitchContext(from, to, after) ==
    \/ /\ pc[from] = "switch"
       /\ parent' = [parent EXCEPT ![to] = from]
       /\ PrepareSuspendContext(from)
       /\ Goto(from, "switch_wake")
    \/ /\ pc[from] = "switch_wake"
       /\ WakeUpContext(to)
       /\ Goto(from, after)
       /\ UNCHANGED parent

EnqueueUmsSchedEvent(s, event) ==
    event_q' = [event_q EXCEPT ![s] = Append(@, event)]

\* Linking the list_head of w also makes it forget the list it was head of.
UmsCompletionListAddTail(w) ==
    list' = [list EXCEPT ![CompList] = Append(@, w), ![w] = <<>>]

\* Variant: list_replace without init, the old head still leads to the list.
Detached_NoInit(h) ==
    [list EXCEPT ![h] = Tail(@), ![Head(list[h])] = Tail(list[h])]

\* Variant: only list_del, what followed the first entry is lost.
Detached_NoReplace(h) == [list EXCEPT ![h] = <<>>]

\* The first entry of the list at h leaves it, and its own list_head becomes
\* the head of the rest: list_del and list_replace_init.
Detached(h) ==
    [list EXCEPT ![h] = <<>>, ![Head(list[h])] = Tail(list[h])]

-----------------------------------------------------------------------------
(* Scheduler threads.                                                      *)

\* The scheduler registers and gets the event that starts its loop.  When an
\* allocation fails nothing is left registered and the thread returns.
EnterUmsSchedulerMode(s) ==
    /\ pc[s] = "start"
    /\ \/ /\ schedulers' = schedulers \cup {s}
          /\ EnqueueUmsSchedEvent(s, [type |-> "SCHEDULER_STARTUP"])
          /\ Goto(s, "dqevent")
          /\ UNCHANGED faults
       \/ /\ Fault
          /\ Goto(s, "exited")
          /\ UNCHANGED <<schedulers, event_q>>
    /\ UNCHANGED <<workers, state, task, parent, list, ctx, signals>>

\* Waits for an event and takes the first.  When it cannot be copied to the
\* caller it goes back to the head of the queue, and the library's loop ends.
UmsSchedDqevent(s) ==
    /\ pc[s] = "dqevent"
    /\ s \in schedulers
    /\ event_q[s] # <<>>
    /\ \/ /\ event_q' = [event_q EXCEPT ![s] = Tail(@)]
          /\ Goto(s, "next_context")
          /\ UNCHANGED faults
       \/ /\ Fault
          /\ Goto(s, "exited")
          /\ UNCHANGED event_q
    /\ UNCHANGED <<schedulers, workers, state, task, parent, list,
                   ctx, signals>>

\* The entry point, whatever the event: run the first context of the run
\* queue, or ask the kernel for more.
GetNextContext(s) ==
    /\ pc[s] = "next_context"
    /\ \/ /\ list[s] # <<>>
          /\ ctx' = [ctx EXCEPT ![s] = Head(list[s])]
          /\ list' = [list EXCEPT ![s] = Tail(@)]
          /\ Goto(s, "switch")
       \/ /\ list[s] = <<>>
          /\ Goto(s, "dqcontext")
          /\ UNCHANGED <<list, ctx>>
    /\ UNCHANGED <<schedulers, workers, state, task, parent,
                   event_q, faults, signals>>

\* Waits until the completion list has a context and takes all of it.  When
\* the symlink of the first context or the copy to the caller fails, that
\* context has to go back.  When the caller then has no memory for a node of
\* its run queue it drops what it got.  When the arguments cannot be read the
\* call fails at once.
UmsComplistDqcontext(s) ==
    /\ pc[s] = "dqcontext"
    /\ s \in schedulers
    /\ \/ /\ list[CompList] # <<>>
          /\ LET first == Head(list[CompList])
             IN  /\ ctx' = [ctx EXCEPT ![s] = first]
                 /\ \/ /\ list' = [Detached(CompList) EXCEPT ![s] = <<first>>]
                       /\ Goto(s, "collect")
                       /\ UNCHANGED faults
                    \/ /\ Fault
                       /\ list' = Detached(CompList)
                       /\ \/ Goto(s, "requeue")
                          \/ Goto(s, "dqevent")
       \/ /\ Fault
          /\ Goto(s, "dqevent")
          /\ UNCHANGED <<list, ctx>>
    /\ UNCHANGED <<schedulers, workers, state, task, parent,
                   event_q, signals>>

\* Variant: the caller goes on with the context it was told it did not get.
ReregisterContext_Ignored(s) ==
    /\ pc[s] = "requeue"
    /\ list' = [list EXCEPT ![CompList] = <<ctx[s]>> \o @, ![ctx[s]] = <<>>]
    /\ Goto(s, "switch")
    /\ UNCHANGED <<schedulers, workers, state, task, parent,
                   event_q, ctx, faults, signals>>

\* The error path of the above: only the first context is put back, and
\* relinking its list_head unlinks the contexts that followed it.
ReregisterContext(s) ==
    /\ pc[s] = "requeue"
    /\ list' = [list EXCEPT ![CompList] = <<ctx[s]>> \o @, ![ctx[s]] = <<>>]
    /\ Goto(s, "dqevent")
    /\ UNCHANGED <<schedulers, workers, state, task, parent,
                   event_q, ctx, faults, signals>>

\* Variant: the rest of the list stays at the context it was found at.
UmsComplistNextContext_RestStays(s) ==
    /\ pc[s] = "collect"
    /\ ctx[s] \in workers
    /\ \/ /\ list[ctx[s]] = <<>>
          /\ list' = [list EXCEPT ![s] = Tail(@)]
          /\ ctx' = [ctx EXCEPT ![s] = Head(list[s])]
          /\ Goto(s, "switch")
       \/ /\ list[ctx[s]] # <<>>
          /\ list' = [list EXCEPT ![ctx[s]] = Tail(@), ![s] = Append(@, Head(list[ctx[s]]))]
          /\ ctx' = [ctx EXCEPT ![s] = Head(list[ctx[s]])]
          /\ UNCHANGED pc
    /\ UNCHANGED <<schedulers, workers, state, task, parent,
                   event_q, faults, signals>>

\* Variant: list_add in place of list_add_tail in the run queue.
UmsComplistNextContext_AddsAtHead(s) ==
    /\ pc[s] = "collect"
    /\ ctx[s] \in workers
    /\ \/ /\ list[ctx[s]] = <<>>
          /\ list' = [list EXCEPT ![s] = Tail(@)]
          /\ ctx' = [ctx EXCEPT ![s] = Head(list[s])]
          /\ Goto(s, "switch")
       \/ /\ list[ctx[s]] # <<>>
          /\ list' = [Detached(ctx[s]) EXCEPT ![s] = <<Head(list[ctx[s]])>> \o @]
          /\ ctx' = [ctx EXCEPT ![s] = Head(list[ctx[s]])]
          /\ UNCHANGED pc
    /\ UNCHANGED <<schedulers, workers, state, task, parent,
                   event_q, faults, signals>>

\* One turn of the loop over get_next_ums_list_item: move the next context of
\* the dequeued list to the run queue, or, at the end of the list, take the
\* first of the run queue.  When the arguments cannot be read the loop ends
\* before the end of the list.  A failing copy to the caller also ends the loop
\* and loses the context just unlinked; a failing malloc loses it and returns.
UmsComplistNextContext(s) ==
    /\ pc[s] = "collect"
    /\ ctx[s] \in workers
    /\ \/ /\ \/ list[ctx[s]] = <<>> /\ UNCHANGED faults
             \/ Fault
          /\ list' = [list EXCEPT ![s] = Tail(@)]
          /\ ctx' = [ctx EXCEPT ![s] = Head(list[s])]
          /\ Goto(s, "switch")
       \/ /\ list[ctx[s]] # <<>>
          /\ LET next == Head(list[ctx[s]])
             IN  \/ /\ list' = [Detached(ctx[s]) EXCEPT ![s] = Append(@, next)]
                    /\ ctx' = [ctx EXCEPT ![s] = next]
                    /\ UNCHANGED <<pc, faults>>
                 \/ /\ Fault
                    /\ list' = [Detached(ctx[s]) EXCEPT ![s] = Tail(@)]
                    /\ ctx' = [ctx EXCEPT ![s] = Head(list[s])]
                    /\ Goto(s, "switch")
                 \/ /\ Fault
                    /\ list' = Detached(ctx[s])
                    /\ Goto(s, "dqevent")
                    /\ UNCHANGED ctx
    /\ UNCHANGED <<schedulers, workers, state, task, parent,
                   event_q, signals>>

\* The scheduler suspends itself and wakes the worker, whatever the worker is
\* doing: the handler looks both contexts up and checks nothing else.
ExecUmsContext(s) ==
    /\ s \in schedulers
    /\ ctx[s] \in workers
    /\ PrepareSwitchContext(s, ctx[s], "asleep")
    /\ UNCHANGED <<schedulers, workers, event_q, list, ctx, faults, signals>>

\* Variant: the loop takes the return of the call for an event.
SchedulerResumes_NoWait(s) ==
    /\ pc[s] = "asleep"
    /\ task[s] = "running"
    /\ Goto(s, "next_context")
    /\ UNCHANGED <<schedulers, workers, state, task, parent,
                   event_q, list, ctx, faults, signals>>

\* schedule() of exec_ums_context returns and the library's loop goes on.
SchedulerResumes(s) ==
    /\ pc[s] = "asleep"
    /\ task[s] = "running"
    /\ Goto(s, "dqevent")
    /\ UNCHANGED <<schedulers, workers, state, task, parent,
                   event_q, list, ctx, faults, signals>>

\* A signal makes an interruptible sleep end.  The context state is not
\* touched: only wake_up_context sets it.
Signal(t) ==
    /\ signals < MaxSignals
    /\ task[t] = "interruptible"
    /\ task' = [task EXCEPT ![t] = "running"]
    /\ signals' = signals + 1
    /\ UNCHANGED <<pc, schedulers, workers, state, parent, event_q,
                   list, ctx, faults>>

-----------------------------------------------------------------------------
(* Worker threads.                                                         *)

\* Variant: prepare_suspend_context is not called.
EnterUmsWorkerMode_NotSuspended(w) ==
    /\ pc[w] = "new"
    /\ workers' = workers \cup {w}
    /\ Goto(w, "enter_add")
    /\ UNCHANGED <<schedulers, state, task, parent, event_q, list, ctx, faults, signals>>

\* The worker registers and is marked as sleeping before it is published.
EnterUmsWorkerMode(w) ==
    /\ pc[w] = "new"
    /\ \/ /\ workers' = workers \cup {w}
          /\ PrepareSuspendContext(w)
          /\ Goto(w, "enter_add")
          /\ UNCHANGED faults
       \/ /\ Fault
          /\ Goto(w, "gone")
          /\ UNCHANGED <<workers, state, task>>
    /\ UNCHANGED <<schedulers, parent, event_q, list, ctx, signals>>

\* The context becomes available to every scheduler, then schedule() is called.
\* This is the last step before sleeping of both enter_ums_worker_mode and
\* ums_worker_yield.
PublishContext(w) ==
    /\ pc[w] \in {"enter_add", "yield_add"}
    /\ UmsCompletionListAddTail(w)
    /\ Goto(w, "asleep")
    /\ UNCHANGED <<schedulers, workers, state, task, parent,
                   event_q, ctx, faults, signals>>

WorkerResumes(w) ==
    /\ pc[w] = "asleep"
    /\ task[w] = "running"
    /\ Goto(w, "run")
    /\ UNCHANGED <<schedulers, workers, state, task, parent,
                   event_q, list, ctx, faults, signals>>

\* Variant: the event does not say which context yields.
UmsWorkerYield_NoContext(w) ==
    /\ pc[w] = "run"
    /\ w \in workers
    /\ EnqueueUmsSchedEvent(parent[w], [type |-> "THREAD_YIELD"])
    /\ Goto(w, "switch")
    /\ UNCHANGED <<schedulers, workers, state, task, parent, list,
                   ctx, faults, signals>>

\* The event is queued at the parent first; the parent pointer is used as it
\* is.  Without memory for the event the call fails and the worker runs on.
UmsWorkerYield(w) ==
    /\ pc[w] = "run"
    /\ w \in workers
    /\ \/ /\ EnqueueUmsSchedEvent(parent[w],
                 [type |-> "THREAD_YIELD", context |-> w])
          /\ Goto(w, "switch")
          /\ UNCHANGED faults
       \/ /\ Fault
          /\ UNCHANGED <<pc, event_q>>
    /\ UNCHANGED <<schedulers, workers, state, task, parent, list,
                   ctx, signals>>

WorkerSwitches(w) ==
    /\ PrepareSwitchContext(w, parent[w], "yield_add")
    /\ UNCHANGED <<schedulers, workers, event_q, list, ctx, faults, signals>>

\* The thread function has returned and the destructor of the worker's key
\* leaves UMS mode, ignoring a failure.  The branch of the handler for a worker
\* without a parent is never taken: ParentIsRegistered.
UmsWorkerEnd(w) ==
    /\ pc[w] = "run"
    /\ w \in workers
    /\ \/ /\ EnqueueUmsSchedEvent(parent[w],
                 [type |-> "THREAD_TERMINATED", context |-> w])
          /\ Goto(w, "end_wake")
          /\ UNCHANGED faults
       \/ /\ Fault
          /\ Goto(w, "gone")
          /\ UNCHANGED event_q
    /\ UNCHANGED <<schedulers, workers, state, task, parent, list,
                   ctx, signals>>

WorkerWakesParent(w) ==
    /\ pc[w] = "end_wake"
    /\ WakeUpContext(parent[w])
    /\ Goto(w, "end_destroy")
    /\ UNCHANGED <<schedulers, workers, parent, event_q, list, ctx,
                   faults, signals>>

UmsWorkerDestroy(w) ==
    /\ pc[w] = "end_destroy"
    /\ workers' = workers \ {w}
    /\ Goto(w, "done")
    /\ UNCHANGED <<schedulers, state, task, parent, event_q, list,
                   ctx, faults, signals>>

-----------------------------------------------------------------------------

\* main() joins every worker thread and returns, which ends the detached
\* scheduler threads wherever they are.
MainReturns ==
    /\ \A w \in Workers : pc[w] \in {"done", "gone"}
    /\ pc' = [t \in Threads |-> IF t \in Schedulers THEN "exited" ELSE pc[t]]
    /\ UNCHANGED <<schedulers, workers, state, task, parent,
                   event_q, list, ctx, faults, signals>>

SchedulerStep(s) ==
    \/ EnterUmsSchedulerMode(s)
    \/ UmsSchedDqevent(s)
    \/ GetNextContext(s)
    \/ UmsComplistDqcontext(s)
    \/ ReregisterContext(s)
    \/ UmsComplistNextContext(s)
    \/ ExecUmsContext(s)
    \/ SchedulerResumes(s)

WorkerStep(w) ==
    \/ EnterUmsWorkerMode(w)
    \/ PublishContext(w)
    \/ WorkerResumes(w)
    \/ UmsWorkerYield(w)
    \/ WorkerSwitches(w)
    \/ UmsWorkerEnd(w)
    \/ WorkerWakesParent(w)
    \/ UmsWorkerDestroy(w)

Next ==
    \/ \E s \in Schedulers : SchedulerStep(s) \/ Signal(s)
    \/ \E w \in Workers : WorkerStep(w)
    \/ MainReturns

Spec == Init /\ [][Next]_vars

\* The kernel runs every runnable task, and a worker that runs yields or
\* returns some time: scheduling is cooperative.
Fairness ==
    /\ \A s \in Schedulers : WF_vars(SchedulerStep(s))
    /\ \A w \in Workers : WF_vars(WorkerStep(w))
    /\ WF_vars(MainReturns)

FairSpec == Spec /\ Fairness

-----------------------------------------------------------------------------
(* What the states mean.                                                   *)

\* w is out of user mode and nobody has asked for it to run.
Parked(w) ==
    /\ pc[w] = "asleep"
    /\ task[w] = "interruptible"
    /\ state[w] = "IDLE"

\* w runs its own code, or has been woken to.
Executing(w) ==
    \/ pc[w] = "run"
    \/ pc[w] = "asleep" /\ task[w] = "running"

\* s has taken an event and has not yet let a worker run.
Handling(s) ==
    pc[s] \in {"next_context", "dqcontext", "requeue", "collect", "switch",
               "switch_wake"}

\* s has a context in hand that is in no list: to run it, or to put it back.
Holding(s) == pc[s] \in {"requeue", "switch", "switch_wake"}

\* w is linked in the list at h.
Linked(w, h) == \E i \in DOMAIN list[h] : list[h][i] = w

\* The steps of w that wake its parent are still to come.
WillWakeParent(w) == pc[w] \in {"switch", "switch_wake", "end_wake"}

-----------------------------------------------------------------------------
(* Properties.                                                             *)

\* Every variable keeps its type, and parent pointers lead from a worker to a
\* scheduler and back, never between two contexts of one kind.
TypeOK ==
    /\ pc \in [Threads -> SchedulerPCs \cup WorkerPCs]
    /\ \A s \in Schedulers : pc[s] \in SchedulerPCs
    /\ \A w \in Workers : pc[w] \in WorkerPCs
    /\ schedulers \subseteq Schedulers
    /\ workers \subseteq Workers
    /\ state \in [Threads -> {"RUNNING", "IDLE"}]
    /\ task \in [Threads -> {"running", "interruptible"}]
    /\ parent \in [Threads -> Threads \cup {Uninit}]
    /\ \A s \in Schedulers : parent[s] \in Workers \cup {Uninit}
    /\ \A w \in Workers : parent[w] \in Schedulers \cup {Uninit}
    /\ event_q \in [Schedulers -> Seq(Event)]
    /\ list \in [Heads -> Seq(Workers)]
    /\ ctx \in [Schedulers -> Workers \cup {Uninit}]
    /\ faults \in 0..MaxFaults
    /\ signals \in 0..MaxSignals

\* The right to use a scheduler's processor is a single token: it is in the
\* event queue, or with the scheduler that handles the event, or with the one
\* worker that scheduler has run.  enter_ums_scheduler_mode creates it,
\* exec_ums_context gives it to the worker, ums_worker_yield and
\* ums_worker_end give it back; no two of these places ever hold it at once,
\* even when a scheduler is woken early and runs beside its worker.
OneToken ==
    \A s \in Schedulers :
        /\ Len(event_q[s]) <= 1
        /\ event_q[s] # <<>> => ~Handling(s)
        /\ \A w \in Workers : Executing(w) /\ parent[w] = s =>
              /\ event_q[s] = <<>>
              /\ ~Handling(s)
              /\ \A v \in Workers : Executing(v) /\ parent[v] = s => v = w

\* A context is linked at most once, in one list: list_add in
\* ums_completion_list_add never takes a list_head that is already linked,
\* and no two schedulers can retrieve the same worker.
LinkedOnce ==
    \A h, g \in Heads : \A i \in DOMAIN list[h], j \in DOMAIN list[g] :
        list[h][i] = list[g][j] => h = g /\ i = j

\* exec_ums_context wakes whatever thread it is given.  A worker that is
\* linked, or that a scheduler is about to run or to put back, is registered
\* and asleep, so the wake-up always finds a worker at its call of schedule();
\* and no second scheduler holds or can find it.
RunsOnlyParked ==
    /\ \A w \in Workers, h \in Heads : Linked(w, h) => Parked(w) /\ w \in workers
    /\ \A s \in Schedulers : Holding(s) =>
          /\ Parked(ctx[s])
          /\ ctx[s] \in workers
          /\ \A h \in Heads : ~Linked(ctx[s], h)
          /\ \A r \in Schedulers : Holding(r) /\ ctx[r] = ctx[s] => r = s

\* ums_complist_next_context reads and relinks the list of a context without
\* a lock because "only one scheduler is owning the context list"
\* (complist.c:248): the context whose list is walked is in the walker's own
\* run queue, and without failures no list is left behind at a context that
\* nobody walks.
OneOwnerOfContextList ==
    /\ \A s \in Schedulers : pc[s] = "collect" => Linked(ctx[s], s)
    /\ faults = 0 =>
          \A w \in Workers : list[w] # <<>> =>
              \E s \in Schedulers : pc[s] = "collect" /\ ctx[s] = w

\* ums_worker_yield follows worker_context->parent without a check: a worker
\* that runs has been given a parent that is registered.
ParentIsRegistered ==
    \A w \in Workers :
        Executing(w) \/ WillWakeParent(w) => parent[w] \in schedulers

\* Without failures no worker is lost: one that waits to be run is in the
\* completion list, in a run queue, in the list a scheduler is still walking,
\* or is the one about to be run.
NoWorkerLost ==
    faults = 0 =>
        \A w \in Workers : Parked(w) =>
            \/ Linked(w, CompList)
            \/ \E s \in Schedulers :
                  \/ Linked(w, s)
                  \/ pc[s] = "collect" /\ Linked(w, ctx[s])
                  \/ Holding(s) /\ ctx[s] = w

\* Without failures no wake-up is lost: while a scheduler sleeps in
\* exec_ums_context, a worker it has run still runs or is on its way to wake
\* it.  The order of the two halves of prepare_switch_context is what this
\* needs.
NoLostWakeUp ==
    faults = 0 =>
        \A s \in Schedulers :
            pc[s] = "asleep" /\ task[s] = "interruptible" =>
                \E w \in Workers :
                    /\ parent[w] = s
                    /\ Executing(w) \/ WillWakeParent(w)

\* What a scheduler takes is the completion list, all of it and in its order:
\* at every turn of the loop over get_next_ums_list_item the run queue followed
\* by the rest of the dequeued list is the list that ums_complist_dqcontext
\* found, whatever the other threads publish or dequeue meanwhile.
TakesAllInOrder ==
    [][\A s \in Schedulers : pc'[s] = "collect" =>
          list'[s] \o list'[ctx'[s]] =
              IF pc[s] = "collect" THEN list[s] \o list[ctx[s]] ELSE list[CompList]]_vars

\* The worker that runs for s, as a user of the library sees it.
CurrentOf(s) ==
    IF \E w \in Workers : Executing(w) /\ parent[w] = s
    THEN CHOOSE w \in Workers : Executing(w) /\ parent[w] = s
    ELSE Uninit

StatusOf(w) ==
    CASE pc[w] \in {"new", "enter_add"} -> "created"
      [] Executing(w) -> "running"
      [] pc[w] \in {"end_wake", "end_destroy", "done", "gone"} -> "done"
      [] OTHER -> "ready"

Promise == INSTANCE UserScheduling
           WITH Nobody  <- Uninit,
                status  <- [w \in Workers |-> StatusOf(w)],
                current <- [s \in Schedulers |-> CurrentOf(s)]

\* The handlers implement cooperative scheduling: a worker starts to run only
\* when a scheduler that runs nobody selects it while it is ready, and stops
\* only by its own yield or end.
ImplementsUserScheduling == Promise!Spec

\* A context published on the completion list is run by some scheduler, also
\* when every worker yields for ever.
PublishedIsRun ==
    \A w \in Workers : Linked(w, CompList) ~> pc[w] = "run"

\* When the function of a worker that is run again and again returns some time,
\* every worker thread leaves UMS mode and the process exits.
AllWorkersFinish ==
    (\A w \in Workers : SF_vars(UmsWorkerEnd(w))) =>
        <>[](\A t \in Threads : pc[t] \in {"done", "exited"})
=============================================================================
