---------------------------- MODULE UmsWaitQueue ----------------------------
(***************************************************************************)
(* The queues a scheduler thread sleeps on, at the grain of their lock and *)
(* wait queue: scheduler->event_q with sched_wait_q, and complist->head    *)
(* with wait_q.  The two have the same code, up to what a dequeue takes:   *)
(* the first event, or the first context with all that follow it.          *)
(* UmsDispatch has each of these calls as one step that waits.             *)
(*                                                                         *)
(* A critical section is one step unless a thread that reads list_empty    *)
(* without the lock can see its middle.                                    *)
(***************************************************************************)
EXTENDS Naturals, Sequences, FiniteSets

CONSTANTS
    Producers,   \* workers: a worker is also the event or context it queues
    Consumers,   \* scheduler threads
    NoThread,    \* the holder of a free lock
    MaxFaults,   \* bound: failing symlinks and copies to the caller
    MaxSignals   \* bound: signals to scheduler threads

Threads == Producers \cup Consumers

ASSUME WaitQueueAssumption ==
    /\ Producers \cap Consumers = {}
    /\ NoThread \notin Threads
    /\ Consumers # {}
    /\ {MaxFaults, MaxSignals} \subseteq Nat

VARIABLES
    pc,        \* where each thread is
    all,       \* whether this is a completion list
    lock,      \* the thread in the critical section
    queue,     \* event_q or head
    waiters,   \* the threads linked in the wait queue
    task,      \* the task states
    pending,   \* threads with a pending signal
    got,       \* what a consumer has dequeued
    faults,
    signals

vars == <<pc, all, lock, queue, waiters, task, pending, got, faults, signals>>

\* "taken" is "wake" of a producer whose item has already been delivered.
ProducerPCs == {"idle", "wake", "queued", "taken"}

ConsumerPCs == {"idle", "lock", "cond", "prepare", "recheck", "recheck_intr",
                "sleep", "finish", "take", "replace", "copy", "requeue", "wake"}

Init ==
    /\ pc = [t \in Threads |-> "idle"]
    /\ all \in BOOLEAN
    /\ lock = NoThread
    /\ queue = <<>>
    /\ waiters = {}
    /\ task = [t \in Threads |-> "running"]
    /\ pending = {}
    /\ got = [c \in Consumers |-> <<>>]
    /\ faults = 0
    /\ signals = 0

Goto(t, label) == pc' = [pc EXCEPT ![t] = label]

\* Back in user mode, where a pending signal is handled.
Returns(t) ==
    /\ Goto(t, "idle")
    /\ pending' = pending \ {t}

\* An event queue is read by the scheduler it belongs to alone.
MayCall(c) == all \/ c = CHOOSE d \in Consumers : TRUE

-----------------------------------------------------------------------------
(* enqueue_ums_sched_event and ums_completion_list_add.                    *)

Enqueue(p) ==
    /\ pc[p] = "idle"
    /\ lock = NoThread
    /\ queue' = Append(queue, p)
    /\ Goto(p, "wake")
    /\ UNCHANGED <<all, lock, waiters, task, pending, got, faults, signals>>

\* A thread has queued something and has still to call wake_up_all.
Waking(t) == pc[t] \in {"wake", "taken"}

\* After wake_up_all: a worker waits for its item to be delivered, or has seen
\* that already; a scheduler returns.
Woke(t) ==
    \/ /\ t \in Producers
       /\ Goto(t, IF pc[t] = "taken" THEN "idle" ELSE "queued")
       /\ UNCHANGED pending
    \/ t \in Consumers /\ Returns(t)

\* Variant: nobody is woken.
WakeUpAll_Missing(t) ==
    /\ Waking(t)
    /\ Woke(t)
    /\ UNCHANGED <<all, lock, queue, waiters, task, got, faults, signals>>

\* A thread that was asleep, or about to be, is made runnable and leaves the
\* wait queue.
WakeUpAll(t) ==
    /\ Waking(t)
    /\ LET woken == {u \in waiters : task[u] = "interruptible"}
       IN  /\ task' = [u \in Threads |-> IF u \in woken THEN "running" ELSE task[u]]
           /\ waiters' = waiters \ woken
    /\ Woke(t)
    /\ UNCHANGED <<all, lock, queue, got, faults, signals>>

-----------------------------------------------------------------------------
(* do_dequeue_ums_sched_event and do_dequeue_ums_complist_context.         *)

Dequeue(c) ==
    /\ pc[c] = "idle"
    /\ MayCall(c)
    /\ Goto(c, "lock")
    /\ UNCHANGED <<all, lock, queue, waiters, task, pending, got, faults, signals>>

\* The test of the while loop; when it fails the lock is released again.
TestUnderLock(c) ==
    /\ pc[c] = "lock"
    /\ lock = NoThread
    /\ \/ /\ queue # <<>>
          /\ lock' = c
          /\ Goto(c, "take")
       \/ /\ queue = <<>>
          /\ Goto(c, "cond")
          /\ UNCHANGED lock
    /\ UNCHANGED <<all, queue, waiters, task, pending, got, faults, signals>>

\* wait_event_interruptible tests the condition without the lock, and before
\* it touches the wait queue.
WaitCondition(c) ==
    /\ pc[c] = "cond"
    /\ Goto(c, IF queue = <<>> THEN "prepare" ELSE "lock")
    /\ UNCHANGED <<all, lock, queue, waiters, task, pending, got, faults, signals>>

\* prepare_to_wait_event: with a signal pending the thread is not queued.
PrepareToWait(c) ==
    /\ pc[c] = "prepare"
    /\ \/ /\ c \in pending
          /\ waiters' = waiters \ {c}
          /\ Goto(c, "recheck_intr")
          /\ UNCHANGED task
       \/ /\ c \notin pending
          /\ waiters' = waiters \cup {c}
          /\ task' = [task EXCEPT ![c] = "interruptible"]
          /\ Goto(c, "recheck")
    /\ UNCHANGED <<all, lock, queue, pending, got, faults, signals>>

\* The condition is tested again.  It wins over a signal that was pending.
Recheck(c) ==
    /\ pc[c] \in {"recheck", "recheck_intr"}
    /\ queue # <<>> \/ pc[c] = "recheck"
    /\ Goto(c, IF queue # <<>> THEN "finish" ELSE "sleep")
    /\ UNCHANGED <<all, lock, queue, waiters, task, pending, got, faults, signals>>

\* Variant: the error pointer is taken for an item.
Interrupted_NoIsErr(c) ==
    /\ pc[c] = "recheck_intr"
    /\ queue = <<>>
    /\ got' = [got EXCEPT ![c] = <<NoThread>>]
    /\ Goto(c, "copy")
    /\ UNCHANGED <<all, lock, queue, waiters, task, pending, faults, signals>>

\* The call ends with -ERESTARTSYS.
Interrupted(c) ==
    /\ pc[c] = "recheck_intr"
    /\ queue = <<>>
    /\ Returns(c)
    /\ UNCHANGED <<all, lock, queue, waiters, task, got, faults, signals>>

\* schedule() returns, and the wait starts over.
Schedule(c) ==
    /\ pc[c] = "sleep"
    /\ task[c] = "running"
    /\ Goto(c, "prepare")
    /\ UNCHANGED <<all, lock, queue, waiters, task, pending, got, faults, signals>>

\* Variant: `if' in place of `while', the end of the wait is believed.
FinishWait_NoLoop(c) ==
    /\ pc[c] = "finish"
    /\ lock = NoThread
    /\ waiters' = waiters \ {c}
    /\ task' = [task EXCEPT ![c] = "running"]
    /\ lock' = c
    /\ Goto(c, "take")
    /\ UNCHANGED <<all, queue, pending, got, faults, signals>>

\* The wait is over and the loop locks and tests again.
FinishWait(c) ==
    /\ pc[c] = "finish"
    /\ waiters' = waiters \ {c}
    /\ task' = [task EXCEPT ![c] = "running"]
    /\ Goto(c, "lock")
    /\ UNCHANGED <<all, lock, queue, pending, got, faults, signals>>

\* list_del of the first entry.  What follows it is still at the head, where
\* list_empty sees it.
TakeFirst(c) ==
    /\ pc[c] = "take"
    /\ got' = [got EXCEPT ![c] = <<Head(queue)>>]
    /\ queue' = Tail(queue)
    /\ \/ all /\ Goto(c, "replace") /\ UNCHANGED lock
       \/ ~all /\ Goto(c, "copy") /\ lock' = NoThread
    /\ UNCHANGED <<all, waiters, task, pending, faults, signals>>

\* Variant: list_replace, the head still leads to the contexts taken.
ReplaceInit_NoInit(c) ==
    /\ pc[c] = "replace"
    /\ got' = [got EXCEPT ![c] = @ \o queue]
    /\ lock' = NoThread
    /\ Goto(c, "copy")
    /\ UNCHANGED <<all, queue, waiters, task, pending, faults, signals>>

\* list_replace_init: the rest goes with the first.
ReplaceInit(c) ==
    /\ pc[c] = "replace"
    /\ got' = [got EXCEPT ![c] = @ \o queue]
    /\ queue' = <<>>
    /\ lock' = NoThread
    /\ Goto(c, "copy")
    /\ UNCHANGED <<all, waiters, task, pending, faults, signals>>

-----------------------------------------------------------------------------
(* ums_sched_dqevent and ums_complist_dqcontext, after the dequeue.        *)

\* The caller gets what was dequeued, and the workers will queue again, once
\* they have called wake_up_all; or the symlink or the copy fails.
CopyToUser(c) ==
    /\ pc[c] = "copy"
    /\ \/ /\ pending' = pending \ {c}
          /\ pc' = [t \in Threads |->
                IF t = c THEN "idle"
                ELSE IF \E i \in DOMAIN got[c] : got[c][i] = t
                THEN IF Waking(t) THEN "taken" ELSE "idle"
                ELSE pc[t]]
          /\ got' = [got EXCEPT ![c] = <<>>]
          /\ UNCHANGED faults
       \/ /\ faults < MaxFaults
          /\ faults' = faults + 1
          /\ Goto(c, "requeue")
          /\ UNCHANGED <<got, pending>>
    /\ UNCHANGED <<all, lock, queue, waiters, task, signals>>

\* The first item is put back at the head: EVENT_ADD_HEAD, COMPLIST_ADD_HEAD.
\* Relinking a context leaves those that followed it in no list.
Requeue(c) ==
    /\ pc[c] = "requeue"
    /\ lock = NoThread
    /\ queue' = <<Head(got[c])>> \o queue
    /\ got' = [got EXCEPT ![c] = <<>>]
    /\ Goto(c, "wake")
    /\ UNCHANGED <<all, lock, waiters, task, pending, faults, signals>>

\* A signal for a scheduler thread that is in the kernel.
Signal(c) ==
    /\ signals < MaxSignals
    /\ pc[c] # "idle"
    /\ c \notin pending
    /\ pending' = pending \cup {c}
    /\ task' = [task EXCEPT ![c] = "running"]
    /\ signals' = signals + 1
    /\ UNCHANGED <<pc, all, lock, queue, waiters, got, faults>>

-----------------------------------------------------------------------------

\* The steps inside a call of a scheduler thread.
Continues(c) ==
    \/ TestUnderLock(c)
    \/ WaitCondition(c)
    \/ PrepareToWait(c)
    \/ Recheck(c)
    \/ Interrupted(c)
    \/ Schedule(c)
    \/ FinishWait(c)
    \/ TakeFirst(c)
    \/ ReplaceInit(c)
    \/ CopyToUser(c)
    \/ Requeue(c)
    \/ WakeUpAll(c)

Next ==
    \/ \E p \in Producers : Enqueue(p) \/ WakeUpAll(p)
    \/ \E c \in Consumers : Dequeue(c) \/ Continues(c) \/ Signal(c)

\* A thread inside a handler goes on; nothing makes a worker queue an item, or
\* a scheduler call.
Spec ==
    /\ Init
    /\ [][Next]_vars
    /\ \A p \in Producers : WF_vars(WakeUpAll(p))
    /\ \A c \in Consumers : WF_vars(Continues(c))

-----------------------------------------------------------------------------
(* Properties.                                                             *)

TypeOK ==
    /\ pc \in [Threads -> ProducerPCs \cup ConsumerPCs]
    /\ \A p \in Producers : pc[p] \in ProducerPCs
    /\ \A c \in Consumers : pc[c] \in ConsumerPCs
    /\ all \in BOOLEAN
    /\ lock \in Consumers \cup {NoThread}
    /\ queue \in Seq(Producers)
    /\ waiters \subseteq Consumers
    /\ task \in [Threads -> {"running", "interruptible"}]
    /\ pending \subseteq Consumers
    /\ got \in [Consumers -> Seq(Producers)]
    /\ faults \in 0..MaxFaults
    /\ signals \in 0..MaxSignals

\* list_first_entry is applied to a list that has an entry, although
\* wait_event_interruptible tests it without the lock, several schedulers wake
\* for one context, and the test can see a list that is being taken away.
TakesFromNonEmpty ==
    \A c \in Consumers : pc[c] = "take" => queue # <<>> /\ lock = c

\* No wake-up is lost between the test of list_empty and schedule(): a
\* scheduler sleeps beside an item only while the thread that queued the item
\* has still to call wake_up_all.
SleepsOnlyWhenEmpty ==
    \A c \in Consumers :
        pc[c] = "sleep" /\ task[c] = "interruptible" /\ queue # <<>> =>
            \E t \in Threads : Waking(t)

\* The queue as a caller sees it: a dequeue in progress has not happened yet.
QueueSeen ==
    IF \E c \in Consumers : pc[c] = "replace"
    THEN got[CHOOSE c \in Consumers : pc[c] = "replace"] \o queue
    ELSE queue

\* The calls that have not returned an item or an error yet.
CallsSeen ==
    {c \in Consumers : pc[c] \notin {"idle", "copy", "requeue", "wake"}}

GotSeen == [c \in Consumers |-> IF pc[c] = "replace" THEN <<>> ELSE got[c]]

Promise == INSTANCE BlockingQueue
           WITH queue <- QueueSeen, waiting <- CallsSeen, got <- GotSeen,
                signalled <- pending

\* The lock, the wait queue and the loop around it make a blocking queue: items
\* are taken in order, each once, a call returns without one only because of a
\* signal, and while there are items and calls some call takes.
ImplementsBlockingQueue == Promise!Spec
=============================================================================
