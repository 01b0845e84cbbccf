# A verification of linux-ums

linux-ums gives a process user-mode scheduling: *scheduler threads* decide
which *worker threads* run, and a kernel module, reached through `ioctl`s on
`/dev/ums`, suspends and wakes the threads. This directory holds TLA+ modules
translated from that code, the TLC configurations that check them, and proofs
that TLAPS checks. Paths below are relative to the repository's root.

## The parts of the system

| Part | Source | Here |
|---|---|---|
| Scheduler contexts, event queue | `src/module/src/scheduler.c` | `UmsDispatch`, `UmsWaitQueue`, `UmsLifetime` |
| Worker contexts | `src/module/src/worker.c` | `UmsDispatch`, `UmsLifetime` |
| Context switch | `src/module/src/context.{c,h}` | `UmsDispatch` |
| Completion list: contents | `src/module/src/complist.c` | `UmsDispatch`, `UmsWaitQueue`, `UmsList` |
| Completion list: lifetime (kref, IDR, RCU) | `complist.c`, `idr_l.h` | `UmsLifetime` |
| Device: ioctl dispatch, open, release | `device.c`, `enter_ums.c` | `Next` of `UmsDispatch`, `UmsLifetime`, `UmsModule` |
| Module load and unload | `ums_mod.c` | `UmsModule` |
| Procfs tree of a process | `proc/base.c` | `UmsModule` |
| Procfs links of a scheduler | `proc/scheduler.c` | `UmsProcLinks` |
| Procfs folder of a worker | `proc/worker.c` | not modelled |
| Wait queues | the kernel, as used by `scheduler.c`, `complist.c` | guards in `UmsDispatch`, step by step in `UmsWaitQueue` |
| Library event loop, worker wrapper, list calls | `src/lib/src/{scheduler,worker,complist}.c` | `UmsDispatch`, `UmsLifetime` |
| Library hooks (constructor, fork) | `src/lib/src/hooks.c` | `UmsModule` |
| Example scheduler | `examples/00-simple-example/main.c` | `UmsDispatch` |
| Linked list header | `src/util/list.h` | `UmsList` |
| Benchmarks, unit tests, scripts, docs | `benchmark/`, `src/lib/tests/`, `scripts/` | not modelled |

How they interact: a scheduler thread enters UMS mode and loops over
`IOCTL_UMS_SCHED_DQEVENT`. For each event its entry point takes a context from
its own run queue; when that is empty it dequeues the whole completion list and
walks it with `get_next_ums_list_item`. It then calls `exec_ums_context`, which
suspends it and wakes the worker. The worker runs until it yields (event to the
parent, switch to the parent, back on the completion list, sleep) or ends (event
to the parent, wake it, leave).

## Modules

* **`UmsDispatch`** is the core: the handlers, the library's loop and the
  example's run queue, as one action per step another thread can observe.
* **`UserScheduling`** is the abstract specification: a worker is ready or runs
  on exactly one scheduler, a scheduler runs at most one worker, and a worker
  leaves the processor only by its own yield or end.
* **`MCUmsDispatch`** adds thread symmetry for TLC. **`MCWorkerSignal`** adds
  signals that reach workers.
* **`UmsLifetime`** is how long a completion list lives: creating and deleting
  it, entering UMS mode with it, sleeping on it, and the release of the device.
* **`UmsWaitQueue`** is the event queue and the completion list at the grain of
  their lock and wait queue; **`BlockingQueue`** is what they promise.
* **`UmsList`** is `list.h` pointer by pointer, with the hand-over of
  `complist.c`; **`SequenceLists`** is what it promises. **`MCUmsList`** adds
  symmetry.
* **`UmsProcLinks`** composes the workers folders of procfs with `UmsDispatch`:
  each of its steps is a step of the core with what it does to the links.
  **`MCUmsProcLinks`** adds symmetry.
* **`UmsModule`** is the module, its device and the hooks of the library from
  `insmod` to `rmmod`.
* The proofs are in modules of their own, one per component:
  **`UmsDispatchProofs`** (the invariant of the core, the refinement of
  `UserScheduling`, and that nothing is lost), **`UmsLifetimeProofs`**,
  **`UmsWaitQueueProofs`**, **`UmsRingProofs`** (lemmas on rings of pointers) with
  **`UmsListProofs`**, **`UmsFolderProofs`** (lemmas on folders and links) with
  **`UmsProcLinksProofs`**, and **`UmsModuleProofs`**.

State and code of `UmsDispatch`:

| Variable | Code |
|---|---|
| `pc[t]` | where thread `t` is in the library, the example or a handler |
| `schedulers`, `workers` | the hash tables of `struct ums_data` |
| `state`, `task` | `context->state` and the state of `context->task` |
| `parent` | `context->parent`; `Uninit` is memory from `kmalloc` that was never assigned |
| `event_q` | `scheduler->event_q` |
| `list[h]` | what is linked at head `h`: the completion list, the `list_head` of a worker's context (the rest of the list it was dequeued with), or the user-space run queue of a scheduler |
| `ctx[s]` | the context scheduler thread `s` is working on |
| `faults`, `signals` | counters that bound failures and signals |

Atomicity. A handler is split at each list operation done under a lock, at
each change of a task's state, and at `schedule()`. Some consequences:

* `prepare_switch_context` is two steps (`switch`, `switch_wake`): the thread is
  marked as sleeping, then the other is woken. It may itself be woken between
  the two.
* `schedule()` is the place `asleep`. It returns once the task is
  `TASK_RUNNING`, whoever made it so.
* Waiting in `wait_event_interruptible` is the guard of the dequeue action, which
  `UmsWaitQueue` justifies. A signal there gives `-ERESTARTSYS`, and the callers
  retry on `EINTR`, so it is a stuttering step.
* The context's state and the task's state change in one step:
  `context->state` is read only by the procfs text.
* Failed lookups (`-ESRCH`, `-EINVAL`) are guards. The invariants show that the
  guards hold wherever a handler is entered. An unknown completion list is in
  `UmsLifetime`.
* Failing allocations, symlinks and user copies are `Fault`s, each with the
  error path of the code, including what the library and the example do with
  the error.
* A relinked `list_head` forgets the list it was head of
  (`UmsCompletionListAddTail`, `ReregisterContext`); the contexts on that list
  are then linked nowhere.

### The other components

The levels fit together as follows. `UmsDispatch` takes a dequeue as one step
on a sequence. `UmsWaitQueue` shows that the lock and the wait queue make it
one, and `UmsList` that the pointers are a sequence. `UmsDispatch` has one
completion list that exists; `UmsLifetime` says when it does. `UmsModule` says
when the code of all of them does.

`UmsLifetime`. `mem[l]` is the memory of a list (not allocated, in the IDR but
not initialised, without an id, live, waiting for a grace period, freed),
`refcount`, `idr` and `queue` are its fields, `complist[t]` is the pointer in
the context of `t`, and `found[t]` the handler's local pointer between lookup
and use. `waits[l]` are the readers the grace period of `l` waits for. Whether
a sleeping reader counts depends on `CONFIG_PREEMPT_RCU`, so `preempt_rcu` is
chosen in `Init`. A lookup, taking the reference, and using the list are steps
of their own; dropping a reference and destroying the list are two. The
contents of a list are reduced to a set, of which a failing dequeue puts one
member back. A scheduler may dequeue from any list the program has. Two
constants choose what the kernel and the program do: `StaleHeap` (a new context
may get the memory, and so the list pointer, of a freed one; otherwise the
pointer is `Wild`) and `RacingDelete` (the program may delete a list while
another of its threads enters with its id). The second is an assumption on the
program, for no handler sees to it: `DeletesAlone` is a conjunct of `Next` beside
the delete, which itself has no such guard.

`UmsWaitQueue`. One module for both queues: `all` says whether a dequeue takes
the first item or everything. `wait_event_interruptible` is five steps: test,
`prepare_to_wait_event`, test again, `schedule`, `finish_wait`; the condition is
read without the lock, so that `list_del` and `list_replace_init` inside the
critical section are two steps. The macro is the kernel's, modelled from its
contract. A scheduler that has taken items is at `copy` until it has passed
them on; `CallsSeen`, `GotSeen` and `QueueSeen` are the refinement mapping: the
items count as taken once the critical section is over. A worker whose item is
delivered before its own `wake_up_all` is at `taken`. A wait ends with items, or
because of a signal that was sent to the waiting thread, and for no other reason.
`BlockingQueue!Safety` is what the queue may do, `BlockingQueue!Spec` adds that
waiting calls are served.

`UmsList`. `mem.next` and `mem.prev` are the pointers, and an operation is the
sequence of its writes. `role` is what a caller knows about a node; it is read
only as a precondition. Any node may be a head, as in `complist.c`, where the
`list_head` of a context becomes the head of the rest.

`UmsProcLinks`. `folder[s]` is the folder `workers` of scheduler `s`,
`worker_link[w]` the entry a worker remembers, and the two counters are
`unsigned long` modulo `ULong`. The loop over the dequeued contexts is one step
(`LinkAll`, a fold of `LinkNext`): it runs inside the call, on contexts that no
other scheduler can reach.

`UmsModule`. `mod` is the place in `ums_init` or `ums_exit`, each call in them a
step. `dir[f]` is the folder of an open file and `tree` the folders there are.
After `proc_remove` of a folder its children are removed once more through freed
entries (`base.c:100-102`): `crashed` is the choice of what that does. `leaked`
are descriptors that survive `exec`.

## Runs

| Run | Instance | Checks |
|---|---|---|
| `dispatch_safety` | 2 schedulers, 3 workers, 1 signal, no failures | the safety invariants, with nothing lost and no deadlock |
| `dispatch_faults` | 2 and 2, 2 failures, 1 signal | the invariants that survive failures, the order of what is taken, refinement of `UserScheduling` |
| `dispatch_fair` | 2 and 2, 1 signal, no failures | `PublishedIsRun`, `AllWorkersFinish`, no deadlock |
| `worker_signal` | 1 and 1, a signal to a worker | violated: see Findings |
| `lifetime` | 1 scheduler, 2 workers, a creator, 2 lists, 1 failure, both kinds of RCU | counts, ids, what is used is not freed, release |
| `lifetime_unknown_id` | the same with 1 list and reused memory | violated: see Findings |
| `lifetime_foreign_dequeue` | 1 scheduler, 1 worker, 2 lists, both kinds of RCU | violated: see Findings |
| `lifetime_racing_delete` | 1 scheduler, 1 worker, 1 list, deletes beside enters | violated: see Findings |
| `wait_queue` | 2 producers, 2 consumers, 1 failure, 2 signals, both queues | no lost wake-up, refinement of `BlockingQueue` |
| `list` | 2 heads, 3 entries | closed rings, the safe loop, refinement of `SequenceLists` |
| `proc_links` | 2 schedulers, 2 workers, 2 failures, 1 failing later link, 1 signal | what the folders show, and which entry is removed |
| `module_lifecycle` | 2 processes, 3 open files, 2 failures, 3 callbacks | the module outlives its use, trees, separate pools |

What the properties say:

* `OneToken`: the right to use a scheduler's processor is in one place, the
  event queue, the scheduler handling the event, or the one worker it runs.
  It holds even when a signal ends a scheduler's sleep and it runs beside its
  worker: it then finds no event.
* `LinkedOnce`, `RunsOnlyParked`: a context is in at most one list, and
  whatever is listed or about to be executed is a registered worker asleep at
  `schedule()`. `exec_ums_context` itself checks nothing.
* `OneOwnerOfContextList`: the claim in the comment at `complist.c:248` that
  lets `ums_complist_next_context` work without a lock.
* `ParentIsRegistered`: the parent pointer followed by yield and end is valid.
* `NoWorkerLost`, `NoLostWakeUp`: while nothing has failed, every parked worker
  can be found, and a sleeping scheduler has a worker that will wake it. After
  a failure both can be false: a dequeue that fails orphans the rest of the
  list, and an `exit_ums_mode` that fails leaves the scheduler asleep. The
  properties therefore say `faults = 0`, and `dispatch_faults` does not check
  for deadlock.
* `TakesAllInOrder`: a scheduler takes all of the completion list, in order.
* `ImplementsUserScheduling`: the handlers refine `UserScheduling`.

* `RefCountExact`: the count of a live list is the number of its owners, on
  every path out of the enter functions. `EmptyWhenDestroyed` follows from it
  for queued contexts: the rule of `ums.h:28` is kept by the counts, not by the
  caller.
* `NoUseAfterFree`: a registered context's list is live, and a pointer that was
  only looked up does not outlive its read-side section. One case is left out
  because it is false: a scheduler that dequeues from a list it did not enter
  with (it borrows the list), where RCU is not preemptible, or after the failing
  startup event has made it leave a section too many. `BorrowedIsKept` is about
  that case, and `lifetime_foreign_dequeue` refutes it. Threads with the section
  left too often are covered in everything else they do. The property also needs
  `RacingDelete = FALSE`; the run `lifetime_racing_delete` shows why.
* `IdNamesLiveList`: ids are unique and lead to lists not yet handed to RCU.
* `ReleaseFreesAll`: the end of the process frees every list that had an id. A
  list whose id allocation failed (`complist.c:28` tests the result with the
  wrong sign) is never freed; it is state `lost`. A process with a thread killed
  by the unassigned pointer of `lifetime_unknown_id` is left out.
* `TakesFromNonEmpty`, `SleepsOnlyWhenEmpty`, `ImplementsBlockingQueue`: the
  loop around the wait is needed and enough, and a scheduler never sleeps beside
  an item that nobody is about to announce. The refinement includes that
  waiting calls are served, and that a call that ends with nothing was sent a
  signal.
* `RingsClosed`, `ImplementsSequenceLists`: in every order of operations a list
  read through its pointers is the sequence it should be. `SafeLoopVisitsAll`:
  `ums_scheduler_destroy` may free the entry it stands on.
* `FolderShowsOwned`: while nothing has failed, the folder and `n_workers` are
  exactly the workers dequeued and not yet executed. `RemovesOwnLink` holds
  after any failures. `NextNameIsFree` holds as long as one of the two kinds of
  failures has not happened. A dequeue that fails after its links are made
  leaves them behind, below the counter; a failing later link makes `n_workers`
  too low, so that numbering starts again while links are left. Each alone is
  harmless; after both a scheduler can be refused the name of its next link,
  each time it asks. The refusal is the error path of `DequeueLinksNone` and
  counts as one more failure: with two failures and one missing link the run
  reaches it.
* `ModuleOutlivesUse`: code and caches stay as long as a file is open or a
  callback is queued, unless a process opened the device before `ums_proc_init`
  had run (`early`): when that fails, the open file is left without its module.
* `OneTreePerFile`, `SeparatePools`: any order of fork, exec, open, close and
  exit leaves one tree per open file, and no file used by two processes. The
  first is about the runs in which removing freed entries did no harm.

Bounds. Two schedulers compete for the list, and one can walk while the other
dequeues. Three workers give a dequeued list with a first, a middle and a last
context. Two failures let one strand threads and a second meet the result. One
signal wakes a scheduler while its worker runs. TLC explores every
interleaving within these bounds. `dispatch_faults` has no symmetry because it
checks temporal properties.

For the other runs: two lists let an id be used again and a scheduler sleep on
a list other than its own, and two workers let one hold the last reference
while the other leaves. Two consumers wake for one item. Three entries have a
first, a middle and a last, two heads a source and a target. Three open files
are what two processes can hold after an `exec`. `wait_queue` with 3 producers
(706,308 states) passes as well.
Where the process may simply stop making calls (`lifetime`, `proc_links`,
`module_lifecycle`) deadlock is not checked.

Fairness. Each thread is weakly fair: the kernel runs runnable tasks, and a
worker that runs yields or returns some time, which cooperative scheduling
asks of it. `AllWorkersFinish` has one more premise, strong fairness of
`UmsWorkerEnd`: a worker function that is run again and again returns. Signals
are never forced. Weak fairness of a thread would force a failure where no other
step is left, so `dispatch_fair` has none. In `UmsLifetime` calls in progress go
on, grace periods end and the file of a dead process is released; nothing makes
the program call, delete or exit.
In `UmsWaitQueue` threads inside a handler go on; nothing makes a worker queue.

## Findings

`worker_signal`: `doc/userspace/thread_execution.rst:6` says a new worker "does
not begin running until the application's UMS scheduler selects it to run".
`enter_ums_worker_mode` calls `schedule()` once in `TASK_INTERRUPTIBLE`
(`worker.c:110-112`) without checking why it returned. After a signal the worker
runs its function with no parent. Signals to workers are therefore left out of
`Spec`: the other runs and the theorems are about executions without them.

`lifetime_unknown_id`: `worker.h:47` and `scheduler.h:95` promise `-EINVAL` for
an id that names no list. The error path destroys the context, and
`ums_worker_destroy` and `ums_scheduler_destroy` drop a reference through
`complist`, which was never assigned and holds what `kmalloc` returned. When
that is the pointer of a freed context, a list others use loses a reference.

`lifetime_foreign_dequeue`: `complist.rst:19` says "everyone who needs a
reference to the completion list has to increment its reference counter".
`ums_complist_dqcontext` does not, and sleeps. A scheduler's own list is kept by
its context; any other list is kept by the read-side section only. A sleep ends
that unless RCU is preemptible, which is the counterexample of the run. With
preemptible RCU it fails for a scheduler whose startup event could not be
allocated and that entered again: the error path (`scheduler.c:165`) leaves a
section once more than it was entered. With `preempt_rcu = TRUE` in `Init` and
`MaxFaults = 1` TLC finds that one, in 17 states.

`lifetime_racing_delete`: by the same sentence a thread that has counted its
reference can rely on the list. The enter functions look the list up and then
call `kref_get` (`scheduler.c:146`, `worker.c:105`), which does not refuse a count
of zero. A delete between the two drops the last reference, and the context is
registered with a list that is freed after the grace period. The program can
avoid this by not deleting a list it is entering with, which the documentation
does not ask of it and the other runs and the theorems assume (`DeletesAlone`).

Seen while modelling, with no run of their own:

* Links are named from 1 (`proc/scheduler.c:124`), not "from 0 to n"
  (`proc.rst:41`).
* A failing link of a context after the first is not counted but is counted
  down when the worker is executed (`proc/scheduler.c:146`).
* When the hash table insertion fails (`scheduler.c:60`, `worker.c:32`) the proc
  folder of the freed context stays until the device is released.
* `ums_proc_dirs_destroy` removes a folder before its children
  (`proc/base.c:100`).
* A program that execs another one linked with the library keeps the old file
  open (`hooks.c:20`), and the new open fails on the folder of the same pid.

## Proofs

Every safety property that a passing run checks is also proved, for any number
of threads, lists, nodes, files and failures. In each component one invariant is
inductive, and the properties are conjuncts or consequences of it.

| Module | Invariant | Properties proved |
|---|---|---|
| `UmsDispatchProofs` | `IInv` | `TypeOK`, `OneToken`, `LinkedOnce`, `RunsOnlyParked`, `ParentIsRegistered`, `ImplementsUserScheduling` |
| | `Kept`, given `IInv` | `OneOwnerOfContextList`, `NoWorkerLost`, `NoLostWakeUp`, `TakesAllInOrder` |
| `UmsLifetimeProofs` | `IInv` | `TypeOK`, `RefCountExact`, `IdNamesLiveList`, `EmptyWhenDestroyed`, `NoUseAfterFree` |
| `UmsWaitQueueProofs` | `IInv` | `TypeOK`, `TakesFromNonEmpty`, `SleepsOnlyWhenEmpty`, `BlockingQueue!Safety` |
| `UmsListProofs` | `IInv` | `TypeOK`, `RingsClosed`, `SafeLoopVisitsAll`, `ImplementsSequenceLists` |
| `UmsProcLinksProofs` | `LinksInv` | `FolderShowsOwned`, `RemovesOwnLink`, `NextNameIsFree`; `LinksSpec => Spec` |
| `UmsModuleProofs` | `IInv` | `TypeOK`, `ModuleOutlivesUse`, `OneTreePerFile`, `SeparatePools` |

Assumptions. The kinds of threads, nodes and null pointers are distinct and the
bounds are natural numbers (the `ASSUME` of each module, which TLC evaluates in
the runs). Sets are finite where the code counts their members. Two modules
assume more:

* `UmsLifetimeProofs` assumes `StaleHeap = FALSE` and `RacingDelete = FALSE`, as
  the run `lifetime` does. Without the first the counts are wrong
  (`lifetime_unknown_id`), without the second a context can lose its list
  (`lifetime_racing_delete`).
* `UmsProcLinks` has `2 * MaxNames <= ULong`: the bound on names is far below
  the range of `unsigned long`.

### The dispatch core

`IInv` is `TypeOK`, `OneToken`, `LinkedOnce` and `RunsOnlyParked` with three
conjuncts that make them inductive:

* `Registered`: threads past entry are in their hash table, so lookups succeed.
* `Prepared`: a worker about to be published is already suspended, one that runs
  or will wake its parent has a parent, and a scheduler about to wake a worker
  already is its parent.
* `Walking`: the context whose list is walked is in the walker's own run queue,
  so it is not also the next entry of that list.

The argument: only a handling scheduler gives its token away, and only to a
parked worker, so yield and end find the parent's queue empty when they append.
A published context was suspended and in no list, so publishing keeps
`LinkedOnce`. All scheduler steps that move contexts go through one lemma,
`SchedulerMoves`: what is linked or held afterwards was linked or held before.
Lists are compared pointwise (`Changed`), because equalities of `EXCEPT` terms
are hard for the provers.

`Cooperative` follows the refinement mapping (`CurrentOf`, `StatusOf`) through
each action. Most steps are not seen. Waking a worker is `Execute`, and the step
in which a worker gives its token back is `Yield` or `End`; that the scheduler is
then the one the abstract state has is what `OneToken` says.

`Kept` adds to `IInv`, while nothing has failed, that every parked worker is in
a list some scheduler can reach (`AllPlaced`), that a list hanging on a context
is being walked (`Walked`) and that a sleeping scheduler has a worker that will
wake it (`Watched`). The fourth conjunct, `AsksWhenEmpty`, holds whatever fails:
a scheduler that dequeues has an empty run queue, and so overwrites nothing.

### Lifetime

`RefCountExact` is not inductive. A dropped reference needs `Pointers` (a
registered context owns a live list, or its pointer is not yet assigned, or
already dropped). A taken reference needs `Lookups` (what a lookup found is still
the creator's). The release needs `Creators`, `Queued` and `Stopped`: whatever
is counted is found through a table or an id. `Destroyers` says that a list
without references is destroyed by exactly one thread. `NothingFreedIsUsed`
needs `Reading` on top: a scheduler that dequeues owns the list, or is in a
read-side section that the grace period of the list waits for, unless it is
`Exposed`.

### Wait queue

`Locked` and `Found` say that the entry seen by the test is still there at
`list_first_entry`. `Carries` says when a scheduler has something in hand, and
`Enlisted` that a thread marked as sleeping is in the wait queue: so an item
queued between test and sleep finds the sleeper. `BlockingQueueSafety` maps each
step to a step of `BlockingQueue` or to none; the take happens at the end of the
critical section. That a call ends early only for a signal needs `Noticed`: a
thread that has seen a signal in its wait has one pending.

### Lists

`RingsClosed` is not inductive: adding a node that heads a list gives that list
up, and splicing joins two rings, which is sound only if no ring has two heads.
`OneHeadEach` says so with a label on each node, the same along a ring, that a
head has of itself. `Looping` says that what a loop has still to visit is linked
in the order it started with. The walk of `Contents` is a recursive function;
its existence and its values come from a least counterexample, and it is
then known only by what `next` leads to from each entry. `UmsRingProofs` says
which rings each kind of pointer assignment leaves, `UmsListProofs` follows each
function of `list.h` to the invariant and to its step of `SequenceLists`.

### Procfs links

`LinksSpec => Spec` gives `IInv` and `Kept` beside the folders. `Shown` adds
three facts. Whatever fails, an owned worker has no link or its own
(`OwnLinks`); until a context is lost, every link is that of an owned worker
(`OnlyOwned`); until a link is missing, `n_workers` is the number of links and
their names are at most `max_workers` (`Counted`). A scheduler that dequeues
owns nothing (`AsksWhenEmpty`): with `OnlyOwned` its folder is empty, with
`Counted` its next name is above those in use. Either is enough for
`NextNameIsFree`. `UmsFolderProofs` says what linking and unlinking do to a
folder, given what happens to the owned workers; `UmsProcLinksProofs` shows what
each step of the core does to the owned workers and puts the two together.

### Module

`Loaded` ties what is set up to the stage of `ums_init` or `ums_exit`.
`Outlives` says who may still be there at each stage, `Folders` and `Contexts`
what an open file has, and `Hooks` what a process holds at each place of the
library's hooks, from which the separation of the pools follows.

### Only model-checked

* Liveness: `PublishedIsRun`, `AllWorkersFinish`, `ReleaseFreesAll`, and in
  `ImplementsBlockingQueue` the fairness part. TLAPS does not reason about
  `ENABLED`, on which fairness rests.
* The violated properties, of which the runs give counterexamples.

A caution for whoever extends the proofs: the SMT translation of tlapm 1.4.5
takes the intersection of two enumerated sets to be empty, `{a} \cap {b}` for
any `a` and `b`. No step here has such a term; say `a \notin {b}` instead.

## Not modelled

* The folder and info file of a single context (`proc/worker.c`, and
  `ums_scheduler_proc_register`, which only initialises the link counters here):
  they are made and removed with the context. Failing to make one is a failure
  of entering. Reading an info file changes nothing; its text is formatting.
* The half of `list.h` for `hlist`, and loop macros nobody uses.
* Signals to workers, outside `worker_signal`: see Findings.
* A list deleted while a thread enters with its id, outside
  `lifetime_racing_delete`, and ids kept after a delete by another thread.
* `ums_worker_end` of a worker without a parent (`worker.c:202`): the branch is
  never taken while workers get no signals (`ParentIsRegistered`).
* Memory other than that of completion lists in `UmsLifetime`: contexts are
  freed by RCU in the same way, and the lookups that lead to them are guards of
  `UmsDispatch`.
* Overflow of `switches` and of ids, which no property here reads.
* Log messages, timing, the benchmark harness, whose scheduler repeats the
  example's, and the unit tests, which mock the `ioctl`s.
