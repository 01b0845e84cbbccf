---------------------------- MODULE UmsLifetime ----------------------------
(***************************************************************************)
(* How long a completion list lives.  A struct ums_complist is found by id *)
(* in the IDR of the open device, counted by a kref that its creator and   *)
(* every registered context hold, and freed by call_rcu.  The handlers are *)
(* those of src/module/src/{complist,scheduler,worker,device}.c that take, *)
(* drop or follow a reference.                                             *)
(*                                                                         *)
(* A list object is allocated once; its id is the lowest free one and is   *)
(* used again after the list is gone.  What the lists contain is reduced   *)
(* to the set of workers queued; UmsDispatch has the rest.                 *)
(***************************************************************************)
EXTENDS Integers, FiniteSets

CONSTANTS
    Schedulers,     \* threads that enter as schedulers
    Workers,        \* threads that enter as workers
    Main,           \* the thread that creates and deletes lists
    Lists,          \* list objects
    NoList,         \* a null pointer
    Wild,           \* an address that is no list
    MaxFaults,      \* bound: failing allocations and user copies
    StaleHeap,      \* kmalloc may return the memory of a freed context
    RacingDelete    \* the program may delete a list beside a call that enters
                    \* with its id

Threads == Schedulers \cup Workers \cup {Main}

ASSUME LifetimeAssumption ==
    /\ Schedulers \cap Workers = {}
    /\ Main \notin Schedulers \cup Workers
    /\ NoList \notin Lists
    /\ Wild \notin Lists \cup {NoList}
    /\ IsFiniteSet(Threads)
    /\ IsFiniteSet(Lists)
    /\ MaxFaults \in Nat
    /\ {StaleHeap, RacingDelete} \subseteq BOOLEAN

VARIABLES
    pc,          \* where each thread is; "user" is out of the kernel
    arg,         \* the list id a thread passed
    found,       \* the handler's local pointer to the list
    complist,    \* context->complist
    schedulers,  \* data->schedulers
    workers,     \* data->workers
    mem,         \* the memory of each list
    refcount,    \* complist->refcount
    idr,         \* data->comp_lists
    queue,       \* the contexts linked at complist->head
    creator,     \* lists whose creator has not deleted them
    waits,       \* the readers the grace period of a list still waits for
    heap,        \* list pointers left in the memory of freed contexts
    unbalanced,  \* threads with one rcu_read_unlock too many
    preempt_rcu, \* whether the kernel is built with CONFIG_PREEMPT_RCU
    dev,         \* the open file: in use, then the stages of its release
    faults       \* failures so far

vars == <<pc, arg, found, complist, schedulers, workers, mem, refcount, idr,
          queue, creator, waits, heap, unbalanced, preempt_rcu, dev, faults>>

\* Ids start at 1.  0 is what delete_ums_completion_list leaves in the
\* caller's variable, and stands for every id that names no list.
NoId == 0
Ids == 1 .. Cardinality(Lists)

\* A refcount_t that was taken from or dropped to below zero stays there.
Saturated == -1

PCs == {"user", "create_init", "find", "get", "event", "add", "asleep",
        "dequeue", "wait", "destroy", "oops"}

Stages == {"open", "exiting", "workers", "schedulers", "closed", "oops"}

Init ==
    /\ pc = [t \in Threads |-> "user"]
    /\ arg = [t \in Threads |-> NoId]
    /\ found = [t \in Threads |-> NoList]
    /\ complist = [t \in Threads |-> NoList]
    /\ schedulers = {}
    /\ workers = {}
    /\ mem = [l \in Lists |-> "none"]
    /\ refcount = [l \in Lists |-> 0]
    /\ idr = [i \in Ids |-> NoList]
    /\ queue = [l \in Lists |-> {}]
    /\ creator = {}
    /\ waits = [l \in Lists |-> {}]
    /\ heap = {}
    /\ unbalanced = {}
    /\ preempt_rcu \in BOOLEAN
    /\ dev = "open"
    /\ faults = 0

-----------------------------------------------------------------------------
(* Building blocks.                                                        *)

Fault ==
    /\ faults < MaxFaults
    /\ faults' = faults + 1

Goto(t, label) == pc' = [pc EXCEPT ![t] = label]

\* The thread leaves the kernel, where its local pointer is gone.
Returns(t) ==
    /\ Goto(t, "user")
    /\ found' = [found EXCEPT ![t] = NoList]

\* A thread makes a new call only while the process runs.
Calls(t) == pc[t] = "user" /\ dev = "open"

\* The thread is in a section that a grace period starting now waits for.
\* schedule() is a quiescent state unless RCU is preemptible; one
\* rcu_read_unlock too many leaves the nesting of a preemptible reader at zero.
Reader(t) ==
    /\ pc[t] \in {"get", "dequeue", "destroy"} \cup
                 (IF preempt_rcu THEN {"wait"} ELSE {})
    /\ ~(preempt_rcu /\ t \in unbalanced)

\* The calling thread leaves its read-side section, or passes a quiescent state.
Quiesces(t) == waits' = [l \in Lists |-> waits[l] \ {t}]

\* get_ums_complist
Get(l) ==
    refcount' = [refcount EXCEPT ![l] = IF @ <= 0 THEN Saturated ELSE @ + 1]

Dropped(n) == IF n <= 0 THEN Saturated ELSE n - 1

\* Where the ids of destroyed lists are free again.
Without(gone) == [i \in Ids |-> IF idr[i] \in gone THEN NoList ELSE idr[i]]

\* The lowest free id.
FreeId == CHOOSE i \in Ids :
              /\ idr[i] = NoList
              /\ \A j \in Ids : idr[j] = NoList => i <= j

\* A context is freed, and its memory keeps the pointer it had.
Leaves(l) == heap' = IF StaleHeap THEN heap \cup {l} ELSE heap

\* The ids the program has: of the lists it created and has not deleted.
Known == {i \in Ids : idr[i] \in creator}

-----------------------------------------------------------------------------
(* Creating and deleting lists.                                            *)

\* The object gets its id, and can be found, before it is initialised.  A
\* failing id allocation passes for success: the caller gets an id that names
\* nothing, and nobody will ever find the object.
CreateUmsComplist ==
    /\ Calls(Main)
    /\ \E l \in Lists :
        /\ mem[l] = "none"
        /\ \/ /\ mem' = [mem EXCEPT ![l] = "new"]
              /\ idr' = [idr EXCEPT ![FreeId] = l]
              /\ found' = [found EXCEPT ![Main] = l]
              /\ Goto(Main, "create_init")
              /\ UNCHANGED <<refcount, faults>>
           \/ /\ Fault
              /\ mem' = [mem EXCEPT ![l] = "lost"]
              /\ refcount' = [refcount EXCEPT ![l] = 1]
              /\ UNCHANGED <<pc, idr, found>>
    /\ UNCHANGED <<arg, complist, schedulers, workers, queue, creator, waits,
                   unbalanced, heap, preempt_rcu, dev>>

\* The rest of ums_complist_init and of create_ums_complist.  When the id
\* cannot be copied to the caller the object is freed at once.
UmsComplistInit ==
    /\ pc[Main] = "create_init"
    /\ LET l == found[Main]
       IN  \/ /\ mem' = [mem EXCEPT ![l] = "live"]
              /\ refcount' = [refcount EXCEPT ![l] = 1]
              /\ creator' = creator \cup {l}
              /\ UNCHANGED <<idr, faults>>
           \/ /\ Fault
              /\ mem' = [mem EXCEPT ![l] = "freed"]
              /\ refcount' = [refcount EXCEPT ![l] = 1]
              /\ idr' = Without({l})
              /\ UNCHANGED creator
    /\ Returns(Main)
    /\ UNCHANGED <<arg, complist, schedulers, workers, queue, waits, unbalanced,
                   heap, preempt_rcu, dev>>

\* put_ums_complist by thread t.  The last reference makes t destroy the list;
\* otherwise t goes on, which ends the context it destroys and its section.
PutUmsComplist(t, l) ==
    /\ refcount' = [refcount EXCEPT ![l] = Dropped(@)]
    /\ \/ /\ refcount[l] = 1
          /\ Goto(t, "destroy")
          /\ found' = [found EXCEPT ![t] = l]
          /\ UNCHANGED <<schedulers, workers, waits>>
       \/ /\ refcount[l] # 1
          /\ Returns(t)
          /\ schedulers' = schedulers \ {t}
          /\ workers' = workers \ {t}
          /\ Quiesces(t)

\* Variant: the creator may delete again.
UmsComplistDelete_Twice ==
    /\ Calls(Main)
    /\ \E i \in Ids :
        /\ idr[i] # NoList
        /\ PutUmsComplist(Main, idr[i])
        /\ creator' = creator \ {idr[i]}
    /\ UNCHANGED <<arg, complist, mem, idr, queue, unbalanced, heap, preempt_rcu, dev,
                   faults>>

\* The creator drops its reference, once: the library forgets the id.
UmsComplistDelete ==
    /\ Calls(Main)
    /\ \E i \in Known :
        /\ PutUmsComplist(Main, idr[i])
        /\ creator' = creator \ {idr[i]}
    /\ UNCHANGED <<arg, complist, mem, idr, queue, unbalanced, heap, preempt_rcu, dev,
                   faults>>

\* What is assumed of the program, for the code does not see to it: it deletes
\* no list while one of its threads is entering with the id of that list.
DeletesAlone ==
    RacingDelete \/
        \A l \in creator \ creator', t \in Threads :
            ~(pc[t] \in {"find", "get"} /\ arg[t] \in Ids /\ idr[arg[t]] = l)

\* Variant: kfree in place of call_rcu.
UmsComplistDestroy_Kfree(t) ==
    /\ pc[t] = "destroy"
    /\ LET l == found[t]
       IN  /\ idr' = Without({l})
           /\ mem' = [mem EXCEPT ![l] = "freed"]
           /\ waits' = [k \in Lists |-> waits[k] \ {t}]
    /\ schedulers' = schedulers \ {t}
    /\ workers' = workers \ {t}
    /\ Returns(t)
    /\ UNCHANGED <<arg, complist, refcount, queue, creator, unbalanced,
                   heap, preempt_rcu, dev, faults>>

\* Variant: the id of the destroyed list is not removed.
UmsComplistDestroy_KeepsId(t) ==
    /\ pc[t] = "destroy"
    /\ LET l == found[t]
       IN  /\ mem' = [mem EXCEPT ![l] = "rcu"]
           /\ waits' = [k \in Lists |->
                 IF k = l THEN {u \in Threads \ {t} : Reader(u)} ELSE waits[k] \ {t}]
    /\ schedulers' = schedulers \ {t}
    /\ workers' = workers \ {t}
    /\ Returns(t)
    /\ UNCHANGED <<arg, complist, refcount, idr, queue, creator, unbalanced,
                   heap, preempt_rcu, dev, faults>>

\* ums_complist_destroy by the thread that dropped the last reference, and the
\* rest of its call: the id is removed, the memory handed to RCU.
UmsComplistDestroy(t) ==
    /\ pc[t] = "destroy"
    /\ LET l == found[t]
       IN  /\ idr' = Without({l})
           /\ mem' = [mem EXCEPT ![l] = "rcu"]
           /\ waits' = [k \in Lists |->
                 IF k = l THEN {u \in Threads \ {t} : Reader(u)} ELSE waits[k] \ {t}]
    /\ schedulers' = schedulers \ {t}
    /\ workers' = workers \ {t}
    /\ Returns(t)
    /\ UNCHANGED <<arg, complist, refcount, queue, creator, unbalanced,
                   heap, preempt_rcu, dev, faults>>

\* The grace period ends and the callback frees the list.
UmsComplistCallRcu(l) ==
    /\ mem[l] = "rcu"
    /\ waits[l] = {}
    /\ mem' = [mem EXCEPT ![l] = "freed"]
    /\ UNCHANGED <<pc, arg, found, complist, schedulers, workers, refcount, idr,
                   queue, creator, waits, unbalanced, heap, preempt_rcu, dev, faults>>

-----------------------------------------------------------------------------
(* Entering UMS mode.                                                      *)

\* The context is allocated and registered first; its complist pointer holds
\* whatever the memory held.
Unassigned(t) ==
    \E p \in {Wild} \cup heap :
        complist' = [complist EXCEPT ![t] = p]

UmsSchedulerCreate(s) ==
    /\ s \in Schedulers \ schedulers
    /\ schedulers' = schedulers \cup {s}
    /\ Unassigned(s)
    /\ UNCHANGED workers

\* Variant: workers go to the table of the schedulers.
UmsWorkerCreate_WrongTable(w) ==
    /\ w \in Workers \ workers
    /\ schedulers' = schedulers \cup {w}
    /\ Unassigned(w)
    /\ UNCHANGED workers

UmsWorkerCreate(w) ==
    /\ w \in Workers \ workers
    /\ workers' = workers \cup {w}
    /\ Unassigned(w)
    /\ UNCHANGED schedulers

\* A thread enters with the id of a list it knows, or with one that names none.
\* When an allocation fails nothing stays in the tables.
EnterUmsMode(t) ==
    /\ Calls(t)
    /\ \/ /\ \E i \in Known \cup {NoId} : arg' = [arg EXCEPT ![t] = i]
          /\ UmsSchedulerCreate(t) \/ UmsWorkerCreate(t)
          /\ Goto(t, "find")
          /\ UNCHANGED faults
       \/ /\ t \notin schedulers \cup workers \cup {Main}
          /\ Fault
          /\ UNCHANGED <<pc, arg, complist, schedulers, workers>>
    /\ UNCHANGED <<found, mem, refcount, idr, queue, creator, waits, unbalanced,
                   heap, preempt_rcu, dev>>

\* The lookup under rcu_read_lock.  For an id that names no list the error path
\* destroys the context, and drops a reference through a pointer that was
\* never assigned.
ComplistFind(t) ==
    /\ pc[t] = "find"
    /\ \/ /\ arg[t] \in Ids
          /\ idr[arg[t]] # NoList
          /\ found' = [found EXCEPT ![t] = idr[arg[t]]]
          /\ Goto(t, "get")
          /\ UNCHANGED <<arg, complist, schedulers, workers, refcount, waits>>
       \/ /\ arg[t] \in Ids => idr[arg[t]] = NoList
          /\ arg' = [arg EXCEPT ![t] = NoId]
          /\ \/ /\ complist[t] = Wild
                /\ Goto(t, "oops")
                /\ UNCHANGED <<found, complist, schedulers, workers, refcount, waits>>
             \/ /\ complist[t] # Wild
                /\ complist' = [complist EXCEPT ![t] = NoList]
                /\ PutUmsComplist(t, complist[t])
    /\ UNCHANGED <<mem, idr, queue, creator, unbalanced, heap, preempt_rcu, dev,
                   faults>>

\* Variant: the context keeps the pointer without a reference.
GetUmsComplist_NoGet(t) ==
    /\ pc[t] = "get"
    /\ complist' = [complist EXCEPT ![t] = found[t]]
    /\ arg' = [arg EXCEPT ![t] = NoId]
    /\ found' = [found EXCEPT ![t] = NoList]
    /\ Goto(t, IF t \in Schedulers THEN "event" ELSE "add")
    /\ Quiesces(t)
    /\ UNCHANGED <<schedulers, workers, mem, refcount, idr, queue,
                   creator, unbalanced, heap, preempt_rcu, dev, faults>>

\* The context takes its reference and leaves the read-side section.
GetUmsComplist(t) ==
    /\ pc[t] = "get"
    /\ Get(found[t])
    /\ complist' = [complist EXCEPT ![t] = found[t]]
    /\ arg' = [arg EXCEPT ![t] = NoId]
    /\ found' = [found EXCEPT ![t] = NoList]
    /\ Goto(t, IF t \in Schedulers THEN "event" ELSE "add")
    /\ Quiesces(t)
    /\ UNCHANGED <<schedulers, workers, mem, idr, queue, creator,
                   unbalanced, heap, preempt_rcu, dev, faults>>

\* The startup event.  Without memory for it the error path is the one of the
\* failed lookup, which leaves a read-side section the thread is not in.
StartupEvent(s) ==
    /\ pc[s] = "event"
    /\ \/ /\ Goto(s, "user")
          /\ UNCHANGED <<found, complist, schedulers, workers, refcount, waits,
                         heap, unbalanced, faults>>
       \/ /\ Fault
          /\ unbalanced' = unbalanced \cup {s}
          /\ complist' = [complist EXCEPT ![s] = NoList]
          /\ PutUmsComplist(s, complist[s])
          /\ Leaves(complist[s])
    /\ UNCHANGED <<arg, mem, idr, queue, creator, preempt_rcu, dev>>

-----------------------------------------------------------------------------
(* Using a list.                                                           *)

\* A worker that enters or yields links its context and sleeps.
UmsCompletionListAdd(w) ==
    /\ pc[w] = "add"
    /\ queue' = [queue EXCEPT ![complist[w]] = @ \cup {w}]
    /\ Goto(w, "asleep")
    /\ UNCHANGED <<arg, found, complist, schedulers, workers, mem, refcount, idr,
                   creator, waits, unbalanced, heap, preempt_rcu, dev, faults>>

\* A scheduler that dequeued the context runs it, or the process is killed.
WorkerResumes(w) ==
    /\ pc[w] = "asleep"
    /\ w \notin queue[complist[w]] \/ dev = "exiting"
    /\ Goto(w, "user")
    /\ UNCHANGED <<arg, found, complist, schedulers, workers, mem, refcount, idr,
                   queue, creator, waits, unbalanced, heap, preempt_rcu, dev, faults>>

UmsWorkerYield(w) ==
    /\ Calls(w)
    /\ w \in workers
    /\ Goto(w, "add")
    /\ UNCHANGED <<arg, found, complist, schedulers, workers, mem, refcount, idr,
                   queue, creator, waits, unbalanced, heap, preempt_rcu, dev, faults>>

\* The context goes away: its pointer is dropped with its reference.
UmsWorkerEnd(w) ==
    /\ Calls(w)
    /\ w \in workers
    /\ complist' = [complist EXCEPT ![w] = NoList]
    /\ PutUmsComplist(w, complist[w])
    /\ Leaves(complist[w])
    /\ UNCHANGED <<arg, mem, idr, queue, creator, unbalanced, preempt_rcu, dev,
                   faults>>

\* The scheduler looks the list up and takes no reference.  An id that names
\* no list ends the call and changes nothing.
UmsComplistDqcontext(s) ==
    /\ Calls(s)
    /\ s \in schedulers
    /\ \E i \in Ids :
        /\ idr[i] # NoList
        /\ idr[i] = complist[s] \/ i \in Known
        /\ found' = [found EXCEPT ![s] = idr[i]]
    /\ Goto(s, "dequeue")
    /\ UNCHANGED <<arg, complist, schedulers, workers, mem, refcount, idr, queue,
                   creator, waits, unbalanced, heap, preempt_rcu, dev, faults>>

\* All that is queued is taken, or the scheduler sleeps, still in its
\* read-side section.  When the first link or the copy of the pid fails the
\* first context goes back, and the others stay off the list: nobody dequeues
\* them, but any scheduler may still run them by their pid.
DoDequeue(s) ==
    /\ pc[s] = "dequeue"
    /\ \/ /\ queue[found[s]] # {}
          /\ queue' = [queue EXCEPT ![found[s]] = {}]
          /\ Returns(s)
          /\ Quiesces(s)
          /\ UNCHANGED faults
       \/ /\ Fault
          /\ \E w \in queue[found[s]] : queue' = [queue EXCEPT ![found[s]] = {w}]
          /\ Returns(s)
          /\ Quiesces(s)
       \/ /\ queue[found[s]] = {}
          /\ Goto(s, "wait")
          /\ IF preempt_rcu THEN UNCHANGED waits ELSE Quiesces(s)
          /\ UNCHANGED <<found, queue, faults>>
    /\ UNCHANGED <<arg, complist, schedulers, workers, mem, refcount, idr,
                   creator, unbalanced, heap, preempt_rcu, dev>>

\* wait_event_interruptible ends because of a new context, or of the signal
\* that kills the process.  A wake-up by ums_complist_destroy finds the list
\* empty and sleeps again.
WaitEventInterruptible(s) ==
    /\ pc[s] = "wait"
    /\ \/ /\ queue[found[s]] # {}
          /\ Goto(s, "dequeue")
          /\ UNCHANGED <<found, waits>>
       \/ /\ dev = "exiting"
          /\ Returns(s)
          /\ Quiesces(s)
    /\ UNCHANGED <<arg, complist, schedulers, workers, mem, refcount, idr,
                   queue, creator, unbalanced, heap, preempt_rcu, dev, faults>>

\* Any other signal ends the wait as well.
Interrupted(s) ==
    /\ pc[s] = "wait"
    /\ Returns(s)
    /\ Quiesces(s)
    /\ UNCHANGED <<arg, complist, schedulers, workers, mem, refcount, idr,
                   queue, creator, unbalanced, heap, preempt_rcu, dev, faults>>

-----------------------------------------------------------------------------
(* Releasing the device.  ums_dev_release runs when the last descriptor is *)
(* closed and no call is in progress, so its loops see no other thread.    *)

\* The process ends: sleeping calls return, no new call is made.
ProcessExits ==
    /\ dev = "open"
    /\ dev' = "exiting"
    /\ UNCHANGED <<pc, arg, found, complist, schedulers, workers, mem, refcount,
                   idr, queue, creator, waits, unbalanced, heap, preempt_rcu, faults>>

\* References dropped one by one, n[l] of each list; the lists whose last one
\* goes are destroyed.
DropAll(n) ==
    LET gone == {l \in Lists : n[l] > 0 /\ refcount[l] = n[l]}
    IN  /\ refcount' = [l \in Lists |->
              IF n[l] > refcount[l] THEN Saturated ELSE refcount[l] - n[l]]
        /\ mem' = [l \in Lists |-> IF l \in gone THEN "rcu" ELSE mem[l]]
        /\ idr' = Without(gone)

\* One kind of contexts is destroyed; a pointer never assigned is fatal.
ReleaseContexts(contexts, stage) ==
    IF \E t \in contexts : complist[t] = Wild
    THEN dev' = "oops" /\ UNCHANGED <<mem, refcount, idr>>
    ELSE /\ dev' = stage
         /\ DropAll([l \in Lists |-> Cardinality({t \in contexts : complist[t] = l})])

ReleaseWorkers ==
    /\ dev = "exiting"
    /\ \A t \in Threads : pc[t] \in {"user", "oops"}
    /\ ReleaseContexts(workers, "workers")
    /\ workers' = IF dev' = "oops" THEN workers ELSE {}
    /\ UNCHANGED <<pc, arg, found, complist, schedulers, queue, creator, waits,
                   unbalanced, heap, preempt_rcu, faults>>

ReleaseSchedulers ==
    /\ dev = "workers"
    /\ ReleaseContexts(schedulers, "schedulers")
    /\ schedulers' = IF dev' = "oops" THEN schedulers ELSE {}
    /\ UNCHANGED <<pc, arg, found, complist, workers, queue, creator, waits,
                   unbalanced, heap, preempt_rcu, faults>>

\* Variant: only the memory of the IDR is released.
ReleaseComplists_DestroysOnly ==
    /\ dev = "schedulers"
    /\ idr' = [i \in Ids |-> NoList]
    /\ creator' = {}
    /\ dev' = "closed"
    /\ UNCHANGED <<pc, arg, found, complist, schedulers, workers, mem, refcount,
                   queue, waits, unbalanced, heap, preempt_rcu, faults>>

\* The lists still in the IDR lose the reference of their creator, then the
\* IDR and the ums_data are freed.
ReleaseComplists ==
    /\ dev = "schedulers"
    /\ LET gone == {l \in Lists : \E i \in Ids : idr[i] = l /\ refcount[l] = 1}
       IN  /\ refcount' = [l \in Lists |->
                 IF \E i \in Ids : idr[i] = l THEN Dropped(refcount[l]) ELSE refcount[l]]
           /\ mem' = [l \in Lists |-> IF l \in gone THEN "rcu" ELSE mem[l]]
    /\ idr' = [i \in Ids |-> NoList]
    /\ creator' = {}
    /\ dev' = "closed"
    /\ UNCHANGED <<pc, arg, found, complist, schedulers, workers, queue, waits,
                   unbalanced, heap, preempt_rcu, faults>>

-----------------------------------------------------------------------------

\* A thread goes on with the call it is in.
Continues(t) ==
    \/ UmsComplistDestroy(t)
    \/ ComplistFind(t)
    \/ GetUmsComplist(t)
    \/ StartupEvent(t)
    \/ UmsCompletionListAdd(t)
    \/ WorkerResumes(t)
    \/ DoDequeue(t)
    \/ WaitEventInterruptible(t)

\* The program makes a call.
Begins(t) ==
    \/ EnterUmsMode(t)
    \/ UmsWorkerYield(t)
    \/ UmsWorkerEnd(t)
    \/ UmsComplistDqcontext(t)

Release == ReleaseWorkers \/ ReleaseSchedulers \/ ReleaseComplists

Next ==
    \/ CreateUmsComplist
    \/ UmsComplistInit
    \/ UmsComplistDelete /\ DeletesAlone
    \/ \E t \in Threads : Continues(t) \/ Begins(t) \/ Interrupted(t)
    \/ \E l \in Lists : UmsComplistCallRcu(l)
    \/ ProcessExits
    \/ Release

Spec == Init /\ [][Next]_vars

\* Calls go on, grace periods end, and the file of a dead process is released.
\* Nothing makes the program call, or exit.
Fairness ==
    /\ \A t \in Threads : WF_vars(Continues(t))
    /\ \A l \in Lists : WF_vars(UmsComplistCallRcu(l))
    /\ WF_vars(UmsComplistInit)
    /\ WF_vars(Release)

FairSpec == Spec /\ Fairness

-----------------------------------------------------------------------------
(* Properties.                                                             *)

\* The contexts that own a reference to l.
Holders(l) ==
    {t \in schedulers \cup workers : complist[t] = l /\ pc[t] \notin {"find", "get"}}

TypeOK ==
    /\ pc \in [Threads -> PCs]
    /\ arg \in [Threads -> Ids \cup {NoId}]
    /\ found \in [Threads -> Lists \cup {NoList}]
    /\ complist \in [Threads -> Lists \cup {NoList, Wild}]
    /\ schedulers \subseteq Schedulers
    /\ workers \subseteq Workers
    /\ mem \in [Lists -> {"none", "new", "lost", "live", "rcu", "freed"}]
    /\ refcount \in [Lists -> Nat \cup {Saturated}]
    /\ idr \in [Ids -> Lists \cup {NoList}]
    /\ queue \in [Lists -> SUBSET Workers]
    /\ creator \subseteq Lists
    /\ waits \in [Lists -> SUBSET Threads]
    /\ heap \subseteq Lists
    /\ unbalanced \subseteq Schedulers
    /\ preempt_rcu \in BOOLEAN
    /\ dev \in Stages
    /\ faults \in 0..MaxFaults

\* The count of a list is the number of its owners: its creator until delete,
\* and the contexts between get_ums_complist and put_ums_complist, whichever of
\* the error paths they left by.
RefCountExact ==
    \A l \in Lists : mem[l] = "live" =>
        refcount[l] = Cardinality(Holders(l)) + (IF l \in creator THEN 1 ELSE 0)

\* The scheduler uses a list it looked up and has no reference to.
Borrows(t) == pc[t] \in {"dequeue", "wait"} /\ found[t] # complist[t]

\* No handler follows a pointer to freed memory: "everyone who needs a reference
\* to the completion list has to increment its reference counter"
\* (doc/kernelspace/module/complist.rst:19).  A registered context keeps its
\* list alive, and a handler that only looked a list up relies on its read-side
\* section.  One case is left out, the subject of BorrowedIsKept: a scheduler
\* that dequeues from a list it did not enter with, where readers are not
\* preemptible, or after it has left one section too many.
NoUseAfterFree ==
    /\ \A t \in schedulers \cup workers :
          pc[t] \notin {"find", "get", "oops"} /\ complist[t] \in Lists =>
              mem[complist[t]] = "live"
    /\ \A t \in Threads :
          pc[t] \in {"create_init", "get", "dequeue", "wait", "destroy"} =>
              \/ mem[found[t]] # "freed"
              \/ Borrows(t) /\ (preempt_rcu => t \in unbalanced)

\* The list a scheduler dequeues from is there until the call is over, as the
\* same line asks, also when it is not the one the scheduler entered with.
BorrowedIsKept == \A s \in Schedulers : Borrows(s) => mem[found[s]] # "freed"

\* "The list must be empty before it can be released" (src/lib/include/ums.h:29)
\* holds by the counts: whatever is queued on a list has a reference to it, so
\* that no context is left on a list nobody can find.
EmptyWhenDestroyed ==
    dev \in {"open", "exiting"} =>
        \A l \in Lists : mem[l] \in {"rcu", "freed"} => queue[l] = {}

\* An id leads to at most one list, a list has at most one id, and what an id
\* leads to has not been handed to RCU: an id is used again only after its list
\* has left the IDR.
IdNamesLiveList ==
    \A i \in Ids : idr[i] # NoList =>
        /\ mem[idr[i]] \in {"new", "live"}
        /\ \A j \in Ids : idr[j] = idr[i] => j = i

\* Without a context that was destroyed through an unassigned pointer, the end
\* of the process frees every list that ever had an id
\* (doc/kernelspace/module/device.rst:19): each is destroyed once, by whoever
\* drops the last reference, and no grace period is left waiting.
ReleaseFreesAll ==
    (dev = "exiting" /\ \A t \in Threads : pc[t] # "oops") ~>
        \/ \E t \in Threads : pc[t] = "oops"
        \/ dev = "closed" /\ \A l \in Lists : mem[l] \in {"none", "lost", "freed"}
=============================================================================
