------------------------- MODULE UmsLifetimeProofs --------------------------
(***************************************************************************)
(* What UmsLifetime promises, for every number of threads and of lists and *)
(* every number of failures.  The theorems are about the runs in which     *)
(* kmalloc returns no memory of a freed context (StaleHeap) and the        *)
(* program deletes no list beside a call that enters with its id           *)
(* (RacingDelete); what happens otherwise is a matter of the runs.  First  *)
(* the inductive invariant, then one lemma for each action: those that     *)
(* make, destroy and free a list and that give a reference up, those that  *)
(* take one, and the release.                                              *)
(***************************************************************************)
EXTENDS UmsLifetime, FiniteSetTheorems, TLAPS

-----------------------------------------------------------------------------
(* The inductive invariant.  RefCountExact does not stand alone: that the  *)
(* error path of a lookup drops no reference needs the pointers of contexts*)
(* that own none, that a reference is never taken to a dying list needs    *)
(* what a lookup can find, and that the release drops as many references as*)
(* there are needs every counted owner to be found through a table or an   *)
(* id.                                                                     *)

\* The contexts in the two tables.
Registered == schedulers \cup workers

\* The memory of a new context is not that of an old one.
Fresh == heap = {}

\* Which thread can be where.
Places ==
    /\ pc[Main] \in {"user", "create_init", "destroy"}
    /\ \A t \in Threads : pc[t] = "create_init" => t = Main
    /\ \A t \in Threads : pc[t] \in {"find", "get", "oops"} => t \in Registered
    /\ \A t \in Threads : pc[t] \in {"event", "dequeue", "wait"} => t \in schedulers
    /\ \A t \in Threads : pc[t] \in {"add", "asleep"} => t \in workers

\* What the pointer of a registered context is: not yet assigned, already
\* dropped, or a reference that keeps its list alive.
Pointers ==
    \A t \in Registered :
        /\ pc[t] \in {"find", "get", "oops"} => complist[t] = Wild
        /\ pc[t] = "destroy" => complist[t] = NoList
        /\ pc[t] \notin {"find", "get", "oops", "destroy"} =>
              complist[t] \in Lists /\ mem[complist[t]] = "live"

\* A lookup finds a list that its creator has not deleted.
Lookups ==
    \A t \in Threads :
        /\ pc[t] = "find" /\ arg[t] \in Ids => idr[arg[t]] \in creator
        /\ pc[t] = "get" => arg[t] \in Ids /\ found[t] = idr[arg[t]] /\ found[t] \in creator

\* l can be found by an id.
Named(l) == \E i \in Ids : idr[i] = l

\* A list is created under an id, and is counted and found until it is deleted.
Creators ==
    /\ pc[Main] = "create_init" =>
          found[Main] \in Lists /\ mem[found[Main]] = "new" /\ Named(found[Main])
    /\ \A l \in creator : mem[l] = "live" /\ Named(l)

\* Exactly the lists without a reference are being destroyed, each by one thread.
Destroyers ==
    /\ \A t \in Threads : pc[t] = "destroy" =>
          /\ found[t] \in Lists
          /\ mem[found[t]] = "live"
          /\ refcount[found[t]] = 0
    /\ \A t, u \in Threads :
          pc[t] = "destroy" /\ pc[u] = "destroy" /\ found[t] = found[u] => t = u
    /\ \A l \in Lists : mem[l] = "live" /\ refcount[l] = 0 =>
          \E t \in Threads : pc[t] = "destroy" /\ found[t] = l

\* What is queued on a list belongs to a worker that holds the list.
Queued ==
    dev \in {"open", "exiting"} =>
        \A l \in Lists : \A w \in queue[l] :
            /\ w \in workers
            /\ complist[w] = l
            /\ pc[w] = "asleep" \/ (pc[w] = "user" /\ dev = "exiting")

\* The release runs alone and has emptied the tables it is done with.
Stopped ==
    /\ dev \notin {"open", "exiting"} => \A t \in Threads : pc[t] \in {"user", "oops"}
    /\ dev \in {"workers", "schedulers", "closed"} => workers = {}
    /\ dev \in {"schedulers", "closed"} => schedulers = {}

IInv ==
    /\ TypeOK
    /\ Fresh
    /\ Places
    /\ Pointers
    /\ Lookups
    /\ Creators
    /\ Destroyers
    /\ RefCountExact
    /\ IdNamesLiveList
    /\ Queued
    /\ Stopped

-----------------------------------------------------------------------------
(* What the provers need to know of the constants and of finite sets.      *)

\* The kinds of threads and of pointers are different.
LEMMA Kinds ==
    /\ \A t \in Schedulers : t \in Threads /\ t \notin Workers /\ t # Main
    /\ \A t \in Workers : t \in Threads /\ t \notin Schedulers /\ t # Main
    /\ Main \in Threads
    /\ NoList \notin Lists /\ Wild \notin Lists /\ Wild # NoList
  BY LifetimeAssumption DEF Threads

\* A set of threads can be counted.
LEMMA Counted ==
    ASSUME NEW S, S \subseteq Threads
    PROVE  /\ IsFiniteSet(S)
           /\ Cardinality(S) \in Nat
           /\ Cardinality(S) = 0 <=> S = {}
  BY LifetimeAssumption, FS_Subset, FS_CardinalityType, FS_EmptySet

\* The owners of a list are threads.
LEMMA HoldersAreThreads ==
    ASSUME TypeOK, NEW l
    PROVE  /\ Holders(l) \subseteq Threads
           /\ Holders(l) \subseteq Registered
           /\ IsFiniteSet(Holders(l))
           /\ Cardinality(Holders(l)) \in Nat
           /\ Cardinality(Holders(l)) = 0 <=> Holders(l) = {}
<1>1. Holders(l) \subseteq Threads /\ Holders(l) \subseteq Registered
    BY Kinds DEF Holders, Registered, TypeOK
<1> QED
    BY <1>1, Counted

\* A list without a count has no owner.
LEMMA NoOwners ==
    ASSUME TypeOK, RefCountExact, NEW l \in Lists, mem[l] = "live", refcount[l] = 0
    PROVE  Holders(l) = {} /\ l \notin creator
<1>1. Cardinality(Holders(l)) + (IF l \in creator THEN 1 ELSE 0) = 0
    BY DEF RefCountExact
<1>2. Cardinality(Holders(l)) \in Nat /\ (Cardinality(Holders(l)) = 0 <=> Holders(l) = {})
    BY HoldersAreThreads
<1> QED
    BY <1>1, <1>2

\* There is nothing yet to count.
LEMMA InitIInv == Init => IInv
<1> SUFFICES ASSUME Init PROVE IInv
    OBVIOUS
<1> USE Kinds DEF Init
<1>1. TypeOK
    BY LifetimeAssumption DEF TypeOK, PCs, Stages
<1>2. Fresh /\ Places /\ Pointers /\ Lookups /\ Creators
    BY DEF Fresh, Places, Pointers, Lookups, Creators, Registered
<1>3. Destroyers /\ RefCountExact /\ IdNamesLiveList /\ Queued /\ Stopped
    BY DEF Destroyers, RefCountExact, IdNamesLiveList, Queued, Stopped
<1> QED
    BY <1>1, <1>2, <1>3 DEF IInv

-----------------------------------------------------------------------------
(* The steps that touch no reference.                                      *)

\* Where a thread is in no lookup, creates and destroys nothing.
Passing == {"user", "event", "add", "asleep", "dequeue", "wait"}

\* The owners are the same when the tables and pointers are, and no lookup
\* begins or ends.
LEMMA HoldersStay ==
    ASSUME TypeOK, UNCHANGED <<complist, schedulers, workers>>,
           \A u \in Threads : pc'[u] = pc[u] \/ (pc[u] \in Passing /\ pc'[u] \in Passing),
           NEW l
    PROVE  Holders(l)' = Holders(l)
<1>1. \A u \in schedulers \cup workers : u \in Threads
    BY Kinds, Zenon DEF TypeOK
<1>2. \A u \in Threads : pc'[u] \in {"find", "get"} <=> pc[u] \in {"find", "get"}
    BY DEF Passing
<1> QED
    BY <1>1, <1>2 DEF Holders

\* A thread that passes by changes nothing the counts are about.
LEMMA PassingSteps ==
    ASSUME IInv, TypeOK', Places', Queued', Stopped',
           UNCHANGED <<arg, complist, schedulers, workers, mem, refcount, idr, creator, heap>>,
           \A u \in Threads :
              \/ pc'[u] = pc[u] /\ found'[u] = found[u]
              \/ pc[u] \in Passing /\ pc'[u] \in Passing
    PROVE  IInv'
<1> USE DEF IInv
<1>1. /\ Main \in Threads
      /\ \A u \in Registered : u \in Threads
    BY Kinds, Zenon DEF TypeOK, Registered
<1>2. /\ \A u \in Threads, p \in {"find", "get", "oops", "destroy", "create_init"} :
            pc'[u] = p <=> pc[u] = p
      /\ \A u \in Threads : pc[u] \in {"get", "destroy", "create_init"} => found'[u] = found[u]
    BY Zenon DEF Passing
<1>3. Fresh'
    BY DEF Fresh
<1>4. Pointers'
    BY <1>1, <1>2 DEF Pointers, Registered
<1>5. Lookups'
    BY <1>2 DEF Lookups
<1>6. Creators'
    BY <1>1, <1>2 DEF Creators, Named
<1>7. Destroyers'
    BY <1>2 DEF Destroyers
<1>8. RefCountExact'
  <2>1. \A l : Holders(l)' = Holders(l)
      BY HoldersStay, Zenon
  <2> QED
      BY <2>1 DEF RefCountExact
<1>9. IdNamesLiveList'
    BY Zenon DEF IdNamesLiveList
<1> QED
    BY <1>3, <1>4, <1>5, <1>6, <1>7, <1>8, <1>9

\* One thread passes from one place to another.
LEMMA ThreadPasses ==
    ASSUME IInv, NEW t \in Threads, NEW p \in Passing,
           pc[t] \in Passing, Goto(t, p),
           UNCHANGED <<arg, complist, schedulers, workers, mem, refcount, idr, creator,
                       heap, unbalanced, preempt_rcu, dev>>,
           faults' \in 0 .. MaxFaults,
           found' \in [Threads -> Lists \cup {NoList}],
           \A u \in Threads : u # t => found'[u] = found[u],
           queue' \in [Lists -> SUBSET Workers],
           waits' \in [Lists -> SUBSET Threads],
           dev \in {"open", "exiting"},
           p \in {"event", "dequeue", "wait"} => t \in schedulers,
           p \in {"add", "asleep"} => t \in workers,
           Queued'
    PROVE  IInv'
<1> USE DEF IInv
<1>1. /\ pc' \in [Threads -> PCs]
      /\ pc'[t] = p
      /\ \A u \in Threads : u # t => pc'[u] = pc[u]
    BY Zenon DEF Goto, TypeOK, Passing, PCs
<1>2. TypeOK'
    BY <1>1, Zenon DEF TypeOK
<1>3. Places'
    BY <1>1, Kinds, Zenon DEF Places, Passing, Registered, TypeOK
<1>4. Stopped'
    BY Zenon DEF Stopped
<1>5. \A u \in Threads :
         \/ pc'[u] = pc[u] /\ found'[u] = found[u]
         \/ pc[u] \in Passing /\ pc'[u] \in Passing
    BY <1>1, Zenon
<1> QED
    BY <1>2, <1>3, <1>4, <1>5, PassingSteps, Zenon

\* A call in progress keeps the device open.
LEMMA InCall ==
    ASSUME IInv, NEW t \in Threads, pc[t] \notin {"user", "oops"}
    PROVE  dev \in {"open", "exiting"}
  BY DEF IInv, Stopped

\* A worker queues itself, sleeps, and yields.
LEMMA WorkerPasses ==
    ASSUME IInv, NEW w \in Threads,
           UmsCompletionListAdd(w) \/ WorkerResumes(w) \/ UmsWorkerYield(w)
    PROVE  IInv'
<1> USE DEF IInv
<1>1. w \in workers /\ w \in Workers /\ dev \in {"open", "exiting"} /\ pc[w] \in Passing
    BY InCall, Zenon DEF UmsCompletionListAdd, WorkerResumes, UmsWorkerYield, Calls, Places,
       TypeOK, Passing
<1>2. /\ pc \in [Threads -> PCs] /\ queue \in [Lists -> SUBSET Workers]
      /\ \A l \in Lists : \A u \in queue[l] : u \in Threads
    BY Kinds, Zenon DEF TypeOK
<1>3. complist[w] \in Lists
    BY <1>1, Zenon DEF Pointers, Registered, UmsCompletionListAdd, WorkerResumes, UmsWorkerYield,
       Calls
<1>4. CASE UmsCompletionListAdd(w)
  <2>1. queue' \in [Lists -> SUBSET Workers]
      BY <1>1, <1>2, <1>3, <1>4, Zenon DEF UmsCompletionListAdd
  <2>2. Queued'
      BY <1>1, <1>2, <1>3, <1>4 DEF UmsCompletionListAdd, Queued, Goto
  <2>3. "asleep" \in Passing
      BY DEF Passing
  <2> QED
      BY <1>1, <1>4, <2>1, <2>2, <2>3, ThreadPasses, Zenon DEF UmsCompletionListAdd, TypeOK
<1>5. CASE WorkerResumes(w)
  <2>1. Queued'
      BY <1>1, <1>2, <1>3, <1>5, SMTT(60), Z3T(60) DEF WorkerResumes, Queued, Goto
  <2>2. "user" \in Passing
      BY DEF Passing
  <2> QED
      BY <1>1, <1>5, <2>1, <2>2, ThreadPasses, Zenon DEF WorkerResumes, TypeOK
<1>6. CASE UmsWorkerYield(w)
  <2>1. Queued'
      BY <1>1, <1>2, <1>3, <1>6, Zenon DEF UmsWorkerYield, Calls, Queued, Goto
  <2>2. "add" \in Passing
      BY DEF Passing
  <2> QED
      BY <1>1, <1>6, <2>1, <2>2, ThreadPasses, Zenon DEF UmsWorkerYield, TypeOK
<1> QED
    BY <1>4, <1>5, <1>6, Zenon

\* A scheduler's step that queues nobody leaves the queues to the workers.
LEMMA QueuedStays ==
    ASSUME IInv, NEW t \in Threads, t \notin workers, NEW p, Goto(t, p),
           UNCHANGED <<complist, workers, dev>>,
           queue' \in [Lists -> SUBSET Workers],
           \A l \in Lists : queue'[l] \subseteq queue[l]
    PROVE  Queued'
<1>1. pc \in [Threads -> PCs] /\ \A u \in workers : u \in Threads
    BY Kinds, Zenon DEF IInv, TypeOK
<1> QED
    BY <1>1 DEF IInv, Queued, Goto

\* A scheduler looks a list up, dequeues, waits and is interrupted.
LEMMA SchedulerPasses ==
    ASSUME IInv, NEW s \in Threads,
           \/ UmsComplistDqcontext(s) \/ DoDequeue(s) \/ WaitEventInterruptible(s)
           \/ Interrupted(s)
    PROVE  IInv'
<1> USE DEF IInv
<1>1. /\ s \in schedulers /\ s \in Schedulers /\ s \notin workers
      /\ dev \in {"open", "exiting"} /\ pc[s] \in Passing
    BY InCall, Kinds, Zenon DEF UmsComplistDqcontext, DoDequeue, WaitEventInterruptible,
       Interrupted, Calls, Places, TypeOK, Passing
<1>2. /\ pc \in [Threads -> PCs] /\ queue \in [Lists -> SUBSET Workers]
      /\ found \in [Threads -> Lists \cup {NoList}]
      /\ waits \in [Lists -> SUBSET Threads]
      /\ idr \in [Ids -> Lists \cup {NoList}]
    BY Zenon DEF TypeOK
<1>3. PICK p : p \in {"user", "dequeue", "wait"} /\ Goto(s, p)
    BY Zenon DEF UmsComplistDqcontext, DoDequeue, WaitEventInterruptible, Interrupted, Returns
<1>4. p \in Passing /\ p \notin {"add", "asleep"}
    BY <1>3 DEF Passing
<1>5. /\ found' \in [Threads -> Lists \cup {NoList}]
      /\ \A u \in Threads : u # s => found'[u] = found[u]
    BY <1>2, Zenon DEF UmsComplistDqcontext, DoDequeue, WaitEventInterruptible, Interrupted,
       Returns
<1>6. /\ queue' \in [Lists -> SUBSET Workers]
      /\ \A l \in Lists : queue'[l] \subseteq queue[l]
  <2>1. CASE UNCHANGED queue
      BY <1>2, <2>1, Zenon
  <2>2. CASE \E q \in SUBSET queue[found[s]] : queue' = [queue EXCEPT ![found[s]] = q]
      BY <1>2, <2>2
  <2>3. ASSUME DoDequeue(s), queue' # queue
        PROVE  \E q \in SUBSET queue[found[s]] : queue' = [queue EXCEPT ![found[s]] = q]
      BY <2>3, Zenon DEF DoDequeue
  <2> QED
      BY <2>1, <2>2, <2>3, Zenon DEF UmsComplistDqcontext, WaitEventInterruptible, Interrupted
<1>7. waits' \in [Lists -> SUBSET Threads]
    BY <1>2, Zenon DEF UmsComplistDqcontext, DoDequeue, WaitEventInterruptible, Interrupted,
       Quiesces
<1>8. UNCHANGED <<arg, complist, schedulers, workers, mem, refcount, idr, creator,
                  heap, unbalanced, preempt_rcu, dev>>
    BY Zenon DEF UmsComplistDqcontext, DoDequeue, WaitEventInterruptible, Interrupted
<1>9. faults' \in 0 .. MaxFaults
    BY LifetimeAssumption DEF UmsComplistDqcontext, DoDequeue, WaitEventInterruptible,
       Interrupted, Fault, TypeOK
<1>10. Queued'
    BY <1>1, <1>3, <1>6, <1>8, QueuedStays, Zenon
<1> QED
    BY <1>1, <1>3, <1>4, <1>5, <1>6, <1>7, <1>8, <1>9, <1>10, ThreadPasses, Zenon

\* The process ends.
LEMMA ProcessExitsStep ==
    ASSUME IInv, ProcessExits
    PROVE  IInv'
<1> USE DEF IInv
<1>1. TypeOK'
    BY Zenon DEF ProcessExits, TypeOK, Stages
<1>2. Places' /\ Queued' /\ Stopped'
    BY Zenon DEF ProcessExits, Places, Registered, Queued, Stopped
<1> QED
    BY <1>1, <1>2, PassingSteps, Zenon DEF ProcessExits

\* Nothing happens.
LEMMA StutterStep ==
    ASSUME IInv, UNCHANGED vars
    PROVE  IInv'
<1> USE DEF IInv, vars
<1>1. TypeOK'
    BY Zenon DEF TypeOK
<1>2. Places' /\ Queued' /\ Stopped'
    BY Zenon DEF Places, Registered, Queued, Stopped
<1> QED
    BY <1>1, <1>2, PassingSteps, Zenon

-----------------------------------------------------------------------------
(* Creating and deleting lists.                                            *)

\* A context that owns a reference keeps its list alive.
LEMMA HeldIsLive ==
    ASSUME IInv, NEW l \in Lists, NEW t \in Holders(l)
    PROVE  /\ mem[l] = "live"
           /\ pc[t] \notin {"find", "get", "oops", "destroy"}
  BY Kinds, Zenon DEF IInv, Pointers, Holders, Registered

\* There are as many ids as lists, so a list that has none finds a free one.
LEMMA FreeIdExists ==
    ASSUME IInv, NEW l \in Lists, mem[l] = "none"
    PROVE  FreeId \in Ids /\ idr[FreeId] = NoList
<1>1. /\ IsFiniteSet(Lists) /\ Cardinality(Lists) \in Nat
      /\ idr \in [Ids -> Lists \cup {NoList}]
    BY LifetimeAssumption, FS_CardinalityType, Zenon DEF IInv, TypeOK
<1>2. /\ IsFiniteSet(Lists \ {l})
      /\ Cardinality(Lists \ {l}) = Cardinality(Lists) - 1
    BY <1>1, FS_RemoveElement, Zenon
<1>3. IsFiniteSet(Ids) /\ Cardinality(Ids) = Cardinality(Lists)
    BY <1>1, FS_Interval DEF Ids
<1>4. \E i \in Ids : idr[i] = NoList
  <2> SUFFICES ASSUME \A i \in Ids : idr[i] # NoList PROVE FALSE
      OBVIOUS
  <2>1. idr \in [Ids -> Lists \ {l}]
      BY <1>1, Zenon DEF IInv, IdNamesLiveList
  <2>2. \E i, j \in Ids : i # j /\ idr[i] = idr[j]
      BY <1>1, <1>2, <1>3, <2>1, FS_PigeonHole
  <2> QED
      BY <2>2, Zenon DEF IInv, IdNamesLiveList
<1>5. \E i \in Ids : idr[i] = NoList /\ \A j \in Ids : idr[j] = NoList => i <= j
  <2> DEFINE Free == {i \in Ids : idr[i] = NoList}
             Less == OpToRel(<, Nat)
  <2>1. Free \subseteq Nat /\ Free # {}
      BY <1>1, <1>4 DEF Ids
  <2>2. IsWellFoundedOn(Less, Nat)
      BY NatLessThanWellFounded
  <2>3. PICK i \in Free : \A j \in Free : ~(<<j, i>> \in Less)
    <3> HIDE DEF Less, Free
    <3> QED
        BY <2>1, <2>2, WFMin, Zenon
  <2>4. \A j \in Free : ~(j < i)
      BY <2>1, <2>3, Zenon DEF OpToRel
  <2> QED
      BY <2>1, <2>4
<1> QED
    BY <1>5 DEF FreeId

\* A list that is not alive gets another state: nobody counted it.
LEMMA CreateUmsComplistStep ==
    ASSUME IInv, CreateUmsComplist
    PROVE  IInv'
<1> USE DEF IInv
<1>1. PICK l \in Lists :
         /\ mem[l] = "none"
         /\ \/ /\ mem' = [mem EXCEPT ![l] = "new"]
               /\ idr' = [idr EXCEPT ![FreeId] = l]
               /\ found' = [found EXCEPT ![Main] = l]
               /\ Goto(Main, "create_init")
               /\ UNCHANGED <<refcount, faults>>
            \/ /\ Fault
               /\ mem' = [mem EXCEPT ![l] = "lost"]
               /\ refcount' = [refcount EXCEPT ![l] = 1]
               /\ UNCHANGED <<pc, idr, found>>
    BY Zenon DEF CreateUmsComplist
<1>2. /\ UNCHANGED <<arg, complist, schedulers, workers, queue, creator, waits,
                     unbalanced, heap, preempt_rcu, dev>>
      /\ pc[Main] = "user" /\ dev = "open"
    BY Zenon DEF CreateUmsComplist, Calls
<1>3. /\ mem \in [Lists -> {"none", "new", "lost", "live", "rcu", "freed"}]
      /\ refcount \in [Lists -> Nat \cup {Saturated}]
      /\ idr \in [Ids -> Lists \cup {NoList}]
      /\ found \in [Threads -> Lists \cup {NoList}]
      /\ pc \in [Threads -> PCs] /\ faults \in 0 .. MaxFaults
      /\ Main \in Threads /\ Main \notin Registered
      /\ creator \subseteq Lists
      /\ \A u \in Registered : u \in Threads
    BY Kinds, Zenon DEF TypeOK, Registered
<1>4. PICK i : i = FreeId
    OBVIOUS
<1>5. i \in Ids /\ idr[i] = NoList
    BY <1>1, <1>4, FreeIdExists, Zenon
<1>6. /\ \A k \in Lists : k # l => mem'[k] = mem[k] /\ refcount'[k] = refcount[k]
      /\ mem'[l] # "live"
      /\ \A k \in Lists : mem[k] = "live" => mem'[k] = "live" /\ k # l
      /\ \A k \in Lists : mem'[k] = "live" => mem[k] = "live" /\ k # l
    BY <1>1, <1>3, Zenon
<1>7. /\ \A u \in Threads : u # Main => pc'[u] = pc[u] /\ found'[u] = found[u]
      /\ pc'[Main] \in {"user", "create_init"}
    BY <1>1, <1>2, <1>3, Zenon DEF Goto
<1>8. \A j \in Ids : idr[j] # NoList => idr'[j] = idr[j]
    BY <1>1, <1>3, <1>4, <1>5, Zenon
<1>9. TypeOK'
  <2>1. CASE UNCHANGED faults /\ Goto(Main, "create_init")
    <3>1. /\ mem' \in [Lists -> {"none", "new", "lost", "live", "rcu", "freed"}]
          /\ refcount' \in [Lists -> Nat \cup {Saturated}]
          /\ idr' \in [Ids -> Lists \cup {NoList}]
          /\ found' \in [Threads -> Lists \cup {NoList}]
          /\ pc' \in [Threads -> PCs]
        BY <1>1, <1>3, <2>1, SMTT(60), Z3T(60) DEF Goto, PCs
    <3> QED
        BY <1>2, <2>1, <3>1, Zenon DEF TypeOK
  <2>2. CASE Fault /\ UNCHANGED <<pc, idr, found>>
    <3>1. /\ mem' \in [Lists -> {"none", "new", "lost", "live", "rcu", "freed"}]
          /\ refcount' \in [Lists -> Nat \cup {Saturated}]
          /\ faults' \in 0 .. MaxFaults
        BY <1>1, <1>3, <2>2, LifetimeAssumption DEF Fault
    <3> QED
        BY <1>2, <2>2, <3>1, Zenon DEF TypeOK
  <2> QED
      BY <1>1, <2>1, <2>2, Zenon
<1>10. Fresh' /\ Places' /\ Stopped'
    BY <1>2, <1>3, <1>7, Zenon DEF Fresh, Places, Stopped, Registered
<1>11. Pointers'
    BY <1>2, <1>3, <1>6, <1>7, SMTT(60), Z3T(60) DEF Pointers, Registered
<1>12. Lookups'
    BY <1>2, <1>3, <1>7, <1>8, Kinds, ZenonT(60) DEF Lookups
<1>13. Creators'
  <2>1. \A k \in creator' : mem'[k] = "live" /\ Named(k)'
      BY <1>2, <1>3, <1>6, <1>8, Kinds, SMTT(60), Z3T(60) DEF Creators, Named
  <2>2. ASSUME pc'[Main] = "create_init"
        PROVE  found'[Main] \in Lists /\ mem'[found'[Main]] = "new" /\ Named(found[Main])'
    <3>1. found'[Main] = l /\ mem'[l] = "new" /\ idr' = [idr EXCEPT ![i] = l]
        BY <1>1, <1>2, <1>3, <1>4, <2>2, Zenon
    <3>2. idr'[i] = l
        BY <1>3, <1>5, <3>1, Zenon
    <3> QED
        BY <1>5, <3>1, <3>2, Zenon DEF Named
  <2> QED
      BY <2>1, <2>2, Zenon DEF Creators
<1>14. Destroyers'
    BY <1>2, <1>3, <1>6, <1>7, SMTT(60), Z3T(60) DEF Destroyers
<1>15. RefCountExact'
  <2>1. \A k : Holders(k)' = Holders(k)
      BY <1>2, <1>3, <1>7, Zenon DEF Holders, Registered
  <2> QED
      BY <1>2, <1>6, <2>1, Zenon DEF RefCountExact
<1>16. IdNamesLiveList'
  <2>1. \A j \in Ids : idr[j] # l
      BY <1>1, Kinds, Zenon DEF IdNamesLiveList
  <2>2. \A j \in Ids : idr[j] # NoList =>
           /\ mem'[idr[j]] \in {"new", "live"}
           /\ \A k \in Ids : idr[k] = idr[j] => k = j
      BY <1>3, <1>6, <2>1, SMTT(60), Z3T(60) DEF IdNamesLiveList
  <2>3. CASE UNCHANGED idr
      BY <2>2, <2>3, Zenon DEF IdNamesLiveList
  <2>4. CASE idr' = [idr EXCEPT ![i] = l] /\ mem'[l] = "new"
    <3>1. idr'[i] = l /\ \A j \in Ids : j # i => idr'[j] = idr[j]
        BY <1>3, <1>5, <2>4, Zenon
    <3>2. ASSUME NEW j \in Ids, idr'[j] # NoList
          PROVE  /\ mem'[idr'[j]] \in {"new", "live"}
                 /\ \A k \in Ids : idr'[k] = idr'[j] => k = j
      <4>1. CASE j = i
          BY <2>1, <2>4, <3>1, <4>1, Zenon
      <4>2. CASE j # i
          BY <2>1, <2>2, <3>1, <3>2, <4>2, Zenon
      <4> QED
          BY <4>1, <4>2, Zenon
    <3> QED
        BY <3>2, Zenon DEF IdNamesLiveList
  <2>5. mem'[l] = "new" \/ UNCHANGED idr
      BY <1>1, <1>3, Zenon
  <2> QED
      BY <1>1, <1>4, <2>3, <2>4, <2>5, Zenon
<1>17. Queued'
    BY <1>2, <1>3, <1>7, SMTT(60), Z3T(60) DEF Queued, Registered
<1> QED
    BY <1>9, <1>10, <1>11, <1>12, <1>13, <1>14, <1>15, <1>16, <1>17, Zenon

\* What removing ids does to the others.
LEMMA WithoutKeeps ==
    ASSUME TypeOK, NEW gone \in SUBSET Lists
    PROVE  /\ Without(gone) \in [Ids -> Lists \cup {NoList}]
           /\ \A i \in Ids : Without(gone)[i] = IF idr[i] \in gone THEN NoList ELSE idr[i]
  BY Zenon DEF Without, TypeOK

\* A created list is counted from the moment its creator knows it; when the
\* caller cannot be told its id nobody can have found it.
LEMMA UmsComplistInitStep ==
    ASSUME IInv, UmsComplistInit
    PROVE  IInv'
<1> USE DEF IInv
<1>1. PICK l : l = found[Main]
    OBVIOUS
<1>2. /\ pc[Main] = "create_init" /\ l \in Lists /\ mem[l] = "new" /\ Named(l)
      /\ Main \in Threads /\ Main \notin Registered
      /\ \A u \in Registered : u \in Threads
    BY <1>1, Kinds, Zenon DEF UmsComplistInit, Creators, TypeOK, Registered
<1>3. /\ mem \in [Lists -> {"none", "new", "lost", "live", "rcu", "freed"}]
      /\ refcount \in [Lists -> Nat \cup {Saturated}]
      /\ idr \in [Ids -> Lists \cup {NoList}]
      /\ found \in [Threads -> Lists \cup {NoList}]
      /\ pc \in [Threads -> PCs] /\ faults \in 0 .. MaxFaults
      /\ creator \subseteq Lists
    BY Zenon DEF TypeOK
<1>4. /\ UNCHANGED <<arg, complist, schedulers, workers, queue, waits, unbalanced,
                     heap, preempt_rcu, dev>>
      /\ refcount' = [refcount EXCEPT ![l] = 1]
      /\ \/ /\ mem' = [mem EXCEPT ![l] = "live"]
            /\ creator' = creator \cup {l}
            /\ UNCHANGED <<idr, faults>>
         \/ /\ Fault
            /\ mem' = [mem EXCEPT ![l] = "freed"]
            /\ idr' = Without({l})
            /\ UNCHANGED creator
    BY <1>1, Zenon DEF UmsComplistInit
<1>5. /\ pc'[Main] = "user" /\ found'[Main] = NoList
      /\ pc' \in [Threads -> PCs] /\ found' \in [Threads -> Lists \cup {NoList}]
      /\ \A u \in Threads : u # Main => pc'[u] = pc[u] /\ found'[u] = found[u]
    BY <1>2, <1>3, Zenon DEF UmsComplistInit, Returns, Goto, PCs
<1>6. dev \in {"open", "exiting"}
    BY <1>2, InCall, Zenon
<1>7. /\ \A k \in Lists : k # l => mem'[k] = mem[k] /\ refcount'[k] = refcount[k]
      /\ \A k \in Lists : mem[k] = "live" => k # l /\ mem'[k] = "live"
      /\ refcount'[l] = 1
    BY <1>2, <1>3, <1>4, Zenon
<1>8. Without({l}) \in [Ids -> Lists \cup {NoList}]
      /\ \A i \in Ids : Without({l})[i] = IF idr[i] = l THEN NoList ELSE idr[i]
    BY <1>2, WithoutKeeps, SMTT(60), Z3T(60)
<1>9. \A i \in Ids : idr[i] # l => idr'[i] = idr[i]
    BY <1>4, <1>8, Zenon
<1>10. TypeOK'
  <2>1. /\ mem' \in [Lists -> {"none", "new", "lost", "live", "rcu", "freed"}]
        /\ refcount' \in [Lists -> Nat \cup {Saturated}]
        /\ creator' \subseteq Lists
      BY <1>2, <1>3, <1>4, Zenon
  <2>2. idr' \in [Ids -> Lists \cup {NoList}]
      BY <1>3, <1>4, <1>8, Zenon
  <2>3. faults' \in 0 .. MaxFaults
      BY <1>3, <1>4, LifetimeAssumption DEF Fault
  <2> QED
      BY <1>4, <1>5, <2>1, <2>2, <2>3, Zenon DEF TypeOK
<1>11. Fresh' /\ Places' /\ Stopped' /\ Queued'
  <2>1. Fresh' /\ Places' /\ Stopped'
      BY <1>2, <1>4, <1>5, <1>6, Zenon DEF Fresh, Places, Stopped, Registered
  <2>2. Queued'
      BY <1>2, <1>4, <1>5, SMTT(60), Z3T(60) DEF Queued, Registered
  <2> QED
      BY <2>1, <2>2
<1>12. Pointers'
    BY <1>2, <1>4, <1>5, <1>7, SMTT(60), Z3T(60) DEF Pointers, Registered
<1>13. \A k \in creator : k \in Lists /\ mem[k] = "live" /\ k # l /\ k \in creator'
    BY <1>2, <1>3, <1>4, <1>7, Zenon DEF Creators
<1>14. Lookups'
  <2> SUFFICES ASSUME NEW u \in Threads
               PROVE  /\ pc'[u] = "find" /\ arg'[u] \in Ids => idr'[arg'[u]] \in creator'
                      /\ pc'[u] = "get" => /\ arg'[u] \in Ids
                                           /\ found'[u] = idr'[arg'[u]]
                                           /\ found'[u] \in creator'
      BY Zenon DEF Lookups
  <2>1. CASE u = Main
      BY <1>5, <2>1, Zenon
  <2>2. CASE u # Main
      BY <1>4, <1>5, <1>9, <1>13, <2>2, ZenonT(60) DEF Lookups
  <2> QED
      BY <2>1, <2>2, Zenon
<1>15. Creators'
  <2>1. ASSUME NEW k \in creator' PROVE mem'[k] = "live" /\ Named(k)'
    <3>1. CASE k = l
      <4>1. mem'[l] = "live" /\ UNCHANGED idr
          BY <1>2, <1>3, <1>4, <1>13, <2>1, <3>1, Zenon
      <4> QED
          BY <1>2, <3>1, <4>1, Zenon DEF Named
    <3>2. CASE k # l
      <4>1. k \in creator /\ mem'[k] = "live"
          BY <1>4, <1>7, <1>13, <2>1, <3>2, Zenon
      <4>2. PICK i \in Ids : idr[i] = k
          BY <4>1, ZenonT(60) DEF Creators, Named
      <4> QED
          BY <1>9, <3>2, <4>1, <4>2, Zenon DEF Named
    <3> QED
        BY <3>1, <3>2, Zenon
  <2> QED
      BY <1>5, <2>1, Zenon DEF Creators
<1>16. Destroyers'
  <2>1. \A u \in Threads : pc'[u] = "destroy" <=> pc[u] = "destroy"
      BY <1>2, <1>5, Zenon
  <2>2. \A u \in Threads : pc[u] = "destroy" => found'[u] = found[u]
      BY <1>2, <1>5, Zenon
  <2>3. \A k \in Lists : mem'[k] = "live" /\ refcount'[k] = 0 => mem[k] = "live" /\ refcount[k] = 0
      BY <1>7
  <2> QED
      BY <1>7, <2>1, <2>2, <2>3, SMTT(60), Z3T(60) DEF Destroyers
<1>17. RefCountExact'
  <2>1. \A k : Holders(k)' = Holders(k)
      BY <1>2, <1>4, <1>5, Zenon DEF Holders, Registered
  <2>2. ASSUME NEW k \in Lists, mem'[k] = "live"
        PROVE  refcount'[k] = Cardinality(Holders(k)') + (IF k \in creator' THEN 1 ELSE 0)
    <3>1. CASE k # l
        BY <1>4, <1>7, <2>1, <2>2, <3>1, Zenon DEF RefCountExact
    <3>2. CASE k = l
      <4>1. Holders(l) = {}
          BY <1>2, HeldIsLive, Zenon
      <4>2. Cardinality(Holders(l)) = 0
          BY <4>1, HoldersAreThreads, Zenon
      <4>3. l \in creator'
          BY <1>2, <1>3, <1>4, <2>2, <3>2, Zenon
      <4> QED
          BY <1>7, <2>1, <3>2, <4>2, <4>3
    <3> QED
        BY <3>1, <3>2, Zenon
  <2> QED
      BY <2>2, Zenon DEF RefCountExact
<1>18. IdNamesLiveList'
  <2> SUFFICES ASSUME NEW i \in Ids, idr'[i] # NoList
               PROVE  /\ mem'[idr'[i]] \in {"new", "live"}
                      /\ \A j \in Ids : idr'[j] = idr'[i] => j = i
      BY Zenon DEF IdNamesLiveList
  <2>1. \A j \in Ids : idr'[j] = idr[j] \/ idr'[j] = NoList
      BY <1>4, <1>8, Zenon
  <2>2. idr'[i] = idr[i] /\ \A j \in Ids : idr[j] = idr[i] => j = i
      BY <2>1, Zenon DEF IdNamesLiveList
  <2>3. mem'[idr[i]] \in {"new", "live"}
    <3>1. CASE idr[i] = l
        BY <1>2, <1>3, <1>4, <1>8, <2>2, <3>1, Zenon
    <3>2. CASE idr[i] # l
        BY <1>3, <1>7, <2>2, <3>2, Zenon DEF IdNamesLiveList
    <3> QED
        BY <3>1, <3>2, Zenon
  <2> QED
      BY <2>1, <2>2, <2>3, Zenon
<1> QED
    BY <1>10, <1>11, <1>12, <1>14, <1>15, <1>16, <1>17, <1>18, Zenon

\* A list that is freed was counted by nobody.
LEMMA UmsComplistCallRcuStep ==
    ASSUME IInv, NEW l \in Lists, UmsComplistCallRcu(l)
    PROVE  IInv'
<1> USE DEF IInv
<1>1. /\ mem[l] = "rcu" /\ mem' = [mem EXCEPT ![l] = "freed"]
      /\ mem \in [Lists -> {"none", "new", "lost", "live", "rcu", "freed"}]
      /\ UNCHANGED <<pc, arg, found, complist, schedulers, workers, refcount, idr,
                     queue, creator, waits, unbalanced, heap, preempt_rcu, dev, faults>>
      /\ idr \in [Ids -> Lists \cup {NoList}] /\ creator \subseteq Lists
    BY Zenon DEF UmsComplistCallRcu, TypeOK
<1>2. \A k \in Lists : \A m \in {"new", "live"} : mem'[k] = m <=> mem[k] = m
    BY <1>1, Zenon
<1>3. TypeOK'
    BY <1>1, Zenon DEF TypeOK
<1>4. Fresh' /\ Places' /\ Lookups' /\ Queued' /\ Stopped'
    BY <1>1, Zenon DEF Fresh, Places, Lookups, Queued, Stopped, Registered
<1>5. Pointers' /\ Creators'
    BY <1>1, <1>2, SMTT(60), Z3T(60) DEF Pointers, Creators, Registered, Named
<1>6. Destroyers'
    BY <1>1, <1>2, SMTT(60), Z3T(60) DEF Destroyers
<1>7. RefCountExact'
    BY <1>1, <1>2, Zenon DEF RefCountExact, Holders
<1>8. IdNamesLiveList'
    BY <1>1, <1>2, ZenonT(60) DEF IdNamesLiveList
<1> QED
    BY <1>3, <1>4, <1>5, <1>6, <1>7, <1>8, Zenon

\* The list that is destroyed has no owner and no other destroyer.
LEMMA UmsComplistDestroyStep ==
    ASSUME IInv, NEW t \in Threads, UmsComplistDestroy(t)
    PROVE  IInv'
<1> USE DEF IInv
<1>1. PICK l : l = found[t]
    OBVIOUS
<1>2. /\ pc[t] = "destroy" /\ l \in Lists /\ mem[l] = "live" /\ refcount[l] = 0
      /\ Holders(l) = {} /\ l \notin creator
      /\ \A u \in Threads : u # t /\ pc[u] = "destroy" => found[u] # l
      /\ \A u \in Registered : u \in Threads
      /\ t \in Registered => complist[t] = NoList
  <2>1. pc[t] = "destroy" /\ l \in Lists /\ mem[l] = "live" /\ refcount[l] = 0
      BY <1>1, Zenon DEF UmsComplistDestroy, Destroyers
  <2> QED
      BY <1>1, <2>1, NoOwners, Kinds, ZenonT(60) DEF Destroyers, Pointers, TypeOK, Registered
<1>3. /\ mem \in [Lists -> {"none", "new", "lost", "live", "rcu", "freed"}]
      /\ idr \in [Ids -> Lists \cup {NoList}]
      /\ found \in [Threads -> Lists \cup {NoList}]
      /\ pc \in [Threads -> PCs] /\ waits \in [Lists -> SUBSET Threads]
      /\ creator \subseteq Lists
    BY Zenon DEF TypeOK
<1>4. /\ UNCHANGED <<arg, complist, refcount, queue, creator, unbalanced, heap, preempt_rcu,
                     dev, faults>>
      /\ schedulers' = schedulers \ {t} /\ workers' = workers \ {t}
      /\ mem' = [mem EXCEPT ![l] = "rcu"]
      /\ idr' = Without({l})
      /\ waits' = [k \in Lists |->
             IF k = l THEN {u \in Threads \ {t} : Reader(u)} ELSE waits[k] \ {t}]
    BY <1>1, Zenon DEF UmsComplistDestroy
<1>5. /\ pc'[t] = "user" /\ found'[t] = NoList
      /\ pc' \in [Threads -> PCs] /\ found' \in [Threads -> Lists \cup {NoList}]
      /\ \A u \in Threads : u # t => pc'[u] = pc[u] /\ found'[u] = found[u]
    BY <1>2, <1>3, Zenon DEF UmsComplistDestroy, Returns, Goto, PCs
<1>6. dev \in {"open", "exiting"}
    BY <1>2, InCall, Zenon
<1>7. mem'[l] = "rcu" /\ \A k \in Lists : k # l => mem'[k] = mem[k]
    BY <1>2, <1>3, <1>4, ZenonT(60)
<1>8. /\ idr' \in [Ids -> Lists \cup {NoList}]
      /\ \A i \in Ids : idr'[i] = IF idr[i] = l THEN NoList ELSE idr[i]
    BY <1>2, <1>4, WithoutKeeps, SMTT(60), Z3T(60)
<1>9. Registered' = Registered \ {t}
    BY <1>4, Zenon DEF Registered
<1>10. TypeOK'
  <2>1. mem' \in [Lists -> {"none", "new", "lost", "live", "rcu", "freed"}]
      BY <1>2, <1>3, <1>4, Zenon
  <2>2. waits' \in [Lists -> SUBSET Threads]
      BY <1>3, <1>4, Zenon
  <2> QED
      BY <1>4, <1>5, <1>8, <2>1, <2>2, Zenon DEF TypeOK
<1>11. Fresh' /\ Stopped'
    BY <1>4, <1>6, Zenon DEF Fresh, Stopped
<1>12. Places'
  <2>1. pc'[Main] \in {"user", "create_init", "destroy"}
      BY <1>5, Kinds, Zenon DEF Places
  <2>2. \A u \in Threads : pc'[u] # "user" => u # t /\ pc'[u] = pc[u]
      BY <1>5, Zenon
  <2> QED
      BY <1>4, <1>9, <2>1, <2>2, Zenon DEF Places
<1>13. Queued'
  <2> SUFFICES ASSUME NEW k \in Lists, NEW w \in queue[k]
               PROVE  /\ w \in workers' /\ complist[w] = k
                      /\ pc'[w] = "asleep" \/ (pc'[w] = "user" /\ dev = "exiting")
      BY <1>4, Zenon DEF Queued
  <2>1. /\ w \in workers /\ complist[w] = k
        /\ pc[w] = "asleep" \/ (pc[w] = "user" /\ dev = "exiting")
      BY <1>6, Zenon DEF Queued
  <2>2. w # t /\ w \in Threads
      BY <1>2, <2>1, Zenon DEF Registered
  <2> QED
      BY <1>4, <1>5, <2>1, <2>2, Zenon
<1>14. Pointers'
  <2> SUFFICES ASSUME NEW u \in Registered, u # t
               PROVE  /\ pc[u] \in {"find", "get", "oops"} => complist[u] = Wild
                      /\ pc[u] = "destroy" => complist[u] = NoList
                      /\ pc[u] \notin {"find", "get", "oops", "destroy"} =>
                            complist[u] \in Lists /\ mem'[complist[u]] = "live"
      BY <1>2, <1>4, <1>5, <1>9, SMTT(60), Z3T(60) DEF Pointers
  <2>1. pc[u] \notin {"find", "get", "oops", "destroy"} => complist[u] # l
      BY <1>2, Zenon DEF Holders, Registered
  <2> QED
      BY <1>7, <2>1, ZenonT(60) DEF Pointers
<1>15. Lookups'
  <2>1. \A i \in Ids : idr[i] \in creator => idr'[i] = idr[i]
      BY <1>2, <1>8, Zenon
  <2> QED
      BY <1>4, <1>5, <2>1, ZenonT(60) DEF Lookups
<1>16. Creators'
  <2>1. \A k : k # l /\ Named(k) /\ k \in Lists => Named(k)'
      BY <1>8, Zenon DEF Named
  <2>2. \A k \in creator : mem'[k] = "live" /\ Named(k)'
      BY <1>2, <1>3, <1>7, <2>1, Zenon DEF Creators
  <2>3. ASSUME pc'[Main] = "create_init"
        PROVE  found'[Main] \in Lists /\ mem'[found'[Main]] = "new" /\ Named(found[Main])'
    <3>1. /\ found'[Main] = found[Main] /\ found[Main] \in Lists
          /\ mem[found[Main]] = "new" /\ Named(found[Main])
        BY <1>5, <2>3, Kinds, Zenon DEF Creators
    <3>2. PICK k : k = found[Main]
        BY Zenon
    <3>3. k # l /\ Named(k)' /\ mem'[k] = "new"
        BY <1>2, <1>7, <2>1, <3>1, <3>2, Zenon
    <3> QED
        BY <3>1, <3>2, <3>3, Zenon DEF Named
  <2> QED
      BY <1>4, <2>2, <2>3, Zenon DEF Creators
<1>17. Destroyers'
  <2>1. \A u \in Threads : pc'[u] = "destroy" =>
           u # t /\ pc[u] = "destroy" /\ found'[u] = found[u] /\ found[u] # l
      BY <1>2, <1>5, Zenon
  <2>2. ASSUME NEW k \in Lists, mem'[k] = "live", refcount'[k] = 0
        PROVE  \E u \in Threads : pc'[u] = "destroy" /\ found'[u] = k
    <3>1. k # l /\ mem[k] = "live" /\ refcount[k] = 0
        BY <1>4, <1>7, <2>2, Zenon
    <3>2. PICK u \in Threads : pc[u] = "destroy" /\ found[u] = k
        BY <3>1, ZenonT(60) DEF Destroyers
    <3> QED
        BY <1>1, <1>5, <3>1, <3>2, Zenon
  <2>3. \A u \in Threads : pc'[u] = "destroy" =>
           found'[u] \in Lists /\ mem'[found'[u]] = "live" /\ refcount'[found'[u]] = 0
      BY <1>4, <1>7, <2>1, SMTT(60), Z3T(60) DEF Destroyers
  <2>4. \A u, v \in Threads :
           pc'[u] = "destroy" /\ pc'[v] = "destroy" /\ found'[u] = found'[v] => u = v
      BY <2>1, SMTT(60), Z3T(60) DEF Destroyers
  <2> QED
      BY <2>2, <2>3, <2>4, Zenon DEF Destroyers
<1>18. RefCountExact'
  <2>1. \A k \in Lists : Holders(k)' = Holders(k)
      BY <1>2, <1>4, <1>5, Kinds, SMTT(60), Z3T(60) DEF Holders, Registered
  <2> QED
      BY <1>4, <1>7, <2>1, Zenon DEF RefCountExact
<1>19. IdNamesLiveList'
  <2> SUFFICES ASSUME NEW i \in Ids, idr'[i] # NoList
               PROVE  /\ mem'[idr'[i]] \in {"new", "live"}
                      /\ \A j \in Ids : idr'[j] = idr'[i] => j = i
      BY Zenon DEF IdNamesLiveList
  <2>1. idr'[i] = idr[i] /\ idr[i] # l /\ idr[i] # NoList /\ idr[i] \in Lists
      BY <1>3, <1>8, Zenon
  <2>2. \A j \in Ids : idr'[j] = idr'[i] => idr[j] = idr[i]
      BY <1>8, <2>1, Zenon
  <2> QED
      BY <1>7, <2>1, <2>2, Zenon DEF IdNamesLiveList
<1> QED
    BY <1>10, <1>11, <1>12, <1>13, <1>14, <1>15, <1>16, <1>17, <1>18, <1>19, Zenon

-----------------------------------------------------------------------------
(* Dropping a reference.                                                   *)

\* An owner of l drops its reference: the creator, when no lookup of l is in
\* progress, or a context that is queued nowhere.  The last one destroys l.
LEMMA PutUmsComplistStep ==
    ASSUME IInv, NEW t \in Threads, NEW l \in Lists, PutUmsComplist(t, l),
           pc[t] \in Passing, dev \in {"open", "exiting"},
           UNCHANGED <<arg, mem, idr, queue, heap, preempt_rcu, dev>>,
           \/ /\ t = Main /\ l \in creator
              /\ creator' = creator \ {l} /\ UNCHANGED complist
              /\ \A u \in Threads :
                    pc[u] \in {"find", "get"} /\ arg[u] \in Ids => idr[arg[u]] # l
           \/ /\ t \in Holders(l) /\ \A k \in Lists : t \notin queue[k]
              /\ complist' = [complist EXCEPT ![t] = NoList] /\ UNCHANGED creator,
           faults' \in 0 .. MaxFaults, unbalanced' \subseteq Schedulers
    PROVE  IInv'
<1> USE DEF IInv
<1>1. /\ mem \in [Lists -> {"none", "new", "lost", "live", "rcu", "freed"}]
      /\ refcount \in [Lists -> Nat \cup {Saturated}]
      /\ idr \in [Ids -> Lists \cup {NoList}]
      /\ found \in [Threads -> Lists \cup {NoList}]
      /\ complist \in [Threads -> Lists \cup {NoList, Wild}]
      /\ pc \in [Threads -> PCs] /\ waits \in [Lists -> SUBSET Threads]
      /\ creator \subseteq Lists /\ schedulers \subseteq Schedulers /\ workers \subseteq Workers
      /\ Main \in Threads /\ Main \notin Registered
      /\ \A u \in Registered : u \in Threads
    BY Kinds, Zenon DEF TypeOK, Registered
\* The count is exact and t is one of the owners.
<1>2. /\ mem[l] = "live" /\ refcount[l] \in Nat /\ refcount[l] >= 1
      /\ refcount[l] = Cardinality(Holders(l)) + (IF l \in creator THEN 1 ELSE 0)
      /\ t # Main => t \in Registered /\ t \in Holders(l) /\ complist[t] = l
  <2>1. mem[l] = "live"
      BY HeldIsLive, Zenon DEF Creators
  <2>2. /\ Cardinality(Holders(l)) \in Nat /\ (Cardinality(Holders(l)) = 0 <=> Holders(l) = {})
        /\ refcount[l] = Cardinality(Holders(l)) + (IF l \in creator THEN 1 ELSE 0)
      BY <2>1, HoldersAreThreads, Zenon DEF RefCountExact
  <2>3. Holders(l) # {} \/ l \in creator
      BY Zenon
  <2> QED
      BY <2>1, <2>2, <2>3, SMTT(60), Z3T(60) DEF Holders, Registered
<1>3. /\ refcount' \in [Lists -> Nat \cup {Saturated}]
      /\ refcount'[l] = refcount[l] - 1
      /\ \A k \in Lists : k # l => refcount'[k] = refcount[k]
    BY <1>1, <1>2, SMTT(60), Z3T(60) DEF PutUmsComplist, Dropped
<1>4. /\ pc' \in [Threads -> PCs] /\ found' \in [Threads -> Lists \cup {NoList}]
      /\ waits' \in [Lists -> SUBSET Threads]
      /\ \A u \in Threads : u # t => pc'[u] = pc[u] /\ found'[u] = found[u]
    BY <1>1, SMTT(60), Z3T(60) DEF PutUmsComplist, Goto, Returns, Quiesces, PCs
<1>5. \/ /\ refcount[l] = 1
         /\ pc'[t] = "destroy" /\ found'[t] = l /\ UNCHANGED <<schedulers, workers>>
      \/ /\ refcount[l] # 1
         /\ pc'[t] = "user" /\ schedulers' = schedulers \ {t} /\ workers' = workers \ {t}
    BY <1>1, Zenon DEF PutUmsComplist, Goto, Returns
<1>6. /\ complist' \in [Threads -> Lists \cup {NoList, Wild}]
      /\ \A u \in Threads : u # t => complist'[u] = complist[u]
      /\ t # Main => complist'[t] = NoList
      /\ creator' \subseteq creator /\ \A k \in creator : k # l => k \in creator'
    BY <1>1, <1>2, Zenon
<1>7. /\ Registered' \subseteq Registered
      /\ \A u \in Registered : u # t => u \in Registered'
      /\ \A u \in schedulers : u # t => u \in schedulers'
      /\ \A u \in workers : u # t => u \in workers'
      /\ schedulers' \subseteq schedulers /\ workers' \subseteq workers
    BY <1>5, Zenon DEF Registered
<1>8. TypeOK'
    BY <1>1, <1>3, <1>4, <1>6, <1>7, Zenon DEF TypeOK
<1>9. Fresh' /\ Stopped'
    BY Zenon DEF Fresh, Stopped
<1>10. Places'
  <2>1. \A u \in Threads : pc'[u] \notin {"user", "destroy"} => u # t /\ pc'[u] = pc[u]
      BY <1>4, <1>5, Zenon
  <2>2. pc'[Main] \in {"user", "create_init", "destroy"}
      BY <1>1, <1>4, <1>5, Zenon DEF Places
  <2> QED
      BY <1>7, <2>1, <2>2, Zenon DEF Places
<1>11. Pointers'
  <2> SUFFICES ASSUME NEW u \in Registered'
               PROVE  /\ pc'[u] \in {"find", "get", "oops"} => complist'[u] = Wild
                      /\ pc'[u] = "destroy" => complist'[u] = NoList
                      /\ pc'[u] \notin {"find", "get", "oops", "destroy"} =>
                            complist'[u] \in Lists /\ mem'[complist'[u]] = "live"
      BY Zenon DEF Pointers
  <2>1. CASE u = t
    <3>1. t # Main /\ pc'[t] = "destroy"
        BY <1>1, <1>5, <1>7, <2>1, Zenon DEF Registered
    <3> QED
        BY <1>6, <2>1, <3>1, Zenon
  <2>2. CASE u # t
      BY <1>1, <1>4, <1>6, <1>7, <2>2, Zenon DEF Pointers
  <2> QED
      BY <2>1, <2>2, Zenon
<1>12. Lookups'
  <2> SUFFICES ASSUME NEW u \in Threads, pc'[u] \in {"find", "get"}
               PROVE  /\ pc'[u] = "find" /\ arg[u] \in Ids => idr[arg[u]] \in creator'
                      /\ pc'[u] = "get" => /\ arg[u] \in Ids
                                           /\ found'[u] = idr[arg[u]]
                                           /\ found'[u] \in creator'
      BY Zenon DEF Lookups
  <2>1. u # t /\ pc'[u] = pc[u] /\ found'[u] = found[u]
      BY <1>4, <1>5, Zenon
  <2>2. arg[u] \in Ids /\ idr[arg[u]] \in creator => idr[arg[u]] \in creator'
      BY <1>6, <2>1, Zenon
  <2> QED
      BY <2>1, <2>2, Zenon DEF Lookups
<1>13. Creators'
  <2>1. \A k : Named(k)' <=> Named(k)
      BY Zenon DEF Named
  <2>2. \A k \in creator' : mem'[k] = "live" /\ Named(k)'
      BY <1>6, <2>1, Zenon DEF Creators
  <2>3. ASSUME pc'[Main] = "create_init"
        PROVE  found'[Main] \in Lists /\ mem'[found'[Main]] = "new" /\ Named(found[Main])'
    <3>1. Main # t /\ pc[Main] = "create_init" /\ found'[Main] = found[Main]
        BY <1>1, <1>4, <1>5, <2>3, Zenon
    <3> QED
        BY <3>1, Zenon DEF Creators, Named
  <2> QED
      BY <2>2, <2>3, Zenon DEF Creators
<1>14. Destroyers'
  <2>1. \A u \in Threads : u # t /\ pc'[u] = "destroy" =>
           /\ pc[u] = "destroy" /\ found'[u] = found[u]
           /\ found[u] \in Lists /\ mem[found[u]] = "live" /\ refcount[found[u]] = 0
           /\ found[u] # l
      BY <1>2, <1>4, SMTT(60), Z3T(60) DEF Destroyers
  <2>2. pc'[t] = "destroy" => found'[t] = l /\ refcount'[l] = 0
      BY <1>2, <1>3, <1>5, SMTT(60), Z3T(60)
  <2>3. \A u \in Threads : pc'[u] = "destroy" =>
           found'[u] \in Lists /\ mem'[found'[u]] = "live" /\ refcount'[found'[u]] = 0
      BY <1>2, <1>3, <2>1, <2>2, SMTT(60), Z3T(60)
  <2>4. \A u, v \in Threads :
           pc'[u] = "destroy" /\ pc'[v] = "destroy" /\ found'[u] = found'[v] => u = v
      BY <2>1, <2>2, SMTT(60), Z3T(60) DEF Destroyers
  <2>5. ASSUME NEW k \in Lists, mem'[k] = "live", refcount'[k] = 0
        PROVE  \E u \in Threads : pc'[u] = "destroy" /\ found'[u] = k
    <3>1. CASE k = l
        BY <1>2, <1>3, <1>5, <2>5, <3>1, SMTT(60), Z3T(60)
    <3>2. CASE k # l
      <4>1. PICK u \in Threads : pc[u] = "destroy" /\ found[u] = k
          BY <1>3, <2>5, <3>2, Zenon DEF Destroyers
      <4>2. u # t
          BY <4>1, Zenon DEF Passing
      <4> QED
          BY <1>4, <4>1, <4>2, Zenon
    <3> QED
        BY <3>1, <3>2, ZenonT(60)
  <2> QED
      BY <2>3, <2>4, <2>5, ZenonT(60) DEF Destroyers
<1>15. RefCountExact'
  <2>1. \A k \in Lists : k # l => Holders(k)' = Holders(k)
    <3> SUFFICES ASSUME NEW k \in Lists, k # l, NEW u
                 PROVE  u \in Holders(k)' <=> u \in Holders(k)
        BY Zenon
    <3>1. CASE u = t
        BY <1>1, <1>2, <1>6, <1>7, <3>1, Kinds, ZenonT(60) DEF Holders, Registered
    <3>2. CASE u # t
      <4>1. u \in Holders(k) => u \in Threads
          BY HoldersAreThreads, Zenon
      <4>2. u \in Holders(k)' => u \in Threads
          BY <1>1, <1>7, Zenon DEF Holders, Registered
      <4> QED
          BY <1>4, <1>6, <1>7, <3>2, <4>1, <4>2, Zenon DEF Holders
    <3> QED
        BY <3>1, <3>2, Zenon
  <2>2. Holders(l)' = Holders(l) \ {t}
    <3> SUFFICES ASSUME NEW u
                 PROVE  u \in Holders(l)' <=> u \in Holders(l) /\ u # t
        BY Zenon
    <3>1. CASE u = t
        BY <1>1, <1>6, <1>7, <3>1, Kinds, ZenonT(60) DEF Holders, Registered
    <3>2. CASE u # t
      <4>1. u \in Holders(l) => u \in Threads
          BY HoldersAreThreads, Zenon
      <4>2. u \in Holders(l)' => u \in Threads
          BY <1>1, <1>7, Zenon DEF Holders, Registered
      <4> QED
          BY <1>4, <1>6, <1>7, <3>2, <4>1, <4>2, Zenon DEF Holders
    <3> QED
        BY <3>1, <3>2, Zenon
  <2>3. /\ Cardinality(Holders(l)) \in Nat
        /\ Cardinality(Holders(l) \ {t}) =
              IF t \in Holders(l) THEN Cardinality(Holders(l)) - 1 ELSE Cardinality(Holders(l))
      BY HoldersAreThreads, FS_RemoveElement, Zenon
  <2>4. Main \notin Holders(l)
      BY <1>1, HoldersAreThreads, Zenon
  <2>5. refcount'[l] = Cardinality(Holders(l)') + (IF l \in creator' THEN 1 ELSE 0)
    <3>1. CASE t = Main
      <4>1. l \in creator /\ l \notin creator'
          BY <2>4, <3>1, Zenon
      <4> QED
          BY <1>2, <1>3, <2>2, <2>3, <2>4, <3>1, <4>1, SMTT(60), Z3T(60)
    <3>2. CASE t # Main
      <4>1. UNCHANGED creator /\ t \in Holders(l)
          BY <1>2, <3>2, Zenon
      <4> QED
          BY <1>2, <1>3, <2>2, <2>3, <3>2, <4>1, SMTT(60), Z3T(60)
    <3> QED
        BY <3>1, <3>2, Zenon
  <2>6. \A k \in Lists : k # l => (k \in creator' <=> k \in creator)
      BY <1>6, Zenon
  <2>7. ASSUME NEW k \in Lists, mem'[k] = "live"
        PROVE  refcount'[k] = Cardinality(Holders(k)') + (IF k \in creator' THEN 1 ELSE 0)
    <3>1. CASE k = l
        BY <2>5, <3>1, Zenon
    <3>2. CASE k # l
        BY <1>3, <2>1, <2>6, <2>7, <3>2, Zenon DEF RefCountExact
    <3> QED
        BY <3>1, <3>2, Zenon
  <2> QED
      BY <2>7, Zenon DEF RefCountExact
<1>16. IdNamesLiveList'
    BY Zenon DEF IdNamesLiveList
<1>17. Queued'
  <2> SUFFICES ASSUME NEW k \in Lists, NEW w \in queue[k]
               PROVE  /\ w \in workers' /\ complist'[w] = k
                      /\ pc'[w] = "asleep" \/ (pc'[w] = "user" /\ dev = "exiting")
      BY ZenonT(60) DEF Queued
  <2>1. /\ w \in workers /\ complist[w] = k
        /\ pc[w] = "asleep" \/ (pc[w] = "user" /\ dev = "exiting")
      BY Zenon DEF Queued
  <2>2. w # t /\ w \in Threads
      BY <1>1, <2>1, SMTT(60), Z3T(60) DEF Registered
  <2> QED
      BY <1>4, <1>6, <1>7, <2>1, <2>2, Zenon
<1> QED
    BY <1>8, <1>9, <1>10, <1>11, <1>12, <1>13, <1>14, <1>15, <1>16, <1>17, Zenon

\* The creator deletes its list.
LEMMA UmsComplistDeleteStep ==
    ASSUME RacingDelete = FALSE, IInv, UmsComplistDelete, DeletesAlone
    PROVE  IInv'
<1> USE DEF IInv
<1>1. PICK i \in Known :
         /\ PutUmsComplist(Main, idr[i])
         /\ creator' = creator \ {idr[i]}
    BY Zenon DEF UmsComplistDelete
<1>2. PICK l : l = idr[i]
    BY Zenon
<1>3. /\ l \in Lists /\ l \in creator /\ PutUmsComplist(Main, l) /\ creator' = creator \ {l}
      /\ Main \in Threads /\ pc[Main] \in Passing /\ dev = "open"
      /\ UNCHANGED <<arg, complist, mem, idr, queue, unbalanced, heap, preempt_rcu, dev, faults>>
    BY <1>1, <1>2, Kinds, Zenon DEF UmsComplistDelete, Known, Calls, Passing, TypeOK
<1>4. \A u \in Threads : pc[u] \in {"find", "get"} /\ arg[u] \in Ids => idr[arg[u]] # l
    BY <1>3, Zenon DEF DeletesAlone
<1>5. faults' \in 0 .. MaxFaults /\ unbalanced' \subseteq Schedulers
    BY <1>3, Zenon DEF TypeOK
<1> QED
    BY <1>3, <1>4, <1>5, PutUmsComplistStep, Zenon

\* A worker ends, and its context goes.
LEMMA UmsWorkerEndStep ==
    ASSUME StaleHeap = FALSE, IInv, NEW w \in Threads, UmsWorkerEnd(w)
    PROVE  IInv'
<1> USE DEF IInv
<1>1. PICK l : l = complist[w]
    BY Zenon
<1>2. /\ w \in workers /\ pc[w] = "user" /\ dev = "open"
      /\ l \in Lists /\ w \in Holders(l) /\ PutUmsComplist(w, l)
    BY <1>1, Zenon DEF UmsWorkerEnd, Calls, Pointers, Registered, Holders
<1>3. \A k \in Lists : w \notin queue[k]
    BY <1>2, Zenon DEF Queued
<1>4. /\ UNCHANGED <<arg, mem, idr, queue, creator, unbalanced, preempt_rcu, dev, faults, heap>>
      /\ complist' = [complist EXCEPT ![w] = NoList]
      /\ pc[w] \in Passing /\ faults' \in 0 .. MaxFaults /\ unbalanced' \subseteq Schedulers
    BY <1>2, Zenon DEF UmsWorkerEnd, Leaves, Passing, TypeOK
<1> QED
    BY <1>2, <1>3, <1>4, PutUmsComplistStep, Zenon

\* A scheduler gets its startup event, or its context goes.
LEMMA StartupEventStep ==
    ASSUME StaleHeap = FALSE, IInv, NEW s \in Threads, StartupEvent(s)
    PROVE  IInv'
<1> USE DEF IInv
<1>1. PICK l : l = complist[s]
    OBVIOUS
<1>2. /\ s \in schedulers /\ s \in Schedulers /\ s \notin workers
      /\ pc[s] = "event" /\ pc[s] \in Passing /\ dev \in {"open", "exiting"}
      /\ l \in Lists /\ s \in Holders(l)
    BY <1>1, InCall, Kinds, Zenon DEF StartupEvent, Places, Pointers, Registered, Holders,
       TypeOK, Passing
<1>3. \A k \in Lists : s \notin queue[k]
    BY <1>2, Zenon DEF Queued
<1>4. UNCHANGED <<arg, mem, idr, queue, creator, preempt_rcu, dev>>
    BY Zenon DEF StartupEvent
<1>5. CASE /\ Goto(s, "user")
           /\ UNCHANGED <<found, complist, schedulers, workers, refcount, waits,
                          heap, unbalanced, faults>>
  <2>1. Queued'
      BY <1>2, <1>4, <1>5, QueuedStays, Zenon DEF TypeOK
  <2>2. "user" \in Passing
      BY DEF Passing
  <2> QED
      BY <1>2, <1>4, <1>5, <2>1, <2>2, ThreadPasses, Zenon DEF TypeOK
<1>6. CASE /\ Fault
           /\ unbalanced' = unbalanced \cup {s}
           /\ complist' = [complist EXCEPT ![s] = NoList]
           /\ PutUmsComplist(s, l)
           /\ Leaves(l)
  <2>1. faults' \in 0 .. MaxFaults /\ unbalanced' \subseteq Schedulers /\ UNCHANGED heap
      BY <1>2, <1>6, LifetimeAssumption, SMTT(60), Z3T(60) DEF Fault, Leaves, TypeOK
  <2> QED
      BY <1>2, <1>3, <1>4, <1>6, <2>1, PutUmsComplistStep, Zenon
<1> QED
    BY <1>1, <1>5, <1>6, Zenon DEF StartupEvent

-----------------------------------------------------------------------------
(* Entering UMS mode.                                                      *)

\* The lookup of a thread begins, goes on or fails: no reference is taken yet.
\* A context that looks its list up owns nothing.
LEMMA LookupSteps ==
    ASSUME IInv, TypeOK', NEW t \in Threads, t # Main,
           pc'[t] \in {"find", "get", "oops"}, t \in Registered', complist'[t] = Wild,
           t \in Registered => pc[t] = "find",
           pc[t] \in {"user", "find"},
           \A u \in Threads : u # t => pc'[u] = pc[u] /\ found'[u] = found[u]
                                       /\ arg'[u] = arg[u] /\ complist'[u] = complist[u],
           schedulers \subseteq schedulers', schedulers' \subseteq schedulers \cup {t},
           workers \subseteq workers', workers' \subseteq workers \cup {t},
           UNCHANGED <<mem, refcount, idr, queue, creator, heap, dev>>,
           dev \in {"open", "exiting"},
           pc'[t] = "find" /\ arg'[t] \in Ids => idr[arg'[t]] \in creator,
           pc'[t] = "get" => /\ arg'[t] \in Ids
                             /\ found'[t] = idr[arg'[t]] /\ found'[t] \in creator
    PROVE  IInv'
<1> USE DEF IInv
<1>1. /\ Main \in Threads /\ \A u \in Registered' : u \in Threads
      /\ Registered \subseteq Registered' /\ Registered' \subseteq Registered \cup {t}
      /\ \A l \in Lists : l # Wild /\ l # NoList
    BY Kinds, SMTT(60), Z3T(60) DEF TypeOK, Registered
<1>2. Fresh' /\ Stopped' /\ IdNamesLiveList'
    BY ZenonT(60) DEF Fresh, Stopped, IdNamesLiveList
<1>3. Places'
  <2>1. pc'[Main] = pc[Main]
      BY <1>1, Zenon
  <2> QED
      BY <1>1, <2>1, Zenon DEF Places
<1>4. Pointers'
    BY <1>1, ZenonT(60) DEF Pointers
<1>5. Lookups'
    BY Zenon DEF Lookups
<1>6. Creators'
  <2>1. pc'[Main] = pc[Main] /\ found'[Main] = found[Main]
      BY <1>1, Zenon
  <2> QED
      BY <2>1, ZenonT(60) DEF Creators, Named
<1>7. Destroyers'
  <2>1. \A u \in Threads : /\ pc'[u] = "destroy" <=> pc[u] = "destroy"
                           /\ pc[u] = "destroy" => found'[u] = found[u]
      BY Zenon
  <2> QED
      BY <2>1, SMTT(60), Z3T(60) DEF Destroyers
<1>8. RefCountExact'
  <2>1. ASSUME NEW l \in Lists PROVE Holders(l)' = Holders(l)
    <3> SUFFICES ASSUME NEW u PROVE u \in Holders(l)' <=> u \in Holders(l)
        BY Zenon
    <3>1. CASE u = t
        BY <1>1, <3>1, Zenon DEF Holders, Registered
    <3>2. CASE u # t
      <4>1. u \in Holders(l) => u \in Threads
          BY HoldersAreThreads, Zenon
      <4>2. u \in Holders(l)' => u \in Threads
          BY <1>1, Zenon DEF Holders, Registered
      <4> QED
          BY <3>2, <4>1, <4>2, Zenon DEF Holders
    <3> QED
        BY <3>1, <3>2, Zenon
  <2> QED
      BY <2>1, Zenon DEF RefCountExact
<1>9. Queued'
  <2> SUFFICES ASSUME NEW k \in Lists, NEW w \in queue[k]
               PROVE  /\ w \in workers' /\ complist'[w] = k
                      /\ pc'[w] = "asleep" \/ (pc'[w] = "user" /\ dev = "exiting")
      BY SMTT(60), Z3T(60) DEF Queued
  <2>1. /\ w \in workers /\ complist[w] = k
        /\ pc[w] = "asleep" \/ (pc[w] = "user" /\ dev = "exiting")
      BY Zenon DEF Queued
  <2>2. w \in Threads /\ w # t
      BY <1>1, <2>1, Zenon DEF Registered
  <2> QED
      BY <2>1, <2>2, Zenon
<1> QED
    BY <1>2, <1>3, <1>4, <1>5, <1>6, <1>7, <1>8, <1>9, Zenon

\* A context is registered, or cannot be.
LEMMA EnterUmsModeStep ==
    ASSUME IInv, NEW t \in Threads, EnterUmsMode(t)
    PROVE  IInv'
<1> USE DEF IInv
<1>1. /\ arg \in [Threads -> Ids \cup {NoId}] /\ pc \in [Threads -> PCs]
      /\ complist \in [Threads -> Lists \cup {NoList, Wild}]
      /\ schedulers \subseteq Schedulers /\ workers \subseteq Workers
      /\ heap = {} /\ pc[t] = "user" /\ dev = "open"
      /\ UNCHANGED <<found, mem, refcount, idr, queue, creator, waits, unbalanced, heap,
                     preempt_rcu, dev>>
    BY Zenon DEF EnterUmsMode, Calls, TypeOK, Fresh
<1>2. CASE /\ Fault
           /\ UNCHANGED <<pc, arg, complist, schedulers, workers>>
  <2>1. TypeOK'
    <3>1. faults' \in 0 .. MaxFaults
        BY <1>2, LifetimeAssumption, SMTT(60), Z3T(60) DEF Fault, TypeOK
    <3> QED
        BY <1>1, <1>2, <3>1, Zenon DEF TypeOK
  <2>2. Places' /\ Queued' /\ Stopped'
      BY <1>1, <1>2, Zenon DEF Places, Registered, Queued, Stopped
  <2> QED
      BY <1>1, <1>2, <2>1, <2>2, PassingSteps, Zenon
<1>3. ASSUME NEW i \in Known \cup {NoId}, arg' = [arg EXCEPT ![t] = i],
             UmsSchedulerCreate(t) \/ UmsWorkerCreate(t), Goto(t, "find"), UNCHANGED faults
      PROVE  IInv'
  <2>1. i \in Ids \cup {NoId} /\ (i \in Ids => idr[i] \in creator)
      BY SMTT(60), Z3T(60) DEF Known, Ids, NoId
  <2>2. /\ arg' \in [Threads -> Ids \cup {NoId}] /\ arg'[t] = i
        /\ \A u \in Threads : u # t => arg'[u] = arg[u]
      BY <1>1, <1>3, <2>1, Zenon
  <2>3. complist' = [complist EXCEPT ![t] = Wild]
      BY <1>1, <1>3, Zenon DEF UmsSchedulerCreate, UmsWorkerCreate, Unassigned
  <2>4. /\ complist' \in [Threads -> Lists \cup {NoList, Wild}] /\ complist'[t] = Wild
        /\ \A u \in Threads : u # t => complist'[u] = complist[u]
      BY <1>1, <2>3, Zenon
  <2>5. /\ pc' \in [Threads -> PCs] /\ pc'[t] = "find"
        /\ \A u \in Threads : u # t => pc'[u] = pc[u]
      BY <1>1, <1>3, Zenon DEF Goto, PCs
  <2>6. /\ schedulers' \subseteq Schedulers /\ workers' \subseteq Workers
        /\ schedulers \subseteq schedulers' /\ schedulers' \subseteq schedulers \cup {t}
        /\ workers \subseteq workers' /\ workers' \subseteq workers \cup {t}
        /\ t \notin Registered /\ t \in Registered' /\ t # Main
      BY <1>1, <1>3, Kinds, Zenon DEF UmsSchedulerCreate, UmsWorkerCreate, Registered
  <2>7. TypeOK'
      BY <1>1, <1>3, <2>2, <2>4, <2>5, <2>6, Zenon DEF TypeOK
  <2> QED
      BY <1>1, <2>1, <2>2, <2>4, <2>5, <2>6, <2>7, LookupSteps, Zenon
<1> QED
    BY <1>2, <1>3, Zenon DEF EnterUmsMode

\* The lookup finds a list whose creator still holds it.  When the id names
\* none, the unassigned pointer of the context is followed.
LEMMA ComplistFindStep ==
    ASSUME IInv, NEW t \in Threads, ComplistFind(t)
    PROVE  IInv'
<1> USE DEF IInv
<1>1. /\ arg \in [Threads -> Ids \cup {NoId}] /\ pc \in [Threads -> PCs]
      /\ found \in [Threads -> Lists \cup {NoList}]
      /\ idr \in [Ids -> Lists \cup {NoList}]
      /\ creator \subseteq Lists
      /\ pc[t] = "find" /\ t \in Registered /\ complist[t] = Wild /\ t # Main
      /\ arg[t] \in Ids => idr[arg[t]] \in creator
      /\ dev \in {"open", "exiting"}
      /\ UNCHANGED <<mem, idr, queue, creator, unbalanced, heap, preempt_rcu, dev, faults>>
    BY InCall, Kinds, Zenon DEF ComplistFind, TypeOK, Places, Pointers, Lookups, Registered
<1>2. CASE /\ arg[t] \in Ids
           /\ found' = [found EXCEPT ![t] = idr[arg[t]]]
           /\ Goto(t, "get")
           /\ UNCHANGED <<arg, complist, schedulers, workers, refcount, waits>>
  <2>1. /\ pc' \in [Threads -> PCs] /\ pc'[t] = "get"
        /\ found' \in [Threads -> Lists \cup {NoList}] /\ found'[t] = idr[arg[t]]
        /\ \A u \in Threads : u # t => pc'[u] = pc[u] /\ found'[u] = found[u]
      BY <1>1, <1>2, Zenon DEF Goto, PCs
  <2>2. TypeOK' /\ t \in Registered'
      BY <1>1, <1>2, <2>1, Zenon DEF TypeOK, Registered
  <2> QED
      BY <1>1, <1>2, <2>1, <2>2, LookupSteps, Zenon
<1>3. CASE /\ arg[t] \notin Ids
           /\ arg' = [arg EXCEPT ![t] = NoId]
           /\ Goto(t, "oops")
           /\ UNCHANGED <<found, complist, schedulers, workers, refcount, waits>>
  <2>1. /\ pc' \in [Threads -> PCs] /\ pc'[t] = "oops"
        /\ arg' \in [Threads -> Ids \cup {NoId}]
        /\ \A u \in Threads : u # t => pc'[u] = pc[u] /\ arg'[u] = arg[u]
      BY <1>1, <1>3, Zenon DEF Goto, PCs
  <2>2. TypeOK' /\ t \in Registered'
      BY <1>1, <1>3, <2>1, Zenon DEF TypeOK, Registered
  <2> QED
      BY <1>1, <1>3, <2>1, <2>2, LookupSteps, Zenon
<1> QED
    BY <1>1, <1>2, <1>3, Kinds, Zenon DEF ComplistFind

\* The context takes its reference to a list that its creator still holds.
LEMMA GetUmsComplistStep ==
    ASSUME IInv, NEW t \in Threads, GetUmsComplist(t)
    PROVE  IInv'
<1> USE DEF IInv
<1>1. PICK l, p : l = found[t] /\ p = IF t \in Schedulers THEN "event" ELSE "add"
    OBVIOUS
<1>2. /\ arg \in [Threads -> Ids \cup {NoId}] /\ pc \in [Threads -> PCs]
      /\ found \in [Threads -> Lists \cup {NoList}]
      /\ complist \in [Threads -> Lists \cup {NoList, Wild}]
      /\ refcount \in [Lists -> Nat \cup {Saturated}]
      /\ waits \in [Lists -> SUBSET Threads]
      /\ Main \in Threads /\ \A u \in Registered : u \in Threads
    BY Kinds, Zenon DEF TypeOK, Registered
<1>3. /\ pc[t] = "get" /\ t \in Registered /\ complist[t] = Wild /\ t # Main
      /\ l \in creator /\ l \in Lists /\ mem[l] = "live"
      /\ dev \in {"open", "exiting"}
      /\ t \in Schedulers => t \in schedulers
      /\ t \notin Schedulers => t \in workers
    BY <1>1, InCall, Kinds, Zenon DEF GetUmsComplist, TypeOK, Places, Pointers, Lookups,
       Creators, Registered
<1>4. UNCHANGED <<schedulers, workers, mem, idr, queue, creator, unbalanced, heap, preempt_rcu,
                  dev, faults>>
    BY Zenon DEF GetUmsComplist
<1>5. /\ refcount[l] = Cardinality(Holders(l)) + 1 /\ Cardinality(Holders(l)) \in Nat
      /\ IsFiniteSet(Holders(l)) /\ t \notin Holders(l)
    BY <1>3, HoldersAreThreads, Zenon DEF RefCountExact, Holders
<1>6. /\ refcount' \in [Lists -> Nat \cup {Saturated}]
      /\ refcount'[l] = refcount[l] + 1
      /\ \A k \in Lists : k # l => refcount'[k] = refcount[k]
    BY <1>1, <1>2, <1>3, <1>5, SMTT(60), Z3T(60) DEF GetUmsComplist, Get
<1>7. /\ pc' \in [Threads -> PCs] /\ pc'[t] = p /\ p \in {"event", "add"}
      /\ found' \in [Threads -> Lists \cup {NoList}]
      /\ arg' \in [Threads -> Ids \cup {NoId}]
      /\ complist' \in [Threads -> Lists \cup {NoList, Wild}] /\ complist'[t] = l
      /\ waits' \in [Lists -> SUBSET Threads]
      /\ \A u \in Threads : u # t => pc'[u] = pc[u] /\ found'[u] = found[u]
                                     /\ arg'[u] = arg[u] /\ complist'[u] = complist[u]
    BY <1>1, <1>2, <1>3, Zenon DEF GetUmsComplist, Goto, Quiesces, PCs
<1>8. TypeOK'
    BY <1>4, <1>6, <1>7, Zenon DEF TypeOK
<1>9. Fresh' /\ Stopped' /\ IdNamesLiveList'
    BY <1>3, <1>4, Zenon DEF Fresh, Stopped, IdNamesLiveList
<1>10. Places'
  <2>1. pc'[Main] = pc[Main]
      BY <1>2, <1>3, <1>7, Zenon
  <2> QED
      BY <1>1, <1>3, <1>4, <1>7, <2>1, Zenon DEF Places, Registered
<1>11. Pointers'
    BY <1>2, <1>3, <1>4, <1>7, SMTT(60), Z3T(60) DEF Pointers, Registered
<1>12. Lookups'
    BY <1>4, <1>7, ZenonT(60) DEF Lookups
<1>13. Creators'
  <2>1. pc'[Main] = pc[Main] /\ found'[Main] = found[Main]
      BY <1>2, <1>3, <1>7, Zenon
  <2> QED
      BY <1>4, <2>1, Zenon DEF Creators, Named
<1>14. Destroyers'
  <2>1. \A u \in Threads : /\ pc'[u] = "destroy" <=> pc[u] = "destroy"
                           /\ pc[u] = "destroy" => found'[u] = found[u] /\ found[u] # l
      BY <1>3, <1>5, <1>7, SMTT(60), Z3T(60) DEF Destroyers
  <2>2. refcount'[l] # 0
      BY <1>5, <1>6, SMTT(60), Z3T(60)
  <2>3. ASSUME NEW u \in Threads, pc'[u] = "destroy"
        PROVE  found'[u] \in Lists /\ mem'[found'[u]] = "live" /\ refcount'[found'[u]] = 0
    <3>1. /\ found'[u] = found[u] /\ found[u] # l /\ found[u] \in Lists
          /\ mem[found[u]] = "live" /\ refcount[found[u]] = 0
        BY <2>1, <2>3, Zenon DEF Destroyers
    <3> QED
        BY <1>4, <1>6, <3>1, Zenon
  <2>4. \A u, v \in Threads :
           pc'[u] = "destroy" /\ pc'[v] = "destroy" /\ found'[u] = found'[v] => u = v
      BY <2>1, SMTT(60), Z3T(60) DEF Destroyers
  <2>5. ASSUME NEW k \in Lists, mem'[k] = "live", refcount'[k] = 0
        PROVE  \E u \in Threads : pc'[u] = "destroy" /\ found'[u] = k
    <3>1. mem[k] = "live" /\ refcount[k] = 0
        BY <1>4, <1>6, <2>2, <2>5, Zenon
    <3>2. PICK u \in Threads : pc[u] = "destroy" /\ found[u] = k
        BY <3>1, Zenon DEF Destroyers
    <3> QED
        BY <2>1, <3>2, Zenon
  <2> QED
      BY <2>3, <2>4, <2>5, Zenon DEF Destroyers
<1>15. RefCountExact'
  <2>1. ASSUME NEW k \in Lists, NEW u
        PROVE  u \in Holders(k)' <=> u \in Holders(k) \/ (u = t /\ k = l)
    <3>1. CASE u = t
        BY <1>3, <1>4, <1>7, <3>1, Kinds, Zenon DEF Holders, Registered
    <3>2. CASE u # t
        BY <1>2, <1>4, <1>7, <3>2, Zenon DEF Holders, Registered
    <3> QED
        BY <3>1, <3>2, Zenon
  <2>2. Holders(l)' = Holders(l) \cup {t}
      BY <1>3, <2>1, Zenon
  <2>3. \A k \in Lists : k # l => Holders(k)' = Holders(k)
      BY <2>1, Zenon
  <2>4. Cardinality(Holders(l) \cup {t}) = Cardinality(Holders(l)) + 1
      BY <1>5, FS_AddElement, Zenon
  <2>5. ASSUME NEW k \in Lists, mem'[k] = "live"
        PROVE  refcount'[k] = Cardinality(Holders(k)') + (IF k \in creator' THEN 1 ELSE 0)
    <3>1. CASE k = l
        BY <1>3, <1>4, <1>5, <1>6, <2>2, <2>4, <3>1, Zenon
    <3>2. CASE k # l
        BY <1>4, <1>6, <2>3, <2>5, <3>2, Zenon DEF RefCountExact
    <3> QED
        BY <3>1, <3>2, Zenon
  <2> QED
      BY <2>5, Zenon DEF RefCountExact
<1>16. Queued'
  <2> SUFFICES ASSUME NEW k \in Lists, NEW w \in queue[k]
               PROVE  /\ w \in workers /\ complist'[w] = k
                      /\ pc'[w] = "asleep" \/ (pc'[w] = "user" /\ dev = "exiting")
      BY <1>4, Zenon DEF Queued
  <2>1. /\ w \in workers /\ complist[w] = k
        /\ pc[w] = "asleep" \/ (pc[w] = "user" /\ dev = "exiting")
      BY <1>3, Zenon DEF Queued
  <2>2. w \in Threads /\ w # t
      BY <1>2, <1>3, <2>1, Zenon DEF Registered
  <2> QED
      BY <1>7, <2>1, <2>2, Zenon
<1> QED
    BY <1>8, <1>9, <1>10, <1>11, <1>12, <1>13, <1>14, <1>15, <1>16, Zenon

-----------------------------------------------------------------------------
(* Releasing the device.                                                   *)

\* The contexts C are destroyed and the contexts R stay: every list loses the
\* references of the one and keeps those of the other.
LEMMA DropAllStep ==
    ASSUME IInv, NEW C, NEW R,
           Registered = C \cup R, C \cap R = {}, Registered' = R,
           schedulers' \subseteq schedulers, workers' \subseteq workers,
           \A t \in Threads : pc[t] \in {"user", "oops"},
           \A t \in C : complist[t] # Wild,
           DropAll([l \in Lists |-> Cardinality({t \in C : complist[t] = l})]),
           UNCHANGED <<pc, arg, found, complist, queue, creator, waits, unbalanced, heap,
                       preempt_rcu, faults>>,
           dev' \in {"workers", "schedulers"}, Stopped'
    PROVE  IInv'
<1> USE DEF IInv
<1> DEFINE own(l) == {t \in C : complist[t] = l}
           rest(l) == {t \in R : complist[t] = l}
           n == [l \in Lists |-> Cardinality(own(l))]
           gone == {l \in Lists : n[l] > 0 /\ refcount[l] = n[l]}
<1>1. /\ mem \in [Lists -> {"none", "new", "lost", "live", "rcu", "freed"}]
      /\ refcount \in [Lists -> Nat \cup {Saturated}]
      /\ idr \in [Ids -> Lists \cup {NoList}]
      /\ creator \subseteq Lists
      /\ Main \in Threads
      /\ \A u \in Registered : u \in Threads
    BY Kinds, Zenon DEF TypeOK, Registered
<1>2. /\ refcount' = [l \in Lists |->
             IF n[l] > refcount[l] THEN Saturated ELSE refcount[l] - n[l]]
      /\ mem' = [l \in Lists |-> IF l \in gone THEN "rcu" ELSE mem[l]]
      /\ idr' = Without(gone)
    BY Zenon DEF DropAll
<1>3. \A l \in Lists : /\ n[l] = Cardinality(own(l)) /\ n[l] \in Nat
                       /\ n[l] = 0 <=> own(l) = {}
                       /\ Cardinality(rest(l)) \in Nat
                       /\ Cardinality(rest(l)) = 0 <=> rest(l) = {}
  <2> SUFFICES ASSUME NEW l \in Lists
               PROVE  /\ Cardinality(own(l)) \in Nat /\ (Cardinality(own(l)) = 0 <=> own(l) = {})
                      /\ Cardinality(rest(l)) \in Nat
                      /\ Cardinality(rest(l)) = 0 <=> rest(l) = {}
      BY Zenon
  <2>1. own(l) \subseteq Threads /\ rest(l) \subseteq Threads
      BY <1>1, Zenon
  <2> HIDE DEF own, rest
  <2> QED
      BY <2>1, Counted, Zenon
<1>4. \A t \in C : pc[t] = "user" /\ complist[t] \in Lists /\ mem[complist[t]] = "live"
    BY <1>1, Zenon DEF Pointers
<1>5. \A t \in R : pc[t] = "user" => complist[t] \in Lists /\ mem[complist[t]] = "live"
    BY <1>1, Zenon DEF Pointers
\* What the count of a list was.
<1>6. ASSUME NEW l \in Lists, mem[l] = "live"
      PROVE  refcount[l] = n[l] + Cardinality(rest(l)) + (IF l \in creator THEN 1 ELSE 0)
  <2>1. Holders(l) = own(l) \cup rest(l) /\ own(l) \cap rest(l) = {}
      BY <1>1, ZenonT(60) DEF Holders, Registered
  <2>2. own(l) \subseteq Threads /\ rest(l) \subseteq Threads
      BY <1>1, Zenon
  <2>3. Cardinality(own(l) \cup rest(l)) = Cardinality(own(l)) + Cardinality(rest(l))
    <3> HIDE DEF own, rest
    <3>1. IsFiniteSet(own(l)) /\ IsFiniteSet(rest(l))
        BY <2>2, Counted, Zenon
    <3>2. Cardinality(own(l) \cap rest(l)) = 0
        BY <2>1, FS_EmptySet, Zenon
    <3>3. Cardinality(own(l)) \in Nat /\ Cardinality(rest(l)) \in Nat
        BY <2>2, Counted, Zenon
    <3>4. Cardinality(own(l) \cup rest(l)) =
             Cardinality(own(l)) + Cardinality(rest(l)) - Cardinality(own(l) \cap rest(l))
        BY <3>1, FS_Union, Zenon
    <3> QED
        BY <3>2, <3>3, <3>4, SMTT(60), Z3T(60)
  <2>4. refcount[l] = Cardinality(Holders(l)) + (IF l \in creator THEN 1 ELSE 0)
      BY <1>6, Zenon DEF RefCountExact
  <2> HIDE DEF own, rest
  <2> QED
      BY <2>1, <2>3, <2>4, Zenon
<1>7. ASSUME NEW l \in Lists, mem[l] # "live" PROVE l \notin gone
  <2>1. own(l) = {}
      BY <1>4, <1>7, ZenonT(60)
  <2> HIDE DEF own, rest, n
  <2>2. n[l] = 0
      BY <1>3, <2>1, Zenon
  <2> QED
      BY <2>2, SMTT(60), Z3T(60)
<1>8. ASSUME NEW l \in Lists, l \in gone
      PROVE  rest(l) = {} /\ l \notin creator
  <2>1. mem[l] = "live"
      BY <1>7, <1>8, Zenon
  <2> HIDE DEF own, rest
  <2> QED
      BY <1>3, <1>6, <1>8, <2>1, SMTT(60), Z3T(60)
<1>9. \A l \in Lists : /\ mem'[l] = IF l \in gone THEN "rcu" ELSE mem[l]
                       /\ mem[l] = "live" => refcount'[l] = refcount[l] - n[l]
  <2> SUFFICES ASSUME NEW l \in Lists, mem[l] = "live" PROVE ~(n[l] > refcount[l])
      BY <1>2, Zenon
  <2> HIDE DEF own, rest, n
  <2> QED
      BY <1>3, <1>6, SMTT(60), Z3T(60)
<1>10. /\ idr' \in [Ids -> Lists \cup {NoList}]
       /\ \A i \in Ids : idr'[i] = IF idr[i] \in gone THEN NoList ELSE idr[i]
  <2>1. gone \in SUBSET Lists
      BY Zenon
  <2> HIDE DEF gone
  <2> QED
      BY <1>2, <2>1, WithoutKeeps, Zenon
<1> HIDE DEF n, gone, own
<1>11. TypeOK'
  <2>1. mem' \in [Lists -> {"none", "new", "lost", "live", "rcu", "freed"}]
      BY <1>1, <1>2, Zenon
  <2>2. refcount' \in [Lists -> Nat \cup {Saturated}]
    <3> SUFFICES ASSUME NEW l \in Lists
                 PROVE  (IF n[l] > refcount[l] THEN Saturated ELSE refcount[l] - n[l])
                            \in Nat \cup {Saturated}
        BY <1>2, Zenon
    <3>1. n[l] \in Nat
        BY <1>3, Zenon
    <3>2. refcount[l] \in Nat \cup {Saturated}
        BY <1>1, Zenon
    <3> QED
        BY <3>1, <3>2, SMTT(60), Z3T(60) DEF Saturated
  <2>3. dev' \in Stages
      BY Zenon DEF Stages
  <2> QED
      BY <1>10, <2>1, <2>2, <2>3, Zenon DEF TypeOK
<1>12. Fresh' /\ Lookups' /\ Queued'
    BY Zenon DEF Fresh, Lookups, Queued
<1>13. Places'
  <2>1. \A t \in Threads : pc[t] = "oops" => t \in R
      BY <1>4, Zenon DEF Places
  <2> QED
      BY <1>1, <2>1, Zenon DEF Places
<1>14. Pointers'
  <2> SUFFICES ASSUME NEW t \in R
               PROVE  /\ pc[t] = "oops" => complist[t] = Wild
                      /\ pc[t] = "user" => complist[t] \in Lists /\ mem'[complist[t]] = "live"
      BY <1>1, Zenon DEF Pointers
  <2>1. pc[t] = "oops" => complist[t] = Wild
      BY Zenon DEF Pointers
  <2>2. complist[t] \in Lists => rest(complist[t]) # {}
      BY Zenon
  <2> HIDE DEF rest
  <2> QED
      BY <1>5, <1>8, <1>9, <2>1, <2>2, Zenon
<1>15. Creators'
  <2>1. \A l \in creator : l \in Lists /\ l \notin gone /\ mem[l] = "live" /\ Named(l)
      BY <1>1, <1>8, Zenon DEF Creators
  <2>2. \A l \in creator : mem'[l] = "live"
      BY <1>9, <2>1, Zenon
  <2>3. \A l \in creator : Named(l)'
      BY <1>10, <2>1, ZenonT(60) DEF Named
  <2> QED
      BY <1>1, <2>2, <2>3, Zenon DEF Creators
<1>16. Destroyers'
  <2>1. ASSUME NEW l \in Lists, mem'[l] = "live", refcount'[l] = 0 PROVE FALSE
    <3>1. l \notin gone /\ mem[l] = "live"
        BY <1>9, <2>1, Zenon
    <3>2. refcount[l] = n[l] /\ n[l] \in Nat
      <4>1. n[l] \in Nat
          BY <1>3, Zenon
      <4>2. refcount'[l] = refcount[l] - n[l]
          BY <1>9, <3>1, Zenon
      <4>3. refcount[l] \in Nat \/ refcount[l] = -1
          BY <1>1, Zenon DEF Saturated
      <4> QED
          BY <2>1, <4>1, <4>2, <4>3, SMTT(60), Z3T(60)
    <3>3. refcount[l] = 0
        BY <3>1, <3>2, SMTT(60), Z3T(60) DEF gone
    <3> QED
        BY <3>1, <3>3, Zenon DEF Destroyers
  <2> QED
      BY <2>1, Zenon DEF Destroyers
<1>17. RefCountExact'
  <2>1. \A l : Holders(l)' = rest(l)
      BY <1>1, ZenonT(60) DEF Holders, Registered
  <2> HIDE DEF rest
  <2>2. ASSUME NEW l \in Lists, mem'[l] = "live"
        PROVE  refcount'[l] = Cardinality(rest(l)) + (IF l \in creator THEN 1 ELSE 0)
    <3>1. mem[l] = "live"
        BY <1>9, <2>2, ZenonT(60)
    <3> QED
        BY <1>3, <1>6, <1>9, <3>1, SMTT(60), Z3T(60)
  <2> QED
      BY <2>1, <2>2, Zenon DEF RefCountExact
<1>18. IdNamesLiveList'
  <2> SUFFICES ASSUME NEW i \in Ids, idr'[i] # NoList
               PROVE  /\ mem'[idr'[i]] \in {"new", "live"}
                      /\ \A j \in Ids : idr'[j] = idr'[i] => j = i
      BY Zenon DEF IdNamesLiveList
  <2>1. idr'[i] = idr[i] /\ idr[i] \notin gone /\ idr[i] # NoList /\ idr[i] \in Lists
      BY <1>1, <1>10, Zenon
  <2>2. \A j \in Ids : idr'[j] = idr'[i] => idr[j] = idr[i]
      BY <1>10, <2>1, Zenon
  <2> QED
      BY <1>9, <2>1, <2>2, ZenonT(60) DEF IdNamesLiveList
<1> QED
    BY <1>11, <1>12, <1>13, <1>14, <1>15, <1>16, <1>17, <1>18, Zenon

\* A pointer that was never assigned stops the release.
LEMMA ReleaseStops ==
    ASSUME IInv, \A t \in Threads : pc[t] \in {"user", "oops"}, dev' = "oops",
           UNCHANGED <<pc, arg, found, complist, schedulers, workers, mem, refcount, idr,
                       queue, creator, waits, unbalanced, heap, preempt_rcu, faults>>
    PROVE  IInv'
<1> USE DEF IInv
<1>1. TypeOK'
    BY Zenon DEF TypeOK, Stages
<1>2. Places' /\ Queued' /\ Stopped'
    BY Zenon DEF Places, Registered, Queued, Stopped
<1> QED
    BY <1>1, <1>2, PassingSteps, Zenon

\* The workers go first.
LEMMA ReleaseWorkersStep ==
    ASSUME IInv, ReleaseWorkers
    PROVE  IInv'
<1> USE DEF IInv
<1>1. /\ \A t \in Threads : pc[t] \in {"user", "oops"}
      /\ UNCHANGED <<pc, arg, found, complist, schedulers, queue, creator, waits,
                     unbalanced, heap, preempt_rcu, faults>>
    BY Zenon DEF ReleaseWorkers
<1>2. CASE \E t \in workers : complist[t] = Wild
  <2>1. /\ dev' = "oops" /\ UNCHANGED <<mem, refcount, idr, workers>>
      BY <1>2, Zenon DEF ReleaseWorkers, ReleaseContexts
  <2> QED
      BY <1>1, <2>1, ReleaseStops, Zenon
<1>3. CASE \A t \in workers : complist[t] # Wild
  <2>1. /\ dev' = "workers" /\ workers' = {}
        /\ DropAll([l \in Lists |-> Cardinality({t \in workers : complist[t] = l})])
      BY <1>3, Zenon DEF ReleaseWorkers, ReleaseContexts
  <2>2. /\ Registered = workers \cup schedulers /\ workers \cap schedulers = {}
        /\ Registered' = schedulers
        /\ schedulers' \subseteq schedulers /\ workers' \subseteq workers
      BY <1>1, <2>1, Kinds, Zenon DEF Registered, TypeOK
  <2>3. Stopped'
      BY <1>1, <2>1, Zenon DEF Stopped
  <2> QED
      BY <1>1, <1>3, <2>1, <2>2, <2>3, DropAllStep, Zenon
<1> QED
    BY <1>2, <1>3, Zenon

\* Then the schedulers.
LEMMA ReleaseSchedulersStep ==
    ASSUME IInv, ReleaseSchedulers
    PROVE  IInv'
<1> USE DEF IInv
<1>1. /\ \A t \in Threads : pc[t] \in {"user", "oops"}
      /\ workers = {}
      /\ UNCHANGED <<pc, arg, found, complist, workers, queue, creator, waits,
                     unbalanced, heap, preempt_rcu, faults>>
    BY Zenon DEF ReleaseSchedulers, Stopped
<1>2. CASE \E t \in schedulers : complist[t] = Wild
  <2>1. /\ dev' = "oops" /\ UNCHANGED <<mem, refcount, idr, schedulers>>
      BY <1>2, Zenon DEF ReleaseSchedulers, ReleaseContexts
  <2> QED
      BY <1>1, <2>1, ReleaseStops, Zenon
<1>3. CASE \A t \in schedulers : complist[t] # Wild
  <2>1. /\ dev' = "schedulers" /\ schedulers' = {}
        /\ DropAll([l \in Lists |-> Cardinality({t \in schedulers : complist[t] = l})])
      BY <1>3, Zenon DEF ReleaseSchedulers, ReleaseContexts
  <2>2. /\ Registered = schedulers \cup {} /\ schedulers \cap {} = {}
        /\ Registered' = {}
        /\ schedulers' \subseteq schedulers /\ workers' \subseteq workers
      BY <1>1, <2>1, Zenon DEF Registered
  <2>3. Stopped'
      BY <1>1, <2>1, Zenon DEF Stopped
  <2> QED
      BY <1>1, <1>3, <2>1, <2>2, <2>3, DropAllStep, Zenon
<1> QED
    BY <1>2, <1>3, Zenon

\* Then the lists, which only their creators still hold.
LEMMA ReleaseComplistsStep ==
    ASSUME IInv, ReleaseComplists
    PROVE  IInv'
<1> USE DEF IInv
<1> DEFINE gone == {l \in Lists : \E i \in Ids : idr[i] = l /\ refcount[l] = 1}
<1>1. /\ \A t \in Threads : pc[t] \in {"user", "oops"}
      /\ workers = {} /\ schedulers = {}
      /\ UNCHANGED <<pc, arg, found, complist, schedulers, workers, queue, waits,
                     unbalanced, heap, preempt_rcu, faults>>
      /\ idr' = [i \in Ids |-> NoList] /\ creator' = {} /\ dev' = "closed"
      /\ Main \in Threads
    BY Kinds, Zenon DEF ReleaseComplists, Stopped
<1>2. /\ mem \in [Lists -> {"none", "new", "lost", "live", "rcu", "freed"}]
      /\ refcount \in [Lists -> Nat \cup {Saturated}]
      /\ refcount' = [l \in Lists |->
             IF \E i \in Ids : idr[i] = l THEN Dropped(refcount[l]) ELSE refcount[l]]
      /\ mem' = [l \in Lists |-> IF l \in gone THEN "rcu" ELSE mem[l]]
    BY Zenon DEF ReleaseComplists, TypeOK
\* The lists that are still alive are all created, and none stays alive.
<1>3. ASSUME NEW l \in Lists PROVE mem'[l] # "live"
  <2>1. CASE mem[l] # "live"
      BY <1>2, <2>1, Zenon
  <2>2. CASE mem[l] = "live"
    <3>1. Holders(l) = {}
        BY <1>1, Zenon DEF Holders
    <3>2. refcount[l] = IF l \in creator THEN 1 ELSE 0
      <4>1. Cardinality(Holders(l)) = 0
          BY <3>1, FS_EmptySet, Zenon
      <4>2. refcount[l] = Cardinality(Holders(l)) + (IF l \in creator THEN 1 ELSE 0)
          BY <2>2, Zenon DEF RefCountExact
      <4> QED
          BY <4>1, <4>2
    <3>3. refcount[l] # 0
        BY <1>1, <2>2, Zenon DEF Destroyers
    <3>4. l \in creator /\ refcount[l] = 1
        BY <3>2, <3>3, Zenon
    <3>5. l \in gone
        BY <3>4, Zenon DEF Creators, Named
    <3> QED
        BY <1>2, <3>5, Zenon
  <2> QED
      BY <2>1, <2>2, Zenon
<1>4. TypeOK'
  <2>1. mem' \in [Lists -> {"none", "new", "lost", "live", "rcu", "freed"}]
      BY <1>2, Zenon
  <2>2. refcount' \in [Lists -> Nat \cup {Saturated}]
    <3>1. \A l \in Lists : Dropped(refcount[l]) \in Nat \cup {Saturated}
        BY <1>2 DEF Dropped, Saturated
    <3> QED
        BY <1>2, <3>1, Zenon
  <2>3. idr' \in [Ids -> Lists \cup {NoList}] /\ creator' \subseteq Lists /\ dev' \in Stages
      BY <1>1, Zenon DEF Stages
  <2> QED
      BY <1>1, <2>1, <2>2, <2>3, Zenon DEF TypeOK
<1>5. Fresh' /\ Places' /\ Pointers' /\ Lookups' /\ Queued' /\ Stopped'
    BY <1>1, Zenon DEF Fresh, Places, Pointers, Lookups, Queued, Stopped, Registered
<1>6. Creators' /\ Destroyers' /\ RefCountExact' /\ IdNamesLiveList'
    BY <1>1, <1>3, Zenon DEF Creators, Destroyers, RefCountExact, IdNamesLiveList
<1> QED
    BY <1>4, <1>5, <1>6, Zenon

-----------------------------------------------------------------------------
(* The theorems.                                                           *)

\* Every step keeps the invariant.
LEMMA NextIInv ==
    ASSUME StaleHeap = FALSE, RacingDelete = FALSE, IInv, [Next]_vars
    PROVE  IInv'
<1>1. ASSUME NEW t \in Threads, Continues(t) PROVE IInv'
    BY <1>1, UmsComplistDestroyStep, ComplistFindStep, GetUmsComplistStep, StartupEventStep,
       WorkerPasses, SchedulerPasses, Zenon DEF Continues
<1>2. ASSUME NEW t \in Threads, Begins(t) \/ Interrupted(t) PROVE IInv'
    BY <1>2, EnterUmsModeStep, WorkerPasses, UmsWorkerEndStep, SchedulerPasses, Zenon DEF Begins
<1>3. ASSUME NEW l \in Lists, UmsComplistCallRcu(l) PROVE IInv'
    BY <1>3, UmsComplistCallRcuStep
<1>4. CASE CreateUmsComplist \/ UmsComplistInit \/ (UmsComplistDelete /\ DeletesAlone)
    BY <1>4, CreateUmsComplistStep, UmsComplistInitStep, UmsComplistDeleteStep, Zenon
<1>5. CASE ProcessExits \/ Release
    BY <1>5, ProcessExitsStep, ReleaseWorkersStep, ReleaseSchedulersStep, ReleaseComplistsStep,
       Zenon DEF Release
<1>6. CASE UNCHANGED vars
    BY <1>6, StutterStep, Zenon
<1> QED
    BY <1>1, <1>2, <1>3, <1>4, <1>5, <1>6, Zenon DEF Next

\* The inductive invariant holds throughout, whichever calls fail and however
\* the threads interleave.
THEOREM Inductive ==
    ASSUME StaleHeap = FALSE, RacingDelete = FALSE
    PROVE  Spec => []IInv
<1>1. IInv /\ [Next]_vars => IInv'
    BY NextIInv, Zenon
<1> QED
    BY <1>1, InitIInv, PTL DEF Spec

\* Every variable keeps its type.
THEOREM TypeCorrect ==
    ASSUME StaleHeap = FALSE, RacingDelete = FALSE
    PROVE  Spec => []TypeOK
<1>1. IInv => TypeOK
    BY DEF IInv
<1> QED
    BY <1>1, Inductive, PTL

\* The count of a list is the number of its owners, through every error path of
\* the enter and exit calls and through the release of the device.
THEOREM CountsAreExact ==
    ASSUME StaleHeap = FALSE, RacingDelete = FALSE
    PROVE  Spec => []RefCountExact
<1>1. IInv => RefCountExact
    BY DEF IInv
<1> QED
    BY <1>1, Inductive, PTL

\* An id names one list, which nobody has begun to free.
THEOREM IdsNameLiveLists ==
    ASSUME StaleHeap = FALSE, RacingDelete = FALSE
    PROVE  Spec => []IdNamesLiveList
<1>1. IInv => IdNamesLiveList
    BY Zenon DEF IInv
<1> QED
    BY <1>1, Inductive, PTL

\* As long as the process lives, a list that is handed to RCU has no context
\* queued on it.
THEOREM DestroyedListsAreEmpty ==
    ASSUME StaleHeap = FALSE, RacingDelete = FALSE
    PROVE  Spec => []EmptyWhenDestroyed
<1>1. IInv => EmptyWhenDestroyed
  <2> SUFFICES ASSUME IInv, dev \in {"open", "exiting"}, NEW l \in Lists,
                      mem[l] \in {"rcu", "freed"}, NEW w \in queue[l]
               PROVE  FALSE
      BY Zenon DEF EmptyWhenDestroyed
  <2>1. w \in workers /\ complist[w] = l /\ pc[w] \in {"asleep", "user"}
      BY Zenon DEF IInv, Queued
  <2> QED
      BY <2>1, Zenon DEF IInv, Pointers, Registered
<1> QED
    BY <1>1, Inductive, PTL

-----------------------------------------------------------------------------
(* No use after free.  A context keeps its own list alive; a list that a   *)
(* scheduler found by another id is kept by its read-side section, where   *)
(* the section outlasts a sleep and the thread has not left it already.    *)

\* The section of s does not keep a list, for it ends when s sleeps or was left
\* too often.
Exposed(s) == preempt_rcu => s \in unbalanced

\* s is in a read-side section that lasts.
Shielded(s) == ~Exposed(s) /\ pc[s] \in {"dequeue", "wait"}

\* l is not freed before s leaves its section.
Safe(s, l) == mem[l] = "live" \/ (mem[l] = "rcu" /\ s \in waits[l])

\* A scheduler that dequeues uses the list its context holds, or one that is not
\* freed before the scheduler has left its read-side section, if that lasts.
Reading ==
    \A s \in Threads : pc[s] \in {"dequeue", "wait"} =>
        /\ found[s] \in Lists
        /\ found[s] = complist[s] \/ Exposed(s) \/ Safe(s, found[s])

\* A step of t leaves the other readers with what they read.
LEMMA ReadersStay ==
    ASSUME Reading, NEW t \in Threads,
           \A s \in Threads : s # t =>
              pc'[s] = pc[s] /\ found'[s] = found[s] /\ complist'[s] = complist[s],
           unbalanced \subseteq unbalanced', UNCHANGED preempt_rcu,
           \A s \in Threads, l \in Lists : s # t /\ Shielded(s) /\ Safe(s, l) => Safe(s, l)',
           pc'[t] \in {"dequeue", "wait"} =>
              /\ found'[t] \in Lists
              /\ found'[t] = complist'[t] \/ Exposed(t)' \/ Safe(t, found[t])'
    PROVE  Reading'
<1> SUFFICES ASSUME NEW s \in Threads, pc'[s] \in {"dequeue", "wait"}
             PROVE  /\ found'[s] \in Lists
                    /\ found'[s] = complist'[s] \/ Exposed(s)' \/ Safe(s, found[s])'
    BY Zenon DEF Reading
<1>1. CASE s = t
    BY <1>1, Zenon
<1>2. CASE s # t
  <2>1. PICK f : f = found[s]
      BY Zenon
  <2>2. /\ pc[s] \in {"dequeue", "wait"} /\ found'[s] = f /\ complist'[s] = complist[s]
        /\ f \in Lists
        /\ f = complist[s] \/ Exposed(s) \/ Safe(s, f)
      BY <1>2, <2>1, Zenon DEF Reading
  <2>3. ~Exposed(s) /\ Safe(s, f) => Safe(s, f)'
      BY <1>2, <2>2, Zenon DEF Shielded
  <2>5. Exposed(s) => Exposed(s)'
      BY Zenon DEF Exposed
  <2>4. Safe(s, f)' => Safe(s, found[s])'
      BY <2>2, Zenon DEF Safe
  <2> QED
      BY <2>2, <2>3, <2>4, <2>5, Zenon
<1> QED
    BY <1>1, <1>2, Zenon

\* The steps that free nothing, of a thread that does not read when they end.
LEMMA UnreadSteps ==
    ASSUME IInv, Reading, NEW t \in Threads,
           \A s \in Threads : s # t =>
              pc'[s] = pc[s] /\ found'[s] = found[s] /\ complist'[s] = complist[s],
           unbalanced \subseteq unbalanced', UNCHANGED <<preempt_rcu, mem>>,
           \A l \in Lists : waits[l] \ {t} \subseteq waits'[l],
           pc'[t] \notin {"dequeue", "wait"}
    PROVE  Reading'
<1>1. \A s \in Threads, l \in Lists : s # t /\ Safe(s, l) => Safe(s, l)'
    BY Zenon DEF Safe
<1> QED
    BY <1>1, ReadersStay, Zenon

\* Entering, leaving and passing by.
LEMMA OthersRead ==
    ASSUME IInv, Reading, NEW t \in Threads,
           \/ ComplistFind(t) \/ GetUmsComplist(t) \/ StartupEvent(t) \/ UmsCompletionListAdd(t)
           \/ WorkerResumes(t) \/ EnterUmsMode(t) \/ UmsWorkerYield(t) \/ UmsWorkerEnd(t)
           \/ Interrupted(t) \/ (t = Main /\ UmsComplistDelete)
    PROVE  Reading'
<1>1. /\ pc \in [Threads -> PCs] /\ found \in [Threads -> Lists \cup {NoList}]
      /\ complist \in [Threads -> Lists \cup {NoList, Wild}]
      /\ waits \in [Lists -> SUBSET Threads]
    BY Zenon DEF IInv, TypeOK
<1>2. UNCHANGED <<preempt_rcu, mem>> /\ unbalanced \subseteq unbalanced'
    BY ZenonT(60) DEF ComplistFind, GetUmsComplist, StartupEvent, UmsCompletionListAdd, WorkerResumes,
       EnterUmsMode, UmsWorkerYield, UmsWorkerEnd, Interrupted, UmsComplistDelete
<1>3. UNCHANGED pc \/ \E p : p \notin {"dequeue", "wait"} /\ Goto(t, p)
    BY ZenonT(60) DEF ComplistFind, GetUmsComplist, StartupEvent, UmsCompletionListAdd, WorkerResumes,
       EnterUmsMode, UmsWorkerYield, UmsWorkerEnd, Interrupted, UmsComplistDelete,
       PutUmsComplist, Returns
<1>4. UNCHANGED pc => pc[t] \notin {"dequeue", "wait"}
    BY <1>1, Zenon DEF ComplistFind, GetUmsComplist, StartupEvent, UmsCompletionListAdd,
       WorkerResumes, EnterUmsMode, UmsWorkerYield, UmsWorkerEnd, Interrupted, UmsComplistDelete,
       Calls, PutUmsComplist, Returns, Goto
<1>5. /\ pc'[t] \notin {"dequeue", "wait"}
      /\ \A s \in Threads : s # t => pc'[s] = pc[s]
    BY <1>1, <1>3, <1>4, Zenon DEF Goto
<1>6. UNCHANGED found \/ \E l : found' = [found EXCEPT ![t] = l]
    BY Zenon DEF ComplistFind, GetUmsComplist, StartupEvent, UmsCompletionListAdd, WorkerResumes,
       EnterUmsMode, UmsWorkerYield, UmsWorkerEnd, Interrupted, UmsComplistDelete,
       PutUmsComplist, Returns
<1>7. UNCHANGED complist \/ \E l : complist' = [complist EXCEPT ![t] = l]
    BY Zenon DEF ComplistFind, GetUmsComplist, StartupEvent, UmsCompletionListAdd, WorkerResumes,
       EnterUmsMode, UmsSchedulerCreate, UmsWorkerCreate, Unassigned, UmsWorkerYield,
       UmsWorkerEnd, Interrupted, UmsComplistDelete
<1>8. UNCHANGED waits \/ Quiesces(t)
    BY Zenon DEF ComplistFind, GetUmsComplist, StartupEvent, UmsCompletionListAdd, WorkerResumes,
       EnterUmsMode, UmsWorkerYield, UmsWorkerEnd, Interrupted, UmsComplistDelete, PutUmsComplist
<1>9. \A s \in Threads : s # t => found'[s] = found[s] /\ complist'[s] = complist[s]
    BY <1>1, <1>6, <1>7, Zenon
<1>10. \A l \in Lists : waits[l] \ {t} \subseteq waits'[l]
    BY <1>1, <1>8, Zenon DEF Quiesces
<1> QED
    BY <1>2, <1>5, <1>9, <1>10, UnreadSteps, Zenon

\* A scheduler reads the list of its context, or one that its creator had not
\* deleted when the section began.
LEMMA SchedulerReads ==
    ASSUME IInv, Reading, NEW t \in Threads,
           UmsComplistDqcontext(t) \/ DoDequeue(t) \/ WaitEventInterruptible(t)
    PROVE  Reading'
<1> USE DEF IInv
<1>1. /\ pc \in [Threads -> PCs] /\ found \in [Threads -> Lists \cup {NoList}]
      /\ waits \in [Lists -> SUBSET Threads] /\ idr \in [Ids -> Lists \cup {NoList}]
    BY Zenon DEF TypeOK
<1>2. UNCHANGED <<complist, unbalanced, preempt_rcu, mem>>
    BY Zenon DEF UmsComplistDqcontext, DoDequeue, WaitEventInterruptible
<1>3. /\ UNCHANGED pc \/ \E p : Goto(t, p)
      /\ UNCHANGED found \/ \E l : found' = [found EXCEPT ![t] = l]
      /\ UNCHANGED waits \/ Quiesces(t)
    BY Zenon DEF UmsComplistDqcontext, DoDequeue, WaitEventInterruptible, Returns
<1>4. /\ \A s \in Threads : s # t => pc'[s] = pc[s] /\ found'[s] = found[s]
      /\ \A l \in Lists : waits[l] \ {t} \subseteq waits'[l]
    BY <1>1, <1>3, Zenon DEF Goto, Quiesces
<1>5. \A s \in Threads, l \in Lists : s # t /\ Safe(s, l) => Safe(s, l)'
    BY <1>2, <1>4, Zenon DEF Safe
<1>6. ASSUME pc'[t] \in {"dequeue", "wait"}
      PROVE  /\ found'[t] \in Lists
             /\ found'[t] = complist'[t] \/ Exposed(t)' \/ Safe(t, found[t])'
  <2>1. CASE UmsComplistDqcontext(t)
    <3>1. PICK i \in Ids :
             /\ idr[i] # NoList
             /\ idr[i] = complist[t] \/ i \in Known
             /\ found' = [found EXCEPT ![t] = idr[i]]
        BY <2>1, Zenon DEF UmsComplistDqcontext
    <3>2. found'[t] = idr[i] /\ idr[i] \in Lists
        BY <1>1, <3>1, Zenon
    <3>3. CASE idr[i] = complist[t]
        BY <1>2, <3>2, <3>3, Zenon
    <3>4. CASE i \in Known
      <4>1. mem'[idr[i]] = "live"
          BY <1>2, <3>4, Zenon DEF Known, Creators
      <4> QED
          BY <3>2, <4>1, Zenon DEF Safe
    <3> QED
        BY <3>1, <3>3, <3>4, Zenon
  <2>2. CASE DoDequeue(t) \/ WaitEventInterruptible(t)
    <3>1. pc[t] \in {"dequeue", "wait"}
        BY <2>2, Zenon DEF DoDequeue, WaitEventInterruptible
    <3>2. UNCHANGED found /\ (preempt_rcu => UNCHANGED waits)
        BY <1>1, <1>6, <2>2, Zenon DEF DoDequeue, WaitEventInterruptible, Returns, Goto
    <3> QED
        BY <1>2, <3>1, <3>2, Zenon DEF Reading, Safe, Exposed
  <2> QED
      BY <2>1, <2>2, Zenon
<1> QED
    BY <1>2, <1>4, <1>5, <1>6, ReadersStay, Zenon

\* The steps that give a list another state.
LEMMA ListStepsRead ==
    ASSUME IInv, Reading,
           \/ CreateUmsComplist \/ UmsComplistInit \/ \E t \in Threads : UmsComplistDestroy(t)
           \/ \E l \in Lists : UmsComplistCallRcu(l)
    PROVE  Reading'
<1> USE DEF IInv
<1>1. /\ pc \in [Threads -> PCs] /\ found \in [Threads -> Lists \cup {NoList}]
      /\ waits \in [Lists -> SUBSET Threads]
      /\ mem \in [Lists -> {"none", "new", "lost", "live", "rcu", "freed"}]
      /\ Main \in Threads
    BY Kinds, Zenon DEF TypeOK
<1>2. CASE CreateUmsComplist
  <2>1. UNCHANGED <<complist, unbalanced, preempt_rcu, waits>>
      BY <1>2, Zenon DEF CreateUmsComplist
  <2>2. \E l \in Lists : mem[l] = "none" /\ \A k \in Lists : k # l => mem'[k] = mem[k]
      BY <1>1, <1>2, Zenon DEF CreateUmsComplist
  <2>3. \A s \in Threads, l \in Lists : Safe(s, l) => Safe(s, l)'
      BY <2>1, <2>2, Zenon DEF Safe
  <2>4. /\ \A s \in Threads : s # Main => pc'[s] = pc[s] /\ found'[s] = found[s]
        /\ pc'[Main] \notin {"dequeue", "wait"}
      BY <1>1, <1>2, Zenon DEF CreateUmsComplist, Calls, Goto
  <2> QED
      BY <1>1, <2>1, <2>3, <2>4, ReadersStay, Zenon
<1>3. CASE UmsComplistInit
  <2>1. UNCHANGED <<complist, unbalanced, preempt_rcu, waits>>
      BY <1>3, Zenon DEF UmsComplistInit
  <2>2. \E l \in Lists : mem[l] = "new" /\ \A k \in Lists : k # l => mem'[k] = mem[k]
      BY <1>1, <1>3, Zenon DEF UmsComplistInit, Creators
  <2>3. \A s \in Threads, l \in Lists : Safe(s, l) => Safe(s, l)'
      BY <2>1, <2>2, Zenon DEF Safe
  <2>4. /\ \A s \in Threads : s # Main => pc'[s] = pc[s] /\ found'[s] = found[s]
        /\ pc'[Main] \notin {"dequeue", "wait"}
      BY <1>1, <1>3, Zenon DEF UmsComplistInit, Returns, Goto
  <2> QED
      BY <1>1, <2>1, <2>3, <2>4, ReadersStay, Zenon
<1>4. ASSUME NEW t \in Threads, UmsComplistDestroy(t) PROVE Reading'
  <2>1. PICK l : l = found[t]
      BY Zenon
  <2>2. /\ l \in Lists /\ mem[l] = "live" /\ mem' = [mem EXCEPT ![l] = "rcu"]
        /\ waits' = [k \in Lists |->
               IF k = l THEN {u \in Threads \ {t} : Reader(u)} ELSE waits[k] \ {t}]
        /\ UNCHANGED <<complist, unbalanced, preempt_rcu>>
      BY <1>4, <2>1, Zenon DEF UmsComplistDestroy, Destroyers
  <2>3. /\ \A s \in Threads : s # t => pc'[s] = pc[s] /\ found'[s] = found[s]
        /\ pc'[t] \notin {"dequeue", "wait"}
      BY <1>1, <1>4, Zenon DEF UmsComplistDestroy, Returns, Goto
  <2>4. ASSUME NEW s \in Threads, NEW k \in Lists, s # t, Shielded(s), Safe(s, k)
        PROVE  Safe(s, k)'
    <3>1. Reader(s)
        BY <2>4, Zenon DEF Shielded, Exposed, Reader
    <3>2. CASE k = l
      <4>1. mem'[k] = "rcu" /\ s \in waits'[k]
          BY <1>1, <2>2, <2>4, <3>1, <3>2, Zenon
      <4> QED
          BY <4>1, Zenon DEF Safe
    <3>3. CASE k # l
      <4>1. mem'[k] = mem[k] /\ waits'[k] = waits[k] \ {t}
          BY <1>1, <2>2, <3>3, Zenon
      <4> QED
          BY <2>4, <4>1, Zenon DEF Safe
    <3> QED
        BY <3>2, <3>3, Zenon
  <2> QED
      BY <2>2, <2>3, <2>4, ReadersStay, Zenon
<1>5. ASSUME NEW l \in Lists, UmsComplistCallRcu(l) PROVE Reading'
  <2>1. /\ mem[l] = "rcu" /\ waits[l] = {} /\ mem' = [mem EXCEPT ![l] = "freed"]
        /\ UNCHANGED <<pc, found, complist, unbalanced, preempt_rcu, waits>>
      BY <1>5, Zenon DEF UmsComplistCallRcu
  <2>2. \A s \in Threads, k \in Lists : Safe(s, k) => Safe(s, k)'
      BY <1>1, <2>1, Zenon DEF Safe
  <2>3. pc[Main] \notin {"dequeue", "wait"}
      BY Zenon DEF Places
  <2> QED
      BY <1>1, <2>1, <2>2, <2>3, ReadersStay, Zenon
<1> QED
    BY <1>2, <1>3, <1>4, <1>5, Zenon

\* Nobody reads when the device is released.
LEMMA ReleaseReads ==
    ASSUME IInv, Reading, ProcessExits \/ Release \/ UNCHANGED vars
    PROVE  Reading'
<1>1. CASE Release
  <2>1. UNCHANGED pc /\ \A t \in Threads : pc[t] \in {"user", "oops"}
      BY <1>1, Zenon DEF Release, ReleaseWorkers, ReleaseSchedulers, ReleaseComplists, IInv,
         Stopped
  <2> QED
      BY <2>1, Zenon DEF Reading
<1>2. CASE ProcessExits
    BY <1>2, Zenon DEF ProcessExits, Reading, Safe, Exposed
<1>3. CASE UNCHANGED vars
    BY <1>3, Zenon DEF vars, Reading, Safe, Exposed
<1> QED
    BY <1>1, <1>2, <1>3, Zenon

\* No handler follows a pointer to freed memory, but for the dequeue from another
\* list by a scheduler whose read-side section does not last: what is followed
\* is counted by the context that follows it, looked up in a section that the
\* grace period waits for, or not yet known to anybody else.
THEOREM NothingFreedIsUsed ==
    ASSUME StaleHeap = FALSE, RacingDelete = FALSE
    PROVE  Spec => []NoUseAfterFree
<1>1. Init => Reading
    BY Zenon DEF Init, Reading
<1>2. IInv /\ Reading /\ [Next]_vars => Reading'
  <2> SUFFICES ASSUME IInv, Reading, [Next]_vars PROVE Reading'
      BY Zenon
  <2>1. ASSUME NEW t \in Threads, Continues(t) \/ Begins(t) \/ Interrupted(t) PROVE Reading'
      BY <2>1, OthersRead, SchedulerReads, ListStepsRead, Zenon DEF Continues, Begins
  <2>2. ASSUME NEW l \in Lists, UmsComplistCallRcu(l) PROVE Reading'
      BY <2>2, ListStepsRead, Zenon
  <2>3. CASE CreateUmsComplist \/ UmsComplistInit \/ (UmsComplistDelete /\ DeletesAlone)
      BY <2>3, Kinds, ListStepsRead, OthersRead, Zenon
  <2>4. CASE ProcessExits \/ Release \/ UNCHANGED vars
      BY <2>4, ReleaseReads, Zenon
  <2> QED
      BY <2>1, <2>2, <2>3, <2>4, Zenon DEF Next
<1>3. IInv /\ Reading => NoUseAfterFree
  <2> SUFFICES ASSUME IInv, Reading PROVE NoUseAfterFree
      BY Zenon
  <2> USE DEF IInv
  <2>1. ASSUME NEW t \in schedulers \cup workers,
               pc[t] \notin {"find", "get", "oops"}, complist[t] \in Lists
        PROVE  mem[complist[t]] = "live"
      BY <2>1, Kinds, Zenon DEF Pointers, Registered
  <2>2. ASSUME NEW t \in Threads,
               pc[t] \in {"create_init", "get", "dequeue", "wait", "destroy"}
        PROVE  mem[found[t]] # "freed" \/ (Borrows(t) /\ Exposed(t))
    <3>1. CASE pc[t] = "create_init"
        BY <3>1, Zenon DEF Places, Creators
    <3>2. CASE pc[t] = "get"
        BY <3>2, Zenon DEF Lookups, Creators
    <3>3. CASE pc[t] = "destroy"
        BY <3>3, Zenon DEF Destroyers
    <3>4. CASE pc[t] \in {"dequeue", "wait"}
      <4>1. complist[t] \in Lists /\ mem[complist[t]] = "live"
          BY <3>4, Zenon DEF Places, Pointers, Registered
      <4>2. found[t] = complist[t] \/ Exposed(t) \/ Safe(t, found[t])
          BY <3>4, Zenon DEF Reading
      <4> QED
          BY <3>4, <4>1, <4>2, Zenon DEF Borrows, Safe
    <3> QED
        BY <2>2, <3>1, <3>2, <3>3, <3>4, Zenon
  <2> QED
      BY <2>1, <2>2, Zenon DEF NoUseAfterFree, Exposed
<1> QED
    BY <1>1, <1>2, <1>3, Inductive, PTL DEF Spec

=============================================================================
