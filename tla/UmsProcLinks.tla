---------------------------- MODULE UmsProcLinks ----------------------------
(***************************************************************************)
(* The folders /proc/ums/<pid>/schedulers/<scheduler-pid>/workers of       *)
(* src/module/src/proc/scheduler.c, beside the dispatch core that fills    *)
(* them: dequeuing a context links it in the folder of the scheduler,      *)
(* executing it removes the link.                                          *)
(*                                                                         *)
(* The links are made inside ums_complist_dqcontext and removed inside     *)
(* exec_ums_context, so that each step here is one of UmsDispatch together *)
(* with what it does to the folders.                                       *)
(***************************************************************************)
EXTENDS UmsDispatch, FiniteSets

CONSTANTS
    NoLink,         \* a null proc_dir_entry
    ULong,          \* the counters are unsigned long, reduced modulo this
    MaxNames,       \* bound: the highest name given to a link
    MaxLinkFaults   \* bound: failing symlinks of contexts after the first

Names == 1 .. MaxNames

ASSUME LinksAssumption ==
    /\ NoLink \notin Threads \cup (Schedulers \X Names)
    /\ {ULong, MaxNames, MaxLinkFaults} \subseteq Nat
    /\ 0 < MaxNames /\ 2 * MaxNames <= ULong

VARIABLES
    folder,       \* dirs.workers_dir of a scheduler: the target of each name
    worker_link,  \* the entry of a worker's link: its folder and its name
    n_workers,    \* dirs.n_workers
    max_workers,  \* dirs.max_workers
    link_faults   \* failures so far

linkVars == <<folder, worker_link, n_workers, max_workers, link_faults>>

LinksInit ==
    /\ Init
    /\ folder = [s \in Schedulers |-> [n \in Names |-> NoLink]]
    /\ worker_link = [w \in Workers |-> NoLink]
    /\ n_workers = [s \in Schedulers |-> 0]
    /\ max_workers = [s \in Schedulers |-> 0]
    /\ link_faults = 0

-----------------------------------------------------------------------------
(* Making the links of a dequeued list.                                    *)

\* The links and counters a scheduler works on.
Local(s) == [dir |-> folder[s], link |-> worker_link,
             n |-> n_workers[s], max |-> max_workers[s]]

Refused(d) == d.dir[d.max + 1] # NoLink

\* Variant: max_workers is not counted up.
RegisterWorker_SameName(s, d, w) ==
    IF Refused(d)
    THEN [d EXCEPT !.link[w] = NoLink]
    ELSE [dir |-> [d.dir EXCEPT ![d.max + 1] = w],
          link |-> [d.link EXCEPT ![w] = <<s, d.max + 1>>],
          n |-> (d.n + 1) % ULong,
          max |-> d.max]

\* The name is one more than max_workers; procfs refuses a name that is taken,
\* and the pointer is then null.
RegisterWorker(s, d, w) ==
    IF Refused(d)
    THEN [d EXCEPT !.link[w] = NoLink]
    ELSE [dir |-> [d.dir EXCEPT ![d.max + 1] = w],
          link |-> [d.link EXCEPT ![w] = <<s, d.max + 1>>],
          n |-> (d.n + 1) % ULong,
          max |-> d.max + 1]

\* Variant: a failing call leaves the pointer alone.
Unregistered_KeepsLink(d, w) == d

\* There is no memory for the link: only the pointer changes.
Unregistered(d, w) == [d EXCEPT !.link[w] = NoLink]

Assign(s, d) ==
    /\ folder' = [folder EXCEPT ![s] = d.dir]
    /\ worker_link' = d.link
    /\ n_workers' = [n_workers EXCEPT ![s] = d.n]
    /\ max_workers' = [max_workers EXCEPT ![s] = d.max]

\* One turn of the loop over the dequeued contexts.
LinkNext(s, failed, d, w) ==
    IF w \in failed THEN Unregistered(d, w) ELSE RegisterWorker(s, d, w)

\* What s works on after the loop over the contexts of q.
LinkAll(s, failed, q) ==
    LET made[i \in 0 .. Len(q)] ==
            IF i = 0 THEN Local(s) ELSE LinkNext(s, failed, made[i - 1], q[i])
    IN  made[Len(q)]

\* The contexts are dequeued and each gets a link.  That a link after the first
\* fails is not looked at.  The copy to the caller may fail after that.
DequeueLinksAll(s) ==
    /\ UmsComplistDqcontext(s)
    /\ list' # list
    /\ max_workers[s] + Len(list[CompList]) <= MaxNames
    /\ ~Refused(Local(s))
    /\ \E failed \in SUBSET {list[CompList][i] : i \in 2 .. Len(list[CompList])} :
        /\ link_faults + Cardinality(failed) <= MaxLinkFaults
        /\ link_faults' = link_faults + Cardinality(failed)
        /\ Assign(s, LinkAll(s, failed, list[CompList]))

\* There is no memory for the link of the first context, or its name is taken:
\* the context goes back.  Either way it is one of the MaxFaults failures of
\* the dequeue.
DequeueLinksNone(s) ==
    /\ UmsComplistDqcontext(s)
    /\ pc'[s] = "requeue"
    /\ Assign(s, Unregistered(Local(s), Head(list[CompList])))
    /\ UNCHANGED link_faults

\* The arguments cannot be read, and nothing is dequeued.
DequeueFails(s) ==
    /\ UmsComplistDqcontext(s)
    /\ list' = list
    /\ UNCHANGED linkVars

-----------------------------------------------------------------------------
(* Removing the link of a context that is executed.                        *)

\* Variant: the link is not removed.
UnregisterWorker_KeepsEntry(s, w) ==
    /\ n_workers' = [n_workers EXCEPT ![s] = (@ + ULong - 1) % ULong]
    /\ max_workers' = [max_workers EXCEPT ![s] = IF n_workers'[s] = 0 THEN 0 ELSE @]
    /\ UNCHANGED <<folder, worker_link, link_faults>>

\* The count goes down whether there was a link or not, and numbering starts
\* again when it gets to zero.  The pointer is left as it is.
UnregisterWorker(s, w) ==
    /\ folder' = IF worker_link[w] = NoLink THEN folder
                 ELSE [folder EXCEPT ![worker_link[w][1]][worker_link[w][2]] = NoLink]
    /\ n_workers' = [n_workers EXCEPT ![s] = (@ + ULong - 1) % ULong]
    /\ max_workers' = [max_workers EXCEPT ![s] = IF n_workers'[s] = 0 THEN 0 ELSE @]
    /\ UNCHANGED <<worker_link, link_faults>>

\* exec_ums_context removes the link before it switches.
ExecUnlinks(s) ==
    /\ ExecUmsContext(s)
    /\ \/ pc[s] = "switch" /\ UnregisterWorker(s, ctx[s])
       \/ pc[s] = "switch_wake" /\ UNCHANGED linkVars

-----------------------------------------------------------------------------

\* The steps of a scheduler that touch no link.
OtherStep(s) ==
    /\ \/ EnterUmsSchedulerMode(s)
       \/ UmsSchedDqevent(s)
       \/ GetNextContext(s)
       \/ ReregisterContext(s)
       \/ UmsComplistNextContext(s)
       \/ SchedulerResumes(s)
    /\ UNCHANGED linkVars

LinksNext ==
    \/ \E s \in Schedulers :
          \/ DequeueLinksAll(s)
          \/ DequeueLinksNone(s)
          \/ DequeueFails(s)
          \/ ExecUnlinks(s)
          \/ OtherStep(s)
          \/ Signal(s) /\ UNCHANGED linkVars
    \/ \E w \in Workers : WorkerStep(w) /\ UNCHANGED linkVars
    \/ MainReturns /\ UNCHANGED linkVars

LinksSpec == LinksInit /\ [][LinksNext]_<<vars, linkVars>>

-----------------------------------------------------------------------------
(* Properties.                                                             *)

LinksTypeOK ==
    /\ TypeOK
    /\ folder \in [Schedulers -> [Names -> Workers \cup {NoLink}]]
    /\ worker_link \in [Workers -> (Schedulers \X Names) \cup {NoLink}]
    /\ n_workers \in [Schedulers -> 0 .. ULong - 1]
    /\ max_workers \in [Schedulers -> 0 .. MaxNames]
    /\ link_faults \in 0 .. MaxLinkFaults

\* The workers s has dequeued and not yet executed.
Owned(s) ==
    {w \in Workers :
        \/ Linked(w, s)
        \/ pc[s] = "collect" /\ Linked(w, ctx[s])
        \/ pc[s] = "switch" /\ w = ctx[s]}

NamesOf(s, w) == {n \in Names : folder[s][n] = w}

\* Without failures the folder of a scheduler has one link for each worker it
\* owns and no other, and n_workers is their number
\* (doc/kernelspace/module/proc.rst:39, src/module/src/proc/scheduler.h:33),
\* at every step of the dequeue loop and while other schedulers dequeue.
FolderShowsOwned ==
    faults + link_faults = 0 =>
        \A s \in Schedulers :
            /\ \A w \in Workers :
                  Cardinality(NamesOf(s, w)) = IF w \in Owned(s) THEN 1 ELSE 0
            /\ n_workers[s] = Cardinality(Owned(s))

\* exec_ums_context never removes an entry that is gone, or the link of another
\* worker: the pointer it follows was set by the dequeue that handed the worker
\* to this scheduler, to a link that still exists or to null.  This is so after
\* any failures.
RemovesOwnLink ==
    \A s \in Schedulers : pc[s] = "switch" =>
        LET link == worker_link[ctx[s]]
        IN  link # NoLink => link[1] = s /\ folder[s][link[2]] = ctx[s]

\* No dequeue is refused because the name of its link is taken, as it would be
\* again each time it is tried.  A failing link makes the count too low, so that
\* numbering may start again while links are left; a failing call of the dequeue
\* loop leaves links behind for good.  It takes both for a name to be taken.
NextNameIsFree ==
    faults = 0 \/ link_faults = 0 =>
        \A s \in Schedulers :
            pc[s] = "dqcontext" /\ max_workers[s] < MaxNames => ~Refused(Local(s))
=============================================================================
