----------------------------- MODULE UmsModule -----------------------------
(***************************************************************************)
(* The module, its device and the hooks of the library, from insmod to     *)
(* rmmod: ums_init and ums_exit of src/module/src/ums_mod.c, open and      *)
(* release of src/module/src/device.c with the folders of proc/base.c, and *)
(* the constructor, fork handler and destructor of src/lib/src/hooks.c.    *)
(*                                                                         *)
(* A process is known by its pid.  What is done with an open device is     *)
(* reduced to what has to be gone before the module is: the events of its  *)
(* cache, and the RCU callbacks that run its code.                         *)
(***************************************************************************)
EXTENDS Naturals, FiniteSets

CONSTANTS
    Pids,          \* process ids
    Files,         \* open file descriptions of /dev/ums
    NoFile,        \* a descriptor that is not open: UMS_FILENO = -1
    MaxFaults,     \* bound: failing allocations
    MaxCallbacks   \* bound: RCU callbacks waiting at a time

ASSUME ModuleAssumption ==
    /\ NoFile \notin Files
    /\ {MaxFaults, MaxCallbacks} \subseteq Nat

VARIABLES
    mod,        \* how far the module is loaded or unloaded
    cache,      \* whether ums_event_cache exists
    misc,       \* whether the device is registered
    base,       \* whether ums_proc_base_dir exists
    pc,         \* where each process is in its hooks
    fileno,     \* UMS_FILENO
    leaked,     \* descriptors left open by exec
    dir,        \* the pid folder of each open file: where it is, and its name
    tree,       \* the pid folders there are
    used,       \* files with registered contexts, and events of theirs
    callbacks,  \* callbacks handed to call_rcu and not yet run
    early,      \* whether a file was opened before ums_proc_init was done
    crashed,    \* the kernel has followed a pointer to freed memory
    faults

vars == <<mod, cache, misc, base, pc, fileno, leaked, dir, tree, used, callbacks,
          early, crashed, faults>>

moduleVars == <<mod, cache, misc, base>>
processVars == <<pc, fileno, leaked>>
fileVars == <<dir, tree, used, callbacks, crashed>>

Stages == {"unloaded", "init_caches", "init_device", "live",
           "exit_barrier", "exit_device", "exit_caches", "exit_proc"}

PCs == {"none", "open", "opening", "ready", "forked"}

NoDir == <<>>
Dirs == {"proc", "ums"} \X Pids

Init ==
    /\ mod = "unloaded"
    /\ cache = FALSE
    /\ misc = FALSE
    /\ base = FALSE
    /\ pc = [p \in Pids |-> "none"]
    /\ fileno = [p \in Pids |-> NoFile]
    /\ leaked = [p \in Pids |-> {}]
    /\ dir = [f \in Files |-> NoDir]
    /\ tree = {}
    /\ used = {}
    /\ callbacks = 0
    /\ early = FALSE
    /\ crashed = FALSE
    /\ faults = 0

Fault ==
    /\ faults < MaxFaults
    /\ faults' = faults + 1

\* Nothing is said of what a kernel does after it has followed such a pointer.
Runs == ~crashed

\* The files a process holds open.
Held(p) == ({fileno[p]} \cup leaked[p]) \ {NoFile}

OpenFiles == UNION {Held(p) : p \in Pids}

-----------------------------------------------------------------------------
(* Loading and unloading the module.                                       *)

CachesInit ==
    /\ Runs
    /\ mod = "unloaded"
    /\ \/ mod' = "init_caches" /\ cache' = TRUE /\ UNCHANGED faults
       \/ Fault /\ UNCHANGED <<mod, cache>>
    /\ UNCHANGED <<misc, base, processVars, fileVars, early>>

\* From here on a process can open the device.
RegisterUmsDevice ==
    /\ Runs
    /\ mod = "init_caches"
    /\ \/ mod' = "init_device" /\ misc' = TRUE /\ UNCHANGED <<cache, faults>>
       \/ Fault /\ mod' = "unloaded" /\ cache' = FALSE /\ UNCHANGED misc
    /\ UNCHANGED <<base, processVars, fileVars, early>>

\* When this fails the module goes away, open files or not.
UmsProcInit ==
    /\ Runs
    /\ mod = "init_device"
    /\ \/ mod' = "live" /\ base' = TRUE /\ UNCHANGED <<misc, cache, faults>>
       \/ Fault /\ mod' = "unloaded" /\ misc' = FALSE /\ cache' = FALSE /\ UNCHANGED base
    /\ UNCHANGED <<processVars, fileVars, early>>

\* rmmod: an open file holds a reference to the owner of its operations.
Unload ==
    /\ Runs
    /\ mod = "live"
    /\ OpenFiles = {}
    /\ mod' = "exit_barrier"
    /\ UNCHANGED <<cache, misc, base, processVars, fileVars, early, faults>>

\* Variant: ums_exit does not wait.
RcuBarrier_Missing ==
    /\ Runs
    /\ mod = "exit_barrier"
    /\ mod' = "exit_device"
    /\ UNCHANGED <<cache, misc, base, processVars, fileVars, early, faults>>

RcuBarrier ==
    /\ Runs
    /\ mod = "exit_barrier"
    /\ callbacks = 0
    /\ mod' = "exit_device"
    /\ UNCHANGED <<cache, misc, base, processVars, fileVars, early, faults>>

UnregisterUmsDevice ==
    /\ Runs
    /\ mod = "exit_device"
    /\ mod' = "exit_caches"
    /\ misc' = FALSE
    /\ UNCHANGED <<cache, base, processVars, fileVars, early, faults>>

CachesDestroy ==
    /\ Runs
    /\ mod = "exit_caches"
    /\ mod' = "exit_proc"
    /\ cache' = FALSE
    /\ UNCHANGED <<misc, base, processVars, fileVars, early, faults>>

UmsProcDestroy ==
    /\ Runs
    /\ mod = "exit_proc"
    /\ mod' = "unloaded"
    /\ base' = FALSE
    /\ UNCHANGED <<cache, misc, processVars, fileVars, early, faults>>

RunCallback ==
    /\ Runs
    /\ callbacks > 0
    /\ callbacks' = callbacks - 1
    /\ UNCHANGED <<moduleVars, processVars, dir, tree, used, early, crashed, faults>>

-----------------------------------------------------------------------------
(* Opening and releasing the device.                                       *)

\* The tree of a file is removed.  The folders of schedulers and workers are
\* removed with their parent and then once more, through freed entries.
DirsDestroy(fs) ==
    /\ tree' = tree \ {dir[f] : f \in fs}
    /\ dir' = [f \in Files |-> IF f \in fs THEN NoDir ELSE dir[f]]
    /\ crashed' \in IF fs = {} THEN {crashed} ELSE BOOLEAN

\* ums_dev_open as far as the folders.  There is no device, or its module is on
\* its way out, or there is no memory, or the process has a folder already: the
\* open fails.
DevOpen(p) ==
    /\ Runs
    /\ pc[p] = "open"
    /\ \/ /\ misc
          /\ mod \in {"init_device", "live"}
          /\ LET d == <<IF base THEN "ums" ELSE "proc", p>>
             IN  /\ d \notin tree
                 /\ tree' = tree \cup {d}
                 /\ \E f \in Files \ OpenFiles :
                       /\ dir' = [dir EXCEPT ![f] = d]
                       /\ fileno' = [fileno EXCEPT ![p] = f]
          /\ pc' = [pc EXCEPT ![p] = "opening"]
          /\ early' = (early \/ mod = "init_device")
          /\ UNCHANGED faults
       \/ /\ \/ ~misc /\ UNCHANGED faults
             \/ mod \notin {"init_device", "live"} /\ UNCHANGED faults
             \/ <<IF base THEN "ums" ELSE "proc", p>> \in tree /\ UNCHANGED faults
             \/ misc /\ Fault
          /\ pc' = [pc EXCEPT ![p] = "ready"]
          /\ fileno' = [fileno EXCEPT ![p] = NoFile]
          /\ UNCHANGED <<dir, tree, early>>
    /\ UNCHANGED <<moduleVars, leaked, used, callbacks, crashed>>

\* Variant: the folders stay when a table cannot be made.
DevOpenTables_KeepsDirs(p) ==
    /\ Runs
    /\ pc[p] = "opening"
    /\ pc' = [pc EXCEPT ![p] = "ready"]
    /\ \/ UNCHANGED <<fileno, fileVars, faults>>
       \/ /\ Fault
          /\ fileno' = [fileno EXCEPT ![p] = NoFile]
          /\ dir' = [dir EXCEPT ![fileno[p]] = NoDir]
          /\ UNCHANGED <<tree, crashed, used, callbacks>>
    /\ UNCHANGED <<moduleVars, leaked, early>>

\* The rest of ums_dev_open, which undoes the folders when it fails.
DevOpenTables(p) ==
    /\ Runs
    /\ pc[p] = "opening"
    /\ pc' = [pc EXCEPT ![p] = "ready"]
    /\ \/ UNCHANGED <<fileno, fileVars, faults>>
       \/ /\ Fault
          /\ fileno' = [fileno EXCEPT ![p] = NoFile]
          /\ DirsDestroy({fileno[p]})
          /\ UNCHANGED <<used, callbacks>>
    /\ UNCHANGED <<moduleVars, leaked, early>>

\* A thread of the process enters UMS mode and gets an event.
EnterUms(p) ==
    /\ Runs
    /\ pc[p] = "ready"
    /\ fileno[p] # NoFile
    /\ callbacks + Cardinality(used \cup {fileno[p]}) <= MaxCallbacks
    /\ used' = used \cup {fileno[p]}
    /\ UNCHANGED <<moduleVars, processVars, dir, tree, callbacks, early, crashed, faults>>

\* A worker ends, and its context is freed by RCU.
LeaveUms(p) ==
    /\ Runs
    /\ pc[p] = "ready"
    /\ fileno[p] \in used
    /\ callbacks + Cardinality(used) < MaxCallbacks
    /\ callbacks' = callbacks + 1
    /\ UNCHANGED <<moduleVars, processVars, dir, tree, used, early, crashed, faults>>

\* Variant: the contexts are destroyed for every table.
DevRelease_Twice(fs) ==
    /\ used' = used \ fs
    /\ callbacks' = callbacks + 2 * Cardinality(fs \cap used)
    /\ DirsDestroy(fs)

\* ums_dev_release of files nobody holds any longer: events are freed, contexts
\* handed to RCU, folders removed.
DevRelease(fs) ==
    /\ used' = used \ fs
    /\ callbacks' = callbacks + Cardinality(fs \cap used)
    /\ DirsDestroy(fs)

\* The descriptors of p for the files fs are closed.
Close(p, fs) == DevRelease({f \in fs : \A q \in Pids \ {p} : f \notin Held(q)})

-----------------------------------------------------------------------------
(* The hooks of the library.                                               *)

\* A program linked with the library starts, and its constructor opens.
Start(p) ==
    /\ Runs
    /\ pc[p] = "none"
    /\ pc' = [pc EXCEPT ![p] = "open"]
    /\ UNCHANGED <<moduleVars, fileno, leaked, fileVars, early, faults>>

\* The child shares every open file of its parent.
Fork(p, c) ==
    /\ Runs
    /\ pc[p] = "ready"
    /\ pc[c] = "none"
    /\ pc' = [pc EXCEPT ![c] = "forked"]
    /\ fileno' = [fileno EXCEPT ![c] = fileno[p]]
    /\ leaked' = [leaked EXCEPT ![c] = leaked[p]]
    /\ UNCHANGED <<moduleVars, fileVars, early, faults>>

\* Variant: the child goes on with the descriptor it inherited.
AtforkChildHandler_Keeps(c) ==
    /\ Runs
    /\ pc[c] = "forked"
    /\ pc' = [pc EXCEPT ![c] = "ready"]
    /\ UNCHANGED <<moduleVars, fileno, leaked, fileVars, early, faults>>

\* The child closes the descriptor it inherited, then opens the device.
AtforkChildHandler(c) ==
    /\ Runs
    /\ pc[c] = "forked"
    /\ pc' = [pc EXCEPT ![c] = "open"]
    /\ fileno' = [fileno EXCEPT ![c] = NoFile]
    /\ Close(c, {fileno[c]} \ (leaked[c] \cup {NoFile}))
    /\ UNCHANGED <<moduleVars, leaked, early, faults>>

\* exec closes no descriptor that was opened without O_CLOEXEC, runs no
\* destructor, and the new program is linked with the library as well.
Exec(p) ==
    /\ Runs
    /\ pc[p] = "ready"
    /\ pc' = [pc EXCEPT ![p] = "open"]
    /\ leaked' = [leaked EXCEPT ![p] = Held(p)]
    /\ fileno' = [fileno EXCEPT ![p] = NoFile]
    /\ UNCHANGED <<moduleVars, fileVars, early, faults>>

\* The destructor closes the device, and the end of the process all the rest.
\* A process may be killed anywhere but inside a call.
Exit(p) ==
    /\ Runs
    /\ pc[p] \in {"open", "ready", "forked"}
    /\ pc' = [pc EXCEPT ![p] = "none"]
    /\ fileno' = [fileno EXCEPT ![p] = NoFile]
    /\ leaked' = [leaked EXCEPT ![p] = {}]
    /\ Close(p, Held(p))
    /\ UNCHANGED <<moduleVars, early, faults>>

-----------------------------------------------------------------------------

ModuleStep ==
    \/ CachesInit
    \/ RegisterUmsDevice
    \/ UmsProcInit
    \/ RcuBarrier
    \/ UnregisterUmsDevice
    \/ CachesDestroy
    \/ UmsProcDestroy

ProcessStep(p) ==
    \/ Start(p)
    \/ DevOpen(p)
    \/ DevOpenTables(p)
    \/ EnterUms(p)
    \/ LeaveUms(p)
    \/ AtforkChildHandler(p)
    \/ Exec(p)
    \/ Exit(p)

Next ==
    \/ ModuleStep
    \/ Unload
    \/ RunCallback
    \/ \E p \in Pids : ProcessStep(p)
    \/ \E p, c \in Pids : Fork(p, c)

Spec == Init /\ [][Next]_vars

-----------------------------------------------------------------------------
(* Properties.                                                             *)

TypeOK ==
    /\ mod \in Stages
    /\ {cache, misc, base, early, crashed} \subseteq BOOLEAN
    /\ pc \in [Pids -> PCs]
    /\ fileno \in [Pids -> Files \cup {NoFile}]
    /\ leaked \in [Pids -> SUBSET Files]
    /\ dir \in [Files -> Dirs \cup {NoDir}]
    /\ tree \subseteq Dirs
    /\ used \subseteq Files
    /\ callbacks \in 0 .. MaxCallbacks
    /\ faults \in 0 .. MaxFaults

\* The code of the module is there as long as it can be run: by an open file,
\* by an RCU callback left behind by a file already closed, and its cache as
\* long as it holds events.  rcu_barrier can come first in ums_exit because no
\* file is opened any more.  The one way to lose is an open that gets in before
\* ums_proc_init, which then fails.
ModuleOutlivesUse ==
    ~early =>
        /\ OpenFiles # {} \/ callbacks > 0 => mod # "unloaded"
        /\ OpenFiles # {} => mod = "live"
        /\ used # {} => cache

\* There is one tree for every open file and no other
\* (doc/kernelspace/module/proc.rst:11), also after failing opens, forks and
\* execs: trees are never shared, left behind, or removed with another file.
\* Only an open before ums_proc_init puts its tree elsewhere than /proc/ums.
OneTreePerFile ==
    ~crashed =>
        /\ tree = {dir[f] : f \in OpenFiles}
        /\ \A f, g \in OpenFiles : dir[f] = dir[g] => f = g
        /\ ~early => \A f \in OpenFiles : dir[f][1] = "ums" /\ base

\* Processes have "two separate pools of UMS resources"
\* (doc/userspace/internals/library_lifecycle.rst:43): whatever the order of
\* fork, exec, open and exit, no two processes that are past their hooks use
\* the same open file, and each uses the one it opened itself.
SeparatePools ==
    \A p \in Pids : pc[p] = "ready" /\ fileno[p] # NoFile =>
        /\ dir[fileno[p]][2] = p
        /\ \A q \in Pids \ {p} : pc[q] = "ready" => fileno[q] # fileno[p]
=============================================================================
