-------------------------- MODULE UmsModuleProofs --------------------------
(***************************************************************************)
(* Proofs about UmsModule, for any processes, any open files and any       *)
(* bounds on faults and callbacks.                                         *)
(*                                                                         *)
(* That the module outlives what runs its code, and that no two processes  *)
(* share a tree, are both consequences of where a process can be when it   *)
(* holds a file (Hooks), of what an open file has (Folders), and of what   *)
(* each stage of ums_init and ums_exit has set up (Loaded).                *)
(***************************************************************************)
EXTENDS UmsModule, FiniteSetTheorems, TLAPS

\* What the module has set up is told by how far it is loaded.
Loaded ==
    /\ misc <=> mod \in {"init_device", "live", "exit_barrier", "exit_device"}
    /\ cache <=> mod \notin {"unloaded", "exit_proc"}
    /\ base <=> mod \notin {"unloaded", "init_caches", "init_device"}

\* Only an open that came early is there outside "live", and callbacks are left
\* behind until rcu_barrier at most.
Outlives ==
    ~early =>
        /\ OpenFiles # {} => mod = "live"
        /\ callbacks > 0 => mod \in {"live", "exit_barrier"}
        /\ \A f \in OpenFiles : dir[f][1] = "ums"

\* A file has a folder while it is open, one that no other file has.
Folders ==
    /\ \A f \in Files : dir[f] # NoDir <=> f \in OpenFiles
    /\ \A f \in OpenFiles : dir[f] \in tree
    /\ \A d \in tree : \E f \in OpenFiles : dir[f] = d
    /\ \A f, g \in OpenFiles : dir[f] = dir[g] => f = g

\* Contexts belong to open files, and each file that has some will need one
\* more callback.
Contexts ==
    /\ used \subseteq OpenFiles
    /\ IsFiniteSet(used)
    /\ callbacks + Cardinality(used) <= MaxCallbacks

\* What a process holds at each place of its hooks.  A file that is still being
\* opened is its opener's alone.
Hooks ==
    \A p \in Pids :
        /\ pc[p] = "none" => fileno[p] = NoFile /\ leaked[p] = {}
        /\ pc[p] = "open" => fileno[p] = NoFile
        /\ pc[p] = "opening" =>
              /\ fileno[p] # NoFile
              /\ fileno[p] \notin leaked[p] \cup used
              /\ \A q \in Pids \ {p} : fileno[p] \notin Held(q)
        /\ pc[p] \in {"opening", "ready"} /\ fileno[p] # NoFile => dir[fileno[p]][2] = p

IInv ==
    /\ TypeOK
    /\ Loaded
    /\ Outlives
    /\ Folders
    /\ Contexts
    /\ Hooks

-----------------------------------------------------------------------------
(* What the operators of the model say.                                    *)

\* An open file is one that some process holds.
LEMMA OpenMembers ==
    \A f : f \in OpenFiles <=> \E p \in Pids : f \in Held(p)
BY DEF OpenFiles

\* The same after a step.
LEMMA OpenMembersNext ==
    \A f : f \in OpenFiles' <=> \E p \in Pids : f \in Held(p)'
BY DEF OpenFiles

\* Processes that keep their descriptors keep the same files open.
LEMMA SameFiles ==
    ASSUME UNCHANGED <<fileno, leaked>>
    PROVE  /\ OpenFiles' = OpenFiles
           /\ \A p \in Pids : Held(p)' = Held(p)
BY DEF OpenFiles, Held

\* What is held are files.
LEMMA HeldAreFiles ==
    ASSUME TypeOK
    PROVE  /\ OpenFiles \subseteq Files
           /\ \A p \in Pids : Held(p) \subseteq Files
BY DEF TypeOK, OpenFiles, Held

\* A folder is not the mark of a file without one.
LEMMA DirIsNotNoDir == NoDir \notin Dirs
BY DEF NoDir, Dirs

\* Before the module is loaded nothing is open.
LEMMA InitIInv == Init => IInv
<1> SUFFICES ASSUME Init PROVE IInv
    OBVIOUS
<1>1. TypeOK
  <2>1. {cache, misc, base, early, crashed} \subseteq BOOLEAN
      BY Zenon DEF Init
  <2>2. /\ mod \in Stages
        /\ pc \in [Pids -> PCs]
        /\ fileno \in [Pids -> Files \cup {NoFile}]
        /\ leaked \in [Pids -> SUBSET Files]
        /\ dir \in [Files -> Dirs \cup {NoDir}]
        /\ tree \subseteq Dirs
        /\ used \subseteq Files
      BY DEF Init, Stages, PCs
  <2>3. callbacks \in 0 .. MaxCallbacks /\ faults \in 0 .. MaxFaults
      BY ModuleAssumption DEF Init
  <2> QED
      BY <2>1, <2>2, <2>3 DEF TypeOK
<1>2. OpenFiles = {}
    BY DEF Init, OpenFiles, Held
<1>3. Loaded
    BY DEF Init, Loaded
<1>6. Outlives
    BY <1>2 DEF Init, Outlives
<1>7. Folders
    BY <1>2 DEF Init, Folders
<1>4. Contexts
    BY <1>2, FS_EmptySet, ModuleAssumption DEF Init, Contexts
<1>5. Hooks
    BY DEF Init, Hooks
<1> QED
    BY <1>1, <1>3, <1>4, <1>5, <1>6, <1>7 DEF IInv

-----------------------------------------------------------------------------
(* Loading and unloading.                                                  *)

\* The steps of ums_init and ums_exit, and rmmod, touch no process and no
\* file.  ums_proc_init fails beside an open file only when the open was early.
LEMMA LoadingStep ==
    ASSUME IInv, ModuleStep \/ Unload
    PROVE  IInv'
<1> USE DEF IInv
<1>1. /\ UNCHANGED <<pc, fileno, leaked>>
      /\ UNCHANGED <<dir, tree, used, callbacks, crashed, early>>
    BY DEF ModuleStep, Unload, CachesInit, RegisterUmsDevice, UmsProcInit, RcuBarrier,
       UnregisterUmsDevice, CachesDestroy, UmsProcDestroy, processVars, fileVars
<1>2. /\ OpenFiles' = OpenFiles
      /\ \A p \in Pids : Held(p)' = Held(p)
    BY <1>1, SameFiles
<1>3. faults' \in 0 .. MaxFaults
    BY ModuleAssumption DEF ModuleStep, Unload, CachesInit, RegisterUmsDevice, UmsProcInit,
       RcuBarrier, UnregisterUmsDevice, CachesDestroy, UmsProcDestroy, Fault, TypeOK
<1>4. /\ mod' \in Stages
      /\ {cache', misc', base'} \subseteq BOOLEAN
      /\ Loaded'
  <2>1. cache \in BOOLEAN /\ misc \in BOOLEAN /\ base \in BOOLEAN
      BY Zenon DEF TypeOK
  <2>2. mod' \in Stages
      BY DEF ModuleStep, Unload, CachesInit, RegisterUmsDevice, UmsProcInit, RcuBarrier,
         UnregisterUmsDevice, CachesDestroy, UmsProcDestroy, TypeOK, Stages
  <2>3. cache' \in BOOLEAN /\ misc' \in BOOLEAN /\ base' \in BOOLEAN
      BY <2>1, Zenon DEF ModuleStep, Unload, CachesInit, RegisterUmsDevice, UmsProcInit,
         RcuBarrier, UnregisterUmsDevice, CachesDestroy, UmsProcDestroy
  <2>4. Loaded'
      BY <2>1 DEF ModuleStep, Unload, CachesInit, RegisterUmsDevice, UmsProcInit, RcuBarrier,
         UnregisterUmsDevice, CachesDestroy, UmsProcDestroy, Loaded
  <2>5. {cache', misc', base'} \subseteq BOOLEAN
      BY <2>3, Zenon
  <2> QED
      BY <2>2, <2>4, <2>5
<1>5. TypeOK'
    BY <1>1, <1>3, <1>4 DEF TypeOK
<1>6. Outlives'
  <2>1. ~early /\ OpenFiles # {} => mod' = "live"
      BY DEF ModuleStep, Unload, CachesInit, RegisterUmsDevice, UmsProcInit, RcuBarrier,
         UnregisterUmsDevice, CachesDestroy, UmsProcDestroy, Outlives
  <2>2. ~early /\ callbacks > 0 => mod' \in {"live", "exit_barrier"}
      BY DEF ModuleStep, Unload, CachesInit, RegisterUmsDevice, UmsProcInit, RcuBarrier,
         UnregisterUmsDevice, CachesDestroy, UmsProcDestroy, Outlives, TypeOK
  <2> QED
      BY <1>1, <1>2, <2>1, <2>2 DEF Outlives
<1>7. Folders' /\ Contexts'
    BY <1>1, <1>2 DEF Folders, Contexts
<1>8. Hooks'
    BY <1>1, <1>2 DEF Hooks
<1> QED
    BY <1>4, <1>5, <1>6, <1>7, <1>8

\* A callback that runs is one callback less.
LEMMA RunCallbackStep ==
    ASSUME IInv, RunCallback
    PROVE  IInv'
<1> USE DEF IInv
<1>1. /\ UNCHANGED <<mod, cache, misc, base, pc, fileno, leaked>>
      /\ UNCHANGED <<dir, tree, used, early, crashed, faults>>
      /\ callbacks > 0
      /\ callbacks' = callbacks - 1
    BY DEF RunCallback, moduleVars, processVars
<1>2. /\ OpenFiles' = OpenFiles
      /\ \A p \in Pids : Held(p)' = Held(p)
    BY <1>1, SameFiles
<1>3. TypeOK' /\ Loaded' /\ Outlives'
    BY <1>1, <1>2, ModuleAssumption DEF TypeOK, Loaded, Outlives
<1>4. Folders' /\ Hooks'
    BY <1>1, <1>2 DEF Folders, Hooks
<1>5. Cardinality(used) \in Nat
    BY FS_CardinalityType DEF Contexts
<1>6. Contexts'
    BY <1>1, <1>2, <1>5, ModuleAssumption DEF Contexts, TypeOK
<1> QED
    BY <1>3, <1>4, <1>6

-----------------------------------------------------------------------------
(* Closing.                                                                *)

\* ums_dev_release frees what the files fs have: their contexts become
\* callbacks, one each, and their folders are nobody else's.
LEMMA Released ==
    ASSUME IInv, NEW fs \in SUBSET OpenFiles, OpenFiles' = OpenFiles \ fs,
           DevRelease(fs), UNCHANGED <<mod, early>>
    PROVE  /\ dir' \in [Files -> Dirs \cup {NoDir}]
           /\ tree' \subseteq Dirs
           /\ used' \subseteq used
           /\ callbacks' \in 0 .. MaxCallbacks
           /\ crashed' \in BOOLEAN
           /\ \A f \in Files \ fs : dir'[f] = dir[f]
           /\ Outlives' /\ Folders' /\ Contexts'
<1> USE DEF IInv
<1>1. /\ used' = used \ fs
      /\ callbacks' = callbacks + Cardinality(fs \cap used)
      /\ tree' = tree \ {dir[f] : f \in fs}
      /\ dir' = [f \in Files |-> IF f \in fs THEN NoDir ELSE dir[f]]
    BY DEF DevRelease, DirsDestroy
<1>2. crashed' \in BOOLEAN
  <2>1. crashed \in BOOLEAN
      BY Zenon DEF TypeOK
  <2> QED
      BY <2>1, Zenon DEF DevRelease, DirsDestroy
<1>3. OpenFiles \subseteq Files
    BY HeldAreFiles
<1>4. /\ dir' \in [Files -> Dirs \cup {NoDir}]
      /\ \A f \in Files : dir'[f] = IF f \in fs THEN NoDir ELSE dir[f]
      /\ tree' \subseteq Dirs
    BY <1>1 DEF TypeOK
<1>5. /\ IsFiniteSet(used')
      /\ Cardinality(used') = Cardinality(used) - Cardinality(used \cap fs)
      /\ IsFiniteSet(used \cap fs)
    BY <1>1, FS_Difference, FS_Intersection, Zenon DEF Contexts
<1>6. /\ Cardinality(used) \in Nat
      /\ Cardinality(used') \in Nat
      /\ Cardinality(used \cap fs) \in Nat
    BY <1>5, FS_CardinalityType DEF Contexts
<1>7. callbacks' = callbacks + Cardinality(used \cap fs)
  <2>1. fs \cap used = used \cap fs
      OBVIOUS
  <2> QED
      BY <1>1, <2>1
<1>8. Contexts' /\ callbacks' \in 0 .. MaxCallbacks
  <2>1. used' \subseteq OpenFiles'
      BY <1>1 DEF Contexts
  <2>2. callbacks' + Cardinality(used') = callbacks + Cardinality(used)
      BY <1>5, <1>6, <1>7 DEF TypeOK
  <2> QED
      BY <1>5, <1>6, <1>7, <2>1, <2>2, ModuleAssumption DEF Contexts, TypeOK
<1>9. Outlives'
  <2>1. OpenFiles' # {} => OpenFiles # {}
      OBVIOUS
  <2>2. callbacks' > 0 => callbacks > 0 \/ OpenFiles # {}
    <3>1. OpenFiles = {} => used \cap fs = {}
        OBVIOUS
    <3> QED
        BY <1>7, <3>1, FS_EmptySet DEF TypeOK
  <2>3. \A f \in OpenFiles' : dir'[f] = dir[f]
      BY <1>3, <1>4
  <2> QED
      BY <2>1, <2>2, <2>3 DEF Outlives
<1>10. Folders'
  <2>1. \A f \in Files : dir'[f] # NoDir <=> f \in OpenFiles'
      BY <1>3, <1>4 DEF Folders
  <2>2. \A f \in OpenFiles' : dir'[f] = dir[f]
      BY <1>3, <1>4
  <2>3. \A f \in OpenFiles' : dir'[f] \in tree'
      BY <1>1, <2>2 DEF Folders
  <2>4. ASSUME NEW d \in tree' PROVE \E f \in OpenFiles' : dir'[f] = d
    <3>1. PICK f \in OpenFiles : dir[f] = d
        BY <1>1 DEF Folders
    <3>2. f \notin fs
        BY <1>1, <3>1
    <3> QED
        BY <2>2, <3>1, <3>2
  <2>5. \A f, g \in OpenFiles' : dir'[f] = dir'[g] => f = g
      BY <2>2 DEF Folders
  <2> QED
      BY <2>1, <2>3, <2>4, <2>5 DEF Folders
<1> QED
    BY <1>1, <1>2, <1>4, <1>8, <1>9, <1>10

\* A process gives up UMS_FILENO and keeps the descriptors kept; the files it
\* was the last to hold are released.
LEMMA Closes ==
    ASSUME IInv, NEW p \in Pids, NEW label \in {"none", "open", "ready"},
           NEW kept \in SUBSET leaked[p],
           label = "none" => kept = {},
           pc' = [pc EXCEPT ![p] = label],
           fileno' = [fileno EXCEPT ![p] = NoFile],
           leaked' = [leaked EXCEPT ![p] = kept],
           Close(p, Held(p) \ kept),
           faults' \in 0 .. MaxFaults,
           UNCHANGED <<mod, cache, misc, base, early>>
    PROVE  IInv'
<1> USE DEF IInv
<1> DEFINE fs == {f \in Held(p) \ kept : \A q \in Pids \ {p} : f \notin Held(q)}
<1>1. /\ fileno'[p] = NoFile /\ leaked'[p] = kept /\ pc'[p] = label
      /\ \A q \in Pids \ {p} :
            fileno'[q] = fileno[q] /\ leaked'[q] = leaked[q] /\ pc'[q] = pc[q]
    BY Zenon DEF TypeOK
<1>2. Held(p)' = kept /\ \A q \in Pids \ {p} : Held(q)' = Held(q)
  <2>1. NoFile \notin kept
      BY ModuleAssumption DEF TypeOK
  <2> QED
      BY <1>1, <2>1 DEF Held
<1>3. kept \subseteq Held(p)
    BY ModuleAssumption DEF Held, TypeOK
<1>4. fs \in SUBSET OpenFiles /\ OpenFiles' = OpenFiles \ fs
    BY <1>2, <1>3, OpenMembers, OpenMembersNext
<1>5. DevRelease(fs)
    BY DEF Close
<1> HIDE DEF fs
<1>6. /\ dir' \in [Files -> Dirs \cup {NoDir}]
      /\ tree' \subseteq Dirs
      /\ used' \subseteq used
      /\ callbacks' \in 0 .. MaxCallbacks
      /\ crashed' \in BOOLEAN
      /\ \A f \in Files \ fs : dir'[f] = dir[f]
      /\ Outlives' /\ Folders' /\ Contexts'
    BY <1>4, <1>5, Released
<1>7. TypeOK'
  <2>1. {cache', misc', base', early', crashed'} \subseteq BOOLEAN
      BY <1>6, Zenon DEF TypeOK
  <2> QED
      BY <1>6, <2>1 DEF TypeOK, PCs
<1>8. Loaded'
    BY DEF Loaded
<1>9. Hooks'
  <2> SUFFICES ASSUME NEW q \in Pids
               PROVE  /\ pc'[q] = "none" => fileno'[q] = NoFile /\ leaked'[q] = {}
                      /\ pc'[q] = "open" => fileno'[q] = NoFile
                      /\ pc'[q] = "opening" =>
                            /\ fileno'[q] # NoFile
                            /\ fileno'[q] \notin leaked'[q] \cup used'
                            /\ \A r \in Pids \ {q} : fileno'[q] \notin Held(r)'
                      /\ pc'[q] \in {"opening", "ready"} /\ fileno'[q] # NoFile =>
                            dir'[fileno'[q]][2] = q
      BY DEF Hooks
  <2>1. CASE q = p
      BY <1>1, <2>1
  <2>2. CASE q # p
    <3>1. pc'[q] = pc[q] /\ fileno'[q] = fileno[q] /\ leaked'[q] = leaked[q]
        BY <1>1, <2>2
    <3>2. \A r \in Pids : Held(r)' \subseteq Held(r)
        BY <1>2, <1>3
    <3>3. fileno[q] # NoFile => fileno[q] \in Files \ fs
        BY <2>2 DEF fs, Held, TypeOK
    <3>4. fileno[q] # NoFile => dir'[fileno[q]] = dir[fileno[q]]
        BY <1>6, <3>3, Zenon
    <3> QED
        BY <1>6, <3>1, <3>2, <3>4 DEF Hooks
  <2> QED
      BY <2>1, <2>2
<1> QED
    BY <1>6, <1>7, <1>8, <1>9

\* The end of a process closes all it holds.
LEMMA ExitStep ==
    ASSUME IInv, NEW p \in Pids, Exit(p)
    PROVE  IInv'
<1>1. Close(p, Held(p) \ {})
  <2>1. Held(p) \ {} = Held(p)
      OBVIOUS
  <2> QED
      BY <2>1 DEF Exit
<1>2. /\ pc' = [pc EXCEPT ![p] = "none"]
      /\ fileno' = [fileno EXCEPT ![p] = NoFile]
      /\ leaked' = [leaked EXCEPT ![p] = {}]
      /\ UNCHANGED <<mod, cache, misc, base, early, faults>>
    BY DEF Exit, moduleVars
<1>3. faults' \in 0 .. MaxFaults
    BY <1>2 DEF IInv, TypeOK
<1> QED
    BY <1>1, <1>2, <1>3, Closes, Zenon

\* The child of a fork closes what it inherited in UMS_FILENO, but not the file
\* when its parent still has it.
LEMMA AtforkChildHandlerStep ==
    ASSUME IInv, NEW c \in Pids, AtforkChildHandler(c)
    PROVE  IInv'
<1>1. Close(c, Held(c) \ leaked[c])
  <2>1. {fileno[c]} \ (leaked[c] \cup {NoFile}) = Held(c) \ leaked[c]
      BY DEF Held
  <2> QED
      BY <2>1 DEF AtforkChildHandler
<1>2. /\ pc' = [pc EXCEPT ![c] = "open"]
      /\ fileno' = [fileno EXCEPT ![c] = NoFile]
      /\ UNCHANGED <<mod, cache, misc, base, leaked, early, faults>>
    BY DEF AtforkChildHandler, moduleVars
<1>3. leaked' = [leaked EXCEPT ![c] = leaked[c]]
    BY <1>2 DEF IInv, TypeOK
<1>4. faults' \in 0 .. MaxFaults
    BY <1>2 DEF IInv, TypeOK
<1> QED
    BY <1>1, <1>2, <1>3, <1>4, Closes, Zenon

\* When ums_dev_open fails it undoes the folders of a file that nobody else
\* holds and that has no contexts yet; when it succeeds nothing moves.
LEMMA DevOpenTablesStep ==
    ASSUME IInv, NEW p \in Pids, DevOpenTables(p)
    PROVE  IInv'
<1> USE DEF IInv
<1>1. /\ pc[p] = "opening"
      /\ pc' = [pc EXCEPT ![p] = "ready"]
      /\ UNCHANGED <<mod, cache, misc, base, leaked, early>>
    BY DEF DevOpenTables, moduleVars
<1>2. CASE UNCHANGED <<fileno, fileVars, faults>>
  <2>1. UNCHANGED <<fileno, dir, tree, used, callbacks, crashed, faults>>
      BY <1>2 DEF fileVars
  <2>2. /\ OpenFiles' = OpenFiles
        /\ \A q \in Pids : Held(q)' = Held(q)
      BY <1>1, <2>1, SameFiles
  <2>3. TypeOK'
      BY <1>1, <2>1, Zenon DEF TypeOK, PCs
  <2>4. Loaded' /\ Outlives'
      BY <1>1, <2>1, <2>2 DEF Loaded, Outlives
  <2>5. Folders' /\ Contexts'
      BY <2>1, <2>2, SMTT(60), Z3T(60) DEF Folders, Contexts
  <2>6. Hooks'
      BY <1>1, <2>1, <2>2 DEF Hooks, TypeOK
  <2> QED
      BY <2>3, <2>4, <2>5, <2>6
<1>3. CASE /\ Fault
           /\ fileno' = [fileno EXCEPT ![p] = NoFile]
           /\ DirsDestroy({fileno[p]})
           /\ UNCHANGED <<used, callbacks>>
  <2>1. /\ fileno[p] \in Files
        /\ fileno[p] \notin leaked[p] \cup used
        /\ \A q \in Pids \ {p} : fileno[p] \notin Held(q)
      BY <1>1, Zenon DEF Hooks, TypeOK
  <2>2. Held(p) \ leaked[p] = {fileno[p]}
      BY <2>1, ModuleAssumption DEF Held
  <2>3. {f \in Held(p) \ leaked[p] : \A q \in Pids \ {p} : f \notin Held(q)} = {fileno[p]}
      BY <2>1, <2>2
  <2>4. DevRelease({fileno[p]})
    <3>1. used' = used \ {fileno[p]}
        BY <1>3, <2>1
    <3>2. {fileno[p]} \cap used = {}
        BY <2>1
    <3>3. callbacks' = callbacks + Cardinality({fileno[p]} \cap used)
        BY <1>3, <3>2, FS_EmptySet, SMTT(60), Z3T(60) DEF TypeOK
    <3> QED
        BY <1>3, <3>1, <3>3 DEF DevRelease
  <2>5. Close(p, Held(p) \ leaked[p])
      BY <2>3, <2>4, Zenon DEF Close
  <2>6. leaked' = [leaked EXCEPT ![p] = leaked[p]]
      BY <1>1 DEF TypeOK
  <2>7. faults' \in 0 .. MaxFaults
      BY <1>3, ModuleAssumption DEF Fault, TypeOK
  <2> QED
      BY <1>1, <1>3, <2>5, <2>6, <2>7, Closes, Zenon
<1> QED
    BY <1>2, <1>3 DEF DevOpenTables

-----------------------------------------------------------------------------
(* Opening and using.                                                      *)

\* A program starts with nothing open.
LEMMA StartStep ==
    ASSUME IInv, NEW p \in Pids, Start(p)
    PROVE  IInv'
<1> USE DEF IInv
<1>1. /\ pc[p] = "none"
      /\ pc' = [pc EXCEPT ![p] = "open"]
      /\ UNCHANGED <<mod, cache, misc, base, fileno, leaked>>
      /\ UNCHANGED <<dir, tree, used, callbacks, crashed, early, faults>>
    BY DEF Start, moduleVars, fileVars
<1>2. /\ OpenFiles' = OpenFiles
      /\ \A q \in Pids : Held(q)' = Held(q)
    BY <1>1, SameFiles
<1>3. TypeOK'
    BY <1>1 DEF TypeOK, PCs
<1>4. Loaded' /\ Outlives'
    BY <1>1, <1>2, Zenon DEF Loaded, Outlives
<1>5. Folders' /\ Contexts'
    BY <1>1, <1>2, SMTT(60), Z3T(60) DEF Folders, Contexts
<1>6. Hooks'
    BY <1>1, <1>2 DEF Hooks, TypeOK
<1> QED
    BY <1>3, <1>4, <1>5, <1>6

\* An open that fails leaves the process ready, without a file.
LEMMA DevOpenFails ==
    ASSUME IInv, NEW p \in Pids,
           pc[p] = "open",
           pc' = [pc EXCEPT ![p] = "ready"],
           fileno' = [fileno EXCEPT ![p] = NoFile],
           faults' \in 0 .. MaxFaults,
           UNCHANGED <<mod, cache, misc, base, leaked>>,
           UNCHANGED <<dir, tree, used, callbacks, crashed, early>>
    PROVE  IInv'
<1> USE DEF IInv
<1>1. UNCHANGED fileno
    BY DEF Hooks, TypeOK
<1>2. /\ OpenFiles' = OpenFiles
      /\ \A q \in Pids : Held(q)' = Held(q)
    BY <1>1, SameFiles
<1>3. TypeOK'
    BY <1>1 DEF TypeOK, PCs
<1>4. Loaded' /\ Outlives'
    BY <1>1, <1>2 DEF Loaded, Outlives
<1>5. Folders' /\ Contexts'
    BY <1>1, <1>2, SMTT(60), Z3T(60) DEF Folders, Contexts
<1>6. Hooks'
    BY <1>1, <1>2 DEF Hooks, TypeOK
<1> QED
    BY <1>3, <1>4, <1>5, <1>6

\* An open takes a file that nobody holds and a folder that is not there yet.
\* It is early unless ums_proc_init is done, and then the folder is in
\* /proc/ums.
LEMMA DevOpenSucceeds ==
    ASSUME IInv, NEW p \in Pids, NEW f \in Files \ OpenFiles, NEW d,
           pc[p] = "open",
           mod \in {"init_device", "live"},
           d = <<IF base THEN "ums" ELSE "proc", p>>,
           d \notin tree,
           tree' = tree \cup {d},
           dir' = [dir EXCEPT ![f] = d],
           fileno' = [fileno EXCEPT ![p] = f],
           pc' = [pc EXCEPT ![p] = "opening"],
           early' = (early \/ mod = "init_device"),
           UNCHANGED <<mod, cache, misc, base, leaked, used, callbacks, crashed, faults>>
    PROVE  IInv'
<1> USE DEF IInv
<1>1. d \in Dirs /\ d[2] = p /\ (base => d[1] = "ums")
    BY DEF Dirs
<1>2. d # NoDir
    BY <1>1, DirIsNotNoDir
<1>3. /\ fileno[p] = NoFile
      /\ fileno'[p] = f /\ pc'[p] = "opening"
      /\ \A q \in Pids \ {p} : fileno'[q] = fileno[q] /\ pc'[q] = pc[q]
    BY DEF TypeOK, Hooks
<1>4. /\ Held(p)' = Held(p) \cup {f}
      /\ \A q \in Pids \ {p} : Held(q)' = Held(q)
    BY <1>3, ModuleAssumption DEF Held
<1>5. OpenFiles' = OpenFiles \cup {f}
    BY <1>4, OpenMembers, OpenMembersNext
<1>6. OpenFiles \subseteq Files
    BY HeldAreFiles
<1>7. dir'[f] = d /\ \A g \in Files \ {f} : dir'[g] = dir[g]
    BY DEF TypeOK
<1>8. TypeOK'
  <2>1. {cache', misc', base', early', crashed'} \subseteq BOOLEAN
    <3>1. early' \in BOOLEAN
        OBVIOUS
    <3> QED
        BY <3>1, Zenon DEF TypeOK
  <2>2. dir' \in [Files -> Dirs \cup {NoDir}] /\ tree' \subseteq Dirs
      BY <1>1 DEF TypeOK
  <2> QED
      BY <2>1, <2>2, Zenon DEF TypeOK, PCs
<1>9. Loaded'
    BY DEF Loaded
<1>10. Outlives'
  <2>1. ~early' => ~early /\ mod = "live"
      BY Zenon
  <2>2. mod = "live" => base
      BY DEF Loaded
  <2> QED
      BY <1>1, <1>5, <1>6, <1>7, <2>1, <2>2 DEF Outlives
<1>11. Folders'
  <2>1. \A g \in OpenFiles : dir'[g] = dir[g] /\ dir[g] \in tree
      BY <1>6, <1>7 DEF Folders
  <2>2. \A g \in Files : dir'[g] # NoDir <=> g \in OpenFiles'
      BY <1>2, <1>5, <1>7 DEF Folders
  <2>3. \A g \in OpenFiles' : dir'[g] \in tree'
      BY <1>5, <1>7, <2>1
  <2>4. \A e \in tree' : \E g \in OpenFiles' : dir'[g] = e
      BY <1>5, <1>7, <2>1 DEF Folders
  <2>5. \A g, h \in OpenFiles' : dir'[g] = dir'[h] => g = h
      BY <1>5, <1>7, <2>1 DEF Folders
  <2> QED
      BY <2>2, <2>3, <2>4, <2>5, Zenon DEF Folders
<1>12. Contexts'
    BY <1>5 DEF Contexts
<1>13. Hooks'
  <2> SUFFICES ASSUME NEW q \in Pids
               PROVE  /\ pc'[q] = "none" => fileno'[q] = NoFile /\ leaked'[q] = {}
                      /\ pc'[q] = "open" => fileno'[q] = NoFile
                      /\ pc'[q] = "opening" =>
                            /\ fileno'[q] # NoFile
                            /\ fileno'[q] \notin leaked'[q] \cup used'
                            /\ \A r \in Pids \ {q} : fileno'[q] \notin Held(r)'
                      /\ pc'[q] \in {"opening", "ready"} /\ fileno'[q] # NoFile =>
                            dir'[fileno'[q]][2] = q
      BY Zenon DEF Hooks
  <2>1. \A r \in Pids : f \notin Held(r)
      BY OpenMembers, SMTT(60), Z3T(60)
  <2>2. CASE q = p
    <3>1. f # NoFile /\ f \notin used
        BY ModuleAssumption DEF Contexts
    <3>2. f \notin leaked[p]
        BY <2>1, <3>1, Zenon DEF Held
    <3> QED
        BY <1>1, <1>3, <1>4, <1>7, <2>1, <2>2, <3>1, <3>2, SMTT(60), Z3T(60)
  <2>3. CASE q # p
    <3>1. fileno'[q] = fileno[q] /\ pc'[q] = pc[q]
        BY <1>3, <2>3
    <3>2. fileno[q] # NoFile => fileno[q] \in Files \ {f}
        BY <2>1 DEF Held, TypeOK
    <3>3. fileno[q] # NoFile => dir'[fileno[q]] = dir[fileno[q]]
        BY <1>7, <3>2, SMTT(60), Z3T(60)
    <3> QED
        BY <1>4, <2>3, <3>1, <3>2, <3>3 DEF Hooks
  <2> QED
      BY <2>2, <2>3, Zenon
<1> QED
    BY <1>8, <1>9, <1>10, <1>11, <1>12, <1>13

\* ums_dev_open as far as the folders.
LEMMA DevOpenStep ==
    ASSUME IInv, NEW p \in Pids, DevOpen(p)
    PROVE  IInv'
<1> DEFINE d == <<IF base THEN "ums" ELSE "proc", p>>
<1>1. /\ pc[p] = "open"
      /\ UNCHANGED <<mod, cache, misc, base, leaked, used, callbacks, crashed>>
    BY DEF DevOpen, moduleVars
<1>2. CASE /\ mod \in {"init_device", "live"}
           /\ d \notin tree
           /\ tree' = tree \cup {d}
           /\ \E f \in Files \ OpenFiles :
                 /\ dir' = [dir EXCEPT ![f] = d]
                 /\ fileno' = [fileno EXCEPT ![p] = f]
           /\ pc' = [pc EXCEPT ![p] = "opening"]
           /\ early' = (early \/ mod = "init_device")
           /\ UNCHANGED faults
    BY <1>1, <1>2, DevOpenSucceeds, Zenon
<1>3. CASE /\ Fault \/ UNCHANGED faults
           /\ pc' = [pc EXCEPT ![p] = "ready"]
           /\ fileno' = [fileno EXCEPT ![p] = NoFile]
           /\ UNCHANGED <<dir, tree, early>>
  <2>1. faults' \in 0 .. MaxFaults
      BY <1>3, ModuleAssumption DEF Fault, IInv, TypeOK
  <2> QED
      BY <1>1, <1>3, <2>1, DevOpenFails, Zenon
<1> QED
    BY <1>2, <1>3 DEF DevOpen

\* A file that a process uses is open, so its first context is one callback
\* more that may be needed.
LEMMA EnterUmsStep ==
    ASSUME IInv, NEW p \in Pids, EnterUms(p)
    PROVE  IInv'
<1> USE DEF IInv
<1>1. /\ pc[p] = "ready"
      /\ fileno[p] # NoFile
      /\ callbacks + Cardinality(used \cup {fileno[p]}) <= MaxCallbacks
      /\ used' = used \cup {fileno[p]}
      /\ UNCHANGED <<mod, cache, misc, base, pc, fileno, leaked>>
      /\ UNCHANGED <<dir, tree, callbacks, early, crashed, faults>>
    BY Zenon DEF EnterUms, moduleVars, processVars
<1>2. /\ OpenFiles' = OpenFiles
      /\ \A q \in Pids : Held(q)' = Held(q)
    BY <1>1, SameFiles, Zenon
<1>3. fileno[p] \in Held(p) /\ fileno[p] \in OpenFiles /\ fileno[p] \in Files
    BY <1>1, OpenMembers, Zenon DEF Held, TypeOK
<1>4. TypeOK'
    BY <1>1, <1>3, Zenon DEF TypeOK
<1>5. Loaded' /\ Outlives'
    BY <1>1, <1>2, Zenon DEF Loaded, Outlives
<1>6. Folders'
    BY <1>1, <1>2, Zenon DEF Folders
<1>7. Contexts'
    BY <1>1, <1>2, <1>3, FS_AddElement, Zenon DEF Contexts
<1>8. Hooks'
    BY <1>1, <1>2, <1>3, Zenon DEF Hooks
<1> QED
    BY <1>4, <1>5, <1>6, <1>7, <1>8

\* A worker ends only where a file is open, so the module is live.
LEMMA LeaveUmsStep ==
    ASSUME IInv, NEW p \in Pids, LeaveUms(p)
    PROVE  IInv'
<1> USE DEF IInv
<1>1. /\ fileno[p] \in used
      /\ callbacks + Cardinality(used) < MaxCallbacks
      /\ callbacks' = callbacks + 1
      /\ UNCHANGED <<mod, cache, misc, base, pc, fileno, leaked>>
      /\ UNCHANGED <<dir, tree, used, early, crashed, faults>>
    BY Zenon DEF LeaveUms, moduleVars, processVars
<1>2. /\ OpenFiles' = OpenFiles
      /\ \A q \in Pids : Held(q)' = Held(q)
    BY <1>1, SameFiles
<1>3. Cardinality(used) \in Nat
    BY FS_CardinalityType, SMTT(60), Z3T(60) DEF Contexts
<1>4. TypeOK' /\ Contexts'
    BY <1>1, <1>2, <1>3, ModuleAssumption, SMTT(60), Z3T(60) DEF TypeOK, Contexts
<1>5. Loaded' /\ Outlives'
    BY <1>1, <1>2, SMTT(60), Z3T(60) DEF Loaded, Outlives, Contexts
<1>6. Folders' /\ Hooks'
    BY <1>1, <1>2 DEF Folders, Hooks
<1> QED
    BY <1>4, <1>5, <1>6

-----------------------------------------------------------------------------
(* fork and exec.                                                          *)

\* A child holds what its parent holds, and only a ready parent forks: no file
\* that is still being opened gets a second owner.
LEMMA ForkStep ==
    ASSUME IInv, NEW p \in Pids, NEW c \in Pids, Fork(p, c)
    PROVE  IInv'
<1> USE DEF IInv
<1>1. /\ pc[p] = "ready" /\ pc[c] = "none"
      /\ pc' = [pc EXCEPT ![c] = "forked"]
      /\ fileno' = [fileno EXCEPT ![c] = fileno[p]]
      /\ leaked' = [leaked EXCEPT ![c] = leaked[p]]
      /\ UNCHANGED <<mod, cache, misc, base, early, faults>>
      /\ UNCHANGED <<dir, tree, used, callbacks, crashed>>
    BY DEF Fork, moduleVars, fileVars
<1>2. /\ p # c
      /\ pc'[c] = "forked" /\ fileno'[c] = fileno[p] /\ leaked'[c] = leaked[p]
      /\ \A q \in Pids \ {c} :
            fileno'[q] = fileno[q] /\ leaked'[q] = leaked[q] /\ pc'[q] = pc[q]
    BY <1>1, Zenon DEF TypeOK
<1>3. Held(c) = {}
    BY <1>1 DEF Held, Hooks
<1>4. Held(c)' = Held(p) /\ \A q \in Pids \ {c} : Held(q)' = Held(q)
    BY <1>2, Zenon DEF Held
<1>5. OpenFiles' = OpenFiles
  <2>1. ASSUME NEW f, f \in OpenFiles PROVE f \in OpenFiles'
    <3>1. PICK q \in Pids : f \in Held(q)
        BY <2>1, OpenMembers
    <3>2. q # c
        BY <1>3, <3>1
    <3>3. f \in Held(q)'
        BY <1>4, <3>1, <3>2
    <3> QED
        BY <3>3, OpenMembersNext
  <2>2. ASSUME NEW f, f \in OpenFiles' PROVE f \in OpenFiles
    <3>1. PICK q \in Pids : f \in Held(q)'
        BY <2>2, OpenMembersNext
    <3>2. f \in Held(q) \/ f \in Held(p)
        BY <1>4, <3>1
    <3> QED
        BY <3>2, OpenMembers
  <2> QED
      BY <2>1, <2>2
<1>6. TypeOK'
    BY <1>1, Zenon DEF TypeOK, PCs
<1>7. Loaded' /\ Outlives'
    BY <1>1, <1>5, SMTT(60), Z3T(60) DEF Loaded, Outlives
<1>8. Folders' /\ Contexts'
    BY <1>1, <1>5 DEF Folders, Contexts
<1>9. Hooks'
  <2> SUFFICES ASSUME NEW q \in Pids
               PROVE  /\ pc'[q] = "none" => fileno'[q] = NoFile /\ leaked'[q] = {}
                      /\ pc'[q] = "open" => fileno'[q] = NoFile
                      /\ pc'[q] = "opening" =>
                            /\ fileno'[q] # NoFile
                            /\ fileno'[q] \notin leaked'[q] \cup used'
                            /\ \A r \in Pids \ {q} : fileno'[q] \notin Held(r)'
                      /\ pc'[q] \in {"opening", "ready"} /\ fileno'[q] # NoFile =>
                            dir'[fileno'[q]][2] = q
      BY ZenonT(60) DEF Hooks
  <2>1. CASE q = c
      BY <1>2, <2>1
  <2>2. CASE q # c
    <3>1. pc'[q] = pc[q] /\ fileno'[q] = fileno[q] /\ leaked'[q] = leaked[q]
        BY <1>2, <2>2, Zenon
    <3>2. pc[q] = "opening" => \A r \in Pids \ {q} : fileno[q] \notin Held(r)'
        BY <1>1, <1>4, SMTT(60), Z3T(60) DEF Hooks
    <3> QED
        BY <1>1, <3>1, <3>2, Zenon DEF Hooks
  <2> QED
      BY <2>1, <2>2, Zenon
<1> QED
    BY <1>6, <1>7, <1>8, <1>9

\* exec keeps every file open, and forgets which one was UMS_FILENO.
LEMMA ExecStep ==
    ASSUME IInv, NEW p \in Pids, Exec(p)
    PROVE  IInv'
<1> USE DEF IInv
<1>1. /\ pc[p] = "ready"
      /\ pc' = [pc EXCEPT ![p] = "open"]
      /\ leaked' = [leaked EXCEPT ![p] = Held(p)]
      /\ fileno' = [fileno EXCEPT ![p] = NoFile]
      /\ UNCHANGED <<mod, cache, misc, base, early, faults>>
      /\ UNCHANGED <<dir, tree, used, callbacks, crashed>>
    BY DEF Exec, moduleVars, fileVars
<1>2. /\ pc'[p] = "open" /\ fileno'[p] = NoFile /\ leaked'[p] = Held(p)
      /\ \A q \in Pids \ {p} :
            fileno'[q] = fileno[q] /\ leaked'[q] = leaked[q] /\ pc'[q] = pc[q]
    BY <1>1, Zenon DEF TypeOK
<1>3. \A q \in Pids : Held(q)' = Held(q)
    BY <1>2, Zenon DEF Held
<1>4. OpenFiles' = OpenFiles
    BY <1>3, OpenMembers, OpenMembersNext
<1>5. TypeOK'
    BY <1>1, HeldAreFiles, ZenonT(60) DEF TypeOK, PCs
<1>6. Loaded' /\ Outlives'
    BY <1>1, <1>4, SMTT(60), Z3T(60) DEF Loaded, Outlives
<1>7. Folders' /\ Contexts'
    BY <1>1, <1>4, SMTT(60), Z3T(60) DEF Folders, Contexts
<1>8. Hooks'
    BY <1>1, <1>2, <1>3 DEF Hooks
<1> QED
    BY <1>5, <1>6, <1>7, <1>8

-----------------------------------------------------------------------------
(* The theorems.                                                           *)

\* Every step of the module, of the kernel and of the processes keeps IInv.
LEMMA NextIInv == IInv /\ [Next]_vars => IInv'
<1> SUFFICES ASSUME IInv, [Next]_vars PROVE IInv'
    OBVIOUS
<1>1. CASE ModuleStep \/ Unload
    BY <1>1, LoadingStep
<1>2. CASE RunCallback
    BY <1>2, RunCallbackStep
<1>3. ASSUME NEW p \in Pids, ProcessStep(p) PROVE IInv'
    BY <1>3, StartStep, DevOpenStep, DevOpenTablesStep, EnterUmsStep, LeaveUmsStep,
       AtforkChildHandlerStep, ExecStep, ExitStep, SMTT(60), Z3T(60) DEF ProcessStep
<1>4. ASSUME NEW p \in Pids, NEW c \in Pids, Fork(p, c) PROVE IInv'
    BY <1>4, ForkStep, SMTT(60), Z3T(60)
<1>5. CASE UNCHANGED vars
  <2>1. /\ UNCHANGED <<mod, cache, misc, base, pc, fileno, leaked>>
        /\ UNCHANGED <<dir, tree, used, callbacks, early, crashed, faults>>
      BY <1>5 DEF vars
  <2>2. /\ OpenFiles' = OpenFiles
        /\ \A q \in Pids : Held(q)' = Held(q)
      BY <2>1, SameFiles
  <2> QED
      BY <2>1, <2>2 DEF IInv, TypeOK, Loaded, Outlives, Folders, Contexts, Hooks
<1> QED
    BY <1>1, <1>2, <1>3, <1>4, <1>5 DEF Next

\* The inductive invariant holds in every state of every behaviour.
THEOREM Inductive == Spec => []IInv
<1>1. Init => IInv
    BY InitIInv
<1>2. IInv /\ [Next]_vars => IInv'
    BY NextIInv
<1> QED
    BY <1>1, <1>2, PTL DEF Spec

\* Every variable of ums_mod.c, device.c and hooks.c that is modelled keeps its
\* type; callbacks in particular stay within their bound when files are closed,
\* where the action has no guard.
THEOREM TypeCorrect == Spec => []TypeOK
<1>1. IInv => TypeOK
    BY DEF IInv
<1> QED
    BY <1>1, Inductive, PTL

\* ums_exit frees nothing that an open file or a pending callback still needs,
\* however many processes fork, exec and exit: rcu_barrier may come first.
THEOREM ModuleIsThere == Spec => []ModuleOutlivesUse
<1>1. IInv => ModuleOutlivesUse
    BY DEF IInv, ModuleOutlivesUse, Outlives, Loaded, Contexts
<1> QED
    BY <1>1, Inductive, PTL

\* The pid folders are exactly those of the open files, one each, after any
\* sequence of opens that fail or succeed and of closes.
THEOREM TreesAreExact == Spec => []OneTreePerFile
<1>1. IInv => OneTreePerFile
  <2> SUFFICES ASSUME IInv
               PROVE  /\ tree = {dir[f] : f \in OpenFiles}
                      /\ \A f, g \in OpenFiles : dir[f] = dir[g] => f = g
                      /\ ~early => \A f \in OpenFiles : dir[f][1] = "ums" /\ base
      BY DEF OneTreePerFile
  <2>1. tree = {dir[f] : f \in OpenFiles}
      BY DEF IInv, Folders
  <2>2. \A f, g \in OpenFiles : dir[f] = dir[g] => f = g
      BY DEF IInv, Folders
  <2>3. ~early => \A f \in OpenFiles : dir[f][1] = "ums" /\ base
      BY SMTT(60), Z3T(60) DEF IInv, Outlives, Loaded
  <2> QED
      BY <2>1, <2>2, <2>3
<1> QED
    BY <1>1, Inductive, PTL

\* No two processes past their hooks use one open file, for any number of
\* processes and any order of fork, exec, open and exit: the file a process
\* uses has the folder named after it.
THEOREM PoolsAreSeparate == Spec => []SeparatePools
<1>1. IInv => SeparatePools
    BY DEF IInv, SeparatePools, Hooks
<1> QED
    BY <1>1, Inductive, PTL

=============================================================================
