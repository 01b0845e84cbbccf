------------------------- MODULE UmsDispatchProofs --------------------------
(***************************************************************************)
(* What UmsDispatch promises, for any sets of schedulers and workers and   *)
(* any number of failures and signals: what the list operations of         *)
(* complist.c and of the run queue do to its lists, the inductive          *)
(* invariant, one lemma for each action, the invariants that follow, that  *)
(* the handlers implement the cooperative scheduling of UserScheduling,    *)
(* that as long as nothing fails no worker and no wake-up is lost, and     *)
(* that whatever fails the completion list is taken in order.              *)
(***************************************************************************)
EXTENDS UmsDispatch, SequenceTheorems, TLAPS

-----------------------------------------------------------------------------
(* Lists.  A list operation of the handlers turns the function L from      *)
(* heads to sequences into the function M.                                 *)

Lists == [Heads -> Seq(Workers)]

In(L, w, h) == \E i \in DOMAIN L[h] : L[h][i] = w

Once(L) ==
    \A h, g \in Heads : \A i \in DOMAIN L[h], j \in DOMAIN L[g] :
        L[h][i] = L[g][j] => h = g /\ i = j

Detach(L, h) == [L EXCEPT ![h] = <<>>, ![Head(L[h])] = Tail(L[h])]

\* M is L but for the list at h, which is q.
Changed(L, M, h, q) ==
    /\ M \in Lists
    /\ M[h] = q
    /\ \A g \in Heads : g # h => M[g] = L[g]

\* A head assignment changes one list.
LEMMA ExceptChanges ==
    ASSUME NEW L \in Lists, NEW h \in Heads, NEW q \in Seq(Workers)
    PROVE  Changed(L, [L EXCEPT ![h] = q], h, q)
  BY DEF Lists, Changed

\* list_add_tail of a context that is not linked keeps every context linked
\* once, and links exactly that context.
LEMMA AppendOnce ==
    ASSUME NEW L \in Lists, NEW h \in Heads, NEW w \in Workers, Once(L),
           \A g \in Heads : ~In(L, w, g),
           NEW M, Changed(L, M, h, Append(L[h], w))
    PROVE  /\ Once(M)
           /\ \A v, g : In(M, v, g) /\ g \in Heads => In(L, v, g) \/ (v = w /\ g = h)
           /\ \A v, g : In(L, v, g) /\ g \in Heads => In(M, v, g)
           /\ In(M, w, h)
<1> DEFINE n == Len(L[h])
<1>1. L[h] \in Seq(Workers)
  BY DEF Lists
<1>2. /\ n \in Nat
      /\ DOMAIN L[h] = 1..n
  BY <1>1
<1>3. /\ M[h] \in Seq(Workers)
      /\ DOMAIN M[h] = 1..(n + 1)
      /\ \A i \in 1..n : M[h][i] = L[h][i]
      /\ M[h][n + 1] = w
  BY <1>1, <1>2 DEF Changed
<1>4. \A g \in Heads : g # h => M[g] = L[g]
  BY DEF Changed
<1>6. \A g \in Heads : \A i \in DOMAIN M[g] :
         (g = h /\ i = n + 1 /\ M[g][i] = w) \/ (i \in DOMAIN L[g] /\ M[g][i] = L[g][i] /\ L[g][i] # w)
  BY <1>2, <1>3, <1>4, SMTT(30), Z3T(30) DEF In
<1>7. Once(M)
  BY <1>6 DEF Once
<1>8. \A v, g : In(M, v, g) /\ g \in Heads => In(L, v, g) \/ (v = w /\ g = h)
  BY <1>6 DEF In
<1>9. \A v, g : In(L, v, g) /\ g \in Heads => In(M, v, g)
  BY <1>2, <1>3, <1>4, SMTT(60), Z3T(60) DEF In
<1>10. In(M, w, h)
  BY <1>2, <1>3 DEF In
<1> QED
  BY <1>7, <1>8, <1>9, <1>10

\* list_add at the head, likewise.
LEMMA PrependOnce ==
    ASSUME NEW L \in Lists, NEW h \in Heads, NEW w \in Workers, Once(L),
           \A g \in Heads : ~In(L, w, g),
           NEW M, Changed(L, M, h, <<w>> \o L[h])
    PROVE  /\ Once(M)
           /\ \A v, g : In(M, v, g) /\ g \in Heads => In(L, v, g) \/ (v = w /\ g = h)
           /\ \A v, g : In(L, v, g) /\ g \in Heads => In(M, v, g)
<1> DEFINE n == Len(L[h])
<1>1. L[h] \in Seq(Workers)
  BY DEF Lists
<1>2. /\ n \in Nat
      /\ DOMAIN L[h] = 1..n
  BY <1>1
<1>3. /\ M[h] \in Seq(Workers)
      /\ DOMAIN M[h] = 1..(n + 1)
      /\ \A i \in 1..n : M[h][i + 1] = L[h][i]
      /\ M[h][1] = w
  BY <1>1, <1>2 DEF Changed
<1>4. \A g \in Heads : g # h => M[g] = L[g]
  BY DEF Changed
<1>6. /\ \A i \in DOMAIN M[h] :
            \/ i = 1 /\ M[h][i] = w
            \/ i - 1 \in DOMAIN L[h] /\ M[h][i] = L[h][i - 1] /\ L[h][i - 1] # w
      /\ \A g \in Heads : g # h => \A i \in DOMAIN M[g] : M[g][i] # w
  BY <1>2, <1>3, <1>4, SMTT(30), Z3T(30) DEF In
<1>7. Once(M)
  <2> SUFFICES ASSUME NEW f \in Heads, NEW g \in Heads,
                      NEW i \in DOMAIN M[f], NEW j \in DOMAIN M[g],
                      M[f][i] = M[g][j]
               PROVE  f = g /\ i = j
    BY DEF Once
  <2>1. CASE f = h /\ g = h
    <3>1. i \in 1..(n + 1) /\ j \in 1..(n + 1)
      BY <2>1, <1>3
    <3>2. /\ i \in DOMAIN M[h]
          /\ j \in DOMAIN M[h]
          /\ M[h][i] = M[h][j]
      BY <2>1
    <3>3. CASE i = 1 \/ j = 1
      BY <2>1, <3>2, <3>3, <1>3, <1>6, ZenonT(60)
    <3>4. CASE i # 1 /\ j # 1
      <4>1. /\ i - 1 \in DOMAIN L[h]
            /\ j - 1 \in DOMAIN L[h]
            /\ L[h][i - 1] = L[h][j - 1]
        BY <3>2, <3>4, <1>6
      <4>2. i - 1 = j - 1
        BY <4>1 DEF Once
      <4> QED
        BY <2>1, <3>1, <4>2, <1>2
    <3> QED
      BY <3>3, <3>4
  <2>2. CASE f = h /\ g # h
    BY <2>2, <1>4, <1>6 DEF Once
  <2>3. CASE f # h /\ g = h
    BY <2>3, <1>4, <1>6 DEF Once
  <2>4. CASE f # h /\ g # h
    BY <2>4, <1>4 DEF Once
  <2> QED
    BY <2>1, <2>2, <2>3, <2>4
<1>8. \A v, g : In(M, v, g) /\ g \in Heads => In(L, v, g) \/ (v = w /\ g = h)
  BY <1>4, <1>6 DEF In
<1>9. \A v, g : In(L, v, g) /\ g \in Heads => In(M, v, g)
  <2> SUFFICES ASSUME NEW g \in Heads, NEW i \in DOMAIN L[g]
               PROVE  \E j \in DOMAIN M[g] : M[g][j] = L[g][i]
    BY DEF In
  <2>1. CASE g = h
    <3>1. i + 1 \in DOMAIN M[h] /\ M[h][i + 1] = L[h][i]
      BY <2>1, <1>2, <1>3, SMTT(60), Z3T(60)
    <3> QED
      BY <2>1, <3>1
  <2>2. CASE g # h
    BY <2>2, <1>4
  <2> QED
    BY <2>1, <2>2
<1> QED
  BY <1>7, <1>8, <1>9

\* Removing the first entry of a list unlinks exactly that entry.
LEMMA TailOnce ==
    ASSUME NEW L \in Lists, NEW h \in Heads, Once(L), L[h] # <<>>,
           NEW M, Changed(L, M, h, Tail(L[h]))
    PROVE  /\ Once(M)
           /\ Head(L[h]) \in Workers
           /\ In(L, Head(L[h]), h)
           /\ \A v, g : In(M, v, g) /\ g \in Heads => In(L, v, g) /\ v # Head(L[h])
           /\ \A v, g : In(L, v, g) /\ g \in Heads /\ v # Head(L[h]) => In(M, v, g)
<1> DEFINE n == Len(L[h])
<1>1. L[h] \in Seq(Workers)
  BY DEF Lists
<1>2. /\ n \in Nat
      /\ n # 0
      /\ DOMAIN L[h] = 1..n
  BY <1>1
<1>3. /\ M[h] \in Seq(Workers)
      /\ DOMAIN M[h] = 1..(n - 1)
      /\ \A i \in 1..(n - 1) : M[h][i] = L[h][i + 1]
      /\ Head(L[h]) = L[h][1]
  BY <1>1, <1>2 DEF Changed
<1>4. \A g \in Heads : g # h => M[g] = L[g]
  BY DEF Changed
<1>6. /\ \A i \in DOMAIN M[h] :
            i + 1 \in DOMAIN L[h] /\ M[h][i] = L[h][i + 1] /\ i \in Nat
      /\ 1 \in DOMAIN L[h]
  BY <1>2, <1>3
<1>7. Once(M)
  <2> SUFFICES ASSUME NEW f \in Heads, NEW g \in Heads,
                      NEW i \in DOMAIN M[f], NEW j \in DOMAIN M[g],
                      M[f][i] = M[g][j]
               PROVE  f = g /\ i = j
    BY DEF Once
  <2>1. CASE f = h /\ g = h
    BY <2>1, <1>6 DEF Once
  <2>2. CASE f = h /\ g # h
    BY <2>2, <1>4, <1>6 DEF Once
  <2>3. CASE f # h /\ g = h
    BY <2>3, <1>4, <1>6 DEF Once
  <2>4. CASE f # h /\ g # h
    BY <2>4, <1>4 DEF Once
  <2> QED
    BY <2>1, <2>2, <2>3, <2>4
<1>8. Head(L[h]) \in Workers /\ In(L, Head(L[h]), h)
  BY <1>1, <1>2, <1>3, SMTT(30), Z3T(30) DEF In
<1>9. \A v, g : In(M, v, g) /\ g \in Heads => In(L, v, g) /\ v # Head(L[h])
  <2> SUFFICES ASSUME NEW g \in Heads, NEW i \in DOMAIN M[g]
               PROVE  In(L, M[g][i], g) /\ M[g][i] # Head(L[h])
    BY DEF In
  <2>1. CASE g = h
    BY <2>1, <1>3, <1>6 DEF In, Once
  <2>2. CASE g # h
    BY <2>2, <1>3, <1>4, <1>6 DEF In, Once
  <2> QED
    BY <2>1, <2>2
<1>10. \A v, g : In(L, v, g) /\ g \in Heads /\ v # Head(L[h]) => In(M, v, g)
  <2> SUFFICES ASSUME NEW g \in Heads, NEW i \in DOMAIN L[g],
                      L[g][i] # Head(L[h])
               PROVE  \E j \in DOMAIN M[g] : M[g][j] = L[g][i]
    BY DEF In
  <2>1. CASE g = h
    <3>1. i \in 2..n
      BY <2>1, <1>2, <1>3
    <3>2. i - 1 \in DOMAIN M[h] /\ M[h][i - 1] = L[h][i]
      BY <3>1, <1>2, <1>3, SMTT(60), Z3T(60)
    <3> QED
      BY <2>1, <3>2
  <2>2. CASE g # h
    BY <2>2, <1>4
  <2> QED
    BY <2>1, <2>2
<1> QED
  BY <1>7, <1>8, <1>9, <1>10, Zenon

\* Emptying a list unlinks its entries only.
LEMMA ClearOnce ==
    ASSUME NEW L \in Lists, NEW h \in Heads, Once(L),
           NEW M, Changed(L, M, h, <<>>)
    PROVE  /\ Once(M)
           /\ \A v, g : In(M, v, g) /\ g \in Heads => In(L, v, g)
           /\ \A v, g : In(L, v, g) /\ g \in Heads /\ g # h => In(M, v, g)
<1>1. /\ M[h] = <<>>
      /\ \A g \in Heads : g # h => M[g] = L[g]
  BY DEF Changed
<1>2. \A g \in Heads : \A i \in DOMAIN M[g] : M[g] = L[g]
  BY <1>1
<1> QED
  BY <1>1, <1>2 DEF Once, In

\* list_del and list_replace_init: the first entry f of the list at h is
\* unlinked and the entries that followed it are now linked at f.
LEMMA DetachOnce ==
    ASSUME NEW L \in Lists, NEW h \in Heads, Once(L), L[h] # <<>>,
           NEW f, f = Head(L[h]), f # h,
           NEW M, M = Detach(L, h)
    PROVE  /\ M \in Lists
           /\ Once(M)
           /\ f \in Workers
           /\ In(L, f, h)
           /\ \A v, g : In(M, v, g) /\ g \in Heads =>
                 v # f /\ (In(L, v, g) \/ (g = f /\ In(L, v, h)))
           /\ \A v, g : In(L, v, g) /\ g \in Heads /\ g # h /\ g # f /\ v # f
                 => In(M, v, g)
           /\ \A v : In(L, v, h) /\ v # f => In(M, v, f)
           /\ \A g \in Heads : g # h /\ g # f => M[g] = L[g]
<1>0. L[h] \in Seq(Workers) /\ Tail(L[h]) \in Seq(Workers)
  BY DEF Lists
<1>a. PICK T : Changed(L, T, h, Tail(L[h]))
  BY <1>0, ExceptChanges, Zenon
<1>1. /\ T \in Lists
      /\ Once(T)
      /\ f \in Workers
      /\ In(L, f, h)
      /\ \A v, g : In(T, v, g) /\ g \in Heads => In(L, v, g) /\ v # f
      /\ \A v, g : In(L, v, g) /\ g \in Heads /\ v # f => In(T, v, g)
  BY <1>a, TailOnce DEF Changed
<1>2. f \in Heads
  BY <1>1 DEF Heads, Threads
<1>3. /\ T[h] = Tail(L[h])
      /\ \A g \in Heads : g # h => T[g] = L[g]
  BY <1>a DEF Changed
<1>4. /\ M[h] = <<>>
      /\ M[f] = T[h]
      /\ \A g \in Heads : g # h /\ g # f => M[g] = T[g]
      /\ M \in Lists
  <2>1. PICK N : N = [L EXCEPT ![h] = <<>>]
    BY Zenon
  <2>2. Changed(L, N, h, <<>>)
    BY <2>1, ExceptChanges, EmptySeq, Zenon
  <2>3. M = [N EXCEPT ![f] = Tail(L[h])]
    BY <2>1 DEF Detach
  <2>4. N \in Lists
    BY <2>2 DEF Changed
  <2>5. Changed(N, M, f, Tail(L[h]))
    BY <1>0, <1>2, <2>3, <2>4, ExceptChanges, Zenon
  <2> QED
    BY <1>2, <1>3, <2>2, <2>5, Zenon DEF Changed
<1>5. Once(M)
  <2> SUFFICES ASSUME NEW e \in Heads, NEW g \in Heads,
                      NEW i \in DOMAIN M[e], NEW j \in DOMAIN M[g],
                      M[e][i] = M[g][j]
               PROVE  e = g /\ i = j
    BY DEF Once
  <2>1. e # h /\ g # h
    BY <1>4
  <2>2. CASE e = f /\ g = f
    BY <2>2, <1>1, <1>4 DEF Once
  <2>3. CASE e = f /\ g # f
    BY <2>1, <2>3, <1>1, <1>4 DEF Once
  <2>4. CASE e # f /\ g = f
    BY <2>1, <2>4, <1>1, <1>4 DEF Once
  <2>5. CASE e # f /\ g # f
    BY <2>1, <2>5, <1>1, <1>4 DEF Once
  <2> QED
    BY <2>2, <2>3, <2>4, <2>5
<1>6. \A v, g : In(M, v, g) /\ g \in Heads =>
          v # f /\ (In(L, v, g) \/ (g = f /\ In(L, v, h)))
  <2> SUFFICES ASSUME NEW v, NEW g \in Heads, In(M, v, g)
               PROVE  v # f /\ (In(L, v, g) \/ (g = f /\ In(L, v, h)))
    OBVIOUS
  <2>1. g # h
    BY <1>4 DEF In
  <2>2. CASE g = f
    <3>1. In(T, v, h)
      BY <2>2, <1>4 DEF In
    <3> QED
      BY <2>2, <3>1, <1>1, Zenon
  <2>3. CASE g # f
    <3>1. In(T, v, g)
      BY <2>1, <2>3, <1>4 DEF In
    <3> QED
      BY <3>1, <1>1
  <2> QED
    BY <2>2, <2>3, Zenon
<1>7. \A v, g : In(L, v, g) /\ g \in Heads /\ g # h /\ g # f /\ v # f => In(M, v, g)
  BY <1>3, <1>4 DEF In
<1>8. \A v : In(L, v, h) /\ v # f => In(M, v, f)
  <2> SUFFICES ASSUME NEW v, In(L, v, h), v # f
               PROVE  In(M, v, f)
    OBVIOUS
  <2>1. In(T, v, h)
    BY <1>1
  <2> QED
    BY <2>1, <1>4, Zenon DEF In
<1> QED
  BY <1>1, <1>3, <1>4, <1>5, <1>6, <1>7, <1>8, Zenon

-----------------------------------------------------------------------------
(* The inductive invariant.                                                *)

\* The hash tables hold the contexts of the threads that are inside, and a
\* worker's parent is always in them.
Registered ==
    /\ \A s \in Schedulers :
          /\ pc[s] = "start" => s \notin schedulers /\ event_q[s] = <<>>
          /\ pc[s] \notin {"start", "exited"} => s \in schedulers
    /\ \A w \in Workers :
          /\ pc[w] \notin {"new", "done", "gone"} => w \in workers
          /\ parent[w] \in schedulers \cup {Uninit}

\* A context that is about to be published is already marked as sleeping, one
\* about to be woken already has its parent, and so has one that runs.
Prepared ==
    /\ \A w \in Workers :
          /\ pc[w] \in {"enter_add", "switch_wake", "yield_add"} =>
                task[w] = "interruptible" /\ state[w] = "IDLE"
          /\ Executing(w) \/ WillWakeParent(w) => parent[w] # Uninit
    /\ \A s \in Schedulers : pc[s] = "switch_wake" => parent[ctx[s]] = s

\* The scheduler that walks a list has its head in the run queue.
Walking == \A s \in Schedulers : pc[s] = "collect" => Linked(ctx[s], s)

IInv ==
    /\ TypeOK
    /\ OneToken
    /\ LinkedOnce
    /\ RunsOnlyParked
    /\ Registered
    /\ Prepared
    /\ Walking

\* The states of the operators are those of the lists.
LEMMA ListForms ==
    /\ LinkedOnce <=> Once(list)
    /\ LinkedOnce' <=> Once(list')
    /\ \A w, h : Linked(w, h) <=> In(list, w, h)
    /\ \A w, h : Linked(w, h)' <=> In(list', w, h)
    /\ \A h : Detached(h) = Detach(list, h)
  BY Zenon DEF LinkedOnce, Once, Linked, In, Detached, Detach

\* No thread has entered UMS mode: the invariant holds initially.
LEMMA InitIInv == Init => IInv
<1> SUFFICES ASSUME Init PROVE IInv
  OBVIOUS
<1> USE ThreadsAssumption, BoundsAssumption DEF Init, Threads, Heads
<1>1. TypeOK
  BY DEF TypeOK, SchedulerPCs, WorkerPCs
<1>2. OneToken
  <2>1. \A w \in Workers : ~Executing(w)
    BY DEF Executing
  <2>2. \A s \in Schedulers : event_q[s] = <<>>
    OBVIOUS
  <2>3. Len(<<>>) <= 1
    BY SMT
  <2> QED
    BY <2>1, <2>2, <2>3, Zenon DEF OneToken
<1>3. LinkedOnce
  BY DEF LinkedOnce
<1>4. RunsOnlyParked
  BY DEF RunsOnlyParked, Linked, Holding
<1>5. Registered
  BY DEF Registered
<1>6. Prepared
  BY DEF Prepared, Executing, WillWakeParent
<1>7. Walking
  BY DEF Walking
<1> QED
  BY <1>1, <1>2, <1>3, <1>4, <1>5, <1>6, <1>7, Zenon DEF IInv

-----------------------------------------------------------------------------
(* Every step preserves the invariant: one lemma per action.               *)

\* The tail of a queue of one event.
LEMMA OnlyEvent ==
    ASSUME NEW q \in Seq(Event), q # <<>>, Len(q) <= 1
    PROVE  Tail(q) = <<>>
<1>1. Len(q) \in Nat \ {0}
  BY EmptySeq
<1>2. Len(q) = 1
  BY <1>1, SMTT(60), Z3T(60)
<1>3. Tail(q) \in Seq(Event) /\ Len(Tail(q)) = 0
  BY <1>2
<1> QED
  BY <1>3, EmptySeq

\* A step that moves one thread leaves the others where they are.
LEMMA GotoPC ==
    ASSUME TypeOK, NEW t \in Threads, NEW l \in SchedulerPCs \cup WorkerPCs, Goto(t, l)
    PROVE  /\ pc' \in [Threads -> SchedulerPCs \cup WorkerPCs]
           /\ pc'[t] = l
           /\ \A u \in Threads : u # t => pc'[u] = pc[u]
  BY Zenon DEF TypeOK, Goto

\* A new scheduler gets the first token; nobody has it as a parent yet.
LEMMA EnterUmsSchedulerModeStep ==
    ASSUME IInv, NEW s \in Schedulers, EnterUmsSchedulerMode(s)
    PROVE  IInv'
<1> USE ThreadsAssumption, BoundsAssumption DEF IInv, Threads, Heads
<1>1. /\ pc' \in [Threads -> SchedulerPCs \cup WorkerPCs]
      /\ \A t \in Threads : t # s => pc'[t] = pc[t]
      /\ pc[s] = "start"
      /\ pc'[s] \in {"dqevent", "exited"}
  <2>1. PICK l \in {"dqevent", "exited"} : Goto(s, l)
    BY Zenon DEF EnterUmsSchedulerMode
  <2> QED
    BY <2>1, GotoPC, Zenon DEF EnterUmsSchedulerMode, SchedulerPCs
<1>2. /\ event_q' \in [Schedulers -> Seq(Event)]
      /\ \A r \in Schedulers : r # s => event_q'[r] = event_q[r]
      /\ Len(event_q'[s]) <= 1
  <2>1. event_q[s] = <<>> /\ event_q \in [Schedulers -> Seq(Event)]
    BY <1>1, Zenon DEF Registered, TypeOK
  <2>2. CASE EnqueueUmsSchedEvent(s, [type |-> "SCHEDULER_STARTUP"])
    <3>1. [type |-> "SCHEDULER_STARTUP"] \in Event
      BY DEF Event
    <3>2. PICK e \in Event : event_q' = [event_q EXCEPT ![s] = Append(@, e)]
      BY <2>2, <3>1, Zenon DEF EnqueueUmsSchedEvent
    <3>3. Append(event_q[s], e) \in Seq(Event) /\ Len(Append(event_q[s], e)) = 1
      BY <2>1
    <3> QED
      BY <2>1, <3>2, <3>3
  <2>3. CASE UNCHANGED event_q
    BY <2>1, <2>3
  <2> QED
    BY <2>2, <2>3, Zenon DEF EnterUmsSchedulerMode
<1>3. /\ schedulers \subseteq schedulers'
      /\ schedulers' \subseteq Schedulers
      /\ schedulers' \subseteq schedulers \cup {s}
      /\ pc'[s] = "dqevent" => s \in schedulers'
      /\ faults' \in 0..MaxFaults
  BY <1>1, SMTT(60), Z3T(60) DEF EnterUmsSchedulerMode, Goto, Fault, TypeOK
<1>4. UNCHANGED <<workers, state, task, parent, list, ctx, signals>>
  BY Zenon DEF EnterUmsSchedulerMode
<1>5. \A w \in Workers : UNCHANGED pc[w]
  BY <1>1
<1>6. TypeOK'
  BY <1>1, <1>2, <1>3, <1>4, Zenon DEF TypeOK, SchedulerPCs, WorkerPCs
<1>7. OneToken'
  <2>1. \A w \in Workers : Executing(w)' => Executing(w) /\ parent[w] # s
    BY <1>1, <1>4, <1>5 DEF Executing, Registered, Prepared, TypeOK
  <2>2. ~Handling(s)'
    BY <1>1, Zenon DEF Handling
  <2>3. \A r \in Schedulers : r # s => (Handling(r)' <=> Handling(r))
    BY <1>1 DEF Handling
  <2> QED
    BY <1>2, <1>4, <2>1, <2>2, <2>3, Zenon DEF OneToken
<1>8. LinkedOnce'
  BY <1>4 DEF LinkedOnce
<1>9. RunsOnlyParked'
  BY <1>1, <1>4, <1>5, SMTT(30), Z3T(30) DEF RunsOnlyParked, Linked, Holding, Parked, TypeOK
<1>10. Registered'
  BY <1>1, <1>2, <1>3, <1>4, <1>5, Zenon DEF Registered
<1>11. Prepared'
  BY <1>1, <1>4, <1>5, Zenon DEF Prepared, Executing, WillWakeParent
<1>12. Walking'
  BY <1>1, <1>4, Zenon DEF Walking, Linked
<1> QED
  BY <1>6, <1>7, <1>8, <1>9, <1>10, <1>11, <1>12

\* The token goes from the queue to the handler, or stays.
LEMMA UmsSchedDqeventStep ==
    ASSUME IInv, NEW s \in Schedulers, UmsSchedDqevent(s)
    PROVE  IInv'
<1> USE ThreadsAssumption, BoundsAssumption DEF IInv, Threads, Heads
<1>1. /\ pc' \in [Threads -> SchedulerPCs \cup WorkerPCs]
      /\ \A t \in Threads : t # s => pc'[t] = pc[t]
      /\ pc[s] = "dqevent"
      /\ pc'[s] \in {"next_context", "exited"}
  <2>1. PICK l \in {"next_context", "exited"} : Goto(s, l)
    BY Zenon DEF UmsSchedDqevent
  <2> QED
    BY <2>1, GotoPC, Zenon DEF UmsSchedDqevent, SchedulerPCs
<1>2. /\ event_q' \in [Schedulers -> Seq(Event)]
      /\ \A r \in Schedulers : r # s => event_q'[r] = event_q[r]
      /\ event_q[s] # <<>>
      /\ Len(event_q'[s]) <= 1
      /\ pc'[s] = "next_context" => event_q'[s] = <<>>
  <2>1. /\ event_q \in [Schedulers -> Seq(Event)]
        /\ event_q[s] # <<>>
        /\ Len(event_q[s]) <= 1
    BY Zenon DEF OneToken, TypeOK, UmsSchedDqevent
  <2>2. CASE event_q' = [event_q EXCEPT ![s] = Tail(@)]
    <3>1. event_q[s] \in Seq(Event)
      BY <2>1
    <3>2. Tail(event_q[s]) = <<>>
      BY <2>1, <3>1, OnlyEvent, Zenon
    <3>3. <<>> \in Seq(Event) /\ Len(<<>>) <= 1
      BY EmptySeq
    <3> QED
      BY <2>1, <2>2, <3>2, <3>3
  <2>3. CASE UNCHANGED event_q /\ Goto(s, "exited")
    BY <2>1, <2>3, <1>1, Zenon DEF Goto, TypeOK
  <2> QED
    BY <2>2, <2>3, Zenon DEF UmsSchedDqevent
<1>3. faults' \in 0..MaxFaults
  BY <1>1, SMTT(60), Z3T(60) DEF UmsSchedDqevent, Fault, TypeOK
<1>4. UNCHANGED <<schedulers, workers, state, task, parent, list, ctx, signals>>
  BY Zenon DEF UmsSchedDqevent
<1>5. \A w \in Workers : UNCHANGED pc[w]
  BY <1>1
<1>6. TypeOK'
  BY <1>1, <1>2, <1>3, <1>4, Zenon DEF TypeOK, SchedulerPCs, WorkerPCs
<1>7. OneToken'
  <2>1. \A w \in Workers : Executing(w)' => Executing(w) /\ parent[w] # s
    BY <1>2, <1>4, <1>5, Zenon DEF Executing, OneToken
  <2>2. event_q'[s] # <<>> => ~Handling(s)'
    BY <1>1, <1>2, Zenon DEF Handling
  <2>3. \A r \in Schedulers : r # s => (Handling(r)' <=> Handling(r))
    BY <1>1, Zenon DEF Handling
  <2> QED
    BY <1>2, <1>4, <2>1, <2>2, <2>3, Zenon DEF OneToken
<1>8. LinkedOnce'
  BY <1>4 DEF LinkedOnce
<1>9. RunsOnlyParked'
  BY <1>1, <1>4, <1>5, SMTT(30), Z3T(30) DEF RunsOnlyParked, Linked, Holding, Parked, TypeOK
<1>10. Registered'
  BY <1>1, <1>2, <1>4, <1>5, Zenon DEF Registered
<1>11. Prepared'
  BY <1>1, <1>4, <1>5, ZenonT(60) DEF Prepared, Executing, WillWakeParent
<1>12. Walking'
  BY <1>1, <1>4, Zenon DEF Walking, Linked
<1> QED
  BY <1>6, <1>7, <1>8, <1>9, <1>10, <1>11, <1>12

\* A scheduler that wakes up holds nothing.
LEMMA SchedulerResumesStep ==
    ASSUME IInv, NEW s \in Schedulers, SchedulerResumes(s)
    PROVE  IInv'
<1> USE ThreadsAssumption, BoundsAssumption DEF IInv, Threads, Heads, SchedulerResumes, Goto
<1>1. TypeOK'
  BY SMTT(60), Z3T(60) DEF TypeOK, SchedulerPCs, WorkerPCs
<1>2. OneToken'
  BY SMTT(60), Z3T(60) DEF OneToken, Executing, Handling, TypeOK, Prepared, WillWakeParent
<1>3. LinkedOnce'
  BY SMTT(60), Z3T(60) DEF LinkedOnce
<1>4. RunsOnlyParked'
  BY SMTT(60), Z3T(60) DEF RunsOnlyParked, Linked, Holding, Parked, TypeOK
<1>5. Registered'
  BY Zenon DEF Registered, TypeOK
<1>6. Prepared'
  BY Zenon DEF Prepared, Executing, WillWakeParent, TypeOK, RunsOnlyParked, Holding, Parked
<1>7. Walking'
  BY Zenon DEF Walking, Linked, TypeOK
<1> QED
  BY <1>1, <1>2, <1>3, <1>4, <1>5, <1>6, <1>7, Zenon

\* A signal to a scheduler is not seen by any worker.
LEMMA SignalStep ==
    ASSUME IInv, NEW s \in Schedulers, Signal(s)
    PROVE  IInv'
<1> USE ThreadsAssumption, BoundsAssumption DEF IInv, Threads, Heads, Signal
<1>1. TypeOK'
  BY SMTT(60), Z3T(60) DEF TypeOK, SchedulerPCs, WorkerPCs
<1>2. OneToken'
  BY SMTT(60), Z3T(60) DEF OneToken, Executing, Handling, TypeOK, Prepared, WillWakeParent
<1>3. LinkedOnce'
  BY SMTT(60), Z3T(60) DEF LinkedOnce
<1>4. RunsOnlyParked'
  BY SMTT(30), Z3T(30) DEF RunsOnlyParked, Linked, Holding, Parked, TypeOK
<1>5. Registered'
  BY Zenon DEF Registered, TypeOK
<1>6. Prepared'
  BY ZenonT(60) DEF Prepared, Executing, WillWakeParent, TypeOK, RunsOnlyParked, Holding, Parked
<1>7. Walking'
  BY Zenon DEF Walking, Linked, TypeOK
<1> QED
  BY <1>1, <1>2, <1>3, <1>4, <1>5, <1>6, <1>7, Zenon

\* A worker that returns from schedule() was already counted as executing.
LEMMA WorkerResumesStep ==
    ASSUME IInv, NEW w \in Workers, WorkerResumes(w)
    PROVE  IInv'
<1> USE ThreadsAssumption, BoundsAssumption DEF IInv, Threads, Heads, WorkerResumes, Goto
<1>1. TypeOK'
  BY SMTT(60), Z3T(60) DEF TypeOK, SchedulerPCs, WorkerPCs
<1>2. OneToken'
  BY SMTT(60), Z3T(60) DEF OneToken, Executing, Handling, TypeOK, Prepared, WillWakeParent
<1>3. LinkedOnce'
  BY SMTT(60), Z3T(60) DEF LinkedOnce
<1>4. RunsOnlyParked'
  BY SMTT(60), Z3T(60) DEF RunsOnlyParked, Linked, Holding, Parked, TypeOK
<1>5. Registered'
  BY Zenon DEF Registered, TypeOK
<1>6. Prepared'
  BY ZenonT(60) DEF Prepared, Executing, WillWakeParent, TypeOK, RunsOnlyParked, Holding, Parked
<1>7. Walking'
  BY Zenon DEF Walking, Linked, TypeOK
<1> QED
  BY <1>1, <1>2, <1>3, <1>4, <1>5, <1>6, <1>7, Zenon

\* Waking a scheduler changes the task state of no worker.
LEMMA WorkerWakesParentStep ==
    ASSUME IInv, NEW w \in Workers, WorkerWakesParent(w)
    PROVE  IInv'
<1> USE ThreadsAssumption, BoundsAssumption DEF IInv, Threads, Heads, WorkerWakesParent, Goto, WakeUpContext
<1>1. TypeOK'
  BY Zenon DEF TypeOK, SchedulerPCs, WorkerPCs
<1>2. OneToken'
  BY SMTT(60), Z3T(60) DEF OneToken, Executing, Handling, TypeOK, Prepared, WillWakeParent
<1>3. LinkedOnce'
  BY SMTT(30), Z3T(30) DEF LinkedOnce
<1>4. RunsOnlyParked'
  BY SMTT(30), Z3T(30) DEF RunsOnlyParked, Linked, Holding, Parked, TypeOK
<1>5. Registered'
  BY Zenon DEF Registered, TypeOK
<1>6. Prepared'
  BY SMTT(60), Z3T(60) DEF Prepared, Executing, WillWakeParent, TypeOK, RunsOnlyParked, Holding, Parked
<1>7. Walking'
  BY Zenon DEF Walking, Linked, TypeOK
<1> QED
  BY <1>1, <1>2, <1>3, <1>4, <1>5, <1>6, <1>7, Zenon

\* The worker that leaves the hash table is in no list.
LEMMA UmsWorkerDestroyStep ==
    ASSUME IInv, NEW w \in Workers, UmsWorkerDestroy(w)
    PROVE  IInv'
<1> USE ThreadsAssumption, BoundsAssumption DEF IInv, Threads, Heads, UmsWorkerDestroy, Goto
<1>1. TypeOK'
  BY Zenon DEF TypeOK, SchedulerPCs, WorkerPCs
<1>2. OneToken'
  BY SMTT(60), Z3T(60) DEF OneToken, Executing, Handling, TypeOK, Prepared, WillWakeParent
<1>3. LinkedOnce'
  BY SMTT(30), Z3T(30) DEF LinkedOnce
<1>4. RunsOnlyParked'
  BY SMTT(30), Z3T(30) DEF RunsOnlyParked, Linked, Holding, Parked, TypeOK
<1>5. Registered'
  BY Zenon DEF Registered, TypeOK
<1>6. Prepared'
  BY Zenon DEF Prepared, Executing, WillWakeParent, TypeOK, RunsOnlyParked, Holding, Parked
<1>7. Walking'
  BY Zenon DEF Walking, Linked, TypeOK
<1> QED
  BY <1>1, <1>2, <1>3, <1>4, <1>5, <1>6, <1>7

\* All workers have ended, so no list or event matters.
LEMMA MainReturnsStep ==
    ASSUME IInv, MainReturns
    PROVE  IInv'
<1> USE ThreadsAssumption, BoundsAssumption DEF IInv, Threads, Heads, MainReturns
<1>1. TypeOK'
  BY Zenon DEF TypeOK, SchedulerPCs, WorkerPCs
<1>2. OneToken'
  BY Zenon DEF OneToken, Executing, Handling, TypeOK, Prepared, WillWakeParent
<1>3. LinkedOnce'
  BY DEF LinkedOnce
<1>4. RunsOnlyParked'
  BY SMTT(60), Z3T(60) DEF RunsOnlyParked, Linked, Holding, Parked, TypeOK
<1>5. Registered'
  BY Zenon DEF Registered, TypeOK
<1>6. Prepared'
  BY Zenon DEF Prepared, Executing, WillWakeParent, TypeOK, RunsOnlyParked, Holding, Parked
<1>7. Walking'
  BY Zenon DEF Walking, Linked, TypeOK
<1> QED
  BY <1>1, <1>2, <1>3, <1>4, <1>5, <1>6, <1>7

\* A worker is registered and suspended before anybody can find it.
LEMMA EnterUmsWorkerModeStep ==
    ASSUME IInv, NEW w \in Workers, EnterUmsWorkerMode(w)
    PROVE  IInv'
<1> USE ThreadsAssumption, BoundsAssumption DEF IInv, Threads, Heads
<1>1. /\ pc' \in [Threads -> SchedulerPCs \cup WorkerPCs]
      /\ \A t \in Threads : t # w => pc'[t] = pc[t]
      /\ pc[w] = "new"
      /\ pc'[w] \in {"enter_add", "gone"}
  <2>1. PICK l \in {"enter_add", "gone"} : Goto(w, l)
    BY Zenon DEF EnterUmsWorkerMode
  <2> QED
    BY <2>1, GotoPC, Zenon DEF EnterUmsWorkerMode, WorkerPCs
<1>2. /\ state' \in [Threads -> {"RUNNING", "IDLE"}]
      /\ task' \in [Threads -> {"running", "interruptible"}]
      /\ \A t \in Threads : t # w => task'[t] = task[t] /\ state'[t] = state[t]
      /\ pc'[w] = "enter_add" => task'[w] = "interruptible" /\ state'[w] = "IDLE"
  <2>1. \/ pc'[w] = "gone" /\ UNCHANGED <<state, task>>
        \/ PrepareSuspendContext(w)
    BY <1>1, Zenon DEF EnterUmsWorkerMode, Goto, TypeOK
  <2> QED
    BY <2>1, ZenonT(30) DEF PrepareSuspendContext, TypeOK
<1>3. /\ workers \subseteq workers'
      /\ workers' \subseteq Workers
      /\ workers' \subseteq workers \cup {w}
      /\ pc'[w] = "enter_add" => w \in workers'
      /\ faults' \in 0..MaxFaults
  BY <1>1, SMTT(60), Z3T(60) DEF EnterUmsWorkerMode, Goto, Fault, TypeOK
<1>4. UNCHANGED <<schedulers, parent, event_q, list, ctx, signals>>
  BY Zenon DEF EnterUmsWorkerMode
<1>5. \A s \in Schedulers : UNCHANGED pc[s]
  BY <1>1
<1>6. \A v \in Workers : Executing(v)' <=> Executing(v)
  BY <1>1, <1>2, Zenon DEF Executing
<1>7. TypeOK'
  BY <1>1, <1>2, <1>3, <1>4, Zenon DEF TypeOK, SchedulerPCs, WorkerPCs
<1>8. OneToken'
  BY <1>4, <1>5, <1>6, Zenon DEF OneToken, Handling
<1>9. LinkedOnce'
  BY <1>4, SMTT(60), Z3T(60) DEF LinkedOnce
<1>10. RunsOnlyParked'
  <2>1. \A v \in Workers : Parked(v) => Parked(v)'
    BY <1>1, <1>2, Zenon DEF Parked
  <2>2. \A s \in Schedulers : Holding(s)' <=> Holding(s)
    BY <1>5, Zenon DEF Holding
  <2>3. \A s \in Schedulers : Holding(s) => ctx[s] \in Workers
    BY Zenon DEF RunsOnlyParked, TypeOK
  <2> QED
    BY <1>3, <1>4, <2>1, <2>2, <2>3, Zenon DEF RunsOnlyParked, Linked
<1>11. Registered'
  BY <1>1, <1>3, <1>4, <1>5, Zenon DEF Registered
<1>12. Prepared'
  BY <1>1, <1>2, <1>4, <1>5, <1>6, ZenonT(60) DEF Prepared, WillWakeParent
<1>13. Walking'
  BY <1>4, <1>5, Zenon DEF Walking, Linked
<1> QED
  BY <1>7, <1>8, <1>9, <1>10, <1>11, <1>12, <1>13, Zenon

\* A worker that runs queues its event at a parent whose queue is empty.
LEMMA EnqueueAtParent ==
    ASSUME IInv, NEW w \in Workers, pc[w] = "run", NEW e \in Event,
           EnqueueUmsSchedEvent(parent[w], e)
    PROVE  /\ parent[w] \in schedulers
           /\ event_q' \in [Schedulers -> Seq(Event)]
           /\ Len(event_q'[parent[w]]) = 1
           /\ \A r \in Schedulers : r # parent[w] => event_q'[r] = event_q[r]
<1> USE DEF IInv
<1>1. Executing(w)
  BY Zenon DEF Executing
<1>2. parent[w] \in schedulers /\ parent[w] \in Schedulers
  BY <1>1, Zenon DEF Registered, Prepared, TypeOK
<1>3. event_q[parent[w]] = <<>>
  BY <1>1, <1>2, Zenon DEF OneToken
<1>4. Append(<<>>, e) \in Seq(Event) /\ Len(Append(<<>>, e)) = 1
  BY EmptySeq
<1> QED
  BY <1>2, <1>3, <1>4, Zenon DEF EnqueueUmsSchedEvent, TypeOK

\* The token goes from a worker that runs to the queue of its parent.
LEMMA GivesTokenBack ==
    ASSUME IInv, NEW w \in Workers, pc[w] = "run",
           NEW e \in Event, EnqueueUmsSchedEvent(parent[w], e),
           NEW l \in {"switch", "end_wake"}, Goto(w, l),
           UNCHANGED <<schedulers, workers, state, task, parent, list, ctx,
                       faults, signals>>
    PROVE  IInv'
<1> USE ThreadsAssumption DEF IInv, Threads, Heads
<1>1. /\ pc' \in [Threads -> SchedulerPCs \cup WorkerPCs]
      /\ \A t \in Threads : t # w => pc'[t] = pc[t]
      /\ pc'[w] \in {"switch", "end_wake"}
  BY GotoPC, Zenon DEF WorkerPCs
<1>2. /\ parent[w] \in schedulers
      /\ parent[w] \in Schedulers
      /\ event_q' \in [Schedulers -> Seq(Event)]
      /\ Len(event_q'[parent[w]]) = 1
      /\ \A r \in Schedulers : r # parent[w] => event_q'[r] = event_q[r]
  BY EnqueueAtParent, Zenon DEF TypeOK
<1>3. TypeOK'
  BY <1>1, <1>2, Zenon DEF TypeOK, SchedulerPCs, WorkerPCs
<1>4. OneToken'
  <2>1. Executing(w) /\ ~Executing(w)'
    BY <1>1, Zenon DEF Executing
  <2>2. \A v \in Workers : Executing(v)' => Executing(v) /\ parent[v] # parent[w]
    BY <1>1, <1>2, <2>1, SMTT(30), Z3T(30) DEF Executing, OneToken
  <2>3. \A s \in Schedulers : Handling(s)' <=> Handling(s)
    BY <1>1, Zenon DEF Handling
  <2>4. ~Handling(parent[w])
    BY <1>2, <2>1, Zenon DEF OneToken
  <2>5. \A s \in Schedulers : Len(event_q'[s]) <= 1
    <3>1. Len(event_q'[parent[w]]) <= 1
      BY <1>2, SMTT(60), Z3T(60)
    <3>2. \A r \in Schedulers : Len(event_q[r]) <= 1
      BY Zenon DEF OneToken
    <3> QED
      BY <3>1, <3>2, <1>2, Zenon
  <2> QED
    BY <1>2, <2>2, <2>3, <2>4, <2>5, ZenonT(60) DEF OneToken
<1>5. LinkedOnce'
  BY SMTT(60), Z3T(60) DEF LinkedOnce
<1>6. RunsOnlyParked'
  BY <1>1, SMTT(30), Z3T(30) DEF RunsOnlyParked, Linked, Holding, Parked, TypeOK
<1>7. Registered'
  BY <1>1, <1>2, Zenon DEF Registered
<1>8. Prepared'
  BY <1>1, Zenon DEF Prepared, Executing, WillWakeParent
<1>9. Walking'
  BY <1>1, Zenon DEF Walking, Linked
<1> QED
  BY <1>3, <1>4, <1>5, <1>6, <1>7, <1>8, <1>9, Zenon

\* Yielding gives the token back; failing to keeps it.
LEMMA UmsWorkerYieldStep ==
    ASSUME IInv, NEW w \in Workers, UmsWorkerYield(w)
    PROVE  IInv'
<1> DEFINE e == [type |-> "THREAD_YIELD", context |-> w]
<1>1. /\ pc[w] = "run"
      /\ UNCHANGED <<schedulers, workers, state, task, parent, list, ctx, signals>>
  BY Zenon DEF UmsWorkerYield
<1>2. CASE Fault /\ UNCHANGED <<pc, event_q>>
  <2> USE DEF IInv
  <2>1. TypeOK'
    BY <1>1, <1>2, BoundsAssumption, SMTT(60), Z3T(60) DEF TypeOK, Fault
  <2>2. OneToken' /\ LinkedOnce' /\ RunsOnlyParked'
    BY <1>1, <1>2, SMTT(30), Z3T(30) DEF OneToken, Executing, Handling, LinkedOnce, RunsOnlyParked,
       Linked, Holding, Parked
  <2>3. Registered' /\ Prepared' /\ Walking'
    BY <1>1, <1>2, Zenon DEF Registered, Prepared, Executing, WillWakeParent, Walking, Linked
  <2> QED
    BY <2>1, <2>2, <2>3, Zenon
<1>3. CASE EnqueueUmsSchedEvent(parent[w], e) /\ Goto(w, "switch") /\ UNCHANGED faults
  <2>1. e \in Event
    BY Zenon DEF Event
  <2> QED
    BY <1>1, <1>3, <2>1, GivesTokenBack, Zenon
<1> QED
  BY <1>2, <1>3, Zenon DEF UmsWorkerYield

\* Ending gives the token back; failing to destroys it.
LEMMA UmsWorkerEndStep ==
    ASSUME IInv, NEW w \in Workers, UmsWorkerEnd(w)
    PROVE  IInv'
<1> DEFINE e == [type |-> "THREAD_TERMINATED", context |-> w]
<1>1. /\ pc[w] = "run"
      /\ UNCHANGED <<schedulers, workers, state, task, parent, list, ctx, signals>>
  BY Zenon DEF UmsWorkerEnd
<1>2. CASE Fault /\ Goto(w, "gone") /\ UNCHANGED event_q
  <2> USE ThreadsAssumption DEF IInv, Threads
  <2>1. /\ pc' \in [Threads -> SchedulerPCs \cup WorkerPCs]
        /\ \A t \in Threads : t # w => pc'[t] = pc[t]
        /\ pc'[w] = "gone"
    BY <1>2, GotoPC, Zenon DEF WorkerPCs
  <2>2. faults' \in 0..MaxFaults
    BY <1>2, BoundsAssumption DEF Fault, TypeOK
  <2>3. TypeOK'
    BY <1>1, <1>2, <2>1, <2>2, ZenonT(60) DEF TypeOK, SchedulerPCs, WorkerPCs
  <2>4. OneToken'
    BY <1>1, <1>2, <2>1, SMTT(30), Z3T(30) DEF OneToken, Executing, Handling
  <2>5. LinkedOnce' /\ RunsOnlyParked'
    <3>1. LinkedOnce'
      BY <1>1, SMTT(60), Z3T(60) DEF LinkedOnce
    <3>2. RunsOnlyParked'
      BY <1>1, <2>1, SMTT(30), Z3T(30) DEF RunsOnlyParked, Linked, Holding, Parked, TypeOK
    <3> QED
      BY <3>1, <3>2, Zenon
  <2>6. Registered'
    BY <1>1, <1>2, <2>1, Zenon DEF Registered
  <2>7. Prepared' /\ Walking'
    BY <1>1, <2>1, ZenonT(30) DEF Prepared, Executing, WillWakeParent, Walking, Linked
  <2> QED
    BY <2>3, <2>4, <2>5, <2>6, <2>7, Zenon
<1>3. CASE EnqueueUmsSchedEvent(parent[w], e) /\ Goto(w, "end_wake") /\ UNCHANGED faults
  <2>1. e \in Event
    BY Zenon DEF Event
  <2> QED
    BY <1>1, <1>3, <2>1, GivesTokenBack, Zenon
<1> QED
  BY <1>2, <1>3, Zenon DEF UmsWorkerEnd

\* The token goes from the handler to the parked worker it holds.
LEMMA ExecUmsContextStep ==
    ASSUME IInv, NEW s \in Schedulers, ExecUmsContext(s)
    PROVE  IInv'
<1> USE ThreadsAssumption DEF IInv, Threads, Heads
<1> DEFINE w == ctx[s]
<1>1. /\ w \in Workers
      /\ s \in schedulers
      /\ UNCHANGED <<schedulers, workers, event_q, list, ctx, faults, signals>>
  BY Zenon DEF ExecUmsContext, TypeOK
<1>2. Holding(s) /\ Handling(s) /\ pc[s] \in {"switch", "switch_wake"}
  BY Zenon DEF ExecUmsContext, PrepareSwitchContext, Holding, Handling
<1>3. /\ Parked(w)
      /\ \A h \in Heads : ~Linked(w, h)
      /\ \A r \in Schedulers : Holding(r) /\ ctx[r] = w => r = s
  BY <1>2, Zenon DEF RunsOnlyParked
<1>4. CASE /\ pc[s] = "switch"
           /\ parent' = [parent EXCEPT ![w] = s]
           /\ PrepareSuspendContext(s)
           /\ Goto(s, "switch_wake")
  <2>1. /\ pc' \in [Threads -> SchedulerPCs \cup WorkerPCs]
        /\ \A t \in Threads : t # s => pc'[t] = pc[t]
        /\ pc'[s] = "switch_wake"
    BY <1>4, GotoPC, Zenon DEF SchedulerPCs
  <2>2. /\ state' \in [Threads -> {"RUNNING", "IDLE"}]
        /\ task' \in [Threads -> {"running", "interruptible"}]
        /\ \A t \in Threads : t # s => task'[t] = task[t] /\ state'[t] = state[t]
    BY <1>4, Zenon DEF PrepareSuspendContext, TypeOK
  <2>3. /\ parent' \in [Threads -> Threads \cup {Uninit}]
        /\ \A t \in Threads : t # w => parent'[t] = parent[t]
        /\ parent'[w] = s
    BY <1>1, <1>4, Zenon DEF TypeOK
  <2>4. \A v \in Workers : /\ UNCHANGED pc[v]
                           /\ UNCHANGED task[v]
                           /\ UNCHANGED state[v]
    BY <2>1, <2>2, Zenon
  <2>5. TypeOK'
    <3>0. /\ \A r \in Schedulers : parent[r] \in Workers \cup {Uninit}
          /\ \A v \in Workers : parent[v] \in Schedulers \cup {Uninit}
      BY Zenon DEF TypeOK
    <3>1. /\ \A r \in Schedulers : parent'[r] \in Workers \cup {Uninit}
          /\ \A v \in Workers : parent'[v] \in Schedulers \cup {Uninit}
      BY <3>0, <1>1, <2>3, ZenonT(60)
    <3>2. /\ \A r \in Schedulers : pc'[r] \in SchedulerPCs
          /\ \A v \in Workers : pc'[v] \in WorkerPCs
      BY <2>1, <2>4, Zenon DEF TypeOK, SchedulerPCs
    <3> QED
      BY <1>1, <2>1, <2>2, <2>3, <3>1, <3>2, Zenon DEF TypeOK
  <2>6. OneToken'
    <3>1. \A v \in Workers : Executing(v)' => Executing(v) /\ v # w
      BY <1>3, <2>4, Zenon DEF Executing, Parked
    <3>2. \A r \in Schedulers : Handling(r)' <=> Handling(r)
      BY <1>2, <2>1, Zenon DEF Handling
    <3> QED
      BY <1>1, <2>3, <3>1, <3>2, SMTT(60), Z3T(60) DEF OneToken
  <2>7. LinkedOnce'
    BY <1>1, SMTT(60), Z3T(60) DEF LinkedOnce
  <2>8. RunsOnlyParked'
    <3>1. \A r \in Schedulers : Holding(r)' <=> Holding(r)
      BY <1>2, <2>1, Zenon DEF Holding
    <3>2. \A v \in Workers : Parked(v)' <=> Parked(v)
      BY <2>4, Zenon DEF Parked
    <3>3. \A r \in Schedulers : Holding(r) => ctx[r] \in Workers
      BY Zenon DEF RunsOnlyParked, TypeOK
    <3> QED
      BY <1>1, <3>1, <3>2, <3>3, Zenon DEF RunsOnlyParked, Linked
  <2>9. Registered'
    BY <1>1, <1>2, <2>1, <2>3, <2>4, Zenon DEF Registered
  <2>10. Prepared'
    <3>1. \A r \in Schedulers : pc'[r] = "switch_wake" => parent'[ctx[r]] = r
      <4>1. SUFFICES ASSUME NEW r \in Schedulers, pc'[r] = "switch_wake", r # s
                     PROVE  parent'[ctx[r]] = r
        BY <2>3, Zenon
      <4>2. Holding(r) /\ parent[ctx[r]] = r
        BY <2>1, <4>1, Zenon DEF Holding, Prepared
      <4>3. ctx[r] # w /\ ctx[r] \in Workers
        BY <1>3, <4>1, <4>2, Zenon DEF RunsOnlyParked, TypeOK
      <4> QED
        BY <2>3, <4>2, <4>3, Zenon
    <3>2. \A v \in Workers : Executing(v)' \/ WillWakeParent(v)' => parent'[v] # Uninit
      BY <2>3, <2>4, SMTT(60), Z3T(60) DEF Prepared, Executing, WillWakeParent
    <3> QED
      BY <1>1, <2>4, <3>1, <3>2, Zenon DEF Prepared
  <2>11. Walking'
    BY <1>1, <2>1, Zenon DEF Walking, Linked
  <2> QED
    BY <2>5, <2>6, <2>7, <2>8, <2>9, <2>10, <2>11, Zenon
<1>5. CASE /\ pc[s] = "switch_wake"
           /\ WakeUpContext(w)
           /\ Goto(s, "asleep")
           /\ UNCHANGED parent
  <2>1. /\ pc' \in [Threads -> SchedulerPCs \cup WorkerPCs]
        /\ \A t \in Threads : t # s => pc'[t] = pc[t]
        /\ pc'[s] = "asleep"
    BY <1>5, GotoPC, Zenon DEF SchedulerPCs
  <2>2. /\ state' \in [Threads -> {"RUNNING", "IDLE"}]
        /\ task' \in [Threads -> {"running", "interruptible"}]
        /\ \A t \in Threads : t # w => task'[t] = task[t] /\ state'[t] = state[t]
        /\ task'[w] = "running"
    BY <1>1, <1>5, Zenon DEF WakeUpContext, TypeOK
  <2>3. parent[w] = s
    BY <1>5, Zenon DEF Prepared
  <2>4. \A v \in Workers : UNCHANGED pc[v]
    BY <2>1, Zenon
  <2>5. TypeOK'
    BY <1>1, <1>5, <2>1, <2>2, Zenon DEF TypeOK, SchedulerPCs, WorkerPCs
  <2>6. OneToken'
    <3>1. \A v \in Workers : Executing(v)' => v = w \/ (Executing(v) /\ parent[v] # s)
      BY <1>2, <2>2, <2>4, SMTT(30), Z3T(30) DEF Executing, OneToken
    <3>2. ~Handling(s)' /\ event_q[s] = <<>>
      BY <1>2, <2>1, Zenon DEF Handling, OneToken
    <3>3. \A r \in Schedulers : r # s => (Handling(r)' <=> Handling(r))
      BY <2>1, Zenon DEF Handling
    <3> QED
      BY <1>1, <1>5, <2>3, <3>1, <3>2, <3>3, Zenon DEF OneToken
  <2>7. LinkedOnce'
    BY <1>1 DEF LinkedOnce
  <2>8. RunsOnlyParked'
    <3>1. \A r \in Schedulers : Holding(r)' => Holding(r) /\ ctx[r] # w /\ ctx[r] \in Workers
      BY <1>3, <2>1, Zenon DEF Holding, RunsOnlyParked, TypeOK
    <3>2. \A v \in Workers : v # w => (Parked(v)' <=> Parked(v))
      BY <2>2, <2>4, Zenon DEF Parked
    <3> QED
      BY <1>1, <1>3, <3>1, <3>2, Zenon DEF RunsOnlyParked, Linked
  <2>9. Registered'
    BY <1>1, <1>5, <2>1, <2>4, Zenon DEF Registered
  <2>10. Prepared'
    <3>1. \A v \in Workers : v # w => (Executing(v)' <=> Executing(v))
      BY <2>2, <2>4, Zenon DEF Executing
    <3>2. pc[w] = "asleep"
      BY <1>3, Zenon DEF Parked
    <3>3. \A r \in Schedulers : pc'[r] = "switch_wake" => pc[r] = "switch_wake"
      BY <2>1, Zenon
    <3> QED
      BY <1>1, <1>5, <2>2, <2>3, <2>4, <3>1, <3>2, <3>3, SMTT(30), Z3T(30) DEF Prepared, WillWakeParent
  <2>11. Walking'
    BY <1>1, <2>1, Zenon DEF Walking, Linked
  <2> QED
    BY <2>5, <2>6, <2>7, <2>8, <2>9, <2>10, <2>11, Zenon
<1> QED
  BY <1>4, <1>5, Zenon DEF ExecUmsContext, PrepareSwitchContext

\* A worker that switches to its parent is suspended first.
LEMMA WorkerSwitchesStep ==
    ASSUME IInv, NEW w \in Workers, WorkerSwitches(w)
    PROVE  IInv'
<1> USE ThreadsAssumption DEF IInv, Threads, Heads
<1> DEFINE s == parent[w]
<1>1. /\ UNCHANGED <<schedulers, workers, event_q, list, ctx, faults, signals>>
      /\ pc[w] \in {"switch", "switch_wake"}
  BY Zenon DEF WorkerSwitches, PrepareSwitchContext
<1>2. s \in schedulers /\ s \in Schedulers
  BY <1>1, Zenon DEF Registered, Prepared, WillWakeParent, TypeOK
<1>3. /\ \A h \in Heads : ~Linked(w, h)
      /\ \A r \in Schedulers : Holding(r) => ctx[r] # w /\ ctx[r] \in Workers
  BY <1>1, Zenon DEF RunsOnlyParked, Parked, TypeOK
<1>4. CASE /\ pc[w] = "switch"
           /\ parent' = [parent EXCEPT ![s] = w]
           /\ PrepareSuspendContext(w)
           /\ Goto(w, "switch_wake")
  <2>1. /\ pc' \in [Threads -> SchedulerPCs \cup WorkerPCs]
        /\ \A t \in Threads : t # w => pc'[t] = pc[t]
        /\ pc'[w] = "switch_wake"
    BY <1>4, GotoPC, Zenon DEF WorkerPCs
  <2>2. /\ state' \in [Threads -> {"RUNNING", "IDLE"}]
        /\ task' \in [Threads -> {"running", "interruptible"}]
        /\ \A t \in Threads : t # w => task'[t] = task[t] /\ state'[t] = state[t]
        /\ task'[w] = "interruptible" /\ state'[w] = "IDLE"
    BY <1>4, Zenon DEF PrepareSuspendContext, TypeOK
  <2>3. /\ parent' \in [Threads -> Threads \cup {Uninit}]
        /\ \A t \in Threads : t # s => parent'[t] = parent[t]
        /\ parent'[s] = w
    BY <1>2, <1>4, Zenon DEF TypeOK
  <2>4. \A v \in Workers : parent'[v] = parent[v]
    BY <1>2, <2>3, Zenon
  <2>5. \A r \in Schedulers : pc'[r] = pc[r]
    BY <2>1, Zenon
  <2>6. TypeOK'
    <3>0. /\ \A r \in Schedulers : parent[r] \in Workers \cup {Uninit}
          /\ \A v \in Workers : parent[v] \in Schedulers \cup {Uninit}
      BY Zenon DEF TypeOK
    <3>1. /\ \A r \in Schedulers : parent'[r] \in Workers \cup {Uninit}
          /\ \A v \in Workers : parent'[v] \in Schedulers \cup {Uninit}
      BY <3>0, <1>2, <2>3, Zenon
    <3>2. /\ \A r \in Schedulers : pc'[r] \in SchedulerPCs
          /\ \A v \in Workers : pc'[v] \in WorkerPCs
      BY <2>1, <2>5, Zenon DEF TypeOK, WorkerPCs
    <3> QED
      BY <1>1, <2>1, <2>2, <2>3, <3>1, <3>2, Zenon DEF TypeOK
  <2>7. \A v \in Workers : Executing(v)' <=> Executing(v)
    BY <1>4, <2>1, <2>2, Zenon DEF Executing
  <2>8. OneToken'
    BY <1>1, <2>4, <2>5, <2>7, SMTT(60), Z3T(60) DEF OneToken, Handling
  <2>9. LinkedOnce'
    BY <1>1, SMTT(60), Z3T(60) DEF LinkedOnce
  <2>10. RunsOnlyParked'
    <3>1. \A v \in Workers : v # w => (Parked(v)' <=> Parked(v))
      BY <2>1, <2>2, Zenon DEF Parked
    <3> QED
      BY <1>1, <1>3, <2>5, <3>1, SMTT(30), Z3T(30) DEF RunsOnlyParked, Linked, Holding
  <2>11. Registered'
    BY <1>1, <2>1, <2>4, <2>5, Zenon DEF Registered
  <2>12. Prepared'
    <3>1. \A r \in Schedulers : pc[r] = "switch_wake" => ctx[r] \in Workers
      BY <1>3, Zenon DEF Holding
    <3>2. \A v \in Workers : WillWakeParent(v)' <=> WillWakeParent(v)
      BY <1>4, <2>1, Zenon DEF WillWakeParent
    <3>3. \A v \in Workers : pc'[v] \in {"enter_add", "switch_wake", "yield_add"} =>
             task'[v] = "interruptible" /\ state'[v] = "IDLE"
      BY <2>1, <2>2, Zenon DEF Prepared
    <3> QED
      BY <1>1, <2>4, <2>5, <2>7, <3>1, <3>2, <3>3, ZenonT(30) DEF Prepared
  <2>13. Walking'
    BY <1>1, <2>5, Zenon DEF Walking, Linked
  <2> QED
    BY <2>6, <2>8, <2>9, <2>10, <2>11, <2>12, <2>13, Zenon
<1>5. CASE /\ pc[w] = "switch_wake"
           /\ WakeUpContext(s)
           /\ Goto(w, "yield_add")
           /\ UNCHANGED parent
  <2>1. /\ pc' \in [Threads -> SchedulerPCs \cup WorkerPCs]
        /\ \A t \in Threads : t # w => pc'[t] = pc[t]
        /\ pc'[w] = "yield_add"
    BY <1>5, GotoPC, Zenon DEF WorkerPCs
  <2>2. /\ state' \in [Threads -> {"RUNNING", "IDLE"}]
        /\ task' \in [Threads -> {"running", "interruptible"}]
        /\ \A v \in Workers : task'[v] = task[v] /\ state'[v] = state[v]
    BY <1>2, <1>5, Zenon DEF WakeUpContext, TypeOK
  <2>3. \A r \in Schedulers : pc'[r] = pc[r]
    BY <2>1, Zenon
  <2>4. TypeOK'
    <3>1. /\ \A r \in Schedulers : pc'[r] \in SchedulerPCs
          /\ \A v \in Workers : pc'[v] \in WorkerPCs
      BY <2>1, <2>3, Zenon DEF TypeOK, WorkerPCs
    <3> QED
      BY <1>1, <1>5, <2>1, <2>2, <3>1, Zenon DEF TypeOK
  <2>5. \A v \in Workers : Executing(v)' <=> Executing(v)
    BY <1>5, <2>1, <2>2, Zenon DEF Executing
  <2>6. OneToken'
    BY <1>1, <1>5, <2>3, <2>5, ZenonT(30) DEF OneToken, Handling
  <2>7. LinkedOnce'
    BY <1>1 DEF LinkedOnce
  <2>8. RunsOnlyParked'
    <3>1. \A v \in Workers : v # w => (Parked(v)' <=> Parked(v))
      BY <2>1, <2>2, Zenon DEF Parked
    <3> QED
      BY <1>1, <1>3, <2>3, <3>1 DEF RunsOnlyParked, Linked, Holding
  <2>9. Registered'
    BY <1>1, <1>5, <2>1, <2>3, Zenon DEF Registered
  <2>10. Prepared'
    <3>1. \A v \in Workers : WillWakeParent(v)' => WillWakeParent(v)
      BY <1>5, <2>1, Zenon DEF WillWakeParent
    <3>2. \A v \in Workers : pc'[v] \in {"enter_add", "switch_wake", "yield_add"} =>
             task'[v] = "interruptible" /\ state'[v] = "IDLE"
      BY <1>5, <2>1, <2>2, Zenon DEF Prepared
    <3> QED
      BY <1>1, <1>5, <2>3, <2>5, <3>1, <3>2, Zenon DEF Prepared
  <2>11. Walking'
    BY <1>1, <2>3, Zenon DEF Walking, Linked
  <2> QED
    BY <2>4, <2>6, <2>7, <2>8, <2>9, <2>10, <2>11
<1> QED
  BY <1>4, <1>5, Zenon DEF WorkerSwitches, PrepareSwitchContext

-----------------------------------------------------------------------------
(* The actions that move contexts between lists.                           *)

\* A scheduler step that moves contexts between lists and its hand.  What it
\* has linked or holds afterwards it found linked or held before, and the run
\* queues of the other schedulers keep their entries.
LEMMA SchedulerMoves ==
    ASSUME IInv, NEW s \in Schedulers, Handling(s),
           UNCHANGED <<schedulers, workers, state, task, parent, event_q, signals>>,
           faults' \in 0..MaxFaults,
           pc' \in [Threads -> SchedulerPCs \cup WorkerPCs],
           pc'[s] \in {"dqevent", "dqcontext", "requeue", "collect", "switch"},
           \A t \in Threads : t # s => pc'[t] = pc[t],
           ctx' \in [Schedulers -> Workers \cup {Uninit}],
           \A r \in Schedulers : r # s => ctx'[r] = ctx[r],
           list' \in Lists,
           Once(list'),
           \A v : \A g \in Heads : In(list', v, g) =>
              (\E h \in Heads : In(list, v, h)) \/ (Holding(s) /\ v = ctx[s]),
           \A v : \A r \in Schedulers : r # s /\ In(list, v, r) => In(list', v, r),
           Holding(s)' =>
              /\ ctx'[s] \in Workers
              /\ (\E h \in Heads : In(list, ctx'[s], h)) \/ (Holding(s) /\ ctx'[s] = ctx[s])
              /\ \A g \in Heads : ~In(list', ctx'[s], g),
           pc'[s] = "collect" => In(list', ctx'[s], s)
    PROVE  IInv'
<1> USE ThreadsAssumption DEF IInv, Threads, Heads
<1>1. \A w \in Workers : pc'[w] = pc[w]
  BY Zenon
<1>2. TypeOK'
  <2>1. /\ \A r \in Schedulers : pc'[r] \in SchedulerPCs
        /\ \A v \in Workers : pc'[v] \in WorkerPCs
    BY <1>1, Zenon DEF TypeOK, SchedulerPCs
  <2> QED
    BY <2>1, Zenon DEF TypeOK, Lists
<1>3. OneToken'
  <2>1. \A r \in Schedulers : Handling(r)' => Handling(r)
    BY Zenon DEF Handling
  <2>2. \A w \in Workers : Executing(w)' <=> Executing(w)
    BY <1>1, Zenon DEF Executing
  <2> QED
    BY <2>1, <2>2, ZenonT(30) DEF OneToken
<1>4. LinkedOnce'
  BY ListForms, Zenon
<1>5. RunsOnlyParked'
  <2>1. \A w \in Workers : Parked(w)' <=> Parked(w)
    BY <1>1, Zenon DEF Parked
  <2>2. \A w \in Workers : \A h \in Heads : In(list, w, h) => Parked(w) /\ w \in workers
    BY ListForms, Zenon DEF RunsOnlyParked
  <2>3. \A r \in Schedulers : Holding(r) =>
           /\ Parked(ctx[r])
           /\ ctx[r] \in workers
           /\ ctx[r] \in Workers
           /\ \A h \in Heads : ~In(list, ctx[r], h)
           /\ \A q \in Schedulers : Holding(q) /\ ctx[q] = ctx[r] => q = r
    BY ListForms, SMTT(30), Z3T(30) DEF RunsOnlyParked, TypeOK
  <2>4. \A w \in Workers : \A h \in Heads : In(list', w, h) => Parked(w)' /\ w \in workers
    <3> SUFFICES ASSUME NEW w \in Workers, NEW h \in Heads, In(list', w, h)
                 PROVE  Parked(w)' /\ w \in workers
      BY Zenon
    <3> HIDE DEF IInv, Threads, Heads
    <3>1. CASE \E e \in Heads : In(list, w, e)
      BY <2>1, <2>2, <3>1, Zenon
    <3>2. CASE Holding(s) /\ w = ctx[s]
      BY <2>1, <2>3, <3>2, Zenon
    <3> QED
      BY <3>1, <3>2, Zenon
  <2>5. \A r \in Schedulers : r # s => (Holding(r)' <=> Holding(r))
    BY Zenon DEF Holding
  <2>6. \A r \in Schedulers : r # s /\ Holding(r) =>
           /\ \A g \in Heads : ~In(list', ctx[r], g)
           /\ Holding(s)' => ctx'[s] # ctx[r]
    BY <2>3, Zenon
  <2>7. Holding(s)' => Parked(ctx[s])' /\ ctx'[s] \in workers
    <3> SUFFICES ASSUME Holding(s)'
                 PROVE  Parked(ctx[s])' /\ ctx'[s] \in workers
      BY Zenon
    <3> HIDE DEF IInv, Threads, Heads
    <3>1. ctx'[s] \in Workers
      BY Zenon
    <3>2. CASE \E h \in Heads : In(list, ctx'[s], h)
      BY <1>1, <2>2, <3>1, <3>2, Zenon DEF Parked
    <3>3. CASE Holding(s) /\ ctx'[s] = ctx[s]
      BY <1>1, <2>3, <3>1, <3>3, ZenonT(30) DEF Parked
    <3> QED
      BY <3>2, <3>3, Zenon
  <2>8. \A r \in Schedulers : Holding(r)' =>
           /\ Parked(ctx[r])'
           /\ ctx'[r] \in workers'
           /\ \A h \in Heads : ~In(list', ctx'[r], h)
           /\ \A q \in Schedulers : Holding(q)' /\ ctx'[q] = ctx'[r] => q = r
    <3> SUFFICES ASSUME NEW r \in Schedulers, Holding(r)'
                 PROVE  /\ Parked(ctx[r])'
                        /\ ctx'[r] \in workers'
                        /\ \A h \in Heads : ~In(list', ctx'[r], h)
                        /\ \A q \in Schedulers : Holding(q)' /\ ctx'[q] = ctx'[r] => q = r
      BY Zenon
    <3>1. CASE r = s
      BY <2>5, <2>6, <2>7, <3>1, Zenon
    <3>2. CASE r # s
      <4>1. Parked(ctx[r])'
        BY <1>1, <2>3, <2>5, <3>2, ZenonT(30) DEF Parked
      <4> QED
        BY <2>3, <2>5, <2>6, <3>2, <4>1, ZenonT(30)
    <3> QED
      BY <3>1, <3>2, Zenon
  <2> QED
    BY <2>4, <2>8, ListForms, Zenon DEF RunsOnlyParked
<1>6. Registered'
  BY <1>1, Zenon DEF Registered, Handling
<1>7. Prepared'
  BY <1>1, ZenonT(30) DEF Prepared, Executing, WillWakeParent
<1>8. Walking'
  <2>1. \A r \in Schedulers : pc[r] = "collect" => In(list, ctx[r], r)
    BY ListForms, Zenon DEF Walking
  <2>2. \A r \in Schedulers : pc'[r] = "collect" => In(list', ctx'[r], r)
    BY <2>1, Zenon
  <2> QED
    BY <2>2, ListForms, Zenon DEF Walking
<1> QED
  BY <1>2, <1>3, <1>4, <1>5, <1>6, <1>7, <1>8, Zenon

\* The first context of the run queue goes from the queue to the hand.
LEMMA GetNextContextStep ==
    ASSUME IInv, NEW s \in Schedulers, GetNextContext(s)
    PROVE  IInv'
<1> USE DEF IInv
<1>1. /\ pc[s] = "next_context"
      /\ Handling(s)
      /\ ~Holding(s)
      /\ UNCHANGED <<schedulers, workers, state, task, parent, event_q, faults, signals>>
      /\ s \in Threads
      /\ s \in Heads
      /\ list \in Lists
      /\ Once(list)
      /\ faults' \in 0..MaxFaults
      /\ ctx \in [Schedulers -> Workers \cup {Uninit}]
  BY ListForms, Zenon DEF GetNextContext, Handling, Holding, Threads, Heads, TypeOK, Lists
<1>2. CASE /\ list[s] # <<>>
           /\ ctx' = [ctx EXCEPT ![s] = Head(list[s])]
           /\ list' = [list EXCEPT ![s] = Tail(@)]
           /\ Goto(s, "switch")
  <2>0. Changed(list, list', s, Tail(list[s]))
    <3>1. list[s] \in Seq(Workers) /\ Tail(list[s]) \in Seq(Workers)
      BY <1>1, <1>2 DEF Lists
    <3> QED
      BY <1>1, <1>2, <3>1, ExceptChanges, Zenon
  <2>1. /\ list' \in Lists
        /\ Once(list')
        /\ Head(list[s]) \in Workers
        /\ In(list, Head(list[s]), s)
        /\ \A v, g : In(list', v, g) /\ g \in Heads => In(list, v, g) /\ v # Head(list[s])
        /\ \A v, g : In(list, v, g) /\ g \in Heads /\ v # Head(list[s]) => In(list', v, g)
    <3>1. list' \in Lists
      BY <2>0, Zenon DEF Changed
    <3>2. list[s] # <<>>
      BY <1>2
    <3> QED
      BY <1>1, <2>0, <3>1, <3>2, TailOnce, Zenon
  <2>2. /\ pc' \in [Threads -> SchedulerPCs \cup WorkerPCs]
        /\ pc'[s] = "switch"
        /\ \A t \in Threads : t # s => pc'[t] = pc[t]
    BY <1>1, <1>2, GotoPC, Zenon DEF SchedulerPCs
  <2>3. /\ ctx' \in [Schedulers -> Workers \cup {Uninit}]
        /\ ctx'[s] = Head(list[s])
        /\ \A r \in Schedulers : r # s => ctx'[r] = ctx[r]
    BY <1>1, <1>2, <2>1, Zenon
  <2>4. \A v : \A r \in Schedulers : r # s /\ In(list, v, r) => In(list', v, r)
    BY <2>0, Zenon DEF In, Changed, Heads, Threads
  <2> QED
    BY <1>1, <2>1, <2>2, <2>3, <2>4, SchedulerMoves, Zenon
<1>3. CASE /\ Goto(s, "dqcontext")
           /\ UNCHANGED <<list, ctx>>
  <2>1. /\ pc' \in [Threads -> SchedulerPCs \cup WorkerPCs]
        /\ pc'[s] = "dqcontext"
        /\ \A t \in Threads : t # s => pc'[t] = pc[t]
    BY <1>1, <1>3, GotoPC, Zenon DEF SchedulerPCs
  <2>2. ~Holding(s)'
    BY <2>1, Zenon DEF Holding
  <2> QED
    BY <1>1, <1>3, <2>1, <2>2, SchedulerMoves, Zenon
<1> QED
  BY <1>2, <1>3, Zenon DEF GetNextContext

\* A context that is published was prepared, and was in no list.
LEMMA PublishContextStep ==
    ASSUME IInv, NEW w \in Workers, PublishContext(w)
    PROVE  IInv'
<1> USE ThreadsAssumption DEF IInv, Threads, Heads
<1>1. /\ pc[w] \in {"enter_add", "yield_add"}
      /\ UNCHANGED <<schedulers, workers, state, task, parent, event_q, ctx, faults, signals>>
  BY Zenon DEF PublishContext
<1>2. /\ pc' \in [Threads -> SchedulerPCs \cup WorkerPCs]
      /\ pc'[w] = "asleep"
      /\ \A t \in Threads : t # w => pc'[t] = pc[t]
  BY GotoPC, Zenon DEF PublishContext, WorkerPCs
<1>3. /\ \A h \in Heads : ~In(list, w, h)
      /\ \A s \in Schedulers : Holding(s) => ctx[s] # w /\ ctx[s] \in Workers
  BY <1>1, ListForms, Zenon DEF RunsOnlyParked, Parked, TypeOK
<1>4. /\ list' \in Lists
      /\ Once(list')
      /\ \A v, g : In(list', v, g) /\ g \in Heads => In(list, v, g) \/ (v = w /\ g = CompList)
      /\ \A v, g : In(list, v, g) /\ g \in Heads /\ g # w => In(list', v, g)
  <2>1. list \in Lists /\ Once(list)
    BY ListForms, Zenon DEF TypeOK, Lists
  <2>2. w # CompList /\ w \in Heads
    BY Zenon
  <2> HIDE DEF IInv, Threads, Heads
  <2>3. list[CompList] \in Seq(Workers) /\ CompList \in Heads
    BY <2>1, Zenon DEF Lists, Heads
  <2>4. Append(list[CompList], w) \in Seq(Workers)
    BY <2>3
  <2>5. PICK P : P = [list EXCEPT ![CompList] = Append(list[CompList], w)]
    BY Zenon
  <2>6. Changed(list, P, CompList, Append(list[CompList], w))
    BY <2>1, <2>3, <2>4, <2>5, ExceptChanges, Zenon
  <2>7. /\ P \in Lists
        /\ Once(P)
        /\ \A v, g : In(P, v, g) /\ g \in Heads => In(list, v, g) \/ (v = w /\ g = CompList)
        /\ \A v, g : In(list, v, g) /\ g \in Heads => In(P, v, g)
    BY <1>3, <2>1, <2>3, <2>6, AppendOnce, ZenonT(30) DEF Changed
  <2>8. Changed(P, list', w, <<>>)
    <3>1. list' = [P EXCEPT ![w] = <<>>]
      BY <2>5, Zenon DEF PublishContext, UmsCompletionListAddTail
    <3> QED
      BY <2>2, <2>7, <3>1, ExceptChanges, EmptySeq, Zenon
  <2>9. list' \in Lists
    BY <2>8, Zenon DEF Changed
  <2>10. /\ Once(list')
         /\ \A v, g : In(list', v, g) /\ g \in Heads => In(P, v, g)
         /\ \A v, g : In(P, v, g) /\ g \in Heads /\ g # w => In(list', v, g)
    BY <2>2, <2>7, <2>8, <2>9, ClearOnce, Zenon
  <2> QED
    BY <2>7, <2>9, <2>10, Zenon
<1>5. task[w] = "interruptible" /\ state[w] = "IDLE" /\ w \in workers
  BY <1>1, Zenon DEF Prepared, Registered
<1>6. \A s \in Schedulers : pc'[s] = pc[s]
  BY <1>2, Zenon
<1>7. TypeOK'
  <2>1. \A v \in Workers : pc'[v] \in WorkerPCs
    BY <1>2, Zenon DEF TypeOK, WorkerPCs
  <2> QED
    BY <1>1, <1>2, <1>4, <1>6, <2>1, Zenon DEF TypeOK, Lists
<1>8. \A v \in Workers : Executing(v)' <=> Executing(v)
  BY <1>1, <1>2, <1>5, Zenon DEF Executing
<1>9. OneToken'
  BY <1>1, <1>6, <1>8, ZenonT(60) DEF OneToken, Handling
<1>10. LinkedOnce'
  BY <1>4, ListForms, Zenon
<1>11. RunsOnlyParked'
  <2>1. \A v \in Workers : Parked(v)' <=> Parked(v) \/ v = w
    BY <1>1, <1>2, <1>5, Zenon DEF Parked
  <2>2. \A v \in Workers : \A h \in Heads : In(list', v, h) => Parked(v)' /\ v \in workers'
    BY <1>1, <1>4, <1>5, <2>1, ListForms, Zenon DEF RunsOnlyParked
  <2>3. \A s \in Schedulers : Holding(s) => \A h \in Heads : ~In(list', ctx[s], h)
    BY <1>3, <1>4, ListForms, Zenon DEF RunsOnlyParked
  <2>4. \A s \in Schedulers : Holding(s)' <=> Holding(s)
    BY <1>6, Zenon DEF Holding
  <2>5. \A s \in Schedulers : Holding(s) => Parked(ctx[s])' /\ ctx[s] \in workers
    BY <1>1, <1>2, <1>3, ZenonT(30) DEF RunsOnlyParked, Parked
  <2> QED
    BY <1>1, <2>2, <2>3, <2>4, <2>5, ListForms, Zenon DEF RunsOnlyParked
<1>12. Registered'
  BY <1>1, <1>2, <1>5, <1>6, Zenon DEF Registered
<1>13. Prepared'
  BY <1>1, <1>2, <1>6, <1>8, Zenon DEF Prepared, WillWakeParent
<1>14. Walking'
  BY <1>1, <1>4, <1>6, ListForms, Zenon DEF Walking
<1> QED
  BY <1>7, <1>9, <1>10, <1>11, <1>12, <1>13, <1>14

\* The context in hand goes back to the head of the completion list.
LEMMA ReregisterContextStep ==
    ASSUME IInv, NEW s \in Schedulers, ReregisterContext(s)
    PROVE  IInv'
<1> USE DEF IInv
<1> DEFINE w == ctx[s]
<1>1. /\ pc[s] = "requeue"
      /\ Handling(s)
      /\ Holding(s)
      /\ UNCHANGED <<schedulers, workers, state, task, parent, event_q, ctx, faults, signals>>
      /\ s \in Threads
      /\ CompList \in Heads
      /\ list \in Lists
      /\ Once(list)
      /\ faults' \in 0..MaxFaults
      /\ ctx \in [Schedulers -> Workers \cup {Uninit}]
  BY ListForms, Zenon DEF ReregisterContext, Handling, Holding, Threads, Heads, TypeOK, Lists
<1>2. /\ w \in Workers
      /\ w \in Heads
      /\ w # CompList
      /\ w \notin Schedulers
      /\ \A h \in Heads : ~In(list, w, h)
  BY <1>1, ListForms, ThreadsAssumption, SMTT(30), Z3T(30) DEF RunsOnlyParked, Heads, Threads, TypeOK
<1>3. /\ pc' \in [Threads -> SchedulerPCs \cup WorkerPCs]
      /\ pc'[s] = "dqevent"
      /\ \A t \in Threads : t # s => pc'[t] = pc[t]
  BY <1>1, GotoPC, Zenon DEF ReregisterContext, SchedulerPCs
<1>4. PICK P : P = [list EXCEPT ![CompList] = <<w>> \o list[CompList]]
  BY Zenon
<1>5. Changed(list, P, CompList, <<w>> \o list[CompList])
  <2>1. list[CompList] \in Seq(Workers) /\ <<w>> \in Seq(Workers)
    BY <1>1, <1>2, SMTT(60), Z3T(60) DEF Lists
  <2>2. <<w>> \o list[CompList] \in Seq(Workers)
    BY <2>1
  <2> QED
    BY <1>1, <1>4, <2>2, ExceptChanges, Zenon
<1>6. /\ P \in Lists
      /\ Once(P)
      /\ \A v, g : In(P, v, g) /\ g \in Heads => In(list, v, g) \/ (v = w /\ g = CompList)
      /\ \A v, g : In(list, v, g) /\ g \in Heads => In(P, v, g)
  <2>1. P \in Lists
    BY <1>5, Zenon DEF Changed
  <2> QED
    BY <1>1, <1>2, <1>5, <2>1, PrependOnce, SMTT(30), Z3T(30)
<1>7. Changed(P, list', w, <<>>)
  <2>1. list' = [P EXCEPT ![w] = <<>>]
    BY <1>4, Zenon DEF ReregisterContext
  <2> QED
    BY <1>2, <1>6, <2>1, ExceptChanges, EmptySeq, Zenon
<1>8. /\ list' \in Lists
      /\ Once(list')
      /\ \A v, g : In(list', v, g) /\ g \in Heads => In(P, v, g)
      /\ \A v, g : In(P, v, g) /\ g \in Heads /\ g # w => In(list', v, g)
  <2>1. list' \in Lists
    BY <1>7, Zenon DEF Changed
  <2> QED
    BY <1>2, <1>6, <1>7, <2>1, ClearOnce, Zenon
<1>9. \A v : \A g \in Heads : In(list', v, g) =>
         (\E h \in Heads : In(list, v, h)) \/ (Holding(s) /\ v = ctx[s])
  BY <1>1, <1>6, <1>8, Zenon
<1>10. \A v : \A r \in Schedulers : r # s /\ In(list, v, r) => In(list', v, r)
  BY <1>2, <1>6, <1>8, Zenon DEF Heads, Threads
<1>11. ~Holding(s)'
  BY <1>3, Zenon DEF Holding
<1> QED
  BY <1>1, <1>3, <1>8, <1>9, <1>10, <1>11, SchedulerMoves, Zenon

\* Detaching the first entry of a list that is no run queue unlinks that entry
\* only, and touches no run queue.
LEMMA Detaches ==
    ASSUME IInv, NEW h \in Heads, h \notin Schedulers, list[h] # <<>>,
           Head(list[h]) # h, NEW M, M = Detached(h)
    PROVE  /\ M \in Lists
           /\ Once(M)
           /\ Head(list[h]) \in Workers
           /\ In(list, Head(list[h]), h)
           /\ \A v : \A g \in Heads : In(M, v, g) =>
                 v # Head(list[h]) /\ \E e \in Heads : In(list, v, e)
           /\ \A r \in Schedulers : M[r] = list[r]
<1>1. /\ list \in Lists
      /\ Once(list)
      /\ M = Detach(list, h)
  BY ListForms, Zenon DEF IInv, TypeOK, Lists
<1>2. PICK f : f = Head(list[h])
  BY Zenon
<1>3. /\ M \in Lists
      /\ Once(M)
      /\ f \in Workers
      /\ In(list, f, h)
      /\ \A v, g : In(M, v, g) /\ g \in Heads =>
            v # f /\ (In(list, v, g) \/ (g = f /\ In(list, v, h)))
      /\ \A g \in Heads : g # h /\ g # f => M[g] = list[g]
  BY <1>1, <1>2, DetachOnce, SMTT(30), Z3T(30)
<1>4. \A r \in Schedulers : M[r] = list[r]
  BY <1>3, ThreadsAssumption, Zenon DEF Heads, Threads
<1> QED
  BY <1>2, <1>3, <1>4, Zenon

\* The whole completion list moves to its first context, and that context to
\* the run queue or, on failure, to the hand.
LEMMA UmsComplistDqcontextStep ==
    ASSUME IInv, NEW s \in Schedulers, UmsComplistDqcontext(s)
    PROVE  IInv'
<1> USE DEF IInv
<1> DEFINE first == Head(list[CompList])
           D == Detached(CompList)
<1>1. /\ pc[s] = "dqcontext"
      /\ Handling(s)
      /\ ~Holding(s)
      /\ UNCHANGED <<schedulers, workers, state, task, parent, event_q, signals>>
      /\ s \in Threads
      /\ s \in Heads
      /\ CompList \in Heads
      /\ CompList \notin Schedulers
      /\ CompList \notin Workers
      /\ list \in Lists
      /\ Once(list)
      /\ ctx \in [Schedulers -> Workers \cup {Uninit}]
  BY ListForms, ThreadsAssumption, Zenon DEF UmsComplistDqcontext, Handling, Holding, Threads,
     Heads, TypeOK, Lists
<1>2. faults' \in 0..MaxFaults
  BY BoundsAssumption, SMTT(60), Z3T(60) DEF UmsComplistDqcontext, Fault, TypeOK
<1>3. ASSUME list[CompList] # <<>>
      PROVE  /\ D \in Lists
             /\ Once(D)
             /\ first \in Workers
             /\ In(list, first, CompList)
             /\ \A v : \A g \in Heads : In(D, v, g) =>
                   v # first /\ \E e \in Heads : In(list, v, e)
             /\ \A r \in Schedulers : D[r] = list[r]
  <2>1. first \in Workers
    <3>1. list[CompList] \in Seq(Workers)
      BY <1>1, Zenon DEF TypeOK
    <3> QED
      BY <1>3, <3>1
  <2> QED
    BY <1>1, <1>3, <2>1, Detaches, Zenon
<1> HIDE DEF D, first
<1>4. ASSUME list[CompList] # <<>>, ctx' = [ctx EXCEPT ![s] = first]
      PROVE  /\ ctx' \in [Schedulers -> Workers \cup {Uninit}]
             /\ ctx'[s] = first
             /\ \A r \in Schedulers : r # s => ctx'[r] = ctx[r]
  BY <1>1, <1>3, <1>4, Zenon
<1>5. CASE /\ list[CompList] # <<>>
           /\ ctx' = [ctx EXCEPT ![s] = first]
           /\ list' = [D EXCEPT ![s] = <<first>>]
           /\ Goto(s, "collect")
  <2>1. /\ pc' \in [Threads -> SchedulerPCs \cup WorkerPCs]
        /\ pc'[s] = "collect"
        /\ \A t \in Threads : t # s => pc'[t] = pc[t]
    BY <1>1, <1>5, GotoPC, Zenon DEF SchedulerPCs
  <2>2. PICK N : Changed(D, N, s, <<>>)
    BY <1>1, <1>3, <1>5, ExceptChanges, EmptySeq, Zenon
  <2>3. /\ N \in Lists
        /\ Once(N)
        /\ \A v, g : In(N, v, g) /\ g \in Heads => In(D, v, g)
    BY <1>1, <1>3, <1>5, <2>2, ClearOnce, Zenon DEF Changed
  <2>4. Changed(D, list', s, <<first>>)
    <3>1. <<first>> \in Seq(Workers)
      BY <1>3, <1>5
    <3> QED
      BY <1>1, <1>3, <1>5, <3>1, ExceptChanges, Zenon
  <2>5. <<first>> = Append(N[s], first)
    <3>1. N[s] = <<>>
      BY <1>1, <2>2, Zenon DEF Changed
    <3> QED
      BY <3>1, SMTT(60), Z3T(60)
  <2>6. Changed(N, list', s, Append(N[s], first))
    BY <2>2, <2>4, <2>5, Zenon DEF Changed
  <2>7. list' \in Lists
    BY <2>4, Zenon DEF Changed
  <2>8. \A g \in Heads : ~In(N, first, g)
    BY <1>3, <1>5, <2>3, Zenon
  <2>9. /\ Once(list')
        /\ \A v, g : In(list', v, g) /\ g \in Heads => In(N, v, g) \/ (v = first /\ g = s)
        /\ In(list', first, s)
    <3>1. s \in Heads /\ first \in Workers /\ N \in Lists /\ Once(N)
      BY <1>1, <1>3, <1>5, <2>3, Zenon
    <3> QED
      BY <2>6, <2>8, <3>1, AppendOnce, ZenonT(60)
  <2>10. \A v : \A g \in Heads : In(list', v, g) => \E h \in Heads : In(list, v, h)
    BY <1>1, <1>3, <1>5, <2>3, <2>9, ZenonT(60)
  <2>11. \A v : \A r \in Schedulers : r # s /\ In(list, v, r) => In(list', v, r)
    BY <1>3, <1>5, <2>4, SMTT(30), Z3T(30) DEF Changed, In, Heads, Threads
  <2>12. ~Holding(s)'
    BY <2>1, Zenon DEF Holding
  <2> QED
    BY <1>1, <1>2, <1>4, <1>5, <2>1, <2>7, <2>9, <2>10, <2>11, <2>12, SchedulerMoves, Zenon
<1>6. CASE /\ list[CompList] # <<>>
           /\ ctx' = [ctx EXCEPT ![s] = first]
           /\ list' = D
           /\ Goto(s, "requeue") \/ Goto(s, "dqevent")
  <2>1. /\ pc' \in [Threads -> SchedulerPCs \cup WorkerPCs]
        /\ pc'[s] \in {"requeue", "dqevent"}
        /\ \A t \in Threads : t # s => pc'[t] = pc[t]
    BY <1>1, <1>6, GotoPC, Zenon DEF SchedulerPCs
  <2>2. \A v : \A r \in Schedulers : r # s /\ In(list, v, r) => In(list', v, r)
    BY <1>3, <1>6, Zenon DEF In
  <2>3. /\ list' \in Lists
        /\ Once(list')
        /\ \A v : \A g \in Heads : In(list', v, g) => \E h \in Heads : In(list, v, h)
        /\ \A g \in Heads : ~In(list', first, g)
    BY <1>3, <1>6, Zenon
  <2> QED
    BY <1>1, <1>2, <1>3, <1>4, <1>6, <2>1, <2>2, <2>3, SchedulerMoves, Zenon
<1>7. CASE Goto(s, "dqevent") /\ UNCHANGED <<list, ctx>>
  <2>1. /\ pc' \in [Threads -> SchedulerPCs \cup WorkerPCs]
        /\ pc'[s] = "dqevent"
        /\ \A t \in Threads : t # s => pc'[t] = pc[t]
    BY <1>1, <1>7, GotoPC, Zenon DEF SchedulerPCs
  <2>2. ~Holding(s)'
    BY <2>1 DEF Holding
  <2> QED
    BY <1>1, <1>2, <1>7, <2>1, <2>2, SchedulerMoves, Zenon
<1> QED
  BY <1>5, <1>6, <1>7, Zenon DEF UmsComplistDqcontext, D, first

\* One context moves from the list being walked to the run queue, or the walk
\* ends and the first of the run queue is taken.
LEMMA UmsComplistNextContextStep ==
    ASSUME IInv, NEW s \in Schedulers, UmsComplistNextContext(s)
    PROVE  IInv'
<1> USE DEF IInv
<1> DEFINE c == ctx[s]
           next == Head(list[c])
           mine == Head(list[s])
           D == Detached(c)
<1>1. /\ pc[s] = "collect"
      /\ Handling(s)
      /\ ~Holding(s)
      /\ UNCHANGED <<schedulers, workers, state, task, parent, event_q, signals>>
      /\ s \in Threads
      /\ s \in Heads
      /\ ctx \in [Schedulers -> Workers \cup {Uninit}]
      /\ list \in Lists
      /\ Once(list)
  BY ListForms, Zenon DEF UmsComplistNextContext, Handling, Holding, Threads, Heads, TypeOK,
     Lists
<1>2. faults' \in 0..MaxFaults
  BY BoundsAssumption, SMTT(30), Z3T(30) DEF UmsComplistNextContext, Fault, TypeOK
<1>3. c \in Workers /\ c \in Heads /\ c \notin Schedulers /\ c # s
  BY ThreadsAssumption, Zenon DEF UmsComplistNextContext, TypeOK, Heads, Threads
<1>4. In(list, c, s) /\ list[s] # <<>>
  <2>1. In(list, c, s)
    BY <1>1, ListForms, Zenon DEF Walking
  <2> QED
    BY <2>1 DEF In
\* The first context of the run queue leaves it.
<1>5. ASSUME NEW L \in Lists, Once(L), L[s] = list[s], Changed(L, list', s, Tail(list[s]))
      PROVE  /\ list' \in Lists
             /\ Once(list')
             /\ mine \in Workers
             /\ In(list, mine, s)
             /\ \A v : \A g \in Heads : In(list', v, g) => In(L, v, g) /\ v # mine
  <2>1. list' \in Lists
    BY <1>5, Zenon DEF Changed
  <2>2. /\ L[s] # <<>>
        /\ Changed(L, list', s, Tail(L[s]))
    BY <1>4, <1>5, Zenon
  <2>3. /\ Once(list')
        /\ Head(L[s]) \in Workers
        /\ In(L, Head(L[s]), s)
        /\ \A v, g : In(list', v, g) /\ g \in Heads => In(L, v, g) /\ v # Head(L[s])
    BY <1>1, <1>5, <2>2, TailOnce, Zenon
  <2>4. In(list, mine, s)
    BY <1>5, <2>3, Zenon DEF In
  <2> QED
    BY <1>5, <2>1, <2>3, <2>4, Zenon
<1>6. list[s] \in Seq(Workers) /\ Tail(list[s]) \in Seq(Workers)
  BY <1>1, <1>4, SMTT(60), Z3T(60) DEF Lists
<1>7. ASSUME list[c] # <<>>
      PROVE  /\ D \in Lists
             /\ Once(D)
             /\ next \in Workers
             /\ In(list, next, c)
             /\ \A v : \A g \in Heads : In(D, v, g) =>
                   v # next /\ \E e \in Heads : In(list, v, e)
             /\ \A r \in Schedulers : D[r] = list[r]
  <2>1. next # c
    <3>1. list[c] \in Seq(Workers)
      BY <1>1, <1>3, Zenon DEF Lists
    <3>2. 1 \in DOMAIN list[c] /\ next = list[c][1]
      BY <1>7, <3>1, SMTT(30), Z3T(30)
    <3> QED
      BY <1>1, <1>3, <1>4, <3>2, SMTT(30), Z3T(30) DEF In, Once
  <2> QED
    BY <1>3, <1>7, <2>1, Detaches, ZenonT(60)
<1> HIDE DEF c, next, mine, D
<1>8. CASE /\ list' = [list EXCEPT ![s] = Tail(@)]
           /\ ctx' = [ctx EXCEPT ![s] = mine]
           /\ Goto(s, "switch")
  <2>1. Changed(list, list', s, Tail(list[s]))
    BY <1>1, <1>6, <1>8, ExceptChanges, Zenon
  <2>2. /\ list' \in Lists
        /\ Once(list')
        /\ mine \in Workers
        /\ In(list, mine, s)
        /\ \A v : \A g \in Heads : In(list', v, g) => In(list, v, g) /\ v # mine
    BY <1>1, <1>5, <2>1, Zenon
  <2>3. /\ pc' \in [Threads -> SchedulerPCs \cup WorkerPCs]
        /\ pc'[s] = "switch"
        /\ \A t \in Threads : t # s => pc'[t] = pc[t]
    BY <1>1, <1>8, GotoPC, Zenon DEF SchedulerPCs
  <2>4. /\ ctx' \in [Schedulers -> Workers \cup {Uninit}]
        /\ ctx'[s] = mine
        /\ \A r \in Schedulers : r # s => ctx'[r] = ctx[r]
    BY <1>1, <1>8, <2>2, Zenon
  <2>5. \A v : \A r \in Schedulers : r # s /\ In(list, v, r) => In(list', v, r)
    BY <2>1, Zenon DEF In, Changed, Heads, Threads
  <2> QED
    BY <1>1, <1>2, <2>2, <2>3, <2>4, <2>5, SchedulerMoves, Zenon
<1>9. CASE /\ list[c] # <<>>
           /\ list' = [D EXCEPT ![s] = Append(@, next)]
           /\ ctx' = [ctx EXCEPT ![s] = next]
           /\ UNCHANGED pc
  <2>1. Changed(D, list', s, Append(D[s], next))
    <3>1. D[s] \in Seq(Workers)
      BY <1>6, <1>7, <1>9, Zenon
    <3>2. Append(D[s], next) \in Seq(Workers)
      BY <1>7, <1>9, <3>1, SMTT(60), Z3T(60)
    <3> QED
      BY <1>1, <1>7, <1>9, <3>2, ExceptChanges, Zenon
  <2>2. list' \in Lists
    BY <2>1, Zenon DEF Changed
  <2>3. s \in Heads /\ next \in Workers /\ D \in Lists /\ Once(D)
    BY <1>1, <1>7, <1>9, Zenon
  <2>4. \A g \in Heads : ~In(D, next, g)
    BY <1>7, <1>9, Zenon
  <2>5. /\ Once(list')
        /\ \A v, g : In(list', v, g) /\ g \in Heads => In(D, v, g) \/ (v = next /\ g = s)
        /\ In(list', next, s)
    BY <2>1, <2>3, <2>4, AppendOnce, SMTT(30), Z3T(30)
  <2>6. \A v : \A g \in Heads : In(list', v, g) => \E h \in Heads : In(list, v, h)
    BY <1>3, <1>7, <1>9, <2>5, Zenon
  <2>7. \A v : \A r \in Schedulers : r # s /\ In(list, v, r) => In(list', v, r)
    BY <1>7, <1>9, <2>1, SMTT(30), Z3T(30) DEF Changed, In, Heads, Threads
  <2>8. /\ ctx' \in [Schedulers -> Workers \cup {Uninit}]
        /\ ctx'[s] = next
        /\ \A r \in Schedulers : r # s => ctx'[r] = ctx[r]
    BY <1>1, <1>9, <2>3, Zenon
  <2>9. /\ pc' \in [Threads -> SchedulerPCs \cup WorkerPCs]
        /\ pc'[s] = "collect"
        /\ \A t \in Threads : t # s => pc'[t] = pc[t]
        /\ ~Holding(s)'
    BY <1>1, <1>9, Zenon DEF TypeOK, Holding
  <2> QED
    BY <1>1, <1>2, <2>2, <2>5, <2>6, <2>7, <2>8, <2>9, SchedulerMoves, Zenon
<1>10. CASE /\ list[c] # <<>>
            /\ list' = [D EXCEPT ![s] = Tail(@)]
            /\ ctx' = [ctx EXCEPT ![s] = mine]
            /\ Goto(s, "switch")
  <2>1. D \in Lists /\ Once(D) /\ D[s] = list[s]
    BY <1>7, <1>10, Zenon
  <2>2. Changed(D, list', s, Tail(list[s]))
    BY <1>1, <1>6, <1>10, <2>1, ExceptChanges, Zenon
  <2>3. /\ list' \in Lists
        /\ Once(list')
        /\ mine \in Workers
        /\ In(list, mine, s)
        /\ \A v : \A g \in Heads : In(list', v, g) => In(D, v, g) /\ v # mine
    BY <1>5, <2>1, <2>2, Zenon
  <2>4. \A v : \A g \in Heads : In(list', v, g) => \E h \in Heads : In(list, v, h)
    BY <1>7, <1>10, <2>3, Zenon
  <2>5. /\ pc' \in [Threads -> SchedulerPCs \cup WorkerPCs]
        /\ pc'[s] = "switch"
        /\ \A t \in Threads : t # s => pc'[t] = pc[t]
    BY <1>1, <1>10, GotoPC, Zenon DEF SchedulerPCs
  <2>6. /\ ctx' \in [Schedulers -> Workers \cup {Uninit}]
        /\ ctx'[s] = mine
        /\ \A r \in Schedulers : r # s => ctx'[r] = ctx[r]
    BY <1>1, <1>10, <2>3, ZenonT(60)
  <2>7. \A v : \A r \in Schedulers : r # s /\ In(list, v, r) => In(list', v, r)
    BY <1>7, <1>10, <2>2, SMTT(30), Z3T(30) DEF In, Changed, Heads, Threads
  <2> QED
    BY <1>1, <1>2, <2>3, <2>4, <2>5, <2>6, <2>7, SchedulerMoves, Zenon
<1>11. CASE /\ list[c] # <<>>
            /\ list' = D
            /\ Goto(s, "dqevent")
            /\ UNCHANGED ctx
  <2>1. /\ list' \in Lists
        /\ Once(list')
        /\ \A v : \A g \in Heads : In(list', v, g) => \E h \in Heads : In(list, v, h)
    BY <1>7, <1>11, Zenon
  <2>2. \A v : \A r \in Schedulers : r # s /\ In(list, v, r) => In(list', v, r)
    BY <1>7, <1>11, Zenon DEF In
  <2>3. /\ pc' \in [Threads -> SchedulerPCs \cup WorkerPCs]
        /\ pc'[s] = "dqevent"
        /\ \A t \in Threads : t # s => pc'[t] = pc[t]
    BY <1>1, <1>11, GotoPC, Zenon DEF SchedulerPCs
  <2>4. ~Holding(s)'
    BY <2>3 DEF Holding
  <2> QED
    BY <1>1, <1>2, <1>11, <2>1, <2>2, <2>3, <2>4, SchedulerMoves, Zenon
<1> QED
  BY <1>8, <1>9, <1>10, <1>11, Zenon DEF UmsComplistNextContext, c, next, mine, D

\* The invariant is about the variables only.
LEMMA StutterStep ==
    ASSUME IInv, UNCHANGED vars
    PROVE  IInv'
<1> USE DEF IInv, vars
<1>1. TypeOK'
  BY Zenon DEF TypeOK
<1>2. OneToken' /\ LinkedOnce'
  <2>1. OneToken'
    BY ZenonT(60) DEF OneToken, Executing, Handling
  <2>2. LinkedOnce'
    BY SMTT(60), Z3T(60) DEF LinkedOnce
  <2> QED
    BY <2>1, <2>2, Zenon
<1>3. RunsOnlyParked'
  BY ZenonT(60) DEF RunsOnlyParked, Linked, Holding, Parked
<1>4. Registered' /\ Prepared' /\ Walking'
  BY Zenon DEF Registered, Prepared, Executing, WillWakeParent, Walking, Linked
<1> QED
  BY <1>1, <1>2, <1>3, <1>4, Zenon

\* Every step of the threads keeps the invariant.
LEMMA NextIInv ==
    ASSUME IInv, [Next]_vars
    PROVE  IInv'
<1>1. ASSUME NEW s \in Schedulers, SchedulerStep(s)
      PROVE  IInv'
  BY <1>1, EnterUmsSchedulerModeStep, UmsSchedDqeventStep, GetNextContextStep,
     UmsComplistDqcontextStep, ReregisterContextStep, UmsComplistNextContextStep,
     ExecUmsContextStep, SchedulerResumesStep, Zenon DEF SchedulerStep
<1>2. ASSUME NEW s \in Schedulers, Signal(s)
      PROVE  IInv'
  BY <1>2, SignalStep, Zenon
<1>3. ASSUME NEW w \in Workers, WorkerStep(w)
      PROVE  IInv'
  BY <1>3, EnterUmsWorkerModeStep, PublishContextStep, WorkerResumesStep, UmsWorkerYieldStep,
     WorkerSwitchesStep, UmsWorkerEndStep, WorkerWakesParentStep, UmsWorkerDestroyStep, Zenon DEF
     WorkerStep
<1>4. CASE MainReturns
  BY <1>4, MainReturnsStep
<1>5. CASE UNCHANGED vars
  BY <1>5, StutterStep
<1> QED
  BY <1>1, <1>2, <1>3, <1>4, <1>5, Zenon DEF Next

-----------------------------------------------------------------------------
(* The theorems.                                                           *)

\* The strengthened invariant holds in every reachable state of the handlers.
THEOREM Inductive == Spec => []IInv
<1>1. IInv /\ [Next]_vars => IInv'
  BY NextIInv
<1> QED
  BY InitIInv, <1>1, PTL DEF Spec

\* The variables of the handlers keep their types; in particular no handler
\* enqueues an event at, or wakes, anything but a thread of the other kind.
THEOREM TypeCorrect == Spec => []TypeOK
<1>1. IInv => TypeOK
  BY DEF IInv
<1> QED
  BY Inductive, <1>1, PTL

\* For any number of threads, failures and signals, the right to use a
\* scheduler's processor is in one place: exec_ums_context, ums_worker_yield
\* and ums_worker_end hand it on and never duplicate it.
THEOREM SingleToken == Spec => []OneToken
<1>1. IInv => OneToken
  BY DEF IInv
<1> QED
  BY Inductive, <1>1, PTL

\* No list operation of complist.c links a context that is linked already.
THEOREM ContextsLinkedOnce == Spec => []LinkedOnce
<1>1. IInv => LinkedOnce
  BY DEF IInv
<1> QED
  BY Inductive, <1>1, PTL

\* exec_ums_context only ever wakes a registered worker that is asleep at its
\* schedule() and that no other scheduler holds or can find.
THEOREM ExecutesParkedWorkers == Spec => []RunsOnlyParked
<1>1. IInv => RunsOnlyParked
  BY DEF IInv
<1> QED
  BY Inductive, <1>1, PTL

\* The parent pointer that ums_worker_yield and ums_worker_end follow without a
\* check is that of a registered scheduler.
THEOREM ParentsRegistered == Spec => []ParentIsRegistered
<1>1. IInv => ParentIsRegistered
  BY Zenon DEF IInv, Registered, Prepared, ParentIsRegistered
<1> QED
  BY Inductive, <1>1, PTL

-----------------------------------------------------------------------------
(* The refinement of UserScheduling.                                       *)

\* s has w run for it.
RunsFor(w, s) == Executing(w) /\ parent[w] = s

\* The CHOOSE of the refinement mapping has one candidate at most: the token of
\* a scheduler is with one worker.
LEMMA CurrentForm ==
    ASSUME IInv, NEW s \in Schedulers
    PROVE  /\ \A w \in Workers : RunsFor(w, s) => CurrentOf(s) = w
           /\ (\A w \in Workers : ~RunsFor(w, s)) => CurrentOf(s) = Uninit
<1>1. \A v, w \in Workers : RunsFor(v, s) /\ RunsFor(w, s) => v = w
    BY Zenon DEF IInv, OneToken, RunsFor
<1>2. ASSUME NEW w \in Workers, RunsFor(w, s)
      PROVE  CurrentOf(s) \in Workers /\ RunsFor(CurrentOf(s), s)
    BY <1>2, Zenon DEF CurrentOf, RunsFor
<1>3. (\A w \in Workers : ~RunsFor(w, s)) => CurrentOf(s) = Uninit
    BY DEF CurrentOf, RunsFor
<1> QED
    BY <1>1, <1>2, <1>3, Zenon

\* The same after a step.
LEMMA CurrentFormNext ==
    ASSUME IInv', NEW s \in Schedulers
    PROVE  /\ \A w \in Workers : RunsFor(w, s)' => CurrentOf(s)' = w
           /\ (\A w \in Workers : ~RunsFor(w, s)') => CurrentOf(s)' = Uninit
<1>1. \A v, w \in Workers : RunsFor(v, s)' /\ RunsFor(w, s)' => v = w
    BY Zenon DEF IInv, OneToken, RunsFor
<1>2. ASSUME NEW w \in Workers, RunsFor(w, s)'
      PROVE  CurrentOf(s)' \in Workers /\ RunsFor(CurrentOf(s), s)'
    BY <1>2, Zenon DEF CurrentOf, RunsFor
<1>3. (\A w \in Workers : ~RunsFor(w, s)') => CurrentOf(s)' = Uninit
    BY Zenon DEF CurrentOf, RunsFor
<1> QED
    BY <1>1, <1>2, <1>3, Zenon
\* A scheduler whose workers run as before is seen to run the same one.
LEMMA SameCurrent ==
    ASSUME IInv, IInv', NEW s \in Schedulers,
           \A w \in Workers : RunsFor(w, s)' <=> RunsFor(w, s)
    PROVE  CurrentOf(s)' = CurrentOf(s)
<1>1. CASE \E w \in Workers : RunsFor(w, s)
    BY <1>1, CurrentForm, CurrentFormNext, Zenon
<1>2. CASE \A w \in Workers : ~RunsFor(w, s)
    BY <1>2, CurrentForm, CurrentFormNext, Zenon
<1> QED
    BY <1>1, <1>2, Zenon

\* A step that no user sees.
LEMMA Unseen ==
    ASSUME IInv, IInv',
           \A w \in Workers : StatusOf(w)' = StatusOf(w),
           \A w \in Workers, s \in Schedulers : RunsFor(w, s)' <=> RunsFor(w, s)
    PROVE  [Promise!Next]_(Promise!vars)
<1>1. \A s \in Schedulers : CurrentOf(s)' = CurrentOf(s)
    BY SameCurrent, Zenon
<1>2. [w \in Workers |-> StatusOf(w)]' = [w \in Workers |-> StatusOf(w)]
    BY Zenon
<1>3. [s \in Schedulers |-> CurrentOf(s)]' = [s \in Schedulers |-> CurrentOf(s)]
    BY <1>1, Zenon
<1> QED
    BY <1>2, <1>3, Zenon DEF Promise!vars

\* In particular one that leaves the workers where they are; a worker that does
\* not run may get another parent.
LEMMA WorkersStay ==
    ASSUME IInv, IInv',
           \A w \in Workers : /\ pc'[w] = pc[w]
                              /\ task'[w] = task[w]
                              /\ parent'[w] = parent[w] \/ ~Executing(w)
    PROVE  [Promise!Next]_(Promise!vars)
<1>1. \A w \in Workers : Executing(w)' <=> Executing(w)
    BY Zenon DEF Executing
<1>2. \A w \in Workers : StatusOf(w)' = StatusOf(w)
    BY <1>1 DEF StatusOf
<1>3. \A w \in Workers, s \in Schedulers : RunsFor(w, s)' <=> RunsFor(w, s)
    BY <1>1, Zenon DEF RunsFor
<1> QED
    BY <1>2, <1>3, Unseen, Zenon

\* And one of a worker that changes neither whether it runs nor its status.
LEMMA WorkerStays ==
    ASSUME IInv, IInv', NEW w \in Workers,
           \A v \in Workers : /\ parent'[v] = parent[v]
                              /\ v # w => pc'[v] = pc[v] /\ task'[v] = task[v],
           Executing(w)' <=> Executing(w),
           StatusOf(w)' = StatusOf(w)
    PROVE  [Promise!Next]_(Promise!vars)
<1>1. \A v \in Workers : Executing(v)' <=> Executing(v)
    BY Zenon DEF Executing
<1>2. \A v \in Workers : StatusOf(v)' = StatusOf(v)
  <2> SUFFICES ASSUME NEW v \in Workers, v # w PROVE StatusOf(v)' = StatusOf(v)
      BY Zenon
  <2> QED
      BY <1>1 DEF StatusOf
<1>3. \A v \in Workers, s \in Schedulers : RunsFor(v, s)' <=> RunsFor(v, s)
    BY <1>1, Zenon DEF RunsFor
<1> QED
    BY <1>2, <1>3, Unseen, Zenon

\* A worker that does not run goes on to another status without running.
LEMMA StatusSeen ==
    ASSUME IInv, IInv', NEW w \in Workers, NEW new,
           \A v \in Workers : /\ parent'[v] = parent[v]
                              /\ v # w => pc'[v] = pc[v] /\ task'[v] = task[v],
           ~Executing(w), ~Executing(w)',
           StatusOf(w)' = new
    PROVE  /\ [v \in Workers |-> StatusOf(v)]' =
                 [[v \in Workers |-> StatusOf(v)] EXCEPT ![w] = new]
           /\ [s \in Schedulers |-> CurrentOf(s)]' = [s \in Schedulers |-> CurrentOf(s)]
<1>1. \A v \in Workers : Executing(v)' <=> Executing(v)
    BY Zenon DEF Executing
<1>2. \A v \in Workers : v # w => StatusOf(v)' = StatusOf(v)
    BY <1>1 DEF StatusOf
<1>3. \A v \in Workers, s \in Schedulers : RunsFor(v, s)' <=> RunsFor(v, s)
    BY <1>1, Zenon DEF RunsFor
<1>4. \A s \in Schedulers : CurrentOf(s)' = CurrentOf(s)
    BY <1>3, SameCurrent, Zenon
<1> QED
    BY <1>2, <1>4, Zenon

\* A worker of s starts or stops running, and no other worker does.
LEMMA TokenSeen ==
    ASSUME IInv, IInv', NEW w \in Workers, NEW s \in Schedulers,
           \A v \in Workers : v # w =>
              parent'[v] = parent[v] /\ pc'[v] = pc[v] /\ task'[v] = task[v],
           parent[w] = s, parent'[w] = s,
           \A v \in Workers : v # w => ~RunsFor(v, s)
    PROVE  /\ \A v \in Workers : v # w => StatusOf(v)' = StatusOf(v)
           /\ \A r \in Schedulers : r # s => CurrentOf(r)' = CurrentOf(r)
           /\ CurrentOf(s)' = IF Executing(w)' THEN w ELSE Uninit
<1>1. \A v \in Workers : v # w => (Executing(v)' <=> Executing(v))
    BY Zenon DEF Executing
<1>2. \A v \in Workers : v # w => StatusOf(v)' = StatusOf(v)
    BY <1>1 DEF StatusOf
<1>3. \A r \in Schedulers : r # s => CurrentOf(r)' = CurrentOf(r)
  <2>1. \A v \in Workers, r \in Schedulers : r # s => (RunsFor(v, r)' <=> RunsFor(v, r))
      BY <1>1, Zenon DEF RunsFor
  <2> QED
      BY <2>1, SameCurrent, Zenon
<1>4. CurrentOf(s)' = IF Executing(w)' THEN w ELSE Uninit
  <2>1. \A v \in Workers : v # w => ~RunsFor(v, s)'
      BY <1>1, Zenon DEF RunsFor
  <2>2. RunsFor(w, s)' <=> Executing(w)'
      BY Zenon DEF RunsFor
  <2>3. CASE Executing(w)'
      BY <2>2, <2>3, CurrentFormNext, Zenon
  <2>4. CASE ~Executing(w)'
      BY <2>1, <2>2, <2>4, CurrentFormNext, Zenon
  <2> QED
      BY <2>3, <2>4, Zenon
<1> QED
    BY <1>2, <1>3, <1>4, Zenon

\* What a scheduler does before it runs a worker touches no worker.
LEMMA SchedulerAlone ==
    ASSUME IInv, NEW s \in Schedulers,
           \/ EnterUmsSchedulerMode(s) \/ UmsSchedDqevent(s) \/ GetNextContext(s)
           \/ UmsComplistDqcontext(s) \/ ReregisterContext(s) \/ UmsComplistNextContext(s)
           \/ SchedulerResumes(s)
    PROVE  /\ UNCHANGED <<parent, task, state>>
           /\ \A w \in Workers : pc'[w] = pc[w]
           /\ \A r \in Schedulers : pc'[r] # pc[r] => r = s /\ pc'[r] # "asleep"
<1>1. s \in Threads /\ \A w \in Workers : w \in Threads /\ w # s
    BY ThreadsAssumption, Zenon DEF Threads
<1>2. UNCHANGED <<parent, task, state>>
    BY Zenon DEF EnterUmsSchedulerMode, UmsSchedDqevent, GetNextContext, UmsComplistDqcontext,
       ReregisterContext, UmsComplistNextContext, SchedulerResumes
<1>3. UNCHANGED pc \/ \E l : l # "asleep" /\ pc' = [pc EXCEPT ![s] = l]
    BY Zenon DEF EnterUmsSchedulerMode, UmsSchedDqevent, GetNextContext, UmsComplistDqcontext,
       ReregisterContext, UmsComplistNextContext, SchedulerResumes, Goto
<1>4. pc \in [Threads -> SchedulerPCs \cup WorkerPCs] /\ Schedulers \subseteq Threads
    BY Zenon DEF IInv, TypeOK, Threads
<1> QED
    BY <1>1, <1>2, <1>3, <1>4, Zenon

\* Users see nothing of what a scheduler does apart from running a worker.
LEMMA SchedulerUnseen ==
    ASSUME IInv, IInv', NEW s \in Schedulers,
           \/ EnterUmsSchedulerMode(s) \/ UmsSchedDqevent(s) \/ GetNextContext(s)
           \/ UmsComplistDqcontext(s) \/ ReregisterContext(s) \/ UmsComplistNextContext(s)
           \/ SchedulerResumes(s)
    PROVE  [Promise!Next]_(Promise!vars)
  BY SchedulerAlone, WorkersStay, Zenon

\* Nor of a signal to a scheduler.
LEMMA SignalUnseen ==
    ASSUME IInv, IInv', NEW s \in Schedulers, Signal(s)
    PROVE  [Promise!Next]_(Promise!vars)
<1>1. \A w \in Workers : w \in Threads /\ w # s
    BY ThreadsAssumption, Zenon DEF Threads
<1>2. \A w \in Workers : task'[w] = task[w]
    BY <1>1, Zenon DEF Signal, IInv, TypeOK
<1> QED
    BY <1>2, WorkersStay, Zenon DEF Signal

\* The wake-up of exec_ums_context is Execute: the scheduler handles an event,
\* so nobody runs for it, and the worker is parked.  The first half is not
\* seen: it gives the worker a new parent while it sleeps.
LEMMA ExecUmsContextSeen ==
    ASSUME IInv, IInv', NEW s \in Schedulers, ExecUmsContext(s)
    PROVE  [Promise!Next]_(Promise!vars)
<1>0. PICK w : w = ctx[s]
    OBVIOUS
<1>1. /\ s \in Threads /\ w \in Workers /\ w \in Threads /\ w # s
      /\ \A v \in Workers : v \in Threads /\ v # s
    BY <1>0, ThreadsAssumption, SMTT(30), Z3T(30) DEF ExecUmsContext, IInv, TypeOK, Threads
<1>2. /\ pc \in [Threads -> SchedulerPCs \cup WorkerPCs]
      /\ task \in [Threads -> {"running", "interruptible"}]
      /\ parent \in [Threads -> Threads \cup {Uninit}]
    BY Zenon DEF IInv, TypeOK
<1>3. Handling(s) /\ Parked(w) /\ \A v \in Workers : ~RunsFor(v, s)
    BY <1>0, <1>1, Zenon DEF ExecUmsContext, PrepareSwitchContext, IInv, RunsOnlyParked, Holding,
       Handling, OneToken, RunsFor
<1>4. CASE /\ pc[s] = "switch"
           /\ parent' = [parent EXCEPT ![w] = s]
           /\ PrepareSuspendContext(s)
           /\ Goto(s, "switch_wake")
  <2>1. \A v \in Workers : pc'[v] = pc[v] /\ task'[v] = task[v]
      BY <1>1, <1>2, <1>4, Zenon DEF PrepareSuspendContext, Goto
  <2>2. ~Executing(w)
      BY <1>3, Zenon DEF Parked, Executing
  <2>3. \A v \in Workers : parent'[v] = parent[v] \/ ~Executing(v)
      BY <1>1, <1>2, <1>4, <2>2, Zenon
  <2> QED
      BY <2>1, <2>3, WorkersStay, Zenon
<1>5. CASE /\ pc[s] = "switch_wake"
           /\ WakeUpContext(w)
           /\ Goto(s, "asleep")
           /\ UNCHANGED parent
  <2>1. /\ \A v \in Workers : pc'[v] = pc[v]
        /\ \A v \in Workers : v # w => task'[v] = task[v]
        /\ task'[w] = "running"
      BY <1>1, <1>2, <1>5, Zenon DEF WakeUpContext, Goto
  <2>2. parent[w] = s /\ parent'[w] = s
      BY <1>0, <1>5, Zenon DEF IInv, Prepared
  <2>3. Executing(w)' /\ StatusOf(w)' = "running"
      BY <1>1, <1>3, <2>1 DEF Parked, Executing, StatusOf
  <2>4. StatusOf(w) = "ready"
      BY <1>3 DEF Parked, Executing, StatusOf
  <2>5. CurrentOf(s) = Uninit
      BY <1>3, CurrentForm, Zenon
  <2>6. /\ [v \in Workers |-> StatusOf(v)]' =
               [[v \in Workers |-> StatusOf(v)] EXCEPT ![w] = "running"]
        /\ [r \in Schedulers |-> CurrentOf(r)]' =
               [[r \in Schedulers |-> CurrentOf(r)] EXCEPT ![s] = w]
    <3>1. \A v \in Workers : v # w =>
             parent'[v] = parent[v] /\ pc'[v] = pc[v] /\ task'[v] = task[v]
        BY <1>5, <2>1, Zenon
    <3>2. /\ \A v \in Workers : v # w => StatusOf(v)' = StatusOf(v)
          /\ \A r \in Schedulers : r # s => CurrentOf(r)' = CurrentOf(r)
          /\ CurrentOf(s)' = w
        BY <1>1, <1>3, <2>2, <2>3, <3>1, TokenSeen, Zenon
    <3> QED
        BY <2>3, <3>2, Zenon
  <2>7. Promise!Execute(s, w)
      BY <1>1, <2>4, <2>5, <2>6, Zenon DEF Promise!Execute
  <2> QED
      BY <1>1, <2>7, Zenon DEF Promise!Next
<1> QED
    BY <1>0, <1>4, <1>5, Zenon DEF ExecUmsContext, PrepareSwitchContext

\* A worker arrives when it is published for the first time, or is abandoned
\* when it cannot register.  Published again after a yield it is ready already.
LEMMA EntersSeen ==
    ASSUME IInv, IInv', NEW w \in Workers, EnterUmsWorkerMode(w) \/ PublishContext(w)
    PROVE  [Promise!Next]_(Promise!vars)
<1>1. w \in Threads /\ \A v \in Workers : v \in Threads
    BY Zenon DEF Threads
<1>2. /\ pc \in [Threads -> SchedulerPCs \cup WorkerPCs]
      /\ task \in [Threads -> {"running", "interruptible"}]
    BY Zenon DEF IInv, TypeOK
<1>3. /\ UNCHANGED parent
      /\ \A v \in Workers : v # w => pc'[v] = pc[v] /\ task'[v] = task[v]
    BY <1>1, <1>2, Zenon DEF EnterUmsWorkerMode, PublishContext, PrepareSuspendContext, Goto
<1>4. ~Executing(w)
    BY Zenon DEF Executing, EnterUmsWorkerMode, PublishContext
<1>5. CASE pc[w] = "new" /\ pc'[w] = "enter_add"
    BY <1>3, <1>4, <1>5, WorkerStays DEF Executing, StatusOf
<1>6. CASE pc[w] = "new" /\ pc'[w] = "gone"
  <2>1. StatusOf(w) = "created" /\ StatusOf(w)' = "done" /\ ~Executing(w)'
      BY <1>6 DEF Executing, StatusOf
  <2>2. /\ [v \in Workers |-> StatusOf(v)]' =
               [[v \in Workers |-> StatusOf(v)] EXCEPT ![w] = "done"]
        /\ [s \in Schedulers |-> CurrentOf(s)]' = [s \in Schedulers |-> CurrentOf(s)]
      BY <1>3, <1>4, <2>1, StatusSeen, Zenon
  <2>3. Promise!Abandon(w)
      BY <2>1, <2>2, Zenon DEF Promise!Abandon
  <2> QED
      BY <2>3, Zenon DEF Promise!Next
<1>7. CASE PublishContext(w)
  <2>1. pc'[w] = "asleep" /\ task'[w] = "interruptible"
      BY <1>1, <1>2, <1>7, Zenon DEF PublishContext, Goto, IInv, Prepared
  <2>2. StatusOf(w)' = "ready" /\ ~Executing(w)'
      BY <2>1 DEF Executing, StatusOf
  <2>3. CASE pc[w] = "enter_add"
    <3>1. StatusOf(w) = "created"
        BY <1>4, <2>3 DEF StatusOf
    <3>2. /\ [v \in Workers |-> StatusOf(v)]' =
                 [[v \in Workers |-> StatusOf(v)] EXCEPT ![w] = "ready"]
          /\ [s \in Schedulers |-> CurrentOf(s)]' = [s \in Schedulers |-> CurrentOf(s)]
        BY <1>3, <1>4, <2>2, StatusSeen, Zenon
    <3>3. Promise!Arrive(w)
        BY <3>1, <3>2, Zenon DEF Promise!Arrive
    <3> QED
        BY <3>3, Zenon DEF Promise!Next
  <2>4. CASE pc[w] = "yield_add"
    <3>1. StatusOf(w) = "ready"
        BY <1>4, <2>4 DEF StatusOf
    <3> QED
        BY <1>3, <1>4, <2>2, <3>1, WorkerStays, Zenon
  <2> QED
      BY <1>7, <2>3, <2>4, Zenon DEF PublishContext
<1>8. EnterUmsWorkerMode(w) => pc[w] = "new" /\ pc'[w] \in {"enter_add", "gone"}
    BY <1>1, <1>2, Zenon DEF EnterUmsWorkerMode, Goto
<1> QED
    BY <1>5, <1>6, <1>7, <1>8, Zenon

\* A worker stops running in ums_worker_yield and ums_worker_end, and only when
\* the event that gives the token back is queued, or the thread is gone.
LEMMA GivesBackSeen ==
    ASSUME IInv, IInv', NEW w \in Workers, UmsWorkerYield(w) \/ UmsWorkerEnd(w)
    PROVE  [Promise!Next]_(Promise!vars)
<1>1. w \in Threads /\ \A v \in Workers : v \in Threads
    BY DEF Threads
<1>2. /\ pc \in [Threads -> SchedulerPCs \cup WorkerPCs]
      /\ pc[w] = "run"
      /\ UNCHANGED <<task, parent>>
    BY Zenon DEF IInv, TypeOK, UmsWorkerYield, UmsWorkerEnd
<1>3. PICK s \in Schedulers : parent[w] = s
  <2>1. Executing(w)
      BY <1>2, Zenon DEF Executing
  <2> QED
      BY <2>1, Zenon DEF IInv, TypeOK, Prepared
<1>4. RunsFor(w, s) /\ \A v \in Workers : v # w => ~RunsFor(v, s)
    BY <1>2, <1>3, Zenon DEF RunsFor, Executing, IInv, OneToken
<1>5. CurrentOf(s) = w
    BY <1>4, CurrentForm, Zenon
<1>6. \A v \in Workers : v # w => pc'[v] = pc[v]
    BY <1>1, <1>2, Zenon DEF UmsWorkerYield, UmsWorkerEnd, Goto
<1>7. ASSUME NEW new, ~Executing(w)', StatusOf(w)' = new
      PROVE  /\ [v \in Workers |-> StatusOf(v)]' =
                    [[v \in Workers |-> StatusOf(v)] EXCEPT ![w] = new]
             /\ [r \in Schedulers |-> CurrentOf(r)]' =
                    [[r \in Schedulers |-> CurrentOf(r)] EXCEPT ![s] = Uninit]
  <2>1. \A v \in Workers : v # w =>
           parent'[v] = parent[v] /\ pc'[v] = pc[v] /\ task'[v] = task[v]
      BY <1>2, <1>6, Zenon
  <2>2. parent'[w] = s
      BY <1>2, <1>3, Zenon
  <2>3. /\ \A v \in Workers : v # w => StatusOf(v)' = StatusOf(v)
        /\ \A r \in Schedulers : r # s => CurrentOf(r)' = CurrentOf(r)
        /\ CurrentOf(s)' = Uninit
      BY <1>3, <1>4, <1>7, <2>1, <2>2, TokenSeen, Zenon
  <2> QED
      BY <1>7, <2>3, Zenon
<1>8. CASE UNCHANGED pc
    BY <1>2, <1>8, WorkersStay, Zenon
<1>9. CASE pc'[w] = "switch"
  <2>1. ~Executing(w)' /\ StatusOf(w)' = "ready"
      BY <1>9 DEF Executing, StatusOf
  <2>2. /\ [v \in Workers |-> StatusOf(v)]' =
               [[v \in Workers |-> StatusOf(v)] EXCEPT ![w] = "ready"]
        /\ [r \in Schedulers |-> CurrentOf(r)]' =
               [[r \in Schedulers |-> CurrentOf(r)] EXCEPT ![s] = Uninit]
      BY <1>7, <2>1, Zenon
  <2>3. Promise!Yield(s, w)
      BY <1>5, <2>2, Zenon DEF Promise!Yield
  <2> QED
      BY <2>3, Zenon DEF Promise!Next
<1>10. CASE pc'[w] \in {"end_wake", "gone"}
  <2>1. ~Executing(w)' /\ StatusOf(w)' = "done"
      BY <1>10 DEF Executing, StatusOf
  <2>2. /\ [v \in Workers |-> StatusOf(v)]' =
               [[v \in Workers |-> StatusOf(v)] EXCEPT ![w] = "done"]
        /\ [r \in Schedulers |-> CurrentOf(r)]' =
               [[r \in Schedulers |-> CurrentOf(r)] EXCEPT ![s] = Uninit]
      BY <1>7, <2>1, Zenon
  <2>3. Promise!End(s, w)
      BY <1>5, <2>2, Zenon DEF Promise!End
  <2> QED
      BY <2>3, Zenon DEF Promise!Next
<1>11. UNCHANGED pc \/ pc'[w] \in {"switch", "end_wake", "gone"}
    BY <1>1, <1>2, Zenon DEF UmsWorkerYield, UmsWorkerEnd, Goto
<1> QED
    BY <1>8, <1>9, <1>10, <1>11, Zenon

\* What a worker does before its own code runs again, and after it has ended,
\* is not seen.
LEMMA WorkerUnseen ==
    ASSUME IInv, IInv', NEW w \in Workers,
           WorkerResumes(w) \/ WorkerSwitches(w) \/ WorkerWakesParent(w) \/ UmsWorkerDestroy(w)
    PROVE  [Promise!Next]_(Promise!vars)
<1>1. w \in Threads /\ \A v \in Workers : v \in Threads
    BY Zenon DEF Threads
<1>2. /\ pc \in [Threads -> SchedulerPCs \cup WorkerPCs]
      /\ task \in [Threads -> {"running", "interruptible"}]
      /\ parent \in [Threads -> Threads \cup {Uninit}]
    BY Zenon DEF IInv, TypeOK
<1>3. WillWakeParent(w) => parent[w] \in Schedulers /\ parent[w] \notin Workers
    BY ThreadsAssumption, Zenon DEF IInv, TypeOK, Prepared
<1>4. CASE WorkerResumes(w)
  <2>1. /\ UNCHANGED <<task, parent>>
        /\ \A v \in Workers : v # w => pc'[v] = pc[v]
        /\ pc[w] = "asleep" /\ task[w] = "running" /\ pc'[w] = "run"
      BY <1>1, <1>2, <1>4, Zenon DEF WorkerResumes, Goto
  <2>2. Executing(w) /\ Executing(w)'
      BY <2>1, Zenon DEF Executing
  <2>3. StatusOf(w) = "running" /\ StatusOf(w)' = "running"
      BY <2>1, <2>2 DEF StatusOf
  <2> QED
      BY <2>1, <2>2, <2>3, WorkerStays, Zenon
<1>5. CASE WorkerSwitches(w)
  <2>1. /\ pc[w] \in {"switch", "switch_wake"}
        /\ pc'[w] \in {"switch_wake", "yield_add"}
        /\ \A v \in Workers : v # w => pc'[v] = pc[v]
      BY <1>1, <1>2, <1>5, Zenon DEF WorkerSwitches, PrepareSwitchContext, Goto
  <2>2. parent[w] \in Schedulers /\ parent[w] \notin Workers
      BY <1>3, <2>1, Zenon DEF WillWakeParent
  <2>3. \A v \in Workers : parent'[v] = parent[v] /\ (v # w => task'[v] = task[v])
      BY <1>1, <1>2, <1>5, <2>2, Zenon DEF WorkerSwitches, PrepareSwitchContext,
         PrepareSuspendContext, WakeUpContext
  <2>4. ~Executing(w) /\ ~Executing(w)'
      BY <2>1, Zenon DEF Executing
  <2>5. StatusOf(w) = "ready" /\ StatusOf(w)' = "ready"
      BY <2>1, <2>4 DEF StatusOf
  <2> QED
      BY <2>1, <2>3, <2>4, <2>5, WorkerStays, Zenon
<1>6. CASE WorkerWakesParent(w) \/ UmsWorkerDestroy(w)
  <2>1. /\ pc[w] \in {"end_wake", "end_destroy"}
        /\ pc'[w] \in {"end_destroy", "done"}
        /\ \A v \in Workers : v # w => pc'[v] = pc[v]
        /\ UNCHANGED parent
      BY <1>1, <1>2, <1>6, Zenon DEF WorkerWakesParent, UmsWorkerDestroy, Goto
  <2>2. \A v \in Workers : task'[v] = task[v]
      BY <1>1, <1>2, <1>3, <1>6, Zenon DEF WorkerWakesParent, UmsWorkerDestroy, WakeUpContext,
         WillWakeParent
  <2>3. ~Executing(w) /\ ~Executing(w)'
      BY <2>1, Zenon DEF Executing
  <2>4. StatusOf(w) = "done" /\ StatusOf(w)' = "done"
      BY <2>1, <2>3 DEF StatusOf
  <2> QED
      BY <2>1, <2>2, <2>3, <2>4, WorkerStays, Zenon
<1> QED
    BY <1>4, <1>5, <1>6, Zenon

\* Every step of the handlers is a step of UserScheduling, or not seen.
LEMMA NextSeen ==
    ASSUME IInv, IInv', [Next]_vars
    PROVE  [Promise!Next]_(Promise!vars)
<1>1. ASSUME NEW s \in Schedulers, SchedulerStep(s) \/ Signal(s)
      PROVE  [Promise!Next]_(Promise!vars)
    BY <1>1, SchedulerUnseen, SignalUnseen, ExecUmsContextSeen, Zenon DEF SchedulerStep
<1>2. ASSUME NEW w \in Workers, WorkerStep(w)
      PROVE  [Promise!Next]_(Promise!vars)
    BY <1>2, EntersSeen, GivesBackSeen, WorkerUnseen, Zenon DEF WorkerStep
<1>3. CASE MainReturns
  <2>1. \A w \in Workers : pc'[w] = pc[w]
      BY <1>3, ThreadsAssumption, Zenon DEF MainReturns, Threads, IInv, TypeOK
  <2> QED
      BY <1>3, <2>1, WorkersStay, Zenon DEF MainReturns
<1>4. CASE UNCHANGED vars
    BY <1>4, WorkersStay, Zenon DEF vars
<1> QED
    BY <1>1, <1>2, <1>3, <1>4, Zenon DEF Next

\* The handlers implement cooperative scheduling: whatever fails and whoever is
\* woken early, a worker starts to run only when a scheduler that runs nobody
\* selects it while it is ready, and stops only by its own yield or end.
THEOREM Cooperative == Spec => ImplementsUserScheduling
<1>1. Init => Promise!Init
  <2> SUFFICES ASSUME Init PROVE Promise!Init
      OBVIOUS
  <2>1. \A w \in Workers : pc[w] = "new" /\ w \in Threads
      BY ThreadsAssumption, Zenon DEF Init, Threads
  <2>2. \A w \in Workers : ~Executing(w)
      BY <2>1, Zenon DEF Executing
  <2>3. \A w \in Workers : StatusOf(w) = "created"
      BY <2>1, <2>2 DEF StatusOf
  <2>4. \A s \in Schedulers : CurrentOf(s) = Uninit
      BY <2>2, Zenon DEF CurrentOf
  <2> QED
      BY <2>3, <2>4, Zenon DEF Promise!Init
<1>2. IInv /\ IInv' /\ [Next]_vars => [Promise!Next]_(Promise!vars)
    BY NextSeen
<1> QED
    BY <1>1, <1>2, Inductive, PTL DEF Spec, ImplementsUserScheduling, Promise!Spec

-----------------------------------------------------------------------------
(* Nothing is lost as long as nothing fails.  The three properties are     *)
(* inductive together, given IInv and one more fact: a scheduler asks for  *)
(* more contexts only when its run queue is empty, so what it gets does    *)
(* not overwrite what it has.                                              *)

AsksWhenEmpty == \A s \in Schedulers : pc[s] = "dqcontext" => list[s] = <<>>

\* A list that starts at a context is being walked.
Walked ==
    \A w \in Workers : list[w] # <<>> =>
        \E s \in Schedulers : pc[s] = "collect" /\ ctx[s] = w

\* Where a worker that waits to be run can be found.
Placed(w) ==
    \/ In(list, w, CompList)
    \/ \E s \in Schedulers :
          \/ In(list, w, s)
          \/ pc[s] = "collect" /\ In(list, w, ctx[s])
          \/ Holding(s) /\ ctx[s] = w

AllPlaced == \A w \in Workers : Parked(w) => Placed(w)

\* s sleeps in exec_ums_context.
Sleeps(s) == pc[s] = "asleep" /\ task[s] = "interruptible"

\* w has still to wake its parent.
Attends(w) == Executing(w) \/ WillWakeParent(w)

Watched ==
    \A s \in Schedulers : Sleeps(s) => \E w \in Workers : parent[w] = s /\ Attends(w)

Kept ==
    /\ AsksWhenEmpty
    /\ faults = 0 => Walked /\ AllPlaced /\ Watched

\* Failures are counted, never forgotten.
LEMMA FaultsStay ==
    ASSUME IInv, [Next]_vars, faults' = 0
    PROVE  faults = 0 /\ ~Fault
<1>1. faults \in Nat
    BY BoundsAssumption, SMTT(60), Z3T(60) DEF IInv, TypeOK
<1>2. UNCHANGED faults \/ Fault
  <2>1. ASSUME NEW s \in Schedulers, SchedulerStep(s) PROVE UNCHANGED faults \/ Fault
      BY <2>1, Zenon DEF SchedulerStep, EnterUmsSchedulerMode, UmsSchedDqevent, GetNextContext,
         UmsComplistDqcontext, ReregisterContext, UmsComplistNextContext, ExecUmsContext,
         SchedulerResumes
  <2>2. ASSUME NEW s \in Schedulers, Signal(s) PROVE UNCHANGED faults
      BY <2>2, Zenon DEF Signal
  <2>3. ASSUME NEW w \in Workers, WorkerStep(w) PROVE UNCHANGED faults \/ Fault
      BY <2>3, Zenon DEF WorkerStep, EnterUmsWorkerMode, PublishContext, WorkerResumes,
         UmsWorkerYield, WorkerSwitches, UmsWorkerEnd, WorkerWakesParent, UmsWorkerDestroy
  <2>4. CASE MainReturns
      BY <2>4, Zenon DEF MainReturns
  <2>5. CASE UNCHANGED vars
      BY <2>5, Zenon DEF vars
  <2> QED
      BY <2>1, <2>2, <2>3, <2>4, <2>5, Zenon DEF Next
<1> QED
    BY <1>1, <1>2 DEF Fault

\* A step that leaves the lists alone loses nobody when no walk ends, and a
\* scheduler lets go only of a worker that is no longer parked.
LEMMA PlacesStay ==
    ASSUME Walked, AllPlaced, UNCHANGED <<list, ctx>>,
           \A w \in Workers : Parked(w)' => Parked(w),
           \A s \in Schedulers : pc[s] = "collect" => pc'[s] = "collect",
           \A s \in Schedulers : Holding(s) /\ ctx[s] \in Workers =>
              \/ Holding(s)'
              \/ ~(pc'[ctx[s]] = "asleep" /\ task'[ctx[s]] = "interruptible")
    PROVE  Walked' /\ AllPlaced'
<1>1. Walked'
    BY Zenon DEF Walked
<1>2. ASSUME NEW w \in Workers, Parked(w)' PROVE Placed(w)'
  <2>1. Placed(w)
      BY <1>2, Zenon DEF AllPlaced
  <2>2. CASE In(list, w, CompList)
      BY <2>2, Zenon DEF Placed
  <2>3. ASSUME NEW s \in Schedulers,
               In(list, w, s) \/ (pc[s] = "collect" /\ In(list, w, ctx[s]))
        PROVE  Placed(w)'
      BY <2>3, Zenon DEF Placed
  <2>4. ASSUME NEW s \in Schedulers, Holding(s) /\ ctx[s] = w PROVE Placed(w)'
    <3>1. Holding(s)'
        BY <1>2, <2>4, Zenon DEF Parked
    <3> QED
        BY <2>4, <3>1, Zenon DEF Placed
  <2>5. \/ In(list, w, CompList)
        \/ \E s \in Schedulers : In(list, w, s) \/ (pc[s] = "collect" /\ In(list, w, ctx[s]))
        \/ \E s \in Schedulers : Holding(s) /\ ctx[s] = w
      BY ONLY <2>1, ZenonT(60) DEF Placed
  <2> QED
      BY <2>2, <2>3, <2>4, <2>5, ZenonT(60)
<1> QED
    BY <1>1, <1>2, ZenonT(60) DEF AllPlaced

\* No wake-up is lost when nobody goes to sleep and every worker that attends a
\* sleeper goes on attending it.
LEMMA WatchStays ==
    ASSUME Watched,
           \A s \in Schedulers : Sleeps(s)' => Sleeps(s),
           \A w \in Workers, s \in Schedulers :
              parent[w] = s /\ Attends(w) /\ Sleeps(s)' => parent'[w] = s /\ Attends(w)'
    PROVE  Watched'
<1> SUFFICES ASSUME NEW s \in Schedulers, Sleeps(s)'
             PROVE  \E w \in Workers : parent'[w] = s /\ Attends(w)'
    BY Zenon DEF Watched
<1>1. PICK w \in Workers : parent[w] = s /\ Attends(w)
    BY Zenon DEF Watched
<1> QED
    BY <1>1, Zenon

\* In particular when the workers stay and no scheduler falls asleep.
LEMMA WatchersStay ==
    ASSUME Watched, UNCHANGED <<parent, task>>,
           \A w \in Workers : pc'[w] = pc[w],
           \A s \in Schedulers : pc'[s] # pc[s] => pc'[s] # "asleep"
    PROVE  Watched'
<1>1. \A w \in Workers : Attends(w)' <=> Attends(w)
    BY Zenon DEF Attends, Executing, WillWakeParent
<1>2. \A s \in Schedulers : Sleeps(s)' => Sleeps(s)
    BY Zenon DEF Sleeps
<1> QED
    BY <1>1, <1>2, WatchStays, Zenon

\* Entering, taking an event and waking up leave the lists alone.
LEMMA SchedulerKeeps ==
    ASSUME IInv, Kept, [Next]_vars, NEW s \in Schedulers,
           EnterUmsSchedulerMode(s) \/ UmsSchedDqevent(s) \/ SchedulerResumes(s)
    PROVE  Kept'
<1>1. /\ UNCHANGED <<parent, task, state, list, ctx>>
      /\ \A w \in Workers : pc'[w] = pc[w]
      /\ \A r \in Schedulers : pc'[r] # pc[r] => r = s /\ pc'[r] # "asleep"
    BY SchedulerAlone, ZenonT(60) DEF EnterUmsSchedulerMode, UmsSchedDqevent, SchedulerResumes
<1>2. pc[s] \in {"start", "dqevent", "asleep"} /\ pc'[s] \in {"dqevent", "next_context", "exited"}
  <2>1. s \in Threads /\ pc \in [Threads -> SchedulerPCs \cup WorkerPCs]
      BY Zenon DEF IInv, TypeOK, Threads
  <2> QED
      BY <2>1, Zenon DEF EnterUmsSchedulerMode, UmsSchedDqevent, SchedulerResumes, Goto
<1>3. AsksWhenEmpty'
    BY <1>1, <1>2, Zenon DEF AsksWhenEmpty, Kept
<1>4. ASSUME faults' = 0 PROVE Walked' /\ AllPlaced' /\ Watched'
  <2>1. Walked /\ AllPlaced /\ Watched
      BY <1>4, FaultsStay, Zenon DEF Kept
  <2>2. \A w \in Workers : Parked(w)' => Parked(w)
      BY <1>1, Zenon DEF Parked
  <2>3. \A r \in Schedulers : /\ pc[r] = "collect" => pc'[r] = "collect"
                              /\ Holding(r) => Holding(r)'
      BY <1>1, <1>2, Zenon DEF Holding
  <2>4. Watched'
      BY <1>1, <2>1, WatchersStay, Zenon
  <2> QED
      BY <1>1, <2>1, <2>2, <2>3, <2>4, PlacesStay, Zenon
<1> QED
    BY <1>3, <1>4, Zenon DEF Kept

\* A signal only ends a sleep.
LEMMA SignalKeeps ==
    ASSUME IInv, Kept, [Next]_vars, NEW s \in Schedulers, Signal(s)
    PROVE  Kept'
<1>1. /\ UNCHANGED <<pc, state, parent, list, ctx>>
      /\ \A t \in Threads : task'[t] = task[t] \/ (t = s /\ task'[t] = "running")
    BY Zenon DEF Signal, IInv, TypeOK
<1>2. \A w \in Workers : w \in Threads /\ w # s
    BY ThreadsAssumption, Zenon DEF Threads
<1>3. AsksWhenEmpty'
    BY <1>1, Zenon DEF AsksWhenEmpty, Kept
<1>4. ASSUME faults' = 0 PROVE Walked' /\ AllPlaced' /\ Watched'
  <2>1. Walked /\ AllPlaced /\ Watched
      BY <1>4, FaultsStay, Zenon DEF Kept
  <2>2. \A w \in Workers : (Parked(w)' <=> Parked(w)) /\ (Attends(w)' <=> Attends(w))
      BY <1>1, <1>2, Zenon DEF Parked, Attends, Executing, WillWakeParent
  <2>3. \A r \in Schedulers : Holding(r) => Holding(r)'
      BY <1>1, Zenon DEF Holding
  <2>4. \A r \in Schedulers : Sleeps(r)' => Sleeps(r)
      BY <1>1, Zenon DEF Sleeps, Threads
  <2>5. Watched'
      BY <1>1, <2>1, <2>2, <2>4, WatchStays, Zenon
  <2> QED
      BY <1>1, <2>1, <2>2, <2>3, <2>5, PlacesStay, Zenon
<1> QED
    BY <1>3, <1>4, Zenon DEF Kept

\* The scheduler that goes to sleep has just woken the worker that will wake
\* it: its mark as sleeping came first, and the worker's parent before that.
LEMMA ExecUmsContextKeeps ==
    ASSUME IInv, Kept, [Next]_vars, NEW s \in Schedulers, ExecUmsContext(s)
    PROVE  Kept'
<1>1. PICK w : w = ctx[s]
    OBVIOUS
<1>2. /\ s \in Threads /\ w \in Workers /\ w \in Threads /\ w # s
      /\ \A v \in Workers : v \in Threads /\ v # s
      /\ \A r \in Schedulers : r \in Threads /\ r # w
    BY <1>1, ThreadsAssumption, ZenonT(60) DEF ExecUmsContext, IInv, TypeOK, Threads
<1>3. /\ pc \in [Threads -> SchedulerPCs \cup WorkerPCs]
      /\ task \in [Threads -> {"running", "interruptible"}]
      /\ state \in [Threads -> {"RUNNING", "IDLE"}]
      /\ parent \in [Threads -> Threads \cup {Uninit}]
    BY Zenon DEF IInv, TypeOK
<1>4. Parked(w) /\ UNCHANGED <<list, ctx>>
    BY <1>1, ZenonT(60) DEF ExecUmsContext, PrepareSwitchContext, IInv, RunsOnlyParked, Holding
<1>5. /\ pc[s] \in {"switch", "switch_wake"} /\ pc'[s] \in {"switch_wake", "asleep"}
      /\ \A t \in Threads : t # s => pc'[t] = pc[t]
    BY <1>2, <1>3, Zenon DEF ExecUmsContext, PrepareSwitchContext, Goto
<1>6. AsksWhenEmpty'
    BY <1>2, <1>4, <1>5, Zenon DEF AsksWhenEmpty, Kept
<1>7. ASSUME faults' = 0 PROVE Walked' /\ AllPlaced' /\ Watched'
  <2>1. Walked /\ AllPlaced /\ Watched
      BY <1>7, FaultsStay DEF Kept
  <2>2. CASE /\ pc[s] = "switch"
             /\ parent' = [parent EXCEPT ![w] = s]
             /\ PrepareSuspendContext(s)
             /\ Goto(s, "switch_wake")
    <3>1. /\ pc'[s] = "switch_wake"
          /\ \A t \in Threads : t # s => task'[t] = task[t] /\ state'[t] = state[t]
        BY <1>2, <1>3, <2>2, Zenon DEF PrepareSuspendContext, Goto
    <3>2. \A v \in Workers : (Parked(v)' <=> Parked(v)) /\ (Attends(v)' <=> Attends(v))
        BY <1>2, <1>5, <3>1, Zenon DEF Parked, Attends, Executing, WillWakeParent
    <3>3. \A r \in Schedulers : Holding(r) => Holding(r)'
        BY <1>2, <1>5, <3>1, Zenon DEF Holding
    <3>4. \A r \in Schedulers : Sleeps(r)' => Sleeps(r)
        BY <1>2, <1>5, <3>1, Zenon DEF Sleeps
    <3>5. ~Attends(w)
        BY <1>4, Zenon DEF Parked, Attends, Executing, WillWakeParent
    <3>6. Watched'
        BY <1>2, <1>3, <2>1, <2>2, <3>2, <3>4, <3>5, WatchStays, Zenon
    <3>7. \A r \in Schedulers : pc[r] = "collect" => pc'[r] = "collect"
        BY <1>2, <1>5, Zenon
    <3> QED
        BY <1>4, <2>1, <3>2, <3>3, <3>6, <3>7, PlacesStay, Zenon
  <2>3. CASE /\ pc[s] = "switch_wake"
             /\ WakeUpContext(w)
             /\ Goto(s, "asleep")
             /\ UNCHANGED parent
    <3>1. /\ pc'[w] = "asleep" /\ task'[w] = "running"
          /\ \A t \in Threads : t # w => task'[t] = task[t] /\ state'[t] = state[t]
        BY <1>2, <1>3, <1>4, <1>5, <2>3, Zenon DEF WakeUpContext, Parked
    <3>2. \A v \in Workers : Parked(v)' => Parked(v)
        BY <1>2, <1>5, <3>1, Zenon DEF Parked
    <3>3. \A r \in Schedulers : r # s /\ Holding(r) => Holding(r)'
        BY <1>2, <1>5, Zenon DEF Holding
    <3>4. Attends(w)' /\ \A v \in Workers : Attends(v) => Attends(v)'
        BY <1>2, <1>5, <3>1, Zenon DEF Attends, Executing, WillWakeParent
    <3>5. parent'[w] = s
        BY <1>1, <2>3, Zenon DEF IInv, Prepared
    <3>6. \A r \in Schedulers : r # s /\ Sleeps(r)' => Sleeps(r)
        BY <1>2, <1>5, <3>1, Zenon DEF Sleeps
    <3>7. Watched'
      <4> SUFFICES ASSUME NEW r \in Schedulers, Sleeps(r)'
                   PROVE  \E v \in Workers : parent'[v] = r /\ Attends(v)'
          BY Zenon DEF Watched
      <4>1. CASE r = s
          BY <1>2, <3>4, <3>5, <4>1, ZenonT(60)
      <4>2. CASE r # s
        <5>1. PICK v \in Workers : parent[v] = r /\ Attends(v)
            BY <2>1, <3>6, <4>2, Zenon DEF Watched
        <5> QED
            BY <2>3, <3>4, <5>1, Zenon
      <4> QED
          BY <4>1, <4>2, Zenon
    <3>8. \A r \in Schedulers : pc[r] = "collect" => pc'[r] = "collect"
        BY <1>2, <1>5, Zenon
    <3>9. \A r \in Schedulers : Holding(r) /\ ctx[r] \in Workers =>
             \/ Holding(r)'
             \/ ~(pc'[ctx[r]] = "asleep" /\ task'[ctx[r]] = "interruptible")
        BY <1>1, <3>1, <3>3, Zenon
    <3> QED
        BY <1>4, <2>1, <3>2, <3>7, <3>8, <3>9, PlacesStay, ZenonT(60)
  <2> QED
      BY <1>1, <2>2, <2>3, ZenonT(60) DEF ExecUmsContext, PrepareSwitchContext
<1> QED
    BY <1>6, <1>7 DEF Kept

\* A worker attends its parent until it has woken it, on both ways out of user
\* mode, and is parked only once it is published.
LEMMA WorkerKeeps ==
    ASSUME IInv, Kept, [Next]_vars, NEW w \in Workers,
           \/ EnterUmsWorkerMode(w) \/ WorkerResumes(w) \/ UmsWorkerYield(w)
           \/ WorkerSwitches(w) \/ UmsWorkerEnd(w) \/ WorkerWakesParent(w)
           \/ UmsWorkerDestroy(w)
    PROVE  Kept'
<1>1. /\ w \in Threads
      /\ \A v \in Workers : v \in Threads
      /\ \A s \in Schedulers : s \in Threads /\ s # w
    BY ThreadsAssumption, Zenon DEF Threads
<1>2. /\ pc \in [Threads -> SchedulerPCs \cup WorkerPCs]
      /\ task \in [Threads -> {"running", "interruptible"}]
      /\ state \in [Threads -> {"RUNNING", "IDLE"}]
      /\ parent \in [Threads -> Threads \cup {Uninit}]
    BY Zenon DEF IInv, TypeOK
<1>3. UNCHANGED <<list, ctx>>
    BY Zenon DEF EnterUmsWorkerMode, WorkerResumes, UmsWorkerYield, WorkerSwitches, UmsWorkerEnd,
       WorkerWakesParent, UmsWorkerDestroy
<1>4. /\ \A t \in Threads : t # w => pc'[t] = pc[t]
      /\ pc'[w] # "asleep"
  <2>1. UNCHANGED pc \/ \E l : l # "asleep" /\ pc' = [pc EXCEPT ![w] = l]
      BY Zenon DEF EnterUmsWorkerMode, WorkerResumes, UmsWorkerYield, WorkerSwitches,
         PrepareSwitchContext, UmsWorkerEnd, WorkerWakesParent, UmsWorkerDestroy, Goto
  <2>2. UNCHANGED pc => pc[w] = "run"
      BY <1>1, <1>2, Zenon DEF EnterUmsWorkerMode, WorkerResumes, UmsWorkerYield, WorkerSwitches,
         PrepareSwitchContext, UmsWorkerEnd, WorkerWakesParent, UmsWorkerDestroy, Goto
  <2> QED
      BY <1>1, <1>2, <2>1, <2>2, Zenon
<1>5. AsksWhenEmpty'
    BY <1>1, <1>3, <1>4, Zenon DEF AsksWhenEmpty, Kept
<1>6. WillWakeParent(w) => parent[w] \in Schedulers /\ parent[w] \notin Workers
    BY ThreadsAssumption, Zenon DEF IInv, TypeOK, Prepared
<1>7. /\ \A v \in Workers : v # w => task'[v] = task[v] /\ state'[v] = state[v]
      /\ \A v \in Workers : parent'[v] = parent[v]
    BY <1>1, <1>2, <1>6, ZenonT(60) DEF EnterUmsWorkerMode, WorkerResumes, UmsWorkerYield,
       WorkerSwitches, PrepareSwitchContext, PrepareSuspendContext, WakeUpContext, UmsWorkerEnd,
       WorkerWakesParent, UmsWorkerDestroy, WillWakeParent
<1>8. \A s \in Schedulers : task'[s] = task[s] \/ task'[s] = "running"
    BY <1>1, <1>2, Zenon DEF EnterUmsWorkerMode, WorkerResumes, UmsWorkerYield, WorkerSwitches,
       PrepareSwitchContext, PrepareSuspendContext, WakeUpContext, UmsWorkerEnd,
       WorkerWakesParent, UmsWorkerDestroy
<1>9. ASSUME faults' = 0 PROVE Walked' /\ AllPlaced' /\ Watched'
  <2>1. Walked /\ AllPlaced /\ Watched /\ ~Fault
      BY <1>9, FaultsStay, Zenon DEF Kept
  <2>2. \A v \in Workers : Parked(v)' => Parked(v)
      BY <1>1, <1>4, <1>7, Zenon DEF Parked
  <2>3. \A s \in Schedulers : /\ pc[s] = "collect" => pc'[s] = "collect"
                              /\ Holding(s) => Holding(s)'
      BY <1>1, <1>4, Zenon DEF Holding
  <2>4. \A s \in Schedulers : Sleeps(s)' => Sleeps(s)
      BY <1>1, <1>4, <1>8, Zenon DEF Sleeps
  <2>5. \A v \in Workers : v # w /\ Attends(v) => Attends(v)'
      BY <1>1, <1>4, <1>7, Zenon DEF Attends, Executing, WillWakeParent
  <2>6. Attends(w) => Attends(w)' \/ (parent[w] \in Threads => task'[parent[w]] = "running")
      BY <1>1, <1>2, <2>1, ZenonT(60) DEF EnterUmsWorkerMode, WorkerResumes, UmsWorkerYield,
         WorkerSwitches, PrepareSwitchContext, PrepareSuspendContext, WakeUpContext,
         UmsWorkerEnd, WorkerWakesParent, UmsWorkerDestroy, Attends, Executing, WillWakeParent,
         Goto
  <2>7. Watched'
    <3>1. \A v \in Workers, s \in Schedulers :
             parent[v] = s /\ Attends(v) /\ Sleeps(s)' => parent'[v] = s /\ Attends(v)'
        BY <1>1, <1>7, <2>5, <2>6, Zenon DEF Sleeps
    <3> QED
        BY <2>1, <2>4, <3>1, WatchStays, Zenon
  <2> QED
      BY <1>3, <2>1, <2>2, <2>3, <2>7, PlacesStay, Zenon
<1> QED
    BY <1>5, <1>9, Zenon DEF Kept

\* main() returns when no worker is left to wait or to be waited for.
LEMMA MainReturnsKeeps ==
    ASSUME IInv, Kept, MainReturns
    PROVE  Kept'
<1>1. /\ \A w \in Workers : pc'[w] \in {"done", "gone"}
      /\ \A s \in Schedulers : pc'[s] = "exited"
      /\ UNCHANGED <<list, task>>
    BY ThreadsAssumption, Zenon DEF MainReturns, Threads, IInv, TypeOK
<1>2. \A w \in Workers : ~Parked(w) /\ ~Parked(w)'
    BY <1>1, Zenon DEF MainReturns, Parked
<1>3. \A w \in Workers : list[w] = <<>>
  <2> SUFFICES ASSUME NEW w \in Workers, list[w] # <<>> PROVE FALSE
      BY Zenon
  <2>1. w \in Heads /\ list[w] \in Seq(Workers)
      BY Zenon DEF IInv, TypeOK, Heads, Threads
  <2>2. 1 \in DOMAIN list[w] /\ list[w][1] \in Workers
      BY <2>1
  <2>3. Linked(list[w][1], w)
      BY <2>2, Zenon DEF Linked
  <2> QED
      BY <1>2, <2>1, <2>2, <2>3, Zenon DEF IInv, RunsOnlyParked
<1> QED
    BY <1>1, <1>2, <1>3, Zenon DEF Kept, AsksWhenEmpty, Walked, AllPlaced, Watched, Sleeps

-----------------------------------------------------------------------------
(* The same for the actions that move contexts between lists.              *)

\* A walked list starts at a context of the walker's own run queue: no two
\* walk the same list.
LEMMA Walkers ==
    ASSUME IInv, NEW r \in Schedulers, pc[r] = "collect"
    PROVE  /\ ctx[r] \in Workers /\ ctx[r] \in Heads /\ r \in Heads
           /\ In(list, ctx[r], r)
           /\ \A h \in Heads : In(list, ctx[r], h) => h = r
<1>1. In(list, ctx[r], r) /\ Once(list) /\ list \in Lists /\ r \in Heads
    BY ListForms, Zenon DEF IInv, Walking, TypeOK, Lists, Heads, Threads
<1>2. ctx[r] \in Workers
  <2>1. list[r] \in Seq(Workers)
      BY <1>1, Zenon DEF Lists
  <2> QED
      BY <1>1, <2>1, SMTT(60), Z3T(60) DEF In
<1>3. \A h \in Heads : In(list, ctx[r], h) => h = r
    BY <1>1, SMTT(60), Z3T(60) DEF In, Once
<1> QED
    BY <1>1, <1>2, <1>3, Zenon DEF Heads, Threads

\* What the other schedulers have in hand is theirs.
LEMMA OthersStay ==
    ASSUME IInv, NEW s \in Schedulers,
           \/ GetNextContext(s) \/ UmsComplistDqcontext(s) \/ ReregisterContext(s)
           \/ UmsComplistNextContext(s)
    PROVE  \A r \in Schedulers : r # s =>
              pc'[r] = pc[r] /\ ctx'[r] = ctx[r] /\ (Holding(r)' <=> Holding(r))
<1>1. /\ pc \in [Threads -> SchedulerPCs \cup WorkerPCs]
      /\ ctx \in [Schedulers -> Workers \cup {Uninit}]
      /\ Schedulers \subseteq Threads
    BY Zenon DEF IInv, TypeOK, Threads
<1>2. UNCHANGED pc \/ \E l : pc' = [pc EXCEPT ![s] = l]
    BY Zenon DEF GetNextContext, UmsComplistDqcontext, ReregisterContext, UmsComplistNextContext,
       Goto
<1>3. UNCHANGED ctx \/ \E w : ctx' = [ctx EXCEPT ![s] = w]
    BY Zenon DEF GetNextContext, UmsComplistDqcontext, ReregisterContext, UmsComplistNextContext
<1>4. \A r \in Schedulers : r # s => pc'[r] = pc[r] /\ ctx'[r] = ctx[r]
    BY <1>1, <1>2, <1>3, Zenon
<1> QED
    BY <1>4, Zenon DEF Holding

\* A scheduler that moves contexts wakes nobody and is woken by nobody; what
\* remains is that every worker it could find can still be found.
LEMMA MovesKeep ==
    ASSUME IInv, Kept, [Next]_vars, NEW s \in Schedulers,
           \/ GetNextContext(s) \/ UmsComplistDqcontext(s) \/ ReregisterContext(s)
           \/ UmsComplistNextContext(s),
           \A r \in Schedulers : r # s => list'[r] = list[r],
           pc'[s] = "dqcontext" => list'[s] = <<>>,
           faults' = 0 /\ Walked /\ ~Fault =>
              Walked' /\ \A w \in Workers : Placed(w) => Placed(w)'
    PROVE  Kept'
<1>1. /\ UNCHANGED <<parent, task, state>>
      /\ \A w \in Workers : pc'[w] = pc[w]
      /\ \A r \in Schedulers : pc'[r] # pc[r] => r = s /\ pc'[r] # "asleep"
    BY SchedulerAlone, Zenon
<1>2. AsksWhenEmpty'
    BY <1>1, Zenon DEF AsksWhenEmpty, Kept
<1>3. ASSUME faults' = 0 PROVE Walked' /\ AllPlaced' /\ Watched'
  <2>1. Walked /\ AllPlaced /\ Watched /\ ~Fault
      BY <1>3, FaultsStay, Zenon DEF Kept
  <2>2. Watched'
      BY <1>1, <2>1, WatchersStay, Zenon
  <2>3. \A w \in Workers : Parked(w)' => Parked(w)
      BY <1>1, Zenon DEF Parked
  <2>4. AllPlaced'
      BY <1>3, <2>1, <2>3, Zenon DEF AllPlaced
  <2> QED
      BY <1>3, <2>1, <2>2, <2>4, ZenonT(60)
<1> QED
    BY <1>2, <1>3, Zenon DEF Kept

\* The first context of the run queue goes to the hand, the others stay.
LEMMA GetNextContextKeeps ==
    ASSUME IInv, Kept, [Next]_vars, NEW s \in Schedulers, GetNextContext(s)
    PROVE  Kept'
<1>1. /\ list \in Lists /\ Once(list) /\ s \in Heads /\ s \notin Workers /\ s # CompList
      /\ ctx \in [Schedulers -> Workers \cup {Uninit}]
      /\ pc \in [Threads -> SchedulerPCs \cup WorkerPCs] /\ s \in Threads
      /\ Workers \subseteq Heads /\ Schedulers \subseteq Heads /\ CompList \in Heads
    BY ListForms, ThreadsAssumption, Zenon DEF IInv, TypeOK, Lists, Heads, Threads
<1>2. \A r \in Schedulers : r # s =>
         pc'[r] = pc[r] /\ ctx'[r] = ctx[r] /\ (Holding(r)' <=> Holding(r))
    BY OthersStay, Zenon
<1>3. pc[s] = "next_context"
    BY Zenon DEF GetNextContext
<1>4. CASE /\ list[s] # <<>>
           /\ ctx' = [ctx EXCEPT ![s] = Head(list[s])]
           /\ list' = [list EXCEPT ![s] = Tail(@)]
           /\ Goto(s, "switch")
  <2>1. Changed(list, list', s, Tail(list[s]))
    <3>1. list[s] \in Seq(Workers) /\ Tail(list[s]) \in Seq(Workers)
        BY <1>1, <1>4 DEF Lists
    <3> QED
        BY <1>1, <1>4, <3>1, ExceptChanges, ZenonT(60)
  <2>2. \A v, g : In(list, v, g) /\ g \in Heads /\ v # Head(list[s]) => In(list', v, g)
    <3>1. list' \in Lists /\ list[s] # <<>>
        BY <1>4, <2>1, Zenon DEF Changed
    <3> QED
        BY <1>1, <2>1, <3>1, TailOnce, Zenon
  <2>3. \A g \in Heads : g # s => list'[g] = list[g]
      BY <2>1, Zenon DEF Changed
  <2>4. pc'[s] = "switch" /\ ctx'[s] = Head(list[s]) /\ Holding(s)'
      BY <1>1, <1>4, Zenon DEF Goto, Holding
  <2>5. Walked => Walked'
      BY <1>1, <1>2, <1>3, <2>3, ZenonT(60) DEF Walked
  <2>6. ASSUME NEW w \in Workers, Placed(w) PROVE Placed(w)'
    <3>1. CASE w = Head(list[s])
        BY <2>4, <3>1, Zenon DEF Placed
    <3>2. CASE w # Head(list[s]) /\ In(list, w, CompList)
        BY <1>1, <2>2, <3>2, Zenon DEF Placed
    <3>3. ASSUME NEW r \in Schedulers, w # Head(list[s]), In(list, w, r) PROVE Placed(w)'
        BY <1>1, <2>2, <3>3, Zenon DEF Placed
    <3>4. ASSUME NEW r \in Schedulers, w # Head(list[s]), pc[r] = "collect", In(list, w, ctx[r])
          PROVE  Placed(w)'
      <4>1. r # s /\ ctx[r] \in Heads
          BY <1>3, <3>4, Walkers, Zenon
      <4>2. pc'[r] = "collect" /\ In(list', w, ctx'[r])
          BY <1>2, <2>2, <3>4, <4>1, Zenon
      <4> QED
          BY <4>2, Zenon DEF Placed
    <3>5. ASSUME NEW r \in Schedulers, Holding(r), ctx[r] = w PROVE Placed(w)'
      <4>1. r # s
          BY <1>3, <3>5, Zenon DEF Holding
      <4> QED
          BY <1>2, <3>5, <4>1, ZenonT(60) DEF Placed
    <3> QED
        BY <2>6, <3>1, <3>2, <3>3, <3>4, <3>5, Zenon DEF Placed
  <2> QED
      BY <1>1, <2>3, <2>4, <2>5, <2>6, MovesKeep, Zenon
<1>5. CASE /\ list[s] = <<>>
           /\ Goto(s, "dqcontext")
           /\ UNCHANGED <<list, ctx>>
  <2>1. \A r \in Schedulers : /\ pc[r] = "collect" => pc'[r] = "collect"
                              /\ Holding(r) => Holding(r)'
      BY <1>2, <1>3, Zenon DEF Holding
  <2>2. Walked => Walked'
      BY <1>5, <2>1, Zenon DEF Walked
  <2>3. \A w \in Workers : Placed(w) => Placed(w)'
      BY <1>5, <2>1, Zenon DEF Placed
  <2> QED
      BY <1>5, <2>2, <2>3, MovesKeep, ZenonT(60)
<1> QED
    BY <1>4, <1>5, Zenon DEF GetNextContext

\* Linking w in the completion list, at either end, leaves every other context
\* where it can be found, but for the list that started at w.
LEMMA Relinked ==
    ASSUME list \in Lists, NEW w \in Workers,
           \/ list' = [list EXCEPT ![CompList] = Append(@, w), ![w] = <<>>]
           \/ list' = [list EXCEPT ![CompList] = <<w>> \o @, ![w] = <<>>]
    PROVE  /\ In(list', w, CompList)
           /\ list'[w] = <<>>
           /\ \A g \in Heads : g # w /\ g # CompList => list'[g] = list[g]
           /\ \A v : \A g \in Heads : g # w /\ In(list, v, g) => In(list', v, g)
<1>1. w \in Heads /\ CompList \in Heads /\ w # CompList
    BY ThreadsAssumption, Zenon DEF Heads, Threads
<1>2. PICK q : q = list[CompList]
    BY Zenon
<1>3. q \in Seq(Workers) /\ Len(q) \in Nat /\ DOMAIN q = 1 .. Len(q)
    BY <1>1, <1>2 DEF Lists
<1>4. /\ list'[CompList] \in {Append(q, w), <<w>> \o q}
      /\ list'[w] = <<>>
      /\ \A g \in Heads : g # w /\ g # CompList => list'[g] = list[g]
    BY <1>1, <1>2, Zenon DEF Lists
<1>5. \A v : v = w \/ (\E i \in DOMAIN q : q[i] = v) =>
         \E i \in DOMAIN Append(q, w) : Append(q, w)[i] = v
  <2>1. /\ DOMAIN Append(q, w) = 1 .. Len(q) + 1
        /\ \A i \in 1 .. Len(q) : Append(q, w)[i] = q[i]
        /\ Append(q, w)[Len(q) + 1] = w
      BY <1>3, SMTT(60), Z3T(60)
  <2> QED
      BY <1>3, <2>1, SMTT(60), Z3T(60)
<1>6. \A v : v = w \/ (\E i \in DOMAIN q : q[i] = v) =>
         \E i \in DOMAIN (<<w>> \o q) : (<<w>> \o q)[i] = v
  <2>1. /\ DOMAIN (<<w>> \o q) = 1 .. Len(q) + 1
        /\ \A i \in 1 .. Len(q) : (<<w>> \o q)[i + 1] = q[i]
        /\ (<<w>> \o q)[1] = w
      BY <1>3, SMTT(60), Z3T(60)
  <2>2. ASSUME NEW i \in DOMAIN q
        PROVE  i + 1 \in DOMAIN (<<w>> \o q) /\ (<<w>> \o q)[i + 1] = q[i]
      BY <1>3, <2>1, SMTT(60), Z3T(60)
  <2>3. 1 \in DOMAIN (<<w>> \o q)
      BY <1>3, <2>1, SMTT(60), Z3T(60)
  <2> QED
      BY <2>1, <2>2, <2>3, Zenon
<1>7. \A v : v = w \/ In(list, v, CompList) => In(list', v, CompList)
  <2>1. \A v : v = w \/ (\E i \in DOMAIN q : q[i] = v) =>
           \E i \in DOMAIN list'[CompList] : list'[CompList][i] = v
    <3>1. CASE list'[CompList] = Append(q, w)
        BY <1>5, <3>1, Zenon
    <3>2. CASE list'[CompList] = <<w>> \o q
        BY <1>6, <3>2, Zenon
    <3> QED
        BY <1>4, <3>1, <3>2, Zenon
  <2> QED
      BY <1>2, <2>1, Zenon DEF In
<1>8. \A v : \A g \in Heads : g # w /\ In(list, v, g) => In(list', v, g)
    BY <1>4, <1>7, Zenon DEF In
<1> QED
    BY <1>4, <1>7, <1>8, Zenon

\* A worker that publishes itself can be found, and nobody was walking its list.
LEMMA PublishContextKeeps ==
    ASSUME IInv, Kept, [Next]_vars, NEW w \in Workers, PublishContext(w)
    PROVE  Kept'
<1>1. /\ list \in Lists /\ w \notin Schedulers
      /\ w \in Threads /\ Workers \subseteq Threads /\ Schedulers \subseteq Threads
      /\ Workers \subseteq Heads /\ Schedulers \subseteq Heads /\ CompList \in Heads
      /\ CompList \notin Threads
      /\ pc \in [Threads -> SchedulerPCs \cup WorkerPCs]
    BY ThreadsAssumption, Zenon DEF IInv, TypeOK, Lists, Heads, Threads
<1>2. /\ UNCHANGED <<state, task, parent, ctx, faults>>
      /\ pc[w] \in {"enter_add", "yield_add"} /\ pc'[w] = "asleep"
      /\ \A t \in Threads : t # w => pc'[t] = pc[t]
      /\ task[w] = "interruptible"
    BY <1>1, Zenon DEF PublishContext, Goto, IInv, Prepared
<1>3. /\ In(list', w, CompList)
      /\ list'[w] = <<>>
      /\ \A g \in Heads : g # w /\ g # CompList => list'[g] = list[g]
      /\ \A v : \A g \in Heads : g # w /\ In(list, v, g) => In(list', v, g)
    BY <1>1, Relinked, Zenon DEF PublishContext, UmsCompletionListAddTail
<1>4. \A s \in Schedulers : pc'[s] = pc[s] /\ (Holding(s)' <=> Holding(s)) /\ list'[s] = list[s]
    BY <1>1, <1>2, <1>3, Zenon DEF Holding
<1>5. AsksWhenEmpty'
    BY <1>4, Zenon DEF AsksWhenEmpty, Kept
<1>6. ASSUME faults' = 0 PROVE Walked' /\ AllPlaced' /\ Watched'
  <2>1. Walked /\ AllPlaced /\ Watched
      BY <1>2, <1>6, ZenonT(60) DEF Kept
  <2>2. Walked'
      BY <1>1, <1>2, <1>3, <1>4, <2>1, SMTT(60), Z3T(60) DEF Walked
  <2>3. ASSUME NEW v \in Workers, Parked(v)' PROVE Placed(v)'
    <3>1. CASE v = w
        BY <1>3, <3>1, Zenon DEF Placed
    <3>2. CASE v # w
      <4>1. Placed(v)
          BY <1>1, <1>2, <2>1, <2>3, <3>2, Zenon DEF Parked, AllPlaced
      <4>2. CASE In(list, v, CompList)
          BY <1>1, <1>3, <4>2, ZenonT(60) DEF Placed
      <4>3. ASSUME NEW s \in Schedulers, In(list, v, s) PROVE Placed(v)'
          BY <1>4, <4>3, ZenonT(60) DEF Placed, In
      <4>4. ASSUME NEW s \in Schedulers, pc[s] = "collect", In(list, v, ctx[s])
            PROVE  Placed(v)'
        <5>1. ctx[s] \in Heads /\ In(list, ctx[s], s) /\ s \in Heads /\ ctx[s] \in Workers
            BY <4>4, Walkers, Zenon
        <5>2. ctx[s] # w
            BY <1>2, <5>1, ListForms, Zenon DEF IInv, RunsOnlyParked, Parked
        <5>3. In(list', v, ctx[s])
            BY <1>3, <4>4, <5>1, <5>2, Zenon
        <5> QED
            BY <1>2, <1>4, <4>4, <5>3, Zenon DEF Placed
      <4>5. ASSUME NEW s \in Schedulers, Holding(s), ctx[s] = v PROVE Placed(v)'
          BY <1>2, <1>4, <4>5, Zenon DEF Placed
      <4> QED
          BY <4>1, <4>2, <4>3, <4>4, <4>5, Zenon DEF Placed
    <3> QED
        BY <3>1, <3>2, Zenon
  <2>4. Watched'
    <3>1. \A s \in Schedulers : Sleeps(s)' => Sleeps(s)
        BY <1>2, <1>4, Zenon DEF Sleeps
    <3>2. \A v \in Workers : Attends(v) => Attends(v)'
        BY <1>1, <1>2, Zenon DEF Attends, Executing, WillWakeParent
    <3> QED
        BY <1>2, <2>1, <3>1, <3>2, WatchStays, Zenon
  <2> QED
      BY <2>2, <2>3, <2>4, Zenon DEF AllPlaced
<1> QED
    BY <1>5, <1>6 DEF Kept

\* The context that is put back can be found again.
LEMMA ReregisterContextKeeps ==
    ASSUME IInv, Kept, [Next]_vars, NEW s \in Schedulers, ReregisterContext(s)
    PROVE  Kept'
<1>1. PICK c : c = ctx[s]
    OBVIOUS
<1>2. Holding(s) /\ c \in Workers /\ \A h \in Heads : ~In(list, c, h)
    BY <1>1, ListForms, Zenon DEF ReregisterContext, Holding, IInv, RunsOnlyParked, TypeOK
<1>3. /\ list \in Lists /\ c \notin Schedulers /\ CompList \notin Schedulers
      /\ Workers \subseteq Heads /\ Schedulers \subseteq Heads /\ CompList \in Heads
      /\ CompList \notin Workers
    BY <1>2, ThreadsAssumption, Zenon DEF IInv, TypeOK, Lists, Heads, Threads
<1>4. /\ In(list', c, CompList)
      /\ list'[c] = <<>>
      /\ \A g \in Heads : g # c /\ g # CompList => list'[g] = list[g]
      /\ \A v : \A g \in Heads : g # c /\ In(list, v, g) => In(list', v, g)
    BY <1>1, <1>2, <1>3, Relinked, Zenon DEF ReregisterContext
<1>5. /\ pc[s] = "requeue" /\ pc'[s] = "dqevent"
      /\ \A r \in Schedulers : r # s =>
            pc'[r] = pc[r] /\ ctx'[r] = ctx[r] /\ (Holding(r)' <=> Holding(r))
    BY OthersStay, Zenon DEF ReregisterContext, Goto, IInv, TypeOK, Threads
<1>6. \A r \in Schedulers : list'[r] = list[r]
    BY <1>3, <1>4, ZenonT(60)
<1>7. Walked => Walked'
    BY <1>3, <1>4, <1>5, SMTT(60), Z3T(60) DEF Walked
<1>8. ASSUME NEW v \in Workers, Placed(v) PROVE Placed(v)'
  <2>1. CASE In(list, v, CompList)
      BY <1>2, <1>3, <1>4, <2>1, Zenon DEF Placed
  <2>2. ASSUME NEW r \in Schedulers, In(list, v, r) PROVE Placed(v)'
      BY <1>6, <2>2, Zenon DEF Placed, In
  <2>3. ASSUME NEW r \in Schedulers, pc[r] = "collect", In(list, v, ctx[r]) PROVE Placed(v)'
    <3>1. ctx[r] \in Heads /\ In(list, ctx[r], r) /\ r \in Heads
        BY <2>3, Walkers, Zenon
    <3>2. ctx[r] # c /\ r # s
        BY <1>2, <1>5, <2>3, <3>1, Zenon
    <3> QED
        BY <1>4, <1>5, <2>3, <3>1, <3>2, Zenon DEF Placed
  <2>4. ASSUME NEW r \in Schedulers, Holding(r), ctx[r] = v PROVE Placed(v)'
    <3>1. CASE r = s
        BY <1>1, <1>4, <2>4, <3>1, Zenon DEF Placed
    <3>2. CASE r # s
        BY <1>5, <2>4, <3>2, Zenon DEF Placed
    <3> QED
        BY <3>1, <3>2, Zenon
  <2> QED
      BY <1>8, <2>1, <2>2, <2>3, <2>4, Zenon DEF Placed
<1> QED
    BY <1>5, <1>6, <1>7, <1>8, MovesKeep, Zenon

\* Detaching the first entry of the list at h, which no scheduler has as its
\* run queue: the list at h is empty, and what followed the entry can be found
\* at the entry.
LEMMA DetachPlaces ==
    ASSUME IInv, NEW h \in Heads, h \notin Schedulers, list[h] # <<>>,
           NEW f, f = Head(list[h]), f # h,
           NEW D, D = Detached(h)
    PROVE  /\ D \in Lists /\ f \in Workers /\ f \in Heads
           /\ In(list, f, h)
           /\ D[h] = <<>> /\ D[f] = Tail(list[h])
           /\ \A g \in Heads : g # h /\ g # f => D[g] = list[g]
           /\ \A r \in Schedulers : D[r] = list[r]
           /\ \A v : In(list, v, h) /\ v # f => In(D, v, f)
<1>1. list \in Lists /\ Once(list) /\ D = Detach(list, h)
    BY ListForms, ZenonT(60) DEF IInv, TypeOK, Lists
<1>2. /\ D \in Lists /\ f \in Workers
      /\ In(list, f, h)
      /\ \A v : In(list, v, h) /\ v # f => In(D, v, f)
      /\ \A g \in Heads : g # h /\ g # f => D[g] = list[g]
    BY <1>1, DetachOnce, SMTT(60), Z3T(60)
<1>3. f \in Heads
    BY <1>2, Zenon DEF Heads, Threads
<1>4. D[h] = <<>> /\ D[f] = Tail(list[h])
    BY <1>1, <1>3, Zenon DEF Detach, Lists
<1>5. \A r \in Schedulers : D[r] = list[r]
    BY <1>2, ThreadsAssumption, Zenon DEF Heads, Threads
<1> QED
    BY <1>2, <1>3, <1>4, <1>5, Zenon

\* The whole completion list becomes the list of its first context, which is
\* alone in the run queue and walked from now on.
LEMMA UmsComplistDqcontextKeeps ==
    ASSUME IInv, Kept, [Next]_vars, NEW s \in Schedulers, UmsComplistDqcontext(s)
    PROVE  Kept'
<1>1. /\ list \in Lists /\ Once(list) /\ s \in Heads /\ s \notin Workers /\ s # CompList
      /\ Workers \subseteq Heads /\ Schedulers \subseteq Heads
      /\ CompList \in Heads /\ CompList \notin Schedulers /\ CompList \notin Workers
      /\ ctx \in [Schedulers -> Workers \cup {Uninit}]
      /\ pc \in [Threads -> SchedulerPCs \cup WorkerPCs] /\ s \in Threads
    BY ListForms, ThreadsAssumption, Zenon DEF IInv, TypeOK, Lists, Heads, Threads
<1>2. \A r \in Schedulers : r # s =>
         pc'[r] = pc[r] /\ ctx'[r] = ctx[r] /\ (Holding(r)' <=> Holding(r))
    BY OthersStay, Zenon
<1>3. pc[s] = "dqcontext" /\ list[s] = <<>> /\ pc'[s] # "dqcontext"
    BY <1>1, Zenon DEF UmsComplistDqcontext, Goto, Kept, AsksWhenEmpty
<1>4. CASE UNCHANGED list /\ Fault
    BY <1>3, <1>4, MovesKeep, Zenon
<1>5. PICK f, D : f = Head(list[CompList]) /\ D = Detached(CompList)
    BY Zenon
<1>6. ASSUME list[CompList] # <<>>
      PROVE  /\ D \in Lists /\ f \in Workers /\ f \in Heads
             /\ In(list, f, CompList)
             /\ D[CompList] = <<>> /\ D[f] = Tail(list[CompList])
             /\ \A g \in Heads : g # CompList /\ g # f => D[g] = list[g]
             /\ \A r \in Schedulers : D[r] = list[r]
             /\ \A v : In(list, v, CompList) /\ v # f => In(D, v, f)
  <2>1. list[CompList] \in Seq(Workers)
      BY <1>1, Zenon DEF Lists
  <2>2. f \in Workers
      BY <1>5, <1>6, <2>1
  <2>3. f # CompList
      BY <1>1, <2>2, Zenon
  <2>4. /\ D \in Lists /\ f \in Heads /\ In(list, f, CompList)
        /\ D[CompList] = <<>> /\ D[f] = Tail(list[CompList])
      BY <1>1, <1>5, <1>6, <2>3, DetachPlaces, ZenonT(60)
  <2>5. ASSUME NEW g \in Heads, g # CompList, g # f PROVE D[g] = list[g]
      BY <1>1, <1>5, <1>6, <2>3, <2>5, DetachPlaces, SMTT(60), Z3T(60)
  <2>6. ASSUME NEW r \in Schedulers PROVE D[r] = list[r]
      BY <1>1, <1>5, <1>6, <2>3, <2>6, DetachPlaces, SMTT(60), Z3T(60)
  <2>7. \A v : In(list, v, CompList) /\ v # f => In(D, v, f)
      BY <1>1, <1>5, <1>6, <2>3, DetachPlaces, ZenonT(60)
  <2> QED
      BY <2>2, <2>4, <2>5, <2>6, <2>7, Zenon
<1>7. CASE list[CompList] # <<>> /\ list' = D /\ Fault
    BY <1>3, <1>6, <1>7, MovesKeep, Zenon
<1>8. CASE /\ list[CompList] # <<>>
           /\ ctx' = [ctx EXCEPT ![s] = f]
           /\ list' = [D EXCEPT ![s] = <<f>>]
           /\ Goto(s, "collect")
  <2>1. list'[s] = <<f>> /\ \A g \in Heads : g # s => list'[g] = D[g]
      BY <1>1, <1>6, <1>8, Zenon DEF Lists
  <2>2. pc'[s] = "collect" /\ ctx'[s] = f
      BY <1>1, <1>8, Zenon DEF Goto
  <2>3. In(list', f, s)
    <3>1. DOMAIN list'[s] = {1} /\ list'[s][1] = f
        BY <2>1, SMTT(60), Z3T(60)
    <3> QED
        BY <3>1, Zenon DEF In
  <2>4. f # s
      BY <1>1, <1>6, <1>8, Zenon
  <2>5. ASSUME NEW r \in Schedulers, pc[r] = "collect"
        PROVE  /\ r # s /\ pc'[r] = "collect" /\ ctx'[r] = ctx[r]
               /\ list'[ctx[r]] = list[ctx[r]]
    <3>1. /\ ctx[r] \in Workers /\ ctx[r] \in Heads /\ r \in Heads
          /\ \A h \in Heads : In(list, ctx[r], h) => h = r
        BY <2>5, Walkers, Zenon
    <3>2. ctx[r] # f
        BY <1>1, <1>6, <1>8, <3>1, Zenon
    <3> QED
        BY <1>1, <1>2, <1>3, <1>6, <1>8, <2>1, <2>5, <3>1, <3>2, Zenon
  <2>6. ASSUME Walked PROVE Walked'
    <3> SUFFICES ASSUME NEW w \in Workers, list'[w] # <<>>
                 PROVE  \E r \in Schedulers : pc'[r] = "collect" /\ ctx'[r] = w
        BY Zenon DEF Walked
    <3>1. CASE w = f
        BY <2>2, <3>1, Zenon
    <3>2. CASE w # f
      <4>1. list[w] # <<>>
          BY <1>1, <1>6, <1>8, <2>1, <3>2, Zenon
      <4>2. PICK r \in Schedulers : pc[r] = "collect" /\ ctx[r] = w
          BY <2>6, <4>1, Zenon DEF Walked
      <4> QED
          BY <2>5, <4>2, Zenon
    <3> QED
        BY <3>1, <3>2, Zenon
  <2>7. ASSUME NEW w \in Workers, Placed(w) PROVE Placed(w)'
    <3>1. CASE In(list, w, CompList)
      <4>1. CASE w = f
          BY <2>3, <4>1, Zenon DEF Placed
      <4>2. CASE w # f
        <5>1. In(list', w, f)
            BY <1>6, <1>8, <2>1, <2>4, <3>1, <4>2, SMTT(30), Z3T(30) DEF In
        <5> QED
            BY <2>2, <5>1, ZenonT(60) DEF Placed
      <4> QED
          BY <4>1, <4>2, Zenon
    <3>2. ASSUME NEW r \in Schedulers, In(list, w, r) PROVE Placed(w)'
      <4>1. r # s
          BY <1>3, <3>2, SMTT(60), Z3T(60) DEF In
      <4>2. list'[r] = list[r]
          BY <1>1, <1>6, <1>8, <2>1, <4>1, Zenon
      <4> QED
          BY <3>2, <4>2, Zenon DEF Placed, In
    <3>3. ASSUME NEW r \in Schedulers, pc[r] = "collect", In(list, w, ctx[r]) PROVE Placed(w)'
      <4>1. In(list', w, ctx'[r]) /\ pc'[r] = "collect"
          BY <2>5, <3>3, Zenon DEF In
      <4> QED
          BY <4>1, Zenon DEF Placed
    <3>4. ASSUME NEW r \in Schedulers, Holding(r), ctx[r] = w PROVE Placed(w)'
      <4>1. r # s
          BY <1>3, <3>4, Zenon DEF Holding
      <4> QED
          BY <1>2, <3>4, <4>1, Zenon DEF Placed
    <3> QED
        BY <2>7, <3>1, <3>2, <3>3, <3>4, Zenon DEF Placed
  <2>8. \A r \in Schedulers : r # s => list'[r] = list[r]
      BY <1>1, <1>6, <1>8, <2>1, Zenon
  <2> QED
      BY <1>3, <2>6, <2>7, <2>8, MovesKeep, Zenon
<1> QED
    BY <1>4, <1>5, <1>7, <1>8, Zenon DEF UmsComplistDqcontext

\* One turn of the walk moves one context from the list to the run queue and
\* the rest of the list to that context; the walk ends at the end of the list.
LEMMA UmsComplistNextContextKeeps ==
    ASSUME IInv, Kept, [Next]_vars, NEW s \in Schedulers, UmsComplistNextContext(s)
    PROVE  Kept'
<1>1. /\ list \in Lists /\ Once(list) /\ s \in Heads /\ s \notin Workers /\ s # CompList
      /\ Workers \subseteq Heads /\ Schedulers \subseteq Heads
      /\ CompList \in Heads /\ CompList \notin Schedulers /\ CompList \notin Workers
      /\ ctx \in [Schedulers -> Workers \cup {Uninit}]
      /\ pc \in [Threads -> SchedulerPCs \cup WorkerPCs] /\ s \in Threads
    BY ListForms, ThreadsAssumption, Zenon DEF IInv, TypeOK, Lists, Heads, Threads
<1>2. \A r \in Schedulers : r # s =>
         pc'[r] = pc[r] /\ ctx'[r] = ctx[r] /\ (Holding(r)' <=> Holding(r))
    BY OthersStay, Zenon
<1>3. PICK c, n, D : c = ctx[s] /\ n = Head(list[c]) /\ D = Detached(c)
    BY Zenon
<1>4. /\ pc[s] = "collect" /\ pc'[s] # "dqcontext"
      /\ c \in Workers /\ c \in Heads /\ c \notin Schedulers
      /\ In(list, c, s)
      /\ \A h \in Heads : In(list, c, h) => h = s
  <2>1. pc[s] = "collect" /\ pc'[s] # "dqcontext"
      BY <1>1, ZenonT(60) DEF UmsComplistNextContext, Goto
  <2> QED
      BY <1>3, <2>1, Walkers, ThreadsAssumption, Zenon
<1>5. ASSUME list[c] # <<>>
      PROVE  /\ D \in Lists /\ n \in Workers /\ n \in Heads /\ n # c
             /\ In(list, n, c)
             /\ D[c] = <<>> /\ D[n] = Tail(list[c])
             /\ \A g \in Heads : g # c /\ g # n => D[g] = list[g]
             /\ \A r \in Schedulers : D[r] = list[r]
             /\ \A v : In(list, v, c) /\ v # n => In(D, v, n)
  <2>1. n # c
    <3>1. list[c] \in Seq(Workers)
        BY <1>1, <1>4, Zenon DEF Lists
    <3>2. 1 \in DOMAIN list[c] /\ n = list[c][1]
        BY <1>3, <1>5, <3>1, SMTT(30), Z3T(30)
    <3>3. In(list, n, c)
        BY <3>2, Zenon DEF In
    <3> QED
        BY <1>4, <3>3, Zenon
  <2> QED
      BY <1>3, <1>4, <1>5, <2>1, DetachPlaces, SMTT(30), Z3T(30)
<1>6. ASSUME NEW r \in Schedulers, pc[r] = "collect", r # s
      PROVE  /\ pc'[r] = "collect" /\ ctx'[r] = ctx[r] /\ ctx[r] \in Heads
             /\ ctx[r] # c /\ ctx[r] # s /\ ctx[r] # CompList
             /\ list[c] # <<>> => ctx[r] # n
  <2>1. /\ ctx[r] \in Workers /\ ctx[r] \in Heads /\ r \in Heads
        /\ In(list, ctx[r], r)
        /\ \A h \in Heads : In(list, ctx[r], h) => h = r
      BY <1>6, Walkers, Zenon
  <2>2. ctx[r] # c
      BY <1>1, <1>4, <1>6, <2>1, Zenon
  <2>3. list[c] # <<>> => ctx[r] # n
      BY <1>4, <1>5, <2>1, ThreadsAssumption, Zenon
  <2> QED
      BY <1>1, <1>2, <1>6, <2>1, <2>2, <2>3, Zenon
<1>7. CASE /\ list' = [list EXCEPT ![s] = Tail(@)]
           /\ ctx' = [ctx EXCEPT ![s] = Head(list[s])]
           /\ Goto(s, "switch")
           /\ list[c] = <<>> \/ Fault
  <2>1. list[s] # <<>> /\ Changed(list, list', s, Tail(list[s]))
    <3>1. list[s] \in Seq(Workers) /\ list[s] # <<>>
        BY <1>1, <1>4, SMTT(60), Z3T(60) DEF Lists, In
    <3>2. Tail(list[s]) \in Seq(Workers)
        BY <3>1
    <3> QED
        BY <1>1, <1>7, <3>1, <3>2, ExceptChanges, Zenon
  <2>2. \A v, g : In(list, v, g) /\ g \in Heads /\ v # Head(list[s]) => In(list', v, g)
    <3>1. list' \in Lists
        BY <2>1, Zenon DEF Changed
    <3> QED
        BY <1>1, <2>1, <3>1, TailOnce, Zenon
  <2>3. \A g \in Heads : g # s => list'[g] = list[g]
      BY <2>1, Zenon DEF Changed
  <2>4. pc'[s] = "switch" /\ ctx'[s] = Head(list[s]) /\ Holding(s)'
      BY <1>1, <1>7, Zenon DEF Goto, Holding
  <2>5. ASSUME Walked, ~Fault PROVE Walked'
    <3> SUFFICES ASSUME NEW w \in Workers, list'[w] # <<>>
                 PROVE  \E r \in Schedulers : pc'[r] = "collect" /\ ctx'[r] = w
        BY Zenon DEF Walked
    <3>1. list[w] # <<>> /\ w # c
        BY <1>1, <1>7, <2>3, <2>5, Zenon
    <3>2. PICK r \in Schedulers : pc[r] = "collect" /\ ctx[r] = w
        BY <2>5, <3>1, Zenon DEF Walked
    <3>3. r # s
        BY <1>3, <3>1, <3>2, Zenon
    <3> QED
        BY <1>6, <3>2, <3>3, Zenon
  <2>6. ASSUME NEW w \in Workers, Placed(w), ~Fault PROVE Placed(w)'
    <3>1. CASE w = Head(list[s])
        BY <2>4, <3>1, Zenon DEF Placed
    <3>2. CASE w # Head(list[s]) /\ In(list, w, CompList)
        BY <1>1, <2>2, <3>2, Zenon DEF Placed
    <3>3. ASSUME NEW r \in Schedulers, w # Head(list[s]), In(list, w, r) PROVE Placed(w)'
        BY <1>1, <2>2, <3>3, Zenon DEF Placed
    <3>4. ASSUME NEW r \in Schedulers, w # Head(list[s]), pc[r] = "collect", In(list, w, ctx[r])
          PROVE  Placed(w)'
      <4>1. r # s
          BY <1>3, <1>7, <2>6, <3>4, SMTT(60), Z3T(60) DEF In
      <4>2. pc'[r] = "collect" /\ ctx'[r] = ctx[r] /\ ctx[r] \in Heads
          BY <1>6, <3>4, <4>1, Zenon
      <4>3. In(list', w, ctx[r])
          BY <2>2, <3>4, <4>2, ZenonT(60)
      <4> QED
          BY <4>2, <4>3, Zenon DEF Placed
    <3>5. ASSUME NEW r \in Schedulers, Holding(r), ctx[r] = w PROVE Placed(w)'
      <4>1. r # s
          BY <1>4, <3>5, Zenon DEF Holding
      <4> QED
          BY <1>2, <3>5, <4>1, Zenon DEF Placed
    <3> QED
        BY <2>6, <3>1, <3>2, <3>3, <3>4, <3>5, ZenonT(60) DEF Placed
  <2>7. \A r \in Schedulers : r # s => list'[r] = list[r]
      BY <1>1, <2>3, Zenon
  <2> QED
      BY <1>4, <2>5, <2>6, <2>7, MovesKeep, Zenon
<1>8. CASE /\ list[c] # <<>>
           /\ list' = [D EXCEPT ![s] = Append(@, n)]
           /\ ctx' = [ctx EXCEPT ![s] = n]
           /\ UNCHANGED pc
  <2>1. list'[s] = Append(list[s], n) /\ \A g \in Heads : g # s => list'[g] = D[g]
      BY <1>1, <1>5, <1>8, Zenon DEF Lists
  <2>2. pc'[s] = "collect" /\ ctx'[s] = n
      BY <1>1, <1>4, <1>8, Zenon
  <2>3. \A v : v = n \/ In(list, v, s) => In(list', v, s)
    <3>1. PICK q : q = list[s]
        OBVIOUS
    <3>2. q \in Seq(Workers) /\ list'[s] = Append(q, n)
        BY <1>1, <2>1, <3>1, Zenon DEF Lists
    <3>3. /\ DOMAIN q = 1 .. Len(q) /\ Len(q) \in Nat
          /\ DOMAIN list'[s] = 1 .. Len(q) + 1
          /\ \A i \in 1 .. Len(q) : list'[s][i] = q[i]
          /\ list'[s][Len(q) + 1] = n
        BY <3>2, SMTT(60), Z3T(60)
    <3> QED
        BY <3>1, <3>3, SMTT(30), Z3T(30) DEF In
  <2>4. n # s /\ c # s /\ list'[c] = <<>>
      BY <1>1, <1>4, <1>5, <1>8, <2>1, Zenon
  <2>5. ASSUME NEW r \in Schedulers, pc[r] = "collect", r # s
        PROVE  list'[ctx[r]] = list[ctx[r]]
      BY <1>5, <1>6, <1>8, <2>1, <2>5, ZenonT(60)
  <2>6. ASSUME Walked PROVE Walked'
    <3> SUFFICES ASSUME NEW w \in Workers, list'[w] # <<>>
                 PROVE  \E r \in Schedulers : pc'[r] = "collect" /\ ctx'[r] = w
        BY Zenon DEF Walked
    <3>1. CASE w = n
        BY <2>2, <3>1, Zenon
    <3>2. CASE w # n
      <4>1. w # c /\ list[w] # <<>>
          BY <1>1, <1>5, <1>8, <2>1, <2>4, <3>2, Zenon
      <4>2. PICK r \in Schedulers : pc[r] = "collect" /\ ctx[r] = w
          BY <2>6, <4>1, Zenon DEF Walked
      <4>3. r # s
          BY <1>3, <4>1, <4>2, ZenonT(60)
      <4> QED
          BY <1>6, <4>2, <4>3, Zenon
    <3> QED
        BY <3>1, <3>2, Zenon
  <2>7. ASSUME NEW w \in Workers, Placed(w) PROVE Placed(w)'
    <3>1. CASE In(list, w, CompList)
      <4>1. list'[CompList] = list[CompList]
          BY <1>1, <1>4, <1>5, <1>8, <2>1, Zenon
      <4> QED
          BY <3>1, <4>1, Zenon DEF Placed, In
    <3>2. ASSUME NEW r \in Schedulers, In(list, w, r) PROVE Placed(w)'
      <4>1. CASE r = s
          BY <2>3, <3>2, <4>1, Zenon DEF Placed
      <4>2. CASE r # s
        <5>1. list'[r] = list[r]
            BY <1>1, <1>5, <1>8, <2>1, <4>2, Zenon
        <5> QED
            BY <3>2, <5>1, Zenon DEF Placed, In
      <4> QED
          BY <4>1, <4>2, Zenon
    <3>3. ASSUME NEW r \in Schedulers, pc[r] = "collect", In(list, w, ctx[r]) PROVE Placed(w)'
      <4>1. CASE r = s /\ w = n
          BY <2>3, <4>1, Zenon DEF Placed
      <4>2. CASE r = s /\ w # n
        <5>1. In(list', w, n)
          <6>1. In(list, w, c)
              BY <1>3, <3>3, <4>2, Zenon
          <6>2. In(D, w, n) /\ n \in Heads
              BY <1>5, <1>8, <4>2, <6>1, Zenon
          <6>3. list'[n] = D[n]
              BY <2>1, <2>4, <6>2, Zenon
          <6> QED
              BY <6>2, <6>3, Zenon DEF In
        <5> QED
            BY <2>2, <4>2, <5>1, Zenon DEF Placed
      <4>3. CASE r # s
        <5>1. In(list', w, ctx'[r]) /\ pc'[r] = "collect"
            BY <1>6, <2>5, <3>3, <4>3, ZenonT(60) DEF In
        <5> QED
            BY <5>1, Zenon DEF Placed
      <4> QED
          BY <4>1, <4>2, <4>3, Zenon
    <3>4. ASSUME NEW r \in Schedulers, Holding(r), ctx[r] = w PROVE Placed(w)'
      <4>1. r # s
          BY <1>4, <3>4, Zenon DEF Holding
      <4> QED
          BY <1>2, <3>4, <4>1 DEF Placed
    <3> QED
        BY <2>7, <3>1, <3>2, <3>3, <3>4, Zenon DEF Placed
  <2>8. \A r \in Schedulers : r # s => list'[r] = list[r]
      BY <1>1, <1>5, <1>8, <2>1, Zenon
  <2> QED
      BY <1>4, <2>6, <2>7, <2>8, MovesKeep, Zenon
<1>9. CASE /\ list[c] # <<>>
           /\ Fault
           /\ list' = [D EXCEPT ![s] = Tail(@)] \/ list' = D
  <2>1. \A r \in Schedulers : r # s => list'[r] = list[r]
      BY <1>1, <1>5, <1>9, Zenon DEF Lists
  <2> QED
      BY <1>4, <1>9, <2>1, MovesKeep, Zenon
<1> QED
    BY <1>3, <1>7, <1>8, <1>9, ZenonT(60) DEF UmsComplistNextContext

\* Every step loses nothing.
LEMMA NextKeeps ==
    ASSUME IInv, Kept, [Next]_vars
    PROVE  Kept'
<1>1. ASSUME NEW s \in Schedulers, SchedulerStep(s) \/ Signal(s) PROVE Kept'
    BY <1>1, SchedulerKeeps, SignalKeeps, ExecUmsContextKeeps, GetNextContextKeeps,
       ReregisterContextKeeps, UmsComplistDqcontextKeeps, UmsComplistNextContextKeeps, ZenonT(60)
       DEF SchedulerStep
<1>2. ASSUME NEW w \in Workers, WorkerStep(w) PROVE Kept'
    BY <1>2, WorkerKeeps, PublishContextKeeps, Zenon DEF WorkerStep
<1>3. CASE MainReturns
    BY <1>3, MainReturnsKeeps, Zenon
<1>4. CASE UNCHANGED vars
    BY <1>4, SMTT(60), Z3T(60) DEF vars, Kept, AsksWhenEmpty, Walked, AllPlaced, Placed, Watched, Sleeps,
       Attends, Parked, Holding, Executing, WillWakeParent, In
<1> QED
    BY <1>1, <1>2, <1>3, <1>4, Zenon DEF Next

\* Kept holds throughout.
THEOREM NothingLost == Spec => []Kept
<1>1. Init => Kept
  <2> SUFFICES ASSUME Init PROVE Kept
      OBVIOUS
  <2>1. /\ \A s \in Schedulers : pc[s] = "start"
        /\ \A w \in Workers : pc[w] = "new" /\ list[w] = <<>>
      BY ThreadsAssumption, Zenon DEF Init, Threads, Heads
  <2> QED
      BY <2>1, Zenon DEF Kept, AsksWhenEmpty, Walked, AllPlaced, Watched, Sleeps, Parked
<1>2. IInv /\ Kept /\ [Next]_vars => Kept'
    BY NextKeeps, Zenon
<1> QED
    BY <1>1, <1>2, Inductive, PTL DEF Spec

\* The list that ums_complist_next_context walks without a lock has one owner:
\* the walked context is in the walker's own run queue, and without failures
\* every list that starts at a context is being walked.
THEOREM ContextListsAreOwned == Spec => []OneOwnerOfContextList
<1>1. IInv /\ Kept => OneOwnerOfContextList
    BY ListForms, Zenon DEF IInv, Walking, Kept, Walked, OneOwnerOfContextList, Linked, In
<1> QED
    BY <1>1, Inductive, NothingLost, PTL

\* Without failures a worker that waits to be run can always be found: on the
\* completion list, in a run queue, on a list that is being walked or in the
\* hand of a scheduler.
THEOREM WorkersAreKept == Spec => []NoWorkerLost
<1>1. IInv /\ Kept => NoWorkerLost
    BY Zenon DEF Kept, AllPlaced, Placed, NoWorkerLost, Linked, In
<1> QED
    BY <1>1, Inductive, NothingLost, PTL

\* Without failures a scheduler sleeps in exec_ums_context only while a worker
\* it has run still runs or is on its way to wake it.
THEOREM SleepersAreWoken == Spec => []NoLostWakeUp
<1>1. IInv /\ Kept => NoLostWakeUp
    BY Zenon DEF Kept, Watched, Sleeps, Attends, NoLostWakeUp
<1> QED
    BY <1>1, Inductive, NothingLost, PTL

-----------------------------------------------------------------------------
(* The order of the contexts a scheduler takes.                            *)

\* What s has taken and has still to take is what it was before, or the whole
\* completion list when it starts.
InOrder(s) ==
    pc'[s] = "collect" =>
        list'[s] \o list'[ctx'[s]] =
            IF pc[s] = "collect" THEN list[s] \o list[ctx[s]] ELSE list[CompList]

\* A walk that a step does not touch goes on where it was.
LEMMA WalkStays ==
    ASSUME NEW s \in Schedulers,
           pc'[s] = "collect" =>
              pc[s] = "collect" /\ ctx'[s] = ctx[s]
              /\ list'[s] = list[s] /\ list'[ctx[s]] = list[ctx[s]]
    PROVE  InOrder(s)
    BY Zenon DEF InOrder

\* The steps that move no context start no walk.
LEMMA UnmovedInOrder ==
    ASSUME UNCHANGED <<list, ctx>>, NEW s \in Schedulers, pc'[s] = "collect" => pc[s] = "collect"
    PROVE  InOrder(s)
    BY WalkStays, Zenon

\* The steps of workers, of signals and of main().
LEMMA WorkersInOrder ==
    ASSUME IInv, NEW s \in Schedulers,
           (\E r \in Schedulers : Signal(r)) \/ (\E w \in Workers : WorkerStep(w)) \/ MainReturns
    PROVE  InOrder(s)
<1>1. /\ pc \in [Threads -> SchedulerPCs \cup WorkerPCs]
      /\ s \in Threads /\ s \in Heads /\ s # CompList /\ list \in Lists /\ CompList \notin Threads
      /\ \A w \in Workers : w # s /\ w \in Threads /\ w \in Heads
    BY ThreadsAssumption, Zenon DEF IInv, TypeOK, Lists, Heads, Threads
<1>2. ASSUME NEW r \in Schedulers, Signal(r) PROVE InOrder(s)
    BY <1>2, UnmovedInOrder, Zenon DEF Signal
<1>3. CASE MainReturns
  <2>1. pc'[s] = "exited"
      BY <1>1, <1>3, Zenon DEF MainReturns, Threads
  <2> QED
      BY <2>1, Zenon DEF InOrder
<1>4. ASSUME NEW w \in Workers, WorkerStep(w) PROVE InOrder(s)
  <2>1. pc'[s] = pc[s] /\ UNCHANGED ctx
    <3>1. UNCHANGED pc \/ \E l : pc' = [pc EXCEPT ![w] = l]
        BY <1>4, Zenon DEF WorkerStep, EnterUmsWorkerMode, PublishContext, WorkerResumes,
           UmsWorkerYield, WorkerSwitches, PrepareSwitchContext, UmsWorkerEnd, WorkerWakesParent,
           UmsWorkerDestroy, Goto
    <3>2. UNCHANGED ctx
        BY <1>4, Zenon DEF WorkerStep, EnterUmsWorkerMode, PublishContext, WorkerResumes,
           UmsWorkerYield, WorkerSwitches, UmsWorkerEnd, WorkerWakesParent, UmsWorkerDestroy
    <3> QED
        BY <1>1, <3>1, <3>2, Zenon
  <2>2. CASE UNCHANGED list
      BY <2>1, <2>2, UnmovedInOrder, Zenon
  <2>3. CASE PublishContext(w)
    <3>1. \A g \in Heads : g # w /\ g # CompList => list'[g] = list[g]
        BY <1>1, <2>3, Relinked, Zenon DEF PublishContext, UmsCompletionListAddTail
    <3>2. ASSUME pc[s] = "collect"
          PROVE  ctx[s] \in Heads /\ ctx[s] # CompList /\ ctx[s] # w
      <4>1. ctx[s] \in Heads /\ In(list, ctx[s], s) /\ s \in Heads /\ ctx[s] \in Workers
          BY <3>2, Walkers, Zenon
      <4>2. pc[w] \in {"enter_add", "yield_add"}
          BY <2>3, Zenon DEF PublishContext
      <4>3. ctx[s] # w
          BY <4>1, <4>2, ListForms, Zenon DEF IInv, RunsOnlyParked, Parked
      <4> QED
          BY <1>1, <4>1, <4>3, Zenon
    <3> QED
        BY <1>1, <2>1, <3>1, <3>2, WalkStays, Zenon
  <2> QED
      BY <1>4, <2>2, <2>3, ZenonT(60) DEF WorkerStep, EnterUmsWorkerMode, WorkerResumes,
         UmsWorkerYield, WorkerSwitches, UmsWorkerEnd, WorkerWakesParent, UmsWorkerDestroy
<1> QED
    BY <1>2, <1>3, <1>4, Zenon

\* The steps of a scheduler that walks no list.
LEMMA SchedulersInOrder ==
    ASSUME IInv, NEW s \in Schedulers, NEW r \in Schedulers,
           \/ EnterUmsSchedulerMode(r) \/ UmsSchedDqevent(r) \/ GetNextContext(r)
           \/ ReregisterContext(r) \/ ExecUmsContext(r) \/ SchedulerResumes(r)
    PROVE  InOrder(s)
<1>1. /\ pc \in [Threads -> SchedulerPCs \cup WorkerPCs]
      /\ ctx \in [Schedulers -> Workers \cup {Uninit}]
      /\ r \in Threads /\ s \in Threads /\ s \in Heads /\ r \in Heads /\ list \in Lists
      /\ CompList \notin Threads /\ \A w \in Workers : w # s /\ w # r /\ w \in Threads
    BY ThreadsAssumption, ZenonT(60) DEF IInv, TypeOK, Lists, Heads, Threads
<1>2. pc'[s] = "collect" => pc[s] = "collect" /\ r # s
  <2>1. \E l : l # "collect" /\ pc' = [pc EXCEPT ![r] = l]
      BY Zenon DEF EnterUmsSchedulerMode, UmsSchedDqevent, GetNextContext, ReregisterContext,
         ExecUmsContext, PrepareSwitchContext, SchedulerResumes, Goto
  <2> QED
      BY <1>1, <2>1, Zenon
<1>3. CASE UNCHANGED <<list, ctx>>
    BY <1>2, <1>3, UnmovedInOrder, Zenon
<1>4. CASE GetNextContext(r) /\ list' = [list EXCEPT ![r] = Tail(@)]
  <2>1. \A g \in Heads : g # r => list'[g] = list[g]
      BY <1>1, <1>4, Zenon DEF Lists
  <2>2. r # s => ctx'[s] = ctx[s]
      BY <1>4, OthersStay, Zenon
  <2>3. pc[s] = "collect" => ctx[s] \in Heads /\ ctx[s] # r
      BY <1>1, Walkers, Zenon
  <2> QED
      BY <1>1, <1>2, <2>1, <2>2, <2>3, WalkStays, Zenon
<1>5. CASE ReregisterContext(r)
  <2>1. PICK c : c = ctx[r]
      BY Zenon
  <2>2. c \in Workers /\ \A h \in Heads : ~In(list, c, h)
      BY <1>5, <2>1, ListForms, ZenonT(60) DEF ReregisterContext, Holding, IInv, RunsOnlyParked,
         TypeOK
  <2>3. \A g \in Heads : g # c /\ g # CompList => list'[g] = list[g]
      BY <1>1, <1>5, <2>1, <2>2, Relinked, Zenon DEF ReregisterContext
  <2>4. r # s => ctx'[s] = ctx[s]
      BY <1>5, OthersStay, ZenonT(60)
  <2>5. pc[s] = "collect" => ctx[s] \in Heads /\ ctx[s] # c /\ ctx[s] # CompList
      BY <1>1, <2>2, Walkers, ZenonT(60)
  <2> QED
      BY <1>1, <1>2, <2>2, <2>3, <2>4, <2>5, WalkStays, ZenonT(60)
<1> QED
    BY <1>3, <1>4, <1>5, Zenon DEF EnterUmsSchedulerMode, UmsSchedDqevent, GetNextContext,
       ExecUmsContext, SchedulerResumes

\* A walk starts with the whole completion list: its first context in the run
\* queue, the others at that context.
LEMMA DqcontextInOrder ==
    ASSUME IInv, NEW s \in Schedulers, NEW r \in Schedulers, UmsComplistDqcontext(r)
    PROVE  InOrder(s)
<1>1. /\ pc \in [Threads -> SchedulerPCs \cup WorkerPCs]
      /\ ctx \in [Schedulers -> Workers \cup {Uninit}]
      /\ r \in Threads /\ s \in Threads /\ s \in Heads /\ r \in Heads /\ list \in Lists
      /\ CompList \in Heads /\ CompList \notin Threads /\ CompList \notin Schedulers
      /\ CompList \notin Workers
      /\ \A w \in Workers : w # s /\ w # r /\ w \in Threads
    BY ThreadsAssumption, ZenonT(60) DEF IInv, TypeOK, Lists, Heads, Threads
<1>2. r # s => pc'[s] = pc[s] /\ ctx'[s] = ctx[s]
    BY OthersStay, Zenon
<1>3. PICK f, D, q : f = Head(list[CompList]) /\ D = Detached(CompList) /\ q = list[CompList]
    BY Zenon
<1>4. pc[r] = "dqcontext" /\ q \in Seq(Workers)
    BY <1>1, <1>3, ZenonT(60) DEF UmsComplistDqcontext, Lists
<1>5. ASSUME q # <<>>
      PROVE  /\ D \in Lists /\ f \in Workers /\ f \in Heads
             /\ In(list, f, CompList)
             /\ D[f] = Tail(q)
             /\ \A g \in Heads : g # CompList /\ g # f => D[g] = list[g]
  <2>1. f \in Workers
      BY <1>3, <1>4, <1>5, SMTT(60), Z3T(60)
  <2>2. f # CompList /\ list[CompList] # <<>>
      BY <1>1, <1>3, <1>5, <2>1, Zenon
  <2>3. /\ D \in Lists /\ f \in Heads /\ In(list, f, CompList)
        /\ D[f] = Tail(list[CompList])
      BY <1>1, <1>3, <2>2, DetachPlaces, ZenonT(60)
  <2>4. ASSUME NEW g \in Heads, g # CompList, g # f PROVE D[g] = list[g]
      BY <1>1, <1>3, <2>2, <2>4, DetachPlaces, SMTT(60), Z3T(60)
  <2> QED
      BY <1>3, <2>1, <2>3, <2>4, Zenon
<1>6. ASSUME pc[s] = "collect"
      PROVE  /\ ctx[s] \in Heads /\ ctx[s] # CompList /\ ctx[s] # r
             /\ q # <<>> => ctx[s] # f
  <2>1. /\ ctx[s] \in Workers /\ ctx[s] \in Heads
        /\ \A h \in Heads : In(list, ctx[s], h) => h = s
      BY <1>6, Walkers, Zenon
  <2> QED
      BY <1>1, <1>5, <2>1, Zenon
<1>7. CASE UNCHANGED list /\ pc'[r] # "collect"
    BY <1>1, <1>2, <1>7, WalkStays, Zenon
<1>8. CASE q # <<>> /\ list' = D /\ pc'[r] # "collect"
  <2>1. s # f
      BY <1>1, <1>5, <1>8, Zenon
  <2> QED
      BY <1>1, <1>2, <1>5, <1>6, <1>8, <2>1, WalkStays, Zenon
<1>9. CASE /\ q # <<>>
           /\ ctx' = [ctx EXCEPT ![r] = f]
           /\ list' = [D EXCEPT ![r] = <<f>>]
  <2>1. list'[r] = <<f>> /\ \A g \in Heads : g # r => list'[g] = D[g]
      BY <1>1, <1>5, <1>9, Zenon DEF Lists
  <2>2. f # r /\ f # s
      BY <1>1, <1>5, <1>9, Zenon
  <2>3. CASE s = r
    <3>1. ctx'[s] = f /\ list'[s] = <<f>> /\ list'[f] = Tail(q)
        BY <1>1, <1>5, <1>9, <2>1, <2>2, <2>3, ZenonT(60)
    <3>2. <<f>> \o Tail(q) = q
        BY <1>3, <1>4, <1>9, SMTT(60), Z3T(60)
    <3> QED
        BY <1>3, <1>4, <2>3, <3>1, <3>2, Zenon DEF InOrder
  <2>4. CASE s # r
      BY <1>1, <1>2, <1>5, <1>6, <1>9, <2>1, <2>2, <2>4, WalkStays, ZenonT(60)
  <2> QED
      BY <2>3, <2>4, Zenon
<1>10. \A l : Goto(r, l) => pc'[r] = l
    BY <1>1, Zenon DEF Goto
<1> QED
    BY <1>3, <1>7, <1>8, <1>9, <1>10, ZenonT(60) DEF UmsComplistDqcontext

\* Moving the first element of one sequence to the end of another changes
\* neither what the two hold together nor its order.
LEMMA MovesOne ==
    ASSUME NEW p \in Seq(Workers), NEW q \in Seq(Workers), q # <<>>
    PROVE  Append(p, Head(q)) \o Tail(q) = p \o q
<1> DEFINE a == Append(p, Head(q)) \o Tail(q)
           b == p \o q
<1>1. /\ Len(p) \in Nat /\ Len(q) \in Nat /\ Len(q) >= 1
      /\ Head(q) \in Workers /\ Tail(q) \in Seq(Workers) /\ Len(Tail(q)) = Len(q) - 1
      /\ Append(p, Head(q)) \in Seq(Workers) /\ Len(Append(p, Head(q))) = Len(p) + 1
    OBVIOUS
<1>2. a \in Seq(Workers) /\ b \in Seq(Workers) /\ Len(a) = Len(b) /\ Len(b) = Len(p) + Len(q)
    BY <1>1
<1>3. ASSUME NEW i \in 1 .. Len(b) PROVE a[i] = b[i]
  <2>1. CASE i <= Len(p)
    <3>1. a[i] = Append(p, Head(q))[i]
        BY <1>1, <1>2, <2>1
    <3> QED
        BY <1>1, <1>2, <2>1, <3>1, SMTT(60), Z3T(60)
  <2>2. CASE i = Len(p) + 1
    <3>1. a[i] = Append(p, Head(q))[i]
        BY <1>1, <1>2, <2>2
    <3> QED
        BY <1>1, <1>2, <2>2, <3>1, SMTT(60), Z3T(60)
  <2>3. CASE i > Len(p) + 1
    <3>1. a[i] = Tail(q)[i - (Len(p) + 1)]
        BY <1>1, <1>2, <2>3, SMTT(60), Z3T(60)
    <3>2. Tail(q)[i - (Len(p) + 1)] = q[i - Len(p)]
        BY <1>1, <1>2, <2>3, SMTT(60), Z3T(60)
    <3> QED
        BY <1>1, <1>2, <2>3, <3>1, <3>2, SMTT(60), Z3T(60)
  <2> QED
      BY <1>1, <1>2, <2>1, <2>2, <2>3, SMTT(60), Z3T(60)
<1> QED
    BY <1>2, <1>3, SMTT(60), Z3T(60)

\* A turn of the walk moves the first context that is left to the end of the
\* run queue.
LEMMA NextContextInOrder ==
    ASSUME IInv, NEW s \in Schedulers, NEW r \in Schedulers, UmsComplistNextContext(r)
    PROVE  InOrder(s)
<1>1. /\ pc \in [Threads -> SchedulerPCs \cup WorkerPCs]
      /\ ctx \in [Schedulers -> Workers \cup {Uninit}]
      /\ r \in Threads /\ s \in Threads /\ s \in Heads /\ r \in Heads /\ list \in Lists
      /\ \A w \in Workers : w # s /\ w # r /\ w \in Threads
    BY ThreadsAssumption, Zenon DEF IInv, TypeOK, Lists, Heads, Threads
<1>2. r # s => pc'[s] = pc[s] /\ ctx'[s] = ctx[s]
    BY OthersStay, Zenon
<1>3. PICK c, n, D, q, p :
         c = ctx[r] /\ n = Head(list[c]) /\ D = Detached(c) /\ q = list[c] /\ p = list[r]
    BY Zenon
<1>4. /\ pc[r] = "collect"
      /\ c \in Workers /\ c \in Heads /\ c \notin Schedulers
      /\ In(list, c, r)
      /\ \A h \in Heads : In(list, c, h) => h = r
  <2>1. pc[r] = "collect"
      BY Zenon DEF UmsComplistNextContext
  <2> QED
      BY <1>3, <2>1, Walkers, ThreadsAssumption, Zenon
<1>5. q \in Seq(Workers) /\ p \in Seq(Workers)
    BY <1>1, <1>3, <1>4, ZenonT(60) DEF Lists
<1>6. ASSUME q # <<>>
      PROVE  /\ D \in Lists /\ n \in Workers /\ n \in Heads /\ n # c
             /\ In(list, n, c)
             /\ D[n] = Tail(q)
             /\ \A g \in Heads : g # c /\ g # n => D[g] = list[g]
             /\ \A g \in Schedulers : D[g] = list[g]
  <2>1. n # c
    <3>1. 1 \in DOMAIN q /\ n = q[1]
        BY <1>3, <1>5, <1>6, SMTT(60), Z3T(60)
    <3>2. In(list, n, c)
        BY <1>3, <3>1, Zenon DEF In
    <3> QED
        BY <1>1, <1>4, <3>2, Zenon
  <2> QED
      BY <1>3, <1>4, <1>6, <2>1, DetachPlaces, SMTT(30), Z3T(30)
<1>7. ASSUME pc[s] = "collect", s # r
      PROVE  /\ ctx[s] \in Heads /\ ctx[s] # r /\ ctx[s] # c
             /\ q # <<>> => ctx[s] # n
  <2>1. /\ ctx[s] \in Workers /\ ctx[s] \in Heads
        /\ \A h \in Heads : In(list, ctx[s], h) => h = s
      BY <1>7, Walkers, Zenon
  <2> QED
      BY <1>1, <1>4, <1>6, <1>7, <2>1, Zenon
<1>8. CASE list' = [list EXCEPT ![r] = Tail(@)] /\ pc'[r] # "collect"
  <2>1. \A g \in Heads : g # r => list'[g] = list[g]
      BY <1>1, <1>8, Zenon DEF Lists
  <2> QED
      BY <1>1, <1>2, <1>7, <1>8, <2>1, WalkStays, Zenon
<1>9. CASE /\ q # <<>>
           /\ list' = D \/ list' = [D EXCEPT ![r] = Tail(@)]
           /\ pc'[r] # "collect"
  <2>1. \A g \in Heads : g # r => list'[g] = D[g]
      BY <1>6, <1>9, Zenon DEF Lists
  <2> QED
      BY <1>1, <1>2, <1>6, <1>7, <1>9, <2>1, WalkStays, Zenon
<1>10. CASE /\ q # <<>>
            /\ list' = [D EXCEPT ![r] = Append(@, n)]
            /\ ctx' = [ctx EXCEPT ![r] = n]
  <2>1. list'[r] = Append(p, n) /\ \A g \in Heads : g # r => list'[g] = D[g]
      BY <1>1, <1>3, <1>6, <1>10, Zenon DEF Lists
  <2>2. n # r /\ n # s
      BY <1>1, <1>6, <1>10, Zenon
  <2>3. CASE s = r
    <3>1. ctx'[s] = n /\ list'[s] = Append(p, n) /\ list'[n] = Tail(q)
        BY <1>1, <1>6, <1>10, <2>1, <2>2, <2>3, Zenon
    <3>2. Append(p, n) \o Tail(q) = p \o q
        BY <1>3, <1>5, <1>10, MovesOne, Zenon
    <3> QED
        BY <1>3, <1>4, <2>3, <3>1, <3>2, Zenon DEF InOrder
  <2>4. CASE s # r
      BY <1>1, <1>2, <1>6, <1>7, <1>10, <2>1, <2>2, <2>4, WalkStays, ZenonT(60)
  <2> QED
      BY <2>3, <2>4
<1>11. \A l : Goto(r, l) => pc'[r] = l
    BY <1>1, Zenon DEF Goto
<1> QED
    BY <1>3, <1>8, <1>9, <1>10, <1>11, ZenonT(60) DEF UmsComplistNextContext

\* A scheduler takes the completion list whole and in its order, one context at
\* a time, whatever the other threads publish, dequeue or fail to do meanwhile.
THEOREM ListsAreTakenInOrder == Spec => TakesAllInOrder
<1> DEFINE Order == \A s \in Schedulers : InOrder(s)
<1>1. IInv /\ Next => Order
    BY WorkersInOrder, SchedulersInOrder, DqcontextInOrder, NextContextInOrder, Zenon DEF Next,
       SchedulerStep
<1>2. IInv /\ [Next]_vars => [Order]_vars
    BY <1>1, Zenon
<1>3. TakesAllInOrder <=> [][Order]_vars
    BY Zenon DEF TakesAllInOrder, InOrder
<1> QED
    BY <1>2, <1>3, Inductive, PTL DEF Spec

=============================================================================
