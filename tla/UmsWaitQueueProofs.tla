------------------------- MODULE UmsWaitQueueProofs -------------------------
(***************************************************************************)
(* Why the lock, the wait queue and the loop around wait_event_interruptible *)
(* make a blocking queue, for any number of workers and schedulers, any    *)
(* number of failing copies and any number of signals.                     *)
(***************************************************************************)
EXTENDS UmsWaitQueue, SequenceTheorems, TLAPS

-----------------------------------------------------------------------------
(* The inductive invariant.                                                *)

\* The lock is held exactly between the test that found an entry and the end
\* of its removal, which has a second step for a completion list only.
Locked ==
    \A c \in Consumers :
        /\ pc[c] \in {"take", "replace"} <=> lock = c
        /\ pc[c] = "replace" => all

\* Nobody empties the queue between the test and list_first_entry.
Found ==
    \A c \in Consumers : pc[c] = "take" => queue # <<>>

\* A scheduler has something in hand from list_del until it has passed it on.
Carries ==
    \A c \in Consumers :
        got[c] # <<>> <=> pc[c] \in {"replace", "copy", "requeue"}

\* A scheduler that is marked as sleeping can be found by wake_up_all.
Enlisted ==
    \A c \in Consumers : task[c] = "interruptible" =>
        c \in waiters /\ pc[c] \in {"recheck", "sleep", "finish"}

\* The wait is given up only with a signal pending.
Noticed ==
    \A c \in Consumers : pc[c] = "recheck_intr" => c \in pending

IInv ==
    /\ TypeOK
    /\ Locked
    /\ Found
    /\ Carries
    /\ Enlisted
    /\ SleepsOnlyWhenEmpty

\* A free lock and an empty queue.
LEMMA InitIInv == Init => IInv
<1> SUFFICES ASSUME Init PROVE IInv
  OBVIOUS
<1> USE WaitQueueAssumption DEF Init, Threads
<1>1. TypeOK
  BY DEF TypeOK, ProducerPCs, ConsumerPCs
<1>2. Locked /\ Found
  BY DEF Locked, Found
<1>3. Carries /\ Enlisted /\ SleepsOnlyWhenEmpty
  BY DEF Carries, Enlisted, SleepsOnlyWhenEmpty
<1> QED
  BY <1>1, <1>2, <1>3 DEF IInv

-----------------------------------------------------------------------------
(* One lemma per action.                                                   *)

\* A step of one thread leaves the others where they are.
LEMMA GotoPC ==
    ASSUME TypeOK, NEW t \in Threads, NEW l \in ProducerPCs \cup ConsumerPCs, Goto(t, l)
    PROVE  /\ pc' \in [Threads -> ProducerPCs \cup ConsumerPCs]
           /\ pc'[t] = l
           /\ \A u \in Threads : u # t => pc'[u] = pc[u]
  BY DEF TypeOK, Goto

\* The queue grows while nobody holds the lock, and a waker is there.
LEMMA EnqueueStep ==
    ASSUME IInv, NEW p \in Producers, Enqueue(p)
    PROVE  IInv'
<1> USE WaitQueueAssumption DEF IInv, Threads
<1>1. /\ pc' \in [Threads -> ProducerPCs \cup ConsumerPCs]
      /\ pc'[p] = "wake"
      /\ \A u \in Threads : u # p => pc'[u] = pc[u]
      /\ \A c \in Consumers : pc'[c] = pc[c]
  BY GotoPC, Zenon DEF Enqueue, ProducerPCs
<1>2. /\ queue' \in Seq(Producers)
      /\ queue' # <<>>
  BY SMTT(60), Z3T(60) DEF Enqueue, TypeOK
<1>3. UNCHANGED <<all, lock, waiters, task, pending, got, faults, signals>>
  BY DEF Enqueue
<1>4. TypeOK'
  BY <1>1, <1>2, <1>3, Zenon DEF TypeOK, ProducerPCs
<1>5. Locked' /\ Found'
  BY <1>1, <1>2, <1>3 DEF Locked, Found
<1>6. Carries' /\ Enlisted'
  BY <1>1, <1>3 DEF Carries, Enlisted
<1>7. SleepsOnlyWhenEmpty'
  BY <1>1 DEF SleepsOnlyWhenEmpty, Waking
<1> QED
  BY <1>4, <1>5, <1>6, <1>7

\* Every scheduler marked as sleeping is woken.
LEMMA WakeUpAllStep ==
    ASSUME IInv, NEW t \in Threads, WakeUpAll(t)
    PROVE  IInv'
<1> USE WaitQueueAssumption DEF IInv, Threads
<1>1. PICK l \in {"idle", "queued"} : Goto(t, l) /\ (t \in Consumers => l = "idle")
  BY DEF WakeUpAll, Woke, Returns
<1>2. /\ pc' \in [Threads -> ProducerPCs \cup ConsumerPCs]
      /\ pc'[t] = l
      /\ \A u \in Threads : u # t => pc'[u] = pc[u]
  BY <1>1, GotoPC DEF ProducerPCs
<1>3. pc[t] \in {"wake", "taken"} /\ (t \in Consumers => pc[t] = "wake")
  BY Zenon DEF WakeUpAll, Waking, TypeOK, ConsumerPCs
<1>4. UNCHANGED <<all, lock, queue, got, faults, signals>>
  BY DEF WakeUpAll
<1>5. /\ task' \in [Threads -> {"running", "interruptible"}]
      /\ waiters' \subseteq waiters
      /\ pending' \subseteq pending
      /\ \A c \in Consumers : task'[c] # "interruptible"
  BY DEF WakeUpAll, Woke, Returns, TypeOK, Enlisted
<1>6. TypeOK'
  <2>1. /\ \A p \in Producers : pc'[p] \in ProducerPCs
        /\ \A c \in Consumers : pc'[c] \in ConsumerPCs
    BY <1>1, <1>2, Zenon DEF TypeOK, ProducerPCs, ConsumerPCs
  <2> QED
    BY <1>2, <1>4, <1>5, <2>1 DEF TypeOK
<1>7. Locked' /\ Found'
  BY <1>1, <1>2, <1>3, <1>4 DEF Locked, Found
<1>8. Carries' /\ Enlisted' /\ SleepsOnlyWhenEmpty'
  BY <1>1, <1>2, <1>3, <1>4, <1>5 DEF Carries, Enlisted, SleepsOnlyWhenEmpty
<1> QED
  BY <1>6, <1>7, <1>8

\* A step of a scheduler that neither locks nor touches queue and hand.
LEMMA WaitingStep ==
    ASSUME IInv, NEW c \in Consumers, NEW l \in ConsumerPCs, Goto(c, l),
           UNCHANGED <<all, lock, queue, got, faults>>,
           signals' \in 0..MaxSignals,
           pending' \subseteq Consumers,
           waiters' \subseteq Consumers,
           waiters \ {c} \subseteq waiters',
           task' \in [Threads -> {"running", "interruptible"}],
           \A u \in Threads : u # c => task'[u] = task[u],
           pc[c] \notin {"take", "replace", "copy", "requeue", "wake"},
           l \notin {"take", "replace", "copy", "requeue"},
           task'[c] = "interruptible" => c \in waiters' /\ l \in {"recheck", "sleep", "finish"},
           l = "sleep" => queue = <<>>
    PROVE  IInv'
<1> USE WaitQueueAssumption DEF IInv, Threads
<1>1. /\ pc' \in [Threads -> ProducerPCs \cup ConsumerPCs]
      /\ pc'[c] = l
      /\ \A u \in Threads : u # c => pc'[u] = pc[u]
  BY GotoPC
<1>2. TypeOK'
  <2>1. /\ \A p \in Producers : pc'[p] \in ProducerPCs
        /\ \A d \in Consumers : pc'[d] \in ConsumerPCs
    BY <1>1, Zenon DEF TypeOK
  <2> QED
    BY <1>1, <2>1 DEF TypeOK
<1>3. Locked' /\ Found'
  BY <1>1 DEF Locked, Found
<1>4. Carries' /\ Enlisted'
  BY <1>1 DEF Carries, Enlisted
<1>5. SleepsOnlyWhenEmpty'
  <2>1. \A t \in Threads : Waking(t) /\ t # c => Waking(t)'
    BY <1>1 DEF Waking
  <2>2. ~Waking(c)
    BY Zenon DEF Waking, TypeOK, ConsumerPCs
  <2> QED
    BY <1>1, <2>1, <2>2 DEF SleepsOnlyWhenEmpty
<1> QED
  BY <1>2, <1>3, <1>4, <1>5

\* The call, the unlocked tests, the wait queue and schedule().
LEMMA WaitingSteps ==
    ASSUME IInv, NEW c \in Consumers,
           \/ Dequeue(c)
           \/ WaitCondition(c)
           \/ PrepareToWait(c)
           \/ Recheck(c)
           \/ Interrupted(c)
           \/ Schedule(c)
           \/ FinishWait(c)
    PROVE  IInv'
<1> USE WaitQueueAssumption DEF Threads
<1>1. /\ task \in [Threads -> {"running", "interruptible"}]
      /\ signals \in 0..MaxSignals
      /\ pending \subseteq Consumers
      /\ waiters \subseteq Consumers
      /\ task[c] = "interruptible" =>
            c \in waiters /\ pc[c] \in {"recheck", "sleep", "finish"}
  BY DEF IInv, TypeOK, Enlisted
<1> USE DEF ConsumerPCs
<1>2. CASE Dequeue(c)
  BY <1>1, <1>2, WaitingStep DEF Dequeue
<1>3. CASE WaitCondition(c)
  <2>1. PICK l \in {"prepare", "lock"} : Goto(c, l)
    BY <1>3 DEF WaitCondition
  <2> QED
    BY <1>1, <1>3, <2>1, WaitingStep DEF WaitCondition
<1>4. CASE PrepareToWait(c)
  <2>1. CASE /\ waiters' = waiters \ {c}
             /\ Goto(c, "recheck_intr")
             /\ UNCHANGED task
    BY <1>1, <1>4, <2>1, WaitingStep DEF PrepareToWait
  <2>2. CASE /\ waiters' = waiters \cup {c}
             /\ task' = [task EXCEPT ![c] = "interruptible"]
             /\ Goto(c, "recheck")
    <3>1. /\ task' \in [Threads -> {"running", "interruptible"}]
          /\ \A u \in Threads : u # c => task'[u] = task[u]
      BY <1>1, <2>2
    <3>2. /\ waiters' \subseteq Consumers
          /\ waiters \ {c} \subseteq waiters'
          /\ c \in waiters'
      BY <1>1, <2>2
    <3>3. pc[c] = "prepare" /\ UNCHANGED <<all, lock, queue, pending, got, faults, signals>>
      BY <1>4 DEF PrepareToWait
    <3> QED
      BY <1>1, <2>2, <3>1, <3>2, <3>3, WaitingStep
  <2> QED
    BY <1>4, <2>1, <2>2 DEF PrepareToWait
<1>5. CASE Recheck(c)
  <2>1. PICK l \in {"finish", "sleep"} : Goto(c, l) /\ (l = "sleep" => queue = <<>>)
    BY <1>5 DEF Recheck
  <2> QED
    BY <1>1, <1>5, <2>1, WaitingStep DEF Recheck
<1>6. CASE Interrupted(c)
  <2>1. pending' \subseteq Consumers
    BY <1>1, <1>6 DEF Interrupted, Returns
  <2> QED
    BY <1>1, <1>6, <2>1, WaitingStep DEF Interrupted, Returns
<1>7. CASE Schedule(c)
  BY <1>1, <1>7, WaitingStep DEF Schedule
<1>8. CASE FinishWait(c)
  <2>1. /\ task' \in [Threads -> {"running", "interruptible"}]
        /\ task'[c] = "running"
        /\ \A u \in Threads : u # c => task'[u] = task[u]
    BY <1>1, <1>8 DEF FinishWait
  <2> QED
    BY <1>1, <1>8, <2>1, WaitingStep DEF FinishWait
<1> QED
  BY <1>2, <1>3, <1>4, <1>5, <1>6, <1>7, <1>8

\* The test that finds an entry keeps the lock.
LEMMA TestUnderLockStep ==
    ASSUME IInv, NEW c \in Consumers, TestUnderLock(c)
    PROVE  IInv'
<1> USE WaitQueueAssumption DEF Threads
<1>1. /\ task \in [Threads -> {"running", "interruptible"}]
      /\ signals \in 0..MaxSignals
      /\ pending \subseteq Consumers
      /\ waiters \subseteq Consumers
      /\ task[c] # "interruptible"
      /\ pc[c] = "lock"
      /\ lock = NoThread
      /\ UNCHANGED <<all, queue, waiters, task, pending, got, faults, signals>>
  BY DEF IInv, TypeOK, Enlisted, TestUnderLock
<1>2. CASE queue = <<>> /\ Goto(c, "cond") /\ UNCHANGED lock
  BY <1>1, <1>2, WaitingStep DEF ConsumerPCs
<1>3. CASE queue # <<>> /\ lock' = c /\ Goto(c, "take")
  <2> USE DEF IInv
  <2>1. /\ pc' \in [Threads -> ProducerPCs \cup ConsumerPCs]
        /\ pc'[c] = "take"
        /\ \A u \in Threads : u # c => pc'[u] = pc[u]
    BY <1>3, GotoPC, Zenon DEF ConsumerPCs
  <2>2. TypeOK'
    BY <1>1, <1>3, <2>1, Zenon DEF TypeOK, ConsumerPCs
  <2>3. Locked' /\ Found'
    BY <1>1, <1>3, <2>1 DEF Locked, Found
  <2>4. Carries' /\ Enlisted'
    BY <1>1, <2>1 DEF Carries, Enlisted
  <2>5. SleepsOnlyWhenEmpty'
    BY <1>1, <2>1 DEF SleepsOnlyWhenEmpty, Waking
  <2> QED
    BY <2>2, <2>3, <2>4, <2>5
<1> QED
  BY <1>2, <1>3 DEF TestUnderLock

\* What the thread in the critical section takes from the queue.
LEMMA FirstAndRest ==
    ASSUME NEW q \in Seq(Producers), q # <<>>
    PROVE  /\ Head(q) \in Producers
           /\ Tail(q) \in Seq(Producers)
           /\ <<Head(q)>> \in Seq(Producers)
           /\ <<Head(q)>> # <<>>
           /\ <<Head(q)>> \o Tail(q) = q
<1>1. Len(q) \in Nat /\ Len(q) > 0
  BY EmptySeq
<1>2. Head(q) \in Producers /\ Tail(q) \in Seq(Producers) /\ Head(q) = q[1]
  BY <1>1
<1>3. <<Head(q)>> \in Seq(Producers) /\ <<Head(q)>> # <<>>
  BY <1>2
<1>4. <<Head(q)>> \o Tail(q) = q
  BY <1>1, <1>2, <1>3
<1> QED
  BY <1>2, <1>3, <1>4

\* The first entry goes from the queue to the hand, in the critical section.
LEMMA TakeFirstStep ==
    ASSUME IInv, NEW c \in Consumers, TakeFirst(c)
    PROVE  IInv'
<1> USE WaitQueueAssumption DEF IInv, Threads
<1>1. /\ pc[c] = "take"
      /\ lock = c
      /\ queue # <<>>
      /\ UNCHANGED <<all, waiters, task, pending, faults, signals>>
  BY DEF TakeFirst, Locked, Found
<1>2. /\ queue' \in Seq(Producers)
      /\ got' \in [Consumers -> Seq(Producers)]
      /\ got'[c] # <<>>
      /\ \A d \in Consumers : d # c => got'[d] = got[d]
  BY <1>1, FirstAndRest DEF TakeFirst, TypeOK
<1>3. PICK l \in {"replace", "copy"} :
         /\ Goto(c, l)
         /\ lock' = IF l = "replace" THEN lock ELSE NoThread
         /\ l = "replace" => all
  BY DEF TakeFirst
<1>4. /\ pc' \in [Threads -> ProducerPCs \cup ConsumerPCs]
      /\ pc'[c] = l
      /\ \A u \in Threads : u # c => pc'[u] = pc[u]
  BY <1>3, GotoPC DEF ConsumerPCs
<1>5. TypeOK'
  <2>1. /\ \A p \in Producers : pc'[p] \in ProducerPCs
        /\ \A d \in Consumers : pc'[d] \in ConsumerPCs
    BY <1>4, Zenon DEF TypeOK, ConsumerPCs
  <2> QED
    BY <1>1, <1>2, <1>3, <1>4, <2>1 DEF TypeOK
<1>6. Locked' /\ Found'
  BY <1>1, <1>3, <1>4 DEF Locked, Found
<1>7. Carries'
  BY <1>2, <1>4, Zenon DEF Carries
<1>8. Enlisted'
  BY <1>1, <1>4 DEF Enlisted
<1>9. SleepsOnlyWhenEmpty'
  <2>1. \A t \in Threads : Waking(t) => Waking(t)'
    BY <1>1, <1>4 DEF Waking
  <2> QED
    BY <1>1, <1>4, <2>1 DEF SleepsOnlyWhenEmpty
<1> QED
  BY <1>5, <1>6, <1>7, <1>8, <1>9

\* The rest follows, and the lock is free.
LEMMA ReplaceInitStep ==
    ASSUME IInv, NEW c \in Consumers, ReplaceInit(c)
    PROVE  IInv'
<1> USE WaitQueueAssumption DEF IInv, Threads
<1>1. /\ pc[c] = "replace"
      /\ lock = c
      /\ got[c] # <<>>
      /\ queue' = <<>>
      /\ lock' = NoThread
      /\ UNCHANGED <<all, waiters, task, pending, faults, signals>>
  BY DEF ReplaceInit, Locked, Carries
<1>2. /\ queue' \in Seq(Producers)
      /\ got' \in [Consumers -> Seq(Producers)]
      /\ got'[c] # <<>>
      /\ \A d \in Consumers : d # c => got'[d] = got[d]
  <2>1. got[c] \in Seq(Producers) /\ queue \in Seq(Producers)
    BY DEF TypeOK
  <2>2. got[c] \o queue \in Seq(Producers) /\ got[c] \o queue # <<>>
    BY <1>1, <2>1
  <2> QED
    BY <1>1, <2>2 DEF ReplaceInit, TypeOK
<1>3. /\ pc' \in [Threads -> ProducerPCs \cup ConsumerPCs]
      /\ pc'[c] = "copy"
      /\ \A u \in Threads : u # c => pc'[u] = pc[u]
  BY GotoPC, Zenon DEF ConsumerPCs, ReplaceInit
<1>4. TypeOK'
  <2>1. /\ \A p \in Producers : pc'[p] \in ProducerPCs
        /\ \A d \in Consumers : pc'[d] \in ConsumerPCs
    BY <1>3, Zenon DEF TypeOK, ConsumerPCs
  <2> QED
    BY <1>1, <1>2, <1>3, <2>1 DEF TypeOK
<1>5. Locked' /\ Found'
  BY <1>1, <1>3 DEF Locked, Found
<1>6. Carries'
  BY <1>2, <1>3, Zenon DEF Carries
<1>7. Enlisted'
  BY <1>1, <1>3 DEF Enlisted
<1>8. SleepsOnlyWhenEmpty'
  BY <1>1 DEF SleepsOnlyWhenEmpty
<1> QED
  BY <1>4, <1>5, <1>6, <1>7, <1>8

\* What was dequeued is delivered; a worker that has still to call wake_up_all
\* will do so.
LEMMA CopyToUserStep ==
    ASSUME IInv, NEW c \in Consumers, CopyToUser(c)
    PROVE  IInv'
<1> USE WaitQueueAssumption DEF IInv, Threads
<1>1. /\ pc[c] = "copy"
      /\ got[c] \in Seq(Producers)
      /\ UNCHANGED <<all, lock, queue, waiters, task, signals>>
  BY DEF CopyToUser, TypeOK
<1>2. CASE /\ pending' = pending \ {c}
           /\ pc' = [t \in Threads |->
                 IF t = c THEN "idle"
                 ELSE IF \E i \in DOMAIN got[c] : got[c][i] = t
                 THEN IF Waking(t) THEN "taken" ELSE "idle"
                 ELSE pc[t]]
           /\ got' = [got EXCEPT ![c] = <<>>]
           /\ UNCHANGED faults
  <2>1. \A d \in Consumers : ~\E i \in DOMAIN got[c] : got[c][i] = d
    BY <1>1
  <2>2. /\ pc'[c] = "idle"
        /\ \A d \in Consumers : d # c => pc'[d] = pc[d]
        /\ \A p \in Producers : pc'[p] \in {pc[p], "idle", "taken"}
        /\ \A t \in Threads : Waking(t) => pc'[t] \in {"wake", "taken"}
    BY <1>1, <1>2, <2>1 DEF Waking
  <2>3. TypeOK'
    <3>1. /\ \A p \in Producers : pc'[p] \in ProducerPCs
          /\ \A d \in Consumers : pc'[d] \in ConsumerPCs
      BY <2>2, Zenon DEF TypeOK, ProducerPCs, ConsumerPCs
    <3>2. pc' \in [Threads -> ProducerPCs \cup ConsumerPCs]
      BY <1>2, <3>1
    <3>3. got' \in [Consumers -> Seq(Producers)]
      BY <1>2, EmptySeq DEF TypeOK
    <3> QED
      BY <1>1, <1>2, <3>1, <3>2, <3>3, Zenon DEF TypeOK
  <2>4. Locked' /\ Found'
    BY <1>1, <2>2 DEF Locked, Found
  <2>5. Carries'
    BY <1>1, <1>2, <2>2 DEF Carries, TypeOK
  <2>6. Enlisted'
    BY <1>1, <2>2, Zenon DEF Enlisted
  <2>7. SleepsOnlyWhenEmpty'
    <3>1. \A t \in Threads : Waking(t) => Waking(t)'
      BY <2>2 DEF Waking
    <3> QED
      BY <1>1, <2>2, <3>1, Zenon DEF SleepsOnlyWhenEmpty
  <2> QED
    BY <2>3, <2>4, <2>5, <2>6, <2>7
<1>3. CASE /\ faults < MaxFaults
           /\ faults' = faults + 1
           /\ Goto(c, "requeue")
           /\ UNCHANGED <<got, pending>>
  <2>1. /\ pc' \in [Threads -> ProducerPCs \cup ConsumerPCs]
        /\ pc'[c] = "requeue"
        /\ \A u \in Threads : u # c => pc'[u] = pc[u]
    BY <1>3, GotoPC, Zenon DEF ConsumerPCs
  <2>2. TypeOK'
    <3>1. /\ \A p \in Producers : pc'[p] \in ProducerPCs
          /\ \A d \in Consumers : pc'[d] \in ConsumerPCs
      BY <2>1, Zenon DEF TypeOK, ConsumerPCs
    <3>2. faults' \in 0..MaxFaults
      BY <1>3 DEF TypeOK
    <3> QED
      BY <1>1, <1>3, <2>1, <3>1, <3>2, Zenon DEF TypeOK
  <2>3. Locked' /\ Found'
    BY <1>1, <2>1 DEF Locked, Found
  <2>4. Carries' /\ Enlisted'
    BY <1>1, <1>3, <2>1 DEF Carries, Enlisted
  <2>5. SleepsOnlyWhenEmpty'
    BY <1>1, <2>1 DEF SleepsOnlyWhenEmpty, Waking
  <2> QED
    BY <2>2, <2>3, <2>4, <2>5
<1> QED
  BY <1>2, <1>3 DEF CopyToUser

\* The first item goes back under the lock, and its scheduler will wake.
LEMMA RequeueStep ==
    ASSUME IInv, NEW c \in Consumers, Requeue(c)
    PROVE  IInv'
<1> USE WaitQueueAssumption DEF IInv, Threads
<1>1. /\ pc[c] = "requeue"
      /\ lock = NoThread
      /\ got[c] # <<>>
      /\ got[c] \in Seq(Producers)
      /\ queue \in Seq(Producers)
      /\ UNCHANGED <<all, lock, waiters, task, pending, faults, signals>>
  BY Zenon DEF Requeue, Carries, TypeOK
<1>2. queue' \in Seq(Producers) /\ queue' # <<>>
  <2>1. <<Head(got[c])>> \in Seq(Producers) /\ <<Head(got[c])>> # <<>>
    BY <1>1, FirstAndRest
  <2>2. PICK h \in Seq(Producers) : h # <<>> /\ queue' = h \o queue
    BY <2>1, Zenon DEF Requeue
  <2> QED
    BY <1>1, <2>2
<1>3. /\ got' \in [Consumers -> Seq(Producers)]
      /\ got'[c] = <<>>
      /\ \A d \in Consumers : d # c => got'[d] = got[d]
  BY EmptySeq DEF Requeue, TypeOK
<1>4. /\ pc' \in [Threads -> ProducerPCs \cup ConsumerPCs]
      /\ pc'[c] = "wake"
      /\ \A u \in Threads : u # c => pc'[u] = pc[u]
  BY GotoPC, Zenon DEF ConsumerPCs, Requeue
<1>5. TypeOK'
  <2>1. /\ \A p \in Producers : pc'[p] \in ProducerPCs
        /\ \A d \in Consumers : pc'[d] \in ConsumerPCs
    BY <1>4, Zenon DEF TypeOK, ConsumerPCs
  <2> QED
    BY <1>1, <1>2, <1>3, <1>4, <2>1, Zenon DEF TypeOK
<1>6. Locked' /\ Found'
  BY <1>1, <1>2, <1>4 DEF Locked, Found
<1>7. Carries' /\ Enlisted'
  BY <1>1, <1>3, <1>4, Zenon DEF Carries, Enlisted
<1>8. SleepsOnlyWhenEmpty'
  BY <1>4 DEF SleepsOnlyWhenEmpty, Waking
<1> QED
  BY <1>5, <1>6, <1>7, <1>8

\* A signal makes a sleeping scheduler run; it stays in the wait queue.
LEMMA SignalStep ==
    ASSUME IInv, NEW c \in Consumers, Signal(c)
    PROVE  IInv'
<1> USE WaitQueueAssumption DEF IInv, Threads
<1>1. /\ task' \in [Threads -> {"running", "interruptible"}]
      /\ \A u \in Threads : u # c => task'[u] = task[u]
      /\ task'[c] = "running"
      /\ pending' \subseteq Consumers
      /\ signals' \in 0..MaxSignals
      /\ UNCHANGED <<pc, all, lock, queue, waiters, got, faults>>
  BY DEF Signal, TypeOK
<1>2. TypeOK'
  BY <1>1 DEF TypeOK
<1>3. Locked' /\ Found' /\ Carries' /\ Enlisted'
  BY <1>1 DEF Locked, Found, Carries, Enlisted
<1>4. SleepsOnlyWhenEmpty'
  BY <1>1 DEF SleepsOnlyWhenEmpty, Waking
<1> QED
  BY <1>2, <1>3, <1>4

\* Every step of the workers and schedulers keeps the invariant.
LEMMA NextIInv ==
    ASSUME IInv, [Next]_vars
    PROVE  IInv'
<1>1. ASSUME NEW p \in Producers, Enqueue(p) \/ WakeUpAll(p)
      PROVE  IInv'
  BY <1>1, EnqueueStep, WakeUpAllStep DEF Threads
<1>2. ASSUME NEW c \in Consumers, Dequeue(c) \/ Continues(c)
      PROVE  IInv'
  BY <1>2, WaitingSteps, TestUnderLockStep, TakeFirstStep, ReplaceInitStep,
     CopyToUserStep, RequeueStep, WakeUpAllStep DEF Continues, Threads
<1>3. ASSUME NEW c \in Consumers, Signal(c)
      PROVE  IInv'
  BY <1>3, SignalStep
<1>4. CASE UNCHANGED vars
  <2> USE <1>4 DEF vars, IInv
  <2>1. TypeOK' /\ Locked' /\ Found'
    BY DEF TypeOK, Locked, Found
  <2>2. Carries' /\ Enlisted' /\ SleepsOnlyWhenEmpty'
    BY DEF Carries, Enlisted, SleepsOnlyWhenEmpty, Waking
  <2> QED
    BY <2>1, <2>2
<1> QED
  BY <1>1, <1>2, <1>3, <1>4 DEF Next

\* A signal stays pending until its thread is back in user mode.
LEMMA NextNoticed ==
    ASSUME IInv, Noticed, [Next]_vars
    PROVE  Noticed'
<1> USE WaitQueueAssumption DEF Noticed, Threads
<1>1. ASSUME NEW t \in Threads, NEW l \in ProducerPCs \cup ConsumerPCs, Goto(t, l),
             l # "recheck_intr", pending \ {t} \subseteq pending'
      PROVE  Noticed'
  BY <1>1, GotoPC DEF IInv
<1>2. ASSUME NEW p \in Producers, Enqueue(p)
      PROVE  Noticed'
  BY <1>1, <1>2 DEF Enqueue, ProducerPCs
<1>3. ASSUME NEW t \in Threads, WakeUpAll(t)
      PROVE  Noticed'
  <2>1. PICK l \in {"idle", "queued"} : Goto(t, l)
    BY <1>3 DEF WakeUpAll, Woke, Returns
  <2>2. pending \ {t} \subseteq pending'
    BY <1>3 DEF WakeUpAll, Woke, Returns
  <2> QED
    BY <1>1, <2>1, <2>2 DEF ProducerPCs
<1>4. ASSUME NEW c \in Consumers, PrepareToWait(c)
      PROVE  Noticed'
  <2>1. CASE c \in pending
    <3>1. PICK l \in {"recheck", "recheck_intr"} : Goto(c, l)
      BY <1>4 DEF PrepareToWait
    <3>2. \A d \in Consumers : d # c => pc'[d] = pc[d]
      BY <3>1, GotoPC DEF ConsumerPCs, IInv
    <3> QED
      BY <1>4, <2>1, <3>2 DEF PrepareToWait
  <2>2. CASE c \notin pending
    BY <1>1, <1>4, <2>2 DEF PrepareToWait, ConsumerPCs
  <2> QED
    BY <2>1, <2>2
<1>5. ASSUME NEW c \in Consumers,
             \/ Dequeue(c) \/ TestUnderLock(c) \/ WaitCondition(c) \/ Recheck(c)
             \/ Interrupted(c) \/ Schedule(c) \/ FinishWait(c) \/ TakeFirst(c)
             \/ ReplaceInit(c) \/ Requeue(c)
      PROVE  Noticed'
  <2>1. PICK l \in ConsumerPCs \ {"recheck_intr"} : Goto(c, l)
    BY <1>5, Zenon DEF Dequeue, TestUnderLock, WaitCondition, Recheck, Interrupted,
       Schedule, FinishWait, TakeFirst, ReplaceInit, Requeue, Returns, ConsumerPCs
  <2>2. pending' = pending \/ pending' = pending \ {c}
    BY <1>5, Zenon DEF Dequeue, TestUnderLock, WaitCondition, Recheck, Interrupted,
       Schedule, FinishWait, TakeFirst, ReplaceInit, Requeue, Returns
  <2> QED
    BY <1>1, <2>1, <2>2
<1>6. ASSUME NEW c \in Consumers, CopyToUser(c)
      PROVE  Noticed'
  <2>1. pending \ {c} \subseteq pending'
    BY <1>6 DEF CopyToUser
  <2>2. \A d \in Consumers : pc'[d] = "recheck_intr" => d # c /\ pc[d] = "recheck_intr"
    <3>1. CASE Goto(c, "requeue")
      BY <3>1, GotoPC DEF IInv, ConsumerPCs
    <3>2. CASE pc' = [t \in Threads |->
                   IF t = c THEN "idle"
                   ELSE IF \E i \in DOMAIN got[c] : got[c][i] = t
                   THEN IF Waking(t) THEN "taken" ELSE "idle"
                   ELSE pc[t]]
      BY <3>2, Zenon
    <3> QED
      BY <1>6, <3>1, <3>2, Zenon DEF CopyToUser
  <2> QED
    BY <2>1, <2>2
<1>7. ASSUME NEW c \in Consumers, Signal(c)
      PROVE  Noticed'
  BY <1>7 DEF Signal
<1>8. CASE UNCHANGED vars
  BY <1>8 DEF vars
<1> QED
  BY <1>2, <1>3, <1>4, <1>5, <1>6, <1>7, <1>8 DEF Next, Continues

-----------------------------------------------------------------------------
(* The theorems.                                                           *)

\* The strengthened invariant holds in every state of the two queues.
THEOREM Inductive == Spec => [](IInv /\ Noticed)
<1>1. Init => IInv /\ Noticed
  BY InitIInv DEF Init, Noticed, Threads
<1>2. IInv /\ Noticed /\ [Next]_vars => IInv' /\ Noticed'
  BY NextIInv, NextNoticed
<1> QED
  BY <1>1, <1>2, PTL DEF Spec

\* The queues hold workers only, and the lock is held by a scheduler or free.
THEOREM TypeCorrect == Spec => []TypeOK
<1>1. IInv => TypeOK
  BY DEF IInv
<1> QED
  BY Inductive, <1>1, PTL

\* list_first_entry of do_dequeue_ums_sched_event and of
\* do_dequeue_ums_complist_context is never applied to an empty list, however
\* many schedulers wake for one item.
THEOREM FirstEntryExists == Spec => []TakesFromNonEmpty
<1>1. IInv => TakesFromNonEmpty
  BY DEF IInv, Locked, Found, TakesFromNonEmpty
<1> QED
  BY Inductive, <1>1, PTL

\* No wake-up is lost between the unlocked test of wait_event_interruptible and
\* schedule().
THEOREM NoMissedItem == Spec => []SleepsOnlyWhenEmpty
<1>1. IInv => SleepsOnlyWhenEmpty
  BY DEF IInv
<1> QED
  BY Inductive, <1>1, PTL

-----------------------------------------------------------------------------
(* The two queues implement the safety part of BlockingQueue: every step   *)
(* is a step of it, or changes nothing its callers see.                    *)

\* What the callers see in a state and in the next one, with and without a
\* completion list half taken away.
LEMMA SeenQueue ==
    ASSUME IInv
    PROVE  /\ (\A c \in Consumers : pc[c] # "replace") => QueueSeen = queue
           /\ \A c \in Consumers : pc[c] = "replace" => QueueSeen = got[c] \o queue
<1>1. \A c, d \in Consumers : pc[c] = "replace" /\ pc[d] = "replace" => c = d
  BY DEF IInv, Locked
<1>2. ASSUME NEW c \in Consumers, pc[c] = "replace"
      PROVE  (CHOOSE d \in Consumers : pc[d] = "replace") = c
  BY <1>1, <1>2
<1> QED
  BY <1>2, Zenon DEF QueueSeen

\* The same of the next state.
LEMMA SeenQueueNext ==
    ASSUME IInv'
    PROVE  /\ (\A c \in Consumers : pc'[c] # "replace") => QueueSeen' = queue'
           /\ \A c \in Consumers : pc'[c] = "replace" => QueueSeen' = got'[c] \o queue'
<1>1. \A c, d \in Consumers : pc'[c] = "replace" /\ pc'[d] = "replace" => c = d
  BY DEF IInv, Locked
<1>2. ASSUME NEW c \in Consumers, pc'[c] = "replace"
      PROVE  (CHOOSE d \in Consumers : pc'[d] = "replace") = c
  BY <1>1, <1>2
<1> QED
  BY <1>2, Zenon DEF QueueSeen

\* Both depend on the queue, the hands and who holds half a list.
LEMMA SeenQueueSame ==
    ASSUME IInv, IInv',
           UNCHANGED <<queue, got>>,
           \A c \in Consumers : pc'[c] = "replace" <=> pc[c] = "replace"
    PROVE  QueueSeen' = QueueSeen
<1>1. CASE \E c \in Consumers : pc[c] = "replace"
  BY <1>1, SeenQueue, SeenQueueNext, Zenon
<1>2. CASE \A c \in Consumers : pc[c] # "replace"
  BY <1>2, SeenQueue, SeenQueueNext
<1> QED
  BY <1>1, <1>2

\* A step that changes queue and hands for nobody and lets no call begin or end.
LEMMA UnseenStep ==
    ASSUME IInv, IInv',
           UNCHANGED <<all, queue, pending, got>>,
           \A c \in Consumers : pc'[c] = "replace" <=> pc[c] = "replace",
           \A c \in Consumers : c \in CallsSeen' <=> c \in CallsSeen
    PROVE  UNCHANGED Promise!vars
<1>1. GotSeen' = GotSeen
  BY DEF GotSeen
<1>2. CallsSeen' = CallsSeen
  BY DEF CallsSeen
<1>3. QueueSeen' = QueueSeen
  BY SeenQueueSame
<1> QED
  BY <1>1, <1>2, <1>3 DEF Promise!vars

\* A scheduler step that is no step of the abstract queue.
LEMMA UnseenCall ==
    ASSUME IInv, IInv', NEW c \in Consumers,
           NEW l \in ConsumerPCs, Goto(c, l),
           UNCHANGED <<all, queue, pending, got>>,
           pc[c] # "replace",
           l # "replace",
           l \in {"idle", "copy", "requeue", "wake"} <=>
              pc[c] \in {"idle", "copy", "requeue", "wake"}
    PROVE  UNCHANGED Promise!vars
<1>1. /\ pc'[c] = l
      /\ \A u \in Threads : u # c => pc'[u] = pc[u]
  BY GotoPC DEF IInv, Threads
<1>2. \A d \in Consumers : pc'[d] = "replace" <=> pc[d] = "replace"
  BY <1>1 DEF Threads
<1>3. \A d \in Consumers : d \in CallsSeen' <=> d \in CallsSeen
  BY <1>1 DEF Threads, CallsSeen
<1> QED
  BY <1>2, <1>3, UnseenStep

\* Nobody is in the middle of taking a list away while the lock is free.
LEMMA FreeLock ==
    ASSUME IInv, lock = NoThread
    PROVE  (\A c \in Consumers : pc[c] \notin {"take", "replace"}) /\ QueueSeen = queue
<1>1. \A c \in Consumers : pc[c] \notin {"take", "replace"}
  BY WaitQueueAssumption DEF IInv, Locked, Threads
<1> QED
  BY <1>1, SeenQueue

\* The same of the next state.
LEMMA FreeLockNext ==
    ASSUME IInv', lock' = NoThread
    PROVE  (\A c \in Consumers : pc'[c] \notin {"take", "replace"}) /\ QueueSeen' = queue'
<1>1. \A c \in Consumers : pc'[c] \notin {"take", "replace"}
  BY WaitQueueAssumption DEF IInv, Locked, Threads
<1> QED
  BY <1>1, SeenQueueNext

\* enqueue_ums_sched_event and ums_completion_list_add put an item.
LEMMA EnqueuePuts ==
    ASSUME IInv, IInv', NEW p \in Producers, Enqueue(p)
    PROVE  Promise!Put(p)
<1> USE WaitQueueAssumption DEF Threads
<1>1. \A c \in Consumers : pc'[c] = pc[c]
  BY GotoPC DEF Enqueue, ProducerPCs, IInv
<1>2. QueueSeen = queue /\ QueueSeen' = Append(queue, p)
  BY FreeLock, FreeLockNext DEF Enqueue
<1>3. CallsSeen' = CallsSeen
  BY <1>1 DEF CallsSeen
<1>4. GotSeen' = GotSeen
  BY <1>1 DEF GotSeen, Enqueue
<1> QED
  BY <1>2, <1>3, <1>4 DEF Promise!Put, Enqueue

\* wake_up_all is not seen by the callers, up to the signal that a scheduler
\* handles when it returns after it.
LEMMA WakeUpAllUnseen ==
    ASSUME IInv, IInv', NEW t \in Threads, WakeUpAll(t)
    PROVE  UNCHANGED Promise!vars \/ (t \in Consumers /\ Promise!Handle(t))
<1> USE WaitQueueAssumption DEF Threads
<1>1. PICK l \in {"idle", "queued"} : Goto(t, l) /\ (t \in Consumers => l = "idle")
  BY DEF WakeUpAll, Woke, Returns
<1>2. \A u \in Threads : u # t => pc'[u] = pc[u]
  BY <1>1, GotoPC DEF ProducerPCs, IInv
<1>3. t \in Consumers => pc[t] = "wake" /\ pc'[t] = "idle"
  BY <1>1, GotoPC, Zenon DEF ProducerPCs, IInv, WakeUpAll, Waking, TypeOK, ConsumerPCs
<1>4. \A d \in Consumers : pc'[d] = "replace" <=> pc[d] = "replace"
  BY <1>2, <1>3
<1>5. \A d \in Consumers : d \in CallsSeen' <=> d \in CallsSeen
  BY <1>2, <1>3 DEF CallsSeen
<1>6. UNCHANGED <<all, queue, got>>
  BY DEF WakeUpAll
<1>7. CASE t \in Producers
  <2>1. pending' = pending
    BY <1>7 DEF WakeUpAll, Woke
  <2> QED
    BY <1>4, <1>5, <1>6, <2>1, UnseenStep
<1>8. CASE t \in Consumers
  <2>1. pending' = pending \ {t}
    BY <1>8 DEF WakeUpAll, Woke, Returns
  <2>2. t \notin CallsSeen /\ CallsSeen' = CallsSeen
    BY <1>3, <1>5, <1>8 DEF CallsSeen
  <2>3. GotSeen[t] = <<>> /\ GotSeen' = GotSeen
    BY <1>3, <1>4, <1>6, <1>8 DEF GotSeen, IInv, Carries
  <2>4. QueueSeen' = QueueSeen
    BY <1>4, <1>6, SeenQueueSame
  <2> QED
    BY <1>6, <1>8, <2>1, <2>2, <2>3, <2>4 DEF Promise!Handle
<1> QED
  BY <1>7, <1>8

\* A call begins with empty hands.
LEMMA DequeueCalls ==
    ASSUME IInv, IInv', NEW c \in Consumers, Dequeue(c)
    PROVE  Promise!Call(c)
<1> USE WaitQueueAssumption DEF Threads
<1>1. /\ pc[c] = "idle"
      /\ pc'[c] = "lock"
      /\ \A d \in Consumers : d # c => pc'[d] = pc[d]
      /\ UNCHANGED <<all, queue, pending, got>>
  BY GotoPC DEF Dequeue, ConsumerPCs, IInv
<1>2. c \notin CallsSeen /\ CallsSeen' = CallsSeen \cup {c}
  BY <1>1 DEF CallsSeen
<1>3. GotSeen' = GotSeen /\ GotSeen[c] = <<>>
  BY <1>1 DEF GotSeen, IInv, Carries
<1>4. QueueSeen' = QueueSeen
  BY <1>1, SeenQueueSame
<1> QED
  BY <1>1, <1>2, <1>3, <1>4, SMTT(60), Z3T(60) DEF Promise!Call

\* The call that ends with -ERESTARTSYS leaves, for the signal it has noticed.
LEMMA InterruptedLeaves ==
    ASSUME IInv, IInv', Noticed, NEW c \in Consumers, Interrupted(c)
    PROVE  Promise!Leave(c)
<1> USE WaitQueueAssumption DEF Threads
<1>1. /\ pc[c] = "recheck_intr"
      /\ pc'[c] = "idle"
      /\ \A d \in Consumers : d # c => pc'[d] = pc[d]
      /\ UNCHANGED <<all, queue, got>>
      /\ c \in pending
      /\ pending' = pending \ {c}
  BY GotoPC DEF Interrupted, Returns, ConsumerPCs, IInv, Noticed
<1>2. c \in CallsSeen /\ CallsSeen' = CallsSeen \ {c}
  BY <1>1 DEF CallsSeen
<1>3. GotSeen' = GotSeen
  BY <1>1 DEF GotSeen
<1>4. QueueSeen' = QueueSeen
  BY <1>1, SeenQueueSame
<1> QED
  BY <1>1, <1>2, <1>3, <1>4, SMTT(60), Z3T(60) DEF Promise!Leave

\* For an event queue list_del takes; for a completion list nothing is seen yet.
LEMMA TakeFirstTakes ==
    ASSUME IInv, IInv', NEW c \in Consumers, TakeFirst(c)
    PROVE  Promise!Take(c) \/ UNCHANGED Promise!vars
<1> USE WaitQueueAssumption DEF Threads
<1>1. /\ pc[c] = "take"
      /\ lock = c
      /\ queue \in Seq(Producers)
      /\ queue # <<>>
      /\ queue' = Tail(queue)
      /\ UNCHANGED <<all, pending>>
      /\ got \in [Consumers -> Seq(Producers)]
      /\ got[c] = <<>>
      /\ \A d \in Consumers : d # c => pc[d] # "replace"
  BY Zenon DEF IInv, TakeFirst, Locked, Found, TypeOK, Carries
<1>2. QueueSeen = queue
  BY <1>1, SeenQueue
<1>3. CASE all /\ Goto(c, "replace")
  <2>1. /\ pc'[c] = "replace"
        /\ \A d \in Consumers : d # c => pc'[d] = pc[d]
    BY <1>3, GotoPC DEF ConsumerPCs, IInv
  <2>2. QueueSeen' = queue
    <3>1. got'[c] = <<Head(queue)>>
      BY <1>1 DEF TakeFirst
    <3>2. QueueSeen' = <<Head(queue)>> \o Tail(queue)
      BY <1>1, <2>1, <3>1, SeenQueueNext, Zenon
    <3> QED
      BY <1>1, <3>2, FirstAndRest
  <2>3. CallsSeen' = CallsSeen
    BY <1>1, <2>1, Zenon DEF CallsSeen
  <2>4. GotSeen' = GotSeen
    BY <1>1, <2>1, Zenon DEF GotSeen, TakeFirst
  <2> QED
    BY <1>1, <1>2, <2>2, <2>3, <2>4 DEF Promise!vars
<1>4. CASE ~all /\ Goto(c, "copy") /\ lock' = NoThread
  <2>1. /\ pc'[c] = "copy"
        /\ \A d \in Consumers : d # c => pc'[d] = pc[d]
    BY <1>4, GotoPC DEF ConsumerPCs, IInv
  <2>2. QueueSeen' = Tail(queue)
    BY <1>1, <1>4, FreeLockNext
  <2>3. c \in CallsSeen /\ CallsSeen' = CallsSeen \ {c}
    BY <1>1, <2>1, Zenon DEF CallsSeen
  <2>4. GotSeen' = [GotSeen EXCEPT ![c] = <<Head(queue)>>]
    BY <1>1, <2>1, Zenon DEF GotSeen, TakeFirst
  <2> QED
    BY <1>1, <1>2, <1>4, <2>2, <2>3, <2>4 DEF Promise!Take
<1> QED
  BY <1>3, <1>4 DEF TakeFirst

\* list_replace_init ends the taking of a completion list.
LEMMA ReplaceInitTakes ==
    ASSUME IInv, IInv', NEW c \in Consumers, ReplaceInit(c)
    PROVE  Promise!Take(c)
<1> USE WaitQueueAssumption DEF Threads
<1>1. /\ pc[c] = "replace"
      /\ pc'[c] = "copy"
      /\ \A d \in Consumers : d # c => pc'[d] = pc[d] /\ pc[d] # "replace"
      /\ got[c] # <<>>
      /\ got \in [Consumers -> Seq(Producers)]
      /\ queue \in Seq(Producers)
      /\ got' = [got EXCEPT ![c] = got[c] \o queue]
      /\ queue' = <<>>
      /\ UNCHANGED <<all, pending>>
      /\ all
  BY GotoPC, SMTT(60), Z3T(60) DEF IInv, ReplaceInit, Locked, TypeOK, Carries, ConsumerPCs
<1>2. QueueSeen = got[c] \o queue /\ got[c] \o queue # <<>>
  BY <1>1, SeenQueue
<1>3. QueueSeen' = <<>>
  BY <1>1, FreeLockNext, Zenon DEF ReplaceInit
<1>4. c \in CallsSeen /\ CallsSeen' = CallsSeen \ {c}
  BY <1>1 DEF CallsSeen
<1>5. GotSeen' = [GotSeen EXCEPT ![c] = got[c] \o queue]
  BY <1>1, Zenon DEF GotSeen
<1> QED
  BY <1>1, <1>2, <1>3, <1>4, <1>5, SMTT(60), Z3T(60) DEF Promise!Take

\* A copy that succeeds hands over what was taken; one that fails is not seen.
LEMMA CopyToUserUses ==
    ASSUME IInv, IInv', NEW c \in Consumers, CopyToUser(c)
    PROVE  Promise!Use(c) \/ UNCHANGED Promise!vars
<1> USE WaitQueueAssumption DEF Threads
<1>1. /\ pc[c] = "copy"
      /\ got \in [Consumers -> Seq(Producers)]
      /\ got[c] # <<>>
      /\ UNCHANGED <<all, lock, queue>>
  BY Zenon DEF IInv, CopyToUser, TypeOK, Carries
<1>2. CASE /\ pending' = pending \ {c}
           /\ pc' = [t \in Threads |->
                 IF t = c THEN "idle"
                 ELSE IF \E i \in DOMAIN got[c] : got[c][i] = t
                 THEN IF Waking(t) THEN "taken" ELSE "idle"
                 ELSE pc[t]]
           /\ got' = [got EXCEPT ![c] = <<>>]
  <2>1. \A d \in Consumers : ~\E i \in DOMAIN got[c] : got[c][i] = d
    BY <1>1
  <2>2. pc'[c] = "idle" /\ \A d \in Consumers : d # c => pc'[d] = pc[d]
    BY <1>2, <2>1
  <2>3. GotSeen[c] # <<>> /\ GotSeen' = [GotSeen EXCEPT ![c] = <<>>]
    <3>1. got' = [got EXCEPT ![c] = <<>>]
      BY <1>2
    <3>2. pc'[c] # "replace" /\ pc[c] # "replace"
      BY <1>1, <2>2
    <3> QED
      BY <1>1, <2>2, <3>1, <3>2, Zenon DEF GotSeen
  <2>4. CallsSeen' = CallsSeen
    BY <1>1, <2>2 DEF CallsSeen
  <2>5. QueueSeen' = QueueSeen
    <3>1. CASE \E d \in Consumers : pc[d] = "replace"
      <4>1. PICK d \in Consumers : pc[d] = "replace"
        BY <3>1
      <4>2. d # c /\ pc'[d] = "replace" /\ got'[d] = got[d]
        BY <1>1, <1>2, <2>2, <4>1
      <4>3. QueueSeen = got[d] \o queue
        BY <4>1, SeenQueue
      <4>4. QueueSeen' = got'[d] \o queue'
        BY <4>2, SeenQueueNext, Zenon
      <4> QED
        BY <1>1, <4>2, <4>3, <4>4
    <3>2. CASE \A d \in Consumers : pc[d] # "replace"
      <4>1. \A d \in Consumers : pc'[d] # "replace"
        BY <2>2, <3>2
      <4> QED
        BY <1>1, <3>2, <4>1, SeenQueue, SeenQueueNext
    <3> QED
      BY <3>1, <3>2
  <2> QED
    BY <1>1, <1>2, <2>3, <2>4, <2>5 DEF Promise!Use
<1>3. CASE Goto(c, "requeue") /\ UNCHANGED <<got, pending>>
  BY <1>1, <1>3, UnseenCall DEF ConsumerPCs
<1> QED
  BY <1>2, <1>3, Zenon DEF CopyToUser

\* EVENT_ADD_HEAD and COMPLIST_ADD_HEAD put the first item back.
LEMMA RequeuePutsBack ==
    ASSUME IInv, IInv', NEW c \in Consumers, Requeue(c)
    PROVE  Promise!PutBack(c)
<1> USE WaitQueueAssumption DEF Threads
<1>1. /\ pc[c] = "requeue"
      /\ got \in [Consumers -> Seq(Producers)]
      /\ got[c] # <<>>
      /\ pc'[c] = "wake"
      /\ \A d \in Consumers : d # c => pc'[d] = pc[d]
      /\ queue' = <<Head(got[c])>> \o queue
      /\ got' = [got EXCEPT ![c] = <<>>]
      /\ UNCHANGED <<all, lock, pending>>
      /\ lock = NoThread
  BY GotoPC DEF IInv, Requeue, TypeOK, Carries, ConsumerPCs
<1>2. GotSeen[c] = got[c] /\ GotSeen' = [GotSeen EXCEPT ![c] = <<>>]
  BY <1>1, Zenon DEF GotSeen
<1>3. CallsSeen' = CallsSeen
  BY <1>1, Zenon DEF CallsSeen
<1>4. QueueSeen = queue /\ QueueSeen' = queue'
  BY <1>1, FreeLock, FreeLockNext, Zenon
<1> QED
  BY <1>1, <1>2, <1>3, <1>4, SMTT(60), Z3T(60) DEF Promise!PutBack

\* Every step is a step of the abstract queue or not seen by its callers.
LEMMA StepRefines ==
    ASSUME IInv, IInv', Noticed, [Next]_vars
    PROVE  [Promise!Next]_(Promise!vars)
<1>1. ASSUME NEW p \in Producers, Enqueue(p) \/ WakeUpAll(p)
      PROVE  [Promise!Next]_(Promise!vars)
  BY <1>1, EnqueuePuts, WakeUpAllUnseen DEF Promise!Next, Threads
<1>2. ASSUME NEW c \in Consumers,
             \/ TestUnderLock(c)
             \/ WaitCondition(c)
             \/ PrepareToWait(c)
             \/ Recheck(c)
             \/ Schedule(c)
             \/ FinishWait(c)
      PROVE  UNCHANGED Promise!vars
  <2>1. PICK l \in {"take", "cond", "prepare", "lock", "recheck", "recheck_intr",
                    "finish", "sleep"} : Goto(c, l)
    BY <1>2, Zenon DEF TestUnderLock, WaitCondition, PrepareToWait, Recheck, Schedule, FinishWait
  <2>2. pc[c] \in {"lock", "cond", "prepare", "recheck", "recheck_intr", "sleep", "finish"}
    BY <1>2, Zenon DEF TestUnderLock, WaitCondition, PrepareToWait, Recheck, Schedule, FinishWait
  <2>3. UNCHANGED <<all, queue, pending, got>>
    BY <1>2, Zenon DEF TestUnderLock, WaitCondition, PrepareToWait, Recheck, Schedule, FinishWait
  <2> QED
    BY <2>1, <2>2, <2>3, UnseenCall DEF ConsumerPCs
<1>3. ASSUME NEW c \in Consumers, Dequeue(c) \/ Continues(c)
      PROVE  [Promise!Next]_(Promise!vars)
  <2>1. CASE Dequeue(c) \/ Interrupted(c) \/ Requeue(c) \/ ReplaceInit(c)
    BY <2>1, DequeueCalls, InterruptedLeaves, RequeuePutsBack, ReplaceInitTakes, Zenon DEF
       Promise!Next
  <2>2. CASE TakeFirst(c) \/ CopyToUser(c) \/ WakeUpAll(c)
    BY <2>2, TakeFirstTakes, CopyToUserUses, WakeUpAllUnseen DEF Promise!Next, Threads
  <2> QED
    BY <1>2, <1>3, <2>1, <2>2, Zenon DEF Continues
<1>4. ASSUME NEW c \in Consumers, Signal(c)
      PROVE  [Promise!Next]_(Promise!vars)
  <2>1. UNCHANGED <<pc, all, queue, got>> /\ pending' = pending \cup {c}
    BY <1>4 DEF Signal
  <2>2. CallsSeen' = CallsSeen /\ GotSeen' = GotSeen
    BY <2>1 DEF CallsSeen, GotSeen
  <2>3. QueueSeen' = QueueSeen
    BY <2>1, SeenQueueSame
  <2>4. Promise!Signal(c)
    BY <2>1, <2>2, <2>3 DEF Promise!Signal
  <2> QED
    BY <2>4 DEF Promise!Next
<1>5. CASE UNCHANGED vars
  BY <1>5, UnseenStep DEF vars, CallsSeen
<1> QED
  BY <1>1, <1>3, <1>4, <1>5 DEF Next

\* The event queue of a scheduler and a completion list are queues from which
\* every item is taken once and in order, from which a call returns
\* empty-handed only because of a signal, and to which a failed copy gives back
\* the first item alone: the safety part of ImplementsBlockingQueue.
THEOREM BlockingQueueSafety == Spec => Promise!Safety
<1>1. Init => Promise!Init
  <2> SUFFICES ASSUME Init PROVE Promise!Init
    OBVIOUS
  <2>1. \A c \in Consumers : pc[c] = "idle"
    BY DEF Init, Threads
  <2>2. QueueSeen = <<>>
    BY <2>1 DEF Init, QueueSeen
  <2>3. CallsSeen = {}
    BY <2>1 DEF CallsSeen
  <2>4. GotSeen = [c \in Consumers |-> <<>>]
    BY <2>1 DEF GotSeen, Init
  <2> QED
    BY <2>2, <2>3, <2>4 DEF Promise!Init, Init
<1>2. IInv /\ Noticed /\ IInv' /\ [Next]_vars => [Promise!Next]_(Promise!vars)
  BY StepRefines
<1> QED
  BY <1>1, <1>2, Inductive, PTL DEF Spec, Promise!Safety
=============================================================================
