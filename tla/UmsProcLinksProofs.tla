------------------------- MODULE UmsProcLinksProofs -------------------------
(***************************************************************************)
(* What the folders of UmsProcLinks show, for any sets of schedulers and   *)
(* workers and any number of names, failures and signals.  Each step is    *)
(* one of UmsDispatch, so that the invariants proved there hold.           *)
(***************************************************************************)
EXTENDS UmsFolderProofs, UmsDispatchProofs

\* The inductive invariant.
LinksInv ==
    /\ IInv
    /\ Kept
    /\ LinksTypeOK
    /\ Shown

-----------------------------------------------------------------------------
(* What the steps of UmsDispatch do to the workers a scheduler owns.       *)

\* No worker is owned by two.
LEMMA OwnedOnce ==
    ASSUME IInv, NEW r \in Schedulers, NEW s \in Schedulers, r # s
    PROVE  \A w \in Owned(r) : w \notin Owned(s) /\ ~Linked(w, CompList) /\ Parked(w)
<1>1. /\ \A h \in Schedulers :
            /\ h \in Heads /\ h # CompList
            /\ pc[h] = "collect" =>
                  ctx[h] \in Heads /\ ctx[h] # CompList /\ ctx[h] \notin Schedulers
      /\ pc[r] = "collect" /\ pc[s] = "collect" => ctx[r] # ctx[s]
  <2>1. \A h \in Schedulers : h \in Heads /\ h # CompList
      BY ThreadsAssumption DEF Heads, Threads
  <2>2. \A h \in Workers : h # CompList /\ h \notin Schedulers
      BY ThreadsAssumption DEF Threads
  <2>3. \A h \in Schedulers : pc[h] = "collect" => ctx[h] \in Workers /\ ctx[h] \in Heads
      BY Walkers, Zenon
  <2>4. pc[r] = "collect" /\ pc[s] = "collect" => ctx[r] # ctx[s]
      BY <2>1, Walkers, Zenon
  <2> QED
      BY <2>1, <2>2, <2>3, <2>4, Zenon
<1>2. \A w \in Workers : \A h, g \in Heads : Linked(w, h) /\ Linked(w, g) => h = g
    BY DEF IInv, LinkedOnce, Linked
<1>3. /\ \A w \in Workers, h \in Heads : Linked(w, h) => Parked(w)
      /\ \A h \in Schedulers : pc[h] = "switch" =>
            Parked(ctx[h]) /\ \A g \in Heads : ~Linked(ctx[h], g)
      /\ pc[r] = "switch" /\ pc[s] = "switch" => ctx[r] # ctx[s]
    BY Zenon DEF IInv, RunsOnlyParked, Holding
<1>4. CompList \in Heads
    BY DEF Heads
<1> TAKE w \in Owned(r)
<1>6. \/ \E h \in Heads : /\ Linked(w, h) /\ h # CompList
                          /\ h = r \/ (pc[r] = "collect" /\ h = ctx[r])
      \/ pc[r] = "switch" /\ w = ctx[r]
  <2>1. \/ Linked(w, r)
        \/ pc[r] = "collect" /\ Linked(w, ctx[r])
        \/ pc[r] = "switch" /\ w = ctx[r]
      BY Zenon DEF Owned
  <2> QED
      BY <1>1, <2>1, Zenon
<1>7. ~Linked(w, CompList) /\ Parked(w)
  <2>1. w \in Workers
      BY Zenon DEF Owned
  <2> QED
      BY <1>2, <1>3, <1>4, <1>6, <2>1, Zenon
<1>8. ASSUME w \in Owned(s) PROVE FALSE
  <2>1. \/ \E g \in Heads : /\ Linked(w, g)
                            /\ g = s \/ (pc[s] = "collect" /\ g = ctx[s])
        \/ pc[s] = "switch" /\ w = ctx[s]
    <3>1. \/ Linked(w, s)
          \/ pc[s] = "collect" /\ Linked(w, ctx[s])
          \/ pc[s] = "switch" /\ w = ctx[s]
        BY <1>8, Zenon DEF Owned
    <3> QED
        BY <1>1, <3>1, Zenon
  <2>2. CASE pc[r] = "switch" /\ w = ctx[r]
      BY <1>3, <2>1, <2>2, Zenon
  <2>3. CASE pc[s] = "switch" /\ w = ctx[s]
      BY <1>3, <1>6, <2>3, Zenon
  <2>4. ASSUME NEW h \in Heads, Linked(w, h), h = r \/ (pc[r] = "collect" /\ h = ctx[r]),
               NEW g \in Heads, Linked(w, g), g = s \/ (pc[s] = "collect" /\ g = ctx[s])
        PROVE  FALSE
    <3>1. h = g /\ w \in Workers
        BY <1>2, <2>4, Zenon DEF Owned
    <3> QED
        BY <1>1, <2>4, <3>1, Zenon
  <2> QED
      BY <1>6, <2>1, <2>2, <2>3, <2>4, Zenon
<1> QED
    BY <1>7, <1>8, Zenon

\* The steps that leave the lists alone.
LEMMA ListsAloneOwned ==
    ASSUME IInv, UNCHANGED <<list, ctx>>,
           \A r \in Schedulers : pc'[r] = pc[r] \/ (~Owning(pc[r]) /\ ~Owning(pc'[r]))
    PROVE  \A r \in Schedulers : Owned(r)' = Owned(r)
<1> TAKE r \in Schedulers
<1>1. list'[r] = list[r] /\ ctx'[r] = ctx[r] /\ list'[ctx[r]] = list[ctx[r]]
    BY Zenon
<1> QED
    BY <1>1, OwnedStays, Zenon

\* What the schedulers other than s own stays theirs.
LEMMA OthersOwned ==
    ASSUME IInv, NEW s \in Schedulers,
           \/ GetNextContext(s) \/ UmsComplistDqcontext(s) \/ ReregisterContext(s)
           \/ UmsComplistNextContext(s),
           NEW r \in Schedulers, r # s, list'[r] = list[r],
           pc[r] = "collect" => list'[ctx[r]] = list[ctx[r]]
    PROVE  Owned(r)' = Owned(r)
<1>1. pc'[r] = pc[r] /\ ctx'[r] = ctx[r]
    BY OthersStay, Zenon
<1> QED
    BY <1>1, OwnedStays, Zenon

\* The first context goes from the run queue to the hand.
LEMMA GetNextContextOwned ==
    ASSUME IInv, NEW s \in Schedulers, GetNextContext(s)
    PROVE  \A r \in Schedulers : Owned(r)' = Owned(r)
<1>1. /\ list \in Lists /\ s \in Heads /\ s \in Threads
      /\ pc \in [Threads -> SchedulerPCs \cup WorkerPCs]
      /\ ctx \in [Schedulers -> Workers \cup {Uninit}]
      /\ \A r \in Schedulers : r \in Heads /\ r \notin Workers
    BY ThreadsAssumption, Zenon DEF IInv, TypeOK, Lists, Heads, Threads
<1>2. CASE list[s] = <<>>
  <2>1. UNCHANGED <<list, ctx>> /\ pc[s] = "next_context" /\ pc'[s] = "dqcontext"
      BY <1>1, <1>2, Zenon DEF GetNextContext, Goto
  <2>2. \A r \in Schedulers : r # s => pc'[r] = pc[r]
      BY OthersStay, Zenon
  <2>3. ~Owning(pc[s]) /\ ~Owning(pc'[s])
      BY <2>1, Zenon DEF Owning
  <2> QED
      BY <2>1, <2>2, <2>3, ListsAloneOwned, ZenonT(60)
<1>3. CASE list[s] # <<>>
  <2>1. /\ pc[s] = "next_context" /\ pc'[s] = "switch" /\ ctx'[s] = Head(list[s])
        /\ list'[s] = Tail(list[s])
        /\ \A g \in Heads : g # s => list'[g] = list[g]
      BY <1>1, <1>3, Zenon DEF GetNextContext, Goto, Lists
  <2>2. list[s] \in Seq(Workers)
      BY <1>1 DEF Lists
  <2>3. OwnedAt(list', pc'[s], ctx'[s], s) = OwnedAt(list, pc[s], ctx[s], s)
    <3>1. \A w \in Workers : Has(list[s], w) <=> w = ctx'[s] \/ Has(list'[s], w)
        BY <1>3, <2>1, <2>2, HasHead, Zenon
    <3> QED
        BY <2>1, <3>1, Zenon DEF OwnedAt
  <2>4. Owned(s)' = Owned(s)
      BY <2>3, OwnedForms, Zenon
  <2>5. ASSUME NEW r \in Schedulers, r # s PROVE Owned(r)' = Owned(r)
    <3>1. list'[r] = list[r]
        BY <1>1, <2>1, <2>5, Zenon
    <3>2. pc[r] = "collect" => list'[ctx[r]] = list[ctx[r]]
      <4>1. pc[r] = "collect" => ctx[r] \in Workers /\ ctx[r] \in Heads
          BY Walkers, Zenon
      <4> QED
          BY <1>1, <2>1, <4>1, Zenon
    <3> QED
        BY <2>5, <3>1, <3>2, OthersOwned, ZenonT(60)
  <2> QED
      BY <2>4, <2>5, Zenon
<1> QED
    BY <1>2, <1>3, Zenon

\* A context that goes back is no longer owned, and was not while in hand.
LEMMA ReregisterContextOwned ==
    ASSUME IInv, NEW s \in Schedulers, ReregisterContext(s)
    PROVE  \A r \in Schedulers : Owned(r)' = Owned(r)
<1>1. /\ list \in Lists /\ s \in Heads /\ s \in Threads
      /\ pc \in [Threads -> SchedulerPCs \cup WorkerPCs]
      /\ \A r \in Schedulers : r \in Heads /\ r \notin Workers /\ r # CompList
      /\ \A w \in Workers : w # CompList
    BY ThreadsAssumption, Zenon DEF IInv, TypeOK, Lists, Heads, Threads
<1>2. /\ pc[s] = "requeue" /\ pc'[s] = "dqevent" /\ UNCHANGED ctx
      /\ list' = [list EXCEPT ![CompList] = <<ctx[s]>> \o list[CompList], ![ctx[s]] = <<>>]
    BY <1>1, Zenon DEF ReregisterContext, Goto
<1>3. ctx[s] \in Workers /\ \A h \in Heads : ~Linked(ctx[s], h)
    BY <1>2, Zenon DEF IInv, RunsOnlyParked, Holding, TypeOK
<1>4. \A g \in Heads : g # CompList /\ g # ctx[s] => list'[g] = list[g]
    BY <1>1, <1>2, ZenonT(60) DEF Lists
<1>5. \A r \in Schedulers : r # s => pc'[r] = pc[r]
    BY OthersStay, Zenon
<1> TAKE r \in Schedulers
<1>6. list'[r] = list[r] /\ ctx'[r] = ctx[r]
    BY <1>1, <1>2, <1>3, <1>4, Zenon
<1>7. pc[r] = "collect" => list'[ctx[r]] = list[ctx[r]]
  <2> SUFFICES ASSUME pc[r] = "collect" PROVE list'[ctx[r]] = list[ctx[r]]
      BY Zenon
  <2>1. ctx[r] \in Workers /\ ctx[r] \in Heads /\ Linked(ctx[r], r)
      BY Walkers, ListForms, Zenon
  <2> QED
      BY <1>1, <1>3, <1>4, <2>1, ZenonT(60)
<1>8. ~Owning(pc[s]) /\ ~Owning(pc'[s])
    BY <1>2, Zenon DEF Owning
<1> QED
    BY <1>2, <1>5, <1>6, <1>7, <1>8, OwnedStays, ZenonT(60)

\* A worker that publishes itself is owned by nobody and its list is walked by
\* nobody.
LEMMA PublishContextOwned ==
    ASSUME IInv, NEW w \in Workers, PublishContext(w)
    PROVE  \A r \in Schedulers : Owned(r)' = Owned(r)
<1>1. /\ list \in Lists /\ w \in Heads /\ w \in Threads
      /\ pc \in [Threads -> SchedulerPCs \cup WorkerPCs]
      /\ \A r \in Schedulers : r \in Heads /\ r \in Threads /\ r # w /\ r # CompList
      /\ \A v \in Workers : v # CompList
    BY ThreadsAssumption, ZenonT(30) DEF IInv, TypeOK, Lists, Heads, Threads
<1>2. /\ pc[w] # "asleep" /\ UNCHANGED ctx
      /\ list' = [list EXCEPT ![CompList] = Append(list[CompList], w), ![w] = <<>>]
      /\ \A r \in Schedulers : pc'[r] = pc[r]
    BY <1>1, Zenon DEF PublishContext, UmsCompletionListAddTail, Goto
<1>3. \A g \in Heads : g # CompList /\ g # w => list'[g] = list[g]
    BY <1>1, <1>2, Zenon DEF Lists
<1> TAKE r \in Schedulers
<1>4. list'[r] = list[r] /\ ctx'[r] = ctx[r]
    BY <1>1, <1>2, <1>3, ZenonT(60)
<1>5. pc[r] = "collect" => list'[ctx[r]] = list[ctx[r]]
  <2> SUFFICES ASSUME pc[r] = "collect" PROVE list'[ctx[r]] = list[ctx[r]]
      BY Zenon
  <2>1. ctx[r] \in Workers /\ ctx[r] \in Heads /\ Linked(ctx[r], r)
      BY Walkers, ListForms, Zenon
  <2>2. Parked(ctx[r])
      BY <1>1, <2>1, Zenon DEF IInv, RunsOnlyParked
  <2>3. ctx[r] # w
      BY <1>2, <2>2, Zenon DEF Parked
  <2> QED
      BY <1>1, <1>3, <2>1, <2>3, ZenonT(60)
<1> QED
    BY <1>2, <1>4, <1>5, OwnedStays, Zenon

\* main returns when no worker is parked: nothing is owned any more.
LEMMA MainReturnsOwned ==
    ASSUME IInv, MainReturns
    PROVE  \A r \in Schedulers : Owned(r)' = Owned(r)
<1>1. \A w \in Workers : ~Parked(w)
    BY Zenon DEF MainReturns, Parked
<1>2. \A r \in Schedulers : r \in Heads /\ (pc[r] = "collect" => ctx[r] \in Heads)
    BY Walkers, Zenon DEF Heads, Threads
<1>3. \A r \in Schedulers : pc'[r] = "exited"
    BY SMTT(60), Z3T(60) DEF MainReturns, Threads
<1> TAKE r \in Schedulers
<1>4. \A w \in Workers : \A h \in Heads : ~Linked(w, h)
    BY <1>1, Zenon DEF IInv, RunsOnlyParked
<1>5. Owned(r) = {}
  <2> SUFFICES ASSUME NEW w \in Owned(r) PROVE FALSE
      BY Zenon
  <2>1. w \in Workers /\ (pc[r] = "switch" => Parked(ctx[r]))
      BY Zenon DEF Owned, IInv, RunsOnlyParked, Holding
  <2> QED
      BY <1>1, <1>2, <1>4, <2>1, ZenonT(60) DEF Owned
<1>6. list' = list /\ Owned(r)' = OwnedAt(list', pc'[r], ctx'[r], r)
    BY OwnedForms, Zenon DEF MainReturns
<1>7. ASSUME NEW w \in OwnedAt(list', pc'[r], ctx'[r], r) PROVE FALSE
  <2>1. w \in Workers /\ Has(list[r], w)
      BY <1>3, <1>6, Zenon DEF OwnedAt
  <2>2. Linked(w, r)
      BY <2>1, OwnedForms, ZenonT(60)
  <2> QED
      BY <1>2, <1>4, <2>1, <2>2, Zenon
<1> QED
    BY <1>5, <1>6, <1>7, ZenonT(60)

\* The loop over the dequeued list moves contexts to the run queue; what it
\* fails to move is no longer owned.
LEMMA UmsComplistNextContextOwned ==
    ASSUME IInv, NEW s \in Schedulers, UmsComplistNextContext(s)
    PROVE  \A r \in Schedulers : Owned(r)' \subseteq Owned(r) /\ (~Fault => Owned(r)' = Owned(r))
<1>1. /\ list \in Lists /\ s \in Heads /\ s \notin Workers /\ s \in Threads
      /\ Schedulers \subseteq Heads /\ Workers \subseteq Heads
      /\ pc \in [Threads -> SchedulerPCs \cup WorkerPCs]
      /\ ctx \in [Schedulers -> Workers \cup {Uninit}]
    BY ThreadsAssumption, Zenon DEF IInv, TypeOK, Lists, Heads, Threads
<1>2. PICK c, n, D : c = ctx[s] /\ n = Head(list[c]) /\ D = Detached(c)
    BY Zenon
<1>3. /\ pc[s] = "collect" /\ c \in Workers /\ c \in Heads /\ c \notin Schedulers
      /\ In(list, c, s)
      /\ \A h \in Heads : In(list, c, h) => h = s
  <2>1. pc[s] = "collect"
      BY Zenon DEF UmsComplistNextContext
  <2> QED
      BY <1>2, <2>1, Walkers, ThreadsAssumption, Zenon
<1>4. /\ list[s] \in Seq(Workers) /\ list[s] # <<>> /\ list[c] \in Seq(Workers)
    BY <1>1, <1>3, SMTT(60), Z3T(60) DEF Lists, In
<1>5. ASSUME list[c] # <<>>
      PROVE  /\ D \in Lists /\ n \in Workers /\ n \in Heads /\ n # c /\ In(list, n, c)
             /\ D[n] = Tail(list[c])
             /\ \A g \in Heads : g # c /\ g # n => D[g] = list[g]
  <2>1. In(list, n, c)
    <3>1. 1 \in DOMAIN list[c] /\ n = list[c][1]
        BY <1>2, <1>4, <1>5, SMTT(30), Z3T(30)
    <3> QED
        BY <3>1, Zenon DEF In
  <2>2. n # c
      BY <1>1, <1>3, <2>1, ZenonT(60)
  <2> QED
      BY <1>2, <1>3, <1>5, <2>2, DetachPlaces, SMTT(30), Z3T(30)
<1>6. ASSUME \A g \in Heads : g # s /\ g # c /\ (list[c] # <<>> => g # n) => list'[g] = list[g],
             NEW r \in Schedulers, r # s
      PROVE  Owned(r)' = Owned(r)
  <2>1. r \in Heads /\ list'[r] = list[r]
      BY <1>1, <1>3, <1>5, <1>6, ThreadsAssumption, ZenonT(60)
  <2>2. ASSUME pc[r] = "collect" PROVE list'[ctx[r]] = list[ctx[r]]
    <3>1. /\ ctx[r] \in Workers /\ ctx[r] \in Heads
          /\ In(list, ctx[r], r) /\ \A h \in Heads : In(list, ctx[r], h) => h = r
        BY <2>2, Walkers, Zenon
    <3>2. ctx[r] # s /\ ctx[r] # c /\ (list[c] # <<>> => ctx[r] # n)
      <4>1. ctx[r] # s
          BY <1>1, <3>1, Zenon
      <4>2. ctx[r] # c
          BY <1>1, <1>3, <1>6, <3>1, Zenon
      <4>3. list[c] # <<>> => ctx[r] # n
          BY <1>3, <1>5, <3>1, ZenonT(60)
      <4> QED
          BY <4>1, <4>2, <4>3, Zenon
    <3> QED
        BY <1>6, <3>1, <3>2, Zenon
  <2> QED
      BY <1>6, <2>1, <2>2, OthersOwned, ZenonT(60)
<1>7. Owned(s) = OwnedAt(list, "collect", c, s)
    BY <1>2, <1>3, OwnedForms, ZenonT(60)
<1>8. CASE /\ list[c] = <<>> \/ Fault
           /\ list' = [list EXCEPT ![s] = Tail(@)]
           /\ ctx' = [ctx EXCEPT ![s] = Head(list[s])]
           /\ Goto(s, "switch")
  <2>1. list'[s] = Tail(list[s]) /\ \A g \in Heads : g # s => list'[g] = list[g]
      BY <1>1, <1>8, Zenon DEF Lists
  <2>2. pc'[s] = "switch" /\ ctx'[s] = Head(list[s])
      BY <1>1, <1>8, Zenon DEF Goto
  <2>3. Owned(s)' = OwnedAt(list', "switch", Head(list[s]), s)
      BY <2>2, OwnedForms, Zenon
  <2>4. Owned(s)' \subseteq Owned(s) /\ (~Fault => Owned(s)' = Owned(s))
    <3>1. PICK M, h : M = list' /\ h = Head(list[s])
        BY Zenon
    <3>2. /\ OwnedAt(M, "switch", h, s) \subseteq OwnedAt(list, "collect", c, s)
          /\ list[c] = <<>> => OwnedAt(M, "switch", h, s) = OwnedAt(list, "collect", c, s)
        BY <1>4, <2>1, <3>1, WalkEndOwns, ZenonT(60)
    <3> QED
        BY <1>7, <1>8, <2>3, <3>1, <3>2, Zenon
  <2> QED
      BY <1>6, <2>1, <2>4, Zenon
<1>9. CASE list[c] # <<>>
  <2>1. CASE /\ list' = [D EXCEPT ![s] = Append(@, n)]
             /\ ctx' = [ctx EXCEPT ![s] = n]
             /\ UNCHANGED pc
    <3>1. /\ list'[s] = Append(list[s], n) /\ list'[n] = Tail(list[c])
          /\ \A g \in Heads : g # s /\ g # c /\ g # n => list'[g] = list[g]
        BY <1>1, <1>3, <1>5, <1>9, <2>1, ThreadsAssumption, Zenon DEF Lists
    <3>2. Owned(s)' = OwnedAt(list', "collect", n, s)
      <4>1. pc'[s] = "collect" /\ ctx'[s] = n
          BY <1>1, <1>3, <2>1, ZenonT(60)
      <4> QED
          BY <4>1, OwnedForms, Zenon
    <3>3. Owned(s)' = Owned(s)
      <4>1. PICK M : M = list'
          BY Zenon
      <4>2. OwnedAt(M, "collect", n, s) = OwnedAt(list, "collect", c, s)
        <5>1. /\ n = Head(list[c]) /\ n \in Workers
              /\ M[s] = Append(list[s], n) /\ M[n] = Tail(list[c])
            BY <1>2, <1>5, <1>9, <3>1, <4>1, ZenonT(60)
        <5>2. \A w : Has(list[c], w) <=> w = n \/ Has(Tail(list[c]), w)
            BY <1>4, <1>9, <5>1, HasHead, Zenon
        <5>3. \A w : Has(Append(list[s], n), w) <=> w = n \/ Has(list[s], w)
            BY <1>4, <5>1, HasLast, ZenonT(60)
        <5> QED
            BY <5>1, <5>2, <5>3, ZenonT(60) DEF OwnedAt
      <4> QED
          BY <1>7, <3>2, <4>1, <4>2, Zenon
    <3> QED
        BY <1>6, <1>9, <3>1, <3>3, Zenon
  <2>2. CASE /\ Fault
             /\ list' = [D EXCEPT ![s] = Tail(@)]
             /\ ctx' = [ctx EXCEPT ![s] = Head(list[s])]
             /\ Goto(s, "switch")
    <3>1. /\ list'[s] = Tail(list[s])
          /\ \A g \in Heads : g # s /\ g # c /\ g # n => list'[g] = list[g]
        BY <1>1, <1>3, <1>5, <1>9, <2>2, ThreadsAssumption, ZenonT(60) DEF Lists
    <3>2. pc'[s] = "switch" /\ ctx'[s] = Head(list[s])
        BY <1>1, <2>2, ZenonT(60) DEF Goto
    <3>3. Owned(s)' = OwnedAt(list', "switch", Head(list[s]), s)
        BY <3>2, OwnedForms, Zenon
    <3>4. Owned(s)' \subseteq Owned(s)
      <4>1. PICK M, h : M = list' /\ h = Head(list[s])
          BY Zenon
      <4>2. OwnedAt(M, "switch", h, s) \subseteq OwnedAt(list, "collect", c, s)
          BY <1>4, <3>1, <4>1, WalkEndOwns, ZenonT(60)
      <4> QED
          BY <1>7, <3>3, <4>1, <4>2, ZenonT(60)
    <3> QED
        BY <1>6, <1>9, <2>2, <3>1, <3>4, Zenon
  <2>3. CASE /\ Fault
             /\ list' = D
             /\ Goto(s, "dqevent")
    <3>1. /\ list'[s] = list[s]
          /\ \A g \in Heads : g # s /\ g # c /\ g # n => list'[g] = list[g]
        BY <1>1, <1>3, <1>5, <1>9, <2>3, ThreadsAssumption, ZenonT(60)
    <3>2. pc'[s] = "dqevent"
        BY <1>1, <2>3, Zenon DEF Goto
    <3>3. Owned(s)' \subseteq Owned(s)
      <4>1. OwnedAt(list', "dqevent", ctx'[s], s) \subseteq OwnedAt(list, "collect", c, s)
          BY <3>1, Zenon DEF OwnedAt
      <4> QED
          BY <1>7, <3>2, <4>1, OwnedForms, ZenonT(60)
    <3> QED
        BY <1>6, <1>9, <2>3, <3>1, <3>3, ZenonT(60)
  <2> QED
      BY <1>2, <1>8, <1>9, <2>1, <2>2, <2>3, ZenonT(60) DEF UmsComplistNextContext
<1> QED
    BY <1>2, <1>8, <1>9, Zenon DEF UmsComplistNextContext

\* The context lists of a scheduler that asks for more are empty, and it gets
\* what is in the completion list, or nothing.
LEMMA DequeueOwned ==
    ASSUME IInv, Kept, NEW s \in Schedulers, UmsComplistDqcontext(s),
           list' # list \/ pc'[s] = "requeue",
           NEW q, q = list[CompList]
    PROVE  /\ q \in Seq(Workers) /\ q # <<>>
           /\ Owned(s) = {}
           /\ \A w \in Owned(s)' : Has(q, w)
           /\ ~Fault => \A w \in Workers : Has(q, w) => w \in Owned(s)'
           /\ pc'[s] = "requeue" => Fault /\ Owned(s)' = {}
           /\ \A r \in Schedulers : r # s => Owned(r)' = Owned(r)
<1>1. /\ list \in Lists /\ s \in Heads /\ s \in Threads /\ CompList \in Heads
      /\ CompList \notin Schedulers /\ CompList \notin Workers
      /\ \A r \in Schedulers : r \in Heads /\ r \notin Workers
      /\ pc \in [Threads -> SchedulerPCs \cup WorkerPCs]
      /\ ctx \in [Schedulers -> Workers \cup {Uninit}]
    BY ThreadsAssumption, Zenon DEF IInv, TypeOK, Lists, Heads, Threads
<1>2. PICK f, D : f = Head(q) /\ D = Detached(CompList)
    BY Zenon
<1>3. /\ pc[s] = "dqcontext" /\ q # <<>> /\ ctx' = [ctx EXCEPT ![s] = f]
      /\ \/ list' = [D EXCEPT ![s] = <<f>>] /\ pc' = [pc EXCEPT ![s] = "collect"]
         \/ /\ Fault /\ list' = D
            /\ \/ pc' = [pc EXCEPT ![s] = "requeue"]
               \/ pc' = [pc EXCEPT ![s] = "dqevent"]
  <2>1. ASSUME Goto(s, "dqevent"), list' = list PROVE FALSE
      BY <1>1, <2>1, Zenon DEF Goto
  <2> QED
      BY <1>2, <2>1, Zenon DEF UmsComplistDqcontext, Goto
<1>4. q \in Seq(Workers)
    BY <1>1, Zenon DEF Lists
<1>5. /\ D \in Lists /\ f \in Workers /\ f \in Heads /\ In(list, f, CompList)
      /\ D[f] = Tail(q)
      /\ \A g \in Heads : g # CompList /\ g # f => D[g] = list[g]
      /\ \A r \in Schedulers : D[r] = list[r]
  <2>1. f # CompList
    <3>1. f \in Workers
        BY <1>2, <1>3, <1>4, SMTT(60), Z3T(60)
    <3> QED
        BY <1>1, <3>1, Zenon
  <2> QED
      BY <1>1, <1>2, <1>3, <2>1, DetachPlaces, SMTT(30), Z3T(30)
<1>6. list[s] = <<>> /\ \A w : ~Has(<<>>, w)
  <2>1. list[s] = <<>>
      BY <1>3, Zenon DEF Kept, AsksWhenEmpty
  <2> QED
      BY <2>1, SMTT(30), Z3T(30) DEF Has
<1>7. Owned(s) = {}
  <2>1. OwnedAt(list, "dqcontext", ctx[s], s) = {}
      BY <1>6, Zenon DEF OwnedAt
  <2> QED
      BY <1>3, <2>1, OwnedForms, Zenon
<1>8. ASSUME NEW r \in Schedulers, r # s PROVE Owned(r)' = Owned(r)
  <2>1. \A g \in Heads : g # CompList /\ g # f /\ g # s => list'[g] = list[g]
      BY <1>1, <1>3, <1>5, ZenonT(60) DEF Lists
  <2>2. list'[r] = list[r]
      BY <1>1, <1>5, <1>8, <2>1, Zenon
  <2>3. ASSUME pc[r] = "collect" PROVE list'[ctx[r]] = list[ctx[r]]
    <3>1. /\ ctx[r] \in Workers /\ ctx[r] \in Heads
          /\ \A h \in Heads : In(list, ctx[r], h) => h = r
        BY <2>3, Walkers, ZenonT(60)
    <3>2. ctx[r] # f
        BY <1>1, <1>5, <3>1, ZenonT(60)
    <3> QED
        BY <1>1, <2>1, <3>1, <3>2, Zenon
  <2> QED
      BY <1>8, <2>2, <2>3, OthersOwned, Zenon
<1>9. CASE list' = [D EXCEPT ![s] = <<f>>] /\ pc' = [pc EXCEPT ![s] = "collect"]
  <2>1. /\ list'[s] = <<f>> /\ list'[f] = Tail(q) /\ pc'[s] = "collect" /\ ctx'[s] = f
      BY <1>1, <1>3, <1>5, <1>9, Zenon DEF Lists
  <2>2. \A w : Has(q, w) <=> w = f \/ Has(Tail(q), w)
      BY <1>2, <1>3, <1>4, HasHead, ZenonT(60)
  <2>3. \A w : Has(<<f>>, w) <=> w = f
      BY DEF Has
  <2>4. Owned(s)' = OwnedAt(list', "collect", f, s)
      BY <2>1, OwnedForms, ZenonT(60)
  <2>5. \A w \in Workers : w \in Owned(s)' <=> Has(q, w)
      BY <2>1, <2>2, <2>3, <2>4, ZenonT(60) DEF OwnedAt
  <2>6. \A w \in Owned(s)' : w \in Workers
      BY <2>4, Zenon DEF OwnedAt
  <2>7. pc'[s] # "requeue"
      BY <2>1, Zenon
  <2> QED
      BY <1>3, <1>4, <1>7, <1>8, <2>5, <2>6, <2>7, Zenon
<1>10. CASE /\ Fault /\ list' = D
            /\ \/ pc' = [pc EXCEPT ![s] = "requeue"]
               \/ pc' = [pc EXCEPT ![s] = "dqevent"]
  <2>1. list'[s] = <<>> /\ pc'[s] \in {"requeue", "dqevent"}
      BY <1>1, <1>5, <1>6, <1>10, ZenonT(60)
  <2>2. OwnedAt(list', pc'[s], ctx'[s], s) = {}
      BY <1>6, <2>1, ZenonT(60) DEF OwnedAt
  <2>3. Owned(s)' = {}
      BY <2>2, OwnedForms, ZenonT(60)
  <2> QED
      BY <1>3, <1>4, <1>7, <1>8, <1>10, <2>3, ZenonT(60)
<1> QED
    BY <1>3, <1>9, <1>10, ZenonT(60)

\* A scheduler that runs a worker no longer owns it.
LEMMA ExecOwned ==
    ASSUME IInv, NEW s \in Schedulers, ExecUmsContext(s), pc[s] = "switch"
    PROVE  /\ ctx[s] \in Owned(s) /\ Owned(s)' = Owned(s) \ {ctx[s]}
           /\ \A r \in Schedulers : r # s => Owned(r)' = Owned(r)
<1>1. /\ s \in Heads /\ s \in Threads
      /\ pc \in [Threads -> SchedulerPCs \cup WorkerPCs]
    BY Zenon DEF IInv, TypeOK, Heads, Threads
<1>2. UNCHANGED <<list, ctx>> /\ pc' = [pc EXCEPT ![s] = "switch_wake"]
  <2>1. pc[s] # "switch_wake"
      BY Zenon
  <2> QED
      BY <2>1, Zenon DEF ExecUmsContext, PrepareSwitchContext, Goto
<1>3. pc'[s] = "switch_wake" /\ \A r \in Schedulers : r # s => pc'[r] = pc[r]
    BY <1>1, <1>2, SMTT(60), Z3T(60)
<1>4. ctx[s] \in Workers /\ ~Linked(ctx[s], s)
    BY <1>1, ZenonT(60) DEF IInv, RunsOnlyParked, Holding, TypeOK
<1>5. OwnedAt(list', pc'[s], ctx'[s], s) = OwnedAt(list, pc[s], ctx[s], s) \ {ctx[s]}
  <2>1. ~Has(list[s], ctx[s])
      BY <1>4, OwnedForms, Zenon
  <2> QED
      BY <1>2, <1>3, <2>1, Zenon DEF OwnedAt
<1>6. ctx[s] \in OwnedAt(list, pc[s], ctx[s], s)
    BY <1>4, Zenon DEF OwnedAt
<1>7. ASSUME NEW r \in Schedulers, r # s PROVE Owned(r)' = Owned(r)
    BY <1>2, <1>3, <1>7, OwnedStays, Zenon
<1> QED
    BY <1>5, <1>6, <1>7, OwnedForms, ZenonT(60)

-----------------------------------------------------------------------------
(* The theorems.                                                           *)

\* A step with the folders is a step of the dispatch core.
LEMMA LinksNextIsNext ==
    ASSUME LinksNext
    PROVE  Next
<1>1. ASSUME NEW s \in Schedulers,
             \/ DequeueLinksAll(s) \/ DequeueLinksNone(s) \/ DequeueFails(s)
             \/ ExecUnlinks(s) \/ OtherStep(s)
      PROVE  SchedulerStep(s)
    BY <1>1, Zenon DEF DequeueLinksAll, DequeueLinksNone, DequeueFails, ExecUnlinks, OtherStep,
       SchedulerStep
<1> QED
    BY <1>1, Zenon DEF LinksNext, Next

\* What is in the completion list is owned by nobody.
LEMMA NotOwned ==
    ASSUME IInv, NEW s \in Schedulers, NEW q, q = list[CompList]
    PROVE  \A r \in Schedulers : r # s => \A w \in Owned(r) : ~Has(q, w)
BY OwnedOnce, Zenon DEF Linked, Has

\* Dequeuing links what it hands over.
LEMMA DequeueLinksAllShows ==
    ASSUME LinksInv, NEW s \in Schedulers, DequeueLinksAll(s), faults' = 0 => faults = 0 /\ ~Fault
    PROVE  /\ folder' \in [Schedulers -> [Names -> Workers \cup {NoLink}]]
           /\ worker_link' \in [Workers -> (Schedulers \X Names) \cup {NoLink}]
           /\ n_workers' \in [Schedulers -> 0 .. ULong - 1]
           /\ max_workers' \in [Schedulers -> 0 .. MaxNames]
           /\ link_faults' \in 0 .. MaxLinkFaults
           /\ Shown'
<1>1. PICK q : q = list[CompList]
    BY Zenon
<1>2. IInv /\ Kept /\ LinksTypeOK /\ Shown /\ UmsComplistDqcontext(s) /\ list' # list
    BY Zenon DEF DequeueLinksAll, LinksInv
<1>3. /\ q \in Seq(Workers)
      /\ Owned(s) = {} /\ \A w \in Owned(s)' : Has(q, w)
      /\ ~Fault => \A w \in Workers : Has(q, w) => w \in Owned(s)'
      /\ \A r \in Schedulers : r # s => Owned(r)' = Owned(r)
    BY <1>1, <1>2, DequeueOwned, ZenonT(60)
<1>4. Once1(q)
  <2>1. \A i, j \in DOMAIN q : q[i] = q[j] => i = j
      BY <1>1, <1>2, ZenonT(60) DEF IInv, LinkedOnce, Heads
  <2> QED
      BY <1>3, <2>1, SMTT(60), Z3T(60) DEF Once1
<1> QED
    BY <1>1, <1>2, <1>3, <1>4, NotOwned, AllLinked, ZenonT(60)

\* Without a link for the first context nothing is handed over.
LEMMA DequeueLinksNoneShows ==
    ASSUME LinksInv, NEW s \in Schedulers, DequeueLinksNone(s), faults' = 0 => faults = 0 /\ ~Fault
    PROVE  /\ folder' \in [Schedulers -> [Names -> Workers \cup {NoLink}]]
           /\ worker_link' \in [Workers -> (Schedulers \X Names) \cup {NoLink}]
           /\ n_workers' \in [Schedulers -> 0 .. ULong - 1]
           /\ max_workers' \in [Schedulers -> 0 .. MaxNames]
           /\ link_faults' \in 0 .. MaxLinkFaults
           /\ Shown'
<1>1. PICK q : q = list[CompList]
    BY Zenon
<1>2. IInv /\ Kept /\ LinksTypeOK /\ Shown /\ UmsComplistDqcontext(s) /\ pc'[s] = "requeue"
    BY Zenon DEF DequeueLinksNone, LinksInv
<1>3. /\ q \in Seq(Workers) /\ q # <<>>
      /\ Fault /\ Owned(s)' = {}
      /\ \A r \in Schedulers : r # s => Owned(r)' = Owned(r)
    BY <1>1, <1>2, DequeueOwned, Zenon
<1> QED
    BY <1>1, <1>2, <1>3, NotOwned, NoneLinked, Zenon

\* The entry that is removed is the link of the worker that is run.
LEMMA ExecUnlinksShows ==
    ASSUME LinksInv, NEW s \in Schedulers, ExecUmsContext(s), pc[s] = "switch",
           UnregisterWorker(s, ctx[s]), faults' = 0 => faults = 0
    PROVE  /\ folder' \in [Schedulers -> [Names -> Workers \cup {NoLink}]]
           /\ worker_link' \in [Workers -> (Schedulers \X Names) \cup {NoLink}]
           /\ n_workers' \in [Schedulers -> 0 .. ULong - 1]
           /\ max_workers' \in [Schedulers -> 0 .. MaxNames]
           /\ link_faults' \in 0 .. MaxLinkFaults
           /\ Shown'
<1>1. PICK w : w = ctx[s]
    BY Zenon
<1>2. IInv /\ LinksTypeOK /\ Shown /\ UnregisterWorker(s, w)
    BY <1>1, Zenon DEF LinksInv
<1>3. /\ w \in Owned(s) /\ Owned(s)' = Owned(s) \ {w}
      /\ \A r \in Schedulers : r # s => Owned(r)' = Owned(r)
    BY <1>1, <1>2, ExecOwned, Zenon
<1> QED
    BY <1>2, <1>3, OneUnlinked, Zenon

\* A call that fails at once leaves the lists alone.
LEMMA DequeueFailsLeaves ==
    ASSUME IInv, NEW s \in Schedulers, DequeueFails(s)
    PROVE  UNCHANGED <<list, ctx>> /\ pc' = [pc EXCEPT ![s] = "dqevent"]
<1>1. /\ list \in Lists /\ CompList \in Heads /\ s \in Heads
      /\ CompList \notin Schedulers /\ CompList \notin Workers
    BY ThreadsAssumption, Zenon DEF IInv, TypeOK, Lists, Heads, Threads
<1>2. PICK f, D : f = Head(list[CompList]) /\ D = Detached(CompList)
    BY Zenon
<1>3. ASSUME list[CompList] # <<>> PROVE D \in Lists /\ D[CompList] = <<>>
  <2>1. f \in Workers /\ f # CompList
    <3>1. list[CompList] \in Seq(Workers)
        BY <1>1, Zenon DEF Lists
    <3>2. f \in Workers
        BY <1>2, <1>3, <3>1, SMTT(60), Z3T(60)
    <3> QED
        BY <1>1, <3>2, Zenon
  <2> QED
      BY <1>1, <1>2, <1>3, <2>1, DetachPlaces, ZenonT(60)
<1>4. ASSUME list[CompList] # <<>>, list' = D \/ list' = [D EXCEPT ![s] = <<f>>] PROVE FALSE
  <2>1. list'[CompList] = <<>>
      BY <1>1, <1>3, <1>4, ZenonT(60) DEF Lists
  <2> QED
      BY <1>4, <2>1, Zenon DEF DequeueFails
<1> QED
    BY <1>2, <1>4, Zenon DEF DequeueFails, UmsComplistDqcontext, Goto

\* The steps that touch no link keep what the folders show.
LEMMA OtherStepShows ==
    ASSUME LinksInv, LinksNext, UNCHANGED linkVars, NEW s \in Schedulers,
           \/ EnterUmsSchedulerMode(s) \/ UmsSchedDqevent(s) \/ GetNextContext(s)
           \/ ReregisterContext(s) \/ UmsComplistNextContext(s) \/ SchedulerResumes(s)
           \/ DequeueFails(s) \/ Signal(s)
           \/ ExecUmsContext(s) /\ pc[s] = "switch_wake"
    PROVE  Shown'
<1>1. faults' = 0 => faults = 0 /\ ~Fault
    BY LinksNextIsNext, FaultsStay, ZenonT(60) DEF LinksInv
<1>2. /\ IInv /\ Shown /\ s \in Threads
      /\ pc \in [Threads -> SchedulerPCs \cup WorkerPCs]
      /\ \A r \in Schedulers : r \in Threads
    BY Zenon DEF LinksInv, IInv, TypeOK, Threads
<1>3. CASE GetNextContext(s) \/ ReregisterContext(s)
    BY <1>1, <1>2, <1>3, GetNextContextOwned, ReregisterContextOwned, Untouched, Zenon
<1>4. CASE UmsComplistNextContext(s)
    BY <1>1, <1>2, <1>4, UmsComplistNextContextOwned, Untouched, Zenon
<1>5. CASE \/ EnterUmsSchedulerMode(s) \/ UmsSchedDqevent(s) \/ SchedulerResumes(s)
           \/ DequeueFails(s) \/ Signal(s)
           \/ ExecUmsContext(s) /\ pc[s] = "switch_wake"
  <2>1. UNCHANGED <<list, ctx>>
    <3>1. CASE DequeueFails(s)
        BY <1>2, <3>1, DequeueFailsLeaves, Zenon
    <3>2. CASE ~DequeueFails(s)
        BY <1>5, <3>2, ZenonT(60) DEF EnterUmsSchedulerMode, UmsSchedDqevent, SchedulerResumes, Signal,
           ExecUmsContext
    <3> QED
        BY <3>1, <3>2, Zenon
  <2>2. \A r \in Schedulers : pc'[r] = pc[r] \/ (~Owning(pc[r]) /\ ~Owning(pc'[r]))
    <3>1. CASE Signal(s)
        BY <3>1, Zenon DEF Signal
    <3>2. CASE ~Signal(s)
      <4>1. \E l \in {"exited", "dqevent", "next_context", "asleep"} : pc' = [pc EXCEPT ![s] = l]
        <5>1. CASE DequeueFails(s)
            BY <1>2, <5>1, DequeueFailsLeaves, Zenon
        <5>2. CASE ~DequeueFails(s)
            BY <1>5, <3>2, <5>2, ZenonT(60) DEF EnterUmsSchedulerMode, UmsSchedDqevent,
               SchedulerResumes, ExecUmsContext, PrepareSwitchContext, Goto
        <5> QED
            BY <5>1, <5>2, Zenon
      <4>2. ~Owning(pc[s])
        <5>1. pc[s] \in {"start", "dqevent", "asleep", "dqcontext", "switch_wake"}
            BY <1>5, <3>2, ZenonT(60) DEF EnterUmsSchedulerMode, UmsSchedDqevent, SchedulerResumes,
               DequeueFails, UmsComplistDqcontext
        <5> QED
            BY <5>1, Zenon DEF Owning
      <4>3. ~Owning(pc'[s]) /\ \A r \in Schedulers : r # s => pc'[r] = pc[r]
          BY <1>2, <4>1, ZenonT(60) DEF Owning
      <4> QED
          BY <4>2, <4>3, Zenon
    <3> QED
        BY <3>1, <3>2, Zenon
  <2>3. \A r \in Schedulers : Owned(r)' = Owned(r)
      BY <1>2, <2>1, <2>2, ListsAloneOwned, Zenon
  <2> QED
      BY <1>1, <1>2, <2>3, Untouched, Zenon
<1> QED
    BY <1>3, <1>4, <1>5, Zenon

\* So do the steps of a worker.
LEMMA WorkerStepShows ==
    ASSUME LinksInv, LinksNext, UNCHANGED linkVars, NEW w \in Workers, WorkerStep(w)
    PROVE  Shown'
<1>1. faults' = 0 => faults = 0
    BY LinksNextIsNext, FaultsStay, Zenon DEF LinksInv
<1>2. /\ IInv /\ Shown /\ w \in Threads
      /\ pc \in [Threads -> SchedulerPCs \cup WorkerPCs]
      /\ \A r \in Schedulers : r \in Threads /\ r # w
    BY ThreadsAssumption, ZenonT(30) DEF LinksInv, IInv, TypeOK, Threads
<1>3. CASE PublishContext(w)
    BY <1>1, <1>2, <1>3, PublishContextOwned, Untouched, Zenon
<1>4. CASE ~PublishContext(w)
  <2>1. UNCHANGED list /\ UNCHANGED ctx
      BY <1>4, Zenon DEF WorkerStep, EnterUmsWorkerMode, WorkerResumes, UmsWorkerYield,
         WorkerSwitches, UmsWorkerEnd, WorkerWakesParent, UmsWorkerDestroy
  <2>2. UNCHANGED pc \/ \E l : pc' = [pc EXCEPT ![w] = l]
      BY <1>4, Zenon DEF WorkerStep, EnterUmsWorkerMode, WorkerResumes, UmsWorkerYield,
         WorkerSwitches, UmsWorkerEnd, WorkerWakesParent, UmsWorkerDestroy, PrepareSwitchContext,
         Goto
  <2>3. \A r \in Schedulers : pc'[r] = pc[r]
      BY <1>2, <2>2, Zenon
  <2>4. \A r \in Schedulers : Owned(r)' = Owned(r)
      BY <1>2, <2>1, <2>3, ListsAloneOwned, Zenon
  <2> QED
      BY <1>1, <1>2, <2>4, Untouched, Zenon
<1> QED
    BY <1>3, <1>4, Zenon

\* So does main's return.
LEMMA MainReturnsShows ==
    ASSUME LinksInv, LinksNext, UNCHANGED linkVars, MainReturns
    PROVE  Shown'
<1>1. faults' = 0 => faults = 0
    BY LinksNextIsNext, FaultsStay, Zenon DEF LinksInv
<1>2. IInv /\ Shown
    BY Zenon DEF LinksInv
<1> QED
    BY <1>1, <1>2, MainReturnsOwned, Untouched, ZenonT(60)

\* No step spoils what the folders show.
LEMMA LinksNextShows ==
    ASSUME LinksInv, [LinksNext]_<<vars, linkVars>>
    PROVE  LinksTypeOK' /\ Shown'
<1>1. IInv /\ Kept /\ LinksTypeOK /\ Shown
    BY Zenon DEF LinksInv
<1>2. TypeOK'
  <2>1. [Next]_vars
      BY LinksNextIsNext, Zenon
  <2>2. IInv'
      BY <1>1, <2>1, NextIInv, ZenonT(60)
  <2> QED
      BY <2>2, Zenon DEF IInv
<1>3. ASSUME LinksNext PROVE faults' = 0 => faults = 0 /\ ~Fault
    BY <1>1, <1>3, LinksNextIsNext, FaultsStay, ZenonT(60)
<1>4. ASSUME NEW s \in Schedulers, LinksNext, DequeueLinksAll(s) PROVE LinksTypeOK' /\ Shown'
    BY <1>2, <1>3, <1>4, DequeueLinksAllShows, ZenonT(60) DEF LinksTypeOK
<1>5. ASSUME NEW s \in Schedulers, LinksNext, DequeueLinksNone(s) PROVE LinksTypeOK' /\ Shown'
    BY <1>2, <1>3, <1>5, DequeueLinksNoneShows, Zenon DEF LinksTypeOK
<1>6. ASSUME NEW s \in Schedulers, LinksNext, ExecUmsContext(s), pc[s] = "switch",
             UnregisterWorker(s, ctx[s])
      PROVE  LinksTypeOK' /\ Shown'
    BY <1>2, <1>3, <1>6, ExecUnlinksShows, Zenon DEF LinksTypeOK
<1>7. ASSUME LinksNext, UNCHANGED linkVars, Shown' PROVE LinksTypeOK' /\ Shown'
    BY <1>1, <1>2, <1>7, LinksTypeStays, ZenonT(60)
<1>8. ASSUME NEW s \in Schedulers, LinksNext, UNCHANGED linkVars,
             \/ OtherStep(s) \/ DequeueFails(s) \/ Signal(s)
             \/ ExecUmsContext(s) /\ pc[s] = "switch_wake"
      PROVE  Shown'
    BY <1>8, OtherStepShows, Zenon DEF OtherStep
<1>9. CASE UNCHANGED <<vars, linkVars>>
  <2>1. UNCHANGED linkVars /\ UNCHANGED <<list, pc, ctx, faults>>
      BY <1>9, Zenon DEF vars
  <2>2. \A r \in Schedulers : Owned(r)' = Owned(r)
      BY <1>1, <2>1, ListsAloneOwned, ZenonT(60)
  <2>3. Shown'
      BY <1>1, <2>1, <2>2, Untouched, Zenon
  <2> QED
      BY <1>1, <1>2, <2>1, <2>3, LinksTypeStays, Zenon
<1>10. CASE LinksNext
  <2>1. CASE \E s \in Schedulers :
                \/ DequeueLinksAll(s) \/ DequeueLinksNone(s) \/ DequeueFails(s)
                \/ ExecUnlinks(s) \/ OtherStep(s)
                \/ Signal(s) /\ UNCHANGED linkVars
      BY <1>4, <1>5, <1>6, <1>7, <1>8, <1>10, <2>1, ZenonT(60)
         DEF DequeueFails, ExecUnlinks, OtherStep
  <2>2. CASE \E w \in Workers : WorkerStep(w) /\ UNCHANGED linkVars
      BY <1>7, <1>10, <2>2, WorkerStepShows, Zenon
  <2>3. CASE MainReturns /\ UNCHANGED linkVars
      BY <1>7, <1>10, <2>3, MainReturnsShows, Zenon
  <2> QED
      BY <1>10, <2>1, <2>2, <2>3, ZenonT(60) DEF LinksNext
<1> QED
    BY <1>9, <1>10, Zenon

\* At the start the folders are empty and nothing is owned.
LEMMA LinksInitShows ==
    ASSUME LinksInit
    PROVE  LinksTypeOK /\ Shown
<1>1. IInv
    BY InitIInv, Zenon DEF LinksInit
<1>2. LinksTypeOK
  <2>1. TypeOK
      BY <1>1, Zenon DEF IInv
  <2> QED
      BY <2>1, LinksAssumption, SMTT(60), Z3T(60) DEF LinksInit, LinksTypeOK, Names
<1>3. ASSUME NEW s \in Schedulers PROVE Owned(s) = {}
  <2>1. list[s] = <<>> /\ pc[s] = "start"
      BY ThreadsAssumption, Zenon DEF LinksInit, Init, Heads, Threads
  <2> QED
      BY <2>1, OwnedForms, SMTT(30), Z3T(30) DEF OwnedAt, Has
<1>4. \A s \in Schedulers : LinksOfOwn(Owned(s), worker_link, folder[s], s)
    BY <1>3, Zenon DEF LinksOfOwn
<1>5. ASSUME NEW s \in Schedulers
      PROVE  /\ \A n \in Names : folder[s][n] = NoLink
             /\ n_workers[s] = 0 /\ max_workers[s] = 0
    BY Zenon DEF LinksInit
<1>6. \A s \in Schedulers : LinksOnlyOwn(Owned(s), worker_link, folder[s], s)
    BY <1>5, Zenon DEF LinksOnlyOwn
<1>7. ASSUME NEW s \in Schedulers
      PROVE  CountsLinks(Owned(s), worker_link, folder[s], n_workers[s], max_workers[s])
  <2>1. {i \in Names : folder[s][i] # NoLink} = {}
      BY <1>5, Zenon
  <2> QED
      BY <1>3, <1>5, <2>1, FS_EmptySet, Zenon DEF CountsLinks
<1> QED
    BY <1>2, <1>4, <1>6, <1>7, ShownForms, Zenon DEF Shown

\* The handlers with the folders do to the contexts what they do without: the
\* links are made and removed inside the calls and change none of their results
\* but the failure they report.
THEOREM LinksChangeNothing == LinksSpec => Spec
<1>1. LinksInit => Init
    BY Zenon DEF LinksInit
<1>2. [LinksNext]_<<vars, linkVars>> => [Next]_vars
    BY LinksNextIsNext, Zenon
<1> QED
    BY <1>1, <1>2, PTL DEF LinksSpec, Spec

\* The invariant of the dispatch core, what the folders show and the types of
\* their variables hold always.
THEOREM LinksInductive == LinksSpec => []LinksInv
<1>1. LinksInit => LinksTypeOK /\ Shown
    BY LinksInitShows, Zenon
<1>2. IInv /\ Kept /\ LinksTypeOK /\ Shown /\ [LinksNext]_<<vars, linkVars>>
        => LinksTypeOK' /\ Shown'
    BY LinksNextShows, Zenon DEF LinksInv
<1>3. IInv /\ Kept /\ LinksTypeOK /\ Shown => LinksInv
    BY Zenon DEF LinksInv
<1> QED
    BY <1>1, <1>2, <1>3, LinksChangeNothing, Inductive, NothingLost, PTL DEF LinksSpec

\* The variables of the folders keep their types: no name is given that is not
\* one, and unsigned long arithmetic never leaves its range.
THEOREM LinksTypeCorrect == LinksSpec => []LinksTypeOK
<1>1. LinksInv => LinksTypeOK
    BY Zenon DEF LinksInv
<1> QED
    BY <1>1, LinksInductive, PTL

\* The entry that exec_ums_context removes is that of the worker it runs, for
\* any number of schedulers, workers and failures.
THEOREM RemovesTheRightLink == LinksSpec => []RemovesOwnLink
<1>1. ASSUME LinksInv PROVE RemovesOwnLink
  <2> SUFFICES ASSUME NEW s \in Schedulers, pc[s] = "switch", worker_link[ctx[s]] # NoLink
               PROVE  worker_link[ctx[s]][1] = s /\ folder[s][worker_link[ctx[s]][2]] = ctx[s]
      BY Zenon DEF RemovesOwnLink
  <2>1. ctx[s] \in Workers
    <3>1. RunsOnlyParked /\ TypeOK
        BY <1>1, Zenon DEF LinksInv, IInv
    <3> QED
        BY <3>1, Zenon DEF RunsOnlyParked, Holding, TypeOK
  <2>2. ctx[s] \in Owned(s)
      BY <2>1, OwnedForms, Zenon DEF OwnedAt
  <2> QED
      BY <1>1, <2>2, Zenon DEF LinksInv, Shown, OwnLinks
<1> QED
    BY <1>1, LinksInductive, PTL

\* A scheduler that asks for contexts owns none.
LEMMA OwnsNoneWhenAsking ==
    ASSUME Kept, NEW s \in Schedulers, pc[s] = "dqcontext"
    PROVE  Owned(s) = {}
<1>1. list[s] = <<>>
    BY ZenonT(60) DEF Kept, AsksWhenEmpty
<1> QED
    BY <1>1, OwnedForms, SMTT(30), Z3T(30) DEF OwnedAt, Has

\* The next name is free when a scheduler asks for contexts, as long as only one
\* of the two kinds of failures happens: without lost contexts there is no link
\* left at all, without missing links the names left are below the counter.
THEOREM NamesAreFree == LinksSpec => []NextNameIsFree
<1>1. ASSUME LinksInv PROVE NextNameIsFree
  <2> SUFFICES ASSUME faults = 0 \/ link_faults = 0, NEW s \in Schedulers,
                      pc[s] = "dqcontext", max_workers[s] < MaxNames
               PROVE  folder[s][max_workers[s] + 1] = NoLink
      BY Zenon DEF NextNameIsFree, Refused, Local
  <2>1. /\ Kept /\ max_workers[s] \in 0 .. MaxNames
        /\ faults = 0 => OnlyOwned
        /\ link_faults = 0 => Counted
      BY <1>1, Zenon DEF LinksInv, LinksTypeOK, Shown
  <2>2. PICK m : m = max_workers[s]
      BY Zenon
  <2>3. m + 1 \in Names /\ ~(m + 1 <= m)
      BY <2>1, <2>2, LinksAssumption, SMTT(30), Z3T(30) DEF Names
  <2>4. CASE faults = 0
      BY <2>1, <2>2, <2>3, <2>4, OwnsNoneWhenAsking, ZenonT(60) DEF OnlyOwned
  <2>5. CASE link_faults = 0
      BY <2>1, <2>2, <2>3, <2>5, ZenonT(60) DEF Counted, Used
  <2> QED
      BY <2>4, <2>5, Zenon
<1> QED
    BY <1>1, LinksInductive, PTL

\* The folder of a scheduler shows the workers it owns, and n_workers is their
\* number, for any number of schedulers and workers, as long as nothing fails.
THEOREM FoldersAreExact == LinksSpec => []FolderShowsOwned
<1>1. ASSUME LinksInv PROVE FolderShowsOwned
  <2>1. faults \in Nat /\ link_faults \in Nat
      BY <1>1, BoundsAssumption, LinksAssumption, SMTT(30), Z3T(30) DEF LinksInv, LinksTypeOK, TypeOK
  <2>2. faults + link_faults = 0 => faults = 0 /\ link_faults = 0
      BY <2>1
  <2> QED
      BY <1>1, <2>2, FolderShows, ZenonT(60) DEF LinksInv, FolderShowsOwned
<1> QED
    BY <1>1, LinksInductive, PTL
=============================================================================
