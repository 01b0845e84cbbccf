--------------------------- MODULE UmsListProofs ----------------------------
(***************************************************************************)
(* What list.h promises, for any number of heads and entries and whatever  *)
(* the order of the calls: the rings stay closed, the safe loop visits     *)
(* what it started on, and the functions do to the lists what              *)
(* SequenceLists says.  Each action is first followed through the lemmas   *)
(* of UmsRingProofs.                                                       *)
(***************************************************************************)
EXTENDS UmsRingProofs

-----------------------------------------------------------------------------
(* The operations.  Each keeps the invariant and is one of those that      *)
(* SequenceLists allows.                                                   *)

\* What a node stands for, as the refinement mapping has it.
Held == [n \in Nodes |-> IF role[n] = "head" THEN Contents(mem, n) ELSE <<>>]

\* No entry of a list is a head.
LEMMA NoHeadInside ==
    ASSUME NEW m, NEW H, NEW R, Rings(m, H, R), NEW h \in H
    PROVE  /\ Contents(m, h) \in Seq(Nodes)
           /\ \A i \in 1 .. Len(Contents(m, h)) :
                 Contents(m, h)[i] \in R /\ Contents(m, h)[i] \notin H
<1>1. PICK own : m \in Mem /\ Labelled(own, m, H, R)
    BY Zenon DEF Rings
<1>2. Linked(m, R) /\ h \in R /\ \A n \in H : own[n] = n
    BY <1>1, RingFacts
<1> DEFINE c == Contents(m, h)
<1>3. ListOf(m, R, h, c)
    BY <1>2, RingContents DEF ListOf
<1>4. \A i \in 1 .. Len(c) : own[c[i]] = h
    BY <1>1, RingLabels
<1> HIDE DEF c
<1>5. c \in Seq(Nodes) /\ \A i \in 1 .. Len(c) : c[i] \in R /\ c[i] # h
    BY <1>3, Zenon DEF ListOf, Chain
<1>6. \A i \in 1 .. Len(c) : c[i] \notin H
    BY <1>2, <1>4, <1>5
<1> QED
    BY <1>5, <1>6 DEF c

\* What the invariant says of the nodes.
LEMMA NodeFacts ==
    ASSUME IInv
    PROVE  /\ Rings(mem, HeadNodes, InLists) /\ mem \in Mem
           /\ role \in [Nodes -> {"head", "linked", "poison", "stale", "lost"}]
           /\ \A n \in Nodes : n \in HeadNodes <=> role[n] = "head"
           /\ \A n \in Nodes : n \in InLists <=> role[n] \in {"head", "linked"}
           /\ HeadNodes \subseteq InLists /\ InLists \subseteq Nodes
           /\ \A n \in Heads : role[n] \in {"head", "stale"}
           /\ \A n \in Entries : n \in Nodes /\ n \notin Heads
<1>1. Rings(mem, HeadNodes, InLists) /\ mem \in Mem
    BY Zenon DEF IInv, OneHeadEach, Rings
<1>2. /\ role \in [Nodes -> {"head", "linked", "poison", "stale", "lost"}]
      /\ \A n \in Heads : role[n] \in {"head", "stale"}
    BY Zenon DEF IInv, TypeOK
<1>3. /\ \A n \in Nodes : n \in HeadNodes <=> role[n] = "head"
      /\ \A n \in Nodes : n \in InLists <=> role[n] \in {"head", "linked"}
      /\ HeadNodes \subseteq InLists /\ InLists \subseteq Nodes
    BY DEF HeadNodes, InLists, InList
<1>4. \A n \in Entries : n \in Nodes /\ n \notin Heads
    BY ListAssumption DEF Nodes
<1> QED
    BY <1>1, <1>2, <1>3, <1>4

\* The invariant after an operation that is not a step of a loop.
LEMMA OutsideLoops ==
    ASSUME IInv, Idle, UNCHANGED loop,
           role' \in [Nodes -> {"head", "linked", "poison", "stale", "lost"}],
           \A h \in Heads : role'[h] \in {"head", "stale"},
           NEW H, NEW R, Rings(mem', H, R),
           \A n \in Nodes : n \in H <=> role'[n] = "head",
           \A n \in Nodes : n \in R <=> role'[n] \in {"head", "linked"}
    PROVE  IInv'
<1>1. H \subseteq R /\ R \subseteq Nodes /\ mem' \in Mem
    BY Zenon DEF Rings, Labelled, Linked
<1>2. H = HeadNodes'
    BY <1>1 DEF HeadNodes
<1>3. R = InLists'
    BY <1>1 DEF InLists, InList
<1>4. OneHeadEach'
    BY <1>2, <1>3 DEF OneHeadEach
<1>5. Idle'
    BY DEF Idle
<1>6. TypeOK'
    BY <1>1, <1>5 DEF TypeOK, Mem
<1> QED
    BY <1>4, <1>5, <1>6 DEF IInv, Looping

\* INIT_LIST_HEAD
LEMMA InitListHeadStep ==
    ASSUME IInv, NEW n \in Nodes, InitListHead(n)
    PROVE  IInv' /\ Promise!Initialise(n)
<1>1. /\ Idle /\ role[n] \in {"poison", "stale"} /\ mem' = Initialised(mem, n)
      /\ role' = [role EXCEPT ![n] = "head"] /\ UNCHANGED loop
    BY Zenon DEF InitListHead, SetRole
<1>2. /\ Rings(mem, HeadNodes, InLists)
      /\ role \in [Nodes -> {"head", "linked", "poison", "stale", "lost"}]
      /\ \A k \in Nodes : k \in HeadNodes <=> role[k] = "head"
      /\ \A k \in Nodes : k \in InLists <=> role[k] \in {"head", "linked"}
      /\ HeadNodes \subseteq InLists /\ InLists \subseteq Nodes
      /\ \A k \in Heads : role[k] \in {"head", "stale"}
    BY NodeFacts, Zenon
<1>3. n \notin InLists
    BY <1>1, <1>2
<1>4. /\ Rings(mem', HeadNodes \cup {n}, InLists \cup {n})
      /\ Contents(mem', n) = <<>>
      /\ Same(mem, mem', HeadNodes)
    BY <1>1, <1>2, <1>3, InitialisedRings
<1>5. /\ role' \in [Nodes -> {"head", "linked", "poison", "stale", "lost"}]
      /\ \A k \in Nodes : role'[k] = IF k = n THEN "head" ELSE role[k]
    BY <1>1, <1>2
<1>6. \A k \in Heads : role'[k] \in {"head", "stale"}
    BY <1>2, <1>5 DEF Nodes
<1>7. /\ \A k \in Nodes : k \in HeadNodes \cup {n} <=> role'[k] = "head"
      /\ \A k \in Nodes : k \in InLists \cup {n} <=> role'[k] \in {"head", "linked"}
    BY <1>2, <1>5
<1>8. IInv'
    BY <1>1, <1>4, <1>5, <1>6, <1>7, OutsideLoops
<1>9. Held' = Held
  <2>1. ASSUME NEW k \in Nodes
        PROVE  (IF role'[k] = "head" THEN Contents(mem', k) ELSE <<>>) =
                  IF role[k] = "head" THEN Contents(mem, k) ELSE <<>>
      BY <1>1, <1>2, <1>4, <1>5 DEF Same
  <2> QED
      BY <2>1, Zenon DEF Held
<1> QED
    BY <1>1, <1>8, <1>9, Zenon DEF Promise!Initialise, Held

\* list_del: poison in the entry does not matter to the rings.
LEMMA DeletedRings ==
    ASSUME NEW m, NEW H, NEW R, Rings(m, H, R), NEW e \in R, e \notin H
    PROVE  /\ Rings(Deleted(m, e), H, R \ {e})
           /\ Shortens(m, Deleted(m, e), H, e)
           /\ Skips(m, Deleted(m, e), R \ {e}, e) \/ m.prev[e] = e
<1> DEFINE u == Unlinked(m, m.prev[e], m.next[e])
           d == Deleted(m, e)
<1>1. PICK own : m \in Mem /\ Labelled(own, m, H, R)
    BY Zenon DEF Rings
<1>2. /\ R \subseteq Nodes /\ H \subseteq R
      /\ \A n \in R : m.next[n] \in R /\ m.prev[n] \in R
    BY <1>1, RingFacts
<1>3. Rings(u, H, R \ {e}) /\ Shortens(m, u, H, e) /\ Skips(m, u, R, e)
    BY UnlinkedRings
<1>4. /\ d \in Mem
      /\ \A n \in Nodes \ {e} : d.next[n] = u.next[n] /\ d.prev[n] = u.prev[n]
  <2>1. e \in Nodes /\ m.prev[e] \in Nodes /\ m.next[e] \in Nodes
      BY <1>2, Zenon
  <2> QED
      BY <1>1, <2>1, DeletedWrites, Zenon
<1> HIDE DEF u, d
<1>5. Rings(d, H, R \ {e}) /\ Same(u, d, R \ {e})
  <2>1. \A n \in R \ {e} : d.next[n] = u.next[n] /\ d.prev[n] = u.prev[n]
      BY <1>2, <1>4
  <2> QED
      BY <1>3, <1>4, <2>1, SamePointers, Zenon
<1>6. Shortens(m, d, H, e)
    BY <1>2, <1>3, <1>5 DEF Same, Shortens
<1>7. Skips(m, d, R \ {e}, e) \/ m.prev[e] = e
    BY <1>2, <1>3, <1>4, Zenon DEF Skips
<1> QED
    BY <1>5, <1>6, <1>7, Zenon DEF d

\* What the nodes stand for after an entry left its list.
LEMMA HeldWithout ==
    ASSUME IInv, NEW e \in Nodes, role[e] = "linked",
           \A n \in Nodes : n # e => role'[n] = role[n],
           Shortens(mem, mem', HeadNodes, e),
           role'[e] = "head" => Contents(mem', e) = <<>>
    PROVE  Held' = [n \in Nodes |-> Promise!Without(Held[n], e)]
<1>1. Promise!Without(<<>>, e) = <<>>
  <2>1. ~\E i \in DOMAIN <<>> : <<>>[i] = e
      OBVIOUS
  <2> QED
      BY <2>1, Zenon DEF Promise!Without
<1>2. \A n \in Nodes : n \in HeadNodes <=> role[n] = "head"
    BY NodeFacts, Zenon
<1>3. ASSUME NEW n \in Nodes
      PROVE  (IF role'[n] = "head" THEN Contents(mem', n) ELSE <<>>) =
                Promise!Without(IF role[n] = "head" THEN Contents(mem, n) ELSE <<>>, e)
  <2>1. CASE n = e
      BY <1>1, <2>1, Zenon
  <2>2. CASE n # e /\ role[n] = "head"
      BY <1>2, <2>2 DEF Shortens
  <2>3. CASE n # e /\ role[n] # "head"
      BY <1>1, <2>3, Zenon
  <2> QED
      BY <2>1, <2>2, <2>3, Zenon
<1>4. \A n \in Nodes : Held[n] = IF role[n] = "head" THEN Contents(mem, n) ELSE <<>>
    BY DEF Held
<1>5. Held' = [n \in Nodes |-> IF role'[n] = "head" THEN Contents(mem', n) ELSE <<>>]
    BY DEF Held
<1>6. \A n \in Nodes : (IF role'[n] = "head" THEN Contents(mem', n) ELSE <<>>)
                          = Promise!Without(Held[n], e)
    BY <1>3, <1>4, Zenon
<1> QED
    BY <1>5, <1>6, Zenon

\* list_del
LEMMA ListDelStep ==
    ASSUME IInv, NEW e \in Entries, ListDel(e)
    PROVE  IInv' /\ Promise!Delete(e)
<1>1. /\ Idle /\ role[e] = "linked" /\ mem' = Deleted(mem, e)
      /\ role' = [role EXCEPT ![e] = "poison"] /\ UNCHANGED loop
    BY Zenon DEF ListDel, SetRole
<1>2. /\ Rings(mem, HeadNodes, InLists)
      /\ role \in [Nodes -> {"head", "linked", "poison", "stale", "lost"}]
      /\ \A k \in Nodes : k \in HeadNodes <=> role[k] = "head"
      /\ \A k \in Nodes : k \in InLists <=> role[k] \in {"head", "linked"}
      /\ HeadNodes \subseteq InLists /\ InLists \subseteq Nodes
      /\ \A k \in Heads : role[k] \in {"head", "stale"}
      /\ e \in Nodes /\ e \notin Heads
    BY NodeFacts, Zenon
<1>3. e \in InLists /\ e \notin HeadNodes
    BY <1>1, <1>2
<1>4. Rings(mem', HeadNodes, InLists \ {e}) /\ Shortens(mem, mem', HeadNodes, e)
    BY <1>1, <1>2, <1>3, DeletedRings, Zenon
<1>5. /\ role' \in [Nodes -> {"head", "linked", "poison", "stale", "lost"}]
      /\ \A k \in Nodes : role'[k] = IF k = e THEN "poison" ELSE role[k]
    BY <1>1, <1>2, Zenon
<1>6. /\ \A k \in Heads : role'[k] \in {"head", "stale"}
      /\ \A k \in Nodes : k \in HeadNodes <=> role'[k] = "head"
      /\ \A k \in Nodes : k \in InLists \ {e} <=> role'[k] \in {"head", "linked"}
    BY <1>2, <1>3, <1>5, Zenon DEF Nodes
<1>7. IInv'
    BY <1>1, <1>4, <1>5, <1>6, OutsideLoops, SMTT(60), Z3T(60)
<1>8. Held' = [n \in Nodes |-> Promise!Without(Held[n], e)]
    BY <1>1, <1>2, <1>4, <1>5, HeldWithout, SMTT(60), Z3T(60)
<1>9. Promise!Delete(e)
    BY <1>1, <1>8, Zenon DEF Promise!Delete, Promise!Removed, Promise!Nodes, Nodes, Held
<1> QED
    BY <1>7, <1>9, Zenon

\* list_del_init
LEMMA ListDelInitStep ==
    ASSUME IInv, NEW e \in Entries, ListDelInit(e)
    PROVE  IInv' /\ Promise!Delete(e)
<1> DEFINE u == Unlinked(mem, mem.prev[e], mem.next[e])
<1>1. /\ Idle /\ role[e] = "linked" /\ mem' = Initialised(u, e)
      /\ role' = [role EXCEPT ![e] = "head"] /\ UNCHANGED loop
    BY Zenon DEF ListDelInit, SetRole
<1>2. /\ Rings(mem, HeadNodes, InLists)
      /\ role \in [Nodes -> {"head", "linked", "poison", "stale", "lost"}]
      /\ \A k \in Nodes : k \in HeadNodes <=> role[k] = "head"
      /\ \A k \in Nodes : k \in InLists <=> role[k] \in {"head", "linked"}
      /\ HeadNodes \subseteq InLists /\ InLists \subseteq Nodes
      /\ \A k \in Heads : role[k] \in {"head", "stale"}
      /\ e \in Nodes /\ e \notin Heads
    BY NodeFacts, Zenon
<1>3. e \in InLists /\ e \notin HeadNodes
    BY <1>1, <1>2, Zenon
<1> HIDE DEF u
<1>4. Rings(u, HeadNodes, InLists \ {e}) /\ Shortens(mem, u, HeadNodes, e)
    BY <1>2, <1>3, UnlinkedRings, Zenon DEF u
<1>5. /\ Rings(mem', HeadNodes \cup {e}, (InLists \ {e}) \cup {e})
      /\ Contents(mem', e) = <<>> /\ Same(u, mem', HeadNodes)
  <2>1. e \notin InLists \ {e}
      OBVIOUS
  <2> QED
      BY <1>1, <1>2, <1>4, <2>1, InitialisedRings, Zenon
<1>6. Shortens(mem, mem', HeadNodes, e)
    BY <1>4, <1>5 DEF Same, Shortens
<1>7. /\ role' \in [Nodes -> {"head", "linked", "poison", "stale", "lost"}]
      /\ \A k \in Nodes : role'[k] = IF k = e THEN "head" ELSE role[k]
    BY <1>1, <1>2, Zenon
<1>8. /\ \A k \in Heads : role'[k] \in {"head", "stale"}
      /\ \A k \in Nodes : k \in HeadNodes \cup {e} <=> role'[k] = "head"
      /\ \A k \in Nodes : k \in (InLists \ {e}) \cup {e} <=> role'[k] \in {"head", "linked"}
    BY <1>2, <1>3, <1>7 DEF Nodes
<1>9. IInv'
    BY <1>1, <1>5, <1>7, <1>8, OutsideLoops, SMTT(60), Z3T(60)
<1>10. Held' = [n \in Nodes |-> Promise!Without(Held[n], e)]
    BY <1>1, <1>2, <1>5, <1>6, <1>7, HeldWithout, Zenon
<1>11. Promise!Delete(e)
    BY <1>1, <1>10, Zenon DEF Promise!Delete, Promise!Removed, Promise!Nodes, Nodes, Held
<1> QED
    BY <1>9, <1>11

\* What list_move and list_move_tail have in common.
LEMMA Moved ==
    ASSUME IInv, Idle, UNCHANGED <<role, loop>>,
           NEW e \in Entries, role[e] = "linked", NEW h \in Nodes, role[h] = "head",
           NEW u, Shortens(mem, u, HeadNodes, e), Same(u, mem', HeadNodes \ {h}),
           Rings(mem', HeadNodes, (InLists \ {e}) \cup {e})
    PROVE  /\ IInv'
           /\ Held' = [n \in Nodes |-> IF n = h THEN Contents(mem', h)
                                       ELSE Promise!Without(Held[n], e)]
<1>1. /\ role \in [Nodes -> {"head", "linked", "poison", "stale", "lost"}]
      /\ \A k \in Nodes : k \in HeadNodes <=> role[k] = "head"
      /\ \A k \in Nodes : k \in InLists <=> role[k] \in {"head", "linked"}
      /\ \A k \in Heads : role[k] \in {"head", "stale"}
      /\ e \in Nodes
    BY NodeFacts, Zenon
<1>2. e \in InLists
    BY <1>1, Zenon
<1>3. role' = role /\ loop' = loop
    BY Zenon
<1>4. \A k \in Nodes : k \in (InLists \ {e}) \cup {e} <=> role'[k] \in {"head", "linked"}
    BY <1>1, <1>2, <1>3, Zenon
<1>5. IInv'
  <2>1. /\ role' \in [Nodes -> {"head", "linked", "poison", "stale", "lost"}]
        /\ \A k \in Heads : role'[k] \in {"head", "stale"}
        /\ \A k \in Nodes : k \in HeadNodes <=> role'[k] = "head"
      BY <1>1, <1>3
  <2> QED
      BY <1>4, <2>1, OutsideLoops
<1>6. Promise!Without(<<>>, e) = <<>>
  <2>1. ~\E i \in DOMAIN <<>> : <<>>[i] = e
      OBVIOUS
  <2> QED
      BY <2>1, Zenon DEF Promise!Without
<1>7. ASSUME NEW n \in Nodes
      PROVE  (IF role'[n] = "head" THEN Contents(mem', n) ELSE <<>>) =
                IF n = h THEN Contents(mem', h)
                ELSE Promise!Without(IF role[n] = "head" THEN Contents(mem, n) ELSE <<>>, e)
  <2>1. CASE n = h
      BY <1>3, <2>1
  <2>2. CASE n # h /\ role[n] = "head"
    <3>1. n \in HeadNodes \ {h} /\ n \in HeadNodes
        BY <1>1, <2>2, Zenon
    <3>2. Contents(mem', n) = Contents(u, n)
        BY <3>1, Zenon DEF Same
    <3>3. Contents(u, n) = Promise!Without(Contents(mem, n), e)
        BY <3>1, Zenon DEF Shortens
    <3> QED
        BY <1>3, <2>2, <3>2, <3>3, Zenon
  <2>3. CASE n # h /\ role[n] # "head"
      BY <1>3, <1>6, <2>3
  <2> QED
      BY <2>1, <2>2, <2>3, Zenon
<1>8. \A n \in Nodes : Held[n] = IF role[n] = "head" THEN Contents(mem, n) ELSE <<>>
    BY DEF Held
<1>9. Held' = [n \in Nodes |-> IF role'[n] = "head" THEN Contents(mem', n) ELSE <<>>]
    BY DEF Held
<1>10. \A n \in Nodes : (IF role'[n] = "head" THEN Contents(mem', n) ELSE <<>>) =
                           IF n = h THEN Contents(mem', h) ELSE Promise!Without(Held[n], e)
    BY <1>7, <1>8, Zenon
<1>11. Held' = [n \in Nodes |-> IF n = h THEN Contents(mem', h)
                                ELSE Promise!Without(Held[n], e)]
    BY <1>9, <1>10, Zenon
<1> QED
    BY <1>5, <1>11, Zenon

\* list_move
LEMMA ListMoveStep ==
    ASSUME IInv, NEW e \in Entries, NEW h \in Nodes, ListMove(e, h)
    PROVE  IInv' /\ Promise!Move(e, h)
<1> DEFINE u == Unlinked(mem, mem.prev[e], mem.next[e])
<1>1. /\ Idle /\ role[e] = "linked" /\ role[h] = "head"
      /\ mem' = Added(u, e, h, u.next[h]) /\ UNCHANGED <<role, loop>>
    BY Zenon DEF ListMove
<1>2. /\ Rings(mem, HeadNodes, InLists) /\ e \in Nodes
      /\ e \in InLists /\ e \notin HeadNodes /\ h \in HeadNodes
    BY <1>1, NodeFacts, Zenon
<1> HIDE DEF u
<1>3. Rings(u, HeadNodes, InLists \ {e}) /\ Shortens(mem, u, HeadNodes, e)
    BY <1>2, UnlinkedRings, Zenon DEF u
<1>4. /\ Rings(mem', HeadNodes, (InLists \ {e}) \cup {e})
      /\ Contents(mem', h) = <<e>> \o Contents(u, h)
      /\ Same(u, mem', HeadNodes \ {h})
  <2>1. PICK H, R : H = HeadNodes /\ R = InLists \ {e}
      BY Zenon
  <2>2. Rings(u, H, R) /\ e \notin R /\ h \in H
      BY <1>2, <1>3, <2>1, Zenon
  <2> DEFINE k == Added(u, e, h, u.next[h])
  <2>3. /\ Rings(k, H, R \cup {e})
        /\ Contents(k, h) = <<e>> \o Contents(u, h)
        /\ Same(u, k, H \ {h})
      BY <1>2, <2>2, AddedFirst, Zenon
  <2> HIDE DEF k
  <2>4. mem' = k
      BY <1>1, Zenon DEF k
  <2> QED
      BY <2>1, <2>3, <2>4, Zenon
<1>5. Held[h] = Contents(mem, h)
    BY <1>1, Zenon DEF Held
<1>6. Contents(mem', h) = <<e>> \o Promise!Without(Held[h], e)
    BY <1>2, <1>3, <1>4, <1>5, Zenon DEF Shortens
<1>7. /\ IInv'
      /\ Held' = [n \in Nodes |-> IF n = h THEN Contents(mem', h)
                                  ELSE Promise!Without(Held[n], e)]
    BY <1>1, <1>3, <1>4, Moved, Zenon
<1> DEFINE f == [n \in Nodes |-> Promise!Without(Held[n], e)]
<1>8. Held' = [f EXCEPT ![h] = <<e>> \o @]
    BY <1>6, <1>7, Zenon
<1>9. Promise!Move(e, h)
    BY <1>1, <1>8, Zenon DEF Promise!Move, Promise!Removed, Promise!Nodes, Nodes, Held
<1> QED
    BY <1>7, <1>9

\* list_move_tail
LEMMA ListMoveTailStep ==
    ASSUME IInv, NEW e \in Entries, NEW h \in Nodes, ListMoveTail(e, h)
    PROVE  IInv' /\ Promise!Move(e, h)
<1> DEFINE u == Unlinked(mem, mem.prev[e], mem.next[e])
<1>1. /\ Idle /\ role[e] = "linked" /\ role[h] = "head"
      /\ mem' = Added(u, e, u.prev[h], h) /\ UNCHANGED <<role, loop>>
    BY Zenon DEF ListMoveTail
<1>2. /\ Rings(mem, HeadNodes, InLists) /\ e \in Nodes
      /\ e \in InLists /\ e \notin HeadNodes /\ h \in HeadNodes
    BY <1>1, NodeFacts, Zenon
<1> HIDE DEF u
<1>3. Rings(u, HeadNodes, InLists \ {e}) /\ Shortens(mem, u, HeadNodes, e)
    BY <1>2, UnlinkedRings, Zenon DEF u
<1>4. /\ Rings(mem', HeadNodes, (InLists \ {e}) \cup {e})
      /\ Contents(mem', h) = Append(Contents(u, h), e)
      /\ Same(u, mem', HeadNodes \ {h})
  <2>1. PICK H, R : H = HeadNodes /\ R = InLists \ {e}
      BY Zenon
  <2>2. Rings(u, H, R) /\ e \notin R /\ h \in H
      BY <1>2, <1>3, <2>1, Zenon
  <2> DEFINE k == Added(u, e, u.prev[h], h)
  <2>3. /\ Rings(k, H, R \cup {e})
        /\ Contents(k, h) = Append(Contents(u, h), e)
        /\ Same(u, k, H \ {h})
      BY <1>2, <2>2, AddedLast, Zenon
  <2> HIDE DEF k
  <2>4. mem' = k
      BY <1>1, Zenon DEF k
  <2> QED
      BY <2>1, <2>3, <2>4, Zenon
<1>5. Held[h] = Contents(mem, h)
    BY <1>1, Zenon DEF Held
<1>6. Contents(mem', h) = Append(Promise!Without(Held[h], e), e)
    BY <1>2, <1>3, <1>4, <1>5, Zenon DEF Shortens
<1>7. /\ IInv'
      /\ Held' = [n \in Nodes |-> IF n = h THEN Contents(mem', h)
                                  ELSE Promise!Without(Held[n], e)]
    BY <1>1, <1>3, <1>4, Moved, Zenon
<1> DEFINE f == [n \in Nodes |-> Promise!Without(Held[n], e)]
<1>8. Held' = [f EXCEPT ![h] = Append(@, e)]
    BY <1>6, <1>7, Zenon
<1>9. Promise!Move(e, h)
    BY <1>1, <1>8, Zenon DEF Promise!Move, Promise!Removed, Promise!Nodes, Nodes, Held
<1> QED
    BY <1>7, <1>9

\* What an added node stood for: nothing, unless it was the head of a list.
Lost(e) == {Held[e][i] : i \in DOMAIN Held[e]}

\* What list_add and list_add_tail find.
LEMMA BeforeInsert ==
    ASSUME IInv, NEW e \in Entries, NEW h \in Nodes, Insertable(e, h)
    PROVE  /\ Idle /\ UNCHANGED loop
           /\ role[e] \in {"poison", "head"} /\ role[h] = "head" /\ e # h /\ e \in Nodes
           /\ role' = [n \in Nodes |-> IF n = e THEN "linked"
                                       ELSE IF n \in Lost(e) THEN "lost" ELSE role[n]]
           /\ \A n \in Lost(e) : n \in InLists /\ n \notin HeadNodes
           /\ Rings(mem, HeadNodes \ {e}, InLists \ ({e} \cup Lost(e)))
<1> DEFINE lost == IF role[e] = "head"
                   THEN {Contents(mem, e)[i] : i \in DOMAIN Contents(mem, e)} ELSE {}
<1>1. /\ Idle /\ UNCHANGED loop
      /\ role[e] \in {"poison", "head"} /\ role[h] = "head" /\ e # h
      /\ role' = [n \in Nodes |-> IF n = e THEN "linked"
                                  ELSE IF n \in lost THEN "lost" ELSE role[n]]
    BY Zenon DEF Insertable
<1>2. /\ Rings(mem, HeadNodes, InLists) /\ e \in Nodes
      /\ e \in HeadNodes <=> role[e] = "head"
      /\ e \in InLists <=> role[e] \in {"head", "linked"}
    BY NodeFacts, Zenon
<1>3. Held[e] = IF role[e] = "head" THEN Contents(mem, e) ELSE <<>>
    BY <1>2, Zenon DEF Held
<1>4. CASE role[e] = "head"
  <2>1. Held[e] = Contents(mem, e) /\ e \in HeadNodes
      BY <1>2, <1>3, <1>4, Zenon
  <2>2. lost = Lost(e) /\ Ring(mem, e) = {e} \cup Lost(e)
      BY <1>4, <2>1, Zenon DEF Lost, Ring
  <2>3. Rings(mem, HeadNodes \ {e}, InLists \ Ring(mem, e))
      BY <1>2, <2>1, LostRings
  <2>4. /\ Contents(mem, e) \in Seq(Nodes)
        /\ \A i \in 1 .. Len(Contents(mem, e)) :
              Contents(mem, e)[i] \in InLists /\ Contents(mem, e)[i] \notin HeadNodes
      BY <1>2, <2>1, NoHeadInside, Zenon
  <2>5. \A n \in Lost(e) : n \in InLists /\ n \notin HeadNodes
      BY <2>1, <2>4 DEF Lost
  <2>6. Rings(mem, HeadNodes \ {e}, InLists \ ({e} \cup Lost(e)))
      BY <2>2, <2>3
  <2> QED
      BY <1>1, <1>2, <2>2, <2>5, <2>6, Zenon
<1>5. CASE role[e] # "head"
  <2>1. lost = {} /\ Lost(e) = {}
      BY <1>3, <1>5 DEF Lost
  <2>2. e \notin HeadNodes /\ e \notin InLists
      BY <1>1, <1>2, <1>5
  <2>3. HeadNodes \ {e} = HeadNodes /\ InLists \ ({e} \cup Lost(e)) = InLists
      BY <2>1, <2>2
  <2>4. Rings(mem, HeadNodes \ {e}, InLists \ ({e} \cup Lost(e)))
      BY <1>2, <2>3
  <2>5. lost = Lost(e) /\ \A n \in Lost(e) : n \in InLists /\ n \notin HeadNodes
      BY <2>1
  <2> QED
      BY <1>1, <1>2, <2>4, <2>5, Zenon
<1> QED
    BY <1>4, <1>5, Zenon

\* What list_add and list_add_tail have in common.
LEMMA AfterInsert ==
    ASSUME IInv, NEW e \in Entries, NEW h \in Nodes, Insertable(e, h),
           Rings(mem', HeadNodes \ {e}, (InLists \ ({e} \cup Lost(e))) \cup {e}),
           Same(mem, mem', (HeadNodes \ {e}) \ {h})
    PROVE  /\ IInv'
           /\ Held' = [n \in Nodes |-> IF n = e THEN <<>>
                                       ELSE IF n = h THEN Contents(mem', h) ELSE Held[n]]
<1>1. /\ Idle /\ UNCHANGED loop /\ role[h] = "head" /\ e # h /\ e \in Nodes
      /\ role' = [n \in Nodes |-> IF n = e THEN "linked"
                                  ELSE IF n \in Lost(e) THEN "lost" ELSE role[n]]
      /\ \A n \in Lost(e) : n \in InLists /\ n \notin HeadNodes
    BY BeforeInsert, Zenon
<1>2. /\ role \in [Nodes -> {"head", "linked", "poison", "stale", "lost"}]
      /\ \A k \in Nodes : k \in HeadNodes <=> role[k] = "head"
      /\ \A k \in Nodes : k \in InLists <=> role[k] \in {"head", "linked"}
      /\ \A k \in Heads : role[k] \in {"head", "stale"}
      /\ e \notin Heads
    BY NodeFacts, Zenon
<1>3. /\ role' \in [Nodes -> {"head", "linked", "poison", "stale", "lost"}]
      /\ \A k \in Nodes : role'[k] = IF k = e THEN "linked"
                                     ELSE IF k \in Lost(e) THEN "lost" ELSE role[k]
    BY <1>1, <1>2
<1>4. /\ \A k \in Heads : role'[k] \in {"head", "stale"}
      /\ \A k \in Nodes : k \in HeadNodes \ {e} <=> role'[k] = "head"
      /\ \A k \in Nodes : k \in (InLists \ ({e} \cup Lost(e))) \cup {e}
                             <=> role'[k] \in {"head", "linked"}
  <2>1. \A k \in Heads : k \in Nodes
      BY DEF Nodes
  <2>2. \A k \in Heads : k \notin Lost(e)
      BY <1>1, <1>2, <2>1
  <2>3. \A k \in Heads : role'[k] \in {"head", "stale"}
      BY <1>2, <1>3, <2>1, <2>2, SMTT(60), Z3T(60)
  <2>4. \A k \in Nodes : k \in HeadNodes \ {e} <=> role'[k] = "head"
      BY <1>1, <1>2, <1>3, Zenon
  <2>5. \A k \in Nodes : k \in (InLists \ ({e} \cup Lost(e))) \cup {e}
                            <=> role'[k] \in {"head", "linked"}
      BY <1>1, <1>2, <1>3, Zenon
  <2> QED
      BY <2>3, <2>4, <2>5, Zenon
<1>5. IInv'
    BY <1>1, <1>3, <1>4, OutsideLoops
<1>6. ASSUME NEW n \in Nodes
      PROVE  (IF role'[n] = "head" THEN Contents(mem', n) ELSE <<>>) =
                IF n = e THEN <<>> ELSE IF n = h THEN Contents(mem', h)
                ELSE IF role[n] = "head" THEN Contents(mem, n) ELSE <<>>
  <2>1. CASE n = e
      BY <1>3, <2>1, Zenon
  <2>2. CASE n = h
    <3>1. role'[n] = "head"
        BY <1>1, <1>2, <1>4, <2>2, Zenon
    <3> QED
        BY <1>1, <2>2, <3>1
  <2>3. CASE n # h /\ n # e /\ role[n] = "head"
    <3>1. n \in (HeadNodes \ {e}) \ {h} /\ role'[n] = "head"
        BY <1>2, <1>4, <2>3, Zenon
    <3>2. Contents(mem', n) = Contents(mem, n)
        BY <3>1, Zenon DEF Same
    <3> QED
        BY <2>3, <3>1, <3>2, Zenon
  <2>4. CASE n # h /\ n # e /\ role[n] # "head"
    <3>1. role'[n] # "head"
        BY <1>2, <1>4, <2>4, Zenon
    <3> QED
        BY <2>4, <3>1, Zenon
  <2> QED
      BY <2>1, <2>2, <2>3, <2>4, Zenon
<1>7. \A n \in Nodes : Held[n] = IF role[n] = "head" THEN Contents(mem, n) ELSE <<>>
    BY Zenon DEF Held
<1>8. Held' = [n \in Nodes |-> IF role'[n] = "head" THEN Contents(mem', n) ELSE <<>>]
    BY Zenon DEF Held
<1>9. \A n \in Nodes : (IF role'[n] = "head" THEN Contents(mem', n) ELSE <<>>) =
                          IF n = e THEN <<>> ELSE IF n = h THEN Contents(mem', h) ELSE Held[n]
    BY <1>6, <1>7, Zenon
<1>10. Held' = [n \in Nodes |-> IF n = e THEN <<>>
                                ELSE IF n = h THEN Contents(mem', h) ELSE Held[n]]
    BY <1>8, <1>9, Zenon
<1> QED
    BY <1>5, <1>10

\* list_add
LEMMA ListAddStep ==
    ASSUME IInv, NEW e \in Entries, NEW h \in Nodes, ListAdd(e, h)
    PROVE  IInv' /\ Promise!Insert(e, h)
<1>1. Insertable(e, h) /\ mem' = Added(mem, e, h, mem.next[h])
    BY Zenon DEF ListAdd
<1>2. /\ role[e] \in {"poison", "head"} /\ role[h] = "head" /\ e # h /\ e \in Nodes
      /\ role' = [n \in Nodes |-> IF n = e THEN "linked"
                                  ELSE IF n \in Lost(e) THEN "lost" ELSE role[n]]
      /\ Rings(mem, HeadNodes \ {e}, InLists \ ({e} \cup Lost(e)))
    BY <1>1, BeforeInsert, Zenon
<1>3. h \in HeadNodes \ {e} /\ e \notin InLists \ ({e} \cup Lost(e))
    BY <1>2, NodeFacts, Zenon
<1>4. /\ Rings(mem', HeadNodes \ {e}, (InLists \ ({e} \cup Lost(e))) \cup {e})
      /\ Contents(mem', h) = <<e>> \o Contents(mem, h)
      /\ Same(mem, mem', (HeadNodes \ {e}) \ {h})
  <2>1. PICK H, R : H = HeadNodes \ {e} /\ R = InLists \ ({e} \cup Lost(e))
      BY Zenon
  <2>2. Rings(mem, H, R) /\ h \in H /\ e \notin R
      BY <1>2, <1>3, <2>1, Zenon
  <2>3. /\ Rings(mem', H, R \cup {e}) /\ Contents(mem', h) = <<e>> \o Contents(mem, h)
        /\ Same(mem, mem', H \ {h})
      BY <1>1, <1>2, <2>2, AddedFirst, Zenon
  <2> QED
      BY <2>1, <2>3, Zenon
<1>5. /\ IInv'
      /\ Held' = [n \in Nodes |-> IF n = e THEN <<>>
                                  ELSE IF n = h THEN Contents(mem', h) ELSE Held[n]]
    BY <1>1, <1>4, AfterInsert, Zenon
<1>6. Held[h] = Contents(mem, h) /\ Held = [n \in Nodes |-> Held[n]]
    BY <1>2, Zenon DEF Held
<1>7. Held' = [Held EXCEPT ![h] = <<e>> \o @, ![e] = <<>>]
    BY <1>2, <1>4, <1>5, <1>6, Zenon
<1>8. Promise!Insert(e, h)
    BY <1>2, <1>7, Zenon DEF Promise!Insert, Promise!Members, Promise!Nodes, Nodes, Held, Lost
<1> QED
    BY <1>5, <1>8

\* list_add_tail
LEMMA ListAddTailStep ==
    ASSUME IInv, NEW e \in Entries, NEW h \in Nodes, ListAddTail(e, h)
    PROVE  IInv' /\ Promise!Insert(e, h)
<1>1. Insertable(e, h) /\ mem' = Added(mem, e, mem.prev[h], h)
    BY Zenon DEF ListAddTail
<1>2. /\ role[e] \in {"poison", "head"} /\ role[h] = "head" /\ e # h /\ e \in Nodes
      /\ role' = [n \in Nodes |-> IF n = e THEN "linked"
                                  ELSE IF n \in Lost(e) THEN "lost" ELSE role[n]]
      /\ Rings(mem, HeadNodes \ {e}, InLists \ ({e} \cup Lost(e)))
    BY <1>1, BeforeInsert, Zenon
<1>3. h \in HeadNodes \ {e} /\ e \notin InLists \ ({e} \cup Lost(e))
    BY <1>2, NodeFacts, Zenon
<1>4. /\ Rings(mem', HeadNodes \ {e}, (InLists \ ({e} \cup Lost(e))) \cup {e})
      /\ Contents(mem', h) = Append(Contents(mem, h), e)
      /\ Same(mem, mem', (HeadNodes \ {e}) \ {h})
  <2>1. PICK H, R : H = HeadNodes \ {e} /\ R = InLists \ ({e} \cup Lost(e))
      BY Zenon
  <2>2. Rings(mem, H, R) /\ h \in H /\ e \notin R
      BY <1>2, <1>3, <2>1, Zenon
  <2>3. /\ Rings(mem', H, R \cup {e}) /\ Contents(mem', h) = Append(Contents(mem, h), e)
        /\ Same(mem, mem', H \ {h})
      BY <1>1, <1>2, <2>2, AddedLast, Zenon
  <2> QED
      BY <2>1, <2>3, Zenon
<1>5. /\ IInv'
      /\ Held' = [n \in Nodes |-> IF n = e THEN <<>>
                                  ELSE IF n = h THEN Contents(mem', h) ELSE Held[n]]
    BY <1>1, <1>4, AfterInsert, Zenon
<1>6. Held[h] = Contents(mem, h) /\ Held = [n \in Nodes |-> Held[n]]
    BY <1>2, Zenon DEF Held
<1>7. Held' = [Held EXCEPT ![h] = Append(@, e), ![e] = <<>>]
    BY <1>2, <1>4, <1>5, <1>6, Zenon
<1>8. Promise!Insert(e, h)
    BY <1>2, <1>7, Zenon DEF Promise!Insert, Promise!Members, Promise!Nodes, Nodes, Held, Lost
<1> QED
    BY <1>5, <1>8

\* list_splice
LEMMA ListSpliceStep ==
    ASSUME IInv, NEW l \in Nodes, NEW h \in Nodes, ListSplice(l, h)
    PROVE  IInv' /\ Promise!Splice(l, h)
<1>1. /\ Idle /\ role[l] = "head" /\ role[h] = "head" /\ l # h /\ mem.next[l] # l
      /\ mem' = Spliced(mem, l, h)
      /\ role' = [role EXCEPT ![l] = "stale"] /\ UNCHANGED loop
    BY Zenon DEF ListSplice, SetRole, Empty
<1>2. /\ Rings(mem, HeadNodes, InLists)
      /\ role \in [Nodes -> {"head", "linked", "poison", "stale", "lost"}]
      /\ \A k \in Nodes : k \in HeadNodes <=> role[k] = "head"
      /\ \A k \in Nodes : k \in InLists <=> role[k] \in {"head", "linked"}
      /\ \A k \in Heads : role[k] \in {"head", "stale"}
    BY NodeFacts, Zenon
<1>3. l \in HeadNodes /\ h \in HeadNodes
    BY <1>1, <1>2
<1>4. /\ Rings(mem', HeadNodes \ {l}, InLists \ {l})
      /\ Contents(mem', h) = Contents(mem, l) \o Contents(mem, h)
      /\ Same(mem, mem', HeadNodes \ {l, h})
  <2> DEFINE k == Spliced(mem, l, h)
  <2>1. mem' = k
      BY <1>1, Zenon
  <2> HIDE DEF k
  <2>2. /\ Rings(k, HeadNodes \ {l}, InLists \ {l})
        /\ Contents(k, h) = Contents(mem, l) \o Contents(mem, h)
        /\ Same(mem, k, HeadNodes \ {l, h})
      BY <1>1, <1>2, <1>3, SplicedRings, Zenon DEF k
  <2> QED
      BY <2>1, <2>2, Zenon
<1>5. /\ role' \in [Nodes -> {"head", "linked", "poison", "stale", "lost"}]
      /\ \A k \in Nodes : role'[k] = IF k = l THEN "stale" ELSE role[k]
    BY <1>1, <1>2, Zenon
<1>6. /\ \A k \in Heads : role'[k] \in {"head", "stale"}
      /\ \A k \in Nodes : k \in HeadNodes \ {l} <=> role'[k] = "head"
      /\ \A k \in Nodes : k \in InLists \ {l} <=> role'[k] \in {"head", "linked"}
    BY <1>2, <1>5, Zenon DEF Nodes
<1>7. IInv'
    BY <1>1, <1>4, <1>5, <1>6, OutsideLoops, Zenon
<1>8. Held' = [Held EXCEPT ![h] = Held[l] \o @, ![l] = <<>>]
  <2>1. Held[h] = Contents(mem, h) /\ Held[l] = Contents(mem, l)
      BY <1>1, Zenon DEF Held
  <2>2. Held'[l] = <<>> /\ Held'[h] = Held[l] \o Held[h]
      BY <1>1, <1>4, <1>5, <2>1, Zenon DEF Held
  <2>3. ASSUME NEW n \in Nodes, n # l, n # h
        PROVE  Held'[n] = Held[n]
    <3>1. role'[n] = role[n]
        BY <1>5, <2>3
    <3>2. role[n] = "head" => Contents(mem', n) = Contents(mem, n)
        BY <1>2, <1>4, <2>3, Zenon DEF Same
    <3> QED
        BY <3>1, <3>2, Zenon DEF Held
  <2>4. Held = [n \in Nodes |-> Held[n]] /\ Held' = [n \in Nodes |-> Held'[n]]
      BY Zenon DEF Held
  <2> QED
      BY <1>1, <2>2, <2>3, <2>4, Zenon
<1>9. Promise!Splice(l, h)
    BY <1>1, <1>8, Zenon DEF Promise!Splice, Held
<1> QED
    BY <1>7, <1>9, Zenon

\* list_splice_init
LEMMA ListSpliceInitStep ==
    ASSUME IInv, NEW l \in Nodes, NEW h \in Nodes, ListSpliceInit(l, h)
    PROVE  IInv' /\ Promise!Splice(l, h)
<1> DEFINE k == Spliced(mem, l, h)
<1>1. /\ Idle /\ role[l] = "head" /\ role[h] = "head" /\ l # h /\ mem.next[l] # l
      /\ mem' = Initialised(k, l) /\ role' = role /\ UNCHANGED loop
    BY Zenon DEF ListSpliceInit, Empty
<1>2. /\ Rings(mem, HeadNodes, InLists)
      /\ role \in [Nodes -> {"head", "linked", "poison", "stale", "lost"}]
      /\ \A n \in Nodes : n \in HeadNodes <=> role[n] = "head"
      /\ \A n \in Nodes : n \in InLists <=> role[n] \in {"head", "linked"}
      /\ \A n \in Heads : role[n] \in {"head", "stale"}
    BY NodeFacts, Zenon
<1>3. l \in HeadNodes /\ h \in HeadNodes
    BY <1>1, <1>2, Zenon
<1> HIDE DEF k
<1>4. /\ Rings(k, HeadNodes \ {l}, InLists \ {l})
      /\ Contents(k, h) = Contents(mem, l) \o Contents(mem, h)
      /\ Same(mem, k, HeadNodes \ {l, h})
    BY <1>1, <1>2, <1>3, SplicedRings, Zenon DEF k
<1>5. /\ Rings(mem', (HeadNodes \ {l}) \cup {l}, (InLists \ {l}) \cup {l})
      /\ Contents(mem', l) = <<>>
      /\ Same(k, mem', HeadNodes \ {l})
  <2>1. PICK H, R : H = HeadNodes \ {l} /\ R = InLists \ {l}
      BY Zenon
  <2>2. Rings(k, H, R) /\ l \notin R
      BY <1>4, <2>1
  <2>3. /\ Rings(mem', H \cup {l}, R \cup {l}) /\ Contents(mem', l) = <<>>
        /\ Same(k, mem', H)
      BY <1>1, <2>2, InitialisedRings, Zenon
  <2> QED
      BY <2>1, <2>3
<1>6. /\ role' \in [Nodes -> {"head", "linked", "poison", "stale", "lost"}]
      /\ \A n \in Heads : role'[n] \in {"head", "stale"}
      /\ \A n \in Nodes : n \in (HeadNodes \ {l}) \cup {l} <=> role'[n] = "head"
      /\ \A n \in Nodes : n \in (InLists \ {l}) \cup {l} <=> role'[n] \in {"head", "linked"}
    BY <1>1, <1>2
<1>7. IInv'
    BY <1>1, <1>5, <1>6, OutsideLoops, SMTT(60), Z3T(60)
<1>8. Held' = [Held EXCEPT ![h] = Held[l] \o @, ![l] = <<>>]
  <2>1. Held[h] = Contents(mem, h) /\ Held[l] = Contents(mem, l)
      BY <1>1, Zenon DEF Held
  <2>2. Contents(mem', h) = Contents(k, h)
      BY <1>1, <1>3, <1>5, Zenon DEF Same
  <2>3. Held'[l] = <<>> /\ Held'[h] = Held[l] \o Held[h]
      BY <1>1, <1>4, <1>5, <2>1, <2>2, Zenon DEF Held
  <2>4. ASSUME NEW n \in Nodes, n # l, n # h
        PROVE  Held'[n] = Held[n]
    <3>1. ASSUME role[n] = "head" PROVE Contents(mem', n) = Contents(mem, n)
      <4>1. n \in HeadNodes \ {l} /\ n \in HeadNodes \ {l, h}
          BY <1>2, <2>4, <3>1, SMTT(60), Z3T(60)
      <4>2. Contents(mem', n) = Contents(k, n) /\ Contents(k, n) = Contents(mem, n)
          BY <1>4, <1>5, <4>1, Zenon DEF Same
      <4> QED
          BY <4>2, Zenon
    <3> QED
        BY <1>1, <3>1, Zenon DEF Held
  <2>5. Held = [n \in Nodes |-> Held[n]] /\ Held' = [n \in Nodes |-> Held'[n]]
      BY Zenon DEF Held
  <2> QED
      BY <1>1, <2>3, <2>4, <2>5, Zenon
<1>9. role' = [role EXCEPT ![l] = "head"]
    BY <1>1, <1>2, Zenon
<1>10. Promise!Splice(l, h)
    BY <1>1, <1>8, <1>9, Zenon DEF Promise!Splice, Held
<1> QED
    BY <1>7, <1>10

\* The first entry of a list that is not empty.
LEMMA FirstEntry ==
    ASSUME NEW m, NEW H, NEW R, Rings(m, H, R), NEW h \in H, m.next[h] # h
    PROVE  /\ Contents(m, h) \in Seq(Nodes) /\ Contents(m, h) # <<>>
           /\ Len(Contents(m, h)) \in Nat /\ Len(Contents(m, h)) >= 1
           /\ Head(Contents(m, h)) = m.next[h] /\ Contents(m, h)[1] = m.next[h]
           /\ m.next[h] \in R /\ m.next[h] \notin H
           /\ Promise!Without(Contents(m, h), m.next[h]) = Tail(Contents(m, h))
           /\ \A n \in H : n # h => Promise!Without(Contents(m, n), m.next[h]) = Contents(m, n)
<1>1. PICK own : m \in Mem /\ Labelled(own, m, H, R)
    BY Zenon DEF Rings
<1>2. /\ Linked(m, R) /\ h \in R /\ H \subseteq R /\ \A n \in H : own[n] = n
      /\ \A n \in R : own[m.next[n]] = own[n]
    BY <1>1, RingFacts
<1> DEFINE c == Contents(m, h)
           e == m.next[h]
<1>3. c \in Seq(Nodes) /\ Chain(m.next, h, c) /\ Distinct(c)
    BY <1>2, RingContents, Zenon
<1>4. \A i \in 1 .. Len(c) : c[i] \in R /\ c[i] \notin H
    BY NoHeadInside, Zenon
<1>5. \A n \in H : \A i \in 1 .. Len(Contents(m, n)) : own[Contents(m, n)[i]] = n
    BY <1>1, RingLabels
<1>6. own[e] = h
    BY <1>2, Zenon
<1> HIDE DEF c
<1>7. Len(c) \in Nat /\ Len(c) # 0 /\ c[1] = e
    BY <1>3 DEF Chain
<1> HIDE DEF e
<1>8. 1 \in 1 .. Len(c) /\ Len(c) >= 1 /\ c # <<>> /\ Head(c) = e
    BY <1>3, <1>7
<1>9. e \in R /\ e \notin H
    BY <1>4, <1>7, <1>8, SMTT(60), Z3T(60)
<1>10. Promise!Without(c, e) = Tail(c)
  <2>1. PICK w : w = Promise!Without(c, e)
      OBVIOUS
  <2>2. /\ w \in Seq(Nodes) /\ Len(w) = Len(c) - 1
        /\ \A i \in 1 .. Len(c) - 1 : w[i] = IF i < 1 THEN c[i] ELSE c[i + 1]
      BY <1>3, <1>7, <1>8, <2>1, WithoutOne, Zenon
  <2>3. PICK t : t = Tail(c)
      BY Zenon
  <2>4. t \in Seq(Nodes) /\ Len(t) = Len(c) - 1 /\ \A i \in 1 .. Len(t) : t[i] = c[i + 1]
      BY <1>3, <1>8, <2>3, HeadTailProperties, Zenon
  <2>5. \A i \in 1 .. Len(w) : w[i] = t[i]
      BY <1>7, <2>2, <2>4
  <2>6. w = t
      BY <2>2, <2>4, <2>5, SeqEqual, Zenon
  <2> QED
      BY <2>1, <2>3, <2>6, Zenon
<1>11. ASSUME NEW n \in H, n # h
       PROVE  Promise!Without(Contents(m, n), e) = Contents(m, n)
  <2>1. PICK d : d = Contents(m, n)
      BY Zenon
  <2>2. d \in Seq(Nodes) /\ \A i \in 1 .. Len(d) : own[d[i]] = n
      BY <1>5, <2>1, NoHeadInside, Zenon
  <2>3. \A i \in 1 .. Len(d) : d[i] # e
      BY <1>6, <1>11, <2>2, Zenon
  <2> QED
      BY <2>1, <2>2, <2>3, WithoutNone, Zenon
<1> QED
    BY <1>3, <1>7, <1>8, <1>9, <1>10, <1>11, Zenon DEF c, e

\* list_del of the first entry and list_replace_init of the head by it
LEMMA TakeOverStep ==
    ASSUME IInv, NEW h \in Nodes, TakeOver(h)
    PROVE  IInv' /\ Promise!TakeOver(h)
<1>1. PICK e : e = mem.next[h]
    OBVIOUS
<1> DEFINE d == Deleted(mem, e)
           k == Replaced(d, h, e)
<1>2. /\ Idle /\ role[h] = "head" /\ mem.next[h] # h
      /\ mem' = Initialised(k, h)
      /\ role' = [role EXCEPT ![e] = "head"] /\ UNCHANGED loop
    BY <1>1, Zenon DEF TakeOver, SetRole, Empty
<1>3. /\ Rings(mem, HeadNodes, InLists)
      /\ role \in [Nodes -> {"head", "linked", "poison", "stale", "lost"}]
      /\ \A n \in Nodes : n \in HeadNodes <=> role[n] = "head"
      /\ \A n \in Nodes : n \in InLists <=> role[n] \in {"head", "linked"}
      /\ HeadNodes \subseteq InLists /\ InLists \subseteq Nodes
      /\ \A n \in Heads : role[n] \in {"head", "stale"}
    BY NodeFacts, Zenon
<1>4. h \in HeadNodes /\ h \in InLists
    BY <1>2, <1>3, Zenon
<1> HIDE DEF d, k
<1>5. /\ Contents(mem, h) # <<>> /\ Head(Contents(mem, h)) = e
      /\ e \in InLists /\ e \notin HeadNodes
      /\ Promise!Without(Contents(mem, h), e) = Tail(Contents(mem, h))
      /\ \A n \in HeadNodes : n # h =>
            Promise!Without(Contents(mem, n), e) = Contents(mem, n)
    BY <1>1, <1>2, <1>3, <1>4, FirstEntry, SMTT(30), Z3T(30)
<1>6. e \in Nodes /\ e # h /\ e \notin Heads
    BY <1>3, <1>4, <1>5, Zenon
<1>7. Rings(d, HeadNodes, InLists \ {e}) /\ Shortens(mem, d, HeadNodes, e)
    BY <1>3, <1>5, DeletedRings, Zenon DEF d
<1>8. PICK H, R : H = (HeadNodes \ {h}) \cup {e} /\ R = ((InLists \ {e}) \ {h}) \cup {e}
    BY Zenon
<1>9. Rings(k, H, R) /\ Contents(k, e) = Contents(d, h) /\ Same(d, k, HeadNodes \ {h})
  <2>1. e \notin InLists \ {e}
      BY Zenon
  <2>2. PICK S : S = InLists \ {e}
      BY Zenon
  <2>3. Rings(d, HeadNodes, S) /\ e \notin S
      BY <1>7, <2>1, <2>2, Zenon
  <2>4. /\ Rings(k, (HeadNodes \ {h}) \cup {e}, (S \ {h}) \cup {e})
        /\ Contents(k, e) = Contents(d, h) /\ Same(d, k, HeadNodes \ {h})
      BY <1>4, <1>6, <2>3, ReplacedRings, Zenon DEF k
  <2> QED
      BY <1>8, <2>2, <2>4, Zenon
<1>10. h \notin R
    BY <1>6, <1>8, Zenon
<1>11. /\ Rings(mem', H \cup {h}, R \cup {h})
       /\ Contents(mem', h) = <<>> /\ Same(k, mem', H)
    BY <1>2, <1>9, <1>10, InitialisedRings, Zenon
<1>12. /\ role' \in [Nodes -> {"head", "linked", "poison", "stale", "lost"}]
       /\ \A n \in Nodes : role'[n] = IF n = e THEN "head" ELSE role[n]
    BY <1>2, <1>3, Zenon
<1>13. /\ \A n \in Heads : role'[n] \in {"head", "stale"}
       /\ \A n \in Nodes : n \in H \cup {h} <=> role'[n] = "head"
       /\ \A n \in Nodes : n \in R \cup {h} <=> role'[n] \in {"head", "linked"}
    BY <1>3, <1>4, <1>5, <1>6, <1>8, <1>12, Zenon DEF Nodes
<1>14. IInv'
    BY <1>2, <1>11, <1>12, <1>13, OutsideLoops, SMTT(30), Z3T(30)
<1>15. Held[h] = Contents(mem, h) /\ Held[e] = <<>>
    BY <1>2, <1>3, <1>5, <1>6, Zenon DEF Held
<1>16. Held'[h] = <<>> /\ Held'[e] = Tail(Held[h])
  <2>1. e \in H
      BY <1>8, Zenon
  <2>2. Contents(mem', e) = Contents(k, e)
      BY <1>11, <2>1, Zenon DEF Same
  <2>3. Contents(d, h) = Promise!Without(Contents(mem, h), e)
      BY <1>4, <1>7, Zenon DEF Shortens
  <2>4. Contents(mem', e) = Tail(Contents(mem, h))
      BY <1>5, <1>9, <2>2, <2>3, Zenon
  <2>5. role'[h] = "head" /\ role'[e] = "head"
      BY <1>2, <1>6, <1>12, Zenon
  <2> QED
      BY <1>6, <1>11, <1>15, <2>4, <2>5, Zenon DEF Held
<1>17. ASSUME NEW n \in Nodes, n # h, n # e
       PROVE  Held'[n] = Held[n]
  <2>1. role'[n] = role[n]
      BY <1>12, <1>17, Zenon
  <2>2. ASSUME role[n] = "head" PROVE Contents(mem', n) = Contents(mem, n)
    <3>1. n \in HeadNodes /\ n \in H /\ n \in HeadNodes \ {h}
        BY <1>3, <1>8, <1>17, <2>2, Zenon
    <3>2. Contents(mem', n) = Contents(k, n)
        BY <1>11, <3>1, Zenon DEF Same
    <3>3. Contents(k, n) = Contents(d, n)
        BY <1>9, <3>1, Zenon DEF Same
    <3>4. Contents(d, n) = Promise!Without(Contents(mem, n), e)
        BY <1>7, <3>1, Zenon DEF Shortens
    <3>5. Promise!Without(Contents(mem, n), e) = Contents(mem, n)
        BY <1>5, <1>17, <3>1, Zenon
    <3> QED
        BY <3>2, <3>3, <3>4, <3>5, Zenon
  <2> QED
      BY <2>1, <2>2, Zenon DEF Held
<1>18. Held = [n \in Nodes |-> Held[n]] /\ Held' = [n \in Nodes |-> Held'[n]]
    BY Zenon DEF Held
<1>19. Held' = [Held EXCEPT ![h] = <<>>, ![e] = Tail(Held[h])]
    BY <1>6, <1>16, <1>17, <1>18, Zenon
<1>20. Held[h] # <<>> /\ Head(Held[h]) = e
    BY <1>5, <1>15, Zenon
<1>21. Promise!TakeOver(h)
    BY <1>2, <1>19, <1>20, Zenon DEF Promise!TakeOver, Held
<1> QED
    BY <1>14, <1>21, Zenon

-----------------------------------------------------------------------------
(* The loop.                                                               *)

\* Nothing happens to the lists when only the loop changes.
LEMMA ListsKept ==
    ASSUME IInv, UNCHANGED <<mem, role>>
    PROVE  OneHeadEach' /\ Held' = Held
<1>1. mem' = mem /\ role' = role
    BY Zenon
<1>2. HeadNodes' = HeadNodes /\ InLists' = InLists
    BY <1>1, Zenon DEF HeadNodes, InLists, InList
<1>3. OneHeadEach'
    BY <1>1, <1>2 DEF IInv, OneHeadEach
<1>4. Held' = Held
    BY <1>1, Zenon DEF Held
<1> QED
    BY <1>3, <1>4

\* The invariant, of a loop in progress.
LEMMA InLoop ==
    ASSUME mem' \in Mem,
           role' \in [Nodes -> {"head", "linked", "poison", "stale", "lost"}],
           \A h \in Heads : role'[h] \in {"head", "stale"},
           OneHeadEach', NEW q, NEW k, Visiting(loop', mem', role', q, k),
           loop'.start = q, Len(loop'.visited) = k
    PROVE  IInv'
<1>1. Looping'
    BY Zenon DEF Looping
<1>2. {loop'.head, loop'.pos, loop'.n} \subseteq Nodes
    BY DEF Visiting
<1>3. TypeOK'
    BY <1>2, Zenon DEF TypeOK, Mem
<1> QED
    BY <1>1, <1>3, Zenon DEF IInv

LEMMA BeginLoopStep ==
    ASSUME IInv, NEW h \in Nodes, BeginLoop(h)
    PROVE  IInv' /\ role' = role /\ Held' = Held
<1>1. PICK c : c = Contents(mem, h)
    OBVIOUS
<1>2. /\ role[h] = "head" /\ mem' = mem /\ role' = role
      /\ loop' = [head |-> h, pos |-> mem.next[h], n |-> mem.next[mem.next[h]],
                  visited |-> <<>>, start |-> c]
    BY <1>1, Zenon DEF BeginLoop
<1>3. OneHeadEach' /\ Held' = Held
    BY <1>2, ListsKept, Zenon
<1>4. /\ Rings(mem, HeadNodes, InLists) /\ mem \in Mem
      /\ role \in [Nodes -> {"head", "linked", "poison", "stale", "lost"}]
      /\ \A n \in Nodes : n \in HeadNodes <=> role[n] = "head"
      /\ \A n \in Nodes : n \in InLists <=> role[n] \in {"head", "linked"}
      /\ HeadNodes \subseteq InLists /\ InLists \subseteq Nodes
      /\ \A n \in Heads : role[n] \in {"head", "stale"}
    BY NodeFacts, Zenon
<1>5. h \in HeadNodes /\ h \in InLists
    BY <1>2, <1>4, Zenon
<1>6. PICK own : Labelled(own, mem, HeadNodes, InLists)
    BY <1>4, Zenon DEF Rings
<1>7. Linked(mem, InLists) /\ \A n \in InLists : mem.next[n] \in InLists
    BY <1>4, <1>6, RingFacts, Zenon
<1>8. c \in Seq(Nodes) /\ Chain(mem.next, h, c) /\ Distinct(c)
    BY <1>1, <1>5, <1>7, RingContents, Zenon
<1>9. \A i \in 1 .. Len(c) : c[i] \in InLists /\ c[i] \notin HeadNodes
    BY <1>1, <1>4, <1>5, NoHeadInside, Zenon
<1>10. \A i \in 1 .. Len(c) : role[c[i]] = "linked"
    BY <1>4, <1>9, Zenon
<1>11. /\ mem.next[h] = IF 0 = Len(c) THEN h ELSE c[0 + 1]
       /\ \A j \in 1 .. Len(c) : mem.next[c[j]] = IF j = Len(c) THEN h ELSE c[j + 1]
    BY <1>8 DEF Chain
<1>12. mem.next[h] \in Nodes /\ mem.next[mem.next[h]] \in Nodes
    BY <1>4, <1>5, <1>7, Zenon
<1>13. Visiting(loop', mem, role, c, 0)
  <2>1. /\ loop' \in [head: Nodes, pos: Nodes, n: Nodes, visited: Seq(Nodes), start: Seq(Nodes)]
        /\ loop'.start = c /\ loop'.head = h /\ loop'.pos = mem.next[h]
        /\ loop'.n = mem.next[loop'.pos] /\ loop'.visited = <<>>
      BY <1>2, <1>8, <1>12
  <2>2. Len(<<>>) = 0 /\ Len(c) \in Nat /\ 1 .. 0 = {}
      BY <1>8
  <2>3. 0 <= Len(c) /\ role[loop'.head] = "head"
      BY <1>2, <2>1, <2>2
  <2>4. \A i \in 1 .. 0 : loop'.visited[i] = c[i]
      BY <2>2
  <2>5. \A j \in 1 .. Len(c) : j > 0 =>
           /\ role[c[j]] = "linked"
           /\ mem.next[c[j]] = IF j = Len(c) THEN loop'.head ELSE c[j + 1]
      BY <1>10, <1>11, <2>1, Zenon
  <2>6. loop'.pos = IF 0 = Len(c) THEN loop'.head ELSE c[0 + 1]
      BY <1>11, <2>1, Zenon
  <2> QED
      BY <1>8, <2>1, <2>3, <2>4, <2>5, <2>6, ZenonT(60) DEF Visiting
<1>14. IInv'
  <2>1. loop'.start = c /\ Len(loop'.visited) = 0
      BY <1>2, Zenon
  <2> QED
      BY <1>2, <1>3, <1>4, <1>13, <2>1, InLoop, Zenon
<1> QED
    BY <1>2, <1>3, <1>14, Zenon

LEMMA EndLoopStep ==
    ASSUME IInv, EndLoop
    PROVE  IInv' /\ role' = role /\ Held' = Held
<1>1. mem' = mem /\ role' = role /\ loop' = NoLoop
    BY Zenon DEF EndLoop
<1>2. OneHeadEach' /\ Held' = Held
    BY <1>1, ListsKept
<1>3. Idle'
    BY <1>1 DEF Idle
<1>4. TypeOK' /\ Looping'
    BY <1>1, <1>3, Zenon DEF IInv, TypeOK, Looping
<1> QED
    BY <1>1, <1>2, <1>4, SMTT(60), Z3T(60) DEF IInv

\* Loop x is over q, has made k visits, and is not at its end.
Over(x, q, k) == q = x.start /\ k = Len(x.visited) /\ x.pos # x.head

\* It is at an entry, and reads ahead the one after.
AtEntry(x, m, r, q, k) ==
    /\ k \in Nat /\ Len(q) \in Nat /\ k + 1 \in 1 .. Len(q) /\ k < Len(q)
    /\ x.pos = q[k + 1] /\ r[x.pos] = "linked" /\ x.pos \in Nodes
    /\ x.n = IF k + 1 = Len(q) THEN x.head ELSE q[k + 2]
    /\ x.n = m.next[x.pos] /\ x.n \in Nodes /\ x.head \in Nodes /\ r[x.head] = "head"

\* A visit brings it to y.
Steps(x, y, m) ==
    y = [x EXCEPT !.pos = x.n, !.n = m.next[x.n], !.visited = Append(@, x.pos)]

\* What is still to visit after that is as it was.
RestKept(m, r, k, s, q, i) ==
    \A j \in 1 .. Len(q) : j > i + 1 => s[q[j]] = r[q[j]] /\ k.next[q[j]] = m.next[q[j]]

\* The loop is at the entry it has next to visit.
LEMMA EntryAhead ==
    ASSUME NEW x, NEW m, NEW r, NEW q, NEW k, Visiting(x, m, r, q, k), Over(x, q, k)
    PROVE  AtEntry(x, m, r, q, k)
<1>0. q = x.start /\ k = Len(x.visited) /\ x.pos # x.head
    BY Zenon DEF Over
<1>1. /\ x.visited \in Seq(Nodes) /\ q \in Seq(Nodes)
      /\ x.head \in Nodes /\ x.pos \in Nodes /\ x.n \in Nodes
    BY <1>0, Zenon DEF Visiting
<1>2. k \in Nat /\ Len(q) \in Nat
    BY <1>0, <1>1
<1>3. /\ k <= Len(q) /\ x.pos = IF k = Len(q) THEN x.head ELSE q[k + 1]
      /\ x.n = m.next[x.pos] /\ r[x.head] = "head"
      /\ \A j \in 1 .. Len(q) : j > k =>
            /\ r[q[j]] = "linked"
            /\ m.next[q[j]] = IF j = Len(q) THEN x.head ELSE q[j + 1]
    BY Zenon DEF Visiting
<1>4. k < Len(q) /\ x.pos = q[k + 1] /\ k + 1 \in 1 .. Len(q) /\ k + 1 > k
      /\ (k + 1) + 1 = k + 2
    BY <1>0, <1>2, <1>3, SMTT(30), Z3T(30)
<1>5. /\ r[q[k + 1]] = "linked"
      /\ m.next[q[k + 1]] = IF k + 1 = Len(q) THEN x.head ELSE q[(k + 1) + 1]
    BY <1>3, <1>4, Zenon
<1> QED
    BY <1>1, <1>2, <1>3, <1>4, <1>5, Zenon DEF AtEntry

\* A visit, whatever was done to the entry that is visited.
LEMMA Visited ==
    ASSUME NEW x, NEW m, NEW r, NEW q, NEW k, Visiting(x, m, r, q, k), Over(x, q, k),
           NEW m2, NEW r2, r2[x.head] = "head", m2.next[x.n] \in Nodes,
           RestKept(m, r, m2, r2, q, k), NEW y, Steps(x, y, m2)
    PROVE  Visiting(y, m2, r2, q, k + 1) /\ y.start = q /\ Len(y.visited) = k + 1
<1>1. /\ k \in Nat /\ Len(q) \in Nat /\ k + 1 \in 1 .. Len(q) /\ k < Len(q)
      /\ x.pos = q[k + 1] /\ x.pos \in Nodes
      /\ x.n = IF k + 1 = Len(q) THEN x.head ELSE q[k + 2]
      /\ x.n \in Nodes
  <2>1. AtEntry(x, m, r, q, k)
      BY EntryAhead, Zenon
  <2> QED
      BY <2>1, Zenon DEF AtEntry
<1>2. /\ x \in [head: Nodes, pos: Nodes, n: Nodes, visited: Seq(Nodes), start: Seq(Nodes)]
      /\ Distinct(q) /\ \A i \in 1 .. k : x.visited[i] = q[i]
      /\ \A j \in 1 .. Len(q) : j > k =>
            /\ r[q[j]] = "linked"
            /\ m.next[q[j]] = IF j = Len(q) THEN x.head ELSE q[j + 1]
    BY Zenon DEF Visiting
<1>0. q = x.start /\ k = Len(x.visited)
    BY Zenon DEF Over
<1>3. PICK v : v = Append(x.visited, x.pos)
    BY Zenon
<1>4. x.visited \in Seq(Nodes)
    BY <1>2, Zenon
<1>5. /\ v \in Seq(Nodes) /\ Len(v) = k + 1 /\ v[k + 1] = x.pos
      /\ \A i \in 1 .. k : v[i] = x.visited[i]
    BY <1>0, <1>1, <1>3, <1>4, SMTT(30), Z3T(30)
<1>6. /\ y.head = x.head /\ y.pos = x.n /\ y.n = m2.next[y.pos]
      /\ y.visited = v /\ y.start = q
      /\ y \in [head: Nodes, pos: Nodes, n: Nodes, visited: Seq(Nodes), start: Seq(Nodes)]
    BY <1>0, <1>1, <1>2, <1>3, <1>5, Zenon DEF Steps
<1>7. \A i \in 1 .. k + 1 : y.visited[i] = q[i]
  <2> TAKE i \in 1 .. k + 1
  <2>1. CASE i = k + 1
      BY <1>1, <1>5, <1>6, <2>1, Zenon
  <2>2. CASE i # k + 1
    <3>1. i \in 1 .. k
        BY <1>1, <2>2
    <3> QED
        BY <1>2, <1>5, <1>6, <3>1, SMTT(30), Z3T(30)
  <2> QED
      BY <2>1, <2>2, Zenon
<1>8. \A j \in 1 .. Len(q) : j > k + 1 =>
         /\ r2[q[j]] = "linked"
         /\ m2.next[q[j]] = IF j = Len(q) THEN y.head ELSE q[j + 1]
  <2>1. \A j \in 1 .. Len(q) : j > k + 1 => j > k
      BY <1>1
  <2>2. \A j \in 1 .. Len(q) : j > k + 1 =>
           r2[q[j]] = r[q[j]] /\ m2.next[q[j]] = m.next[q[j]]
      BY Zenon DEF RestKept
  <2>3. ASSUME NEW j \in 1 .. Len(q), j > k + 1
        PROVE  /\ r2[q[j]] = "linked"
               /\ m2.next[q[j]] = IF j = Len(q) THEN y.head ELSE q[j + 1]
    <3>1. r[q[j]] = "linked" /\ m.next[q[j]] = IF j = Len(q) THEN x.head ELSE q[j + 1]
        BY <1>2, <2>1, <2>3, Zenon
    <3>2. r2[q[j]] = r[q[j]] /\ m2.next[q[j]] = m.next[q[j]]
        BY <2>2, <2>3, Zenon
    <3> QED
        BY <1>6, <3>1, <3>2, Zenon
  <2> QED
      BY <2>3, Zenon
<1>9. y.pos = IF k + 1 = Len(q) THEN y.head ELSE q[(k + 1) + 1]
  <2>1. (k + 1) + 1 = k + 2
      BY <1>1
  <2> QED
      BY <1>1, <1>6, <2>1, Zenon
<1>10. k + 1 <= Len(q) /\ r2[y.head] = "head"
    BY <1>1, <1>6
<1>11. Visiting(y, m2, r2, q, k + 1)
    BY <1>2, <1>6, <1>7, <1>8, <1>9, <1>10, Zenon DEF Visiting
<1> QED
    BY <1>5, <1>6, <1>11, Zenon

\* The loop goes on, or takes out the entry it is at.
LEMMA LoopBodyStep ==
    ASSUME IInv, NEW e \in Entries, LoopBody(e)
    PROVE  IInv' /\ (Promise!Delete(e) \/ (role' = role /\ Held' = Held))
<1>1. PICK q, k : q = loop.start /\ k = Len(loop.visited)
    BY Zenon
<1>2. /\ ~Idle /\ e = loop.pos /\ loop.pos # loop.head
      /\ (mem' = mem /\ role' = role) \/ (mem' = Deleted(mem, e) /\ SetRole(e, "poison"))
      /\ loop' = [loop EXCEPT !.pos = loop.n, !.n = mem'.next[loop.n],
                              !.visited = Append(@, loop.pos)]
    BY Zenon DEF LoopBody
<1>3. Visiting(loop, mem, role, q, k)
    BY <1>1, <1>2, Zenon DEF IInv, Looping
<1>4. /\ k \in Nat /\ Len(q) \in Nat /\ k + 1 \in 1 .. Len(q) /\ k < Len(q)
      /\ e = q[k + 1] /\ role[e] = "linked" /\ e \in Nodes
      /\ loop.n = IF k + 1 = Len(q) THEN loop.head ELSE q[k + 2]
      /\ loop.n = mem.next[e] /\ loop.n \in Nodes
      /\ loop.head \in Nodes /\ role[loop.head] = "head"
  <2>1. Over(loop, q, k)
      BY <1>1, <1>2, Zenon DEF Over
  <2>2. AtEntry(loop, mem, role, q, k)
      BY <1>3, <2>1, EntryAhead, SMTT(60), Z3T(60)
  <2> QED
      BY <1>2, <2>2, Zenon DEF AtEntry
<1>5. /\ Rings(mem, HeadNodes, InLists) /\ mem \in Mem
      /\ role \in [Nodes -> {"head", "linked", "poison", "stale", "lost"}]
      /\ \A n \in Nodes : n \in HeadNodes <=> role[n] = "head"
      /\ \A n \in Nodes : n \in InLists <=> role[n] \in {"head", "linked"}
      /\ HeadNodes \subseteq InLists /\ InLists \subseteq Nodes
      /\ \A n \in Heads : role[n] \in {"head", "stale"}
      /\ e \notin Heads
    BY NodeFacts, Zenon
<1>6. e \in InLists /\ e \notin HeadNodes
    BY <1>4, <1>5, Zenon
<1>7. PICK own : Labelled(own, mem, HeadNodes, InLists)
    BY <1>5, Zenon DEF Rings
<1>8. \A n \in InLists : /\ mem.next[n] \in InLists /\ mem.prev[n] \in InLists
                         /\ mem.next[mem.prev[n]] = n
    BY <1>5, <1>7, RingFacts, SMTT(60), Z3T(60)
<1>9. CASE mem' = mem /\ role' = role
  <2>1. mem'.next[loop.n] \in Nodes
      BY <1>4, <1>5, <1>6, <1>8, <1>9, ZenonT(60)
  <2>2. /\ Visiting(loop', mem', role', q, k + 1)
        /\ loop'.start = q /\ Len(loop'.visited) = k + 1
    <3>1. /\ role'[loop.head] = "head"
          /\ \A j \in 1 .. Len(q) : j > k + 1 =>
                role'[q[j]] = role[q[j]] /\ mem'.next[q[j]] = mem.next[q[j]]
        BY <1>4, <1>9, Zenon
    <3>2. Over(loop, q, k) /\ RestKept(mem, role, mem', role', q, k)
        BY <1>1, <1>2, <3>1, Zenon DEF Over, RestKept
    <3>3. Steps(loop, loop', mem')
        BY <1>2, Zenon DEF Steps
    <3> QED
        BY <1>3, <2>1, <3>1, <3>2, <3>3, Visited, SMTT(30), Z3T(30)
  <2>3. OneHeadEach' /\ Held' = Held
      BY <1>9, ListsKept, Zenon
  <2>4. IInv'
      BY <1>5, <1>9, <2>2, <2>3, InLoop, Zenon
  <2> QED
      BY <1>9, <2>3, <2>4, Zenon
<1>10. CASE mem' = Deleted(mem, e) /\ SetRole(e, "poison")
  <2>1. mem' = Deleted(mem, e) /\ role' = [role EXCEPT ![e] = "poison"]
      BY <1>10, Zenon DEF SetRole
  <2>2. /\ Rings(mem', HeadNodes, InLists \ {e}) /\ Shortens(mem, mem', HeadNodes, e)
        /\ Skips(mem, mem', InLists \ {e}, e) \/ mem.prev[e] = e
      BY <1>5, <1>6, <2>1, DeletedRings, Zenon
  <2>3. /\ role' \in [Nodes -> {"head", "linked", "poison", "stale", "lost"}]
        /\ \A n \in Nodes : role'[n] = IF n = e THEN "poison" ELSE role[n]
      BY <1>5, <2>1, Zenon
  <2>4. /\ \A n \in Heads : role'[n] \in {"head", "stale"}
        /\ \A n \in Nodes : n \in HeadNodes <=> role'[n] = "head"
        /\ \A n \in Nodes : n \in InLists \ {e} <=> role'[n] \in {"head", "linked"}
      BY <1>5, <1>6, <2>3, Zenon DEF Nodes
  <2>5. mem' \in Mem /\ \A n \in InLists \ {e} : mem'.next[n] \in Nodes
    <3>1. PICK R : R = InLists \ {e}
        BY Zenon
    <3>2. PICK o : mem' \in Mem /\ Labelled(o, mem', HeadNodes, R)
        BY <2>2, <3>1, Zenon DEF Rings
    <3>3. R \subseteq Nodes /\ \A n \in R : mem'.next[n] \in R
        BY <3>2, RingFacts, SMTT(30), Z3T(30)
    <3> QED
        BY <3>1, <3>2, <3>3, Zenon
  <2>6. OneHeadEach'
    <3>1. HeadNodes = HeadNodes'
        BY <1>5, <2>4, Zenon DEF HeadNodes
    <3>2. InLists \ {e} = InLists'
        BY <1>5, <2>4, Zenon DEF InLists, InList
    <3> QED
        BY <2>2, <3>1, <3>2, Zenon DEF OneHeadEach
  <2>7. Distinct(q) /\ \A j \in 1 .. Len(q) : j > k =>
           /\ role[q[j]] = "linked"
           /\ mem.next[q[j]] = IF j = Len(q) THEN loop.head ELSE q[j + 1]
      BY <1>3, Zenon DEF Visiting
  <2>8. q \in Seq(Nodes)
      BY <1>1, <1>3, Zenon DEF Visiting
  <2>9. loop.n # e /\ loop.n \in InLists
    <3>1. CASE k + 1 = Len(q)
        BY <1>4, <1>5, <3>1, Zenon
    <3>2. CASE k + 1 # Len(q)
      <4>1. k + 2 \in 1 .. Len(q) /\ k + 2 # k + 1 /\ k + 2 > k
          BY <1>4, <3>2, SMTT(30), Z3T(30)
      <4>2. q[k + 2] # q[k + 1] /\ role[q[k + 2]] = "linked" /\ q[k + 2] \in Nodes
          BY <1>4, <2>7, <2>8, <4>1, SMTT(30), Z3T(30) DEF Distinct
      <4> QED
          BY <1>4, <1>5, <3>2, <4>2, ZenonT(60)
    <3> QED
        BY <3>1, <3>2
  <2>10. Skips(mem, mem', InLists \ {e}, e)
    <3>1. mem.prev[e] # e
        BY <1>4, <1>6, <1>8, <2>9, Zenon
    <3> QED
        BY <2>2, <3>1, Zenon
  <2>11. ASSUME NEW j \in 1 .. Len(q), j > k + 1
         PROVE  role'[q[j]] = role[q[j]] /\ mem'.next[q[j]] = mem.next[q[j]]
    <3>1. j > k /\ j # k + 1 /\ q[j] \in Nodes /\ role[q[j]] = "linked"
          /\ (j # Len(q) => j + 1 \in 1 .. Len(q) /\ j + 1 # k + 1)
        BY <1>4, <2>7, <2>8, <2>11, SMTT(60), Z3T(60)
    <3>2. q[j] # e
        BY <1>4, <2>7, <3>1, Zenon DEF Distinct
    <3>3. mem.next[q[j]] # e
      <4>1. CASE j = Len(q)
        <5>1. mem.next[q[j]] = loop.head
            BY <2>7, <3>1, <4>1, Zenon
        <5> QED
            BY <1>4, <5>1, Zenon
      <4>2. CASE j # Len(q)
        <5>1. mem.next[q[j]] = q[j + 1]
            BY <2>7, <3>1, <4>2, Zenon
        <5>2. q[j + 1] # q[k + 1]
            BY <1>4, <2>7, <3>1, <4>2, ZenonT(60) DEF Distinct
        <5> QED
            BY <1>4, <5>1, <5>2, Zenon
      <4> QED
          BY <4>1, <4>2, Zenon
    <3>4. q[j] \in InLists \ {e} /\ q[j] # mem.prev[e]
        BY <1>5, <1>6, <1>8, <3>1, <3>2, <3>3, Zenon
    <3>5. mem'.next[q[j]] = mem.next[q[j]]
        BY <2>10, <3>4, Zenon DEF Skips
    <3> QED
        BY <2>3, <3>1, <3>2, <3>5, ZenonT(60)
  <2>12. mem'.next[loop.n] \in Nodes /\ role'[loop.head] = "head"
      BY <1>4, <2>3, <2>5, <2>9, ZenonT(60)
  <2>13. /\ Visiting(loop', mem', role', q, k + 1)
         /\ loop'.start = q /\ Len(loop'.visited) = k + 1
    <3>1. Over(loop, q, k)
        BY <1>1, <1>2, SMTT(60), Z3T(60) DEF Over
    <3>2. RestKept(mem, role, mem', role', q, k)
        BY <2>11, Zenon DEF RestKept
    <3>3. Steps(loop, loop', mem')
        BY <1>2, Zenon DEF Steps
    <3> QED
        BY <1>3, <2>12, <3>1, <3>2, <3>3, Visited, SMTT(60), Z3T(60)
  <2>14. IInv'
      BY <2>3, <2>4, <2>5, <2>6, <2>13, InLoop, Zenon
  <2>15. Held' = [n \in Nodes |-> Promise!Without(Held[n], e)]
      BY <1>4, <2>2, <2>3, HeldWithout, ZenonT(60)
  <2>16. Promise!Delete(e)
      BY <1>4, <2>1, <2>15, Zenon DEF Promise!Delete, Promise!Removed, Promise!Nodes, Nodes, Held
  <2> QED
      BY <2>14, <2>16
<1> QED
    BY <1>2, <1>9, <1>10, Zenon

-----------------------------------------------------------------------------
(* The invariant, the properties and the refinement.                       *)

LEMMA InitRings ==
    ASSUME Init
    PROVE  /\ mem \in Mem /\ Rings(mem, Heads, Heads)
           /\ role \in [Nodes -> {"head", "linked", "poison", "stale", "lost"}]
           /\ \A n \in Nodes : role[n] = "head" <=> n \in Heads
           /\ \A n \in Nodes : role[n] # "linked"
           /\ \A h \in Heads : mem.next[h] = h
<1>1. /\ mem = [next |-> [n \in Nodes |-> IF n \in Heads THEN n ELSE Poison1],
                prev |-> [n \in Nodes |-> IF n \in Heads THEN n ELSE Poison2]]
      /\ role = [n \in Nodes |-> IF n \in Heads THEN "head" ELSE "poison"]
    BY Zenon DEF Init
<1>2. Heads \subseteq Nodes
    BY DEF Nodes
<1>3. mem \in Mem
    BY <1>1, Zenon DEF Mem
<1>4. \A h \in Heads : mem.next[h] = h /\ mem.prev[h] = h
    BY <1>1, <1>2, Zenon
<1>5. Linked(mem, Heads)
    BY <1>2, <1>4, Zenon DEF Linked, Closed
<1>6. Labelled([n \in Nodes |-> n], mem, Heads, Heads)
    BY <1>2, <1>4, <1>5, Zenon DEF Labelled
<1>7. Rings(mem, Heads, Heads)
    BY <1>3, <1>6, Zenon DEF Rings
<1>8. /\ role \in [Nodes -> {"head", "linked", "poison", "stale", "lost"}]
      /\ \A n \in Nodes : role[n] = "head" <=> n \in Heads
      /\ \A n \in Nodes : role[n] # "linked"
    BY <1>1, Zenon
<1> QED
    BY <1>3, <1>4, <1>7, <1>8, Zenon

LEMMA InitInvariant ==
    Init => IInv
<1> SUFFICES ASSUME Init PROVE IInv
    OBVIOUS
<1>1. /\ mem \in Mem /\ Rings(mem, Heads, Heads)
      /\ role \in [Nodes -> {"head", "linked", "poison", "stale", "lost"}]
      /\ \A n \in Nodes : role[n] = "head" <=> n \in Heads
      /\ \A n \in Nodes : role[n] # "linked"
    BY InitRings, Zenon
<1>2. Heads = HeadNodes /\ Heads = InLists
    BY <1>1 DEF HeadNodes, InLists, InList, Nodes
<1>3. OneHeadEach
    BY <1>1, <1>2, Zenon DEF OneHeadEach
<1>4. Idle
    BY Zenon DEF Init, Idle
<1>5. TypeOK
    BY <1>1, <1>4, Zenon DEF TypeOK, Mem, Nodes
<1> QED
    BY <1>3, <1>4, <1>5 DEF IInv, Looping

LEMMA InitPromise ==
    Init => Promise!Init
<1> SUFFICES ASSUME Init PROVE Promise!Init
    OBVIOUS
<1>1. /\ Rings(mem, Heads, Heads) /\ \A h \in Heads : mem.next[h] = h
      /\ \A n \in Nodes : role[n] = "head" <=> n \in Heads
    BY InitRings, Zenon
<1>2. PICK own : mem \in Mem /\ Labelled(own, mem, Heads, Heads)
    BY <1>1, Zenon DEF Rings
<1>3. Linked(mem, Heads)
    BY <1>2, RingFacts, Zenon
<1>4. ASSUME NEW h \in Heads PROVE Contents(mem, h) = <<>>
  <2>1. PICK c : c = Contents(mem, h)
      OBVIOUS
  <2>2. c \in Seq(Nodes) /\ Chain(mem.next, h, c)
      BY <1>3, <2>1, RingContents, Zenon
  <2>3. Len(c) = 0
      BY <1>1, <2>2 DEF Chain
  <2> QED
      BY <2>1, <2>2, <2>3, SMTT(60), Z3T(60)
<1>5. Held = [n \in Nodes |-> <<>>]
    BY <1>1, <1>4, Zenon DEF Held
<1>6. role = [n \in Nodes |-> IF n \in Heads THEN "head" ELSE "poison"]
    BY DEF Init
<1> QED
    BY <1>5, <1>6, Zenon DEF Promise!Init, Promise!Nodes, Nodes, Held

\* Every step keeps the invariant and is a step of SequenceLists, or none.
LEMMA StepRefines ==
    ASSUME IInv, [Next]_vars
    PROVE  IInv' /\ (Promise!Next \/ (role' = role /\ Held' = Held))
<1>1. ASSUME NEW n \in Nodes, InitListHead(n)
      PROVE  IInv' /\ Promise!Next
    BY <1>1, InitListHeadStep, Zenon DEF Promise!Next, Promise!Nodes, Nodes
<1>2. ASSUME NEW n \in Nodes, TakeOver(n)
      PROVE  IInv' /\ Promise!Next
    BY <1>2, TakeOverStep, Zenon DEF Promise!Next, Promise!Nodes, Nodes
<1>3. ASSUME NEW n \in Nodes, BeginLoop(n)
      PROVE  IInv' /\ role' = role /\ Held' = Held
    BY <1>3, BeginLoopStep
<1>4. ASSUME NEW e \in Entries, ListDel(e) \/ ListDelInit(e)
      PROVE  IInv' /\ Promise!Next
    BY <1>4, ListDelStep, ListDelInitStep, Zenon DEF Promise!Next
<1>5. ASSUME NEW e \in Entries, LoopBody(e)
      PROVE  IInv' /\ (Promise!Next \/ (role' = role /\ Held' = Held))
    BY <1>5, LoopBodyStep, Zenon DEF Promise!Next
<1>6. ASSUME NEW e \in Entries, NEW h \in Nodes, ListAdd(e, h) \/ ListAddTail(e, h)
      PROVE  IInv' /\ Promise!Next
    BY <1>6, ListAddStep, ListAddTailStep, Zenon DEF Promise!Next, Promise!Nodes, Nodes
<1>7. ASSUME NEW e \in Entries, NEW h \in Nodes, ListMove(e, h) \/ ListMoveTail(e, h)
      PROVE  IInv' /\ Promise!Next
    BY <1>7, ListMoveStep, ListMoveTailStep, Zenon DEF Promise!Next, Promise!Nodes, Nodes
<1>8. ASSUME NEW l \in Nodes, NEW h \in Nodes, ListSplice(l, h) \/ ListSpliceInit(l, h)
      PROVE  IInv' /\ Promise!Next
    BY <1>8, ListSpliceStep, ListSpliceInitStep, Zenon DEF Promise!Next, Promise!Nodes, Nodes
<1>9. CASE EndLoop
    BY <1>9, EndLoopStep
<1>10. CASE UNCHANGED vars
  <2>1. mem' = mem /\ role' = role /\ loop' = loop
      BY <1>10 DEF vars
  <2>2. OneHeadEach' /\ Held' = Held
      BY <2>1, ListsKept
  <2>3. TypeOK' /\ Looping'
      BY <2>1, Zenon DEF IInv, TypeOK, Looping, Idle
  <2> QED
      BY <2>1, <2>2, <2>3, SMTT(60), Z3T(60) DEF IInv
<1> QED
    BY <1>1, <1>2, <1>3, <1>4, <1>5, <1>6, <1>7, <1>8, <1>9, <1>10, Zenon DEF Next

\* The invariant holds for any number of heads and entries, and whatever the
\* order in which the functions of list.h are called.
THEOREM Inductive ==
    Spec => []IInv
<1>1. IInv /\ [Next]_vars => IInv'
    BY StepRefines
<1> QED
    BY InitInvariant, <1>1, PTL DEF Spec

\* The types of the pointers and of what a caller knows of a node.
THEOREM TypeCorrect ==
    Spec => []TypeOK
<1>1. IInv => TypeOK
    BY DEF IInv
<1> QED
    BY Inductive, <1>1, PTL

\* No operation of list.h leaves a pointer from a list to an entry that was
\* removed, spliced away or abandoned, and next and prev stay inverse.
THEOREM ListsStayClosed ==
    Spec => []RingsClosed
<1>1. ASSUME IInv PROVE RingsClosed
  <2>1. /\ Rings(mem, HeadNodes, InLists)
        /\ \A n \in Nodes : n \in InLists <=> InList(n)
        /\ InLists \subseteq Nodes
      BY <1>1, Zenon DEF IInv, OneHeadEach, InLists
  <2>2. PICK own : mem \in Mem /\ Labelled(own, mem, HeadNodes, InLists)
      BY <2>1, Zenon DEF Rings
  <2>3. Closed(mem.next, mem.prev, InLists)
      BY <2>2, RingFacts, Zenon
  <2> QED
      BY <2>1, <2>3, Zenon DEF Closed, RingsClosed
<1> QED
    BY Inductive, <1>1, PTL

\* list_for_each_entry_safe visits what it started on, once and in order, though
\* its body removes entries.
THEOREM LoopsVisitAll ==
    Spec => []SafeLoopVisitsAll
<1>1. ASSUME IInv, ~Idle PROVE SafeLoopVisitsAll
  <2>1. PICK q, k : q = loop.start /\ k = Len(loop.visited)
      BY Zenon
  <2>2. Visiting(loop, mem, role, q, k)
      BY <1>1, <2>1, Zenon DEF IInv, Looping
  <2>3. /\ loop.visited \in Seq(Nodes) /\ q \in Seq(Nodes)
        /\ k <= Len(q) /\ \A i \in 1 .. k : loop.visited[i] = q[i]
        /\ loop.pos = IF k = Len(q) THEN loop.head ELSE q[k + 1]
      BY <2>1, <2>2, Zenon DEF Visiting
  <2>4. k \in Nat /\ Len(q) \in Nat
      BY <2>1, <2>3, SMTT(60), Z3T(60)
  <2>5. PICK v, s : v = loop.visited /\ s = SubSeq(q, 1, k)
      BY Zenon
  <2>6. s \in Seq(Nodes) /\ Len(s) = k /\ \A i \in 1 .. k : s[i] = q[i]
      BY <2>3, <2>4, <2>5, SMTT(60), Z3T(60)
  <2>7. v \in Seq(Nodes) /\ Len(v) = k /\ \A i \in 1 .. k : v[i] = s[i]
      BY <2>1, <2>3, <2>5, <2>6, Zenon
  <2>8. v = s
      BY <2>6, <2>7, SeqEqual, Zenon
  <2> QED
      BY <2>1, <2>3, <2>5, <2>8, Zenon DEF SafeLoopVisitsAll
<1>2. IInv => SafeLoopVisitsAll
    BY <1>1, Zenon DEF SafeLoopVisitsAll
<1> QED
    BY Inductive, <1>2, PTL

\* The functions of list.h, write by write on the pointers, implement
\* operations on sequences of entries.
THEOREM SequenceRefinement ==
    Spec => ImplementsSequenceLists
<1>1. IInv /\ [Next]_vars => [Promise!Next]_(Promise!vars)
    BY StepRefines, Zenon DEF Promise!vars, Held
<1> QED
    BY Inductive, InitPromise, <1>1, PTL DEF Spec, ImplementsSequenceLists, Promise!Spec

=============================================================================
