--------------------------- MODULE UmsRingProofs ----------------------------
(***************************************************************************)
(* What the functions of list.h do to the rings of UmsList, for any number *)
(* of heads and entries: the inductive invariant, the list that Contents   *)
(* reads at a head of a ring, and for each way in which the functions      *)
(* assign to next and prev, which rings it leaves and what they contain.   *)
(***************************************************************************)
EXTENDS UmsList, SequenceTheorems, FiniteSetTheorems, TLAPS

-----------------------------------------------------------------------------
(* The inductive invariant.  That the rings are closed is preserved by     *)
(* every operation but two for reasons of its own.  Adding a node that is  *)
(* a head gives up the list of that node, and splicing joins two rings:    *)
(* both need that no ring has two heads.  This is said by a label of each  *)
(* node that is the same along a ring, and that a head has of itself.      *)

Mem == [next: [Nodes -> Nodes \cup {Poison1}], prev: [Nodes -> Nodes \cup {Poison2}]]

\* Every node of R is between its neighbours, which are in R.
Closed(next, prev, R) ==
    \A n \in R :
        /\ next[n] \in R /\ prev[n] \in R
        /\ prev[next[n]] = n /\ next[prev[n]] = n

Linked(m, R) == R \subseteq Nodes /\ Closed(m.next, m.prev, R)

\* Along the rings of R the label of a node is that of the next, and a node in
\* H has itself as its label.
Labelled(own, m, H, R) ==
    /\ Linked(m, R)
    /\ H \subseteq R
    /\ own \in [Nodes -> Nodes]
    /\ \A n \in R : own[m.next[n]] = own[n] /\ (n \in H => own[n] = n)

\* The nodes R are linked in rings, the nodes H are heads, and no ring has two.
Rings(m, H, R) == m \in Mem /\ \E own : Labelled(own, m, H, R)

HeadNodes == {n \in Nodes : role[n] = "head"}

InLists == {n \in Nodes : InList(n)}

OneHeadEach == Rings(mem, HeadNodes, InLists)

Distinct(q) == \A i, j \in 1 .. Len(q) : q[i] = q[j] => i = j

\* Of a loop x over q that has made k visits: what it has still to visit is
\* linked in the order in which it started, and the entry it reads ahead is the
\* one after its position.
Visiting(x, m, r, q, k) ==
    /\ x \in [head: Nodes, pos: Nodes, n: Nodes, visited: Seq(Nodes), start: Seq(Nodes)]
    /\ r[x.head] = "head"
    /\ k <= Len(q)
    /\ \A i \in 1 .. k : x.visited[i] = q[i]
    /\ Distinct(q)
    /\ \A j \in 1 .. Len(q) : j > k =>
          /\ r[q[j]] = "linked"
          /\ m.next[q[j]] = IF j = Len(q) THEN x.head ELSE q[j + 1]
    /\ x.pos = IF k = Len(q) THEN x.head ELSE q[k + 1]
    /\ x.n = m.next[x.pos]

Looping == Idle \/ Visiting(loop, mem, role, loop.start, Len(loop.visited))

IInv ==
    /\ TypeOK
    /\ OneHeadEach
    /\ Looping

-----------------------------------------------------------------------------
(* The walk that Contents takes.                                           *)

\* A set of naturals that is not empty has a least element.
LEMMA LeastNat ==
    ASSUME NEW S, S \subseteq Nat, S # {}
    PROVE  \E i \in S : \A j \in S : i <= j
<1> DEFINE Less == OpToRel(<, Nat)
<1>1. IsWellFoundedOn(Less, Nat)
    BY NatLessThanWellFounded, Zenon
<1>2. PICK i \in S : \A j \in S : ~(<<j, i>> \in Less)
  <2> HIDE DEF Less
  <2> QED
      BY <1>1, WFMin, Zenon
<1>3. \A j \in S : ~(j < i)
    BY <1>2, Zenon DEF OpToRel
<1> QED
    BY <1>3

\* g is a walk of n steps from h.
IsWalk(g, next, h, n) ==
    g = [i \in 0 .. n |-> IF i = 0 THEN h
                          ELSE IF g[i - 1] \in Nodes THEN next[g[i - 1]] ELSE g[i - 1]]

\* There is one of any length.
LEMMA WalkExists ==
    ASSUME NEW next, NEW h, NEW n \in Nat
    PROVE  \E g : IsWalk(g, next, h, n)
<1> DEFINE Bad == {k \in Nat : ~\E g : IsWalk(g, next, h, k)}
<1> SUFFICES ASSUME Bad # {} PROVE FALSE
    OBVIOUS
<1>1. PICK k \in Bad : \A j \in Bad : k <= j
    BY LeastNat, Zenon
<1>2. k \in Nat /\ ~\E g : IsWalk(g, next, h, k)
    OBVIOUS
<1>3. k # 0
  <2> DEFINE g == [i \in 0 .. 0 |-> h]
  <2>1. IsWalk(g, next, h, 0)
      BY DEF IsWalk
  <2> QED
      BY <1>2, <2>1
<1>4. k - 1 \in Nat /\ k - 1 \notin Bad
    BY <1>1, <1>2, <1>3
<1>5. PICK g : IsWalk(g, next, h, k - 1)
    BY <1>4
<1> DEFINE G == [i \in 0 .. k |->
                   IF i = k THEN (IF g[k - 1] \in Nodes THEN next[g[k - 1]] ELSE g[k - 1])
                   ELSE g[i]]
<1>6. \A i \in 0 .. k - 1 : G[i] = g[i]
    BY <1>2
<1>7. \A i \in 0 .. k :
         G[i] = IF i = 0 THEN h
                ELSE IF G[i - 1] \in Nodes THEN next[G[i - 1]] ELSE G[i - 1]
  <2> TAKE i \in 0 .. k
  <2>1. CASE i = k
    <3>1. G[i] = IF g[k - 1] \in Nodes THEN next[g[k - 1]] ELSE g[k - 1]
        BY <1>2, <2>1
    <3>2. G[i - 1] = g[k - 1]
        BY <1>2, <1>3, <1>6, <2>1
    <3> QED
        BY <1>3, <2>1, <3>1, <3>2
  <2>2. CASE i # k
    <3>1. i \in 0 .. k - 1 /\ (i # 0 => i - 1 \in 0 .. k - 1)
        BY <1>2, <2>2
    <3>2. g[i] = IF i = 0 THEN h
                 ELSE IF g[i - 1] \in Nodes THEN next[g[i - 1]] ELSE g[i - 1]
        BY <1>5, <3>1 DEF IsWalk
    <3> HIDE DEF G
    <3> QED
        BY <1>6, <3>1, <3>2
  <2> QED
      BY <2>1, <2>2, Zenon
<1>8. IsWalk(G, next, h, k)
  <2>1. G = [i \in 0 .. k |-> G[i]]
      OBVIOUS
  <2> HIDE DEF G
  <2> QED
      BY <1>7, <2>1, Zenon DEF IsWalk
<1> QED
    BY <1>2, <1>8

Walk(next, h) == CHOOSE g : IsWalk(g, next, h, Cardinality(Nodes))

\* The walk, step by step.
LEMMA WalkSteps ==
    ASSUME NEW next, NEW h
    PROVE  /\ Cardinality(Nodes) \in Nat
           /\ Walk(next, h)[0] = h
           /\ \A i \in 1 .. Cardinality(Nodes) :
                 Walk(next, h)[i - 1] \in Nodes =>
                    Walk(next, h)[i] = next[Walk(next, h)[i - 1]]
<1>1. Cardinality(Nodes) \in Nat
    BY ListAssumption, FS_CardinalityType, Zenon
<1>2. IsWalk(Walk(next, h), next, h, Cardinality(Nodes))
    BY <1>1, WalkExists, Zenon DEF Walk
<1> DEFINE g == Walk(next, h)
<1> HIDE DEF g
<1>3. \A i \in 0 .. Cardinality(Nodes) :
         g[i] = IF i = 0 THEN h
                ELSE IF g[i - 1] \in Nodes THEN next[g[i - 1]] ELSE g[i - 1]
    BY <1>2, Zenon DEF IsWalk, g
<1>4. g[0] = h /\ \A i \in 1 .. Cardinality(Nodes) : g[i - 1] \in Nodes => g[i] = next[g[i - 1]]
    BY <1>1, <1>3
<1> QED
    BY <1>1, <1>4 DEF g

\* q leads back along the first n steps of g.
LeadsBack(q, g, n) == \A i \in 1 .. n : q[g[i]] = g[i - 1]

\* The entries are those of the walk up to the first return to h.
LEMMA ContentsWalk ==
    ASSUME NEW m, NEW h
    PROVE  Contents(m, h) =
             LET g == Walk(m.next, h)
                 back == {i \in 1 .. Cardinality(Nodes) : g[i] = h}
                 len == IF back = {} THEN Cardinality(Nodes)
                        ELSE (CHOOSE i \in back : \A j \in back : i <= j) - 1
             IN  [i \in 1 .. len |-> g[i]]
    BY Zenon DEF Contents, Walk, IsWalk

\* A walk that can be followed back and meets a node twice meets its first
\* node again.
LEMMA RepeatsFirst ==
    ASSUME NEW n \in Nat, NEW g, NEW q, LeadsBack(q, g, n),
           NEW x \in 0 .. n, NEW y \in 0 .. n, x # y, g[x] = g[y]
    PROVE  \E i \in 1 .. n : g[i] = g[0]
<1> USE DEF LeadsBack
<1> DEFINE S == {i \in 0 .. n : \E j \in 0 .. n : i < j /\ g[i] = g[j]}
<1>1. S \subseteq Nat /\ S # {}
  <2>1. x \in S \/ y \in S
      OBVIOUS
  <2> QED
      BY <2>1
<1>2. PICK i \in S : \A j \in S : i <= j
  <2> HIDE DEF S
  <2> QED
      BY <1>1, LeastNat, Zenon
<1>3. PICK j \in 0 .. n : i < j /\ g[i] = g[j]
    OBVIOUS
<1>4. i = 0
  <2> SUFFICES ASSUME i # 0 PROVE FALSE
      OBVIOUS
  <2>1. i \in 1 .. n /\ j \in 1 .. n
      BY <1>3
  <2>2. g[i - 1] = g[j - 1]
      BY <1>3, <2>1
  <2>3. i - 1 \in S
      BY <1>3, <2>1, <2>2
  <2> QED
      BY <1>2, <2>1, <2>3
<1> QED
    BY <1>3, <1>4

\* A walk from a node of a ring stays in the rings, and comes back.
LEMMA WalkReturns ==
    ASSUME NEW f, NEW p, NEW R, R \subseteq Nodes, Closed(f, p, R), NEW h \in R
    PROVE  /\ \A i \in 0 .. Cardinality(Nodes) : Walk(f, h)[i] \in R
           /\ \A i \in 1 .. Cardinality(Nodes) :
                 Walk(f, h)[i] = f[Walk(f, h)[i - 1]] /\ p[Walk(f, h)[i]] = Walk(f, h)[i - 1]
           /\ \E i \in 1 .. Cardinality(Nodes) : Walk(f, h)[i] = h
<1> DEFINE g == Walk(f, h)
           N == Cardinality(Nodes)
<1>1. /\ N \in Nat /\ g[0] = h
      /\ \A i \in 1 .. N : g[i - 1] \in Nodes => g[i] = f[g[i - 1]]
    BY WalkSteps
<1> HIDE DEF g, N
<1>2. \A i \in 0 .. N : g[i] \in R
  <2> DEFINE Out == {i \in 0 .. N : g[i] \notin R}
  <2> SUFFICES ASSUME Out # {} PROVE FALSE
      OBVIOUS
  <2>1. Out \subseteq Nat
      BY <1>1
  <2>2. PICK i \in Out : \A j \in Out : i <= j
    <3> HIDE DEF Out
    <3> QED
        BY <2>1, LeastNat, Zenon
  <2>3. i \in 1 .. N /\ i - 1 \in 0 .. N /\ i - 1 \notin Out
      BY <1>1, <2>1, <2>2
  <2>4. g[i - 1] \in R
      BY <2>3
  <2>5. g[i] = f[g[i - 1]]
      BY <1>1, <2>3, <2>4
  <2> QED
      BY <2>4, <2>5 DEF Closed
<1>3. \A i \in 1 .. N : g[i] = f[g[i - 1]] /\ p[g[i]] = g[i - 1]
  <2> TAKE i \in 1 .. N
  <2>1. g[i - 1] \in R
      BY <1>1, <1>2
  <2>2. g[i] = f[g[i - 1]]
      BY <1>1, <2>1
  <2> QED
      BY <2>1, <2>2 DEF Closed
<1>4. \E x, y \in 0 .. N : x # y /\ g[x] = g[y]
  <2> DEFINE w == [i \in 0 .. N |-> g[i]]
  <2>1. IsFiniteSet(Nodes) /\ IsFiniteSet(0 .. N) /\ Cardinality(0 .. N) = N + 1
      BY <1>1, ListAssumption, FS_Interval
  <2>2. Cardinality(Nodes) < Cardinality(0 .. N)
      BY <1>1, <2>1 DEF N
  <2>3. w \in [0 .. N -> Nodes]
      BY <1>2
  <2>4. \E x, y \in 0 .. N : x # y /\ w[x] = w[y]
    <3> HIDE DEF w
    <3> QED
        BY <2>1, <2>2, <2>3, FS_PigeonHole, Zenon
  <2> QED
      BY <2>4
<1>5. \E i \in 1 .. N : g[i] = h
  <2>1. PICK x \in 0 .. N, y \in 0 .. N : x # y /\ g[x] = g[y]
      BY <1>4
  <2>2. LeadsBack(p, g, N)
      BY <1>3, Zenon DEF LeadsBack
  <2>3. \E i \in 1 .. N : g[i] = g[0]
      BY <1>1, <2>1, <2>2, RepeatsFirst, Zenon
  <2> QED
      BY <1>1, <2>3
<1> QED
    BY <1>2, <1>3, <1>5 DEF g, N

\* next leads from h through q and back.
Chain(next, h, q) ==
    /\ \A i \in 1 .. Len(q) : q[i] # h
    /\ next[h] = IF Len(q) = 0 THEN h ELSE q[1]
    /\ \A i \in 1 .. Len(q) : next[q[i]] = IF i = Len(q) THEN h ELSE q[i + 1]

\* c are the other nodes of the ring of h.
ListOf(m, R, h, c) ==
    /\ c \in Seq(Nodes) /\ Chain(m.next, h, c) /\ Distinct(c)
    /\ \A i \in 1 .. Len(c) : c[i] \in R

\* What Contents returns for a node of a ring: the other nodes of its ring,
\* each once, in the order in which next leads through them.
LEMMA RingContents ==
    ASSUME NEW m, NEW R, Linked(m, R), NEW h \in R
    PROVE  /\ Contents(m, h) \in Seq(Nodes)
           /\ Chain(m.next, h, Contents(m, h))
           /\ Distinct(Contents(m, h))
           /\ \A i \in 1 .. Len(Contents(m, h)) : Contents(m, h)[i] \in R
<1> DEFINE g == Walk(m.next, h)
           N == Cardinality(Nodes)
           back == {i \in 1 .. N : g[i] = h}
           r == CHOOSE i \in back : \A j \in back : i <= j
           q == Contents(m, h)
<1>1. N \in Nat /\ g[0] = h
    BY WalkSteps
<1>2. /\ \A i \in 0 .. N : g[i] \in R
      /\ \A i \in 1 .. N : g[i] = m.next[g[i - 1]] /\ m.prev[g[i]] = g[i - 1]
      /\ back # {}
    BY WalkReturns DEF Linked
<1>3. q = [i \in 1 .. (IF back = {} THEN N ELSE r - 1) |-> g[i]]
    BY ContentsWalk, Zenon
<1> HIDE DEF g, N, q
<1>4. back \subseteq Nat
    BY <1>1
<1>5. r \in back /\ \A j \in back : r <= j
  <2> HIDE DEF back
  <2>1. \E i \in back : \A j \in back : i <= j
      BY <1>2, <1>4, LeastNat, Zenon
  <2> QED
      BY <2>1, Zenon DEF r
<1> HIDE DEF r
<1>6. r \in 1 .. N /\ g[r] = h /\ \A i \in 1 .. r - 1 : g[i] # h
    BY <1>1, <1>5
<1>7. q = [i \in 1 .. r - 1 |-> g[i]]
    BY <1>2, <1>3
<1> HIDE DEF back
<1>8. /\ r - 1 \in Nat /\ 1 .. r - 1 \subseteq 1 .. N /\ 0 .. r - 1 \subseteq 0 .. N
    BY <1>1, <1>6
<1>9. q \in Seq(Nodes) /\ Len(q) = r - 1
    BY <1>2, <1>7, <1>8 DEF Linked
<1>10. \A i \in 1 .. Len(q) : q[i] = g[i] /\ q[i] \in R /\ q[i] # h
    BY <1>2, <1>6, <1>7, <1>8, <1>9
<1>11. \A i, j \in 1 .. Len(q) : q[i] = q[j] => i = j
  <2> SUFFICES ASSUME NEW i \in 1 .. r - 1, NEW j \in 1 .. r - 1, g[i] = g[j], i # j
               PROVE  FALSE
      BY <1>9, <1>10
  <2>1. i \in 0 .. r - 1 /\ j \in 0 .. r - 1
      BY <1>8
  <2>2. LeadsBack(m.prev, g, r - 1)
      BY <1>2, <1>8 DEF LeadsBack
  <2>3. \E k \in 1 .. r - 1 : g[k] = g[0]
      BY <1>8, <2>1, <2>2, RepeatsFirst, Zenon
  <2> QED
      BY <1>1, <1>6, <2>3
<1>12. m.next[h] = IF Len(q) = 0 THEN h ELSE q[1]
  <2>1. m.next[h] = g[1]
      BY <1>1, <1>2, <1>6
  <2>2. CASE r = 1
      BY <1>1, <1>6, <1>9, <2>1, <2>2
  <2>3. CASE r # 1
      BY <1>6, <1>8, <1>9, <1>10, <2>1, <2>3, SMTT(60), Z3T(60)
  <2> QED
      BY <2>2, <2>3
<1>13. \A i \in 1 .. Len(q) : m.next[q[i]] = IF i = Len(q) THEN h ELSE q[i + 1]
  <2> TAKE i \in 1 .. Len(q)
  <2>1. i + 1 \in 1 .. N
      BY <1>1, <1>6, <1>9
  <2>2. g[i + 1] = m.next[g[i]]
      BY <1>2, <2>1
  <2>3. CASE i = Len(q)
      BY <1>6, <1>9, <1>10, <2>2, <2>3
  <2>4. CASE i # Len(q)
      BY <1>9, <1>10, <2>2, <2>4
  <2> QED
      BY <2>3, <2>4
<1>14. Chain(m.next, h, q) /\ Distinct(q)
    BY <1>10, <1>11, <1>12, <1>13 DEF Chain, Distinct
<1> QED
    BY <1>9, <1>10, <1>14 DEF q

\* There is only one way to go through a ring.
LEMMA ContentsUnique ==
    ASSUME NEW m, NEW R, Linked(m, R), NEW h \in R,
           NEW q \in Seq(Nodes), Chain(m.next, h, q)
    PROVE  Contents(m, h) = q
<1> DEFINE c == Contents(m, h)
<1>0. c \in Seq(Nodes) /\ Chain(m.next, h, c)
    BY RingContents
<1>1. /\ c \in Seq(Nodes)
      /\ \A i \in 1 .. Len(c) : c[i] # h
      /\ m.next[h] = IF Len(c) = 0 THEN h ELSE c[1]
      /\ \A i \in 1 .. Len(c) : m.next[c[i]] = IF i = Len(c) THEN h ELSE c[i + 1]
    BY <1>0, Zenon DEF Chain
<1>2. /\ \A i \in 1 .. Len(q) : q[i] # h
      /\ m.next[h] = IF Len(q) = 0 THEN h ELSE q[1]
      /\ \A i \in 1 .. Len(q) : m.next[q[i]] = IF i = Len(q) THEN h ELSE q[i + 1]
    BY DEF Chain
<1> HIDE DEF c
<1>3. Len(c) \in Nat /\ Len(q) \in Nat
    BY <1>1
<1>4. \A i \in 1 .. Len(c) : i <= Len(q) /\ c[i] = q[i]
  <2> DEFINE Bad == {i \in 1 .. Len(c) : ~(i <= Len(q) /\ c[i] = q[i])}
  <2> SUFFICES ASSUME Bad # {} PROVE FALSE
      OBVIOUS
  <2>1. Bad \subseteq Nat
      BY <1>3
  <2>2. PICK i \in Bad : \A j \in Bad : i <= j
    <3> HIDE DEF Bad
    <3> QED
        BY <2>1, LeastNat, Zenon
  <2>3. i \in 1 .. Len(c) /\ ~(i <= Len(q) /\ c[i] = q[i])
      OBVIOUS
  <2>4. CASE i = 1
    <3>1. m.next[h] = c[1] /\ c[1] # h
        BY <1>1, <1>3, <2>3, <2>4
    <3> QED
        BY <1>2, <1>3, <2>3, <2>4, <3>1
  <2>5. CASE i # 1
    <3>1. i - 1 \in 1 .. Len(c) /\ i - 1 # Len(c) /\ i - 1 \notin Bad
        BY <1>3, <2>1, <2>2, <2>3, <2>5, SMTT(60), Z3T(60)
    <3>2. i - 1 <= Len(q) /\ c[i - 1] = q[i - 1]
        BY <3>1
    <3>3. m.next[c[i - 1]] = c[i] /\ c[i] # h
        BY <1>1, <1>3, <2>3, <3>1, SMTT(60), Z3T(60)
    <3>4. i - 1 # Len(q) /\ m.next[q[i - 1]] = q[i]
        BY <1>2, <1>3, <3>1, <3>2, <3>3
    <3> QED
        BY <1>3, <2>3, <3>1, <3>2, <3>3, <3>4, SMTT(60), Z3T(60)
  <2> QED
      BY <2>4, <2>5
<1>5. Len(c) = Len(q)
  <2> SUFFICES ASSUME Len(c) # Len(q) PROVE FALSE
      OBVIOUS
  <2>1. Len(c) < Len(q)
    <3>1. CASE Len(c) = 0
        BY <1>3, <3>1
    <3>2. CASE Len(c) # 0
        BY <1>3, <1>4, <3>2
    <3> QED
        BY <3>1, <3>2
  <2>2. CASE Len(c) = 0
      BY <1>1, <1>2, <1>3, <2>1, <2>2
  <2>3. CASE Len(c) # 0
    <3>1. Len(c) \in 1 .. Len(c) /\ Len(c) \in 1 .. Len(q) /\ Len(c) + 1 \in 1 .. Len(q)
        BY <1>3, <2>1, <2>3
    <3>2. m.next[c[Len(c)]] = h
        BY <1>1, <3>1
    <3>3. m.next[q[Len(c)]] = q[Len(c) + 1]
        BY <1>2, <2>1, <1>3, <3>1
    <3> QED
        BY <1>2, <1>4, <3>1, <3>2, <3>3, Zenon
  <2> QED
      BY <2>2, <2>3
<1>6. c = q
    BY <1>1, <1>3, <1>4, <1>5
<1> QED
    BY <1>6 DEF c

\* The nodes of the ring of a head have its label.
LEMMA RingLabels ==
    ASSUME NEW m, NEW H, NEW R, NEW own, Labelled(own, m, H, R), NEW h \in H
    PROVE  \A i \in 1 .. Len(Contents(m, h)) : own[Contents(m, h)[i]] = h
<1> USE DEF Labelled
<1> DEFINE c == Contents(m, h)
<1>0. /\ c \in Seq(Nodes) /\ Chain(m.next, h, c)
      /\ \A j \in 1 .. Len(c) : c[j] \in R
    BY RingContents
<1>1. /\ c \in Seq(Nodes)
      /\ \A j \in 1 .. Len(c) : c[j] \in R
      /\ m.next[h] = IF Len(c) = 0 THEN h ELSE c[1]
      /\ \A j \in 1 .. Len(c) : m.next[c[j]] = IF j = Len(c) THEN h ELSE c[j + 1]
    BY <1>0, Zenon DEF Chain
<1> HIDE DEF c
<1> DEFINE Bad == {j \in 1 .. Len(c) : own[c[j]] # h}
<1> SUFFICES ASSUME Bad # {} PROVE FALSE
    BY DEF c
<1>2. Bad \subseteq Nat /\ Len(c) \in Nat
    BY <1>1
<1>3. PICK j \in Bad : \A k \in Bad : j <= k
  <2> HIDE DEF Bad
  <2> QED
      BY <1>2, LeastNat, Zenon
<1>4. j \in 1 .. Len(c) /\ own[c[j]] # h
    OBVIOUS
<1>5. CASE j = 1
    BY <1>1, <1>2, <1>4, <1>5 DEF Labelled
<1>6. CASE j # 1
  <2>1. j - 1 \in 1 .. Len(c) /\ j - 1 # Len(c) /\ j - 1 \notin Bad
      BY <1>2, <1>3, <1>4, <1>6
  <2>2. own[c[j - 1]] = h /\ c[j - 1] \in R
      BY <1>1, <2>1
  <2>3. m.next[c[j - 1]] = c[j]
      BY <1>1, <1>2, <1>4, <2>1
  <2> QED
      BY <1>4, <2>2, <2>3 DEF Labelled
<1> QED
    BY <1>5, <1>6

-----------------------------------------------------------------------------
(* What each function writes, pointer by pointer.                          *)

\* INIT_LIST_HEAD
LEMMA InitialisedWrites ==
    ASSUME NEW m \in Mem, NEW e \in Nodes
    PROVE  /\ Initialised(m, e) \in Mem
           /\ \A n \in Nodes :
                 /\ Initialised(m, e).next[n] = IF n = e THEN e ELSE m.next[n]
                 /\ Initialised(m, e).prev[n] = IF n = e THEN e ELSE m.prev[n]
    BY Zenon DEF Initialised, Mem

\* __list_add
LEMMA AddedWrites ==
    ASSUME NEW m \in Mem, NEW e \in Nodes, NEW b \in Nodes, NEW a \in Nodes
    PROVE  /\ Added(m, e, b, a) \in Mem
           /\ \A n \in Nodes :
                 /\ Added(m, e, b, a).next[n] =
                       IF n = b THEN e ELSE IF n = e THEN a ELSE m.next[n]
                 /\ Added(m, e, b, a).prev[n] =
                       IF n = e THEN b ELSE IF n = a THEN e ELSE m.prev[n]
    BY Zenon DEF Added, Mem

\* __list_del
LEMMA UnlinkedWrites ==
    ASSUME NEW m \in Mem, NEW b \in Nodes, NEW a \in Nodes
    PROVE  /\ Unlinked(m, b, a) \in Mem
           /\ \A n \in Nodes :
                 /\ Unlinked(m, b, a).next[n] = IF n = b THEN a ELSE m.next[n]
                 /\ Unlinked(m, b, a).prev[n] = IF n = a THEN b ELSE m.prev[n]
    BY Zenon DEF Unlinked, Mem

\* list_del
LEMMA DeletedWrites ==
    ASSUME NEW m \in Mem, NEW e \in Nodes, m.prev[e] \in Nodes, m.next[e] \in Nodes
    PROVE  /\ Deleted(m, e) \in Mem
           /\ \A n \in Nodes \ {e} :
                 /\ Deleted(m, e).next[n] = Unlinked(m, m.prev[e], m.next[e]).next[n]
                 /\ Deleted(m, e).prev[n] = Unlinked(m, m.prev[e], m.next[e]).prev[n]
<1> DEFINE u == Unlinked(m, m.prev[e], m.next[e])
<1>1. u \in Mem
    BY UnlinkedWrites, SMTT(30), Z3T(30)
<1> HIDE DEF u
<1>2. Deleted(m, e) = [u EXCEPT !.next[e] = Poison1, !.prev[e] = Poison2]
    BY DEF Deleted, u
<1> DEFINE d == [u EXCEPT !.next[e] = Poison1, !.prev[e] = Poison2]
<1>3. d \in Mem /\ \A n \in Nodes \ {e} : d.next[n] = u.next[n] /\ d.prev[n] = u.prev[n]
    BY <1>1, Zenon DEF Mem
<1> HIDE DEF d
<1>4. Deleted(m, e) = d
    BY <1>2 DEF d
<1> QED
    BY <1>3, <1>4, Zenon DEF u

\* __list_splice
LEMMA SplicedWrites ==
    ASSUME NEW m \in Mem, NEW l \in Nodes, NEW h \in Nodes,
           m.next[l] \in Nodes, m.prev[l] \in Nodes, m.next[h] \in Nodes
    PROVE  /\ Spliced(m, l, h) \in Mem
           /\ \A n \in Nodes :
                 /\ Spliced(m, l, h).next[n] =
                       IF n = m.prev[l] THEN m.next[h]
                       ELSE IF n = h THEN m.next[l] ELSE m.next[n]
                 /\ Spliced(m, l, h).prev[n] =
                       IF n = m.next[h] THEN m.prev[l]
                       ELSE IF n = m.next[l] THEN h ELSE m.prev[n]
    BY Zenon DEF Spliced, Mem

\* list_replace, of a list of one node or more.
LEMMA ReplacedWrites ==
    ASSUME NEW m \in Mem, NEW h \in Nodes, NEW e \in Nodes, e # h,
           m.next[h] \in Nodes, m.prev[h] \in Nodes
    PROVE  LET last == IF m.next[h] = h THEN e ELSE m.prev[h]
           IN  /\ Replaced(m, h, e) \in Mem
               /\ \A n \in Nodes :
                     /\ Replaced(m, h, e).next[n] =
                           IF n = last THEN e ELSE IF n = e THEN m.next[h] ELSE m.next[n]
                     /\ Replaced(m, h, e).prev[n] =
                           IF n = e THEN last ELSE IF n = m.next[h] THEN e ELSE m.prev[n]
<1> DEFINE a == [m EXCEPT !.next[e] = m.next[h]]
           b == [a EXCEPT !.prev[a.next[e]] = e]
           c == [b EXCEPT !.prev[e] = b.prev[h]]
           d == [c EXCEPT !.next[c.prev[e]] = e]
           last == IF m.next[h] = h THEN e ELSE m.prev[h]
<1>1. Replaced(m, h, e) = d
    BY Zenon DEF Replaced
<1>2. /\ a \in Mem /\ a.next[e] = m.next[h]
      /\ \A n \in Nodes : /\ a.next[n] = IF n = e THEN m.next[h] ELSE m.next[n]
                          /\ a.prev[n] = m.prev[n]
    BY DEF Mem
<1> HIDE DEF a
<1>3. /\ b \in Mem
      /\ \A n \in Nodes : /\ b.next[n] = a.next[n]
                          /\ b.prev[n] = IF n = m.next[h] THEN e ELSE m.prev[n]
    BY <1>2 DEF Mem
<1> HIDE DEF b
<1>4. b.prev[h] = last /\ last \in Nodes
    BY <1>3
<1>5. /\ c \in Mem
      /\ \A n \in Nodes : /\ c.next[n] = b.next[n]
                          /\ c.prev[n] = IF n = e THEN last ELSE b.prev[n]
    BY <1>3, <1>4 DEF Mem
<1> HIDE DEF c, last
<1>6. c.prev[e] = last
    BY <1>5
<1>7. /\ d \in Mem
      /\ \A n \in Nodes : /\ d.next[n] = IF n = last THEN e ELSE c.next[n]
                          /\ d.prev[n] = c.prev[n]
    BY <1>4, <1>5, <1>6, SMTT(60), Z3T(60) DEF Mem
<1> HIDE DEF d
<1>8. \A n \in Nodes :
         /\ d.next[n] = IF n = last THEN e ELSE IF n = e THEN m.next[h] ELSE m.next[n]
         /\ d.prev[n] = IF n = e THEN last ELSE IF n = m.next[h] THEN e ELSE m.prev[n]
    BY <1>2, <1>3, <1>5, <1>7
<1> QED
    BY <1>1, <1>7, <1>8, SMTT(60), Z3T(60) DEF last

-----------------------------------------------------------------------------
(* What these writes do to rings.                                          *)

\* next in memory k, after a function took memory m to it.
Skips(m, k, R, e) ==
    k.next[m.prev[e]] = m.next[e] /\ \A n \in R : n # m.prev[e] => k.next[n] = m.next[n]

Inserts(m, k, R, b, e) ==
    /\ k.next[b] = e /\ k.next[e] = m.next[b]
    /\ \A n \in R : n # b => k.next[n] = m.next[n]

Joins(m, k, R, l, h) ==
    /\ m.prev[l] # h /\ k.next[h] = m.next[l] /\ k.next[m.prev[l]] = m.next[h]
    /\ \A n \in R : n # h /\ n # m.prev[l] => k.next[n] = m.next[n]

Renames(m, k, R, h, e) ==
    /\ k.next[e] = IF m.next[h] = h THEN e ELSE m.next[h]
    /\ m.next[h] # h => k.next[m.prev[h]] = e
    /\ \A n \in R : n # h /\ n # m.prev[h] => k.next[n] = m.next[n]

\* __list_del: the neighbours of e are joined.
LEMMA UnlinkClosed ==
    ASSUME NEW m \in Mem, NEW R, Linked(m, R), NEW e \in R
    PROVE  LET k == Unlinked(m, m.prev[e], m.next[e])
           IN  /\ k \in Mem
               /\ Linked(k, R \ {e})
               /\ Skips(m, k, R, e)
<1> DEFINE k == Unlinked(m, m.prev[e], m.next[e])
<1>0. /\ R \subseteq Nodes
      /\ \A n \in R : /\ m.next[n] \in R /\ m.prev[n] \in R
                       /\ m.prev[m.next[n]] = n /\ m.next[m.prev[n]] = n
    BY Zenon DEF Linked, Closed
<1>1. /\ k \in Mem
      /\ \A n \in R : k.next[n] = IF n = m.prev[e] THEN m.next[e] ELSE m.next[n]
      /\ \A n \in R : k.prev[n] = IF n = m.next[e] THEN m.prev[e] ELSE m.prev[n]
  <2>1. PICK b \in Nodes, a \in Nodes : b = m.prev[e] /\ a = m.next[e]
      BY <1>0
  <2>2. /\ Unlinked(m, b, a) \in Mem
        /\ \A n \in Nodes :
              /\ Unlinked(m, b, a).next[n] = IF n = b THEN a ELSE m.next[n]
              /\ Unlinked(m, b, a).prev[n] = IF n = a THEN b ELSE m.prev[n]
      BY UnlinkedWrites
  <2> QED
      BY <1>0, <2>1, <2>2, Zenon
<1> HIDE DEF k
<1>2. ASSUME NEW n \in R \ {e} PROVE k.next[n] \in R \ {e} /\ k.prev[k.next[n]] = n
  <2>1. CASE n = m.prev[e]
    <3>1. k.next[n] = m.next[e] /\ m.next[e] # e
        BY <1>0, <1>1, <2>1, Zenon
    <3> QED
        BY <1>0, <1>1, <2>1, <3>1, Zenon
  <2>2. CASE n # m.prev[e]
    <3>1. k.next[n] = m.next[n] /\ m.next[n] # e /\ m.next[n] # m.next[e]
        BY <1>0, <1>1, <2>2, SMTT(60), Z3T(60)
    <3> QED
        BY <1>0, <1>1, <3>1
  <2> QED
      BY <2>1, <2>2, Zenon
<1>3. ASSUME NEW n \in R \ {e} PROVE k.prev[n] \in R \ {e} /\ k.next[k.prev[n]] = n
  <2>1. CASE n = m.next[e]
    <3>1. k.prev[n] = m.prev[e] /\ m.prev[e] # e
        BY <1>0, <1>1, <2>1, Zenon
    <3> QED
        BY <1>0, <1>1, <2>1, <3>1, Zenon
  <2>2. CASE n # m.next[e]
    <3>1. k.prev[n] = m.prev[n] /\ m.prev[n] # e /\ m.prev[n] # m.prev[e]
        BY <1>0, <1>1, <2>2
    <3> QED
        BY <1>0, <1>1, <3>1
  <2> QED
      BY <2>1, <2>2, Zenon
<1>4. Linked(k, R \ {e})
    BY <1>0, <1>2, <1>3, Zenon DEF Linked, Closed
<1>5. Skips(m, k, R, e)
    BY <1>0, <1>1, Zenon DEF Skips
<1> QED
    BY <1>1, <1>4, <1>5, Zenon DEF k

\* __list_add: e is put between b and the node after it.
LEMMA AddClosed ==
    ASSUME NEW m \in Mem, NEW R, Linked(m, R), NEW b \in R, NEW e \in Nodes, e \notin R
    PROVE  LET k == Added(m, e, b, m.next[b])
           IN  /\ k \in Mem
               /\ Linked(k, R \cup {e})
               /\ Inserts(m, k, R, b, e)
<1> DEFINE k == Added(m, e, b, m.next[b])
<1>0. /\ R \subseteq Nodes
      /\ \A n \in R : /\ m.next[n] \in R /\ m.prev[n] \in R
                       /\ m.prev[m.next[n]] = n /\ m.next[m.prev[n]] = n
    BY Zenon DEF Linked, Closed
<1>1. /\ k \in Mem /\ k.next[e] = m.next[b] /\ k.prev[e] = b
      /\ \A n \in R : k.next[n] = IF n = b THEN e ELSE m.next[n]
      /\ \A n \in R : k.prev[n] = IF n = m.next[b] THEN e ELSE m.prev[n]
  <2>1. PICK a \in Nodes : a = m.next[b]
      BY <1>0
  <2>2. b \in Nodes
      BY <1>0
  <2>3. /\ Added(m, e, b, a) \in Mem
        /\ \A n \in Nodes :
              /\ Added(m, e, b, a).next[n] =
                    IF n = b THEN e ELSE IF n = e THEN a ELSE m.next[n]
              /\ Added(m, e, b, a).prev[n] =
                    IF n = e THEN b ELSE IF n = a THEN e ELSE m.prev[n]
      BY <2>2, AddedWrites
  <2> QED
      BY <1>0, <2>1, <2>2, <2>3, Zenon
<1> HIDE DEF k
<1>2. k.next[e] \in R /\ k.prev[e] \in R /\ k.prev[k.next[e]] = e /\ k.next[k.prev[e]] = e
    BY <1>0, <1>1
<1>3. ASSUME NEW n \in R PROVE k.next[n] \in R \cup {e} /\ k.prev[k.next[n]] = n
  <2>1. CASE n = b
      BY <1>1, <2>1, Zenon
  <2>2. CASE n # b
    <3>1. k.next[n] = m.next[n] /\ m.next[n] # m.next[b] /\ m.next[n] \in R
        BY <1>0, <1>1, <2>2
    <3> QED
        BY <1>0, <1>1, <3>1
  <2> QED
      BY <2>1, <2>2, Zenon
<1>4. ASSUME NEW n \in R PROVE k.prev[n] \in R \cup {e} /\ k.next[k.prev[n]] = n
  <2>1. CASE n = m.next[b]
      BY <1>1, <2>1, Zenon
  <2>2. CASE n # m.next[b]
    <3>1. k.prev[n] = m.prev[n] /\ m.prev[n] # b /\ m.prev[n] \in R
        BY <1>0, <1>1, <2>2, Zenon
    <3> QED
        BY <1>0, <1>1, <3>1
  <2> QED
      BY <2>1, <2>2, Zenon
<1>5. Linked(k, R \cup {e})
    BY <1>0, <1>2, <1>3, <1>4, SMTT(60), Z3T(60) DEF Linked, Closed
<1>6. Inserts(m, k, R, b, e)
    BY <1>1 DEF Inserts
<1> QED
    BY <1>1, <1>5, <1>6, Zenon DEF k

\* Whole rings can be left out.
LEMMA RestClosed ==
    ASSUME NEW m, NEW R, Linked(m, R),
           NEW C, \A n \in C : m.next[n] \in C /\ m.prev[n] \in C
    PROVE  Linked(m, R \ C)
    BY DEF Linked, Closed

\* __list_splice: the nodes after l are put after h, and l is left out.
LEMMA SpliceClosed ==
    ASSUME NEW m \in Mem, NEW R, Linked(m, R),
           NEW l \in R, NEW h \in R, l # h, m.next[l] # l, m.next[h] # l
    PROVE  LET k == Spliced(m, l, h)
           IN  /\ k \in Mem
               /\ Linked(k, R \ {l})
               /\ Joins(m, k, R, l, h)
<1> DEFINE k == Spliced(m, l, h)
<1>0. /\ R \subseteq Nodes
      /\ \A n \in R : /\ m.next[n] \in R /\ m.prev[n] \in R
                       /\ m.prev[m.next[n]] = n /\ m.next[m.prev[n]] = n
    BY Zenon DEF Linked, Closed
<1>1. /\ m.next[l] \in R \ {l} /\ m.prev[l] \in R \ {l} /\ m.next[h] \in R \ {l}
      /\ m.prev[l] # h /\ m.next[l] # m.next[h]
    BY <1>0
<1>2. /\ k \in Mem
      /\ \A n \in R : k.next[n] = IF n = h THEN m.next[l]
                                 ELSE IF n = m.prev[l] THEN m.next[h] ELSE m.next[n]
      /\ \A n \in R : k.prev[n] = IF n = m.next[l] THEN h
                                 ELSE IF n = m.next[h] THEN m.prev[l] ELSE m.prev[n]
  <2>1. /\ l \in Nodes /\ h \in Nodes
        /\ m.next[l] \in Nodes /\ m.prev[l] \in Nodes /\ m.next[h] \in Nodes
      BY <1>0
  <2>2. /\ k \in Mem
        /\ \A n \in R : k.next[n] = IF n = m.prev[l] THEN m.next[h]
                                   ELSE IF n = h THEN m.next[l] ELSE m.next[n]
        /\ \A n \in R : k.prev[n] = IF n = m.next[h] THEN m.prev[l]
                                   ELSE IF n = m.next[l] THEN h ELSE m.prev[n]
      BY <1>0, <2>1, SplicedWrites
  <2> HIDE DEF k
  <2> QED
      BY <1>1, <2>2, Zenon
<1> HIDE DEF k
<1>3. ASSUME NEW n \in R \ {l} PROVE k.next[n] \in R \ {l} /\ k.prev[k.next[n]] = n
  <2>1. CASE n = h
      BY <1>1, <1>2, <2>1, Zenon
  <2>2. CASE n # h /\ n = m.prev[l]
      BY <1>1, <1>2, <2>2, Zenon
  <2>3. CASE n # h /\ n # m.prev[l]
    <3>1. /\ k.next[n] = m.next[n] /\ m.next[n] \in R /\ m.next[n] # l
          /\ m.next[n] # m.next[l] /\ m.next[n] # m.next[h] /\ m.prev[m.next[n]] = n
        BY <1>0, <1>2, <2>3
    <3> QED
        BY <1>2, <3>1, Zenon
  <2> QED
      BY <2>1, <2>2, <2>3, Zenon
<1>4. ASSUME NEW n \in R \ {l} PROVE k.prev[n] \in R \ {l} /\ k.next[k.prev[n]] = n
  <2>1. CASE n = m.next[l]
      BY <1>1, <1>2, <2>1, Zenon
  <2>2. CASE n # m.next[l] /\ n = m.next[h]
      BY <1>1, <1>2, <2>2, Zenon
  <2>3. CASE n # m.next[l] /\ n # m.next[h]
    <3>1. /\ k.prev[n] = m.prev[n] /\ m.prev[n] \in R /\ m.prev[n] # l
          /\ m.prev[n] # m.prev[l] /\ m.prev[n] # h /\ m.next[m.prev[n]] = n
        BY <1>0, <1>2, <2>3
    <3> QED
        BY <1>2, <3>1, Zenon
  <2> QED
      BY <2>1, <2>2, <2>3, Zenon
<1>5. Linked(k, R \ {l})
    BY <1>0, <1>3, <1>4, Zenon DEF Linked, Closed
<1>6. Joins(m, k, R, l, h)
    BY <1>1, <1>2, Zenon DEF Joins
<1> QED
    BY <1>2, <1>5, <1>6, Zenon DEF k

\* list_replace: e takes the place of h, alone or not.
LEMMA ReplaceClosed ==
    ASSUME NEW m \in Mem, NEW R, Linked(m, R), NEW h \in R, NEW e \in Nodes, e \notin R
    PROVE  LET k == Replaced(m, h, e)
           IN  /\ k \in Mem
               /\ Linked(k, (R \ {h}) \cup {e})
               /\ Renames(m, k, R, h, e)
<1> DEFINE k == Replaced(m, h, e)
<1>0. /\ R \subseteq Nodes
      /\ \A n \in R : /\ m.next[n] \in R /\ m.prev[n] \in R
                       /\ m.prev[m.next[n]] = n /\ m.next[m.prev[n]] = n
    BY Zenon DEF Linked, Closed
<1>1. m.next[h] = h <=> m.prev[h] = h
    BY <1>0
<1>2. /\ k \in Mem
      /\ k.next[e] = IF m.next[h] = h THEN e ELSE m.next[h]
      /\ k.prev[e] = IF m.next[h] = h THEN e ELSE m.prev[h]
      /\ \A n \in R \ {h} : k.next[n] = IF n = m.prev[h] THEN e ELSE m.next[n]
      /\ \A n \in R \ {h} : k.prev[n] = IF n = m.next[h] THEN e ELSE m.prev[n]
  <2> DEFINE last == IF m.next[h] = h THEN e ELSE m.prev[h]
  <2>1. h \in Nodes /\ m.next[h] \in R /\ m.prev[h] \in R /\ e # h
      BY <1>0
  <2>2. /\ k \in Mem
        /\ \A n \in Nodes :
              /\ k.next[n] = IF n = last THEN e ELSE IF n = e THEN m.next[h] ELSE m.next[n]
              /\ k.prev[n] = IF n = e THEN last ELSE IF n = m.next[h] THEN e ELSE m.prev[n]
      BY <1>0, <2>1, ReplacedWrites
  <2> HIDE DEF k
  <2> QED
      BY <1>0, <1>1, <2>1, <2>2, Zenon
<1> HIDE DEF k
<1>3. /\ k.next[e] \in (R \ {h}) \cup {e} /\ k.prev[e] \in (R \ {h}) \cup {e}
      /\ k.prev[k.next[e]] = e /\ k.next[k.prev[e]] = e
  <2>1. CASE m.next[h] = h
      BY <1>2, <2>1
  <2>2. CASE m.next[h] # h
      BY <1>0, <1>1, <1>2, <2>2, Zenon
  <2> QED
      BY <2>1, <2>2, Zenon
<1>4. ASSUME NEW n \in R \ {h} PROVE k.next[n] \in (R \ {h}) \cup {e} /\ k.prev[k.next[n]] = n
  <2>1. CASE n = m.prev[h]
    <3>1. m.next[h] # h
        BY <1>1, <2>1, Zenon
    <3> QED
        BY <1>2, <2>1, <3>1, Zenon
  <2>2. CASE n # m.prev[h]
    <3>1. /\ k.next[n] = m.next[n] /\ m.next[n] \in R /\ m.next[n] # h
          /\ m.next[n] # m.next[h] /\ m.prev[m.next[n]] = n
        BY <1>0, <1>2, <2>2
    <3> QED
        BY <1>2, <3>1, Zenon
  <2> QED
      BY <2>1, <2>2, Zenon
<1>5. ASSUME NEW n \in R \ {h} PROVE k.prev[n] \in (R \ {h}) \cup {e} /\ k.next[k.prev[n]] = n
  <2>1. CASE n = m.next[h]
    <3>1. m.next[h] # h
        BY <2>1
    <3> QED
        BY <1>2, <2>1, <3>1, Zenon
  <2>2. CASE n # m.next[h]
    <3>1. /\ k.prev[n] = m.prev[n] /\ m.prev[n] \in R /\ m.prev[n] # h
          /\ m.prev[n] # m.prev[h] /\ m.next[m.prev[n]] = n
        BY <1>0, <1>2, <2>2
    <3> QED
        BY <1>2, <3>1, Zenon
  <2> QED
      BY <2>1, <2>2, Zenon
<1>6. Linked(k, (R \ {h}) \cup {e})
    BY <1>0, <1>3, <1>4, <1>5, Zenon DEF Linked, Closed
<1>7. Renames(m, k, R, h, e)
    BY <1>0, <1>1, <1>2, Zenon DEF Renames
<1> QED
    BY <1>2, <1>6, <1>7, SMTT(60), Z3T(60) DEF k

-----------------------------------------------------------------------------
(* What each function does to rings and to what is in them.                *)

\* The lists at H are the same in memories m and k.
Same(m, k, H) == \A h \in H : Contents(k, h) = Contents(m, h)

\* In memory k they are without e.
Shortens(m, k, H, e) == \A h \in H : Contents(k, h) = Promise!Without(Contents(m, h), e)

\* A list none of whose pointers changed has the same contents.
LEMMA ContentsKept ==
    ASSUME NEW m, NEW R, Linked(m, R), NEW k, NEW S, Linked(k, S),
           NEW h \in R, h \in S, k.next[h] = m.next[h],
           \A i \in 1 .. Len(Contents(m, h)) :
              k.next[Contents(m, h)[i]] = m.next[Contents(m, h)[i]]
    PROVE  Contents(k, h) = Contents(m, h)
<1> DEFINE c == Contents(m, h)
<1>1. c \in Seq(Nodes) /\ Chain(m.next, h, c)
    BY RingContents, Zenon
<1>2. \A i \in 1 .. Len(c) : k.next[c[i]] = m.next[c[i]]
    BY Zenon
<1> HIDE DEF c
<1>3. Chain(k.next, h, c)
    BY <1>1, <1>2, Zenon DEF Chain
<1>4. Contents(k, h) = c
    BY <1>1, <1>3, ContentsUnique, Zenon
<1> QED
    BY <1>4, Zenon DEF c

\* So has one whose label is not that of any node that was written.
LEMMA OthersKept ==
    ASSUME NEW m, NEW H, NEW R, NEW own, Labelled(own, m, H, R),
           NEW k, NEW S, Linked(k, S), NEW h \in H, h \in S,
           \A n \in R : own[n] = h => k.next[n] = m.next[n]
    PROVE  Contents(k, h) = Contents(m, h)
<1>1. own[h] = h /\ h \in R /\ Linked(m, R)
    BY Zenon DEF Labelled
<1>2. k.next[h] = m.next[h]
    BY <1>1, Zenon
<1>3. \A i \in 1 .. Len(Contents(m, h)) : Contents(m, h)[i] \in R
    BY <1>1, RingContents, Zenon
<1>4. \A i \in 1 .. Len(Contents(m, h)) : own[Contents(m, h)[i]] = h
    BY RingLabels
<1>5. \A i \in 1 .. Len(Contents(m, h)) :
         k.next[Contents(m, h)[i]] = m.next[Contents(m, h)[i]]
    BY <1>3, <1>4, Zenon
<1> QED
    BY <1>1, <1>2, <1>5, ContentsKept

\* Only the pointers in the rings matter.
LEMMA SamePointers ==
    ASSUME NEW m, NEW H, NEW R, Rings(m, H, R), NEW k \in Mem,
           \A n \in R : k.next[n] = m.next[n] /\ k.prev[n] = m.prev[n]
    PROVE  /\ Rings(k, H, R)
           /\ Same(m, k, R)
<1>1. PICK own : Labelled(own, m, H, R)
    BY Zenon DEF Rings
<1>2. Linked(m, R)
    BY <1>1, Zenon DEF Labelled
<1>3. Linked(k, R)
    BY <1>2 DEF Linked, Closed
<1>4. Labelled(own, k, H, R)
    BY <1>1, <1>3, Zenon DEF Labelled
<1>5. ASSUME NEW h \in R PROVE Contents(k, h) = Contents(m, h)
  <2>1. \A i \in 1 .. Len(Contents(m, h)) : Contents(m, h)[i] \in R
      BY <1>2, RingContents, Zenon
  <2>2. \A i \in 1 .. Len(Contents(m, h)) :
           k.next[Contents(m, h)[i]] = m.next[Contents(m, h)[i]]
      BY <2>1, Zenon
  <2> QED
      BY <1>2, <1>3, <2>2, ContentsKept
<1> QED
    BY <1>4, <1>5, Zenon DEF Rings, Same

\* INIT_LIST_HEAD of a node in no ring: an empty list.
LEMMA InitialisedRings ==
    ASSUME NEW m, NEW H, NEW R, Rings(m, H, R), NEW e \in Nodes, e \notin R
    PROVE  /\ Rings(Initialised(m, e), H \cup {e}, R \cup {e})
           /\ Contents(Initialised(m, e), e) = <<>>
           /\ Same(m, Initialised(m, e), H)
<1> DEFINE k == Initialised(m, e)
<1>1. PICK own : Labelled(own, m, H, R)
    BY Zenon DEF Rings
<1>2. /\ m \in Mem /\ Linked(m, R) /\ H \subseteq R /\ R \subseteq Nodes
      /\ own \in [Nodes -> Nodes] /\ \A n \in R : m.next[n] \in R
    BY <1>1, Zenon DEF Rings, Labelled, Linked, Closed
<1>3. /\ k \in Mem /\ k.next[e] = e /\ k.prev[e] = e
      /\ \A n \in R : k.next[n] = m.next[n] /\ k.prev[n] = m.prev[n]
    BY <1>2, InitialisedWrites
<1> HIDE DEF k
<1>4. Linked(k, R \cup {e})
    BY <1>2, <1>3 DEF Linked, Closed
<1>5. \E o : Labelled(o, k, H \cup {e}, R \cup {e})
  <2> DEFINE o == [own EXCEPT ![e] = e]
  <2>1. o \in [Nodes -> Nodes] /\ o[e] = e /\ \A n \in R : o[n] = own[n]
      BY <1>2
  <2> HIDE DEF o
  <2>2. Labelled(o, k, H \cup {e}, R \cup {e})
      BY <1>1, <1>2, <1>3, <1>4, <2>1, SMTT(60), Z3T(60) DEF Labelled
  <2> QED
      BY <2>2
<1>6. Rings(k, H \cup {e}, R \cup {e})
    BY <1>3, <1>5, Zenon DEF Rings
<1>7. Contents(k, e) = <<>>
  <2>1. <<>> \in Seq(Nodes) /\ Chain(k.next, e, <<>>)
      BY <1>3 DEF Chain
  <2>2. e \in R \cup {e}
      OBVIOUS
  <2> QED
      BY <1>4, <2>1, <2>2, ContentsUnique, Zenon
<1>8. Same(m, k, H)
  <2>1. Same(m, k, R)
      BY <1>3, SamePointers
  <2> QED
      BY <1>2, <2>1 DEF Same
<1> QED
    BY <1>6, <1>7, <1>8 DEF k

\* The facts about labelled rings that every function needs.
LEMMA RingFacts ==
    ASSUME NEW m, NEW H, NEW R, NEW own, m \in Mem, Labelled(own, m, H, R)
    PROVE  /\ Linked(m, R) /\ Closed(m.next, m.prev, R) /\ H \subseteq R /\ R \subseteq Nodes
           /\ own \in [Nodes -> Nodes]
           /\ \A h \in H : own[h] = h /\ own[m.prev[h]] = h
           /\ \A n \in R : own[m.next[n]] = own[n]
           /\ \A n \in R : m.next[n] \in R /\ m.prev[n] \in R
           /\ \A n \in R : m.prev[m.next[n]] = n /\ m.next[m.prev[n]] = n
<1>1. Linked(m, R) /\ Closed(m.next, m.prev, R) /\ H \subseteq R /\ R \subseteq Nodes
    BY Zenon DEF Labelled, Linked
<1>2. /\ \A n \in R : m.next[n] \in R /\ m.prev[n] \in R
      /\ \A n \in R : m.prev[m.next[n]] = n /\ m.next[m.prev[n]] = n
    BY <1>1, Zenon DEF Closed
<1>3. /\ own \in [Nodes -> Nodes]
      /\ \A n \in R : own[m.next[n]] = own[n]
      /\ \A h \in H : own[h] = h
    BY Zenon DEF Labelled
<1>4. \A h \in H : own[m.prev[h]] = h
    BY <1>1, <1>2, <1>3
<1> QED
    BY <1>1, <1>2, <1>3, <1>4, Zenon

Ring(m, e) == {e} \cup {Contents(m, e)[i] : i \in DOMAIN Contents(m, e)}

\* The ring of a head can be given up: no other head is in it.
LEMMA LostRings ==
    ASSUME NEW m, NEW H, NEW R, Rings(m, H, R), NEW e \in H
    PROVE  Rings(m, H \ {e}, R \ Ring(m, e))
<1>1. PICK own : m \in Mem /\ Labelled(own, m, H, R)
    BY Zenon DEF Rings
<1>2. /\ Linked(m, R) /\ Closed(m.next, m.prev, R) /\ H \subseteq R /\ R \subseteq Nodes
      /\ own \in [Nodes -> Nodes] /\ \A h \in H : own[h] = h
      /\ \A n \in R : own[m.next[n]] = own[n]
      /\ \A n \in R : m.prev[m.next[n]] = n
    BY <1>1, RingFacts
<1> DEFINE c == Contents(m, e)
           C == Ring(m, e)
<1>3. /\ c \in Seq(Nodes) /\ Chain(m.next, e, c) /\ e \in R
      /\ \A i \in 1 .. Len(c) : c[i] \in R
    BY <1>2, RingContents, Zenon
<1>4. \A i \in 1 .. Len(c) : own[c[i]] = e
    BY <1>1, RingLabels
<1>5. C = {e} \cup {c[i] : i \in 1 .. Len(c)}
    BY <1>3 DEF Ring
<1> HIDE DEF c, C
<1>6. /\ m.next[e] = IF Len(c) = 0 THEN e ELSE c[1]
      /\ \A i \in 1 .. Len(c) : m.next[c[i]] = IF i = Len(c) THEN e ELSE c[i + 1]
      /\ Len(c) \in Nat
    BY <1>3 DEF Chain
<1>7. ASSUME NEW n \in C PROVE m.next[n] \in C
    BY <1>5, <1>6
<1>8. ASSUME NEW n \in C PROVE \E k \in C : k \in R /\ m.next[k] = n
  <2>1. CASE n = e
    <3>1. CASE Len(c) = 0
        BY <1>3, <1>5, <1>6, <2>1, <3>1, Zenon
    <3>2. CASE Len(c) # 0
      <4>1. Len(c) \in 1 .. Len(c)
          BY <1>6, <3>2
      <4> QED
          BY <1>3, <1>5, <1>6, <2>1, <4>1, SMTT(60), Z3T(60)
    <3> QED
        BY <3>1, <3>2
  <2>2. CASE n # e
    <3>1. PICK i \in 1 .. Len(c) : n = c[i]
        BY <1>5, <2>2
    <3>2. CASE i = 1
      <4>1. m.next[e] = n
          BY <1>6, <3>1, <3>2, SMTT(60), Z3T(60)
      <4> QED
          BY <1>3, <1>5, <4>1, SMTT(60), Z3T(60)
    <3>3. CASE i # 1
      <4>1. i - 1 \in 1 .. Len(c) /\ i - 1 # Len(c) /\ (i - 1) + 1 = i
          BY <1>6, <3>1, <3>3, SMTT(60), Z3T(60)
      <4>2. m.next[c[i - 1]] = c[i]
          BY <1>6, <4>1, Zenon
      <4> QED
          BY <1>3, <1>5, <3>1, <4>1, <4>2, SMTT(60), Z3T(60)
    <3> QED
        BY <3>2, <3>3, SMTT(60), Z3T(60)
  <2> QED
      BY <2>1, <2>2, Zenon
<1>9. ASSUME NEW n \in C PROVE m.prev[n] \in C
    BY <1>2, <1>8, SMTT(60), Z3T(60)
<1>10. Linked(m, R \ C)
    BY <1>2, <1>7, <1>9, RestClosed, Zenon
<1>11. H \ {e} \subseteq R \ C
    BY <1>2, <1>4, <1>5, SMTT(60), Z3T(60)
<1>12. Labelled(own, m, H \ {e}, R \ C)
    BY <1>2, <1>10, <1>11, Zenon DEF Labelled
<1> QED
    BY <1>1, <1>12 DEF Rings, C

\* __list_add after the node b of the list at h: no other list changes.
LEMMA AddedRings ==
    ASSUME NEW m, NEW H, NEW R, NEW own, m \in Mem, Labelled(own, m, H, R),
           NEW e \in Nodes, e \notin R, NEW b \in R, NEW h \in H, own[b] = h
    PROVE  LET k == Added(m, e, b, m.next[b])
           IN  /\ k \in Mem
               /\ Linked(k, R \cup {e})
               /\ Rings(k, H, R \cup {e})
               /\ Inserts(m, k, R, b, e)
               /\ Same(m, k, H \ {h})
<1> DEFINE k == Added(m, e, b, m.next[b])
<1>1. /\ Linked(m, R) /\ H \subseteq R /\ R \subseteq Nodes
      /\ own \in [Nodes -> Nodes] /\ \A n \in H : own[n] = n
      /\ \A n \in R : own[m.next[n]] = own[n]
      /\ \A n \in R : m.next[n] \in R
    BY RingFacts
<1>2. b \in Nodes /\ m.next[b] \in R
    BY <1>1
<1>3. k \in Mem /\ Linked(k, R \cup {e}) /\ Inserts(m, k, R, b, e)
    BY <1>1, AddClosed, Zenon
<1> HIDE DEF k
<1>4. /\ k.next[b] = e /\ k.next[e] = m.next[b]
      /\ \A n \in R : n # b => k.next[n] = m.next[n]
    BY <1>3, Zenon DEF Inserts
<1>7. \E o : Labelled(o, k, H, R \cup {e})
  <2> DEFINE o == [own EXCEPT ![e] = h]
  <2>1. o \in [Nodes -> Nodes] /\ o[e] = h /\ \A n \in R : o[n] = own[n]
      BY <1>1
  <2> HIDE DEF o
  <2>2. \A n \in R \cup {e} : o[k.next[n]] = o[n]
      BY <1>1, <1>2, <1>4, <2>1, SMTT(60), Z3T(60)
  <2>3. Labelled(o, k, H, R \cup {e})
      BY <1>1, <1>3, <2>1, <2>2, ZenonT(60) DEF Labelled
  <2> QED
      BY <2>3
<1>8. ASSUME NEW n \in H \ {h} PROVE Contents(k, n) = Contents(m, n)
  <2>1. \A i \in R : own[i] = n => k.next[i] = m.next[i]
      BY <1>4
  <2>2. n \in R \cup {e} /\ n \in H
      BY <1>1, Zenon
  <2> QED
      BY <1>3, <2>1, <2>2, OthersKept, SMTT(60), Z3T(60)
<1>9. Rings(k, H, R \cup {e})
    BY <1>3, <1>7, SMTT(60), Z3T(60) DEF Rings
<1> QED
    BY <1>3, <1>8, <1>9, Zenon DEF k, Same

\* What is in a list after a node was put before its first one.
LEMMA ListPrepended ==
    ASSUME NEW m, NEW k, NEW R, NEW h \in R, NEW c, ListOf(m, R, h, c),
           NEW e \in Nodes, e \notin R, Inserts(m, k, R, h, e)
    PROVE  <<e>> \o c \in Seq(Nodes) /\ Chain(k.next, h, <<e>> \o c)
<1>0. /\ c \in Seq(Nodes) /\ Chain(m.next, h, c) /\ e # h
      /\ k.next[h] = e /\ k.next[e] = m.next[h]
      /\ \A i \in 1 .. Len(c) : k.next[c[i]] = m.next[c[i]]
    BY Zenon DEF ListOf, Inserts, Chain
<1> DEFINE q == <<e>> \o c
<1>1. /\ q \in Seq(Nodes) /\ Len(c) \in Nat /\ Len(q) = Len(c) + 1 /\ q[1] = e
      /\ \A i \in 1 .. Len(q) : i # 1 => i - 1 \in 1 .. Len(c) /\ q[i] = c[i - 1]
    BY <1>0
<1> HIDE DEF q
<1>2. /\ m.next[h] = IF Len(c) = 0 THEN h ELSE c[1]
      /\ \A i \in 1 .. Len(c) : c[i] # h
      /\ \A i \in 1 .. Len(c) : m.next[c[i]] = IF i = Len(c) THEN h ELSE c[i + 1]
    BY <1>0, Zenon DEF Chain
<1>3. ASSUME NEW i \in 1 .. Len(q) PROVE q[i] # h
    BY <1>0, <1>1, <1>2, SMTT(60), Z3T(60)
<1>4. ASSUME NEW i \in 1 .. Len(q) PROVE k.next[q[i]] = IF i = Len(q) THEN h ELSE q[i + 1]
  <2>1. CASE i = 1
    <3>1. CASE Len(c) = 0
        BY <1>0, <1>1, <1>2, <2>1, <3>1, SMTT(60), Z3T(60)
    <3>2. CASE Len(c) # 0
      <4>1. 2 \in 1 .. Len(q) /\ q[2] = c[1]
          BY <1>1, <3>2
      <4> QED
          BY <1>0, <1>1, <1>2, <2>1, <3>2, <4>1, SMTT(60), Z3T(60)
    <3> QED
        BY <3>1, <3>2, Zenon
  <2>2. CASE i # 1
    <3>1. i - 1 \in 1 .. Len(c) /\ q[i] = c[i - 1] /\ (i - 1 = Len(c) <=> i = Len(q))
        BY <1>1, <2>2
    <3>2. k.next[q[i]] = IF i - 1 = Len(c) THEN h ELSE c[(i - 1) + 1]
        BY <1>0, <1>2, <3>1, Zenon
    <3>3. i # Len(q) => i + 1 \in 1 .. Len(q) /\ q[i + 1] = c[(i - 1) + 1]
        BY <1>1, <3>1, SMTT(60), Z3T(60)
    <3> QED
        BY <3>1, <3>2, <3>3, Zenon
  <2> QED
      BY <2>1, <2>2, Zenon
<1>5. k.next[h] = IF Len(q) = 0 THEN h ELSE q[1]
    BY <1>0, <1>1
<1>6. Chain(k.next, h, q)
    BY <1>3, <1>4, <1>5, Zenon DEF Chain
<1> QED
    BY <1>1, <1>6, Zenon DEF q

\* What is in a list after a node was put after its last one.
LEMMA ListAppended ==
    ASSUME NEW m, NEW k, NEW R, Linked(m, R), NEW h \in R, NEW c, ListOf(m, R, h, c),
           NEW b, b = m.prev[h], NEW e \in Nodes, e \notin R, Inserts(m, k, R, b, e)
    PROVE  Append(c, e) \in Seq(Nodes) /\ Chain(k.next, h, Append(c, e))
<1>a. /\ c \in Seq(Nodes) /\ e # h /\ \A i \in 1 .. Len(c) : c[i] \in R
      /\ \A i, j \in 1 .. Len(c) : c[i] = c[j] => i = j
    BY Zenon DEF ListOf, Distinct
<1>b. /\ m.next[h] = IF Len(c) = 0 THEN h ELSE c[1]
      /\ \A i \in 1 .. Len(c) : c[i] # h
      /\ \A i \in 1 .. Len(c) : m.next[c[i]] = IF i = Len(c) THEN h ELSE c[i + 1]
    BY Zenon DEF ListOf, Chain
<1>c. /\ k.next[b] = e /\ k.next[e] = m.next[b]
      /\ \A n \in R : n # b => k.next[n] = m.next[n]
    BY Zenon DEF Inserts
<1>d. m.next[b] = h /\ \A n \in R : m.prev[m.next[n]] = n
    BY Zenon DEF Linked, Closed
<1>e. b = IF Len(c) = 0 THEN h ELSE c[Len(c)]
  <2>1. CASE Len(c) = 0
      BY <1>b, <1>d, <2>1, Zenon
  <2>2. CASE Len(c) # 0
    <3>1. Len(c) \in 1 .. Len(c)
        BY <1>a, <2>2
    <3>2. m.next[c[Len(c)]] = h /\ c[Len(c)] \in R
        BY <1>a, <1>b, <3>1, Zenon
    <3> QED
        BY <1>d, <2>2, <3>2, Zenon
  <2> QED
      BY <2>1, <2>2, Zenon
<1>f. \A i \in 1 .. Len(c) : i # Len(c) => k.next[c[i]] = m.next[c[i]]
  <2> SUFFICES ASSUME NEW i \in 1 .. Len(c), i # Len(c) PROVE k.next[c[i]] = m.next[c[i]]
      BY Zenon
  <2>1. Len(c) \in 1 .. Len(c) /\ Len(c) # 0
      BY <1>a
  <2>2. c[i] # b
      BY <1>a, <1>e, <2>1, Zenon
  <2> QED
      BY <1>a, <1>c, <2>2, Zenon
<1>g. k.next[e] = h /\ k.next[h] = IF Len(c) = 0 THEN e ELSE m.next[h]
  <2>1. CASE Len(c) = 0
      BY <1>c, <1>d, <1>e, <2>1, Zenon
  <2>2. CASE Len(c) # 0
    <3>1. Len(c) \in 1 .. Len(c)
        BY <1>a, <2>2
    <3>2. b # h
        BY <1>b, <1>e, <2>2, <3>1, Zenon
    <3> QED
        BY <1>c, <1>d, <2>2, <3>2, Zenon
  <2> QED
      BY <2>1, <2>2, Zenon
<1> DEFINE q == Append(c, e)
<1>1. /\ q \in Seq(Nodes) /\ Len(c) \in Nat /\ Len(q) = Len(c) + 1 /\ q[Len(q)] = e
      /\ \A i \in 1 .. Len(c) : q[i] = c[i]
    BY <1>a
<1> HIDE DEF q
<1>3. ASSUME NEW i \in 1 .. Len(q) PROVE q[i] # h
  <2>1. CASE i = Len(q)
      BY <1>a, <1>g, <1>1, <2>1, Zenon
  <2>2. CASE i # Len(q)
      BY <1>1, <1>b, <2>2, SMTT(60), Z3T(60)
  <2> QED
      BY <2>1, <2>2
<1>4. ASSUME NEW i \in 1 .. Len(q) PROVE k.next[q[i]] = IF i = Len(q) THEN h ELSE q[i + 1]
  <2>1. CASE i = Len(q)
      BY <1>a, <1>g, <1>1, <2>1, Zenon
  <2>2. CASE i = Len(c)
    <3>1. Len(c) # 0 /\ i \in 1 .. Len(c) /\ i + 1 = Len(q) /\ i # Len(q)
        BY <1>1, <2>2
    <3>2. q[i] = b /\ q[i + 1] = e
        BY <1>e, <1>1, <2>2, <3>1, Zenon
    <3> QED
        BY <1>c, <3>1, <3>2, Zenon
  <2>3. CASE i # Len(q) /\ i # Len(c)
    <3>1. i \in 1 .. Len(c) /\ i + 1 \in 1 .. Len(c)
        BY <1>1, <2>3
    <3>2. q[i] = c[i] /\ q[i + 1] = c[i + 1]
        BY <1>1, <3>1, Zenon
    <3>3. k.next[c[i]] = c[i + 1]
        BY <1>b, <1>f, <2>3, <3>1, Zenon
    <3> QED
        BY <2>3, <3>2, <3>3, Zenon
  <2> QED
      BY <2>1, <2>2, <2>3, Zenon
<1>5. k.next[h] = IF Len(q) = 0 THEN h ELSE q[1]
  <2>1. CASE Len(c) = 0
      BY <1>g, <1>1, <2>1, SMTT(60), Z3T(60)
  <2>2. CASE Len(c) # 0
      BY <1>g, <1>1, <1>b, <2>2
  <2> QED
      BY <2>1, <2>2, Zenon
<1>6. Chain(k.next, h, q)
    BY <1>3, <1>4, <1>5, Zenon DEF Chain
<1> QED
    BY <1>1, <1>6, Zenon DEF q

\* list_add: e is the first entry of the list at h.
LEMMA AddedFirst ==
    ASSUME NEW m, NEW H, NEW R, Rings(m, H, R), NEW e \in Nodes, e \notin R, NEW h \in H
    PROVE  LET k == Added(m, e, h, m.next[h])
           IN  /\ Rings(k, H, R \cup {e})
               /\ Contents(k, h) = <<e>> \o Contents(m, h)
               /\ Same(m, k, H \ {h})
<1>1. PICK own : m \in Mem /\ Labelled(own, m, H, R)
    BY Zenon DEF Rings
<1>2. Linked(m, R) /\ h \in R /\ own[h] = h
    BY <1>1, RingFacts
<1> DEFINE k == Added(m, e, h, m.next[h])
           c == Contents(m, h)
<1>3. /\ Linked(k, R \cup {e}) /\ Rings(k, H, R \cup {e}) /\ Inserts(m, k, R, h, e)
      /\ Same(m, k, H \ {h})
    BY <1>1, <1>2, AddedRings, Zenon
<1>4. ListOf(m, R, h, c)
    BY <1>2, RingContents, Zenon DEF ListOf
<1> HIDE DEF k, c
<1>5. <<e>> \o c \in Seq(Nodes) /\ Chain(k.next, h, <<e>> \o c)
    BY <1>2, <1>3, <1>4, ListPrepended, Zenon
<1>6. h \in R \cup {e}
    BY <1>2, Zenon
<1>7. Contents(k, h) = <<e>> \o c
    BY <1>3, <1>5, <1>6, ContentsUnique, Zenon
<1> QED
    BY <1>3, <1>7, Zenon DEF k, c

\* list_add_tail: e is the last one.
LEMMA AddedLast ==
    ASSUME NEW m, NEW H, NEW R, Rings(m, H, R), NEW e \in Nodes, e \notin R, NEW h \in H
    PROVE  LET k == Added(m, e, m.prev[h], h)
           IN  /\ Rings(k, H, R \cup {e})
               /\ Contents(k, h) = Append(Contents(m, h), e)
               /\ Same(m, k, H \ {h})
<1>1. PICK own : m \in Mem /\ Labelled(own, m, H, R)
    BY Zenon DEF Rings
<1>2. Linked(m, R) /\ h \in R /\ m.prev[h] \in R /\ m.next[m.prev[h]] = h /\ own[m.prev[h]] = h
    BY <1>1, RingFacts
<1>3. PICK b \in R : b = m.prev[h]
    BY <1>2, Zenon
<1>4. own[b] = h /\ m.next[b] = h
    BY <1>2, <1>3, Zenon
<1> DEFINE k == Added(m, e, b, m.next[b])
           c == Contents(m, h)
<1>5. /\ Linked(k, R \cup {e}) /\ Rings(k, H, R \cup {e}) /\ Inserts(m, k, R, b, e)
      /\ Same(m, k, H \ {h})
  <2>1. own[b] = h
      BY <1>4, Zenon
  <2> QED
      BY <1>1, <2>1, AddedRings, Zenon
<1>6. ListOf(m, R, h, c)
    BY <1>2, RingContents, Zenon DEF ListOf
<1>7. k = Added(m, e, m.prev[h], h)
    BY <1>3, <1>4, Zenon
<1> HIDE DEF k, c
<1>8. Append(c, e) \in Seq(Nodes) /\ Chain(k.next, h, Append(c, e))
    BY <1>2, <1>3, <1>5, <1>6, ListAppended, Zenon
<1>9. h \in R \cup {e}
    BY <1>2, Zenon
<1>10. Contents(k, h) = Append(c, e)
    BY <1>5, <1>8, <1>9, ContentsUnique, Zenon
<1> QED
    BY <1>5, <1>7, <1>10, Zenon DEF c

\* A sequence without one of its elements.
LEMMA WithoutOne ==
    ASSUME NEW c \in Seq(Nodes), Distinct(c), NEW j \in 1 .. Len(c), NEW e, c[j] = e
    PROVE  /\ Promise!Without(c, e) \in Seq(Nodes)
           /\ Len(Promise!Without(c, e)) = Len(c) - 1
           /\ \A i \in 1 .. Len(c) - 1 :
                 Promise!Without(c, e)[i] = IF i < j THEN c[i] ELSE c[i + 1]
<1>1. DOMAIN c = 1 .. Len(c) /\ Len(c) \in Nat /\ j \in DOMAIN c
    OBVIOUS
<1>2. (CHOOSE i \in DOMAIN c : c[i] = e) = j
  <2>1. \E i \in DOMAIN c : c[i] = e
      BY <1>1
  <2>2. \A i \in DOMAIN c : c[i] = e => i = j
      BY <1>1 DEF Distinct
  <2> QED
      BY <2>1, <2>2
<1>3. Promise!Without(c, e) = SubSeq(c, 1, j - 1) \o SubSeq(c, j + 1, Len(c))
    BY <1>1, <1>2, Zenon DEF Promise!Without
<1> DEFINE u == SubSeq(c, 1, j - 1)
           v == SubSeq(c, j + 1, Len(c))
<1>4. /\ u \in Seq(Nodes) /\ Len(u) = j - 1 /\ \A i \in 1 .. j - 1 : u[i] = c[i]
    BY <1>1
<1>5. /\ v \in Seq(Nodes) /\ Len(v) = Len(c) - j
      /\ \A i \in 1 .. Len(c) - j : v[i] = c[i + j]
    BY <1>1, SMTT(30), Z3T(30)
<1> HIDE DEF u, v
<1>6. /\ u \o v \in Seq(Nodes) /\ Len(u \o v) = Len(c) - 1
      /\ \A i \in 1 .. Len(c) - 1 : (u \o v)[i] = IF i < j THEN c[i] ELSE c[i + 1]
  <2>1. /\ u \o v \in Seq(Nodes) /\ Len(u \o v) = Len(u) + Len(v)
        /\ \A i \in 1 .. Len(u) + Len(v) :
              (u \o v)[i] = IF i <= Len(u) THEN u[i] ELSE v[i - Len(u)]
      BY <1>4, <1>5, ConcatProperties, Zenon
  <2>2. Len(u) + Len(v) = Len(c) - 1
      BY <1>1, <1>4, <1>5
  <2>3. ASSUME NEW i \in 1 .. Len(c) - 1
        PROVE  (u \o v)[i] = IF i < j THEN c[i] ELSE c[i + 1]
    <3>1. CASE i < j
        BY <1>1, <1>4, <2>1, <2>2, <3>1, SMTT(30), Z3T(30)
    <3>2. CASE ~(i < j)
      <4>1. i - Len(u) \in 1 .. Len(c) - j /\ (i - Len(u)) + j = i + 1 /\ ~(i <= Len(u))
          BY <1>1, <1>4, <3>2
      <4>2. (u \o v)[i] = v[i - Len(u)]
          BY <2>1, <2>2, <4>1, Zenon
      <4> QED
          BY <1>5, <3>2, <4>1, <4>2, Zenon
    <3> QED
        BY <3>1, <3>2, Zenon
  <2> QED
      BY <2>1, <2>2, <2>3, Zenon
<1> QED
    BY <1>3, <1>6, Zenon DEF u, v

\* And without what is not in it.
LEMMA WithoutNone ==
    ASSUME NEW c \in Seq(Nodes), NEW e, \A i \in 1 .. Len(c) : c[i] # e
    PROVE  Promise!Without(c, e) = c
<1>1. ~\E i \in DOMAIN c : c[i] = e
    OBVIOUS
<1> QED
    BY <1>1 DEF Promise!Without

\* What is in a list after one of its entries was taken out.
LEMMA ListShortened ==
    ASSUME NEW m, NEW k, NEW R, Linked(m, R), NEW h \in R, NEW c, ListOf(m, R, h, c),
           NEW j \in 1 .. Len(c), NEW e, c[j] = e, Skips(m, k, R, e)
    PROVE  Promise!Without(c, e) \in Seq(Nodes) /\ Chain(k.next, h, Promise!Without(c, e))
<1>1. /\ c \in Seq(Nodes) /\ Distinct(c) /\ \A i \in 1 .. Len(c) : c[i] \in R
      /\ \A i \in 1 .. Len(c) : c[i] # h
      /\ m.next[h] = IF Len(c) = 0 THEN h ELSE c[1]
      /\ \A i \in 1 .. Len(c) : m.next[c[i]] = IF i = Len(c) THEN h ELSE c[i + 1]
    BY Zenon DEF ListOf, Chain
<1>2. Len(c) \in Nat /\ \A i, l \in 1 .. Len(c) : c[i] = c[l] => i = l
    BY <1>1 DEF Distinct
<1> DEFINE w == Promise!Without(c, e)
<1>3. /\ w \in Seq(Nodes) /\ Len(w) = Len(c) - 1
      /\ \A i \in 1 .. Len(c) - 1 : w[i] = IF i < j THEN c[i] ELSE c[i + 1]
    BY <1>1, WithoutOne, Zenon
<1> HIDE DEF w
<1>4. m.prev[e] = IF j = 1 THEN h ELSE c[j - 1]
  <2>1. \A n \in R : m.prev[m.next[n]] = n
      BY Zenon DEF Linked, Closed
  <2>2. CASE j = 1
      BY <1>1, <1>2, <2>1, <2>2, SMTT(60), Z3T(60)
  <2>3. CASE j # 1
    <3>1. j - 1 \in 1 .. Len(c) /\ j - 1 # Len(c) /\ (j - 1) + 1 = j
        BY <1>2, <2>3
    <3>2. m.next[c[j - 1]] = e /\ c[j - 1] \in R
        BY <1>1, <3>1, Zenon
    <3> QED
        BY <2>1, <2>3, <3>2, Zenon
  <2> QED
      BY <2>2, <2>3, Zenon
<1>5. /\ k.next[m.prev[e]] = m.next[e]
      /\ \A n \in R : n # m.prev[e] => k.next[n] = m.next[n]
    BY Zenon DEF Skips
<1>6. m.next[e] = IF j = Len(c) THEN h ELSE c[j + 1]
    BY <1>1, Zenon
<1>7. k.next[h] = IF Len(w) = 0 THEN h ELSE w[1]
  <2>1. CASE j = 1
      BY <1>2, <1>3, <1>4, <1>5, <1>6, <2>1, SMTT(60), Z3T(60)
  <2>2. CASE j # 1
    <3>1. j - 1 \in 1 .. Len(c) /\ 1 \in 1 .. Len(c) - 1
        BY <1>2, <2>2, SMTT(60), Z3T(60)
    <3>2. h # m.prev[e] /\ w[1] = c[1]
        BY <1>1, <1>3, <1>4, <2>2, <3>1, SMTT(60), Z3T(60)
    <3> QED
        BY <1>1, <1>2, <1>3, <1>5, <3>1, <3>2, SMTT(30), Z3T(30)
  <2> QED
      BY <2>1, <2>2, Zenon
<1>8. ASSUME NEW i \in 1 .. Len(w) PROVE w[i] # h
    BY <1>1, <1>2, <1>3, SMTT(60), Z3T(60)
<1>9. ASSUME NEW i \in 1 .. Len(w) PROVE k.next[w[i]] = IF i = Len(w) THEN h ELSE w[i + 1]
  <2>0. i \in 1 .. Len(c) - 1 /\ i \in 1 .. Len(c) /\ i + 1 \in 1 .. Len(c)
      BY <1>2, <1>3
  <2>1. CASE i + 1 = j
    <3>1. w[i] = c[i] /\ c[i] = m.prev[e]
        BY <1>2, <1>3, <1>4, <2>0, <2>1, SMTT(60), Z3T(60)
    <3>2. i # Len(w) => w[i + 1] = c[j + 1]
        BY <1>2, <1>3, <2>0, <2>1, SMTT(60), Z3T(60)
    <3>3. i = Len(w) <=> j = Len(c)
        BY <1>2, <1>3, <2>0, <2>1, SMTT(60), Z3T(60)
    <3> QED
        BY <1>5, <1>6, <3>1, <3>2, <3>3, ZenonT(60)
  <2>2. CASE i + 1 < j
    <3>1. w[i] = c[i] /\ w[i + 1] = c[i + 1] /\ i # Len(w) /\ i # Len(c)
        BY <1>2, <1>3, <2>0, <2>2, SMTT(60), Z3T(60)
    <3>2. c[i] # m.prev[e]
      <4>1. j # 1 /\ j - 1 \in 1 .. Len(c) /\ j - 1 # i
          BY <1>2, <2>0, <2>2, SMTT(60), Z3T(60)
      <4> QED
          BY <1>2, <1>4, <2>0, <4>1, Zenon
    <3> QED
        BY <1>1, <1>5, <2>0, <3>1, <3>2, Zenon
  <2>3. CASE i + 1 > j
    <3>1. w[i] = c[i + 1] /\ (i = Len(w) <=> i + 1 = Len(c))
        BY <1>2, <1>3, <2>0, <2>3, SMTT(60), Z3T(60)
    <3>2. i # Len(w) => w[i + 1] = c[(i + 1) + 1]
        BY <1>2, <1>3, <2>0, <2>3, SMTT(60), Z3T(60)
    <3>3. c[i + 1] # m.prev[e]
      <4>1. CASE j = 1
          BY <1>1, <1>4, <2>0, <4>1, Zenon
      <4>2. CASE j # 1
        <5>1. j - 1 \in 1 .. Len(c) /\ j - 1 # i + 1
            BY <1>2, <2>0, <2>3, <4>2, SMTT(60), Z3T(60)
        <5> QED
            BY <1>2, <1>4, <2>0, <4>2, <5>1, Zenon
      <4> QED
          BY <4>1, <4>2, Zenon
    <3> QED
        BY <1>1, <1>5, <2>0, <3>1, <3>2, <3>3, ZenonT(60)
  <2> QED
      BY <2>0, <2>1, <2>2, <2>3, SMTT(60), Z3T(60)
<1>10. Chain(k.next, h, w)
    BY <1>7, <1>8, <1>9, Zenon DEF Chain
<1> QED
    BY <1>3, <1>10, Zenon DEF w

\* __list_del: the entry leaves the list it is in.
LEMMA UnlinkedRings ==
    ASSUME NEW m, NEW H, NEW R, Rings(m, H, R), NEW e \in R, e \notin H
    PROVE  LET k == Unlinked(m, m.prev[e], m.next[e])
           IN  /\ Rings(k, H, R \ {e})
               /\ Skips(m, k, R, e)
               /\ Shortens(m, k, H, e)
<1>1. PICK own : m \in Mem /\ Labelled(own, m, H, R)
    BY Zenon DEF Rings
<1>2. /\ Linked(m, R) /\ H \subseteq R /\ R \subseteq Nodes /\ own \in [Nodes -> Nodes]
      /\ \A n \in H : own[n] = n
      /\ \A n \in R : own[m.next[n]] = own[n]
      /\ \A n \in R : m.next[n] \in R /\ m.prev[n] \in R
      /\ \A n \in R : m.prev[m.next[n]] = n /\ m.next[m.prev[n]] = n
    BY <1>1, RingFacts
<1> DEFINE k == Unlinked(m, m.prev[e], m.next[e])
<1>3. k \in Mem /\ Linked(k, R \ {e}) /\ Skips(m, k, R, e)
    BY <1>1, <1>2, UnlinkClosed, Zenon
<1> HIDE DEF k
<1>4. /\ k.next[m.prev[e]] = m.next[e]
      /\ \A n \in R : n # m.prev[e] => k.next[n] = m.next[n]
    BY <1>3, Zenon DEF Skips
<1>5. Rings(k, H, R \ {e})
  <2>1. \A n \in R : own[k.next[n]] = own[n]
    <3>1. own[m.next[e]] = own[m.prev[e]]
        BY <1>2, Zenon
    <3> QED
        BY <1>2, <1>4, <3>1, Zenon
  <2>2. H \subseteq R \ {e}
      BY <1>2, Zenon
  <2>3. Labelled(own, k, H, R \ {e})
      BY <1>2, <1>3, <2>1, <2>2, Zenon DEF Labelled
  <2> QED
      BY <1>3, <2>3 DEF Rings
<1>6. ASSUME NEW h \in H PROVE Contents(k, h) = Promise!Without(Contents(m, h), e)
  <2> DEFINE c == Contents(m, h)
  <2>1. h \in R /\ h # e /\ h \in R \ {e}
      BY <1>2, Zenon
  <2>2. ListOf(m, R, h, c)
      BY <1>2, <2>1, RingContents, Zenon DEF ListOf
  <2>3. CASE \E j \in 1 .. Len(c) : c[j] = e
    <3> HIDE DEF c
    <3>1. PICK j \in 1 .. Len(c) : c[j] = e
        BY <2>3
    <3>2. Promise!Without(c, e) \in Seq(Nodes) /\ Chain(k.next, h, Promise!Without(c, e))
        BY <1>2, <1>3, <2>1, <2>2, <3>1, ListShortened, ZenonT(60)
    <3>3. Contents(k, h) = Promise!Without(c, e)
        BY <1>3, <2>1, <3>2, ContentsUnique, SMTT(60), Z3T(60)
    <3> QED
        BY <3>3 DEF c
  <2>4. CASE ~\E j \in 1 .. Len(c) : c[j] = e
    <3>1. /\ c \in Seq(Nodes) /\ Len(c) \in Nat /\ \A i \in 1 .. Len(c) : c[i] \in R
          /\ m.next[h] = IF Len(c) = 0 THEN h ELSE c[1]
          /\ \A i \in 1 .. Len(c) : m.next[c[i]] = IF i = Len(c) THEN h ELSE c[i + 1]
      <4> HIDE DEF c
      <4> QED
          BY <2>2, SMTT(60), Z3T(60) DEF ListOf, Chain
    <3> HIDE DEF c
    <3>2. \A i \in 1 .. Len(c) : c[i] # m.prev[e]
        BY <1>2, <2>1, <2>4, <3>1, SMTT(30), Z3T(30)
    <3>3. h # m.prev[e]
        BY <1>2, <2>1, <2>4, <3>1, SMTT(60), Z3T(60)
    <3>4. k.next[h] = m.next[h] /\ \A i \in 1 .. Len(c) : k.next[c[i]] = m.next[c[i]]
        BY <1>4, <2>1, <3>1, <3>2, <3>3, ZenonT(60)
    <3>5. Contents(k, h) = Contents(m, h)
        BY <1>2, <1>3, <2>1, <3>4, ContentsKept, SMTT(60), Z3T(60) DEF c
    <3>6. Promise!Without(c, e) = c
        BY <2>4, <3>1, WithoutNone, Zenon
    <3> QED
        BY <3>5, <3>6, SMTT(60), Z3T(60) DEF c
  <2> QED
      BY <2>3, <2>4, Zenon
<1> QED
    BY <1>3, <1>5, <1>6, Zenon DEF k, Shortens

\* own labels the entries of c with h.
AllOf(own, c, h) == \A i \in 1 .. Len(c) : own[c[i]] = h

\* What is in a list after another was put before it.
LEMMA ListJoined ==
    ASSUME NEW m, NEW k, NEW H, NEW R, NEW own, m \in Mem, Labelled(own, m, H, R),
           NEW l \in H, NEW h \in H, l # h, m.next[l] # l, Joins(m, k, R, l, h),
           NEW c, ListOf(m, R, h, c), AllOf(own, c, h),
           NEW d, ListOf(m, R, l, d), AllOf(own, d, l)
    PROVE  d \o c \in Seq(Nodes) /\ Chain(k.next, h, d \o c)
<1> USE DEF AllOf
<1>1. /\ c \in Seq(Nodes) /\ Len(c) \in Nat /\ \A i \in 1 .. Len(c) : c[i] \in R
      /\ \A i \in 1 .. Len(c) : c[i] # h
      /\ m.next[h] = IF Len(c) = 0 THEN h ELSE c[1]
      /\ \A i \in 1 .. Len(c) : m.next[c[i]] = IF i = Len(c) THEN h ELSE c[i + 1]
    BY DEF ListOf, Chain
<1>2. /\ d \in Seq(Nodes) /\ Len(d) \in Nat /\ \A i \in 1 .. Len(d) : d[i] \in R
      /\ m.next[l] = IF Len(d) = 0 THEN l ELSE d[1]
      /\ \A i \in 1 .. Len(d) : m.next[d[i]] = IF i = Len(d) THEN l ELSE d[i + 1]
      /\ \A i, j \in 1 .. Len(d) : d[i] = d[j] => i = j
    BY SMTT(60), Z3T(60) DEF ListOf, Chain, Distinct
<1>3. /\ own[h] = h /\ own[l] = l /\ own[m.prev[l]] = l
      /\ \A n \in R : m.prev[m.next[n]] = n
    BY RingFacts
<1>4. /\ k.next[h] = m.next[l] /\ k.next[m.prev[l]] = m.next[h]
      /\ \A n \in R : n # h /\ n # m.prev[l] => k.next[n] = m.next[n]
    BY Zenon DEF Joins
<1>5. Len(d) # 0 /\ Len(d) \in 1 .. Len(d) /\ m.next[l] = d[1]
    BY <1>2, SMTT(30), Z3T(30)
<1>6. m.prev[l] = d[Len(d)]
    BY <1>2, <1>3, <1>5, ZenonT(60)
<1> DEFINE q == d \o c
<1>7. /\ q \in Seq(Nodes) /\ Len(q) = Len(d) + Len(c)
      /\ \A i \in 1 .. Len(q) : q[i] = IF i <= Len(d) THEN d[i] ELSE c[i - Len(d)]
    BY <1>1, <1>2, ConcatProperties, SMTT(60), Z3T(60)
<1> HIDE DEF q
<1>8. ASSUME NEW i \in 1 .. Len(q) PROVE q[i] # h
  <2>1. CASE i <= Len(d)
      BY <1>2, <1>3, <1>7, <2>1, SMTT(30), Z3T(30)
  <2>2. CASE ~(i <= Len(d))
      BY <1>1, <1>2, <1>7, <2>2, SMTT(30), Z3T(30)
  <2> QED
      BY <2>1, <2>2, ZenonT(60)
<1>9. k.next[h] = IF Len(q) = 0 THEN h ELSE q[1]
    BY <1>1, <1>2, <1>4, <1>5, <1>7, SMTT(30), Z3T(30)
<1>10. ASSUME NEW i \in 1 .. Len(q) PROVE k.next[q[i]] = IF i = Len(q) THEN h ELSE q[i + 1]
  <2>1. CASE i < Len(d)
    <3>1. /\ i \in 1 .. Len(d) /\ i + 1 \in 1 .. Len(d) /\ i # Len(q)
          /\ q[i] = d[i] /\ q[i + 1] = d[i + 1]
        BY <1>1, <1>2, <1>7, <2>1, SMTT(30), Z3T(30)
    <3>2. d[i] # h /\ d[i] # m.prev[l]
        BY <1>2, <1>3, <1>5, <1>6, <2>1, <3>1, SMTT(30), Z3T(30)
    <3>3. k.next[d[i]] = m.next[d[i]] /\ m.next[d[i]] = d[i + 1]
        BY <1>2, <1>4, <2>1, <3>1, <3>2, SMTT(60), Z3T(60)
    <3> QED
        BY <3>1, <3>3, ZenonT(60)
  <2>2. CASE i = Len(d)
    <3>1. q[i] = m.prev[l]
        BY <1>2, <1>6, <1>7, <2>2, SMTT(30), Z3T(30)
    <3>2. CASE Len(c) = 0
        BY <1>1, <1>4, <1>7, <2>2, <3>1, <3>2, SMTT(30), Z3T(30)
    <3>3. CASE Len(c) # 0
      <4>0. /\ i # Len(q) /\ i + 1 \in 1 .. Len(q)
            /\ ~(i + 1 <= Len(d)) /\ (i + 1) - Len(d) = 1
          BY <1>1, <1>2, <1>7, <2>2, <3>3, SMTT(30), Z3T(30)
      <4>1. i # Len(q) /\ q[i + 1] = c[1]
          BY <1>7, <4>0, Zenon
      <4> QED
          BY <1>1, <1>4, <3>1, <3>3, <4>1, Zenon
    <3> QED
        BY <3>2, <3>3, Zenon
  <2>3. CASE i > Len(d)
    <3>1. PICK j \in 1 .. Len(c) : j = i - Len(d)
        BY <1>1, <1>2, <1>7, <2>3, SMTT(30), Z3T(30)
    <3>a. i = j + Len(d) /\ Len(q) = Len(d) + Len(c) /\ Len(d) \in Nat /\ Len(c) \in Nat
        BY <1>1, <1>2, <1>7, <3>1, SMTT(60), Z3T(60)
    <3>0. /\ i = Len(q) <=> j = Len(c)
          /\ i # Len(q) => i + 1 \in 1 .. Len(q)
          /\ ~(i + 1 <= Len(d)) /\ (i + 1) - Len(d) = j + 1
      <4>1. PICK a, b : a = Len(d) /\ b = Len(c)
          BY Zenon
      <4>2. a \in Nat /\ b \in Nat /\ j \in 1 .. b /\ i = j + a /\ Len(q) = a + b
          BY <3>a, <4>1, Zenon
      <4>3. /\ i = Len(q) <=> j = b
            /\ i # Len(q) => i + 1 \in 1 .. Len(q)
            /\ ~(i + 1 <= a) /\ (i + 1) - a = j + 1
          BY <4>2
      <4> QED
          BY <4>1, <4>3, Zenon
    <3>2. q[i] = c[j]
      <4>1. ~(i <= Len(d))
          BY <1>2, <2>3, SMTT(60), Z3T(60)
      <4> QED
          BY <1>7, <3>1, <4>1, ZenonT(60)
    <3>5. i # Len(q) => q[i + 1] = c[j + 1]
        BY <1>7, <3>0, Zenon
    <3>3. c[j] # h /\ c[j] # m.prev[l] /\ c[j] \in R
        BY <1>1, <1>3, Zenon
    <3>4. k.next[c[j]] = IF j = Len(c) THEN h ELSE c[j + 1]
        BY <1>1, <1>4, <3>3, Zenon
    <3> QED
        BY <3>0, <3>2, <3>4, <3>5, Zenon
  <2> QED
      BY <1>2, <1>7, <2>1, <2>2, <2>3, SMTT(30), Z3T(30)
<1>11. Chain(k.next, h, q)
    BY <1>8, <1>9, <1>10, Zenon DEF Chain
<1> QED
    BY <1>7, <1>11, ZenonT(60) DEF q

\* __list_splice: the entries of l are put before those of h, and l is left
\* out.
LEMMA SplicedRings ==
    ASSUME NEW m, NEW H, NEW R, Rings(m, H, R),
           NEW l \in H, NEW h \in H, l # h, m.next[l] # l
    PROVE  LET k == Spliced(m, l, h)
           IN  /\ Rings(k, H \ {l}, R \ {l})
               /\ Contents(k, h) = Contents(m, l) \o Contents(m, h)
               /\ Same(m, k, H \ {l, h})
<1>1. PICK own : m \in Mem /\ Labelled(own, m, H, R)
    BY Zenon DEF Rings
<1>2. /\ Linked(m, R) /\ H \subseteq R /\ R \subseteq Nodes /\ own \in [Nodes -> Nodes]
      /\ \A n \in H : own[n] = n /\ own[m.prev[n]] = n
      /\ \A n \in R : own[m.next[n]] = own[n]
      /\ \A n \in R : m.next[n] \in R /\ m.prev[n] \in R
    BY <1>1, RingFacts
<1>3. l \in R /\ h \in R /\ m.next[h] # l
    BY <1>2, Zenon
<1> DEFINE k == Spliced(m, l, h)
           c == Contents(m, h)
           d == Contents(m, l)
<1>4. k \in Mem /\ Linked(k, R \ {l}) /\ Joins(m, k, R, l, h)
    BY <1>1, <1>2, <1>3, SpliceClosed, Zenon
<1>5. ListOf(m, R, h, c) /\ ListOf(m, R, l, d)
    BY <1>2, <1>3, RingContents, Zenon DEF ListOf
<1>6. AllOf(own, c, h) /\ AllOf(own, d, l)
  <2>1. \A i \in 1 .. Len(Contents(m, h)) : own[Contents(m, h)[i]] = h
      BY <1>1, RingLabels, SMTT(60), Z3T(60)
  <2>2. \A i \in 1 .. Len(Contents(m, l)) : own[Contents(m, l)[i]] = l
      BY <1>1, RingLabels
  <2> QED
      BY <2>1, <2>2, Zenon DEF AllOf
<1> HIDE DEF k, c, d
<1>7. /\ k.next[h] = m.next[l] /\ k.next[m.prev[l]] = m.next[h]
      /\ \A n \in R : n # h /\ n # m.prev[l] => k.next[n] = m.next[n]
    BY <1>4, Zenon DEF Joins
<1>8. Rings(k, H \ {l}, R \ {l})
  <2> DEFINE o == [n \in Nodes |-> IF own[n] = l THEN h ELSE own[n]]
  <2>1. /\ o \in [Nodes -> Nodes]
        /\ \A n \in Nodes : o[n] = IF own[n] = l THEN h ELSE own[n]
      BY <1>2, <1>3, Zenon
  <2> HIDE DEF o
  <2>2. \A n \in R \ {l} : o[k.next[n]] = o[n]
    <3> TAKE n \in R \ {l}
    <3>1. CASE n = h
        BY <1>2, <1>3, <1>7, <2>1, <3>1, SMTT(60), Z3T(60)
    <3>2. CASE n = m.prev[l]
        BY <1>2, <1>3, <1>7, <2>1, <3>2, SMTT(60), Z3T(60)
    <3>3. CASE n # h /\ n # m.prev[l]
        BY <1>2, <1>7, <2>1, <3>3, SMTT(60), Z3T(60)
    <3> QED
        BY <3>1, <3>2, <3>3, ZenonT(60)
  <2>3. \A n \in H \ {l} : o[n] = n
      BY <1>2, <2>1, Zenon
  <2>4. Labelled(o, k, H \ {l}, R \ {l})
      BY <1>2, <1>4, <2>1, <2>2, <2>3, Zenon DEF Labelled
  <2> QED
      BY <1>4, <2>4, Zenon DEF Rings
<1>9. Contents(k, h) = d \o c
  <2>1. d \o c \in Seq(Nodes) /\ Chain(k.next, h, d \o c)
      BY <1>1, <1>4, <1>5, <1>6, ListJoined, ZenonT(60)
  <2>2. h \in R \ {l}
      BY <1>3, Zenon
  <2> QED
      BY <1>4, <2>1, <2>2, ContentsUnique, Zenon
<1>10. ASSUME NEW n \in H \ {l, h} PROVE Contents(k, n) = Contents(m, n)
  <2>1. \A i \in R : own[i] = n => k.next[i] = m.next[i]
      BY <1>2, <1>7, Zenon
  <2>2. n \in R \ {l} /\ n \in H
      BY <1>2, Zenon
  <2> QED
      BY <1>1, <1>4, <2>1, <2>2, OthersKept, SMTT(30), Z3T(30)
<1> QED
    BY <1>8, <1>9, <1>10, Zenon DEF k, c, d, Same

\* list_replace: e becomes the head of what h was the head of.
LEMMA ReplacedRings ==
    ASSUME NEW m, NEW H, NEW R, Rings(m, H, R), NEW h \in H, NEW e \in Nodes, e \notin R
    PROVE  LET k == Replaced(m, h, e)
           IN  /\ Rings(k, (H \ {h}) \cup {e}, (R \ {h}) \cup {e})
               /\ Contents(k, e) = Contents(m, h)
               /\ Same(m, k, H \ {h})
<1>1. PICK own : m \in Mem /\ Labelled(own, m, H, R)
    BY Zenon DEF Rings
<1>2. /\ Linked(m, R) /\ H \subseteq R /\ R \subseteq Nodes /\ own \in [Nodes -> Nodes]
      /\ \A n \in H : own[n] = n /\ own[m.prev[n]] = n
      /\ \A n \in R : own[m.next[n]] = own[n]
      /\ \A n \in R : m.next[n] \in R /\ m.prev[n] \in R
      /\ \A n \in R : m.prev[m.next[n]] = n /\ m.next[m.prev[n]] = n
    BY <1>1, RingFacts, SMTT(30), Z3T(30)
<1>3. h \in R /\ h \in Nodes /\ e # h
    BY <1>2, Zenon
<1> DEFINE k == Replaced(m, h, e)
           c == Contents(m, h)
           S == (R \ {h}) \cup {e}
<1>4. k \in Mem /\ Linked(k, S) /\ Renames(m, k, R, h, e)
    BY <1>1, <1>2, <1>3, ReplaceClosed, Zenon
<1>5. ListOf(m, R, h, c)
    BY <1>2, <1>3, RingContents, Zenon DEF ListOf
<1> HIDE DEF k, c
<1>6. /\ k.next[e] = IF m.next[h] = h THEN e ELSE m.next[h]
      /\ m.next[h] # h => k.next[m.prev[h]] = e
      /\ \A n \in R : n # h /\ n # m.prev[h] => k.next[n] = m.next[n]
    BY <1>4, Zenon DEF Renames
<1>7. Rings(k, (H \ {h}) \cup {e}, S)
  <2> DEFINE o == [n \in Nodes |-> IF n = e \/ own[n] = h THEN e ELSE own[n]]
  <2>1. /\ o \in [Nodes -> Nodes] /\ o[e] = e
        /\ \A n \in R : o[n] = IF own[n] = h THEN e ELSE own[n]
      BY <1>2, Zenon
  <2> HIDE DEF o
  <2>2. ASSUME NEW n \in S PROVE o[k.next[n]] = o[n]
    <3>1. CASE n = e
        BY <1>2, <1>3, <1>6, <2>1, <3>1, SMTT(60), Z3T(60)
    <3>2. CASE n # e /\ n = m.prev[h]
      <4>1. n # h /\ m.next[h] # h /\ n \in R
          BY <1>2, <1>3, <3>2, ZenonT(60)
      <4> QED
          BY <1>2, <1>6, <2>1, <3>2, <4>1, Zenon
    <3>3. CASE n # e /\ n # m.prev[h]
        BY <1>2, <1>6, <2>1, <3>3, SMTT(60), Z3T(60)
    <3> QED
        BY <3>1, <3>2, <3>3, ZenonT(60)
  <2>3. \A n \in (H \ {h}) \cup {e} : o[n] = n /\ n \in S
      BY <1>2, <2>1, Zenon
  <2>4. Labelled(o, k, (H \ {h}) \cup {e}, S)
    <3> HIDE DEF S
    <3> QED
        BY <1>4, <2>1, <2>2, <2>3, ZenonT(60) DEF Labelled
  <2> QED
      BY <1>4, <2>4, Zenon DEF Rings
<1>8. Contents(k, e) = c
  <2>1. /\ c \in Seq(Nodes) /\ Len(c) \in Nat /\ \A i \in 1 .. Len(c) : c[i] \in R
        /\ \A i \in 1 .. Len(c) : c[i] # h
        /\ m.next[h] = IF Len(c) = 0 THEN h ELSE c[1]
        /\ \A i \in 1 .. Len(c) : m.next[c[i]] = IF i = Len(c) THEN h ELSE c[i + 1]
        /\ \A i, j \in 1 .. Len(c) : c[i] = c[j] => i = j
      BY <1>5 DEF ListOf, Chain, Distinct
  <2>2. \A i \in 1 .. Len(c) : c[i] # e
      BY <2>1, Zenon
  <2>3. k.next[e] = IF Len(c) = 0 THEN e ELSE c[1]
      BY <1>6, <2>1
  <2>4. ASSUME NEW i \in 1 .. Len(c) PROVE k.next[c[i]] = IF i = Len(c) THEN e ELSE c[i + 1]
    <3>1. Len(c) # 0 /\ Len(c) \in 1 .. Len(c) /\ 1 \in 1 .. Len(c)
        BY <2>1
    <3>2. m.prev[h] = c[Len(c)] /\ m.next[h] # h
        BY <1>2, <2>1, <3>1, Zenon
    <3>3. CASE i = Len(c)
        BY <1>6, <3>2, <3>3, Zenon
    <3>4. CASE i # Len(c)
      <4>1. c[i] # m.prev[h]
          BY <2>1, <3>1, <3>2, <3>4, Zenon
      <4> QED
          BY <1>6, <2>1, <3>4, <4>1, Zenon
    <3> QED
        BY <3>3, <3>4, Zenon
  <2>5. Chain(k.next, e, c)
      BY <2>2, <2>3, <2>4, Zenon DEF Chain
  <2>6. e \in S
      BY Zenon
  <2> QED
      BY <1>4, <2>1, <2>5, <2>6, ContentsUnique, SMTT(60), Z3T(60)
<1>9. ASSUME NEW n \in H \ {h} PROVE Contents(k, n) = Contents(m, n)
  <2>1. \A i \in R : own[i] = n => k.next[i] = m.next[i]
      BY <1>2, <1>6, Zenon
  <2>2. n \in S /\ n \in H
      BY <1>2, Zenon
  <2> HIDE DEF S
  <2> QED
      BY <1>1, <1>4, <2>1, <2>2, OthersKept, SMTT(60), Z3T(60)
<1> QED
    BY <1>7, <1>8, <1>9, Zenon DEF k, c, Same

=============================================================================
