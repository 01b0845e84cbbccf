-------------------------- MODULE UmsFolderProofs ---------------------------
(***************************************************************************)
(* What the calls do to the folders of UmsProcLinks, given what they do to *)
(* the workers a scheduler owns, for any sets of schedulers and workers    *)
(* and any number of names and failures.                                   *)
(***************************************************************************)
EXTENDS UmsProcLinks, SequenceTheorems, FiniteSetTheorems, TLAPS

-----------------------------------------------------------------------------
(* The invariant.                                                          *)

\* The names in the folder of s that are taken.
Used(s) == {n \in Names : folder[s][n] # NoLink}

\* A worker that is dequeued has no link or its own, in the folder of the
\* scheduler that dequeued it.
OwnLinks ==
    \A s \in Schedulers : \A w \in Owned(s) : worker_link[w] # NoLink =>
        worker_link[w][1] = s /\ folder[s][worker_link[w][2]] = w

\* As long as no context is lost, every link is that of a dequeued worker.
OnlyOwned ==
    \A s \in Schedulers : \A n \in Names : folder[s][n] # NoLink =>
        folder[s][n] \in Owned(s) /\ worker_link[folder[s][n]] = <<s, n>>

\* As long as no link is missing, n_workers is the number of links and none has
\* a name above max_workers.
Counted ==
    \A s \in Schedulers :
        /\ n_workers[s] = Cardinality(Used(s))
        /\ \A n \in Used(s) : n <= max_workers[s]
        /\ \A w \in Owned(s) : worker_link[w] # NoLink

Shown ==
    /\ OwnLinks
    /\ faults = 0 => OnlyOwned
    /\ link_faults = 0 => Counted

-----------------------------------------------------------------------------
(* The loop that makes the links.                                          *)

\* f is what s works on after each turn of the loop over q.
IsLoop(f, s, failed, q, k) ==
    f = [i \in 0 .. k |->
            IF i = 0 THEN Local(s) ELSE LinkNext(s, failed, f[i - 1], q[i])]

\* A set of naturals that is not empty has a least element.
LEMMA LeastNat ==
    ASSUME NEW S, S \subseteq Nat, S # {}
    PROVE  \E i \in S : \A j \in S : i <= j
<1> DEFINE Less == OpToRel(<, Nat)
<1>1. IsWellFoundedOn(Less, Nat)
    BY NatLessThanWellFounded, Zenon
<1>2. PICK i \in S : \A j \in S : ~(<<j, i>> \in Less)
  <2> HIDE DEF Less
  <2> QED
      BY <1>1, WFMin, Zenon
<1>3. \A j \in S : ~(j < i)
    BY <1>2, Zenon DEF OpToRel
<1> QED
    BY <1>3

\* There is such a function, for any number of turns.
LEMMA LoopExists ==
    ASSUME NEW s, NEW failed, NEW q, NEW k \in Nat
    PROVE  \E f : IsLoop(f, s, failed, q, k)
<1> DEFINE Bad == {i \in Nat : ~\E f : IsLoop(f, s, failed, q, i)}
<1> SUFFICES ASSUME Bad # {} PROVE FALSE
    OBVIOUS
<1>1. PICK l \in Bad : \A j \in Bad : l <= j
  <2>1. Bad \subseteq Nat
      OBVIOUS
  <2> HIDE DEF Bad
  <2> QED
      BY <2>1, LeastNat, Zenon
<1>2. l \in Nat /\ ~\E f : IsLoop(f, s, failed, q, l)
    OBVIOUS
<1>3. l # 0
  <2> DEFINE f == [i \in 0 .. 0 |-> Local(s)]
  <2>1. IsLoop(f, s, failed, q, 0)
      BY DEF IsLoop
  <2> QED
      BY <1>2, <2>1
<1>4. l - 1 \in Nat /\ l - 1 \notin Bad
    BY <1>1, <1>2, <1>3
<1>5. PICK f : IsLoop(f, s, failed, q, l - 1)
    BY <1>4
<1> DEFINE g == [i \in 0 .. l |-> IF i = l THEN LinkNext(s, failed, f[l - 1], q[l]) ELSE f[i]]
<1>6. \A i \in 0 .. l - 1 : g[i] = f[i]
    BY <1>2
<1>7. \A i \in 0 .. l :
         g[i] = IF i = 0 THEN Local(s) ELSE LinkNext(s, failed, g[i - 1], q[i])
  <2> TAKE i \in 0 .. l
  <2>1. CASE i = l
    <3>1. g[i] = LinkNext(s, failed, f[l - 1], q[l])
        BY <1>2, <2>1
    <3>2. g[i - 1] = f[l - 1]
        BY <1>2, <1>3, <1>6, <2>1
    <3> QED
        BY <1>3, <2>1, <3>1, <3>2
  <2>2. CASE i # l
    <3>1. i \in 0 .. l - 1 /\ (i # 0 => i - 1 \in 0 .. l - 1)
        BY <1>2, <2>2
    <3>2. f[i] = IF i = 0 THEN Local(s) ELSE LinkNext(s, failed, f[i - 1], q[i])
        BY <1>5, <3>1 DEF IsLoop
    <3> HIDE DEF g
    <3> QED
        BY <1>6, <3>1, <3>2
  <2> QED
      BY <2>1, <2>2
<1>8. IsLoop(g, s, failed, q, l)
  <2>1. g = [i \in 0 .. l |-> g[i]]
      OBVIOUS
  <2> HIDE DEF g
  <2> QED
      BY <1>7, <2>1, Zenon DEF IsLoop
<1> QED
    BY <1>2, <1>8

\* The constants that are numbers.
LEMMA Numbers ==
    /\ ULong \in Nat /\ MaxNames \in Nat /\ MaxLinkFaults \in Nat
    /\ 0 < MaxNames /\ MaxNames < ULong
    /\ NoLink \notin Workers /\ NoLink \notin Schedulers \X Names
<1>1. /\ ULong \in Nat /\ MaxNames \in Nat /\ MaxLinkFaults \in Nat
      /\ NoLink \notin Workers /\ NoLink \notin Schedulers \X Names
    BY LinksAssumption DEF Threads
<1>2. 0 < MaxNames /\ 2 * MaxNames <= ULong
    BY LinksAssumption
<1> QED
    BY <1>1, <1>2

Dirs == [Names -> Workers \cup {NoLink}]

Links == [Workers -> (Schedulers \X Names) \cup {NoLink}]

\* The links of the first k workers of q that lead into the folder dir of s.
LeadTo(s, q, dir, link, k) ==
    \A j \in 1 .. k : link[q[j]] # NoLink =>
        link[q[j]][1] = s /\ dir[link[q[j]][2]] = q[j]

\* What is in the folder dir and was not in dir0 is linked by one of them.
AddedBy(s, q, dir0, dir, link, k) ==
    \A n \in Names : dir[n] # dir0[n] =>
        \E j \in 1 .. k : dir[n] = q[j] /\ link[q[j]] = <<s, n>>

\* The loop has made k turns over q, and of the folder and links dir0 and link0
\* it has made dir and link.
Made(s, q, dir0, link0, dir, link, k) ==
    /\ dir \in Dirs /\ link \in Links
    /\ \A n \in Names : dir0[n] # NoLink => dir[n] = dir0[n]
    /\ \A w \in Workers : (\A j \in 1 .. k : q[j] # w) => link[w] = link0[w]
    /\ LeadTo(s, q, dir, link, k)
    /\ AddedBy(s, q, dir0, dir, link, k)

Once1(q) == \A i, j \in 1 .. Len(q) : q[i] = q[j] => i = j

\* The worker of the next turn is none of those before.
LEMMA NextWorker ==
    ASSUME NEW q \in Seq(Workers), Once1(q), NEW k \in Nat, k < Len(q)
    PROVE  /\ k + 1 \in 1 .. k + 1 /\ q[k + 1] \in Workers
           /\ \A j \in 1 .. k : q[j] \in Workers /\ q[j] # q[k + 1] /\ j \in 1 .. k + 1
           /\ \A j \in 1 .. k + 1 : j \in 1 .. k \/ j = k + 1
<1>1. k + 1 \in 1 .. Len(q) /\ \A j \in 1 .. k : j \in 1 .. Len(q) /\ j # k + 1
    OBVIOUS
<1>2. \A j \in 1 .. Len(q) : q[j] \in Workers
    OBVIOUS
<1>3. \A j \in 1 .. k : q[j] # q[k + 1]
    BY <1>1, Zenon DEF Once1
<1> QED
    BY <1>1, <1>2, <1>3

\* A turn that makes no link.
LEMMA TurnWithout ==
    ASSUME NEW s \in Schedulers, NEW q \in Seq(Workers), Once1(q),
           NEW dir0, NEW link0, NEW dir, NEW link, NEW k \in Nat, k < Len(q),
           Made(s, q, dir0, link0, dir, link, k),
           NEW link1, link1 = [link EXCEPT ![q[k + 1]] = NoLink]
    PROVE  Made(s, q, dir0, link0, dir, link1, k + 1)
<1>1. /\ k + 1 \in 1 .. k + 1 /\ q[k + 1] \in Workers
      /\ \A j \in 1 .. k : q[j] \in Workers /\ q[j] # q[k + 1] /\ j \in 1 .. k + 1
      /\ \A j \in 1 .. k + 1 : j \in 1 .. k \/ j = k + 1
    BY NextWorker, Zenon
<1>2. PICK x : x = q[k + 1]
    OBVIOUS
<1>3. /\ link1 \in Links
      /\ link1[x] = NoLink
      /\ \A w \in Workers : w # x => link1[w] = link[w]
    BY <1>1, <1>2, Zenon DEF Made, Links
<1>4. ASSUME NEW w \in Workers, \A j \in 1 .. k + 1 : q[j] # w PROVE link1[w] = link0[w]
    BY <1>1, <1>2, <1>3, <1>4, Zenon DEF Made
<1>5. LeadTo(s, q, dir, link1, k + 1)
    BY <1>1, <1>2, <1>3, ZenonT(60) DEF Made, LeadTo
<1>6. ASSUME NEW n \in Names, dir[n] # dir0[n]
      PROVE  \E j \in 1 .. k + 1 : dir[n] = q[j] /\ link1[q[j]] = <<s, n>>
  <2>1. PICK j \in 1 .. k : dir[n] = q[j] /\ link[q[j]] = <<s, n>>
      BY <1>6, Zenon DEF Made, AddedBy
  <2> QED
      BY <1>1, <1>2, <1>3, <2>1, Zenon
<1> QED
    BY <1>3, <1>4, <1>5, <1>6, Zenon DEF Made, AddedBy

\* A turn that makes a link, under the name m that is not taken.
LEMMA TurnWith ==
    ASSUME NEW s \in Schedulers, NEW q \in Seq(Workers), Once1(q),
           NEW dir0, NEW link0, NEW dir, NEW link, NEW k \in Nat, k < Len(q),
           Made(s, q, dir0, link0, dir, link, k),
           NEW m \in Names, dir[m] = NoLink,
           NEW dir1, dir1 = [dir EXCEPT ![m] = q[k + 1]],
           NEW link1, link1 = [link EXCEPT ![q[k + 1]] = <<s, m>>]
    PROVE  Made(s, q, dir0, link0, dir1, link1, k + 1)
<1>1. /\ k + 1 \in 1 .. k + 1 /\ q[k + 1] \in Workers
      /\ \A j \in 1 .. k : q[j] \in Workers /\ q[j] # q[k + 1] /\ j \in 1 .. k + 1
      /\ \A j \in 1 .. k + 1 : j \in 1 .. k \/ j = k + 1
    BY NextWorker, Zenon
<1>2. PICK x : x = q[k + 1]
    BY Zenon
<1>3. /\ link1 \in Links
      /\ link1[x] = <<s, m>>
      /\ \A w \in Workers : w # x => link1[w] = link[w]
    BY <1>1, <1>2, Zenon DEF Made, Links
<1>4. /\ dir1 \in Dirs
      /\ dir1[m] = x
      /\ \A n \in Names : n # m => dir1[n] = dir[n]
    BY <1>1, <1>2, Zenon DEF Made, Dirs
<1>5. dir0[m] = NoLink
    BY Zenon DEF Made
<1>6. ASSUME NEW n \in Names, dir0[n] # NoLink PROVE dir1[n] = dir0[n]
    BY <1>4, <1>5, <1>6, Zenon DEF Made
<1>7. ASSUME NEW w \in Workers, \A j \in 1 .. k + 1 : q[j] # w PROVE link1[w] = link0[w]
    BY <1>1, <1>2, <1>3, <1>7, Zenon DEF Made
<1>8. ASSUME NEW j \in 1 .. k + 1, link1[q[j]] # NoLink
      PROVE  link1[q[j]][1] = s /\ dir1[link1[q[j]][2]] = q[j]
  <2>1. CASE j = k + 1
      BY <1>2, <1>3, <1>4, <2>1
  <2>2. CASE j \in 1 .. k
    <3>1. q[j] \in Workers /\ q[j] # x
        BY <1>1, <1>2, <2>2, Zenon
    <3>2. link1[q[j]] = link[q[j]] /\ link[q[j]] # NoLink
        BY <1>3, <1>8, <3>1, Zenon
    <3>3. link[q[j]][1] = s /\ dir[link[q[j]][2]] = q[j]
        BY <2>2, <3>2, Zenon DEF Made, LeadTo
    <3>4. link[q[j]][2] \in Names
        BY <3>1, <3>2, Zenon DEF Made, Links
    <3>5. link[q[j]][2] # m
        BY <3>1, <3>3, Numbers, Zenon
    <3> QED
        BY <1>4, <3>2, <3>3, <3>4, <3>5, Zenon
  <2> QED
      BY <1>1, <2>1, <2>2, Zenon
<1>9. ASSUME NEW n \in Names, dir1[n] # dir0[n]
      PROVE  \E j \in 1 .. k + 1 : dir1[n] = q[j] /\ link1[q[j]] = <<s, n>>
  <2>1. CASE n = m
      BY <1>1, <1>2, <1>3, <1>4, <2>1, Zenon
  <2>2. CASE n # m
    <3>1. PICK j \in 1 .. k : dir[n] = q[j] /\ link[q[j]] = <<s, n>>
        BY <1>4, <1>9, <2>2, Zenon DEF Made, AddedBy
    <3> QED
        BY <1>1, <1>2, <1>3, <1>4, <2>2, <3>1, Zenon
  <2> QED
      BY <2>1, <2>2, Zenon
<1> QED
    BY <1>3, <1>4, <1>6, <1>7, <1>8, <1>9, Zenon DEF Made, LeadTo, AddedBy

\* As long as nothing fails and no name above max0 is taken, each turn gives the
\* next name.
MadeAll(q, dir0, n0, max0, dir, link, n, max, k) ==
    /\ max = max0 + k
    /\ n = n0 + k
    /\ \A i \in Names : dir[i] # NoLink <=> dir0[i] # NoLink \/ i \in max0 + 1 .. max0 + k
    /\ \A j \in 1 .. k : link[q[j]] # NoLink

\* The loop, from d0 to d in k turns.
Looped(s, failed, q, d0, d, k) ==
    /\ Made(s, q, d0.dir, d0.link, d.dir, d.link, k)
    /\ d.n \in 0 .. ULong - 1
    /\ d.max \in d0.max .. d0.max + k
    /\ /\ failed = {} /\ d0.n + Len(q) < ULong
       /\ \A i \in Names : i > d0.max => d0.dir[i] = NoLink
       => MadeAll(q, d0.dir, d0.n, d0.max, d.dir, d.link, d.n, d.max, k)

\* The next turn.
LEMMA Turn ==
    ASSUME NEW s \in Schedulers, NEW failed, NEW q \in Seq(Workers), Once1(q),
           NEW d0, d0.max \in Nat, d0.n \in Nat, d0.max + Len(q) <= MaxNames,
           NEW k \in Nat, k < Len(q), NEW d, Looped(s, failed, q, d0, d, k)
    PROVE  Looped(s, failed, q, d0, LinkNext(s, failed, d, q[k + 1]), k + 1)
<1>1. /\ k + 1 \in 1 .. k + 1 /\ q[k + 1] \in Workers
      /\ \A j \in 1 .. k : q[j] \in Workers /\ q[j] # q[k + 1] /\ j \in 1 .. k + 1
      /\ \A j \in 1 .. k + 1 : j \in 1 .. k \/ j = k + 1
    BY NextWorker, Zenon
<1>2. PICK x, m : x = q[k + 1] /\ m = d.max + 1
    OBVIOUS
<1>3. /\ Made(s, q, d0.dir, d0.link, d.dir, d.link, k)
      /\ d.n \in 0 .. ULong - 1 /\ d.max \in d0.max .. d0.max + k
    BY Zenon DEF Looped
<1>4. /\ m \in Names /\ m \in d0.max .. d0.max + (k + 1) /\ d.max \in d0.max .. d0.max + (k + 1)
      /\ (d.n + 1) % ULong \in 0 .. ULong - 1
      /\ d.n + 1 < ULong => (d.n + 1) % ULong = d.n + 1
  <2>1. PICK a, b, c, l : a = d0.max /\ b = d.max /\ c = d.n /\ l = Len(q)
      OBVIOUS
  <2>2. /\ a \in Nat /\ l \in Nat /\ b \in a .. a + k /\ c \in 0 .. ULong - 1
        /\ k < l /\ a + l <= MaxNames /\ m = b + 1
      BY <1>2, <1>3, <2>1
  <2>3. /\ m \in 1 .. MaxNames /\ m \in a .. a + (k + 1) /\ b \in a .. a + (k + 1)
        /\ (c + 1) % ULong \in 0 .. ULong - 1
      BY <2>2, Numbers
  <2>4. c + 1 < ULong => (c + 1) % ULong = c + 1
      BY <2>2, Numbers, SMTT(30), Z3T(30)
  <2> QED
      BY <2>1, <2>3, <2>4, Zenon DEF Names
<1>5. PICK e : e = LinkNext(s, failed, d, q[k + 1])
    OBVIOUS
<1>6. CASE x \in failed \/ Refused(d)
  <2>1. e = [d EXCEPT !.link[x] = NoLink]
      BY <1>2, <1>5, <1>6, Zenon DEF LinkNext, Unregistered, RegisterWorker
  <2>2. e.dir = d.dir /\ e.link = [d.link EXCEPT ![x] = NoLink] /\ e.n = d.n /\ e.max = d.max
      BY <2>1 DEF Looped, Made
  <2>3. Made(s, q, d0.dir, d0.link, e.dir, e.link, k + 1)
    <3>1. PICK D0, K0, D, K, K1 :
             D0 = d0.dir /\ K0 = d0.link /\ D = d.dir /\ K = d.link /\ K1 = e.link
        BY Zenon
    <3>2. Made(s, q, D0, K0, D, K, k) /\ K1 = [K EXCEPT ![q[k + 1]] = NoLink]
        BY <1>2, <1>3, <2>2, <3>1, Zenon
    <3>3. Made(s, q, D0, K0, D, K1, k + 1)
        BY <3>2, TurnWithout, Zenon
    <3> QED
        BY <2>2, <3>1, <3>3, Zenon
  <2>4. ASSUME failed = {}, d0.n + Len(q) < ULong,
               \A i \in Names : i > d0.max => d0.dir[i] = NoLink
        PROVE  FALSE
    <3>1. MadeAll(q, d0.dir, d0.n, d0.max, d.dir, d.link, d.n, d.max, k)
        BY <2>4, Zenon DEF Looped
    <3>2. m = d0.max + k + 1 /\ m > d0.max /\ ~(m \in d0.max + 1 .. d0.max + k)
        BY <1>2, <3>1, SMTT(60), Z3T(60) DEF MadeAll
    <3>3. d.dir[m] = NoLink
        BY <1>4, <2>4, <3>1, <3>2, Zenon DEF MadeAll
    <3> QED
        BY <1>2, <1>6, <2>4, <3>3 DEF Refused
  <2> QED
      BY <1>3, <1>4, <1>5, <2>2, <2>3, <2>4, Zenon DEF Looped
<1>7. CASE x \notin failed /\ ~Refused(d)
  <2>1. e = [dir |-> [d.dir EXCEPT ![m] = x], link |-> [d.link EXCEPT ![x] = <<s, m>>],
             n |-> (d.n + 1) % ULong, max |-> m]
      BY <1>2, <1>5, <1>7, Zenon DEF LinkNext, RegisterWorker
  <2>2. /\ e.dir = [d.dir EXCEPT ![m] = x] /\ e.link = [d.link EXCEPT ![x] = <<s, m>>]
        /\ e.n = (d.n + 1) % ULong /\ e.max = m
      BY <2>1, Zenon
  <2>3. Made(s, q, d0.dir, d0.link, e.dir, e.link, k + 1)
    <3>1. d.dir[m] = NoLink
        BY <1>2, <1>7, Zenon DEF Refused
    <3>2. e.dir = [d.dir EXCEPT ![m] = q[k + 1]] /\ e.link = [d.link EXCEPT ![q[k + 1]] = <<s, m>>]
        BY <1>2, <2>2, Zenon
    <3>3. PICK D0, K0, D, K : D0 = d0.dir /\ K0 = d0.link /\ D = d.dir /\ K = d.link
        BY Zenon
    <3>4. PICK D1, K1 : D1 = e.dir /\ K1 = e.link
        BY Zenon
    <3>5. /\ Made(s, q, D0, K0, D, K, k) /\ D[m] = NoLink
          /\ D1 = [D EXCEPT ![m] = q[k + 1]] /\ K1 = [K EXCEPT ![q[k + 1]] = <<s, m>>]
        BY <1>3, <3>1, <3>2, <3>3, <3>4, Zenon
    <3>6. Made(s, q, D0, K0, D1, K1, k + 1)
        BY <1>4, <3>5, TurnWith, Zenon
    <3> QED
        BY <3>3, <3>4, <3>6, Zenon
  <2>4. ASSUME failed = {}, d0.n + Len(q) < ULong,
               \A i \in Names : i > d0.max => d0.dir[i] = NoLink
        PROVE  MadeAll(q, d0.dir, d0.n, d0.max, e.dir, e.link, e.n, e.max, k + 1)
    <3>1. MadeAll(q, d0.dir, d0.n, d0.max, d.dir, d.link, d.n, d.max, k)
        BY <2>4, Zenon DEF Looped
    <3>2. /\ d.max = d0.max + k /\ d.n = d0.n + k
          /\ \A i \in Names : d.dir[i] # NoLink
                <=> d0.dir[i] # NoLink \/ i \in d0.max + 1 .. d0.max + k
          /\ \A j \in 1 .. k : d.link[q[j]] # NoLink
        BY <3>1, Zenon DEF MadeAll
    <3>3. d.dir \in Dirs /\ d.link \in Links
        BY <1>3, Zenon DEF Made
    <3>4. e.n = d0.n + (k + 1) /\ e.max = d0.max + (k + 1)
      <4>1. PICK a, b, c, l : a = d0.max /\ b = d0.n /\ c = d.n /\ l = Len(q)
          BY Zenon
      <4>2. /\ a \in Nat /\ b \in Nat /\ l \in Nat /\ k < l /\ b + l < ULong
            /\ c = b + k /\ m = (a + k) + 1
          BY <1>2, <2>4, <3>2, <4>1
      <4>3. c + 1 < ULong /\ c + 1 = b + (k + 1) /\ m = a + (k + 1)
          BY <4>2, Numbers
      <4> QED
          BY <1>4, <2>2, <4>1, <4>3, Zenon
    <3>5. ASSUME NEW i \in Names
          PROVE  e.dir[i] # NoLink
                   <=> d0.dir[i] # NoLink \/ i \in d0.max + 1 .. d0.max + (k + 1)
      <4>1. e.dir[m] = x /\ \A n \in Names : n # m => e.dir[n] = d.dir[n]
          BY <1>4, <2>2, <3>3, Zenon DEF Dirs
      <4>2. i \in d0.max + 1 .. d0.max + (k + 1) <=> i \in d0.max + 1 .. d0.max + k \/ i = m
          BY <1>2, <3>2, SMTT(30), Z3T(30) DEF Names
      <4> QED
          BY <1>1, <1>2, <3>2, <4>1, <4>2, Numbers, Zenon
    <3>6. ASSUME NEW j \in 1 .. k + 1 PROVE e.link[q[j]] # NoLink
      <4>1. e.link[x] = <<s, m>> /\ \A w \in Workers : w # x => e.link[w] = d.link[w]
          BY <1>1, <1>2, <2>2, <3>3 DEF Links
      <4>2. <<s, m>> # NoLink
          BY <1>4, Numbers
      <4> QED
          BY <1>1, <1>2, <3>2, <4>1, <4>2, Zenon
    <3> QED
        BY <3>4, <3>5, <3>6, Zenon DEF MadeAll
  <2> QED
      BY <1>4, <1>5, <2>2, <2>3, <2>4, Zenon DEF Looped
<1> QED
    BY <1>5, <1>6, <1>7

\* Before the first turn.
LEMMA TurnStart ==
    ASSUME NEW s \in Schedulers, NEW failed, NEW q,
           NEW d0, d0.dir \in Dirs, d0.link \in Links, d0.n \in 0 .. ULong - 1, d0.max \in Nat
    PROVE  Looped(s, failed, q, d0, d0, 0)
<1>1. \A j : j \notin 1 .. 0
    OBVIOUS
<1>2. Made(s, q, d0.dir, d0.link, d0.dir, d0.link, 0)
    BY <1>1, Zenon DEF Made, LeadTo, AddedBy
<1>3. /\ d0.max + 0 = d0.max /\ d0.n + 0 = d0.n /\ d0.max \in d0.max .. d0.max
      /\ \A i : i \notin d0.max + 1 .. d0.max
    BY Numbers
<1>4. MadeAll(q, d0.dir, d0.n, d0.max, d0.dir, d0.link, d0.n, d0.max, 0)
    BY <1>1, <1>3, Zenon DEF MadeAll
<1> QED
    BY <1>2, <1>3, <1>4, Zenon DEF Looped

\* All turns of the loop.
LEMMA LoopTurns ==
    ASSUME NEW s \in Schedulers, NEW failed, NEW q \in Seq(Workers), Once1(q),
           NEW d0, d0.dir \in Dirs, d0.link \in Links, d0.n \in 0 .. ULong - 1, d0.max \in Nat,
           d0.max + Len(q) <= MaxNames, d0 = Local(s),
           NEW f, IsLoop(f, s, failed, q, Len(q))
    PROVE  Looped(s, failed, q, d0, f[Len(q)], Len(q))
<1>1. /\ Len(q) \in Nat /\ d0.n \in Nat
      /\ f[0] = d0
      /\ \A k \in Nat : k < Len(q) => f[k + 1] = LinkNext(s, failed, f[k], q[k + 1])
  <2>1. \A i \in 0 .. Len(q) :
           f[i] = IF i = 0 THEN d0 ELSE LinkNext(s, failed, f[i - 1], q[i])
      BY Zenon DEF IsLoop
  <2>2. ASSUME NEW k \in Nat, k < Len(q)
        PROVE  k + 1 \in 0 .. Len(q) /\ k + 1 # 0 /\ (k + 1) - 1 = k
      BY <2>2
  <2>3. Len(q) \in Nat /\ 0 \in 0 .. Len(q) /\ d0.n \in Nat
      BY Numbers
  <2> QED
      BY <2>1, <2>2, <2>3, Zenon
<1> DEFINE Bad == {k \in Nat : k <= Len(q) /\ ~Looped(s, failed, q, d0, f[k], k)}
<1>2. Bad \subseteq Nat /\ \A k \in Bad : k <= Len(q) /\ ~Looped(s, failed, q, d0, f[k], k)
    OBVIOUS
<1>3. Looped(s, failed, q, d0, f[0], 0)
    BY <1>1, TurnStart, Zenon
<1>4. ASSUME NEW k \in Bad, \A j \in Bad : k <= j PROVE FALSE
  <2>1. k \in Nat /\ k <= Len(q) /\ k # 0
      BY <1>3
  <2>2. PICK j \in Nat : k = j + 1
      BY <2>1
  <2>3. j < Len(q) /\ j <= Len(q) /\ ~(k <= j)
      BY <1>1, <2>1, <2>2
  <2>4. Looped(s, failed, q, d0, f[j], j)
      BY <1>4, <2>3
  <2>5. Looped(s, failed, q, d0, LinkNext(s, failed, f[j], q[j + 1]), j + 1)
      BY <1>1, <2>3, <2>4, Turn, Zenon
  <2> QED
      BY <1>1, <1>2, <2>2, <2>3, <2>5, Zenon
<1>5. Bad = {}
  <2> HIDE DEF Bad
  <2> QED
      BY <1>2, <1>4, LeastNat, Zenon
<1> QED
    BY <1>1, <1>5

\* What the loop over q makes of the links and counters of s.
LEMMA LinkAllLoops ==
    ASSUME NEW s \in Schedulers, NEW failed, NEW q \in Seq(Workers), Once1(q), LinksTypeOK,
           max_workers[s] + Len(q) <= MaxNames
    PROVE  Looped(s, failed, q, Local(s), LinkAll(s, failed, q), Len(q))
<1>1. /\ Local(s).dir = folder[s] /\ Local(s).link = worker_link
      /\ Local(s).n = n_workers[s] /\ Local(s).max = max_workers[s]
    BY Zenon DEF Local
<1>2. /\ folder[s] \in Dirs /\ worker_link \in Links
      /\ n_workers[s] \in 0 .. ULong - 1 /\ max_workers[s] \in Nat
    BY DEF LinksTypeOK, Dirs, Links
<1>3. Len(q) \in Nat
    OBVIOUS
<1> DEFINE f == CHOOSE g : IsLoop(g, s, failed, q, Len(q))
<1>4. IsLoop(f, s, failed, q, Len(q))
    BY <1>3, LoopExists, Zenon
<1>5. LinkAll(s, failed, q) = f[Len(q)]
    BY Zenon DEF LinkAll, IsLoop
<1> HIDE DEF f
<1>6. PICK d0 : d0 = Local(s)
    BY Zenon
<1>7. Looped(s, failed, q, d0, f[Len(q)], Len(q))
    BY <1>1, <1>2, <1>4, <1>6, LoopTurns, Zenon
<1> QED
    BY <1>5, <1>6, <1>7, Zenon

-----------------------------------------------------------------------------
(* The workers a scheduler owns.                                           *)

Has(q, w) == \E i \in DOMAIN q : q[i] = w

\* What is in a list is its first entry or in the rest.
LEMMA HasHead ==
    ASSUME NEW q \in Seq(Workers), q # <<>>, NEW w
    PROVE  Has(q, w) <=> w = Head(q) \/ Has(Tail(q), w)
<1>1. /\ Len(q) \in Nat /\ Len(q) # 0 /\ DOMAIN q = 1 .. Len(q)
      /\ DOMAIN Tail(q) = 1 .. Len(q) - 1 /\ Head(q) = q[1]
      /\ \A i \in 1 .. Len(q) - 1 : Tail(q)[i] = q[i + 1]
    OBVIOUS
<1>2. ASSUME Has(q, w), w # Head(q) PROVE Has(Tail(q), w)
  <2>1. PICK i \in 1 .. Len(q) : q[i] = w
      BY <1>1, <1>2 DEF Has
  <2>2. i - 1 \in 1 .. Len(q) - 1 /\ (i - 1) + 1 = i
      BY <1>1, <1>2, <2>1
  <2> QED
      BY <1>1, <2>1, <2>2, Zenon DEF Has
<1>3. ASSUME Has(Tail(q), w) PROVE Has(q, w)
  <2>1. PICK i \in 1 .. Len(q) - 1 : Tail(q)[i] = w
      BY <1>1, <1>3 DEF Has
  <2> QED
      BY <1>1, <2>1 DEF Has
<1>4. 1 \in 1 .. Len(q)
    BY <1>1
<1> QED
    BY <1>1, <1>2, <1>3, <1>4, Zenon DEF Has

\* What is in a list with an entry added at the end.
LEMMA HasLast ==
    ASSUME NEW q \in Seq(Workers), NEW v \in Workers, NEW w
    PROVE  Has(Append(q, v), w) <=> w = v \/ Has(q, w)
<1>1. /\ Len(q) \in Nat /\ DOMAIN q = 1 .. Len(q) /\ DOMAIN Append(q, v) = 1 .. Len(q) + 1
      /\ Append(q, v)[Len(q) + 1] = v /\ \A i \in 1 .. Len(q) : Append(q, v)[i] = q[i]
    OBVIOUS
<1>2. /\ Len(q) + 1 \in 1 .. Len(q) + 1
      /\ \A i \in 1 .. Len(q) + 1 : i \in 1 .. Len(q) \/ i = Len(q) + 1
      /\ \A i \in 1 .. Len(q) : i \in 1 .. Len(q) + 1
    BY <1>1
<1> QED
    BY <1>1, <1>2, Zenon DEF Has

\* The workers owned at r, when its program counter is p and its context c.
OwnedAt(L, p, c, r) ==
    {w \in Workers :
        \/ Has(L[r], w)
        \/ p = "collect" /\ Has(L[c], w)
        \/ p = "switch" /\ w = c}

\* Owned in this state and in the next.
LEMMA OwnedForms ==
    ASSUME NEW r
    PROVE  /\ Owned(r) = OwnedAt(list, pc[r], ctx[r], r)
           /\ Owned(r)' = OwnedAt(list', pc'[r], ctx'[r], r)
           /\ \A w : Linked(w, r) <=> Has(list[r], w)
    BY Zenon DEF Owned, OwnedAt, Linked, Has

\* The places where a scheduler owns what is not in its own list.
Owning(p) == p = "collect" \/ p = "switch"

\* What a scheduler owns depends on its own list and on the one it walks.
LEMMA OwnedStays ==
    ASSUME NEW r, list'[r] = list[r],
           \/ pc'[r] = pc[r] /\ ctx'[r] = ctx[r]
           \/ ~Owning(pc[r]) /\ ~Owning(pc'[r]),
           pc[r] = "collect" => list'[ctx[r]] = list[ctx[r]]
    PROVE  Owned(r)' = Owned(r)
<1>1. OwnedAt(list', pc'[r], ctx'[r], r) = OwnedAt(list, pc[r], ctx[r], r)
    BY Zenon DEF OwnedAt, Owning
<1> QED
    BY <1>1, OwnedForms, Zenon

\* The walk ends: the first context of the run queue is in hand, and what is
\* left of the list is lost.
LEMMA WalkEndOwns ==
    ASSUME NEW L, NEW M, NEW s, NEW c, L[s] \in Seq(Workers), L[s] # <<>>,
           M[s] = Tail(L[s])
    PROVE  /\ OwnedAt(M, "switch", Head(L[s]), s) \subseteq OwnedAt(L, "collect", c, s)
           /\ L[c] = <<>> =>
                 OwnedAt(M, "switch", Head(L[s]), s) = OwnedAt(L, "collect", c, s)
<1>1. \A w : Has(L[s], w) <=> w = Head(L[s]) \/ Has(M[s], w)
    BY HasHead, Zenon
<1>2. \A w : ~Has(<<>>, w)
    BY DEF Has
<1> QED
    BY <1>1, <1>2, Zenon DEF OwnedAt

-----------------------------------------------------------------------------
(* What the folders show after each step.                                  *)

\* The parts of the invariant for one scheduler.
LinksOfOwn(own, link, dir, s) ==
    \A w \in own : link[w] # NoLink => link[w][1] = s /\ dir[link[w][2]] = w

LinksOnlyOwn(own, link, dir, s) ==
    \A n \in Names : dir[n] # NoLink => dir[n] \in own /\ link[dir[n]] = <<s, n>>

CountsLinks(own, link, dir, n, max) ==
    LET used == {i \in Names : dir[i] # NoLink}
    IN  /\ n = Cardinality(used)
        /\ \A i \in used : i <= max
        /\ \A w \in own : link[w] # NoLink

\* The invariant holds if it holds for each of them.
LEMMA ShownForms ==
    /\ OwnLinks <=> \A s \in Schedulers : LinksOfOwn(Owned(s), worker_link, folder[s], s)
    /\ OnlyOwned <=> \A s \in Schedulers : LinksOnlyOwn(Owned(s), worker_link, folder[s], s)
    /\ Counted <=> \A s \in Schedulers :
          CountsLinks(Owned(s), worker_link, folder[s], n_workers[s], max_workers[s])
    /\ OwnLinks' <=> \A s \in Schedulers : LinksOfOwn(Owned(s)', worker_link', folder'[s], s)
    /\ OnlyOwned' <=> \A s \in Schedulers : LinksOnlyOwn(Owned(s)', worker_link', folder'[s], s)
    /\ Counted' <=> \A s \in Schedulers :
          CountsLinks(Owned(s)', worker_link', folder'[s], n_workers'[s], max_workers'[s])
<1>1. /\ OwnLinks <=> \A s \in Schedulers : LinksOfOwn(Owned(s), worker_link, folder[s], s)
      /\ OwnLinks' <=> \A s \in Schedulers : LinksOfOwn(Owned(s)', worker_link', folder'[s], s)
    BY Zenon DEF OwnLinks, LinksOfOwn
<1>2. /\ OnlyOwned <=> \A s \in Schedulers : LinksOnlyOwn(Owned(s), worker_link, folder[s], s)
      /\ OnlyOwned' <=> \A s \in Schedulers :
            LinksOnlyOwn(Owned(s)', worker_link', folder'[s], s)
    BY Zenon DEF OnlyOwned, LinksOnlyOwn
<1>3. /\ Counted <=> \A s \in Schedulers :
            CountsLinks(Owned(s), worker_link, folder[s], n_workers[s], max_workers[s])
      /\ Counted' <=> \A s \in Schedulers :
            CountsLinks(Owned(s)', worker_link', folder'[s], n_workers'[s], max_workers'[s])
    BY Zenon DEF Counted, CountsLinks, Used
<1> QED
    BY <1>1, <1>2, <1>3, Zenon

\* The links of the other schedulers are not touched: what holds for one goes
\* on holding if the links of what it owns stay.
LEMMA SameLinks ==
    ASSUME NEW own, NEW link, NEW link1, NEW dir, NEW s, NEW n, NEW max,
           \A w \in own : link1[w] = link[w]
    PROVE  /\ LinksOfOwn(own, link, dir, s) => LinksOfOwn(own, link1, dir, s)
           /\ LinksOnlyOwn(own, link, dir, s) => LinksOnlyOwn(own, link1, dir, s)
           /\ CountsLinks(own, link, dir, n, max) => CountsLinks(own, link1, dir, n, max)
    BY Zenon DEF LinksOfOwn, LinksOnlyOwn, CountsLinks

\* A scheduler that owns less has less to show.
LEMMA FewerLinks ==
    ASSUME NEW own, NEW own1, own1 \subseteq own, NEW link, NEW dir, NEW s, NEW n, NEW max
    PROVE  /\ LinksOfOwn(own, link, dir, s) => LinksOfOwn(own1, link, dir, s)
           /\ CountsLinks(own, link, dir, n, max) => CountsLinks(own1, link, dir, n, max)
    BY Zenon DEF LinksOfOwn, CountsLinks

\* The steps that touch no link.
LEMMA Untouched ==
    ASSUME Shown, UNCHANGED linkVars,
           \A r \in Schedulers : Owned(r)' \subseteq Owned(r),
           faults' = 0 => faults = 0 /\ \A r \in Schedulers : Owned(r)' = Owned(r)
    PROVE  Shown'
<1>1. UNCHANGED <<folder, worker_link, n_workers, max_workers, link_faults>>
    BY Zenon DEF linkVars
<1>2. OwnLinks'
  <2>1. \A s \in Schedulers : LinksOfOwn(Owned(s), worker_link, folder[s], s)
      BY ShownForms, Zenon DEF Shown
  <2>2. \A s \in Schedulers : LinksOfOwn(Owned(s)', worker_link, folder[s], s)
      BY <2>1, FewerLinks, Zenon
  <2> QED
      BY <1>1, <2>2, ShownForms, Zenon
<1>3. faults' = 0 => OnlyOwned'
    BY <1>1, ShownForms, Zenon DEF Shown
<1>4. link_faults' = 0 => Counted'
  <2> SUFFICES ASSUME link_faults' = 0 PROVE Counted'
      BY Zenon
  <2>1. \A s \in Schedulers :
           CountsLinks(Owned(s), worker_link, folder[s], n_workers[s], max_workers[s])
      BY <1>1, ShownForms, Zenon DEF Shown
  <2>2. \A s \in Schedulers :
           CountsLinks(Owned(s)', worker_link, folder[s], n_workers[s], max_workers[s])
      BY <2>1, FewerLinks, Zenon
  <2> QED
      BY <1>1, <2>2, ShownForms, Zenon
<1> QED
    BY <1>2, <1>3, <1>4, Zenon DEF Shown

\* A step of s that changes its own folder and counters, and no link of a
\* worker another scheduler owns.
LEMMA OneFolder ==
    ASSUME Shown, NEW s \in Schedulers,
           \A r \in Schedulers : r # s =>
              /\ Owned(r)' = Owned(r)
              /\ folder'[r] = folder[r] /\ n_workers'[r] = n_workers[r]
              /\ max_workers'[r] = max_workers[r]
              /\ \A w \in Owned(r) : worker_link'[w] = worker_link[w],
           faults' = 0 => faults = 0, link_faults' = 0 => link_faults = 0,
           LinksOfOwn(Owned(s)', worker_link', folder'[s], s),
           faults' = 0 => LinksOnlyOwn(Owned(s)', worker_link', folder'[s], s),
           link_faults' = 0 =>
              CountsLinks(Owned(s)', worker_link', folder'[s], n_workers'[s], max_workers'[s])
    PROVE  Shown'
<1>1. ASSUME NEW r \in Schedulers, r # s
      PROVE  /\ LinksOfOwn(Owned(r)', worker_link', folder'[r], r)
             /\ faults' = 0 => LinksOnlyOwn(Owned(r)', worker_link', folder'[r], r)
             /\ link_faults' = 0 => CountsLinks(Owned(r)', worker_link', folder'[r],
                                                n_workers'[r], max_workers'[r])
  <2>1. /\ LinksOfOwn(Owned(r), worker_link, folder[r], r)
        /\ faults = 0 => LinksOnlyOwn(Owned(r), worker_link, folder[r], r)
        /\ link_faults = 0 =>
              CountsLinks(Owned(r), worker_link, folder[r], n_workers[r], max_workers[r])
      BY ShownForms, Zenon DEF Shown
  <2>2. PICK own, link, link1, dir, n, max :
           /\ own = Owned(r) /\ link = worker_link /\ link1 = worker_link'
           /\ dir = folder[r] /\ n = n_workers[r] /\ max = max_workers[r]
      BY Zenon
  <2>3. /\ LinksOfOwn(own, link, dir, r) => LinksOfOwn(own, link1, dir, r)
        /\ LinksOnlyOwn(own, link, dir, r) => LinksOnlyOwn(own, link1, dir, r)
        /\ CountsLinks(own, link, dir, n, max) => CountsLinks(own, link1, dir, n, max)
      BY <1>1, <2>2, SameLinks, Zenon
  <2> QED
      BY <1>1, <2>1, <2>2, <2>3, Zenon
<1> QED
    BY <1>1, ShownForms, Zenon DEF Shown

\* The failing links are finitely many.
LEMMA FailuresCount ==
    ASSUME NEW q, NEW l \in Nat, NEW failed \in SUBSET {q[i] : i \in 2 .. l}
    PROVE  Cardinality(failed) \in Nat /\ (Cardinality(failed) = 0 => failed = {})
<1> DEFINE S == 2 .. l
           T == {q[i] : i \in S}
           f == [i \in S |-> q[i]]
<1>1. f \in Surjection(S, T)
    BY Zenon DEF Surjection
<1>2. IsFiniteSet(S)
    BY FS_Interval
<1>3. failed \in SUBSET T
    BY Zenon
<1>4. IsFiniteSet(failed)
  <2> HIDE DEF S, T, f
  <2>1. IsFiniteSet(T)
      BY <1>1, <1>2, FS_Surjection, Zenon
  <2> QED
      BY <1>3, <2>1, FS_Subset, Zenon
<1> QED
    BY <1>4, FS_CardinalityType, FS_EmptySet, Zenon

\* As many names are used as there are up to max at most.
LEMMA NamesCount ==
    ASSUME NEW used \in SUBSET Names, NEW max \in Nat, \A i \in used : i <= max
    PROVE  IsFiniteSet(used) /\ Cardinality(used) \in Nat /\ Cardinality(used) <= max
<1>1. used \in SUBSET (1 .. max)
    BY DEF Names
<1>2. IsFiniteSet(1 .. max) /\ Cardinality(1 .. max) = max
    BY FS_Interval
<1>3. IsFiniteSet(used) /\ Cardinality(used) <= Cardinality(1 .. max)
    BY <1>1, <1>2, FS_Subset, Zenon
<1> QED
    BY <1>2, <1>3, FS_CardinalityType, Zenon

\* l names more, all above max.
LEMMA MoreNames ==
    ASSUME NEW used \in SUBSET Names, NEW max \in Nat, \A i \in used : i <= max,
           NEW l \in Nat, max + l <= MaxNames,
           NEW used1, \A i \in Names : i \in used1 <=> i \in used \/ i \in max + 1 .. max + l,
           used1 \subseteq Names
    PROVE  Cardinality(used1) = Cardinality(used) + l /\ \A i \in used1 : i <= max + l
<1>1. IsFiniteSet(used) /\ Cardinality(used) \in Nat
    BY NamesCount, Zenon
<1>2. PICK T : T = max + 1 .. max + l
    BY Zenon
<1>3. IsFiniteSet(T) /\ Cardinality(T) = l
  <2>1. max + 1 \in Int /\ max + l \in Int
      OBVIOUS
  <2>2. PICK a \in Int, b \in Int : a = max + 1 /\ b = max + l
      BY <2>1, Zenon
  <2>3. IsFiniteSet(a .. b) /\ Cardinality(a .. b) = IF a > b THEN 0 ELSE b - a + 1
      BY FS_Interval, Zenon
  <2>4. (IF a > b THEN 0 ELSE b - a + 1) = l
      BY <2>2
  <2> QED
      BY <1>2, <2>2, <2>3, <2>4, Zenon
<1>4. used \cap T = {} /\ T \subseteq Names
    BY <1>2, Numbers DEF Names
<1>5. used1 = used \cup T
    BY <1>2, <1>4, Zenon
<1>6. Cardinality(used1) = Cardinality(used) + Cardinality(T) - Cardinality(used \cap T)
    BY <1>1, <1>3, <1>5, FS_Union, Zenon
<1>7. Cardinality(used1) = Cardinality(used) + l
  <2>1. Cardinality(used \cap T) = 0
      BY <1>4, FS_EmptySet, Zenon
  <2> QED
      BY <1>1, <1>3, <1>6, <2>1, SMTT(60), Z3T(60)
<1>8. ASSUME NEW i \in used1 PROVE i <= max + l
  <2>1. i \in Nat /\ (i <= max \/ i \in max + 1 .. max + l)
      BY Numbers DEF Names
  <2> QED
      BY <2>1
<1> QED
    BY <1>7, <1>8, Zenon

\* Dequeuing links each context that is owned from now on.
LEMMA AllLinked ==
    ASSUME LinksTypeOK, Shown, NEW s \in Schedulers, DequeueLinksAll(s),
           faults' = 0 => faults = 0 /\ ~Fault,
           NEW q, q = list[CompList], q \in Seq(Workers), Once1(q),
           Owned(s) = {}, \A w \in Owned(s)' : Has(q, w),
           ~Fault => \A w \in Workers : Has(q, w) => w \in Owned(s)',
           \A r \in Schedulers : r # s => Owned(r)' = Owned(r),
           \A r \in Schedulers : r # s => \A w \in Owned(r) : ~Has(q, w)
    PROVE  /\ folder' \in [Schedulers -> [Names -> Workers \cup {NoLink}]]
           /\ worker_link' \in [Workers -> (Schedulers \X Names) \cup {NoLink}]
           /\ n_workers' \in [Schedulers -> 0 .. ULong - 1]
           /\ max_workers' \in [Schedulers -> 0 .. MaxNames]
           /\ link_faults' \in 0 .. MaxLinkFaults
           /\ Shown'
<1>2. PICK failed \in SUBSET {q[i] : i \in 2 .. Len(q)} :
         /\ link_faults + Cardinality(failed) <= MaxLinkFaults
         /\ link_faults' = link_faults + Cardinality(failed)
         /\ Assign(s, LinkAll(s, failed, q))
    BY Zenon DEF DequeueLinksAll
<1>4. Len(q) \in Nat /\ DOMAIN q = 1 .. Len(q) /\ \A j \in 1 .. Len(q) : q[j] \in Workers
    BY SMTT(30), Z3T(30)
<1>5. Cardinality(failed) \in Nat /\ (Cardinality(failed) = 0 => failed = {})
  <2>1. Len(q) \in Nat
      BY <1>4, Zenon
  <2> QED
      BY ONLY <2>1, FailuresCount, Zenon
<1>6. ASSUME NEW w \in Owned(s)' PROVE \E j \in 1 .. Len(q) : q[j] = w
    BY <1>4, <1>6, Zenon DEF Has
<1>7. /\ folder \in [Schedulers -> Dirs] /\ worker_link \in Links
      /\ n_workers \in [Schedulers -> 0 .. ULong - 1]
      /\ max_workers \in [Schedulers -> 0 .. MaxNames]
      /\ link_faults \in Nat /\ max_workers[s] \in Nat /\ n_workers[s] \in Nat
      /\ max_workers[s] + Len(q) <= MaxNames
  <2>1. /\ folder \in [Schedulers -> Dirs] /\ worker_link \in Links
        /\ n_workers \in [Schedulers -> 0 .. ULong - 1]
        /\ max_workers \in [Schedulers -> 0 .. MaxNames]
        /\ link_faults \in 0 .. MaxLinkFaults
      BY Zenon DEF LinksTypeOK, Dirs, Links
  <2>2. max_workers[s] + Len(q) <= MaxNames
      BY Zenon DEF DequeueLinksAll
  <2> QED
      BY <2>1, <2>2, Numbers
<1>8. PICK d : d = LinkAll(s, failed, q)
    BY Zenon
<1>9. /\ Made(s, q, folder[s], worker_link, d.dir, d.link, Len(q))
      /\ d.n \in 0 .. ULong - 1
      /\ d.max \in max_workers[s] .. max_workers[s] + Len(q)
      /\ /\ failed = {} /\ n_workers[s] + Len(q) < ULong
         /\ \A i \in Names : i > max_workers[s] => folder[s][i] = NoLink
         => MadeAll(q, folder[s], n_workers[s], max_workers[s],
                    d.dir, d.link, d.n, d.max, Len(q))
  <2>1. Looped(s, failed, q, Local(s), d, Len(q))
      BY <1>7, <1>8, LinkAllLoops, Zenon
  <2>2. /\ Local(s).dir = folder[s] /\ Local(s).link = worker_link
        /\ Local(s).n = n_workers[s] /\ Local(s).max = max_workers[s]
      BY Zenon DEF Local
  <2> QED
      BY <2>1, <2>2, Zenon DEF Looped
<1>10. /\ folder' = [folder EXCEPT ![s] = d.dir] /\ worker_link' = d.link
       /\ n_workers' = [n_workers EXCEPT ![s] = d.n]
       /\ max_workers' = [max_workers EXCEPT ![s] = d.max]
    BY <1>2, <1>8, Zenon DEF Assign
<1>11. /\ d.dir \in Dirs /\ d.link \in Links /\ d.max \in 0 .. MaxNames
       /\ link_faults' \in 0 .. MaxLinkFaults
  <2>1. d.max \in 0 .. MaxNames
      BY <1>4, <1>7, <1>9, Numbers, SMTT(30), Z3T(30)
  <2>2. link_faults' \in 0 .. MaxLinkFaults
      BY <1>2, <1>5, <1>7, Numbers, SMTT(30), Z3T(30)
  <2> QED
      BY <1>9, <2>1, <2>2, ZenonT(60) DEF Made
<1>12. /\ folder'[s] = d.dir /\ n_workers'[s] = d.n /\ max_workers'[s] = d.max
       /\ \A r \in Schedulers : r # s =>
             /\ folder'[r] = folder[r] /\ n_workers'[r] = n_workers[r]
             /\ max_workers'[r] = max_workers[r]
    BY <1>7, <1>10, Zenon
<1>13. ASSUME NEW r \in Schedulers, r # s, NEW w \in Owned(r)
       PROVE  worker_link'[w] = worker_link[w]
  <2>1. w \in Workers /\ \A j \in 1 .. Len(q) : q[j] # w
      BY <1>4, <1>13, Zenon DEF Has, Owned
  <2> QED
      BY <1>9, <1>10, <2>1, Zenon DEF Made
<1>14. LinksOfOwn(Owned(s)', d.link, d.dir, s)
  <2>1. LeadTo(s, q, d.dir, d.link, Len(q))
      BY <1>9, Zenon DEF Made
  <2>2. ASSUME NEW w \in Owned(s)', d.link[w] # NoLink
        PROVE  d.link[w][1] = s /\ d.dir[d.link[w][2]] = w
    <3>1. PICK j \in 1 .. Len(q) : q[j] = w
        BY <1>6, <2>2, Zenon
    <3> QED
        BY <2>1, <2>2, <3>1, Zenon DEF LeadTo
  <2> QED
      BY <2>2, Zenon DEF LinksOfOwn
<1>15. ASSUME faults' = 0 PROVE LinksOnlyOwn(Owned(s)', d.link, d.dir, s)
  <2>1. \A n \in Names : folder[s][n] = NoLink
      BY <1>15, Zenon DEF Shown, OnlyOwned
  <2>2. \A w \in Workers : Has(q, w) => w \in Owned(s)'
      BY <1>15, Zenon
  <2>3. ASSUME NEW n \in Names, d.dir[n] # NoLink
        PROVE  d.dir[n] \in Owned(s)' /\ d.link[d.dir[n]] = <<s, n>>
    <3>1. PICK j \in 1 .. Len(q) : d.dir[n] = q[j] /\ d.link[q[j]] = <<s, n>>
        BY <1>9, <2>1, <2>3, Zenon DEF Made, AddedBy
    <3> QED
        BY <1>4, <2>2, <3>1, Zenon DEF Has
  <2> QED
      BY <2>3, Zenon DEF LinksOnlyOwn
<1>16. ASSUME link_faults' = 0
       PROVE  link_faults = 0 /\ CountsLinks(Owned(s)', d.link, d.dir, d.n, d.max)
  <2>1. link_faults = 0 /\ failed = {}
      BY <1>2, <1>5, <1>7, <1>16, SMTT(30), Z3T(30)
  <2>2. /\ n_workers[s] = Cardinality(Used(s))
        /\ \A n \in Used(s) : n <= max_workers[s]
      BY <2>1, Zenon DEF Shown, Counted
  <2>3. PICK used, max, l : used = Used(s) /\ max = max_workers[s] /\ l = Len(q)
      BY Zenon
  <2>4. /\ used \in SUBSET Names /\ max \in Nat /\ l \in Nat /\ max + l <= MaxNames
        /\ \A n \in used : n <= max
      BY <1>4, <1>7, <2>2, <2>3, Zenon DEF Used
  <2>5. Cardinality(used) \in Nat /\ Cardinality(used) <= max
      BY <2>4, NamesCount, Zenon
  <2>6. n_workers[s] + Len(q) < ULong
    <3>1. Cardinality(used) + l < ULong
        BY <2>4, <2>5, Numbers, SMTT(60), Z3T(60)
    <3> QED
        BY <2>2, <2>3, <3>1, ZenonT(60)
  <2>7. ASSUME NEW i \in Names, i > max_workers[s] PROVE folder[s][i] = NoLink
    <3>1. ~(i <= max_workers[s])
        BY <1>7, <2>7, Numbers, SMTT(60), Z3T(60) DEF Names
    <3> QED
        BY <2>2, <3>1, Zenon DEF Used
  <2>8. MadeAll(q, folder[s], n_workers[s], max_workers[s], d.dir, d.link, d.n, d.max, Len(q))
      BY <1>9, <2>1, <2>6, <2>7, ZenonT(60)
  <2>9. PICK used1 : used1 = {i \in Names : d.dir[i] # NoLink}
      BY Zenon
  <2>10. /\ \A i \in Names : i \in used1 <=> i \in used \/ i \in max + 1 .. max + l
         /\ used1 \subseteq Names
      BY <2>3, <2>8, <2>9, Zenon DEF MadeAll, Used
  <2>11. Cardinality(used1) = Cardinality(used) + l /\ \A i \in used1 : i <= max + l
      BY <2>4, <2>10, MoreNames, ZenonT(60)
  <2>12. d.n = Cardinality(used1) /\ \A i \in used1 : i <= d.max
      BY <2>2, <2>3, <2>8, <2>11, ZenonT(60) DEF MadeAll
  <2>13. ASSUME NEW w \in Owned(s)' PROVE d.link[w] # NoLink
    <3>1. \A j \in 1 .. Len(q) : d.link[q[j]] # NoLink
        BY ONLY <2>8, Zenon DEF MadeAll
    <3>2. PICK j \in 1 .. Len(q) : q[j] = w
        BY <1>6, <2>13, Zenon
    <3> QED
        BY <3>1, <3>2, Zenon
  <2> QED
      BY <2>1, <2>9, <2>12, <2>13, ZenonT(60) DEF CountsLinks
<1>17. Shown'
    BY <1>10, <1>12, <1>13, <1>14, <1>15, <1>16, OneFolder, ZenonT(60)
<1> QED
    BY <1>7, <1>9, <1>10, <1>11, <1>17, Zenon DEF Dirs, Links

\* Without a link for the first context nothing is owned and nothing linked.
LEMMA NoneLinked ==
    ASSUME LinksTypeOK, Shown, NEW s \in Schedulers, DequeueLinksNone(s), faults' # 0,
           NEW q, q = list[CompList], q \in Seq(Workers), q # <<>>,
           Owned(s)' = {},
           \A r \in Schedulers : r # s => Owned(r)' = Owned(r),
           \A r \in Schedulers : r # s => \A w \in Owned(r) : ~Has(q, w)
    PROVE  /\ folder' \in [Schedulers -> [Names -> Workers \cup {NoLink}]]
           /\ worker_link' \in [Workers -> (Schedulers \X Names) \cup {NoLink}]
           /\ n_workers' \in [Schedulers -> 0 .. ULong - 1]
           /\ max_workers' \in [Schedulers -> 0 .. MaxNames]
           /\ link_faults' \in 0 .. MaxLinkFaults
           /\ Shown'
<1>1. PICK f : f = Head(q)
    BY Zenon
<1>3. f \in Workers /\ Has(q, f)
    BY <1>1 DEF Has
<1>4. /\ folder \in [Schedulers -> Dirs] /\ worker_link \in Links
      /\ n_workers \in [Schedulers -> 0 .. ULong - 1]
      /\ max_workers \in [Schedulers -> 0 .. MaxNames]
      /\ link_faults \in 0 .. MaxLinkFaults
    BY Zenon DEF LinksTypeOK, Dirs, Links
<1>5. /\ folder' = folder /\ worker_link' = [worker_link EXCEPT ![f] = NoLink]
      /\ n_workers' = n_workers /\ max_workers' = max_workers /\ link_faults' = link_faults
  <2>1. PICK d : d = Unregistered(Local(s), f)
      BY Zenon
  <2>2. /\ d.dir = folder[s] /\ d.link = [worker_link EXCEPT ![f] = NoLink]
        /\ d.n = n_workers[s] /\ d.max = max_workers[s]
      BY <2>1, Zenon DEF Unregistered, Local
  <2>3. Assign(s, d) /\ UNCHANGED link_faults
      BY <1>1, <2>1, Zenon DEF DequeueLinksNone
  <2> QED
      BY <1>4, <2>2, <2>3, Zenon DEF Assign
<1>6. worker_link' \in Links /\ \A w \in Workers : w # f => worker_link'[w] = worker_link[w]
    BY <1>3, <1>4, <1>5, Zenon DEF Links
<1>7. ASSUME NEW r \in Schedulers, r # s, NEW w \in Owned(r)
      PROVE  worker_link'[w] = worker_link[w]
  <2>1. w \in Workers /\ w # f
      BY <1>3, <1>7, Zenon DEF Owned
  <2> QED
      BY <1>6, <2>1, Zenon
<1>8. LinksOfOwn(Owned(s)', worker_link', folder'[s], s)
    BY Zenon DEF LinksOfOwn
<1>9. ASSUME link_faults' = 0
      PROVE  CountsLinks(Owned(s)', worker_link', folder'[s], n_workers'[s], max_workers'[s])
  <2>1. CountsLinks(Owned(s), worker_link, folder[s], n_workers[s], max_workers[s])
      BY <1>5, <1>9, ShownForms, Zenon DEF Shown
  <2> QED
      BY <1>5, <2>1, Zenon DEF CountsLinks
<1>10. Shown'
    BY <1>5, <1>7, <1>8, <1>9, OneFolder, ZenonT(60)
<1> QED
    BY <1>4, <1>5, <1>6, <1>10, ZenonT(60) DEF Dirs, Links

\* One name less.
LEMMA FewerNames ==
    ASSUME NEW used \in SUBSET Names, NEW max \in Nat, \A i \in used : i <= max,
           NEW m \in used, NEW n \in 0 .. ULong - 1, n = Cardinality(used),
           NEW n1, n1 = (n + ULong - 1) % ULong,
           NEW max1, max1 = IF n1 = 0 THEN 0 ELSE max
    PROVE  n1 = Cardinality(used \ {m}) /\ \A i \in used \ {m} : i <= max1
<1>1. IsFiniteSet(used) /\ Cardinality(used) \in Nat
    BY NamesCount, Zenon
<1>2. /\ IsFiniteSet(used \ {m}) /\ Cardinality(used \ {m}) = Cardinality(used) - 1
      /\ Cardinality(used) # 0
    BY <1>1, FS_RemoveElement, FS_EmptySet, Zenon
<1>3. n1 = n - 1
  <2>1. n \in Nat /\ n # 0 /\ n < ULong
      BY <1>1, <1>2, Numbers, SMTT(60), Z3T(60)
  <2>2. (n - 1) % ULong = n - 1 /\ n + ULong - 1 = ULong + (n - 1)
      BY <2>1, Numbers, SMTT(60), Z3T(60)
  <2> QED
      BY <2>1, <2>2, Numbers, SMTT(60), Z3T(60)
<1>4. CASE n1 = 0
  <2>1. used \ {m} = {}
      BY <1>2, <1>3, <1>4, FS_EmptySet, Zenon
  <2> QED
      BY <1>2, <1>3, <2>1, Zenon
<1>5. CASE n1 # 0
    BY <1>2, <1>3, <1>5, Zenon
<1> QED
    BY <1>4, <1>5, Zenon

\* The entry that is removed is the link of the worker that is run.
LEMMA OneUnlinked ==
    ASSUME LinksTypeOK, Shown, NEW s \in Schedulers, NEW w \in Owned(s),
           UnregisterWorker(s, w), faults' = 0 => faults = 0,
           Owned(s)' = Owned(s) \ {w},
           \A r \in Schedulers : r # s => Owned(r)' = Owned(r)
    PROVE  /\ folder' \in [Schedulers -> [Names -> Workers \cup {NoLink}]]
           /\ worker_link' \in [Workers -> (Schedulers \X Names) \cup {NoLink}]
           /\ n_workers' \in [Schedulers -> 0 .. ULong - 1]
           /\ max_workers' \in [Schedulers -> 0 .. MaxNames]
           /\ link_faults' \in 0 .. MaxLinkFaults
           /\ Shown'
<1>3. /\ folder \in [Schedulers -> Dirs] /\ worker_link \in Links
      /\ n_workers \in [Schedulers -> 0 .. ULong - 1]
      /\ max_workers \in [Schedulers -> 0 .. MaxNames]
      /\ link_faults \in 0 .. MaxLinkFaults
    BY Zenon DEF LinksTypeOK, Dirs, Links
<1>4. /\ LinksOfOwn(Owned(s), worker_link, folder[s], s)
      /\ faults = 0 => LinksOnlyOwn(Owned(s), worker_link, folder[s], s)
      /\ link_faults = 0 =>
            CountsLinks(Owned(s), worker_link, folder[s], n_workers[s], max_workers[s])
    BY ShownForms, Zenon DEF Shown
<1>5. /\ worker_link' = worker_link /\ link_faults' = link_faults
      /\ n_workers' = [n_workers EXCEPT ![s] = (n_workers[s] + ULong - 1) % ULong]
      /\ max_workers' =
            [max_workers EXCEPT ![s] = IF n_workers'[s] = 0 THEN 0 ELSE max_workers[s]]
    BY Zenon DEF UnregisterWorker
<1>6. /\ n_workers'[s] = (n_workers[s] + ULong - 1) % ULong
      /\ max_workers'[s] = IF n_workers'[s] = 0 THEN 0 ELSE max_workers[s]
      /\ \A r \in Schedulers : r # s =>
            n_workers'[r] = n_workers[r] /\ max_workers'[r] = max_workers[r]
    BY <1>3, <1>5, Zenon
<1>7. /\ n_workers' \in [Schedulers -> 0 .. ULong - 1]
      /\ max_workers' \in [Schedulers -> 0 .. MaxNames]
  <2>1. PICK a, b : a = n_workers[s] /\ b = (a + ULong - 1) % ULong
      BY Zenon
  <2>2. a \in 0 .. ULong - 1
      BY <1>3, <2>1, Zenon
  <2>3. b \in 0 .. ULong - 1
      BY <2>1, <2>2, Numbers, SMTT(30), Z3T(30)
  <2>4. n_workers' = [n_workers EXCEPT ![s] = b]
      BY <1>5, <2>1, Zenon
  <2>5. (IF n_workers'[s] = 0 THEN 0 ELSE max_workers[s]) \in 0 .. MaxNames
      BY <1>3, Numbers, SMTT(60), Z3T(60)
  <2> QED
      BY <1>3, <1>5, <2>3, <2>4, <2>5, Zenon
<1>8. /\ w \in Workers
      /\ worker_link[w] # NoLink =>
            /\ worker_link[w][1] = s /\ worker_link[w][2] \in Names
            /\ worker_link[w] = <<s, worker_link[w][2]>>
            /\ folder[s][worker_link[w][2]] = w
  <2>1. w \in Workers
      BY Zenon DEF Owned
  <2>2. worker_link[w] # NoLink => worker_link[w] \in Schedulers \X Names
      BY <1>3, <2>1, Zenon DEF Links
  <2>3. worker_link[w] # NoLink => worker_link[w][1] = s /\ folder[s][worker_link[w][2]] = w
      BY <1>4, Zenon DEF LinksOfOwn
  <2> QED
      BY <2>1, <2>2, <2>3, SMTT(30), Z3T(30)
<1>9. PICK m : m = worker_link[w][2]
    BY Zenon
<1>10. /\ folder' \in [Schedulers -> Dirs]
       /\ \A r \in Schedulers : r # s => folder'[r] = folder[r]
       /\ \A n \in Names : folder'[s][n] =
             IF worker_link[w] # NoLink /\ n = m THEN NoLink ELSE folder[s][n]
  <2>1. CASE worker_link[w] = NoLink
    <3>1. folder' = folder
        BY <2>1, Zenon DEF UnregisterWorker
    <3> QED
        BY <1>3, <2>1, <3>1, Zenon
  <2>2. CASE worker_link[w] # NoLink
    <3>1. folder' = [folder EXCEPT ![s][m] = NoLink]
        BY <1>8, <1>9, <2>2, Zenon DEF UnregisterWorker
    <3>2. m \in Names
        BY <1>8, <1>9, <2>2, Zenon
    <3> QED
        BY <1>3, <2>2, <3>1, <3>2, ZenonT(60) DEF Dirs
  <2> QED
      BY <2>1, <2>2, Zenon
<1>11. LinksOfOwn(Owned(s)', worker_link', folder'[s], s)
  <2> SUFFICES ASSUME NEW v \in Owned(s)', worker_link[v] # NoLink
               PROVE  worker_link[v][1] = s /\ folder'[s][worker_link[v][2]] = v
      BY <1>5, Zenon DEF LinksOfOwn
  <2>1. v \in Owned(s) /\ v # w /\ v \in Workers
      BY Zenon DEF Owned
  <2>2. worker_link[v][1] = s /\ folder[s][worker_link[v][2]] = v
      BY <1>4, <2>1, ZenonT(60) DEF LinksOfOwn
  <2>3. worker_link[v][2] \in Names
      BY <1>3, <2>1, Zenon DEF Links
  <2>4. ~(worker_link[w] # NoLink /\ worker_link[v][2] = m)
      BY <1>8, <1>9, <2>1, <2>2, ZenonT(60)
  <2> QED
      BY <1>10, <2>2, <2>3, <2>4, ZenonT(60)
<1>12. ASSUME faults' = 0 PROVE LinksOnlyOwn(Owned(s)', worker_link', folder'[s], s)
  <2> SUFFICES ASSUME NEW n \in Names, folder'[s][n] # NoLink
               PROVE  folder'[s][n] \in Owned(s)' /\ worker_link[folder'[s][n]] = <<s, n>>
      BY <1>5, Zenon DEF LinksOnlyOwn
  <2>1. /\ folder'[s][n] = folder[s][n]
        /\ ~(worker_link[w] # NoLink /\ n = m)
      BY <1>10, Zenon
  <2>2. folder[s][n] \in Owned(s) /\ worker_link[folder[s][n]] = <<s, n>>
      BY <1>4, <1>12, <2>1, Zenon DEF LinksOnlyOwn
  <2>3. folder[s][n] # w
    <3>1. <<s, n>> # NoLink
        BY Numbers, SMTT(30), Z3T(30)
    <3>2. worker_link[w] = <<s, n>> => m = n
        BY <1>9, SMTT(30), Z3T(30)
    <3> QED
        BY <2>1, <2>2, <3>1, <3>2, ZenonT(60)
  <2> QED
      BY <2>1, <2>2, <2>3, Zenon
<1>13. ASSUME link_faults' = 0
       PROVE  CountsLinks(Owned(s)', worker_link', folder'[s], n_workers'[s], max_workers'[s])
  <2>1. PICK used, max, n, n1, max1 :
           /\ used = {i \in Names : folder[s][i] # NoLink} /\ max = max_workers[s]
           /\ n = n_workers[s] /\ n1 = n_workers'[s] /\ max1 = max_workers'[s]
      BY Zenon
  <2>2. /\ n = Cardinality(used) /\ \A i \in used : i <= max
        /\ \A v \in Owned(s) : worker_link[v] # NoLink
      BY <1>4, <1>5, <1>13, <2>1, Zenon DEF CountsLinks
  <2>3. worker_link[w] # NoLink /\ m \in used
      BY <1>8, <1>9, <2>1, <2>2, Numbers, ZenonT(60)
  <2>4. /\ n \in 0 .. ULong - 1 /\ max \in Nat /\ used \in SUBSET Names
        /\ n1 = (n + ULong - 1) % ULong /\ max1 = IF n1 = 0 THEN 0 ELSE max
    <3>1. n \in 0 .. ULong - 1 /\ max \in 0 .. MaxNames
        BY <1>3, <2>1, Zenon
    <3>2. n1 = (n + ULong - 1) % ULong /\ max1 = IF n1 = 0 THEN 0 ELSE max
        BY <1>6, <2>1, Zenon
    <3> QED
        BY <2>1, <3>1, <3>2, Numbers, SMTT(30), Z3T(30)
  <2>5. n1 = Cardinality(used \ {m}) /\ \A i \in used \ {m} : i <= max1
      BY <2>2, <2>3, <2>4, FewerNames, SMTT(60), Z3T(60)
  <2>6. {i \in Names : folder'[s][i] # NoLink} = used \ {m}
      BY <1>10, <2>1, <2>3, Zenon
  <2>7. \A v \in Owned(s)' : worker_link'[v] # NoLink
      BY <1>5, <2>2, Zenon
  <2> QED
      BY <2>1, <2>5, <2>6, <2>7, ZenonT(60) DEF CountsLinks
<1>14. Shown'
    BY <1>5, <1>6, <1>10, <1>11, <1>12, <1>13, OneFolder, Zenon
<1> QED
    BY <1>3, <1>5, <1>7, <1>10, <1>14, Zenon DEF Dirs, Links

\* Where no link is touched the variables of the folders keep their types.
LEMMA LinksTypeStays ==
    ASSUME LinksTypeOK, UNCHANGED linkVars, TypeOK'
    PROVE  LinksTypeOK'
BY Zenon DEF LinksTypeOK, linkVars

\* What is shown of one worker and what is counted.
LEMMA FolderShows ==
    ASSUME LinksTypeOK, Shown, faults = 0, link_faults = 0, NEW s \in Schedulers
    PROVE  /\ \A w \in Workers :
                 Cardinality(NamesOf(s, w)) = IF w \in Owned(s) THEN 1 ELSE 0
           /\ n_workers[s] = Cardinality(Owned(s))
<1>1. /\ OwnLinks /\ OnlyOwned /\ Counted
      /\ worker_link \in [Workers -> (Schedulers \X Names) \cup {NoLink}]
      /\ folder[s] \in [Names -> Workers \cup {NoLink}]
    BY Zenon DEF LinksTypeOK, Shown
<1>2. PICK dir, link, own : dir = folder[s] /\ link = worker_link /\ own = Owned(s)
    BY Zenon
<1>3. /\ own \subseteq Workers
      /\ NoLink \notin Workers
    BY <1>2, LinksAssumption, Zenon DEF Owned, Threads
<1>4. \A n \in Names : dir[n] # NoLink => dir[n] \in own /\ link[dir[n]] = <<s, n>>
    BY <1>1, <1>2, Zenon DEF OnlyOwned
<1>5. ASSUME NEW w \in own PROVE \E n \in Names : link[w] = <<s, n>> /\ dir[n] = w
  <2>1. link[w] # NoLink /\ link[w] \in (Schedulers \X Names) \cup {NoLink}
      BY <1>1, <1>2, <1>3, <1>5, Zenon DEF Counted
  <2>2. PICK r \in Schedulers, n \in Names : link[w] = <<r, n>>
      BY <2>1, SMTT(30), Z3T(30)
  <2>3. link[w][1] = s /\ dir[link[w][2]] = w
      BY <1>1, <1>2, <1>5, <2>1, ZenonT(60) DEF OwnLinks
  <2> QED
      BY <2>2, <2>3
<1>6. ASSUME NEW w \in Workers
      PROVE  Cardinality(NamesOf(s, w)) = IF w \in Owned(s) THEN 1 ELSE 0
  <2>1. NamesOf(s, w) = {n \in Names : dir[n] = w}
      BY <1>2, Zenon DEF NamesOf
  <2>2. CASE w \in own
    <3>1. PICK n \in Names : link[w] = <<s, n>> /\ dir[n] = w
        BY <1>5, <2>2, Zenon
    <3>2. \A m \in Names : dir[m] = w => m = n
        BY <1>3, <1>4, <2>2, <3>1, SMTT(30), Z3T(30)
    <3>3. {m \in Names : dir[m] = w} = {n}
        BY <3>1, <3>2, Zenon
    <3> QED
        BY <1>2, <2>1, <2>2, <3>3, FS_Singleton, ZenonT(60)
  <2>3. CASE w \notin own
    <3>1. {m \in Names : dir[m] = w} = {}
        BY <1>3, <1>4, <2>3, Zenon
    <3> QED
        BY <1>2, <2>1, <2>3, <3>1, FS_EmptySet, ZenonT(60)
  <2> QED
      BY <2>2, <2>3, Zenon
<1>7. n_workers[s] = Cardinality(own)
  <2>1. PICK U : U = {n \in Names : dir[n] # NoLink}
      BY Zenon
  <2>2. n_workers[s] = Cardinality(U)
      BY <1>1, <1>2, <2>1, ZenonT(30) DEF Counted, Used
  <2>3. IsFiniteSet(U)
    <3>1. U \in SUBSET Names /\ MaxNames \in Nat /\ \A i \in U : i <= MaxNames
        BY <2>1, LinksAssumption, SMTT(60), Z3T(60) DEF Names
    <3> QED
        BY <3>1, NamesCount, Zenon
  <2>4. PICK f : f = [n \in U |-> dir[n]]
      BY Zenon
  <2>5. f \in Bijection(U, own)
    <3>1. f \in [U -> own]
        BY <1>4, <2>1, <2>4, ZenonT(60)
    <3>2. \A a, b \in U : f[a] = f[b] => a = b
      <4>1. \A a \in U : link[f[a]] = <<s, a>>
          BY <1>4, <2>1, <2>4, Zenon
      <4> QED
          BY <4>1
    <3>3. \A w \in own : \E n \in U : f[n] = w
        BY <1>3, <1>5, <2>1, <2>4, Zenon
    <3> QED
        BY <3>1, <3>2, <3>3, Zenon DEF Bijection, Injection, IsInjective, Surjection
  <2> QED
      BY <2>2, <2>3, <2>5, FS_Bijection, Zenon DEF ExistsBijection
<1> QED
    BY <1>2, <1>6, <1>7, Zenon
=============================================================================
