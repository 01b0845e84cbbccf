------------------------------ MODULE UmsList ------------------------------
(***************************************************************************)
(* The circular doubly linked lists of src/util/list.h, write by write on  *)
(* the two pointers of every node, with the two kernel functions that      *)
(* complist.c applies to the same lists.  `role' is what a caller knows of *)
(* a node; no operation reads it other than as a precondition.             *)
(***************************************************************************)
EXTENDS Naturals, Sequences, FiniteSets

CONSTANTS
    Heads,     \* nodes that only ever are heads: complist->head, event_q, rq.head
    Entries,   \* nodes embedded in an object: context->list, event->list
    Poison1,   \* LIST_POISON1
    Poison2,   \* LIST_POISON2
    NoLoop     \* no loop is in progress

Nodes == Heads \cup Entries

ASSUME ListAssumption ==
    /\ Heads \cap Entries = {}
    /\ {Poison1, Poison2, NoLoop} \cap Nodes = {}
    /\ IsFiniteSet(Nodes)

VARIABLES
    mem,    \* the pointers of each node
    role,   \* head, linked, poison, or not to be used: stale, lost
    loop    \* a list_for_each_entry_safe in progress

vars == <<mem, role, loop>>

\* INIT_LIST_HEAD
Initialised(m, n) == [m EXCEPT !.next[n] = n, !.prev[n] = n]

\* __list_add
Added(m, new, before, after) ==
    [m EXCEPT !.prev[after] = new, !.next[new] = after,
              !.prev[new] = before, !.next[before] = new]

\* __list_del
Unlinked(m, before, after) ==
    [m EXCEPT !.prev[after] = before, !.next[before] = after]

\* list_del
Deleted(m, e) ==
    [Unlinked(m, m.prev[e], m.next[e]) EXCEPT !.next[e] = Poison1, !.prev[e] = Poison2]

\* Variant: the entry after the insertion keeps its prev pointer.
Spliced_NoLast(m, l, h) ==
    LET first == m.next[l]
        last == m.prev[l]
        at == m.next[h]
    IN  [m EXCEPT !.prev[first] = h, !.next[h] = first, !.next[last] = at]

\* __list_splice
Spliced(m, l, h) ==
    LET first == m.next[l]
        last == m.prev[l]
        at == m.next[h]
    IN  [m EXCEPT !.prev[first] = h, !.next[h] = first,
                  !.next[last] = at, !.prev[at] = last]

\* list_replace: the order of the writes is what makes it work for an empty
\* list, whose one node is both neighbours of itself.
Replaced(m, old, new) ==
    LET a == [m EXCEPT !.next[new] = m.next[old]]
        b == [a EXCEPT !.prev[a.next[new]] = new]
        c == [b EXCEPT !.prev[new] = b.prev[old]]
    IN  [c EXCEPT !.next[c.prev[new]] = new]

Init ==
    /\ mem = [next |-> [n \in Nodes |-> IF n \in Heads THEN n ELSE Poison1],
              prev |-> [n \in Nodes |-> IF n \in Heads THEN n ELSE Poison2]]
    /\ role = [n \in Nodes |-> IF n \in Heads THEN "head" ELSE "poison"]
    /\ loop = NoLoop

-----------------------------------------------------------------------------
(* The entries found by following next from h, until it leads back.        *)

Contents(m, h) ==
    LET at[i \in 0 .. Cardinality(Nodes)] ==
            IF i = 0 THEN h
            ELSE IF at[i - 1] \in Nodes THEN m.next[at[i - 1]] ELSE at[i - 1]
        back == {i \in 1 .. Cardinality(Nodes) : at[i] = h}
        len == IF back = {} THEN Cardinality(Nodes)
               ELSE (CHOOSE i \in back : \A j \in back : i <= j) - 1
    IN  [i \in 1 .. len |-> at[i]]

Empty(h) == mem.next[h] = h

Idle == loop = NoLoop

SetRole(n, r) == role' = [role EXCEPT ![n] = r]

-----------------------------------------------------------------------------
(* The operations.                                                         *)

InitListHead(n) ==
    /\ Idle
    /\ role[n] \in {"poison", "stale"}
    /\ mem' = Initialised(mem, n)
    /\ SetRole(n, "head")
    /\ UNCHANGED loop

\* Adding a node that is itself the head of a list leaves the entries of that
\* list linked to each other and to nothing else that is used.
Insertable(e, h) ==
    /\ Idle
    /\ role[e] \in {"poison", "head"}
    /\ role[h] = "head"
    /\ e # h
    /\ LET lost == IF role[e] = "head"
                   THEN {Contents(mem, e)[i] : i \in DOMAIN Contents(mem, e)}
                   ELSE {}
       IN  role' = [n \in Nodes |->
              IF n = e THEN "linked" ELSE IF n \in lost THEN "lost" ELSE role[n]]
    /\ UNCHANGED loop

ListAdd(e, h) ==
    /\ Insertable(e, h)
    /\ mem' = Added(mem, e, h, mem.next[h])

\* Variant: between the last two entries.
ListAddTail_BeforeLast(e, h) ==
    /\ Insertable(e, h)
    /\ mem' = Added(mem, e, mem.prev[mem.prev[h]], mem.prev[h])

ListAddTail(e, h) ==
    /\ Insertable(e, h)
    /\ mem' = Added(mem, e, mem.prev[h], h)

ListDel(e) ==
    /\ Idle
    /\ role[e] = "linked"
    /\ mem' = Deleted(mem, e)
    /\ SetRole(e, "poison")
    /\ UNCHANGED loop

ListDelInit(e) ==
    /\ Idle
    /\ role[e] = "linked"
    /\ mem' = Initialised(Unlinked(mem, mem.prev[e], mem.next[e]), e)
    /\ SetRole(e, "head")
    /\ UNCHANGED loop

ListMove(e, h) ==
    /\ Idle
    /\ role[e] = "linked"
    /\ role[h] = "head"
    /\ LET m == Unlinked(mem, mem.prev[e], mem.next[e])
       IN  mem' = Added(m, e, h, m.next[h])
    /\ UNCHANGED <<role, loop>>

ListMoveTail(e, h) ==
    /\ Idle
    /\ role[e] = "linked"
    /\ role[h] = "head"
    /\ LET m == Unlinked(mem, mem.prev[e], mem.next[e])
       IN  mem' = Added(m, e, m.prev[h], h)
    /\ UNCHANGED <<role, loop>>

\* The head of the spliced list still leads into it, and must not be used.
\* An empty list is not spliced, and nothing changes.
ListSplice(l, h) ==
    /\ Idle
    /\ role[l] = "head"
    /\ role[h] = "head"
    /\ l # h
    /\ ~Empty(l)
    /\ mem' = Spliced(mem, l, h)
    /\ SetRole(l, "stale")
    /\ UNCHANGED loop

ListSpliceInit(l, h) ==
    /\ Idle
    /\ role[l] = "head"
    /\ role[h] = "head"
    /\ l # h
    /\ ~Empty(l)
    /\ mem' = Initialised(Spliced(mem, l, h), l)
    /\ UNCHANGED <<role, loop>>

\* Variant: list_replace_init before list_del.
TakeOver_ReplacesFirst(h) ==
    /\ Idle
    /\ role[h] = "head"
    /\ ~Empty(h)
    /\ LET e == mem.next[h]
       IN  /\ mem' = Deleted(Initialised(Replaced(mem, h, e), h), e)
           /\ SetRole(e, "head")
    /\ UNCHANGED loop

\* What complist.c does to the first context of a list that is not empty:
\* list_del, then list_replace_init of the head by the list_head of the context.
TakeOver(h) ==
    /\ Idle
    /\ role[h] = "head"
    /\ ~Empty(h)
    /\ LET e == mem.next[h]
       IN  /\ mem' = Initialised(Replaced(Deleted(mem, e), h, e), h)
           /\ SetRole(e, "head")
    /\ UNCHANGED loop

-----------------------------------------------------------------------------
(* list_for_each_entry_safe, the body of which may remove the entry it is  *)
(* at, as ums_scheduler_destroy does with every event.                     *)

BeginLoop(h) ==
    /\ Idle
    /\ role[h] = "head"
    /\ loop' = [head |-> h, pos |-> mem.next[h], n |-> mem.next[mem.next[h]],
                visited |-> <<>>, start |-> Contents(mem, h)]
    /\ UNCHANGED <<mem, role>>

\* Variant: the next entry is read after the body, as list_for_each_entry does.
LoopBody_ReadsLate(e) ==
    /\ ~Idle
    /\ e = loop.pos
    /\ e # loop.head
    /\ \/ UNCHANGED <<mem, role>>
       \/ mem' = Deleted(mem, e) /\ SetRole(e, "poison")
    /\ loop' = [loop EXCEPT !.pos = mem'.next[e], !.n = mem'.next[e],
                            !.visited = Append(@, e)]

LoopBody(e) ==
    /\ ~Idle
    /\ e = loop.pos
    /\ e # loop.head
    /\ \/ UNCHANGED <<mem, role>>
       \/ mem' = Deleted(mem, e) /\ SetRole(e, "poison")
    /\ loop' = [loop EXCEPT !.pos = loop.n, !.n = mem'.next[loop.n],
                            !.visited = Append(@, e)]

EndLoop ==
    /\ ~Idle
    /\ loop.pos = loop.head
    /\ loop' = NoLoop
    /\ UNCHANGED <<mem, role>>

Next ==
    \/ \E n \in Nodes : InitListHead(n) \/ TakeOver(n) \/ BeginLoop(n)
    \/ \E e \in Entries : ListDel(e) \/ ListDelInit(e) \/ LoopBody(e)
    \/ \E e \in Entries, h \in Nodes :
          ListAdd(e, h) \/ ListAddTail(e, h) \/ ListMove(e, h) \/ ListMoveTail(e, h)
    \/ \E l, h \in Nodes : ListSplice(l, h) \/ ListSpliceInit(l, h)
    \/ EndLoop

Spec == Init /\ [][Next]_vars

-----------------------------------------------------------------------------
(* Properties.                                                             *)

InList(n) == role[n] \in {"head", "linked"}

TypeOK ==
    /\ mem \in [next: [Nodes -> Nodes \cup {Poison1}], prev: [Nodes -> Nodes \cup {Poison2}]]
    /\ role \in [Nodes -> {"head", "linked", "poison", "stale", "lost"}]
    /\ \A h \in Heads : role[h] \in {"head", "stale"}
    /\ Idle \/ {loop.head, loop.pos, loop.n} \subseteq Nodes

\* Every node of a list is between its neighbours, both ways, and its
\* neighbours are nodes of a list: no operation, in whatever order they are
\* called, leaves a pointer from a list to an entry that was removed, spliced
\* away or abandoned with the list it was in.
RingsClosed ==
    \A n \in Nodes : InList(n) =>
        /\ mem.next[n] \in Nodes /\ InList(mem.next[n])
        /\ mem.prev[n] \in Nodes /\ InList(mem.prev[n])
        /\ mem.prev[mem.next[n]] = n
        /\ mem.next[mem.prev[n]] = n

\* The loop that removes entries as it goes visits every entry of the list it
\* started on, once and in order, and follows no pointer of a removed entry.
SafeLoopVisitsAll ==
    Idle \/ LET k == Len(loop.visited)
            IN  /\ k <= Len(loop.start)
                /\ loop.visited = SubSeq(loop.start, 1, k)
                /\ loop.pos = IF k = Len(loop.start) THEN loop.head ELSE loop.start[k + 1]

Promise == INSTANCE SequenceLists
           WITH seq <- [n \in Nodes |->
                          IF role[n] = "head" THEN Contents(mem, n) ELSE <<>>]

\* The pointer operations implement operations on sequences: what is read by
\* following next from a head is what was added, in order, and a dequeue hands
\* the rest of the list to the first entry.
ImplementsSequenceLists == Promise!Spec
=============================================================================
