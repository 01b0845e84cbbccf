--------------------------- MODULE SequenceLists ---------------------------
(***************************************************************************)
(* What the list functions promise: each head stands for a sequence of     *)
(* entries, and an entry is in one place.                                  *)
(***************************************************************************)
EXTENDS Naturals, Sequences

CONSTANTS
    Heads,    \* nodes that only ever are heads
    Entries   \* nodes embedded in an object that is put in lists

Nodes == Heads \cup Entries

VARIABLES
    seq,      \* the entries of the list at each head
    role      \* "head", "linked", "poison", or left in a "stale" or "lost" state

vars == <<seq, role>>

Init ==
    /\ seq = [n \in Nodes |-> <<>>]
    /\ role = [n \in Nodes |-> IF n \in Heads THEN "head" ELSE "poison"]

\* s without e, which is in it once if at all.
Without(s, e) ==
    IF \E i \in DOMAIN s : s[i] = e
    THEN LET i == CHOOSE j \in DOMAIN s : s[j] = e
         IN  SubSeq(s, 1, i - 1) \o SubSeq(s, i + 1, Len(s))
    ELSE s

\* The lists without entry e.
Removed(e) == [n \in Nodes |-> Without(seq[n], e)]

Members(h) == {seq[h][i] : i \in DOMAIN seq[h]}

\* An entry that is in no list is put first or last.  A list of which it was
\* the head itself is lost.
Insert(e, h) ==
    /\ role[e] \in {"poison", "head"}
    /\ role[h] = "head"
    /\ e # h
    /\ \/ seq' = [seq EXCEPT ![h] = <<e>> \o @, ![e] = <<>>]
       \/ seq' = [seq EXCEPT ![h] = Append(@, e), ![e] = <<>>]
    /\ role' = [n \in Nodes |->
          IF n = e THEN "linked" ELSE IF n \in Members(e) THEN "lost" ELSE role[n]]

\* The entry leaves its list, as a node to be initialised or as an empty list.
Delete(e) ==
    /\ role[e] = "linked"
    /\ seq' = Removed(e)
    /\ \E r \in {"poison", "head"} : role' = [role EXCEPT ![e] = r]

Move(e, h) ==
    /\ role[e] = "linked"
    /\ role[h] = "head"
    /\ \/ seq' = [Removed(e) EXCEPT ![h] = <<e>> \o @]
       \/ seq' = [Removed(e) EXCEPT ![h] = Append(@, e)]
    /\ UNCHANGED role

\* The list at l is put before the entries of h.
Splice(l, h) ==
    /\ role[l] = "head"
    /\ role[h] = "head"
    /\ l # h
    /\ seq' = [seq EXCEPT ![h] = seq[l] \o @, ![l] = <<>>]
    /\ \E r \in {"head", "stale"} : role' = [role EXCEPT ![l] = r]

\* The first entry leaves the list at h and becomes the head of the rest.
TakeOver(h) ==
    /\ role[h] = "head"
    /\ seq[h] # <<>>
    /\ seq' = [seq EXCEPT ![h] = <<>>, ![Head(seq[h])] = Tail(seq[h])]
    /\ role' = [role EXCEPT ![Head(seq[h])] = "head"]

Initialise(n) ==
    /\ role[n] \in {"poison", "stale"}
    /\ role' = [role EXCEPT ![n] = "head"]
    /\ UNCHANGED seq

Next ==
    \/ \E e \in Entries : Delete(e)
    \/ \E e \in Entries, h \in Nodes : Insert(e, h) \/ Move(e, h)
    \/ \E l, h \in Nodes : Splice(l, h)
    \/ \E n \in Nodes : TakeOver(n) \/ Initialise(n)

Spec == Init /\ [][Next]_vars
=============================================================================
