--------------------------- MODULE BlockingQueue ---------------------------
(***************************************************************************)
(* What the event queue of a scheduler and a completion list promise: a    *)
(* queue from which a call takes the first item, or all items, and which   *)
(* it leaves empty-handed only because of a signal.                        *)
(***************************************************************************)
EXTENDS Naturals, Sequences

CONSTANTS
    Producers,  \* a producer is also the item it puts
    Consumers

VARIABLES
    queue,      \* the items, in order
    waiting,    \* consumers inside a call
    got,        \* what the last call of a consumer returned
    all,        \* whether a call takes all items
    signalled   \* consumers with a signal they have not handled

vars == <<queue, waiting, got, all, signalled>>

Init ==
    /\ queue = <<>>
    /\ waiting = {}
    /\ got = [c \in Consumers |-> <<>>]
    /\ all \in BOOLEAN
    /\ signalled = {}

Put(p) ==
    /\ queue' = Append(queue, p)
    /\ UNCHANGED <<waiting, got, all, signalled>>

Call(c) ==
    /\ c \notin waiting
    /\ got[c] = <<>>
    /\ waiting' = waiting \cup {c}
    /\ UNCHANGED <<queue, got, all, signalled>>

Take(c) ==
    /\ c \in waiting
    /\ queue # <<>>
    /\ waiting' = waiting \ {c}
    /\ \/ /\ all
          /\ got' = [got EXCEPT ![c] = queue]
          /\ queue' = <<>>
       \/ /\ ~all
          /\ got' = [got EXCEPT ![c] = <<Head(queue)>>]
          /\ queue' = Tail(queue)
    /\ UNCHANGED <<all, signalled>>

Signal(c) ==
    /\ signalled' = signalled \cup {c}
    /\ UNCHANGED <<queue, waiting, got, all>>

\* A signal ends the call, and only a signal does.
Leave(c) ==
    /\ c \in waiting \cap signalled
    /\ waiting' = waiting \ {c}
    /\ signalled' = signalled \ {c}
    /\ UNCHANGED <<queue, got, all>>

\* The caller has what was taken, and handles a signal that came meanwhile.
Use(c) ==
    /\ got[c] # <<>>
    /\ got' = [got EXCEPT ![c] = <<>>]
    /\ signalled' = signalled \ {c}
    /\ UNCHANGED <<queue, waiting, all>>

\* The caller cannot be told: the first item goes back to the front.
PutBack(c) ==
    /\ got[c] # <<>>
    /\ queue' = <<Head(got[c])>> \o queue
    /\ got' = [got EXCEPT ![c] = <<>>]
    /\ UNCHANGED <<waiting, all, signalled>>

\* A caller that could not be told handles a signal.
Handle(c) ==
    /\ c \notin waiting
    /\ got[c] = <<>>
    /\ signalled' = signalled \ {c}
    /\ UNCHANGED <<queue, waiting, got, all>>

Next ==
    \/ \E p \in Producers : Put(p)
    \/ \E c \in Consumers :
          \/ Call(c) \/ Take(c) \/ Use(c) \/ PutBack(c)
          \/ Signal(c) \/ Leave(c) \/ Handle(c)

\* Items are taken in order and each once.
Safety == Init /\ [][Next]_vars

\* While there is an item and a call, some call takes.
Spec == Safety /\ WF_vars(\E c \in Consumers : Take(c))
=============================================================================
