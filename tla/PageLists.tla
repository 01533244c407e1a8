------------------------------ MODULE PageLists ------------------------------
(***************************************************************************)
(* What the page queues of src/src/heap.rs promise: each queue is a list   *)
(* of pages, a page is in at most one of them, and an operation moves one  *)
(* page and leaves the order of the others alone.  A parked page goes back *)
(* to the queue of its own bin, and the direct table shows the first page  *)
(* of every queue it covers.  Module Queues, which has the links and the   *)
(* walks that follow them, implements this.                                *)
(***************************************************************************)
EXTENDS Integers, Sequences

CONSTANTS Pages, Bins, Full, None, DirectBins

VARIABLES
    lists,      \* the pages of each queue, first to last
    home,       \* the bin of each page, None for a page that is not in use
    table       \* the direct table

vars == <<lists, home, table>>

Queues       == Bins \cup {Full}
In(q)        == {lists[q][i] : i \in DOMAIN lists[q]}
Linked       == UNION {In(q) : q \in Queues}
Without(s, p) == LET k == CHOOSE k \in DOMAIN s : s[k] = p
                 IN  SubSeq(s, 1, k - 1) \o SubSeq(s, k + 1, Len(s))
FirstOf(s)   == IF s = <<>> THEN None ELSE Head(s)

Init ==
    /\ lists = [q \in Queues |-> <<>>]
    /\ home = [p \in Pages |-> None]
    /\ table = [b \in DirectBins |-> None]

\* A page that was in no queue becomes the first of its bin's.
Join(p, b) ==
    /\ p \notin Linked
    /\ lists' = [lists EXCEPT ![b] = <<p>> \o @]
    /\ home' = [home EXCEPT ![p] = b]

\* A page is given back.
Leave(p, q) ==
    /\ p \in In(q)
    /\ lists' = [lists EXCEPT ![q] = Without(@, p)]
    /\ home' = [home EXCEPT ![p] = None]

\* The page that serves next becomes the first of its queue.
Promote(p) ==
    /\ home[p] # None /\ p \in In(home[p])
    /\ lists' = [lists EXCEPT ![home[p]] = <<p>> \o Without(@, p)]
    /\ UNCHANGED home

\* A page with no room goes to the end of the full queue, and back to the
\* end of its own when it has room.
Park(p) ==
    /\ home[p] # None /\ p \in In(home[p])
    /\ lists' = [lists EXCEPT ![home[p]] = Without(@, p), ![Full] = Append(@, p)]
    /\ UNCHANGED home

Unpark(p) ==
    /\ p \in In(Full)
    /\ lists' = [lists EXCEPT ![Full] = Without(@, p), ![home[p]] = Append(@, p)]
    /\ UNCHANGED home

Next ==
    /\ \E p \in Pages :
           \/ \E b \in Bins : Join(p, b)
           \/ \E q \in Queues : Leave(p, q)
           \/ Promote(p)
           \/ Park(p)
           \/ Unpark(p)
    /\ table' = [b \in DirectBins |-> FirstOf(lists'[b])]

Spec == Init /\ [][Next]_vars
==============================================================================
