---------------------------- MODULE BenchContract ----------------------------
(***************************************************************************)
(* What a floor allocator that can be rewound (bench/roofline) owes its    *)
(* driver: it never hands out memory that is in use, whatever was freed,   *)
(* rewound or grown before.  The driver owes it that it rewinds only when  *)
(* nothing is live but what was live at the first rewind (module           *)
(* Workloads, DeadAtReset).                                                *)
(***************************************************************************)
EXTENDS Integers

VARIABLES
    live,       \* blocks in use: records with at and size
    startup,    \* blocks that were in use at the first reset
    marked,     \* there has been a reset
    theirs      \* stretches of memory the program grew for itself

vars == <<live, startup, marked, theirs>>

Extent(b) == b.at .. (b.at + b.size - 1)
InUse == UNION {Extent(b) : b \in live \cup theirs}

Init == live = {} /\ startup = {} /\ marked = FALSE /\ theirs = {}

Alloc ==
    \/ \E b \in live' :
           /\ b \notin live /\ live' = live \cup {b}
           /\ Extent(b) \cap InUse = {}
           /\ UNCHANGED <<startup, marked, theirs>>
    \/ \E b \in theirs' :
           /\ b \notin theirs /\ theirs' = theirs \cup {b}
           /\ Extent(b) \cap InUse = {}
           /\ UNCHANGED <<live, startup, marked>>

Free == \E b \in live :
    /\ live' = live \ {b}
    /\ UNCHANGED <<startup, marked, theirs>>

Reset ==
    /\ marked => live \subseteq startup
    /\ startup' = IF marked THEN startup ELSE live
    /\ marked' = TRUE
    /\ UNCHANGED <<live, theirs>>

Next == Alloc \/ Free \/ Reset

Spec == Init /\ [][Next]_vars
=============================================================================
