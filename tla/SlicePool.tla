------------------------------ MODULE SlicePool ------------------------------
(***************************************************************************)
(* What a free-slice map promises (the documentation of the methods of     *)
(* SliceMap and the module invariants in src/src/slices.rs), over a map    *)
(* value of SliceOps: searches take the lowest aligned fit if there is     *)
(* one, claims and releases touch exactly their slices, a claim tells      *)
(* whether all of its slices were still zero.  There are no words and no   *)
(* search hint; module SliceMap has them and implements this one.          *)
(***************************************************************************)
EXTENDS SliceOps

CONSTANTS
    Gives,    \* lengths of the ranges given to the map
    Counts,   \* run lengths asked for
    Aligns,   \* alignments asked for, powers of two
    Ends      \* ends of memory the tail is searched below

VARIABLES
    m,        \* the map value
    runs,     \* runs handed out, [start, count]
    zeroed    \* what the last claim said of its slices

Held == UNION {Span(r.start, r.count) : r \in runs}

PoolInit(baseSlice) ==
    /\ m = InitMap(baseSlice)
    /\ runs = {}
    /\ zeroed = FALSE

\* add_free: slices that are neither free nor handed out.
Give(start, count, zero) ==
    /\ start >= m.base /\ start + count <= Limit(m)
    /\ Span(start, count) \cap (m.free \cup Held) = {}
    /\ m' = AddFree(m, start, count, zero)
    /\ UNCHANGED <<runs, zeroed>>

\* A served request replaces the runs taken by the run given; nothing changes
\* if the request is not served.
Served(o, taken, given) ==
    IF o.start = NoSlice THEN UNCHANGED <<m, runs, zeroed>>
    ELSE /\ m' = o.m /\ zeroed' = o.zeroed
         /\ runs' = (runs \ taken) \cup {given}

PoolAlloc(count, align) ==
    \E o \in Alloc(m, Limit(m), count, align) :
        Served(o, {}, [start |-> o.start, count |-> count])

PoolAllocTail(count, align, below) ==
    \E o \in AllocTail(m, below, count, align) :
        Served(o, {}, [start |-> o.start, count |-> count])

PoolFree(r) ==
    /\ m' = Release(m, Span(r.start, r.count))
    /\ runs' = runs \ {r}
    /\ UNCHANGED zeroed

PoolExtend(r, extra) ==
    \E o \in TryExtend(m, Limit(m), r.start, r.count, extra) :
        Served(o, {r}, [r EXCEPT !.count = @ + extra])

PoolShrink(r, newCount) ==
    /\ newCount <= r.count
    /\ m' = Shrink(m, r.start, r.count, newCount)
    /\ runs' = (runs \ {r}) \cup
               (IF newCount = 0 THEN {} ELSE {[r EXCEPT !.count = newCount]})
    /\ UNCHANGED zeroed

PoolNext ==
    \/ \E c \in Counts, a \in Aligns : PoolAlloc(c, a)
    \/ \E c \in Counts, a \in Aligns, b \in Ends : PoolAllocTail(c, a, b)
    \/ \E r \in runs : PoolFree(r)
    \/ \E r \in runs, x \in Counts : PoolExtend(r, x)
    \/ \E r \in runs, c \in {0} \cup Counts : PoolShrink(r, c)
    \/ \E s \in m.base .. (Limit(m) - 1), c \in Gives, z \in BOOLEAN :
          Give(s, c, z)

PoolVars == <<m, runs, zeroed>>
=============================================================================
