------------------------------- MODULE Growth -------------------------------
(***************************************************************************)
(* The slice layer as a state machine: one free-slice map over one linear  *)
(* memory that only grows, the runs it has handed out to the heap (page    *)
(* runs and header-less blocks alike), and the other party that may grow   *)
(* the same memory (wasi-libc's malloc, the host).                         *)
(*                                                                         *)
(* Runs carry their requested alignment as a history value, written keeps  *)
(* every slice that was ever handed out or came with contents, and top is  *)
(* the run that alloc_tail placed, or extend_with_growth extended through  *)
(* memory.grow, last, as long as nothing above it was taken: runs below it *)
(* may come, grow, shrink and go, holes be filled and requests fail.  None *)
(* of the three exists in the code; the properties are stated with them.   *)
(***************************************************************************)
EXTENDS SliceOps

CONSTANTS
    SliceSize,  \* bytes per slice
    HeapBase,   \* the linker's __heap_base, in bytes
    InitialEnd, \* slices of the initial memory
    Counts,     \* run lengths the heap asks for
    Aligns      \* run alignments, powers of two

ASSUME GrowthAssumption ==
    /\ SliceSize \in Nat \ {0, 1} /\ HeapBase \in Nat
    /\ InitialEnd \in Nat /\ InitialEnd <= MemMax
    /\ HeapBase <= InitialEnd * SliceSize
    \* The map describes the whole initial memory, as add_free asserts.
    /\ InitialEnd <= Limit(InitMap(HeapBase \div SliceSize))
    /\ Counts \subseteq Nat \ {0} /\ Aligns \subseteq Nat \ {0}

VARIABLES
    wasi,     \* which target the heap base is taken for (never changes)
    inited,   \* whether ensure_init ran
    m,        \* the free-slice map
    end,      \* memory.size, in slices
    runs,     \* handed-out runs: [start, count, align]
    foreign,  \* slices that belong to someone else
    written,  \* slices that may hold something else than zeros
    top       \* start of the run at the top of the heap, or NoSlice

vars == <<wasi, inited, m, end, runs, foreign, written, top>>

Slices(r) == Span(r.start, r.count)
Owned == UNION {Slices(r) : r \in runs}

\* Fault (review finding R-1): the linker symbol on every target.
HeapBaseNow_Linker == HeapBase

\* Memory::heap_base when the heap reads it: the linker symbol, or on wasi the
\* end of memory, saturated where a full memory has no end address.
HeapBaseNow == IF wasi
               THEN Least(end * SliceSize, (MaxSliceIndex + 1) * SliceSize - 1)
               ELSE HeapBase

Init ==
    /\ wasi \in BOOLEAN
    /\ inited = FALSE
    /\ m = NewMap
    /\ end = InitialEnd
    /\ runs = {}
    \* Below the heap base lie static data and the stack; on wasi libc's
    \* malloc owns the rest of the initial memory.
    /\ foreign = 0 .. ((IF wasi THEN InitialEnd
                        ELSE FirstSlice(HeapBase, SliceSize)) - 1)
    /\ written = {}
    /\ top = NoSlice

\* ensure_init: the memory from the heap base to the end becomes free, dirty.
EnsureInit ==
    /\ ~inited
    /\ inited' = TRUE
    /\ LET first == FirstSlice(HeapBaseNow, SliceSize)
           gap   == Monus(end, first)
       IN  /\ m' = AddFree(InitMap(HeapBaseNow \div SliceSize), first, gap, FALSE)
           /\ written' = written \cup Span(first, gap)
    /\ UNCHANGED <<wasi, end, runs, foreign, top>>

\* What every served or failed request does to memory and to the map.
Apply(o) ==
    /\ m' = o.m
    /\ end' = o.end
    /\ foreign' = foreign \cup o.foreign

\* Hand out the run an outcome found, if it found one.
HandOut(o, count, align) ==
    /\ Apply(o)
    /\ IF o.start = NoSlice THEN UNCHANGED <<runs, written>>
       ELSE /\ runs' = runs \cup {[start |-> o.start, count |-> count,
                                   align |-> align]}
            /\ written' = written \cup Span(o.start, count)
    /\ UNCHANGED <<wasi, inited>>

\* slices::acquire, for a page or a fresh header-less block.  The top run stays
\* one when the request fails or is served from a hole below it.
AcquireRun(count, align) ==
    /\ inited
    /\ \E o \in Acquire(m, end, count, align) :
          /\ HandOut(o, count, align)
          /\ top' = IF o.foreign = {} /\ o.start < top THEN top ELSE NoSlice

\* SliceMap::alloc_tail, for a header-less block that realloc moves.
AllocTailRun(count, align) ==
    /\ inited
    /\ TailFits(m, count, align, end) # {}
    /\ \E o \in AllocTail(m, end, count, align) :
          HandOut(o, count, align) /\ top' = o.start

\* SliceMap::free.
FreeRun(r) ==
    /\ m' = Release(m, Slices(r))
    /\ runs' = runs \ {r}
    /\ top' = IF top = r.start THEN NoSlice ELSE top
    /\ UNCHANGED <<wasi, inited, end, foreign, written>>

\* SliceMap::shrink.
ShrinkRun(r, newCount) ==
    /\ newCount < r.count
    /\ m' = Shrink(m, r.start, r.count, newCount)
    /\ runs' = (runs \ {r}) \cup {[r EXCEPT !.count = newCount]}
    /\ UNCHANGED <<wasi, inited, end, foreign, written, top>>

\* slices::extend_with_growth.
ExtendRun(r, extra) ==
    /\ \E o \in ExtendWithGrowth(m, end, r.start, r.count, extra) :
        /\ Apply(o)
        /\ IF o.start = NoSlice
           THEN /\ UNCHANGED <<runs, written>>
                /\ top' = IF o.foreign = {} THEN top ELSE NoSlice
           ELSE /\ runs' = (runs \ {r}) \cup {[r EXCEPT !.count = @ + extra]}
                /\ written' = written \cup Span(r.start + r.count, extra)
                /\ top' = IF o.grows > 0 THEN r.start ELSE top
    /\ UNCHANGED <<wasi, inited>>

\* Someone else grows memory.  On wasm32-unknown-unknown nothing does so
\* before the heap reads its base (the contract of Memory::heap_base).
OtherGrow(n) ==
    /\ inited \/ wasi
    /\ end + n <= MemMax
    /\ end' = end + n
    /\ foreign' = foreign \cup Span(end, n)
    /\ top' = NoSlice
    /\ UNCHANGED <<wasi, inited, m, runs, written>>

Next ==
    \/ EnsureInit
    \/ \E c \in Counts, a \in Aligns : AcquireRun(c, a)
    \/ \E c \in Counts, a \in Aligns : AllocTailRun(c, a)
    \/ \E r \in runs : FreeRun(r)
    \/ \E r \in runs, c \in Counts : ShrinkRun(r, c)
    \/ \E r \in runs, c \in Counts : ExtendRun(r, c)
    \/ \E n \in Gaps \ {0} : OtherGrow(n)

Spec == Init /\ [][Next]_vars

-----------------------------------------------------------------------------
(* Properties.                                                             *)

TypeOK ==
    /\ wasi \in BOOLEAN /\ inited \in BOOLEAN
    /\ m \in Maps
    /\ end \in Nat
    /\ runs \subseteq [start : Nat, count : Nat \ {0}, align : Nat \ {0}]
    /\ foreign \subseteq Nat /\ written \subseteq Nat
    /\ top \in Nat \cup {NoSlice}

\* A slice belongs to one owner: no two runs share one, and neither a run nor
\* the free set holds a free or a foreign slice, whoever grew memory between
\* or within calls and wherever its regions landed.
Exclusive ==
    /\ \A r, s \in runs : r # s => Slices(r) \cap Slices(s) = {}
    /\ m.free \cap Owned = {}
    /\ foreign \cap (m.free \cup Owned) = {}

\* No slice is lost: once the heap runs, every slice below the end of memory
\* and below the usable limit is free, in a run, or someone else's.  Refused
\* grows, non-contiguous regions and failed requests included.
Accounted ==
    inited => (m.base .. (Least(end, UsableLimit(m)) - 1))
                    \subseteq (m.free \cup Owned \cup foreign)

\* Nothing is handed out or kept free at or past the end of memory or the
\* usable limit: a run ending at 2^32 would overflow its end address.
InsideMemory ==
    \A x \in m.free \cup Owned :
        x >= m.base /\ x < end /\ x < Limit(m) /\ x # MaxSliceIndex

\* A slice marked zero is free and was never handed out nor taken with
\* contents, so alloc_zeroed may skip clearing it; and no zero mark is lost.
ZeroExact == m.zero = m.free \ written

\* Every run starts at a multiple of the alignment it was requested with, also
\* after it was extended or shrunk in place.
RunsAligned == \A r \in runs : r.start % r.align = 0

\* If every grow is contiguous, a request that made memory grow is served: the
\* padding and the need were computed right (debug assertions of
\* grow_and_alloc and grow_and_extend), for every request in every state.
ContiguousGrowthServes ==
    inited =>
      /\ \A c \in Counts, a \in Aligns : \A o \in Acquire(m, end, c, a) :
            (o.grows > 0 /\ o.foreign = {}) => o.start # NoSlice
      /\ \A r \in runs, c \in Counts :
            \A o \in ExtendWithGrowth(m, end, r.start, r.count, c) :
                (o.grows > 0 /\ o.foreign = {}) => o.start # NoSlice

\* A request fails after the second grow only where the region reached past
\* the usable limit (the debug assertion at the end of grow_and_alloc), and it
\* never fails while the map it leaves behind holds a fit.
FailsOnlyClipped ==
    inited => \A c \in Counts, a \in Aligns : \A o \in Acquire(m, end, c, a) :
        o.start = NoSlice => /\ Fits(o.m, c, a) = {}
                             /\ o.grows = 2 => o.end > UsableLimit(m)

\* The run alloc_tail placed, or that grew through memory.grow, is extended in
\* place as long as nothing above it was taken, whatever was acquired from holes
\* below it, freed, shrunk or refused since: only a refused grow, another party
\* or the limit can stop it, so a growing buffer at the top of the heap is never
\* copied.
TopRunExtends ==
    top # NoSlice =>
        \E r \in runs :
            /\ r.start = top
            /\ \A c \in Counts :
                  top + r.count + c <= Least(UsableLimit(m), MemMax) =>
                      \E o \in ExtendWithGrowth(m, end, top, r.count, c) :
                          o.start = top

\* Whatever a step does, memory never shrinks and what belongs to someone else
\* stays theirs; a request that is not served leaves the runs as they are and
\* takes no free slice away.
FailureKeeps ==
    [][/\ end' >= end
       /\ foreign \subseteq foreign'
       /\ (inited /\ runs' = runs) => m.free \subseteq m'.free]_vars
=============================================================================
