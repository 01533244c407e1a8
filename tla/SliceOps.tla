------------------------------ MODULE SliceOps ------------------------------
(***************************************************************************)
(* The operations of the free-slice map and of the memory.grow policy      *)
(* (src/src/slices.rs), as operators on a map value and an end of memory.  *)
(*                                                                         *)
(* A map value is a record [base, free, zero]: the absolute index of the   *)
(* slice bit 0 stands for, the free slices, and the free slices that are   *)
(* still all zero.  The bitmap words and the search hint are abstracted    *)
(* here; module SliceMap has them.  Slices are absolute indices, as in     *)
(* every public signature of the code.                                     *)
(*                                                                         *)
(* What memory.grow answers is not under the allocator's control, so an    *)
(* operation that may grow memory is the SET of its outcomes.              *)
(***************************************************************************)
EXTENDS Integers

CONSTANTS
    Bits,           \* slices per bitmap word (BITS)
    Capacity,       \* slices the map describes (CAPACITY)
    MaxSliceIndex,  \* highest slice of the address space (MAX_SLICE_INDEX)
    MemMax,         \* slices the engine lets the memory have at most
    Gaps,           \* slices another party may take just before a grow
    MinGrow,        \* GrowPolicy: smallest step,
    MaxGrow,        \*   largest step,
    StepDivisor     \*   and the fraction of the heap in between

ASSUME SliceAssumption ==
    /\ Bits \in Nat \ {0}
    /\ Capacity \in Nat \ {0}
    /\ MaxSliceIndex \in Nat
    /\ MemMax \in Nat /\ MemMax <= MaxSliceIndex + 1
    /\ Gaps \subseteq Nat /\ 0 \in Gaps
    /\ MinGrow \in Nat /\ MaxGrow \in Nat /\ StepDivisor \in Nat

NoSlice == -1   \* the start of a request that was not served (None)

Least(a, b)    == IF a <= b THEN a ELSE b
Greatest(a, b) == IF a >= b THEN a ELSE b
Monus(a, b)    == IF a >= b THEN a - b ELSE 0       \* saturating_sub
Span(start, count) == start .. (start + count - 1)

(***************************************************************************)
(* The map: limits and searches.                                           *)
(***************************************************************************)
\* The type of a map value.
Maps == [base : Nat, free : SUBSET Nat, zero : SUBSET Nat]

NewMap == [base |-> 0, free |-> {}, zero |-> {}]

\* SliceMap::init: the base is rounded down to a whole bitmap word.
InitMap(baseSlice) ==
    [base |-> baseSlice - (baseSlice % Bits), free |-> {}, zero |-> {}]

Limit(m) == m.base + Capacity

\* The last slice of the address space is never handed out.
UsableLimit(m) == IF m.base <= MaxSliceIndex
                  THEN Least(Limit(m), MaxSliceIndex) ELSE Limit(m)

\* Every aligned start of count free slices; the searches return the lowest.
Fits(m, count, align) ==
    {s \in m.free : s % align = 0 /\ Span(s, count) \subseteq m.free}

Lowest(S) == {s \in S : \A t \in S : s <= t}

\* The maximal run of free slices that ends at the slice index below.
FreeTail(m, below) ==
    LET top == Least(below, Limit(m))
    IN  {s \in m.free : s < top /\ (s .. (top - 1)) \subseteq m.free}

\* Fault: the tail search ignores the alignment.
TailFits_Unaligned(m, count, align, below) ==
    {s \in Lowest(FreeTail(m, below)) : s + count <= Least(below, Limit(m))}

\* The lowest aligned slice of the free tail, when count slices fit above it.
TailFits(m, count, align, below) ==
    LET top == Least(below, Limit(m))
    IN  {s \in Lowest({t \in FreeTail(m, below) : t % align = 0}) :
            s + count <= top}

(***************************************************************************)
(* The map: updates.                                                       *)
(***************************************************************************)
\* Fault: claim leaves the zero bits set.
Claim_KeepsZero(m, S) == [m EXCEPT !.free = @ \ S]

\* claim: the slices leave both sets; AllZero is what claim returns.
Claim(m, S)   == [m EXCEPT !.free = @ \ S, !.zero = @ \ S]
AllZero(m, S) == S \subseteq m.zero

\* release: the slices become free and dirty.
Release(m, S) == [m EXCEPT !.free = @ \cup S]

\* Fault: add_free drops one slice too many below the last one.
AddFree_DropsTwo(m, start, count, zeroed) ==
    LET S == Span(start, Least(count, Monus(MaxSliceIndex - 1, start)))
    IN  [m EXCEPT !.free = @ \cup S,
                  !.zero = IF zeroed THEN @ \cup S ELSE @]

\* add_free drops slice MaxSliceIndex from the range.
AddFree(m, start, count, zeroed) ==
    LET kept == IF start <= MaxSliceIndex
                THEN Least(count, MaxSliceIndex - start) ELSE count
        S    == Span(start, kept)
    IN  [m EXCEPT !.free = @ \cup S,
                  !.zero = IF zeroed THEN @ \cup S ELSE @]

\* Fault: add_region trusts the region to lie inside the map.
AddRegion_Unclipped(m, start, count) == AddFree(m, start, count, TRUE)

\* add_region: what lies past the usable limit is lost.
AddRegion(m, start, count) ==
    LET top == Least(start + count, UsableLimit(m))
    IN  IF start < top THEN AddFree(m, start, top - start, TRUE) ELSE m

\* initial_free_range, in slices: the first whole slice and how many follow.
FirstSlice(heapBase, sliceSize) == (heapBase + sliceSize - 1) \div sliceSize

(***************************************************************************)
(* Outcomes.  start is the run (or the extended run), NoSlice if none;     *)
(* zeroed what claim said of it; foreign the slices another party took     *)
(* while the call ran; grows how often memory grew.                        *)
(***************************************************************************)
Outcome(m, end, start, zeroed, foreign, grows) ==
    [m |-> m, end |-> end, start |-> start, zeroed |-> zeroed,
     foreign |-> foreign, grows |-> grows]

\* Taking count slices at one of starts, or nothing.
Take(m, end, starts, count, foreign, grows) ==
    {Outcome(Claim(m, Span(s, count)), end, s, AllZero(m, Span(s, count)),
             foreign, grows) : s \in starts}

Fail(m, end, foreign, grows) == {Outcome(m, end, NoSlice, FALSE, foreign, grows)}

\* Where memory.grow(n) may put its region; a refusal is always possible too.
Regions(end, n) == {end + g : g \in {h \in Gaps : end + h + n <= MemMax}}

Step(heap) ==
    LET d == Greatest(StepDivisor, 1)
    IN  Least(Greatest(heap \div d, MinGrow), MaxGrow)

GrowthStep(m, end) == Step(Monus(end, m.base))

\* The regions one grow may yield: the step, or the bare request if refused.
Grown(end, want, needed) ==
    {[start |-> s, count |-> want] : s \in Regions(end, want)}
        \cup {[start |-> s, count |-> needed] : s \in Regions(end, needed)}

(***************************************************************************)
(* SliceMap::alloc and alloc_tail.                                         *)
(***************************************************************************)
Alloc(m, end, count, align) ==
    LET fit == Lowest(Fits(m, count, align))
    IN  IF fit = {} THEN Fail(m, end, {}, 0) ELSE Take(m, end, fit, count, {}, 0)

AllocTail(m, end, count, align) ==
    LET fit == TailFits(m, count, align, end)
    IN  IF fit = {} THEN Fail(m, end, {}, 0) ELSE Take(m, end, fit, count, {}, 0)

(***************************************************************************)
(* acquire / grow_and_alloc.                                               *)
(***************************************************************************)
\* Fault: the slack has the wrong sign.
Pad_Backwards(end, align) == end % align

\* The slack from the end of memory up to the next aligned slice.
Pad(end, align) == (align - (end % align)) % align

\* Fault: the second grow assumes the region starts aligned.
Worst_Aligned(count, align) == count

\* What fits an aligned run wherever the region starts.
Worst(count, align) == count + align - 1

\* The second grow, sized for a region that may start anywhere.
GrowWorst(m, end, count, align, foreign) ==
    LET worst == Worst(count, align)
    IN  Fail(m, end, foreign, 1) \cup
        UNION {LET m2  == AddRegion(m, s, worst)
                   fit == Lowest(Fits(m2, count, align))
                   out == foreign \cup (end .. (s - 1))
               IN  IF fit = {} THEN Fail(m2, s + worst, out, 2)
                   ELSE Take(m2, s + worst, fit, count, out, 2)
               : s \in {r \in Regions(end, worst) :
                           worst <= Monus(UsableLimit(m), end)}}

GrowAndAlloc(m, end, count, align) ==
    LET needed == Pad(end, align) + count
        room   == Monus(UsableLimit(m), end)
        want   == Least(Greatest(needed, GrowthStep(m, end)), room)
        Serve(r) == LET m1  == AddRegion(m, r.start, r.count)
                        e1  == r.start + r.count
                        out == end .. (r.start - 1)
                        fit == Lowest(Fits(m1, count, align))
                    IN  IF fit = {} THEN GrowWorst(m1, e1, count, align, out)
                        ELSE Take(m1, e1, fit, count, out, 1)
    IN  Fail(m, end, {}, 0) \cup
        (IF needed > room THEN {}
         ELSE UNION {Serve(r) : r \in Grown(end, want, needed)})

Acquire(m, end, count, align) ==
    IF Fits(m, count, align) # {} THEN Alloc(m, end, count, align)
    ELSE GrowAndAlloc(m, end, count, align)

(***************************************************************************)
(* try_extend, shrink and extend_with_growth / grow_and_extend of the run  *)
(* [start, start + count) that is handed out.                              *)
(***************************************************************************)
CanExtend(m, start, count, extra) ==
    /\ start + count + extra <= Limit(m)
    /\ Span(start + count, extra) \subseteq m.free

TryExtend(m, end, start, count, extra) ==
    IF ~CanExtend(m, start, count, extra) THEN Fail(m, end, {}, 0)
    ELSE {Outcome(Claim(m, Span(start + count, extra)), end, start,
                  AllZero(m, Span(start + count, extra)), {}, 0)}

\* Fault: one slice of the cut-off tail is never given back.
Shrink_OffByOne(m, start, count, newCount) ==
    Release(m, Span(start + newCount + 1, count - newCount - 1))

Shrink(m, start, count, newCount) ==
    Release(m, Span(start + newCount, count - newCount))

\* Fault: only a run that ends exactly at the end of memory is at the top.
AtTop_NoSlack(m, end, start, count, extra) ==
    start + count = end /\ extra <= Monus(UsableLimit(m), end)

\* Whether only free slices lie between the run and the end of memory, fewer
\* than the request, and the rest can still be grown.
AtTop(m, end, start, count, extra) ==
    LET tail == start + count
    IN  /\ tail <= end /\ end <= UsableLimit(m)
        /\ end - tail < extra
        /\ Span(tail, end - tail) \subseteq m.free
        /\ extra - (end - tail) <= UsableLimit(m) - end

GrowAndExtend(m, end, start, count, extra) ==
    LET need == extra - (end - (start + count))
        room == UsableLimit(m) - end
        want == Least(Greatest(need, GrowthStep(m, end)), room)
        Serve(r) == LET m1  == AddRegion(m, r.start, r.count)
                        e1  == r.start + r.count
                        new == Span(start + count, extra)
                    IN  IF r.start = end /\ CanExtend(m1, start, count, extra)
                        THEN {Outcome(Claim(m1, new), e1, start,
                                      AllZero(m1, new), {}, 1)}
                        ELSE Fail(m1, e1, end .. (r.start - 1), 1)
    IN  Fail(m, end, {}, 0) \cup
        (IF ~AtTop(m, end, start, count, extra) THEN {}
         ELSE UNION {Serve(r) : r \in Grown(end, want, need)})

\* Fault: the free slices after the run are claimed before memory is grown.
ExtendWithGrowth_ClaimsFirst(m, end, start, count, extra) ==
    IF CanExtend(m, start, count, extra)
    THEN TryExtend(m, end, start, count, extra)
    ELSE GrowAndExtend(Claim(m, Span(start + count, extra)),
                       end, start, count, extra)

ExtendWithGrowth(m, end, start, count, extra) ==
    IF CanExtend(m, start, count, extra)
    THEN TryExtend(m, end, start, count, extra)
    ELSE GrowAndExtend(m, end, start, count, extra)
=============================================================================
