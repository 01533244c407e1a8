------------------------------ MODULE Contents ------------------------------
(***************************************************************************)
(* The contents of memory under src/src/heap.rs: pages with intrusive      *)
(* links (src/src/page.rs), header-less runs and the slice layer of        *)
(* SliceOps, composed on one memory of words.  It is here that a free      *)
(* writes a link, a zeroed allocation trusts a zero mark, and realloc      *)
(* copies a block before it frees it.                                      *)
(*                                                                         *)
(* Pages are one slice and have one bin; module Heap has the others, and   *)
(* the queues.  Which page with room serves, and whether an empty page is  *)
(* kept, are Heap's decisions and are free choices here, but for the       *)
(* release of every empty page before memory grows.                        *)
(***************************************************************************)
EXTENDS SliceOps, Sequences, FiniteSets

CONSTANTS
    SliceWords, BlockWords, \* words of a slice and of a block
    PerPage,                \* blocks_per_page; the header is one word
    Batch,                  \* blocks one extend links
    InitialEnd,             \* slices of memory at the start, slice 0 not ours
    Sizes,                  \* sizes the program asks for, in words
    MaxLive                 \* bound: blocks the program holds at once

ASSUME ContentsAssumption ==
    /\ {SliceWords, BlockWords, PerPage, Batch} \subseteq Nat \ {0}
    /\ 1 + PerPage * BlockWords <= SliceWords
    /\ InitialEnd \in 1 .. MemMax
    /\ Sizes \subseteq Nat \ {0} /\ MaxLive \in Nat

VARIABLES
    x,      \* the allocator: map, end of memory, pages, words of memory
    live,   \* the program's blocks: [addr, size]
    null    \* history: the last step was a call that returned null

vars == <<x, live, null>>

Zero   == 0     \* also the null link: address 0 is not ours
Value  == -1    \* a word the program wrote
Other  == -2    \* a header word, or leftover nobody may rest on
Null   == -1    \* the null pointer to_raw makes of None

Huge(n)      == n > BlockWords
HugeSlices(n) == (n + SliceWords - 1) \div SliceWords
Words(a, n)  == a .. (a + n - 1)
BlockAt(p, i) == p * SliceWords + 1 + i * BlockWords
HeaderOf(a)  == a \div SliceWords
Block(a, n)  == [addr |-> a, size |-> n]

Wrote(y, S, v) == [y EXCEPT !.mem = [a \in DOMAIN @ |-> IF a \in S THEN v ELSE @[a]]]

-----------------------------------------------------------------------------
(* Pages (page::init, pop, push, extend).                                  *)

HasFree(pg)    == pg.free # Zero
Expandable(pg) == pg.cap < PerPage

NewPage(y, p, zeroed) ==
    Wrote([y EXCEPT !.page = [q \in DOMAIN @ \cup {p} |->
              IF q = p THEN [free |-> Zero, used |-> 0, cap |-> 0, isZero |-> zeroed]
              ELSE @[q]]],
          {p * SliceWords}, Other)

Extended(y, p) ==
    LET pg    == y.page[p]
        top   == Least(pg.cap + Batch, PerPage)
        fresh == {BlockAt(p, i) : i \in pg.cap .. (top - 1)}
    IN  [y EXCEPT !.mem = [a \in DOMAIN @ |->
                              IF a \notin fresh THEN @[a]
                              ELSE IF a = BlockAt(p, top - 1) THEN pg.free
                              ELSE a + BlockWords],
                  !.page[p].free = BlockAt(p, pg.cap),
                  !.page[p].cap = top]

Popped(y, p) ==
    [y EXCEPT !.page[p].free = y.mem[@], !.page[p].used = @ + 1]

Pushed(y, a) ==
    LET p == HeaderOf(a)
    IN  [Wrote(y, {a}, y.page[p].free) EXCEPT !.page[p].free = a,
                                              !.page[p].used = @ - 1,
                                              !.page[p].isZero = FALSE]

FreePages(y, S) ==
    [y EXCEPT !.page = [p \in DOMAIN @ \ S |-> @[p]], !.sl = Release(@, S)]

Empty(y) == {p \in DOMAIN y.page : y.page[p].used = 0}

-----------------------------------------------------------------------------
(* Supply of runs and pages (acquire_run, fresh_page).                     *)

Lift(y, o) == [y |-> [y EXCEPT !.sl = o.m, !.end = o.end],
               start |-> o.start, zeroed |-> o.zeroed]

AcquireRun(y, n, top) ==
    IF top /\ TailFits(y.sl, n, 1, y.end) # {}
    THEN {Lift(y, o) : o \in AllocTail(y.sl, y.end, n, 1)}
    ELSE LET r == IF Fits(y.sl, n, 1) # {} THEN y ELSE FreePages(y, Empty(y))
         IN  {Lift(r, o) : o \in Acquire(r.sl, r.end, n, 1)}

\* The pages that can serve a block, extended or fresh if need be.
Supply(y) ==
    LET ready == {p \in DOMAIN y.page : HasFree(y.page[p])}
        room  == {p \in DOMAIN y.page : ~HasFree(y.page[p]) /\ Expandable(y.page[p])}
    IN  IF ready \cup room # {}
        THEN {[y |-> y, page |-> p] : p \in ready}
                \cup {[y |-> Extended(y, p), page |-> p] : p \in room}
        ELSE {IF r.start = NoSlice THEN [y |-> r.y, page |-> NoSlice]
              ELSE [y |-> Extended(NewPage(r.y, r.start, r.zeroed), r.start),
                    page |-> r.start] : r \in AcquireRun(y, 1, FALSE)}

-----------------------------------------------------------------------------
(* alloc, alloc_zeroed, dealloc and realloc: a result is an allocator and  *)
(* the address, or Null.                                                   *)

Result(y, a) == [y |-> y, addr |-> a]

\* alloc_zeroed clears the link word of a block of a page known zero, and the
\* bytes asked for of any other.
Cleared(y, p, a, n) ==
    Wrote(y, IF y.page[p].isZero THEN {a} ELSE Words(a, n), Zero)

AllocBlock(y, n, zero) ==
    {IF s.page = NoSlice THEN Result(s.y, Null)
     ELSE LET a == s.y.page[s.page].free
              z == Popped(s.y, s.page)
          IN  Result(IF zero THEN Cleared(z, s.page, a, n) ELSE z, a)
     : s \in Supply(y)}

\* Fault: a run is taken for zero whatever its slices were used for.
AllocHuge_Trusting(y, n, zero, top) ==
    {IF r.start = NoSlice THEN Result(r.y, Null)
     ELSE Result(r.y, r.start * SliceWords) : r \in AcquireRun(y, HugeSlices(n), top)}

AllocHuge(y, n, zero, top) ==
    {IF r.start = NoSlice THEN Result(r.y, Null)
     ELSE LET a == r.start * SliceWords
          IN  Result(IF zero /\ ~r.zeroed THEN Wrote(r.y, Words(a, n), Zero) ELSE r.y, a)
     : r \in AcquireRun(y, HugeSlices(n), top)}

HeapAlloc(y, n, zero, top) ==
    IF Huge(n) THEN AllocHuge(y, n, zero, top) ELSE AllocBlock(y, n, zero)

\* What the block held is leftover from here on, but for the link a free writes.
\* A page that becomes empty is kept, or released at once (Heap's Retire).
HeapDealloc(y, a, n) ==
    IF Huge(n)
    THEN {[Wrote(y, Words(a, n), Other) EXCEPT
              !.sl = Release(@, Span(HeaderOf(a), HugeSlices(n)))]}
    ELSE LET z == Pushed(Wrote(y, Words(a, n), Other), a)
         IN  {z, FreePages(z, Empty(z) \cap {HeaderOf(a)})}

Copied(y, from, to, n) ==
    [y EXCEPT !.mem = [a \in DOMAIN @ |->
        IF a \in Words(to, n) THEN @[from + (a - to)] ELSE @[a]]]

\* Fault: the old block is freed before its contents are copied.
Move_FreedFirst(y, a, old, new) ==
    UNION {IF r.addr = Null THEN {r}
           ELSE {Result(Copied(z, a, r.addr, Least(old, new)), r.addr)
                    : z \in HeapDealloc(r.y, a, old)}
           : r \in HeapAlloc(y, new, FALSE, TRUE)}

\* Fault: the old block is freed although there is no new one.
Move_FreesAnyway(y, a, old, new) ==
    UNION {{Result(z, r.addr) : z \in HeapDealloc(
                IF r.addr = Null THEN r.y ELSE Copied(r.y, a, r.addr, Least(old, new)),
                a, old)}
           : r \in HeapAlloc(y, new, FALSE, TRUE)}

\* The block moves: what both sizes hold is copied, then the old one is freed.
Move(y, a, old, new) ==
    UNION {IF r.addr = Null THEN {r}
           ELSE {Result(z, r.addr) : z \in HeapDealloc(
                    Copied(r.y, a, r.addr, Least(old, new)), a, old)}
           : r \in HeapAlloc(y, new, FALSE, TRUE)}

\* A run grows through the free slices after it, or in place through
\* memory.grow once every empty page is released, or moves.
Extend(y, a, old, new) ==
    LET start == HeaderOf(a)
        count == HugeSlices(old)
        extra == HugeSlices(new) - count
        r     == FreePages(y, Empty(y))
    IN  IF CanExtend(y.sl, start, count, extra)
        THEN {Result(Lift(y, o).y, a) : o \in TryExtend(y.sl, y.end, start, count, extra)}
        ELSE UNION {IF o.start # NoSlice THEN {Result(Lift(r, o).y, a)}
                    ELSE Move(Lift(r, o).y, a, old, new)
                    : o \in ExtendWithGrowth(r.sl, r.end, start, count, extra)}

HeapRealloc(y, a, old, new) ==
    LET count == HugeSlices(old)
        less  == HugeSlices(new)
    IN  IF ~Huge(old) /\ ~Huge(new) THEN {Result(Wrote(y, Words(a + new, old - new), Other), a)}
        ELSE IF Huge(old) # Huge(new) THEN Move(y, a, old, new)
        ELSE IF less <= count
        THEN {Result([Wrote(y, Words(a + new, old - new), Other) EXCEPT
                         !.sl = Shrink(@, HeaderOf(a), count, less)], a)}
        ELSE Extend(y, a, old, new)

-----------------------------------------------------------------------------
(* The program's calls.                                                    *)

\* Memory the host gave at the start may hold anything; what grows is zero.
Init ==
    /\ x = [sl |-> AddFree(InitMap(1), 1, InitialEnd - 1, FALSE),
            end |-> InitialEnd, page |-> <<>>,
            mem |-> [a \in 0 .. (MemMax * SliceWords - 1) |->
                        IF a < InitialEnd * SliceWords THEN Other ELSE Zero]]
    /\ live = {} /\ null = FALSE

AllocCall(n, zero) ==
    /\ Cardinality(live) < MaxLive
    /\ \E r \in HeapAlloc(x, n, zero, FALSE) :
        /\ x' = r.y
        /\ live' = live \cup (IF r.addr = Null THEN {} ELSE {Block(r.addr, n)})
        /\ null' = (r.addr = Null)

DeallocCall(b) ==
    /\ x' \in HeapDealloc(x, b.addr, b.size)
    /\ live' = live \ {b} /\ null' = FALSE

ReallocCall(b, n) ==
    /\ n # b.size
    /\ \E r \in HeapRealloc(x, b.addr, b.size, n) :
        /\ x' = r.y
        /\ live' = IF r.addr = Null THEN live
                   ELSE (live \ {b}) \cup {Block(r.addr, n)}
        /\ null' = (r.addr = Null)

\* The program fills a block.
Fill(b) ==
    /\ x' = Wrote(x, Words(b.addr, b.size), Value)
    /\ live' = live /\ null' = FALSE

Next ==
    \/ \E n \in Sizes, zero \in BOOLEAN : AllocCall(n, zero)
    \/ \E b \in live : DeallocCall(b) \/ Fill(b)
    \/ \E b \in live, n \in Sizes : ReallocCall(b, n)

Spec == Init /\ [][Next]_vars

-----------------------------------------------------------------------------
(* Properties.                                                             *)

Reads(y, b) == [i \in 1 .. b.size |-> y.mem[b.addr + i - 1]]

\* What alloc_zeroed hands out reads as zero over its whole size, from a page
\* or a run, fresh or used (alloc_zeroed, alloc_generic, alloc_huge).
ZeroedReadsZero ==
    [][\A n \in Sizes : AllocCall(n, TRUE) =>
          \A b \in live' \ live : \A i \in 1 .. n : Reads(x', b)[i] = Zero]_vars

\* No call changes what any other block holds, and realloc brings the words
\* both sizes have room for along, in place or moved.  A call that returns null
\* changes no block at all: realloc gives the old one up only once the new one
\* is there, whatever was released or grown on the way (heap.rs realloc).
Contract == INSTANCE AllocContents WITH data <- [b \in live |-> Reads(x, b)]
KeepsContents == Contract!Spec
=============================================================================
