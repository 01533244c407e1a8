-------------------------------- MODULE Heap --------------------------------
(***************************************************************************)
(* The heap (src/src/heap.rs): bin queues, the full queue, the direct      *)
(* table, page retirement and release, header-less runs and realloc, over  *)
(* the slice layer of SliceOps and the size classes of src/src/bins.rs.    *)
(*                                                                         *)
(* The allocator is single-threaded and never re-enters itself, so one     *)
(* call of GlobalAlloc is one action.  A call is computed by operators on  *)
(* a heap value h that follow the code's functions one by one; where       *)
(* memory.grow decides, an operator is the set of possible results.        *)
(*                                                                         *)
(* Addresses are in words and pages are named by their first slice.  The   *)
(* contents of blocks are module Page's business, as is the link-level     *)
(* form of a page's free list, which is a sequence of block indices here.  *)
(***************************************************************************)
EXTENDS SliceOps, Sequences, FiniteSets

CONSTANTS
    SliceWords,     \* words per slice (SLICE_SIZE)
    HeaderWords,    \* words reserved for a page header
    BlockSize,      \* bin_size, a sequence indexed by bin, in words
    PageSlices,     \* slices of a page of each bin (kind_of_bin, page_size)
    MaxNatural,     \* MAX_NATURAL_ALIGN, in words
    SmallMax,       \* SMALL_MAX_OBJ_SIZE
    DirectMax,      \* DIRECT_MAX_SIZE
    ExtendWords,    \* MAX_EXTEND_SIZE
    RetireSmall,    \* RETIRE_CYCLES
    RetireOther,    \* RETIRE_CYCLES / 4
    RetireMaxPages, MaxCandidates, CollectPeriod,
    HeapBase,       \* first word the allocator may use
    InitialEnd,     \* slices of the initial memory
    Layouts         \* the layouts the program asks for: [size, align]

ASSUME HeapAssumption ==
    /\ {SliceWords, HeaderWords, MaxNatural, RetireSmall, RetireOther} \subseteq Nat \ {0}
    /\ {SmallMax, DirectMax, ExtendWords, RetireMaxPages, MaxCandidates,
        CollectPeriod, HeapBase, InitialEnd} \subseteq Nat
    \* The bins: increasing block sizes, and as many page kinds.
    /\ BlockSize \in Seq(Nat \ {0}) /\ BlockSize # <<>>
    /\ PageSlices \in Seq(Nat \ {0}) /\ Len(PageSlices) = Len(BlockSize)
    /\ \A b, c \in DOMAIN BlockSize : b < c => BlockSize[b] < BlockSize[c]
    \* The initial memory: the heap base lies in it, the map describes it.
    /\ InitialEnd <= MemMax /\ HeapBase <= InitialEnd * SliceWords
    /\ InitialEnd <= Limit(InitMap(HeapBase \div SliceWords))
    /\ Layouts \subseteq [size : Nat \ {0}, align : Nat \ {0}]

VARIABLES
    h,      \* the heap with its memory: the fields are those of Init
    live    \* the program's blocks: [addr, lay]

vars == <<h, live>>

Bins   == DOMAIN BlockSize
Full   == 0             \* FULL_QUEUE
Huge   == 0             \* Class::Huge
Queues == Bins \cup {Full}
NoPage == -1            \* the sentinel page, or no page
NoAddr == -1            \* a null pointer

Elements(s)    == {s[i] : i \in DOMAIN s}
CeilDiv(a, n)  == (a + n - 1) \div n
RoundUp(a, n)  == CeilDiv(a, n) * n
HeadOf(s)      == IF s = <<>> THEN NoPage ELSE Head(s)

\* What is left of a queue without the members of S, in its order.
Without(s, S) ==
    LET kept[i \in 0 .. Len(s)] ==
            IF i = 0 THEN <<>>
            ELSE IF s[i] \in S THEN kept[i - 1] ELSE Append(kept[i - 1], s[i])
    IN  kept[Len(s)]

-----------------------------------------------------------------------------
(* Size classes and page geometry.                                         *)

BinOf(size) == CHOOSE b \in Bins : /\ BlockSize[b] >= size
                                   /\ \A c \in Bins : c < b => BlockSize[c] < size

Rounded(l) == RoundUp(l.size, l.align)

Classify(l) ==
    IF l.align > MaxNatural \/ Rounded(l) > BlockSize[Len(BlockSize)]
    THEN Huge ELSE BinOf(Rounded(l))

\* The largest power of two that divides n, capped.
NaturalAlign(n) ==
    CHOOSE a \in 1 .. MaxNatural :
        /\ \E k \in 0 .. MaxNatural : a = 2^k
        /\ n % a = 0
        /\ \A c \in (a + 1) .. MaxNatural :
               ~(n % c = 0 /\ \E k \in 0 .. MaxNatural : c = 2^k)

BlockStart == [b \in Bins |-> RoundUp(HeaderWords, NaturalAlign(BlockSize[b]))]

\* blocks_per_page
Reserved == [b \in Bins |->
                (PageSlices[b] * SliceWords - BlockStart[b]) \div BlockSize[b]]

\* block_start leaves room for a block in the pages of every bin.
ASSUME PageAssumption == \A b \in Bins : Reserved[b] >= 1

\* Alignments and the slice size are powers of two; the class of a layout, whose
\* size was rounded up to the alignment, and its first block are multiples of it.
ASSUME AlignAssumption ==
    \A l \in Layouts :
        /\ SliceWords % l.align = 0 \/ l.align % SliceWords = 0
        /\ Classify(l) # Huge => /\ SliceWords % l.align = 0
                                /\ NaturalAlign(BlockSize[Classify(l)]) % l.align = 0

DirectBins == {b \in Bins : BlockSize[b] <= DirectMax}

BlockAddr(p, b, i) == p * SliceWords + BlockStart[b] + i * BlockSize[b]

BlockIndex(p, b, addr) == (addr - BlockAddr(p, b, 0)) \div BlockSize[b]

\* Fault: every block is looked up as if its page were a small one.
HeaderOf_Small(b, addr) == addr \div SliceWords

\* header_of: the page a block of bin b must be in, by masking its address.
HeaderOf(b, addr) ==
    (addr \div (PageSlices[b] * SliceWords)) * PageSlices[b]

\* Fault: the last, partial slice of a header-less block is forgotten.
HugeSlices_Floor(l) == Greatest(l.size \div SliceWords, 1)

HugeSlices(l) == Greatest(CeilDiv(l.size, SliceWords), 1)
HugeAlign(l)  == Greatest(CeilDiv(l.align, SliceWords), 1)

-----------------------------------------------------------------------------
(* Pages.                                                                  *)

NewPage(b) == [bin |-> b, free |-> <<>>, used |-> 0, cap |-> 0,
               full |-> FALSE, expire |-> 0]

HasFree(pg)    == pg.free # <<>>
Expandable(pg) == pg.cap < Reserved[pg.bin]
HasRoom(pg)    == HasFree(pg) \/ Expandable(pg)
AllFree(pg)    == pg.used = 0
MostlyUsed(pg) == pg.used * 8 >= Reserved[pg.bin] * 7

\* extend: the next batch of blocks goes in front of the list, in order.
Extended(pg) ==
    LET n == Least(Reserved[pg.bin] - pg.cap,
                   Greatest(ExtendWords \div BlockSize[pg.bin], 1))
    IN  [pg EXCEPT !.free = [i \in 1 .. n |-> pg.cap + i - 1] \o @,
                   !.cap = @ + n]

Popped(pg)    == [pg EXCEPT !.free = Tail(@), !.used = @ + 1]
Pushed(pg, i) == [pg EXCEPT !.free = <<i>> \o @, !.used = @ - 1]

-----------------------------------------------------------------------------
(* Queues, the occupied bits and the direct table.                         *)

\* update_direct: the table entries of a bin point at its queue's first page.
UpdateDirect(hh, q) ==
    IF q \in DirectBins THEN [hh EXCEPT !.direct[q] = HeadOf(hh.queues[q])]
    ELSE hh

PushFront(hh, q, p) ==
    UpdateDirect([hh EXCEPT !.queues[q] = <<p>> \o @,
                            !.occupied = @ \cup {q}], q)

PushBack(hh, q, p) ==
    LET h1 == [hh EXCEPT !.queues[q] = Append(@, p), !.occupied = @ \cup {q}]
    IN  IF hh.queues[q] = <<>> THEN UpdateDirect(h1, q) ELSE h1

\* remove, for a set S[q] of members of each queue q.
RemoveAll(hh, S) ==
    LET rest == [q \in Queues |-> Without(hh.queues[q], S[q])]
    IN  [hh EXCEPT !.queues = rest,
                   !.occupied = {q \in @ : rest[q] # <<>>},
                   !.direct = [b \in DirectBins |->
                       IF HeadOf(hh.queues[b]) \in S[b] THEN HeadOf(rest[b]) ELSE @[b]]]

\* The members S of one queue.
Only(q, S) == [r \in Queues |-> IF r = q THEN S ELSE {}]

Remove(hh, q, p) == RemoveAll(hh, Only(q, {p}))

MoveToFront(hh, q, p) ==
    IF HeadOf(hh.queues[q]) = p THEN hh
    ELSE PushFront(Remove(hh, q, p), q, p)

\* The pages S of queue q go to the back of the full queue, in their order.
MovedToFull(hh, q, S) ==
    LET h1 == RemoveAll(hh, Only(q, S))
    IN  [h1 EXCEPT !.queues[Full] = @ \o Without(hh.queues[q],
                                                 Elements(hh.queues[q]) \ S),
                   !.occupied = IF S = {} THEN @ ELSE @ \cup {Full}]

\* Fault (review finding R-2): a page parked as full keeps its countdown.
Park_KeepsCountdown(hh, q, S) ==
    [MovedToFull(hh, q, S) EXCEPT
        !.pages = [p \in DOMAIN @ |->
            IF p \in S THEN [@[p] EXCEPT !.full = TRUE] ELSE @[p]]]

\* find_page parks the pages without room: countdown reset, then move_to_full.
Park(hh, q, S) ==
    [MovedToFull(hh, q, S) EXCEPT
        !.pages = [p \in DOMAIN @ |->
            IF p \in S THEN [@[p] EXCEPT !.full = TRUE, !.expire = 0] ELSE @[p]]]

Unfull(hh, p) ==
    PushBack([Remove(hh, Full, p) EXCEPT !.pages[p].full = FALSE],
             hh.pages[p].bin, p)

-----------------------------------------------------------------------------
(* Retirement and page release.                                            *)

PageSpan(pg, p) == Span(p, PageSlices[pg.bin])

\* free_page, for a set S[q] of members of each queue q.
FreePages(hh, S) ==
    LET gone == UNION {S[q] : q \in Queues}
    IN  [RemoveAll(hh, S) EXCEPT
            !.pages = [p \in DOMAIN @ \ gone |-> @[p]],
            !.sl = Release(@, UNION {PageSpan(hh.pages[p], p) : p \in gone})]

\* retire: keep the empty page for some rounds, or release it.
Retire(hh, p) ==
    LET pg    == hh.pages[p]
        q     == pg.bin
        bsize == BlockSize[q]
        count == Len(hh.queues[q])
    IN  IF count <= RetireMaxPages /\ (count = 1 \/ bsize < DirectMax)
        THEN [hh EXCEPT !.pages[p].expire =
                            IF bsize <= SmallMax THEN RetireSmall ELSE RetireOther,
                        !.retiredMin = Least(@, q),
                        !.retiredMax = Greatest(@, q)]
        ELSE FreePages(hh, Only(q, {p}))

\* Fault: a page on which a countdown runs leaves it when it becomes empty.
NeedsTransition_Flagged(pg) == pg.full

NeedsTransition(pg) == (pg.used = 0 /\ pg.expire = 0) \/ pg.full

\* dealloc_transition
Transition(hh, p) ==
    LET h1 == IF hh.pages[p].full THEN Unfull(hh, p) ELSE hh
    IN  IF AllFree(h1.pages[p]) THEN Retire(h1, p) ELSE h1

NoRange == [min |-> Len(BlockSize) + 1, max |-> 0]

\* collect_retired: age the retired pages among the first RetireMaxPages of
\* each queue in the range; the range shrinks to what is still counting.
CollectRetired(hh) ==
    LET window(q) == IF q \in hh.retiredMin .. hh.retiredMax
                     THEN Elements(SubSeq(hh.queues[q], 1,
                                    Least(RetireMaxPages, Len(hh.queues[q]))))
                     ELSE {}
        aged      == {p \in UNION {window(q) : q \in Bins} :
                          hh.pages[p].expire # 0}
        gone(q)   == {p \in aged \cap window(q) : /\ AllFree(hh.pages[p])
                                                  /\ hh.pages[p].expire = 1}
        left      == {q \in Bins : \E p \in aged \cap window(q) :
                          AllFree(hh.pages[p]) /\ hh.pages[p].expire > 1}
        h1 == [hh EXCEPT
                 !.pages = [p \in DOMAIN @ |->
                    IF p \notin aged THEN @[p]
                    ELSE [@[p] EXCEPT !.expire =
                             IF AllFree(hh.pages[p])
                             THEN hh.pages[p].expire - 1 ELSE 0]],
                 !.retiredMin = CHOOSE x \in left \cup {NoRange.min} :
                                    \A y \in left \cup {NoRange.min} : x <= y,
                 !.retiredMax = CHOOSE x \in left \cup {NoRange.max} :
                                    \A y \in left \cup {NoRange.max} : x >= y]
    IN  FreePages(h1, [q \in Queues |-> gone(q)])

\* Fault (review finding R-2): the release trusts the retired range.
ReleaseEmptyPages_Range(hh) ==
    LET walked(q) == IF q \in hh.retiredMin .. hh.retiredMax
                     THEN Elements(hh.queues[q]) ELSE {}
    IN  FreePages([hh EXCEPT !.retiredMin = NoRange.min,
                             !.retiredMax = NoRange.max],
                  [q \in Queues |-> {p \in walked(q) : AllFree(hh.pages[p])}])

\* release_empty_pages: every occupied bin queue, whatever the countdowns say.
ReleaseEmptyPages(hh) ==
    LET walked(q) == IF q \in hh.occupied \ {Full} THEN Elements(hh.queues[q]) ELSE {}
        h1 == [hh EXCEPT
                 !.pages = [p \in DOMAIN @ |->
                    IF p \in UNION {walked(q) : q \in Bins}
                    THEN [@[p] EXCEPT !.expire = 0] ELSE @[p]],
                 !.retiredMin = NoRange.min,
                 !.retiredMax = NoRange.max]
    IN  FreePages(h1, [q \in Queues |-> {p \in walked(q) : AllFree(hh.pages[p])}])

-----------------------------------------------------------------------------
(* Page supply.                                                            *)

\* The heap after an outcome of the slice layer, and the run it found.
Lift(hh, o) == [h |-> [hh EXCEPT !.sl = o.m, !.end = o.end,
                                 !.foreign = @ \cup o.foreign],
                start |-> o.start]

EnsureInit(hh) ==
    IF hh.inited THEN hh
    ELSE LET first == CeilDiv(HeapBase, SliceWords)
         IN  [hh EXCEPT !.inited = TRUE,
                        !.sl = AddFree(InitMap(HeapBase \div SliceWords), first,
                                       Monus(hh.end, first), FALSE)]

\* Fault: memory is grown before the empty pages are given up.
AcquireRun_GrowsFirst(hh, count, align, top) ==
    {Lift(hh, o) : o \in Acquire(hh.sl, hh.end, count, align)}

\* acquire_run: a fit in the map, the free tail first if asked for; else every
\* empty page is released before memory may grow.
AcquireRun(hh, count, align, top) ==
    IF top /\ TailFits(hh.sl, count, align, hh.end) # {}
    THEN {Lift(hh, o) : o \in AllocTail(hh.sl, hh.end, count, align)}
    ELSE IF Fits(hh.sl, count, align) # {}
    THEN {Lift(hh, o) : o \in Alloc(hh.sl, hh.end, count, align)}
    ELSE LET r == ReleaseEmptyPages(hh)
         IN  {Lift(r, o) : o \in Acquire(r.sl, r.end, count, align)}

\* fresh_page
FreshPage(hh, b) ==
    {IF r.start = NoSlice THEN [h |-> r.h, page |-> NoPage]
     ELSE LET p  == r.start
              h1 == [r.h EXCEPT !.pages =
                        [x \in DOMAIN @ \cup {p} |->
                            IF x = p THEN Extended(NewPage(b)) ELSE @[x]]]
          IN  [h |-> PushFront(h1, b, p), page |-> p]
     : r \in AcquireRun(hh, PageSlices[b], PageSlices[b], FALSE)}

\* Fault: the walk parks every page whose free list is empty.
Roomless_Unextended(hh, p) == ~HasFree(hh.pages[p])

\* The pages the walk of find_page parks.
Roomless(hh, p) == ~HasRoom(hh.pages[p])

\* find_page: walk the queue from its front to the first page with a free
\* block, or MaxCandidates pages past the first one with room; park the pages
\* without room on the way; of the others take the fullest, the later on a tie.
FindPage(hh, b) ==
    LET queue  == hh.queues[b]
        page(i) == hh.pages[queue[i]]
        room   == {i \in DOMAIN queue : ~Roomless(hh, queue[i])}
        first  == CHOOSE i \in room : \A j \in room : i <= j
        stops  == {i \in room : HasFree(page(i)) \/ i - first >= MaxCandidates}
        walked == {i \in DOMAIN queue : \A j \in stops : j >= i}
        cands  == {i \in room \cap walked : i = first \/ ~MostlyUsed(page(i))}
        best   == CHOOSE i \in cands : \A j \in cands :
                      \/ page(i).used > page(j).used
                      \/ page(i).used = page(j).used /\ i >= j
        h1     == Park(hh, b, {queue[i] : i \in walked \ room})
    IN  IF room = {} THEN FreshPage(CollectRetired(h1), b)
        ELSE LET p  == queue[best]
                 h2 == IF HasFree(page(best)) THEN h1
                       ELSE [h1 EXCEPT !.pages[p] = Extended(@)]
             IN  {[h |-> [MoveToFront(h2, b, p) EXCEPT !.pages[p].expire = 0],
                   page |-> p]}

-----------------------------------------------------------------------------
(* alloc, dealloc, realloc: a result is a heap and an address or NoAddr.   *)

Result(hh, addr) == [h |-> hh, addr |-> addr]

\* page::pop of a page with a free block.
PopBlock(hh, p) ==
    LET pg == hh.pages[p]
    IN  Result([hh EXCEPT !.pages[p] = Popped(@)],
               BlockAddr(p, pg.bin, Head(pg.free)))

HeapAllocHuge(hh, l, top) ==
    {Result(r.h, IF r.start = NoSlice THEN NoAddr ELSE r.start * SliceWords)
        : r \in AcquireRun(hh, HugeSlices(l), HugeAlign(l), top)}

NextCount(c) == IF c + 1 >= CollectPeriod THEN 0 ELSE c + 1

\* What alloc_generic does when the head of the queue cannot serve: every
\* CollectPeriod-th such search ages the retired pages first.
Search(hh, b) ==
    LET h1 == [EnsureInit(hh) EXCEPT !.count = NextCount(@)]
    IN  {IF r.page = NoPage THEN Result(r.h, NoAddr) ELSE PopBlock(r.h, r.page)
            : r \in FindPage(IF h1.count = 0 THEN CollectRetired(h1) ELSE h1, b)}

\* alloc and alloc_zeroed: the direct table, else alloc_generic, which serves
\* the bins above the table from the head of their queue.
HeapAlloc(hh, l) ==
    LET b    == Classify(l)
        head == IF b \in DirectBins THEN hh.direct[b] ELSE HeadOf(hh.queues[b])
    IN  IF b = Huge THEN HeapAllocHuge(EnsureInit(hh), l, FALSE)
        ELSE IF head # NoPage /\ HasFree(hh.pages[head]) THEN {PopBlock(hh, head)}
        ELSE Search(hh, b)

\* dealloc, both paths: the page is found by masking, with the layout's kind.
HeapDealloc(hh, addr, l) ==
    IF Classify(l) = Huge
    THEN [hh EXCEPT !.sl = Release(@, Span(addr \div SliceWords, HugeSlices(l)))]
    ELSE LET p  == HeaderOf(Classify(l), addr)
             i  == BlockIndex(p, hh.pages[p].bin, addr)
             h1 == [hh EXCEPT !.pages[p] = Pushed(@, i)]
         IN  IF NeedsTransition(h1.pages[p]) THEN Transition(h1, p) ELSE h1

FitsInPlace(old, new, newSize) ==
    \/ new = old
    \/ /\ new < old
       /\ PageSlices[new] = PageSlices[old]
       /\ newSize >= BlockSize[old] \div 2

\* realloc's last resort: the block moves; a new run goes to the free tail.
MoveBlock(hh, addr, l, new) ==
    {IF r.addr = NoAddr THEN r ELSE Result(HeapDealloc(r.h, addr, l), r.addr)
        : r \in IF Classify(new) = Huge THEN HeapAllocHuge(hh, new, TRUE)
                ELSE HeapAlloc(hh, new)}

\* Fault (review finding R2-1): memory is grown under a run at the top while
\* empty pages are kept.
ExtendBlock_NoRelease(hh, addr, l, new) ==
    UNION {IF o.start # NoSlice THEN {Result(Lift(hh, o).h, addr)}
           ELSE MoveBlock(Lift(hh, o).h, addr, l, new) :
           o \in ExtendWithGrowth(hh.sl, hh.end, addr \div SliceWords,
                    HugeSlices(l), HugeSlices(new) - HugeSlices(l))}

\* A run that becomes longer: through the free slices after it; else, with
\* every empty page released, in place through memory.grow; else it moves.
ExtendBlock(hh, addr, l, new) ==
    LET start == addr \div SliceWords
        count == HugeSlices(l)
        extra == HugeSlices(new) - count
        r     == ReleaseEmptyPages(hh)
    IN  IF CanExtend(hh.sl, start, count, extra)
        THEN {Result(Lift(hh, o).h, addr) :
                o \in TryExtend(hh.sl, hh.end, start, count, extra)}
        ELSE UNION {IF o.start # NoSlice THEN {Result(Lift(r, o).h, addr)}
                    ELSE MoveBlock(Lift(r, o).h, addr, l, new) :
                    o \in ExtendWithGrowth(r.sl, r.end, start, count, extra)}

HeapRealloc(hh, addr, l, new) ==
    LET old  == Classify(l)
        cls  == Classify(new)
        oldN == HugeSlices(l)
        newN == HugeSlices(new)
    IN  IF old # Huge /\ cls # Huge /\ FitsInPlace(old, cls, new.size)
        THEN {Result(hh, addr)}
        ELSE IF old # Huge \/ cls # Huge THEN MoveBlock(hh, addr, l, new)
        ELSE IF newN <= oldN
        THEN {Result([hh EXCEPT !.sl = Shrink(@, addr \div SliceWords, oldN, newN)],
                     addr)}
        ELSE ExtendBlock(hh, addr, l, new)

-----------------------------------------------------------------------------
(* The state machine: the program's calls and the other party.             *)

Init ==
    /\ h = [sl |-> NewMap, end |-> InitialEnd,
            foreign |-> 0 .. (CeilDiv(HeapBase, SliceWords) - 1),
            pages |-> <<>>,
            queues |-> [q \in Queues |-> <<>>],
            direct |-> [b \in DirectBins |-> NoPage],
            occupied |-> {},
            retiredMin |-> NoRange.min, retiredMax |-> NoRange.max,
            count |-> 0, inited |-> FALSE]
    /\ live = {}

AllocCall(l) ==
    \E r \in HeapAlloc(h, l) :
        /\ h' = r.h
        /\ live' = IF r.addr = NoAddr THEN live
                   ELSE live \cup {[addr |-> r.addr, lay |-> l]}

DeallocCall(x) ==
    /\ h' = HeapDealloc(h, x.addr, x.lay)
    /\ live' = live \ {x}

ReallocCall(x, new) ==
    /\ new.align = x.lay.align /\ new # x.lay
    /\ \E r \in HeapRealloc(h, x.addr, x.lay, new) :
        /\ h' = r.h
        /\ live' = IF r.addr = NoAddr THEN live
                   ELSE (live \ {x}) \cup {[addr |-> r.addr, lay |-> new]}

OtherGrow(n) ==
    /\ h.inited
    /\ h.end + n <= MemMax
    /\ h' = [h EXCEPT !.end = @ + n, !.foreign = @ \cup Span(h.end, n)]
    /\ UNCHANGED live

Next ==
    \/ \E l \in Layouts : AllocCall(l)
    \/ \E x \in live : DeallocCall(x)
    \/ \E x \in live, l \in Layouts : ReallocCall(x, l)
    \/ \E n \in Gaps \ {0} : OtherGrow(n)

Spec == Init /\ [][Next]_vars
-----------------------------------------------------------------------------
(* Properties.                                                             *)

Pages == DOMAIN h.pages

\* The live blocks that masking with their layout's kind takes to page p.
LiveIn(p) == {x \in live : /\ Classify(x.lay) # Huge
                           /\ HeaderOf(Classify(x.lay), x.addr) = p}

\* Every live block, whatever in-place reallocs did to its layout, masks to a
\* page of its kind that holds a handed-out block of at least its size at that
\* very address; a page's used count and free list account for its blocks.
BlocksAccounted ==
    /\ \A x \in live : Classify(x.lay) # Huge =>
          HeaderOf(Classify(x.lay), x.addr) \in Pages
    /\ \A p \in Pages :
          LET pg  == h.pages[p]
              idx == {BlockIndex(p, pg.bin, x.addr) : x \in LiveIn(p)}
          IN  /\ pg.used = Cardinality(LiveIn(p))
              /\ pg.cap <= Reserved[pg.bin]
              /\ \A x \in LiveIn(p) :
                    /\ PageSlices[Classify(x.lay)] = PageSlices[pg.bin]
                    /\ x.lay.size <= BlockSize[pg.bin]
                    /\ x.addr = BlockAddr(p, pg.bin,
                                          BlockIndex(p, pg.bin, x.addr))
              /\ Cardinality(Elements(pg.free)) = Len(pg.free)
              /\ idx \cap Elements(pg.free) = {}
              /\ idx \cup Elements(pg.free) = 0 .. (pg.cap - 1)
              /\ Cardinality(idx) = pg.used

RunSpan(x) == Span(x.addr \div SliceWords, HugeSlices(x.lay))
HugeLive   == {x \in live : Classify(x.lay) = Huge}

\* Every slice the heap has below the end of memory has exactly one owner: the
\* map, a page, a header-less block or someone else; none is lost.
SlicesAccounted ==
    LET pageOwn == UNION {PageSpan(h.pages[p], p) : p \in Pages}
        runOwn  == UNION {RunSpan(x) : x \in HugeLive}
    IN  /\ \A p, q \in Pages : p # q =>
              PageSpan(h.pages[p], p) \cap PageSpan(h.pages[q], q) = {}
        /\ \A x, y \in HugeLive : x # y => RunSpan(x) \cap RunSpan(y) = {}
        /\ pageOwn \cap runOwn = {}
        /\ (pageOwn \cup runOwn) \cap (h.sl.free \cup h.foreign) = {}
        /\ h.sl.free \cap h.foreign = {}
        /\ h.inited =>
              (h.sl.base .. (Least(h.end, UsableLimit(h.sl)) - 1))
                  \subseteq (pageOwn \cup runOwn \cup h.sl.free \cup h.foreign)

\* Heap invariants 1, 3 and 5: a page is in the queue of its bin or, flagged
\* and without room, in the full queue, once; the direct table is a cache of
\* the queue heads; the occupied bits tell which queues hold pages.
QueuesValid ==
    /\ \A q \in Queues :
          /\ Cardinality(Elements(h.queues[q])) = Len(h.queues[q])
          /\ q \in h.occupied <=> h.queues[q] # <<>>
          /\ \A p \in Elements(h.queues[q]) :
                q = IF h.pages[p].full THEN Full ELSE h.pages[p].bin
    /\ \A p \in Pages :
          /\ p \in Elements(h.queues[IF h.pages[p].full THEN Full
                                     ELSE h.pages[p].bin])
          /\ h.pages[p].full => ~HasRoom(h.pages[p])
          /\ p % PageSlices[h.pages[p].bin] = 0
    /\ \A b \in DirectBins : h.direct[b] = HeadOf(h.queues[b])

\* Between calls a page without live blocks sits in its bin queue with a
\* countdown running: no free leaves an empty page that nothing would release.
EmptyPageCountsDown ==
    \A p \in Pages : AllFree(h.pages[p]) =>
        h.pages[p].expire # 0 /\ ~h.pages[p].full

\* However countdowns go stale on the fast paths, a bin never keeps more than
\* RetireMaxPages pages with one, nor more than one from DirectMax up.
RetiredBounded ==
    \A b \in Bins :
        Cardinality({p \in Pages : h.pages[p].bin = b /\ h.pages[p].expire # 0})
            <= IF BlockSize[b] < DirectMax THEN RetireMaxPages ELSE 1

\* When a call makes memory grow, every page that was empty has been given up,
\* even if the call fails in the end: growth is footprint for good, an empty page
\* is not (findings R-2, R2-1).
GrowthReleasesEmpty ==
    [][ (h'.end > h.end /\ ~\E n \in Gaps \ {0} : OtherGrow(n)) =>
          \A p \in Pages \cap DOMAIN h'.pages : AllFree(h.pages[p]) =>
              ~AllFree(h'.pages[p]) ]_vars

\* Free slices counting those of empty pages.
Available == h.sl.free \cup
    UNION {PageSpan(h.pages[p], p) : p \in {q \in Pages : AllFree(h.pages[q])}}

\* An allocation grows memory only if no page of its bin had room, wherever in
\* the queues, and no run that fits was free or under empty pages.
GrowthIsLastResort ==
    [][ \A l \in Layouts : (h'.end > h.end /\ h.inited /\ AllocCall(l)) =>
          LET b     == Classify(l)
              n     == IF b = Huge THEN HugeSlices(l) ELSE PageSlices[b]
              align == IF b = Huge THEN HugeAlign(l) ELSE n
          IN  /\ b # Huge => \A p \in Pages :
                    h.pages[p].bin = b => ~HasRoom(h.pages[p])
              /\ Fits([h.sl EXCEPT !.free = Available], n, align) = {} ]_vars

\* The heap implements the contract of GlobalAlloc over the words it owns.
Contract == INSTANCE GlobalAlloc WITH
    Words <- CeilDiv(HeapBase, SliceWords) * SliceWords
                .. (MaxSliceIndex * SliceWords - 1)

ImplementsContract == Contract!Spec
=============================================================================
