------------------------------- MODULE Floors -------------------------------
(***************************************************************************)
(* The floor allocators of the roofline benchmark                          *)
(* (src/bench/roofline/src/alloc): a bump pointer over memory.grow and,    *)
(* on top of it, one free list, 64 size classes, size classes in pages,    *)
(* and the imitation of wasmalloc's fast path, with its knobs.             *)
(*                                                                         *)
(* An address counts units; 0 is null.  A free list is the sequence of its *)
(* blocks.  The program may itself grow memory, as the memory_grow         *)
(* workloads do, and frees in any order.  GlobalAlloc's default realloc    *)
(* is an alloc and a free.                                                 *)
(***************************************************************************)
EXTENDS Integers, Sequences, FiniteSets

CONSTANTS
    Variants,           \* the cargo features checked
    Natives,            \* built for wasm, for the host, or both
    PageUnits,          \* WASM_PAGE, PAGE
    Granule, MaxSmall,  \* GRANULE, MAX_SMALL
    ListBlock,          \* BLOCK of the free-list floor
    HeaderUnits,        \* HEADER
    Chunk,              \* CHUNK
    Reserve,            \* RESERVE, in pages
    Layouts,            \* the layouts asked for: <<size, align>>
    FirstPage,          \* pages of static data
    MaxPages, MaxLive   \* bounds

AllVariants ==
    {"bump", "freelist", "sizeclass", "pages", "mimic", "mimic_lean",
     "mimic_u32", "mimic_nozero", "mimic_notest", "mimic_u32_notest"}

ASSUME FloorsAssumption ==
    /\ Variants \subseteq AllVariants /\ Natives \subseteq BOOLEAN
    /\ {PageUnits, Granule, MaxSmall, ListBlock, HeaderUnits, Chunk, Reserve, FirstPage}
           \subseteq Nat \ {0}
    /\ PageUnits % Granule = 0 /\ HeaderUnits % Granule = 0
    /\ MaxSmall % Granule = 0 /\ HeaderUnits + MaxSmall <= PageUnits

VARIABLES
    variant, native,        \* what is built: the feature, and not for wasm
    cur, end, mark, marked, \* Bump
    heads,                  \* free list of each class
    pcur, pend,             \* Pages, Mimic: what is left of each class's page
    direct,                 \* Mimic: each class's page, 0 the sentinel
    header,                 \* page -> its header, NoHeader when there is none
    transitions,            \* Mimic: wrapping counter
    memory,                 \* end of memory in pages
    next, reserved,         \* native grow_pages: NEXT and END, in pages
    live, theirs,           \* blocks in use, stretches the program grew
    startup                 \* history: live at the first reset

bump   == <<cur, end, mark, marked>>
tables == <<heads, pcur, pend, direct, header, transitions>>
grown  == <<memory, next, reserved>>
vars   == <<variant, native, bump, tables, grown, live, theirs, startup>>

Classes  == 0 .. (MaxSmall \div Granule - 1)
PageNums == 0 .. (MaxPages - 1)
NoHeader == [class |-> -1, free |-> <<>>, used |-> 0, isZero |-> FALSE]

Mimics  == variant \in AllVariants \ {"bump", "freelist", "sizeclass", "pages"}
Lean    == variant = "mimic_lean"
NoZero  == variant = "mimic_nozero"
NoTest  == variant \in {"mimic_notest", "mimic_u32_notest"}

CeilDiv(a, b) == (a + b - 1) \div b
AlignUp(a, al) == CeilDiv(a, al) * al
PageOf(a) == a \div PageUnits
Block(c) == (c + 1) * Granule

ClassOf(size) == CeilDiv(size, Granule) - 1

Small(b) == IF variant = "freelist" THEN b.size <= ListBlock /\ b.align <= Granule
            ELSE variant # "bump" /\ b.size <= MaxSmall /\ b.align <= Granule

Init ==
    /\ variant \in Variants /\ native \in Natives
    /\ cur = 0 /\ end = 0 /\ mark = 0 /\ marked = FALSE
    /\ heads = [c \in Classes |-> <<>>]
    /\ pcur = [c \in Classes |-> 0] /\ pend = [c \in Classes |-> 0]
    /\ direct = [c \in Classes |-> 0]
    /\ header = [p \in PageNums |-> NoHeader]
    /\ transitions = 0
    /\ memory = FirstPage /\ next = 0 /\ reserved = 0
    /\ live = {} /\ theirs = {} /\ startup = {}

-----------------------------------------------------------------------------
(* grow_pages                                                              *)

\* A fresh region of the host's allocator, adjacent to the last one or not.
Region(n, base) ==
    /\ \E gap \in 0 .. 1 : base = memory + gap
    /\ base + n <= MaxPages
    /\ memory' = base + n

\* base is the first of n new pages: memory.grow on wasm; elsewhere the next
\* pages of a reserve, a new one when they do not fit, or a region of their own.
GrowPages(n, base) ==
    IF ~native THEN base = memory /\ Region(n, base) /\ UNCHANGED <<next, reserved>>
    ELSE IF next # 0 /\ next + n <= reserved
    THEN base = next /\ next' = next + n /\ UNCHANGED <<memory, reserved>>
    ELSE IF n > Reserve THEN Region(n, base) /\ UNCHANGED <<next, reserved>>
    ELSE Region(Reserve, base) /\ next' = base + n /\ reserved' = base + Reserve

-----------------------------------------------------------------------------
(* Bump                                                                    *)

\* alloc_inline's fast path.
Fast(size, align, at) ==
    /\ AlignUp(cur, align) + size <= end
    /\ at = AlignUp(cur, align)
    /\ cur' = at + size
    /\ UNCHANGED <<end, mark, marked, grown>>

\* Fault: the mark stays in the region that was abandoned.
Remark_Stays(base) == mark

\* The mark after the bump moves to a region of its own.
Remark(base) == IF marked THEN base ELSE mark

Need(size, align) == size + align

\* alloc_slow: a region for the request, or a chunk; the old one is abandoned
\* unless the new one continues it.
Slow(size, align, at) ==
    /\ AlignUp(cur, align) + size > end
    /\ \E p \in PageNums :
          LET n    == CeilDiv(IF Need(size, align) > Chunk THEN Need(size, align)
                              ELSE Chunk, PageUnits)
              base == p * PageUnits
              moved == base # end \/ end = 0
          IN  /\ GrowPages(n, p)
              /\ at = AlignUp(IF moved THEN base ELSE cur, align)
              /\ cur' = at + size
              /\ mark' = IF moved THEN Remark(base) ELSE mark
              /\ end' = base + n * PageUnits
    /\ UNCHANGED marked

AllocInline(size, align, at) == Fast(size, align, at) \/ Slow(size, align, at)

-----------------------------------------------------------------------------
(* alloc                                                                   *)

\* The program gets its block and writes to it; a page header there is gone.
Overwritten(h, at, size) ==
    [p \in PageNums |->
        IF (at .. (at + size - 1)) \cap
               ((p * PageUnits) .. (p * PageUnits + HeaderUnits - 1)) # {}
        THEN NoHeader ELSE h[p]]

Hand(b, h) ==
    /\ live' = live \cup {b}
    /\ header' = Overwritten(h, b.at, b.size)
    /\ UNCHANGED <<variant, native, theirs, startup>>

\* Not small: the bump's.
AllocLarge(b) ==
    /\ ~Small(b)
    /\ AllocInline(b.size, b.align, b.at)
    /\ Hand(b, header)
    /\ UNCHANGED <<heads, pcur, pend, direct, transitions>>

\* The list a small layout is served from; the free-list floor has one.
ListOf(b) == IF variant = "freelist" THEN 0 ELSE ClassOf(b.size)

\* freelist, sizeclass and pages: the class's list first.
AllocListed(b) ==
    LET c == ListOf(b)
    IN  /\ ~Mimics /\ Small(b)
        /\ heads[c] # <<>> /\ b.at = heads[c][1]
        /\ heads' = [heads EXCEPT ![c] = Tail(@)]
        /\ Hand(b, header)
        /\ UNCHANGED <<bump, grown, pcur, pend, direct, transitions>>

\* What freelist and sizeclass take from the bump for a small layout.
Carved(b) == IF variant = "freelist" THEN ListBlock ELSE Block(ListOf(b))

AllocCarved(b) ==
    /\ variant \in {"freelist", "sizeclass"} /\ Small(b)
    /\ heads[ListOf(b)] = <<>>
    /\ AllocInline(Carved(b), Granule, b.at)
    /\ Hand(b, header)
    /\ UNCHANGED <<heads, pcur, pend, direct, transitions>>

\* pages and mimic: the next never-used block of the class's page.
AllocFromPage(b) ==
    LET c == ListOf(b)
        p == PageOf(direct[c])
    IN  /\ Small(b)
        /\ \/ variant = "pages" /\ heads[c] = <<>>
           \/ Mimics /\ header[p].free = <<>>
        /\ pcur[c] + Block(c) <= pend[c]
        /\ b.at = pcur[c]
        /\ pcur' = [pcur EXCEPT ![c] = @ + Block(c)]
        /\ Hand(b, IF Mimics /\ ~Lean
                   THEN [header EXCEPT ![p].used = @ + 1] ELSE header)
        /\ UNCHANGED <<bump, grown, heads, pend, direct, transitions>>

\* refill: a fresh page for the class, its first block handed out.
Refill(b) ==
    LET c == ListOf(b)
    IN  /\ Small(b)
        /\ \/ variant = "pages" /\ heads[c] = <<>>
           \/ Mimics /\ header[PageOf(direct[c])].free = <<>>
        /\ pcur[c] + Block(c) > pend[c]
        /\ AllocInline(PageUnits, PageUnits, b.at - HeaderUnits)
        /\ pcur' = [pcur EXCEPT ![c] = b.at + Block(c)]
        /\ pend' = [pend EXCEPT ![c] = b.at - HeaderUnits + PageUnits]
        /\ direct' = IF Mimics THEN [direct EXCEPT ![c] = b.at - HeaderUnits] ELSE direct
        /\ Hand(b, [header EXCEPT ![PageOf(b.at)] =
                       [class |-> c, free |-> <<>>, isZero |-> Mimics,
                        used |-> IF Mimics /\ ~Lean THEN 1 ELSE 0]])
        /\ UNCHANGED <<heads, transitions>>

\* Mimic: pop the list of the class's page.
AllocPopped(b) ==
    LET c == ListOf(b)
        p == PageOf(direct[c])
    IN  /\ Mimics /\ Small(b)
        /\ header[p].free # <<>> /\ b.at = header[p].free[1]
        /\ Hand(b, [header EXCEPT ![p].free = Tail(@),
                                  ![p].used = IF Lean THEN @ ELSE @ + 1])
        /\ UNCHANGED <<bump, grown, heads, pcur, pend, direct, transitions>>

Alloc(b) ==
    \/ AllocLarge(b) \/ AllocListed(b) \/ AllocCarved(b)
    \/ AllocFromPage(b) \/ Refill(b) \/ AllocPopped(b)

-----------------------------------------------------------------------------
(* dealloc, reset, and the program's own grows                             *)

\* Large blocks are leaked.
FreeLarge(b) ==
    /\ ~Small(b)
    /\ UNCHANGED tables

\* Fault: the class comes from the address, as if every page held the first.
FreedInto_First(b) == 0

\* The list a free pushes to: by the layout, or by the page's header.
FreedInto(b) ==
    IF variant = "pages" THEN header[PageOf(b.at)].class ELSE ListOf(b)

FreeListed(b) ==
    /\ ~Mimics /\ Small(b)
    /\ heads' = [heads EXCEPT ![FreedInto(b)] = <<b.at>> \o @]
    /\ UNCHANGED <<pcur, pend, direct, header, transitions>>

UsedAfterFree(p) == IF Lean THEN header[p].used ELSE header[p].used - 1

FreeMimic(b) ==
    LET p == PageOf(b.at)
    IN  /\ Mimics /\ Small(b)
        /\ header' = [header EXCEPT
              ![p].free = <<b.at>> \o @,
              ![p].used = UsedAfterFree(p),
              ![p].isZero = @ /\ (Lean \/ NoZero)]
        /\ transitions' = IF ~Lean /\ ~NoTest /\ UsedAfterFree(p) = 0
                          THEN (transitions + 1) % 2 ELSE transitions
        /\ UNCHANGED <<heads, pcur, pend, direct>>

Free(b) ==
    /\ b \in live /\ live' = live \ {b}
    /\ FreeLarge(b) \/ FreeListed(b) \/ FreeMimic(b)
    /\ UNCHANGED <<variant, native, bump, grown, theirs, startup>>

\* Fault: the lists outlive the memory their blocks are in.
Emptied_KeepsLists == UNCHANGED <<heads, pcur, pend, direct>>

Emptied ==
    /\ heads' = [c \in Classes |-> <<>>]
    /\ pcur' = [c \in Classes |-> 0] /\ pend' = [c \in Classes |-> 0]
    /\ direct' = [c \in Classes |-> 0]

\* What memory held is lost track of with it: only a block in use leads back to
\* a page's header.
Remembered == [p \in PageNums |->
    IF \E b \in live : PageOf(b.at) = p THEN header[p] ELSE NoHeader]

\* The driver resets when nothing is live but what was live the first time.
Reset ==
    /\ marked => live \subseteq startup
    /\ Emptied
    /\ mark' = IF marked THEN mark ELSE cur
    /\ cur' = mark' /\ marked' = TRUE
    /\ startup' = IF marked THEN startup ELSE live
    /\ header' = Remembered
    /\ UNCHANGED <<variant, native, end, transitions, grown, live, theirs>>

\* memory_grow_only, memory_grow_touch.
OwnGrow(n) ==
    /\ \E p \in PageNums :
          /\ GrowPages(n, p)
          /\ theirs' = theirs \cup {[at |-> p * PageUnits, size |-> n * PageUnits]}
    /\ UNCHANGED <<variant, native, bump, tables, live, startup>>

Addresses == 1 .. (MaxPages * PageUnits - 1)

Next ==
    \/ /\ Cardinality(live) < MaxLive
       /\ \E l \in Layouts, a \in Addresses :
             Alloc([at |-> a, size |-> l[1], align |-> l[2]])
    \/ \E b \in live : Free(b)
    \/ Reset
    \/ OwnGrow(1)

Spec == Init /\ [][Next]_vars

-----------------------------------------------------------------------------
(* Properties.                                                             *)

Extent(b) == b.at .. (b.at + b.size - 1)

\* What is still to be given out: the bump's region and each class's page.
Unused == {cur .. (end - 1)} \cup {pcur[c] .. (pend[c] - 1) : c \in Classes}

\* The lists a free block can be taken from again.
Listed(c) == IF Mimics THEN (IF direct[c] = 0 THEN <<>> ELSE header[PageOf(direct[c])].free)
             ELSE heads[c]

\* No word of memory has two owners: the blocks in use, what the program grew,
\* the blocks on the lists, each with its whole class size, and what is still
\* to be carved or bumped never overlap, whatever was grown in between and
\* however often the allocator was rewound.
MemoryPartitioned ==
    LET size(c) == IF variant = "freelist" THEN ListBlock ELSE Block(c)
        freed == UNION {{[at |-> Listed(c)[k], size |-> size(c)] : k \in DOMAIN Listed(c)}
                            : c \in Classes}
        held == {[at |-> b.at, size |-> b.size] : b \in live \cup theirs}
    IN  /\ \A a, b \in held \cup freed : a # b => Extent(a) \cap Extent(b) = {}
        /\ held \cap freed = {}
        /\ \A u \in Unused, b \in held \cup freed : Extent(b) \cap u = {}
        /\ \A u, v \in Unused : u # v => u \cap v = {}
        /\ \A c \in Classes : \A j, k \in DOMAIN Listed(c) :
              j # k => Listed(c)[j] # Listed(c)[k]

\* A free reads its page's header: it finds the class the allocation wrote
\* there, for blocks from before the first rewind too, and the count of the
\* blocks in use on the page, so that the decrement never wraps and the
\* transition runs exactly when the page empties.
PagesKnow ==
    \A b \in live : Small(b) =>
        LET page == header[PageOf(b.at)]
        IN  /\ Mimics \/ variant = "pages" => page.class = ClassOf(b.size)
            /\ Mimics /\ ~Lean =>
                  page.used = Cardinality({d \in live :
                                  Small(d) /\ PageOf(d.at) = PageOf(b.at)})

\* Every floor keeps its side of the agreement with the driver.
Contract == INSTANCE BenchContract
KeepsBench == Contract!Spec
=============================================================================
