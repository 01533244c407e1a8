-------------------------------- MODULE Bins --------------------------------
(***************************************************************************)
(* Size classes and page geometry (src/src/bins.rs) with the decisions of  *)
(* src/src/heap.rs that rest on them: which table entry an allocation      *)
(* looks at, which header a free masks to, and when realloc leaves a block *)
(* where it is.  The numbers are the program's own, not scaled down.       *)
(*                                                                         *)
(* The state is one block of a page and the layout its owner holds.  The   *)
(* block never changes; realloc in place changes the layout, again and     *)
(* again, and every later decision is taken from the layout alone.         *)
(***************************************************************************)
EXTENDS Integers, FiniteSetsExt

CONSTANTS
    Sizes,      \* sizes blocks are asked for with
    NewSizes,   \* sizes realloc is asked for
    Aligns      \* alignments, powers of two

\* What Layout and GlobalAlloc grant: sizes are not zero, alignments are powers
\* of two and, addresses having 32 bits, at most 2^30.
ASSUME BinsAssumption ==
    /\ Sizes \subseteq Nat \ {0} /\ NewSizes \subseteq Nat \ {0}
    /\ Aligns \subseteq {2^k : k \in 0 .. 30}

WORD                == 8
SLICE_SIZE          == 64 * 1024
SMALL_MAX_OBJ_SIZE  == 10 * 1024
MEDIUM_MAX_OBJ_SIZE == 40 * 1024
LARGE_MAX_OBJ_SIZE  == 512 * 1024
MAX_NATURAL_ALIGN   == 4096
PAGE_HEADER_RESERVE == 64
DIRECT_MAX_SIZE     == 1024
DIRECT_ENTRIES      == DIRECT_MAX_SIZE \div WORD + 1
MAX_BIN             == 60
BIN_HUGE            == MAX_BIN + 1
AllBins             == 1 .. MAX_BIN
Kinds               == {"Small", "Medium", "Large"}

VARIABLES
    large,   \* LARGE_PAGES: which build this is
    block,   \* bin of the block's page, BIN_HUGE for a run of slices
    size,    \* the layout
    align

vars == <<large, block, size, align>>

DivCeil(a, n)   == (a + n - 1) \div n
RoundUp(a, n)   == DivCeil(a, n) * n
TopBit(w)       == Max({k \in 0 .. 20 : 2^k <= w})

\* bin: exact classes up to eight words, then four per doubling.
bin(s) ==
    IF s <= 8 * WORD THEN Max({DivCeil(s, WORD), 1})
    ELSE IF s > LARGE_MAX_OBJ_SIZE THEN BIN_HUGE
    ELSE LET w == DivCeil(s, WORD) - 1
             b == TopBit(w)
         IN  4 * b + ((w \div 2^(b - 2)) % 4) - 3

bin_size == [b \in AllBins |->
    IF b <= 8 THEN b * WORD
    ELSE (5 + ((b + 3) % 4)) * 2^((b + 3) \div 4 - 2) * WORD]

kind_of_bin(b) == IF b <= bin(SMALL_MAX_OBJ_SIZE) THEN "Small"
                  ELSE IF b <= bin(MEDIUM_MAX_OBJ_SIZE) THEN "Medium" ELSE "Large"

page_size == [k \in Kinds |-> CASE k = "Small" -> SLICE_SIZE
                                [] k = "Medium" -> 4 * SLICE_SIZE
                                [] k = "Large" -> 64 * SLICE_SIZE]

\* Fault: the first table entry above a size's own is missed.
direct_index_Floor(s) == s \div WORD

direct_index(s) == DivCeil(s, WORD)

\* direct_range: the table entries of a bin.
direct_range(b) ==
    LET lo == IF b = 1 THEN 0 ELSE bin_size[b - 1] \div WORD + 1
        hi == bin_size[b] \div WORD
    IN  lo .. (IF hi >= DIRECT_ENTRIES THEN DIRECT_ENTRIES - 1 ELSE hi)

MAX_BINNED_OBJ_SIZE == IF large THEN LARGE_MAX_OBJ_SIZE ELSE MEDIUM_MAX_OBJ_SIZE

classify(s, a) ==
    LET rounded == IF a > WORD THEN RoundUp(s, a) ELSE s
    IN  IF a > MAX_NATURAL_ALIGN \/ rounded > MAX_BINNED_OBJ_SIZE THEN BIN_HUGE
        ELSE bin(rounded)

\* Fault: blocks start right after the header.
block_start_Unaligned(bs) == PAGE_HEADER_RESERVE

\* block_start: aligned to the largest power of two that divides the block
\* size, capped.
block_start(bs) ==
    RoundUp(PAGE_HEADER_RESERVE,
            Max({2^k : k \in {j \in 0 .. 12 : bs % 2^j = 0}}))

blocks_per_page(b) ==
    (page_size[kind_of_bin(b)] - block_start(bin_size[b])) \div bin_size[b]

\* header_of: the start of the page of this kind around an address.
header_of(kind, addr) == addr - (addr % page_size[kind])

\* direct_size: what the allocation fast paths index the table with, if at all.
direct_size(s, a) == IF a <= WORD THEN s
                     ELSE IF a <= MAX_NATURAL_ALIGN THEN RoundUp(s, a)
                     ELSE 2^30

\* The test of dealloc's fast path: one mask on the constant instead of
\* rounding the size up.
dealloc_fast(s, a) ==
    /\ a <= MAX_NATURAL_ALIGN
    /\ s <= SMALL_MAX_OBJ_SIZE - (SMALL_MAX_OBJ_SIZE % a)

\* The header dealloc pushes the block at addr to.
dealloc_header(s, a, addr) ==
    header_of(IF dealloc_fast(s, a) THEN "Small" ELSE kind_of_bin(classify(s, a)),
              addr)

\* Fault: any smaller request stays in place, whatever its page kind.
fits_in_place_AnyKind(old, new, newSize) ==
    new = old \/ (new < old /\ 2 * newSize >= bin_size[old])

fits_in_place(old, new, newSize) ==
    \/ new = old
    \/ /\ new < old
       /\ kind_of_bin(new) = kind_of_bin(old)
       /\ newSize >= bin_size[old] \div 2

\* realloc's first test, on the two sizes alone: one entry of the direct table.
same_slot(old, new, a) ==
    /\ a <= WORD /\ old <= DIRECT_MAX_SIZE /\ new <= DIRECT_MAX_SIZE
    /\ direct_index(old) = direct_index(new)

-----------------------------------------------------------------------------
Init ==
    /\ large \in BOOLEAN
    /\ size \in Sizes /\ align \in Aligns
    /\ block = classify(size, align)

\* realloc that leaves the block where it is: both sizes look at one table
\* entry, or the bins allow it.
ReallocInPlace(s) ==
    LET old == classify(size, align)
        new == classify(s, align)
    IN  /\ block # BIN_HUGE /\ s # size
        /\ \/ same_slot(size, s, align)
           \/ new # BIN_HUGE /\ fits_in_place(old, new, s)
        /\ size' = s
        /\ UNCHANGED <<large, block, align>>

Next == \E s \in NewSizes : ReallocInPlace(s)

Spec == Init /\ [][Next]_vars

-----------------------------------------------------------------------------
(* Properties.                                                             *)

\* Addresses of the first and the last block of a page of the block's kind.  A
\* page lies at a multiple of its own size; an odd one is a multiple of no
\* greater kind's, so that a mask with too large a kind misses it too.
PageBase  == 3 * page_size[kind_of_bin(block)]
BlockEnds == {PageBase + block_start(bin_size[block]) + i * bin_size[block] :
                  i \in {0, blocks_per_page(block) - 1}}

\* However often the layout shrank in place, the block is large enough for it
\* and aligned to it by construction, with no padding and no interior pointer;
\* it lies inside its page, and a page holds at least six blocks.
LayoutServed ==
    block # BIN_HUGE =>
        /\ size <= bin_size[block]
        /\ blocks_per_page(block) >= 6 /\ blocks_per_page(block) < 2^16
        /\ \A addr \in BlockEnds :
              /\ addr % align = 0
              /\ addr >= PageBase + PAGE_HEADER_RESERVE
              /\ addr + bin_size[block] <= PageBase + page_size[kind_of_bin(block)]

\* A free masks the address with the kind the layout has now and finds the
\* header of the page the block was cut from, on either path and after any
\* chain of in-place reallocs; and the fast path takes no run of slices.
FreeFindsPage ==
    /\ block # BIN_HUGE =>
          \A addr \in BlockEnds : dealloc_header(size, align, addr) = PageBase
    /\ block = BIN_HUGE => ~dealloc_fast(size, align)

\* The table entry the fast paths look at belongs to the bin the slow path
\* allocates from, and to no other bin: the ranges tile the table.
DirectAgrees ==
    LET s == direct_size(size, align)
    IN  s <= DIRECT_MAX_SIZE =>
          /\ classify(size, align) = bin(s)
          /\ \A b \in AllBins : direct_index(s) \in direct_range(b) <=> b = bin(s)

\* The design document's bound: above the exact classes no block wastes more
\* than one eighth of itself.
WasteWithinAnEighth ==
    size \in (8 * WORD + 1) .. LARGE_MAX_OBJ_SIZE =>
        8 * (bin_size[bin(size)] - size) <= bin_size[bin(size)]
=============================================================================
