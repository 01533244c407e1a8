# A verification development for wasmalloc

wasmalloc is a single-threaded global allocator for WebAssembly. Linear memory only grows, in
64 KiB slices, and the engine may refuse to grow it; blocks carry no header of their own, so a
free finds everything it needs from the block's address and the layout the caller passes back.
The modules in this directory model that allocator from its source (`src/src/`) and the benchmark
that measures it (`src/bench/roofline/src/`), check the models with TLC on small instances and
prove the size classes, the page, the slice layer down to the bitmap words, the heap with its
`GlobalAlloc` contract, the linked queues with the loops that walk them, and the memory backends for
every size with TLAPS.

## 1. The system

| component | state | operations | models |
|---|---|---|---|
| size classes (`bins.rs`) | none | `bin`, `bin_size`, `kind_of_bin`, `classify`, `block_start`, `blocks_per_page`, `direct_index` | `Bins` |
| slice map (`slices.rs`, `SliceMap`) | a bitmap of free slices, one of slices that are still zero, a base, a search hint | `init`, `add_free`, `alloc`, `alloc_tail`, `free`, `try_extend`, `shrink` | `SliceOps`, `SliceMap`, `SlicePool` |
| growth policy (`slices.rs`, free functions) | none of its own; the map and the memory | `acquire` / `grow_and_alloc`, `extend_with_growth` / `grow_and_extend`, `add_region`, `initial_free_range` | `SliceOps`, `Growth` |
| page (`page.rs`) | header: list head, `used`, `capacity`, `reserved`, `free_is_zero`, queue links, `retire_expire`; the list itself lies in the free blocks | `init`, `pop`, `push`, `extend` | `Page`, `Contents` |
| heap (`heap.rs`) | queues of pages per bin and one of full pages, the direct table, occupied bits, the retired range, a call counter | `alloc`, `alloc_zeroed`, `dealloc`, `realloc` and the slow paths under them | `Heap` (whole calls), `Queues` and `PageLists` (links and loops), `Contents` (bytes) |
| memory backend (`backend.rs`) | the end of memory; a simulated memory has a region it carves it from | `heap_base`, `size_slices`, `grow`, `SimMemory::skip_slices` | `Backend`, `MemoryContract` |
| global allocator (`global.rs`) | the one heap | the four methods of `GlobalAlloc` | `GlobalAlloc` (placement), `AllocContents` (contents), as the contracts the heap implements |
| floor allocators (`bench/roofline/src/alloc`) | a bump pointer and what is stacked on it: one free list, size classes, pages, an imitation of the fast path with knobs; a mark | `alloc`, `dealloc`, `realloc` by default, `reset` | `Floors`, `BenchContract` |
| benchmark workloads and driver (`bench/roofline/src/workloads.rs`, `bin/roofline-wasi.rs`) | tables of blocks in static memory, the phase of the driver | twelve workloads with set-up and tear-down; warm-up, sampling, reset | `Workloads` |
| model-based tester (`testing/`), tests, Kani harnesses, fuzz targets, other benchmarks, scripts | | | not modelled: they drive or measure the allocator |

How they interact. The program calls the global allocator, which calls the heap. A request of a
bin pops a block from the page the direct table names, else from the head of the bin's queue, else
`find_page` walks the queue: pages without room are parked in the full queue, a page with room is
moved to the front, and when there is none a fresh page takes a run of slices. Anything larger
than the largest binned object, or over-aligned, is a run of slices of its own. Runs come from the
slice map; when nothing fits the heap releases its empty pages, and only then does the growth
policy ask the backend for more memory. A free pushes the block on its page, brings a parked page
back, and retires an emptied page: it keeps a countdown (`retire_expire`), aged every so many slow
searches. The benchmark puts any of the floor allocators in the place of the global one; its driver
runs each workload many times and rewinds the allocator between, which is allowed only because
nothing is live then but what was live at the first rewind.

What is hard. There are no threads and no re-entry, so one call is one step. The difficulty is in
what survives between calls and in what the allocator does not control:

- the fast paths touch neither countdowns nor queues, so both are stale when the slow paths read
  them;
- someone else (wasi-libc's malloc, the host) grows the same memory, before the first allocation,
  between calls, and between reading the end of memory and growing it;
- any grow may be refused, and what one call grew before it failed must stay usable;
- free-list links lie in memory that programs have written anything into;
- the walks over a queue move and free the very pages they stand on, having saved the next one;
- the driver rewinds memory under the floors' feet, with blocks from before the first rewind live;
- the layout of a block changes under in-place `realloc`, and everything later is computed from
  the layout alone;
- bitmap words, class edges, alignments and the last slice of the 4 GiB address space have
  off-by-one boundaries.

What makes each part correct:

- *slice map*: a search returns the lowest aligned fit if there is one, wherever words and the hint
  split the bitmap; claims and releases touch exactly their slices; a zero mark is never stale.
- *growth policy*: every slice has one owner and none is lost; a grow that succeeds in place
  serves the request that caused it; a buffer at the top of memory is extended without a copy.
- *page*: no block is lost or handed out twice; `alloc_zeroed` gives zeros; held blocks are not
  written to.
- *heap*: queues, table and bits agree; every free finds its page; an empty page is always on its
  way to release; memory grows only when nothing else could serve the call; and, seen from
  outside, the `GlobalAlloc` contract: also for what is in the blocks, zeros where they were asked
  for and the old bytes where a block moved.
- *memory backend*: whatever it is, a grow returns fresh, zero, contiguous slices nobody else has.
- *floors and workloads*: no memory is handed out twice, whatever was freed, grown or rewound; and
  the driver does rewind only then.
- *size classes*: a block is large enough and aligned by construction; a free masks to the page the
  block was cut from.

`PROJECT.json` lists the hazards line by line, with the properties that watch each of them.

## 2. The modules

```
SliceOps <-- EXTENDS -- Growth <------- GrowthProofs
   ^ ^ ^-- EXTENDS -- Heap <-- EXTENDS -- HeapProofs
   | |                Heap ------ INSTANCE --> GlobalAlloc     (placement)
   | |---- EXTENDS -- Contents -- INSTANCE --> AllocContents   (contents)
   |------ EXTENDS -- SliceOpsProofs                           (under GrowthProofs and HeapProofs)
SlicePool <-- INSTANCE -- SliceMap <-- EXTENDS -- SliceMapProofs   (the bitmap implements the map)
PageLists <-- INSTANCE -- Queues <-- EXTENDS -- QueuesProofs   (links implement sequences)
Page <-- EXTENDS -- PageProofs
MemoryContract <-- INSTANCE -- Backend <-- EXTENDS -- BackendProofs
Bins <-- EXTENDS -- BinsProofs
BenchContract <-- INSTANCE -- Floors        Workloads
```

**SliceOps** has the map as a value `[base, free, zero]` with sets of absolute slice indices, and
every operation of the slice layer as an operator. What `memory.grow` answers is not the
allocator's choice, so an operation that may grow is the *set* of its outcomes: the engine may
refuse, and the region may start any `g \in Gaps` slices above the end that was read, the slices
between belonging to someone else. `Growth`, `Heap` and `Contents` share these operators, so what
is shown of the slice layer alone is about the same definitions the heap runs on.

**SliceMap** is the same map one level down: bitmap words, the hint, the word scans for the page
sizes, the first-fit scan over runs, the tail search with its masks. A word is the set of its
set bits; what the code does by shifts and masks within one word is a set operation here, what it
does across words is kept. **SlicePool** is the state machine over the map value that `SliceMap`
implements: the refinement maps the words to sets of absolute slices and forgets the hint.

**Growth** is the slice layer as a state machine. `wasi` selects the target: with `wasm_heap_base`
of the wasi build the heap starts at the end of memory it finds when it first runs, and someone
else may have grown it before. `foreign`, `written` and `top` are history: slices of others, slices
that may hold something else than zeros, and the run at the top of memory, remembered for as long as
nothing above it was taken: holes below it may be filled and requests refused meanwhile.

**Page** is one page with the contents of its blocks: the first word, which is the link while a
block is free, and which of the other words are not zero. A request may ask for fewer words than the
block has, and `alloc_zeroed` clears no more than it asks for; the slack of a recycled block keeps
what it held (a request shorter than a word counts as one). The program writes anything into a block
it holds, addresses of other blocks included. `list` is history: the code has only the head and the links.

**Heap** is the heap. One call of `alloc`, `dealloc` or `realloc` is one action, computed by
operators that follow the code's functions one by one (`FindPage`, `CollectRetired`, `AcquireRun`,
`HeapRealloc`, ...). Queues are sequences here, and a page's free list is a sequence of block
indices: `Queues` has the links of the first, `Page` and `Contents` those of the second.

**Queues** is the heap again with what a queue is made of: first, last and count, `next` and `prev`
in the page headers, the flag of a parked page, the direct entry. One iteration of a loop is one
action (`SearchStep`, `CollectStep`, `ReleaseStep`, ...), so the page a walk has saved to visit
next may be the one an iteration moves. `w` is the running call: which loop it is in, the cursor,
the candidate of the search. A page is a slot of memory and its blocks are counts. **PageLists** is
what the queues promise: lists, each page in one of them, an operation moves one page and keeps the
order of the others.

**SliceOpsProofs** has the lemmas about the slice operators, on which the theorems about `Growth` and
about `Heap` both rest. **HeapProofs** goes from the bottom up: sequences, the type of the heap
value, the queue operations, the joint invariant, the geometry of pages, retirement and release,
slices from the map, then the paths of `alloc`, `dealloc` and `realloc`, the steps and the theorems.

**Contents** has memory itself, word by word: page headers, intrusive links, what the program wrote,
runs without headers, over the same slice operators. A free writes its link into the block, a zeroed
allocation trusts `free_is_zero` or a run's zero mark, `realloc` extends, shrinks, or copies and
frees. Which page serves is left open, as it is `Heap`'s business. **AllocContents** is what the
program is promised of its bytes: a call changes no block but the one it is about, a resized
block keeps the common part, and a call that returns null changes none. `null`, whether the last step
was such a call, is history in both: without it a failed call could pass for a write of the program.

**GlobalAlloc** is what the program is promised, in forty lines: aligned, large enough, disjoint
while live; a failed call changes nothing. It says nothing of pages, slices or growth.

**Bins** has the functions of `bins.rs` and the decisions of `heap.rs` that rest on them, with the
program's own constants. Its state is one block and the layout its owner holds, which in-place
`realloc` changes again and again.

**Backend** has the memories that implement the `Memory` trait: linear memory with the linker's heap
base, linear memory on wasi with the base at the end that is found, and `SimMemory`, which carves a
memory out of a region nobody has cleared. **MemoryContract** is the safety section of the trait as
a state machine over slices: ours, theirs, zero. `Growth` and `Heap` assume of memory what it says.

**Floors** is the family of floor allocators: which of them, and whether it is built for wasm or for
the host, is chosen in the initial state (`variant`, `native`). The program may grow memory itself
between calls. **BenchContract** is what the driver needs of any of them.

**Workloads** is the other side: the driver, from the warm-up to the report, and the twelve
workloads it times, one action per call of the allocator, over any allocator at all; every
allocation may fail, which aborts the program. The two meet in one condition. `BenchContract` lets
the driver rewind only when no block is live that was not live at the first rewind; `DeadAtReset`
is that condition, shown of the driver.

Definitions keep the source's names where they can. A definition named `X_Something` stands right
before `X` and is `X` with one plausible mistake; it takes no part in the specification. Putting
it in the place of `X` must break the property `PROJECT.json` pairs with it, which shows that the
property depends on the code it is about.

## 3. The runs

| run | question | instance | states |
|---|---|---|---|
| `growth` | slices under refused, foreign and non-contiguous growth | 10 slices of memory, a map of 8, 2-slice words, gaps of 0 and 1, runs of 1 to 3, alignments 1, 2, 4, both targets | 92 thousand |
| `heap_small` | queues, countdowns, direct table, empty pages against growth | 2 direct bins, pages of 2 and 1 blocks, 5 slices, one retired page per bin | 267 thousand |
| `heap_large` | pages against runs of slices, in-place `realloc` chains, someone else growing memory; the contract | 3 bins, of which 2 share a page kind, runs of 1 and 2 slices, one over-aligned layout | 106 thousand |
| `page` | one page and its blocks | 3 blocks of 3 words, batches of 2, requests of 1 to 3 words | 44 thousand |
| `slice_map` | words, hint and masks against the map value | 2 words of 4 bits, base at slice 4, last slice 11 | 32 thousand |
| `bins` | arithmetic of classes, masks and the table | the real constants, see below | 50 thousand |
| `bins_doc` | the documented bound on internal waste | the same | violated |
| `queues` | links and loops against lists; termination | 3 pages, 2 bins of 3 and 1 blocks, one of them in the direct table | 203 thousand |
| `contents` | words of memory through alloc, free and `realloc` | 4 slices of 5 words, pages of 2 blocks of 2 words, sizes 2, 5, 8, 2 live blocks | 172 thousand |
| `backend` | the three memories against the trait | 2 addresses per slice, a region of 4 slices, 5 slices of address space | 19 thousand |
| `floors` | the floors under alloc, free, foreign growth and reset | 8 variants, on wasm and on the host, pages of 8 units, 4 pages, 2 live blocks, 3 layouts | 262 thousand |
| `workloads` | the driver's side of the benchmark | 2 repetitions, 2 or 3 warm-up rounds, tables of 3 | 43 thousand |

What they show, property by property:

- `Exclusive`, `Accounted` (Growth) and `SlicesAccounted` (Heap): every slice below the end of
  memory is free, handed out or someone else's; never two of these, never none. This holds through
  refused grows, regions that land elsewhere and requests that fail after growing. On wasi it needs
  the heap base to be read late (`HeapBaseNow`).
- `InsideMemory`: nothing at or past the end of memory, the end of the map, or in the last slice of
  the address space, whose end address does not fit a `usize`.
- `ZeroExact`, `FlagSound`, `ZeroedIsZero`: the two shortcuts of `alloc_zeroed` (a zero run, a page
  whose blocks are known zero) are taken only when they are right, so that every word of the request
  is zero, though not the slack behind it; at the slice level no zero mark is lost either. `ZeroedReadsZero` (Contents) is the end of that chain: whatever the memory went
  through, the program reads zeros.
- `RunsAligned`, `ContiguousGrowthServes`, `FailsOnlyClipped`: the sizes computed before a grow are
  right. A contiguous grow always serves the request; a request that failed after the second grow
  reached past the usable limit. These are debug assertions of the code, asked of every request in
  every reachable state.
- `TopRunExtends`: a run placed at or grown at the top of memory is extended in place as long as
  nothing above it was taken, whatever was acquired from holes below it, freed, shrunk or refused
  between two of its growths.
- `FailureKeeps`: memory never shrinks, foreign slices stay foreign, and a request that is not
  served takes no free slice away.
- `BlocksAccounted`, `QueuesValid`: every live block masks, with the layout its owner holds now, to
  a page of its kind that holds a handed-out block of sufficient size at that very address; used
  counts and free lists add up; the queues, the occupied bits and the direct table agree; a parked
  page really has no room.
- `EmptyPageCountsDown`, `RetiredBounded`: between calls an empty page is in its bin's queue with a
  countdown running, and no bin keeps more than its share of them, however stale the countdowns.
- `GrowthReleasesEmpty`, `GrowthIsLastResort`: no page that was empty survives a call that grows
  memory, served or not, and an allocation grows memory only if no page of its bin had room anywhere in its queues
  and no fit was free or would be free once the empty pages are released.
- `ImplementsContract`: the heap implements `GlobalAlloc`; the refinement mapping is `live` itself.
- `SearchesExact`, `ImplementsPool`: the bitmap implements the map value. The searches are compared
  with their definition over sets for every request in every state, so a hint or a mask that hides
  a run is seen; the refinement shows claims, releases and what they say of zeros.
- `BlocksPartitioned`, `ListSound`, `LiveUntouched`: the intrusive list is the list it should be,
  and no operation of the page writes to a block the program holds.
- `LayoutServed`, `FreeFindsPage`, `DirectAgrees`: a block is large and aligned enough for every
  layout it may hold, a free masks to the page it was cut from, and the direct table names the bin
  `bin` would. The page lies at an odd multiple of its own size, so a mask that is too wide misses its
  header as one that is too narrow does.
- `LinksValid`, `ListsKept`: at every step of every loop the two directions of a queue are the same
  list, its count, its flags and its direct entry agree with it, and unlinking, requeueing and
  freeing change it as the lists of `PageLists` change; `remove` and `push_back` on queues of one
  and two pages are where a link is forgotten.
- `CursorInQueue`, `CallReturns`: a walk never stands on a page that left its queue, although its
  own iterations move and free pages; and every call returns.
- `KeepsContents`: `realloc` delivers the common part of the block, in place, shrunk, extended into
  the slices behind or moved, and no call changes a block it is not about. A call that returns null
  changes no block at all, the one it is about included, after whatever was released, grown or
  refused on the way: `AllocContents` has `Fail` apart from the program's writes for that.
- `KeepsContract`: each memory implements the trait's contract.
- `MemoryPartitioned`, `PagesKnow`, `KeepsBench`: what a floor has not used, what lies on its lists
  and what is in use are disjoint, through resets that bring back the lists of the first one; a page
  header is where the mask looks for it and says what is free and used there; no allocation returns
  memory in use.
- `TablesAgree`, `DeadAtReset`: the workloads free each block once with the layout it has, also
  after a swap-remove or a `realloc` in the middle of the table, and nothing new is live when the
  driver rewinds.

`bins_doc` is a disagreement between a document and the code. The design document
(`docs/design/2026-09-01-wasmalloc.md`, "Size classes") gives 12.5 percent as the worst internal
waste, and a comment on `LARGE_PAGES` in `bins.rs` repeats it; four classes per doubling waste up
to a fifth of a block (65 bytes take 80). The bound at the head of `bins.rs`, a quarter of the
request, is right.

One comment is contradicted by the code without a run: `skip_slices` (`backend.rs`) says that a
region another party took leads to a non-contiguous grow, which is so only once the heap has read
its base. Taken earlier, on a memory whose base is fixed, the slices lie between the base and the
end, and the heap takes them for its own. `Backend` has the case under the constant `EarlyOthers`;
the run and the proof assume that it does not happen, which is how the tests of the heap use it and what the
contract of `heap_base` asks of a linear memory.

**Bounds, and why they are enough.** The interesting cases of the slice layer are relations of a
few numbers: an end of memory that is or is not aligned, a region that starts at it or one slice
later, a map that ends before memory does, a base that is or is not a multiple of the alignment.
The `growth` instance has all of them: memory (10) outgrows both the map (8 from the base) and the
last usable slice (9), the base is rounded down from slice 1 to 0 on one target and depends on the
memory found on the other, alignment 4 exceeds the word of 2. In the heap, pages of one and two
blocks make every page pass through empty, partial, full and back within a few calls; a countdown
of two rounds, a collection at every second search and windows of one or two pages make all of the
staleness happen that the real constants (64, 1000, 3) only delay. Blocks that straddle a slice
boundary of a two-slice page exist in `heap_large`, so a mask of the wrong size is seen. In
`slice_map`, runs and searches cross the word boundary and the map ends below the last slice in
one word and at it in another. `Bins` is not scaled down. Its functions are constant between two
class edges, and an alignment maps a size to a multiple of it, the smallest of which in each class
is the rounding of the size one above the class below: so the edges and their neighbours, with
every alignment up to one past the largest the pages serve, represent all sizes; the sizes of the
direct table are all enumerated.

Bounds that appear in guards: `MemMax` (`MaxPages` in `Floors`, `MaxGrows` in `Workloads`) is where
the engine stops granting memory, which it may do anywhere; `Gaps` bounds what someone else takes at
once; `MaxLive` how many blocks the program holds in `Contents` and `Floors`.

**Deadlock** is checked everywhere except in `bins` and `bins_doc`, where a layout may have no
further in-place neighbour and the chain of reallocs ends; in `backend` and `floors`, where memory
that is full and in use leaves nothing to do; and in `workloads`, where the program ends.

**Fairness.** `Queues` has `WF_vars(Loop)`: a thread that is inside a call goes on, since nothing in
a loop waits for anything. Nothing obliges the program to call again (`Call` has no fairness), so
what follows from it is `CallReturns`: every call returns, although its loops edit the lists they
walk. No other module assumes fairness or claims liveness. Nothing in the code runs by itself: a
retired page is released only if the program keeps calling, and the aging walk is documented as a
hint. What the code does promise about release is a safety property, `GrowthReleasesEmpty`, tied
to the call that needs the memory.

## 4. The proofs

`PageProofs` proves, for every number of blocks and every batch size, what the `page` run checks,
and the types besides, and for requests of any length up to the block's:
`PageTypeCorrect`, `FreeListSound`, `NoBlockTwice`, `ZeroFlagSound`, and the action properties
`AllocZeroedZeroes` and `HeldBlocksUntouched`. The only assumptions are those of `Page`: at least
one block, a batch of at least one, a block of at least one word, and a junk word that is no block
address.

None of the four invariants is inductive alone. `Pop` makes the *link* in the head block the new
head, which is a block of the list only because the links spell the list (`ListSound`) and the
head is not live (`BlocksPartitioned`), so that no program wrote over its link; the count of live
blocks is right after `Push` only because the pushed block was not in the list; and the zero flag
speaks of the blocks of the list and of those above `capacity`. The inductive invariant `IInv` is
the conjunction of the four, and `NextIInv` has one step per action. The lemmas under it are about
sequences: `HeadFacts` (what lies at the head of a non-empty list), `Links` (the links of a list
from which the head was taken, or to which one was put, or a batch), `PopKeeps`, `PushKeeps`,
`ConcatFacts` and `ExtendKeeps`.

`GrowthProofs` proves for the slice layer, for every memory, map, word size, gap, run length,
alignment and growth policy, on both targets: `TypeSafe`, `ExclusiveAlways`, `AccountedAlways`,
`InsideMemoryAlways`, `ZeroExactAlways`, `RunsAlignedAlways` and the action property
`FailureKeepsAlways`. It assumes what `SliceOps` and `Growth` assume: the engine grants at most the
address space (`MemMax <= MaxSliceIndex + 1`), a slice has at least two bytes, the linker's heap
base lies in the initial memory, and the map describes all of that memory, which `add_free`
asserts.

The argument rests on one relation, `MapInv` (`SliceOpsProofs`), between a map, an end of memory,
the slices handed out, those of others and those ever written. `Exclusive` alone is not inductive: a
region that `memory.grow` returns at or above the end is disjoint from the free and the handed-out
slices only because all of these lie below the end (`InsideMemory`), its slices may be marked zero
only because nothing ever written lies there, and a run may be freed dirty only because it is among
the written ones. Three lemmas show that the primitives of the map keep `MapInv` (`ClaimKeeps`,
`ReleaseKeeps`, `RegionKeeps`), a fourth that slices taken by someone else do (`OtherKeeps`). From
these every outcome of a request is either `Served` or `Refused` (`AcquireOutcomes`, through the
first and the second grow of `grow_and_alloc`; `ExtendOutcomes`), and every action is handing out,
giving back or replacing a run. The first use of the map is where the two targets differ: on wasi
the base is the end of memory found, so nothing becomes free (`WasiBase`, with the saturated address
of a full memory); on the other target the slices below the first whole one belong to the program
(`LinkerBase`).

The same module proves the rest of what the `growth` run checks, under the same assumptions:
`ContiguousServesAlways`, `FailsOnlyClippedAlways` and `TopRunExtendsAlways`. The first two follow
from what a request begins with (`m.base <= end`) and from arithmetic. `LeastExists` says that a
search returns something whenever anything fits (by well-foundedness of the numbers), `PadAligns`
that the slack before an aligned start is `Pad` and less than the alignment, `RegionFree` that a
region below the usable limit becomes free as a whole; so a contiguous region of the needed length
holds a fit (`ContiguousFits`), and a region anywhere that is long enough for the worst start does,
unless it was clipped (`WorstFails`). `ExtendCases` says the same of an extension: it ends in the
map, refused with nothing changed, cut off by slices someone else took, or in the contiguous region.
The third needs an invariant of its own, `TopInv`: nothing but free slices lie above the run at the
top. It is kept by the extension of another run only because that run lies below (its start is not
free) and cannot reach past the start of the one at the top (`OtherExtended`). An acquisition keeps it
in the same way (`AcquireTop`): of the ways it can end (`AcquireCases`), one that is refused or served
from a hole leaves what lies above the top run alone (`BelowTop`), and one that had to grow memory
cannot come to lie below, where nothing fitted.

`HeapProofs` proves every invariant and action property that the two heap runs check, and that the
heap implements `GlobalAlloc`, for every table of classes and page sizes, every memory, growth
policy and set of layouts: `QueuesStayValid`, `EmptyPagesCountDown`, `RetiredStayBounded`,
`SlicesStayAccounted`, `BlocksStayAccounted`, `GrowthGivesUpEmpty`, `GrowthStaysLastResort` and
`HeapKeepsContract`. It assumes `SliceAssumption` (above) and three assumptions of `Heap`:

- `HeapAssumption`: counts and sizes are numbers, block sizes increase with the bin, the heap base
  lies in the initial memory and the map describes that memory (`add_free` asserts it);
- `PageAssumption`: a page of every bin has room for a block (a unit test of `bins.rs` asks for six,
  of every bin);
- `AlignAssumption`: alignments and the slice size divide one another, and the natural alignment
  of a layout's class is a multiple of the layout's alignment. The first is so because both are
  powers of two (`Layout` promises it); the second is the argument in the comment of `block_start`,
  which a unit test and a Kani harness of `bins.rs` check.

All three are evaluated by TLC on the instances of the heap runs, and `BinsProofs` shows that the
program's own table has what they ask of it (`BinsAscend`, `BlocksInPage`, `ClassServes`).

The inductive invariant is `IInv`: the heap was never used and holds nothing, or it is
`Sound`. `Sound` has six parts, and none of them is kept without the others:

- `QueuesOk`: what `QueuesValid` says. A new page is in no queue only because its slices were free
  and pages own theirs;
- `SlicesOk`: pages and runs own disjoint slices and `MapInv` relates them to the map. The slices
  that a release gives back are one page's only because pages do not overlap;
- `BlocksOk`: a live block is a block in use of exactly one page, of a class the page serves, and
  every block in use is live. A free decrements the right count only because masking leads to the page, which
  needs pages to be aligned to their size (`SlicesOk`); a released page takes no live block with it
  only because the counts are exact;
- `Settled`: but for a page the running call is busy with, an empty page counts down and is not
  parked. That a queue walk for empty pages need not look at the full queue rests on it;
- `Bounded`: pages that count down are at most so many per bin. `retire` gives a page a countdown
  because the *queue* has few pages; that the count of pages follows needs `QueuesOk`
  (`BoundedByQueue`);
- `Typed`: what the program holds are addresses with layouts, aligned for them.

Two parameters of `Sound` make it hold in the middle of a call: `X`, pages the call has emptied and not
yet retired, and `E`, slices it has taken and not yet given to a page or a run. Each path is then a
chain of lemmas about sound heaps: `CollectTidies` and `ReleaseTidies` (the walks that free pages),
`AcquireKeeps` (the map, release, growth), `AddPage`, `FindPageKeeps` (the window of candidates,
parking, the fresh page), `PopKeeps`, `AllocHugeKeeps`, `AllocKeeps`; `PushKeeps`, `RetireKeeps`,
`TransitionKeeps`, `DeallocKeeps`; `MoveKeeps`, `ShrinkKeeps`, `GrowRunKeeps`, `ExtendBlockKeeps`,
`ReallocKeeps`. `Tidied` says what a walk may have done to the pages (some empty ones are gone), and
`FreeOrEmpty` that it made no slice available that was not before; the two growth theorems follow
from `Resort` and `LastResort`, which carry that through the call, and from `GivenUp`, which is all
that can be said of a `realloc` that first allocates and then frees.

The refinement then is about addresses. A word of a run lies in the run's slices (`RunWords`), a
word of a small block in its page's (`SmallWords`), and blocks of a page are one block size apart
(`BlockWords`); so no two live blocks share a word (`ExtentsApart`), and all words are between the
first whole slice and the last one of the address space (`ExtentsInside`), the one because what
lies below belongs to the program from the start and foreign slices are never handed out, the
other because of `MapInv`. `BlockAligned` and `RunAligned` say that blocks are aligned. A block
that moves is placed beside the one it replaces, which is still live while its contents are
copied; `Beside` remembers the sound heap in which they both were.

`SliceMapProofs` proves, for every number and width of words, base, run length and alignment (powers
of two or not), that the searches are exact (`SearchesStayExact`) and that the words and the hint
implement the map of free slices (`WordsImplementPool`): the bitmap that runs is the map value over
which everything about `Growth` and `Heap` is proved. It assumes `SliceMapAssumption`: words have
bits, the groups with a scan of their own (1, 4, 8, 64) divide a word, requests are not empty. The
invariant (`MapInvariant`) has three parts the code nowhere writes down together: the base is a
whole number of words, without which the alignment of a bit in its word would say nothing of the
slice's (`GroupAligned`); no word below the hint has a free bit, which every claim keeps because it
only clears bits and every release because it lowers the hint (`ReleaseMoves`); and the runs handed
out lie in the map, so that what they give back does. Two lemmas are about the walks over the words,
up and down (`WalkUp`, `WalkDown`), and each scan is one of them over some bitmap: the free bits,
the clear ones (`ClearSlices`), the places of whole groups (`GroupSlices`). First fit is a recursive
function, and an induction over it is out of reach; instead `ScanStep` says that one turn is right
if the turn it leads to is, from which both follow: the equation of the function has a solution, and
the solution taken is right from the last position down (`FindGeneral`). `MaskSlices` and
`WordByWord` turn updates of words into updates of sets, `AbsolutePiece` relative slices into
absolute ones.

`QueuesProofs` proves, for every number of pages and bins, every table of block counts and
countdowns and every policy of the walks, what the `queues` run checks of safety: that every queue
is valid between any two iterations of any loop (`LinksAlwaysValid`), that the page a loop has saved
is still in the queue it walks (`CursorStays`), and that the links implement the lists of
`PageLists` (`QueuesAreLists`). It assumes `QueuesAssumption`: the bins of the direct table are bins
and those below `DIRECT_MAX_SIZE` are among them, a page of every bin has blocks and a countdown,
and an extend links a block at least.

`LinksValid` follows the links from the first page of a queue, and what is met after an operation
cannot be had from what was met before, page by page. So the invariant (`Inv`, `QueuesInductive`)
turns it around: *there are* lists, one for each queue, that the links spell (`Spells`). It has
three parts. `Chains`: the first, last, count, occupied bit and direct entry of every queue and both links of its
pages say what its list says, and no page is in two places. `PageOk`: a page in a list is
where its header says it is, in the queue of its bin or, with no room left, in the full one; a page
in no list is nobody's, its header cleared. `WalkOk`: what the loop has saved is in the list it
walks, and a candidate of `find_page` has room or can get it, so the walk that parks pages without room
never parks its own candidate.

`PushFrontIs`, `PushBackIs` and `RemoveIs` say field by field what the three operations write,
with all the cases in which the neighbour written to is the same page twice or none; `PushFrontChains`,
`PushBackChains` and `RemoveChains` that the lists they leave are the ones `PageLists` says. Every
compound operation is then steps about one page which leave the other pages in place (`Did`, `DidThenDid`),
during which that one page's header may be in disagreement (`SpellsBut`): `MoveToFullKeeps`,
`FreePageKeeps`, `RetireKeeps`, `TransitionKeeps`, `GrantedKeeps`. There is one lemma for each
action after that, each of which names the list operation the action is (`ListStep`). `CurAfter`
with `WithoutOthers` is the argument of the code's comment, that the next page is read
before its predecessor is freed: it is another page, and a list without its predecessor still has it.
That a walk along the links meets exactly the list (`MeetsList`) is last. The walk is a recursive
function of one step more than there are pages; a list that has no page twice is no longer than
memory (`ShortList`), and two solutions of the equation do not differ at a lowest place (`MetIs`).

`BinsProofs` proves for every size and every alignment, in both builds of `LARGE_PAGES`, what run
`bins` checks next to the edges of the classes: `LayoutAlwaysServed`, `FreeAlwaysFindsPage` and
`DirectAlwaysAgrees`. It assumes `BinsAssumption`: sizes are not zero, which `GlobalAlloc` asks of
its callers, and alignments are powers of two up to 2^30, the largest a nonempty `Layout` has where
addresses are 32 bits wide. The unit tests and Kani harnesses of `bins.rs` check the functions one at
a time; the theorems are about what `alloc`, `dealloc` and any chain of in-place `realloc`s make of
them together.

Everything rests on two facts. `BinSteps`: every bin is some multiple of a power of two, its step, and
the bin below it is one step smaller. `BinIsBest`: `bin`, which is arithmetic on the top bits, gives
the one bin that holds the size while the next smaller one does not; so comparing bins is comparing
sizes (`BinsAscend`, `BinOnly`). A size rounded up to an alignment then lies in a class that is a
multiple of that alignment (`RoundedClass`): either the alignment divides the step, or the rounded size
is a multiple of the step and so the class itself. `StartIs` carries the alignment from the class to
the first block, `BlocksInPage` has the room. The invariant of the chain of reallocs is `IInv` with
`InClass`: the layout's class is never above the block's, of its kind of page, and the block's class
is aligned to the layout's alignment; that the layout's own class is aligned to it would not do,
because a free computes the class of the shrunk layout and the block has the old one.
`SameSlotIs` is `realloc`'s shortcut, two sizes at one entry of the table.
`FastIsSmall` is the mask of `dealloc`'s fast path. `WasteBelowAFifth` is what holds instead of the
bound that run `bins_doc` refutes: less than a fifth of a block is wasted, not an eighth (a quarter of
the size, as the Kani harness `bin_covers_and_bounds_waste` puts it).

`BackendProofs` proves `MemoryKeepsContract`: under `~EarlyOthers` every memory implements
`MemoryContract`, for every slice size, region and address space. The contract is not inductive. That a grown
slice is fresh and zero rests on what lies above the end of memory (`EndBounds`), of which the
contract does not speak; that what the heap takes at its first use is nobody else's rests on
`BaseFree`, which holds only until then. `BeginTakes` is that first use, with the rounding of the
base up to a whole slice (`WholeAbove`, `WholeBelow`) and the saturated address of a full memory
(`WholeAtEnd`, `WholeAtLast`); `NextIInv` has one step per action, and `StepRefines` maps each of
them to a step of the contract. What `Growth` takes `memory.grow` to do is among these promises.

Model-checked only: the contents of blocks with their refinement of `AllocContents`, the floors and
the workloads. Out of the prover's reach altogether: liveness (`CallReturns`). The library's induction theorems
cannot be instantiated with the installed provers; where the heap proofs meet a recursive function
(`Without`, which takes pages out of a sequence), the lemma about it goes over its length by the
well-foundedness of the numbers instead (`UpTo`, `KeptExists`, `KeptIs`), as does the one about
first fit.

## 5. Not modelled

- Large pages in the heap: `LARGE_PAGES` is false in the shipped build; `Bins` has both builds.
- The validators of pages and heap (`validate`), which read and change nothing: what they check is
  stated as invariants.
- The conversion of an address to a pointer, and the arguments about provenance: no state.
- `counting.rs`, a counter around the allocator that only the report reads, and the exports of the
  benchmark for its JavaScript driver, which follows the same protocol.
- Random draws and measured times of the benchmark: any value. The knob of a 32-bit used count
  behaves as the 16-bit one, whose range the blocks of a page do not exhaust.
- The tester, the tests, the Kani harnesses, the fuzz targets, the scripts: they are not the
  allocator.

## 6. What is left

1. Two allocators on one wasi memory: this heap and a dlmalloc-like one that also keeps what it
   grew, instead of the anonymous other party.
2. Proofs: `MemoryPartitioned` of the bump floor; `KeepsContents` of the words of memory.
