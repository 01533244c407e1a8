------------------------------- MODULE Backend -------------------------------
(***************************************************************************)
(* The memories of src/src/backend.rs: linear memory on the two wasm       *)
(* targets and SimMemory, the host's stand-in, which carves a linear       *)
(* memory out of a region whose contents nobody has cleared.               *)
(*                                                                         *)
(* The three are shown to keep the contract of the Memory trait (module    *)
(* MemoryContract), on which Growth and Heap rest.                         *)
(***************************************************************************)
EXTENDS Integers, FiniteSets

CONSTANTS
    SliceUnits,     \* addresses per slice (SLICE_SIZE)
    First,          \* first slice of a simulated memory's region
    Capacity,       \* slices of the region
    MaxSliceIndex,  \* MAX_SLICE_INDEX
    EarlyOthers     \* may others grow memory before the heap's first use, on the
                    \* backends whose heap base does not move with the end?

ASSUME BackendAssumption ==
    /\ EarlyOthers \in BOOLEAN
    /\ SliceUnits \in Nat \ {0, 1} /\ Capacity \in Nat \ {0}
    /\ First \in Nat /\ MaxSliceIndex \in Nat
    /\ First + Capacity - 1 <= MaxSliceIndex

VARIABLES
    kind,       \* "sim", "unknown" (wasm32-unknown-unknown) or "wasi"
    linked,     \* the end of memory the program was linked with (__heap_end)
    end,        \* size_slices
    base,       \* heap_base of "sim", __heap_base on wasm: an address
    begun,      \* the heap has read its base
    ours, theirs,
    dirty       \* slices that are not all zero

vars == <<kind, linked, end, base, begun, ours, theirs, dirty>>

Slices == 0 .. MaxSliceIndex
FirstWhole(a) == (a + SliceUnits - 1) \div SliceUnits   \* initial_free_range
Top == First + Capacity

\* from_region, with the asserts it makes, on a region HostRegion::new got from
\* the host allocator: nothing in it is known to be zero.
InitSim ==
    /\ kind = "sim"
    /\ \E initial \in 1 .. Capacity :
           /\ end = First + initial
           /\ base \in (First * SliceUnits) .. ((First + initial) * SliceUnits - 1)
    /\ theirs = Slices \ (First .. (Top - 1))
    /\ dirty \in SUBSET (First .. (Top - 1))

\* The module's memory: static data below __heap_base, the linker's gap above
\* it, of unknown contents; what the host adds later is zero.
InitWasm ==
    /\ kind \in {"unknown", "wasi"}
    /\ end \in 1 .. (MaxSliceIndex + 1)
    /\ base \in 0 .. (end * SliceUnits - 1)
    /\ theirs = 0 .. (FirstWhole(base) - 1)
    /\ dirty \in SUBSET (0 .. (end - 1))

Init ==
    /\ InitSim \/ InitWasm
    /\ linked = end /\ begun = FALSE /\ ours = {}

\* Fault: the linker's gap is taken on wasi too (review finding R-1).
HeapBase_Gap == base

\* heap_base: on wasi wherever memory ends now, saturated to the last slice
\* when there is no such address.
HeapBase ==
    IF kind # "wasi" THEN base
    ELSE IF end <= MaxSliceIndex THEN end * SliceUnits
    ELSE (MaxSliceIndex + 1) * SliceUnits - 1

\* The heap's first use: what lies between the base and the end is its own.
Begin ==
    /\ ~begun
    /\ begun' = TRUE
    /\ ours' = FirstWhole(HeapBase) .. (end - 1)
    /\ UNCHANGED <<kind, linked, end, base, theirs, dirty>>

\* SimMemory's grow, which zeroes what it hands out as wasm does.
SimGrow(n) ==
    /\ kind = "sim" /\ begun
    /\ end + n <= Top
    /\ dirty' = dirty \ (end .. (end + n - 1))
    /\ end' = end + n
    /\ ours' = ours \cup (end .. (end + n - 1))
    /\ UNCHANGED <<kind, linked, base, begun, theirs>>

\* skip_slices: a test plays somebody else who grows the memory.
SkipSlices(n) ==
    /\ kind = "sim"
    /\ begun \/ EarlyOthers
    /\ end + n <= Top
    /\ end' = end + n
    /\ theirs' = theirs \cup (end .. (end + n - 1))
    /\ UNCHANGED <<kind, linked, base, begun, ours, dirty>>

\* memory.grow answers the size it had.
WasmGrow(n) ==
    /\ kind # "sim" /\ begun
    /\ end + n <= MaxSliceIndex + 1
    /\ end' = end + n
    /\ ours' = ours \cup (end .. (end + n - 1))
    /\ UNCHANGED <<kind, linked, base, begun, theirs, dirty>>

\* The host, or libc's malloc, grows the same memory.
OtherGrow(n) ==
    /\ kind = "wasi" \/ (kind = "unknown" /\ (begun \/ EarlyOthers))
    /\ end + n <= MaxSliceIndex + 1
    /\ end' = end + n
    /\ theirs' = theirs \cup (end .. (end + n - 1))
    /\ UNCHANGED <<kind, linked, base, begun, ours, dirty>>

\* On wasi libc's malloc makes [__heap_base, __heap_end) its first segment the
\* first time it runs, which may be before or after the heap begins.
LibcTakesGap ==
    /\ kind = "wasi"
    /\ theirs' = theirs \cup (0 .. (linked - 1))
    /\ UNCHANGED <<kind, linked, end, base, begun, ours, dirty>>

Write(s) ==
    /\ s \in ours \cup theirs /\ s < end
    /\ dirty' = dirty \cup {s}
    /\ UNCHANGED <<kind, linked, end, base, begun, ours, theirs>>

Next ==
    \/ Begin
    \/ \E n \in 1 .. (MaxSliceIndex + 1) :
           SimGrow(n) \/ SkipSlices(n) \/ WasmGrow(n) \/ OtherGrow(n)
    \/ LibcTakesGap
    \/ \E s \in Slices : Write(s)

Spec == Init /\ [][Next]_vars

-----------------------------------------------------------------------------
(* Properties.                                                             *)

\* Whatever the region held, whoever grew in between and whenever libc's malloc
\* first ran, the memory keeps the trait's contract.
Contract == INSTANCE MemoryContract WITH
                size <- end, zero <- ours \ dirty
KeepsContract == Contract!Spec

=============================================================================
