--------------------------- MODULE MemoryContract ---------------------------
(***************************************************************************)
(* The Memory trait of src/src/backend.rs as its safety section states it: *)
(* a memory that only grows, the slices of a grow fresh, zero, contiguous, *)
(* nobody else's and at most the last index of the address space; and,     *)
(* from the heap base to the end of memory at the first use, memory that   *)
(* is the allocator's alone.                                               *)
(***************************************************************************)
EXTENDS Integers

CONSTANT MaxSliceIndex

VARIABLES
    size,       \* size_slices: the end of memory
    ours,       \* slices the allocator may use
    theirs,     \* slices somebody else uses
    zero        \* slices of ours that are all zero

vars == <<size, ours, theirs, zero>>

Init == ours = {} /\ zero = {}

\* heap_base is read, once.
Begin ==
    /\ ours = {}
    /\ ours' \subseteq 0 .. (size - 1)
    /\ ours' \cap theirs = {}
    /\ zero' \subseteq ours'
    /\ UNCHANGED <<size, theirs>>

Grow == \E first \in size .. MaxSliceIndex :
    /\ size' > first /\ size' <= MaxSliceIndex + 1
    /\ ours' = ours \cup (first .. (size' - 1))
    /\ zero' = zero \cup (first .. (size' - 1))
    /\ UNCHANGED theirs

\* Somebody else grows memory or takes slices that are theirs to take.
Elsewhere ==
    /\ size' >= size
    /\ theirs \subseteq theirs' /\ theirs' \cap ours = {}
    /\ UNCHANGED <<ours, zero>>

\* The allocator or its program writes.
Write == zero' \subseteq zero /\ UNCHANGED <<size, ours, theirs>>

Next == Begin \/ Grow \/ Elsewhere \/ Write

Spec == Init /\ [][Next]_vars
=============================================================================
