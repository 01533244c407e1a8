---------------------------- MODULE GlobalAlloc ----------------------------
(***************************************************************************)
(* What the program is promised (the GlobalAlloc contract that             *)
(* src/src/global.rs claims to implement): blocks large enough and aligned *)
(* for their layout, inside the words the allocator may use, disjoint      *)
(* while live; a failed call leaves every block alone; dealloc and realloc *)
(* take the layout the block has now.  Nothing is said of how.             *)
(***************************************************************************)
EXTENDS Integers

CONSTANTS Layouts,      \* [size, align]
          Words         \* the words blocks may consist of

VARIABLE live           \* the blocks: [addr, lay]

Extent(x) == x.addr .. (x.addr + x.lay.size - 1)

\* Whether x may be handed out beside the blocks of others.
Placeable(x, others) ==
    /\ x.addr % x.lay.align = 0
    /\ Extent(x) \subseteq Words
    /\ \A y \in others : Extent(x) \cap Extent(y) = {}

Blocks == [addr : Words, lay : Layouts]

Init == live = {}

Alloc == \E y \in live' \ live :
            /\ y \in Blocks /\ Placeable(y, live)
            /\ live' = live \cup {y}

Dealloc == \E x \in live : live' = live \ {x}

\* In place or moved: a moved block may not overlap the old one, which is
\* still live while its contents are copied.
Realloc == \E x \in live, y \in live' :
            /\ y \in Blocks /\ y.lay.align = x.lay.align
            /\ live' = (live \ {x}) \cup {y}
            /\ Placeable(y, IF y.addr = x.addr THEN live \ {x} ELSE live)

Next == Alloc \/ Dealloc \/ Realloc

Spec == Init /\ [][Next]_live
=============================================================================
