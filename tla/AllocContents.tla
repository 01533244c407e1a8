---------------------------- MODULE AllocContents ----------------------------
(***************************************************************************)
(* What the program is promised of the contents of its blocks (the         *)
(* GlobalAlloc contract that src/src/global.rs claims to implement): a     *)
(* call changes no block but the one it is about, and a resized block      *)
(* keeps what both sizes have room for.  A call that fails changes none.   *)
(***************************************************************************)
EXTENDS Integers, Sequences

VARIABLES
    live,       \* the blocks: [addr, size]
    data,       \* the words of each block
    null        \* history: the last call returned null

vars == <<live, data, null>>

Kept(S)      == \A x \in S : data'[x] = data[x]
Shorter(x, y) == IF x.size <= y.size THEN x.size ELSE y.size

Init == live = {} /\ data = <<>> /\ null = FALSE

Alloc == \E x \in live' \ live :
            /\ null' = FALSE
            /\ live' = live \cup {x} /\ Kept(live)

Dealloc == \E x \in live :
            /\ null' = FALSE
            /\ live' = live \ {x} /\ Kept(live')

Realloc == \E x \in live, y \in live' :
            /\ null' = FALSE
            /\ live' = (live \ {x}) \cup {y}
            /\ Kept(live \ {x})
            /\ SubSeq(data'[y], 1, Shorter(x, y)) = SubSeq(data[x], 1, Shorter(x, y))

\* An allocation, or a realloc, that returns null.
Fail == null' = TRUE /\ live' = live /\ Kept(live)

\* The program writes to one of its blocks.
Write == \E x \in live :
            /\ null' = FALSE
            /\ live' = live /\ Kept(live \ {x})

Next == Alloc \/ Dealloc \/ Realloc \/ Fail \/ Write

Spec == Init /\ [][Next]_vars
=============================================================================
