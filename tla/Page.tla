-------------------------------- MODULE Page --------------------------------
(***************************************************************************)
(* One page and its intrusive free list (src/src/page.rs), with the        *)
(* contents of its blocks.                                                 *)
(*                                                                         *)
(* A block is its index.  Its contents are its first word, which holds the *)
(* free-list link while the block is free, and which of its other words    *)
(* are not zero.  A request may be shorter than the block; one shorter     *)
(* than a word counts as a word.                                           *)
(* The null link and the zero word are the same value, Nil, and a program  *)
(* may leave anything in a block's first word, a block's address included. *)
(*                                                                         *)
(* list is a history variable: the free list as a sequence.  The code has  *)
(* only the head and the links; ListSound says that they spell list.       *)
(***************************************************************************)
EXTENDS Integers, Sequences, FiniteSets

CONSTANTS
    Reserved,   \* blocks the page holds (blocks_per_page)
    Batch,      \* blocks one extend links at most (MAX_EXTEND_SIZE / size)
    BlockWords, \* words of a block
    Junk        \* a word that is neither zero nor the address of a block

ASSUME PageAssumption ==
    /\ Reserved \in Nat \ {0}
    /\ Batch \in Nat \ {0}
    /\ BlockWords \in Nat \ {0}
    /\ Junk \notin Int

Nil    == -1
Blocks == 0 .. (Reserved - 1)
Words  == Blocks \cup {Nil, Junk}
Others == 1 .. (BlockWords - 1)     \* the words after the first
Asked(n) == 1 .. (n - 1)            \* those of them in a request of n words

VARIABLES
    free,       \* head of the list, Nil when empty
    used,       \* blocks handed out
    capacity,   \* blocks whose links have been initialised
    isZero,     \* free_is_zero
    word,       \* first word of each block
    dirty,      \* the other words of each block that are not zero
    live,       \* blocks the program holds
    list        \* history: the free list

vars == <<free, used, capacity, isZero, word, dirty, live, list>>

\* page::init on a page whose slices are known zero or are not.
Init ==
    /\ free = Nil /\ used = 0 /\ capacity = 0
    /\ isZero \in BOOLEAN
    /\ word \in [Blocks -> Words] /\ dirty \in [Blocks -> SUBSET Others]
    /\ isZero => \A i \in Blocks : word[i] = Nil /\ dirty[i] = {}
    /\ live = {} /\ list = <<>>

\* page::pop: the list head is handed out; its link becomes the head.
Pop ==
    /\ free # Nil
    /\ free' = word[free]
    /\ used' = used + 1
    /\ live' = live \cup {free}
    /\ list' = Tail(list)

\* alloc: the block comes with whatever it holds.
Alloc ==
    /\ Pop
    /\ UNCHANGED <<capacity, isZero, word, dirty>>

\* Fault: only the link word is cleared, whatever the page's flag says.
Cleared_LinkOnly(i, n) ==
    /\ word' = [word EXCEPT ![i] = Nil]
    /\ UNCHANGED dirty

\* What alloc_zeroed clears for a request of n words: the link word, or the
\* words asked for; the slack of a block of a dirty page stays as it is.
Cleared(i, n) ==
    /\ word' = [word EXCEPT ![i] = Nil]
    /\ dirty' = IF isZero THEN dirty ELSE [dirty EXCEPT ![i] = @ \ Asked(n)]

AllocZeroed(n) ==
    /\ Pop
    /\ Cleared(free, n)
    /\ UNCHANGED <<capacity, isZero>>

\* Fault: a returned block leaves the page's zero flag set.
ZeroAfterPush_Kept == isZero

ZeroAfterPush == FALSE

\* page::push: a live block goes in front of the list.
Push(i) ==
    /\ i \in live
    /\ word' = [word EXCEPT ![i] = free]
    /\ free' = i
    /\ used' = used - 1
    /\ isZero' = ZeroAfterPush
    /\ live' = live \ {i}
    /\ list' = <<i>> \o list
    /\ UNCHANGED <<capacity, dirty>>

BatchSize == IF Batch <= Reserved - capacity THEN Batch ELSE Reserved - capacity

\* Fault: the batch starts at the last block that is linked already.
BatchFirst_OffByOne == IF capacity = 0 THEN 0 ELSE capacity - 1

BatchFirst == capacity

\* Fault: the last block of the batch ends the list.
LastLink_Nil == Nil

\* Where the last block of a batch links to: the list so far.
LastLink == free

\* page::extend: the next never-used blocks, in order, in front of the list.
Extend ==
    /\ capacity < Reserved
    /\ LET top == capacity + BatchSize
       IN  /\ word' = [i \in Blocks |->
                          IF i \notin BatchFirst .. (top - 1) THEN word[i]
                          ELSE IF i = top - 1 THEN LastLink ELSE i + 1]
           /\ capacity' = top
           /\ list' = [k \in 1 .. BatchSize |-> BatchFirst + k - 1] \o list
    /\ free' = BatchFirst
    /\ UNCHANGED <<used, isZero, dirty, live>>

\* The program writes to a block it holds.
Write(i, w, D) ==
    /\ i \in live
    /\ word' = [word EXCEPT ![i] = w]
    /\ dirty' = [dirty EXCEPT ![i] = D]
    /\ UNCHANGED <<free, used, capacity, isZero, live, list>>

\* The empty page is released and a page is made of the same slices again:
\* page::init writes every header field and no block.
Reinit ==
    /\ used = 0
    /\ free' = Nil /\ used' = 0 /\ capacity' = 0 /\ isZero' = FALSE
    /\ list' = <<>>
    /\ UNCHANGED <<word, dirty, live>>

Next ==
    \/ Alloc
    \/ \E n \in 1 .. BlockWords : AllocZeroed(n)
    \/ \E i \in Blocks : Push(i)
    \/ Extend
    \/ \E i \in Blocks, w \in Words, D \in SUBSET Others : Write(i, w, D)
    \/ Reinit

Spec == Init /\ [][Next]_vars

-----------------------------------------------------------------------------
(* Properties.                                                             *)

TypeOK ==
    /\ free \in Blocks \cup {Nil}
    /\ used \in Nat
    /\ capacity \in 0 .. Reserved
    /\ isZero \in BOOLEAN
    /\ word \in [Blocks -> Words]
    /\ dirty \in [Blocks -> SUBSET Others]
    /\ live \subseteq Blocks
    /\ list \in Seq(Blocks)

\* Page invariant 4: following the links from the head visits exactly the
\* blocks of list, one by one, and ends at Nil, whatever programs wrote into
\* the blocks while they held them.
ListSound ==
    /\ free = IF list = <<>> THEN Nil ELSE list[1]
    /\ \A k \in 1 .. Len(list) :
          word[list[k]] = IF k = Len(list) THEN Nil ELSE list[k + 1]

\* Page invariants 3 and 4: the free list holds capacity - used blocks, each
\* once, all below capacity and none live, and every other block below
\* capacity is live, used of them: no block is lost or handed out twice.
BlocksPartitioned ==
    /\ Len(list) = capacity - used
    /\ \A j, k \in 1 .. Len(list) : j # k => list[j] # list[k]
    /\ \A k \in 1 .. Len(list) : list[k] < capacity /\ list[k] \notin live
    /\ \A i \in 0 .. (capacity - 1) :
          i \in live \/ \E k \in 1 .. Len(list) : list[k] = i
    /\ \A i \in live : i < capacity
    /\ IsFiniteSet(live) /\ used = Cardinality(live)

\* Page invariant 5: while the flag is set, free blocks are zero but for their
\* link and blocks not yet linked are zero, stale contents of the slices and
\* what programs wrote before included.
FlagSound ==
    isZero => /\ \A k \in 1 .. Len(list) : dirty[list[k]] = {}
              /\ \A i \in Blocks : i >= capacity => dirty[i] = {} /\ word[i] = Nil

\* What alloc_zeroed hands out is zero in every word of the request, whatever the
\* block held before and whichever of the two ways it is cleared.
ZeroedIsZero ==
    [][ \A n \in 1 .. BlockWords :
          AllocZeroed(n) => word'[free] = Nil /\ dirty'[free] \cap Asked(n) = {} ]_vars

\* The allocator never writes to a block the program holds: only the program's
\* own writes change one.
LiveUntouched ==
    [][ \A i \in live \cap live' :
          (word'[i] # word[i] \/ dirty'[i] # dirty[i])
              => \E w \in Words, D \in SUBSET Others : Write(i, w, D) ]_vars
=============================================================================
