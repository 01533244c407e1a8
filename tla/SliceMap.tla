------------------------------ MODULE SliceMap ------------------------------
(***************************************************************************)
(* SliceMap at the level of its words and its search hint                  *)
(* (src/src/slices.rs).                                                    *)
(*                                                                         *)
(* Slices are relative here, bit b of word w is slice w * Bits + b, and a  *)
(* word is the set of its bits that are set: masks, shifts and folds over  *)
(* a word are set operations on it.  What the code does between words is   *)
(* kept: where a search starts, which words it skips, where it cuts the    *)
(* first and the last word of a range.                                     *)
(***************************************************************************)
EXTENDS Integers, FiniteSetsExt

CONSTANTS
    Bits,           \* bits per word (BITS)
    WORDS,          \* words of the map
    MaxSliceIndex,  \* highest slice of the address space
    Groups,         \* run lengths with a scan of their own (1, 4, 8 and 64)
    BaseSlice,      \* the argument of init
    Gives,          \* lengths of the ranges given to the map
    Counts,         \* run lengths asked for
    Aligns,         \* alignments asked for, powers of two
    Ends            \* ends of memory alloc_tail is called with

ASSUME SliceMapAssumption ==
    /\ Bits \in Nat \ {0} /\ WORDS \in Nat \ {0}
    /\ MaxSliceIndex \in Nat /\ BaseSlice \in Nat
    /\ \A g \in Groups : g \in Nat \ {0} /\ Bits % g = 0
    /\ Gives \cup Counts \subseteq Nat \ {0} /\ Aligns \subseteq Nat \ {0}
    /\ Ends \subseteq Nat

VARIABLES
    free,    \* [word -> its free bits]
    zero,    \* [word -> its free and still zero bits]
    base,    \* absolute index of bit 0
    hint,    \* every word below it has no free bit
    runs,    \* runs handed out, absolute: [start, count]
    zeroed   \* what the last claim returned

vars == <<free, zero, base, hint, runs, zeroed>>

CAPACITY == WORDS * Bits
Word     == 0 .. (WORDS - 1)
NoRel    == -1     \* no such slice (None)

\* The bits of a bitmap, as slices.
SlicesOf(bits) == UNION {{w * Bits + b : b \in bits[w]} : w \in Word}

\* word_masks: the bits of word w that lie in [rel, rel + count).
Mask(rel, count) ==
    [w \in Word |-> {b \in 0 .. (Bits - 1) :
                        rel <= w * Bits + b /\ w * Bits + b < rel + count}]

all_set(bits, rel, count) ==
    rel + count <= CAPACITY /\ \A w \in Word : Mask(rel, count)[w] \subseteq bits[w]

(***************************************************************************)
(* Searches.  They see the bitmap and the hint; free and hint are passed   *)
(* because alloc searches after it moved the hint.                         *)
(***************************************************************************)
\* advance_hint: past the words without a free bit.
advance_hint ==
    LET full == {w \in Word : w >= hint /\ free[w] # {}}
    IN  IF full = {} THEN WORDS ELSE Min(full)

\* find_single, find_nibble, find_byte, find_word: the lowest aligned group of
\* g bits that are all set, word by word from the hint on.
find_group(g, from) ==
    LET groups(w) == {b \in 0 .. (Bits - 1) :
                         b % g = 0 /\ (b .. (b + g - 1)) \subseteq free[w]}
        hit == {w \in Word : w >= from /\ groups(w) # {}}
    IN  IF hit = {} THEN NoRel ELSE Min(hit) * Bits + Min(groups(Min(hit)))

\* next_set, next_clear and prev_clear: the words at or above (or below) the
\* one of pos are looked at in turn, the first one with the bits on the wrong
\* side of pos masked away.
next_set(pos) ==
    LET seen(w) == {b \in free[w] : w > pos \div Bits \/ b >= pos % Bits}
        hit     == {w \in Word : w >= pos \div Bits /\ seen(w) # {}}
    IN  IF hit = {} THEN NoRel ELSE Min(hit) * Bits + Min(seen(Min(hit)))

next_clear(pos) ==
    LET seen(w) == {b \in (0 .. (Bits - 1)) \ free[w] :
                       w > pos \div Bits \/ b >= pos % Bits}
        hit     == {w \in Word : w >= pos \div Bits /\ seen(w) # {}}
    IN  IF hit = {} THEN CAPACITY ELSE Min(hit) * Bits + Min(seen(Min(hit)))

prev_clear(pos) ==
    LET top     == pos - 1
        seen(w) == {b \in (0 .. (Bits - 1)) \ free[w] :
                       w < top \div Bits \/ b <= top % Bits}
        hit     == {w \in Word : w <= top \div Bits /\ seen(w) # {}}
    IN  IF pos = 0 \/ hit = {} THEN NoRel
        ELSE Max(hit) * Bits + Max(seen(Max(hit)))

\* Fault: the relative index is aligned.
align_up_Relative(rel, align) == rel + ((align - (rel % align)) % align)

\* align_up: alignment is on the absolute index.
align_up(rel, align) == rel + ((align - ((base + rel) % align)) % align)

\* find_general: first fit over the maximal runs of free slices, from pos on.
find_general(count, align, from) ==
    LET scan[pos \in 0 .. CAPACITY] ==
          LET lo    == next_set(pos)
              hi    == next_clear(lo)
              start == align_up(lo, align)
          IN  IF lo = NoRel THEN NoRel
              ELSE IF start <= hi /\ hi - start >= count THEN start
              ELSE scan[hi]
    IN  IF count > CAPACITY THEN NoRel ELSE scan[from * Bits]

find(count, align, from) ==
    IF count = align /\ count \in Groups THEN find_group(count, from)
    ELSE find_general(count, align, from)

find_tail(count, align, below) ==
    LET end   == Min({Max({below - base, 0}), CAPACITY})
        clear == prev_clear(end - 1)
        start == align_up(clear + 1, align)
    IN  IF end > 0 /\ all_set(free, end - 1, 1) /\ start <= end /\ end - start >= count
        THEN start ELSE NoRel

(***************************************************************************)
(* Updates.                                                                *)
(***************************************************************************)
\* Fault: a claim leaves the zero bits of all but the first word it touches.
ClearedZero_FirstWord(rel, count) ==
    [w \in Word |-> IF w = rel \div Bits THEN zero[w] \ Mask(rel, count)[w] ELSE zero[w]]

\* The zero bits a claim leaves.
ClearedZero(rel, count) == [w \in Word |-> zero[w] \ Mask(rel, count)[w]]

claim(rel, count) ==
    /\ free' = [w \in Word |-> free[w] \ Mask(rel, count)[w]]
    /\ zero' = ClearedZero(rel, count)
    /\ zeroed' = \A w \in Word : Mask(rel, count)[w] \subseteq zero[w]

\* The hint after a release.
LoweredHint(rel) == Min({hint, rel \div Bits})

release(rel, count) ==
    /\ free' = [w \in Word |-> free[w] \cup Mask(rel, count)[w]]
    /\ hint' = LoweredHint(rel)

(***************************************************************************)
(* The methods.                                                            *)
(***************************************************************************)
\* new and init.
Init ==
    /\ free = [w \in Word |-> {}] /\ zero = [w \in Word |-> {}]
    /\ base = BaseSlice - (BaseSlice % Bits)
    /\ hint = WORDS
    /\ runs = {} /\ zeroed = FALSE

Held == UNION {r.start .. (r.start + r.count - 1) : r \in runs}

\* add_free, of slices that are not the map's and not handed out.
add_free(start, count, zeros) ==
    LET kept == IF start <= MaxSliceIndex THEN Min({count, MaxSliceIndex - start})
                ELSE count
        rel  == start - base
    IN  /\ start >= base /\ start + count <= base + CAPACITY
        /\ \A w \in Word : Mask(rel, count)[w] \cap free[w] = {}
        /\ (start .. (start + count - 1)) \cap Held = {}
        /\ kept > 0
        /\ release(rel, kept)
        /\ zero' = IF zeros THEN [w \in Word |-> zero[w] \cup Mask(rel, kept)[w]]
                   ELSE zero
        /\ UNCHANGED <<base, runs, zeroed>>

\* Hand out the run found at rel, if any.
HandOut(rel, count) ==
    IF rel = NoRel THEN UNCHANGED <<free, zero, runs, zeroed>>
    ELSE /\ claim(rel, count)
         /\ runs' = runs \cup {[start |-> base + rel, count |-> count]}

\* alloc moves the hint even if it finds nothing.
alloc(count, align) ==
    /\ hint' = advance_hint
    /\ HandOut(find(count, align, hint'), count)
    /\ UNCHANGED base

\* alloc_tail, below an index that no free slice reaches.
alloc_tail(count, align, below) ==
    /\ \A s \in SlicesOf(free) : base + s < below
    /\ HandOut(find_tail(count, align, below), count)
    /\ UNCHANGED <<base, hint>>

free_run(r) ==
    /\ release(r.start - base, r.count)
    /\ runs' = runs \ {r}
    /\ UNCHANGED <<zero, base, zeroed>>

try_extend(r, extra) ==
    LET tail == (r.start - base) + r.count
    IN  /\ extra <= CAPACITY - tail /\ all_set(free, tail, extra)
        /\ claim(tail, extra)
        /\ runs' = (runs \ {r}) \cup {[r EXCEPT !.count = @ + extra]}
        /\ UNCHANGED <<base, hint>>

shrink(r, newCount) ==
    /\ newCount < r.count
    /\ release((r.start - base) + newCount, r.count - newCount)
    /\ runs' = (runs \ {r}) \cup
               (IF newCount = 0 THEN {} ELSE {[r EXCEPT !.count = newCount]})
    /\ UNCHANGED <<zero, base, zeroed>>

Next ==
    \/ \E s \in base .. (base + CAPACITY - 1), c \in Gives, z \in BOOLEAN :
          add_free(s, c, z)
    \/ \E c \in Counts, a \in Aligns : alloc(c, a)
    \/ \E c \in Counts, a \in Aligns, b \in Ends : alloc_tail(c, a, b)
    \/ \E r \in runs : free_run(r)
    \/ \E r \in runs, x \in Counts : try_extend(r, x)
    \/ \E r \in runs, c \in {0} \cup Counts : shrink(r, c)

Spec == Init /\ [][Next]_vars

-----------------------------------------------------------------------------
(* Properties.                                                             *)

Pool == INSTANCE SlicePool WITH
            Capacity <- CAPACITY, MemMax <- MaxSliceIndex + 1, Gaps <- {0},
            MinGrow <- 0, MaxGrow <- 0, StepDivisor <- 1,
            m <- [base |-> base,
                  free |-> {base + s : s \in SlicesOf(free)},
                  zero |-> {base + s : s \in SlicesOf(zero)}]

Absolute(rel) == IF rel = NoRel THEN {} ELSE {base + rel}

\* Every search, word scans and first fit alike, started at the hint, returns
\* the lowest aligned fit there is, or none if there is none; and the search of
\* the free tail returns the lowest aligned start of the tail if the run fits
\* above it: for every request, in every state a sequence of calls leads to.
SearchesExact ==
    LET map == [base |-> base, free |-> {base + s : s \in SlicesOf(free)}]
    IN  \A c \in Counts, a \in Aligns :
          /\ Absolute(find(c, a, advance_hint)) = Pool!Lowest(Pool!Fits(map, c, a))
          /\ \A e \in Ends : (\A s \in map.free : s < e) =>
                Absolute(find_tail(c, a, e)) = Pool!TailFits(map, c, a, e)

\* The words and the hint implement the map the rest of the allocator is
\* modelled with: claims and releases move exactly their slices, word by word,
\* and the answer whether the claimed slices were zero is right.
ImplementsPool == Pool!PoolInit(BaseSlice) /\ [][Pool!PoolNext]_(Pool!PoolVars)
=============================================================================
