--------------------------- MODULE SliceMapProofs ---------------------------
(***************************************************************************)
(* Proofs about the words and the hint of SliceMap: for every number and   *)
(* width of words, every search finds exactly what a search of the set of  *)
(* free slices finds, and every method does to that set what SlicePool     *)
(* says.                                                                   *)
(***************************************************************************)
EXTENDS SliceMap, WellFoundedInduction, TLAPS

Bit     == 0 .. (Bits - 1)
Bitmaps == [Word -> SUBSET Bit]
Slice   == 0 .. (CAPACITY - 1)

-----------------------------------------------------------------------------
(* Numbers.                                                                *)

\* A set of numbers that is not empty has a lowest element, which Min takes.
LEMMA MinOf ==
    ASSUME NEW S \in SUBSET Nat, S # {}
    PROVE  Min(S) \in S /\ \A y \in S : Min(S) <= y
<1> DEFINE R == OpToRel(<, Nat)
<1>1. IsWellFoundedOn(R, Nat)
      BY NatLessThanWellFounded
<1>2. PICK x \in S : \A y \in S : ~(<<y, x>> \in R)
      BY <1>1, WFMin
<1>3. \A y \in S : ~(y < x)
      BY <1>2 DEF OpToRel
<1>4. x \in S /\ \A y \in S : x =< y
      BY <1>3
<1> QED BY <1>4 DEF Min

\* A bounded one has a highest element, which Max takes.
LEMMA MaxOf ==
    ASSUME NEW S \in SUBSET Nat, S # {}, NEW n \in Nat, \A y \in S : y <= n
    PROVE  Max(S) \in S /\ \A y \in S : Max(S) >= y
<1> DEFINE T == {n - y : y \in S}
<1>1. T \in SUBSET Nat /\ T # {}
      OBVIOUS
<1>2. Min(T) \in T /\ \A t \in T : Min(T) <= t
      BY <1>1, MinOf
<1>3. PICK x \in S : Min(T) = n - x
      BY <1>2
<1>4. \A y \in S : n - x <= n - y
      BY <1>2, <1>3
<1>5. x \in S /\ \A y \in S : x >= y
      BY <1>4
<1> QED BY <1>5 DEF Max

\* Multiplication by a positive number keeps the order, with a step to spare.
LEMMA MulMono ==
    ASSUME NEW a \in Nat, NEW b \in Nat, NEW s \in Nat \ {0}, a < b
    PROVE  a * s + s <= b * s
<1>1. b - a \in Nat /\ b - a >= 1
      OBVIOUS
<1>2. (b - a) * s >= s
      BY <1>1, SMTT(30)
<1>3. b * s = a * s + (b - a) * s
      BY SMTT(30)
<1> QED BY <1>2, <1>3

\* The integer quotient and remainder.
LEMMA DivFacts ==
    ASSUME NEW a \in Nat, NEW s \in Nat \ {0}
    PROVE  /\ a \div s \in Nat /\ a % s \in 0 .. (s - 1)
           /\ (a \div s) * s \in Nat /\ a = (a \div s) * s + (a % s)
<1>1. a \div s \in Nat /\ a % s \in 0 .. (s - 1) /\ a = s * (a \div s) + (a % s)
      OBVIOUS
<1>2. s * (a \div s) = (a \div s) * s /\ (a \div s) * s \in Nat
      BY <1>1
<1> QED BY <1>1, <1>2

\* They are unique.
LEMMA DivIs ==
    ASSUME NEW a \in Nat, NEW q \in Nat, NEW r \in Nat, NEW s \in Nat \ {0},
           r < s, a = q * s + r
    PROVE  a \div s = q /\ a % s = r
<1> DEFINE d == a \div s
           e == a % s
<1>1. d \in Nat /\ e \in 0 .. (s - 1) /\ d * s \in Nat /\ a = d * s + e
      BY DivFacts
<1> HIDE DEF d, e
<1>2. ~(d < q) /\ ~(q < d)
  <2>1. q * s \in Nat
        OBVIOUS
  <2> QED BY <1>1, <2>1, MulMono
<1>3. d = q
      BY <1>1, <1>2
<1>4. q * s \in Nat
      OBVIOUS
<1>5. e = r
      BY <1>1, <1>3, <1>4
<1> QED BY <1>3, <1>5 DEF d, e

\* A multiple of the divisor does not change the remainder.
LEMMA ModPlus ==
    ASSUME NEW a \in Nat, NEW k \in Nat, NEW s \in Nat \ {0}
    PROVE  (k * s + a) % s = a % s
<1> DEFINE q == a \div s
           r == a % s
           x == k * s + a
<1>1. q \in Nat /\ r \in 0 .. (s - 1) /\ q * s \in Nat /\ a = q * s + r
      BY DivFacts
<1> HIDE DEF q, r
<1>2. (k + q) * s = k * s + q * s /\ k * s \in Nat
      BY <1>1, SMTT(30)
<1>3. x \in Nat /\ x = (k + q) * s + r /\ k + q \in Nat /\ r \in Nat /\ r < s
      BY <1>1, <1>2
<1> HIDE DEF x
<1>4. x % s = r
      BY <1>3, DivIs
<1> QED BY <1>4 DEF x, r

-----------------------------------------------------------------------------
(* Words, bits and slices.                                                 *)

LEMMA Sizes == /\ Bits \in Nat \ {0} /\ WORDS \in Nat \ {0}
               /\ CAPACITY \in Nat \ {0}
<1>1. Bits \in Nat \ {0} /\ WORDS \in Nat \ {0}
      BY SliceMapAssumption
<1>2. WORDS * Bits \in Nat /\ WORDS * Bits # 0
      BY <1>1, SMTT(30)
<1> QED BY <1>1, <1>2 DEF CAPACITY

\* Bit b of word w is a slice, and w and b are its quotient and remainder.
LEMMA At ==
    ASSUME NEW w \in Word, NEW b \in Bit
    PROVE  /\ w * Bits + b \in Slice /\ w * Bits \in Nat
           /\ (w * Bits + b) \div Bits = w /\ (w * Bits + b) % Bits = b
<1>1. /\ Bits \in Nat \ {0} /\ WORDS \in Nat \ {0} /\ CAPACITY \in Nat \ {0}
      /\ w \in Nat /\ b \in Nat /\ w < WORDS /\ b < Bits
      BY Sizes DEF Word, Bit
<1>2. w * Bits \in Nat
      BY <1>1
<1>3. w * Bits + Bits <= CAPACITY
      BY <1>1, MulMono DEF CAPACITY
<1>4. w * Bits + b \in Slice
      BY <1>1, <1>2, <1>3 DEF Slice
<1> DEFINE a == w * Bits + b
<1>5. a \in Nat /\ a = w * Bits + b
      BY <1>1, <1>2
<1> HIDE DEF a
<1>6. a \div Bits = w /\ a % Bits = b
      BY <1>1, <1>5, DivIs
<1> QED BY <1>2, <1>4, <1>6 DEF a

\* Every slice is a bit of a word; the end of the map is bit 0 of word WORDS.
LEMMA Split ==
    ASSUME NEW s \in 0 .. CAPACITY
    PROVE  /\ s \div Bits \in 0 .. WORDS /\ s % Bits \in Bit
           /\ s = (s \div Bits) * Bits + (s % Bits)
           /\ (s \div Bits) * Bits \in Nat
           /\ s < CAPACITY => s \div Bits \in Word
           /\ s = CAPACITY => s \div Bits = WORDS
<1> DEFINE d == s \div Bits
           e == s % Bits
<1>1. /\ Bits \in Nat \ {0} /\ WORDS \in Nat \ {0} /\ CAPACITY \in Nat \ {0}
      /\ s \in Nat /\ s <= CAPACITY
      BY Sizes
<1>2. d \in Nat /\ e \in 0 .. (Bits - 1) /\ d * Bits \in Nat /\ s = d * Bits + e
      BY <1>1, DivFacts
<1> HIDE DEF d, e
<1>3. ~(WORDS < d)
      BY <1>1, <1>2, MulMono DEF CAPACITY
<1>4. ASSUME s < CAPACITY PROVE d # WORDS
      BY <1>1, <1>2, <1>4 DEF CAPACITY
<1>5. ASSUME s = CAPACITY PROVE ~(d < WORDS)
  <2>1. SUFFICES ASSUME d < WORDS PROVE FALSE
        OBVIOUS
  <2>2. d * Bits + Bits <= CAPACITY
        BY <1>1, <1>2, <2>1, MulMono DEF CAPACITY
  <2> QED BY <1>1, <1>2, <1>5, <2>2
<1>6. d \in 0 .. WORDS /\ (s < CAPACITY => d \in Word) /\ (s = CAPACITY => d = WORDS)
      BY <1>1, <1>2, <1>3, <1>4, <1>5 DEF Word
<1> QED BY <1>2, <1>6 DEF d, e, Bit

\* A lower word comes before a higher one.
LEMMA Lower ==
    ASSUME NEW v \in Word, NEW w \in Word, NEW b \in Bit, NEW c \in Bit, v < w
    PROVE  v * Bits + b < w * Bits + c
<1>1. /\ Bits \in Nat \ {0} /\ v \in Nat /\ w \in Nat
      /\ b \in Nat /\ b < Bits /\ c \in Nat
      BY Sizes DEF Word, Bit
<1>2. v * Bits \in Nat /\ w * Bits \in Nat
      BY <1>1
<1>3. v * Bits + Bits <= w * Bits
      BY <1>1, MulMono
<1> QED BY <1>1, <1>2, <1>3

\* What the slices of a bitmap are.
LEMMA InSlices ==
    ASSUME NEW bits \in Bitmaps
    PROVE  /\ SlicesOf(bits) \subseteq Slice
           /\ \A s \in Slice : s \in SlicesOf(bits) <=> s % Bits \in bits[s \div Bits]
           /\ \A w \in Word, b \in Bit : w * Bits + b \in SlicesOf(bits) <=> b \in bits[w]
<1>1. ASSUME NEW s \in SlicesOf(bits)
      PROVE  s \in Slice /\ s % Bits \in bits[s \div Bits]
  <2>1. PICK w \in Word : s \in {w * Bits + b : b \in bits[w]}
        BY <1>1 DEF SlicesOf
  <2>2. PICK b \in bits[w] : s = w * Bits + b
        BY <2>1
  <2>3. b \in Bit
        BY <2>2 DEF Bitmaps
  <2> QED BY <2>2, <2>3, At
<1>2. ASSUME NEW w \in Word, NEW b \in bits[w]
      PROVE  w * Bits + b \in SlicesOf(bits)
      BY DEF SlicesOf
<1>3. ASSUME NEW s \in Slice, s % Bits \in bits[s \div Bits]
      PROVE  s \in SlicesOf(bits)
  <2>1. s \in 0 .. CAPACITY /\ s < CAPACITY
        BY Sizes DEF Slice
  <2>2. s \div Bits \in Word /\ s = (s \div Bits) * Bits + (s % Bits)
        BY <2>1, Split
  <2>3. (s \div Bits) * Bits + (s % Bits) \in SlicesOf(bits)
        BY <1>2, <1>3, <2>2
  <2> QED BY <2>2, <2>3
<1>4. ASSUME NEW w \in Word, NEW b \in Bit, w * Bits + b \in SlicesOf(bits)
      PROVE  b \in bits[w]
      BY <1>1, <1>4, At
<1> QED BY <1>1, <1>2, <1>3, <1>4

\* A bit is at or after a slice if its word is after the slice's word, or is
\* the slice's word and the bit is not before the slice's bit.
LEMMA Order ==
    ASSUME NEW w \in Word, NEW b \in Bit, NEW pos \in 0 .. CAPACITY
    PROVE  /\ w * Bits + b >= pos <=>
                 \/ w > pos \div Bits
                 \/ w = pos \div Bits /\ b >= pos % Bits
           /\ w * Bits + b <= pos <=>
                 \/ w < pos \div Bits
                 \/ w = pos \div Bits /\ b <= pos % Bits
<1> DEFINE d == pos \div Bits
           e == pos % Bits
<1>1. /\ d \in 0 .. WORDS /\ e \in Bit /\ pos = d * Bits + e /\ d * Bits \in Nat
      BY Split
<1> HIDE DEF d, e
<1>2. /\ Bits \in Nat \ {0} /\ WORDS \in Nat /\ w \in Nat /\ d \in Nat
      /\ b \in Nat /\ b < Bits /\ e \in Nat /\ e < Bits
      BY <1>1, Sizes DEF Word, Bit
<1>3. w * Bits \in Nat
      BY <1>2
<1>4. CASE w < d
  <2>1. w * Bits + Bits <= d * Bits
        BY <1>2, <1>4, MulMono
  <2>2. w * Bits + b < pos
        BY <1>1, <1>2, <1>3, <2>1
  <2>3. pos \in Nat /\ w * Bits + b \in Nat
        BY <1>1, <1>2, <1>3
  <2>4. (w * Bits + b >= pos <=> w > d \/ (w = d /\ b >= e))
        /\ (w * Bits + b <= pos <=> w < d \/ (w = d /\ b <= e))
        BY <1>2, <1>4, <2>2, <2>3
  <2> QED BY <2>4 DEF d, e
<1>5. CASE d < w
  <2>1. d * Bits + Bits <= w * Bits
        BY <1>2, <1>5, MulMono
  <2>2. w * Bits + b > pos
        BY <1>1, <1>2, <1>3, <2>1
  <2>3. pos \in Nat /\ w * Bits + b \in Nat
        BY <1>1, <1>2, <1>3
  <2>4. (w * Bits + b >= pos <=> w > d \/ (w = d /\ b >= e))
        /\ (w * Bits + b <= pos <=> w < d \/ (w = d /\ b <= e))
        BY <1>2, <1>5, <2>2, <2>3
  <2> QED BY <2>4 DEF d, e
<1>6. CASE w = d
  <2>1. (w * Bits + b >= pos <=> w > d \/ (w = d /\ b >= e))
        /\ (w * Bits + b <= pos <=> w < d \/ (w = d /\ b <= e))
        BY <1>1, <1>2, <1>6
  <2> QED BY <2>1 DEF d, e
<1> QED BY <1>2, <1>4, <1>5, <1>6

-----------------------------------------------------------------------------
(* The walks over the words.                                               *)

\* The bits a walk up from pos, and a walk down from top, sees in word w, and
\* the words in which it sees any.
Above(bits, pos, w) == {b \in bits[w] : w > pos \div Bits \/ b >= pos % Bits}
Below(bits, top, w) == {b \in bits[w] : w < top \div Bits \/ b <= top % Bits}
HitAbove(bits, pos) == {w \in Word : w >= pos \div Bits /\ Above(bits, pos, w) # {}}
HitBelow(bits, top) == {w \in Word : w <= top \div Bits /\ Below(bits, top, w) # {}}

\* The lowest bit of the first word with a bit is the lowest slice from pos on.
LEMMA WalkUp ==
    ASSUME NEW bits \in Bitmaps, NEW pos \in 0 .. CAPACITY
    PROVE  LET hit == HitAbove(bits, pos)
               r   == Min(hit) * Bits + Min(Above(bits, pos, Min(hit)))
           IN  /\ hit = {} => \A s \in SlicesOf(bits) : s < pos
               /\ hit # {} => /\ r \in SlicesOf(bits) /\ pos <= r
                              /\ \A s \in SlicesOf(bits) : s >= pos => r <= s
<1> DEFINE hit == HitAbove(bits, pos)
           w   == Min(hit)
           b   == Min(Above(bits, pos, w))
           r   == w * Bits + b
<1>0. Word \subseteq Nat /\ Bit \subseteq Nat /\ \A v \in Word : bits[v] \subseteq Bit
      BY DEF Word, Bit, Bitmaps
<1>1. ASSUME NEW v \in Word, NEW c \in Bit
      PROVE  v * Bits + c \in SlicesOf(bits) /\ v * Bits + c >= pos
                 <=> v >= pos \div Bits /\ c \in Above(bits, pos, v)
  <2>1. v * Bits + c \in SlicesOf(bits) <=> c \in bits[v]
        BY InSlices
  <2>2. v * Bits + c >= pos <=>
           \/ v > pos \div Bits
           \/ v = pos \div Bits /\ c >= pos % Bits
        BY Order
  <2>3. v \in Nat /\ pos \div Bits \in Nat
        BY <1>0, Split
  <2>4. c \in Above(bits, pos, v) <=>
           c \in bits[v] /\ (v > pos \div Bits \/ c >= pos % Bits)
        BY DEF Above
  <2> QED BY <2>1, <2>2, <2>3, <2>4
<1>2. ASSUME NEW s \in SlicesOf(bits), s >= pos
      PROVE  \E v \in hit, c \in Bit : s = v * Bits + c /\ c \in Above(bits, pos, v)
  <2>1. s \in Slice
        BY InSlices
  <2>2. s \in 0 .. CAPACITY /\ s < CAPACITY
        BY <2>1, Sizes DEF Slice
  <2>3. PICK v \in Word, c \in Bit : s = v * Bits + c
        BY <2>2, Split
  <2>4. v >= pos \div Bits /\ c \in Above(bits, pos, v)
        BY <1>1, <1>2, <2>3
  <2>5. v \in hit
        BY <2>4 DEF HitAbove
  <2> QED BY <2>3, <2>4, <2>5
<1>3. CASE hit = {}
  <2>1. \A s \in SlicesOf(bits) : ~(s >= pos)
        BY <1>2, <1>3
  <2>2. \A s \in SlicesOf(bits) : s \in Nat /\ pos \in Nat
        BY InSlices DEF Slice
  <2>3. \A s \in SlicesOf(bits) : s < pos
        BY <2>1, <2>2
  <2> QED BY <1>3, <2>3
<1>4. CASE hit # {}
  <2>1. hit \in SUBSET Nat /\ hit \subseteq Word
        BY <1>0 DEF HitAbove
  <2> HIDE DEF hit
  <2>2. w \in hit /\ \A v \in hit : w <= v
        BY <1>4, <2>1, MinOf
  <2>3. w \in Word /\ w >= pos \div Bits /\ Above(bits, pos, w) # {}
        BY <2>2 DEF hit, HitAbove
  <2> HIDE DEF w
  <2>4. Above(bits, pos, w) \in SUBSET Nat /\ Above(bits, pos, w) \subseteq Bit
        BY <1>0, <2>3 DEF Above
  <2>5. b \in Above(bits, pos, w) /\ \A c \in Above(bits, pos, w) : b <= c
        BY <2>3, <2>4, MinOf
  <2> HIDE DEF b
  <2>6. r \in SlicesOf(bits) /\ r >= pos
        BY <1>1, <2>3, <2>4, <2>5
  <2>7. ASSUME NEW s \in SlicesOf(bits), s >= pos PROVE r <= s
    <3>1. PICK v \in hit, c \in Bit : s = v * Bits + c /\ c \in Above(bits, pos, v)
          BY <1>2, <2>7
    <3>2. CASE v = w
      <4>1. b <= c /\ b \in Nat /\ c \in Nat /\ w * Bits \in Nat
            BY <1>0, <2>3, <2>4, <2>5, <3>1, <3>2, At
      <4> QED BY <3>1, <3>2, <4>1
    <3>3. CASE v # w
      <4>1. v \in Word /\ b \in Bit /\ w < v
            BY <1>0, <2>1, <2>2, <2>3, <2>4, <2>5, <3>3
      <4>2. r < s
            BY <2>3, <3>1, <4>1, Lower
      <4>3. r \in Nat /\ s \in Nat
            BY <2>6, InSlices DEF Slice
      <4> QED BY <4>2, <4>3
    <3> QED BY <3>2, <3>3
  <2>8. r \in Nat /\ pos \in Nat
        BY <2>6, InSlices DEF Slice
  <2>9. pos <= r
        BY <2>6, <2>8
  <2>10. r \in SlicesOf(bits) /\ pos <= r /\ \A s \in SlicesOf(bits) : s >= pos => r <= s
        BY <2>6, <2>7, <2>9
  <2> QED BY <1>4, <2>10 DEF hit, w, b
<1> QED BY <1>3, <1>4

\* The highest bit of the last word with a bit is the highest slice up to top.
LEMMA WalkDown ==
    ASSUME NEW bits \in Bitmaps, NEW top \in Slice
    PROVE  LET hit == HitBelow(bits, top)
               r   == Max(hit) * Bits + Max(Below(bits, top, Max(hit)))
           IN  /\ hit = {} => \A s \in SlicesOf(bits) : top < s
               /\ hit # {} => /\ r \in SlicesOf(bits) /\ r <= top
                              /\ \A s \in SlicesOf(bits) : s <= top => s <= r
<1> DEFINE hit == HitBelow(bits, top)
           w   == Max(hit)
           b   == Max(Below(bits, top, w))
           r   == w * Bits + b
<1>0. /\ Word \subseteq Nat /\ Bit \subseteq Nat
      /\ WORDS - 1 \in Nat /\ Bits - 1 \in Nat
      /\ \A v \in Word : v <= WORDS - 1
      /\ \A c \in Bit : c <= Bits - 1
      /\ \A v \in Word : bits[v] \subseteq Bit
      /\ top \in 0 .. CAPACITY /\ top \in Nat
      BY Sizes DEF Word, Bit, Bitmaps, Slice
<1>1. ASSUME NEW v \in Word, NEW c \in Bit
      PROVE  v * Bits + c \in SlicesOf(bits) /\ v * Bits + c <= top
                 <=> v <= top \div Bits /\ c \in Below(bits, top, v)
  <2>1. v * Bits + c \in SlicesOf(bits) <=> c \in bits[v]
        BY InSlices
  <2>2. v * Bits + c <= top <=>
           \/ v < top \div Bits
           \/ v = top \div Bits /\ c <= top % Bits
        BY <1>0, Order
  <2>3. v \in Nat /\ top \div Bits \in Nat
        BY <1>0, Split
  <2>4. c \in Below(bits, top, v) <=>
           c \in bits[v] /\ (v < top \div Bits \/ c <= top % Bits)
        BY DEF Below
  <2> QED BY <2>1, <2>2, <2>3, <2>4
<1>2. ASSUME NEW s \in SlicesOf(bits), s <= top
      PROVE  \E v \in hit, c \in Bit : s = v * Bits + c /\ c \in Below(bits, top, v)
  <2>1. s \in Slice
        BY InSlices
  <2>2. s \in 0 .. CAPACITY /\ s < CAPACITY
        BY <2>1, Sizes DEF Slice
  <2>3. PICK v \in Word, c \in Bit : s = v * Bits + c
        BY <2>2, Split
  <2>4. v <= top \div Bits /\ c \in Below(bits, top, v)
        BY <1>1, <1>2, <2>3
  <2>5. v \in hit
        BY <2>4 DEF HitBelow
  <2> QED BY <2>3, <2>4, <2>5
<1>3. CASE hit = {}
  <2>1. \A s \in SlicesOf(bits) : ~(s <= top)
        BY <1>2, <1>3
  <2>2. \A s \in SlicesOf(bits) : s \in Nat
        BY InSlices DEF Slice
  <2>3. \A s \in SlicesOf(bits) : top < s
        BY <1>0, <2>1, <2>2
  <2> QED BY <1>3, <2>3
<1>4. CASE hit # {}
  <2>1. hit \in SUBSET Nat /\ hit \subseteq Word /\ \A v \in hit : v <= WORDS - 1
        BY <1>0 DEF HitBelow
  <2> HIDE DEF hit
  <2>2. w \in hit /\ \A v \in hit : w >= v
        BY <1>0, <1>4, <2>1, MaxOf
  <2>3. w \in Word /\ w <= top \div Bits /\ Below(bits, top, w) # {}
        BY <2>2 DEF hit, HitBelow
  <2> HIDE DEF w
  <2>4. /\ Below(bits, top, w) \in SUBSET Nat /\ Below(bits, top, w) \subseteq Bit
        /\ \A c \in Below(bits, top, w) : c <= Bits - 1
        BY <1>0, <2>3 DEF Below
  <2>5. b \in Below(bits, top, w) /\ \A c \in Below(bits, top, w) : b >= c
        BY <1>0, <2>3, <2>4, MaxOf
  <2> HIDE DEF b
  <2>6. r \in SlicesOf(bits) /\ r <= top
        BY <1>1, <2>3, <2>4, <2>5
  <2>7. ASSUME NEW s \in SlicesOf(bits), s <= top PROVE s <= r
    <3>1. PICK v \in hit, c \in Bit : s = v * Bits + c /\ c \in Below(bits, top, v)
          BY <1>2, <2>7
    <3>2. CASE v = w
      <4>1. b >= c /\ b \in Nat /\ c \in Nat /\ w * Bits \in Nat
            BY <1>0, <2>3, <2>4, <2>5, <3>1, <3>2, At
      <4> QED BY <3>1, <3>2, <4>1
    <3>3. CASE v # w
      <4>1. v \in Word /\ b \in Bit /\ v < w
            BY <1>0, <2>1, <2>2, <2>3, <2>4, <2>5, <3>3
      <4>2. s < r
            BY <2>3, <3>1, <4>1, Lower
      <4>3. r \in Nat /\ s \in Nat
            BY <2>6, InSlices DEF Slice
      <4> QED BY <4>2, <4>3
    <3> QED BY <3>2, <3>3
  <2>8. r \in SlicesOf(bits) /\ r <= top /\ \A s \in SlicesOf(bits) : s <= top => s <= r
        BY <2>6, <2>7
  <2> QED BY <1>4, <2>8 DEF hit, w, b
<1> QED BY <1>3, <1>4

-----------------------------------------------------------------------------
(* The searches of a free bit and of a clear bit.                          *)

Clear(bits) == [w \in Word |-> Bit \ bits[w]]

\* The slices that are not free are the slices of the bitmap of clear bits.
LEMMA ClearSlices ==
    ASSUME NEW bits \in Bitmaps
    PROVE  Clear(bits) \in Bitmaps /\ SlicesOf(Clear(bits)) = Slice \ SlicesOf(bits)
<1>1. Clear(bits) \in Bitmaps
      BY DEF Clear, Bitmaps
<1>2. ASSUME NEW s \in Slice
      PROVE  s \in SlicesOf(Clear(bits)) <=> s \notin SlicesOf(bits)
  <2>1. s \in 0 .. CAPACITY /\ s < CAPACITY
        BY Sizes DEF Slice
  <2>2. s \div Bits \in Word /\ s % Bits \in Bit
        BY <2>1, Split
  <2>3. Clear(bits)[s \div Bits] = Bit \ bits[s \div Bits]
        BY <2>2 DEF Clear
  <2> QED BY <1>1, <2>2, <2>3, InSlices
<1>3. SlicesOf(Clear(bits)) \subseteq Slice
      BY <1>1, InSlices
<1> QED BY <1>1, <1>2, <1>3

\* next_set: the lowest free slice from pos on, if there is one.
LEMMA NextSet ==
    ASSUME free \in Bitmaps, NEW pos \in 0 .. CAPACITY
    PROVE  \/ /\ next_set(pos) = NoRel
              /\ \A s \in SlicesOf(free) : s < pos
           \/ /\ next_set(pos) \in SlicesOf(free) /\ next_set(pos) \in Slice
              /\ pos <= next_set(pos)
              /\ \A s \in SlicesOf(free) : s >= pos => next_set(pos) <= s
<1> DEFINE hit == HitAbove(free, pos)
           r   == Min(hit) * Bits + Min(Above(free, pos, Min(hit)))
<1>1. next_set(pos) = IF hit = {} THEN NoRel ELSE r
      BY DEF next_set, HitAbove, Above
<1>2. /\ hit = {} => \A s \in SlicesOf(free) : s < pos
      /\ hit # {} => /\ r \in SlicesOf(free) /\ pos <= r
                     /\ \A s \in SlicesOf(free) : s >= pos => r <= s
      BY WalkUp
<1> HIDE DEF hit, r
<1> QED BY <1>1, <1>2, InSlices

\* next_clear: the end of the free slices that begin at pos.
LEMMA NextClear ==
    ASSUME free \in Bitmaps, NEW pos \in Slice
    PROVE  /\ next_clear(pos) \in 0 .. CAPACITY /\ pos <= next_clear(pos)
           /\ next_clear(pos) \notin SlicesOf(free)
           /\ \A s \in Slice : pos <= s /\ s < next_clear(pos) => s \in SlicesOf(free)
<1> DEFINE c   == Clear(free)
           hit == HitAbove(c, pos)
           r   == Min(hit) * Bits + Min(Above(c, pos, Min(hit)))
<1>0. /\ pos \in Nat /\ pos \in 0 .. CAPACITY /\ CAPACITY \in Nat /\ pos < CAPACITY
      /\ CAPACITY \notin Slice
      BY Sizes DEF Slice
<1>1. c \in Bitmaps /\ SlicesOf(c) = Slice \ SlicesOf(free)
      BY ClearSlices
<1>2. SlicesOf(free) \subseteq Slice
      BY InSlices
<1>3. next_clear(pos) = IF hit = {} THEN CAPACITY ELSE r
  <2>1. \A w \in Word : Above(c, pos, w)
           = {b \in (0 .. (Bits - 1)) \ free[w] : w > pos \div Bits \/ b >= pos % Bits}
        BY DEF Above, Clear, Bit
  <2>2. hit = {w \in Word : w >= pos \div Bits /\
                 {b \in (0 .. (Bits - 1)) \ free[w] :
                     w > pos \div Bits \/ b >= pos % Bits} # {}}
        BY <2>1 DEF HitAbove
  <2>3. CASE hit = {}
        BY <2>2, <2>3 DEF next_clear
  <2>4. CASE hit # {}
    <3>1. hit \in SUBSET Nat /\ hit \subseteq Word
          BY DEF HitAbove, Word
    <3>2. Min(hit) \in Word
          BY <2>4, <3>1, MinOf
    <3> QED BY <2>1, <2>2, <2>4, <3>2 DEF next_clear
  <2> QED BY <2>3, <2>4
<1>4. /\ hit = {} => \A s \in SlicesOf(c) : s < pos
      /\ hit # {} => /\ r \in SlicesOf(c) /\ pos <= r
                     /\ \A s \in SlicesOf(c) : s >= pos => r <= s
      BY <1>0, <1>1, WalkUp
<1> HIDE DEF hit, r, c
<1>5. Slice \subseteq Nat /\ \A s \in Slice : s \in 0 .. CAPACITY /\ s < CAPACITY
      BY Sizes DEF Slice
<1>6. CASE hit = {}
      BY <1>0, <1>1, <1>2, <1>3, <1>4, <1>5, <1>6
<1>7. CASE hit # {}
  <2>1. next_clear(pos) = r /\ r \in Slice \ SlicesOf(free) /\ pos <= r
        BY <1>1, <1>3, <1>4, <1>7
  <2>2. ASSUME NEW s \in Slice, pos <= s, s < r PROVE s \in SlicesOf(free)
    <3>1. s \in Nat /\ r \in Nat /\ s >= pos /\ ~(r <= s)
          BY <1>0, <1>5, <2>1, <2>2
    <3> QED BY <1>1, <1>4, <1>7, <3>1
  <2> QED BY <1>5, <2>1, <2>2
<1> QED BY <1>6, <1>7

\* prev_clear: the last slice below pos that is not free, if there is one.
LEMMA PrevClear ==
    ASSUME free \in Bitmaps, NEW pos \in Slice
    PROVE  \/ /\ prev_clear(pos) = NoRel
              /\ \A s \in Slice : s < pos => s \in SlicesOf(free)
           \/ /\ prev_clear(pos) \in Slice /\ prev_clear(pos) < pos
              /\ prev_clear(pos) \notin SlicesOf(free)
              /\ \A s \in Slice : prev_clear(pos) < s /\ s < pos => s \in SlicesOf(free)
<1> DEFINE c   == Clear(free)
           top == pos - 1
           hit == HitBelow(c, top)
           r   == Max(hit) * Bits + Max(Below(c, top, Max(hit)))
<1>0. /\ pos \in Nat /\ CAPACITY \in Nat /\ pos < CAPACITY
      /\ Slice \subseteq Nat /\ \A s \in Slice : s < CAPACITY
      BY Sizes DEF Slice
<1>1. c \in Bitmaps /\ SlicesOf(c) = Slice \ SlicesOf(free)
      BY ClearSlices
<1>2. CASE pos = 0
  <2>1. prev_clear(pos) = NoRel
        BY <1>2 DEF prev_clear
  <2>2. \A s \in Slice : ~(s < pos)
        BY <1>0, <1>2
  <2> QED BY <2>1, <2>2
<1>3. CASE pos # 0
  <2>0. top \in Slice /\ top \in 0 .. CAPACITY
        BY <1>0, <1>3 DEF Slice
  <2>1. prev_clear(pos) = IF hit = {} THEN NoRel ELSE r
    <3>1. \A w \in Word : Below(c, top, w)
             = {b \in (0 .. (Bits - 1)) \ free[w] : w < top \div Bits \/ b <= top % Bits}
          BY DEF Below, Clear, Bit
    <3>2. hit = {w \in Word : w <= top \div Bits /\
                   {b \in (0 .. (Bits - 1)) \ free[w] :
                       w < top \div Bits \/ b <= top % Bits} # {}}
          BY <3>1 DEF HitBelow
    <3>3. CASE hit = {}
          BY <3>2, <3>3 DEF prev_clear
    <3>4. CASE hit # {}
      <4>1. hit \in SUBSET Nat /\ hit \subseteq Word /\ WORDS - 1 \in Nat
            /\ \A v \in hit : v <= WORDS - 1
            BY Sizes DEF HitBelow, Word
      <4>2. Max(hit) \in Word
            BY <3>4, <4>1, MaxOf
      <4> QED BY <1>3, <3>1, <3>2, <3>4, <4>2 DEF prev_clear
    <3> QED BY <3>3, <3>4
  <2>2. /\ hit = {} => \A s \in SlicesOf(c) : top < s
        /\ hit # {} => /\ r \in SlicesOf(c) /\ r <= top
                       /\ \A s \in SlicesOf(c) : s <= top => s <= r
        BY <1>1, <2>0, WalkDown
  <2> HIDE DEF hit, r, c
  <2>3. \A s \in Slice : s < pos <=> s <= top
        BY <1>0
  <2>4. CASE hit = {}
    <3>1. \A s \in Slice : ~(top < s) => s \in SlicesOf(free)
          BY <1>1, <2>2, <2>4
    <3>2. \A s \in Slice : s < pos => ~(top < s)
          BY <1>0
    <3> QED BY <2>1, <2>4, <3>1, <3>2
  <2>5. CASE hit # {}
    <3>1. prev_clear(pos) = r /\ r \in Slice \ SlicesOf(free) /\ r < pos
          BY <1>1, <2>1, <2>2, <2>3, <2>5
    <3>2. ASSUME NEW s \in Slice, r < s, s < pos PROVE s \in SlicesOf(free)
      <4>1. s \in Nat /\ r \in Nat /\ s <= top /\ ~(s <= r)
            BY <1>0, <2>3, <3>1, <3>2
      <4> QED BY <1>1, <2>2, <2>5, <4>1
    <3> QED BY <3>1, <3>2
  <2> QED BY <2>4, <2>5
<1> QED BY <1>2, <1>3

-----------------------------------------------------------------------------
(* First fit.                                                              *)

\* align_up: the lowest slice from rel on whose absolute index is aligned.
LEMMA AlignUp ==
    ASSUME base \in Nat, NEW rel \in Nat, NEW align \in Nat \ {0}
    PROVE  /\ align_up(rel, align) \in Nat /\ rel <= align_up(rel, align)
           /\ (base + align_up(rel, align)) % align = 0
           /\ \A s \in Nat : rel <= s /\ (base + s) % align = 0
                                => align_up(rel, align) <= s
<1> DEFINE x == base + rel
           q == x \div align
           e == x % align
           start == align_up(rel, align)
<1>1. x \in Nat
      OBVIOUS
<1>2. q \in Nat /\ e \in 0 .. (align - 1) /\ q * align \in Nat /\ x = q * align + e
      BY <1>1, DivFacts
<1>3. start = rel + ((align - e) % align)
      BY DEF align_up
<1> HIDE DEF q, e, start
<1>4. CASE e = 0
  <2>1. (align - e) % align = 0
        BY <1>4
  <2>2. start = rel
        BY <1>3, <2>1
  <2>3. x % align = 0
        BY <1>4 DEF e
  <2> QED BY <2>2, <2>3 DEF start
<1>5. CASE e # 0
  <2>1. (align - e) % align = align - e
        BY <1>2, <1>5
  <2>2. start = rel + (align - e) /\ align - e \in Nat
        BY <1>2, <1>3, <2>1
  <2> DEFINE y == base + start
  <2>3. (q + 1) * align = q * align + align /\ q + 1 \in Nat
        BY <1>2, SMTT(30)
  <2>4. y \in Nat /\ y = (q + 1) * align + 0
        BY <1>1, <1>2, <2>2, <2>3
  <2> HIDE DEF y
  <2>5. y % align = 0
        BY <2>3, <2>4, DivIs
  <2>6. ASSUME NEW s \in Nat, rel <= s, (base + s) % align = 0
        PROVE  start <= s
    <3> DEFINE z == base + s
               k == z \div align
    <3>1. z \in Nat /\ k \in Nat /\ k * align \in Nat /\ z = k * align
          BY <2>6, DivFacts
    <3>2. z >= x
          BY <2>6
    <3>3. z = base + s
          OBVIOUS
    <3> HIDE DEF k, z
    <3>4. q < k
      <4>1. SUFFICES ASSUME ~(q < k) PROVE FALSE
            OBVIOUS
      <4>2. k = q \/ k < q
            BY <1>2, <3>1, <4>1
      <4>3. k * align <= q * align
            BY <1>2, <3>1, <4>2, MulMono
      <4> QED BY <1>1, <1>2, <1>5, <3>1, <3>2, <4>3
    <3>5. q * align + align <= k * align
          BY <1>2, <3>1, <3>4, MulMono
    <3> QED BY <1>2, <2>2, <3>1, <3>3, <3>5
  <2>7. start \in Nat /\ rel <= start
        BY <2>2
  <2> QED BY <2>5, <2>6, <2>7 DEF start, y
<1> QED BY <1>4, <1>5

\* count free slices follow the aligned slice s.
FitsAt(count, align, s) ==
    /\ s \in Slice /\ s + count <= CAPACITY
    /\ (base + s) % align = 0
    /\ \A t \in Slice : s <= t /\ t < s + count => t \in SlicesOf(free)

\* x is the lowest fit from pos on, NoRel if there is none.
First(x, count, align, pos) ==
    \/ /\ x = NoRel
       /\ \A s \in Slice : s >= pos => ~FitsAt(count, align, s)
    \/ /\ x \in Slice /\ pos <= x /\ FitsAt(count, align, x)
       /\ \A s \in Slice : s >= pos /\ FitsAt(count, align, s) => x <= s

LEMMA FirstExists ==
    ASSUME NEW count, NEW align, NEW pos \in Nat
    PROVE  \E x : First(x, count, align, pos)
<1> DEFINE S == {s \in Slice : s >= pos /\ FitsAt(count, align, s)}
<1>1. S \in SUBSET Nat
      BY DEF Slice
<1>2. CASE S = {}
      BY <1>2 DEF First
<1>3. CASE S # {}
  <2>1. Min(S) \in S /\ \A y \in S : Min(S) <= y
        BY <1>1, <1>3, MinOf
  <2> DEFINE x == Min(S)
  <2> HIDE DEF x
  <2>2. x \in Slice /\ x >= pos /\ x \in Nat /\ FitsAt(count, align, x)
        /\ \A s \in Slice : s >= pos /\ FitsAt(count, align, s) => x <= s
        BY <1>1, <2>1 DEF x
  <2>3. pos <= x
        BY <2>2
  <2> QED BY <2>2, <2>3 DEF First
<1> QED BY <1>2, <1>3

LEMMA FirstUnique ==
    ASSUME NEW count, NEW align, NEW pos \in Nat, NEW x, NEW y,
           First(x, count, align, pos), First(y, count, align, pos)
    PROVE  x = y
<1>1. Slice \subseteq Nat
      BY DEF Slice
<1>2. CASE x = NoRel /\ y = NoRel
      BY <1>2
<1>3. CASE x = NoRel /\ y # NoRel
  <2>1. y \in Slice /\ pos <= y /\ FitsAt(count, align, y)
        BY <1>3 DEF First
  <2>2. y >= pos
        BY <1>1, <2>1
  <2>3. NoRel \notin Slice
        BY DEF Slice, NoRel
  <2> QED BY <1>3, <2>1, <2>2, <2>3 DEF First
<1>4. CASE x # NoRel /\ y = NoRel
  <2>1. x \in Slice /\ pos <= x /\ FitsAt(count, align, x)
        BY <1>4 DEF First
  <2>2. x >= pos
        BY <1>1, <2>1
  <2>3. NoRel \notin Slice
        BY DEF Slice, NoRel
  <2> QED BY <1>4, <2>1, <2>2, <2>3 DEF First
<1>5. CASE x # NoRel /\ y # NoRel
  <2>1. /\ x \in Slice /\ pos <= x /\ FitsAt(count, align, x)
        /\ y \in Slice /\ pos <= y /\ FitsAt(count, align, y)
        BY <1>5 DEF First
  <2>2. x \in Nat /\ y \in Nat /\ x >= pos /\ y >= pos
        BY <1>1, <2>1
  <2>3. x <= y /\ y <= x
        BY <1>5, <2>1, <2>2 DEF First
  <2> QED BY <2>2, <2>3
<1> QED BY <1>2, <1>3, <1>4, <1>5

\* One turn of find_general: the run of free slices that follows pos serves
\* the request, or no fit begins before the end of it.
LEMMA ScanStep ==
    ASSUME free \in Bitmaps, base \in Nat, NEW pos \in 0 .. CAPACITY,
           NEW count \in Nat \ {0}, NEW align \in Nat \ {0},
           NEW lo, lo = next_set(pos), NEW hi, hi = next_clear(lo),
           NEW start, start = align_up(lo, align)
    PROVE  /\ lo = NoRel => First(NoRel, count, align, pos)
           /\ lo # NoRel =>
                 /\ hi \in 0 .. CAPACITY /\ pos < hi
                 /\ IF start <= hi /\ hi - start >= count
                    THEN First(start, count, align, pos)
                    ELSE \A x : First(x, count, align, hi) => First(x, count, align, pos)
<1> DEFINE F == SlicesOf(free)
<1>0. /\ pos \in Nat /\ CAPACITY \in Nat /\ pos <= CAPACITY
      /\ Slice \subseteq Nat /\ \A s \in Nat : s \in Slice <=> s < CAPACITY
      BY Sizes DEF Slice
<1>1. ASSUME NEW s \in Slice, FitsAt(count, align, s)
      PROVE  s \in F
  <2>1. s \in Nat /\ s <= s /\ s < s + count
        BY <1>0
  <2> QED BY <1>1, <2>1 DEF FitsAt
<1>2. CASE lo = NoRel
  <2>1. \A s \in F : s < pos
    <3>1. NoRel \notin Slice
          BY DEF NoRel, Slice
    <3> QED BY <1>2, <3>1, NextSet
  <2>2. \A s \in Slice : s >= pos => ~(s < pos)
        BY <1>0
  <2>3. First(NoRel, count, align, pos)
        BY <1>1, <2>1, <2>2 DEF First
  <2> QED BY <1>2, <2>3
<1>3. CASE lo # NoRel
  <2>1. /\ lo \in F /\ lo \in Slice /\ pos <= lo
        /\ \A s \in F : s >= pos => lo <= s
        BY <1>3, NextSet
  <2>2. /\ hi \in 0 .. CAPACITY /\ lo <= hi /\ hi \notin F
        /\ \A s \in Slice : lo <= s /\ s < hi => s \in F
        BY <2>1, NextClear
  <2>3. lo \in Nat /\ hi \in Nat /\ hi <= CAPACITY /\ lo < hi /\ pos < hi
        BY <1>0, <2>1, <2>2
  <2>4. /\ start \in Nat /\ lo <= start /\ (base + start) % align = 0
        /\ \A s \in Nat : lo <= s /\ (base + s) % align = 0 => start <= s
        BY <2>3, AlignUp
  <2> HIDE DEF F
  <2>5. ASSUME NEW s \in Slice, s >= pos, FitsAt(count, align, s)
        PROVE  start <= s
    <3>1. s \in F /\ s \in Nat /\ (base + s) % align = 0
          BY <1>0, <1>1, <2>5 DEF FitsAt
    <3>2. lo <= s
          BY <2>1, <2>5, <3>1
    <3> QED BY <2>4, <3>1, <3>2
  <2>6. CASE start <= hi /\ hi - start >= count
    <3>1. start \in Slice /\ pos <= start /\ start + count <= hi
          BY <1>0, <2>1, <2>3, <2>4, <2>6
    <3>2. FitsAt(count, align, start)
      <4>1. start + count <= CAPACITY
            BY <1>0, <2>3, <2>4, <3>1
      <4>2. ASSUME NEW t \in Slice, start <= t, t < start + count PROVE t \in F
        <5>1. t \in Nat /\ lo <= t /\ t < hi
              BY <1>0, <2>3, <2>4, <3>1, <4>2
        <5> QED BY <2>2, <5>1
      <4> QED BY <2>4, <3>1, <4>1, <4>2 DEF FitsAt, F
    <3>3. First(start, count, align, pos)
          BY <2>5, <3>1, <3>2 DEF First
    <3> QED BY <1>3, <2>2, <2>3, <2>6, <3>3
  <2>7. CASE ~(start <= hi /\ hi - start >= count)
    <3>1. ASSUME NEW s \in Slice, s >= pos, FitsAt(count, align, s)
          PROVE  s >= hi
      <4>1. SUFFICES ASSUME ~(s >= hi) PROVE FALSE
            OBVIOUS
      <4>2. start <= s /\ s \in Nat /\ s < hi /\ s + count <= CAPACITY
            BY <1>0, <2>3, <2>5, <3>1, <4>1 DEF FitsAt
      <4>3. hi < s + count
            BY <2>3, <2>4, <2>7, <4>2
      <4>4. hi \in Slice /\ s <= hi
            BY <1>0, <2>3, <4>2, <4>3
      <4> QED BY <2>2, <3>1, <4>3, <4>4 DEF FitsAt, F
    <3>2. ASSUME NEW s \in Slice, s >= hi PROVE s >= pos
          BY <1>0, <2>3, <3>2
    <3>3. ASSUME NEW x, First(x, count, align, hi) PROVE First(x, count, align, pos)
      <4>1. CASE x = NoRel /\ \A s \in Slice : s >= hi => ~FitsAt(count, align, s)
            BY <3>1, <4>1 DEF First
      <4>2. CASE /\ x \in Slice /\ hi <= x /\ FitsAt(count, align, x)
                 /\ \A s \in Slice : s >= hi /\ FitsAt(count, align, s) => x <= s
        <5>1. pos <= x
              BY <1>0, <2>3, <4>2
        <5> QED BY <3>1, <4>2, <5>1 DEF First
      <4> QED BY <3>3, <4>1, <4>2 DEF First
    <3> QED BY <1>3, <2>2, <2>3, <2>7, <3>3
  <2> QED BY <2>6, <2>7
<1> QED BY <1>2, <1>3

\* find_general finds the first fit from the word it starts at.
LEMMA FindGeneral ==
    ASSUME free \in Bitmaps, base \in Nat, NEW from \in 0 .. WORDS,
           NEW count \in Nat \ {0}, NEW align \in Nat \ {0}
    PROVE  First(find_general(count, align, from), count, align, from * Bits)
<1> DEFINE D == 0 .. CAPACITY
           Turn(f, pos) ==
               IF next_set(pos) = NoRel THEN NoRel
               ELSE IF /\ align_up(next_set(pos), align) <= next_clear(next_set(pos))
                       /\ next_clear(next_set(pos)) - align_up(next_set(pos), align) >= count
                    THEN align_up(next_set(pos), align)
                    ELSE f[next_clear(next_set(pos))]
           Scan == CHOOSE f : f = [pos \in D |-> Turn(f, pos)]
<1>0. CAPACITY \in Nat /\ D \subseteq Nat /\ from * Bits \in D
  <2>1. from \in Nat /\ WORDS \in Nat /\ Bits \in Nat \ {0} /\ CAPACITY \in Nat
        BY Sizes
  <2>2. from * Bits \in Nat
        BY <2>1
  <2>3. from = WORDS \/ from < WORDS
        BY <2>1
  <2>4. from * Bits <= CAPACITY
        BY <2>1, <2>2, <2>3, MulMono DEF CAPACITY
  <2> QED BY <2>1, <2>2, <2>4
<1>1. find_general(count, align, from)
         = IF count > CAPACITY THEN NoRel ELSE Scan[from * Bits]
      BY DEF find_general
\* A turn is right if the turn it leads to is.
<1>2. ASSUME NEW f, NEW pos \in D,
             \A p \in D : pos < p => First(f[p], count, align, p)
      PROVE  First(Turn(f, pos), count, align, pos)
  <2> DEFINE lo    == next_set(pos)
             hi    == next_clear(lo)
             start == align_up(lo, align)
  <2>1. /\ lo = NoRel => First(NoRel, count, align, pos)
        /\ lo # NoRel =>
              /\ hi \in D /\ pos < hi
              /\ IF start <= hi /\ hi - start >= count
                 THEN First(start, count, align, pos)
                 ELSE \A x : First(x, count, align, hi) => First(x, count, align, pos)
        BY ScanStep
  <2>2. Turn(f, pos) = IF lo = NoRel THEN NoRel
                       ELSE IF start <= hi /\ hi - start >= count THEN start
                       ELSE f[hi]
        OBVIOUS
  <2> HIDE DEF lo, hi, start, Turn, D
  <2> QED BY <1>2, <2>1, <2>2
\* The equation of scan has a solution.
<1>3. Scan = [pos \in D |-> Turn(Scan, pos)]
  <2> DEFINE g == [pos \in D |-> CHOOSE x : First(x, count, align, pos)]
  <2>1. \A pos \in D : First(g[pos], count, align, pos)
        BY <1>0, FirstExists
  <2>2. \A pos \in D : First(Turn(g, pos), count, align, pos)
    <3> HIDE DEF Turn, g
    <3> QED BY <1>2, <2>1
  <2>3. \A pos \in D : g[pos] = Turn(g, pos)
    <3> HIDE DEF Turn, g
    <3> QED BY <1>0, <2>1, <2>2, FirstUnique
  <2>4. g = [pos \in D |-> g[pos]]
        OBVIOUS
  <2> HIDE DEF Turn
  <2>5. g = [pos \in D |-> Turn(g, pos)]
        BY <2>3
  <2>6. \E f : f = [pos \in D |-> Turn(f, pos)]
        BY <2>5
  <2> QED BY <2>6
<1> HIDE DEF Scan, Turn
\* Whichever it takes, its turns are right, from the last position down.
<1>4. \A pos \in D : First(Scan[pos], count, align, pos)
  <2> DEFINE Bad == {CAPACITY - pos : pos \in {p \in D : ~First(Scan[p], count, align, p)}}
  <2>1. SUFFICES ASSUME Bad # {} PROVE FALSE
        OBVIOUS
  <2>2. Bad \in SUBSET Nat
        BY <1>0
  <2>3. Min(Bad) \in Bad /\ \A y \in Bad : Min(Bad) <= y
        BY <2>1, <2>2, MinOf
  <2>4. PICK pos \in D : ~First(Scan[pos], count, align, pos) /\ Min(Bad) = CAPACITY - pos
        BY <2>3
  <2>5. ASSUME NEW p \in D, pos < p PROVE First(Scan[p], count, align, p)
    <3>1. SUFFICES ASSUME CAPACITY - p \in Bad PROVE FALSE
          OBVIOUS
    <3>2. CAPACITY - pos <= CAPACITY - p
          BY <2>3, <2>4, <3>1
    <3> QED BY <1>0, <2>5, <3>2
  <2>6. Scan[pos] = Turn(Scan, pos)
        BY <1>3
  <2>7. First(Turn(Scan, pos), count, align, pos)
        BY <1>2, <2>5
  <2> QED BY <2>4, <2>6, <2>7
<1>5. CASE count > CAPACITY
  <2>1. ASSUME NEW s \in Slice, FitsAt(count, align, s) PROVE FALSE
    <3>1. s \in Nat /\ s + count <= CAPACITY
          BY <2>1 DEF FitsAt, Slice
    <3> QED BY <1>0, <1>5, <3>1
  <2>2. First(NoRel, count, align, from * Bits)
        BY <2>1 DEF First
  <2> QED BY <1>1, <1>5, <2>2
<1>6. CASE ~(count > CAPACITY)
      BY <1>0, <1>1, <1>4, <1>6
<1> QED BY <1>5, <1>6

-----------------------------------------------------------------------------
(* Groups in a word.                                                       *)

\* The places of the groups of g free bits, as a bitmap.
GroupsOf(g) ==
    [w \in Word |-> {b \in Bit : b % g = 0 /\ (b .. (b + g - 1)) \subseteq free[w]}]

\* A bit of a word has the alignment of the slice: the words are aligned.
LEMMA GroupAligned ==
    ASSUME base \in Nat, base % Bits = 0, NEW g \in Nat \ {0}, Bits % g = 0,
           NEW w \in Word, NEW b \in Bit
    PROVE  (base + (w * Bits + b)) % g = b % g
<1> DEFINE k == base \div Bits
           l == Bits \div g
<1>1. Bits \in Nat \ {0} /\ w \in Nat /\ b \in Nat
      BY Sizes DEF Word, Bit
<1>2. k \in Nat /\ base = k * Bits
  <2>1. k \in Nat /\ k * Bits \in Nat /\ base = k * Bits + (base % Bits)
        BY <1>1, DivFacts
  <2> HIDE DEF k
  <2> QED BY <2>1
<1>3. l \in Nat /\ Bits = l * g
  <2>1. l \in Nat /\ l * g \in Nat /\ Bits = l * g + (Bits % g)
        BY <1>1, DivFacts
  <2> HIDE DEF l
  <2> QED BY <2>1
<1> HIDE DEF k, l
<1>4. k * Bits + w * Bits = (k + w) * Bits
      BY <1>1, <1>2, SMTT(30)
<1>5. (k + w) * (l * g) = ((k + w) * l) * g
      BY <1>1, <1>2, <1>3, SMTT(30)
<1>6. (k + w) * l \in Nat
      BY <1>1, <1>2, <1>3
<1>7. w * Bits \in Nat /\ k * Bits \in Nat
      BY <1>1, <1>2
<1>8. base + (w * Bits + b) = (k * Bits + w * Bits) + b
      BY <1>1, <1>2, <1>7
<1>9. base + (w * Bits + b) = ((k + w) * l) * g + b
      BY <1>3, <1>4, <1>5, <1>8
<1>10. (((k + w) * l) * g + b) % g = b % g
      BY <1>1, <1>6, ModPlus
<1> QED BY <1>9, <1>10

\* An aligned group that begins in a word ends in it.
LEMMA GroupInWord ==
    ASSUME NEW g \in Nat \ {0}, Bits % g = 0, NEW b \in Bit, b % g = 0
    PROVE  b + g <= Bits
<1> DEFINE k == b \div g
           l == Bits \div g
<1>1. Bits \in Nat \ {0} /\ b \in Nat /\ b < Bits
      BY Sizes DEF Bit
<1>2. k \in Nat /\ b = k * g
      BY <1>1, DivFacts
<1>3. l \in Nat /\ Bits = l * g
      BY <1>1, DivFacts
<1> HIDE DEF k, l
<1>4. k < l
  <2>1. SUFFICES ASSUME ~(k < l) PROVE FALSE
        OBVIOUS
  <2>2. l = k \/ l < k
        BY <1>2, <1>3, <2>1
  <2>3. l * g <= k * g
        BY <1>2, <1>3, <2>2, MulMono
  <2> QED BY <1>1, <1>2, <1>3, <2>3
<1> QED BY <1>2, <1>3, <1>4, MulMono

\* The slices of the bitmap of groups are the fits.
LEMMA GroupSlices ==
    ASSUME free \in Bitmaps, base \in Nat, base % Bits = 0,
           NEW g \in Nat \ {0}, Bits % g = 0
    PROVE  /\ GroupsOf(g) \in Bitmaps
           /\ \A s \in Slice : s \in SlicesOf(GroupsOf(g)) <=> FitsAt(g, g, s)
<1>1. GroupsOf(g) \in Bitmaps
      BY DEF GroupsOf, Bitmaps
<1>2. ASSUME NEW w \in Word, NEW b \in Bit
      PROVE  b \in GroupsOf(g)[w] <=> FitsAt(g, g, w * Bits + b)
  <2> DEFINE s == w * Bits + b
  <2>1. /\ s \in Slice /\ w * Bits \in Nat /\ w \in Nat /\ b \in Nat /\ b < Bits
        /\ Bits \in Nat \ {0} /\ WORDS \in Nat /\ w < WORDS
    <3>1. s \in Slice /\ w * Bits \in Nat
          BY At
    <3>2. /\ w \in Nat /\ b \in Nat /\ b < Bits
          /\ Bits \in Nat \ {0} /\ WORDS \in Nat /\ w < WORDS
          BY Sizes DEF Word, Bit
    <3> QED BY <3>1, <3>2
  <2>2. (base + s) % g = b % g
        BY GroupAligned
  <2>3. b \in GroupsOf(g)[w] <=> b % g = 0 /\ (b .. (b + g - 1)) \subseteq free[w]
        BY DEF GroupsOf
  <2>4. ASSUME b % g = 0
        PROVE  (b .. (b + g - 1)) \subseteq free[w] <=> FitsAt(g, g, s)
    <3>1. b + g <= Bits
          BY <2>4, GroupInWord
    <3>2. w * Bits + Bits <= CAPACITY
          BY <2>1, MulMono DEF CAPACITY
    <3>3. CAPACITY \in Nat
          BY Sizes
    <3>4. s + g <= CAPACITY
          BY <2>1, <3>1, <3>2, <3>3
    <3>5. ASSUME NEW t \in Nat, s <= t, t < s + g
          PROVE  /\ t - w * Bits \in b .. (b + g - 1) /\ t - w * Bits \in Bit
                 /\ t = w * Bits + (t - w * Bits)
          BY <2>1, <3>1, <3>5 DEF Bit
    <3>6. ASSUME NEW c \in b .. (b + g - 1)
          PROVE  c \in Bit /\ s <= w * Bits + c /\ w * Bits + c < s + g
                 /\ w * Bits + c \in Slice
      <4>1. c \in Bit /\ s <= w * Bits + c /\ w * Bits + c < s + g
            BY <2>1, <3>1 DEF Bit
      <4> QED BY <4>1, At
    <3>7. ASSUME (b .. (b + g - 1)) \subseteq free[w],
                 NEW t \in Slice, s <= t, t < s + g
          PROVE  t \in SlicesOf(free)
      <4>1. t \in Nat
            BY DEF Slice
      <4>2. /\ t - w * Bits \in b .. (b + g - 1) /\ t - w * Bits \in Bit
            /\ t = w * Bits + (t - w * Bits)
            BY <3>5, <3>7, <4>1
      <4> DEFINE c == t - w * Bits
      <4>3. c \in free[w] /\ c \in Bit /\ t = w * Bits + c
            BY <3>7, <4>2
      <4> HIDE DEF c
      <4> QED BY <4>3, InSlices
    <3>8. ASSUME \A t \in Slice : s <= t /\ t < s + g => t \in SlicesOf(free),
                 NEW c \in b .. (b + g - 1)
          PROVE  c \in free[w]
          BY <3>6, <3>8, InSlices
    <3> QED BY <2>1, <2>2, <2>4, <3>4, <3>7, <3>8 DEF FitsAt
  <2>5. FitsAt(g, g, s) => b % g = 0
        BY <2>2 DEF FitsAt
  <2> QED BY <2>3, <2>4, <2>5
<1>3. ASSUME NEW s \in Slice
      PROVE  s \in SlicesOf(GroupsOf(g)) <=> FitsAt(g, g, s)
  <2>1. s \in 0 .. CAPACITY /\ s < CAPACITY
        BY Sizes DEF Slice
  <2>2. PICK w \in Word, b \in Bit : s = w * Bits + b
        BY <2>1, Split
  <2>3. s \in SlicesOf(GroupsOf(g)) <=> b \in GroupsOf(g)[w]
        BY <1>1, <2>2, InSlices
  <2> QED BY <1>2, <2>2, <2>3
<1> QED BY <1>1, <1>3

\* The scans of the words find the first fit from the word they start at.
LEMMA FindGroup ==
    ASSUME free \in Bitmaps, base \in Nat, base % Bits = 0,
           NEW from \in 0 .. WORDS, NEW g \in Groups
    PROVE  First(find_group(g, from), g, g, from * Bits)
<1> DEFINE G   == GroupsOf(g)
           pos == from * Bits
           hit == HitAbove(G, pos)
           r   == Min(hit) * Bits + Min(Above(G, pos, Min(hit)))
<1>0. g \in Nat \ {0} /\ Bits % g = 0
      BY SliceMapAssumption
<1>1. pos \in 0 .. CAPACITY /\ pos \in Nat /\ pos \div Bits = from /\ pos % Bits = 0
  <2>1. from \in Nat /\ WORDS \in Nat /\ Bits \in Nat \ {0} /\ CAPACITY \in Nat
        BY Sizes
  <2>2. pos \in Nat /\ pos = from * Bits + 0 /\ 0 < Bits
        BY <2>1
  <2>3. from = WORDS \/ from < WORDS
        BY <2>1
  <2>4. pos <= CAPACITY
        BY <2>1, <2>2, <2>3, MulMono DEF CAPACITY
  <2> HIDE DEF pos
  <2>5. pos \div Bits = from /\ pos % Bits = 0
        BY <2>1, <2>2, DivIs
  <2> QED BY <2>1, <2>2, <2>4, <2>5
<1> HIDE DEF pos
<1>2. /\ G \in Bitmaps
      /\ \A s \in Slice : s \in SlicesOf(G) <=> FitsAt(g, g, s)
      BY <1>0, GroupSlices
<1>3. \A w \in Word : Above(G, pos, w) = G[w]
  <2>1. \A w \in Word : G[w] \subseteq Bit
        BY <1>2 DEF Bitmaps
  <2>2. \A b \in Bit : b >= 0
        BY DEF Bit
  <2> QED BY <1>1, <2>1, <2>2 DEF Above
<1>4. find_group(g, from) = IF hit = {} THEN NoRel ELSE r
  <2>1. \A w \in Word : G[w] = {b \in 0 .. (Bits - 1) :
                                  b % g = 0 /\ (b .. (b + g - 1)) \subseteq free[w]}
        BY DEF GroupsOf, Bit
  <2>2. hit = {w \in Word : w >= from /\
                 {b \in 0 .. (Bits - 1) :
                     b % g = 0 /\ (b .. (b + g - 1)) \subseteq free[w]} # {}}
        BY <1>1, <1>3, <2>1 DEF HitAbove
  <2>3. CASE hit = {}
        BY <2>2, <2>3 DEF find_group
  <2>4. CASE hit # {}
    <3>1. hit \in SUBSET Nat /\ hit \subseteq Word
          BY DEF HitAbove, Word
    <3>2. Min(hit) \in Word
          BY <2>4, <3>1, MinOf
    <3>3. G[Min(hit)] = Above(G, pos, Min(hit))
          BY <1>3, <3>2
    <3> QED BY <2>1, <2>2, <2>4, <3>2, <3>3 DEF find_group
  <2> QED BY <2>3, <2>4
<1>5. /\ hit = {} => \A s \in SlicesOf(G) : s < pos
      /\ hit # {} => /\ r \in SlicesOf(G) /\ pos <= r
                     /\ \A s \in SlicesOf(G) : s >= pos => r <= s
      BY <1>1, <1>2, WalkUp
<1> HIDE DEF hit, r, G
<1>6. SlicesOf(G) \subseteq Slice /\ \A s \in Slice : s \in Nat
      BY <1>2, InSlices DEF Slice
<1>7. CASE hit = {}
  <2>1. \A s \in Slice : s >= pos => ~(s < pos)
        BY <1>1, <1>6
  <2>2. First(NoRel, g, g, pos)
        BY <1>2, <1>5, <1>7, <2>1 DEF First
  <2> QED BY <1>4, <1>7, <2>2 DEF pos
<1>8. CASE hit # {}
  <2>1. First(r, g, g, pos)
        BY <1>2, <1>5, <1>6, <1>8 DEF First
  <2> QED BY <1>4, <1>8, <2>1 DEF pos
<1> QED BY <1>7, <1>8

-----------------------------------------------------------------------------
(* The hint, and the searches as the methods make them.                    *)

\* Every word below w has no free bit.
EmptyBelow(w) == \A v \in Word : v < w => free[v] = {}

\* advance_hint passes empty words only.
LEMMA Advance ==
    ASSUME free \in Bitmaps, hint \in 0 .. WORDS, EmptyBelow(hint)
    PROVE  advance_hint \in 0 .. WORDS /\ EmptyBelow(advance_hint)
<1> DEFINE full == {w \in Word : w >= hint /\ free[w] # {}}
<1>0. WORDS \in Nat /\ hint \in Nat /\ full \in SUBSET Nat /\ full \subseteq Word
      BY Sizes DEF Word
<1>1. advance_hint = IF full = {} THEN WORDS ELSE Min(full)
      BY DEF advance_hint
<1>2. ASSUME NEW v \in Word, free[v] # {} PROVE v \in full
  <2>1. ~(v < hint)
        BY <1>2 DEF EmptyBelow
  <2> QED BY <1>0, <1>2, <2>1 DEF Word
<1> HIDE DEF full
<1>3. CASE full = {}
      BY <1>0, <1>1, <1>2, <1>3 DEF EmptyBelow
<1>4. CASE full # {}
  <2>1. Min(full) \in full /\ \A y \in full : Min(full) <= y
        BY <1>0, <1>4, MinOf
  <2> DEFINE m == Min(full)
  <2> HIDE DEF m
  <2>2. advance_hint = m /\ m \in full /\ \A y \in full : m <= y
        BY <1>1, <1>4, <2>1 DEF m
  <2>3. m \in 0 .. WORDS /\ m \in Nat
        BY <1>0, <2>2 DEF Word
  <2>4. EmptyBelow(m)
    <3>1. SUFFICES ASSUME NEW v \in Word, v < m, free[v] # {} PROVE FALSE
          BY DEF EmptyBelow
    <3>2. m <= v /\ v \in Nat
          BY <1>0, <1>2, <2>2, <3>1
    <3> QED BY <2>3, <3>1, <3>2
  <2> QED BY <2>2, <2>3, <2>4
<1> QED BY <1>3, <1>4

\* Nothing is free below a word with only empty words below it.
LEMMA NothingBelow ==
    ASSUME free \in Bitmaps, NEW from \in 0 .. WORDS, EmptyBelow(from),
           NEW s \in SlicesOf(free)
    PROVE  s >= from * Bits
<1>1. s \in Slice /\ s % Bits \in free[s \div Bits]
      BY InSlices
<1>2. s \in 0 .. CAPACITY /\ s < CAPACITY
      BY <1>1, Sizes DEF Slice
<1> DEFINE d == s \div Bits
           e == s % Bits
<1>3. d \in Word /\ e \in Bit /\ s = d * Bits + e /\ d * Bits \in Nat
      BY <1>2, Split
<1>4. ~(d < from)
      BY <1>1, <1>3 DEF EmptyBelow
<1> HIDE DEF d, e
<1>5. from \in Nat /\ d \in Nat /\ e \in Nat /\ Bits \in Nat \ {0}
      BY <1>3, Sizes DEF Word, Bit
<1>6. from * Bits \in Nat /\ (d = from \/ from < d)
      BY <1>4, <1>5
<1>7. from * Bits <= d * Bits
      BY <1>3, <1>5, <1>6, MulMono
<1> QED BY <1>3, <1>5, <1>6, <1>7

\* find returns the lowest fit of the whole map.
LEMMA FindFirst ==
    ASSUME free \in Bitmaps, base \in Nat, base % Bits = 0,
           NEW from \in 0 .. WORDS, EmptyBelow(from),
           NEW count \in Nat \ {0}, NEW align \in Nat \ {0}
    PROVE  First(find(count, align, from), count, align, 0)
<1> DEFINE x == find(count, align, from)
<1>1. First(x, count, align, from * Bits)
  <2>1. CASE count = align /\ count \in Groups
    <3>1. First(find_group(count, from), count, count, from * Bits)
          BY <2>1, FindGroup
    <3> QED BY <2>1, <3>1 DEF find
  <2>2. CASE ~(count = align /\ count \in Groups)
    <3>1. First(find_general(count, align, from), count, align, from * Bits)
          BY FindGeneral
    <3> QED BY <2>2, <3>1 DEF find
  <2> QED BY <2>1, <2>2
<1> HIDE DEF x
<1>2. ASSUME NEW s \in Slice, FitsAt(count, align, s) PROVE s >= from * Bits
  <2>1. s \in Nat /\ s <= s /\ s < s + count
        BY DEF Slice
  <2>2. s \in SlicesOf(free)
        BY <1>2, <2>1 DEF FitsAt
  <2> QED BY <2>2, NothingBelow
<1>3. \A s \in Slice : 0 <= s
      BY DEF Slice
<1>4. First(x, count, align, 0)
      BY <1>1, <1>2, <1>3 DEF First
<1> QED BY <1>4 DEF x

-----------------------------------------------------------------------------
(* The same searches over the set of free slices, by absolute index.       *)

AbsoluteSet(bits) == {base + s : s \in SlicesOf(bits)}

\* mm stands for the map: its base and its free slices.
Stands(mm) == mm.base = base /\ mm.free = AbsoluteSet(free)

\* A slice is free in the one if it is in the other.
LEMMA FreeAt ==
    ASSUME free \in Bitmaps, base \in Nat, NEW mm, Stands(mm)
    PROVE  /\ \A s \in Slice : base + s \in mm.free <=> s \in SlicesOf(free)
           /\ \A x \in mm.free : x \in Nat /\ x - base \in Slice
                                 /\ x - base \in SlicesOf(free)
<1>1. SlicesOf(free) \subseteq Slice /\ Slice \subseteq Nat
      BY InSlices DEF Slice
<1>2. ASSUME NEW s \in Slice, base + s \in mm.free PROVE s \in SlicesOf(free)
  <2>1. PICK t \in SlicesOf(free) : base + s = base + t
        BY <1>2 DEF Stands, AbsoluteSet
  <2>2. s \in Nat /\ t \in Nat
        BY <1>1
  <2>3. s = t
        BY <2>1, <2>2
  <2> QED BY <2>3
<1>3. ASSUME NEW s \in SlicesOf(free) PROVE base + s \in mm.free
      BY DEF Stands, AbsoluteSet
<1>4. ASSUME NEW x \in mm.free
      PROVE  x \in Nat /\ x - base \in Slice /\ x - base \in SlicesOf(free)
  <2>1. PICK s \in SlicesOf(free) : x = base + s
        BY DEF Stands, AbsoluteSet
  <2>2. s \in Slice /\ s \in Nat
        BY <1>1
  <2>3. x - base = s /\ x \in Nat
        BY <2>1, <2>2
  <2> QED BY <2>2, <2>3
<1> QED BY <1>2, <1>3, <1>4

LEMMA PoolFits ==
    ASSUME free \in Bitmaps, base \in Nat, NEW mm, Stands(mm),
           NEW count \in Nat \ {0}, NEW align \in Nat \ {0}
    PROVE  /\ \A s \in Slice : FitsAt(count, align, s)
                                  => base + s \in Pool!Fits(mm, count, align)
           /\ \A x \in Pool!Fits(mm, count, align) :
                 /\ x \in Nat /\ x - base \in Slice
                 /\ FitsAt(count, align, x - base)
<1>0. CAPACITY \in Nat /\ Slice \subseteq Nat /\ \A s \in Nat : s \in Slice <=> s < CAPACITY
      BY Sizes DEF Slice
<1>1. ASSUME NEW s \in Slice, FitsAt(count, align, s)
      PROVE  base + s \in Pool!Fits(mm, count, align)
  <2>1. s \in SlicesOf(free)
    <3>1. s <= s /\ s < s + count
          BY <1>0
    <3> QED BY <1>1, <3>1 DEF FitsAt
  <2>2. ASSUME NEW x \in (base + s) .. (base + s + count - 1) PROVE x \in mm.free
    <3>1. x \in Int /\ base + s <= x /\ x <= base + s + count - 1 /\ s + count <= CAPACITY
          BY <1>1 DEF FitsAt
    <3>2. x - base \in Nat /\ s <= x - base /\ x - base < s + count
          BY <1>0, <3>1
    <3>3. x - base \in Slice
          BY <1>0, <1>1, <3>1, <3>2
    <3>4. x - base \in SlicesOf(free)
          BY <1>1, <3>2, <3>3 DEF FitsAt
    <3>5. base + (x - base) = x
          BY <3>1
    <3> QED BY <3>3, <3>4, <3>5, FreeAt
  <2>3. base + s \in mm.free
        BY <2>1, FreeAt
  <2>4. (base + s) % align = 0
        BY <1>1 DEF FitsAt
  <2> QED BY <2>2, <2>3, <2>4 DEF Pool!Fits, Pool!Span
<1>2. ASSUME NEW x \in Pool!Fits(mm, count, align)
      PROVE  x \in Nat /\ x - base \in Slice /\ FitsAt(count, align, x - base)
  <2> DEFINE s == x - base
  <2>1. x \in mm.free /\ x % align = 0 /\ \A y \in x .. (x + count - 1) : y \in mm.free
        BY DEF Pool!Fits, Pool!Span
  <2>2. x \in Nat /\ s \in Slice /\ s \in Nat /\ base + s = x
        BY <1>0, <2>1, FreeAt
  <2> HIDE DEF s
  <2>3. ASSUME NEW i \in 0 .. (count - 1)
        PROVE  s + i \in Slice /\ s + i \in SlicesOf(free)
    <3>1. x + i \in x .. (x + count - 1) /\ (x + i) - base = s + i
          BY <2>2
    <3> QED BY <2>1, <3>1, FreeAt
  <2>4. s + count <= CAPACITY
    <3>1. s + (count - 1) \in Slice
          BY <2>3
    <3> QED BY <1>0, <2>2, <3>1
  <2>5. ASSUME NEW t \in Slice, s <= t, t < s + count PROVE t \in SlicesOf(free)
    <3>1. t - s \in 0 .. (count - 1) /\ s + (t - s) = t
          BY <1>0, <2>2, <2>5
    <3> QED BY <2>3, <3>1
  <2>6. (base + s) % align = 0
        BY <2>1, <2>2
  <2>7. FitsAt(count, align, s)
        BY <2>2, <2>4, <2>5, <2>6 DEF FitsAt
  <2> QED BY <2>2, <2>7 DEF s
<1> QED BY <1>1, <1>2

\* The first fit is the lowest of the fits.
LEMMA FirstIsLowest ==
    ASSUME free \in Bitmaps, base \in Nat, NEW mm, Stands(mm),
           NEW count \in Nat \ {0}, NEW align \in Nat \ {0},
           NEW x, First(x, count, align, 0)
    PROVE  Absolute(x) = Pool!Lowest(Pool!Fits(mm, count, align))
<1> DEFINE Q == Pool!Fits(mm, count, align)
<1>0. Slice \subseteq Nat /\ NoRel \notin Slice
      BY DEF Slice, NoRel
<1>1. /\ \A s \in Slice : FitsAt(count, align, s) => base + s \in Q
      /\ \A q \in Q : q \in Nat /\ q - base \in Slice /\ FitsAt(count, align, q - base)
      BY PoolFits
<1>2. Pool!Lowest(Q) = {s \in Q : \A t \in Q : s <= t}
      BY DEF Pool!Lowest
<1> HIDE DEF Q
<1>3. CASE x = NoRel
  <2>1. Q = {}
    <3>1. SUFFICES ASSUME NEW q \in Q PROVE FALSE
          OBVIOUS
    <3>2. q - base \in Slice /\ q - base >= 0 /\ FitsAt(count, align, q - base)
          BY <1>0, <1>1
    <3> QED BY <1>0, <1>3, <3>2 DEF First
  <2> QED BY <1>2, <1>3, <2>1 DEF Absolute, Q
<1>4. CASE x # NoRel
  <2>1. /\ x \in Slice /\ FitsAt(count, align, x)
        /\ \A s \in Slice : s >= 0 /\ FitsAt(count, align, s) => x <= s
        BY <1>4 DEF First
  <2>2. base + x \in Q /\ x \in Nat
        BY <1>0, <1>1, <2>1
  <2>3. ASSUME NEW q \in Q PROVE base + x <= q
    <3>1. q \in Nat /\ q - base \in Slice /\ q - base >= 0 /\ FitsAt(count, align, q - base)
          BY <1>0, <1>1
    <3>2. x <= q - base
          BY <2>1, <3>1
    <3> QED BY <2>2, <3>1, <3>2
  <2>4. ASSUME NEW q \in Q, \A t \in Q : q <= t PROVE q = base + x
    <3>1. q \in Nat /\ q <= base + x /\ base + x <= q
          BY <1>1, <2>2, <2>3, <2>4
    <3> QED BY <2>2, <3>1
  <2>5. Pool!Lowest(Q) = {base + x}
        BY <1>2, <2>2, <2>3, <2>4
  <2> QED BY <1>4, <2>5 DEF Absolute, Q
<1> QED BY <1>3, <1>4

-----------------------------------------------------------------------------
(* The bits of a range.                                                    *)

\* The slices of the map in [rel, rel + count).
Piece(rel, count) == {s \in Slice : rel <= s /\ s < rel + count}

LEMMA MaskSlices ==
    ASSUME NEW rel \in Int, NEW count \in Int
    PROVE  Mask(rel, count) \in Bitmaps /\ SlicesOf(Mask(rel, count)) = Piece(rel, count)
<1>1. Mask(rel, count) \in Bitmaps
      BY DEF Mask, Bitmaps, Bit
<1>2. ASSUME NEW s \in Slice
      PROVE  s \in SlicesOf(Mask(rel, count)) <=> rel <= s /\ s < rel + count
  <2>1. s \in 0 .. CAPACITY /\ s < CAPACITY
        BY Sizes DEF Slice
  <2>2. PICK w \in Word, b \in Bit : s = w * Bits + b
        BY <2>1, Split
  <2>3. s \in SlicesOf(Mask(rel, count)) <=> b \in Mask(rel, count)[w]
        BY <1>1, <2>2, InSlices
  <2>4. b \in Mask(rel, count)[w] <=> rel <= w * Bits + b /\ w * Bits + b < rel + count
        BY DEF Mask, Bit
  <2> QED BY <2>2, <2>3, <2>4
<1>3. SlicesOf(Mask(rel, count)) \subseteq Slice
      BY <1>1, InSlices
<1> QED BY <1>1, <1>2, <1>3 DEF Piece

\* What is done word by word is done to the slices.
LEMMA WordByWord ==
    ASSUME NEW a \in Bitmaps, NEW c \in Bitmaps
    PROVE  /\ [w \in Word |-> a[w] \ c[w]] \in Bitmaps
           /\ SlicesOf([w \in Word |-> a[w] \ c[w]]) = SlicesOf(a) \ SlicesOf(c)
           /\ [w \in Word |-> a[w] \cup c[w]] \in Bitmaps
           /\ SlicesOf([w \in Word |-> a[w] \cup c[w]]) = SlicesOf(a) \cup SlicesOf(c)
           /\ (\A w \in Word : a[w] \subseteq c[w]) <=> SlicesOf(a) \subseteq SlicesOf(c)
           /\ (\A w \in Word : a[w] \cap c[w] = {}) <=> SlicesOf(a) \cap SlicesOf(c) = {}
<1> DEFINE m == [w \in Word |-> a[w] \ c[w]]
           u == [w \in Word |-> a[w] \cup c[w]]
<1>1. m \in Bitmaps /\ u \in Bitmaps
      BY DEF Bitmaps
<1>2. /\ SlicesOf(m) \subseteq Slice /\ SlicesOf(u) \subseteq Slice
      /\ SlicesOf(a) \subseteq Slice /\ SlicesOf(c) \subseteq Slice
      BY <1>1, InSlices
<1>3. ASSUME NEW s \in Slice
      PROVE  \E w \in Word, b \in Bit : s = w * Bits + b
  <2>1. s \in 0 .. CAPACITY /\ s < CAPACITY
        BY Sizes DEF Slice
  <2> QED BY <2>1, Split
<1>4. ASSUME NEW w \in Word, NEW b \in Bit
      PROVE  /\ w * Bits + b \in SlicesOf(m) <=> b \in m[w]
             /\ w * Bits + b \in SlicesOf(u) <=> b \in u[w]
             /\ w * Bits + b \in SlicesOf(a) <=> b \in a[w]
             /\ w * Bits + b \in SlicesOf(c) <=> b \in c[w]
      BY <1>1, InSlices
<1>5. ASSUME NEW s \in Slice
      PROVE  /\ s \in SlicesOf(m) <=> s \in SlicesOf(a) /\ s \notin SlicesOf(c)
             /\ s \in SlicesOf(u) <=> s \in SlicesOf(a) \/ s \in SlicesOf(c)
  <2>1. PICK w \in Word, b \in Bit : s = w * Bits + b
        BY <1>3
  <2>2. m[w] = a[w] \ c[w] /\ u[w] = a[w] \cup c[w]
        OBVIOUS
  <2> HIDE DEF m, u
  <2> QED BY <1>4, <2>1, <2>2
<1>6. ASSUME \A w \in Word : a[w] \subseteq c[w]
      PROVE  SlicesOf(a) \subseteq SlicesOf(c)
  <2>1. SUFFICES ASSUME NEW s \in SlicesOf(a) PROVE s \in SlicesOf(c)
        OBVIOUS
  <2>2. PICK w \in Word, b \in Bit : s = w * Bits + b
        BY <1>2, <1>3
  <2> QED BY <1>4, <1>6, <2>2
<1>7. ASSUME SlicesOf(a) \subseteq SlicesOf(c), NEW w \in Word
      PROVE  a[w] \subseteq c[w]
  <2>1. a[w] \subseteq Bit
        BY DEF Bitmaps
  <2> QED BY <1>4, <1>7, <2>1
<1>8. ASSUME \A w \in Word : a[w] \cap c[w] = {}
      PROVE  SlicesOf(a) \cap SlicesOf(c) = {}
  <2>1. SUFFICES ASSUME NEW s \in SlicesOf(a), s \in SlicesOf(c) PROVE FALSE
        OBVIOUS
  <2>2. PICK w \in Word, b \in Bit : s = w * Bits + b
        BY <1>2, <1>3
  <2>3. b \in a[w] /\ b \in c[w]
        BY <1>4, <2>1, <2>2
  <2> QED BY <1>8, <2>3
<1>9. ASSUME SlicesOf(a) \cap SlicesOf(c) = {}, NEW w \in Word
      PROVE  a[w] \cap c[w] = {}
  <2>1. a[w] \subseteq Bit
        BY DEF Bitmaps
  <2> QED BY <1>4, <1>9, <2>1
<1>10. SlicesOf(m) = SlicesOf(a) \ SlicesOf(c) /\ SlicesOf(u) = SlicesOf(a) \cup SlicesOf(c)
  <2> HIDE DEF m, u
  <2> QED BY <1>2, <1>5
<1> HIDE DEF m, u
<1> QED BY <1>1, <1>6, <1>7, <1>8, <1>9, <1>10 DEF m, u

\* all_set: the range lies in the map and all of it is free.
LEMMA AllSet ==
    ASSUME NEW bits \in Bitmaps, NEW rel \in Int, NEW count \in Int
    PROVE  all_set(bits, rel, count)
               <=> rel + count <= CAPACITY /\ Piece(rel, count) \subseteq SlicesOf(bits)
<1> DEFINE k == Mask(rel, count)
<1>1. k \in Bitmaps /\ SlicesOf(k) = Piece(rel, count)
      BY MaskSlices
<1>2. (\A w \in Word : k[w] \subseteq bits[w]) <=> SlicesOf(k) \subseteq SlicesOf(bits)
  <2> HIDE DEF k
  <2> QED BY <1>1, WordByWord
<1> QED BY <1>1, <1>2 DEF all_set

\* A search finds nothing, or a run inside the map.
InMap(x, count) == x = NoRel \/ (x \in Nat /\ x + count <= CAPACITY)

\* find_tail: the lowest aligned slice of the free tail below the end, when the
\* run fits above it.
LEMMA FindTail ==
    ASSUME free \in Bitmaps, base \in Nat, NEW mm, Stands(mm), NEW e \in Nat,
           NEW count \in Nat \ {0}, NEW align \in Nat \ {0}
    PROVE  /\ Absolute(find_tail(count, align, e)) = Pool!TailFits(mm, count, align, e)
           /\ InMap(find_tail(count, align, e), count)
<1> DEFINE F    == SlicesOf(free)
           end  == Min({Max({e - base, 0}), CAPACITY})
           top  == Pool!Least(e, Pool!Limit(mm))
           Tail == {t \in Pool!FreeTail(mm, e) : t % align = 0}
           clr  == prev_clear(end - 1)
           st   == align_up(clr + 1, align)
<1>0. /\ CAPACITY \in Nat \ {0} /\ Slice \subseteq Nat
      /\ \A s \in Nat : s \in Slice <=> s < CAPACITY
      /\ NoRel \notin Slice
      BY Sizes DEF Slice, NoRel
<1>1. top = IF e <= base + CAPACITY THEN e ELSE base + CAPACITY
      BY DEF Pool!Least, Pool!Limit, Stands
<1>2. end = IF e <= base THEN 0 ELSE IF e <= base + CAPACITY THEN e - base ELSE CAPACITY
  <2> DEFINE M == {Max({e - base, 0}), CAPACITY}
  <2>1. Max({e - base, 0}) = IF e <= base THEN 0 ELSE e - base
    <3>1. CASE e <= base
      <4>1. \A x \in {e - base, 0} : (\A y \in {e - base, 0} : x >= y) => x = 0
            BY <3>1
      <4>2. 0 \in {e - base, 0} /\ \A y \in {e - base, 0} : 0 >= y
            BY <3>1
      <4> QED BY <3>1, <4>1, <4>2 DEF Max
    <3>2. CASE ~(e <= base)
      <4> DEFINE d == e - base
      <4>1. d \in Nat /\ d > 0
            BY <3>2
      <4> HIDE DEF d
      <4>2. \A x \in {d, 0} : (\A y \in {d, 0} : x >= y) => x = d
            BY <4>1
      <4>3. d \in {d, 0} /\ \A y \in {d, 0} : d >= y
            BY <4>1
      <4>4. Max({d, 0}) = d
            BY <4>2, <4>3 DEF Max
      <4> QED BY <3>2, <4>4 DEF d
    <3> QED BY <3>1, <3>2
  <2> DEFINE h == Max({e - base, 0})
  <2>2. h \in Nat
        BY <2>1
  <2> HIDE DEF h
  <2>3. Min({h, CAPACITY}) = IF h <= CAPACITY THEN h ELSE CAPACITY
    <3>1. Min({h, CAPACITY}) \in {h, CAPACITY} /\ \A y \in {h, CAPACITY} : Min({h, CAPACITY}) <= y
          BY <1>0, <2>2, MinOf
    <3> QED BY <1>0, <2>2, <3>1
  <2>4. h = IF e <= base THEN 0 ELSE e - base
        BY <2>1 DEF h
  <2>5. end = Min({h, CAPACITY})
        BY DEF h
  <2> QED BY <1>0, <2>3, <2>4, <2>5
<1>3. find_tail(count, align, e)
         = IF end > 0 /\ all_set(free, end - 1, 1) /\ st <= end /\ end - st >= count
           THEN st ELSE NoRel
      BY DEF find_tail
<1>4. Pool!TailFits(mm, count, align, e) = {s \in Pool!Lowest(Tail) : s + count <= top}
      BY DEF Pool!TailFits
<1>5. Pool!FreeTail(mm, e) = {s \in mm.free : s < top /\ (s .. (top - 1)) \subseteq mm.free}
      BY DEF Pool!FreeTail
<1>6. /\ \A s \in Slice : base + s \in mm.free <=> s \in F
      /\ \A x \in mm.free : x \in Nat /\ x - base \in Slice /\ x - base \in F
      BY FreeAt
<1> HIDE DEF F, top, end, clr, st
<1>7. ASSUME Tail = {}
      PROVE  Pool!TailFits(mm, count, align, e) = {}
  <2>1. Pool!Lowest(Tail) = {}
        BY <1>7 DEF Pool!Lowest
  <2> QED BY <1>4, <2>1
<1>8. CASE end = 0
  <2>1. Tail = {}
    <3>1. SUFFICES ASSUME NEW x \in mm.free, x < top PROVE FALSE
          BY <1>5
    <3>2. x \in Nat /\ x - base >= 0
          BY <1>0, <1>6
    <3>3. e <= base
          BY <1>0, <1>2, <1>8
    <3> QED BY <1>0, <1>1, <3>1, <3>2, <3>3
  <2>2. find_tail(count, align, e) = NoRel
        BY <1>3, <1>8
  <2> QED BY <1>7, <2>1, <2>2 DEF Absolute, InMap
<1>9. CASE end # 0
  <2>1. end \in Nat /\ end > 0 /\ end <= CAPACITY /\ top = base + end
        BY <1>0, <1>1, <1>2, <1>9
  <2>2. end - 1 \in Slice /\ end - 1 \in Nat
        BY <1>0, <2>1
  <2>3. all_set(free, end - 1, 1) <=> end - 1 \in F
    <3>1. Piece(end - 1, 1) = {end - 1}
      <4>1. \A s \in Slice : (end - 1 <= s /\ s < (end - 1) + 1) <=> s = end - 1
            BY <1>0, <2>1
      <4> QED BY <2>2, <4>1 DEF Piece
    <3>2. (end - 1) + 1 <= CAPACITY
          BY <1>0, <2>1
    <3>3. all_set(free, end - 1, 1)
             <=> (end - 1) + 1 <= CAPACITY /\ Piece(end - 1, 1) \subseteq F
          BY <2>2, AllSet DEF F
    <3> QED BY <3>1, <3>2, <3>3
  \* Every slice of the tail is followed by free slices up to the end.
  <2>4. ASSUME NEW x \in Pool!FreeTail(mm, e)
        PROVE  /\ x \in Nat /\ x - base \in Slice /\ x - base < end
               /\ \A t \in Slice : x - base <= t /\ t < end => t \in F
    <3>1. /\ x \in mm.free /\ x < top /\ (x .. (top - 1)) \subseteq mm.free
          /\ x \in Nat /\ x - base \in Slice
          BY <1>5, <1>6
    <3>2. x - base < end
          BY <2>1, <3>1
    <3>3. ASSUME NEW t \in Slice, x - base <= t, t < end PROVE t \in F
      <4>1. t \in Nat
            BY <1>0
      <4>2. base + t \in x .. (top - 1)
            BY <2>1, <3>1, <3>3, <4>1
      <4> QED BY <1>6, <3>1, <4>2
    <3> QED BY <3>1, <3>2, <3>3
  <2>5. ASSUME NEW s \in Slice, s < end,
               \A t \in Slice : s <= t /\ t < end => t \in F
        PROVE  base + s \in Pool!FreeTail(mm, e)
    <3>1. s \in Nat /\ base + s < top
          BY <1>0, <2>1, <2>5
    <3>2. ASSUME NEW y \in (base + s) .. (top - 1) PROVE y \in mm.free
      <4>1. y - base \in Nat /\ s <= y - base /\ y - base < end /\ base + (y - base) = y
            BY <2>1, <3>1
      <4>2. y - base \in Slice
            BY <1>0, <2>1, <4>1
      <4> QED BY <1>6, <2>5, <4>1, <4>2
    <3>3. base + s \in (base + s) .. (top - 1)
          BY <2>1, <3>1
    <3> QED BY <1>5, <3>1, <3>2, <3>3
  <2>6. CASE end - 1 \notin F
    <3>1. Tail = {}
      <4>1. SUFFICES ASSUME NEW x \in Pool!FreeTail(mm, e) PROVE FALSE
            OBVIOUS
      <4>2. x - base \in Nat /\ x - base <= end - 1 /\ end - 1 < end
            BY <1>0, <2>1, <2>4
      <4> QED BY <2>2, <2>4, <2>6, <4>2
    <3>2. find_tail(count, align, e) = NoRel
          BY <1>3, <2>3, <2>6
    <3> QED BY <1>7, <3>1, <3>2 DEF Absolute, InMap
  <2>7. CASE end - 1 \in F
    <3>1. /\ clr + 1 \in Nat /\ clr + 1 <= end - 1
          /\ \A s \in Slice : clr < s /\ s < end => s \in F
          /\ clr = NoRel \/ (clr \in Slice /\ clr \notin F)
      <4>1. \/ /\ clr = NoRel
               /\ \A s \in Slice : s < end - 1 => s \in F
            \/ /\ clr \in Slice /\ clr < end - 1 /\ clr \notin F
               /\ \A s \in Slice : clr < s /\ s < end - 1 => s \in F
            BY <2>2, PrevClear DEF clr, F
      <4>2. \A s \in Slice : s < end => s < end - 1 \/ s = end - 1
            BY <1>0, <2>1
      <4>3. CASE clr = NoRel /\ \A s \in Slice : s < end - 1 => s \in F
        <5>1. clr + 1 = 0
              BY <4>3 DEF NoRel
        <5> QED BY <2>2, <2>7, <4>2, <4>3, <5>1
      <4>4. CASE /\ clr \in Slice /\ clr < end - 1 /\ clr \notin F
                 /\ \A s \in Slice : clr < s /\ s < end - 1 => s \in F
        <5>1. clr \in Nat
              BY <1>0, <4>4
        <5> QED BY <2>1, <2>7, <4>2, <4>4, <5>1
      <4> QED BY <4>1, <4>3, <4>4
    <3>2. clr \in Int
      <4>1. NoRel \in Int
            BY DEF NoRel
      <4>2. \A s \in Slice : s \in Int
            BY <1>0
      <4>3. clr = NoRel => clr \in Int
            BY <4>1, Zenon
      <4>4. clr \in Slice => clr \in Int
            BY <4>2, Zenon
      <4> QED BY <3>1, <4>3, <4>4, Zenon
    <3>3. /\ st \in Nat /\ clr + 1 <= st /\ (base + st) % align = 0
          /\ \A s \in Nat : clr + 1 <= s /\ (base + s) % align = 0 => st <= s
          BY <3>1, AlignUp DEF st
    \* The tail begins behind the last slice that is not free.
    <3>4. ASSUME NEW x \in Tail
          PROVE  x \in Nat /\ base + st <= x /\ x < base + end
      <4>1. /\ x \in Nat /\ x - base \in Nat /\ x - base < end /\ x % align = 0
            /\ \A t \in Slice : x - base <= t /\ t < end => t \in F
            BY <1>0, <2>4
      <4>2. ~(x - base <= clr)
        <5>1. SUFFICES ASSUME x - base <= clr PROVE FALSE
              OBVIOUS
        <5>2. clr # NoRel
              BY <4>1, <5>1 DEF NoRel
        <5>3. clr \in Slice /\ clr \notin F /\ clr < end
              BY <2>1, <3>1, <3>2, <5>2
        <5> QED BY <4>1, <5>1, <5>3
      <4>3. clr + 1 <= x - base /\ base + (x - base) = x
            BY <3>2, <4>1, <4>2
      <4>4. st <= x - base
            BY <3>3, <4>1, <4>3
      <4> QED BY <2>1, <3>3, <4>1, <4>4
    <3>5. CASE st < end
      <4>1. base + st \in Tail
        <5>1. st \in Slice
              BY <1>0, <2>1, <3>3, <3>5
        <5>2. ASSUME NEW t \in Slice, st <= t, t < end PROVE t \in F
          <6>1. clr < t
                BY <1>0, <3>2, <3>3, <5>2
          <6> QED BY <3>1, <5>2, <6>1
        <5> QED BY <2>5, <3>3, <3>5, <5>1, <5>2
      <4>2. Pool!Lowest(Tail) = {base + st}
        <5>1. \A x \in Tail : base + st <= x /\ x \in Nat
              BY <3>4
        <5>2. \A x \in Tail : x <= base + st => x = base + st
              BY <3>3, <5>1
        <5> HIDE DEF Tail
        <5> QED BY <4>1, <5>1, <5>2 DEF Pool!Lowest
      <4>3. (base + st) + count <= top <=> st <= end /\ end - st >= count
            BY <2>1, <3>3
      <4>4. Pool!TailFits(mm, count, align, e)
               = IF (base + st) + count <= top THEN {base + st} ELSE {}
            BY <1>4, <4>2
      <4>5. st # NoRel
            BY <3>3 DEF NoRel
      <4>6. st <= end /\ end - st >= count => st + count <= CAPACITY
            BY <1>0, <2>1, <3>3
      <4> QED BY <1>3, <2>1, <2>3, <2>7, <3>3, <4>3, <4>4, <4>5, <4>6 DEF Absolute, InMap
    <3>6. CASE ~(st < end)
      <4>1. Tail = {}
        <5>1. SUFFICES ASSUME NEW x \in Tail PROVE FALSE
              OBVIOUS
        <5> QED BY <2>1, <3>3, <3>4, <3>6
      <4>2. ~(st <= end /\ end - st >= count)
            BY <2>1, <3>3, <3>6
      <4>3. find_tail(count, align, e) = NoRel
            BY <1>3, <4>2
      <4> QED BY <1>7, <4>1, <4>3 DEF Absolute, InMap
    <3> QED BY <3>5, <3>6
  <2> QED BY <2>6, <2>7
<1> QED BY <1>8, <1>9

-----------------------------------------------------------------------------
(* The invariant.                                                          *)

\* A run handed out lies in the map.
RunInMap(r) == /\ r.start \in Nat /\ r.count \in Nat \ {0}
               /\ r = [start |-> r.start, count |-> r.count]
               /\ base <= r.start /\ r.start + r.count <= base + CAPACITY

IInv ==
    /\ free \in Bitmaps /\ zero \in Bitmaps
    /\ base \in Nat /\ base % Bits = 0
    /\ hint \in 0 .. WORDS /\ EmptyBelow(hint)
    /\ \A r \in runs : RunInMap(r)

\* The base is a whole number of words.
LEMMA InitIInv == Init => IInv
<1> SUFFICES ASSUME Init PROVE IInv
    OBVIOUS
<1>0. Bits \in Nat \ {0} /\ BaseSlice \in Nat /\ WORDS \in Nat
      BY Sizes, SliceMapAssumption
<1>1. free \in Bitmaps /\ zero \in Bitmaps
      BY DEF Init, Bitmaps
<1>2. hint \in 0 .. WORDS /\ EmptyBelow(hint)
      BY <1>0 DEF Init, EmptyBelow
<1>3. base \in Nat /\ base % Bits = 0
  <2> DEFINE q == BaseSlice \div Bits
             e == BaseSlice % Bits
  <2>1. q \in Nat /\ e \in 0 .. (Bits - 1) /\ q * Bits \in Nat /\ BaseSlice = q * Bits + e
        BY <1>0, DivFacts
  <2>2. base = BaseSlice - e
        BY DEF Init
  <2> HIDE DEF q, e
  <2>3. base \in Nat /\ base = q * Bits + 0
        BY <2>1, <2>2
  <2> QED BY <1>0, <2>1, <2>3, DivIs
<1>4. \A r \in runs : RunInMap(r)
      BY DEF Init
<1> QED BY <1>1, <1>2, <1>3, <1>4 DEF IInv

\* The lowest of two numbers.
LEMMA MinPair ==
    ASSUME NEW a \in Nat, NEW b \in Nat
    PROVE  Min({a, b}) = IF a <= b THEN a ELSE b
<1>1. Min({a, b}) \in {a, b} /\ \A y \in {a, b} : Min({a, b}) <= y
      BY MinOf
<1> QED BY <1>1

\* A range of the map by absolute index.
LEMMA AbsolutePiece ==
    ASSUME base \in Nat, NEW A \in SUBSET Slice, NEW rel \in Nat, NEW count \in Nat,
           rel + count <= CAPACITY
    PROVE  LET S(B) == {base + s : s \in B}
               P    == Piece(rel, count)
               N    == Pool!Span(base + rel, count)
           IN  /\ S(A \ P) = S(A) \ N
               /\ S(A \cup P) = S(A) \cup N
               /\ P \subseteq A <=> N \subseteq S(A)
               /\ A \cap P = {} <=> N \cap S(A) = {}
<1> DEFINE S(B) == {base + s : s \in B}
           P    == Piece(rel, count)
           N    == Pool!Span(base + rel, count)
<1>0. CAPACITY \in Nat /\ Slice \subseteq Nat /\ \A s \in Nat : s \in Slice <=> s < CAPACITY
      BY Sizes DEF Slice
<1>1. \A s \in Slice : s \in P <=> base + s \in N
  <2>1. SUFFICES ASSUME NEW s \in Slice
                 PROVE  (rel <= s /\ s < rel + count) <=> base + s \in N
        BY DEF Piece
  <2>2. N = (base + rel) .. (base + rel + count - 1)
        BY DEF Pool!Span
  <2>3. s \in Nat
        BY <1>0
  <2> HIDE DEF N
  <2> QED BY <2>2, <2>3
<1>2. ASSUME NEW x \in N PROVE x - base \in P /\ x = base + (x - base)
  <2>1. N = (base + rel) .. (base + rel + count - 1)
        BY DEF Pool!Span
  <2>2. x \in Int /\ base + rel <= x /\ x <= base + rel + count - 1
        BY <1>2, <2>1
  <2>3. x - base \in Nat /\ rel <= x - base /\ x - base < rel + count /\ x = base + (x - base)
        BY <2>2
  <2>4. x - base \in Slice
        BY <1>0, <2>3
  <2> QED BY <2>3, <2>4 DEF Piece
<1>3. P \subseteq Slice
      BY DEF Piece
<1>4. \A s, t \in Slice : base + s = base + t => s = t
      BY <1>0
<1> HIDE DEF P, N
<1>5. S(A \ P) = S(A) \ N
  <2>1. ASSUME NEW s \in A \ P PROVE base + s \in S(A) /\ base + s \notin N
        BY <1>1
  <2>2. ASSUME NEW s \in A, base + s \notin N PROVE base + s \in S(A \ P)
        BY <1>1, <2>2
  <2> QED BY <2>1, <2>2
<1>6. S(A \cup P) = S(A) \cup N
  <2>1. ASSUME NEW s \in A \cup P PROVE base + s \in S(A) \cup N
        BY <1>1, <1>3
  <2>2. ASSUME NEW x \in N PROVE x \in S(A \cup P)
        BY <1>2
  <2> QED BY <2>1, <2>2
<1>7. P \subseteq A <=> N \subseteq S(A)
  <2>1. ASSUME P \subseteq A, NEW x \in N PROVE x \in S(A)
        BY <1>2, <2>1
  <2>2. ASSUME N \subseteq S(A), NEW s \in P PROVE s \in A
    <3>1. s \in Slice /\ base + s \in S(A)
          BY <1>1, <1>3, <2>2
    <3>2. PICK t \in A : base + s = base + t
          BY <3>1
    <3> QED BY <1>4, <3>1, <3>2
  <2> QED BY <2>1, <2>2
<1>8. A \cap P = {} <=> N \cap S(A) = {}
  <2>1. ASSUME A \cap P = {}, NEW x \in N, x \in S(A) PROVE FALSE
    <3>1. PICK s \in A : x = base + s
          BY <2>1
    <3> QED BY <1>1, <2>1, <3>1
  <2>2. ASSUME N \cap S(A) = {}, NEW s \in A, s \in P PROVE FALSE
    <3>1. base + s \in N /\ base + s \in S(A)
          BY <1>1, <2>2
    <3> QED BY <2>2, <3>1
  <2> QED BY <2>1, <2>2
<1> QED BY <1>5, <1>6, <1>7, <1>8 DEF P, N

-----------------------------------------------------------------------------
(* What the updates of the words do to the map SlicePool has.              *)

PoolMap == [base |-> base, free |-> AbsoluteSet(free), zero |-> AbsoluteSet(zero)]

LEMMA PoolFields == Stands(PoolMap) /\ PoolMap.zero = AbsoluteSet(zero)
BY DEF Stands, PoolMap

\* What the updates of SlicePool are, field by field.
LEMMA Updates ==
    \A b, f, z, S :
        /\ Pool!Claim([base |-> b, free |-> f, zero |-> z], S)
              = [base |-> b, free |-> f \ S, zero |-> z \ S]
        /\ Pool!Release([base |-> b, free |-> f, zero |-> z], S)
              = [base |-> b, free |-> f \cup S, zero |-> z]
<1> TAKE b, f, z, S
<1> DEFINE mm == [base |-> b, free |-> f, zero |-> z]
           T  == [base : {b}, free : {f, f \ S, f \cup S}, zero : {z, z \ S}]
<1>1. mm \in T /\ mm.base = b /\ mm.free = f /\ mm.zero = z
      OBVIOUS
<1> HIDE DEF mm
<1>2. /\ Pool!Claim(mm, S) \in T /\ Pool!Claim(mm, S).base = b
      /\ Pool!Claim(mm, S).free = f \ S /\ Pool!Claim(mm, S).zero = z \ S
      BY <1>1 DEF Pool!Claim
<1>3. /\ Pool!Release(mm, S) \in T /\ Pool!Release(mm, S).base = b
      /\ Pool!Release(mm, S).free = f \cup S /\ Pool!Release(mm, S).zero = z
      BY <1>1 DEF Pool!Release
<1>4. \A t \in T : t = [base |-> t.base, free |-> t.free, zero |-> t.zero]
      OBVIOUS
<1>5. Pool!Claim(mm, S) = [base |-> b, free |-> f \ S, zero |-> z \ S]
      BY <1>2, <1>4
<1>6. Pool!Release(mm, S) = [base |-> b, free |-> f \cup S, zero |-> z]
      BY <1>3, <1>4
<1> QED BY <1>5, <1>6 DEF mm

\* Every slice of the pool has the parameters of SliceMap.
LEMMA SameVars == Pool!PoolVars = <<PoolMap, runs, zeroed>>
BY DEF Pool!PoolVars, PoolMap, AbsoluteSet

\* claim, of a range of the map.
LEMMA ClaimMoves ==
    ASSUME IInv, NEW rel \in Nat, NEW count \in Nat, rel + count <= CAPACITY,
           claim(rel, count), base' = base
    PROVE  /\ free' \in Bitmaps /\ zero' \in Bitmaps
           /\ \A w \in Word : free'[w] \subseteq free[w]
           /\ PoolMap' = Pool!Claim(PoolMap, Pool!Span(base + rel, count))
           /\ zeroed' = Pool!AllZero(PoolMap, Pool!Span(base + rel, count))
<1> DEFINE k == Mask(rel, count)
           P == Piece(rel, count)
           N == Pool!Span(base + rel, count)
<1>0. free \in Bitmaps /\ zero \in Bitmaps /\ base \in Nat
      BY DEF IInv
<1>1. k \in Bitmaps /\ SlicesOf(k) = P
      BY MaskSlices
<1>2. /\ free' = [w \in Word |-> free[w] \ k[w]]
      /\ zero' = [w \in Word |-> zero[w] \ k[w]]
      /\ zeroed' = \A w \in Word : k[w] \subseteq zero[w]
      BY DEF claim, ClearedZero
<1> HIDE DEF k
<1>3. free' \in Bitmaps /\ SlicesOf(free') = SlicesOf(free) \ P
      BY <1>0, <1>1, <1>2, WordByWord
<1>4. zero' \in Bitmaps /\ SlicesOf(zero') = SlicesOf(zero) \ P
      BY <1>0, <1>1, <1>2, WordByWord
<1>5. zeroed' = (P \subseteq SlicesOf(zero))
  <2>1. (\A w \in Word : k[w] \subseteq zero[w]) <=> SlicesOf(k) \subseteq SlicesOf(zero)
        BY <1>0, <1>1, WordByWord
  <2> QED BY <1>1, <1>2, <2>1, Zenon
<1>6. SlicesOf(free) \in SUBSET Slice /\ SlicesOf(zero) \in SUBSET Slice
      BY <1>0, InSlices
<1> HIDE DEF P
<1>7. AbsoluteSet(free)' = AbsoluteSet(free) \ N
  <2>1. AbsoluteSet(free)' = {base + s : s \in SlicesOf(free')}
        BY DEF AbsoluteSet, SlicesOf, Word
  <2>2. {base + s : s \in SlicesOf(free) \ P} = AbsoluteSet(free) \ N
        BY <1>0, <1>6, AbsolutePiece DEF P, AbsoluteSet
  <2> QED BY <1>3, <2>1, <2>2
<1>8. AbsoluteSet(zero)' = AbsoluteSet(zero) \ N
  <2>1. AbsoluteSet(zero)' = {base + s : s \in SlicesOf(zero')}
        BY DEF AbsoluteSet, SlicesOf, Word
  <2>2. {base + s : s \in SlicesOf(zero) \ P} = AbsoluteSet(zero) \ N
        BY <1>0, <1>6, AbsolutePiece DEF P, AbsoluteSet
  <2> QED BY <1>4, <2>1, <2>2
<1>9. (P \subseteq SlicesOf(zero)) <=> N \subseteq AbsoluteSet(zero)
      BY <1>0, <1>6, AbsolutePiece DEF P, AbsoluteSet
<1> HIDE DEF N
<1>10. PoolMap' = Pool!Claim(PoolMap, N)
  <2>1. PoolMap' = [base |-> base, free |-> AbsoluteSet(free) \ N,
                    zero |-> AbsoluteSet(zero) \ N]
        BY <1>7, <1>8 DEF PoolMap
  <2>2. Pool!Claim(PoolMap, N) = [base |-> base, free |-> AbsoluteSet(free) \ N,
                                  zero |-> AbsoluteSet(zero) \ N]
    <3> DEFINE f == AbsoluteSet(free)
               z == AbsoluteSet(zero)
    <3>1. PoolMap = [base |-> base, free |-> f, zero |-> z]
          BY DEF PoolMap
    <3> HIDE DEF f, z
    <3>2. Pool!Claim([base |-> base, free |-> f, zero |-> z], N)
             = [base |-> base, free |-> f \ N, zero |-> z \ N]
          BY Updates
    <3> QED BY <3>1, <3>2 DEF f, z
  <2> QED BY <2>1, <2>2
<1>11. zeroed' = Pool!AllZero(PoolMap, N)
      BY <1>5, <1>9 DEF PoolMap, Pool!AllZero
<1>12. \A w \in Word : free'[w] \subseteq free[w]
      BY <1>2
<1> QED BY <1>3, <1>4, <1>10, <1>11, <1>12 DEF N

\* release, of a range of the map.
LEMMA ReleaseMoves ==
    ASSUME IInv, NEW rel \in Nat, NEW count \in Nat, rel + count <= CAPACITY,
           release(rel, count), base' = base
    PROVE  /\ free' \in Bitmaps
           /\ AbsoluteSet(free)' = AbsoluteSet(free) \cup Pool!Span(base + rel, count)
           /\ hint' \in 0 .. WORDS /\ EmptyBelow(hint)'
<1> DEFINE k == Mask(rel, count)
           P == Piece(rel, count)
           N == Pool!Span(base + rel, count)
<1>0. /\ free \in Bitmaps /\ base \in Nat /\ hint \in 0 .. WORDS /\ EmptyBelow(hint)
      /\ rel \in 0 .. CAPACITY /\ WORDS \in Nat /\ CAPACITY \in Nat
      BY Sizes DEF IInv
<1>1. k \in Bitmaps /\ SlicesOf(k) = P
      BY MaskSlices
<1>2. free' = [w \in Word |-> free[w] \cup k[w]] /\ hint' = Min({hint, rel \div Bits})
      BY DEF release, LoweredHint
<1>3. free' \in Bitmaps /\ SlicesOf(free') = SlicesOf(free) \cup P
  <2> HIDE DEF k
  <2> QED BY <1>0, <1>1, <1>2, WordByWord
<1>4. SlicesOf(free) \in SUBSET Slice
      BY <1>0, InSlices
<1> HIDE DEF P
<1>5. AbsoluteSet(free)' = AbsoluteSet(free) \cup N
  <2>1. AbsoluteSet(free)' = {base + s : s \in SlicesOf(free')}
        BY DEF AbsoluteSet, SlicesOf, Word
  <2>2. {base + s : s \in SlicesOf(free) \cup P} = AbsoluteSet(free) \cup N
        BY <1>0, <1>4, AbsolutePiece DEF P, AbsoluteSet
  <2> QED BY <1>3, <2>1, <2>2
<1>6. /\ hint \in Nat /\ rel \div Bits \in 0 .. WORDS /\ rel \div Bits \in Nat
      BY <1>0, Split
<1> DEFINE d == rel \div Bits
<1> HIDE DEF d
<1>7. hint' = IF hint <= d THEN hint ELSE d
      BY <1>2, <1>6, MinPair DEF d
<1>8. hint' \in 0 .. WORDS /\ hint' <= hint /\ hint' <= d /\ d \in Nat
      BY <1>0, <1>6, <1>7 DEF d
\* The words the range does not reach stay empty.
<1>9. ASSUME NEW v \in Word, v < hint' PROVE free'[v] = {}
  <2>1. v \in Nat /\ v < hint /\ v < d
        BY <1>6, <1>8, <1>9 DEF Word
  <2>2. free[v] = {}
        BY <1>0, <2>1 DEF EmptyBelow
  <2>3. k[v] = {}
    <3>1. SUFFICES ASSUME NEW b \in k[v] PROVE FALSE
          OBVIOUS
    <3>2. b \in Bit /\ rel <= v * Bits + b
          BY DEF Mask, Bit
    <3>3. v * Bits + b >= rel <=> v > d \/ (v = d /\ b >= rel % Bits)
          BY <1>0, <3>2, Order DEF d
    <3>4. v * Bits + b >= rel
      <4>1. v * Bits + b \in Slice
            BY <3>2, At
      <4>2. v * Bits + b \in Nat
            BY <4>1 DEF Slice
      <4> QED BY <3>2, <4>2
    <3> QED BY <1>8, <2>1, <3>3, <3>4
  <2> HIDE DEF k
  <2> QED BY <1>2, <2>2, <2>3
<1>10. EmptyBelow(hint)'
      BY <1>9 DEF EmptyBelow, Word
<1> QED BY <1>3, <1>5, <1>8, <1>10

-----------------------------------------------------------------------------
(* The methods.                                                            *)

\* Words that only lose bits stay empty.
LEMMA StillEmpty ==
    ASSUME EmptyBelow(hint), hint' = hint, \A w \in Word : free'[w] \subseteq free[w]
    PROVE  EmptyBelow(hint)'
BY DEF EmptyBelow, Word

\* Handing out the run a search found, if it found one.
LEMMA HandOutServes ==
    ASSUME IInv, NEW x, NEW count \in Nat \ {0}, InMap(x, count),
           HandOut(x, count), base' = base
    PROVE  /\ free' \in Bitmaps /\ zero' \in Bitmaps
           /\ \A w \in Word : free'[w] \subseteq free[w]
           /\ \A r \in runs' : RunInMap(r)'
           /\ x = NoRel => UNCHANGED Pool!PoolVars
           /\ x # NoRel =>
                 /\ PoolMap' = Pool!Claim(PoolMap, Pool!Span(base + x, count))
                 /\ zeroed' = Pool!AllZero(PoolMap, Pool!Span(base + x, count))
                 /\ runs' = runs \cup {[start |-> base + x, count |-> count]}
                 /\ base + x \in Nat
<1>0. free \in Bitmaps /\ zero \in Bitmaps /\ base \in Nat /\ \A r \in runs : RunInMap(r)
      BY DEF IInv
<1>1. \A r : RunInMap(r) => RunInMap(r)'
      BY DEF RunInMap, CAPACITY
<1>2. CASE x = NoRel
  <2>1. UNCHANGED <<free, zero, runs, zeroed>>
        BY <1>2 DEF HandOut
  <2>2. UNCHANGED Pool!PoolVars
    <3>1. PoolMap' = PoolMap
          BY <2>1 DEF PoolMap, AbsoluteSet, SlicesOf, Word
    <3> QED BY <2>1, <3>1 DEF Pool!PoolVars, PoolMap, AbsoluteSet
  <2> QED BY <1>0, <1>1, <1>2, <2>1, <2>2
<1>3. CASE x # NoRel
  <2>1. x \in Nat /\ x + count <= CAPACITY
        BY <1>3 DEF InMap
  <2>2. claim(x, count) /\ runs' = runs \cup {[start |-> base + x, count |-> count]}
        BY <1>3 DEF HandOut
  <2>3. /\ free' \in Bitmaps /\ zero' \in Bitmaps
        /\ \A w \in Word : free'[w] \subseteq free[w]
        /\ PoolMap' = Pool!Claim(PoolMap, Pool!Span(base + x, count))
        /\ zeroed' = Pool!AllZero(PoolMap, Pool!Span(base + x, count))
        BY <2>1, <2>2, ClaimMoves
  <2> DEFINE n == [start |-> base + x, count |-> count]
  <2>4. RunInMap(n)
    <3>1. CAPACITY \in Nat
          BY Sizes
    <3>2. base + x \in Nat /\ base <= base + x /\ (base + x) + count <= base + CAPACITY
          BY <1>0, <2>1, <3>1
    <3>3. n.start = base + x /\ n.count = count
          OBVIOUS
    <3> QED BY <3>2, <3>3 DEF RunInMap
  <2>5. \A r \in runs' : RunInMap(r)
        BY <1>0, <2>2, <2>4
  <2>6. base + x \in Nat
        BY <1>0, <2>1
  <2> QED BY <1>1, <1>3, <2>2, <2>3, <2>5, <2>6
<1> QED BY <1>2, <1>3

\* An outcome of SlicePool that takes one run.
LEMMA TakeOne ==
    ASSUME NEW x \in Nat, NEW count, NEW e, NEW starts, starts = {x},
           PoolMap' = Pool!Claim(PoolMap, Pool!Span(x, count)),
           zeroed' = Pool!AllZero(PoolMap, Pool!Span(x, count)),
           runs' = runs \cup {[start |-> x, count |-> count]}
    PROVE  \E o \in Pool!Take(PoolMap, e, starts, count, {}, 0) :
               Pool!Served(o, {}, [start |-> o.start, count |-> count])
<1> DEFINE S == Pool!Span(x, count)
           out == Pool!Outcome(Pool!Claim(PoolMap, S), e, x, Pool!AllZero(PoolMap, S), {}, 0)
<1>1. out \in Pool!Take(PoolMap, e, starts, count, {}, 0)
      BY DEF Pool!Take
<1>2. /\ out.start = x /\ out.m = Pool!Claim(PoolMap, S)
      /\ out.zeroed = Pool!AllZero(PoolMap, S)
      BY DEF Pool!Outcome
<1> HIDE DEF out
<1>3. out.start # Pool!NoSlice
      BY <1>2 DEF Pool!NoSlice
<1>4. runs' = (runs \ {}) \cup {[start |-> out.start, count |-> count]}
      BY <1>2
<1>5. PoolMap' = out.m /\ zeroed' = out.zeroed
      BY <1>2
<1>6. PoolMap' = [base |-> base, free |-> {base + s : s \in SlicesOf(free)},
                  zero |-> {base + s : s \in SlicesOf(zero)}]'
      BY DEF PoolMap, AbsoluteSet
<1> QED BY <1>1, <1>3, <1>4, <1>5, <1>6 DEF Pool!Served

\* alloc
LEMMA AllocStep ==
    ASSUME IInv, NEW count \in Counts, NEW align \in Aligns, alloc(count, align)
    PROVE  IInv' /\ (Pool!PoolAlloc(count, align) \/ UNCHANGED Pool!PoolVars)
<1> DEFINE x == find(count, align, advance_hint)
<1>0. /\ free \in Bitmaps /\ zero \in Bitmaps /\ base \in Nat /\ base % Bits = 0
      /\ hint \in 0 .. WORDS /\ EmptyBelow(hint) /\ \A r \in runs : RunInMap(r)
      /\ count \in Nat \ {0} /\ align \in Nat \ {0}
      BY SliceMapAssumption DEF IInv
<1>1. advance_hint \in 0 .. WORDS /\ EmptyBelow(advance_hint)
      BY <1>0, Advance
<1>2. hint' = advance_hint /\ HandOut(x, count) /\ base' = base
      BY DEF alloc
<1>3. First(x, count, align, 0)
      BY <1>0, <1>1, FindFirst
<1> HIDE DEF x
<1>4. InMap(x, count)
      BY <1>3 DEF First, FitsAt, InMap, Slice
<1>5. /\ free' \in Bitmaps /\ zero' \in Bitmaps
      /\ \A w \in Word : free'[w] \subseteq free[w]
      /\ \A r \in runs' : RunInMap(r)'
      /\ x = NoRel => UNCHANGED Pool!PoolVars
      /\ x # NoRel =>
            /\ PoolMap' = Pool!Claim(PoolMap, Pool!Span(base + x, count))
            /\ zeroed' = Pool!AllZero(PoolMap, Pool!Span(base + x, count))
            /\ runs' = runs \cup {[start |-> base + x, count |-> count]}
            /\ base + x \in Nat
      BY <1>0, <1>2, <1>4, HandOutServes
<1>6. EmptyBelow(hint)'
      BY <1>1, <1>2, <1>5 DEF EmptyBelow, Word
<1>7. base' \in Nat /\ (base % Bits = 0)' /\ (hint \in 0 .. WORDS)'
      BY <1>0, <1>1, <1>2
<1>8. IInv'
  <2>1. (free \in Bitmaps)' /\ (zero \in Bitmaps)'
        BY <1>5 DEF Bitmaps, Word, Bit
  <2> QED BY <1>5, <1>6, <1>7, <2>1 DEF IInv
<1>9. CASE x # NoRel
  <2> DEFINE fit == Pool!Lowest(Pool!Fits(PoolMap, count, align))
  <2>1. Absolute(x) = fit
        BY <1>0, <1>3, PoolFields, FirstIsLowest
  <2>2. fit = {base + x}
        BY <1>9, <2>1 DEF Absolute
  <2> HIDE DEF fit
  <2>3. \E o \in Pool!Take(PoolMap, Pool!Limit(PoolMap), fit, count, {}, 0) :
           Pool!Served(o, {}, [start |-> o.start, count |-> count])
        BY <1>5, <1>9, <2>2, TakeOne
  <2>4. fit # {}
        BY <2>2
  <2>5. Pool!Alloc(PoolMap, Pool!Limit(PoolMap), count, align)
           = Pool!Take(PoolMap, Pool!Limit(PoolMap), fit, count, {}, 0)
        BY <2>4 DEF Pool!Alloc, fit
  <2>6. \E o \in Pool!Alloc(PoolMap, Pool!Limit(PoolMap), count, align) :
           Pool!Served(o, {}, [start |-> o.start, count |-> count])
        BY <2>3, <2>5
  <2>7. Pool!PoolAlloc(count, align)
        BY <2>6 DEF Pool!PoolAlloc, PoolMap, AbsoluteSet
  <2> QED BY <1>8, <2>7
<1> QED BY <1>5, <1>8, <1>9

\* alloc_tail
LEMMA AllocTailStep ==
    ASSUME IInv, NEW count \in Counts, NEW align \in Aligns, NEW below \in Ends,
           alloc_tail(count, align, below)
    PROVE  IInv' /\ (Pool!PoolAllocTail(count, align, below) \/ UNCHANGED Pool!PoolVars)
<1> DEFINE x == find_tail(count, align, below)
<1>0. /\ free \in Bitmaps /\ zero \in Bitmaps /\ base \in Nat /\ base % Bits = 0
      /\ hint \in 0 .. WORDS /\ EmptyBelow(hint) /\ \A r \in runs : RunInMap(r)
      /\ count \in Nat \ {0} /\ align \in Nat \ {0} /\ below \in Nat
      BY SliceMapAssumption DEF IInv
<1>1. HandOut(x, count) /\ base' = base /\ hint' = hint
      BY DEF alloc_tail
<1> DEFINE fit == Pool!TailFits(PoolMap, count, align, below)
<1>2. Absolute(x) = fit /\ InMap(x, count)
      BY <1>0, PoolFields, FindTail
<1> HIDE DEF x
<1>3. /\ free' \in Bitmaps /\ zero' \in Bitmaps
      /\ \A w \in Word : free'[w] \subseteq free[w]
      /\ \A r \in runs' : RunInMap(r)'
      /\ x = NoRel => UNCHANGED Pool!PoolVars
      /\ x # NoRel =>
            /\ PoolMap' = Pool!Claim(PoolMap, Pool!Span(base + x, count))
            /\ zeroed' = Pool!AllZero(PoolMap, Pool!Span(base + x, count))
            /\ runs' = runs \cup {[start |-> base + x, count |-> count]}
            /\ base + x \in Nat
      BY <1>0, <1>1, <1>2, HandOutServes
<1>4. EmptyBelow(hint)'
      BY <1>0, <1>1, <1>3, StillEmpty
<1>5. IInv'
  <2>1. (free \in Bitmaps)' /\ (zero \in Bitmaps)'
        BY <1>3 DEF Bitmaps, Word, Bit
  <2>2. base' \in Nat /\ (base % Bits = 0)' /\ (hint \in 0 .. WORDS)'
        BY <1>0, <1>1
  <2> QED BY <1>3, <1>4, <2>1, <2>2 DEF IInv
<1>6. CASE x # NoRel
  <2>1. fit = {base + x}
        BY <1>2, <1>6 DEF Absolute
  <2> HIDE DEF fit
  <2>2. \E o \in Pool!Take(PoolMap, below, fit, count, {}, 0) :
           Pool!Served(o, {}, [start |-> o.start, count |-> count])
        BY <1>3, <1>6, <2>1, TakeOne
  <2>3. fit # {}
        BY <2>1
  <2>4. Pool!AllocTail(PoolMap, below, count, align)
           = Pool!Take(PoolMap, below, fit, count, {}, 0)
        BY <2>3 DEF Pool!AllocTail, fit
  <2>5. \E o \in Pool!AllocTail(PoolMap, below, count, align) :
           Pool!Served(o, {}, [start |-> o.start, count |-> count])
        BY <2>2, <2>4
  <2>6. Pool!PoolAllocTail(count, align, below)
        BY <2>5 DEF Pool!PoolAllocTail, PoolMap, AbsoluteSet
  <2> QED BY <1>5, <2>6
<1> QED BY <1>3, <1>5, <1>6

\* A method that releases a range and changes no zero bit.
LEMMA ReleaseStep ==
    ASSUME IInv, NEW rel \in Nat, NEW count \in Nat, rel + count <= CAPACITY,
           release(rel, count), base' = base, zero' = zero,
           \A r \in runs' : RunInMap(r)
    PROVE  IInv' /\ PoolMap' = Pool!Release(PoolMap, Pool!Span(base + rel, count))
<1> DEFINE N == Pool!Span(base + rel, count)
<1>1. /\ free' \in Bitmaps
      /\ AbsoluteSet(free)' = AbsoluteSet(free) \cup N
      /\ hint' \in 0 .. WORDS /\ EmptyBelow(hint)'
      BY ReleaseMoves
<1> HIDE DEF N
<1>2. AbsoluteSet(zero)' = AbsoluteSet(zero)
      BY DEF AbsoluteSet, SlicesOf, Word
<1>3. PoolMap' = Pool!Release(PoolMap, N)
  <2> DEFINE f == AbsoluteSet(free)
             z == AbsoluteSet(zero)
  <2>1. PoolMap = [base |-> base, free |-> f, zero |-> z]
        BY DEF PoolMap
  <2>2. PoolMap' = [base |-> base, free |-> f \cup N, zero |-> z]
        BY <1>1, <1>2 DEF PoolMap
  <2> HIDE DEF f, z
  <2>3. Pool!Release([base |-> base, free |-> f, zero |-> z], N)
           = [base |-> base, free |-> f \cup N, zero |-> z]
        BY Updates
  <2> QED BY <2>1, <2>2, <2>3
<1>4. IInv'
  <2>1. (free \in Bitmaps)' /\ (zero \in Bitmaps)'
        BY <1>1 DEF IInv, Bitmaps, Word, Bit
  <2>2. base' \in Nat /\ (base % Bits = 0)'
        BY DEF IInv
  <2>3. \A r \in runs' : RunInMap(r)'
        BY DEF RunInMap, CAPACITY
  <2>4. (hint \in 0 .. WORDS)'
        BY <1>1
  <2> QED BY <1>1, <2>1, <2>2, <2>3, <2>4 DEF IInv
<1> QED BY <1>3, <1>4 DEF N

\* free
LEMMA FreeStep ==
    ASSUME IInv, NEW r \in runs, free_run(r)
    PROVE  IInv' /\ Pool!PoolFree(r)
<1> DEFINE rel == r.start - base
<1>1. RunInMap(r) /\ base \in Nat /\ \A q \in runs : RunInMap(q)
      BY DEF IInv
<1>2. /\ rel \in Nat /\ r.count \in Nat /\ rel + r.count <= CAPACITY
      /\ base + rel = r.start
      BY <1>1, Sizes DEF RunInMap
<1>3. /\ release(rel, r.count) /\ base' = base /\ zero' = zero
      /\ runs' = runs \ {r} /\ zeroed' = zeroed
      BY DEF free_run
<1> HIDE DEF rel
<1>4. IInv' /\ PoolMap' = Pool!Release(PoolMap, Pool!Span(base + rel, r.count))
      BY <1>1, <1>2, <1>3, ReleaseStep
<1>5. PoolMap' = Pool!Release(PoolMap, Pool!Span(r.start, r.count))
      BY <1>2, <1>4
<1>6. Pool!PoolFree(r)
      BY <1>3, <1>5 DEF Pool!PoolFree, PoolMap, AbsoluteSet
<1> QED BY <1>4, <1>6

\* shrink
LEMMA ShrinkStep ==
    ASSUME IInv, NEW r \in runs, NEW newCount \in {0} \cup Counts, shrink(r, newCount)
    PROVE  IInv' /\ Pool!PoolShrink(r, newCount)
<1> DEFINE rel  == (r.start - base) + newCount
           rest == r.count - newCount
           keep == [r EXCEPT !.count = newCount]
<1>1. RunInMap(r) /\ base \in Nat /\ \A q \in runs : RunInMap(q)
      BY DEF IInv
<1>2. newCount \in Nat /\ newCount < r.count /\ r.count \in Nat
      BY <1>1, SliceMapAssumption DEF shrink, RunInMap
<1>3. /\ rel \in Nat /\ rest \in Nat /\ rel + rest <= CAPACITY
      /\ base + rel = r.start + newCount
      BY <1>1, <1>2, Sizes DEF RunInMap
<1>4. /\ release(rel, rest) /\ base' = base /\ zero' = zero /\ zeroed' = zeroed
      /\ runs' = (runs \ {r}) \cup (IF newCount = 0 THEN {} ELSE {keep})
      BY DEF shrink
<1>5. newCount # 0 => RunInMap(keep)
  <2>1. r = [start |-> r.start, count |-> r.count]
        BY <1>1 DEF RunInMap
  <2>2. keep = [start |-> r.start, count |-> newCount]
        BY <2>1
  <2>3. r.start \in Nat /\ base <= r.start /\ r.start + r.count <= base + CAPACITY
        BY <1>1 DEF RunInMap
  <2>4. r.start + newCount <= base + CAPACITY
        BY <1>1, <1>2, <2>3, Sizes
  <2> HIDE DEF keep
  <2>5. keep.start = r.start /\ keep.count = newCount
        BY <2>2
  <2> QED BY <1>2, <2>2, <2>3, <2>4, <2>5 DEF RunInMap
<1> HIDE DEF rel, rest
<1>6. \A q \in runs' : RunInMap(q)
  <2> HIDE DEF keep
  <2> QED BY <1>1, <1>4, <1>5
<1>7. IInv' /\ PoolMap' = Pool!Release(PoolMap, Pool!Span(base + rel, rest))
      BY <1>3, <1>4, <1>6, ReleaseStep
<1>8. PoolMap' = Pool!Shrink(PoolMap, r.start, r.count, newCount)
      BY <1>3, <1>7 DEF Pool!Shrink, rest
<1>9. newCount <= r.count
      BY <1>2
<1>10. Pool!PoolShrink(r, newCount)
      BY <1>4, <1>8, <1>9 DEF Pool!PoolShrink, PoolMap, AbsoluteSet
<1> QED BY <1>7, <1>10

\* try_extend
LEMMA ExtendStep ==
    ASSUME IInv, NEW r \in runs, NEW extra \in Counts, try_extend(r, extra)
    PROVE  IInv' /\ Pool!PoolExtend(r, extra)
<1> DEFINE tail == (r.start - base) + r.count
           more == [r EXCEPT !.count = @ + extra]
           N    == Pool!Span(base + tail, extra)
<1>1. /\ RunInMap(r) /\ base \in Nat /\ \A q \in runs : RunInMap(q)
      /\ free \in Bitmaps /\ zero \in Bitmaps /\ CAPACITY \in Nat
      BY Sizes DEF IInv
<1>2. extra \in Nat \ {0} /\ r.count \in Nat \ {0} /\ r.start \in Nat
      BY <1>1, SliceMapAssumption DEF RunInMap
<1>3. /\ extra <= CAPACITY - tail /\ all_set(free, tail, extra) /\ claim(tail, extra)
      /\ runs' = (runs \ {r}) \cup {more} /\ base' = base /\ hint' = hint
      BY DEF try_extend
<1>4. /\ tail \in Nat /\ tail + extra <= CAPACITY
      /\ base + tail = r.start + r.count
      BY <1>1, <1>2, <1>3 DEF RunInMap
<1>5. RunInMap(more)
  <2>1. r = [start |-> r.start, count |-> r.count]
        BY <1>1 DEF RunInMap
  <2>2. more = [start |-> r.start, count |-> r.count + extra]
        BY <2>1
  <2>3. base <= r.start /\ r.start + (r.count + extra) <= base + CAPACITY
        BY <1>1, <1>2, <1>4 DEF RunInMap
  <2> HIDE DEF more
  <2>4. more.start = r.start /\ more.count = r.count + extra
        BY <2>2
  <2> QED BY <1>2, <2>2, <2>3, <2>4 DEF RunInMap
<1> HIDE DEF tail
<1>6. Piece(tail, extra) \subseteq SlicesOf(free)
      BY <1>1, <1>2, <1>3, <1>4, AllSet
<1>7. N \subseteq AbsoluteSet(free)
  <2>1. SlicesOf(free) \in SUBSET Slice
        BY <1>1, InSlices
  <2> QED BY <1>1, <1>2, <1>4, <1>6, <2>1, AbsolutePiece DEF AbsoluteSet
<1>8. /\ free' \in Bitmaps /\ zero' \in Bitmaps
      /\ \A w \in Word : free'[w] \subseteq free[w]
      /\ PoolMap' = Pool!Claim(PoolMap, N)
      /\ zeroed' = Pool!AllZero(PoolMap, N)
      BY <1>2, <1>3, <1>4, ClaimMoves
<1>9. IInv'
  <2>1. (free \in Bitmaps)' /\ (zero \in Bitmaps)'
        BY <1>8 DEF Bitmaps, Word, Bit
  <2>2. base' \in Nat /\ (base % Bits = 0)' /\ (hint \in 0 .. WORDS)'
        BY <1>3 DEF IInv
  <2>3. EmptyBelow(hint)'
        BY <1>3, <1>8, StillEmpty DEF IInv
  <2>4. \A q \in runs' : RunInMap(q)
    <3> HIDE DEF more
    <3> QED BY <1>1, <1>3, <1>5
  <2>5. \A q \in runs' : RunInMap(q)'
        BY <1>3, <2>4 DEF RunInMap, CAPACITY
  <2> QED BY <2>1, <2>2, <2>3, <2>5 DEF IInv
<1>10. Pool!PoolExtend(r, extra)
  <2> DEFINE M   == Pool!Span(r.start + r.count, extra)
             e   == Pool!Limit(PoolMap)
             out == Pool!Outcome(Pool!Claim(PoolMap, M), e, r.start,
                                 Pool!AllZero(PoolMap, M), {}, 0)
  <2>1. N = M
        BY <1>4
  <2>2. Pool!CanExtend(PoolMap, r.start, r.count, extra)
    <3>1. r.start + r.count + extra <= Pool!Limit(PoolMap)
          BY <1>1, <1>2, <1>4 DEF Pool!Limit, PoolMap
    <3>2. M \subseteq PoolMap.free
          BY <1>7, <2>1 DEF PoolMap
    <3> QED BY <3>1, <3>2 DEF Pool!CanExtend
  <2>3. out \in Pool!TryExtend(PoolMap, e, r.start, r.count, extra)
        BY <2>2 DEF Pool!TryExtend
  <2>4. /\ out.start = r.start /\ out.m = Pool!Claim(PoolMap, M)
        /\ out.zeroed = Pool!AllZero(PoolMap, M)
        BY DEF Pool!Outcome
  <2> HIDE DEF out, N, M, more
  <2>5. out.start # Pool!NoSlice
        BY <1>2, <2>4 DEF Pool!NoSlice
  <2>6. PoolMap' = out.m /\ zeroed' = out.zeroed
        BY <1>8, <2>1, <2>4
  <2> HIDE DEF e
  <2>7. \E o \in Pool!TryExtend(PoolMap, e, r.start, r.count, extra) :
           Pool!Served(o, {r}, more)
    <3>1. PoolMap' = [base |-> base, free |-> {base + s : s \in SlicesOf(free)},
                      zero |-> {base + s : s \in SlicesOf(zero)}]'
          BY DEF PoolMap, AbsoluteSet
    <3> QED BY <1>3, <2>3, <2>5, <2>6, <3>1 DEF Pool!Served
  <2> QED BY <2>7 DEF Pool!PoolExtend, PoolMap, AbsoluteSet, e, more
<1> QED BY <1>9, <1>10

\* What add_free keeps of a range.
Kept(start, count) == IF start <= MaxSliceIndex
                      THEN Pool!Least(count, MaxSliceIndex - start) ELSE count

LEMMA Given ==
    \A b, f, z, start, count, zeros :
        Pool!AddFree([base |-> b, free |-> f, zero |-> z], start, count, zeros)
           = [base |-> b, free |-> f \cup Pool!Span(start, Kept(start, count)),
              zero |-> IF zeros THEN z \cup Pool!Span(start, Kept(start, count)) ELSE z]
<1> TAKE b, f, z, start, count, zeros
<1> DEFINE mm == [base |-> b, free |-> f, zero |-> z]
           S  == Pool!Span(start, Kept(start, count))
           T  == [base : {b}, free : {f, f \cup S}, zero : {z, z \cup S}]
           a  == [mm EXCEPT !.free = @ \cup S, !.zero = IF zeros THEN @ \cup S ELSE @]
<1>1. mm \in T /\ mm.base = b /\ mm.free = f /\ mm.zero = z
      OBVIOUS
<1>2. Pool!AddFree(mm, start, count, zeros) = a
      BY DEF Pool!AddFree, Kept
<1> HIDE DEF mm, S
<1>3. a \in T /\ a.base = b /\ a.free = f \cup S /\ a.zero = IF zeros THEN z \cup S ELSE z
      BY <1>1
<1>4. \A t \in T : t = [base |-> t.base, free |-> t.free, zero |-> t.zero]
      OBVIOUS
<1> HIDE DEF a
<1>5. a = [base |-> b, free |-> f \cup S, zero |-> IF zeros THEN z \cup S ELSE z]
      BY <1>3, <1>4
<1> QED BY <1>2, <1>5 DEF mm, S

\* add_free
LEMMA GiveStep ==
    ASSUME IInv, NEW start \in base .. (base + CAPACITY - 1), NEW count \in Gives,
           NEW zeros \in BOOLEAN, add_free(start, count, zeros)
    PROVE  IInv' /\ Pool!Give(start, count, zeros)
<1> DEFINE rel  == start - base
           kept == Kept(start, count)
           N    == Pool!Span(start, kept)
           k    == Mask(rel, kept)
<1>1. /\ free \in Bitmaps /\ zero \in Bitmaps /\ base \in Nat /\ CAPACITY \in Nat
      /\ \A q \in runs : RunInMap(q)
      BY Sizes DEF IInv
<1>2. /\ count \in Nat \ {0} /\ MaxSliceIndex \in Nat /\ start \in Nat
      /\ base <= start /\ start + count <= base + CAPACITY
      BY <1>1, SliceMapAssumption DEF add_free
<1>3. kept \in Nat /\ kept <= count
      BY <1>2 DEF Kept, Pool!Least
<1>4. /\ rel \in Nat /\ rel + kept <= CAPACITY /\ rel + count <= CAPACITY
      /\ base + rel = start
      BY <1>1, <1>2, <1>3
<1>5. kept = IF start <= MaxSliceIndex THEN Min({count, MaxSliceIndex - start}) ELSE count
  <2>1. CASE start <= MaxSliceIndex
    <3>1. MaxSliceIndex - start \in Nat
          BY <1>2, <2>1
    <3>2. Min({count, MaxSliceIndex - start})
            = IF count <= MaxSliceIndex - start THEN count ELSE MaxSliceIndex - start
          BY <1>2, <3>1, MinPair
    <3> QED BY <2>1, <3>2 DEF Kept, Pool!Least
  <2>2. CASE ~(start <= MaxSliceIndex)
        BY <2>2 DEF Kept
  <2> QED BY <2>1, <2>2
<1>6. /\ \A w \in Word : Mask(rel, count)[w] \cap free[w] = {}
      /\ (start .. (start + count - 1)) \cap Held = {}
      /\ release(rel, kept)
      /\ zero' = IF zeros THEN [w \in Word |-> zero[w] \cup k[w]] ELSE zero
      /\ base' = base /\ runs' = runs /\ zeroed' = zeroed
      BY <1>5 DEF add_free
<1> HIDE DEF rel, kept
<1>7. /\ free' \in Bitmaps
      /\ AbsoluteSet(free)' = AbsoluteSet(free) \cup N
      /\ hint' \in 0 .. WORDS /\ EmptyBelow(hint)'
      BY <1>3, <1>4, <1>6, ReleaseMoves
<1>8. /\ zero' \in Bitmaps
      /\ AbsoluteSet(zero)' = IF zeros THEN AbsoluteSet(zero) \cup N ELSE AbsoluteSet(zero)
  <2>1. CASE ~zeros
        BY <1>1, <1>6, <2>1 DEF AbsoluteSet, SlicesOf, Word
  <2>2. CASE zeros
    <3>1. k \in Bitmaps /\ SlicesOf(k) = Piece(rel, kept)
          BY <1>3, <1>4, MaskSlices
    <3> HIDE DEF k
    <3>2. zero' \in Bitmaps /\ SlicesOf(zero') = SlicesOf(zero) \cup Piece(rel, kept)
          BY <1>1, <1>6, <2>2, <3>1, WordByWord
    <3>3. AbsoluteSet(zero)' = {base + s : s \in SlicesOf(zero')}
          BY <1>6 DEF AbsoluteSet, SlicesOf, Word
    <3>4. {base + s : s \in SlicesOf(zero) \cup Piece(rel, kept)} = AbsoluteSet(zero) \cup N
      <4>1. SlicesOf(zero) \in SUBSET Slice
            BY <1>1, InSlices
      <4> QED BY <1>1, <1>3, <1>4, <4>1, AbsolutePiece DEF AbsoluteSet
    <3> QED BY <2>2, <3>2, <3>3, <3>4
  <2> QED BY <2>1, <2>2
<1>9. IInv'
  <2>1. (free \in Bitmaps)' /\ (zero \in Bitmaps)'
        BY <1>7, <1>8 DEF Bitmaps, Word, Bit
  <2>2. base' \in Nat /\ (base % Bits = 0)' /\ (hint \in 0 .. WORDS)'
        BY <1>6, <1>7 DEF IInv
  <2>3. \A q \in runs' : RunInMap(q)'
        BY <1>1, <1>6 DEF RunInMap, CAPACITY
  <2> QED BY <1>7, <2>1, <2>2, <2>3 DEF IInv
<1>10. Pool!Give(start, count, zeros)
  <2>1. PoolMap' = Pool!AddFree(PoolMap, start, count, zeros)
    <3> DEFINE f == AbsoluteSet(free)
               z == AbsoluteSet(zero)
    <3>1. PoolMap = [base |-> base, free |-> f, zero |-> z]
          BY DEF PoolMap
    <3>2. PoolMap' = [base |-> base, free |-> f \cup N, zero |-> IF zeros THEN z \cup N ELSE z]
          BY <1>6, <1>7, <1>8 DEF PoolMap
    <3> HIDE DEF f, z
    <3>3. Pool!AddFree([base |-> base, free |-> f, zero |-> z], start, count, zeros)
             = [base |-> base, free |-> f \cup N, zero |-> IF zeros THEN z \cup N ELSE z]
          BY Given DEF kept
    <3> QED BY <3>1, <3>2, <3>3
  \* What is given is neither free nor handed out.
  <2>2. Pool!Span(start, count) \cap PoolMap.free = {}
    <3> DEFINE c == Mask(rel, count)
    <3>1. c \in Bitmaps /\ SlicesOf(c) = Piece(rel, count)
          BY <1>2, <1>4, MaskSlices
    <3>2. \A w \in Word : c[w] \cap free[w] = {}
          BY <1>6
    <3> HIDE DEF c
    <3>3. SlicesOf(c) \cap SlicesOf(free) = {}
          BY <1>1, <3>1, <3>2, WordByWord
    <3>4. SlicesOf(free) \cap Piece(rel, count) = {} /\ SlicesOf(free) \in SUBSET Slice
          BY <1>1, <3>1, <3>3, InSlices
    <3>5. Pool!Span(base + rel, count) \cap AbsoluteSet(free) = {}
          BY <1>1, <1>2, <1>4, <3>4, AbsolutePiece DEF AbsoluteSet
    <3> QED BY <1>4, <3>5 DEF PoolMap
  <2>3. Pool!Span(start, count) \cap Pool!Held = {}
        BY <1>6 DEF Pool!Held, Held, Pool!Span
  <2>4. start >= PoolMap.base /\ start + count <= Pool!Limit(PoolMap)
        BY <1>1, <1>2 DEF Pool!Limit, PoolMap
  <2>5. Pool!Span(start, count) \cap (PoolMap.free \cup Pool!Held) = {}
        BY <2>2, <2>3
  <2> QED BY <1>6, <2>1, <2>4, <2>5 DEF Pool!Give, PoolMap, AbsoluteSet
<1> QED BY <1>9, <1>10

-----------------------------------------------------------------------------
(* The theorems.                                                           *)

\* Every step keeps the invariant and is a step of SlicePool or none.
LEMMA NextStep ==
    ASSUME IInv, [Next]_vars
    PROVE  IInv' /\ [Pool!PoolNext]_(Pool!PoolVars)
<1>1. CASE UNCHANGED vars
  <2>1. IInv'
        BY <1>1 DEF IInv, vars, Bitmaps, Word, Bit, EmptyBelow, RunInMap, CAPACITY
  <2>2. UNCHANGED Pool!PoolVars
        BY <1>1 DEF vars, Pool!PoolVars, SlicesOf, Word
  <2> QED BY <2>1, <2>2
<1>2. ASSUME NEW s \in base .. (base + CAPACITY - 1), NEW c \in Gives, NEW z \in BOOLEAN,
             add_free(s, c, z)
      PROVE  IInv' /\ [Pool!PoolNext]_(Pool!PoolVars)
  <2>1. IInv' /\ Pool!Give(s, c, z)
        BY <1>2, GiveStep
  <2>2. s \in PoolMap.base .. (Pool!Limit(PoolMap) - 1)
    <3>1. PoolMap.base = base /\ Pool!Limit(PoolMap) = base + CAPACITY
          BY DEF Pool!Limit, PoolMap
    <3>2. base \in Nat /\ CAPACITY \in Nat
          BY Sizes DEF IInv
    <3>3. s \in base .. (base + CAPACITY - 1)
          OBVIOUS
    <3> HIDE DEF PoolMap
    <3> QED BY <3>1, <3>2, <3>3
  <2>3. \E t \in PoolMap.base .. (Pool!Limit(PoolMap) - 1), d \in Gives, y \in BOOLEAN :
           Pool!Give(t, d, y)
        BY <2>1, <2>2
  <2> QED BY <2>1, <2>3 DEF Pool!PoolNext, PoolMap, AbsoluteSet
<1>3. ASSUME NEW c \in Counts, NEW a \in Aligns, alloc(c, a)
      PROVE  IInv' /\ [Pool!PoolNext]_(Pool!PoolVars)
  <2>1. IInv' /\ (Pool!PoolAlloc(c, a) \/ UNCHANGED Pool!PoolVars)
        BY <1>3, AllocStep
  <2> QED BY <2>1 DEF Pool!PoolNext
<1>4. ASSUME NEW c \in Counts, NEW a \in Aligns, NEW b \in Ends, alloc_tail(c, a, b)
      PROVE  IInv' /\ [Pool!PoolNext]_(Pool!PoolVars)
  <2>1. IInv' /\ (Pool!PoolAllocTail(c, a, b) \/ UNCHANGED Pool!PoolVars)
        BY <1>4, AllocTailStep
  <2> QED BY <2>1 DEF Pool!PoolNext
<1>5. ASSUME NEW r \in runs, free_run(r)
      PROVE  IInv' /\ [Pool!PoolNext]_(Pool!PoolVars)
  <2>1. IInv' /\ Pool!PoolFree(r)
        BY <1>5, FreeStep
  <2> QED BY <2>1 DEF Pool!PoolNext
<1>6. ASSUME NEW r \in runs, NEW x \in Counts, try_extend(r, x)
      PROVE  IInv' /\ [Pool!PoolNext]_(Pool!PoolVars)
  <2>1. IInv' /\ Pool!PoolExtend(r, x)
        BY <1>6, ExtendStep
  <2> QED BY <2>1 DEF Pool!PoolNext
<1>7. ASSUME NEW r \in runs, NEW c \in {0} \cup Counts, shrink(r, c)
      PROVE  IInv' /\ [Pool!PoolNext]_(Pool!PoolVars)
  <2>1. IInv' /\ Pool!PoolShrink(r, c)
        BY <1>7, ShrinkStep
  <2> QED BY <2>1 DEF Pool!PoolNext
<1> QED BY <1>1, <1>2, <1>3, <1>4, <1>5, <1>6, <1>7 DEF Next

\* In every state the bits and the words are what their names say, the base is
\* a whole number of words, no word below the hint has a free bit, and every
\* run handed out lies in the map.
THEOREM MapInvariant == Spec => []IInv
<1>1. IInv /\ [Next]_vars => IInv'
      BY NextStep
<1> QED BY <1>1, InitIInv, PTL DEF Spec

\* Every search, the scans of the words and first fit alike, started at the
\* hint, returns the lowest aligned fit if there is one (find_single to
\* find_general, find_tail).
THEOREM SearchesStayExact == Spec => []SearchesExact
<1>1. ASSUME IInv PROVE SearchesExact
  <2>0. /\ free \in Bitmaps /\ base \in Nat /\ base % Bits = 0
        /\ hint \in 0 .. WORDS /\ EmptyBelow(hint)
        BY <1>1 DEF IInv
  <2> DEFINE map == [base |-> base, free |-> {base + s : s \in SlicesOf(free)}]
  <2>1. Stands(map)
        BY DEF Stands, AbsoluteSet
  <2> HIDE DEF map
  <2>2. ASSUME NEW c \in Counts, NEW a \in Aligns
        PROVE  /\ Absolute(find(c, a, advance_hint)) = Pool!Lowest(Pool!Fits(map, c, a))
               /\ \A e \in Ends : Absolute(find_tail(c, a, e)) = Pool!TailFits(map, c, a, e)
    <3>1. c \in Nat \ {0} /\ a \in Nat \ {0} /\ Ends \subseteq Nat
          BY SliceMapAssumption
    <3>2. advance_hint \in 0 .. WORDS /\ EmptyBelow(advance_hint)
          BY <2>0, Advance
    <3>3. First(find(c, a, advance_hint), c, a, 0)
          BY <2>0, <3>1, <3>2, FindFirst
    <3>4. Absolute(find(c, a, advance_hint)) = Pool!Lowest(Pool!Fits(map, c, a))
          BY <2>0, <2>1, <3>1, <3>3, FirstIsLowest
    <3>5. ASSUME NEW e \in Ends
          PROVE  Absolute(find_tail(c, a, e)) = Pool!TailFits(map, c, a, e)
          BY <2>0, <2>1, <3>1, FindTail
    <3> QED BY <3>4, <3>5
  <2> QED BY <2>2 DEF SearchesExact, map
<1> QED BY <1>1, MapInvariant, PTL

\* The words, the masks and the hint implement the map of free slices: init
\* and every method do what SlicePool says, or leave its map alone.
THEOREM WordsImplementPool == Spec => ImplementsPool
<1>1. Init => Pool!PoolInit(BaseSlice)
  <2> SUFFICES ASSUME Init PROVE Pool!PoolInit(BaseSlice)
      OBVIOUS
  <2>1. SlicesOf(free) = {} /\ SlicesOf(zero) = {}
        BY DEF Init, SlicesOf
  <2>2. base = BaseSlice - (BaseSlice % Bits) /\ runs = {} /\ zeroed = FALSE
        BY DEF Init
  <2> QED BY <2>1, <2>2 DEF Pool!PoolInit, Pool!InitMap
<1>2. IInv /\ [Next]_vars => [Pool!PoolNext]_(Pool!PoolVars)
      BY NextStep
<1> QED BY <1>1, <1>2, MapInvariant, PTL DEF Spec, ImplementsPool
=============================================================================
