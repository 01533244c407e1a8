--------------------------- MODULE SliceOpsProofs ---------------------------
(***************************************************************************)
(* What the operations of the slice layer do, for every map, memory, run   *)
(* length and alignment.  The argument is about one relation, MapInv,      *)
(* between a map, an end of memory, the slices handed out, those of others *)
(* and those ever written: every primitive of the map keeps it, hence      *)
(* every outcome of a request does.  The proofs about the slice layer as a *)
(* state machine and about the heap on top of it rest on these lemmas.     *)
(***************************************************************************)
EXTENDS SliceOps, WellFoundedInduction, TLAPS

\* What lies below the end of memory and the usable limit has an owner.
NoneLost(mm, ee, held, frn) ==
    \A x \in Nat : (mm.base <= x /\ x < ee /\ x < UsableLimit(mm))
                       => x \in mm.free \cup held \cup frn

MapInv(mm, ee, held, frn, wr) ==
    /\ mm \in Maps /\ ee \in Nat
    /\ held \subseteq Nat /\ frn \subseteq Nat /\ wr \subseteq Nat
    /\ mm.base <= ee /\ ee <= MemMax
    /\ \A x \in mm.free \cup held :
          mm.base <= x /\ x < ee /\ x < Limit(mm) /\ x # MaxSliceIndex
    /\ mm.free \cap held = {}
    /\ frn \cap (mm.free \cup held) = {}
    /\ \A x \in frn \cup wr : x < ee
    /\ held \subseteq wr
    /\ mm.zero = mm.free \ wr
    /\ NoneLost(mm, ee, held, frn)

-----------------------------------------------------------------------------
(* Arithmetic.                                                             *)

\* A set of numbers that is not empty has a lowest element.
LEMMA LeastExists ==
    ASSUME NEW S \in SUBSET Nat, S # {}
    PROVE  Lowest(S) # {}
<1> DEFINE R == OpToRel(<, Nat)
<1>1. IsWellFoundedOn(R, Nat)
      BY NatLessThanWellFounded
<1>2. PICK x \in S : \A y \in S : ~(<<y, x>> \in R)
      BY <1>1, WFMin
<1>3. \A y \in S : ~(y < x)
      BY <1>2 DEF OpToRel
<1>4. x \in Nat /\ \A y \in S : x <= y
      BY <1>3
<1> QED BY <1>4 DEF Lowest

\* The integer quotient and remainder.
LEMMA DivFacts ==
    ASSUME NEW a \in Nat, NEW s \in Nat \ {0}
    PROVE  /\ a \div s \in Nat
           /\ s * (a \div s) <= a /\ a < s * (a \div s) + s
           /\ a % s \in 0 .. (s - 1)
OBVIOUS

\* Multiplication by a positive number keeps the order, with a step to spare.
LEMMA MulMono ==
    ASSUME NEW a \in Nat, NEW b \in Nat, NEW s \in Nat \ {0}, a < b
    PROVE  s * a + s <= s * b
<1>1. b - a \in Nat /\ b - a >= 1
      OBVIOUS
<1>2. s * (b - a) >= s
      BY <1>1, SMTT(30)
<1>3. s * b = s * a + s * (b - a)
      BY SMTT(30)
<1> QED BY <1>2, <1>3

\* The quotient is the number whose multiple is next below.
LEMMA DivIs ==
    ASSUME NEW a \in Nat, NEW q \in Nat, NEW s \in Nat \ {0},
           s * q <= a, a < s * q + s
    PROVE  a \div s = q
<1> DEFINE d == a \div s
<1>1. d \in Nat /\ s * d <= a /\ a < s * d + s
      BY DivFacts
<1> HIDE DEF d
<1>2. ~(d < q) /\ ~(q < d)
      BY <1>1, MulMono
<1>3. s * d \in Nat /\ s * q \in Nat
      BY <1>1
<1> QED BY <1>1, <1>2, <1>3 DEF d

\* The quotient is monotone in the dividend.
LEMMA DivMono ==
    ASSUME NEW a \in Nat, NEW b \in Nat, NEW s \in Nat \ {0}, a <= b
    PROVE  a \div s <= b \div s
<1> DEFINE d == a \div s
           e == b \div s
<1>1. d \in Nat /\ s * d <= a /\ a < s * d + s
      BY DivFacts
<1>2. e \in Nat /\ s * e <= b /\ b < s * e + s
      BY DivFacts
<1> HIDE DEF d, e
<1>3. s * d \in Nat /\ s * e \in Nat
      BY <1>1, <1>2
<1>4. ~(e < d)
      BY <1>1, <1>2, <1>3, MulMono
<1> QED BY <1>1, <1>2, <1>4 DEF d, e

-----------------------------------------------------------------------------
(* The primitives of the map.                                              *)

\* The limits are numbers, the usable one is not past the map's end, and the
\* last slice is not below it when the map begins at or before that slice.
LEMMA Limits ==
    ASSUME NEW mm \in Maps
    PROVE  /\ mm.base \in Nat /\ mm.free \subseteq Nat /\ mm.zero \subseteq Nat
           /\ Limit(mm) \in Nat /\ UsableLimit(mm) \in Nat
           /\ mm.base <= Limit(mm)
           /\ UsableLimit(mm) <= Limit(mm)
           /\ mm.base <= MaxSliceIndex => UsableLimit(mm) <= MaxSliceIndex
BY SliceAssumption DEF Maps, Limit, UsableLimit, Least

\* What each update does to the fields of a map.
LEMMA Fields ==
    ASSUME NEW mm \in Maps, NEW S \in SUBSET Nat
    PROVE  /\ Claim(mm, S) \in Maps
           /\ Claim(mm, S).base = mm.base
           /\ Claim(mm, S).free = mm.free \ S
           /\ Claim(mm, S).zero = mm.zero \ S
           /\ Release(mm, S) \in Maps
           /\ Release(mm, S).base = mm.base
           /\ Release(mm, S).free = mm.free \cup S
           /\ Release(mm, S).zero = mm.zero
BY DEF Maps, Claim, Release

\* Limits depend on the base only.
LEMMA SameLimits ==
    ASSUME NEW mm \in Maps, NEW nn \in Maps, nn.base = mm.base
    PROVE  Limit(nn) = Limit(mm) /\ UsableLimit(nn) = UsableLimit(mm)
BY DEF Limit, UsableLimit

\* Spans are sets of numbers, and consecutive spans join.
LEMMA Spans ==
    ASSUME NEW s \in Nat, NEW c \in Nat
    PROVE  /\ Span(s, c) \in SUBSET Nat
           /\ \A x \in Nat : x \in Span(s, c) <=> s <= x /\ x < s + c
BY DEF Span

\* A claim of free slices hands them out.
LEMMA ClaimKeeps ==
    ASSUME NEW mm, NEW ee, NEW held, NEW frn, NEW wr, NEW S,
           MapInv(mm, ee, held, frn, wr), S \subseteq mm.free
    PROVE  /\ MapInv(Claim(mm, S), ee, held \cup S, frn, wr \cup S)
           /\ S \subseteq Nat /\ S \cap held = {}
<1> DEFINE nn == Claim(mm, S)
<1>0. mm \in Maps /\ ee \in Nat
      BY DEF MapInv
<1>1. S \in SUBSET Nat
      BY <1>0, Limits
<1>2. /\ nn \in Maps /\ nn.base = mm.base
      /\ nn.free = mm.free \ S /\ nn.zero = mm.zero \ S
      BY <1>0, <1>1, Fields
<1> HIDE DEF nn
<1>3. Limit(nn) = Limit(mm) /\ UsableLimit(nn) = UsableLimit(mm)
      BY <1>0, <1>2, SameLimits
<1>4. \A x \in nn.free \cup (held \cup S) : x \in mm.free \cup held
      BY <1>2
<1>5. \A x \in nn.free \cup (held \cup S) :
          nn.base <= x /\ x < ee /\ x < Limit(nn) /\ x # MaxSliceIndex
      BY <1>2, <1>3, <1>4 DEF MapInv
<1>6. nn.free \cap (held \cup S) = {} /\ S \cap held = {}
      BY <1>2 DEF MapInv
<1>7. frn \cap (nn.free \cup (held \cup S)) = {}
      BY <1>4 DEF MapInv
<1>8. \A x \in frn \cup (wr \cup S) : x < ee
      BY DEF MapInv
<1>9. nn.zero = nn.free \ (wr \cup S)
      BY <1>2 DEF MapInv
<1>10. NoneLost(nn, ee, held \cup S, frn)
      BY <1>2, <1>3 DEF MapInv, NoneLost
<1>11. /\ held \cup S \subseteq Nat /\ frn \subseteq Nat /\ wr \cup S \subseteq Nat
       /\ held \cup S \subseteq wr \cup S /\ nn.base <= ee
      BY <1>1, <1>2 DEF MapInv
<1>12. MapInv(nn, ee, held \cup S, frn, wr \cup S)
      BY <1>0, <1>2, <1>5, <1>6, <1>7, <1>8, <1>9, <1>10, <1>11 DEF MapInv
<1> QED BY <1>1, <1>6, <1>12 DEF nn

\* A release takes slices that are handed out back, dirty.
LEMMA ReleaseKeeps ==
    ASSUME NEW mm, NEW ee, NEW held, NEW frn, NEW wr, NEW S,
           MapInv(mm, ee, held, frn, wr), S \subseteq held
    PROVE  MapInv(Release(mm, S), ee, held \ S, frn, wr)
<1> DEFINE nn == Release(mm, S)
<1>0. mm \in Maps /\ ee \in Nat
      BY DEF MapInv
<1>1. S \in SUBSET Nat
      BY DEF MapInv
<1>2. /\ nn \in Maps /\ nn.base = mm.base
      /\ nn.free = mm.free \cup S /\ nn.zero = mm.zero
      BY <1>0, <1>1, Fields
<1> HIDE DEF nn
<1>3. Limit(nn) = Limit(mm) /\ UsableLimit(nn) = UsableLimit(mm)
      BY <1>0, <1>2, SameLimits
<1>4. \A x \in nn.free \cup (held \ S) : x \in mm.free \cup held
      BY <1>2
<1>5. \A x \in nn.free \cup (held \ S) :
          nn.base <= x /\ x < ee /\ x < Limit(nn) /\ x # MaxSliceIndex
      BY <1>2, <1>3, <1>4 DEF MapInv
<1>6. nn.free \cap (held \ S) = {} /\ frn \cap (nn.free \cup (held \ S)) = {}
      BY <1>2 DEF MapInv
<1>7. nn.zero = nn.free \ wr
      BY <1>2 DEF MapInv
<1>8. NoneLost(nn, ee, held \ S, frn)
      BY <1>2, <1>3 DEF MapInv, NoneLost
<1>9. /\ held \ S \subseteq Nat /\ frn \subseteq Nat /\ wr \subseteq Nat
      /\ held \ S \subseteq wr /\ nn.base <= ee
      /\ \A x \in frn \cup wr : x < ee
      BY <1>2 DEF MapInv
<1> QED BY <1>0, <1>2, <1>5, <1>6, <1>7, <1>8, <1>9 DEF MapInv, nn

\* add_free adds the range but for the last slice of the address space.
LEMMA AddFreeAdds ==
    ASSUME NEW mm \in Maps, NEW s \in Nat, NEW c \in Nat, NEW z \in BOOLEAN
    PROVE  \E N \in SUBSET Nat :
             /\ AddFree(mm, s, c, z) \in Maps
             /\ AddFree(mm, s, c, z).base = mm.base
             /\ AddFree(mm, s, c, z).free = mm.free \cup N
             /\ AddFree(mm, s, c, z).zero = IF z THEN mm.zero \cup N ELSE mm.zero
             /\ \A x \in Nat : x \in N <=> /\ s <= x /\ x < s + c
                                           /\ s <= MaxSliceIndex => x < MaxSliceIndex
<1> DEFINE kept == IF s <= MaxSliceIndex THEN Least(c, MaxSliceIndex - s) ELSE c
           N    == Span(s, kept)
<1>1. /\ kept \in Nat
      /\ \A x \in Nat : (s <= x /\ x < s + kept)
                <=> /\ s <= x /\ x < s + c
                    /\ s <= MaxSliceIndex => x < MaxSliceIndex
      BY SliceAssumption DEF Least
<1>2. AddFree(mm, s, c, z) =
          [mm EXCEPT !.free = @ \cup N, !.zero = IF z THEN @ \cup N ELSE @]
      BY DEF AddFree
<1> HIDE DEF kept
<1>3. N \in SUBSET Nat /\ \A x \in Nat : x \in N <=> s <= x /\ x < s + kept
      BY <1>1, Spans
<1> HIDE DEF N
<1> N \in SUBSET Nat
    BY <1>3
<1> WITNESS N \in SUBSET Nat
<1>5. AddFree(mm, s, c, z) = [base |-> mm.base, free |-> mm.free \cup N,
                              zero |-> IF z THEN mm.zero \cup N ELSE mm.zero]
      BY <1>2 DEF Maps
<1>6. mm.base \in Nat /\ mm.free \cup N \subseteq Nat /\ mm.zero \cup N \subseteq Nat
      BY <1>3, Limits
<1>7. AddFree(mm, s, c, z) \in Maps
      BY <1>5, <1>6 DEF Maps
<1> QED BY <1>1, <1>3, <1>5, <1>7

\* A region that memory.grow returns, g slices above the end that was read,
\* becomes free and zero as far as it is usable; the gap is someone else's.
LEMMA RegionKeeps ==
    ASSUME NEW mm, NEW ee, NEW held, NEW frn, NEW wr,
           MapInv(mm, ee, held, frn, wr), NEW s \in Nat, NEW n \in Nat, ee <= s,
           s + n <= MemMax
    PROVE  /\ MapInv(AddRegion(mm, s, n), s + n, held, frn \cup (ee .. (s - 1)), wr)
           /\ mm.free \subseteq AddRegion(mm, s, n).free
<1> DEFINE nn  == AddRegion(mm, s, n)
           fr2 == frn \cup (ee .. (s - 1))
<1>0. mm \in Maps /\ ee \in Nat /\ held \subseteq Nat
      BY DEF MapInv
<1>1. /\ mm.base \in Nat /\ mm.free \subseteq Nat /\ mm.zero \subseteq Nat
      /\ Limit(mm) \in Nat /\ UsableLimit(mm) \in Nat
      /\ UsableLimit(mm) <= Limit(mm)
      /\ mm.base <= MaxSliceIndex => UsableLimit(mm) <= MaxSliceIndex
      BY <1>0, Limits
<1>2. MaxSliceIndex \in Nat /\ mm.base <= ee
      BY SliceAssumption DEF MapInv
<1>3. PICK N \in SUBSET Nat :
         /\ nn \in Maps /\ nn.base = mm.base
         /\ nn.free = mm.free \cup N /\ nn.zero = mm.zero \cup N
         /\ \A x \in Nat : x \in N <=>
                s <= x /\ x < s + n /\ x < UsableLimit(mm)
  <2> DEFINE cap == Least(s + n, UsableLimit(mm))
  <2>1. cap \in Nat /\ (\A x \in Nat : x < cap <=> x < s + n /\ x < UsableLimit(mm))
        BY <1>1 DEF Least
  <2>2. nn = IF s < cap THEN AddFree(mm, s, cap - s, TRUE) ELSE mm
        BY DEF AddRegion
  <2> HIDE DEF cap, nn
  <2>3. CASE s < cap
    <3>1. cap - s \in Nat /\ s + (cap - s) = cap
          BY <2>1, <2>3
    <3>2. PICK N \in SUBSET Nat :
             /\ nn \in Maps /\ nn.base = mm.base
             /\ nn.free = mm.free \cup N /\ nn.zero = mm.zero \cup N
             /\ \A x \in Nat : x \in N <=>
                   /\ s <= x /\ x < s + (cap - s)
                   /\ s <= MaxSliceIndex => x < MaxSliceIndex
          BY <1>0, <2>2, <2>3, <3>1, AddFreeAdds
    <3>3. \A x \in Nat : x \in N <=> s <= x /\ x < s + n /\ x < UsableLimit(mm)
      <4>1. SUFFICES ASSUME NEW x \in Nat
                     PROVE  x \in N <=> s <= x /\ x < s + n /\ x < UsableLimit(mm)
            OBVIOUS
      <4>2. x < cap <=> x < s + n /\ x < UsableLimit(mm)
            BY <2>1
      <4>3. x \in N <=> s <= x /\ x < cap /\ (s <= MaxSliceIndex => x < MaxSliceIndex)
            BY <3>1, <3>2
      <4>4. s <= MaxSliceIndex /\ x < UsableLimit(mm) => x < MaxSliceIndex
            BY <1>0, <1>1, <1>2
      <4> QED BY <4>2, <4>3, <4>4
    <3> QED BY <3>2, <3>3
  <2>4. CASE ~(s < cap)
    <3>1. \A x \in Nat : ~(s <= x /\ x < s + n /\ x < UsableLimit(mm))
          BY <2>1, <2>4
    <3>2. nn = mm /\ mm.free \cup {} = mm.free /\ mm.zero \cup {} = mm.zero
          BY <2>2, <2>4
    <3>3. WITNESS {} \in SUBSET Nat
    <3> QED BY <1>0, <3>1, <3>2
  <2> QED BY <2>3, <2>4
<1> HIDE DEF nn
<1>4. Limit(nn) = Limit(mm) /\ UsableLimit(nn) = UsableLimit(mm)
      BY <1>0, <1>3, SameLimits
<1>5. \A x \in N : /\ ee <= x /\ mm.base <= x /\ x < s + n
                   /\ x < UsableLimit(mm) /\ x < Limit(mm) /\ x # MaxSliceIndex
  <2>1. SUFFICES ASSUME NEW x \in N
                 PROVE  /\ ee <= x /\ mm.base <= x /\ x < s + n
                        /\ x < UsableLimit(mm) /\ x < Limit(mm) /\ x # MaxSliceIndex
        OBVIOUS
  <2>2. x \in Nat /\ s <= x /\ x < s + n /\ x < UsableLimit(mm)
        BY <1>3
  <2>3. ee <= x /\ mm.base <= x /\ x < Limit(mm)
        BY <1>0, <1>1, <1>2, <2>2
  <2>4. x # MaxSliceIndex
        BY <1>1, <1>2, <2>2, <2>3
  <2> QED BY <2>2, <2>3, <2>4
<1>6. \A x \in mm.free \cup held :
          mm.base <= x /\ x < ee /\ x < Limit(mm) /\ x # MaxSliceIndex
      BY DEF MapInv
<1>7. \A x \in Nat : x < ee => x < s + n
      BY <1>0
<1>8. \A x \in nn.free \cup held :
          nn.base <= x /\ x < s + n /\ x < Limit(nn) /\ x # MaxSliceIndex
      BY <1>0, <1>1, <1>3, <1>4, <1>5, <1>6, <1>7
<1>9. N \cap (held \cup wr \cup frn) = {}
  <2>1. \A x \in held \cup wr \cup frn : x \in Nat /\ x < ee
        BY <1>0, <1>6 DEF MapInv
  <2>2. \A x \in N : ~(x < ee)
        BY <1>0, <1>5
  <2> QED BY <2>1, <2>2
<1>10. nn.free \cap held = {}
      BY <1>3, <1>9 DEF MapInv
<1>11. fr2 \cap (nn.free \cup held) = {}
  <2>1. (ee .. (s - 1)) \cap (mm.free \cup held) = {}
        BY <1>0, <1>6
  <2>2. (ee .. (s - 1)) \cap N = {}
        BY <1>0, <1>3
  <2> QED BY <1>3, <1>9, <2>1, <2>2 DEF MapInv
<1>12. \A x \in fr2 \cup wr : x < s + n
  <2>1. \A x \in frn \cup wr : x < s + n
        BY <1>7 DEF MapInv
  <2> QED BY <1>0, <2>1
<1>13. nn.zero = nn.free \ wr
      BY <1>3, <1>9 DEF MapInv
<1>14. NoneLost(nn, s + n, held, fr2)
  <2>1. SUFFICES ASSUME NEW x \in Nat, mm.base <= x, x < s + n, x < UsableLimit(mm)
                 PROVE  x \in mm.free \cup N \cup held \cup fr2
        BY <1>3, <1>4 DEF NoneLost
  <2>2. CASE x < ee
        BY <2>1, <2>2 DEF MapInv, NoneLost
  <2>3. CASE ee <= x /\ x < s
        BY <1>0, <2>3
  <2>4. CASE s <= x
        BY <1>3, <2>1, <2>4
  <2> QED BY <1>0, <2>2, <2>3, <2>4
<1>15. /\ s + n \in Nat /\ fr2 \subseteq Nat /\ wr \subseteq Nat
       /\ held \subseteq wr /\ nn.base <= s + n
      BY <1>0, <1>1, <1>2, <1>3 DEF MapInv
<1>16. MapInv(nn, s + n, held, fr2, wr)
      BY <1>0, <1>3, <1>8, <1>10, <1>11, <1>12, <1>13, <1>14, <1>15 DEF MapInv
<1> QED BY <1>3, <1>16 DEF nn

-----------------------------------------------------------------------------
(* The outcomes of a request, against the map and the memory it began with. *)

\* The request took the slices S.
Served(o, S, ee, held, frn, wr) ==
    /\ o.start \in Nat
    /\ MapInv(o.m, o.end, held \cup S, frn \cup o.foreign, wr \cup S)
    /\ S \subseteq Nat /\ S \cap held = {}
    /\ o.end >= ee

\* The request took nothing, and no free slice is gone.
Refused(o, mm, ee, held, frn, wr) ==
    /\ o.start = NoSlice
    /\ MapInv(o.m, o.end, held, frn \cup o.foreign, wr)
    /\ mm.free \subseteq o.m.free
    /\ o.end >= ee

\* An acquired run is aligned besides.
Acquired(o, count, align, ee, held, frn, wr) ==
    /\ Served(o, Span(o.start, count), ee, held, frn, wr)
    /\ o.start % align = 0

\* Taking a fit of the map as it is now, whatever was grown before.
LEMMA TakeServes ==
    ASSUME NEW mm, NEW ee, NEW held, NEW frn, NEW wr, NEW out, NEW k,
           MapInv(mm, ee, held, frn \cup out, wr),
           NEW e0 \in Nat, e0 <= ee, NEW count \in Nat, NEW align \in Nat \ {0},
           NEW starts, starts \subseteq Fits(mm, count, align),
           NEW o \in Take(mm, ee, starts, count, out, k)
    PROVE  Acquired(o, count, align, e0, held, frn, wr)
<1>1. PICK s \in starts :
         o = Outcome(Claim(mm, Span(s, count)), ee, s,
                     AllZero(mm, Span(s, count)), out, k)
      BY DEF Take
<1>2. /\ o.m = Claim(mm, Span(s, count)) /\ o.end = ee
      /\ o.start = s /\ o.foreign = out
      BY <1>1 DEF Outcome
<1>3. s \in mm.free /\ s % align = 0 /\ Span(s, count) \subseteq mm.free
      BY DEF Fits
<1>0. mm \in Maps /\ ee \in Nat
      BY DEF MapInv
<1>4. mm.free \subseteq Nat
      BY <1>0, Limits
<1> DEFINE S == Span(s, count)
           F == frn \cup out
<1>5. /\ MapInv(Claim(mm, S), ee, held \cup S, F, wr \cup S)
      /\ S \subseteq Nat /\ S \cap held = {}
  <2>1. MapInv(mm, ee, held, F, wr) /\ S \subseteq mm.free
        BY <1>3
  <2> HIDE DEF S, F
  <2> QED BY <2>1, ClaimKeeps
<1> QED BY <1>0, <1>2, <1>3, <1>4, <1>5 DEF Acquired, Served

\* Failing after whatever was grown.
LEMMA FailRefuses ==
    ASSUME NEW mm, NEW nn, NEW ee, NEW held, NEW frn, NEW wr, NEW out, NEW k,
           MapInv(nn, ee, held, frn \cup out, wr),
           mm.free \subseteq nn.free,
           NEW e0 \in Nat, e0 <= ee,
           NEW o \in Fail(nn, ee, out, k)
    PROVE  Refused(o, mm, e0, held, frn, wr)
<1>1. /\ o.m = nn /\ o.end = ee /\ o.start = NoSlice /\ o.foreign = out
      BY DEF Fail, Outcome
<1>2. ee \in Nat
      BY DEF MapInv
<1> QED BY <1>1, <1>2 DEF Refused

\* A region starts at the end of memory or above it.
LEMMA RegionAbove ==
    ASSUME NEW ee \in Nat, NEW n \in Nat, NEW s \in Regions(ee, n)
    PROVE  s \in Nat /\ ee <= s /\ s + n <= MemMax
BY SliceAssumption DEF Regions

LEMMA GrownAbove ==
    ASSUME NEW ee \in Nat, NEW want \in Nat, NEW needed \in Nat,
           NEW r \in Grown(ee, want, needed)
    PROVE  r.start \in Nat /\ ee <= r.start /\ r.count \in Nat /\ r.start + r.count <= MemMax
<1>1. PICK n \in {want, needed} : \E s \in Regions(ee, n) :
         r = [start |-> s, count |-> n]
      BY DEF Grown
<1>2. PICK s \in Regions(ee, n) : r = [start |-> s, count |-> n]
      BY <1>1
<1> QED BY <1>1, <1>2, RegionAbove

\* What is asked of memory.grow is a number of slices.
LEMMA Wanted ==
    ASSUME NEW mm \in Maps, NEW ee \in Nat, NEW needed \in Nat, NEW room \in Nat
    PROVE  Least(Greatest(needed, GrowthStep(mm, ee)), room) \in Nat
<1>1. Greatest(StepDivisor, 1) \in Nat \ {0}
      BY SliceAssumption DEF Greatest
<1>2. Monus(ee, mm.base) \in Nat
      BY DEF Maps, Monus
<1>3. Monus(ee, mm.base) \div Greatest(StepDivisor, 1) \in Nat
      BY <1>1, <1>2, DivFacts
<1>4. GrowthStep(mm, ee) \in Nat
      BY <1>3, SliceAssumption DEF GrowthStep, Step, Least, Greatest
<1> QED BY <1>4 DEF Least, Greatest

LEMMA Padding ==
    ASSUME NEW ee \in Nat, NEW align \in Nat \ {0}
    PROVE  Pad(ee, align) \in Nat
<1>1. ee % align \in 0 .. (align - 1)
      BY DivFacts
<1>2. align - (ee % align) \in Nat
      BY <1>1
<1>3. (align - (ee % align)) % align \in 0 .. (align - 1)
      BY <1>2, DivFacts
<1> QED BY <1>3 DEF Pad

\* The lowest of a set of starts is one of them.
LEMMA LowestIn == ASSUME NEW S PROVE Lowest(S) \subseteq S
BY DEF Lowest

\* What the search of the free tail returns is a fit.
LEMMA TailFitsFit ==
    ASSUME NEW mm \in Maps, NEW count \in Nat, NEW align \in Nat \ {0}, NEW below \in Nat
    PROVE  TailFits(mm, count, align, below) \subseteq Fits(mm, count, align)
<1> DEFINE tp == Least(below, Limit(mm))
<1>1. tp \in Nat /\ mm.free \subseteq Nat
      BY Limits DEF Least
<1>2. SUFFICES ASSUME NEW s \in TailFits(mm, count, align, below)
               PROVE  s \in Fits(mm, count, align)
      OBVIOUS
<1>3. s \in FreeTail(mm, below) /\ s % align = 0 /\ s + count <= tp
      BY DEF TailFits, Lowest
<1>4. s \in mm.free /\ (s .. (tp - 1)) \subseteq mm.free
      BY <1>3 DEF FreeTail
<1> HIDE DEF tp
<1>5. s \in Nat /\ Span(s, count) \subseteq s .. (tp - 1)
      BY <1>1, <1>3, <1>4 DEF Span
<1> QED BY <1>3, <1>4, <1>5 DEF Fits

-----------------------------------------------------------------------------
(* The requests.                                                           *)

\* grow_and_alloc: the first grow, and the second one if the region of the
\* first did not start where it was expected.
LEMMA WorstOutcomes ==
    ASSUME NEW mm, NEW nn, NEW ee, NEW held, NEW frn, NEW wr, NEW out,
           MapInv(nn, ee, held, frn \cup out, wr), mm.free \subseteq nn.free,
           NEW e0 \in Nat, e0 <= ee,
           NEW count \in Nat \ {0}, NEW align \in Nat \ {0},
           NEW o \in GrowWorst(nn, ee, count, align, out)
    PROVE  \/ Acquired(o, count, align, e0, held, frn, wr)
           \/ Refused(o, mm, e0, held, frn, wr)
<1> DEFINE worst == Worst(count, align)
           M2(s) == AddRegion(nn, s, worst)
           Out(s) == out \cup (ee .. (s - 1))
<1>0. nn \in Maps /\ ee \in Nat /\ worst \in Nat
      BY DEF MapInv, Worst
<1>1. CASE o \in Fail(nn, ee, out, 1)
      BY <1>1, FailRefuses
<1>2. CASE o \notin Fail(nn, ee, out, 1)
  <2>1. PICK s \in Regions(ee, worst) :
           o \in IF Lowest(Fits(M2(s), count, align)) = {}
                 THEN Fail(M2(s), s + worst, Out(s), 2)
                 ELSE Take(M2(s), s + worst, Lowest(Fits(M2(s), count, align)),
                           count, Out(s), 2)
        BY <1>2 DEF GrowWorst
  <2>2. s \in Nat /\ ee <= s /\ s + worst <= MemMax
        BY <1>0, RegionAbove
  <2> HIDE DEF worst
  <2>3. /\ MapInv(M2(s), s + worst, held, (frn \cup out) \cup (ee .. (s - 1)), wr)
        /\ nn.free \subseteq M2(s).free
        BY <1>0, <2>2, RegionKeeps
  <2>4. (frn \cup out) \cup (ee .. (s - 1)) = frn \cup Out(s)
        OBVIOUS
  <2>5. e0 <= s + worst /\ mm.free \subseteq M2(s).free
        BY <1>0, <2>2, <2>3
  <2> HIDE DEF M2, Out
  <2>6. MapInv(M2(s), s + worst, held, frn \cup Out(s), wr)
        BY <2>3, <2>4
  <2>7. Lowest(Fits(M2(s), count, align)) \subseteq Fits(M2(s), count, align)
        BY LowestIn
  <2>8. CASE Lowest(Fits(M2(s), count, align)) = {}
        BY <2>1, <2>5, <2>6, <2>8, FailRefuses
  <2>9. CASE Lowest(Fits(M2(s), count, align)) # {}
        BY <2>1, <2>5, <2>6, <2>7, <2>9, TakeServes
  <2> QED BY <2>8, <2>9
<1> QED BY <1>1, <1>2

LEMMA GrowOutcomes ==
    ASSUME NEW mm, NEW ee, NEW held, NEW frn, NEW wr,
           MapInv(mm, ee, held, frn, wr),
           NEW count \in Nat \ {0}, NEW align \in Nat \ {0},
           NEW o \in GrowAndAlloc(mm, ee, count, align)
    PROVE  \/ Acquired(o, count, align, ee, held, frn, wr)
           \/ Refused(o, mm, ee, held, frn, wr)
<1> DEFINE needed == Pad(ee, align) + count
           room   == Monus(UsableLimit(mm), ee)
           want   == Least(Greatest(needed, GrowthStep(mm, ee)), room)
           M1(r)  == AddRegion(mm, r.start, r.count)
           E1(r)  == r.start + r.count
           Out(r) == ee .. (r.start - 1)
<1>0. mm \in Maps /\ ee \in Nat
      BY DEF MapInv
<1>1. needed \in Nat /\ room \in Nat
      BY <1>0, Padding, Limits DEF Monus
<1>2. CASE o \in Fail(mm, ee, {}, 0)
  <2>1. frn \cup {} = frn
        OBVIOUS
  <2> QED BY <1>0, <1>2, <2>1, FailRefuses
<1>3. CASE o \notin Fail(mm, ee, {}, 0)
  <2>1. PICK r \in Grown(ee, want, needed) :
           o \in IF Lowest(Fits(M1(r), count, align)) = {}
                 THEN GrowWorst(M1(r), E1(r), count, align, Out(r))
                 ELSE Take(M1(r), E1(r), Lowest(Fits(M1(r), count, align)),
                           count, Out(r), 1)
        BY <1>3 DEF GrowAndAlloc
  <2> HIDE DEF needed, room
  <2>2. want \in Nat
        BY <1>0, <1>1, Wanted
  <2> HIDE DEF want
  <2>3. /\ r.start \in Nat /\ ee <= r.start /\ r.count \in Nat
        /\ r.start + r.count <= MemMax
        BY <1>0, <1>1, <2>2, GrownAbove
  <2>4. /\ MapInv(M1(r), E1(r), held, frn \cup Out(r), wr)
        /\ mm.free \subseteq M1(r).free
        BY <2>3, RegionKeeps
  <2>5. ee <= E1(r)
        BY <1>0, <2>3
  <2> HIDE DEF M1, E1, Out
  <2>6. Lowest(Fits(M1(r), count, align)) \subseteq Fits(M1(r), count, align)
        BY LowestIn
  <2>7. CASE Lowest(Fits(M1(r), count, align)) = {}
        BY <1>0, <2>1, <2>4, <2>5, <2>7, WorstOutcomes
  <2>8. CASE Lowest(Fits(M1(r), count, align)) # {}
        BY <1>0, <2>1, <2>4, <2>5, <2>6, <2>8, TakeServes
  <2> QED BY <2>7, <2>8
<1> QED BY <1>2, <1>3

\* alloc and acquire.
LEMMA AllocOutcomes ==
    ASSUME NEW mm, NEW ee, NEW held, NEW frn, NEW wr,
           MapInv(mm, ee, held, frn, wr), NEW starts,
           NEW count \in Nat, NEW align \in Nat \ {0},
           starts \subseteq Fits(mm, count, align),
           NEW o \in Take(mm, ee, starts, count, {}, 0)
    PROVE  Acquired(o, count, align, ee, held, frn, wr)
<1>1. frn \cup {} = frn /\ ee \in Nat
      BY DEF MapInv
<1> QED BY <1>1, TakeServes

LEMMA AcquireOutcomes ==
    ASSUME NEW mm, NEW ee, NEW held, NEW frn, NEW wr,
           MapInv(mm, ee, held, frn, wr),
           NEW count \in Nat \ {0}, NEW align \in Nat \ {0},
           NEW o \in Acquire(mm, ee, count, align)
    PROVE  \/ Acquired(o, count, align, ee, held, frn, wr)
           \/ Refused(o, mm, ee, held, frn, wr)
<1> DEFINE fit == Lowest(Fits(mm, count, align))
<1>1. CASE o \in GrowAndAlloc(mm, ee, count, align)
      BY <1>1, GrowOutcomes
<1>2. CASE o \in Alloc(mm, ee, count, align)
  <2>1. CASE o \in Fail(mm, ee, {}, 0)
    <3>1. frn \cup {} = frn /\ ee \in Nat
          BY DEF MapInv
    <3> QED BY <2>1, <3>1, FailRefuses
  <2>2. CASE o \in Take(mm, ee, fit, count, {}, 0)
        BY <2>2, LowestIn, AllocOutcomes
  <2> QED BY <1>2, <2>1, <2>2 DEF Alloc
<1> QED BY <1>1, <1>2 DEF Acquire

\* try_extend on a map that may just have been given a region.
LEMMA ExtendTakes ==
    ASSUME NEW mm, NEW ee, NEW held, NEW frn, NEW wr,
           MapInv(mm, ee, held, frn, wr), NEW e0 \in Nat, e0 <= ee,
           NEW start \in Nat, NEW count \in Nat, NEW extra \in Nat,
           CanExtend(mm, start, count, extra), NEW z, NEW k,
           NEW o, o = Outcome(Claim(mm, Span(start + count, extra)), ee, start,
                              z, {}, k)
    PROVE  o.start = start /\ Served(o, Span(start + count, extra), e0, held, frn, wr)
<1> DEFINE S == Span(start + count, extra)
<1>1. S \subseteq mm.free
      BY DEF CanExtend
<1>2. /\ o.m = Claim(mm, S) /\ o.end = ee /\ o.start = start /\ o.foreign = {}
      BY DEF Outcome
<1> HIDE DEF S
<1>3. /\ MapInv(Claim(mm, S), ee, held \cup S, frn, wr \cup S)
      /\ S \subseteq Nat /\ S \cap held = {}
      BY <1>1, ClaimKeeps
<1>4. frn \cup {} = frn /\ ee \in Nat
      BY DEF MapInv
<1>5. Served(o, S, e0, held, frn, wr)
      BY <1>2, <1>3, <1>4 DEF Served
<1> QED BY <1>2, <1>5 DEF S

\* extend_with_growth: in the map, through memory.grow, or not at all.
LEMMA ExtendOutcomes ==
    ASSUME NEW mm, NEW ee, NEW held, NEW frn, NEW wr,
           MapInv(mm, ee, held, frn, wr),
           NEW start \in Nat, NEW count \in Nat, NEW extra \in Nat,
           NEW o \in ExtendWithGrowth(mm, ee, start, count, extra)
    PROVE  \/ /\ o.start = start
              /\ Served(o, Span(start + count, extra), ee, held, frn, wr)
           \/ Refused(o, mm, ee, held, frn, wr)
<1> DEFINE need  == extra - (ee - (start + count))
           room  == UsableLimit(mm) - ee
           want  == Least(Greatest(need, GrowthStep(mm, ee)), room)
           M1(r) == AddRegion(mm, r.start, r.count)
           E1(r) == r.start + r.count
           New   == Span(start + count, extra)
<1>0. mm \in Maps /\ ee \in Nat /\ frn \cup {} = frn
      BY DEF MapInv
<1>1. CASE CanExtend(mm, start, count, extra)
  <2>1. o \in {Outcome(Claim(mm, New), ee, start, AllZero(mm, New), {}, 0)}
        BY <1>1 DEF ExtendWithGrowth, TryExtend
  <2> QED BY <1>0, <1>1, <2>1, ExtendTakes
<1>2. CASE o \in Fail(mm, ee, {}, 0)
      BY <1>0, <1>2, FailRefuses
<1>3. CASE ~CanExtend(mm, start, count, extra) /\ o \notin Fail(mm, ee, {}, 0)
  <2>1. AtTop(mm, ee, start, count, extra)
        BY <1>3 DEF ExtendWithGrowth, GrowAndExtend
  <2>2. PICK r \in Grown(ee, want, need) :
           o \in IF r.start = ee /\ CanExtend(M1(r), start, count, extra)
                 THEN {Outcome(Claim(M1(r), New), E1(r), start,
                               AllZero(M1(r), New), {}, 1)}
                 ELSE Fail(M1(r), E1(r), ee .. (r.start - 1), 1)
        BY <1>3, <2>1 DEF ExtendWithGrowth, GrowAndExtend
  <2>3. need \in Nat /\ room \in Nat
        BY <1>0, <2>1, Limits DEF AtTop
  <2> HIDE DEF need, room
  <2>4. want \in Nat
        BY <1>0, <2>3, Wanted
  <2> HIDE DEF want
  <2>5. /\ r.start \in Nat /\ ee <= r.start /\ r.count \in Nat
        /\ r.start + r.count <= MemMax
        BY <1>0, <2>3, <2>4, GrownAbove
  <2>6. /\ MapInv(M1(r), E1(r), held, frn \cup (ee .. (r.start - 1)), wr)
        /\ mm.free \subseteq M1(r).free
        BY <2>5, RegionKeeps
  <2>7. ee <= E1(r)
        BY <1>0, <2>5
  <2>8. r.start = ee => frn \cup (ee .. (r.start - 1)) = frn
        BY <1>0
  <2> HIDE DEF M1, E1
  <2>9. CASE r.start = ee /\ CanExtend(M1(r), start, count, extra)
    <3>1. MapInv(M1(r), E1(r), held, frn, wr)
          BY <2>6, <2>8, <2>9
    <3>2. o = Outcome(Claim(M1(r), New), E1(r), start, AllZero(M1(r), New), {}, 1)
          BY <2>2, <2>9
    <3> QED BY <1>0, <2>7, <2>9, <3>1, <3>2, ExtendTakes
  <2>10. CASE ~(r.start = ee /\ CanExtend(M1(r), start, count, extra))
    <3>1. o \in Fail(M1(r), E1(r), ee .. (r.start - 1), 1)
          BY <2>2, <2>10
    <3> QED BY <1>0, <2>6, <2>7, <3>1, FailRefuses
  <2> QED BY <2>9, <2>10
<1> QED BY <1>1, <1>2, <1>3

-----------------------------------------------------------------------------
(* The memory before and around the requests.                              *)

\* What another party takes at the end of memory is no slice of the map.
LEMMA OtherKeeps ==
    ASSUME NEW mm, NEW ee, NEW held, NEW frn, NEW wr,
           MapInv(mm, ee, held, frn, wr), NEW n \in Nat, ee + n <= MemMax
    PROVE  MapInv(mm, ee + n, held, frn \cup Span(ee, n), wr)
<1> DEFINE fr2 == frn \cup Span(ee, n)
<1>0. mm \in Maps /\ ee \in Nat /\ held \subseteq Nat /\ frn \subseteq Nat /\ wr \subseteq Nat
      BY DEF MapInv
<1>1. mm.base \in Nat /\ mm.free \subseteq Nat
      BY <1>0, Limits
<1>2. Span(ee, n) \subseteq Nat /\ \A x \in Nat : x \in Span(ee, n) <=> ee <= x /\ x < ee + n
      BY <1>0, Spans
<1>3. \A x \in Nat : x < ee => x < ee + n /\ x \notin Span(ee, n)
      BY <1>0, <1>2
<1>4. \A x \in mm.free \cup held :
          mm.base <= x /\ x < ee /\ x < Limit(mm) /\ x # MaxSliceIndex
      BY DEF MapInv
<1>5. \A x \in mm.free \cup held :
          mm.base <= x /\ x < ee + n /\ x < Limit(mm) /\ x # MaxSliceIndex
      BY <1>0, <1>1, <1>3, <1>4
<1>6. fr2 \cap (mm.free \cup held) = {}
      BY <1>0, <1>1, <1>3, <1>4 DEF MapInv
<1>7. \A x \in fr2 \cup wr : x < ee + n
  <2>1. \A x \in frn \cup wr : x < ee
        BY DEF MapInv
  <2> QED BY <1>0, <1>2, <1>3, <2>1
<1>8. NoneLost(mm, ee + n, held, fr2)
  <2>1. SUFFICES ASSUME NEW x \in Nat, mm.base <= x, x < ee + n, x < UsableLimit(mm)
                 PROVE  x \in mm.free \cup held \cup fr2
        BY DEF NoneLost
  <2>2. CASE x < ee
        BY <2>1, <2>2 DEF MapInv, NoneLost
  <2>3. CASE ee <= x
        BY <1>2, <2>1, <2>3
  <2> QED BY <1>0, <2>2, <2>3
<1>9. mm.base <= ee + n /\ ee + n \in Nat /\ fr2 \subseteq Nat
  <2>1. mm.base <= ee
        BY DEF MapInv
  <2>2. mm.base <= ee + n /\ ee + n \in Nat
        BY <1>0, <1>1, <2>1
  <2>3. fr2 \subseteq Nat
        BY <1>0, <1>2
  <2> QED BY <2>2, <2>3
<1>10. mm.free \cap held = {} /\ held \subseteq wr /\ mm.zero = mm.free \ wr
      BY DEF MapInv
<1> QED BY <1>0, <1>5, <1>6, <1>7, <1>8, <1>9, <1>10 DEF MapInv

\* A new map begins at or below the slice it is made for.
LEMMA InitMapBase ==
    ASSUME NEW b \in Nat
    PROVE  InitMap(b) \in Maps /\ InitMap(b).base \in Nat /\ InitMap(b).base <= b
           /\ InitMap(b).free = {} /\ InitMap(b).zero = {}
<1>1. b % Bits \in Nat /\ b % Bits <= b
  <2>1. Bits * (b \div Bits) \in Nat /\ b \div Bits \in Nat
        BY DivFacts, SliceAssumption
  <2>2. b = Bits * (b \div Bits) + (b % Bits) /\ b % Bits \in Nat
        BY SliceAssumption
  <2> QED BY <2>1, <2>2
<1> QED BY <1>1 DEF InitMap, Maps

\* ensure_init establishes the relation, for a base inside the memory whose
\* slices below the first whole one are someone else's.
LEMMA InitEstablishes ==
    ASSUME NEW ee \in Nat, NEW first \in Nat, NEW b \in Nat, NEW frn \in SUBSET Nat,
           ee <= MemMax, b <= first, first <= ee,
           \A x \in frn : x < ee,
           \A x \in Nat : x < first => x \in frn,
           \A x \in Nat : (first <= x /\ x < ee) => x \notin frn,
           first < ee => ee <= Limit(InitMap(b))
    PROVE  MapInv(AddFree(InitMap(b), first, Monus(ee, first), FALSE), ee, {}, frn,
                  Span(first, Monus(ee, first)))
<1> DEFINE mm  == InitMap(b)
           gap == Monus(ee, first)
           nn  == AddFree(mm, first, gap, FALSE)
           wr  == Span(first, gap)
<1>1. gap \in Nat /\ first + gap = ee
      BY DEF Monus
<1>2. /\ mm \in Maps /\ mm.base \in Nat /\ mm.base <= b /\ mm.free = {} /\ mm.zero = {}
      BY InitMapBase
<1> HIDE DEF gap, mm
<1>3. PICK N \in SUBSET Nat :
         /\ nn \in Maps /\ nn.base = mm.base
         /\ nn.free = mm.free \cup N /\ nn.zero = mm.zero
         /\ \A x \in Nat : x \in N <=> /\ first <= x /\ x < first + gap
                                       /\ first <= MaxSliceIndex => x < MaxSliceIndex
      BY <1>1, <1>2, AddFreeAdds
<1> HIDE DEF nn
<1>4. wr \in SUBSET Nat /\ \A x \in Nat : x \in wr <=> first <= x /\ x < ee
      BY <1>1, Spans
<1> HIDE DEF wr
<1>5. Limit(nn) = Limit(mm) /\ UsableLimit(nn) = UsableLimit(mm)
      BY <1>2, <1>3, SameLimits
<1>6. /\ Limit(mm) \in Nat /\ UsableLimit(mm) \in Nat /\ UsableLimit(mm) <= Limit(mm)
      /\ mm.base <= MaxSliceIndex => UsableLimit(mm) <= MaxSliceIndex
      BY <1>2, Limits
<1>7. MaxSliceIndex \in Nat
      BY SliceAssumption
<1>8. \A x \in nn.free \cup {} :
          nn.base <= x /\ x < ee /\ x < Limit(nn) /\ x # MaxSliceIndex
  <2>1. SUFFICES ASSUME NEW x \in N
                 PROVE  mm.base <= x /\ x < ee /\ x < Limit(mm) /\ x # MaxSliceIndex
        BY <1>2, <1>3, <1>5
  <2>2. /\ x \in Nat /\ first <= x /\ x < ee
        /\ first <= MaxSliceIndex => x < MaxSliceIndex
        BY <1>1, <1>3
  <2>3. ee <= Limit(mm)
        BY <2>2 DEF mm
  <2> QED BY <1>2, <1>6, <1>7, <2>2, <2>3
<1>9. N \subseteq wr /\ frn \cap wr = {}
      BY <1>1, <1>3, <1>4
<1>10. nn.zero = nn.free \ wr /\ frn \cap (nn.free \cup {}) = {}
      BY <1>2, <1>3, <1>9
<1>11. NoneLost(nn, ee, {}, frn)
  <2>1. SUFFICES ASSUME NEW x \in Nat, mm.base <= x, x < ee, x < UsableLimit(mm)
                 PROVE  x \in N \cup frn
        BY <1>3, <1>5 DEF NoneLost
  <2>2. CASE x < first
        BY <2>2
  <2>3. CASE first <= x
    <3>1. first <= MaxSliceIndex => x < MaxSliceIndex
          BY <1>2, <1>6, <1>7, <2>1
    <3> QED BY <1>1, <1>3, <2>1, <2>3, <3>1
  <2> QED BY <2>2, <2>3
<1>12. \A x \in frn \cup wr : x < ee
      BY <1>4
<1>13. nn.base <= ee
      BY <1>2, <1>3
<1> QED BY <1>3, <1>4, <1>8, <1>10, <1>11, <1>12, <1>13 DEF MapInv, nn, mm, gap, wr
=============================================================================
