---------------------------- MODULE GrowthProofs ----------------------------
(***************************************************************************)
(* The slice layer keeps its invariants for every memory, map, gap, run    *)
(* length and alignment.  SliceOpsProofs shows that every outcome of a     *)
(* request keeps MapInv; here every action of the state machine does.      *)
(***************************************************************************)
EXTENDS Growth, SliceOpsProofs

-----------------------------------------------------------------------------
(* The inductive invariant.                                                *)

\* Before ensure_init nothing is managed, and the memory is as the linker and
\* libc left it.
Untouched ==
    /\ m = NewMap /\ runs = {} /\ written = {} /\ top = NoSlice
    /\ end <= MemMax
    /\ IF wasi THEN foreign = 0 .. (end - 1)
       ELSE end = InitialEnd /\ foreign = 0 .. (FirstSlice(HeapBase, SliceSize) - 1)

RunsDisjoint == \A r, s \in runs : r # s => Slices(r) \cap Slices(s) = {}

IInv ==
    /\ TypeOK
    /\ ~inited => Untouched
    /\ inited => MapInv(m, end, Owned, foreign, written)
    /\ RunsDisjoint
    /\ RunsAligned

\* The slices of runs are numbers.
LEMMA RunFields ==
    ASSUME TypeOK, NEW r \in runs
    PROVE  /\ r.start \in Nat /\ r.count \in Nat \ {0} /\ r.align \in Nat \ {0}
           /\ Slices(r) \subseteq Nat
<1>1. r.start \in Nat /\ r.count \in Nat \ {0} /\ r.align \in Nat \ {0}
      BY DEF TypeOK
<1> QED BY <1>1, Spans DEF Slices

\* The heap base the code takes is at the end of memory on wasi.
LEMMA WasiBase ==
    ASSUME NEW e \in Nat, e <= MemMax
    PROVE  LET hb == Least(e * SliceSize, (MaxSliceIndex + 1) * SliceSize - 1)
           IN  hb \in Nat /\ FirstSlice(hb, SliceSize) = e /\ hb \div SliceSize <= e
<1> DEFINE S  == SliceSize
           hb == Least(e * S, (MaxSliceIndex + 1) * S - 1)
<1>1. /\ S \in Nat /\ S >= 2 /\ MaxSliceIndex \in Nat /\ e <= MaxSliceIndex + 1
      BY SliceAssumption, GrowthAssumption
<1> HIDE DEF S
<1>2. e * S = S * e /\ S * e \in Nat /\ (MaxSliceIndex + 1) * S \in Nat
      BY <1>1
<1>3. hb <= S * e /\ S * e <= hb + 1 /\ hb \in Nat
  <2>1. CASE e = MaxSliceIndex + 1
    <3>1. (MaxSliceIndex + 1) * S = S * e
          BY <1>2, <2>1
    <3>2. S * e >= S
      <4>1. S * 0 + S <= S * e
            BY <1>1, <2>1, MulMono
      <4> QED BY <1>1, <4>1
    <3> QED BY <1>1, <1>2, <3>1, <3>2 DEF Least
  <2>2. CASE e < MaxSliceIndex + 1
    <3>1. S * e + S <= S * (MaxSliceIndex + 1)
          BY <1>1, <2>2, MulMono
    <3>2. S * (MaxSliceIndex + 1) = (MaxSliceIndex + 1) * S
          BY <1>1
    <3> QED BY <1>1, <1>2, <3>1, <3>2 DEF Least
  <2> QED BY <1>1, <2>1, <2>2
<1> HIDE DEF hb
<1>4. (hb + S - 1) \div S = e
  <2>1. S * e <= hb + S - 1 /\ hb + S - 1 < S * e + S /\ hb + S - 1 \in Nat
        BY <1>1, <1>2, <1>3
  <2> QED BY <1>1, <2>1, DivIs
<1>5. hb \div S <= e
  <2>1. hb <= hb + S - 1 /\ hb + S - 1 \in Nat
        BY <1>1, <1>3
  <2> QED BY <1>1, <1>3, <1>4, <2>1, DivMono
<1> QED BY <1>3, <1>4, <1>5 DEF hb, S, FirstSlice

\* Elsewhere it is the linker's, inside the initial memory.
LEMMA LinkerBase ==
    /\ FirstSlice(HeapBase, SliceSize) \in Nat
    /\ FirstSlice(HeapBase, SliceSize) <= InitialEnd
    /\ HeapBase \div SliceSize \in Nat
    /\ HeapBase \div SliceSize <= FirstSlice(HeapBase, SliceSize)
<1> DEFINE S == SliceSize
           a == HeapBase + S - 1
<1>1. S \in Nat \ {0} /\ HeapBase \in Nat /\ InitialEnd \in Nat
      BY GrowthAssumption
<1>2. HeapBase <= InitialEnd * S
      BY GrowthAssumption
<1> HIDE DEF S
<1>3. a \in Nat /\ HeapBase <= a
      BY <1>1
<1>4. InitialEnd * S = S * InitialEnd /\ S * InitialEnd \in Nat
      BY <1>1
<1>5. a \div S <= InitialEnd
  <2> DEFINE b == S * InitialEnd + (S - 1)
  <2>1. b \in Nat /\ a <= b /\ S * InitialEnd <= b /\ b < S * InitialEnd + S
        BY <1>1, <1>2, <1>4
  <2> HIDE DEF b
  <2>2. b \div S = InitialEnd
        BY <1>1, <2>1, DivIs
  <2> QED BY <1>1, <1>3, <2>1, <2>2, DivMono
<1>6. HeapBase \div S <= a \div S
      BY <1>1, <1>3, DivMono
<1>7. a \div S \in Nat /\ HeapBase \div S \in Nat
      BY <1>1, <1>3, DivFacts
<1> QED BY <1>5, <1>6, <1>7 DEF S, FirstSlice

-----------------------------------------------------------------------------
(* Every action keeps it.                                                  *)

LEMMA InitIInv == Init => IInv
<1> SUFFICES ASSUME Init PROVE IInv
    OBVIOUS
<1>1. /\ wasi \in BOOLEAN /\ ~inited /\ m = NewMap /\ end = InitialEnd
      /\ runs = {} /\ written = {} /\ top = NoSlice
      BY DEF Init
<1>2. InitialEnd \in Nat /\ InitialEnd <= MemMax
      BY GrowthAssumption
<1>3. foreign = 0 .. ((IF wasi THEN InitialEnd
                       ELSE FirstSlice(HeapBase, SliceSize)) - 1)
      BY DEF Init
<1>4. foreign \subseteq Nat
      BY <1>2, <1>3, LinkerBase
<1>5. m \in Maps
      BY <1>1 DEF NewMap, Maps
<1>6. inited = FALSE
      BY DEF Init
<1>7. TypeOK
      BY <1>1, <1>2, <1>4, <1>5, <1>6 DEF TypeOK
<1>8. Untouched
      BY <1>1, <1>2, <1>3 DEF Untouched
<1> QED BY <1>1, <1>7, <1>8 DEF IInv, RunsDisjoint, RunsAligned

LEMMA EnsureInitKeeps == IInv /\ EnsureInit => IInv'
<1> SUFFICES ASSUME IInv, EnsureInit PROVE IInv'
    OBVIOUS
<1> DEFINE first == FirstSlice(HeapBaseNow, SliceSize)
           b     == HeapBaseNow \div SliceSize
           gap   == Monus(end, first)
           W     == Span(first, gap)
<1>1. /\ ~inited /\ inited' = TRUE
      /\ m' = AddFree(InitMap(b), first, gap, FALSE) /\ written' = written \cup W
      /\ wasi' = wasi /\ end' = end /\ runs' = runs /\ foreign' = foreign /\ top' = top
      BY DEF EnsureInit
<1>2. TypeOK /\ Untouched /\ end \in Nat /\ foreign \in SUBSET Nat
      BY <1>1 DEF IInv, TypeOK
<1>3. first \in Nat /\ b \in Nat /\ b <= first /\ first <= end
  <2>1. CASE wasi
    <3>1. HeapBaseNow = Least(end * SliceSize, (MaxSliceIndex + 1) * SliceSize - 1)
          BY <2>1 DEF HeapBaseNow
    <3>2. end <= MemMax
          BY <1>2 DEF Untouched
    <3>3. HeapBaseNow \in Nat /\ first = end /\ b <= end
          BY <1>2, <3>1, <3>2, WasiBase
    <3>4. b \in Nat
          BY <3>3, GrowthAssumption, DivFacts
    <3> QED BY <1>2, <3>3, <3>4
  <2>2. CASE ~wasi
    <3>1. HeapBaseNow = HeapBase /\ end = InitialEnd
          BY <1>2, <2>2 DEF HeapBaseNow, Untouched
    <3> QED BY <3>1, LinkerBase
  <2> QED BY <2>1, <2>2
<1>4. /\ \A x \in foreign : x < end
      /\ \A x \in Nat : x < first => x \in foreign
      /\ \A x \in Nat : (first <= x /\ x < end) => x \notin foreign
      /\ first < end => end <= Limit(InitMap(b))
  <2>1. CASE wasi
    <3>1. first = end
      <4>1. HeapBaseNow = Least(end * SliceSize, (MaxSliceIndex + 1) * SliceSize - 1)
            BY <2>1 DEF HeapBaseNow
      <4>2. end <= MemMax
            BY <1>2 DEF Untouched
      <4> QED BY <1>2, <4>1, <4>2, WasiBase
    <3>2. foreign = 0 .. (end - 1)
          BY <1>2, <2>1 DEF Untouched
    <3> HIDE DEF first
    <3> QED BY <1>2, <3>1, <3>2
  <2>2. CASE ~wasi
    <3>1. HeapBaseNow = HeapBase /\ end = InitialEnd
          BY <1>2, <2>2 DEF HeapBaseNow, Untouched
    <3>2. foreign = 0 .. (first - 1)
          BY <1>2, <2>2, <3>1 DEF Untouched
    <3>3. end <= Limit(InitMap(b))
          BY <3>1, GrowthAssumption
    <3> HIDE DEF first, b
    <3> QED BY <1>2, <1>3, <3>2, <3>3
  <2> QED BY <2>1, <2>2
<1> HIDE DEF first, b
<1>5. MapInv(m', end, {}, foreign, W)
  <2>1. end <= MemMax
        BY <1>2 DEF Untouched
  <2> QED BY <1>1, <1>2, <1>3, <1>4, <2>1, InitEstablishes
<1>6. runs' = {} /\ written' = W /\ Owned' = {} /\ top' = NoSlice
      BY <1>1, <1>2 DEF Untouched, Owned
<1>7. MapInv(m, end, Owned, foreign, written)'
  <2>1. MapInv(m', end', Owned', foreign', written')
        BY <1>1, <1>5, <1>6
  <2> QED BY <2>1
<1>8. TypeOK'
  <2>1. m' \in Maps /\ written' \subseteq Nat
        BY <1>5, <1>6 DEF MapInv
  <2> QED BY <1>1, <1>2, <1>6, <2>1 DEF TypeOK
<1>9. RunsDisjoint' /\ RunsAligned'
      BY <1>6 DEF RunsDisjoint, RunsAligned
<1> QED BY <1>1, <1>7, <1>8, <1>9 DEF IInv

LEMMA HandOutKeeps ==
    ASSUME IInv, inited,
           NEW count \in Nat \ {0}, NEW align \in Nat \ {0}, NEW o,
           \/ Acquired(o, count, align, end, Owned, foreign, written)
           \/ Refused(o, m, end, Owned, foreign, written),
           HandOut(o, count, align), top' \in Nat \cup {NoSlice}
    PROVE  IInv'
<1> DEFINE S == Span(o.start, count)
           n == [start |-> o.start, count |-> count, align |-> align]
<1>1. /\ m' = o.m /\ end' = o.end /\ foreign' = foreign \cup o.foreign
      /\ wasi' = wasi /\ inited' = inited
      BY DEF HandOut, Apply
<1>2. TypeOK /\ RunsDisjoint /\ RunsAligned
      BY DEF IInv
<1>3. CASE Refused(o, m, end, Owned, foreign, written)
  <2>1. runs' = runs /\ written' = written
        BY <1>3 DEF Refused, HandOut
  <2>2. Owned' = Owned
        BY <2>1 DEF Owned, Slices
  <2>3. MapInv(m', end', Owned', foreign', written')
        BY <1>1, <1>3, <2>1, <2>2 DEF Refused
  <2>4. m' \in Maps /\ end' \in Nat /\ foreign' \subseteq Nat
        BY <2>3 DEF MapInv
  <2>5. TypeOK'
        BY <1>1, <1>2, <2>1, <2>4 DEF TypeOK
  <2>6. RunsDisjoint' /\ RunsAligned'
        BY <1>2, <2>1 DEF RunsDisjoint, RunsAligned, Slices
  <2>7. MapInv(m, end, Owned, foreign, written)'
        BY <2>3
  <2> QED BY <1>1, <2>5, <2>6, <2>7 DEF IInv
<1>4. CASE Acquired(o, count, align, end, Owned, foreign, written)
  <2>1. o.start \in Nat /\ o.start # NoSlice /\ o.start % align = 0
        BY <1>4 DEF Acquired, Served, NoSlice
  <2>2. runs' = runs \cup {n} /\ written' = written \cup S
        BY <2>1 DEF HandOut
  <2>3. n.start = o.start /\ n.count = count /\ n.align = align /\ Slices(n) = S
        BY DEF Slices
  <2> HIDE DEF n
  <2>4. Owned' = Owned \cup S
        BY <2>2, <2>3 DEF Owned, Slices
  <2>5. MapInv(m', end', Owned', foreign', written')
        BY <1>1, <1>4, <2>2, <2>4 DEF Acquired, Served
  <2>6. m' \in Maps /\ end' \in Nat /\ foreign' \subseteq Nat /\ written' \subseteq Nat
        BY <2>5 DEF MapInv
  <2>7. n \in [start : Nat, count : Nat \ {0}, align : Nat \ {0}]
        BY <2>1 DEF n
  <2>8. TypeOK'
        BY <1>1, <1>2, <2>2, <2>6, <2>7 DEF TypeOK
  <2>9. S \cap Owned = {}
        BY <1>4 DEF Acquired, Served
  <2>10. \A r \in runs : Slices(r) \cap Slices(n) = {}
        BY <2>3, <2>9 DEF Owned
  <2>11. RunsDisjoint'
        BY <1>2, <2>2, <2>10 DEF RunsDisjoint, Slices
  <2>12. RunsAligned'
        BY <1>2, <2>1, <2>2, <2>3 DEF RunsAligned
  <2>13. MapInv(m, end, Owned, foreign, written)'
        BY <2>5
  <2> QED BY <1>1, <2>8, <2>11, <2>12, <2>13 DEF IInv
<1> QED BY <1>3, <1>4

LEMMA AcquireRunKeeps ==
    ASSUME IInv, NEW c \in Counts, NEW a \in Aligns, AcquireRun(c, a)
    PROVE  IInv'
<1>1. c \in Nat \ {0} /\ a \in Nat \ {0}
      BY GrowthAssumption
<1>2. PICK o \in Acquire(m, end, c, a) :
         HandOut(o, c, a) /\ (top' = top \/ top' = NoSlice)
      BY DEF AcquireRun
<1>3. /\ inited /\ MapInv(m, end, Owned, foreign, written)
      /\ top' \in Nat \cup {NoSlice}
      BY <1>2 DEF AcquireRun, IInv, TypeOK
<1>4. \/ Acquired(o, c, a, end, Owned, foreign, written)
      \/ Refused(o, m, end, Owned, foreign, written)
      BY <1>1, <1>3, AcquireOutcomes
<1> QED BY <1>1, <1>2, <1>3, <1>4, HandOutKeeps

LEMMA AllocTailRunKeeps ==
    ASSUME IInv, NEW c \in Counts, NEW a \in Aligns, AllocTailRun(c, a)
    PROVE  IInv'
<1>1. c \in Nat \ {0} /\ a \in Nat \ {0}
      BY GrowthAssumption
<1>2. PICK o \in AllocTail(m, end, c, a) : HandOut(o, c, a) /\ top' = o.start
      BY DEF AllocTailRun
<1>3. inited /\ MapInv(m, end, Owned, foreign, written) /\ m \in Maps /\ end \in Nat
      BY DEF AllocTailRun, IInv, TypeOK
<1>4. o \in Take(m, end, TailFits(m, c, a, end), c, {}, 0)
      BY <1>2 DEF AllocTail, AllocTailRun
<1>5. Acquired(o, c, a, end, Owned, foreign, written)
      BY <1>1, <1>3, <1>4, TailFitsFit, AllocOutcomes
<1>6. top' \in Nat \cup {NoSlice}
      BY <1>2, <1>5 DEF Acquired, Served
<1> QED BY <1>1, <1>2, <1>3, <1>5, <1>6, HandOutKeeps

LEMMA FreeRunKeeps ==
    ASSUME IInv, NEW r \in runs, FreeRun(r)
    PROVE  IInv'
<1> DEFINE S == Slices(r)
<1>1. /\ m' = Release(m, S) /\ runs' = runs \ {r}
      /\ wasi' = wasi /\ inited' = inited /\ end' = end
      /\ foreign' = foreign /\ written' = written
      /\ top' \in {NoSlice, top}
      BY DEF FreeRun
<1>2. TypeOK /\ RunsDisjoint /\ RunsAligned
      BY DEF IInv
<1>3. inited /\ MapInv(m, end, Owned, foreign, written)
  <2>1. inited
        BY DEF IInv, Untouched
  <2> QED BY <2>1 DEF IInv
<1>4. S \subseteq Owned
      BY DEF Owned
<1>5. Owned' = Owned \ S
      BY <1>1, <1>2 DEF Owned, Slices, RunsDisjoint
<1>6. MapInv(Release(m, S), end, Owned \ S, foreign, written)
  <2> HIDE DEF S
  <2> QED BY <1>3, <1>4, ReleaseKeeps
<1>7. MapInv(m', end', Owned', foreign', written')
      BY <1>1, <1>5, <1>6
<1>8. m' \in Maps
      BY <1>7 DEF MapInv
<1>9. TypeOK'
      BY <1>1, <1>2, <1>8 DEF TypeOK
<1>10. RunsDisjoint' /\ RunsAligned'
      BY <1>1, <1>2 DEF RunsDisjoint, RunsAligned, Slices
<1>11. MapInv(m, end, Owned, foreign, written)'
      BY <1>7
<1> QED BY <1>1, <1>3, <1>9, <1>10, <1>11 DEF IInv

\* Replacing a run by one that starts where it did and shares no slice with
\* the others.
LEMMA ReplaceRun ==
    ASSUME TypeOK, RunsDisjoint, RunsAligned, NEW r \in runs, NEW c \in Nat \ {0},
           runs' = (runs \ {r}) \cup {[r EXCEPT !.count = c]},
           \A s \in runs : s # r => Slices(s) \cap Span(r.start, c) = {}
    PROVE  /\ runs' \subseteq [start : Nat, count : Nat \ {0}, align : Nat \ {0}]
           /\ RunsDisjoint' /\ RunsAligned'
           /\ Owned' = (Owned \ Slices(r)) \cup Span(r.start, c)
<1> DEFINE n == [r EXCEPT !.count = c]
<1>1. runs \subseteq [start : Nat, count : Nat \ {0}, align : Nat \ {0}]
      BY DEF TypeOK
<1>2. /\ n \in [start : Nat, count : Nat \ {0}, align : Nat \ {0}]
      /\ n.start = r.start /\ n.count = c /\ n.align = r.align
      BY <1>1
<1>3. Slices(n) = Span(r.start, c) /\ runs' = (runs \ {r}) \cup {n}
      BY <1>2 DEF Slices
<1> HIDE DEF n
<1>4. RunsDisjoint'
      BY <1>3 DEF RunsDisjoint, Slices
<1>5. RunsAligned'
      BY <1>2, <1>3 DEF RunsAligned
<1>6. Owned' = (Owned \ Slices(r)) \cup Span(r.start, c)
      BY <1>3 DEF Owned, RunsDisjoint, Slices
<1> QED BY <1>1, <1>2, <1>3, <1>4, <1>5, <1>6

\* A run is its head and its tail.
LEMMA SpanSplit ==
    ASSUME NEW s \in Nat, NEW c \in Nat, NEW k \in Nat
    PROVE  /\ Span(s, c + k) = Span(s, c) \cup Span(s + c, k)
           /\ Span(s, c) \cap Span(s + c, k) = {}
BY DEF Span

LEMMA ShrinkRunKeeps ==
    ASSUME IInv, NEW r \in runs, NEW c \in Counts, ShrinkRun(r, c)
    PROVE  IInv'
<1> DEFINE H == Span(r.start, c)
           S == Span(r.start + c, r.count - c)
<1>1. /\ m' = Release(m, S)
      /\ runs' = (runs \ {r}) \cup {[r EXCEPT !.count = c]}
      /\ wasi' = wasi /\ inited' = inited /\ end' = end
      /\ foreign' = foreign /\ written' = written /\ top' = top
      /\ c < r.count
      BY DEF ShrinkRun, Shrink
<1>2. TypeOK /\ RunsDisjoint /\ RunsAligned
      BY DEF IInv
<1>3. inited /\ MapInv(m, end, Owned, foreign, written)
  <2>1. inited
        BY DEF IInv, Untouched
  <2> QED BY <2>1 DEF IInv
<1>4. r.start \in Nat /\ r.count \in Nat /\ c \in Nat \ {0}
      BY <1>2, RunFields, GrowthAssumption
<1>5. Slices(r) = H \cup S /\ H \cap S = {}
  <2> DEFINE k == r.count - c
  <2>1. k \in Nat /\ c + k = r.count
        BY <1>1, <1>4
  <2> HIDE DEF k
  <2>2. /\ Span(r.start, c + k) = Span(r.start, c) \cup Span(r.start + c, k)
        /\ Span(r.start, c) \cap Span(r.start + c, k) = {}
        BY <1>4, <2>1, SpanSplit
  <2> QED BY <2>1, <2>2 DEF Slices, k
<1> HIDE DEF H, S
<1>6. S \subseteq Owned /\ H \subseteq Owned
      BY <1>5 DEF Owned
<1>7. \A s \in runs : s # r => Slices(s) \cap H = {}
      BY <1>2, <1>5 DEF RunsDisjoint
<1>8. /\ runs' \subseteq [start : Nat, count : Nat \ {0}, align : Nat \ {0}]
      /\ RunsDisjoint' /\ RunsAligned'
      /\ Owned' = (Owned \ Slices(r)) \cup H
      BY <1>1, <1>2, <1>4, <1>7, ReplaceRun DEF H
<1>9. Owned' = Owned \ S
      BY <1>5, <1>6, <1>8
<1>10. MapInv(Release(m, S), end, Owned \ S, foreign, written)
      BY <1>3, <1>6, ReleaseKeeps
<1>11. MapInv(m', end', Owned', foreign', written')
      BY <1>1, <1>9, <1>10
<1>12. m' \in Maps
      BY <1>11 DEF MapInv
<1>13. TypeOK'
      BY <1>1, <1>2, <1>8, <1>12 DEF TypeOK
<1>14. MapInv(m, end, Owned, foreign, written)'
      BY <1>11
<1> QED BY <1>1, <1>3, <1>8, <1>13, <1>14 DEF IInv

LEMMA ExtendRunKeeps ==
    ASSUME IInv, NEW r \in runs, NEW c \in Counts, ExtendRun(r, c)
    PROVE  IInv'
<1> DEFINE S == Span(r.start + r.count, c)
<1>1. PICK o \in ExtendWithGrowth(m, end, r.start, r.count, c) :
        /\ Apply(o)
        /\ IF o.start = NoSlice
           THEN /\ UNCHANGED <<runs, written>>
                /\ top' = IF o.foreign = {} THEN top ELSE NoSlice
           ELSE /\ runs' = (runs \ {r}) \cup {[r EXCEPT !.count = @ + c]}
                /\ written' = written \cup S
                /\ top' = IF o.grows > 0 THEN r.start ELSE top
      BY DEF ExtendRun
<1>2. TypeOK /\ RunsDisjoint /\ RunsAligned
      BY DEF IInv
<1>3. inited /\ MapInv(m, end, Owned, foreign, written)
  <2>1. inited
        BY DEF IInv, Untouched
  <2> QED BY <2>1 DEF IInv
<1>4. r.start \in Nat /\ r.count \in Nat \ {0} /\ c \in Nat \ {0}
      BY <1>2, RunFields, GrowthAssumption
<1>5. \/ o.start = r.start /\ Served(o, S, end, Owned, foreign, written)
      \/ Refused(o, m, end, Owned, foreign, written)
      BY <1>3, <1>4, ExtendOutcomes
<1>6. /\ m' = o.m /\ end' = o.end /\ foreign' = foreign \cup o.foreign
      /\ wasi' = wasi /\ inited' = inited
      BY <1>1 DEF Apply, ExtendRun
<1>7. top' \in Nat \cup {NoSlice}
      BY <1>1, <1>2, <1>4 DEF TypeOK
<1>8. CASE Refused(o, m, end, Owned, foreign, written)
  <2>1. runs' = runs /\ written' = written
        BY <1>1, <1>8 DEF Refused
  <2>2. Owned' = Owned
        BY <2>1 DEF Owned, Slices
  <2>3. MapInv(m', end', Owned', foreign', written')
        BY <1>6, <1>8, <2>1, <2>2 DEF Refused
  <2>4. m' \in Maps /\ end' \in Nat /\ foreign' \subseteq Nat
        BY <2>3 DEF MapInv
  <2>5. TypeOK'
        BY <1>2, <1>6, <1>7, <2>1, <2>4 DEF TypeOK
  <2>6. RunsDisjoint' /\ RunsAligned'
        BY <1>2, <2>1 DEF RunsDisjoint, RunsAligned, Slices
  <2>7. MapInv(m, end, Owned, foreign, written)'
        BY <2>3
  <2> QED BY <1>3, <1>6, <2>5, <2>6, <2>7 DEF IInv
<1>9. CASE o.start = r.start /\ Served(o, S, end, Owned, foreign, written)
  <2>1. o.start # NoSlice
        BY <1>4, <1>9 DEF NoSlice
  <2>2. /\ runs' = (runs \ {r}) \cup {[r EXCEPT !.count = r.count + c]}
        /\ written' = written \cup S
        BY <1>1, <2>1
  <2>3. r.count + c \in Nat \ {0}
        BY <1>4
  <2>4. Span(r.start, r.count + c) = Slices(r) \cup S
    <3>1. r.start \in Nat /\ r.count \in Nat /\ c \in Nat
          BY <1>4
    <3>2. Span(r.start, r.count + c)
              = Span(r.start, r.count) \cup Span(r.start + r.count, c)
          BY <3>1, SpanSplit
    <3> QED BY <3>2 DEF Slices
  <2> HIDE DEF S
  <2>5. S \subseteq Nat /\ S \cap Owned = {}
        BY <1>9 DEF Served
  <2>6. \A s \in runs : s # r => Slices(s) \cap Span(r.start, r.count + c) = {}
        BY <1>2, <2>4, <2>5 DEF RunsDisjoint, Owned
  <2>7. /\ runs' \subseteq [start : Nat, count : Nat \ {0}, align : Nat \ {0}]
        /\ RunsDisjoint' /\ RunsAligned'
        /\ Owned' = (Owned \ Slices(r)) \cup Span(r.start, r.count + c)
        BY <1>2, <2>2, <2>3, <2>6, ReplaceRun
  <2>8. Slices(r) \subseteq Owned
        BY DEF Owned
  <2>9. Owned' = Owned \cup S
        BY <2>4, <2>7, <2>8
  <2>10. MapInv(m', end', Owned', foreign', written')
        BY <1>6, <1>9, <2>2, <2>9 DEF Served
  <2>11. m' \in Maps /\ end' \in Nat /\ foreign' \subseteq Nat /\ written' \subseteq Nat
        BY <2>10 DEF MapInv
  <2>12. TypeOK'
        BY <1>2, <1>6, <1>7, <2>7, <2>11 DEF TypeOK
  <2>13. MapInv(m, end, Owned, foreign, written)'
        BY <2>10
  <2> QED BY <1>3, <1>6, <2>7, <2>12, <2>13 DEF IInv
<1> QED BY <1>5, <1>8, <1>9

LEMMA OtherGrowKeeps ==
    ASSUME IInv, NEW n \in Gaps \ {0}, OtherGrow(n)
    PROVE  IInv'
<1>1. /\ inited \/ wasi
      /\ end + n <= MemMax /\ end' = end + n /\ foreign' = foreign \cup Span(end, n)
      /\ top' = NoSlice
      /\ wasi' = wasi /\ inited' = inited /\ m' = m /\ runs' = runs /\ written' = written
      BY DEF OtherGrow
<1>2. TypeOK /\ RunsDisjoint /\ RunsAligned
      BY DEF IInv
<1>3. n \in Nat /\ end \in Nat /\ end + n \in Nat
      BY <1>2, SliceAssumption DEF TypeOK
<1>4. Span(end, n) \subseteq Nat
      BY <1>3, Spans
<1>5. TypeOK'
  <2>1. foreign' \subseteq Nat
        BY <1>1, <1>2, <1>4 DEF TypeOK
  <2> QED BY <1>1, <1>2, <1>3, <2>1 DEF TypeOK
<1>6. ~inited' => Untouched'
  <2>1. SUFFICES ASSUME ~inited PROVE Untouched'
        BY <1>1
  <2>2. wasi /\ foreign = 0 .. (end - 1)
        BY <1>1, <2>1 DEF IInv, Untouched
  <2>3. foreign' = 0 .. (end' - 1)
        BY <1>1, <1>3, <2>2 DEF Span
  <2> QED BY <1>1, <2>1, <2>2, <2>3 DEF IInv, Untouched
<1>7. inited' => MapInv(m, end, Owned, foreign, written)'
  <2>1. SUFFICES ASSUME inited PROVE MapInv(m', end', Owned', foreign', written')
        BY <1>1
  <2>2. Owned' = Owned
        BY <1>1 DEF Owned, Slices
  <2>3. MapInv(m, end, Owned, foreign, written)
        BY <2>1 DEF IInv
  <2> QED BY <1>1, <1>3, <2>2, <2>3, OtherKeeps
<1>8. RunsDisjoint' /\ RunsAligned'
      BY <1>1, <1>2 DEF RunsDisjoint, RunsAligned, Slices
<1> QED BY <1>5, <1>6, <1>7, <1>8 DEF IInv

LEMMA StutterKeeps == IInv /\ UNCHANGED vars => IInv'
<1> SUFFICES ASSUME IInv, UNCHANGED vars PROVE IInv'
    OBVIOUS
<1>1. /\ wasi' = wasi /\ inited' = inited /\ m' = m /\ end' = end /\ runs' = runs
      /\ foreign' = foreign /\ written' = written /\ top' = top
      BY DEF vars
<1>2. TypeOK' /\ RunsDisjoint' /\ RunsAligned'
      BY <1>1 DEF IInv, TypeOK, RunsDisjoint, RunsAligned, Slices
<1>3. ~inited' => Untouched'
      BY <1>1 DEF IInv, Untouched
<1>4. Owned' = Owned
      BY <1>1 DEF Owned, Slices
<1>5. inited' => MapInv(m', end', Owned', foreign', written')
      BY <1>1, <1>4 DEF IInv
<1> QED BY <1>2, <1>3, <1>5 DEF IInv

LEMMA NextIInv == IInv /\ [Next]_vars => IInv'
<1> SUFFICES ASSUME IInv, [Next]_vars PROVE IInv'
    OBVIOUS
<1>1. CASE EnsureInit
      BY <1>1, EnsureInitKeeps
<1>2. ASSUME NEW c \in Counts, NEW a \in Aligns, AcquireRun(c, a) PROVE IInv'
      BY <1>2, AcquireRunKeeps
<1>3. ASSUME NEW c \in Counts, NEW a \in Aligns, AllocTailRun(c, a) PROVE IInv'
      BY <1>3, AllocTailRunKeeps
<1>4. ASSUME NEW r \in runs, FreeRun(r) PROVE IInv'
      BY <1>4, FreeRunKeeps
<1>5. ASSUME NEW r \in runs, NEW c \in Counts, ShrinkRun(r, c) PROVE IInv'
      BY <1>5, ShrinkRunKeeps
<1>6. ASSUME NEW r \in runs, NEW c \in Counts, ExtendRun(r, c) PROVE IInv'
      BY <1>6, ExtendRunKeeps
<1>7. ASSUME NEW n \in Gaps \ {0}, OtherGrow(n) PROVE IInv'
      BY <1>7, OtherGrowKeeps
<1>8. CASE UNCHANGED vars
      BY <1>8, StutterKeeps
<1> QED BY <1>1, <1>2, <1>3, <1>4, <1>5, <1>6, <1>7, <1>8 DEF Next

LEMMA SpecIInv == Spec => []IInv
BY InitIInv, NextIInv, PTL DEF Spec

-----------------------------------------------------------------------------
(* The properties.                                                         *)

\* The map, the runs and the memory stay in their types through every request,
\* refused grow and foreign grow.
THEOREM TypeSafe == Spec => []TypeOK
<1>1. IInv => TypeOK
      BY DEF IInv
<1> QED BY <1>1, SpecIInv, PTL

\* No slice has two owners: acquire, alloc_tail, extend, shrink and free never
\* hand out a slice that is in a run, free, or that memory.grow gave to someone
\* else between two regions.
THEOREM ExclusiveAlways == Spec => []Exclusive
<1>1. IInv => Exclusive
  <2> SUFFICES ASSUME IInv PROVE Exclusive
      OBVIOUS
  <2>1. CASE inited
        BY <2>1 DEF IInv, MapInv, Exclusive, RunsDisjoint
  <2>2. CASE ~inited
    <3>1. m = NewMap /\ runs = {}
          BY <2>2 DEF IInv, Untouched
    <3>2. m.free = {} /\ Owned = {}
          BY <3>1 DEF NewMap, Owned
    <3> QED BY <3>1, <3>2 DEF Exclusive
  <2> QED BY <2>1, <2>2
<1> QED BY <1>1, SpecIInv, PTL

\* No slice below the end of memory and the usable limit is forgotten, not by
\* a failed second grow of grow_and_alloc nor by a clipped or foreign region.
THEOREM AccountedAlways == Spec => []Accounted
<1>1. IInv => Accounted
  <2> SUFFICES ASSUME IInv, inited,
                      NEW x \in m.base .. (Least(end, UsableLimit(m)) - 1)
               PROVE  x \in m.free \cup Owned \cup foreign
      BY DEF Accounted
  <2>1. m \in Maps /\ end \in Nat /\ NoneLost(m, end, Owned, foreign)
        BY DEF IInv, MapInv
  <2>2. m.base \in Nat /\ UsableLimit(m) \in Nat
        BY <2>1, Limits
  <2>3. x \in Nat /\ m.base <= x /\ x < end /\ x < UsableLimit(m)
        BY <2>1, <2>2 DEF Least
  <2> QED BY <2>1, <2>3 DEF NoneLost
<1> QED BY <1>1, SpecIInv, PTL

\* Whatever memory.grow returned, nothing past the end of memory, past the
\* map, or at the last slice of the address space is free or handed out.
THEOREM InsideMemoryAlways == Spec => []InsideMemory
<1>1. IInv => InsideMemory
  <2> SUFFICES ASSUME IInv PROVE InsideMemory
      OBVIOUS
  <2>1. CASE inited
    <3>1. /\ m.base \in Nat /\ end \in Nat /\ Limit(m) \in Nat
          /\ m.free \cup Owned \subseteq Nat
          BY <2>1, Limits DEF IInv, MapInv
    <3> QED BY <2>1, <3>1 DEF IInv, MapInv, InsideMemory
  <2>2. CASE ~inited
    <3>1. m = NewMap /\ runs = {}
          BY <2>2 DEF IInv, Untouched
    <3>2. m.free = {} /\ Owned = {}
          BY <3>1 DEF NewMap, Owned
    <3> QED BY <3>2 DEF InsideMemory
  <2> QED BY <2>1, <2>2
<1> QED BY <1>1, SpecIInv, PTL

\* The zero bitmap marks exactly the free slices that no run ever held and
\* that did not come with contents, so alloc_zeroed skips clearing only those.
THEOREM ZeroExactAlways == Spec => []ZeroExact
<1>1. IInv => ZeroExact
  <2> SUFFICES ASSUME IInv PROVE ZeroExact
      OBVIOUS
  <2>1. CASE inited
        BY <2>1 DEF IInv, MapInv, ZeroExact
  <2>2. CASE ~inited
        BY <2>2 DEF IInv, Untouched, NewMap, ZeroExact
  <2> QED BY <2>1, <2>2
<1> QED BY <1>1, SpecIInv, PTL

\* A run keeps the alignment it was acquired with, wherever the region that
\* served it landed and however it was extended and shrunk since.
THEOREM RunsAlignedAlways == Spec => []RunsAligned
<1>1. IInv => RunsAligned
      BY DEF IInv
<1> QED BY <1>1, SpecIInv, PTL

-----------------------------------------------------------------------------
(* What a step may never do.                                               *)

\* The action FailureKeeps speaks of.
KeepsMemory ==
    /\ end' >= end
    /\ foreign \subseteq foreign'
    /\ (inited /\ runs' = runs) => m.free \subseteq m'.free

\* A request that was served changed the runs, so only a refused one, which
\* takes nothing from the map, is held to what it leaves behind.
LEMMA HandOutKeepsMemory ==
    ASSUME IInv, inited, NEW count \in Nat \ {0}, NEW align \in Nat \ {0}, NEW o,
           \/ Acquired(o, count, align, end, Owned, foreign, written)
           \/ Refused(o, m, end, Owned, foreign, written),
           HandOut(o, count, align)
    PROVE  KeepsMemory
<1>1. m' = o.m /\ end' = o.end /\ foreign' = foreign \cup o.foreign
      BY DEF HandOut, Apply
<1>2. CASE Refused(o, m, end, Owned, foreign, written)
      BY <1>1, <1>2 DEF Refused, KeepsMemory
<1>3. CASE Acquired(o, count, align, end, Owned, foreign, written)
  <2> DEFINE S == Span(o.start, count)
             n == [start |-> o.start, count |-> count, align |-> align]
  <2>1. /\ o.start \in Nat /\ o.start # NoSlice /\ o.end >= end
        /\ S \cap Owned = {}
        BY <1>3 DEF Acquired, Served, NoSlice
  <2>2. n \in runs' /\ Slices(n) = S
        BY <2>1 DEF HandOut, Slices
  <2>3. o.start \in S
        BY <2>1 DEF Span
  <2>4. n \notin runs
        BY <2>1, <2>2, <2>3 DEF Owned
  <2>5. runs' # runs
        BY <2>2, <2>4
  <2> QED BY <1>1, <2>1, <2>5 DEF KeepsMemory
<1> QED BY <1>2, <1>3

LEMMA ReleaseGivesBack ==
    ASSUME NEW S \in SUBSET Nat, m \in Maps, m' = Release(m, S)
    PROVE  m.free \subseteq m'.free
<1>1. Release(m, S).free = m.free \cup S
      BY Fields
<1> QED BY <1>1

LEMMA NextKeepsMemory == IInv /\ [Next]_vars => [KeepsMemory]_vars
<1> SUFFICES ASSUME IInv, Next PROVE KeepsMemory
    OBVIOUS
<1>0. TypeOK /\ m \in Maps /\ end \in Nat
      BY DEF IInv, TypeOK
<1>1. CASE EnsureInit
  <2>1. ~inited /\ end' = end /\ foreign' = foreign
        BY <1>1 DEF EnsureInit
  <2> QED BY <1>0, <2>1 DEF KeepsMemory
<1>2. ASSUME NEW c \in Counts, NEW a \in Aligns, AcquireRun(c, a) PROVE KeepsMemory
  <2>1. c \in Nat \ {0} /\ a \in Nat \ {0}
        BY GrowthAssumption
  <2>2. PICK o \in Acquire(m, end, c, a) : HandOut(o, c, a)
        BY <1>2 DEF AcquireRun
  <2>3. inited /\ MapInv(m, end, Owned, foreign, written)
        BY <1>2 DEF AcquireRun, IInv
  <2>4. \/ Acquired(o, c, a, end, Owned, foreign, written)
        \/ Refused(o, m, end, Owned, foreign, written)
        BY <2>1, <2>3, AcquireOutcomes
  <2> QED BY <2>1, <2>2, <2>3, <2>4, HandOutKeepsMemory
<1>3. ASSUME NEW c \in Counts, NEW a \in Aligns, AllocTailRun(c, a) PROVE KeepsMemory
  <2>1. c \in Nat \ {0} /\ a \in Nat \ {0}
        BY GrowthAssumption
  <2>2. PICK o \in AllocTail(m, end, c, a) : HandOut(o, c, a)
        BY <1>3 DEF AllocTailRun
  <2>3. inited /\ MapInv(m, end, Owned, foreign, written)
        BY <1>3 DEF AllocTailRun, IInv
  <2>4. o \in Take(m, end, TailFits(m, c, a, end), c, {}, 0)
        BY <1>3, <2>2 DEF AllocTail, AllocTailRun
  <2>5. Acquired(o, c, a, end, Owned, foreign, written)
        BY <1>0, <2>1, <2>3, <2>4, TailFitsFit, AllocOutcomes
  <2> QED BY <2>1, <2>2, <2>3, <2>5, HandOutKeepsMemory
<1>4. ASSUME NEW r \in runs, FreeRun(r) PROVE KeepsMemory
  <2>1. m' = Release(m, Slices(r)) /\ end' = end /\ foreign' = foreign
        BY <1>4 DEF FreeRun
  <2>2. m.free \subseteq m'.free
        BY <1>0, <2>1, RunFields, ReleaseGivesBack
  <2> QED BY <1>0, <2>1, <2>2 DEF KeepsMemory
<1>5. ASSUME NEW r \in runs, NEW c \in Counts, ShrinkRun(r, c) PROVE KeepsMemory
  <2> DEFINE S == Span(r.start + c, r.count - c)
  <2>1. m' = Release(m, S) /\ end' = end /\ foreign' = foreign
        BY <1>5 DEF ShrinkRun, Shrink
  <2>2. r.start + c \in Nat /\ r.count - c \in Nat
        BY <1>0, <1>5, RunFields, GrowthAssumption DEF ShrinkRun
  <2>3. S \in SUBSET Nat
        BY <2>2, Spans
  <2>4. m.free \subseteq m'.free
        BY <1>0, <2>1, <2>3, ReleaseGivesBack
  <2> QED BY <1>0, <2>1, <2>4 DEF KeepsMemory
<1>6. ASSUME NEW r \in runs, NEW c \in Counts, ExtendRun(r, c) PROVE KeepsMemory
  <2> DEFINE S == Span(r.start + r.count, c)
             n == [r EXCEPT !.count = r.count + c]
  <2>1. PICK o \in ExtendWithGrowth(m, end, r.start, r.count, c) :
          /\ Apply(o)
          /\ o.start # NoSlice => runs' = (runs \ {r}) \cup {n}
        BY <1>6 DEF ExtendRun
  <2>2. r.start \in Nat /\ r.count \in Nat \ {0} /\ c \in Nat \ {0}
        BY <1>0, RunFields, GrowthAssumption
  <2>3. MapInv(m, end, Owned, foreign, written)
        BY DEF IInv, Untouched
  <2>4. \/ o.start = r.start /\ Served(o, S, end, Owned, foreign, written)
        \/ Refused(o, m, end, Owned, foreign, written)
        BY <2>2, <2>3, ExtendOutcomes
  <2>5. m' = o.m /\ end' = o.end /\ foreign' = foreign \cup o.foreign
        BY <2>1 DEF Apply
  <2>6. CASE Refused(o, m, end, Owned, foreign, written)
        BY <2>5, <2>6 DEF Refused, KeepsMemory
  <2>7. CASE o.start = r.start /\ Served(o, S, end, Owned, foreign, written)
    <3>1. runs' = (runs \ {r}) \cup {n}
          BY <2>1, <2>2, <2>7 DEF NoSlice
    <3>2. n.count # r.count
      <4>1. n.count = r.count + c
            BY <1>0 DEF TypeOK
      <4> QED BY <2>2, <4>1
    <3>3. r \notin runs'
          BY <3>1, <3>2
    <3>4. end' >= end
          BY <2>5, <2>7 DEF Served
    <3> QED BY <2>5, <3>3, <3>4 DEF KeepsMemory
  <2> QED BY <2>4, <2>6, <2>7
<1>7. ASSUME NEW n \in Gaps \ {0}, OtherGrow(n) PROVE KeepsMemory
  <2>1. n \in Nat
        BY SliceAssumption
  <2>2. end' = end + n /\ m' = m /\ foreign' = foreign \cup Span(end, n)
        BY <1>7 DEF OtherGrow
  <2> QED BY <1>0, <2>1, <2>2 DEF KeepsMemory
<1> QED BY <1>1, <1>2, <1>3, <1>4, <1>5, <1>6, <1>7 DEF Next

\* Memory never shrinks, foreign slices stay foreign, and a request that is not
\* served takes no free slice: grow_and_extend claims only once the grown
\* region has been found to adjoin the run.
THEOREM FailureKeepsAlways == Spec => FailureKeeps
<1>1. IInv /\ [Next]_vars => [KeepsMemory]_vars
      BY NextKeepsMemory
<1>2. [][KeepsMemory]_vars <=> FailureKeeps
      BY DEF KeepsMemory, FailureKeeps
<1> QED BY <1>1, <1>2, SpecIInv, PTL DEF Spec

-----------------------------------------------------------------------------
(***************************************************************************)
(* A grow is sized right: a contiguous region always serves the request it *)
(* was asked for, and a region anywhere serves it after the second grow    *)
(* unless it reaches past the usable limit.  The invariant says what the   *)
(* map and the memory are when a request begins; the rest is that the      *)
(* lowest fit exists when any fit does, and that the slack before an       *)
(* aligned start is what Pad and Worst say.                                *)
(*                                                                         *)
(* For the run at the top of memory a second invariant is needed: nothing  *)
(* but free slices lie above it, whatever happens to the other runs.       *)
(***************************************************************************)
-----------------------------------------------------------------------------
(* Searches and regions.                                                   *)

\* A search finds nothing only if nothing fits.
LEMMA NoneLowest ==
    ASSUME NEW mm \in Maps, NEW count, NEW align, Lowest(Fits(mm, count, align)) = {}
    PROVE  Fits(mm, count, align) = {}
<1>1. Fits(mm, count, align) \in SUBSET Nat
      BY DEF Fits, Maps
<1> QED BY <1>1, LeastExists

\* The slack leads to an aligned slice and is shorter than the alignment.
LEMMA PadAligns ==
    ASSUME NEW s \in Nat, NEW a \in Nat \ {0}
    PROVE  /\ Pad(s, a) \in 0 .. (a - 1)
           /\ (s + Pad(s, a)) % a = 0
<1> DEFINE q == s \div a
           r == s % a
<1>1. r \in 0 .. (a - 1)
      BY DivFacts
<1>2. q \in Nat /\ s = a * q + r
      BY DivFacts, SMTT(30)
<1>3. CASE r = 0
  <2>1. a % a = 0
    <3>1. a * 1 <= a /\ a < a * 1 + a
          OBVIOUS
    <3>2. a \div a = 1
          BY <3>1, DivIs
    <3> QED BY <3>2, SMTT(30)
  <2>2. Pad(s, a) = 0
        BY <1>3, <2>1 DEF Pad
  <2> QED BY <1>3, <2>2
<1>4. CASE r # 0
  <2>1. a - r \in Nat /\ a - r < a /\ a - r > 0
        BY <1>1, <1>4
  <2>2. (a - r) \div a = 0
    <3>1. a * 0 <= a - r /\ a - r < a * 0 + a
          BY <2>1
    <3> QED BY <2>1, <3>1, DivIs
  <2>3. (a - r) % a = a - r
        BY <2>1, <2>2, SMTT(30)
  <2>4. Pad(s, a) = a - r
        BY <2>3 DEF Pad
  <2> HIDE DEF q, r
  <2>5. s + (a - r) = a * (q + 1)
        BY <1>1, <1>2, SMTT(30)
  <2>6. a * (q + 1) \in Nat /\ q + 1 \in Nat
        BY <1>2, SMTT(30)
  <2>7. (a * (q + 1)) \div a = q + 1
        BY <2>6, DivIs
  <2>8. (a * (q + 1)) % a = 0
        BY <2>6, <2>7, SMTT(30)
  <2> QED BY <2>1, <2>4, <2>5, <2>8
<1> QED BY <1>3, <1>4

\* A region below the usable limit becomes free as a whole.
LEMMA RegionFree ==
    ASSUME NEW mm \in Maps, NEW s \in Nat, NEW n \in Nat, mm.base <= s,
           s + n <= UsableLimit(mm)
    PROVE  /\ AddRegion(mm, s, n) \in Maps
           /\ AddRegion(mm, s, n).base = mm.base
           /\ mm.free \cup Span(s, n) \subseteq AddRegion(mm, s, n).free
<1>1. /\ mm.base \in Nat /\ UsableLimit(mm) \in Nat /\ MaxSliceIndex \in Nat
      /\ mm.base <= MaxSliceIndex => UsableLimit(mm) <= MaxSliceIndex
      BY Limits, SliceAssumption
<1>2. Least(s + n, UsableLimit(mm)) = s + n
      BY <1>1 DEF Least
<1> DEFINE cap == Least(s + n, UsableLimit(mm))
<1>3. AddRegion(mm, s, n) =
          IF s < cap THEN AddFree(mm, s, cap - s, TRUE) ELSE mm
      BY DEF AddRegion
<1> HIDE DEF cap
<1>4. cap = s + n
      BY <1>2 DEF cap
<1>5. CASE n = 0
  <2>1. AddRegion(mm, s, n) = mm
    <3>1. ~(s < cap)
          BY <1>4, <1>5
    <3> QED BY <1>3, <3>1
  <2>2. Span(s, n) = {}
        BY <1>5 DEF Span
  <2> QED BY <2>1, <2>2
<1>6. CASE n # 0
  <2>1. AddRegion(mm, s, n) = AddFree(mm, s, n, TRUE)
    <3>1. s < s + n /\ (s + n) - s = n
          BY <1>6
    <3> QED BY <1>3, <1>4, <3>1
  <2>2. PICK N \in SUBSET Nat :
             /\ AddFree(mm, s, n, TRUE) \in Maps
             /\ AddFree(mm, s, n, TRUE).base = mm.base
             /\ AddFree(mm, s, n, TRUE).free = mm.free \cup N
             /\ \A x \in Nat : x \in N <=> /\ s <= x /\ x < s + n
                                           /\ s <= MaxSliceIndex => x < MaxSliceIndex
        BY AddFreeAdds
  <2>3. \A x \in Span(s, n) : x \in N
    <3>1. SUFFICES ASSUME NEW x \in Span(s, n) PROVE x \in N
          OBVIOUS
    <3>2. x \in Nat /\ s <= x /\ x < s + n
          BY Spans
    <3>3. s <= MaxSliceIndex => x < MaxSliceIndex
          BY <1>1, <3>2
    <3> QED BY <2>2, <3>2, <3>3
  <2> QED BY <2>1, <2>2, <2>3
<1> QED BY <1>5, <1>6

\* Whatever of a region is usable, the map stays a map with the same base.
LEMMA RegionTyped ==
    ASSUME NEW mm \in Maps, NEW s \in Nat, NEW n \in Nat
    PROVE  /\ AddRegion(mm, s, n) \in Maps
           /\ AddRegion(mm, s, n).base = mm.base
<1> DEFINE cap == Least(s + n, UsableLimit(mm))
<1>1. AddRegion(mm, s, n) =
          IF s < cap THEN AddFree(mm, s, cap - s, TRUE) ELSE mm
      BY DEF AddRegion
<1>2. cap \in Nat
      BY Limits DEF Least
<1> HIDE DEF cap
<1>3. CASE s < cap
  <2>1. cap - s \in Nat
        BY <1>2, <1>3
  <2>2. AddRegion(mm, s, n) = AddFree(mm, s, cap - s, TRUE)
        BY <1>1, <1>3
  <2>3. /\ AddFree(mm, s, cap - s, TRUE) \in Maps
        /\ AddFree(mm, s, cap - s, TRUE).base = mm.base
    <3> DEFINE k == cap - s
    <3>1. k \in Nat
          BY <2>1
    <3> HIDE DEF k
    <3>2. PICK N \in SUBSET Nat :
             /\ AddFree(mm, s, k, TRUE) \in Maps
             /\ AddFree(mm, s, k, TRUE).base = mm.base
             /\ AddFree(mm, s, k, TRUE).free = mm.free \cup N
             /\ \A x \in Nat : x \in N <=> /\ s <= x /\ x < s + k
                                           /\ s <= MaxSliceIndex => x < MaxSliceIndex
          BY <3>1, AddFreeAdds
    <3> QED BY <3>2 DEF k
  <2> QED BY <2>2, <2>3
<1>4. CASE ~(s < cap)
      BY <1>1, <1>4
<1> QED BY <1>3, <1>4

\* A free range with the slack in front holds a fit.
LEMMA RoomFits ==
    ASSUME NEW mm \in Maps, NEW s \in Nat, NEW n \in Nat, NEW count \in Nat \ {0},
           NEW align \in Nat \ {0}, Span(s, n) \subseteq mm.free,
           Pad(s, align) + count <= n
    PROVE  Fits(mm, count, align) # {}
<1> DEFINE t == s + Pad(s, align)
<1>1. Pad(s, align) \in Nat /\ t % align = 0
      BY PadAligns
<1> HIDE DEF t
<1>2. t \in Nat /\ s <= t /\ t + count <= s + n
      BY <1>1 DEF t
<1>3. \A x \in Nat : t <= x /\ x < t + count => x \in mm.free
  <2>1. \A x \in Nat : t <= x /\ x < t + count => s <= x /\ x < s + n
        BY <1>2
  <2> QED BY <2>1, Spans
<1>4. t \in mm.free /\ Span(t, count) \subseteq mm.free
      BY <1>2, <1>3, Spans
<1> QED BY <1>1, <1>4 DEF Fits

\* The growth step is a number of slices.
LEMMA StepTyped ==
    ASSUME NEW mm \in Maps, NEW ee \in Nat
    PROVE  GrowthStep(mm, ee) \in Nat
<1>1. Greatest(StepDivisor, 1) \in Nat \ {0}
      BY SliceAssumption DEF Greatest
<1>2. Monus(ee, mm.base) \in Nat
      BY DEF Maps, Monus
<1>3. Monus(ee, mm.base) \div Greatest(StepDivisor, 1) \in Nat
      BY <1>1, <1>2, DivFacts
<1> QED BY <1>3, SliceAssumption DEF GrowthStep, Step, Least, Greatest

\* A region that a grow of the first kind yields has the needed length, and
\* stays inside the room if it starts at the end of memory.
LEMMA GrownLength ==
    ASSUME NEW ee \in Nat, NEW needed \in Nat, NEW room \in Nat, NEW big \in Nat,
           needed <= room,
           NEW r \in Grown(ee, Least(Greatest(needed, big), room), needed)
    PROVE  r.count \in Nat /\ needed <= r.count /\ r.count <= room
<1> DEFINE want == Least(Greatest(needed, big), room)
<1>1. want \in Nat /\ needed <= want /\ want <= room
      BY DEF Least, Greatest
<1>2. r.count \in {want, needed}
      BY DEF Grown
<1> QED BY <1>1, <1>2

-----------------------------------------------------------------------------
(* What a request leaves when it is not served.                            *)

\* A region at the end of memory, of the needed length and inside the room,
\* holds a fit.
LEMMA ContiguousFits ==
    ASSUME NEW mm \in Maps, NEW ee \in Nat, NEW n \in Nat, mm.base <= ee,
           NEW count \in Nat \ {0}, NEW align \in Nat \ {0},
           Pad(ee, align) + count <= n, n <= Monus(UsableLimit(mm), ee)
    PROVE  /\ AddRegion(mm, ee, n) \in Maps
           /\ Fits(AddRegion(mm, ee, n), count, align) # {}
<1>1. UsableLimit(mm) \in Nat /\ Pad(ee, align) \in Nat
      BY Limits, Padding
<1>2. ee + n <= UsableLimit(mm)
      BY <1>1 DEF Monus
<1>3. /\ AddRegion(mm, ee, n) \in Maps
      /\ Span(ee, n) \subseteq AddRegion(mm, ee, n).free
      BY <1>2, RegionFree
<1> QED BY <1>3, RoomFits

\* The second grow fails for a refusal, or past the usable limit.
LEMMA WorstFails ==
    ASSUME NEW mm \in Maps, NEW ee \in Nat, mm.base <= ee,
           NEW count \in Nat \ {0}, NEW align \in Nat \ {0}, NEW out,
           Fits(mm, count, align) = {},
           NEW o \in GrowWorst(mm, ee, count, align, out)
    PROVE  /\ o.start = NoSlice => /\ Fits(o.m, count, align) = {}
                                   /\ o.grows = 2 => o.end > UsableLimit(mm)
           /\ out \subseteq o.foreign
<1> DEFINE worst == Worst(count, align)
           M2(s) == AddRegion(mm, s, worst)
           Out(s) == out \cup (ee .. (s - 1))
<1>0. worst \in Nat /\ mm.base \in Nat /\ UsableLimit(mm) \in Nat
      BY Limits DEF Worst
<1>1. CASE o \in Fail(mm, ee, out, 1)
      BY <1>1 DEF Fail, Outcome
<1>2. CASE o \notin Fail(mm, ee, out, 1)
  <2>1. PICK s \in Regions(ee, worst) :
           o \in IF Lowest(Fits(M2(s), count, align)) = {}
                 THEN Fail(M2(s), s + worst, Out(s), 2)
                 ELSE Take(M2(s), s + worst, Lowest(Fits(M2(s), count, align)),
                           count, Out(s), 2)
        BY <1>2 DEF GrowWorst
  <2>2. s \in Nat /\ ee <= s
        BY <1>0, RegionAbove
  <2>3. CASE Lowest(Fits(M2(s), count, align)) # {}
    <3>1. o \in Take(M2(s), s + worst, Lowest(Fits(M2(s), count, align)), count,
                     Out(s), 2)
          BY <2>1, <2>3
    <3>2. o.start \in M2(s).free /\ o.foreign = Out(s)
          BY <3>1 DEF Take, Outcome, Lowest, Fits
    <3>3. M2(s) \in Maps
          BY <1>0, <2>2, RegionTyped
    <3>4. o.start # NoSlice
          BY <3>2, <3>3 DEF Maps, NoSlice
    <3> QED BY <3>2, <3>4
  <2>4. CASE Lowest(Fits(M2(s), count, align)) = {}
    <3>1. o.m = M2(s) /\ o.end = s + worst /\ o.foreign = Out(s) /\ o.grows = 2
          BY <2>1, <2>4 DEF Fail, Outcome
    <3>2. M2(s) \in Maps
          BY <1>0, <2>2, RegionTyped
    <3>3. Fits(M2(s), count, align) = {}
          BY <2>4, <3>2, NoneLowest
    <3>4. s + worst > UsableLimit(mm)
      <4>1. SUFFICES ASSUME s + worst <= UsableLimit(mm) PROVE FALSE
            BY <1>0, <2>2
      <4>2. Span(s, worst) \subseteq M2(s).free
            BY <1>0, <2>2, <4>1, RegionFree
      <4>3. Pad(s, align) + count <= worst
            BY <2>2, PadAligns DEF Worst
      <4> QED BY <1>0, <2>2, <3>2, <3>3, <4>2, <4>3, RoomFits
    <3> QED BY <3>1, <3>3, <3>4
  <2> QED BY <2>3, <2>4
<1> QED BY <1>1, <1>2

\* Taking a fit of a map hands out a slice.
LEMMA TakeStarts ==
    ASSUME NEW mm \in Maps, NEW ee, NEW count, NEW align, NEW out, NEW k,
           NEW o \in Take(mm, ee, Lowest(Fits(mm, count, align)), count, out, k)
    PROVE  o.start # NoSlice /\ o.grows = k /\ o.foreign = out
<1>1. o.start \in mm.free /\ o.grows = k /\ o.foreign = out
      BY DEF Take, Outcome, Lowest, Fits
<1>2. o.start \in Nat
      BY <1>1 DEF Maps
<1> QED BY <1>1, <1>2 DEF NoSlice

\* How an acquisition ends: refused with the map as it was, served from it,
\* served after a region that begins at the end of memory, or after somebody
\* else took memory.
LEMMA AcquireCases ==
    ASSUME NEW mm \in Maps, NEW ee \in Nat, mm.base <= ee,
           NEW count \in Nat \ {0}, NEW align \in Nat \ {0},
           NEW o \in Acquire(mm, ee, count, align)
    PROVE  \/ /\ Fits(mm, count, align) = {}
              /\ o.m = mm /\ o.end = ee /\ o.start = NoSlice /\ o.grows = 0
           \/ o \in Take(mm, ee, Lowest(Fits(mm, count, align)), count, {}, 0)
           \/ /\ Fits(mm, count, align) = {}
              /\ \E n \in Nat : LET mn == AddRegion(mm, ee, n)
                                IN  o \in Take(mn, ee + n, Lowest(Fits(mn, count, align)),
                                               count, {}, 1)
           \/ /\ o.foreign # {}
              /\ o.start = NoSlice => /\ Fits(o.m, count, align) = {}
                                      /\ o.grows = 2 => o.end > UsableLimit(mm)
<1> DEFINE needed == Pad(ee, align) + count
           room   == Monus(UsableLimit(mm), ee)
           big    == GrowthStep(mm, ee)
           want   == Least(Greatest(needed, big), room)
           M1(r)  == AddRegion(mm, r.start, r.count)
           E1(r)  == r.start + r.count
           Out(r) == ee .. (r.start - 1)
<1>1. CASE Fits(mm, count, align) # {}
  <2>1. Lowest(Fits(mm, count, align)) # {}
    <3>1. Fits(mm, count, align) \in SUBSET Nat
          BY DEF Fits, Maps
    <3> QED BY <1>1, <3>1, LeastExists
  <2>2. o \in Take(mm, ee, Lowest(Fits(mm, count, align)), count, {}, 0)
        BY <1>1, <2>1 DEF Acquire, Alloc
  <2> QED BY <2>2
<1>2. CASE Fits(mm, count, align) = {} /\ o \in Fail(mm, ee, {}, 0)
      BY <1>2 DEF Fail, Outcome
<1>3. CASE Fits(mm, count, align) = {} /\ o \notin Fail(mm, ee, {}, 0)
  <2>0. needed \in Nat /\ room \in Nat
        BY Padding, Limits DEF Monus
  <2>1. o \in GrowAndAlloc(mm, ee, count, align)
        BY <1>3 DEF Acquire
  <2>2. PICK r \in Grown(ee, want, needed) :
           o \in IF Lowest(Fits(M1(r), count, align)) = {}
                 THEN GrowWorst(M1(r), E1(r), count, align, Out(r))
                 ELSE Take(M1(r), E1(r), Lowest(Fits(M1(r), count, align)),
                           count, Out(r), 1)
        BY <1>3, <2>1 DEF GrowAndAlloc
  <2>3. needed <= room
    <3>1. needed > room => GrowAndAlloc(mm, ee, count, align)
                               = Fail(mm, ee, {}, 0) \cup {}
          BY DEF GrowAndAlloc
    <3>2. ~(needed > room)
          BY <1>3, <2>1, <3>1
    <3> QED BY <2>0, <3>2
  <2>5. big \in Nat
        BY StepTyped
  <2>6. r.count \in Nat /\ needed <= r.count /\ r.count <= room
    <3> HIDE DEF needed, room, big
    <3> QED BY <2>2, <2>3, <2>0, <2>5, GrownLength
  <2>7. r.start \in Nat /\ ee <= r.start
    <3>1. want \in Nat
      <4> HIDE DEF needed, room, big
      <4> QED BY <2>0, <2>5 DEF Least, Greatest
    <3> HIDE DEF needed, want
    <3> QED BY <2>2, <2>0, <3>1, GrownAbove
  <2>8. M1(r) \in Maps /\ M1(r).base = mm.base
        BY <2>6, <2>7, RegionTyped
  <2>4. r.start # ee => Out(r) # {}
    <3>1. r.start # ee => ee \in Out(r)
          BY <2>7
    <3> QED BY <3>1
  <2>9. CASE Lowest(Fits(M1(r), count, align)) # {}
    <3>1. o \in Take(M1(r), E1(r), Lowest(Fits(M1(r), count, align)), count,
                     Out(r), 1)
          BY <2>2, <2>9
    <3>2. o.start # NoSlice /\ o.foreign = Out(r)
          BY <2>8, <3>1, TakeStarts
    <3>3. CASE r.start = ee
      <4>1. Out(r) = {} /\ M1(r) = AddRegion(mm, ee, r.count) /\ E1(r) = ee + r.count
            BY <3>3
      <4> HIDE DEF M1, E1, Out
      <4>2. o \in Take(AddRegion(mm, ee, r.count), ee + r.count,
                       Lowest(Fits(AddRegion(mm, ee, r.count), count, align)), count, {}, 1)
            BY <3>1, <4>1
      <4> QED BY <1>3, <2>6, <4>2
    <3> HIDE DEF Out
    <3> QED BY <2>4, <3>2, <3>3
  <2>10. CASE Lowest(Fits(M1(r), count, align)) = {}
    <3>1. o \in GrowWorst(M1(r), E1(r), count, align, Out(r))
          BY <2>2, <2>10
    <3>2. Fits(M1(r), count, align) = {}
          BY <2>8, <2>10, NoneLowest
    <3>3. E1(r) \in Nat /\ mm.base <= E1(r) /\ mm.base \in Nat
          BY <2>6, <2>7 DEF Maps
    <3>4. UsableLimit(M1(r)) = UsableLimit(mm)
          BY <2>8, SameLimits
    <3>5. /\ o.start = NoSlice => /\ Fits(o.m, count, align) = {}
                                  /\ o.grows = 2 => o.end > UsableLimit(M1(r))
          /\ Out(r) \subseteq o.foreign
      <4> HIDE DEF M1, E1, Out
      <4> QED BY <2>8, <3>1, <3>2, <3>3, WorstFails
    <3>6. r.start # ee
      <4>1. Fits(AddRegion(mm, ee, r.count), count, align) # {}
            BY <2>6, ContiguousFits
      <4> QED BY <3>2, <4>1
    <3> HIDE DEF Out
    <3>7. o.foreign # {}
          BY <2>4, <3>5, <3>6
    <3> QED BY <3>4, <3>5, <3>7
  <2> QED BY <2>9, <2>10
<1> QED BY <1>1, <1>2, <1>3

\* What an acquisition promises, served or not.
LEMMA AcquireServes ==
    ASSUME NEW mm \in Maps, NEW ee \in Nat, mm.base <= ee,
           NEW count \in Nat \ {0}, NEW align \in Nat \ {0},
           NEW o \in Acquire(mm, ee, count, align)
    PROVE  /\ (o.grows > 0 /\ o.foreign = {}) => o.start # NoSlice
           /\ o.start = NoSlice => /\ Fits(o.m, count, align) = {}
                                   /\ o.grows = 2 => o.end > UsableLimit(mm)
<1>1. CASE /\ Fits(mm, count, align) = {}
           /\ o.m = mm /\ o.end = ee /\ o.start = NoSlice /\ o.grows = 0
      BY <1>1
<1>2. CASE o \in Take(mm, ee, Lowest(Fits(mm, count, align)), count, {}, 0)
  <2>1. o.start # NoSlice
        BY <1>2, TakeStarts
  <2> QED BY <2>1
<1>3. CASE \E n \in Nat : LET mn == AddRegion(mm, ee, n)
                          IN  o \in Take(mn, ee + n, Lowest(Fits(mn, count, align)),
                                         count, {}, 1)
  <2>1. PICK n \in Nat :
           LET mn == AddRegion(mm, ee, n)
           IN  o \in Take(mn, ee + n, Lowest(Fits(mn, count, align)), count, {}, 1)
        BY <1>3
  <2> DEFINE mn == AddRegion(mm, ee, n)
  <2>2. mn \in Maps
        BY RegionTyped
  <2> HIDE DEF mn
  <2>3. o \in Take(mn, ee + n, Lowest(Fits(mn, count, align)), count, {}, 1)
        BY <2>1 DEF mn
  <2>4. o.start # NoSlice
        BY <2>2, <2>3, TakeStarts
  <2> QED BY <2>4
<1>4. CASE /\ o.foreign # {}
           /\ o.start = NoSlice => /\ Fits(o.m, count, align) = {}
                                   /\ o.grows = 2 => o.end > UsableLimit(mm)
      BY <1>4
<1> QED BY <1>1, <1>2, <1>3, <1>4, AcquireCases

\* At the top of memory a contiguous region of the missing length, or longer,
\* completes the free slices after the run.
LEMMA RegionExtends ==
    ASSUME NEW mm \in Maps, NEW ee \in Nat, mm.base <= ee,
           NEW start \in Nat, NEW count \in Nat, NEW extra \in Nat, NEW n \in Nat,
           AtTop(mm, ee, start, count, extra),
           extra - (ee - (start + count)) <= n, n <= UsableLimit(mm) - ee
    PROVE  /\ CanExtend(AddRegion(mm, ee, n), start, count, extra)
           /\ AddRegion(mm, ee, n).base = mm.base
           /\ mm.free \cup Span(ee, n) \subseteq AddRegion(mm, ee, n).free
<1> DEFINE tail == start + count
           nn   == AddRegion(mm, ee, n)
<1>1. /\ UsableLimit(mm) \in Nat /\ Limit(mm) \in Nat /\ UsableLimit(mm) <= Limit(mm)
      /\ tail \in Nat /\ tail <= ee /\ Span(tail, ee - tail) \subseteq mm.free
      /\ extra - (ee - tail) <= UsableLimit(mm) - ee
      BY Limits DEF AtTop
<1>2. /\ nn \in Maps /\ nn.base = mm.base
      /\ mm.free \cup Span(ee, n) \subseteq nn.free
  <2>1. ee + n <= UsableLimit(mm)
        BY <1>1
  <2> QED BY <2>1, RegionFree
<1> HIDE DEF nn
<1>3. Span(tail, extra) \subseteq nn.free
  <2>1. SUFFICES ASSUME NEW x \in Span(tail, extra) PROVE x \in nn.free
        OBVIOUS
  <2>2. x \in Nat /\ tail <= x /\ x < tail + extra
        BY <1>1, Spans
  <2>3. CASE x < ee
    <3>1. ee - tail \in Nat /\ x < tail + (ee - tail)
          BY <1>1, <2>2, <2>3
    <3>2. x \in Span(tail, ee - tail)
          BY <1>1, <2>2, <3>1, Spans
    <3> QED BY <1>1, <1>2, <3>2
  <2>4. CASE ee <= x
    <3>1. x < ee + n
          BY <1>1, <2>2
    <3>2. x \in Span(ee, n)
          BY <2>2, <2>4, <3>1, Spans
    <3> QED BY <1>2, <3>2
  <2> QED BY <2>2, <2>3, <2>4
<1>4. Limit(nn) = Limit(mm)
      BY <1>2, SameLimits
<1>5. start + count + extra <= Limit(mm)
      BY <1>1
<1>6. CanExtend(nn, start, count, extra)
      BY <1>3, <1>4, <1>5 DEF CanExtend
<1> QED BY <1>2, <1>6 DEF nn

\* The run and the new slices after a contiguous grow by n.
GrownInPlace(o, mm, ee, start, count, extra, n) ==
    /\ extra - (ee - (start + count)) <= n /\ n <= UsableLimit(mm) - ee
    /\ o.m = Claim(AddRegion(mm, ee, n), Span(start + count, extra))
    /\ o.end = ee + n /\ o.start = start /\ o.grows = 1

\* The four ways an extension ends: in the map, refused as it was, refused
\* after someone else took the slices above, or in a contiguous region.
LEMMA ExtendCases ==
    ASSUME NEW mm \in Maps, NEW ee \in Nat, mm.base <= ee,
           NEW start \in Nat, NEW count \in Nat, NEW extra \in Nat,
           NEW o \in ExtendWithGrowth(mm, ee, start, count, extra)
    PROVE  \/ /\ CanExtend(mm, start, count, extra)
              /\ o.m = Claim(mm, Span(start + count, extra))
              /\ o.end = ee /\ o.start = start /\ o.grows = 0
           \/ o.m = mm /\ o.end = ee /\ o.start = NoSlice /\ o.grows = 0
           \/ o.start = NoSlice /\ o.foreign # {}
           \/ /\ AtTop(mm, ee, start, count, extra)
              /\ \E n \in Nat : GrownInPlace(o, mm, ee, start, count, extra, n)
<1> DEFINE tail  == start + count
           need  == extra - (ee - tail)
           room  == UsableLimit(mm) - ee
           big   == GrowthStep(mm, ee)
           want  == Least(Greatest(need, big), room)
           M1(r) == AddRegion(mm, r.start, r.count)
           E1(r) == r.start + r.count
           New   == Span(tail, extra)
<1>1. CASE CanExtend(mm, start, count, extra)
  <2>1. o \in {Outcome(Claim(mm, New), ee, start, AllZero(mm, New), {}, 0)}
        BY <1>1 DEF ExtendWithGrowth, TryExtend
  <2>2. /\ o.m = Claim(mm, New)
        /\ o.end = ee /\ o.start = start /\ o.grows = 0
        BY <2>1 DEF Outcome
  <2> QED BY <1>1, <2>2
<1>2. CASE o \in Fail(mm, ee, {}, 0)
  <2>1. o.m = mm /\ o.end = ee /\ o.start = NoSlice /\ o.grows = 0
        BY <1>2 DEF Fail, Outcome
  <2> QED BY <2>1
<1>3. CASE ~CanExtend(mm, start, count, extra) /\ o \notin Fail(mm, ee, {}, 0)
  <2>1. AtTop(mm, ee, start, count, extra)
        BY <1>3 DEF ExtendWithGrowth, GrowAndExtend
  <2>2. PICK r \in Grown(ee, want, need) :
           o \in IF r.start = ee /\ CanExtend(M1(r), start, count, extra)
                 THEN {Outcome(Claim(M1(r), New), E1(r), start,
                               AllZero(M1(r), New), {}, 1)}
                 ELSE Fail(M1(r), E1(r), ee .. (r.start - 1), 1)
        BY <1>3, <2>1 DEF ExtendWithGrowth, GrowAndExtend
  <2>3. need \in Nat /\ room \in Nat /\ need <= room
        BY <2>1, Limits DEF AtTop
  <2>4. big \in Nat
        BY StepTyped
  <2>5. r.count \in Nat /\ need <= r.count /\ r.count <= room
    <3> HIDE DEF need, room, big
    <3> QED BY <2>2, <2>3, <2>4, GrownLength
  <2>6. r.start \in Nat /\ ee <= r.start
    <3>1. want \in Nat
      <4> HIDE DEF need, room, big
      <4> QED BY <2>3, <2>4 DEF Least, Greatest
    <3> HIDE DEF need, want
    <3> QED BY <2>2, <2>3, <3>1, GrownAbove
  <2>7. CASE r.start = ee
    <3>1. CanExtend(M1(r), start, count, extra)
          BY <2>1, <2>5, <2>7, RegionExtends
    <3>2. o = Outcome(Claim(M1(r), New), E1(r), start, AllZero(M1(r), New), {}, 1)
          BY <2>2, <2>7, <3>1
    <3>3. /\ o.m = Claim(AddRegion(mm, ee, r.count), New) /\ o.end = ee + r.count
          /\ o.start = start /\ o.grows = 1
          BY <2>7, <3>2 DEF Outcome
    <3>4. GrownInPlace(o, mm, ee, start, count, extra, r.count)
          BY <2>5, <3>3 DEF GrownInPlace
    <3> QED BY <2>1, <2>5, <3>4
  <2>8. CASE r.start # ee
    <3> DEFINE gap == ee .. (r.start - 1)
    <3>1. o \in Fail(M1(r), E1(r), gap, 1)
          BY <2>2, <2>8
    <3>2. ee \in gap
          BY <2>6, <2>8
    <3> HIDE DEF M1, E1, gap
    <3>3. o.start = NoSlice /\ o.foreign = gap
          BY <3>1 DEF Fail, Outcome
    <3> QED BY <3>2, <3>3
  <2> QED BY <2>7, <2>8
<1> QED BY <1>1, <1>2, <1>3

\* What an extension promises.
LEMMA ExtendServes ==
    ASSUME NEW mm \in Maps, NEW ee \in Nat, mm.base <= ee,
           NEW start \in Nat, NEW count \in Nat, NEW extra \in Nat,
           NEW o \in ExtendWithGrowth(mm, ee, start, count, extra),
           o.grows > 0, o.foreign = {}
    PROVE  o.start # NoSlice
BY ExtendCases DEF GrownInPlace, NoSlice

-----------------------------------------------------------------------------
(* The theorems.                                                           *)

\* A contiguous grow serves the request that caused it, whatever was asked
\* for: the debug assertions of grow_and_alloc and grow_and_extend.
THEOREM ContiguousServesAlways == Spec => []ContiguousGrowthServes
<1>1. IInv => ContiguousGrowthServes
  <2> SUFFICES ASSUME IInv, inited PROVE ContiguousGrowthServes
      BY DEF ContiguousGrowthServes
  <2>1. m \in Maps /\ end \in Nat /\ m.base <= end /\ TypeOK
        BY DEF IInv, MapInv
  <2>2. \A c \in Counts, a \in Aligns : \A o \in Acquire(m, end, c, a) :
            (o.grows > 0 /\ o.foreign = {}) => o.start # NoSlice
        BY <2>1, AcquireServes, GrowthAssumption
  <2>3. \A r \in runs, c \in Counts :
            \A o \in ExtendWithGrowth(m, end, r.start, r.count, c) :
                (o.grows > 0 /\ o.foreign = {}) => o.start # NoSlice
    <3>1. SUFFICES ASSUME NEW r \in runs, NEW c \in Counts,
                          NEW o \in ExtendWithGrowth(m, end, r.start, r.count, c),
                          o.grows > 0, o.foreign = {}
                   PROVE  o.start # NoSlice
          OBVIOUS
    <3>2. r.start \in Nat /\ r.count \in Nat /\ c \in Nat
          BY <2>1, RunFields, GrowthAssumption
    <3> QED BY <2>1, <3>1, <3>2, ExtendServes
  <2> QED BY <2>2, <2>3 DEF ContiguousGrowthServes
<1> QED BY <1>1, SpecIInv, PTL

\* A request that fails left no fit behind, and after a second grow it fails
\* only where the region reached past the usable limit.
THEOREM FailsOnlyClippedAlways == Spec => []FailsOnlyClipped
<1>1. IInv => FailsOnlyClipped
  <2> SUFFICES ASSUME IInv, inited PROVE FailsOnlyClipped
      BY DEF FailsOnlyClipped
  <2>1. m \in Maps /\ end \in Nat /\ m.base <= end
        BY DEF IInv, MapInv
  <2> QED BY <2>1, AcquireServes, GrowthAssumption DEF FailsOnlyClipped
<1> QED BY <1>1, SpecIInv, PTL

-----------------------------------------------------------------------------
(* The run at the top of memory.                                           *)

\* Only free slices lie above the run, up to the end of memory or of the map.
TopFree(mm, ee, r) ==
    \A x \in Nat : r.start + r.count <= x /\ x < ee /\ x < Limit(mm) => x \in mm.free

TopInv == top # NoSlice => inited /\ \E r \in runs : r.start = top /\ TopFree(m, end, r)

\* Slices that become free, and those of other runs, leave it at the top.
LEMMA TopStays ==
    ASSUME NEW mm \in Maps, NEW nn \in Maps, NEW ee, NEW r, NEW q,
           nn.base = mm.base, mm.free \subseteq nn.free, TopFree(mm, ee, r),
           q.start = r.start, r.count <= q.count, r.start \in Nat, r.count \in Nat,
           q.count \in Nat
    PROVE  TopFree(nn, ee, q)
<1>1. Limit(nn) = Limit(mm)
      BY SameLimits
<1> QED BY <1>1 DEF TopFree

\* alloc_tail places its run below free slices only.
LEMMA TailTop ==
    ASSUME NEW mm \in Maps, NEW ee \in Nat, NEW count \in Nat \ {0},
           NEW align \in Nat \ {0}, NEW s \in TailFits(mm, count, align, ee),
           NEW n, n.start = s, n.count = count
    PROVE  TopFree(Claim(mm, Span(s, count)), ee, n)
<1> DEFINE tp == Least(ee, Limit(mm))
           nn == Claim(mm, Span(s, count))
<1>1. s \in mm.free /\ (s .. (tp - 1)) \subseteq mm.free
      BY DEF TailFits, FreeTail, Lowest
<1>2. /\ s \in Nat /\ Limit(mm) \in Nat /\ tp \in Nat
      /\ \A x \in Nat : x < ee /\ x < Limit(mm) => x < tp
      BY <1>1, Limits DEF Least
<1>3. Span(s, count) \in SUBSET Nat
      BY <1>2, Spans
<1>4. nn \in Maps /\ nn.base = mm.base /\ nn.free = mm.free \ Span(s, count)
      BY <1>3, Fields
<1>5. Limit(nn) = Limit(mm)
      BY <1>4, SameLimits
<1> HIDE DEF nn, tp
<1>6. SUFFICES ASSUME NEW x \in Nat, s + count <= x, x < ee, x < Limit(mm)
               PROVE  x \in nn.free
      BY <1>5 DEF TopFree, nn
<1>7. x \in s .. (tp - 1)
      BY <1>2, <1>6
<1>8. x \notin Span(s, count)
      BY <1>2, <1>6, Spans
<1> QED BY <1>1, <1>4, <1>7, <1>8

\* A span of a set that begins below a slice outside the set ends below it.
LEMMA WholeBelow ==
    ASSUME NEW F, NEW t \in Nat, t \notin F, NEW s \in Nat, s < t,
           NEW c \in Nat \ {0}, Span(s, c) \subseteq F
    PROVE  \A x \in Span(s, c) : x < t
<1>1. SUFFICES ASSUME NEW x \in Span(s, c), ~(x < t) PROVE t \in Span(s, c)
      OBVIOUS
<1>2. x \in Nat /\ s <= x /\ x < s + c
      BY Spans
<1> QED BY <1>1, <1>2, Spans

\* What is taken below it leaves a run at the top.
LEMMA BelowTop ==
    ASSUME NEW mm \in Maps, NEW ee \in Nat, NEW r, r.start \in Nat, r.count \in Nat,
           TopFree(mm, ee, r), NEW S \in SUBSET Nat, \A x \in S : x < r.start
    PROVE  TopFree(Claim(mm, S), ee, r)
<1>1. /\ Claim(mm, S) \in Maps /\ Claim(mm, S).base = mm.base
      /\ Claim(mm, S).free = mm.free \ S
      BY Fields
<1>2. Limit(Claim(mm, S)) = Limit(mm)
      BY <1>1, SameLimits
<1>3. SUFFICES ASSUME NEW x \in Nat, r.start + r.count <= x, x < ee, x < Limit(mm)
               PROVE  x \in mm.free \ S
      BY <1>1, <1>2 DEF TopFree
<1>4. x \in mm.free
      BY <1>3 DEF TopFree
<1>5. x \notin S
      BY <1>3
<1> QED BY <1>4, <1>5

\* A region at the end of memory adds no slice below it.
LEMMA RegionAdds ==
    ASSUME NEW mm \in Maps, NEW s \in Nat, NEW n \in Nat, NEW x \in Nat, x < s,
           x \in AddRegion(mm, s, n).free
    PROVE  x \in mm.free
<1> DEFINE cap == Least(s + n, UsableLimit(mm))
<1>1. AddRegion(mm, s, n) =
          IF s < cap THEN AddFree(mm, s, cap - s, TRUE) ELSE mm
      BY DEF AddRegion
<1>2. cap \in Nat
      BY Limits DEF Least
<1> HIDE DEF cap
<1>3. CASE s < cap
  <2> DEFINE k == cap - s
  <2>1. k \in Nat /\ AddRegion(mm, s, n) = AddFree(mm, s, k, TRUE)
        BY <1>1, <1>2, <1>3
  <2> HIDE DEF k
  <2>2. PICK N \in SUBSET Nat :
           /\ AddFree(mm, s, k, TRUE) \in Maps
           /\ AddFree(mm, s, k, TRUE).base = mm.base
           /\ AddFree(mm, s, k, TRUE).free = mm.free \cup N
           /\ \A y \in Nat : y \in N <=> /\ s <= y /\ y < s + k
                                         /\ s <= MaxSliceIndex => y < MaxSliceIndex
        BY <2>1, AddFreeAdds
  <2>3. x \notin N
        BY <2>2
  <2> QED BY <2>1, <2>2, <2>3
<1>4. CASE ~(s < cap)
      BY <1>1, <1>4
<1> QED BY <1>3, <1>4

\* A run that is extended in the map stays below free slices only.
LEMMA ExtendedTop ==
    ASSUME NEW mm \in Maps, NEW ee, NEW r, NEW n, NEW c \in Nat,
           r.start \in Nat, r.count \in Nat, n.start = r.start, n.count = r.count + c,
           TopFree(mm, ee, r)
    PROVE  TopFree(Claim(mm, Span(r.start + r.count, c)), ee, n)
<1> DEFINE S  == Span(r.start + r.count, c)
           nn == Claim(mm, S)
<1>1. S \in SUBSET Nat /\ \A x \in Nat : x \in S => x < r.start + r.count + c
      BY Spans
<1> HIDE DEF S
<1>2. nn \in Maps /\ nn.base = mm.base /\ nn.free = mm.free \ S
      BY <1>1, Fields
<1>3. Limit(nn) = Limit(mm)
      BY <1>2, SameLimits
<1> HIDE DEF nn
<1>4. SUFFICES ASSUME NEW x \in Nat, r.start + r.count + c <= x, x < ee, x < Limit(mm)
               PROVE  x \in nn.free
      BY <1>3 DEF TopFree, nn, S
<1>5. x \in mm.free
      BY <1>4 DEF TopFree
<1>6. x \notin S
      BY <1>1, <1>4
<1> QED BY <1>2, <1>5, <1>6

\* A run that grew through memory.grow has nothing but its region above it.
LEMMA GrownTop ==
    ASSUME NEW mm \in Maps, NEW ee \in Nat, mm.base <= ee,
           NEW r, NEW n, NEW c \in Nat, NEW o, NEW k \in Nat,
           r.start \in Nat, r.count \in Nat, n.start = r.start, n.count = r.count + c,
           AtTop(mm, ee, r.start, r.count, c),
           GrownInPlace(o, mm, ee, r.start, r.count, c, k)
    PROVE  TopFree(o.m, o.end, n)
<1> DEFINE S  == Span(r.start + r.count, c)
           aa == AddRegion(mm, ee, k)
<1>1. S \in SUBSET Nat /\ \A x \in Nat : x \in S => x < r.start + r.count + c
      BY Spans
<1>2. o.m = Claim(aa, S) /\ o.end = ee + k
      BY DEF GrownInPlace
<1>3. aa \in Maps
      BY RegionTyped
<1>4. Span(ee, k) \subseteq aa.free
      BY RegionExtends DEF GrownInPlace
<1>5. ee <= r.start + r.count + c
      BY DEF AtTop
<1> HIDE DEF S, aa
<1>6. o.m.free = aa.free \ S
      BY <1>1, <1>2, <1>3, Fields
<1>7. SUFFICES ASSUME NEW x \in Nat, r.start + r.count + c <= x, x < ee + k
               PROVE  x \in o.m.free
      BY <1>2 DEF TopFree
<1>8. x \in Span(ee, k)
      BY <1>5, <1>7, Spans
<1>9. x \notin S
      BY <1>1, <1>7
<1> QED BY <1>4, <1>6, <1>8, <1>9

\* A run below cannot be extended past the one at the top.
LEMMA OtherExtended ==
    ASSUME IInv, inited, NEW r \in runs, NEW q \in runs, q # r, NEW c \in Nat,
           TopFree(m, end, r), CanExtend(m, q.start, q.count, c)
    PROVE  TopFree(Claim(m, Span(q.start + q.count, c)), end, r)
<1> DEFINE S  == Span(q.start + q.count, c)
           nn == Claim(m, S)
<1>1. /\ r.start \in Nat /\ r.count \in Nat \ {0} /\ q.start \in Nat
      /\ q.count \in Nat \ {0} /\ m \in Maps
      BY RunFields DEF IInv, TypeOK
<1>2. /\ S \in SUBSET Nat /\ S \subseteq m.free
      /\ \A x \in Nat : x \in S <=> q.start + q.count <= x /\ x < q.start + q.count + c
  <2>1. q.start + q.count \in Nat
        BY <1>1
  <2>2. S \subseteq m.free
        BY DEF CanExtend
  <2> QED BY <2>1, <2>2, Spans
<1>3. r.start \in Slices(r) /\ q.start \in Slices(q)
      BY <1>1, Spans DEF Slices
<1>4. r.start \in Owned /\ q.start \in Owned
      BY <1>3 DEF Owned
<1>5. /\ r.start \notin m.free /\ q.start \notin m.free
      /\ q.start < end /\ q.start < Limit(m)
      BY <1>4 DEF IInv, MapInv
<1>6. q.start < r.start
  <2>1. ~(r.start + r.count <= q.start)
        BY <1>1, <1>5 DEF TopFree
  <2>2. q.start \notin Slices(r)
        BY <1>3 DEF IInv, RunsDisjoint
  <2>3. ~(r.start <= q.start /\ q.start < r.start + r.count)
        BY <1>1, <2>2, Spans DEF Slices
  <2> QED BY <1>1, <2>1, <2>3
<1>7. q.start + q.count <= r.start
  <2>1. r.start \notin Slices(q)
        BY <1>3 DEF IInv, RunsDisjoint
  <2>2. ~(q.start <= r.start /\ r.start < q.start + q.count)
        BY <1>1, <2>1, Spans DEF Slices
  <2> QED BY <1>1, <1>6, <2>2
<1>8. q.start + q.count + c <= r.start
      BY <1>1, <1>2, <1>5, <1>7
<1>9. nn \in Maps /\ nn.base = m.base /\ nn.free = m.free \ S
      BY <1>1, <1>2, Fields
<1>10. Limit(nn) = Limit(m)
      BY <1>1, <1>9, SameLimits
<1> HIDE DEF nn, S
<1>11. SUFFICES ASSUME NEW x \in Nat, r.start + r.count <= x, x < end, x < Limit(m)
                PROVE  x \in nn.free
      BY <1>10 DEF TopFree, nn, S
<1>12. x \in m.free
      BY <1>11 DEF TopFree
<1>13. x \notin S
      BY <1>1, <1>2, <1>8, <1>11
<1> QED BY <1>9, <1>12, <1>13

-----------------------------------------------------------------------------
(* Every action keeps the run at the top there, or forgets it.             *)

LEMMA FreeTop == ASSUME IInv, TopInv, NEW q \in runs, FreeRun(q) PROVE TopInv'
<1>1. SUFFICES ASSUME top' # NoSlice
               PROVE  inited' /\ \E r \in runs' : r.start = top' /\ TopFree(m', end', r)
      BY DEF TopInv
<1>2. /\ m' = Release(m, Slices(q)) /\ runs' = runs \ {q} /\ inited' = inited
      /\ end' = end /\ top' = top /\ top # q.start
      BY <1>1 DEF FreeRun
<1>3. PICK r \in runs : r.start = top /\ TopFree(m, end, r)
      BY <1>1, <1>2 DEF TopInv
<1>4. r \in runs' /\ r.start = top'
      BY <1>2, <1>3
<1>5. m \in Maps /\ TypeOK
      BY DEF IInv, TypeOK
<1>6. Slices(q) \in SUBSET Nat /\ r.start \in Nat /\ r.count \in Nat
      BY <1>5, RunFields
<1>7. m' \in Maps /\ m'.base = m.base /\ m.free \subseteq m'.free
      BY <1>2, <1>5, <1>6, Fields
<1>8. TopFree(m', end, r)
      BY <1>3, <1>5, <1>6, <1>7, TopStays
<1> QED BY <1>1, <1>2, <1>4, <1>8 DEF TopInv

LEMMA ShrinkTop ==
    ASSUME IInv, TopInv, NEW q \in runs, NEW c \in Counts, ShrinkRun(q, c)
    PROVE  TopInv'
<1> DEFINE n == [q EXCEPT !.count = c]
           S == Span(q.start + c, q.count - c)
<1>1. SUFFICES ASSUME top' # NoSlice
               PROVE  inited' /\ \E r \in runs' : r.start = top' /\ TopFree(m', end', r)
      BY DEF TopInv
<1>2. /\ m' = Release(m, S) /\ runs' = (runs \ {q}) \cup {n}
      /\ inited' = inited /\ end' = end /\ top' = top /\ c < q.count
      BY DEF ShrinkRun, Shrink
<1>3. PICK r \in runs : r.start = top /\ TopFree(m, end, r)
      BY <1>1, <1>2 DEF TopInv
<1>4. m \in Maps /\ TypeOK /\ c \in Nat
      BY GrowthAssumption DEF IInv, TypeOK
<1>5. /\ q.start \in Nat /\ q.count \in Nat /\ r.start \in Nat /\ r.count \in Nat
      /\ n.start = q.start /\ n.count = c
  <2>1. q \in [start : Nat, count : Nat \ {0}, align : Nat \ {0}]
        BY <1>4 DEF TypeOK
  <2> QED BY <1>4, <2>1, RunFields
<1> HIDE DEF n
<1>6. /\ S \in SUBSET Nat
      /\ \A x \in Nat : x \in S <=> q.start + c <= x /\ x < q.start + q.count
  <2> DEFINE k == q.count - c
  <2>1. k \in Nat /\ q.start + c \in Nat /\ q.start + c + k = q.start + q.count
        BY <1>2, <1>4, <1>5
  <2> HIDE DEF k
  <2>2. /\ Span(q.start + c, k) \in SUBSET Nat
        /\ \A x \in Nat : x \in Span(q.start + c, k)
                             <=> q.start + c <= x /\ x < q.start + c + k
        BY <2>1, Spans
  <2> QED BY <2>1, <2>2 DEF k
<1> HIDE DEF S
<1>7. m' \in Maps /\ m'.base = m.base /\ m'.free = m.free \cup S
      BY <1>2, <1>4, <1>6, Fields
<1>8. Limit(m') = Limit(m)
      BY <1>4, <1>7, SameLimits
<1>9. CASE r = q
  <2>1. TopFree(m', end, n)
    <3>1. SUFFICES ASSUME NEW x \in Nat, q.start + c <= x, x < end, x < Limit(m)
                   PROVE  x \in m.free \cup S
          BY <1>5, <1>7, <1>8 DEF TopFree
    <3>2. CASE x < q.start + q.count
          BY <1>6, <3>1, <3>2
    <3>3. CASE q.start + q.count <= x
          BY <1>3, <1>9, <3>1, <3>3 DEF TopFree
    <3> QED BY <1>5, <3>2, <3>3
  <2> QED BY <1>1, <1>2, <1>3, <1>5, <1>9, <2>1 DEF TopInv
<1>10. CASE r # q
  <2>1. TopFree(m', end, r)
        BY <1>3, <1>4, <1>5, <1>7, TopStays
  <2> QED BY <1>1, <1>2, <1>3, <1>10, <2>1 DEF TopInv
<1> QED BY <1>9, <1>10

LEMMA TailRunTop ==
    ASSUME IInv, NEW c \in Counts, NEW a \in Aligns, AllocTailRun(c, a)
    PROVE  TopInv'
<1>1. c \in Nat \ {0} /\ a \in Nat \ {0}
      BY GrowthAssumption
<1>2. PICK o \in AllocTail(m, end, c, a) : HandOut(o, c, a) /\ top' = o.start
      BY DEF AllocTailRun
<1>3. inited /\ m \in Maps /\ end \in Nat
      BY DEF AllocTailRun, IInv, TypeOK
<1>4. o \in Take(m, end, TailFits(m, c, a, end), c, {}, 0)
      BY <1>2 DEF AllocTail, AllocTailRun
<1>5. PICK s \in TailFits(m, c, a, end) :
         /\ o.start = s /\ o.end = end /\ o.m = Claim(m, Span(s, c))
      BY <1>4 DEF Take, Outcome
<1>6. s \in Nat
      BY <1>1, <1>3, TailFitsFit DEF Fits, Maps
<1> DEFINE n == [start |-> s, count |-> c, align |-> a]
<1>7. /\ m' = o.m /\ end' = o.end /\ inited' = inited
      /\ runs' = runs \cup {n}
      BY <1>2, <1>5, <1>6 DEF HandOut, Apply, NoSlice
<1>8. n.start = s /\ n.count = c
      OBVIOUS
<1> HIDE DEF n
<1>9. TopFree(Claim(m, Span(s, c)), end, n)
      BY <1>1, <1>3, <1>8, TailTop
<1> QED BY <1>2, <1>3, <1>5, <1>7, <1>8, <1>9 DEF TopInv

\* A hole below the run that is filled leaves it at the top: a run that fits
\* below never reaches over it, and none grows memory to land there.
LEMMA AcquireTop ==
    ASSUME IInv, TopInv, NEW c \in Counts, NEW a \in Aligns, AcquireRun(c, a)
    PROVE  TopInv'
<1>1. c \in Nat \ {0} /\ a \in Nat \ {0}
      BY GrowthAssumption
<1>2. PICK o \in Acquire(m, end, c, a) :
         /\ HandOut(o, c, a)
         /\ top' = IF o.foreign = {} /\ o.start < top THEN top ELSE NoSlice
      BY DEF AcquireRun
<1>3. inited /\ m \in Maps /\ end \in Nat /\ m.base <= end /\ TypeOK
      BY DEF AcquireRun, IInv, MapInv
<1>4. m' = o.m /\ end' = o.end /\ inited' = inited /\ runs \subseteq runs'
      BY <1>2 DEF HandOut, Apply
<1>5. SUFFICES ASSUME top' # NoSlice
               PROVE  \E r \in runs' : r.start = top' /\ TopFree(o.m, o.end, r)
      BY <1>3, <1>4 DEF TopInv
<1>6. o.foreign = {} /\ o.start < top /\ top' = top /\ top # NoSlice
      BY <1>2, <1>5
<1>7. PICK r \in runs : r.start = top /\ TopFree(m, end, r)
      BY <1>6 DEF TopInv
<1>8. /\ r.start \in Nat /\ r.count \in Nat \ {0} /\ r.start \in Owned
      /\ r.start \notin m.free /\ r.start < end
  <2>1. r.start \in Nat /\ r.count \in Nat \ {0}
        BY <1>3, RunFields
  <2>2. r.start \in Slices(r)
        BY <2>1, Spans DEF Slices
  <2>3. r.start \in Owned
        BY <2>2 DEF Owned
  <2> QED BY <1>3, <2>1, <2>3 DEF IInv, MapInv
<1>9. CASE o.m = m /\ o.end = end
      BY <1>4, <1>6, <1>7, <1>9
<1>10. CASE o \in Take(m, end, Lowest(Fits(m, c, a)), c, {}, 0)
  <2>1. /\ o.m = Claim(m, Span(o.start, c)) /\ o.end = end
        /\ o.start \in m.free /\ Span(o.start, c) \subseteq m.free
        BY <1>10 DEF Take, Outcome, Lowest, Fits
  <2>2. o.start \in Nat
        BY <1>3, <2>1, Limits
  <2>3. \A x \in Span(o.start, c) : x < r.start
        BY <1>1, <1>6, <1>7, <1>8, <2>1, <2>2, WholeBelow
  <2>4. Span(o.start, c) \in SUBSET Nat
        BY <1>1, <2>2, Spans
  <2>5. TopFree(Claim(m, Span(o.start, c)), end, r)
        BY <1>3, <1>7, <1>8, <2>3, <2>4, BelowTop
  <2> QED BY <1>4, <1>6, <1>7, <2>1, <2>5
<1>11. CASE /\ Fits(m, c, a) = {}
            /\ \E n \in Nat : LET mn == AddRegion(m, end, n)
                              IN  o \in Take(mn, end + n, Lowest(Fits(mn, c, a)), c, {}, 1)
  <2>1. PICK n \in Nat : LET mn == AddRegion(m, end, n)
                         IN  o \in Take(mn, end + n, Lowest(Fits(mn, c, a)), c, {}, 1)
        BY <1>11
  <2> DEFINE F == AddRegion(m, end, n).free
  <2>2. o.start \in F /\ o.start % a = 0 /\ Span(o.start, c) \subseteq F
        BY <2>1 DEF Take, Outcome, Lowest, Fits
  <2>3. o.start \in Nat
    <3>1. AddRegion(m, end, n) \in Maps
          BY <1>3, RegionTyped
    <3> QED BY <2>2, <3>1, Limits
  <2>4. r.start \notin F
        BY <1>3, <1>8, RegionAdds
  <2>5. \A x \in Span(o.start, c) : x < r.start
    <3> HIDE DEF F
    <3> QED BY <1>1, <1>6, <1>7, <1>8, <2>2, <2>3, <2>4, WholeBelow
  <2>6. ASSUME NEW x \in Span(o.start, c) PROVE x \in m.free
    <3>1. x \in Nat /\ x < end
          BY <1>1, <1>3, <1>8, <2>3, <2>5, Spans
    <3> QED BY <1>3, <2>2, <3>1, RegionAdds
  <2>7. o.start \in Span(o.start, c)
        BY <1>1, <2>3, Spans
  <2> HIDE DEF F
  <2>8. o.start \in Fits(m, c, a)
        BY <2>2, <2>6, <2>7 DEF Fits
  <2> QED BY <1>11, <2>8
<1> QED BY <1>1, <1>3, <1>6, <1>9, <1>10, <1>11, AcquireCases

LEMMA ExtendTop ==
    ASSUME IInv, TopInv, NEW q \in runs, NEW c \in Counts, ExtendRun(q, c)
    PROVE  TopInv'
<1> DEFINE n == [q EXCEPT !.count = @ + c]
           S == Span(q.start + q.count, c)
<1>1. PICK o \in ExtendWithGrowth(m, end, q.start, q.count, c) :
        /\ Apply(o)
        /\ IF o.start = NoSlice
           THEN /\ UNCHANGED <<runs, written>>
                /\ top' = IF o.foreign = {} THEN top ELSE NoSlice
           ELSE /\ runs' = (runs \ {q}) \cup {n}
                /\ written' = written \cup S
                /\ top' = IF o.grows > 0 THEN q.start ELSE top
      BY DEF ExtendRun
<1>2. m' = o.m /\ end' = o.end /\ inited' = inited
      BY <1>1 DEF Apply, ExtendRun
<1>3. inited /\ m \in Maps /\ end \in Nat /\ m.base <= end /\ TypeOK
  <2>1. inited
        BY DEF IInv, Untouched
  <2> QED BY <2>1 DEF IInv, MapInv
<1>4. /\ q.start \in Nat /\ q.count \in Nat \ {0} /\ c \in Nat
      /\ n.start = q.start /\ n.count = q.count + c /\ q.start # NoSlice
  <2>1. q \in [start : Nat, count : Nat \ {0}, align : Nat \ {0}]
        BY <1>3 DEF TypeOK
  <2> QED BY <2>1, GrowthAssumption DEF NoSlice
<1> HIDE DEF n
<1>5. CASE /\ CanExtend(m, q.start, q.count, c)
           /\ o.m = Claim(m, S) /\ o.end = end /\ o.start = q.start /\ o.grows = 0
  <2>1. runs' = (runs \ {q}) \cup {n} /\ top' = top
        BY <1>1, <1>4, <1>5
  <2>2. SUFFICES ASSUME top # NoSlice
                 PROVE  \E r \in runs' : r.start = top /\ TopFree(o.m, end, r)
        BY <1>2, <1>3, <1>5, <2>1 DEF TopInv
  <2>3. PICK r \in runs : r.start = top /\ TopFree(m, end, r)
        BY <2>2 DEF TopInv
  <2>4. CASE r = q
    <3>1. TopFree(o.m, end, n)
          BY <1>3, <1>4, <1>5, <2>3, <2>4, ExtendedTop
    <3> QED BY <1>4, <2>1, <2>3, <2>4, <3>1
  <2>5. CASE r # q
    <3>1. TopFree(o.m, end, r)
          BY <1>3, <1>4, <1>5, <2>3, <2>5, OtherExtended
    <3> QED BY <2>1, <2>3, <2>5, <3>1
  <2> QED BY <2>4, <2>5
<1>6. CASE o.m = m /\ o.end = end /\ o.start = NoSlice /\ o.grows = 0
  <2>1. runs' = runs /\ m' = m /\ end' = end /\ (top' = top \/ top' = NoSlice)
        BY <1>1, <1>2, <1>6
  <2> QED BY <1>2, <2>1 DEF TopInv
<1>7. CASE o.start = NoSlice /\ o.foreign # {}
  <2>1. top' = NoSlice
        BY <1>1, <1>7
  <2> QED BY <2>1 DEF TopInv
<1>8. CASE /\ AtTop(m, end, q.start, q.count, c)
           /\ \E k \in Nat : GrownInPlace(o, m, end, q.start, q.count, c, k)
  <2>1. PICK k \in Nat : GrownInPlace(o, m, end, q.start, q.count, c, k)
        BY <1>8
  <2>2. o.start = q.start /\ o.grows = 1
        BY <2>1 DEF GrownInPlace
  <2>3. runs' = (runs \ {q}) \cup {n} /\ top' = q.start
        BY <1>1, <1>4, <2>2
  <2>4. TopFree(o.m, o.end, n)
        BY <1>3, <1>4, <1>8, <2>1, GrownTop
  <2> QED BY <1>2, <1>3, <1>4, <2>3, <2>4 DEF TopInv
<1> QED BY <1>3, <1>4, <1>5, <1>6, <1>7, <1>8, ExtendCases

LEMMA SpecTopInv == Spec => []TopInv
<1>1. Init => TopInv
      BY DEF Init, TopInv
<1>2. IInv /\ TopInv /\ [Next]_vars => TopInv'
  <2> SUFFICES ASSUME IInv, TopInv, [Next]_vars PROVE TopInv'
      OBVIOUS
  <2>1. CASE EnsureInit
    <3>1. top' = top /\ top = NoSlice
          BY <2>1 DEF EnsureInit, IInv, Untouched
    <3> QED BY <3>1 DEF TopInv
  <2>2. ASSUME NEW c \in Counts, NEW a \in Aligns, AcquireRun(c, a) PROVE TopInv'
        BY <2>2, AcquireTop
  <2>3. ASSUME NEW c \in Counts, NEW a \in Aligns, AllocTailRun(c, a) PROVE TopInv'
        BY <2>3, TailRunTop
  <2>4. ASSUME NEW r \in runs, FreeRun(r) PROVE TopInv'
        BY <2>4, FreeTop
  <2>5. ASSUME NEW r \in runs, NEW c \in Counts, ShrinkRun(r, c) PROVE TopInv'
        BY <2>5, ShrinkTop
  <2>6. ASSUME NEW r \in runs, NEW c \in Counts, ExtendRun(r, c) PROVE TopInv'
        BY <2>6, ExtendTop
  <2>7. ASSUME NEW k \in Gaps \ {0}, OtherGrow(k) PROVE TopInv'
        BY <2>7 DEF OtherGrow, TopInv
  <2>8. CASE UNCHANGED vars
        BY <2>8 DEF vars, TopInv, TopFree, Limit
  <2> QED BY <2>1, <2>2, <2>3, <2>4, <2>5, <2>6, <2>7, <2>8 DEF Next
<1> QED BY <1>1, <1>2, SpecIInv, PTL DEF Spec

\* A run at the top of memory is extended in place, whatever is missing, as
\* far as the limits and the engine allow: a growing buffer is never copied.
THEOREM TopRunExtendsAlways == Spec => []TopRunExtends
<1>1. IInv /\ TopInv => TopRunExtends
  <2> SUFFICES ASSUME IInv, TopInv, top # NoSlice PROVE TopRunExtends
      BY DEF TopRunExtends
  <2>1. PICK r \in runs : r.start = top /\ TopFree(m, end, r)
        BY DEF TopInv
  <2>2. /\ m \in Maps /\ end \in Nat /\ m.base <= end /\ TypeOK
        /\ MapInv(m, end, Owned, foreign, written)
        BY DEF IInv, TopInv, MapInv
  <2>3. r.start \in Nat /\ r.count \in Nat \ {0}
        BY <2>2, RunFields
  <2>4. /\ UsableLimit(m) \in Nat /\ Limit(m) \in Nat /\ UsableLimit(m) <= Limit(m)
        BY <2>2, Limits
  <2>5. r.start + r.count <= end
    <3>1. r.start + r.count - 1 \in Slices(r)
          BY <2>3 DEF Slices, Span
    <3>2. r.start + r.count - 1 \in Owned
          BY <3>1 DEF Owned
    <3> QED BY <2>2, <2>3, <3>2 DEF MapInv
  <2>6. ASSUME NEW c \in Counts, top + r.count + c <= Least(UsableLimit(m), MemMax)
        PROVE  \E o \in ExtendWithGrowth(m, end, top, r.count, c) : o.start = top
    <3> DEFINE tail == r.start + r.count
    <3>1. c \in Nat \ {0} /\ MemMax \in Nat /\ 0 \in Gaps
          BY GrowthAssumption, SliceAssumption
    <3>2. tail + c <= UsableLimit(m) /\ tail + c <= MemMax /\ tail \in Nat
          BY <2>1, <2>3, <2>4, <2>6, <3>1 DEF Least
    <3>3. CASE CanExtend(m, top, r.count, c)
          BY <3>3 DEF ExtendWithGrowth, TryExtend, Outcome
    <3>4. CASE ~CanExtend(m, top, r.count, c)
      <4>1. end - tail < c
        <5>1. SUFFICES ASSUME tail + c <= end PROVE FALSE
              BY <2>2, <3>1, <3>2
        <5>2. Span(tail, c) \subseteq m.free
          <6>1. \A x \in Span(tail, c) : x \in Nat /\ tail <= x /\ x < end /\ x < Limit(m)
                BY <2>2, <2>4, <3>1, <3>2, <5>1 DEF Span
          <6> QED BY <2>1, <6>1 DEF TopFree
        <5> QED BY <2>1, <2>4, <3>1, <3>2, <3>4, <5>2 DEF CanExtend
      <4>2. end <= UsableLimit(m) /\ end - tail \in Nat
            BY <2>2, <2>4, <2>5, <3>1, <3>2, <4>1
      <4>3. Span(tail, end - tail) \subseteq m.free
        <5>1. \A x \in Span(tail, end - tail) :
                 x \in Nat /\ tail <= x /\ x < end /\ x < Limit(m)
              BY <2>2, <2>4, <3>2, <4>2 DEF Span
        <5> QED BY <2>1, <5>1 DEF TopFree
      <4>4. AtTop(m, end, top, r.count, c)
            BY <2>1, <2>2, <2>4, <2>5, <3>1, <3>2, <4>1, <4>2, <4>3 DEF AtTop
      <4> DEFINE need == c - (end - tail)
                 aa   == AddRegion(m, end, need)
                 New  == Span(tail, c)
                 g    == [start |-> end, count |-> need]
                 o    == Outcome(Claim(aa, New), end + need, top, AllZero(aa, New), {}, 1)
                 want == Least(Greatest(need, GrowthStep(m, end)), UsableLimit(m) - end)
      <4>5. need \in Nat /\ need <= UsableLimit(m) - end /\ end + need <= MemMax
            BY <2>2, <2>4, <3>1, <3>2, <4>1, <4>2
      <4>6. CanExtend(aa, top, r.count, c)
            BY <2>1, <2>2, <2>3, <3>1, <4>4, <4>5, RegionExtends
      <4>7. g \in Grown(end, want, need)
        <5>1. end \in Regions(end, need)
          <6>1. end = end + 0 /\ end + 0 + need <= MemMax
                BY <2>2, <4>5
          <6> QED BY <3>1, <6>1 DEF Regions
        <5> QED BY <5>1 DEF Grown
      <4>8. o \in GrowAndExtend(m, end, top, r.count, c)
            BY <2>1, <4>4, <4>6, <4>7 DEF GrowAndExtend
      <4>9. o \in ExtendWithGrowth(m, end, top, r.count, c) /\ o.start = top
            BY <3>4, <4>8 DEF ExtendWithGrowth, Outcome
      <4> QED BY <4>9
    <3> QED BY <3>3, <3>4
  <2> QED BY <2>1, <2>6 DEF TopRunExtends
<1> QED BY <1>1, SpecIInv, SpecTopInv, PTL
=============================================================================
