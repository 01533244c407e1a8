---------------------------- MODULE BackendProofs ----------------------------
(***************************************************************************)
(* Proof that the three memories of module Backend keep the contract of    *)
(* the Memory trait, for every region, slice size and address space, when  *)
(* nobody grows a simulated memory, or one whose heap base is a link-time  *)
(* constant, before the heap's first use.                                  *)
(*                                                                         *)
(* The contract is not inductive: that a grown slice is fresh and zero     *)
(* rests on what lies above the end of memory, which the contract does not *)
(* speak of, and the refinement needs to know why nobody else has a claim  *)
(* on what the heap takes at its first use.                                *)
(***************************************************************************)
EXTENDS Backend, TLAPS

\* Before the first use the heap has nothing, and what it is about to take is
\* nobody else's: the rest of a region, or what lies above the static data.
\* On wasi it takes nothing, so this is asked of the other two.
BaseFree ==
    ~begun =>
        /\ ours = {}
        /\ kind = "sim" => theirs \cap (First .. (Top - 1)) = {}
        /\ kind = "unknown" => theirs = 0 .. (FirstWhole(base) - 1)

\* Above the end of memory nothing is the heap's, nothing somebody else's that
\* the memory could still grow into, and on wasm nothing was ever written.  On
\* wasi the heap's slices lie above the memory the program was linked with.
EndBounds ==
    /\ ours \subseteq 0 .. (end - 1)
    /\ kind = "sim" => /\ end <= Top /\ base >= First * SliceUnits
                       /\ theirs \cap (end .. (Top - 1)) = {}
    /\ kind # "sim" => theirs \cup dirty \subseteq 0 .. (end - 1)
    /\ kind = "wasi" => ours \subseteq linked .. (end - 1)

TypeOK ==
    /\ kind \in {"sim", "unknown", "wasi"} /\ begun \in BOOLEAN
    /\ base \in Nat /\ linked \in 0 .. end /\ end \in 0 .. (MaxSliceIndex + 1)

IInv == TypeOK /\ EndBounds /\ BaseFree /\ ours \cap theirs = {}

-----------------------------------------------------------------------------
(* Division.                                                               *)

LEMMA DivFacts ==
    ASSUME NEW a \in Nat, NEW s \in Nat \ {0}
    PROVE  a \div s \in Nat /\ s * (a \div s) <= a /\ a < s * (a \div s) + s
OBVIOUS

LEMMA MulGap ==
    ASSUME NEW a \in Nat, NEW b \in Nat, NEW s \in Nat \ {0}, a < b
    PROVE  s * a + s <= s * b
<1>1. b - a \in Nat /\ b - a >= 1
      OBVIOUS
<1>2. s * (b - a) >= s
      BY <1>1, SMTT(30)
<1>3. s * b = s * a + s * (b - a)
      BY SMTT(30)
<1> QED BY <1>2, <1>3

\* initial_free_range rounds up: the first whole slice is not below a slice
\* whose start is not above the address.
LEMMA WholeAbove ==
    ASSUME NEW a \in Nat, NEW f \in Nat, f * SliceUnits <= a
    PROVE  FirstWhole(a) \in Nat /\ FirstWhole(a) >= f
<1> DEFINE b == a + SliceUnits - 1
           d == b \div SliceUnits
<1>1. SliceUnits \in Nat \ {0} /\ b \in Nat /\ f * SliceUnits <= b
      BY BackendAssumption
<1>2. d \in Nat /\ b < SliceUnits * d + SliceUnits
      BY <1>1, DivFacts
<1>3. d = FirstWhole(a)
      BY DEF FirstWhole
<1> HIDE DEF b, d
<1>4. f * SliceUnits = SliceUnits * f /\ SliceUnits * f \in Nat /\ SliceUnits * d \in Nat
      BY <1>1, <1>2
<1>5. ~(d < f)
      BY <1>1, <1>2, <1>4, MulGap
<1> QED BY <1>2, <1>3, <1>5

\* And it is not above the end of memory if the address is not.
LEMMA WholeBelow ==
    ASSUME NEW a \in Nat, NEW e \in Nat, a <= e * SliceUnits
    PROVE  FirstWhole(a) <= e
<1> DEFINE b == a + SliceUnits - 1
           d == b \div SliceUnits
<1>1. SliceUnits \in Nat \ {0} /\ b \in Nat /\ b < e * SliceUnits + SliceUnits
      BY BackendAssumption
<1>2. d \in Nat /\ SliceUnits * d <= b
      BY <1>1, DivFacts
<1>3. d = FirstWhole(a)
      BY DEF FirstWhole
<1> HIDE DEF b, d
<1>4. e * SliceUnits = SliceUnits * e /\ SliceUnits * e \in Nat /\ SliceUnits * d \in Nat
      BY <1>1, <1>2
<1>5. ~(e < d)
      BY <1>1, <1>2, <1>4, MulGap
<1> QED BY <1>2, <1>3, <1>5

\* Nothing lies between the end of memory and the first whole slice from there.
LEMMA WholeAtEnd ==
    ASSUME NEW e \in Nat
    PROVE  FirstWhole(e * SliceUnits) >= e
<1>1. e * SliceUnits \in Nat
      BY BackendAssumption
<1> QED BY <1>1, WholeAbove

\* Nor when the base is the last address, because the end has none.
LEMMA WholeAtLast ==
    ASSUME NEW e \in Nat \ {0}
    PROVE  FirstWhole(e * SliceUnits - 1) >= e
<1> DEFINE b == e * SliceUnits - 1 + SliceUnits - 1
           d == b \div SliceUnits
<1>1. SliceUnits \in Nat \ {0} /\ e * SliceUnits = SliceUnits * e
      BY BackendAssumption
<1>2. SliceUnits * e \in Nat /\ SliceUnits * e >= SliceUnits
      <2>1. e = 1 \/ 1 < e
            OBVIOUS
      <2>2. SliceUnits * 1 = SliceUnits
            BY <1>1
      <2>3. 1 < e => SliceUnits * 1 + SliceUnits <= SliceUnits * e
            BY <1>1, MulGap
      <2>4. SliceUnits * e \in Nat
            BY <1>1
      <2> QED BY <1>1, <2>1, <2>2, <2>3, <2>4
<1>3. b \in Nat /\ b >= SliceUnits * e
      BY <1>1, <1>2, BackendAssumption
<1>4. d \in Nat /\ b < SliceUnits * d + SliceUnits
      BY <1>1, <1>3, DivFacts
<1>5. d = FirstWhole(e * SliceUnits - 1)
      BY DEF FirstWhole
<1> HIDE DEF b, d
<1>6. ~(d < e)
      BY <1>1, <1>2, <1>3, <1>4, MulGap
<1> QED BY <1>4, <1>5, <1>6

-----------------------------------------------------------------------------
(* The invariant.                                                          *)

LEMMA InitIInv == Init => IInv
<1> USE BackendAssumption
<1>1. ASSUME Init, InitSim PROVE IInv
  <2>1. PICK initial \in 1 .. Capacity :
           /\ end = First + initial
           /\ base \in (First * SliceUnits) .. ((First + initial) * SliceUnits - 1)
        BY <1>1 DEF InitSim
  <2>2. First * SliceUnits \in Nat
        OBVIOUS
  <2>3. base \in Nat /\ base >= First * SliceUnits
        BY <2>1, <2>2
  <2>4. kind = "sim" /\ ours = {} /\ linked = end /\ begun = FALSE
        BY <1>1 DEF Init, InitSim
  <2>5. theirs \cap (First .. (Top - 1)) = {}
        BY <1>1 DEF InitSim
  <2>6. end \in Nat /\ end > First /\ end <= Top /\ end <= MaxSliceIndex + 1
        BY <2>1 DEF Top
  <2>7. TypeOK
    <3>1. linked \in 0 .. end /\ end \in 0 .. (MaxSliceIndex + 1)
          BY <2>4, <2>6
    <3>2. begun \in BOOLEAN
          BY <2>4
    <3> QED BY <2>3, <2>4, <3>1, <3>2 DEF TypeOK
  <2>8. theirs \cap (end .. (Top - 1)) = {}
        BY <2>5, <2>6 DEF Top
  <2> QED BY <2>3, <2>4, <2>5, <2>6, <2>7, <2>8 DEF IInv, EndBounds, BaseFree
<1>2. ASSUME Init, InitWasm PROVE IInv
  <2>1. kind \in {"unknown", "wasi"} /\ end \in 1 .. (MaxSliceIndex + 1)
        BY <1>2 DEF InitWasm
  <2>2. end * SliceUnits \in Nat
        BY <2>1
  <2>3. base \in Nat /\ base <= end * SliceUnits /\ theirs = 0 .. (FirstWhole(base) - 1)
        BY <1>2, <2>2 DEF InitWasm
  <2>4. FirstWhole(base) <= end
        BY <2>1, <2>3, WholeBelow
  <2>5. 0 * SliceUnits <= base
        BY <2>3
  <2>6. FirstWhole(base) \in Nat
        BY <2>3, <2>5, WholeAbove
  <2>7. theirs \subseteq 0 .. (end - 1)
        BY <2>1, <2>3, <2>4, <2>6
  <2>8. dirty \subseteq 0 .. (end - 1)
        BY <1>2 DEF InitWasm
  <2>9. ours = {} /\ linked = end /\ begun = FALSE
        BY <1>2 DEF Init
  <2>10. TypeOK
    <3>1. linked \in 0 .. end /\ end \in 0 .. (MaxSliceIndex + 1)
          BY <2>1, <2>9
    <3>2. begun \in BOOLEAN
          BY <2>9
    <3> QED BY <2>1, <2>3, <3>1, <3>2 DEF TypeOK
  <2>11. EndBounds /\ BaseFree
         BY <2>1, <2>3, <2>7, <2>8, <2>9 DEF EndBounds, BaseFree
  <2> QED BY <2>9, <2>10, <2>11 DEF IInv
<1> QED BY <1>1, <1>2 DEF Init

\* What the heap takes at its first use lies below the end of memory and is
\* nobody else's; on wasi it is nothing.
LEMMA BeginTakes ==
    ASSUME IInv, ~begun
    PROVE  /\ FirstWhole(HeapBase) \in Nat
           /\ ((FirstWhole(HeapBase) .. (end - 1)) \cap theirs) = {}
           /\ kind = "wasi" => (FirstWhole(HeapBase) .. (end - 1)) = {}
<1> DEFINE f == FirstWhole(HeapBase)
<1>0. TypeOK /\ EndBounds /\ BaseFree
      BY DEF IInv
<1>1. HeapBase \in Nat /\ f \in Nat
  <2>1. end * SliceUnits \in Nat
        BY <1>0, BackendAssumption DEF TypeOK
  <2>2. (MaxSliceIndex + 1) * SliceUnits - 1 \in Nat
    <3>1. SliceUnits * 0 + SliceUnits <= SliceUnits * (MaxSliceIndex + 1)
          BY BackendAssumption, MulGap
    <3> QED BY <3>1, BackendAssumption
  <2>3. HeapBase \in Nat
        BY <1>0, <2>1, <2>2 DEF HeapBase, TypeOK
  <2>4. 0 * SliceUnits <= HeapBase
        BY <2>3, BackendAssumption
  <2> QED BY <2>3, <2>4, WholeAbove
<1>2. CASE kind = "sim"
  <2>1. f >= First
        BY <1>0, <1>1, <1>2, WholeAbove, BackendAssumption DEF EndBounds, HeapBase
  <2>2. f .. (end - 1) \subseteq First .. (Top - 1)
        BY <1>0, <1>1, <1>2, <2>1, BackendAssumption DEF EndBounds, TypeOK, Top
  <2> QED BY <1>0, <1>1, <1>2, <2>2 DEF BaseFree
<1>3. CASE kind = "unknown"
  <2>1. theirs = 0 .. (f - 1)
        BY <1>0, <1>3 DEF BaseFree, HeapBase
  <2> QED BY <1>1, <1>3, <2>1
<1>4. CASE kind = "wasi"
  <2>1. CASE end <= MaxSliceIndex
    <3>1. f >= end
          BY <1>0, <1>4, <2>1, WholeAtEnd DEF HeapBase, TypeOK
    <3> QED BY <1>0, <1>1, <3>1 DEF TypeOK
  <2>2. CASE ~(end <= MaxSliceIndex)
    <3>1. f >= MaxSliceIndex + 1
          BY <1>4, <2>2, WholeAtLast, BackendAssumption DEF HeapBase
    <3> QED BY <1>0, <1>1, <3>1, BackendAssumption DEF TypeOK
  <2> QED BY <2>1, <2>2
<1> QED BY <1>0, <1>2, <1>3, <1>4 DEF TypeOK

\* One step per action: begin takes what BeginTakes says; a grow takes slices
\* at the end of memory, above everything that has an owner.
LEMMA NextIInv ==
    ASSUME ~EarlyOthers, IInv, [Next]_vars
    PROVE  IInv'
<1> USE BackendAssumption
<1>0. TypeOK /\ EndBounds /\ BaseFree /\ ours \cap theirs = {}
      BY DEF IInv
<1>1. CASE Begin
  <2>1. /\ FirstWhole(HeapBase) \in Nat
        /\ ((FirstWhole(HeapBase) .. (end - 1)) \cap theirs) = {}
        /\ kind = "wasi" => (FirstWhole(HeapBase) .. (end - 1)) = {}
        BY <1>1, BeginTakes DEF Begin
  <2>2. /\ ours' = FirstWhole(HeapBase) .. (end - 1) /\ begun' = TRUE
        /\ UNCHANGED <<kind, linked, end, base, theirs, dirty>>
        BY <1>1 DEF Begin
  <2>3. TypeOK' /\ BaseFree'
        BY <1>0, <2>2 DEF TypeOK, BaseFree
  <2>4. EndBounds'
        BY <1>0, <2>1, <2>2 DEF EndBounds, TypeOK, Top
  <2> QED BY <2>1, <2>2, <2>3, <2>4 DEF IInv
<1>2. ASSUME NEW n \in 1 .. (MaxSliceIndex + 1), SimGrow(n) PROVE IInv'
  <2>1. /\ kind = "sim" /\ begun /\ end + n <= Top /\ end' = end + n
        /\ ours' = ours \cup (end .. (end + n - 1))
        /\ UNCHANGED <<kind, linked, base, begun, theirs>>
        BY <1>2 DEF SimGrow
  <2>2. end \in Nat /\ end + n <= MaxSliceIndex + 1
        BY <1>0, <2>1 DEF TypeOK, Top
  <2>3. (end .. (end + n - 1)) \cap theirs = {}
        BY <1>0, <2>1, <2>2 DEF EndBounds, Top
  <2>4. TypeOK' /\ BaseFree'
        BY <1>0, <2>1, <2>2 DEF TypeOK, BaseFree
  <2>5. ours' \subseteq 0 .. (end' - 1)
        BY <1>0, <2>1, <2>2 DEF EndBounds
  <2>6. theirs' \cap (end' .. (Top - 1)) = {}
        BY <1>0, <2>1, <2>2 DEF EndBounds, Top
  <2>7. EndBounds'
        BY <1>0, <2>1, <2>5, <2>6 DEF EndBounds, Top
  <2> QED BY <1>0, <2>1, <2>3, <2>4, <2>7 DEF IInv
<1>3. ASSUME NEW n \in 1 .. (MaxSliceIndex + 1), SkipSlices(n) PROVE IInv'
  <2>1. /\ kind = "sim" /\ begun /\ end + n <= Top /\ end' = end + n
        /\ theirs' = theirs \cup (end .. (end + n - 1))
        /\ UNCHANGED <<kind, linked, base, begun, ours, dirty>>
        BY <1>3 DEF SkipSlices
  <2>2. end \in Nat /\ end + n <= MaxSliceIndex + 1
        BY <1>0, <2>1 DEF TypeOK, Top
  <2>3. ours \cap (end .. (end + n - 1)) = {}
        BY <1>0, <2>2 DEF EndBounds
  <2>4. TypeOK' /\ BaseFree'
        BY <1>0, <2>1, <2>2 DEF TypeOK, BaseFree
  <2>5. ours' \subseteq 0 .. (end' - 1)
        BY <1>0, <2>1, <2>2 DEF EndBounds
  <2>6. theirs' \cap (end' .. (Top - 1)) = {}
        BY <1>0, <2>1, <2>2 DEF EndBounds, Top
  <2>7. EndBounds'
        BY <1>0, <2>1, <2>5, <2>6 DEF EndBounds, Top
  <2> QED BY <1>0, <2>1, <2>3, <2>4, <2>7 DEF IInv
<1>4. ASSUME NEW n \in 1 .. (MaxSliceIndex + 1), WasmGrow(n) PROVE IInv'
  <2>1. /\ kind # "sim" /\ begun /\ end + n <= MaxSliceIndex + 1 /\ end' = end + n
        /\ ours' = ours \cup (end .. (end + n - 1))
        /\ UNCHANGED <<kind, linked, base, begun, theirs, dirty>>
        BY <1>4 DEF WasmGrow
  <2>2. end \in Nat /\ linked <= end /\ linked \in Nat
        BY <1>0 DEF TypeOK
  <2>3. (end .. (end + n - 1)) \cap theirs = {}
        BY <1>0, <2>1, <2>2 DEF EndBounds
  <2>4. TypeOK' /\ BaseFree'
        BY <1>0, <2>1, <2>2 DEF TypeOK, BaseFree
  <2>5. ours' \subseteq 0 .. (end' - 1)
        BY <1>0, <2>1, <2>2 DEF EndBounds
  <2>6. theirs' \cup dirty' \subseteq 0 .. (end' - 1)
        BY <1>0, <2>1, <2>2 DEF EndBounds
  <2>7. kind = "wasi" => ours' \subseteq linked .. (end' - 1)
        BY <1>0, <2>1, <2>2 DEF EndBounds
  <2>8. EndBounds'
        BY <2>1, <2>5, <2>6, <2>7 DEF EndBounds
  <2> QED BY <1>0, <2>1, <2>3, <2>4, <2>8 DEF IInv
<1>5. ASSUME NEW n \in 1 .. (MaxSliceIndex + 1), OtherGrow(n) PROVE IInv'
  <2>1. /\ kind = "wasi" \/ (kind = "unknown" /\ begun)
        /\ end + n <= MaxSliceIndex + 1 /\ end' = end + n
        /\ theirs' = theirs \cup (end .. (end + n - 1))
        /\ UNCHANGED <<kind, linked, base, begun, ours, dirty>>
        BY <1>5 DEF OtherGrow
  <2>2. end \in Nat /\ linked <= end /\ linked \in Nat
        BY <1>0 DEF TypeOK
  <2>3. ours \cap (end .. (end + n - 1)) = {}
        BY <1>0, <2>2 DEF EndBounds
  <2>4. TypeOK' /\ BaseFree'
        BY <1>0, <2>1, <2>2 DEF TypeOK, BaseFree
  <2>5. ours' \subseteq 0 .. (end' - 1)
        BY <1>0, <2>1, <2>2 DEF EndBounds
  <2>6. theirs' \cup dirty' \subseteq 0 .. (end' - 1)
        BY <1>0, <2>1, <2>2 DEF EndBounds
  <2>7. kind = "wasi" => ours' \subseteq linked .. (end' - 1)
        BY <1>0, <2>1, <2>2 DEF EndBounds
  <2>8. EndBounds'
        BY <2>1, <2>5, <2>6, <2>7 DEF EndBounds
  <2> QED BY <1>0, <2>1, <2>3, <2>4, <2>8 DEF IInv
<1>6. CASE LibcTakesGap
  <2>1. /\ kind = "wasi" /\ theirs' = theirs \cup (0 .. (linked - 1))
        /\ UNCHANGED <<kind, linked, end, base, begun, ours, dirty>>
        BY <1>6 DEF LibcTakesGap
  <2>2. ours \cap (0 .. (linked - 1)) = {}
        BY <1>0, <2>1 DEF EndBounds, TypeOK
  <2>3. TypeOK' /\ BaseFree'
        BY <1>0, <2>1 DEF TypeOK, BaseFree
  <2>4. theirs' \cup dirty' \subseteq 0 .. (end' - 1)
        BY <1>0, <2>1 DEF EndBounds, TypeOK
  <2>5. EndBounds'
        BY <1>0, <2>1, <2>4 DEF EndBounds
  <2> QED BY <1>0, <2>1, <2>2, <2>3, <2>5 DEF IInv
<1>7. ASSUME NEW s \in Slices, Write(s) PROVE IInv'
  <2>1. /\ s < end /\ dirty' = dirty \cup {s}
        /\ UNCHANGED <<kind, linked, end, base, begun, ours, theirs>>
        BY <1>7 DEF Write
  <2>2. s \in 0 .. (end - 1)
        BY <1>0, <2>1 DEF Slices, TypeOK
  <2>3. TypeOK' /\ BaseFree'
        BY <1>0, <2>1 DEF TypeOK, BaseFree
  <2>4. EndBounds'
        BY <1>0, <2>1, <2>2 DEF EndBounds
  <2> QED BY <1>0, <2>1, <2>3, <2>4 DEF IInv
<1>8. CASE UNCHANGED vars
      BY <1>0, <1>8 DEF IInv, TypeOK, EndBounds, BaseFree, vars
<1> QED BY <1>1, <1>2, <1>3, <1>4, <1>5, <1>6, <1>7, <1>8 DEF Next

-----------------------------------------------------------------------------
(* The refinement.                                                         *)

\* Every step of a memory is a step of the contract: what a grow adds to the
\* heap's slices is zero, because it was never written or was just cleared,
\* and what somebody else takes was not the heap's.
LEMMA StepRefines ==
    ASSUME ~EarlyOthers, IInv, [Next]_vars
    PROVE  [Contract!Next]_(Contract!vars)
<1> DEFINE zero == ours \ dirty
<1> USE BackendAssumption
<1>0. TypeOK /\ EndBounds /\ BaseFree /\ ours \cap theirs = {}
      BY DEF IInv
<1>1. ASSUME Begin PROVE Contract!Begin
  <2>1. /\ FirstWhole(HeapBase) \in Nat
        /\ ((FirstWhole(HeapBase) .. (end - 1)) \cap theirs) = {}
        BY <1>1, BeginTakes DEF Begin
  <2>2. /\ ours' = FirstWhole(HeapBase) .. (end - 1) /\ ~begun
        /\ UNCHANGED <<end, theirs, dirty>>
        BY <1>1 DEF Begin
  <2>3. ours = {}
        BY <1>0, <2>2 DEF BaseFree
  <2>4. ours' \subseteq 0 .. (end - 1)
        BY <1>0, <2>1, <2>2 DEF TypeOK
  <2> QED BY <2>1, <2>2, <2>3, <2>4 DEF Contract!Begin
<1>2. ASSUME NEW n \in 1 .. (MaxSliceIndex + 1), end + n <= MaxSliceIndex + 1,
             end' = end + n, ours' = ours \cup (end .. (end + n - 1)),
             theirs' = theirs, zero' = zero \cup (end .. (end + n - 1))
      PROVE  Contract!Grow
  <2>1. end \in end .. MaxSliceIndex /\ end' > end /\ end' <= MaxSliceIndex + 1
        BY <1>0, <1>2 DEF TypeOK
  <2> QED BY <1>2, <2>1 DEF Contract!Grow
<1>3. ASSUME NEW n \in 1 .. (MaxSliceIndex + 1), SimGrow(n) PROVE Contract!Grow
  <2>1. /\ kind = "sim" /\ end + n <= Top /\ end' = end + n /\ theirs' = theirs
        /\ ours' = ours \cup (end .. (end + n - 1))
        /\ dirty' = dirty \ (end .. (end + n - 1))
        BY <1>3 DEF SimGrow
  <2>2. end + n <= MaxSliceIndex + 1
        BY <1>0, <2>1 DEF TypeOK, Top
  <2>3. ours \cap (end .. (end + n - 1)) = {}
        BY <1>0 DEF EndBounds, TypeOK
  <2>4. zero' = zero \cup (end .. (end + n - 1))
        BY <2>1, <2>3
  <2> QED BY <1>2, <2>1, <2>2, <2>4
<1>4. ASSUME NEW n \in 1 .. (MaxSliceIndex + 1), WasmGrow(n) PROVE Contract!Grow
  <2>1. /\ kind # "sim" /\ end + n <= MaxSliceIndex + 1 /\ end' = end + n
        /\ ours' = ours \cup (end .. (end + n - 1))
        /\ UNCHANGED <<theirs, dirty>>
        BY <1>4 DEF WasmGrow
  <2>2. dirty \cap (end .. (end + n - 1)) = {}
        BY <1>0, <2>1 DEF EndBounds, TypeOK
  <2>3. zero' = zero \cup (end .. (end + n - 1))
        BY <2>1, <2>2
  <2> QED BY <1>2, <2>1, <2>3
<1>5. ASSUME NEW n \in 1 .. (MaxSliceIndex + 1), SkipSlices(n) \/ OtherGrow(n)
      PROVE  Contract!Elsewhere
  <2>1. /\ end' = end + n /\ theirs' = theirs \cup (end .. (end + n - 1))
        /\ UNCHANGED <<ours, dirty>>
        BY <1>5 DEF SkipSlices, OtherGrow
  <2>2. ours \cap (end .. (end + n - 1)) = {} /\ end + n >= end
        BY <1>0 DEF EndBounds, TypeOK
  <2>3. theirs' \cap ours = {}
        BY <1>0, <2>1, <2>2
  <2> QED BY <2>1, <2>2, <2>3 DEF Contract!Elsewhere
<1>6. ASSUME LibcTakesGap PROVE Contract!Elsewhere
  <2>1. /\ kind = "wasi" /\ theirs' = theirs \cup (0 .. (linked - 1))
        /\ UNCHANGED <<end, ours, dirty>>
        BY <1>6 DEF LibcTakesGap
  <2>2. ours \cap (0 .. (linked - 1)) = {} /\ end >= end
        BY <1>0, <2>1 DEF EndBounds, TypeOK
  <2>3. theirs' \cap ours = {}
        BY <1>0, <2>1, <2>2
  <2> QED BY <2>1, <2>2, <2>3 DEF Contract!Elsewhere
<1>7. ASSUME NEW s \in Slices, Write(s) PROVE Contract!Write
      BY <1>7 DEF Write, Contract!Write
<1>8. ASSUME UNCHANGED vars PROVE UNCHANGED Contract!vars
      BY <1>8 DEF vars, Contract!vars
<1> QED BY <1>1, <1>3, <1>4, <1>5, <1>6, <1>7, <1>8 DEF Next, Contract!Next

\* The memory of each target and the simulated one keep the contract of the
\* Memory trait (its safety section), as long as nobody grows a memory whose
\* heap base is fixed before the heap's first use.
THEOREM MemoryKeepsContract == ASSUME ~EarlyOthers PROVE Spec => KeepsContract
<1>1. Init => IInv /\ Contract!Init
      BY InitIInv DEF Init, Contract!Init
<1>2. IInv /\ [Next]_vars => IInv'
      BY NextIInv
<1>3. IInv /\ [Next]_vars => [Contract!Next]_(Contract!vars)
      BY StepRefines
<1> QED BY <1>1, <1>2, <1>3, PTL DEF Spec, KeepsContract, Contract!Spec
=============================================================================
