----------------------------- MODULE PageProofs -----------------------------
(***************************************************************************)
(* Proofs about module Page, for every number of blocks and batch size:    *)
(* its type invariant, page invariants 3 to 5 of src/src/page.rs, and the  *)
(* two action properties.                                                  *)
(***************************************************************************)
EXTENDS Page, FiniteSetTheorems, TLAPS

\* The inductive invariant is the conjunction of the page invariants: each is
\* needed for the others (the links for what pop hands out, the partition for
\* what push and extend may overwrite, the count for an empty page).
IInv == TypeOK /\ ListSound /\ BlocksPartitioned /\ FlagSound

\* The batch of an extension is not empty and stays inside the page.
LEMMA BatchBounds ==
    ASSUME capacity \in 0 .. Reserved, capacity < Reserved
    PROVE  BatchSize \in Nat /\ BatchSize >= 1 /\ capacity + BatchSize <= Reserved
BY PageAssumption DEF BatchSize

\* A page is initialised with the invariant, whatever its slices hold.
LEMMA InitIInv == Init => IInv
<1> SUFFICES ASSUME Init PROVE IInv
    OBVIOUS
<1>1. TypeOK
      BY PageAssumption DEF Init, TypeOK, Blocks, Nil
<1>2. ListSound
      BY DEF Init, ListSound
<1>3. BlocksPartitioned
      BY FS_EmptySet DEF Init, BlocksPartitioned
<1>4. FlagSound
      BY DEF Init, FlagSound, Blocks
<1> QED BY <1>1, <1>2, <1>3, <1>4 DEF IInv

\* The head of a non-empty list is its first element, free, with the rest of
\* the list behind its link.
LEMMA HeadFacts ==
    ASSUME IInv, free # Nil
    PROVE  /\ list # <<>> /\ Len(list) >= 1 /\ list[1] = free
           /\ free \in Blocks /\ free < capacity /\ free \notin live
           /\ Len(Tail(list)) = Len(list) - 1
           /\ \A k \in 1 .. Len(Tail(list)) : Tail(list)[k] = list[k + 1]
           /\ Tail(list) \in Seq(Blocks)
           /\ \A k \in 1 .. Len(Tail(list)) : list[k + 1] # free
<1>1. list \in Seq(Blocks)
      BY DEF IInv, TypeOK
<1>2. list # <<>> /\ list[1] = free
      BY DEF IInv, ListSound
<1>3. Len(list) \in Nat /\ Len(list) >= 1
      BY <1>1, <1>2
<1>4. free \in Blocks /\ free < capacity /\ free \notin live
      BY <1>1, <1>2, <1>3 DEF IInv, BlocksPartitioned
<1>5. /\ Tail(list) \in Seq(Blocks)
      /\ Len(Tail(list)) = Len(list) - 1
      /\ \A k \in 1 .. Len(Tail(list)) : Tail(list)[k] = list[k + 1]
      BY <1>1, <1>2, <1>3
<1>6. \A k \in 1 .. Len(Tail(list)) : list[k + 1] # list[1]
      BY <1>3, <1>5 DEF IInv, BlocksPartitioned
<1> QED BY <1>2, <1>3, <1>4, <1>5, <1>6

\* The links of the list, element by element.
LEMMA Links ==
    ASSUME IInv
    PROVE  /\ Len(list) \in Nat
           /\ \A k \in 1 .. Len(list) : list[k] \in Blocks
           /\ \A k \in 1 .. (Len(list) - 1) : word[list[k]] = list[k + 1]
           /\ list # <<>> => word[list[Len(list)]] = Nil
<1>1. list \in Seq(Blocks)
      BY DEF IInv, TypeOK
<1>2. Len(list) \in Nat /\ \A k \in 1 .. Len(list) : list[k] \in Blocks
      BY <1>1
<1>3. ASSUME NEW k \in 1 .. (Len(list) - 1)
      PROVE  word[list[k]] = list[k + 1]
      <2>1. k \in 1 .. Len(list) /\ k # Len(list)
            BY <1>2
      <2> QED BY <2>1 DEF IInv, ListSound
<1>4. ASSUME list # <<>> PROVE word[list[Len(list)]] = Nil
      <2>1. Len(list) \in 1 .. Len(list)
            BY <1>1, <1>2, <1>4
      <2> QED BY <2>1 DEF IInv, ListSound
<1> QED BY <1>2, <1>3, <1>4

\* pop, with or without clearing the block that leaves the list.
LEMMA PopKeeps ==
    ASSUME IInv, Pop, capacity' = capacity, isZero' = isZero,
           word' \in [Blocks -> Words], dirty' \in [Blocks -> SUBSET Others],
           \A i \in Blocks \ {free} : word'[i] = word[i] /\ dirty'[i] = dirty[i]
    PROVE  IInv'
<1>p. /\ free # Nil /\ free' = word[free] /\ used' = used + 1
      /\ live' = live \cup {free} /\ list' = Tail(list)
      BY DEF Pop
<1>0. /\ list # <<>> /\ Len(list) \in Nat /\ Len(list) >= 1 /\ list[1] = free
      /\ free \in Blocks /\ free < capacity /\ free \notin live
      /\ Len(list') = Len(list) - 1
      /\ list' \in Seq(Blocks)
      /\ \A k \in 1 .. Len(list') : list'[k] = list[k + 1]
      /\ \A k \in 1 .. Len(list') : list'[k] # free
      /\ \A k \in 1 .. Len(list') : list'[k] \in Blocks
      <2> QED BY <1>p, HeadFacts, Links
<1>len. Len(list) \in Nat /\ Len(list') \in Nat /\ Len(list') = Len(list) - 1
      BY <1>0
<1>1. TypeOK'
      <2>1. free' \in Blocks \cup {Nil}
            <3>1. CASE Len(list) = 1
                  BY <1>p, <1>0, <3>1, Links
            <3>2. CASE Len(list) > 1
                  <4>1. 1 \in 1 .. (Len(list) - 1) /\ 1 + 1 \in 1 .. Len(list)
                        BY <1>p, <1>0, <3>2
                  <4>2. word[list[1]] = list[1 + 1]
                        BY <4>1, Links
                  <4>3. list[1 + 1] \in Blocks
                        BY <4>1, Links
                  <4> QED BY <1>p, <1>0, <4>2, <4>3
            <3> QED BY <1>p, <1>0, <3>1, <3>2
      <2> QED BY <1>p, <1>0, <2>1 DEF IInv, TypeOK
<1>2. ListSound'
      <2>1. free' = IF list' = <<>> THEN Nil ELSE list'[1]
            <3>1. CASE Len(list) = 1
                  <4>1. list' = <<>>
                        BY <1>p, <1>0, <3>1
                  <4>2. word[list[1]] = Nil
                        BY <1>0, <3>1, Links
                  <4> QED BY <1>p, <1>0, <4>1, <4>2
            <3>2. CASE Len(list) > 1
                  <4>1. 1 \in 1 .. (Len(list) - 1) /\ 1 \in 1 .. Len(list')
                        BY <1>p, <1>0, <3>2
                  <4>2. list' # <<>>
                        BY <1>len, <4>1
                  <4>5. list'[1] = list[1 + 1]
                        BY <1>0, <4>1
                  <4>3. word[list[1]] = list[1 + 1]
                        BY <4>1, Links
                  <4> QED BY <1>p, <1>0, <4>2, <4>3, <4>5
            <3> QED BY <1>0, <3>1, <3>2
      <2>2. ASSUME NEW k \in 1 .. Len(list')
            PROVE  word'[list'[k]] = IF k = Len(list') THEN Nil ELSE list'[k + 1]
            <3>1. word'[list'[k]] = word[list'[k]]
                  BY <1>p, <1>0
            <3>2. k + 1 \in 1 .. Len(list) /\ list'[k] = list[k + 1]
                  BY <1>p, <1>0
            <3>3. CASE k = Len(list')
                  <4>1. k + 1 = Len(list)
                        BY <1>p, <1>0, <3>3
                  <4>2. word[list[Len(list)]] = Nil
                        BY <1>0, Links
                  <4> QED BY <3>1, <3>2, <3>3, <4>1, <4>2
            <3>4. CASE k # Len(list')
                  <4>1. k + 1 \in 1 .. (Len(list) - 1) /\ k + 1 \in 1 .. Len(list')
                        BY <1>len, <3>4
                  <4>2. word[list[k + 1]] = list[(k + 1) + 1]
                        BY <4>1, Links
                  <4>3. list'[k + 1] = list[(k + 1) + 1]
                        BY <1>p, <1>0, <4>1
                  <4> QED BY <3>1, <3>2, <3>4, <4>2, <4>3
            <3> QED BY <3>3, <3>4
      <2> QED BY <2>1, <2>2 DEF ListSound
<1>3. BlocksPartitioned'
      <2>1. Len(list') = capacity' - used'
            BY <1>p, <1>0 DEF IInv, TypeOK, BlocksPartitioned
      <2>2. \A j, k \in 1 .. Len(list') : j # k => list'[j] # list'[k]
            <3> SUFFICES ASSUME NEW j \in 1 .. Len(list'), NEW k \in 1 .. Len(list'),
                                j # k
                         PROVE  list'[j] # list'[k]
                OBVIOUS
            <3>1. /\ j + 1 \in 1 .. Len(list) /\ k + 1 \in 1 .. Len(list)
                  /\ j + 1 # k + 1
                  /\ list'[j] = list[j + 1] /\ list'[k] = list[k + 1]
                  BY <1>p, <1>0
            <3> QED BY <3>1 DEF IInv, BlocksPartitioned
      <2>3. \A k \in 1 .. Len(list') : list'[k] < capacity' /\ list'[k] \notin live'
            <3> SUFFICES ASSUME NEW k \in 1 .. Len(list')
                         PROVE  list'[k] < capacity' /\ list'[k] \notin live'
                OBVIOUS
            <3>1. k + 1 \in 1 .. Len(list) /\ list'[k] = list[k + 1]
                  BY <1>p, <1>0
            <3>2. list[k + 1] < capacity /\ list[k + 1] \notin live
                  BY <3>1 DEF IInv, BlocksPartitioned
            <3> QED BY <1>p, <1>0, <3>1, <3>2
      <2>4. \A i \in 0 .. (capacity' - 1) :
                i \in live' \/ \E k \in 1 .. Len(list') : list'[k] = i
            <3> SUFFICES ASSUME NEW i \in 0 .. (capacity - 1),
                                i \notin live, i # free
                         PROVE  \E k \in 1 .. Len(list') : list'[k] = i
                BY <1>p
            <3>1. PICK k \in 1 .. Len(list) : list[k] = i
                  BY DEF IInv, BlocksPartitioned
            <3>2. k - 1 \in 1 .. Len(list') /\ list'[k - 1] = i
                  BY <1>p, <1>0, <3>1
            <3> QED BY <3>2
      <2>5. \A i \in live' : i < capacity'
            BY <1>p, <1>0 DEF IInv, BlocksPartitioned
      <2>6. IsFiniteSet(live') /\ used' = Cardinality(live')
            BY <1>p, <1>0, FS_AddElement DEF IInv, BlocksPartitioned
      <2> QED BY <2>1, <2>2, <2>3, <2>4, <2>5, <2>6 DEF BlocksPartitioned
<1>4. FlagSound'
      <2> SUFFICES ASSUME isZero
                   PROVE  /\ \A k \in 1 .. Len(list') : dirty'[list'[k]] = {}
                          /\ \A i \in Blocks : i >= capacity => dirty'[i] = {} /\ word'[i] = Nil
          BY DEF FlagSound
      <2>1. ASSUME NEW k \in 1 .. Len(list') PROVE dirty'[list'[k]] = {}
            <3>1. k + 1 \in 1 .. Len(list) /\ list'[k] = list[k + 1]
                  BY <1>p, <1>0
            <3>2. dirty[list[k + 1]] = {}
                  BY <3>1 DEF IInv, FlagSound
            <3> QED BY <1>p, <1>0, <3>1, <3>2
      <2>2. ASSUME NEW i \in Blocks, i >= capacity PROVE dirty'[i] = {} /\ word'[i] = Nil
            <3>1. i # free
                  BY <1>p, <1>0, <2>2 DEF IInv, TypeOK, Blocks
            <3> QED BY <2>2, <3>1 DEF IInv, FlagSound
      <2> QED BY <2>1, <2>2
<1> QED BY <1>1, <1>2, <1>3, <1>4 DEF IInv

\* push: the returned block goes in front and links to the old head.
LEMMA PushKeeps ==
    ASSUME IInv, NEW i \in Blocks, Push(i)
    PROVE  IInv'
<1>p. /\ i \in live /\ word' = [word EXCEPT ![i] = free] /\ free' = i
      /\ used' = used - 1 /\ isZero' = FALSE /\ live' = live \ {i}
      /\ list' = <<i>> \o list /\ capacity' = capacity /\ dirty' = dirty
      BY DEF Push, ZeroAfterPush
<1>t. /\ list \in Seq(Blocks) /\ word \in [Blocks -> Words]
      /\ free \in Blocks \cup {Nil} /\ used \in Nat /\ live \subseteq Blocks
      /\ capacity \in 0 .. Reserved
      BY DEF IInv, TypeOK
<1>len. /\ Len(list) \in Nat /\ Len(list') = Len(list) + 1
        /\ list' \in Seq(Blocks) /\ list' # <<>>
        BY <1>p, <1>t
<1>0. /\ list'[1] = i
      /\ \A k \in 1 .. Len(list') : k # 1 => k - 1 \in 1 .. Len(list) /\ list'[k] = list[k - 1]
      BY <1>p, <1>t, <1>len
<1>n. \A k \in 1 .. Len(list) : list[k] \in Blocks /\ list[k] # i
      BY <1>p, <1>t DEF IInv, BlocksPartitioned
<1>c. used >= 1 /\ IsFiniteSet(live') /\ used' = Cardinality(live')
      <2>1. IsFiniteSet(live) /\ used = Cardinality(live)
            BY DEF IInv, BlocksPartitioned
      <2>2. IsFiniteSet(live \ {i}) /\ Cardinality(live \ {i}) = used - 1
            BY <2>1, <1>p, FS_RemoveElement
      <2>3. Cardinality(live \ {i}) \in Nat
            BY <2>2, FS_CardinalityType
      <2> QED BY <1>p, <1>t, <2>2, <2>3
<1>1. TypeOK'
      <2>1. word' \in [Blocks -> Words]
            BY <1>p, <1>t DEF Words
      <2>2. used' \in Nat /\ live' \subseteq Blocks /\ capacity' \in 0 .. Reserved
            BY <1>p, <1>t, <1>c
      <2>3. isZero' \in BOOLEAN /\ dirty' \in [Blocks -> SUBSET Others]
            BY <1>p DEF IInv, TypeOK
      <2> QED BY <1>p, <1>len, <2>1, <2>2, <2>3 DEF TypeOK
<1>2. ListSound'
      <2>1. ASSUME NEW k \in 1 .. Len(list')
            PROVE  word'[list'[k]] = IF k = Len(list') THEN Nil ELSE list'[k + 1]
            <3>1. CASE k = 1
                  <4>1. word'[list'[k]] = free
                        BY <1>p, <1>t, <1>0, <3>1
                  <4>2. free = IF list = <<>> THEN Nil ELSE list[1]
                        BY DEF IInv, ListSound
                  <4>3. CASE list = <<>>
                        BY <1>len, <3>1, <4>1, <4>2, <4>3
                  <4>4. CASE list # <<>>
                        <5>1. Len(list) >= 1
                              BY <1>t, <4>4
                        <5>2. 1 + 1 \in 1 .. Len(list') /\ k # Len(list')
                              BY <1>len, <3>1, <5>1
                        <5>3. list'[1 + 1] = list[1]
                              BY <1>0, <5>2
                        <5> QED BY <3>1, <4>1, <4>2, <4>4, <5>2, <5>3
                  <4> QED BY <4>3, <4>4
            <3>2. CASE k # 1
                  <4>1. k - 1 \in 1 .. Len(list) /\ list'[k] = list[k - 1]
                        BY <1>0, <3>2
                  <4>2. word'[list'[k]] = word[list[k - 1]]
                        BY <1>p, <1>t, <1>n, <4>1
                  <4>3. CASE k = Len(list')
                        <5>1. k - 1 = Len(list)
                              BY <1>len, <4>3
                        <5> QED BY <4>1, <4>2, <4>3, <5>1 DEF IInv, ListSound
                  <4>4. CASE k # Len(list')
                        <5>1. k + 1 \in 1 .. Len(list') /\ k + 1 # 1 /\ k - 1 # Len(list)
                              BY <1>len, <4>4
                        <5>2. list'[k + 1] = list[(k + 1) - 1] /\ (k + 1) - 1 = (k - 1) + 1
                              BY <1>0, <5>1
                        <5>3. word[list[k - 1]] = list[(k - 1) + 1]
                              BY <4>1, <5>1 DEF IInv, ListSound
                        <5> QED BY <4>2, <4>4, <5>2, <5>3
                  <4> QED BY <4>3, <4>4
            <3> QED BY <3>1, <3>2
      <2> QED BY <1>p, <1>0, <1>len, <2>1 DEF ListSound
<1>3. BlocksPartitioned'
      <2>1. Len(list') = capacity' - used'
            BY <1>p, <1>t, <1>len DEF IInv, BlocksPartitioned
      <2>2. \A j, k \in 1 .. Len(list') : j # k => list'[j] # list'[k]
            <3> SUFFICES ASSUME NEW j \in 1 .. Len(list'), NEW k \in 1 .. Len(list'),
                                j # k
                         PROVE  list'[j] # list'[k]
                OBVIOUS
            <3>1. CASE j = 1
                  BY <1>0, <1>n, <3>1
            <3>2. CASE k = 1
                  BY <1>0, <1>n, <3>2
            <3>3. CASE j # 1 /\ k # 1
                  <4>1. /\ j - 1 \in 1 .. Len(list) /\ k - 1 \in 1 .. Len(list)
                        /\ j - 1 # k - 1
                        /\ list'[j] = list[j - 1] /\ list'[k] = list[k - 1]
                        BY <1>0, <3>3
                  <4> QED BY <4>1 DEF IInv, BlocksPartitioned
            <3> QED BY <3>1, <3>2, <3>3
      <2>3. \A k \in 1 .. Len(list') : list'[k] < capacity' /\ list'[k] \notin live'
            <3> SUFFICES ASSUME NEW k \in 1 .. Len(list')
                         PROVE  list'[k] < capacity /\ list'[k] \notin live'
                BY <1>p
            <3>1. CASE k = 1
                  BY <1>p, <1>0, <3>1 DEF IInv, BlocksPartitioned
            <3>2. CASE k # 1
                  <4>1. k - 1 \in 1 .. Len(list) /\ list'[k] = list[k - 1]
                        BY <1>0, <3>2
                  <4>2. list[k - 1] < capacity /\ list[k - 1] \notin live
                        BY <4>1 DEF IInv, BlocksPartitioned
                  <4> QED BY <1>p, <4>1, <4>2
            <3> QED BY <3>1, <3>2
      <2>4. \A b \in 0 .. (capacity' - 1) :
                b \in live' \/ \E k \in 1 .. Len(list') : list'[k] = b
            <3> SUFFICES ASSUME NEW b \in 0 .. (capacity - 1), b \notin live'
                         PROVE  \E k \in 1 .. Len(list') : list'[k] = b
                BY <1>p
            <3>1. CASE b = i
                  <4>1. 1 \in 1 .. Len(list')
                        BY <1>len
                  <4> QED BY <1>0, <3>1, <4>1
            <3>2. CASE b # i
                  <4>1. b \notin live
                        BY <1>p, <3>2
                  <4>2. PICK k \in 1 .. Len(list) : list[k] = b
                        BY <4>1 DEF IInv, BlocksPartitioned
                  <4>3. k + 1 \in 1 .. Len(list') /\ k + 1 # 1 /\ (k + 1) - 1 = k
                        BY <1>len
                  <4>4. list'[k + 1] = b
                        BY <1>0, <4>2, <4>3
                  <4> QED BY <4>3, <4>4
            <3> QED BY <3>1, <3>2
      <2>5. \A b \in live' : b < capacity'
            BY <1>p DEF IInv, BlocksPartitioned
      <2> QED BY <1>c, <2>1, <2>2, <2>3, <2>4, <2>5 DEF BlocksPartitioned
<1>4. FlagSound'
      BY <1>p DEF FlagSound
<1> QED BY <1>1, <1>2, <1>3, <1>4 DEF IInv

\* The length and the type of a concatenation.
LEMMA ConcatFacts ==
    ASSUME NEW S, NEW s \in Seq(S), NEW t \in Seq(S)
    PROVE  s \o t \in Seq(S) /\ Len(s \o t) = Len(s) + Len(t)
OBVIOUS

\* extend: the batch goes in front, linked in order, its last block to the old
\* head.
LEMMA ExtendKeeps ==
    ASSUME IInv, Extend
    PROVE  IInv'
<1> DEFINE n   == BatchSize
           top == capacity + n
<1>t. /\ list \in Seq(Blocks) /\ word \in [Blocks -> Words]
      /\ free \in Blocks \cup {Nil} /\ used \in Nat /\ live \subseteq Blocks
      /\ capacity \in 0 .. Reserved /\ Reserved \in Nat
      BY PageAssumption DEF IInv, TypeOK
<1>n. n \in Nat /\ n >= 1 /\ top <= Reserved /\ top \in Nat /\ capacity < Reserved
      BY <1>t, BatchBounds DEF Extend
<1> DEFINE batch == [k \in 1 .. n |-> capacity + k - 1]
<1>p. /\ word' = [i \in Blocks |-> IF i \notin capacity .. (top - 1) THEN word[i]
                                   ELSE IF i = top - 1 THEN free ELSE i + 1]
      /\ capacity' = top /\ list' = batch \o list /\ free' = capacity
      /\ used' = used /\ isZero' = isZero /\ dirty' = dirty /\ live' = live
      BY DEF Extend, BatchFirst, LastLink
<1>b. batch \in Seq(Blocks) /\ Len(batch) = n /\ \A k \in 1 .. n : batch[k] = capacity + k - 1
      <2>1. \A k \in 1 .. n : capacity + k - 1 \in Blocks
            BY <1>t, <1>n DEF Blocks
      <2>2. batch \in [1 .. n -> Blocks]
            BY <2>1
      <2> QED BY <1>n, <2>2
<1> HIDE DEF batch
<1>len. /\ Len(list) \in Nat /\ Len(list') = n + Len(list)
        /\ list' \in Seq(Blocks) /\ list' # <<>>
        <2> HIDE DEF n
        <2>b. batch \in Seq(Blocks) /\ Len(batch) = n
              BY <1>b
        <2>a. list' = batch \o list /\ list \in Seq(Blocks)
              BY <1>p, <1>t
        <2>1. Len(list') = n + Len(list) /\ list' \in Seq(Blocks)
              BY <2>a, <2>b, ConcatFacts
        <2>2. Len(list) \in Nat /\ Len(list') >= 1
              BY <1>t, <1>n, <2>1
        <2>3. list' # <<>>
              BY <2>2
        <2> QED BY <2>1, <2>2, <2>3
<1>low. \A k \in 1 .. n : k \in 1 .. Len(list') /\ list'[k] = capacity + k - 1
        BY <1>p, <1>t, <1>b, <1>n, <1>len
<1>high. \A k \in 1 .. Len(list') : k > n =>
             k - n \in 1 .. Len(list) /\ list'[k] = list[k - n]
         BY <1>p, <1>t, <1>b, <1>n, <1>len
<1>old. \A k \in 1 .. Len(list) : /\ list[k] \in Blocks /\ list[k] < capacity
                                  /\ list[k] \notin live
        BY <1>t DEF IInv, BlocksPartitioned
<1> HIDE DEF n, top
<1>top. top = capacity + n
        BY DEF top
<1>w. /\ \A k \in 1 .. (n - 1) : word'[capacity + k - 1] = capacity + k
      /\ word'[capacity + n - 1] = free
      /\ \A i \in Blocks : i < capacity \/ i >= top => word'[i] = word[i]
      <2>1. ASSUME NEW k \in 1 .. (n - 1) PROVE word'[capacity + k - 1] = capacity + k
            <3>1. /\ capacity + k - 1 \in Blocks
                  /\ capacity + k - 1 \in capacity .. (top - 1)
                  /\ capacity + k - 1 # top - 1
                  /\ (capacity + k - 1) + 1 = capacity + k
                  BY <1>t, <1>n, <1>top DEF Blocks
            <3> QED BY <1>p, <3>1
      <2>2. word'[capacity + n - 1] = free
            <3>1. /\ capacity + n - 1 \in Blocks
                  /\ capacity + n - 1 \in capacity .. (top - 1)
                  /\ capacity + n - 1 = top - 1
                  BY <1>t, <1>n, <1>top DEF Blocks
            <3> QED BY <1>p, <3>1
      <2>3. \A i \in Blocks : i < capacity \/ i >= top => word'[i] = word[i]
            BY <1>p, <1>t, <1>n DEF Blocks
      <2> QED BY <2>1, <2>2, <2>3
<1>1. TypeOK'
      <2>1. ASSUME NEW i \in Blocks PROVE word'[i] \in Words
            <3>1. CASE i \notin capacity .. (top - 1)
                  BY <1>p, <1>t, <3>1
            <3>2. CASE i = top - 1
                  BY <1>p, <1>t, <3>2 DEF Words
            <3>3. CASE i \in capacity .. (top - 1) /\ i # top - 1
                  <4>1. i + 1 \in Blocks
                        BY <1>t, <1>n, <3>3 DEF Blocks
                  <4> QED BY <1>p, <3>3, <4>1 DEF Words
            <3> QED BY <3>1, <3>2, <3>3
      <2>2. word' \in [Blocks -> Words]
            BY <1>p, <2>1
      <2>3. free' \in Blocks \cup {Nil} /\ capacity' \in 0 .. Reserved
            BY <1>p, <1>t, <1>n DEF Blocks
      <2>4. isZero' \in BOOLEAN /\ dirty' \in [Blocks -> SUBSET Others]
            BY <1>p DEF IInv, TypeOK
      <2> QED BY <1>p, <1>t, <1>len, <2>2, <2>3, <2>4 DEF TypeOK
<1>2. ListSound'
      <2>1. free' = list'[1]
            <3>1. 1 \in 1 .. n
                  BY <1>n
            <3>2. list'[1] = capacity + 1 - 1
                  BY <1>low, <3>1
            <3> QED BY <1>p, <1>t, <3>2
      <2>2. ASSUME NEW k \in 1 .. Len(list')
            PROVE  word'[list'[k]] = IF k = Len(list') THEN Nil ELSE list'[k + 1]
            <3>1. CASE k < n
                  <4>1. k \in 1 .. (n - 1) /\ k \in 1 .. n /\ k + 1 \in 1 .. n
                        /\ k # Len(list')
                        BY <1>n, <1>len, <3>1
                  <4>2. list'[k] = capacity + k - 1 /\ list'[k + 1] = capacity + (k + 1) - 1
                        BY <1>low, <4>1
                  <4>3. capacity + (k + 1) - 1 = capacity + k
                        BY <1>t
                  <4> QED BY <1>w, <4>1, <4>2, <4>3
            <3>2. CASE k = n
                  <4>1. n \in 1 .. n
                        BY <1>n
                  <4>2. word'[list'[k]] = free
                        BY <1>w, <1>low, <3>2, <4>1
                  <4>3. free = IF list = <<>> THEN Nil ELSE list[1]
                        BY DEF IInv, ListSound
                  <4>4. CASE list = <<>>
                        BY <1>len, <3>2, <4>2, <4>3, <4>4
                  <4>5. CASE list # <<>>
                        <5>1. Len(list) >= 1
                              BY <1>t, <4>5
                        <5>2. k + 1 \in 1 .. Len(list') /\ k + 1 > n /\ k # Len(list')
                              /\ (k + 1) - n = 1
                              BY <1>len, <1>n, <3>2, <5>1
                        <5>3. list'[k + 1] = list[(k + 1) - n]
                              BY <1>high, <5>2
                        <5> QED BY <4>2, <4>3, <4>5, <5>2, <5>3
                  <4> QED BY <4>4, <4>5
            <3>3. CASE k > n
                  <4>1. k - n \in 1 .. Len(list) /\ list'[k] = list[k - n]
                        BY <1>high, <3>3
                  <4>2. list[k - n] \in Blocks /\ list[k - n] < capacity
                        BY <1>old, <4>1
                  <4>3. word'[list'[k]] = word[list[k - n]]
                        BY <1>w, <4>1, <4>2
                  <4>4. CASE k = Len(list')
                        <5>1. k - n = Len(list)
                              BY <1>len, <1>n, <4>4
                        <5> QED BY <4>1, <4>3, <4>4, <5>1 DEF IInv, ListSound
                  <4>5. CASE k # Len(list')
                        <5>1. k + 1 \in 1 .. Len(list') /\ k + 1 > n /\ k - n # Len(list)
                              BY <1>len, <1>n, <3>3, <4>5
                        <5>2. list'[k + 1] = list[(k + 1) - n] /\ (k + 1) - n = (k - n) + 1
                              BY <1>high, <1>n, <5>1
                        <5>3. word[list[k - n]] = list[(k - n) + 1]
                              BY <4>1, <5>1 DEF IInv, ListSound
                        <5> QED BY <4>3, <4>5, <5>2, <5>3
                  <4> QED BY <4>4, <4>5
            <3> QED BY <1>n, <3>1, <3>2, <3>3
      <2> QED BY <1>len, <2>1, <2>2 DEF ListSound
<1>3. BlocksPartitioned'
      <2>1. Len(list') = capacity' - used'
            BY <1>p, <1>t, <1>len, <1>n, <1>top DEF IInv, BlocksPartitioned
      <2>2. \A j, k \in 1 .. Len(list') : j # k => list'[j] # list'[k]
            <3> SUFFICES ASSUME NEW j \in 1 .. Len(list'), NEW k \in 1 .. Len(list'),
                                j # k
                         PROVE  list'[j] # list'[k]
                OBVIOUS
            <3>1. CASE j <= n /\ k <= n
                  <4>1. j \in 1 .. n /\ k \in 1 .. n
                        BY <1>n, <3>1
                  <4>2. list'[j] = capacity + j - 1 /\ list'[k] = capacity + k - 1
                        BY <1>low, <4>1
                  <4> QED BY <1>t, <4>2
            <3>2. CASE j <= n /\ k > n
                  <4>1. j \in 1 .. n /\ k - n \in 1 .. Len(list) /\ list'[k] = list[k - n]
                        BY <1>high, <1>n, <3>2
                  <4>2. list'[j] = capacity + j - 1 /\ list'[k] < capacity
                        BY <1>low, <1>old, <4>1
                  <4> QED BY <1>t, <4>1, <4>2
            <3>3. CASE j > n /\ k <= n
                  <4>1. k \in 1 .. n /\ j - n \in 1 .. Len(list) /\ list'[j] = list[j - n]
                        BY <1>high, <1>n, <3>3
                  <4>2. list'[k] = capacity + k - 1 /\ list'[j] < capacity
                        BY <1>low, <1>old, <4>1
                  <4> QED BY <1>t, <4>1, <4>2
            <3>4. CASE j > n /\ k > n
                  <4>1. /\ j - n \in 1 .. Len(list) /\ k - n \in 1 .. Len(list)
                        /\ list'[j] = list[j - n] /\ list'[k] = list[k - n]
                        BY <1>high, <3>4
                  <4>2. j - n # k - n
                        BY <1>n
                  <4> QED BY <4>1, <4>2 DEF IInv, BlocksPartitioned
            <3> QED BY <1>n, <3>1, <3>2, <3>3, <3>4
      <2>3. ASSUME NEW k \in 1 .. Len(list')
            PROVE  list'[k] < capacity' /\ list'[k] \notin live'
            <3>1. CASE k <= n
                  <4>1. k \in 1 .. n
                        BY <1>n, <3>1
                  <4>2. list'[k] = capacity + k - 1
                        BY <1>low, <4>1
                  <4>3. \A i \in live : i < capacity
                        BY DEF IInv, BlocksPartitioned
                  <4> QED BY <1>p, <1>t, <1>n, <1>top, <4>1, <4>2, <4>3
            <3>2. CASE k > n
                  <4>1. k - n \in 1 .. Len(list) /\ list'[k] = list[k - n]
                        BY <1>high, <3>2
                  <4>2. list'[k] \in Blocks /\ list'[k] < capacity /\ list'[k] \notin live
                        BY <1>old, <4>1
                  <4> QED BY <1>p, <1>t, <1>n, <1>top, <4>2 DEF Blocks
            <3> QED BY <1>n, <3>1, <3>2
      <2>4. ASSUME NEW i \in 0 .. (capacity' - 1), i \notin live'
            PROVE  \E k \in 1 .. Len(list') : list'[k] = i
            <3>1. CASE i < capacity
                  <4>1. i \in 0 .. (capacity - 1) /\ i \notin live
                        BY <1>p, <1>t, <2>4, <3>1
                  <4>2. PICK k \in 1 .. Len(list) : list[k] = i
                        BY <4>1 DEF IInv, BlocksPartitioned
                  <4>3. k + n \in 1 .. Len(list') /\ k + n > n /\ (k + n) - n = k
                        BY <1>n, <1>len
                  <4>4. list'[k + n] = i
                        BY <1>high, <4>2, <4>3
                  <4> QED BY <4>3, <4>4
            <3>2. CASE i >= capacity
                  <4> DEFINE k == i - capacity + 1
                  <4>1. k \in 1 .. n /\ capacity + k - 1 = i
                        BY <1>p, <1>t, <1>n, <1>top, <3>2
                  <4>2. k \in 1 .. Len(list') /\ list'[k] = i
                        BY <1>low, <4>1
                  <4> QED BY <4>2
            <3> QED BY <1>t, <3>1, <3>2
      <2>5. ASSUME NEW i \in live' PROVE i < capacity'
            <3>1. i \in live /\ i < capacity /\ i \in Blocks
                  BY <1>p, <1>t DEF IInv, BlocksPartitioned
            <3> QED BY <1>p, <1>t, <1>n, <1>top, <3>1 DEF Blocks
      <2>6. IsFiniteSet(live') /\ used' = Cardinality(live')
            BY <1>p DEF IInv, BlocksPartitioned
      <2> QED BY <2>1, <2>2, <2>3, <2>4, <2>5, <2>6 DEF BlocksPartitioned
<1>4. FlagSound'
      <2> SUFFICES ASSUME isZero
                   PROVE  /\ \A k \in 1 .. Len(list') : dirty[list'[k]] = {}
                          /\ \A i \in Blocks : i >= top => dirty[i] = {} /\ word'[i] = Nil
          BY <1>p DEF FlagSound
      <2>0. /\ \A k \in 1 .. Len(list) : dirty[list[k]] = {}
            /\ \A i \in Blocks : i >= capacity => dirty[i] = {} /\ word[i] = Nil
            BY DEF IInv, FlagSound
      <2>1. ASSUME NEW k \in 1 .. Len(list') PROVE dirty[list'[k]] = {}
            <3>1. CASE k <= n
                  <4>1. k \in 1 .. n
                        BY <1>n, <3>1
                  <4>2. list'[k] = capacity + k - 1
                        BY <1>low, <4>1
                  <4>3. capacity + k - 1 \in Blocks /\ capacity + k - 1 >= capacity
                        BY <1>t, <1>n, <1>top, <4>1 DEF Blocks
                  <4> QED BY <2>0, <4>2, <4>3
            <3>2. CASE k > n
                  <4>1. k - n \in 1 .. Len(list) /\ list'[k] = list[k - n]
                        BY <1>high, <3>2
                  <4> QED BY <2>0, <4>1
            <3> QED BY <1>n, <3>1, <3>2
      <2>2. ASSUME NEW i \in Blocks, i >= top PROVE dirty[i] = {} /\ word'[i] = Nil
            <3>1. i >= capacity
                  BY <1>t, <1>n, <1>top, <2>2 DEF Blocks
            <3> QED BY <1>w, <2>0, <2>2, <3>1
      <2> QED BY <2>1, <2>2
<1> QED BY <1>1, <1>2, <1>3, <1>4 DEF IInv

\* A write to a live block touches no block of the list and none beyond the
\* capacity.
LEMMA WriteKeeps ==
    ASSUME IInv, NEW i \in Blocks, NEW w \in Words, NEW D \in SUBSET Others, Write(i, w, D)
    PROVE  IInv'
<1>p. /\ i \in live /\ word' = [word EXCEPT ![i] = w] /\ dirty' = [dirty EXCEPT ![i] = D]
      /\ free' = free /\ used' = used /\ capacity' = capacity /\ isZero' = isZero
      /\ live' = live /\ list' = list
      BY DEF Write
<1>t. /\ list \in Seq(Blocks) /\ word \in [Blocks -> Words]
      /\ dirty \in [Blocks -> SUBSET Others]
      /\ capacity \in 0 .. Reserved
      BY DEF IInv, TypeOK
<1>n. /\ \A k \in 1 .. Len(list) : list[k] \in Blocks /\ list[k] # i
      /\ i < capacity
      BY <1>p, <1>t DEF IInv, BlocksPartitioned
<1>1. TypeOK'
      BY <1>p, <1>t DEF IInv, TypeOK
<1>2. ListSound'
      BY <1>p, <1>t, <1>n DEF IInv, ListSound
<1>3. BlocksPartitioned'
      BY <1>p DEF IInv, BlocksPartitioned
<1>4. FlagSound'
      <2>1. \A b \in Blocks : b >= capacity => b # i
            BY <1>n, <1>t DEF Blocks
      <2> QED BY <1>p, <1>t, <1>n, <2>1 DEF IInv, FlagSound
<1> QED BY <1>1, <1>2, <1>3, <1>4 DEF IInv

\* A page made again of the same slices starts empty, with the flag clear.
LEMMA ReinitKeeps ==
    ASSUME IInv, Reinit
    PROVE  IInv'
<1>p. /\ used = 0 /\ free' = Nil /\ used' = 0 /\ capacity' = 0 /\ isZero' = FALSE
      /\ list' = <<>> /\ word' = word /\ dirty' = dirty /\ live' = live
      BY DEF Reinit
<1>1. live = {}
      BY <1>p, FS_EmptySet DEF IInv, BlocksPartitioned
<1>2. TypeOK'
      <2>1. capacity' \in 0 .. Reserved /\ used' \in Nat /\ list' \in Seq(Blocks)
            BY <1>p, PageAssumption
      <2>2. isZero' \in BOOLEAN /\ free' \in Blocks \cup {Nil}
            BY <1>p
      <2> QED BY <1>p, <2>1, <2>2 DEF IInv, TypeOK
<1>3. ListSound'
      BY <1>p DEF ListSound
<1>4. BlocksPartitioned'
      BY <1>p, <1>1, FS_EmptySet DEF BlocksPartitioned
<1>5. FlagSound'
      BY <1>p DEF FlagSound
<1> QED BY <1>2, <1>3, <1>4, <1>5 DEF IInv

\* Clearing the words asked for of the block that leaves the list keeps the
\* contents typed and every other block as it was.
LEMMA ClearedFacts ==
    ASSUME IInv, NEW i \in Blocks, NEW n, Cleared(i, n)
    PROVE  /\ word' \in [Blocks -> Words] /\ dirty' \in [Blocks -> SUBSET Others]
           /\ \A b \in Blocks \ {i} : word'[b] = word[b] /\ dirty'[b] = dirty[b]
           /\ word'[i] = Nil
           /\ dirty'[i] = IF isZero THEN dirty[i] ELSE dirty[i] \ Asked(n)
<1>1. word \in [Blocks -> Words] /\ dirty \in [Blocks -> SUBSET Others]
      BY DEF IInv, TypeOK
<1>2. word' = [word EXCEPT ![i] = Nil]
      BY DEF Cleared
<1>3. CASE isZero
      BY <1>1, <1>2, <1>3 DEF Cleared, Words
<1>4. CASE ~isZero
      BY <1>1, <1>2, <1>4 DEF Cleared, Words
<1> QED BY <1>3, <1>4

\* Every step of the page keeps the inductive invariant.
LEMMA NextIInv == IInv /\ [Next]_vars => IInv'
<1> SUFFICES ASSUME IInv, [Next]_vars PROVE IInv'
    OBVIOUS
<1>1. ASSUME Alloc PROVE IInv'
      <2>1. /\ Pop /\ capacity' = capacity /\ isZero' = isZero
            /\ word' = word /\ dirty' = dirty
            BY <1>1 DEF Alloc
      <2>2. word' \in [Blocks -> Words] /\ dirty' \in [Blocks -> SUBSET Others]
            BY <2>1 DEF IInv, TypeOK
      <2> QED BY <2>1, <2>2, PopKeeps
<1>2. ASSUME NEW n \in 1 .. BlockWords, AllocZeroed(n) PROVE IInv'
      <2>1. /\ Pop /\ capacity' = capacity /\ isZero' = isZero
            /\ Cleared(free, n) /\ free # Nil
            BY <1>2 DEF AllocZeroed, Pop
      <2>2. free \in Blocks
            BY <2>1, HeadFacts
      <2> QED BY <2>1, <2>2, ClearedFacts, PopKeeps
<1>3. ASSUME NEW i \in Blocks, Push(i) PROVE IInv'
      BY <1>3, PushKeeps
<1>4. ASSUME Extend PROVE IInv'
      BY <1>4, ExtendKeeps
<1>5. ASSUME NEW i \in Blocks, NEW w \in Words, NEW D \in SUBSET Others, Write(i, w, D)
      PROVE  IInv'
      BY <1>5, WriteKeeps
<1>6. ASSUME Reinit PROVE IInv'
      BY <1>6, ReinitKeeps
<1>7. ASSUME UNCHANGED vars PROVE IInv'
      BY <1>7 DEF vars, IInv, TypeOK, ListSound, BlocksPartitioned, FlagSound
<1> QED BY <1>1, <1>2, <1>3, <1>4, <1>5, <1>6, <1>7 DEF Next

LEMMA SpecIInv == Spec => []IInv
BY InitIInv, NextIInv, PTL DEF Spec

\* Page fields stay in range, in particular capacity never passes the number
\* of blocks the page reserved (page invariant 3).
THEOREM PageTypeCorrect == Spec => []TypeOK
<1>1. IInv => TypeOK
      BY DEF IInv
<1> QED BY <1>1, SpecIInv, PTL

\* Page invariant 4: the links from the head spell the free list and end,
\* whatever programs wrote into the blocks they held.
THEOREM FreeListSound == Spec => []ListSound
<1>1. IInv => ListSound
      BY DEF IInv
<1> QED BY <1>1, SpecIInv, PTL

\* Page invariants 3 and 4: no block is lost, none is both free and live, and
\* used counts the live ones: pop never hands a block out twice.
THEOREM NoBlockTwice == Spec => []BlocksPartitioned
<1>1. IInv => BlocksPartitioned
      BY DEF IInv
<1> QED BY <1>1, SpecIInv, PTL

\* Page invariant 5: the zero flag is right whenever it is set.
THEOREM ZeroFlagSound == Spec => []FlagSound
<1>1. IInv => FlagSound
      BY DEF IInv
<1> QED BY <1>1, SpecIInv, PTL

\* alloc_zeroed hands out a block that is zero in every word of the request,
\* whether it clears the link word only or the words asked for: what it leaves
\* uncleared within the request is zero already.
THEOREM AllocZeroedZeroes == Spec => ZeroedIsZero
<1> DEFINE Zeroed(n) == word'[free] = Nil /\ dirty'[free] \cap Asked(n) = {}
<1>1. ASSUME IInv, NEW n \in 1 .. BlockWords, AllocZeroed(n) PROVE Zeroed(n)
      <2>1. free # Nil /\ Cleared(free, n)
            BY <1>1 DEF AllocZeroed, Pop
      <2>2. list # <<>> /\ Len(list) \in Nat /\ Len(list) >= 1
            /\ list[1] = free /\ free \in Blocks
            BY <1>1, <2>1, HeadFacts, Links
      <2>3. /\ word'[free] = Nil
            /\ dirty'[free] = IF isZero THEN dirty[free] ELSE dirty[free] \ Asked(n)
            BY <1>1, <2>1, <2>2, ClearedFacts
      <2>4. 1 \in 1 .. Len(list)
            BY <2>2
      <2>5. isZero => dirty[free] = {}
            BY <1>1, <2>2, <2>4 DEF IInv, FlagSound
      <2> QED BY <2>3, <2>5
<1>2. IInv => [\A n \in 1 .. BlockWords : AllocZeroed(n) => Zeroed(n)]_vars
      BY <1>1
<1> QED BY <1>2, SpecIInv, PTL DEF ZeroedIsZero

\* extend writes to no block below the capacity.
LEMMA ExtendWrites ==
    ASSUME Extend, capacity \in Nat, NEW i \in Blocks, i < capacity
    PROVE  dirty'[i] = dirty[i] /\ word'[i] = word[i]
<1> DEFINE top == capacity + BatchSize
<1>1. dirty' = dirty
      BY DEF Extend
<1>2. word' = [b \in Blocks |-> IF b \notin capacity .. (top - 1) THEN word[b]
                                ELSE IF b = top - 1 THEN free ELSE b + 1]
      BY SMTT(30) DEF Extend, BatchFirst, LastLink
<1>3. i \notin capacity .. (top - 1)
      BY DEF Blocks
<1>4. word'[i] = word[i]
      BY <1>2, <1>3
<1> QED BY <1>1, <1>4

\* No operation of the page writes to a block the program holds.
THEOREM HeldBlocksUntouched == Spec => LiveUntouched
<1> DEFINE Written(i) == \E w \in Words, D \in SUBSET Others : Write(i, w, D)
           Kept(i)    == word'[i] = word[i] /\ dirty'[i] = dirty[i]
           A == \A i \in live \cap live' :
                   (word'[i] # word[i] \/ dirty'[i] # dirty[i]) => Written(i)
<1>1. ASSUME IInv, Next, NEW i \in live, i \in live' PROVE Kept(i) \/ Written(i)
      <2>0. /\ i \in Blocks /\ i < capacity /\ capacity \in 0 .. Reserved
            /\ word \in [Blocks -> Words] /\ dirty \in [Blocks -> SUBSET Others]
            BY <1>1 DEF IInv, TypeOK, BlocksPartitioned
      <2>1. ASSUME Alloc PROVE Kept(i)
            BY <2>1 DEF Alloc
      <2>2. ASSUME NEW n \in 1 .. BlockWords, AllocZeroed(n) PROVE Kept(i)
            <3>1. free # Nil /\ Cleared(free, n)
                  BY <2>2 DEF AllocZeroed, Pop
            <3>2. free \in Blocks /\ free \notin live
                  BY <1>1, <3>1, HeadFacts
            <3>3. i # free
                  BY <3>2
            <3> QED BY <1>1, <2>0, <3>1, <3>2, <3>3, ClearedFacts
      <2>3. ASSUME NEW b \in Blocks, Push(b) PROVE Kept(i)
            <3>1. i # b /\ word' = [word EXCEPT ![b] = free] /\ dirty' = dirty
                  BY <1>1, <2>3 DEF Push
            <3> QED BY <2>0, <3>1
      <2>4. ASSUME Extend PROVE Kept(i)
            BY <2>0, <2>4, ExtendWrites
      <2>5. ASSUME NEW b \in Blocks, NEW w \in Words, NEW D \in SUBSET Others, Write(b, w, D)
            PROVE  Kept(i) \/ Written(i)
            <3>1. CASE b = i
                  BY <2>5, <3>1
            <3>2. CASE b # i
                  <4>1. word' = [word EXCEPT ![b] = w] /\ dirty' = [dirty EXCEPT ![b] = D]
                        BY <2>5 DEF Write
                  <4>2. word'[i] = word[i]
                        BY <2>0, <3>2, <4>1
                  <4>3. dirty'[i] = dirty[i]
                        BY <2>0, <3>2, <4>1, Zenon
                  <4> QED BY <4>2, <4>3
            <3> QED BY <3>1, <3>2
      <2>6. ASSUME Reinit PROVE Kept(i)
            BY <2>6 DEF Reinit
      <2> QED BY <1>1, <2>1, <2>2, <2>3, <2>4, <2>5, <2>6 DEF Next
<1>2. IInv /\ [Next]_vars => [A]_vars
      BY <1>1
<1> QED BY <1>2, SpecIInv, PTL DEF Spec, LiveUntouched
=============================================================================
