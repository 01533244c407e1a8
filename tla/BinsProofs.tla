----------------------------- MODULE BinsProofs -----------------------------
(***************************************************************************)
(* Theorems about module Bins, for every size and every alignment.         *)
(***************************************************************************)
EXTENDS Bins, WellFoundedInduction, TLAPS

-----------------------------------------------------------------------------
(* Numbers.                                                                *)

\* Powers of two.  The provers know 2^k only for a number k that is spelled out.
Pow == [k \in 0 .. 30 |-> 2^k]

LEMMA PowIs ==
    /\ \A k \in 0 .. 30 : Pow[k] = 2^k
    /\ Pow[0] = 1 /\ Pow[1] = 2 /\ Pow[2] = 4 /\ Pow[3] = 8 /\ Pow[4] = 16
    /\ Pow[5] = 32 /\ Pow[6] = 64 /\ Pow[7] = 128 /\ Pow[8] = 256 /\ Pow[9] = 512
    /\ Pow[10] = 1024 /\ Pow[11] = 2048 /\ Pow[12] = 4096 /\ Pow[13] = 8192
    /\ Pow[14] = 16384 /\ Pow[15] = 32768 /\ Pow[16] = 65536 /\ Pow[17] = 131072
    /\ Pow[18] = 262144 /\ Pow[19] = 524288 /\ Pow[20] = 1048576 /\ Pow[21] = 2097152
    /\ Pow[22] = 4194304 /\ Pow[23] = 8388608 /\ Pow[24] = 16777216
    /\ Pow[25] = 33554432 /\ Pow[26] = 67108864 /\ Pow[27] = 134217728
    /\ Pow[28] = 268435456 /\ Pow[29] = 536870912 /\ Pow[30] = 1073741824
BY DEF Pow

LEMMA PowStep ==
    /\ \A k \in 0 .. 30 : Pow[k] \in Nat \ {0}
    /\ \A k \in 0 .. 29 : Pow[k + 1] = 2 * Pow[k]
<1>1. ASSUME NEW k \in 0 .. 29 PROVE Pow[k] \in Nat \ {0} /\ Pow[k + 1] = 2 * Pow[k]
  <2>1. CASE k \in 0 .. 9
    <3>1. \/ k = 0 \/ k = 1 \/ k = 2 \/ k = 3 \/ k = 4 \/ k = 5 \/ k = 6 \/ k = 7 \/ k = 8
          \/ k = 9
          BY <2>1
    <3> QED BY <3>1, PowIs
  <2>2. CASE k \in 10 .. 19
    <3>1. \/ k = 10 \/ k = 11 \/ k = 12 \/ k = 13 \/ k = 14 \/ k = 15 \/ k = 16 \/ k = 17
          \/ k = 18 \/ k = 19
          BY <2>2
    <3> QED BY <3>1, PowIs
  <2>3. CASE k \in 20 .. 29
    <3>1. \/ k = 20 \/ k = 21 \/ k = 22 \/ k = 23 \/ k = 24 \/ k = 25 \/ k = 26 \/ k = 27
          \/ k = 28 \/ k = 29
          BY <2>3
    <3> QED BY <3>1, PowIs
  <2> QED BY <2>1, <2>2, <2>3
<1>2. Pow[30] \in Nat \ {0}
      BY PowIs
<1> QED BY <1>1, <1>2

LEMMA PowOf ==
    ASSUME NEW k \in Nat, k <= 30
    PROVE  Pow[k] = 2^k /\ Pow[k] \in Nat /\ Pow[k] > 0
<1>1. Pow[k] = 2^k
      BY DEF Pow
<1>2. Pow[k] \in Nat \ {0}
      BY PowStep
<1> QED BY <1>1, <1>2

LEMMA PowNext ==
    ASSUME NEW k \in Nat, k <= 29
    PROVE  Pow[k + 1] = 2 * Pow[k]
BY PowStep

\* A power is a multiple of a lower one.
LEMMA PowSum ==
    ASSUME NEW i \in 0 .. 30, NEW j \in 0 .. 30, i <= j
    PROVE  Pow[j] = Pow[j - i] * Pow[i]
<1> DEFINE S == {k \in i .. 30 : Pow[k] # Pow[k - i] * Pow[i]}
           R == OpToRel(<, Nat)
<1> SUFFICES ASSUME Pow[j] # Pow[j - i] * Pow[i] PROVE FALSE
    OBVIOUS
<1>0. j \in S
      OBVIOUS
<1>1. S \in SUBSET Nat
      OBVIOUS
<1>2. IsWellFoundedOn(R, Nat)
      BY NatLessThanWellFounded
<1>3. PICK k \in S : \A y \in S : ~(<<y, k>> \in R)
      BY <1>0, <1>1, <1>2, WFMin
<1>4. k \in i .. 30 /\ Pow[k] # Pow[k - i] * Pow[i]
      OBVIOUS
<1>5. \A y \in i .. 30 : y < k => Pow[y] = Pow[y - i] * Pow[i]
      BY <1>1, <1>3 DEF OpToRel
<1>6. Pow[i] \in Nat /\ Pow[0] = 1
      BY PowStep, PowIs
<1>7. CASE k = i
      BY <1>4, <1>6, <1>7
<1>8. CASE k > i
  <2>1. k - 1 \in i .. 30 /\ k - 1 \in 0 .. 29 /\ (k - 1) - i \in 0 .. 29 /\ k - 1 < k
        BY <1>4, <1>8
  <2>2. Pow[k - 1] = Pow[(k - 1) - i] * Pow[i]
        BY <1>5, <2>1
  <2>3. Pow[k] = 2 * Pow[k - 1]
    <3>1. (k - 1) + 1 = k
          BY <1>4
    <3> QED BY <2>1, <3>1, PowStep
  <2>4. Pow[k - i] = 2 * Pow[(k - 1) - i]
    <3>1. ((k - 1) - i) + 1 = k - i
          BY <1>4
    <3> QED BY <2>1, <3>1, PowStep
  <2>5. Pow[(k - 1) - i] \in Nat
        BY <2>1, PowStep
  <2> QED BY <1>4, <1>6, <2>2, <2>3, <2>4, <2>5
<1> QED BY <1>4, <1>7, <1>8

\* Divisors.
Divides(a, x) == \E k \in Nat : x = k * a

LEMMA DividesMod ==
    ASSUME NEW a \in Nat \ {0}, NEW x \in Nat
    PROVE  Divides(a, x) <=> x % a = 0
<1>1. x = a * (x \div a) + (x % a) /\ x \div a \in Nat
      OBVIOUS
<1>2. ASSUME NEW k \in Nat, x = k * a PROVE x % a = 0
      BY <1>2
<1>3. ASSUME x % a = 0 PROVE \E k \in Nat : x = k * a
  <2>1. x = (x \div a) * a
        BY <1>1, <1>3
  <2> QED BY <1>1, <2>1
<1> QED BY <1>2, <1>3 DEF Divides

LEMMA DividesThen ==
    ASSUME NEW a \in Nat, NEW b \in Nat, NEW x \in Nat, Divides(a, b), Divides(b, x)
    PROVE  Divides(a, x)
<1>1. PICK k \in Nat : b = k * a
      BY DEF Divides
<1>2. PICK n \in Nat : x = n * b
      BY DEF Divides
<1>3. x = (n * k) * a /\ n * k \in Nat
      BY <1>1, <1>2
<1> QED BY <1>3 DEF Divides

LEMMA DividesSum ==
    ASSUME NEW a \in Nat, NEW x \in Nat, NEW y \in Nat, NEW n \in Nat,
           Divides(a, x), Divides(a, y)
    PROVE  Divides(a, x + n * y)
<1>1. PICK k \in Nat : x = k * a
      BY DEF Divides
<1>2. PICK l \in Nat : y = l * a
      BY DEF Divides
<1>3. x + n * y = (k + n * l) * a /\ k + n * l \in Nat
      BY <1>1, <1>2
<1> QED BY <1>3 DEF Divides

LEMMA PowDivides ==
    ASSUME NEW i \in 0 .. 30, NEW j \in 0 .. 30, i <= j
    PROVE  Divides(Pow[i], Pow[j]) /\ Pow[i] <= Pow[j]
<1>1. Pow[j] = Pow[j - i] * Pow[i]
      BY PowSum
<1>2. Pow[j - i] \in Nat \ {0} /\ Pow[i] \in Nat \ {0}
      BY PowStep
<1>3. Pow[i] <= Pow[j]
      BY <1>1, <1>2
<1> QED BY <1>1, <1>2, <1>3 DEF Divides

LEMMA PowOrder ==
    ASSUME NEW i \in Nat, NEW j \in Nat, i <= j, j <= 30
    PROVE  Divides(Pow[i], Pow[j]) /\ Pow[i] <= Pow[j]
<1>1. i \in 0 .. 30 /\ j \in 0 .. 30
      OBVIOUS
<1> QED BY <1>1, PowDivides

\* RoundUp gives the least multiple that is not below.
LEMMA RoundUpIs ==
    ASSUME NEW a \in Nat, NEW n \in Nat \ {0}
    PROVE  /\ RoundUp(a, n) \in Nat /\ DivCeil(a, n) \in Nat
           /\ RoundUp(a, n) = DivCeil(a, n) * n
           /\ Divides(n, RoundUp(a, n))
           /\ a <= RoundUp(a, n) /\ RoundUp(a, n) < a + n
<1> DEFINE d == (a + n - 1) \div n
           r == (a + n - 1) % n
<1>1. d \in Nat /\ r \in 0 .. n - 1 /\ a + n - 1 = n * d + r
      OBVIOUS
<1> HIDE DEF d, r
<1>2. d * n \in Nat /\ a <= d * n /\ d * n < a + n
      BY <1>1
<1> QED BY <1>1, <1>2 DEF RoundUp, DivCeil, Divides, d

\* A set of numbers up to a bound has a greatest one.
LEMMA MaxIs ==
    ASSUME NEW S, NEW n \in Nat, \A y \in S : y \in Nat /\ y <= n, NEW x \in S
    PROVE  Max(S) \in S /\ \A y \in S : y <= Max(S)
<1> DEFINE T == {n - y : y \in S}
<1>1. T \in SUBSET Nat /\ T # {}
  <2>1. ASSUME NEW y \in S PROVE n - y \in Nat
        OBVIOUS
  <2> QED BY <2>1
<1>2. PICK k \in T : \A y \in T : ~(<<y, k>> \in OpToRel(<, Nat))
      BY <1>1, NatLessThanWellFounded, WFMin
<1>3. PICK m \in S : k = n - m
      BY <1>2
<1>4. ASSUME NEW y \in S PROVE y <= m
  <2>1. n - y \in T /\ n - y \in Nat /\ k \in Nat
        BY <1>1
  <2>2. ~(n - y < k)
        BY <1>2, <2>1 DEF OpToRel
  <2> QED BY <1>3, <2>1, <2>2
<1>5. \E z \in S : \A y \in S : z >= y
      BY <1>4
<1> QED BY <1>5 DEF Max

-----------------------------------------------------------------------------
(* The bins.                                                               *)

\* The top bit of a number of words.
LEMMA TopBitIs ==
    ASSUME NEW w \in Nat, 1 <= w, w < 65536
    PROVE  /\ TopBit(w) \in 0 .. 15
           /\ Pow[TopBit(w)] <= w /\ w < Pow[TopBit(w) + 1]
<1> DEFINE S == {k \in 0 .. 20 : 2^k <= w}
           t == Max(S)
<1>1. \A k : k \in S <=> k \in Nat /\ k <= 20 /\ Pow[k] <= w
  <2>1. ASSUME NEW k \in Nat, k <= 20 PROVE 2^k = Pow[k]
    <3>1. k <= 30
          BY <2>1
    <3> HIDE DEF S
    <3> QED BY <3>1, PowOf
  <2>2. \A k : k \in S <=> k \in Nat /\ k <= 20 /\ 2^k <= w
        OBVIOUS
  <2> HIDE DEF S
  <2> QED BY <2>1, <2>2
<1>2. 0 \in S
  <2>1. Pow[0] = 1
        BY PowIs
  <2> HIDE DEF S
  <2> QED BY <1>1, <2>1
<1>7. \A y \in S : y \in Nat /\ y <= 20
      BY <1>1
<1> HIDE DEF S
<1>3. t \in S /\ \A y \in S : y <= t
  <2>1. 20 \in Nat
        OBVIOUS
  <2> QED BY <2>1, <1>2, <1>7, MaxIs
<1> HIDE DEF t
<1>4. t \in 0 .. 20 /\ Pow[t] <= w
      BY <1>1, <1>3
<1>5. t <= 15
  <2> SUFFICES ASSUME t >= 16 PROVE FALSE
      BY <1>4
  <2>1. 16 \in Nat /\ t \in Nat /\ 16 <= t /\ t <= 30
        BY <1>4
  <2>2. Pow[16] <= Pow[t]
        BY <2>1, PowOrder
  <2>3. Pow[t] \in Nat
        BY <1>4, PowOf
  <2>4. Pow[16] = 65536
        BY PowIs
  <2> QED BY <1>4, <2>2, <2>3, <2>4
<1>6. w < Pow[t + 1]
  <2>1. t + 1 \in 0 .. 20 /\ ~(t + 1 \in S) /\ t + 1 \in 0 .. 30
        BY <1>3, <1>4, <1>5
  <2>2. Pow[t + 1] \in Nat
        BY <2>1, PowOf
  <2> QED BY <1>1, <2>1, <2>2
<1> QED BY <1>4, <1>5, <1>6 DEF TopBit, t, S

\* What is below a bin.
Below(b) == IF b = 1 THEN 0 ELSE bin_size[b - 1]

LEMMA BinSizeIs ==
    ASSUME NEW b \in AllBins, b > 8, NEW n, NEW m, n = 5 + ((b + 3) % 4),
           m = (b + 3) \div 4 - 2
    PROVE  bin_size[b] = n * 2^m * 8
BY DEF bin_size, WORD, AllBins, MAX_BIN

\* Every bin is some multiple of its step, the bin below is one step smaller.
LEMMA BinSteps ==
    ASSUME NEW b \in AllBins
    PROVE  \E j \in 3 .. 16, n \in 1 .. 8 :
               /\ bin_size[b] = n * Pow[j] /\ Below(b) = (n - 1) * Pow[j]
               /\ b <= 8 => j = 3 /\ n = b
               /\ b > 8 => b = 4 * (j - 3) + n /\ n \in 5 .. 8
<1>1. CASE b <= 8
  <2>1. bin_size[b] = b * 8 /\ Below(b) = (b - 1) * 8 /\ b \in 1 .. 8
        BY <1>1 DEF AllBins, MAX_BIN, bin_size, Below, WORD
  <2> QED BY <1>1, <2>1, PowIs
<1>2. CASE b > 8
  <2> DEFINE n == 5 + ((b + 3) % 4)
             m == (b + 3) \div 4 - 2
  <2>1. b \in 9 .. 60
        BY <1>2 DEF AllBins, MAX_BIN
  <2>2. n \in 5 .. 8 /\ m \in 1 .. 13 /\ b = 4 * m + n
        BY <2>1
  <2>3. bin_size[b] = n * 2^m * 8
        BY <1>2 DEF AllBins, MAX_BIN, bin_size, WORD
  <2>4. Pow[m] \in Nat /\ Pow[m] = 2^m /\ Pow[m + 3] = 8 * Pow[m]
    <3>1. m \in 0 .. 29 /\ m + 1 \in 0 .. 29 /\ (m + 1) + 1 \in 0 .. 29 /\ m \in 0 .. 30
          BY <2>2
    <3>2. ((m + 1) + 1) + 1 = m + 3
          BY <2>2
    <3> HIDE DEF m
    <3>3. Pow[m] \in Nat /\ Pow[m] = 2^m
          BY <3>1, PowOf
    <3>4. Pow[m + 1] = 2 * Pow[m]
          BY <3>1, PowNext
    <3>5. Pow[(m + 1) + 1] = 2 * Pow[m + 1]
          BY <3>1, PowNext
    <3>6. Pow[((m + 1) + 1) + 1] = 2 * Pow[(m + 1) + 1]
          BY <3>1, PowNext
    <3> QED BY <3>2, <3>3, <3>4, <3>5, <3>6
  <2>5. bin_size[b] = n * Pow[m + 3]
    <3> HIDE DEF n, m
    <3> QED BY <2>2, <2>3, <2>4
  <2>6. Below(b) = (n - 1) * Pow[m + 3]
    <3>1. CASE n = 5
      <4>1. CASE b = 9
        <5>1. Below(b) = 64 /\ m = 1
              BY <4>1 DEF Below, bin_size, AllBins, MAX_BIN, WORD
        <5>2. Pow[1 + 3] = 16
              BY PowIs
        <5> HIDE DEF m, n
        <5> QED BY <3>1, <5>1, <5>2
      <4>2. CASE b > 9
        <5>1. b - 1 \in AllBins /\ b - 1 > 8 /\ ((b - 1) + 3) % 4 = 3
              /\ ((b - 1) + 3) \div 4 - 2 = m - 1 /\ b # 1
              BY <2>1, <3>1, <4>2 DEF AllBins, MAX_BIN
        <5>2. bin_size[b - 1] = 8 * 2^(m - 1) * 8
          <6> HIDE DEF m, n
          <6>1. 8 = 5 + (((b - 1) + 3) % 4) /\ m - 1 = ((b - 1) + 3) \div 4 - 2
                BY <5>1
          <6> QED BY <5>1, <6>1, BinSizeIs
        <5>3. m - 1 \in 0 .. 29 /\ m - 1 \in 0 .. 30 /\ (m - 1) + 1 = m
              BY <2>2
        <5>4. Pow[m] = 2 * Pow[m - 1] /\ Pow[m - 1] = 2^(m - 1) /\ Pow[m - 1] \in Nat
          <6> HIDE DEF m, n
          <6> QED BY <5>3, PowNext, PowOf
        <5> HIDE DEF m, n
        <5> QED BY <2>4, <3>1, <5>1, <5>2, <5>4 DEF Below
      <4> QED BY <2>1, <4>1, <4>2
    <3>2. CASE n # 5
      <4>1. b - 1 \in AllBins /\ b - 1 > 8 /\ 5 + (((b - 1) + 3) % 4) = n - 1
            /\ ((b - 1) + 3) \div 4 - 2 = m /\ b # 1
            BY <2>1, <3>2 DEF AllBins, MAX_BIN
      <4> HIDE DEF m, n
      <4>2. bin_size[b - 1] = (n - 1) * 2^m * 8
        <5> QED BY <4>1, BinSizeIs
      <4> QED BY <2>2, <2>4, <4>1, <4>2 DEF Below
    <3> QED BY <3>1, <3>2
  <2>7. m + 3 \in 3 .. 16 /\ n \in 1 .. 8 /\ n \in 5 .. 8 /\ b = 4 * ((m + 3) - 3) + n
        BY <2>2
  <2> HIDE DEF m, n
  <2> QED BY <1>2, <2>5, <2>6, <2>7
<1> QED BY <1>1, <1>2 DEF AllBins

\* Bins are numbers of bytes, positive multiples of a word, and ascend.
LEMMA BinOrder ==
    ASSUME NEW b \in AllBins
    PROVE  /\ b \in Nat /\ b >= 1 /\ b <= 60
           /\ bin_size[b] \in Nat /\ bin_size[b] > 0 /\ Below(b) \in Nat
           /\ Below(b) < bin_size[b]
           /\ Divides(8, bin_size[b]) /\ Divides(8, Below(b))
<1>1. b \in Nat /\ b >= 1 /\ b <= 60
      BY DEF AllBins, MAX_BIN
<1>2. PICK j \in 3 .. 16, n \in 1 .. 8 :
          bin_size[b] = n * Pow[j] /\ Below(b) = (n - 1) * Pow[j]
      BY BinSteps
<1>3. j \in Nat /\ j >= 3 /\ j <= 16 /\ n \in Nat /\ n >= 1 /\ n - 1 \in Nat
      BY <1>2
<1>4. Pow[j] \in Nat /\ Pow[j] > 0
      BY <1>3, PowOf
<1>5. Divides(8, Pow[j])
  <2>1. 3 \in Nat /\ 3 <= j /\ j <= 30
        BY <1>3
  <2>2. Divides(Pow[3], Pow[j])
        BY <1>3, <2>1, PowOrder
  <2> QED BY <2>2, PowIs
<1>6. bin_size[b] \in Nat /\ bin_size[b] > 0 /\ Below(b) \in Nat /\ Below(b) < bin_size[b]
      BY <1>2, <1>3, <1>4
<1>7. ASSUME NEW k \in Nat PROVE Divides(8, k * Pow[j])
  <2>1. PICK l \in Nat : Pow[j] = l * 8
        BY <1>5 DEF Divides
  <2>2. k * Pow[j] = (k * l) * 8 /\ k * l \in Nat
        BY <2>1
  <2> QED BY <2>2 DEF Divides
<1> QED BY <1>1, <1>2, <1>3, <1>6, <1>7

LEMMA BinsAscend ==
    ASSUME NEW b \in AllBins, NEW c \in AllBins, b < c
    PROVE  bin_size[b] <= Below(c) /\ bin_size[b] < bin_size[c]
<1> DEFINE T == {x \in AllBins : b < x /\ ~(bin_size[b] <= Below(x))}
<1> SUFFICES ASSUME ~(bin_size[b] <= Below(c)) PROVE FALSE
    BY BinOrder
<1>1. T \in SUBSET Nat /\ c \in T
      BY BinOrder
<1>2. PICK x \in T : \A y \in T : ~(<<y, x>> \in OpToRel(<, Nat))
      BY <1>1, NatLessThanWellFounded, WFMin
<1>3. x \in AllBins /\ b < x /\ ~(bin_size[b] <= Below(x)) /\ x \in Nat /\ x >= 1 /\ x <= 60
      BY <1>2, BinOrder
<1>4. b \in Nat /\ b >= 1 /\ bin_size[b] \in Nat
      BY BinOrder
<1>5. Below(x) = bin_size[x - 1]
      BY <1>3, <1>4 DEF Below
<1>6. CASE x = b + 1
      BY <1>3, <1>4, <1>5, <1>6
<1>7. CASE x # b + 1
  <2>1. x - 1 \in AllBins /\ b < x - 1 /\ x - 1 \in Nat /\ x - 1 < x
        BY <1>3, <1>4, <1>7 DEF AllBins, MAX_BIN
  <2>2. x - 1 \notin T
        BY <1>1, <1>2, <1>3, <2>1 DEF OpToRel
  <2>3. bin_size[b] <= Below(x - 1)
        BY <2>1, <2>2
  <2>4. Below(x - 1) < bin_size[x - 1] /\ Below(x - 1) \in Nat /\ bin_size[x - 1] \in Nat
        BY <2>1, BinOrder
  <2> QED BY <1>3, <1>4, <1>5, <2>3, <2>4
<1> QED BY <1>6, <1>7

\* The bin of a size is the one bin that holds it while the next smaller one
\* does not: for every size there is, not for those a run tries.
THEOREM BinIsBest ==
    ASSUME NEW s \in Nat, s >= 1, s <= LARGE_MAX_OBJ_SIZE
    PROVE  bin(s) \in AllBins /\ Below(bin(s)) < s /\ s <= bin_size[bin(s)]
<1>1. CASE s <= 64
  <2>1. DivCeil(s, 8) \in Nat /\ DivCeil(s, 8) >= 1 /\ DivCeil(s, 8) <= 8
        /\ 8 * (DivCeil(s, 8) - 1) < s /\ s <= 8 * DivCeil(s, 8)
        BY <1>1 DEF DivCeil
  <2> DEFINE c == DivCeil(s, 8)
  <2> HIDE DEF c
  <2>2. bin(s) = Max({c, 1})
        BY <1>1 DEF bin, WORD, c
  <2>3. Max({c, 1}) = c
    <3>1. c \in Nat /\ c >= 1 /\ c \in {c, 1}
          BY <2>1 DEF c
    <3>2. \A y \in {c, 1} : y \in Nat /\ y <= c
          BY <3>1
    <3>3. Max({c, 1}) \in {c, 1} /\ \A y \in {c, 1} : y <= Max({c, 1})
          BY <3>1, <3>2, MaxIs
    <3> QED BY <3>1, <3>3
  <2>4. c \in AllBins
        BY <2>1 DEF c, AllBins, MAX_BIN
  <2>5. bin_size[c] = c * 8 /\ Below(c) = (c - 1) * 8
    <3>1. PICK j \in 3 .. 16, n \in 1 .. 8 :
              /\ bin_size[c] = n * Pow[j] /\ Below(c) = (n - 1) * Pow[j]
              /\ j = 3 /\ n = c
          BY <2>1, <2>4, BinSteps DEF c
    <3>2. Pow[3] = 8
          BY PowIs
    <3> QED BY <3>1, <3>2
  <2> QED BY <2>1, <2>2, <2>3, <2>4, <2>5 DEF c
<1>2. CASE s > 64
  <2> DEFINE w == DivCeil(s, 8) - 1
             t == TopBit(w)
             d == w \div 2^(t - 2)
  <2>1. w \in Nat /\ w >= 8 /\ w < 65536 /\ 8 * w < s /\ s <= 8 * (w + 1)
        BY <1>2 DEF DivCeil, LARGE_MAX_OBJ_SIZE
  <2>2. bin(s) = 4 * t + (d % 4) - 3
        BY <1>2 DEF bin, WORD, LARGE_MAX_OBJ_SIZE
  <2>3. t \in 0 .. 15 /\ Pow[t] <= w /\ w < Pow[t + 1]
    <3> HIDE DEF w
    <3> QED BY <2>1, TopBitIs
  <2>4. t \in Nat /\ t <= 15
    <3> HIDE DEF t
    <3> QED BY <2>3
  <2>5. t >= 3
    <3> HIDE DEF w, t
    <3> SUFFICES ASSUME t <= 2 PROVE FALSE
        BY <2>4
    <3>1. t + 1 \in Nat /\ t + 1 <= 3 /\ 3 \in Nat /\ 3 <= 30
          BY <2>4
    <3>2. Pow[t + 1] <= Pow[3]
          BY <3>1, PowOrder
    <3>3. Pow[3] = 8 /\ Pow[t + 1] \in Nat
          BY <3>1, PowIs, PowOf
    <3> QED BY <2>1, <2>3, <3>2, <3>3
  <2> DEFINE m == t - 2
             P == Pow[m]
  <2>6. P = 2^(t - 2) /\ P \in Nat /\ P > 0 /\ Pow[t] = 4 * P /\ Pow[t + 1] = 8 * P
        /\ Pow[m + 3] = 8 * P
    <3>1. m \in Nat /\ m <= 13 /\ m + 1 \in Nat /\ (m + 1) + 1 \in Nat
          /\ ((m + 1) + 1) + 1 = t + 1 /\ (m + 1) + 1 = t /\ t + 1 = m + 3
          BY <2>4, <2>5
    <3> HIDE DEF m, t
    <3>2. P = 2^m /\ P \in Nat /\ P > 0
          BY <3>1, PowOf
    <3>3. Pow[m + 1] = 2 * P
          BY <3>1, PowNext
    <3>4. Pow[(m + 1) + 1] = 2 * Pow[m + 1]
          BY <3>1, PowNext
    <3>5. Pow[((m + 1) + 1) + 1] = 2 * Pow[(m + 1) + 1]
          BY <3>1, PowNext
    <3> QED BY <3>1, <3>2, <3>3, <3>4, <3>5 DEF m
  <2>7. w = P * d + (w % P) /\ d \in Nat /\ w % P \in Nat /\ w % P < P
    <3>1. d = w \div P
          BY <2>6
    <3> HIDE DEF d, P, w
    <3> QED BY <2>1, <2>6, <3>1
  <2>8. d \in 4 .. 7
    <3> HIDE DEF d, P, w, t
    <3> QED BY <2>1, <2>3, <2>6, <2>7
  <2> DEFINE c == 4 * m + (d + 1)
  <2>9. bin(s) = c /\ c \in AllBins /\ c > 8
    <3> HIDE DEF d, t
    <3> QED BY <2>2, <2>4, <2>5, <2>8 DEF AllBins, MAX_BIN
  <2>10. bin_size[c] = (d + 1) * (8 * P) /\ Below(c) = d * (8 * P)
    <3>1. m \in Nat /\ m >= 1
          BY <2>4, <2>5
    <3> HIDE DEF d, m, P, t
    <3>2. PICK j \in 3 .. 16, n \in 1 .. 8 :
              /\ bin_size[c] = n * Pow[j] /\ Below(c) = (n - 1) * Pow[j]
              /\ c = 4 * (j - 3) + n /\ n \in 5 .. 8
      <4> HIDE DEF c
      <4> QED BY <2>9, BinSteps
    <3>3. j = m + 3 /\ n = d + 1
          BY <2>8, <3>1, <3>2
    <3> QED BY <2>6, <2>8, <3>2, <3>3
  <2> HIDE DEF d, P, w, t, m, c
  <2>11. d * P <= w /\ w + 1 <= (d + 1) * P
         BY <2>1, <2>6, <2>7, <2>8
  <2> QED BY <2>1, <2>6, <2>8, <2>9, <2>10, <2>11
<1> QED BY <1>1, <1>2

\* What a block wastes: above the exact classes always less than a fifth of it
\* (the design document promises an eighth, which the classes do not keep).
THEOREM WasteBelowAFifth ==
    ASSUME NEW s \in Nat, s > 8 * WORD, s <= LARGE_MAX_OBJ_SIZE
    PROVE  5 * (bin_size[bin(s)] - s) < bin_size[bin(s)]
<1> DEFINE c == bin(s)
<1>1. c \in AllBins /\ Below(c) < s /\ s <= bin_size[c] /\ s > 64
      BY BinIsBest DEF WORD
<1> HIDE DEF c
<1>2. PICK j \in 3 .. 16, n \in 1 .. 8 :
          /\ bin_size[c] = n * Pow[j] /\ Below(c) = (n - 1) * Pow[j]
          /\ c <= 8 => j = 3 /\ n = c
          /\ c > 8 => n \in 5 .. 8
      BY <1>1, BinSteps
<1>3. Pow[3] = 8 /\ c \in Nat
      BY <1>1, PowIs, BinOrder
<1>4. c > 8
      BY <1>1, <1>2, <1>3
<1>5. Pow[j] \in Nat
  <2>1. j \in Nat /\ j <= 30
        BY <1>2
  <2> QED BY <2>1, PowOf
<1> QED BY <1>1, <1>2, <1>4, <1>5 DEF c

\* A size is between two bins: that is its bin.
LEMMA BinOnly ==
    ASSUME NEW s \in Nat, s >= 1, s <= LARGE_MAX_OBJ_SIZE, NEW b \in AllBins,
           Below(b) < s, s <= bin_size[b]
    PROVE  bin(s) = b
<1> DEFINE c == bin(s)
<1>1. c \in AllBins /\ Below(c) < s /\ s <= bin_size[c]
      BY BinIsBest
<1> HIDE DEF c
<1>2. /\ b \in Nat /\ bin_size[b] \in Nat /\ Below(b) \in Nat
      /\ c \in Nat /\ bin_size[c] \in Nat /\ Below(c) \in Nat
      BY <1>1, BinOrder
<1>3. ASSUME b < c PROVE FALSE
  <2>1. bin_size[b] <= Below(c)
        BY <1>1, <1>3, BinsAscend
  <2> QED BY <1>1, <1>2, <2>1
<1>4. ASSUME c < b PROVE FALSE
  <2>1. bin_size[c] <= Below(b)
        BY <1>1, <1>4, BinsAscend
  <2> QED BY <1>1, <1>2, <2>1
<1> QED BY <1>2, <1>3, <1>4 DEF c

\* A bin that is not below another is at least as large.
LEMMA BinsGrow ==
    ASSUME NEW b \in AllBins, NEW c \in AllBins, b <= c
    PROVE  bin_size[b] <= bin_size[c]
<1>1. b \in Nat /\ c \in Nat /\ bin_size[b] \in Nat /\ bin_size[c] \in Nat
      BY BinOrder
<1>2. CASE b = c
      BY <1>1, <1>2
<1>3. CASE b < c
      BY <1>1, <1>3, BinsAscend
<1> QED BY <1>1, <1>2, <1>3

\* The largest bin of each kind of page.
LEMMA KindEnds ==
    /\ 37 \in AllBins /\ bin_size[37] = 10240 /\ Below(37) = 8192
    /\ 45 \in AllBins /\ bin_size[45] = 40960 /\ Below(45) = 32768
    /\ 60 \in AllBins /\ bin_size[60] = 524288
    /\ bin(SMALL_MAX_OBJ_SIZE) = 37 /\ bin(MEDIUM_MAX_OBJ_SIZE) = 45
<1>1. 37 \in AllBins /\ 45 \in AllBins /\ 60 \in AllBins
      BY DEF AllBins, MAX_BIN
<1>2. bin_size[37] = 10240 /\ Below(37) = 8192
  <2>1. PICK j \in 3 .. 16, n \in 1 .. 8 :
            /\ bin_size[37] = n * Pow[j] /\ Below(37) = (n - 1) * Pow[j]
            /\ 37 = 4 * (j - 3) + n /\ n \in 5 .. 8
        BY <1>1, BinSteps
  <2>2. j = 11 /\ n = 5
        BY <2>1
  <2> QED BY <2>1, <2>2, PowIs
<1>3. bin_size[45] = 40960 /\ Below(45) = 32768
  <2>1. PICK j \in 3 .. 16, n \in 1 .. 8 :
            /\ bin_size[45] = n * Pow[j] /\ Below(45) = (n - 1) * Pow[j]
            /\ 45 = 4 * (j - 3) + n /\ n \in 5 .. 8
        BY <1>1, BinSteps
  <2>2. j = 13 /\ n = 5
        BY <2>1
  <2> QED BY <2>1, <2>2, PowIs
<1>4. bin_size[60] = 524288
  <2>1. PICK j \in 3 .. 16, n \in 1 .. 8 :
            /\ bin_size[60] = n * Pow[j] /\ 60 = 4 * (j - 3) + n /\ n \in 5 .. 8
        BY <1>1, BinSteps
  <2>2. j = 16 /\ n = 8
        BY <2>1
  <2> QED BY <2>1, <2>2, PowIs
<1>5. bin(SMALL_MAX_OBJ_SIZE) = 37
  <2>1. SMALL_MAX_OBJ_SIZE = 10240 /\ LARGE_MAX_OBJ_SIZE = 524288
        BY DEF SMALL_MAX_OBJ_SIZE, LARGE_MAX_OBJ_SIZE
  <2> QED BY <1>1, <1>2, <2>1, BinOnly
<1>6. bin(MEDIUM_MAX_OBJ_SIZE) = 45
  <2>1. MEDIUM_MAX_OBJ_SIZE = 40960 /\ LARGE_MAX_OBJ_SIZE = 524288
        BY DEF MEDIUM_MAX_OBJ_SIZE, LARGE_MAX_OBJ_SIZE
  <2> QED BY <1>1, <1>3, <2>1, BinOnly
<1> QED BY <1>1, <1>2, <1>3, <1>4, <1>5, <1>6

\* The kind of a bin's pages follows from the size of its blocks, and a page
\* is large enough for more than six of them.
LEMMA KindIs ==
    ASSUME NEW b \in AllBins
    PROVE  /\ kind_of_bin(b) = IF b <= 37 THEN "Small"
                               ELSE IF b <= 45 THEN "Medium" ELSE "Large"
           /\ kind_of_bin(b) = "Small" => page_size[kind_of_bin(b)] = 65536
                                          /\ bin_size[b] <= 10240
           /\ kind_of_bin(b) = "Medium" => page_size[kind_of_bin(b)] = 262144
                                          /\ bin_size[b] <= 40960 /\ bin_size[b] > 10240
           /\ kind_of_bin(b) = "Large" => page_size[kind_of_bin(b)] = 4194304
                                          /\ bin_size[b] <= 524288 /\ bin_size[b] > 40960
<1>1. b \in Nat /\ b <= 60 /\ bin_size[b] \in Nat
      BY BinOrder
<1>2. kind_of_bin(b) = IF b <= 37 THEN "Small"
                       ELSE IF b <= 45 THEN "Medium" ELSE "Large"
      BY KindEnds DEF kind_of_bin
<1>3. page_size["Small"] = 65536 /\ page_size["Medium"] = 262144
      /\ page_size["Large"] = 4194304
      BY DEF page_size, Kinds, SLICE_SIZE
<1>4. CASE b <= 37
  <2>1. bin_size[b] <= bin_size[37]
        BY <1>4, KindEnds, BinsGrow
  <2> QED BY <1>1, <1>2, <1>3, <1>4, <2>1, KindEnds
<1>5. CASE b > 37 /\ b <= 45
  <2>1. bin_size[b] <= bin_size[45] /\ bin_size[37] < bin_size[b]
        BY <1>5, KindEnds, BinsGrow, BinsAscend
  <2> QED BY <1>1, <1>2, <1>3, <1>5, <2>1, KindEnds
<1>6. CASE b > 45
  <2>1. bin_size[b] <= bin_size[60] /\ bin_size[45] < bin_size[b]
    <3>1. 45 < b
          BY <1>1, <1>6
    <3> QED BY <1>1, <3>1, KindEnds, BinsGrow, BinsAscend
  <2> QED BY <1>1, <1>2, <1>3, <1>6, <2>1, KindEnds
<1> QED BY <1>1, <1>4, <1>5, <1>6

-----------------------------------------------------------------------------
(* Alignment.                                                              *)

IsAlign(a) == \E k \in Nat : k <= 30 /\ a = Pow[k]

\* The class of a size that was rounded up to an alignment is aligned to it.
LEMMA RoundedClass ==
    ASSUME NEW j \in Nat, j <= 12, NEW r \in Nat, r >= 1, r <= LARGE_MAX_OBJ_SIZE,
           j > 3 => Divides(Pow[j], r)
    PROVE  Divides(Pow[j], bin_size[bin(r)])
<1> DEFINE c == bin(r)
           a == Pow[j]
<1>1. c \in AllBins /\ Below(c) < r /\ r <= bin_size[c]
      BY BinIsBest
<1> HIDE DEF c
<1>2. PICK i \in 3 .. 16, n \in 1 .. 8 :
          bin_size[c] = n * Pow[i] /\ Below(c) = (n - 1) * Pow[i]
      BY <1>1, BinSteps
<1>3. i \in Nat /\ i >= 3 /\ i <= 16 /\ n \in Nat /\ n >= 1
      BY <1>2
<1>4. a \in Nat /\ a > 0 /\ Pow[i] \in Nat /\ Pow[i] > 0
      BY <1>3, PowOf
<1>5. CASE j <= i
  <2>1. PICK k \in Nat : Pow[i] = k * a
        BY <1>3, <1>5, PowOrder DEF Divides
  <2>2. bin_size[c] = (n * k) * a /\ n * k \in Nat
        BY <1>2, <1>3, <1>4, <2>1
  <2> QED BY <2>2 DEF Divides, c
<1>6. CASE j > i
  <2>1. i <= j /\ j > 3 /\ j <= 30
        BY <1>3, <1>6
  <2>2. PICK k \in Nat : a = k * Pow[i]
        BY <1>3, <2>1, PowOrder DEF Divides
  <2>3. PICK l \in Nat : r = l * a
        BY <2>1 DEF Divides
  <2>4. r = (l * k) * Pow[i] /\ l * k \in Nat
        BY <1>4, <2>2, <2>3
  <2>5. l * k = n
    <3> DEFINE x == l * k
               p == Pow[i]
    <3>1. (n - 1) * p < x * p /\ x * p <= n * p /\ x \in Nat
          BY <1>1, <1>2, <2>4
    <3> HIDE DEF x, p
    <3>2. n - 1 < x /\ x <= n
      <4>1. ASSUME x <= n - 1 PROVE FALSE
        <5>1. x * p <= (n - 1) * p
              BY <1>3, <1>4, <3>1, <4>1 DEF p
        <5>2. x * p \in Nat /\ (n - 1) * p \in Nat
              BY <1>3, <1>4, <3>1 DEF p
        <5> QED BY <3>1, <5>1, <5>2
      <4>2. ASSUME x >= n + 1 PROVE FALSE
        <5>1. x * p >= (n + 1) * p /\ (n + 1) * p > n * p
              BY <1>3, <1>4, <3>1, <4>2 DEF p
        <5>2. x * p \in Nat /\ (n + 1) * p \in Nat /\ n * p \in Nat
              BY <1>3, <1>4, <3>1 DEF p
        <5> QED BY <3>1, <5>1, <5>2
      <4> QED BY <1>3, <3>1, <4>1, <4>2
    <3>3. x = n
          BY <1>3, <3>1, <3>2
    <3> QED BY <3>3 DEF x
  <2>6. bin_size[c] = r
        BY <1>2, <2>4, <2>5
  <2> QED BY <2>1, <2>6 DEF c
<1> QED BY <1>3, <1>5, <1>6

\* What classify does with a layout.
Rounded(s, a) == IF a > WORD THEN RoundUp(s, a) ELSE s

LEMMA ClassifyIs ==
    ASSUME large \in BOOLEAN, NEW s \in Nat, s >= 1, NEW j \in Nat, j <= 30
    PROVE  LET a == Pow[j]
               r == Rounded(s, a)
           IN  /\ a \in Nat /\ a > 0
               /\ r \in Nat /\ s <= r
               /\ j > 3 => Divides(a, r)
               /\ a <= 8 => r = s
               /\ a > 8 => r = RoundUp(s, a)
               /\ MAX_BINNED_OBJ_SIZE \in {40960, 524288}
               /\ classify(s, a) = IF a > 4096 \/ r > MAX_BINNED_OBJ_SIZE THEN 61
                                   ELSE bin(r)
               /\ classify(s, a) = 61 \/ classify(s, a) \in AllBins
               /\ classify(s, a) # 61 => j <= 12 /\ r <= LARGE_MAX_OBJ_SIZE
                                         /\ classify(s, a) = bin(r)
<1> DEFINE a == Pow[j]
           r == Rounded(s, a)
<1>1. a \in Nat /\ a > 0
      BY PowOf
<1>2. j > 3 => a > 8
  <2> SUFFICES ASSUME j > 3 PROVE a > 8
      BY <1>1
  <2>1. 4 \in Nat /\ 4 <= j
        OBVIOUS
  <2>2. Pow[4] <= Pow[j]
        BY <2>1, PowOrder
  <2> QED BY <1>1, <2>2, PowIs
<1>3. a <= 4096 => j <= 12
  <2> SUFFICES ASSUME j > 12 PROVE a > 4096
      BY <1>1
  <2>1. 13 \in Nat /\ 13 <= j
        OBVIOUS
  <2>2. Pow[13] <= Pow[j]
        BY <2>1, PowOrder
  <2> QED BY <1>1, <2>2, PowIs
<1> HIDE DEF a
<1>4. /\ RoundUp(s, a) \in Nat /\ Divides(a, RoundUp(s, a)) /\ s <= RoundUp(s, a)
      BY <1>1, RoundUpIs
<1>5. r \in Nat /\ s <= r /\ (j > 3 => Divides(a, r)) /\ (a <= 8 => r = s)
      /\ (a > 8 => r = RoundUp(s, a))
      BY <1>1, <1>2, <1>4 DEF Rounded, WORD
<1>6. MAX_BINNED_OBJ_SIZE \in {40960, 524288}
      BY DEF MAX_BINNED_OBJ_SIZE, LARGE_MAX_OBJ_SIZE, MEDIUM_MAX_OBJ_SIZE
<1>7. classify(s, a) = IF a > 4096 \/ r > MAX_BINNED_OBJ_SIZE THEN 61 ELSE bin(r)
      BY DEF classify, Rounded, MAX_NATURAL_ALIGN, BIN_HUGE, MAX_BIN
<1> HIDE DEF r
<1>8. CASE a > 4096 \/ r > MAX_BINNED_OBJ_SIZE
      BY <1>1, <1>5, <1>6, <1>7, <1>8 DEF a, r
<1>9. CASE ~(a > 4096 \/ r > MAX_BINNED_OBJ_SIZE)
  <2>1. r <= LARGE_MAX_OBJ_SIZE /\ r >= 1 /\ j <= 12
        BY <1>1, <1>3, <1>5, <1>6, <1>9 DEF LARGE_MAX_OBJ_SIZE
  <2>2. bin(r) \in AllBins
        BY <1>5, <2>1, BinIsBest
  <2> QED BY <1>1, <1>5, <1>6, <1>7, <1>9, <2>1, <2>2 DEF a, r
<1> QED BY <1>8, <1>9

\* The class of a layout holds it, and is aligned to it.
LEMMA ClassServes ==
    ASSUME large \in BOOLEAN, NEW s \in Nat, s >= 1, NEW j \in Nat, j <= 30,
           classify(s, Pow[j]) # 61
    PROVE  /\ classify(s, Pow[j]) \in AllBins /\ j <= 12
           /\ s <= bin_size[classify(s, Pow[j])]
           /\ Divides(Pow[j], bin_size[classify(s, Pow[j])])
<1> DEFINE a == Pow[j]
           r == Rounded(s, a)
<1>1. /\ r \in Nat /\ s <= r /\ (j > 3 => Divides(a, r))
      /\ j <= 12 /\ r <= LARGE_MAX_OBJ_SIZE /\ classify(s, a) = bin(r)
      BY ClassifyIs
<1> HIDE DEF r
<1>2. bin(r) \in AllBins /\ r <= bin_size[bin(r)] /\ bin_size[bin(r)] \in Nat
  <2>1. r >= 1
        BY <1>1
  <2>2. bin(r) \in AllBins /\ r <= bin_size[bin(r)]
        BY <1>1, <2>1, BinIsBest
  <2> QED BY <2>2, BinOrder
<1>3. Divides(a, bin_size[bin(r)])
  <2>1. r >= 1
        BY <1>1
  <2> QED BY <1>1, <2>1, RoundedClass
<1> QED BY <1>1, <1>2, <1>3

\* The start of the blocks is aligned to every alignment, up to the largest
\* natural one, that divides the size of the blocks.
LEMMA StartIs ==
    ASSUME NEW b \in AllBins
    PROVE  /\ block_start(bin_size[b]) \in Nat
           /\ block_start(bin_size[b]) >= 64 /\ block_start(bin_size[b]) <= 4096
           /\ \A j \in Nat : j <= 12 /\ Divides(Pow[j], bin_size[b])
                  => Divides(Pow[j], block_start(bin_size[b]))
<1> DEFINE bs == bin_size[b]
           S == {2^k : k \in {j \in 0 .. 12 : bs % 2^j = 0}}
           N == Max(S)
<1>1. bs \in Nat /\ bs > 0
      BY BinOrder
<1> HIDE DEF bs
<1>2. \A y : y \in S <=> \E k \in Nat : k <= 12 /\ y = Pow[k] /\ Divides(Pow[k], bs)
  <2>1. ASSUME NEW k \in Nat, k <= 12
        PROVE  2^k = Pow[k] /\ (bs % 2^k = 0 <=> Divides(Pow[k], bs))
    <3>1. k <= 30
          BY <2>1
    <3>2. 2^k = Pow[k] /\ Pow[k] \in Nat \ {0}
      <4> HIDE DEF S
      <4> QED BY <3>1, PowOf
    <3>3. bs % Pow[k] = 0 <=> Divides(Pow[k], bs)
      <4> HIDE DEF S
      <4> QED BY <1>1, <3>2, DividesMod
    <3> QED BY <3>2, <3>3
  <2>2. \A y : y \in S <=> \E k \in Nat : k <= 12 /\ y = 2^k /\ bs % 2^k = 0
        OBVIOUS
  <2> HIDE DEF S
  <2> QED BY <2>1, <2>2
<1> HIDE DEF S
<1>3. Divides(1, bs)
  <2>1. bs = bs * 1
        BY <1>1
  <2> QED BY <1>1, <2>1 DEF Divides
<1>4. 1 \in S
  <2>1. 0 \in Nat /\ 0 <= 12 /\ Pow[0] = 1
        BY PowIs
  <2> QED BY <1>2, <1>3, <2>1
<1>5. \A y \in S : y \in Nat /\ y <= 4096
  <2>1. ASSUME NEW k \in Nat, k <= 12 PROVE Pow[k] \in Nat /\ Pow[k] <= 4096
    <3>1. 12 \in Nat /\ k <= 30
          BY <2>1
    <3>2. Pow[k] <= Pow[12]
          BY <2>1, <3>1, PowOrder
    <3>3. Pow[k] \in Nat
          BY <3>1, PowOf
    <3> QED BY <3>2, <3>3, PowIs
  <2> QED BY <1>2, <2>1
<1>6. N \in S /\ \A y \in S : y <= N
  <2>1. 4096 \in Nat
        OBVIOUS
  <2> QED BY <1>4, <1>5, <2>1, MaxIs
<1> HIDE DEF N
<1>7. PICK K \in Nat : K <= 12 /\ N = Pow[K] /\ Divides(Pow[K], bs)
      BY <1>2, <1>6
<1>8. N \in Nat /\ N > 0 /\ N <= 4096
  <2>1. K <= 30
        BY <1>7
  <2> QED BY <1>5, <1>6, <1>7, <2>1, PowOf
<1> DEFINE p == RoundUp(64, N)
<1>9. /\ p \in Nat /\ Divides(N, p) /\ 64 <= p /\ p < 64 + N
  <2>1. 64 \in Nat /\ N \in Nat \ {0}
        BY <1>8
  <2> QED BY <2>1, RoundUpIs
<1>10. block_start(bs) = p
      BY DEF block_start, PAGE_HEADER_RESERVE, N, S
<1> HIDE DEF p
<1>11. p <= 4096
  <2>1. CASE N < 64
        BY <1>8, <1>9, <2>1
  <2>2. CASE N >= 64
    <3>1. PICK k \in Nat : p = k * N
          BY <1>9 DEF Divides
    <3>2. k < 2
      <4>1. ASSUME k >= 2 PROVE FALSE
        <5>1. k * N >= 2 * N
              BY <1>8, <4>1
        <5>2. k * N < 2 * N
              BY <1>8, <1>9, <2>2, <3>1
        <5> QED BY <1>8, <5>1, <5>2
      <4> QED BY <4>1
    <3>3. k * N <= N
          BY <1>8, <3>2
    <3> QED BY <1>8, <3>1, <3>3
  <2> QED BY <1>8, <2>1, <2>2
<1>12. ASSUME NEW j \in Nat, j <= 12, Divides(Pow[j], bs)
       PROVE  Divides(Pow[j], p)
  <2>1. Pow[j] \in S
        BY <1>2, <1>12
  <2>2. Pow[j] <= Pow[K] /\ Pow[j] \in Nat
        BY <1>5, <1>6, <1>7, <2>1
  <2>3. j <= K
    <3> SUFFICES ASSUME K + 1 <= j PROVE FALSE
        BY <1>7
    <3>1. K + 1 \in Nat /\ j <= 30 /\ K <= 29
          BY <1>7, <1>12
    <3>2. Pow[K + 1] <= Pow[j] /\ Pow[K + 1] = 2 * Pow[K]
          BY <3>1, PowOrder, PowNext
    <3> QED BY <1>7, <1>8, <2>2, <3>2
  <2>4. Divides(Pow[j], Pow[K])
    <3>1. K <= 30
          BY <1>7
    <3> QED BY <2>3, <3>1, PowOrder
  <2> QED BY <1>7, <1>8, <1>9, <2>2, <2>4, DividesThen
<1> QED BY <1>9, <1>10, <1>11, <1>12 DEF bs

\* A page holds at least six blocks, and all of them lie inside it.
LEMMA BlocksInPage ==
    ASSUME NEW b \in AllBins
    PROVE  LET n  == blocks_per_page(b)
               st == block_start(bin_size[b])
               ps == page_size[kind_of_bin(b)]
           IN  /\ n \in Nat /\ n >= 6 /\ n < 65536 /\ st \in Nat /\ st >= 64
               /\ ps \in {65536, 262144, 4194304}
               /\ \A i \in Nat : i < n => /\ st + i * bin_size[b] \in Nat
                                          /\ st + i * bin_size[b] + bin_size[b] <= ps
<1> DEFINE n  == blocks_per_page(b)
           st == block_start(bin_size[b])
           ps == page_size[kind_of_bin(b)]
           bs == bin_size[b]
<1>1. bs \in Nat /\ bs > 0 /\ bs >= 8
  <2>1. bs \in Nat /\ bs > 0 /\ Divides(8, bs)
        BY BinOrder
  <2> QED BY <2>1 DEF Divides
<1>2. st \in Nat /\ st >= 64 /\ st <= 4096
      BY StartIs
<1>3. \/ ps = 65536 /\ bs <= 10240
      \/ ps = 262144 /\ bs <= 40960
      \/ ps = 4194304 /\ bs <= 524288 /\ bs > 40960
      BY KindIs
<1>4. n = (ps - st) \div bs
      BY DEF blocks_per_page
<1> HIDE DEF n, st, ps, bs
<1>5. ps - st \in Nat /\ ps - st >= 6 * bs
      BY <1>1, <1>2, <1>3
<1>6. n \in Nat /\ \E r \in Nat : ps - st = bs * n + r /\ r < bs
  <2>1. (ps - st) \div bs \in Nat /\ (ps - st) % bs \in Nat /\ (ps - st) % bs < bs
        /\ ps - st = bs * ((ps - st) \div bs) + ((ps - st) % bs)
        BY <1>1, <1>5
  <2> QED BY <1>4, <2>1
<1>7. n >= 6
  <2> SUFFICES ASSUME n + 1 <= 6 PROVE FALSE
      BY <1>6
  <2>1. bs * (n + 1) <= bs * 6 /\ bs * (n + 1) = bs * n + bs
        BY <1>1, <1>6
  <2> QED BY <1>1, <1>5, <1>6, <2>1
<1>8. n < 65536
  <2> SUFFICES ASSUME n >= 65536 PROVE FALSE
      BY <1>6
  <2>1. bs * n >= bs * 65536 /\ bs * n <= ps - st
        BY <1>1, <1>6
  <2>2. bs * 65536 <= ps - st
    <3>1. bs * n \in Nat /\ bs * 65536 \in Nat
          BY <1>1, <1>6
    <3> QED BY <1>5, <2>1, <3>1
  <2> QED BY <1>1, <1>2, <1>3, <2>2
<1>9. ASSUME NEW i \in Nat, i < n PROVE st + i * bs \in Nat /\ st + i * bs + bs <= ps
  <2>1. (i + 1) * bs <= n * bs /\ (i + 1) * bs = i * bs + bs /\ i * bs \in Nat
        BY <1>1, <1>6, <1>9
  <2>2. n * bs <= ps - st
        BY <1>1, <1>6
  <2>3. i * bs + bs <= ps - st
    <3>1. n * bs \in Nat
          BY <1>1, <1>6
    <3> QED BY <1>1, <1>5, <2>1, <2>2, <3>1
  <2>4. ps \in Nat
        BY <1>3
  <2> DEFINE x == i * bs
  <2>5. x \in Nat /\ x + bs <= ps - st
        BY <2>1, <2>3
  <2> HIDE DEF x
  <2>6. st + x \in Nat /\ st + x + bs <= ps
        BY <1>1, <1>2, <2>4, <2>5
  <2> QED BY <2>6 DEF x
<1> QED BY <1>2, <1>3, <1>6, <1>7, <1>8, <1>9 DEF n, st, ps, bs

-----------------------------------------------------------------------------
(* The inductive invariant.                                                *)

\* A block that was cut for some layout is of a class at least as large as the
\* layout's own, of the same kind of page, and aligned to the layout's
\* alignment, which realloc never changes.
InClass ==
    /\ classify(size, align) \in AllBins
    /\ classify(size, align) <= block
    /\ kind_of_bin(classify(size, align)) = kind_of_bin(block)
    /\ bin_size[block] % align = 0

IInv ==
    /\ large \in BOOLEAN
    /\ size \in Sizes \cup NewSizes
    /\ align \in Aligns
    /\ block \in AllBins \cup {BIN_HUGE}
    /\ IF block = BIN_HUGE THEN classify(size, align) = BIN_HUGE ELSE InClass

\* What the assumption on the constants says of a layout.
LEMMA Layouts ==
    /\ \A s \in Sizes \cup NewSizes : s \in Nat /\ s >= 1
    /\ \A a \in Aligns : \E j \in Nat : j <= 30 /\ a = Pow[j]
<1>1. \A s \in Sizes \cup NewSizes : s \in Nat /\ s >= 1
  <2>1. \A s \in Sizes \cup NewSizes : s \in Nat \ {0}
        BY BinsAssumption
  <2> QED BY <2>1
<1>2. ASSUME NEW a \in Aligns PROVE \E j \in Nat : j <= 30 /\ a = Pow[j]
  <2>1. PICK j \in 0 .. 30 : a = 2^j
        BY <1>2, BinsAssumption
  <2>2. j \in Nat /\ j <= 30
        OBVIOUS
  <2> QED BY <2>1, <2>2, PowOf
<1> QED BY <1>1, <1>2

LEMMA HugeIs == BIN_HUGE = 61 /\ BIN_HUGE \notin AllBins
BY DEF BIN_HUGE, AllBins, MAX_BIN

LEMMA InitIInv == Init => IInv
<1> SUFFICES ASSUME Init PROVE IInv
    OBVIOUS
<1>1. large \in BOOLEAN /\ size \in Sizes /\ align \in Aligns
      /\ block = classify(size, align)
      BY DEF Init
<1>2. size \in Nat /\ size >= 1
      BY <1>1, Layouts
<1>3. PICK j \in Nat : j <= 30 /\ align = Pow[j]
      BY <1>1, Layouts
<1>4. block = 61 \/ block \in AllBins
      BY <1>1, <1>2, <1>3, ClassifyIs
<1>5. CASE block = 61
      BY <1>1, <1>5, HugeIs DEF IInv
<1>6. CASE block # 61
  <2>1. block \in AllBins /\ Divides(align, bin_size[block])
        BY <1>1, <1>2, <1>3, <1>6, ClassServes
  <2>2. bin_size[block] \in Nat /\ align \in Nat \ {0} /\ block \in Nat
        BY <1>3, <2>1, BinOrder, PowOf
  <2>3. bin_size[block] % align = 0
        BY <2>1, <2>2, DividesMod
  <2> QED BY <1>1, <1>6, <2>1, <2>2, <2>3, HugeIs DEF IInv, InClass
<1> QED BY <1>5, <1>6

\* An entry of the table is in the range of a bin exactly if the sizes that
\* look at it are of that bin.
LEMMA RangeIs ==
    ASSUME NEW b \in AllBins, NEW s \in Nat, s >= 1, s <= 1024
    PROVE  direct_index(s) \in direct_range(b) <=> Below(b) < s /\ s <= bin_size[b]
<1> DEFINE i  == direct_index(s)
           lo == IF b = 1 THEN 0 ELSE bin_size[b - 1] \div WORD + 1
           hi == bin_size[b] \div WORD
<1>1. direct_range(b) = lo .. (IF hi >= 129 THEN 128 ELSE hi)
      BY DEF direct_range, DIRECT_ENTRIES, DIRECT_MAX_SIZE, WORD
<1>2. i \in Nat /\ 8 * (i - 1) < s /\ s <= 8 * i /\ i >= 1 /\ i <= 128
      BY DEF direct_index, DivCeil, WORD
<1>3. /\ bin_size[b] \in Nat /\ Below(b) \in Nat
      /\ Divides(8, bin_size[b]) /\ Divides(8, Below(b))
      BY BinOrder
<1>4. PICK x \in Nat : bin_size[b] = x * 8
      BY <1>3 DEF Divides
<1>5. PICK y \in Nat : Below(b) = y * 8
      BY <1>3 DEF Divides
<1>6. hi = x
      BY <1>4 DEF WORD
<1>7. lo = IF b = 1 THEN 0 ELSE y + 1
  <2>1. CASE b = 1
        BY <2>1
  <2>2. CASE b # 1
    <3>1. bin_size[b - 1] = y * 8
          BY <1>5, <2>2 DEF Below
    <3>2. bin_size[b - 1] \div WORD = y
          BY <3>1 DEF WORD
    <3> QED BY <2>2, <3>2
  <2> QED BY <2>1, <2>2
<1>8. b = 1 => y = 0
      BY <1>5 DEF Below
<1> HIDE DEF i, lo, hi
<1>9. i \in direct_range(b) <=> y < i /\ i <= x
      BY <1>1, <1>2, <1>6, <1>7, <1>8
<1> QED BY <1>2, <1>4, <1>5, <1>9 DEF i

\* Sizes that look at one entry of the table are of one bin.
LEMMA SameSlotIs ==
    ASSUME large \in BOOLEAN, NEW a \in Nat, a > 0,
           NEW old \in Nat, old >= 1, NEW new \in Nat, new >= 1,
           same_slot(old, new, a)
    PROVE  classify(new, a) = classify(old, a)
<1>1. /\ a <= 8 /\ old <= 1024 /\ new <= 1024
      /\ direct_index(new) = direct_index(old)
      BY DEF same_slot, WORD, DIRECT_MAX_SIZE
<1>2. classify(new, a) = bin(new) /\ classify(old, a) = bin(old)
      BY <1>1 DEF classify, WORD, MAX_NATURAL_ALIGN, MAX_BINNED_OBJ_SIZE,
                  LARGE_MAX_OBJ_SIZE, MEDIUM_MAX_OBJ_SIZE
<1> DEFINE b == bin(old)
<1>3. b \in AllBins /\ Below(b) < old /\ old <= bin_size[b]
      BY <1>1, BinIsBest DEF LARGE_MAX_OBJ_SIZE
<1> HIDE DEF b
<1>4. direct_index(new) \in direct_range(b)
      BY <1>1, <1>3, RangeIs
<1>5. Below(b) < new /\ new <= bin_size[b]
      BY <1>1, <1>3, <1>4, RangeIs
<1>6. bin(new) = b
      BY <1>1, <1>3, <1>5, BinOnly DEF LARGE_MAX_OBJ_SIZE
<1> QED BY <1>2, <1>6 DEF b

LEMMA NextIInv == IInv /\ [Next]_vars => IInv'
<1> SUFFICES ASSUME IInv, [Next]_vars PROVE IInv'
    OBVIOUS
<1>1. CASE UNCHANGED vars
      BY <1>1 DEF vars, IInv, InClass, classify, MAX_BINNED_OBJ_SIZE
<1>2. ASSUME NEW s \in NewSizes, ReallocInPlace(s) PROVE IInv'
  <2> DEFINE old == classify(size, align)
             new == classify(s, align)
  <2>1. /\ block # BIN_HUGE
        /\ same_slot(size, s, align) \/ (new # BIN_HUGE /\ fits_in_place(old, new, s))
        /\ size' = s /\ large' = large /\ block' = block /\ align' = align
        BY <1>2 DEF ReallocInPlace
  <2>2. /\ large \in BOOLEAN /\ align \in Aligns /\ block \in AllBins
        /\ old \in AllBins /\ old <= block /\ kind_of_bin(old) = kind_of_bin(block)
        /\ bin_size[block] % align = 0
        BY <2>1 DEF IInv, InClass
  <2>3. classify(size, align)' = new
        BY <2>1 DEF classify, MAX_BINNED_OBJ_SIZE
  <2>4. s \in Nat /\ s >= 1
        BY Layouts
  <2>5. PICK j \in Nat : j <= 30 /\ align = Pow[j]
        BY <2>2, Layouts
  <2>10. same_slot(size, s, align) => new = old
    <3>1. size \in Nat /\ size >= 1
          BY Layouts DEF IInv
    <3>2. align \in Nat /\ align > 0
          BY <2>5, PowOf
    <3> QED BY <2>2, <2>4, <3>1, <3>2, SameSlotIs
  <2>6. new \in AllBins
    <3>1. new # BIN_HUGE => new \in AllBins
          BY <2>2, <2>4, <2>5, ClassifyIs, HugeIs
    <3> QED BY <2>1, <2>2, <2>10, <3>1
  <2> HIDE DEF old, new
  <2>7. old \in Nat /\ new \in Nat /\ block \in Nat
        BY <2>2, <2>6, BinOrder
  <2>8. new <= block /\ kind_of_bin(new) = kind_of_bin(block)
    <3>1. new = old \/ (new < old /\ kind_of_bin(new) = kind_of_bin(old))
          BY <2>1, <2>10 DEF fits_in_place
    <3> QED BY <2>2, <2>7, <3>1
  <2>9. InClass'
        BY <2>1, <2>2, <2>3, <2>6, <2>8 DEF InClass
  <2> QED BY <2>1, <2>2, <2>9 DEF IInv
<1> QED BY <1>1, <1>2 DEF Next

\* IInv holds in every reachable state, whatever the sizes and alignments.
THEOREM BinsInductive == Spec => []IInv
BY InitIInv, NextIInv, PTL DEF Spec

-----------------------------------------------------------------------------
(* The properties.                                                         *)

\* What the invariant says of a block that is in a page.
LEMMA BlockIs ==
    ASSUME IInv, block # BIN_HUGE
    PROVE  /\ block \in AllBins /\ size \in Nat /\ size <= bin_size[block]
           /\ kind_of_bin(classify(size, align)) = kind_of_bin(block)
           /\ \E j \in Nat : /\ j <= 12 /\ align = Pow[j]
                             /\ Divides(Pow[j], bin_size[block])
<1> DEFINE c == classify(size, align)
<1>1. /\ large \in BOOLEAN /\ size \in Sizes \cup NewSizes /\ align \in Aligns
      /\ block \in AllBins /\ c \in AllBins /\ c <= block
      /\ kind_of_bin(c) = kind_of_bin(block) /\ bin_size[block] % align = 0
      BY DEF IInv, InClass
<1>2. size \in Nat /\ size >= 1
      BY <1>1, Layouts
<1>3. PICK j \in Nat : j <= 30 /\ align = Pow[j]
      BY <1>1, Layouts
<1>4. c # 61
      BY <1>1 DEF AllBins, MAX_BIN
<1>5. j <= 12 /\ size <= bin_size[c]
      BY <1>1, <1>2, <1>3, <1>4, ClassServes
<1> HIDE DEF c
<1>6. bin_size[c] <= bin_size[block]
      BY <1>1, BinsGrow
<1>7. bin_size[block] \in Nat /\ bin_size[c] \in Nat /\ Pow[j] \in Nat \ {0}
      BY <1>1, <1>3, BinOrder, PowOf
<1>8. Divides(Pow[j], bin_size[block])
      BY <1>1, <1>3, <1>7, DividesMod
<1> QED BY <1>1, <1>2, <1>3, <1>5, <1>6, <1>7, <1>8 DEF c

\* Where the first and the last block of the page are.
LEMMA EndsAre ==
    ASSUME NEW b \in AllBins, b = block, NEW addr \in BlockEnds
    PROVE  LET ps == page_size[kind_of_bin(b)]
           IN  \E i, off \in Nat :
                   /\ off = block_start(bin_size[b]) + i * bin_size[b]
                   /\ addr = 3 * ps + off /\ PageBase = 3 * ps
                   /\ off >= 64 /\ off + bin_size[b] <= ps
                   /\ ps \in {65536, 262144, 4194304}
                   /\ bin_size[b] \in Nat /\ bin_size[b] > 0
<1> DEFINE n  == blocks_per_page(b)
           st == block_start(bin_size[b])
           ps == page_size[kind_of_bin(b)]
<1>1. PageBase = 3 * ps
      BY DEF PageBase
<1>2. /\ n \in Nat /\ n >= 6 /\ st \in Nat /\ st >= 64 /\ ps \in {65536, 262144, 4194304}
      /\ \A i \in Nat : i < n => /\ st + i * bin_size[b] \in Nat
                                 /\ st + i * bin_size[b] + bin_size[b] <= ps
      BY BlocksInPage
<1>3. bin_size[b] \in Nat /\ bin_size[b] > 0
      BY BinOrder
<1>4. PICK i \in {0, n - 1} : addr = PageBase + st + i * bin_size[b]
      BY DEF BlockEnds
<1> HIDE DEF n, st, ps
<1>5. i \in Nat /\ i < n
      BY <1>2, <1>4
<1> DEFINE x == i * bin_size[b]
<1>6. x \in Nat
      BY <1>3, <1>5
<1>7. st + x + bin_size[b] <= ps /\ addr = PageBase + st + x
      BY <1>2, <1>4, <1>5
<1> HIDE DEF x
<1>8. st + x \in Nat /\ st + x >= 64 /\ addr = 3 * ps + (st + x)
      BY <1>1, <1>2, <1>3, <1>6, <1>7
<1> QED BY <1>1, <1>2, <1>3, <1>5, <1>7, <1>8 DEF x, st, ps

\* However often realloc shrank the layout in place, for every size and every
\* alignment, the block is large enough, aligned by construction and inside its
\* page (bins.rs: bin_size, block_start, blocks_per_page).
THEOREM LayoutAlwaysServed == Spec => []LayoutServed
<1>1. ASSUME IInv PROVE LayoutServed
  <2> SUFFICES ASSUME block # BIN_HUGE
               PROVE  /\ size <= bin_size[block]
                      /\ blocks_per_page(block) >= 6 /\ blocks_per_page(block) < 2^16
                      /\ \A addr \in BlockEnds :
                            /\ addr % align = 0
                            /\ addr >= PageBase + PAGE_HEADER_RESERVE
                            /\ addr + bin_size[block]
                                   <= PageBase + page_size[kind_of_bin(block)]
      BY DEF LayoutServed
  <2>1. block \in AllBins /\ size <= bin_size[block]
        BY <1>1, BlockIs
  <2>2. PICK j \in Nat : /\ j <= 12 /\ align = Pow[j]
                         /\ Divides(Pow[j], bin_size[block])
        BY <1>1, BlockIs
  <2>3. blocks_per_page(block) >= 6 /\ blocks_per_page(block) < 2^16
    <3>1. 2^16 = 65536
          OBVIOUS
    <3>2. blocks_per_page(block) >= 6 /\ blocks_per_page(block) < 65536
          BY <2>1, BlocksInPage
    <3> QED BY <3>1, <3>2
  <2>4. ASSUME NEW addr \in BlockEnds
        PROVE  /\ addr % align = 0
               /\ addr >= PageBase + PAGE_HEADER_RESERVE
               /\ addr + bin_size[block] <= PageBase + page_size[kind_of_bin(block)]
    <3> DEFINE st == block_start(bin_size[block])
               ps == page_size[kind_of_bin(block)]
    <3>1. PICK i, off \in Nat :
              /\ off = st + i * bin_size[block]
              /\ addr = 3 * ps + off /\ PageBase = 3 * ps
              /\ off >= 64 /\ off + bin_size[block] <= ps
              /\ ps \in {65536, 262144, 4194304}
              /\ bin_size[block] \in Nat /\ bin_size[block] > 0
          BY <2>1, EndsAre
    <3>2. st \in Nat /\ Divides(Pow[j], st)
          BY <2>1, <2>2, StartIs
    <3> HIDE DEF st, ps
    <3>3. align \in Nat \ {0}
      <4>1. j <= 30
            BY <2>2
      <4> QED BY <2>2, <4>1, PowOf
    <3>4. Divides(align, off)
      <4>1. Divides(align, st) /\ Divides(align, bin_size[block])
            BY <2>2, <3>2
      <4>2. Divides(align, st + i * bin_size[block])
            BY <3>1, <3>2, <3>3, <4>1, DividesSum
      <4> QED BY <3>1, <4>2
    <3>5. Divides(align, ps)
      <4>1. ASSUME NEW n \in {16, 18, 22}, ps = Pow[n] PROVE Divides(align, ps)
        <5>1. n \in Nat /\ j <= n /\ n <= 30
              BY <2>2
        <5>2. Divides(Pow[j], Pow[n])
              BY <5>1, PowOrder
        <5> QED BY <2>2, <4>1, <5>2
      <4> QED BY <3>1, <4>1, PowIs
    <3>6. Divides(align, off + 3 * ps)
      <4>1. PICK k \in Nat : off = k * align
            BY <3>4 DEF Divides
      <4>2. PICK l \in Nat : ps = l * align
            BY <3>5 DEF Divides
      <4>3. off + 3 * ps = (k + 3 * l) * align /\ k + 3 * l \in Nat
            BY <3>3, <4>1, <4>2
      <4> QED BY <4>3 DEF Divides
    <3>7. addr = off + 3 * ps /\ addr \in Nat
          BY <3>1
    <3>8. addr % align = 0
          BY <3>3, <3>6, <3>7, DividesMod
    <3> QED BY <3>1, <3>8 DEF ps, PAGE_HEADER_RESERVE
  <2> QED BY <2>1, <2>3, <2>4
<1> QED BY <1>1, BinsInductive, PTL

\* The fast path of dealloc takes layouts of small classes only.
LEMMA FastIsSmall ==
    ASSUME large \in BOOLEAN, NEW s \in Nat, s >= 1, NEW j \in Nat, j <= 30,
           dealloc_fast(s, Pow[j])
    PROVE  classify(s, Pow[j]) \in AllBins /\ kind_of_bin(classify(s, Pow[j])) = "Small"
<1> DEFINE a == Pow[j]
           r == Rounded(s, a)
           m == 10240 % a
<1>1. /\ a \in Nat /\ a > 0 /\ r \in Nat /\ s <= r /\ (a <= 8 => r = s)
      /\ (a > 8 => r = RoundUp(s, a)) /\ MAX_BINNED_OBJ_SIZE \in {40960, 524288}
      /\ classify(s, a) = IF a > 4096 \/ r > MAX_BINNED_OBJ_SIZE THEN 61 ELSE bin(r)
      BY ClassifyIs
<1>2. a <= 4096 /\ s <= 10240 - m
      BY DEF dealloc_fast, MAX_NATURAL_ALIGN, SMALL_MAX_OBJ_SIZE
<1> HIDE DEF a, r
<1>3. m \in Nat /\ Divides(a, 10240 - m) /\ 10240 - m \in Nat
  <2>1. 10240 = a * (10240 \div a) + m /\ 10240 \div a \in Nat /\ m \in Nat
        BY <1>1
  <2>2. 10240 - m = (10240 \div a) * a
        BY <1>1, <2>1
  <2>3. (10240 \div a) * a \in Nat
        BY <1>1, <2>1
  <2> QED BY <2>1, <2>2, <2>3 DEF Divides
<1> HIDE DEF m
<1>4. r <= 10240 - m
  <2>1. CASE a <= 8
        BY <1>1, <1>2, <2>1
  <2>2. CASE a > 8
    <3>1. RoundUp(s, a) < s + a /\ Divides(a, RoundUp(s, a))
          BY <1>1, RoundUpIs
    <3>2. PICK k \in Nat : r = k * a
          BY <1>1, <2>2, <3>1 DEF Divides
    <3>3. PICK n \in Nat : 10240 - m = n * a
          BY <1>3 DEF Divides
    <3>4. k * a < (n + 1) * a
          BY <1>1, <1>2, <2>2, <3>1, <3>2, <3>3
    <3>5. k < n + 1
      <4>1. ASSUME n + 1 <= k PROVE FALSE
        <5>1. (n + 1) * a <= k * a
              BY <1>1, <4>1
        <5>2. (n + 1) * a \in Nat /\ k * a \in Nat
              BY <1>1
        <5> QED BY <3>4, <5>1, <5>2
      <4> QED BY <4>1
    <3>6. k * a <= n * a
          BY <1>1, <3>5
    <3> QED BY <3>2, <3>3, <3>6
  <2> QED BY <1>1, <2>1, <2>2
<1>5. r <= 10240 /\ r >= 1
      BY <1>1, <1>3, <1>4
<1>6. classify(s, a) = bin(r)
      BY <1>1, <1>2, <1>5
<1>7. bin(r) \in AllBins /\ Below(bin(r)) < r
      BY <1>1, <1>5, BinIsBest DEF LARGE_MAX_OBJ_SIZE
<1> DEFINE c == bin(r)
<1>8. c \in AllBins /\ Below(c) < r
      BY <1>7
<1> HIDE DEF c
<1>9. c <= 37
  <2> SUFFICES ASSUME 37 < c PROVE FALSE
      BY <1>8, BinOrder
  <2>1. bin_size[37] <= Below(c)
        BY <1>8, KindEnds, BinsAscend
  <2>2. Below(c) \in Nat
        BY <1>8, BinOrder
  <2> QED BY <1>1, <1>5, <1>8, <2>1, <2>2, KindEnds
<1>10. kind_of_bin(c) = "Small"
      BY <1>8, <1>9, KindIs
<1> QED BY <1>6, <1>8, <1>10 DEF c, a

\* A free masks with the kind of the layout it is given and finds the page the
\* block was cut from, on either path, for every layout the block came to hold
\* (heap.rs: dealloc, realloc).
THEOREM FreeAlwaysFindsPage == Spec => []FreeFindsPage
<1>1. ASSUME IInv PROVE FreeFindsPage
  <2>1. /\ large \in BOOLEAN /\ size \in Nat /\ size >= 1
        /\ block = BIN_HUGE => classify(size, align) = BIN_HUGE
        BY <1>1, Layouts DEF IInv
  <2>2. PICK k \in Nat : k <= 30 /\ align = Pow[k]
        BY <1>1, Layouts DEF IInv
  <2>3. dealloc_fast(size, align)
            => /\ classify(size, align) \in AllBins
               /\ kind_of_bin(classify(size, align)) = "Small"
        BY <2>1, <2>2, FastIsSmall
  <2>4. block = BIN_HUGE => ~dealloc_fast(size, align)
        BY <2>1, <2>3, HugeIs
  <2>5. ASSUME block # BIN_HUGE, NEW addr \in BlockEnds
        PROVE  dealloc_header(size, align, addr) = PageBase
    <3>1. /\ block \in AllBins
          /\ kind_of_bin(classify(size, align)) = kind_of_bin(block)
          BY <1>1, <2>5, BlockIs
    <3> DEFINE ps == page_size[kind_of_bin(block)]
    <3>2. dealloc_header(size, align, addr) = addr - (addr % ps)
          BY <2>3, <3>1 DEF dealloc_header, header_of
    <3>3. PICK off \in Nat :
              /\ addr = 3 * ps + off /\ PageBase = 3 * ps
              /\ off + bin_size[block] <= ps
              /\ ps \in {65536, 262144, 4194304}
              /\ bin_size[block] \in Nat /\ bin_size[block] > 0
          BY <3>1, EndsAre
    <3> HIDE DEF ps
    <3>4. off < ps
          BY <3>3
    <3>5. addr % ps = off
      <4>1. CASE ps = 65536
            BY <3>3, <3>4, <4>1
      <4>2. CASE ps = 262144
            BY <3>3, <3>4, <4>2
      <4>3. CASE ps = 4194304
            BY <3>3, <3>4, <4>3
      <4> QED BY <3>3, <4>1, <4>2, <4>3
    <3> QED BY <3>2, <3>3, <3>5
  <2> QED BY <2>4, <2>5 DEF FreeFindsPage
<1> QED BY <1>1, BinsInductive, PTL

\* For every layout the fast paths take, the entry of the direct table they look
\* at belongs to the bin the slow path allocates from, and to no other (bins.rs:
\* direct_index, direct_range; heap.rs: alloc).
THEOREM DirectAlwaysAgrees == Spec => []DirectAgrees
<1>1. ASSUME IInv PROVE DirectAgrees
  <2> DEFINE s == direct_size(size, align)
  <2> SUFFICES ASSUME s <= DIRECT_MAX_SIZE
               PROVE  /\ classify(size, align) = bin(s)
                      /\ \A b \in AllBins :
                             direct_index(s) \in direct_range(b) <=> b = bin(s)
      BY DEF DirectAgrees
  <2>1. large \in BOOLEAN /\ size \in Nat /\ size >= 1
        BY <1>1, Layouts DEF IInv
  <2>2. PICK k \in Nat : k <= 30 /\ align = Pow[k]
        BY <1>1, Layouts DEF IInv
  <2> DEFINE r == Rounded(size, align)
  <2>3. /\ align \in Nat /\ r \in Nat /\ size <= r
        /\ MAX_BINNED_OBJ_SIZE \in {40960, 524288}
        /\ classify(size, align) = IF align > 4096 \/ r > MAX_BINNED_OBJ_SIZE THEN 61
                                   ELSE bin(r)
        BY <2>1, <2>2, ClassifyIs
  <2>4. s <= 1024
        BY DEF DIRECT_MAX_SIZE
  <2>5. s = IF align <= 4096 THEN r ELSE 2^30
        BY <2>3 DEF direct_size, Rounded, WORD, MAX_NATURAL_ALIGN
  <2> HIDE DEF r, s
  <2>6. 2^30 = 1073741824
        OBVIOUS
  <2>7. align <= 4096 /\ s = r
        BY <2>3, <2>4, <2>5, <2>6
  <2>8. s \in Nat /\ s >= 1 /\ s <= LARGE_MAX_OBJ_SIZE /\ classify(size, align) = bin(s)
        BY <2>1, <2>3, <2>4, <2>7 DEF LARGE_MAX_OBJ_SIZE
  <2>9. bin(s) \in AllBins /\ Below(bin(s)) < s /\ s <= bin_size[bin(s)]
        BY <2>8, BinIsBest
  <2>10. ASSUME NEW b \in AllBins
         PROVE  direct_index(s) \in direct_range(b) <=> b = bin(s)
    <3>1. direct_index(s) \in direct_range(b) <=> Below(b) < s /\ s <= bin_size[b]
          BY <2>4, <2>8, RangeIs
    <3>2. Below(b) < s /\ s <= bin_size[b] => bin(s) = b
          BY <2>8, BinOnly
    <3> QED BY <2>9, <3>1, <3>2
  <2> QED BY <2>8, <2>10
<1> QED BY <1>1, BinsInductive, PTL
=============================================================================
