----------------------------- MODULE HeapProofs -----------------------------
(***************************************************************************)
(* Theorems about module Heap, for every memory, every policy, every       *)
(* choice of bins and every program.                                       *)
(*                                                                         *)
(* First what the operators compute (the queues as sequences, the geometry *)
(* of pages and blocks, what each operation on the queues does to the      *)
(* queues, the flags of the pages, the occupied bits and the direct table) *)
(* and the joint invariant of the heap and the program's blocks; then how  *)
(* extending a page, retiring and releasing empty pages and acquiring      *)
(* slices keep it; then the calls of the program (ensure_init, the supply  *)
(* of pages, find_page, alloc, dealloc, realloc), so that it is inductive; *)
(* last the properties that the runs check.                                *)
(*                                                                         *)
(* No part of the invariant is kept by all operations without the others.  *)
(* A free finds its page only because every live block lies where masking  *)
(* goes to; a new page is in no queue only because its slices were free; a *)
(* released page has no live block only because the counts are exact.      *)
(***************************************************************************)
EXTENDS Heap, SliceOpsProofs, FiniteSetTheorems

-----------------------------------------------------------------------------
(* Sequences without repetitions.                                          *)

Distinct(s) == \A i, j \in 1 .. Len(s) : s[i] = s[j] => i = j

\* The elements of a sequence, and its head.
LEMMA SeqFacts ==
    ASSUME NEW s \in Seq(Nat)
    PROVE  /\ Len(s) \in Nat /\ \A i \in 1 .. Len(s) : s[i] \in Nat
           /\ \A x : x \in Elements(s) <=> \E i \in 1 .. Len(s) : s[i] = x
           /\ Elements(s) \subseteq Nat
           /\ Elements(s) = {} <=> s = <<>>
           /\ s # <<>> => /\ HeadOf(s) = s[1] /\ Head(s) = s[1]
                          /\ 1 \in 1 .. Len(s) /\ HeadOf(s) \in Elements(s)
           /\ s = <<>> => HeadOf(s) = NoPage
<1>1. Len(s) \in Nat /\ \A i \in 1 .. Len(s) : s[i] \in Nat
      OBVIOUS
<1>2. \A x : x \in Elements(s) <=> \E i \in 1 .. Len(s) : s[i] = x
      BY DEF Elements
<1>3. s # <<>> => HeadOf(s) = s[1] /\ Head(s) = s[1] /\ 1 \in 1 .. Len(s)
      BY DEF HeadOf
<1>4. s = <<>> => HeadOf(s) = NoPage /\ Elements(s) = {}
      BY DEF Elements, HeadOf
<1> QED BY <1>1, <1>2, <1>3, <1>4

LEMMA PrependFacts ==
    ASSUME NEW s \in Seq(Nat), NEW p \in Nat
    PROVE  /\ <<p>> \o s \in Seq(Nat) /\ <<p>> \o s # <<>>
           /\ Elements(<<p>> \o s) = {p} \cup Elements(s)
           /\ HeadOf(<<p>> \o s) = p
           /\ (Distinct(s) /\ p \notin Elements(s)) => Distinct(<<p>> \o s)
<1> DEFINE t == <<p>> \o s
<1>1. /\ t \in Seq(Nat) /\ t # <<>> /\ t[1] = p /\ 1 \in 1 .. Len(t)
      /\ \A i \in 1 .. Len(s) : i + 1 \in 1 .. Len(t) /\ t[i + 1] = s[i]
  <2>1. t \in Seq(Nat) /\ t # <<>> /\ t[1] = p /\ Len(t) = Len(s) + 1
        OBVIOUS
  <2>2. \A i \in 1 .. Len(s) : t[i + 1] = s[i]
        OBVIOUS
  <2> HIDE DEF t
  <2> QED BY <2>1, <2>2
<1>2. \A i \in 1 .. Len(t) : i = 1 \/ (i - 1 \in 1 .. Len(s) /\ t[i] = s[i - 1])
      OBVIOUS
<1> HIDE DEF t
<1>3. \A x : x \in Elements(s) => x \in Elements(t)
  <2>1. SUFFICES ASSUME NEW x, x \in Elements(s) PROVE x \in Elements(t)
        OBVIOUS
  <2>2. PICK i \in 1 .. Len(s) : s[i] = x
        BY <2>1, SeqFacts
  <2>3. i + 1 \in 1 .. Len(t) /\ t[i + 1] = x
        BY <1>1, <2>2
  <2> QED BY <1>1, <2>3, SeqFacts
<1>4. p \in Elements(t) /\ HeadOf(t) = p
      BY <1>1, SeqFacts
<1>5. \A x : x \in Elements(t) => x = p \/ x \in Elements(s)
  <2>1. SUFFICES ASSUME NEW x, x \in Elements(t), x # p PROVE x \in Elements(s)
        OBVIOUS
  <2>2. PICK i \in 1 .. Len(t) : t[i] = x
        BY <1>1, <2>1, SeqFacts
  <2>3. i - 1 \in 1 .. Len(s) /\ s[i - 1] = x
        BY <1>1, <1>2, <2>1, <2>2
  <2> QED BY <2>3, SeqFacts
<1>6. ASSUME Distinct(s), p \notin Elements(s) PROVE Distinct(t)
  <2>1. SUFFICES ASSUME NEW i \in 1 .. Len(t), NEW j \in 1 .. Len(t), t[i] = t[j]
                 PROVE  i = j
        BY DEF Distinct
  <2>2. \A k \in 1 .. Len(s) : s[k] # p
        BY <1>6, SeqFacts
  <2>3. CASE i = 1 \/ j = 1
    <3>1. ASSUME NEW k \in 1 .. Len(t), t[k] = p PROVE k = 1
      <4>1. k = 1 \/ (k - 1 \in 1 .. Len(s) /\ t[k] = s[k - 1])
            BY <1>2
      <4> QED BY <2>2, <3>1, <4>1
    <3>2. t[i] = p /\ t[j] = p
          BY <1>1, <2>1, <2>3
    <3> QED BY <3>1, <3>2
  <2>4. CASE i # 1 /\ j # 1
    <3>1. i - 1 \in 1 .. Len(s) /\ j - 1 \in 1 .. Len(s) /\ s[i - 1] = s[j - 1]
          BY <1>2, <2>1, <2>4
    <3>2. i - 1 = j - 1
          BY <1>6, <3>1 DEF Distinct
    <3> QED BY <3>2
  <2> QED BY <2>3, <2>4
<1> QED BY <1>1, <1>3, <1>4, <1>5, <1>6 DEF t

LEMMA ConcatFacts ==
    ASSUME NEW s \in Seq(Nat), NEW u \in Seq(Nat)
    PROVE  /\ s \o u \in Seq(Nat)
           /\ s \o u = <<>> <=> s = <<>> /\ u = <<>>
           /\ Elements(s \o u) = Elements(s) \cup Elements(u)
           /\ (Distinct(s) /\ Distinct(u) /\ Elements(s) \cap Elements(u) = {})
                  => Distinct(s \o u)
<1> DEFINE t == s \o u
           n == Len(s)
<1>1. /\ t \in Seq(Nat) /\ n \in Nat
      /\ \A i \in 1 .. n : i \in 1 .. Len(t) /\ t[i] = s[i]
      /\ \A i \in 1 .. Len(u) : n + i \in 1 .. Len(t) /\ t[n + i] = u[i]
  <2>1. t \in Seq(Nat) /\ n \in Nat /\ Len(u) \in Nat /\ Len(t) = n + Len(u)
        OBVIOUS
  <2>2. \A i \in 1 .. n : t[i] = s[i]
        OBVIOUS
  <2>3. \A i \in 1 .. Len(u) : t[n + i] = u[i]
        OBVIOUS
  <2> HIDE DEF t, n
  <2> QED BY <2>1, <2>2, <2>3
<1>2. \A i \in 1 .. Len(t) : \/ i \in 1 .. n /\ t[i] = s[i]
                             \/ i - n \in 1 .. Len(u) /\ t[i] = u[i - n]
      OBVIOUS
<1>3. t = <<>> <=> s = <<>> /\ u = <<>>
      OBVIOUS
<1> HIDE DEF t
<1>4. \A x : x \in Elements(s) => x \in Elements(t)
  <2>1. SUFFICES ASSUME NEW x, x \in Elements(s) PROVE x \in Elements(t)
        OBVIOUS
  <2>2. PICK i \in 1 .. n : s[i] = x
        BY <2>1, SeqFacts
  <2> QED BY <1>1, <2>2, SeqFacts
<1>5. \A x : x \in Elements(u) => x \in Elements(t)
  <2>1. SUFFICES ASSUME NEW x, x \in Elements(u) PROVE x \in Elements(t)
        OBVIOUS
  <2>2. PICK i \in 1 .. Len(u) : u[i] = x
        BY <2>1, SeqFacts
  <2>3. n + i \in 1 .. Len(t) /\ t[n + i] = x
        BY <1>1, <2>2
  <2> QED BY <1>1, <2>3, SeqFacts
<1>6. \A x : x \in Elements(t) => x \in Elements(s) \/ x \in Elements(u)
  <2>1. SUFFICES ASSUME NEW x, x \in Elements(t) PROVE x \in Elements(s) \/ x \in Elements(u)
        OBVIOUS
  <2>2. PICK i \in 1 .. Len(t) : t[i] = x
        BY <1>1, <2>1, SeqFacts
  <2>3. CASE i \in 1 .. n /\ t[i] = s[i]
        BY <2>2, <2>3, SeqFacts
  <2>4. CASE i - n \in 1 .. Len(u) /\ t[i] = u[i - n]
        BY <2>2, <2>4, SeqFacts
  <2> QED BY <1>2, <2>3, <2>4
<1>7. ASSUME Distinct(s), Distinct(u), Elements(s) \cap Elements(u) = {}
      PROVE  Distinct(t)
  <2>1. \A i \in 1 .. n, j \in 1 .. Len(u) : s[i] # u[j]
    <3>1. SUFFICES ASSUME NEW i \in 1 .. n, NEW j \in 1 .. Len(u), s[i] = u[j] PROVE FALSE
          OBVIOUS
    <3>2. s[i] \in Elements(s) /\ u[j] \in Elements(u)
          BY SeqFacts
    <3> QED BY <1>7, <3>1, <3>2
  <2>2. SUFFICES ASSUME NEW i \in 1 .. Len(t), NEW j \in 1 .. Len(t), t[i] = t[j]
                 PROVE  i = j
        BY DEF Distinct
  <2>3. CASE i \in 1 .. n /\ t[i] = s[i]
    <3>1. CASE j \in 1 .. n /\ t[j] = s[j]
          BY <1>7, <2>2, <2>3, <3>1 DEF Distinct
    <3>2. CASE j - n \in 1 .. Len(u) /\ t[j] = u[j - n]
          BY <2>1, <2>2, <2>3, <3>2
    <3> QED BY <1>2, <3>1, <3>2
  <2>4. CASE i - n \in 1 .. Len(u) /\ t[i] = u[i - n]
    <3>1. CASE j \in 1 .. n /\ t[j] = s[j]
          BY <2>1, <2>2, <2>4, <3>1
    <3>2. CASE j - n \in 1 .. Len(u) /\ t[j] = u[j - n]
      <4>1. i - n = j - n
            BY <1>7, <2>2, <2>4, <3>2 DEF Distinct
      <4> QED BY <1>1, <4>1
    <3> QED BY <1>2, <3>1, <3>2
  <2> QED BY <1>2, <2>3, <2>4
<1> QED BY <1>1, <1>3, <1>4, <1>5, <1>6, <1>7 DEF t

LEMMA AppendFacts ==
    ASSUME NEW s \in Seq(Nat), NEW p \in Nat
    PROVE  /\ Append(s, p) \in Seq(Nat) /\ Append(s, p) # <<>>
           /\ Elements(Append(s, p)) = Elements(s) \cup {p}
           /\ HeadOf(Append(s, p)) = IF s = <<>> THEN p ELSE HeadOf(s)
           /\ (Distinct(s) /\ p \notin Elements(s)) => Distinct(Append(s, p))
<1>1. Append(s, p) = s \o <<p>> /\ <<p>> \in Seq(Nat) /\ <<p>> # <<>>
      OBVIOUS
<1>2. Elements(<<p>>) = {p} /\ Distinct(<<p>>)
      BY DEF Elements, Distinct
<1>3. HeadOf(Append(s, p)) = IF s = <<>> THEN p ELSE HeadOf(s)
  <2>1. Append(s, p) \in Seq(Nat) /\ Append(s, p) # <<>>
        BY <1>1, ConcatFacts
  <2>2. HeadOf(Append(s, p)) = Append(s, p)[1]
        BY <2>1, SeqFacts
  <2>3. CASE s = <<>>
        BY <2>2, <2>3
  <2>4. CASE s # <<>>
    <3>1. Append(s, p)[1] = s[1]
          BY <2>4
    <3> QED BY <2>2, <2>4, <3>1, SeqFacts
  <2> QED BY <2>3, <2>4
<1>4. Append(s, p) \in Seq(Nat) /\ Append(s, p) # <<>>
      BY <1>1, ConcatFacts
<1>5. Elements(Append(s, p)) = Elements(s) \cup {p}
      BY <1>1, <1>2, ConcatFacts
<1>6. (Distinct(s) /\ p \notin Elements(s)) => Distinct(Append(s, p))
  <2>1. p \notin Elements(s) => Elements(s) \cap Elements(<<p>>) = {}
        BY <1>2
  <2>2. Distinct(s) /\ p \notin Elements(s) => Distinct(s \o <<p>>)
        BY <1>1, <1>2, <2>1, ConcatFacts
  <2> QED BY <1>1, <2>2
<1> QED BY <1>3, <1>4, <1>5, <1>6

LEMMA TailFacts ==
    ASSUME NEW s \in Seq(Nat), s # <<>>, Distinct(s)
    PROVE  /\ Tail(s) \in Seq(Nat) /\ Head(s) \in Elements(s) /\ Head(s) \in Nat
           /\ Elements(Tail(s)) = Elements(s) \ {Head(s)}
           /\ Distinct(Tail(s))
<1> DEFINE t == Tail(s)
<1>1. /\ t \in Seq(Nat) /\ Head(s) = s[1] /\ 1 \in 1 .. Len(s)
      /\ \A i \in 1 .. Len(t) : i \in Nat /\ i + 1 \in 1 .. Len(s) /\ t[i] = s[i + 1]
      /\ \A i \in 1 .. Len(s) : i # 1 => i - 1 \in 1 .. Len(t) /\ t[i - 1] = s[i]
      OBVIOUS
<1> HIDE DEF t
<1>2. Distinct(t)
  <2>1. SUFFICES ASSUME NEW i \in 1 .. Len(t), NEW j \in 1 .. Len(t), t[i] = t[j]
                 PROVE  i = j
        BY DEF Distinct
  <2>2. /\ i + 1 \in 1 .. Len(s) /\ j + 1 \in 1 .. Len(s) /\ s[i + 1] = s[j + 1]
        /\ i \in Nat /\ j \in Nat
        BY <1>1, <2>1
  <2>3. i + 1 = j + 1
        BY <2>2 DEF Distinct
  <2> QED BY <2>2, <2>3
<1>3. \A x : x \in Elements(t) => x \in Elements(s) /\ x # s[1]
  <2>1. SUFFICES ASSUME NEW x, x \in Elements(t) PROVE x \in Elements(s) /\ x # s[1]
        OBVIOUS
  <2>2. PICK i \in 1 .. Len(t) : t[i] = x
        BY <1>1, <2>1, SeqFacts
  <2>3. i \in Nat /\ i + 1 \in 1 .. Len(s) /\ s[i + 1] = x
        BY <1>1, <2>2
  <2>4. i + 1 # 1
        BY <2>2
  <2> QED BY <1>1, <2>3, <2>4, SeqFacts DEF Distinct
<1>4. \A x : (x \in Elements(s) /\ x # s[1]) => x \in Elements(t)
  <2>1. SUFFICES ASSUME NEW x, x \in Elements(s), x # s[1] PROVE x \in Elements(t)
        OBVIOUS
  <2>2. PICK i \in 1 .. Len(s) : s[i] = x
        BY <2>1, SeqFacts
  <2>3. i - 1 \in 1 .. Len(t) /\ t[i - 1] = x
        BY <1>1, <2>1, <2>2
  <2> QED BY <1>1, <2>3, SeqFacts
<1>5. s[1] \in Elements(s) /\ s[1] \in Nat
      BY <1>1, SeqFacts
<1> QED BY <1>1, <1>2, <1>3, <1>4, <1>5 DEF t
-----------------------------------------------------------------------------
(* Without, by induction over the positions of the queue.                  *)

\* A set that holds 0 and the successor of each of its members up to n.
LEMMA UpTo ==
    ASSUME NEW n \in Nat, NEW G, 0 \in G, \A i \in 1 .. n : i - 1 \in G => i \in G
    PROVE  \A i \in 0 .. n : i \in G
<1> DEFINE B == {i \in 0 .. n : i \notin G}
<1>1. SUFFICES ASSUME B # {} PROVE FALSE
      OBVIOUS
<1>2. B \in SUBSET Nat
      OBVIOUS
<1>3. Lowest(B) # {}
      BY <1>1, <1>2, LeastExists
<1>4. PICK i \in B : \A j \in B : i <= j
      BY <1>3 DEF Lowest
<1>5. i \in 1 .. n
      BY <1>4
<1>6. i - 1 \in G
      BY <1>4, <1>5
<1> QED BY <1>4, <1>5, <1>6

\* The sequences that the definition of Without computes up to each position.
KeptTo(s, S, n, k) ==
    k = [i \in 0 .. n |->
            IF i = 0 THEN <<>>
            ELSE IF s[i] \in S THEN k[i - 1] ELSE Append(k[i - 1], s[i])]

LEMMA KeptExists ==
    ASSUME NEW s \in Seq(Nat), NEW S
    PROVE  \E k : KeptTo(s, S, Len(s), k)
<1> DEFINE G == {n \in 0 .. Len(s) : \E k : KeptTo(s, S, n, k)}
<1>1. Len(s) \in Nat
      OBVIOUS
<1>2. 0 \in G
  <2> DEFINE k == [i \in 0 .. 0 |-> <<>>]
  <2>1. k = [i \in 0 .. 0 |->
            IF i = 0 THEN <<>>
            ELSE IF s[i] \in S THEN k[i - 1] ELSE Append(k[i - 1], s[i])]
        OBVIOUS
  <2>2. KeptTo(s, S, 0, k)
        BY <2>1 DEF KeptTo
  <2> QED BY <1>1, <2>2
<1>3. ASSUME NEW n \in 1 .. Len(s), n - 1 \in G PROVE n \in G
  <2>1. PICK k : KeptTo(s, S, n - 1, k)
        BY <1>3
  <2> DEFINE g == [i \in 0 .. n |->
                      IF i < n THEN k[i]
                      ELSE IF s[n] \in S THEN k[n - 1] ELSE Append(k[n - 1], s[n])]
             b == [i \in 0 .. n |->
                      IF i = 0 THEN <<>>
                      ELSE IF s[i] \in S THEN g[i - 1] ELSE Append(g[i - 1], s[i])]
  <2>2. k = [i \in 0 .. (n - 1) |->
            IF i = 0 THEN <<>>
            ELSE IF s[i] \in S THEN k[i - 1] ELSE Append(k[i - 1], s[i])]
        BY <2>1 DEF KeptTo
  <2>3. ASSUME NEW i \in 0 .. n PROVE g[i] = b[i]
    <3>1. CASE i = n
      <4>1. i - 1 \in 0 .. n /\ i - 1 < n /\ i # 0
            BY <3>1
      <4> QED BY <3>1, <4>1
    <3>2. CASE i # n /\ i # 0
      <4>1. i - 1 \in 0 .. n /\ i - 1 < n /\ i \in 0 .. (n - 1) /\ i < n
            BY <3>2
      <4>2. k[i] = IF s[i] \in S THEN k[i - 1] ELSE Append(k[i - 1], s[i])
            BY <2>2, <3>2, <4>1
      <4>3. g[i] = k[i] /\ g[i - 1] = k[i - 1]
            BY <4>1
      <4> HIDE DEF g
      <4> QED BY <3>2, <4>2, <4>3
    <3>3. CASE i = 0
      <4>1. 0 \in 0 .. (n - 1) /\ 0 < n
            OBVIOUS
      <4>2. k[0] = <<>>
            BY <2>2, <4>1
      <4> QED BY <3>3, <4>1, <4>2
    <3> QED BY <3>1, <3>2, <3>3
  <2>4. g = b
    <3>1. g = [i \in 0 .. n |-> g[i]] /\ b = [i \in 0 .. n |-> b[i]]
          OBVIOUS
    <3> HIDE DEF g, b
    <3> QED BY <2>3, <3>1
  <2>5. KeptTo(s, S, n, g)
        BY <2>4 DEF KeptTo
  <2> QED BY <2>5
<1> HIDE DEF G
<1>4. \A n \in 0 .. Len(s) : n \in G
      BY <1>1, <1>2, <1>3, UpTo
<1>5. Len(s) \in G
      BY <1>1, <1>4
<1> QED BY <1>5 DEF G

\* What is kept of the first i elements.
KeptSoFar(s, S, i, t) ==
    /\ t \in Seq(Nat)
    /\ \A x : x \in Elements(t) <=> x \notin S /\ \E j \in 1 .. i : s[j] = x
    /\ Distinct(s) => Distinct(t)
    /\ (i >= 1 /\ s[1] \notin S) => t # <<>> /\ HeadOf(t) = s[1]

LEMMA KeptIs ==
    ASSUME NEW s \in Seq(Nat), NEW S, NEW k, KeptTo(s, S, Len(s), k)
    PROVE  KeptSoFar(s, S, Len(s), k[Len(s)])
<1> DEFINE G == {i \in 0 .. Len(s) : KeptSoFar(s, S, i, k[i])}
<1>1. Len(s) \in Nat
      OBVIOUS
<1>2. k = [i \in 0 .. Len(s) |->
            IF i = 0 THEN <<>>
            ELSE IF s[i] \in S THEN k[i - 1] ELSE Append(k[i - 1], s[i])]
      BY DEF KeptTo
<1>3. 0 \in G
  <2>1. k[0] = <<>>
        BY <1>1, <1>2
  <2>2. /\ <<>> \in Seq(Nat) /\ Elements(<<>>) = {} /\ Distinct(<<>>)
        BY DEF Elements, Distinct
  <2>3. KeptSoFar(s, S, 0, <<>>)
        BY <2>2 DEF KeptSoFar
  <2> QED BY <1>1, <2>1, <2>3
<1>4. ASSUME NEW i \in 1 .. Len(s), i - 1 \in G PROVE i \in G
  <2> DEFINE t == k[i - 1]
  <2>1. KeptSoFar(s, S, i - 1, t)
        BY <1>4
  <2>2. k[i] = IF s[i] \in S THEN t ELSE Append(t, s[i])
    <3>1. i \in 0 .. Len(s) /\ i # 0
          BY <1>1
    <3> HIDE DEF G
    <3> QED BY <1>2, <3>1
  <2> HIDE DEF t
  <2>3. /\ t \in Seq(Nat) /\ s[i] \in Nat
        /\ \A x : x \in Elements(t) <=> x \notin S /\ \E j \in 1 .. (i - 1) : s[j] = x
        /\ Distinct(s) => Distinct(t)
        /\ (i - 1 >= 1 /\ s[1] \notin S) => t # <<>> /\ HeadOf(t) = s[1]
        BY <2>1 DEF KeptSoFar
  <2>4. \A x : (\E j \in 1 .. i : s[j] = x) <=> (x = s[i] \/ \E j \in 1 .. (i - 1) : s[j] = x)
        OBVIOUS
  <2>5. CASE s[i] \in S
    <3>1. KeptSoFar(s, S, i, t)
      <4>1. \A x : x \in Elements(t) <=> x \notin S /\ \E j \in 1 .. i : s[j] = x
            BY <2>3, <2>4, <2>5
      <4>2. (i >= 1 /\ s[1] \notin S) => t # <<>> /\ HeadOf(t) = s[1]
            BY <2>3, <2>5
      <4> QED BY <2>3, <4>1, <4>2 DEF KeptSoFar
    <3> QED BY <2>2, <2>5, <3>1
  <2>6. CASE s[i] \notin S
    <3> DEFINE u == Append(t, s[i])
    <3>1. /\ u \in Seq(Nat) /\ u # <<>> /\ Elements(u) = Elements(t) \cup {s[i]}
          /\ HeadOf(u) = IF t = <<>> THEN s[i] ELSE HeadOf(t)
          /\ (Distinct(t) /\ s[i] \notin Elements(t)) => Distinct(u)
          BY <2>3, AppendFacts
    <3> HIDE DEF u
    <3>2. \A x : x \in Elements(u) <=> x \notin S /\ \E j \in 1 .. i : s[j] = x
          BY <2>3, <2>4, <2>6, <3>1
    <3>3. Distinct(s) => Distinct(u)
      <4>1. Distinct(s) => ~\E j \in 1 .. (i - 1) : s[j] = s[i]
            BY <1>1 DEF Distinct
      <4> QED BY <2>3, <3>1, <4>1
    <3>4. (i >= 1 /\ s[1] \notin S) => u # <<>> /\ HeadOf(u) = s[1]
      <4>1. CASE i = 1
        <5>1. Elements(t) = {}
              BY <2>3, <4>1
        <5>2. t = <<>>
              BY <2>3, <5>1, SeqFacts
        <5> QED BY <3>1, <4>1, <5>2
      <4>2. CASE i # 1
            BY <2>3, <3>1, <4>2
      <4> QED BY <4>1, <4>2
    <3>5. KeptSoFar(s, S, i, u)
          BY <3>1, <3>2, <3>3, <3>4 DEF KeptSoFar
    <3>6. k[i] = u /\ i \in 0 .. Len(s)
          BY <1>1, <2>2, <2>6 DEF u
    <3> QED BY <3>5, <3>6
  <2> QED BY <2>5, <2>6
<1> HIDE DEF G
<1>5. \A i \in 0 .. Len(s) : i \in G
      BY <1>1, <1>3, <1>4, UpTo
<1>6. Len(s) \in G
      BY <1>1, <1>5
<1> QED BY <1>6 DEF G

\* The members of S leave, the others keep their order.
LEMMA WithoutFacts ==
    ASSUME NEW s \in Seq(Nat), NEW S
    PROVE  /\ Without(s, S) \in Seq(Nat)
           /\ Elements(Without(s, S)) = Elements(s) \ S
           /\ Distinct(s) => Distinct(Without(s, S))
           /\ HeadOf(s) \notin S => HeadOf(Without(s, S)) = HeadOf(s)
<1> DEFINE C == CHOOSE k : KeptTo(s, S, Len(s), k)
           t == Without(s, S)
<1>1. KeptTo(s, S, Len(s), C)
      BY KeptExists
<1>2. t = C[Len(s)]
      BY DEF Without, KeptTo
<1> HIDE DEF C, t
<1>3. KeptSoFar(s, S, Len(s), t)
      BY <1>1, <1>2, KeptIs
<1>4. /\ t \in Seq(Nat)
      /\ \A x : x \in Elements(t) <=> x \notin S /\ \E j \in 1 .. Len(s) : s[j] = x
      /\ Distinct(s) => Distinct(t)
      /\ (Len(s) >= 1 /\ s[1] \notin S) => t # <<>> /\ HeadOf(t) = s[1]
      BY <1>3 DEF KeptSoFar
<1>5. \A x : x \in Elements(s) <=> \E j \in 1 .. Len(s) : s[j] = x
      BY SeqFacts
<1>6. Elements(t) = Elements(s) \ S
      BY <1>4, <1>5
<1>7. ASSUME HeadOf(s) \notin S PROVE HeadOf(t) = HeadOf(s)
  <2>1. CASE s = <<>>
    <3>1. Elements(t) = {}
          BY <1>6, <2>1, SeqFacts
    <3>2. t = <<>>
          BY <1>4, <3>1, SeqFacts
    <3> QED BY <2>1, <3>2
  <2>2. CASE s # <<>>
    <3>1. HeadOf(s) = s[1] /\ Len(s) >= 1
          BY <2>2, SeqFacts
    <3> QED BY <1>4, <1>7, <3>1
  <2> QED BY <2>1, <2>2
<1> QED BY <1>4, <1>6, <1>7 DEF t
-----------------------------------------------------------------------------
(* Heap values.                                                            *)

PageRec == [bin : Bins, free : Seq(Nat), used : Nat, cap : Nat, full : BOOLEAN,
            expire : Nat]

PageTables == UNION {[P -> PageRec] : P \in SUBSET Nat}

Heaps == [sl : Maps, end : Nat, foreign : SUBSET Nat, pages : PageTables,
          queues : [Queues -> Seq(Nat)], direct : [DirectBins -> Int],
          occupied : SUBSET Queues, retiredMin : Nat, retiredMax : Nat,
          count : Nat, inited : BOOLEAN]

\* The parts of a heap value that the queues are not concerned with.
Rest(hh) == <<hh.sl, hh.end, hh.foreign, hh.retiredMin, hh.retiredMax, hh.count, hh.inited>>

LEMMA BinFacts ==
    /\ Bins = 1 .. Len(BlockSize) /\ Len(BlockSize) \in Nat /\ Len(BlockSize) >= 1
    /\ Bins \subseteq Nat \ {0} /\ DirectBins \subseteq Bins /\ Full \notin Bins
    /\ Full \in Queues /\ Bins \subseteq Queues /\ Queues \subseteq Nat
    /\ \A b \in Bins : BlockSize[b] \in Nat \ {0} /\ PageSlices[b] \in Nat \ {0}
    /\ SliceWords \in Nat \ {0}
<1>1. /\ BlockSize \in Seq(Nat \ {0}) /\ BlockSize # <<>>
      /\ PageSlices \in Seq(Nat \ {0}) /\ Len(PageSlices) = Len(BlockSize)
      /\ SliceWords \in Nat \ {0}
      BY HeapAssumption
<1>2. Bins = 1 .. Len(BlockSize) /\ Len(BlockSize) \in Nat /\ Len(BlockSize) >= 1
      BY <1>1 DEF Bins
<1>3. \A b \in Bins : BlockSize[b] \in Nat \ {0} /\ PageSlices[b] \in Nat \ {0}
      BY <1>1, <1>2
<1>4. Bins \subseteq Nat \ {0}
      BY <1>2
<1> QED BY <1>1, <1>2, <1>3, <1>4 DEF DirectBins, Queues, Full

LEMMA PageTableFacts ==
    ASSUME NEW t \in PageTables
    PROVE  /\ DOMAIN t \subseteq Nat
           /\ t = [p \in DOMAIN t |-> t[p]]
           /\ \A p \in DOMAIN t : t[p] \in PageRec
BY DEF PageTables

LEMMA HeapFields ==
    ASSUME NEW hh \in Heaps
    PROVE  /\ hh.sl \in Maps /\ hh.end \in Nat /\ hh.foreign \subseteq Nat
           /\ hh.pages \in PageTables /\ hh.queues \in [Queues -> Seq(Nat)]
           /\ hh.direct \in [DirectBins -> Int] /\ hh.occupied \subseteq Queues
           /\ hh.retiredMin \in Nat /\ hh.retiredMax \in Nat /\ hh.count \in Nat
           /\ hh.inited \in BOOLEAN
BY DEF Heaps

QueueOf(pg) == IF pg.full THEN Full ELSE pg.bin

\* The queues, the flags, the bits and the table agree, but for the pages T,
\* which are in no queue.
QueuesOk(hh, T) ==
    /\ \A q \in Queues : Distinct(hh.queues[q])
    /\ \A q \in Queues : q \in hh.occupied <=> hh.queues[q] # <<>>
    /\ \A q \in Queues : \A p \in Elements(hh.queues[q]) :
          p \in DOMAIN hh.pages /\ p \notin T /\ QueueOf(hh.pages[p]) = q
    /\ \A p \in DOMAIN hh.pages :
          p \notin T => p \in Elements(hh.queues[QueueOf(hh.pages[p])])
    /\ \A b \in DirectBins : hh.direct[b] = HeadOf(hh.queues[b])

LEMMA QueueOfIn == ASSUME NEW pg \in PageRec PROVE QueueOf(pg) \in Queues
BY BinFacts DEF QueueOf, PageRec

\* Only what QueuesOk reads matters, and of the pages that are in no queue
\* it reads nothing.
LEMMA SameQueues ==
    ASSUME NEW hh, NEW gg, NEW T, QueuesOk(hh, T),
           gg.queues = hh.queues, gg.occupied = hh.occupied, gg.direct = hh.direct,
           DOMAIN gg.pages = DOMAIN hh.pages,
           \A p \in DOMAIN hh.pages : p \notin T =>
               /\ gg.pages[p].bin = hh.pages[p].bin
               /\ gg.pages[p].full = hh.pages[p].full
    PROVE  QueuesOk(gg, T)
<1>1. \A p \in DOMAIN hh.pages : p \notin T => QueueOf(gg.pages[p]) = QueueOf(hh.pages[p])
      BY DEF QueueOf
<1> QED BY <1>1 DEF QueuesOk

\* Replacing the page table.
LEMMA PagesFields ==
    ASSUME NEW hh \in Heaps, NEW t \in PageTables
    PROVE  LET gg == [hh EXCEPT !.pages = t]
           IN  /\ gg \in Heaps /\ Rest(gg) = Rest(hh) /\ gg.pages = t
               /\ gg.queues = hh.queues /\ gg.occupied = hh.occupied
               /\ gg.direct = hh.direct
BY DEF Heaps, Rest

LEMMA RemoveAllFields ==
    ASSUME NEW hh \in Heaps, NEW S
    PROVE  LET gg == RemoveAll(hh, S)
           IN  /\ gg \in Heaps /\ Rest(gg) = Rest(hh) /\ gg.pages = hh.pages
               /\ \A q \in Queues : gg.queues[q] = Without(hh.queues[q], S[q])
               /\ gg.occupied = {q \in hh.occupied : Without(hh.queues[q], S[q]) # <<>>}
               /\ \A b \in DirectBins : gg.direct[b] =
                      IF HeadOf(hh.queues[b]) \in S[b]
                      THEN HeadOf(Without(hh.queues[b], S[b])) ELSE hh.direct[b]
<1> DEFINE gg   == RemoveAll(hh, S)
           rest == [q \in Queues |-> Without(hh.queues[q], S[q])]
           occ  == {q \in hh.occupied : rest[q] # <<>>}
           dir  == [b \in DirectBins |-> IF HeadOf(hh.queues[b]) \in S[b]
                                         THEN HeadOf(rest[b]) ELSE hh.direct[b]]
<1>1. gg = [hh EXCEPT !.queues = rest, !.occupied = occ, !.direct = dir]
      BY DEF RemoveAll
<1>2. /\ hh.queues \in [Queues -> Seq(Nat)] /\ hh.direct \in [DirectBins -> Int]
      /\ hh.occupied \subseteq Queues
      BY HeapFields
<1>3. \A q \in Queues : hh.queues[q] \in Seq(Nat) /\ Without(hh.queues[q], S[q]) \in Seq(Nat)
      BY <1>2, WithoutFacts
<1>4. rest \in [Queues -> Seq(Nat)]
      BY <1>3
<1>5. \A s \in Seq(Nat) : HeadOf(s) \in Int
      BY SeqFacts DEF NoPage
<1>6. dir \in [DirectBins -> Int]
      BY <1>2, <1>3, <1>5, BinFacts
<1>7. occ \subseteq Queues /\ occ = {q \in hh.occupied : Without(hh.queues[q], S[q]) # <<>>}
      BY <1>2
<1>8. /\ \A q \in Queues : rest[q] = Without(hh.queues[q], S[q])
      /\ \A b \in DirectBins : dir[b] =
            IF HeadOf(hh.queues[b]) \in S[b]
            THEN HeadOf(Without(hh.queues[b], S[b])) ELSE hh.direct[b]
      BY BinFacts
<1> HIDE DEF rest, occ, dir
<1>9. gg \in Heaps
      BY <1>1, <1>4, <1>6, <1>7 DEF Heaps
<1>10. /\ Rest(gg) = Rest(hh) /\ gg.pages = hh.pages
       /\ gg.queues = rest /\ gg.occupied = occ /\ gg.direct = dir
      BY <1>1 DEF Heaps, Rest
<1> QED BY <1>7, <1>8, <1>9, <1>10

\* remove takes pages out of their queues and leaves the rest in agreement.
LEMMA RemoveAllKeeps ==
    ASSUME NEW hh \in Heaps, NEW T, NEW S, QueuesOk(hh, T),
           \A q \in Queues : S[q] \subseteq Elements(hh.queues[q])
    PROVE  QueuesOk(RemoveAll(hh, S), T \cup UNION {S[q] : q \in Queues})
<1> DEFINE gg == RemoveAll(hh, S)
           U  == UNION {S[q] : q \in Queues}
<1>1. /\ gg.pages = hh.pages
      /\ \A q \in Queues : gg.queues[q] = Without(hh.queues[q], S[q])
      /\ gg.occupied = {q \in hh.occupied : Without(hh.queues[q], S[q]) # <<>>}
      /\ \A b \in DirectBins : gg.direct[b] =
             IF HeadOf(hh.queues[b]) \in S[b]
             THEN HeadOf(Without(hh.queues[b], S[b])) ELSE hh.direct[b]
      BY RemoveAllFields
<1>2. \A q \in Queues : hh.queues[q] \in Seq(Nat)
      BY HeapFields
<1>3. \A q \in Queues : /\ Elements(gg.queues[q]) = Elements(hh.queues[q]) \ S[q]
                        /\ Distinct(hh.queues[q]) => Distinct(gg.queues[q])
                        /\ HeadOf(hh.queues[q]) \notin S[q] =>
                              HeadOf(gg.queues[q]) = HeadOf(hh.queues[q])
                        /\ gg.queues[q] \in Seq(Nat)
      BY <1>1, <1>2, WithoutFacts
<1> HIDE DEF gg
<1>4. \A p : p \in U <=> \E q \in Queues : p \in S[q]
      OBVIOUS
<1>5. \A p \in DOMAIN hh.pages : QueueOf(hh.pages[p]) \in Queues
      BY HeapFields, PageTableFacts, QueueOfIn
<1> HIDE DEF U
<1>6. \A q \in Queues : Distinct(gg.queues[q])
      BY <1>3 DEF QueuesOk
<1>7. ASSUME NEW q \in Queues PROVE q \in gg.occupied <=> gg.queues[q] # <<>>
  <2>1. gg.queues[q] # <<>> => hh.queues[q] # <<>>
    <3>1. hh.queues[q] = <<>> => Elements(hh.queues[q]) = {}
          BY <1>2, SeqFacts
    <3>2. Elements(gg.queues[q]) = {} => gg.queues[q] = <<>>
          BY <1>3, SeqFacts
    <3> QED BY <1>3, <3>1, <3>2
  <2> QED BY <1>1, <2>1 DEF QueuesOk
<1>8. ASSUME NEW q \in Queues, NEW p \in Elements(gg.queues[q])
      PROVE  p \in DOMAIN gg.pages /\ p \notin T \cup U /\ QueueOf(gg.pages[p]) = q
  <2>1. p \in Elements(hh.queues[q]) /\ p \notin S[q]
        BY <1>3, <1>8
  <2>2. p \in DOMAIN hh.pages /\ p \notin T /\ QueueOf(hh.pages[p]) = q
        BY <2>1 DEF QueuesOk
  <2>3. ASSUME NEW r \in Queues, p \in S[r] PROVE FALSE
    <3>1. QueueOf(hh.pages[p]) = r
          BY <2>3 DEF QueuesOk
    <3> QED BY <2>1, <2>2, <2>3, <3>1
  <2> QED BY <1>1, <1>4, <2>2, <2>3
<1>9. ASSUME NEW p \in DOMAIN gg.pages, p \notin T \cup U
      PROVE  p \in Elements(gg.queues[QueueOf(gg.pages[p])])
  <2>1. p \in Elements(hh.queues[QueueOf(hh.pages[p])])
        BY <1>1, <1>9 DEF QueuesOk
  <2> QED BY <1>1, <1>3, <1>4, <1>5, <1>9, <2>1
<1>10. ASSUME NEW b \in DirectBins PROVE gg.direct[b] = HeadOf(gg.queues[b])
      BY <1>1, <1>3, BinFacts DEF QueuesOk
<1>11. QueuesOk(gg, T \cup U)
      BY <1>6, <1>7, <1>8, <1>9, <1>10 DEF QueuesOk
<1> QED BY <1>11 DEF gg, U

\* The heap with s for the queue q, which holds pages, and dir for the table.
Queued(hh, q, s, dir) ==
    [hh EXCEPT !.queues = [hh.queues EXCEPT ![q] = s],
               !.occupied = hh.occupied \cup {q},
               !.direct = dir]

LEMMA QueuedFields ==
    ASSUME NEW hh \in Heaps, NEW q \in Queues, NEW s \in Seq(Nat),
           NEW dir \in [DirectBins -> Int]
    PROVE  LET gg == Queued(hh, q, s, dir)
           IN  /\ gg \in Heaps /\ Rest(gg) = Rest(hh) /\ gg.pages = hh.pages
               /\ gg.queues[q] = s
               /\ \A r \in Queues : r # q => gg.queues[r] = hh.queues[r]
               /\ gg.occupied = hh.occupied \cup {q}
               /\ gg.direct = dir
<1> DEFINE gg == Queued(hh, q, s, dir)
           qs == [hh.queues EXCEPT ![q] = s]
           occ == hh.occupied \cup {q}
<1>1. hh.queues \in [Queues -> Seq(Nat)] /\ hh.occupied \subseteq Queues
      BY HeapFields
<1>2. /\ qs \in [Queues -> Seq(Nat)] /\ qs[q] = s
      /\ \A r \in Queues : r # q => qs[r] = hh.queues[r]
      BY <1>1
<1>3. occ \subseteq Queues
      BY <1>1
<1>4. gg = [hh EXCEPT !.queues = qs, !.occupied = occ, !.direct = dir]
      BY DEF Queued
<1> HIDE DEF qs, occ, gg
<1>5. gg \in Heaps
      BY <1>2, <1>3, <1>4 DEF Heaps
<1>6. /\ Rest(gg) = Rest(hh) /\ gg.pages = hh.pages
      /\ gg.queues = qs /\ gg.occupied = occ /\ gg.direct = dir
      BY <1>4 DEF Heaps, Rest
<1> QED BY <1>2, <1>5, <1>6 DEF occ, gg

\* A page of T that joins its queue, wherever in it, is no longer apart.
LEMMA JoinKeeps ==
    ASSUME NEW hh \in Heaps, NEW gg \in Heaps, NEW T, QueuesOk(hh, T),
           NEW p \in DOMAIN hh.pages, p \in T, NEW q \in Queues,
           QueueOf(hh.pages[p]) = q, gg.pages = hh.pages,
           Distinct(gg.queues[q]),
           Elements(gg.queues[q]) = {p} \cup Elements(hh.queues[q]),
           \A r \in Queues : r # q => gg.queues[r] = hh.queues[r],
           gg.occupied = hh.occupied \cup {q},
           \A b \in DirectBins : gg.direct[b] = HeadOf(gg.queues[b])
    PROVE  QueuesOk(gg, T \ {p})
<1>1. \A r \in Queues : Distinct(gg.queues[r])
      BY DEF QueuesOk
<1>2. \A r \in Queues : r \in gg.occupied <=> gg.queues[r] # <<>>
  <2>1. gg.queues[q] # <<>>
    <3>1. gg.queues[q] \in Seq(Nat) /\ p \in Elements(gg.queues[q])
          BY HeapFields
    <3> QED BY <3>1, SeqFacts
  <2> QED BY <2>1 DEF QueuesOk
<1>3. ASSUME NEW r \in Queues, NEW x \in Elements(gg.queues[r])
      PROVE  x \in DOMAIN gg.pages /\ x \notin T \ {p} /\ QueueOf(gg.pages[x]) = r
      BY <1>3 DEF QueuesOk
<1>4. ASSUME NEW x \in DOMAIN gg.pages, x \notin T \ {p}
      PROVE  x \in Elements(gg.queues[QueueOf(gg.pages[x])])
  <2>1. QueueOf(hh.pages[x]) \in Queues
        BY HeapFields, PageTableFacts, QueueOfIn
  <2> QED BY <1>4, <2>1 DEF QueuesOk
<1> QED BY <1>1, <1>2, <1>3, <1>4 DEF QueuesOk

LEMMA PushFrontKeeps ==
    ASSUME NEW hh \in Heaps, NEW T, QueuesOk(hh, T),
           NEW p \in DOMAIN hh.pages, p \in T, NEW q \in Queues,
           QueueOf(hh.pages[p]) = q
    PROVE  LET gg == PushFront(hh, q, p)
           IN  /\ gg \in Heaps /\ Rest(gg) = Rest(hh) /\ gg.pages = hh.pages
               /\ QueuesOk(gg, T \ {p})
<1> DEFINE gg == PushFront(hh, q, p)
           s  == <<p>> \o hh.queues[q]
           dir == IF q \in DirectBins THEN [hh.direct EXCEPT ![q] = HeadOf(s)] ELSE hh.direct
           ha == [hh EXCEPT !.queues[q] = s, !.occupied = @ \cup {q}]
<1>1. /\ hh.queues \in [Queues -> Seq(Nat)] /\ hh.direct \in [DirectBins -> Int]
      /\ hh.pages \in PageTables
      BY HeapFields
<1>2. p \in Nat /\ hh.queues[q] \in Seq(Nat)
      BY <1>1, PageTableFacts
<1>3. p \notin Elements(hh.queues[q]) /\ Distinct(hh.queues[q])
      BY DEF QueuesOk
<1>4. /\ s \in Seq(Nat) /\ Elements(s) = {p} \cup Elements(hh.queues[q])
      /\ HeadOf(s) = p /\ Distinct(s)
      BY <1>2, <1>3, PrependFacts
<1>5. gg = Queued(hh, q, s, dir)
  <2>1. gg = UpdateDirect(ha, q)
        BY DEF PushFront
  <2> HIDE DEF s, gg
  <2>2. ha.queues[q] = s /\ ha.direct = hh.direct
        BY <1>1 DEF Heaps
  <2>3. CASE q \in DirectBins
        BY <2>1, <2>2, <2>3 DEF UpdateDirect, Queued, Heaps
  <2>4. CASE q \notin DirectBins
        BY <2>1, <2>4 DEF UpdateDirect, Queued, Heaps
  <2> QED BY <2>3, <2>4
<1> HIDE DEF s, gg
<1>6. dir \in [DirectBins -> Int]
      BY <1>1, <1>2, <1>4
<1>7. \A b \in DirectBins : dir[b] = IF b = q THEN HeadOf(s) ELSE hh.direct[b]
      BY <1>1
<1> HIDE DEF dir
<1>8. /\ gg \in Heaps /\ Rest(gg) = Rest(hh) /\ gg.pages = hh.pages
      /\ gg.queues[q] = s
      /\ \A r \in Queues : r # q => gg.queues[r] = hh.queues[r]
      /\ gg.occupied = hh.occupied \cup {q}
      /\ gg.direct = dir
      BY <1>2, <1>4, <1>5, <1>6, QueuedFields
<1>9. \A b \in DirectBins : gg.direct[b] = HeadOf(gg.queues[b])
      BY <1>7, <1>8, BinFacts DEF QueuesOk
<1>10. QueuesOk(gg, T \ {p})
      BY <1>4, <1>8, <1>9, JoinKeeps
<1> QED BY <1>8, <1>10 DEF gg

LEMMA PushBackKeeps ==
    ASSUME NEW hh \in Heaps, NEW T, QueuesOk(hh, T),
           NEW p \in DOMAIN hh.pages, p \in T, NEW q \in Queues,
           QueueOf(hh.pages[p]) = q
    PROVE  LET gg == PushBack(hh, q, p)
           IN  /\ gg \in Heaps /\ Rest(gg) = Rest(hh) /\ gg.pages = hh.pages
               /\ QueuesOk(gg, T \ {p})
<1> DEFINE gg == PushBack(hh, q, p)
           s  == Append(hh.queues[q], p)
           dir == IF hh.queues[q] = <<>> /\ q \in DirectBins
                  THEN [hh.direct EXCEPT ![q] = HeadOf(s)] ELSE hh.direct
           ha == [hh EXCEPT !.queues[q] = s, !.occupied = @ \cup {q}]
<1>1. /\ hh.queues \in [Queues -> Seq(Nat)] /\ hh.direct \in [DirectBins -> Int]
      /\ hh.pages \in PageTables
      BY HeapFields
<1>2. p \in Nat /\ hh.queues[q] \in Seq(Nat)
      BY <1>1, PageTableFacts
<1>3. p \notin Elements(hh.queues[q]) /\ Distinct(hh.queues[q])
      BY DEF QueuesOk
<1>4. /\ s \in Seq(Nat) /\ Elements(s) = {p} \cup Elements(hh.queues[q])
      /\ HeadOf(s) = (IF hh.queues[q] = <<>> THEN p ELSE HeadOf(hh.queues[q]))
      /\ Distinct(s)
      BY <1>2, <1>3, AppendFacts
<1>5. gg = Queued(hh, q, s, dir)
  <2>1. gg = IF hh.queues[q] = <<>> THEN UpdateDirect(ha, q) ELSE ha
        BY DEF PushBack
  <2> HIDE DEF s, gg
  <2>2. ha.queues[q] = s /\ ha.direct = hh.direct
        BY <1>1 DEF Heaps
  <2>3. CASE hh.queues[q] = <<>> /\ q \in DirectBins
        BY <2>1, <2>2, <2>3 DEF UpdateDirect, Queued, Heaps
  <2>4. CASE ~(hh.queues[q] = <<>> /\ q \in DirectBins)
        BY <2>1, <2>4 DEF UpdateDirect, Queued, Heaps
  <2> QED BY <2>3, <2>4
<1> HIDE DEF s, gg
<1>6. dir \in [DirectBins -> Int]
      BY <1>1, <1>2, <1>4
<1>7. \A b \in DirectBins : dir[b] = IF b = q THEN HeadOf(s) ELSE hh.direct[b]
  <2>1. q \in DirectBins => hh.direct[q] = HeadOf(hh.queues[q])
        BY DEF QueuesOk
  <2> QED BY <1>1, <1>4, <2>1
<1> HIDE DEF dir
<1>8. /\ gg \in Heaps /\ Rest(gg) = Rest(hh) /\ gg.pages = hh.pages
      /\ gg.queues[q] = s
      /\ \A r \in Queues : r # q => gg.queues[r] = hh.queues[r]
      /\ gg.occupied = hh.occupied \cup {q}
      /\ gg.direct = dir
      BY <1>2, <1>4, <1>5, <1>6, QueuedFields
<1>9. \A b \in DirectBins : gg.direct[b] = HeadOf(gg.queues[b])
      BY <1>7, <1>8, BinFacts DEF QueuesOk
<1>10. QueuesOk(gg, T \ {p})
      BY <1>4, <1>8, <1>9, JoinKeeps
<1> QED BY <1>8, <1>10 DEF gg

\* The members of one queue.
LEMMA OnlyFacts ==
    ASSUME NEW q \in Queues, NEW S
    PROVE  /\ Only(q, S)[q] = S
           /\ \A r \in Queues : r # q => Only(q, S)[r] = {}
           /\ UNION {Only(q, S)[r] : r \in Queues} = S
BY DEF Only

\* find_page parks pages: they leave their queue for the back of the full one.
LEMMA ParkKeeps ==
    ASSUME NEW hh \in Heaps, QueuesOk(hh, {}), NEW b \in Bins,
           NEW S, S \subseteq Elements(hh.queues[b])
    PROVE  LET gg == Park(hh, b, S)
           IN  /\ gg \in Heaps /\ Rest(gg) = Rest(hh)
               /\ DOMAIN gg.pages = DOMAIN hh.pages
               /\ \A p \in DOMAIN hh.pages : gg.pages[p] =
                      IF p \in S THEN [hh.pages[p] EXCEPT !.full = TRUE, !.expire = 0]
                      ELSE hh.pages[p]
               /\ QueuesOk(gg, {})
<1> DEFINE gg   == Park(hh, b, S)
           h1   == RemoveAll(hh, Only(b, S))
           tail == Without(hh.queues[b], Elements(hh.queues[b]) \ S)
           qs   == [h1.queues EXCEPT ![Full] = h1.queues[Full] \o tail]
           occ  == IF S = {} THEN h1.occupied ELSE h1.occupied \cup {Full}
           t    == [p \in DOMAIN hh.pages |->
                      IF p \in S THEN [hh.pages[p] EXCEPT !.full = TRUE, !.expire = 0]
                      ELSE hh.pages[p]]
<1>1. /\ b \in Queues /\ Full \in Queues /\ b # Full /\ DirectBins \subseteq Queues
      /\ Full \notin DirectBins
      BY BinFacts
<1>2. /\ hh.queues \in [Queues -> Seq(Nat)] /\ hh.pages \in PageTables
      /\ hh.queues[b] \in Seq(Nat) /\ hh.queues[Full] \in Seq(Nat)
      BY <1>1, HeapFields
<1>3. /\ Only(b, S)[b] = S /\ UNION {Only(b, S)[r] : r \in Queues} = S
      /\ \A r \in Queues : Only(b, S)[r] \subseteq Elements(hh.queues[r])
      /\ Only(b, S)[Full] = {}
      BY <1>1, OnlyFacts
<1>4. /\ h1 \in Heaps /\ Rest(h1) = Rest(hh) /\ h1.pages = hh.pages
      /\ \A q \in Queues : h1.queues[q] = Without(hh.queues[q], Only(b, S)[q])
      BY RemoveAllFields
<1>5. QueuesOk(h1, S)
  <2>1. QueuesOk(h1, {} \cup UNION {Only(b, S)[r] : r \in Queues})
        BY <1>3, RemoveAllKeeps
  <2> QED BY <1>3, <2>1
<1>6. tail \in Seq(Nat) /\ Elements(tail) = S /\ Distinct(tail)
  <2>1. /\ tail \in Seq(Nat) /\ (Distinct(hh.queues[b]) => Distinct(tail))
        /\ Elements(tail) = Elements(hh.queues[b]) \ (Elements(hh.queues[b]) \ S)
        BY <1>2, WithoutFacts
  <2> QED BY <1>1, <2>1 DEF QueuesOk
<1>7. gg = [h1 EXCEPT !.queues = qs, !.occupied = occ, !.pages = t]
      BY <1>4 DEF Park, MovedToFull, Heaps
<1>8. h1.queues \in [Queues -> Seq(Nat)] /\ h1.occupied \subseteq Queues
      BY <1>4, HeapFields
<1> HIDE DEF h1, tail
<1>9. h1.queues[Full] \in Seq(Nat) /\ Distinct(h1.queues[Full])
      /\ Elements(h1.queues[Full]) \cap S = {}
      BY <1>1, <1>5, <1>8 DEF QueuesOk
<1>10. /\ h1.queues[Full] \o tail \in Seq(Nat)
       /\ h1.queues[Full] \o tail = <<>> <=> h1.queues[Full] = <<>> /\ tail = <<>>
       /\ Elements(h1.queues[Full] \o tail) = Elements(h1.queues[Full]) \cup S
       /\ Distinct(h1.queues[Full] \o tail)
      BY <1>6, <1>9, ConcatFacts
<1>11. tail = <<>> <=> S = {}
      BY <1>6, SeqFacts
<1>12. /\ qs \in [Queues -> Seq(Nat)] /\ occ \subseteq Queues
       /\ qs[Full] = h1.queues[Full] \o tail
       /\ \A q \in Queues : q # Full => qs[q] = h1.queues[q]
      BY <1>1, <1>8, <1>10
<1>13. \A p \in DOMAIN hh.pages : hh.pages[p] \in PageRec /\ p \in Nat
      BY <1>2, PageTableFacts
<1>14. \A p \in DOMAIN hh.pages : t[p] \in PageRec /\ QueueOf(t[p]) =
            IF p \in S THEN Full ELSE QueueOf(hh.pages[p])
      BY <1>13 DEF PageRec, QueueOf
<1>15. t \in PageTables
  <2>1. t \in [DOMAIN hh.pages -> PageRec]
        BY <1>14
  <2>2. DOMAIN hh.pages \in SUBSET Nat
        BY <1>13
  <2> QED BY <2>1, <2>2 DEF PageTables
<1>16. \A p \in DOMAIN hh.pages : t[p] =
            IF p \in S THEN [hh.pages[p] EXCEPT !.full = TRUE, !.expire = 0]
            ELSE hh.pages[p]
      OBVIOUS
<1>17. DOMAIN t = DOMAIN hh.pages
      OBVIOUS
<1>18. S \subseteq DOMAIN hh.pages
      BY <1>1 DEF QueuesOk
<1>19. \A q \in Queues : q \in occ <=> (q \in h1.occupied \/ (q = Full /\ S # {}))
      BY <1>1
<1> HIDE DEF qs, occ, t, gg
<1>20. /\ gg \in Heaps /\ Rest(gg) = Rest(h1) /\ gg.pages = t /\ gg.queues = qs
       /\ gg.occupied = occ /\ gg.direct = h1.direct
  <2>1. gg \in Heaps
        BY <1>4, <1>7, <1>12, <1>15 DEF Heaps
  <2>2. /\ Rest(gg) = Rest(h1) /\ gg.pages = t /\ gg.queues = qs
        /\ gg.occupied = occ /\ gg.direct = h1.direct
        BY <1>4, <1>7 DEF Heaps, Rest
  <2> QED BY <2>1, <2>2
<1>21. QueuesOk(gg, {})
  <2>1. \A q \in Queues : Distinct(gg.queues[q])
        BY <1>5, <1>10, <1>12, <1>20 DEF QueuesOk
  <2>2. \A q \in Queues : q \in gg.occupied <=> gg.queues[q] # <<>>
        BY <1>5, <1>10, <1>11, <1>12, <1>19, <1>20 DEF QueuesOk
  <2>3. ASSUME NEW q \in Queues, NEW p \in Elements(gg.queues[q])
        PROVE  p \in DOMAIN gg.pages /\ QueueOf(gg.pages[p]) = q
    <3>1. CASE p \in S
      <4>1. q = Full
            BY <1>5, <1>12, <1>20, <2>3, <3>1 DEF QueuesOk
      <4> QED BY <1>14, <1>17, <1>18, <1>20, <3>1, <4>1
    <3>2. CASE p \notin S
      <4>1. p \in Elements(h1.queues[q])
            BY <1>10, <1>12, <1>20, <2>3, <3>2
      <4>2. p \in DOMAIN hh.pages /\ QueueOf(hh.pages[p]) = q
            BY <1>4, <1>5, <4>1 DEF QueuesOk
      <4> QED BY <1>14, <1>17, <1>20, <3>2, <4>2
    <3> QED BY <3>1, <3>2
  <2>4. ASSUME NEW p \in DOMAIN gg.pages
        PROVE  p \in Elements(gg.queues[QueueOf(gg.pages[p])])
    <3>1. p \in DOMAIN hh.pages
          BY <1>17, <1>20
    <3>2. CASE p \in S
          BY <1>10, <1>12, <1>14, <1>20, <3>1, <3>2
    <3>3. CASE p \notin S
      <4>1. p \in Elements(h1.queues[QueueOf(hh.pages[p])])
            BY <1>4, <1>5, <3>1, <3>3 DEF QueuesOk
      <4>2. QueueOf(gg.pages[p]) = QueueOf(hh.pages[p]) /\ QueueOf(hh.pages[p]) \in Queues
            BY <1>13, <1>14, <1>20, <3>1, <3>3, QueueOfIn
      <4> QED BY <1>10, <1>12, <1>20, <4>1, <4>2
    <3> QED BY <3>2, <3>3
  <2>5. \A d \in DirectBins : gg.direct[d] = HeadOf(gg.queues[d])
        BY <1>1, <1>5, <1>12, <1>20 DEF QueuesOk
  <2> QED BY <2>1, <2>2, <2>3, <2>4, <2>5 DEF QueuesOk
<1> QED BY <1>4, <1>16, <1>17, <1>20, <1>21 DEF gg

\* remove of one page.
LEMMA RemoveKeeps ==
    ASSUME NEW hh \in Heaps, QueuesOk(hh, {}), NEW q \in Queues,
           NEW p \in Elements(hh.queues[q])
    PROVE  LET gg == Remove(hh, q, p)
           IN  /\ gg \in Heaps /\ Rest(gg) = Rest(hh) /\ gg.pages = hh.pages
               /\ QueuesOk(gg, {p})
<1> DEFINE O == Only(q, {p})
<1>1. /\ \A r \in Queues : O[r] \subseteq Elements(hh.queues[r])
      /\ UNION {O[r] : r \in Queues} = {p}
      BY OnlyFacts
<1>2. Remove(hh, q, p) = RemoveAll(hh, O)
      BY DEF Remove
<1> HIDE DEF O
<1>3. QueuesOk(RemoveAll(hh, O), {} \cup UNION {O[r] : r \in Queues})
      BY <1>1, RemoveAllKeeps
<1>4. {} \cup UNION {O[r] : r \in Queues} = {p}
      BY <1>1
<1>5. QueuesOk(RemoveAll(hh, O), {p})
      BY <1>3, <1>4
<1> QED BY <1>2, <1>5, RemoveAllFields

\* A page of the full queue goes back to the queue of its bin.
LEMMA UnfullKeeps ==
    ASSUME NEW hh \in Heaps, QueuesOk(hh, {}), NEW p \in DOMAIN hh.pages,
           hh.pages[p].full
    PROVE  LET gg == Unfull(hh, p)
           IN  /\ gg \in Heaps /\ Rest(gg) = Rest(hh)
               /\ DOMAIN gg.pages = DOMAIN hh.pages
               /\ gg.pages[p] = [hh.pages[p] EXCEPT !.full = FALSE]
               /\ \A x \in DOMAIN hh.pages : x # p => gg.pages[x] = hh.pages[x]
               /\ QueuesOk(gg, {})
<1> DEFINE h1 == Remove(hh, Full, p)
           t  == [hh.pages EXCEPT ![p] = [hh.pages[p] EXCEPT !.full = FALSE]]
           h2 == [h1 EXCEPT !.pages = t]
           gg == Unfull(hh, p)
           b  == hh.pages[p].bin
<1>1. /\ Full \in Queues /\ hh.pages \in PageTables /\ hh.pages[p] \in PageRec
      /\ DOMAIN hh.pages \subseteq Nat
      BY BinFacts, HeapFields, PageTableFacts
<1>2. p \in Elements(hh.queues[Full])
      BY DEF QueuesOk, QueueOf
<1>3. /\ h1 \in Heaps /\ Rest(h1) = Rest(hh) /\ h1.pages = hh.pages
      /\ QueuesOk(h1, {p})
      BY <1>1, <1>2, RemoveKeeps
<1>6. /\ t \in PageTables /\ DOMAIN t = DOMAIN hh.pages
      /\ t[p] = [hh.pages[p] EXCEPT !.full = FALSE]
      /\ \A x \in DOMAIN hh.pages : x # p => t[x] = hh.pages[x]
  <2>1. [hh.pages[p] EXCEPT !.full = FALSE] \in PageRec
        BY <1>1 DEF PageRec
  <2>2. hh.pages \in [DOMAIN hh.pages -> PageRec]
        BY <1>1, PageTableFacts
  <2>3. t \in [DOMAIN hh.pages -> PageRec]
        BY <2>1, <2>2
  <2> QED BY <1>1, <2>2, <2>3 DEF PageTables
<1>7. b \in Bins /\ b \in Queues /\ QueueOf(t[p]) = b
      BY <1>1, <1>6, BinFacts DEF PageRec, QueueOf
<1>8. gg = PushBack(h2, b, p)
      BY <1>3 DEF Unfull, Heaps
<1> HIDE DEF h1, t, gg
<1>9. /\ h2 \in Heaps /\ Rest(h2) = Rest(h1) /\ h2.pages = t
      /\ h2.queues = h1.queues /\ h2.occupied = h1.occupied /\ h2.direct = h1.direct
      BY <1>3, <1>6, PagesFields
<1> HIDE DEF h2
<1>10. QueuesOk(h2, {p})
      BY <1>3, <1>6, <1>9, SameQueues
<1>11. /\ gg \in Heaps /\ Rest(gg) = Rest(h2) /\ gg.pages = h2.pages
       /\ QueuesOk(gg, {p} \ {p})
      BY <1>6, <1>7, <1>8, <1>9, <1>10, PushBackKeeps
<1>12. QueuesOk(gg, {})
  <2>1. {p} \ {p} = {}
        OBVIOUS
  <2> QED BY <1>11, <2>1
<1> QED BY <1>3, <1>6, <1>9, <1>11, <1>12 DEF gg

\* A page moves to the front of its queue.
LEMMA MoveToFrontKeeps ==
    ASSUME NEW hh \in Heaps, QueuesOk(hh, {}), NEW p \in DOMAIN hh.pages,
           NEW q \in Queues, QueueOf(hh.pages[p]) = q
    PROVE  LET gg == MoveToFront(hh, q, p)
           IN  /\ gg \in Heaps /\ Rest(gg) = Rest(hh) /\ gg.pages = hh.pages
               /\ QueuesOk(gg, {})
<1> DEFINE h1 == Remove(hh, q, p)
           gg == MoveToFront(hh, q, p)
<1>1. CASE HeadOf(hh.queues[q]) = p
      BY <1>1 DEF MoveToFront
<1>2. CASE HeadOf(hh.queues[q]) # p
  <2>1. gg = PushFront(h1, q, p)
        BY <1>2 DEF MoveToFront
  <2>2. p \in Elements(hh.queues[q])
        BY DEF QueuesOk
  <2>3. /\ h1 \in Heaps /\ Rest(h1) = Rest(hh) /\ h1.pages = hh.pages
        /\ QueuesOk(h1, {p})
        BY <2>2, RemoveKeeps
  <2> HIDE DEF h1, gg
  <2>6. /\ gg \in Heaps /\ Rest(gg) = Rest(h1) /\ gg.pages = h1.pages
        /\ QueuesOk(gg, {p} \ {p})
        BY <2>1, <2>3, PushFrontKeeps
  <2>7. {p} \ {p} = {}
        OBVIOUS
  <2>8. QueuesOk(gg, {})
        BY <2>6, <2>7
  <2> QED BY <2>3, <2>6, <2>8 DEF gg
<1> QED BY <1>1, <1>2

\* The slices of a page.
LEMMA PageSpanFacts ==
    ASSUME NEW pg \in PageRec, NEW p \in Nat
    PROVE  /\ PageSpan(pg, p) = Span(p, PageSlices[pg.bin]) /\ PageSpan(pg, p) \subseteq Nat
           /\ p \in PageSpan(pg, p)
<1>1. PageSlices[pg.bin] \in Nat \ {0}
      BY BinFacts DEF PageRec
<1>2. /\ Span(p, PageSlices[pg.bin]) \in SUBSET Nat
      /\ p \in Span(p, PageSlices[pg.bin])
      BY <1>1, Spans
<1> QED BY <1>2 DEF PageSpan

\* Released pages leave their queues and the table, and their slices are free.
LEMMA FreePagesKeeps ==
    ASSUME NEW hh \in Heaps, QueuesOk(hh, {}), NEW S,
           \A q \in Queues : S[q] \subseteq Elements(hh.queues[q])
    PROVE  LET gg   == FreePages(hh, S)
               gone == UNION {S[q] : q \in Queues}
           IN  /\ gg \in Heaps
               /\ gg.end = hh.end /\ gg.foreign = hh.foreign /\ gg.inited = hh.inited
               /\ gg.count = hh.count
               /\ gone \subseteq DOMAIN hh.pages
               /\ gg.sl = Release(hh.sl, UNION {PageSpan(hh.pages[p], p) : p \in gone})
               /\ DOMAIN gg.pages = DOMAIN hh.pages \ gone
               /\ \A p \in DOMAIN gg.pages : gg.pages[p] = hh.pages[p]
               /\ QueuesOk(gg, {})
<1> DEFINE gg   == FreePages(hh, S)
           gone == UNION {S[q] : q \in Queues}
           h1   == RemoveAll(hh, S)
           t    == [p \in DOMAIN hh.pages \ gone |-> hh.pages[p]]
           given == UNION {PageSpan(hh.pages[p], p) : p \in gone}
           sl   == Release(hh.sl, given)
<1>1. /\ h1 \in Heaps /\ Rest(h1) = Rest(hh) /\ h1.pages = hh.pages
      BY RemoveAllFields
<1>2. QueuesOk(h1, gone)
  <2>1. QueuesOk(h1, {} \cup gone)
        BY RemoveAllKeeps
  <2>2. {} \cup gone = gone
        OBVIOUS
  <2> QED BY <2>1, <2>2
<1>3. gone \subseteq DOMAIN hh.pages
      BY DEF QueuesOk
<1>4. /\ hh.pages \in PageTables /\ hh.sl \in Maps
      /\ \A p \in DOMAIN hh.pages : hh.pages[p] \in PageRec /\ p \in Nat
      BY HeapFields, PageTableFacts
<1>5. h1.sl = hh.sl
      BY <1>1 DEF Rest
<1>6. gg = [h1 EXCEPT !.pages = t, !.sl = sl]
      BY <1>1, <1>5 DEF FreePages, Heaps
<1>7. given \in SUBSET Nat
      BY <1>3, <1>4, PageSpanFacts
<1>8. sl \in Maps
      BY <1>4, <1>7, Fields
<1>9. t \in PageTables
  <2> DEFINE P == DOMAIN hh.pages \ gone
  <2>1. t \in [P -> PageRec] /\ P \in SUBSET Nat
        BY <1>4
  <2> HIDE DEF P, t
  <2> QED BY <2>1 DEF PageTables
<1>10. /\ DOMAIN t = DOMAIN hh.pages \ gone
       /\ \A p \in DOMAIN t : t[p] = hh.pages[p]
      OBVIOUS
<1> HIDE DEF h1, t, sl, gg
<1>11. gg \in Heaps
      BY <1>1, <1>6, <1>8, <1>9 DEF Heaps
<1>12. /\ gg.pages = t /\ gg.sl = sl /\ gg.end = h1.end /\ gg.foreign = h1.foreign
       /\ gg.inited = h1.inited /\ gg.count = h1.count /\ gg.queues = h1.queues
       /\ gg.occupied = h1.occupied /\ gg.direct = h1.direct
      BY <1>1, <1>6 DEF Heaps
<1>13. /\ h1.end = hh.end /\ h1.foreign = hh.foreign /\ h1.inited = hh.inited
       /\ h1.count = hh.count
      BY <1>1 DEF Rest
<1>14. QueuesOk(gg, {})
  <2>1. \A q \in Queues : \A p \in Elements(h1.queues[q]) :
            p \in DOMAIN hh.pages /\ p \notin gone /\ QueueOf(hh.pages[p]) = q
        BY <1>1, <1>2 DEF QueuesOk
  <2>2. \A p \in DOMAIN t : p \in DOMAIN hh.pages /\ p \notin gone /\ t[p] = hh.pages[p]
        BY <1>10
  <2>3. \A p \in DOMAIN hh.pages : p \notin gone => p \in DOMAIN t /\ t[p] = hh.pages[p]
        BY <1>10
  <2> HIDE DEF gone
  <2>4. \A q \in Queues : \A p \in Elements(gg.queues[q]) :
            p \in DOMAIN gg.pages /\ QueueOf(gg.pages[p]) = q
        BY <1>12, <2>1, <2>3
  <2>5. \A p \in DOMAIN gg.pages : p \in Elements(gg.queues[QueueOf(gg.pages[p])])
        BY <1>1, <1>2, <1>12, <2>2 DEF QueuesOk
  <2> QED BY <1>2, <1>12, <2>4, <2>5 DEF QueuesOk
<1> QED BY <1>3, <1>10, <1>11, <1>12, <1>13, <1>14 DEF gg, sl

\* The heap with the page pg at p.
Added(hh, p, pg) == [hh EXCEPT !.pages = [x \in DOMAIN @ \cup {p} |->
                                              IF x = p THEN pg ELSE @[x]]]

\* A new page enters the table before it enters its queue.
LEMMA NewPageKeeps ==
    ASSUME NEW hh \in Heaps, QueuesOk(hh, {}), NEW p \in Nat, p \notin DOMAIN hh.pages,
           NEW pg \in PageRec
    PROVE  LET gg == Added(hh, p, pg)
           IN  /\ gg \in Heaps /\ Rest(gg) = Rest(hh)
               /\ DOMAIN gg.pages = DOMAIN hh.pages \cup {p}
               /\ gg.pages[p] = pg
               /\ \A x \in DOMAIN hh.pages : gg.pages[x] = hh.pages[x]
               /\ QueuesOk(gg, {p})
<1> DEFINE t  == [x \in DOMAIN hh.pages \cup {p} |-> IF x = p THEN pg ELSE hh.pages[x]]
           gg == Added(hh, p, pg)
<1>1. /\ hh.pages \in PageTables
      /\ \A x \in DOMAIN hh.pages : hh.pages[x] \in PageRec /\ x \in Nat
      BY HeapFields, PageTableFacts
<1>2. t \in PageTables
  <2>1. t \in [DOMAIN hh.pages \cup {p} -> PageRec]
        BY <1>1
  <2>2. DOMAIN hh.pages \cup {p} \in SUBSET Nat
        BY <1>1
  <2> QED BY <2>1, <2>2 DEF PageTables
<1>3. /\ DOMAIN t = DOMAIN hh.pages \cup {p} /\ t[p] = pg
      /\ \A x \in DOMAIN hh.pages : t[x] = hh.pages[x]
      OBVIOUS
<1> HIDE DEF t
<1>4. /\ gg \in Heaps /\ Rest(gg) = Rest(hh) /\ gg.pages = t
      /\ gg.queues = hh.queues /\ gg.occupied = hh.occupied /\ gg.direct = hh.direct
  <2>1. gg = [hh EXCEPT !.pages = t]
        BY DEF Added, t
  <2> QED BY <1>2, <2>1, PagesFields
<1> HIDE DEF gg
<1>5. QueuesOk(gg, {p})
  <2>1. \A q \in Queues : \A x \in Elements(gg.queues[q]) :
            x \in DOMAIN gg.pages /\ x \notin {p} /\ QueueOf(gg.pages[x]) = q
        BY <1>3, <1>4 DEF QueuesOk
  <2>2. \A x \in DOMAIN gg.pages : x \notin {p} =>
            x \in Elements(gg.queues[QueueOf(gg.pages[x])])
        BY <1>3, <1>4 DEF QueuesOk
  <2> QED BY <1>4, <2>1, <2>2 DEF QueuesOk
<1> QED BY <1>3, <1>4, <1>5 DEF gg, t

-----------------------------------------------------------------------------
(* What the program holds, and the parts of the joint invariant.            *)

Small(L) == {x \in L : Classify(x.lay) # Huge}
Runs(L)  == {x \in L : Classify(x.lay) = Huge}

\* What the program holds: addresses it got for layouts it asks for.
Typed(L) ==
    \A x \in L : /\ x = [addr |-> x.addr, lay |-> x.lay]
                 /\ x.addr \in Nat /\ x.lay \in Layouts
                 /\ Classify(x.lay) = Huge => x.addr % SliceWords = 0
                 /\ x.addr % x.lay.align = 0

-----------------------------------------------------------------------------
(* Slices.  E are slices that are handed out and not yet anyone's.          *)

PageOwn(hh) == UNION {PageSpan(hh.pages[p], p) : p \in DOMAIN hh.pages}
RunOwn(R)   == UNION {RunSpan(x) : x \in R}

\* The slices below the first whole one are the program's.
Below == 0 .. (CeilDiv(HeapBase, SliceWords) - 1)

MapOk(hh, held) ==
    /\ Below \subseteq hh.foreign
    /\ \E wr \in SUBSET Nat : MapInv(hh.sl, hh.end, held, hh.foreign, wr)

SlicesOk(hh, R, E) ==
    /\ \A p, q \in DOMAIN hh.pages : p # q =>
          PageSpan(hh.pages[p], p) \cap PageSpan(hh.pages[q], q) = {}
    /\ \A x, y \in R : x # y => RunSpan(x) \cap RunSpan(y) = {}
    /\ PageOwn(hh) \cap RunOwn(R) = {}
    /\ E \cap PageOwn(hh) = {} /\ E \cap RunOwn(R) = {}
    /\ MapOk(hh, PageOwn(hh) \cup RunOwn(R) \cup E)
    /\ \A p \in DOMAIN hh.pages : p % PageSlices[hh.pages[p].bin] = 0

-----------------------------------------------------------------------------
(* Blocks.                                                                 *)

\* The free list of a page holds the blocks that are not in use, each once.
PageOk(pg) ==
    /\ Distinct(pg.free) /\ Elements(pg.free) \subseteq 0 .. (pg.cap - 1)
    /\ pg.cap <= Reserved[pg.bin]
    /\ pg.used + Len(pg.free) = pg.cap

\* Block i of page p is handed out.
InUse(hh, p, i) == i \in 0 .. (hh.pages[p].cap - 1) /\ i \notin Elements(hh.pages[p].free)

\* The live block x is block i of page p, however its layout shrank since.
Holds(hh, p, i, x) ==
    /\ InUse(hh, p, i)
    /\ x.addr = BlockAddr(p, hh.pages[p].bin, i)
    /\ PageSlices[Classify(x.lay)] = PageSlices[hh.pages[p].bin]
    /\ Classify(x.lay) <= hh.pages[p].bin

BlocksOk(hh, L) ==
    /\ \A p \in DOMAIN hh.pages : PageOk(hh.pages[p])
    /\ \A x \in Small(L) : \E p \in DOMAIN hh.pages : \E i \in Nat : Holds(hh, p, i, x)
    /\ \A x, y \in Small(L) : x.addr = y.addr => x = y
    /\ \A p \in DOMAIN hh.pages : \A i \in Nat :
          InUse(hh, p, i) => \E x \in Small(L) : x.addr = BlockAddr(p, hh.pages[p].bin, i)

-----------------------------------------------------------------------------
(* Countdowns.                                                             *)

\* But for the pages X, which a call is busy with, an empty page counts down.
Settled(hh, X) ==
    \A p \in DOMAIN hh.pages :
        /\ hh.pages[p].full => ~HasRoom(hh.pages[p]) /\ hh.pages[p].expire = 0
        /\ p \notin X /\ AllFree(hh.pages[p]) =>
              hh.pages[p].expire # 0 /\ ~hh.pages[p].full

Counting(hh, b) == {p \in DOMAIN hh.pages : hh.pages[p].bin = b /\ hh.pages[p].expire # 0}

RetireBound(b) == IF BlockSize[b] < DirectMax THEN RetireMaxPages ELSE 1

Bounded(hh) ==
    \A b \in Bins : /\ IsFiniteSet(Counting(hh, b))
                    /\ Cardinality(Counting(hh, b)) <= RetireBound(b)

-----------------------------------------------------------------------------
(* The joint invariant.                                                    *)

Sound(hh, L, X, E) ==
    /\ hh \in Heaps /\ hh.inited
    /\ QueuesOk(hh, {})
    /\ SlicesOk(hh, Runs(L), E)
    /\ BlocksOk(hh, L)
    /\ Settled(hh, X)
    /\ Bounded(hh)
    /\ Typed(L)

\* The heap before the first call.
NewHeap ==
    [sl |-> NewMap, end |-> InitialEnd,
     foreign |-> 0 .. (CeilDiv(HeapBase, SliceWords) - 1),
     pages |-> <<>>,
     queues |-> [q \in Queues |-> <<>>],
     direct |-> [b \in DirectBins |-> NoPage],
     occupied |-> {},
     retiredMin |-> NoRange.min, retiredMax |-> NoRange.max,
     count |-> 0, inited |-> FALSE]

IInv == IF h.inited THEN Sound(h, live, {}, {}) ELSE h = NewHeap /\ live = {}

-----------------------------------------------------------------------------
(* Geometry.                                                               *)

LEMMA ConstantFacts ==
    /\ SliceWords \in Nat \ {0} /\ HeaderWords \in Nat \ {0} /\ MaxNatural \in Nat \ {0}
    /\ RetireSmall \in Nat \ {0} /\ RetireOther \in Nat \ {0}
    /\ SmallMax \in Nat /\ DirectMax \in Nat /\ ExtendWords \in Nat
    /\ RetireMaxPages \in Nat /\ MaxCandidates \in Nat /\ CollectPeriod \in Nat
    /\ HeapBase \in Nat /\ InitialEnd \in Nat
    /\ \A l \in Layouts : l.size \in Nat \ {0} /\ l.align \in Nat \ {0}
BY HeapAssumption

\* Division rounded up.
LEMMA CeilDivFacts ==
    ASSUME NEW a \in Nat, NEW n \in Nat \ {0}
    PROVE  /\ CeilDiv(a, n) \in Nat
           /\ a <= n * CeilDiv(a, n) /\ n * CeilDiv(a, n) < a + n
           /\ RoundUp(a, n) \in Nat /\ a <= RoundUp(a, n) /\ RoundUp(a, n) < a + n
<1> DEFINE c == CeilDiv(a, n)
<1>1. a + n - 1 \in Nat
      OBVIOUS
<1>2. c \in Nat /\ n * c <= a + n - 1 /\ a + n - 1 < n * c + n
      BY <1>1, DivFacts DEF CeilDiv
<1>3. RoundUp(a, n) = c * n
      BY DEF RoundUp
<1> HIDE DEF c
<1>4. c * n = n * c /\ n * c \in Nat
      BY <1>2
<1>5. a <= n * c /\ n * c < a + n
      BY <1>2, <1>4
<1> QED BY <1>2, <1>3, <1>4, <1>5 DEF c

\* The largest power of two that divides a block size, capped, exists.
LEMMA NaturalAlignIs ==
    ASSUME NEW n \in Nat \ {0}
    PROVE  NaturalAlign(n) \in 1 .. MaxNatural /\ n % NaturalAlign(n) = 0
<1> DEFINE P(a) == (\E k \in 0 .. MaxNatural : a = 2^k) /\ n % a = 0
           C == {a \in 1 .. MaxNatural : P(a)}
           D == {MaxNatural - a : a \in C}
<1>1. MaxNatural \in Nat \ {0}
      BY ConstantFacts
<1>2. 1 \in C
  <2>1. 1 = 2^0 /\ 0 \in 0 .. MaxNatural /\ n % 1 = 0 /\ 1 \in 1 .. MaxNatural
        BY <1>1
  <2> QED BY <2>1
<1>3. C \subseteq 1 .. MaxNatural /\ \A a \in 1 .. MaxNatural : a \in C <=> P(a)
      OBVIOUS
<1> HIDE DEF P
<1>4. \E a \in C : \A c \in C : c <= a
  <2> HIDE DEF C
  <2>1. D \in SUBSET Nat /\ D # {}
        BY <1>1, <1>2, <1>3
  <2>2. PICK d \in D : \A e \in D : d <= e
        BY <2>1, LeastExists DEF Lowest
  <2>3. PICK a \in C : d = MaxNatural - a
        BY <2>2
  <2>4. ASSUME NEW c \in C PROVE c <= a
    <3>1. MaxNatural - c \in D
          BY <2>4
    <3>2. MaxNatural - a <= MaxNatural - c
          BY <2>2, <2>3, <3>1
    <3> QED BY <1>1, <1>3, <3>2
  <2> QED BY <2>4
<1>5. PICK a \in C : \A c \in C : c <= a
      BY <1>4
<1>6. a \in 1 .. MaxNatural /\ P(a) /\ \A c \in (a + 1) .. MaxNatural : ~P(c)
  <2>1. a \in 1 .. MaxNatural /\ P(a)
        BY <1>3, <1>5
  <2>2. ASSUME NEW c \in (a + 1) .. MaxNatural, P(c) PROVE FALSE
    <3>1. c \in 1 .. MaxNatural
          BY <1>1, <2>1
    <3>2. c \in C
          BY <1>3, <2>2, <3>1
    <3>3. c <= a
          BY <1>5, <3>2
    <3> QED BY <1>1, <2>1, <3>3
  <2> QED BY <2>1, <2>2
<1>7. \E b \in 1 .. MaxNatural :
        /\ \E k \in 0 .. MaxNatural : b = 2^k
        /\ n % b = 0
        /\ \A c \in (b + 1) .. MaxNatural :
               ~(n % c = 0 /\ \E k \in 0 .. MaxNatural : c = 2^k)
      BY <1>6 DEF P
<1> QED BY <1>7 DEF NaturalAlign

\* Being a multiple, as a product.
LEMMA Divides ==
    ASSUME NEW a \in Nat, NEW s \in Nat \ {0}
    PROVE  /\ a % s = 0 => a \div s \in Nat /\ a = s * (a \div s)
           /\ \A q \in Nat : a = s * q => a % s = 0
<1> DEFINE d == a \div s
<1>1. d \in Nat /\ s * d \in Nat /\ a % s \in Nat /\ a = s * d + (a % s)
      BY DivFacts
<1>2. ASSUME NEW q \in Nat, a = s * q PROVE a % s = 0
  <2>1. s * q \in Nat /\ s * q <= a /\ a < s * q + s
        BY <1>2
  <2>2. d = q
        BY <2>1, DivIs
  <2> HIDE DEF d
  <2> QED BY <1>1, <1>2, <2>2
<1> QED BY <1>1, <1>2

\* Multiples of a multiple.
LEMMA DividesOn ==
    ASSUME NEW a \in Nat, NEW b \in Nat, NEW s \in Nat \ {0}, a % s = 0
    PROVE  (a * b) % s = 0 /\ (b * a) % s = 0
<1> DEFINE d == a \div s
<1>1. d \in Nat /\ a = s * d
      BY Divides
<1> HIDE DEF d
<1>2. d * b \in Nat /\ a * b \in Nat /\ a * b = s * (d * b) /\ b * a = a * b
  <2>1. (s * d) * b = s * (d * b)
        BY <1>1, SMTT(30)
  <2> QED BY <1>1, <2>1
<1>3. (a * b) % s = 0
      BY <1>2, Divides
<1> QED BY <1>2, <1>3

\* Sums of multiples.
LEMMA DividesSum ==
    ASSUME NEW a \in Nat, NEW b \in Nat, NEW s \in Nat \ {0}, a % s = 0, b % s = 0
    PROVE  (a + b) % s = 0
<1> DEFINE d == a \div s
           e == b \div s
<1>1. d \in Nat /\ a = s * d /\ e \in Nat /\ b = s * e
      BY Divides
<1> HIDE DEF d, e
<1>2. d + e \in Nat /\ a + b \in Nat /\ a + b = s * (d + e)
      BY <1>1
<1> QED BY <1>2, Divides

LEMMA DividesAll ==
    ASSUME NEW a \in Nat, NEW b \in Nat, NEW c \in Nat, NEW s \in Nat \ {0},
           a % s = 0, b % s = 0, c % s = 0
    PROVE  (a + b + c) % s = 0
<1> DEFINE t == a + b
<1>1. t \in Nat
      OBVIOUS
<1>2. t % s = 0
      BY DividesSum, Zenon
<1> HIDE DEF t
<1>3. (t + c) % s = 0
      BY <1>1, <1>2, DividesSum, Zenon
<1> QED BY <1>3 DEF t

\* Where blocks start, and that Reserved many of them fit a page.
LEMMA BlocksFit ==
    ASSUME NEW b \in Bins
    PROVE  /\ BlockStart[b] \in Nat /\ Reserved[b] \in Nat \ {0}
           /\ BlockStart[b] + Reserved[b] * BlockSize[b] <= PageSlices[b] * SliceWords
<1> DEFINE bs == BlockSize[b]
           st == BlockStart[b]
           room == PageSlices[b] * SliceWords - st
           r  == Reserved[b]
<1>1. /\ bs \in Nat \ {0} /\ PageSlices[b] \in Nat \ {0}
      /\ SliceWords \in Nat \ {0} /\ HeaderWords \in Nat
      BY BinFacts, ConstantFacts
<1>2. st \in Nat
  <2>1. NaturalAlign(bs) \in Nat \ {0}
        BY <1>1, NaturalAlignIs
  <2>2. RoundUp(HeaderWords, NaturalAlign(bs)) \in Nat
        BY <1>1, <2>1, CeilDivFacts
  <2> QED BY <2>2 DEF BlockStart
<1>3. r = room \div bs /\ r >= 1
      BY PageAssumption DEF Reserved
<1> HIDE DEF bs, st, r
<1>4. PageSlices[b] * SliceWords \in Nat
      BY <1>1
<1>5. room \in Int
      BY <1>2, <1>4
<1> HIDE DEF room
<1>6. r \in Int /\ bs * r <= room
      BY <1>1, <1>3, <1>5
<1>7. bs * r = r * bs /\ r * bs \in Int
      BY <1>1, <1>6
<1>8. st + r * bs <= PageSlices[b] * SliceWords
      BY <1>2, <1>4, <1>6, <1>7 DEF room
<1> QED BY <1>2, <1>3, <1>6, <1>8 DEF bs, st, r

\* A block lies inside its page: masking finds the page, and from the page's
\* first block its index, and its first word is in one of the page's slices.
LEMMA BlockIn ==
    ASSUME NEW b \in Bins, NEW p \in Nat, NEW i \in 0 .. (Reserved[b] - 1)
    PROVE  LET a == BlockAddr(p, b, i)
           IN  /\ a \in Nat /\ a \div SliceWords \in Span(p, PageSlices[b])
               /\ BlockIndex(p, b, a) = i
               /\ \A c \in Bins : PageSlices[c] = PageSlices[b] /\ p % PageSlices[b] = 0
                                      => HeaderOf(c, a) = p
<1> DEFINE a  == BlockAddr(p, b, i)
           bs == BlockSize[b]
           st == BlockStart[b]
           ps == PageSlices[b]
           r  == Reserved[b]
           off == st + i * bs
           W  == SliceWords
<1>1. /\ bs \in Nat \ {0} /\ ps \in Nat \ {0} /\ W \in Nat \ {0} /\ st \in Nat
      /\ r \in Nat /\ st + r * bs <= ps * W
      BY BinFacts, BlocksFit
<1>2. a = p * W + off /\ BlockAddr(p, b, 0) = p * W + st + 0 * bs
      /\ BlockIndex(p, b, a) = (a - BlockAddr(p, b, 0)) \div bs
  <2>1. a = p * W + st + i * bs
        BY DEF BlockAddr
  <2>2. p * W \in Nat /\ i * bs \in Nat
        BY <1>1
  <2>3. a = p * W + off
        BY <1>1, <2>1, <2>2
  <2> QED BY <2>3 DEF BlockAddr, BlockIndex
<1> HIDE DEF a, bs, st, ps, r, W
<1>3. i \in Nat /\ i < r
      BY <1>1 DEF r
<1>4. /\ i * bs \in Nat /\ r * bs \in Nat /\ p * W \in Nat /\ ps * W \in Nat \ {0}
      /\ i * bs + bs <= r * bs
  <2>1. bs * i + bs <= bs * r
        BY <1>1, <1>3, MulMono
  <2> QED BY <1>1, <1>3, <2>1
<1>5. off \in Nat /\ off < ps * W
      BY <1>1, <1>4
<1>6. a \in Nat
      BY <1>2, <1>4, <1>5
<1>7. BlockIndex(p, b, a) = i
  <2>1. a - BlockAddr(p, b, 0) = i * bs /\ i * bs = bs * i
        BY <1>1, <1>2, <1>3, <1>4
  <2>2. (bs * i) \div bs = i
        BY <1>1, <1>3, DivIs
  <2> QED BY <1>2, <2>1, <2>2
<1>8. a \div W \in Span(p, ps)
  <2>1. p <= a \div W
    <3>1. (p * W) \div W = p
      <4>1. p * W = W * p
            BY <1>1
      <4>2. (W * p) \div W = p
            BY <1>1, DivIs
      <4> QED BY <4>1, <4>2
    <3>2. p * W <= a
          BY <1>2, <1>4, <1>5
    <3> QED BY <1>1, <1>4, <1>6, <3>1, <3>2, DivMono
  <2>2. a \div W < p + ps
    <3>1. SUFFICES ASSUME ~(a \div W < p + ps) PROVE FALSE
          OBVIOUS
    <3>2. a \div W \in Nat /\ W * (a \div W) <= a
          BY <1>1, <1>6, DivFacts
    <3>3. p + ps <= a \div W
          BY <1>1, <3>1, <3>2
    <3>4. W * (p + ps) <= W * (a \div W)
      <4>1. CASE p + ps = a \div W
            BY <4>1, <3>2, <1>1
      <4>2. CASE p + ps < a \div W
        <5>1. W * (p + ps) + W <= W * (a \div W)
              BY <1>1, <3>2, <4>2, MulMono
        <5>2. W * (p + ps) \in Nat /\ W * (a \div W) \in Nat
              BY <1>1, <3>2
        <5> QED BY <1>1, <5>1, <5>2
      <4> QED BY <1>1, <3>2, <3>3, <4>1, <4>2
    <3>5. W * (p + ps) = p * W + ps * W
          BY <1>1
    <3> QED BY <1>1, <1>2, <1>4, <1>5, <3>2, <3>4, <3>5
  <2>3. a \div W \in Nat
        BY <1>1, <1>6, DivFacts
  <2> QED BY <1>1, <2>1, <2>2, <2>3, Spans
<1>9. ASSUME NEW c \in Bins, PageSlices[c] = ps, p % ps = 0
      PROVE  HeaderOf(c, a) = p
  <2> DEFINE k == p \div ps
             S == ps * W
  <2>1. k \in Nat /\ p = ps * k
    <3>1. p = ps * (p \div ps) + (p % ps)
          BY <1>1
    <3>2. k \in Nat
          BY <1>1, DivFacts
    <3> HIDE DEF k
    <3>3. ps * k \in Nat
          BY <1>1, <3>2
    <3>4. p = ps * k + (p % ps)
          BY <3>1 DEF k
    <3> QED BY <1>9, <3>2, <3>3, <3>4
  <2>2. S \in Nat \ {0} /\ S * k = p * W
    <3>1. (ps * W) * k = (ps * k) * W
          BY <1>1, <2>1
    <3> HIDE DEF k
    <3> QED BY <1>4, <2>1, <3>1
  <2> HIDE DEF k, S
  <2>3. S * k <= a /\ a < S * k + S
        BY <1>2, <1>4, <1>5, <2>2 DEF S
  <2>4. a \div S = k
        BY <1>6, <2>1, <2>2, <2>3, DivIs
  <2>5. HeaderOf(c, a) = (a \div S) * ps
        BY <1>9 DEF HeaderOf, S, W
  <2>6. k * ps = ps * k
        BY <1>1, <2>1
  <2> QED BY <2>1, <2>4, <2>5, <2>6
<1> QED BY <1>6, <1>7, <1>8, <1>9 DEF a, ps, W

\* The class of a layout is a bin whose blocks are large enough, or none.
LEMMA ClassIs ==
    ASSUME NEW l \in Layouts
    PROVE  /\ l.size \in Nat /\ HugeSlices(l) \in Nat \ {0} /\ HugeAlign(l) \in Nat \ {0}
           /\ Classify(l) # Huge =>
                /\ Classify(l) \in Bins
                /\ \A b \in Bins : Classify(l) <= b => l.size <= BlockSize[b]
<1> DEFINE n    == Len(BlockSize)
           size == Rounded(l)
           C    == {b \in Bins : BlockSize[b] >= size}
<1>1. l.size \in Nat \ {0} /\ l.align \in Nat \ {0} /\ SliceWords \in Nat \ {0}
      BY ConstantFacts
<1>2. /\ Bins = 1 .. n /\ n \in Nat /\ n >= 1
      /\ \A b \in Bins : BlockSize[b] \in Nat
      BY BinFacts
<1>3. \A b, c \in Bins : b < c => BlockSize[b] < BlockSize[c]
      BY HeapAssumption DEF Bins
<1>4. size \in Nat /\ l.size <= size
      BY <1>1, CeilDivFacts DEF Rounded
<1>5. HugeSlices(l) \in Nat \ {0} /\ HugeAlign(l) \in Nat \ {0}
  <2>1. CeilDiv(l.size, SliceWords) \in Nat /\ CeilDiv(l.align, SliceWords) \in Nat
        BY <1>1, CeilDivFacts
  <2> QED BY <2>1 DEF HugeSlices, HugeAlign, Greatest
<1>6. ASSUME Classify(l) # Huge
      PROVE  Classify(l) \in Bins /\ BlockSize[Classify(l)] >= size
  <2>1. Classify(l) = BinOf(size) /\ ~(size > BlockSize[n])
        BY <1>6 DEF Classify
  <2>2. n \in C /\ C \in SUBSET Nat
        BY <1>2, <1>4, <2>1
  <2> HIDE DEF size
  <2>3. PICK b \in C : \A c \in C : b <= c
        BY <2>2, LeastExists DEF Lowest
  <2>4. \E d \in Bins : /\ BlockSize[d] >= size
                        /\ \A c \in Bins : c < d => BlockSize[c] < size
    <3>1. b \in Bins /\ BlockSize[b] >= size
          OBVIOUS
    <3>2. ASSUME NEW c \in Bins, c < b PROVE BlockSize[c] < size
      <4>1. c \notin C
            BY <1>2, <2>3, <3>1, <3>2
      <4> QED BY <1>2, <1>4, <4>1
    <3> QED BY <3>1, <3>2
  <2>5. BinOf(size) \in Bins /\ BlockSize[BinOf(size)] >= size
        BY <2>4 DEF BinOf
  <2> QED BY <2>1, <2>5
<1>7. ASSUME Classify(l) # Huge, NEW b \in Bins, Classify(l) <= b
      PROVE  l.size <= BlockSize[b]
  <2> DEFINE k == Classify(l)
  <2>1. k \in Bins /\ BlockSize[k] >= size
        BY <1>6, <1>7
  <2>2. k <= b
        BY <1>7
  <2> HIDE DEF k, size
  <2>3. BlockSize[k] <= BlockSize[b]
        BY <1>2, <1>3, <2>1, <2>2
  <2> QED BY <1>1, <1>2, <1>4, <2>1, <2>3
<1> QED BY <1>1, <1>5, <1>6, <1>7

-----------------------------------------------------------------------------
(* Counting.                                                               *)

\* Every block of the class of a layout is aligned for it (block_start).
LEMMA BlockAligned ==
    ASSUME NEW l \in Layouts, Classify(l) # Huge, NEW p \in Nat, NEW i \in Nat
    PROVE  BlockAddr(p, Classify(l), i) % l.align = 0
<1> DEFINE b  == Classify(l)
           bs == BlockSize[b]
           na == NaturalAlign(bs)
           al == l.align
           c  == CeilDiv(HeaderWords, na)
<1>1. b \in Bins /\ bs \in Nat \ {0} /\ al \in Nat \ {0} /\ SliceWords \in Nat
      BY ClassIs, ConstantFacts, HeapAssumption DEF Bins
<1>2. SliceWords % al = 0 /\ na % al = 0
      BY AlignAssumption
<1>3. na \in Nat \ {0} /\ bs % na = 0
      BY <1>1, NaturalAlignIs
<1> HIDE DEF al, na
<1>4. bs \div na \in Nat /\ bs = na * (bs \div na)
      BY <1>1, <1>3, Divides
<1>5. bs % al = 0
  <2> DEFINE k == bs \div na
  <2> HIDE DEF k, bs
  <2>1. (na * k) % al = 0
        BY <1>1, <1>2, <1>3, <1>4, DividesOn DEF k
  <2> QED BY <1>4, <2>1 DEF k
<1>6. c \in Nat /\ BlockStart[b] = c * na
  <2>1. c \in Nat
        BY <1>3, ConstantFacts, CeilDivFacts
  <2>2. BlockStart[b] = RoundUp(HeaderWords, na)
        BY <1>1 DEF BlockStart, na
  <2> QED BY <2>1, <2>2 DEF RoundUp
<1> HIDE DEF b, bs, c
<1> DEFINE u == p * SliceWords
           v == c * na
           w == i * bs
<1>7. u \in Nat /\ v \in Nat /\ w \in Nat
      BY <1>1, <1>3, <1>6
<1>8. u % al = 0 /\ v % al = 0 /\ w % al = 0
  <2>1. u % al = 0
        BY <1>1, <1>2, DividesOn
  <2>2. v % al = 0
        BY <1>1, <1>2, <1>3, <1>6, DividesOn
  <2>3. w % al = 0
        BY <1>1, <1>5, DividesOn
  <2> QED BY <2>1, <2>2, <2>3
<1>9. (u + v + w) % al = 0
  <2> HIDE DEF u, v, w
  <2>1. al \in Nat \ {0}
        BY <1>1
  <2>2. u \in Nat /\ v \in Nat /\ w \in Nat /\ u % al = 0 /\ v % al = 0 /\ w % al = 0
        BY <1>7, <1>8
  <2> DEFINE t == u + v
  <2>3. t \in Nat
        BY <2>2
  <2>4. t % al = 0
        BY <2>1, <2>2, DividesSum, Zenon
  <2> HIDE DEF t
  <2>5. (t + w) % al = 0
        BY <2>1, <2>2, <2>3, <2>4, DividesSum, Zenon
  <2> QED BY <2>5 DEF t
<1> QED BY <1>6, <1>9 DEF BlockAddr, b, bs, al

\* A run whose first slice is a multiple of the alignment in slices is aligned.
LEMMA RunAligned ==
    ASSUME NEW l \in Layouts, NEW s \in Nat, s % HugeAlign(l) = 0
    PROVE  (s * SliceWords) % l.align = 0
<1> DEFINE al == l.align
           k  == HugeAlign(l)
           j  == al \div SliceWords
<1>1. al \in Nat \ {0} /\ SliceWords \in Nat \ {0} /\ k \in Nat \ {0}
      BY ConstantFacts, ClassIs
<1>2. SliceWords % al = 0 \/ al % SliceWords = 0
      BY AlignAssumption
<1> HIDE DEF al
<1>3. CASE SliceWords % al = 0
      BY <1>1, <1>3, DividesOn DEF al
<1>4. CASE al % SliceWords = 0
  <2>1. j \in Nat /\ al = SliceWords * j
        BY <1>1, <1>4, Divides
  <2> HIDE DEF j
  <2>2. j # 0
        BY <1>1, <2>1
  <2>3. k = j
    <3>1. SliceWords * j + SliceWords - 1 \in Nat
          BY <1>1, <2>1
    <3>2. (SliceWords * j + SliceWords - 1) \div SliceWords = j
          BY <1>1, <2>1, <3>1, DivIs
    <3>3. CeilDiv(l.align, SliceWords) = j
          BY <2>1, <3>2 DEF CeilDiv, al
    <3> QED BY <2>1, <2>2, <3>3 DEF HugeAlign, Greatest
  <2> HIDE DEF k
  <2>4. PICK q \in Nat : s = k * q
        BY <1>1, Divides DEF k
  <2>5. s * SliceWords = al * q
    <3>1. (j * q) * SliceWords = (SliceWords * j) * q
          BY <1>1, <2>1, SMTT(30)
    <3> QED BY <2>1, <2>3, <2>4, <3>1
  <2>6. s * SliceWords \in Nat
        BY <1>1
  <2> QED BY <1>1, <2>5, <2>6, Divides DEF al
<1> QED BY <1>2, <1>3, <1>4

\* A correspondence between two sets preserves the number of elements.
LEMMA SameCard ==
    ASSUME NEW S, NEW T, IsFiniteSet(S), NEW f \in [S -> T],
           \A x, y \in S : f[x] = f[y] => x = y,
           \A y \in T : \E x \in S : f[x] = y
    PROVE  IsFiniteSet(T) /\ Cardinality(T) = Cardinality(S)
<1>1. f \in Bijection(S, T)
      BY DEF Bijection, Injection, Surjection, IsInjective
<1>2. ExistsBijection(S, T)
      BY <1>1 DEF ExistsBijection
<1> QED BY <1>2, FS_Bijection

LEMMA LenIsCard ==
    ASSUME NEW s \in Seq(Nat), Distinct(s)
    PROVE  IsFiniteSet(Elements(s)) /\ Cardinality(Elements(s)) = Len(s)
<1> DEFINE S == 1 .. Len(s)
           T == Elements(s)
<1>1. Len(s) \in Nat
      OBVIOUS
<1>2. IsFiniteSet(S) /\ Cardinality(S) = Len(s)
  <2>1. IsFiniteSet(S) /\ Cardinality(S) = IF 1 > Len(s) THEN 0 ELSE Len(s) - 1 + 1
        BY <1>1, FS_Interval
  <2> QED BY <1>1, <2>1
<1>3. /\ s \in [S -> T]
      /\ \A y \in T : \E x \in S : s[x] = y
  <2>1. \A y : y \in T <=> \E x \in S : s[x] = y
        BY SeqFacts
  <2>2. s \in [S -> Nat]
        OBVIOUS
  <2> HIDE DEF T
  <2> QED BY <2>1, <2>2
<1>4. \A x, y \in S : s[x] = s[y] => x = y
      BY DEF Distinct
<1> QED BY <1>2, <1>3, <1>4, SameCard

\* A list of numbers below n, each once, has at most n of them, fewer if one is
\* missing; if none is missing it has n.
LEMMA ListBelow ==
    ASSUME NEW s \in Seq(Nat), Distinct(s), NEW n \in Nat, Elements(s) \subseteq 0 .. (n - 1)
    PROVE  /\ Len(s) <= n
           /\ Len(s) = n <=> Elements(s) = 0 .. (n - 1)
           /\ \A i \in 0 .. (n - 1) : i \notin Elements(s) => Len(s) < n
<1> DEFINE S == 0 .. (n - 1)
<1>1. IsFiniteSet(S) /\ Cardinality(S) = n
  <2>1. 0 \in Int /\ n - 1 \in Int
        OBVIOUS
  <2>2. IsFiniteSet(S) /\ Cardinality(S) = IF 0 > n - 1 THEN 0 ELSE (n - 1) - 0 + 1
        BY <2>1, FS_Interval
  <2> QED BY <2>2
<1>2. IsFiniteSet(Elements(s)) /\ Cardinality(Elements(s)) = Len(s)
      BY LenIsCard
<1>3. Cardinality(Elements(s)) <= n /\ (Cardinality(Elements(s)) = n => S = Elements(s))
      BY <1>1, FS_Subset
<1>4. Elements(s) = S => Len(s) = n
      BY <1>1, <1>2
<1>5. Len(s) \in Nat
      OBVIOUS
<1> QED BY <1>2, <1>3, <1>4, <1>5

-----------------------------------------------------------------------------
(* One page.                                                               *)

LEMMA PageFields ==
    ASSUME NEW pg \in PageRec
    PROVE  /\ pg.bin \in Bins /\ pg.bin \in Queues /\ pg.free \in Seq(Nat)
           /\ pg.used \in Nat /\ pg.cap \in Nat /\ pg.expire \in Nat
           /\ pg.full \in BOOLEAN
BY BinFacts DEF PageRec

\* No block of a page is in use exactly when all of them are free.
LEMMA AllFreeIs ==
    ASSUME NEW pg \in PageRec, PageOk(pg)
    PROVE  AllFree(pg) <=> Elements(pg.free) = 0 .. (pg.cap - 1)
<1>1. /\ pg.free \in Seq(Nat) /\ Len(pg.free) \in Nat /\ pg.used \in Nat /\ pg.cap \in Nat
      BY PageFields
<1>2. Len(pg.free) = pg.cap <=> Elements(pg.free) = 0 .. (pg.cap - 1)
      BY <1>1, ListBelow DEF PageOk
<1> QED BY <1>1, <1>2 DEF PageOk, AllFree

LEMMA PopPage ==
    ASSUME NEW pg \in PageRec, PageOk(pg), HasFree(pg)
    PROVE  LET ng == Popped(pg)
               i  == Head(pg.free)
           IN  /\ ng \in PageRec /\ PageOk(ng)
               /\ ng.bin = pg.bin /\ ng.cap = pg.cap /\ ng.full = pg.full
               /\ ng.expire = pg.expire /\ ng.used = pg.used + 1
               /\ i \in 0 .. (pg.cap - 1) /\ i \in Elements(pg.free)
               /\ Elements(ng.free) = Elements(pg.free) \ {i}
<1> DEFINE ng == Popped(pg)
<1>1. /\ pg.free \in Seq(Nat) /\ pg.used \in Nat /\ pg.cap \in Nat /\ pg.free # <<>>
      /\ Distinct(pg.free) /\ Elements(pg.free) \subseteq 0 .. (pg.cap - 1)
      /\ pg.used + Len(pg.free) = pg.cap /\ pg.cap <= Reserved[pg.bin]
      BY PageFields DEF PageOk, HasFree
<1>2. /\ Tail(pg.free) \in Seq(Nat) /\ Head(pg.free) \in Elements(pg.free)
      /\ Elements(Tail(pg.free)) = Elements(pg.free) \ {Head(pg.free)}
      /\ Distinct(Tail(pg.free))
      BY <1>1, TailFacts
<1>3. Len(Tail(pg.free)) = Len(pg.free) - 1 /\ Len(pg.free) \in Nat
      BY <1>1
<1>4. /\ ng.free = Tail(pg.free) /\ ng.used = pg.used + 1
      /\ ng.bin = pg.bin /\ ng.cap = pg.cap /\ ng.full = pg.full /\ ng.expire = pg.expire
      BY DEF Popped, PageRec
<1>5. ng \in PageRec
  <2> DEFINE s == Tail(pg.free)
             u == pg.used + 1
  <2>1. ng = [pg EXCEPT !.free = s, !.used = u]
        BY DEF Popped
  <2>2. s \in Seq(Nat) /\ u \in Nat
        BY <1>1, <1>2
  <2> HIDE DEF s, u, ng
  <2> QED BY <2>1, <2>2 DEF PageRec
<1> HIDE DEF ng
<1>6. PageOk(ng)
  <2>1. ng.used + Len(ng.free) = ng.cap
        BY <1>1, <1>3, <1>4
  <2> QED BY <1>1, <1>2, <1>4, <2>1 DEF PageOk
<1> QED BY <1>1, <1>2, <1>4, <1>5, <1>6 DEF ng

LEMMA PushPage ==
    ASSUME NEW pg \in PageRec, PageOk(pg), NEW i \in 0 .. (pg.cap - 1),
           i \notin Elements(pg.free)
    PROVE  LET ng == Pushed(pg, i)
           IN  /\ ng \in PageRec /\ PageOk(ng) /\ HasFree(ng)
               /\ ng.bin = pg.bin /\ ng.cap = pg.cap /\ ng.full = pg.full
               /\ ng.expire = pg.expire /\ ng.used + 1 = pg.used
               /\ Elements(ng.free) = {i} \cup Elements(pg.free)
<1> DEFINE ng == Pushed(pg, i)
           s  == <<i>> \o pg.free
<1>1. /\ pg.free \in Seq(Nat) /\ pg.used \in Nat /\ pg.cap \in Nat
      /\ Distinct(pg.free) /\ Elements(pg.free) \subseteq 0 .. (pg.cap - 1)
      /\ pg.used + Len(pg.free) = pg.cap /\ pg.cap <= Reserved[pg.bin]
      BY PageFields DEF PageOk
<1>2. Len(pg.free) < pg.cap /\ Len(pg.free) \in Nat
  <2> DEFINE f == pg.free
             c == pg.cap
  <2>1. /\ f \in Seq(Nat) /\ c \in Nat /\ Distinct(f) /\ Elements(f) \subseteq 0 .. (c - 1)
        /\ i \in 0 .. (c - 1) /\ i \notin Elements(f)
        BY <1>1
  <2> HIDE DEF f, c
  <2>2. \A k \in 0 .. (c - 1) : k \notin Elements(f) => Len(f) < c
        BY <2>1, ListBelow
  <2>3. Len(f) \in Nat
        BY <2>1
  <2> QED BY <2>1, <2>2, <2>3 DEF f, c
<1>3. i \in Nat
      BY <1>1
<1>4. s \in Seq(Nat) /\ s # <<>> /\ Elements(s) = {i} \cup Elements(pg.free) /\ Distinct(s)
      BY <1>1, <1>3, PrependFacts
<1>5. Len(s) = Len(pg.free) + 1
      BY <1>1, <1>3
<1>6. /\ ng.free = s /\ ng.used = pg.used - 1
      /\ ng.bin = pg.bin /\ ng.cap = pg.cap /\ ng.full = pg.full /\ ng.expire = pg.expire
      BY DEF Pushed, PageRec
<1>7. ng \in PageRec
  <2> DEFINE u == pg.used - 1
  <2>1. ng = [pg EXCEPT !.free = s, !.used = u]
        BY DEF Pushed
  <2>2. u \in Nat
        BY <1>1, <1>2
  <2> HIDE DEF s, u, ng
  <2> QED BY <1>4, <2>1, <2>2 DEF PageRec
<1> HIDE DEF ng, s
<1>8. PageOk(ng)
  <2>1. ng.used + Len(ng.free) = ng.cap
        BY <1>1, <1>2, <1>5, <1>6
  <2>2. Elements(ng.free) \subseteq 0 .. (ng.cap - 1)
        BY <1>1, <1>4, <1>6
  <2> QED BY <1>1, <1>4, <1>6, <2>1, <2>2 DEF PageOk
<1> QED BY <1>1, <1>2, <1>4, <1>6, <1>7, <1>8 DEF ng, HasFree

\* The blocks that extend adds, in front of the list.
LEMMA Batch ==
    ASSUME NEW c \in Nat, NEW n \in Nat \ {0}
    PROVE  LET s == [i \in 1 .. n |-> c + i - 1]
           IN  /\ s \in Seq(Nat) /\ Len(s) = n /\ s # <<>> /\ Distinct(s)
               /\ Elements(s) = c .. (c + n - 1)
<1> DEFINE s == [i \in 1 .. n |-> c + i - 1]
<1>1. s \in Seq(Nat) /\ Len(s) = n /\ \A i \in 1 .. n : s[i] = c + i - 1
      OBVIOUS
<1> HIDE DEF s
<1>2. s # <<>> /\ Distinct(s)
      BY <1>1 DEF Distinct
<1>3. \A x : x \in Elements(s) <=> \E i \in 1 .. n : s[i] = x
      BY <1>1, SeqFacts
<1>4. ASSUME NEW x \in c .. (c + n - 1) PROVE x \in Elements(s)
  <2>1. x - c + 1 \in 1 .. n /\ s[x - c + 1] = x
        BY <1>1
  <2> QED BY <1>3, <2>1
<1>5. ASSUME NEW x \in Elements(s) PROVE x \in c .. (c + n - 1)
      BY <1>1, <1>3
<1> QED BY <1>1, <1>2, <1>4, <1>5 DEF s

LEMMA ExtendPage ==
    ASSUME NEW pg \in PageRec, PageOk(pg), Expandable(pg)
    PROVE  LET ng == Extended(pg)
           IN  /\ ng \in PageRec /\ PageOk(ng) /\ HasFree(ng)
               /\ ng.bin = pg.bin /\ ng.full = pg.full
               /\ ng.expire = pg.expire /\ ng.used = pg.used
               /\ pg.cap <= ng.cap
               /\ Elements(ng.free) = (pg.cap .. (ng.cap - 1)) \cup Elements(pg.free)
<1> DEFINE ng == Extended(pg)
           c  == pg.cap
           n  == Least(Reserved[pg.bin] - c, Greatest(ExtendWords \div BlockSize[pg.bin], 1))
           b  == [i \in 1 .. n |-> c + i - 1]
           s  == b \o pg.free
<1>1. /\ pg.free \in Seq(Nat) /\ pg.used \in Nat /\ c \in Nat /\ pg.bin \in Bins
      /\ Distinct(pg.free) /\ Elements(pg.free) \subseteq 0 .. (c - 1)
      /\ pg.used + Len(pg.free) = c /\ c < Reserved[pg.bin]
      BY PageFields DEF PageOk, Expandable
<1>2. n \in Nat \ {0} /\ c + n <= Reserved[pg.bin]
  <2>1. Reserved[pg.bin] \in Nat /\ BlockSize[pg.bin] \in Nat \ {0} /\ ExtendWords \in Nat
        BY <1>1, BlocksFit, BinFacts, ConstantFacts
  <2>2. ExtendWords \div BlockSize[pg.bin] \in Nat
        BY <2>1, DivFacts
  <2> DEFINE left == Reserved[pg.bin] - c
             step == Greatest(ExtendWords \div BlockSize[pg.bin], 1)
  <2>3. left \in Nat \ {0} /\ c + left = Reserved[pg.bin]
    <3> DEFINE r == Reserved[pg.bin]
    <3>1. r \in Nat /\ c \in Nat /\ c < r
          BY <1>1, <2>1
    <3> HIDE DEF r, c
    <3>2. r - c \in Nat \ {0} /\ c + (r - c) = r
          BY <3>1
    <3> QED BY <3>2 DEF r
  <2>4. step \in Nat \ {0}
        BY <2>2 DEF Greatest
  <2> HIDE DEF left, step
  <2>5. n \in Nat \ {0} /\ n <= left
        BY <2>3, <2>4 DEF Least, left, step
  <2> HIDE DEF n
  <2> QED BY <1>1, <2>1, <2>3, <2>5
<1>3. ng = [pg EXCEPT !.free = s, !.cap = c + n]
      BY DEF Extended
<1> HIDE DEF n
<1>4. b \in Seq(Nat) /\ Len(b) = n /\ b # <<>> /\ Distinct(b) /\ Elements(b) = c .. (c + n - 1)
      BY <1>1, <1>2, Batch
<1> HIDE DEF b
<1>5. /\ s \in Seq(Nat) /\ s # <<>> /\ Elements(s) = Elements(b) \cup Elements(pg.free)
      /\ Distinct(s)
  <2>1. Elements(b) \cap Elements(pg.free) = {}
        BY <1>1, <1>2, <1>4
  <2> QED BY <1>1, <1>4, <2>1, ConcatFacts
<1>6. Len(s) = n + Len(pg.free) /\ Len(pg.free) \in Nat
      BY <1>1, <1>4
<1> HIDE DEF s, ng
<1> DEFINE used == pg.used
           lf   == Len(pg.free)
           rv   == Reserved[pg.bin]
<1>7. /\ ng.free = s /\ ng.used = pg.used /\ ng.cap = c + n
      /\ ng.bin = pg.bin /\ ng.full = pg.full /\ ng.expire = pg.expire
      BY <1>3 DEF PageRec
<1>8. ng \in PageRec
  <2>1. c + n \in Nat
        BY <1>1, <1>2
  <2> HIDE DEF c
  <2> QED BY <1>3, <1>5, <2>1 DEF PageRec
<1>9. PageOk(ng)
  <2>1. Elements(s) \subseteq 0 .. (c + n - 1)
    <3>1. /\ c \in Nat /\ Elements(pg.free) \subseteq 0 .. (c - 1)
          /\ Elements(s) = (c .. (c + n - 1)) \cup Elements(pg.free)
          BY <1>1, <1>4, <1>5
    <3> HIDE DEF c
    <3> QED BY <1>2, <3>1
  <2>2. ng.used + Len(ng.free) = ng.cap
    <3>1. /\ used \in Nat /\ lf \in Nat /\ c \in Nat /\ n \in Nat /\ used + lf = c
          /\ Len(s) = n + lf
          BY <1>1, <1>2, <1>6
    <3>2. ng.used = used /\ ng.free = s /\ ng.cap = c + n
          BY <1>7
    <3> HIDE DEF used, lf, c
    <3>3. used + Len(s) = c + n
          BY <3>1
    <3> QED BY <3>2, <3>3
  <2>3. ng.cap <= Reserved[ng.bin]
    <3>1. ng.cap = c + n /\ Reserved[ng.bin] = Reserved[pg.bin]
          BY <1>7
    <3> HIDE DEF c
    <3> QED BY <1>2, <3>1
  <2>4. ng.cap - 1 = c + n - 1
    <3>1. ng.cap = c + n /\ c \in Nat
          BY <1>1, <1>7
    <3> HIDE DEF c
    <3> QED BY <1>2, <3>1
  <2>5. Distinct(ng.free) /\ Elements(ng.free) \subseteq 0 .. (ng.cap - 1)
        BY <1>5, <1>7, <2>1, <2>4
  <2> QED BY <2>2, <2>3, <2>5 DEF PageOk
<1>10. c <= c + n
       BY <1>1, <1>2
<1>11. Elements(ng.free) = (c .. (ng.cap - 1)) \cup Elements(pg.free) /\ c <= ng.cap
  <2>1. ng.cap - 1 = c + n - 1
    <3>1. ng.cap = c + n /\ c \in Nat
          BY <1>1, <1>7
    <3> HIDE DEF c
    <3> QED BY <1>2, <3>1
  <2> QED BY <1>4, <1>5, <1>7, <1>10, <2>1
<1>12. HasFree(ng)
       BY <1>5, <1>7 DEF HasFree
<1> QED BY <1>7, <1>8, <1>9, <1>11, <1>12 DEF ng

LEMMA FreshPageOk ==
    ASSUME NEW b \in Bins
    PROVE  /\ NewPage(b) \in PageRec /\ PageOk(NewPage(b)) /\ Expandable(NewPage(b))
           /\ NewPage(b).bin = b /\ ~NewPage(b).full /\ NewPage(b).expire = 0
           /\ NewPage(b).used = 0 /\ NewPage(b).cap = 0 /\ NewPage(b).free = <<>>
<1>1. Reserved[b] \in Nat \ {0}
      BY BlocksFit
<1>2. <<>> \in Seq(Nat) /\ Elements(<<>>) = {} /\ Distinct(<<>>) /\ Len(<<>>) = 0
      BY DEF Elements, Distinct
<1> QED BY <1>1, <1>2 DEF NewPage, PageRec, PageOk, Expandable

-----------------------------------------------------------------------------
(* Operations that move pages between queues, count down, and release pages *)
(* without a live block.                                                   *)

SameBlocks(a, b) == a.bin = b.bin /\ a.free = b.free /\ a.used = b.used /\ a.cap = b.cap

Gone(hh, gg) == DOMAIN hh.pages \ DOMAIN gg.pages

\* gg is hh tidied up: the pages that stay have their blocks, those that are
\* gone had none in use, and their slices are free.
Tidied(hh, gg) ==
    /\ hh \in Heaps /\ gg \in Heaps
    /\ DOMAIN gg.pages \subseteq DOMAIN hh.pages
    /\ \A p \in DOMAIN gg.pages : SameBlocks(gg.pages[p], hh.pages[p])
    /\ \A p \in Gone(hh, gg) : AllFree(hh.pages[p])
    /\ gg.end = hh.end /\ gg.foreign = hh.foreign /\ gg.inited = hh.inited
    /\ gg.sl = Release(hh.sl, UNION {PageSpan(hh.pages[p], p) : p \in Gone(hh, gg)})

LEMMA TableOf ==
    ASSUME NEW hh \in Heaps, NEW p \in DOMAIN hh.pages
    PROVE  hh.pages[p] \in PageRec /\ p \in Nat
BY HeapFields, PageTableFacts

LEMMA ReleaseNone == ASSUME NEW m \in Maps PROVE Release(m, {}) = m
BY DEF Maps, Release

\* Nothing is released when every page stays.
LEMMA TidiedInPlace ==
    ASSUME NEW hh \in Heaps, NEW gg \in Heaps,
           DOMAIN gg.pages = DOMAIN hh.pages,
           \A p \in DOMAIN gg.pages : SameBlocks(gg.pages[p], hh.pages[p]),
           gg.sl = hh.sl, gg.end = hh.end, gg.foreign = hh.foreign, gg.inited = hh.inited
    PROVE  Tidied(hh, gg)
<1>1. Gone(hh, gg) = {}
      BY DEF Gone
<1>2. UNION {PageSpan(hh.pages[p], p) : p \in Gone(hh, gg)} = {}
      BY <1>1
<1>3. gg.sl = Release(hh.sl, {})
      BY HeapFields, ReleaseNone
<1> QED BY <1>1, <1>2, <1>3 DEF Tidied

LEMMA TidiedBlocks ==
    ASSUME NEW hh, NEW gg, Tidied(hh, gg), NEW L, BlocksOk(hh, L)
    PROVE  BlocksOk(gg, L)
<1>1. \A p \in DOMAIN gg.pages : p \in DOMAIN hh.pages /\ SameBlocks(gg.pages[p], hh.pages[p])
      BY DEF Tidied
<1>2. \A p \in DOMAIN gg.pages : PageOk(gg.pages[p])
      BY <1>1 DEF BlocksOk, PageOk, SameBlocks
<1>3. ASSUME NEW p \in DOMAIN hh.pages, NEW i, InUse(hh, p, i)
      PROVE  p \in DOMAIN gg.pages
  <2>1. hh.pages[p] \in PageRec /\ PageOk(hh.pages[p])
        BY TableOf DEF Tidied, BlocksOk
  <2>2. ~AllFree(hh.pages[p])
        BY <1>3, <2>1, AllFreeIs DEF InUse
  <2> QED BY <2>2 DEF Tidied, Gone
<1>4. ASSUME NEW x \in Small(L)
      PROVE  \E p \in DOMAIN gg.pages : \E i \in Nat : Holds(gg, p, i, x)
  <2>1. PICK p \in DOMAIN hh.pages : \E i \in Nat : Holds(hh, p, i, x)
        BY DEF BlocksOk
  <2>2. PICK i \in Nat : Holds(hh, p, i, x)
        BY <2>1
  <2>3. p \in DOMAIN gg.pages
        BY <1>3, <2>2 DEF Holds
  <2>4. Holds(gg, p, i, x)
        BY <1>1, <2>2, <2>3 DEF Holds, InUse, SameBlocks
  <2> QED BY <2>3, <2>4
<1>5. ASSUME NEW p \in DOMAIN gg.pages, NEW i \in Nat, InUse(gg, p, i)
      PROVE  \E x \in Small(L) : x.addr = BlockAddr(p, gg.pages[p].bin, i)
  <2>1. InUse(hh, p, i)
        BY <1>1, <1>5 DEF InUse, SameBlocks
  <2>2. \E x \in Small(L) : x.addr = BlockAddr(p, hh.pages[p].bin, i)
        BY <1>1, <2>1 DEF BlocksOk
  <2> QED BY <1>1, <2>2 DEF SameBlocks
<1> QED BY <1>2, <1>4, <1>5 DEF BlocksOk

LEMMA TidiedSlices ==
    ASSUME NEW hh, NEW gg, Tidied(hh, gg), NEW R, NEW E, SlicesOk(hh, R, E)
    PROVE  SlicesOk(gg, R, E)
<1> DEFINE given == UNION {PageSpan(hh.pages[p], p) : p \in Gone(hh, gg)}
           own   == PageOwn(hh)
           rest  == PageOwn(gg)
           runs  == RunOwn(R)
<1>1. \A p \in DOMAIN gg.pages :
          /\ p \in DOMAIN hh.pages /\ gg.pages[p].bin = hh.pages[p].bin
          /\ PageSpan(gg.pages[p], p) = PageSpan(hh.pages[p], p)
      BY DEF Tidied, SameBlocks, PageSpan
<1>2. /\ \A x : x \in own <=> \E p \in DOMAIN hh.pages : x \in PageSpan(hh.pages[p], p)
      /\ \A x : x \in rest <=> \E p \in DOMAIN gg.pages : x \in PageSpan(hh.pages[p], p)
      /\ \A x : x \in given <=> \E p \in Gone(hh, gg) : x \in PageSpan(hh.pages[p], p)
      BY <1>1 DEF PageOwn
<1>3. given \subseteq own /\ rest = own \ given
  <2>1. \A x : x \in given => x \in own
        BY <1>2 DEF Gone
  <2>2. \A x : x \in own => x \in given \/ x \in rest
        BY <1>2 DEF Gone
  <2>3. \A x : x \in rest => x \in own
        BY <1>1, <1>2
  <2>4. ASSUME NEW x, x \in rest, x \in given PROVE FALSE
    <3>1. PICK p \in DOMAIN gg.pages : x \in PageSpan(hh.pages[p], p)
          BY <1>2, <2>4
    <3>2. PICK q \in Gone(hh, gg) : x \in PageSpan(hh.pages[q], q)
          BY <1>2, <2>4
    <3>3. p # q /\ p \in DOMAIN hh.pages /\ q \in DOMAIN hh.pages
          BY <1>1, <3>1, <3>2 DEF Gone
    <3> QED BY <3>1, <3>2, <3>3 DEF SlicesOk
  <2> QED BY <2>1, <2>2, <2>3, <2>4
<1>4. gg.sl = Release(hh.sl, given) /\ gg.end = hh.end /\ gg.foreign = hh.foreign
      BY DEF Tidied
<1>5. /\ own \cap runs = {} /\ E \cap own = {} /\ E \cap runs = {}
      /\ MapOk(hh, own \cup runs \cup E)
      BY DEF SlicesOk
<1> HIDE DEF given, own, rest, runs
<1>6. PICK wr \in SUBSET Nat : MapInv(hh.sl, hh.end, own \cup runs \cup E, hh.foreign, wr)
      BY <1>5 DEF MapOk
<1>7. MapInv(gg.sl, gg.end, (own \cup runs \cup E) \ given, gg.foreign, wr)
  <2>1. given \subseteq own \cup runs \cup E
        BY <1>3
  <2> QED BY <1>4, <1>6, <2>1, ReleaseKeeps
<1>8. (own \cup runs \cup E) \ given = rest \cup runs \cup E
      BY <1>3, <1>5
<1>9. MapOk(gg, rest \cup runs \cup E)
      BY <1>4, <1>5, <1>7, <1>8 DEF MapOk
<1>10. rest \cap runs = {} /\ E \cap rest = {}
      BY <1>3, <1>5
<1>11. /\ \A p, q \in DOMAIN gg.pages : p # q =>
             PageSpan(gg.pages[p], p) \cap PageSpan(gg.pages[q], q) = {}
       /\ \A p \in DOMAIN gg.pages : p % PageSlices[gg.pages[p].bin] = 0
      BY <1>1 DEF SlicesOk
<1>12. \A x, y \in R : x # y => RunSpan(x) \cap RunSpan(y) = {}
      BY DEF SlicesOk
<1> QED BY <1>5, <1>9, <1>10, <1>11, <1>12 DEF SlicesOk, rest, runs

LEMMA TidiedSound ==
    ASSUME NEW hh, NEW gg, NEW L, NEW X, NEW Y, NEW E,
           Sound(hh, L, X, E), Tidied(hh, gg),
           QueuesOk(gg, {}), Settled(gg, Y), Bounded(gg)
    PROVE  Sound(gg, L, Y, E)
<1>1. gg \in Heaps /\ gg.inited /\ Typed(L)
      BY DEF Tidied, Sound
<1>2. BlocksOk(gg, L)
      BY TidiedBlocks DEF Sound
<1>3. SlicesOk(gg, Runs(L), E)
      BY TidiedSlices DEF Sound
<1> QED BY <1>1, <1>2, <1>3 DEF Sound

\* No page more counts down.
LEMMA BoundedShrinks ==
    ASSUME NEW hh, NEW gg, Bounded(hh),
           \A b \in Bins : Counting(gg, b) \subseteq Counting(hh, b)
    PROVE  Bounded(gg)
<1>1. SUFFICES ASSUME NEW b \in Bins
               PROVE  /\ IsFiniteSet(Counting(gg, b))
                      /\ Cardinality(Counting(gg, b)) <= RetireBound(b)
      BY DEF Bounded
<1> DEFINE S == Counting(hh, b)
           T == Counting(gg, b)
<1>2. IsFiniteSet(S) /\ Cardinality(S) <= RetireBound(b) /\ T \in SUBSET S
      BY DEF Bounded
<1>3. IsFiniteSet(T) /\ Cardinality(T) <= Cardinality(S)
      BY <1>2, FS_Subset
<1>4. Cardinality(S) \in Nat /\ Cardinality(T) \in Nat
      BY <1>2, <1>3, FS_CardinalityType
<1>5. RetireBound(b) \in Nat
      BY ConstantFacts DEF RetireBound
<1> HIDE DEF S, T
<1>6. Cardinality(T) <= RetireBound(b)
      BY <1>2, <1>3, <1>4, <1>5
<1> QED BY <1>3, <1>6 DEF T

\* A page joins its queue's countdowns: they are all pages of that queue.
LEMMA BoundedByQueue ==
    ASSUME NEW hh \in Heaps, QueuesOk(hh, {}), NEW b \in Bins,
           \A p \in Counting(hh, b) : ~hh.pages[p].full
    PROVE  /\ IsFiniteSet(Counting(hh, b))
           /\ Cardinality(Counting(hh, b)) <= Len(hh.queues[b])
<1> DEFINE S == Elements(hh.queues[b])
           T == Counting(hh, b)
<1>1. b \in Queues /\ hh.queues[b] \in Seq(Nat) /\ Distinct(hh.queues[b])
  <2>1. b \in Queues
        BY BinFacts
  <2>2. hh.queues[b] \in Seq(Nat)
        BY <2>1, HeapFields
  <2>3. Distinct(hh.queues[b])
        BY <2>1 DEF QueuesOk
  <2> QED BY <2>1, <2>2, <2>3
<1>2. IsFiniteSet(S) /\ Cardinality(S) = Len(hh.queues[b])
      BY <1>1, LenIsCard
<1>3. T \in SUBSET S
      BY DEF QueuesOk, QueueOf, Counting
<1> QED BY <1>2, <1>3, FS_Subset

-----------------------------------------------------------------------------
(* collect_retired and release_empty_pages.                                *)

NoneEmpty(hh) == \A p \in DOMAIN hh.pages : ~AllFree(hh.pages[p])

\* Replacing the page table and the retired range.
Ranged(hh, t, lo, hi) == [hh EXCEPT !.pages = t, !.retiredMin = lo, !.retiredMax = hi]

LEMMA RangedFields ==
    ASSUME NEW hh \in Heaps, NEW t \in PageTables, NEW lo \in Nat, NEW hi \in Nat
    PROVE  LET gg == Ranged(hh, t, lo, hi)
           IN  /\ gg \in Heaps /\ gg.pages = t /\ gg.sl = hh.sl /\ gg.end = hh.end
               /\ gg.foreign = hh.foreign /\ gg.inited = hh.inited /\ gg.count = hh.count
               /\ gg.queues = hh.queues /\ gg.occupied = hh.occupied
               /\ gg.direct = hh.direct
BY DEF Heaps, Ranged

\* Ageing and releasing: h1 differs from hh in the countdowns only.
LEMMA FreeingTidies ==
    ASSUME NEW hh \in Heaps, QueuesOk(hh, {}), NEW h1 \in Heaps,
           DOMAIN h1.pages = DOMAIN hh.pages,
           \A p \in DOMAIN hh.pages : /\ SameBlocks(h1.pages[p], hh.pages[p])
                                      /\ h1.pages[p].full = hh.pages[p].full,
           h1.sl = hh.sl, h1.end = hh.end, h1.foreign = hh.foreign, h1.inited = hh.inited,
           h1.queues = hh.queues, h1.occupied = hh.occupied, h1.direct = hh.direct,
           NEW S,
           \A q \in Queues : /\ S[q] \subseteq Elements(hh.queues[q])
                             /\ \A p \in S[q] : AllFree(hh.pages[p])
    PROVE  LET gg == FreePages(h1, S)
           IN  /\ Tidied(hh, gg) /\ QueuesOk(gg, {}) /\ gg.count = h1.count
               /\ DOMAIN gg.pages = DOMAIN hh.pages \ UNION {S[q] : q \in Queues}
               /\ \A p \in DOMAIN gg.pages : gg.pages[p] = h1.pages[p]
<1> DEFINE gg   == FreePages(h1, S)
           gone == UNION {S[q] : q \in Queues}
<1>1. \A p \in DOMAIN hh.pages : /\ h1.pages[p].bin = hh.pages[p].bin
                                 /\ h1.pages[p].full = hh.pages[p].full
                                 /\ PageSpan(h1.pages[p], p) = PageSpan(hh.pages[p], p)
      BY DEF SameBlocks, PageSpan
<1>2. QueuesOk(h1, {})
      BY <1>1, SameQueues
<1>3. /\ gg \in Heaps
      /\ gg.end = h1.end /\ gg.foreign = h1.foreign /\ gg.inited = h1.inited
      /\ gg.count = h1.count
      /\ gone \subseteq DOMAIN h1.pages
      /\ gg.sl = Release(h1.sl, UNION {PageSpan(h1.pages[p], p) : p \in gone})
      /\ DOMAIN gg.pages = DOMAIN h1.pages \ gone
      /\ \A p \in DOMAIN gg.pages : gg.pages[p] = h1.pages[p]
      /\ QueuesOk(gg, {})
      BY <1>2, FreePagesKeeps
<1>4. \A p \in gone : AllFree(hh.pages[p])
      OBVIOUS
<1> HIDE DEF gg, gone
<1>5. Gone(hh, gg) = gone
      BY <1>3 DEF Gone
<1>6. UNION {PageSpan(h1.pages[p], p) : p \in gone}
        = UNION {PageSpan(hh.pages[p], p) : p \in gone}
      BY <1>1, <1>3
<1>7. Tidied(hh, gg)
      BY <1>3, <1>4, <1>5, <1>6 DEF Tidied
<1> QED BY <1>3, <1>7 DEF gg, gone

\* Greatest and least elements.
LEMMA GreatestExists ==
    ASSUME NEW n \in Nat, NEW S, S \subseteq 0 .. n, S # {}
    PROVE  \E x \in S : \A y \in S : y <= x
<1> DEFINE D == {n - a : a \in S}
<1>1. D \in SUBSET Nat /\ D # {}
  <2>1. \A a \in S : n - a \in Nat
        OBVIOUS
  <2> QED BY <2>1
<1>2. PICK d \in D : \A e \in D : d <= e
      BY <1>1, LeastExists DEF Lowest
<1>3. PICK a \in S : d = n - a
      BY <1>2
<1>4. ASSUME NEW c \in S PROVE c <= a
  <2>1. n - c \in D
        BY <1>4
  <2>2. n - a <= n - c
        BY <1>2, <1>3, <2>1
  <2> QED BY <2>2
<1> QED BY <1>4

LEMMA PrefixIn ==
    ASSUME NEW s \in Seq(Nat), NEW n \in Nat, n <= Len(s)
    PROVE  Elements(SubSeq(s, 1, n)) \subseteq Elements(s)
<1> DEFINE t == SubSeq(s, 1, n)
<1>1. /\ t \in Seq(Nat) /\ Len(t) = n
      /\ \A i \in 1 .. n : t[i] = s[i] /\ i \in 1 .. Len(s)
      OBVIOUS
<1> HIDE DEF t
<1>2. ASSUME NEW x \in Elements(t) PROVE x \in Elements(s)
  <2>1. PICK i \in 1 .. Len(t) : t[i] = x
        BY <1>1, SeqFacts
  <2>2. i \in 1 .. Len(s) /\ s[i] = x
        BY <1>1, <2>1
  <2>3. \E j \in 1 .. Len(s) : s[j] = x
        BY <2>2
  <2> QED BY <2>3, SeqFacts
<1> QED BY <1>2 DEF t

LEMMA CollectTidies ==
    ASSUME NEW hh \in Heaps, QueuesOk(hh, {}), Settled(hh, {}), Bounded(hh)
    PROVE  LET gg == CollectRetired(hh)
           IN  /\ Tidied(hh, gg) /\ QueuesOk(gg, {}) /\ gg.count = hh.count
               /\ Settled(gg, {}) /\ Bounded(gg)
<1> DEFINE window(q) == IF q \in hh.retiredMin .. hh.retiredMax
                     THEN Elements(SubSeq(hh.queues[q], 1,
                                    Least(RetireMaxPages, Len(hh.queues[q]))))
                     ELSE {}
           aged == {p \in UNION {window(q) : q \in Bins} : hh.pages[p].expire # 0}
           gone(q) == {p \in aged \cap window(q) : /\ AllFree(hh.pages[p])
                                                  /\ hh.pages[p].expire = 1}
           left == {q \in Bins : \E p \in aged \cap window(q) :
                          AllFree(hh.pages[p]) /\ hh.pages[p].expire > 1}
           t  == [p \in DOMAIN hh.pages |->
                    IF p \notin aged THEN hh.pages[p]
                    ELSE [hh.pages[p] EXCEPT !.expire =
                             IF AllFree(hh.pages[p])
                             THEN hh.pages[p].expire - 1 ELSE 0]]
           lo == CHOOSE x \in left \cup {NoRange.min} :
                                    \A y \in left \cup {NoRange.min} : x <= y
           hi == CHOOSE x \in left \cup {NoRange.max} :
                                    \A y \in left \cup {NoRange.max} : x >= y
           h1 == Ranged(hh, t, lo, hi)
           S  == [q \in Queues |-> gone(q)]
           gg == CollectRetired(hh)
<1>1. gg = FreePages(h1, S)
      BY DEF CollectRetired, Ranged
<1>2. /\ hh.queues \in [Queues -> Seq(Nat)] /\ Bins \subseteq Queues
      /\ \A p \in DOMAIN hh.pages : hh.pages[p] \in PageRec /\ p \in Nat
      BY HeapFields, BinFacts, TableOf
<1>3. \A q \in Queues : window(q) \subseteq Elements(hh.queues[q])
  <2>1. SUFFICES ASSUME NEW q \in Queues
                 PROVE  Elements(SubSeq(hh.queues[q], 1,
                              Least(RetireMaxPages, Len(hh.queues[q]))))
                            \subseteq Elements(hh.queues[q])
        OBVIOUS
  <2>2. hh.queues[q] \in Seq(Nat) /\ Len(hh.queues[q]) \in Nat
        BY <1>2
  <2>3. Least(RetireMaxPages, Len(hh.queues[q])) \in Nat
        /\ Least(RetireMaxPages, Len(hh.queues[q])) <= Len(hh.queues[q])
        BY <2>2, ConstantFacts DEF Least
  <2> QED BY <2>2, <2>3, PrefixIn
<1> HIDE DEF window
<1>4. aged \subseteq DOMAIN hh.pages
      BY <1>2, <1>3 DEF QueuesOk
<1>5. \A p \in aged : hh.pages[p].expire \in Nat \ {0}
      BY <1>2, <1>4, PageFields
<1>6. left \subseteq Bins
      OBVIOUS
<1>7. \A q \in Queues : gone(q) \subseteq Elements(hh.queues[q])
                        /\ \A p \in gone(q) : AllFree(hh.pages[p])
      BY <1>3
<1>8. ASSUME NEW p \in aged, AllFree(hh.pages[p]), hh.pages[p].expire = 1
      PROVE  p \in UNION {S[q] : q \in Queues}
  <2>1. PICK q \in Bins : p \in window(q)
        BY <1>8
  <2>2. p \in gone(q) /\ q \in Queues
        BY <1>2, <1>8, <2>1
  <2>3. S[q] = gone(q)
        BY <2>2
  <2> QED BY <2>2, <2>3
<1>9. \A q \in Queues : S[q] = gone(q)
      OBVIOUS
<1>10. lo \in Nat /\ hi \in Nat
  <2> DEFINE A == left \cup {NoRange.min}
             B == left \cup {NoRange.max}
  <2>1. /\ Bins = 1 .. Len(BlockSize) /\ Len(BlockSize) \in Nat
        /\ NoRange.min = Len(BlockSize) + 1 /\ NoRange.max = 0
        BY BinFacts DEF NoRange
  <2> HIDE DEF left
  <2>2. A \in SUBSET Nat /\ A # {}
    <3>1. Bins \subseteq Nat /\ Len(BlockSize) + 1 \in Nat
          BY <2>1, BinFacts
    <3> QED BY <1>6, <2>1, <3>1
  <2>3. B \subseteq 0 .. Len(BlockSize) /\ B # {}
        BY <1>6, <2>1
  <2>4. \E x \in A : \A y \in A : x <= y
        BY <2>2, LeastExists DEF Lowest
  <2>5. \E x \in B : \A y \in B : y <= x
        BY <2>1, <2>3, GreatestExists
  <2>6. \A x, y \in B : y <= x <=> x >= y
        BY <2>1, <2>3
  <2>7. lo \in A /\ hi \in B
        BY <2>4, <2>5, <2>6
  <2> HIDE DEF lo, hi, A, B
  <2> QED BY <2>1, <2>2, <2>3, <2>7
<1>11. /\ DOMAIN t = DOMAIN hh.pages
       /\ \A p \in DOMAIN hh.pages :
            /\ t[p] \in PageRec /\ SameBlocks(t[p], hh.pages[p])
            /\ t[p].full = hh.pages[p].full
            /\ p \notin aged => t[p] = hh.pages[p]
            /\ p \in aged => t[p].expire = IF AllFree(hh.pages[p])
                                           THEN hh.pages[p].expire - 1 ELSE 0
  <2>1. DOMAIN t = DOMAIN hh.pages
        OBVIOUS
  <2>2. ASSUME NEW p \in DOMAIN hh.pages
        PROVE  /\ t[p] \in PageRec /\ SameBlocks(t[p], hh.pages[p])
               /\ t[p].full = hh.pages[p].full
               /\ p \notin aged => t[p] = hh.pages[p]
               /\ p \in aged => t[p].expire = IF AllFree(hh.pages[p])
                                              THEN hh.pages[p].expire - 1 ELSE 0
    <3>1. CASE p \notin aged
          BY <1>2, <3>1 DEF SameBlocks
    <3>2. CASE p \in aged
      <4> DEFINE e == IF AllFree(hh.pages[p]) THEN hh.pages[p].expire - 1 ELSE 0
      <4>1. t[p] = [hh.pages[p] EXCEPT !.expire = e]
            BY <3>2
      <4>2. e \in Nat
            BY <1>5, <3>2
      <4>3. hh.pages[p] \in PageRec
            BY <1>2
      <4> HIDE DEF t, e, aged
      <4>4. /\ t[p] \in PageRec /\ SameBlocks(t[p], hh.pages[p])
            /\ t[p].full = hh.pages[p].full /\ t[p].expire = e
            BY <4>1, <4>2, <4>3 DEF PageRec, SameBlocks
      <4> QED BY <3>2, <4>4 DEF e
    <3> QED BY <3>1, <3>2
  <2> QED BY <2>1, <2>2
<1>12. t \in PageTables
  <2> DEFINE P == DOMAIN hh.pages
  <2>1. P \in SUBSET Nat
        BY <1>2
  <2>2. t = [p \in P |-> t[p]]
        OBVIOUS
  <2> HIDE DEF t
  <2>3. t \in [P -> PageRec]
        BY <1>11, <2>2
  <2> QED BY <2>1, <2>3 DEF PageTables
<1> HIDE DEF aged, left, t, lo, hi, S, gg
<1>13. /\ h1 \in Heaps /\ h1.pages = t /\ h1.sl = hh.sl /\ h1.end = hh.end
       /\ h1.foreign = hh.foreign /\ h1.inited = hh.inited /\ h1.count = hh.count
       /\ h1.queues = hh.queues /\ h1.occupied = hh.occupied
       /\ h1.direct = hh.direct
      BY <1>10, <1>12, RangedFields
<1> HIDE DEF h1, gone
<1>14. \A q \in Queues : /\ S[q] \subseteq Elements(hh.queues[q])
                         /\ \A p \in S[q] : AllFree(hh.pages[p])
      BY <1>7, <1>9
<1>15. /\ Tidied(hh, gg) /\ QueuesOk(gg, {}) /\ gg.count = h1.count
       /\ DOMAIN gg.pages = DOMAIN hh.pages \ UNION {S[q] : q \in Queues}
       /\ \A p \in DOMAIN gg.pages : gg.pages[p] = h1.pages[p]
      BY <1>1, <1>11, <1>13, <1>14, FreeingTidies
<1>16. \A p \in DOMAIN gg.pages : p \in DOMAIN hh.pages /\ gg.pages[p] = t[p]
      BY <1>13, <1>15
<1>17. Settled(gg, {})
  <2>1. ASSUME NEW p \in DOMAIN gg.pages, gg.pages[p].full
        PROVE  ~HasRoom(gg.pages[p]) /\ gg.pages[p].expire = 0
    <3>1. hh.pages[p].full /\ SameBlocks(gg.pages[p], hh.pages[p])
          BY <1>11, <1>16, <2>1
    <3>2. ~HasRoom(hh.pages[p]) /\ hh.pages[p].expire = 0
          BY <1>16, <3>1 DEF Settled
    <3>3. p \notin aged
          BY <3>2 DEF aged
    <3> QED BY <1>11, <1>16, <3>2, <3>3
  <2>2. ASSUME NEW p \in DOMAIN gg.pages, AllFree(gg.pages[p])
        PROVE  gg.pages[p].expire # 0 /\ ~gg.pages[p].full
    <3>1. AllFree(hh.pages[p])
          BY <1>11, <1>16, <2>2 DEF SameBlocks, AllFree
    <3>2. hh.pages[p].expire # 0 /\ ~hh.pages[p].full
          BY <1>16, <3>1 DEF Settled
    <3>3. CASE p \in aged
      <4>1. hh.pages[p].expire # 1
            BY <1>8, <1>15, <1>16, <3>1, <3>3 
      <4> QED BY <1>5, <1>11, <1>16, <3>1, <3>2, <3>3, <4>1
    <3>4. CASE p \notin aged
          BY <1>11, <1>16, <3>2, <3>4
    <3> QED BY <3>3, <3>4
  <2> QED BY <2>1, <2>2 DEF Settled
<1>18. Bounded(gg)
  <2>1. ASSUME NEW b \in Bins, NEW p \in Counting(gg, b) PROVE p \in Counting(hh, b)
    <3>1. p \in DOMAIN gg.pages /\ gg.pages[p].bin = b /\ gg.pages[p].expire # 0
          BY <2>1 DEF Counting
    <3>2. p \in DOMAIN hh.pages /\ hh.pages[p].bin = b
          BY <1>11, <1>16, <3>1 DEF SameBlocks
    <3>3. hh.pages[p].expire # 0
          BY <1>5, <1>11, <1>16, <3>1
    <3> QED BY <3>2, <3>3 DEF Counting
  <2> QED BY <2>1, BoundedShrinks
<1> QED BY <1>13, <1>15, <1>17, <1>18 DEF gg

LEMMA ReleaseTidies ==
    ASSUME NEW hh \in Heaps, QueuesOk(hh, {}), Settled(hh, {}), Bounded(hh)
    PROVE  LET gg == ReleaseEmptyPages(hh)
           IN  /\ Tidied(hh, gg) /\ QueuesOk(gg, {}) /\ gg.count = hh.count
               /\ Settled(gg, {}) /\ Bounded(gg) /\ NoneEmpty(gg)
<1> DEFINE walked(q) == IF q \in hh.occupied \ {Full} THEN Elements(hh.queues[q]) ELSE {}
           W  == UNION {walked(q) : q \in Bins}
           t  == [p \in DOMAIN hh.pages |->
                    IF p \in W THEN [hh.pages[p] EXCEPT !.expire = 0] ELSE hh.pages[p]]
           lo == NoRange.min
           hi == NoRange.max
           h1 == Ranged(hh, t, lo, hi)
           S  == [q \in Queues |-> {p \in walked(q) : AllFree(hh.pages[p])}]
           gg == ReleaseEmptyPages(hh)
<1>1. gg = FreePages(h1, S)
      BY DEF ReleaseEmptyPages, Ranged
<1>2. /\ Bins \subseteq Queues /\ Full \notin Bins
      /\ \A p \in DOMAIN hh.pages : hh.pages[p] \in PageRec /\ p \in Nat
      BY BinFacts, TableOf
<1>3. \A q \in Queues : /\ S[q] \subseteq Elements(hh.queues[q])
                        /\ \A p \in S[q] : AllFree(hh.pages[p])
      OBVIOUS
<1>4. ASSUME NEW p \in DOMAIN hh.pages, AllFree(hh.pages[p])
      PROVE  p \in UNION {S[q] : q \in Queues}
  <2> DEFINE q == hh.pages[p].bin
  <2>1. ~hh.pages[p].full /\ q \in Bins /\ q \in Queues
        BY <1>2, <1>4, PageFields DEF Settled
  <2>2. p \in Elements(hh.queues[q])
        BY <2>1 DEF QueuesOk, QueueOf
  <2>3. hh.queues[q] \in Seq(Nat)
        BY <2>1, HeapFields
  <2>4. q \in hh.occupied \ {Full}
        BY <1>2, <2>1, <2>2, <2>3, SeqFacts DEF QueuesOk
  <2>5. p \in walked(q)
        BY <2>2, <2>4
  <2>6. p \in S[q]
        BY <1>4, <2>1, <2>5
  <2> QED BY <2>1, <2>6
<1>5. lo \in Nat /\ hi \in Nat
      BY BinFacts DEF NoRange
<1>6. /\ DOMAIN t = DOMAIN hh.pages
      /\ \A p \in DOMAIN hh.pages :
            /\ t[p] \in PageRec /\ SameBlocks(t[p], hh.pages[p])
            /\ t[p].full = hh.pages[p].full
            /\ t[p].expire = 0 \/ t[p].expire = hh.pages[p].expire
  <2>1. DOMAIN t = DOMAIN hh.pages
        OBVIOUS
  <2>2. ASSUME NEW p \in DOMAIN hh.pages
        PROVE  /\ t[p] \in PageRec /\ SameBlocks(t[p], hh.pages[p])
               /\ t[p].full = hh.pages[p].full
               /\ t[p].expire = 0 \/ t[p].expire = hh.pages[p].expire
    <3>1. t[p] = [hh.pages[p] EXCEPT !.expire = 0] \/ t[p] = hh.pages[p]
          OBVIOUS
    <3>2. hh.pages[p] \in PageRec
          BY <1>2
    <3> HIDE DEF t
    <3> QED BY <3>1, <3>2 DEF PageRec, SameBlocks
  <2> QED BY <2>1, <2>2
<1>7. t \in PageTables
  <2> DEFINE P == DOMAIN hh.pages
  <2>1. P \in SUBSET Nat
        BY <1>2
  <2>2. t = [p \in P |-> t[p]]
        OBVIOUS
  <2> HIDE DEF t
  <2>3. t \in [P -> PageRec]
        BY <1>6, <2>2
  <2> QED BY <2>1, <2>3 DEF PageTables
<1> HIDE DEF W, t, lo, hi, S, gg
<1>8. /\ h1 \in Heaps /\ h1.pages = t /\ h1.sl = hh.sl /\ h1.end = hh.end
      /\ h1.foreign = hh.foreign /\ h1.inited = hh.inited /\ h1.count = hh.count
      /\ h1.queues = hh.queues /\ h1.occupied = hh.occupied
      /\ h1.direct = hh.direct
      BY <1>5, <1>7, RangedFields
<1> HIDE DEF h1
<1>9. /\ Tidied(hh, gg) /\ QueuesOk(gg, {}) /\ gg.count = h1.count
      /\ DOMAIN gg.pages = DOMAIN hh.pages \ UNION {S[q] : q \in Queues}
      /\ \A p \in DOMAIN gg.pages : gg.pages[p] = h1.pages[p]
      BY <1>1, <1>3, <1>6, <1>8, FreeingTidies
<1>10. \A p \in DOMAIN gg.pages : p \in DOMAIN hh.pages /\ gg.pages[p] = t[p]
      BY <1>8, <1>9
<1>11. NoneEmpty(gg)
  <2>1. SUFFICES ASSUME NEW p \in DOMAIN gg.pages, AllFree(gg.pages[p]) PROVE FALSE
        BY DEF NoneEmpty
  <2>2. p \in DOMAIN hh.pages /\ AllFree(hh.pages[p])
        BY <1>6, <1>10, <2>1 DEF SameBlocks, AllFree
  <2> QED BY <1>4, <1>9, <2>1, <2>2
<1>12. Settled(gg, {})
  <2>1. ASSUME NEW p \in DOMAIN gg.pages, gg.pages[p].full
        PROVE  ~HasRoom(gg.pages[p]) /\ gg.pages[p].expire = 0
    <3>1. /\ p \in DOMAIN hh.pages /\ hh.pages[p].full
          /\ SameBlocks(gg.pages[p], hh.pages[p])
          /\ gg.pages[p].expire = 0 \/ gg.pages[p].expire = hh.pages[p].expire
          BY <1>6, <1>10, <2>1
    <3>2. ~HasRoom(hh.pages[p]) /\ hh.pages[p].expire = 0
          BY <3>1 DEF Settled
    <3> QED BY <3>1, <3>2 DEF SameBlocks, HasRoom, HasFree, Expandable
  <2> QED BY <1>11, <2>1 DEF Settled, NoneEmpty
<1>13. Bounded(gg)
  <2>1. ASSUME NEW b \in Bins, NEW p \in Counting(gg, b) PROVE p \in Counting(hh, b)
        BY <1>6, <1>10, <2>1 DEF SameBlocks, Counting
  <2> QED BY <2>1, BoundedShrinks
<1> QED BY <1>8, <1>9, <1>11, <1>12, <1>13 DEF gg

-----------------------------------------------------------------------------
(* What growth has to find exhausted.                                      *)

\* The free slices, counting those of empty pages.
FreeOrEmpty(hh) ==
    hh.sl.free \cup UNION {PageSpan(hh.pages[p], p) :
                              p \in {q \in DOMAIN hh.pages : AllFree(hh.pages[q])}}

\* Tidying up turns empty pages into free slices, and no more.
LEMMA TidiedAvailable ==
    ASSUME NEW hh, NEW gg, Tidied(hh, gg)
    PROVE  /\ FreeOrEmpty(gg) = FreeOrEmpty(hh)
           /\ gg.sl.base = hh.sl.base
<1> DEFINE gone == Gone(hh, gg)
           given == UNION {PageSpan(hh.pages[p], p) : p \in gone}
<1>1. hh.sl \in Maps /\ gg.sl = Release(hh.sl, given)
      BY HeapFields DEF Tidied
<1>2. given \in SUBSET Nat
  <2>1. \A p \in gone : PageSpan(hh.pages[p], p) \subseteq Nat
        BY TableOf, PageSpanFacts DEF Tidied, Gone
  <2> QED BY <2>1
<1> HIDE DEF given
<1>3. gg.sl.free = hh.sl.free \cup given /\ gg.sl.base = hh.sl.base
  <2>1. /\ Release(hh.sl, given).free = hh.sl.free \cup given
        /\ Release(hh.sl, given).base = hh.sl.base
        BY <1>1, <1>2, Fields
  <2> QED BY <1>1, <2>1
<1>4. \A p \in DOMAIN gg.pages :
          /\ p \in DOMAIN hh.pages /\ (AllFree(gg.pages[p]) <=> AllFree(hh.pages[p]))
          /\ PageSpan(gg.pages[p], p) = PageSpan(hh.pages[p], p)
      BY DEF Tidied, SameBlocks, PageSpan, AllFree
<1>5. \A x : x \in given <=> \E p \in gone : x \in PageSpan(hh.pages[p], p)
      BY DEF given
<1>6. \A x : x \in FreeOrEmpty(hh) <=>
          x \in hh.sl.free \/ \E p \in DOMAIN hh.pages :
                                 AllFree(hh.pages[p]) /\ x \in PageSpan(hh.pages[p], p)
      BY DEF FreeOrEmpty
<1>7. \A x : x \in FreeOrEmpty(gg) <=>
          x \in gg.sl.free \/ \E p \in DOMAIN gg.pages :
                                 AllFree(gg.pages[p]) /\ x \in PageSpan(gg.pages[p], p)
      BY DEF FreeOrEmpty
<1>8. \A p \in gone : p \in DOMAIN hh.pages /\ AllFree(hh.pages[p])
      BY DEF Tidied, Gone
<1>9. \A p \in DOMAIN hh.pages : p \in gone \/ p \in DOMAIN gg.pages
      BY DEF Gone
<1> HIDE DEF gone
<1>10. \A x : x \in FreeOrEmpty(gg) => x \in FreeOrEmpty(hh)
      BY <1>3, <1>4, <1>5, <1>6, <1>7, <1>8
<1>11. \A x : x \in FreeOrEmpty(hh) => x \in FreeOrEmpty(gg)
      BY <1>3, <1>4, <1>5, <1>6, <1>7, <1>9
<1>12. FreeOrEmpty(gg) = FreeOrEmpty(hh)
  <2> HIDE DEF FreeOrEmpty
  <2> QED BY <1>10, <1>11
<1> QED BY <1>3, <1>12

LEMMA NoneEmptyAvailable ==
    ASSUME NEW hh, NoneEmpty(hh)
    PROVE  FreeOrEmpty(hh) = hh.sl.free
BY DEF NoneEmpty, FreeOrEmpty

-----------------------------------------------------------------------------
(* acquire_run.                                                            *)

\* What the other parts of the invariant read: the page table and the queues.
LEMMA SameTables ==
    ASSUME NEW hh \in Heaps, NEW gg, gg.pages = hh.pages, gg.queues = hh.queues,
           gg.occupied = hh.occupied, gg.direct = hh.direct
    PROVE  /\ QueuesOk(hh, {}) => QueuesOk(gg, {})
           /\ \A L : BlocksOk(hh, L) => BlocksOk(gg, L)
           /\ \A X : Settled(hh, X) => Settled(gg, X)
           /\ Bounded(hh) => Bounded(gg)
           /\ PageOwn(gg) = PageOwn(hh)
<1>1. QueuesOk(hh, {}) => QueuesOk(gg, {})
      BY SameQueues
<1>2. \A L : BlocksOk(hh, L) => BlocksOk(gg, L)
      BY DEF BlocksOk, Holds, InUse
<1>3. /\ \A X : Settled(hh, X) => Settled(gg, X)
      /\ PageOwn(gg) = PageOwn(hh)
      BY DEF Settled, PageOwn
<1>4. \A b : Counting(gg, b) = Counting(hh, b)
      BY DEF Counting
<1>5. Bounded(hh) => Bounded(gg)
      BY <1>4 DEF Bounded
<1> QED BY <1>1, <1>2, <1>3, <1>5

\* What the program, the pages and the calls hold of the slices.
Held(hh, L, E) == PageOwn(hh) \cup RunOwn(Runs(L)) \cup E

LEMMA LiftFields ==
    ASSUME NEW hh \in Heaps, NEW o, o.m \in Maps, o.end \in Nat, o.foreign \subseteq Nat
    PROVE  LET gg == Lift(hh, o).h
           IN  /\ gg \in Heaps /\ gg.sl = o.m /\ gg.end = o.end
               /\ gg.foreign = hh.foreign \cup o.foreign
               /\ gg.pages = hh.pages /\ gg.queues = hh.queues
               /\ gg.occupied = hh.occupied /\ gg.direct = hh.direct
               /\ gg.inited = hh.inited /\ gg.count = hh.count
               /\ Lift(hh, o).start = o.start
BY DEF Heaps, Lift

\* The outcome o took the slices E on top of what is held.
Took(hh, L, o, E) ==
    /\ \E wr : MapInv(o.m, o.end, Held(hh, L, {}) \cup E, hh.foreign \cup o.foreign, wr)
    /\ E \cap Held(hh, L, {}) = {}

\* An outcome of the slice layer that took the slices E more, or none.
LEMMA LiftSound ==
    ASSUME NEW hh, NEW L, NEW X, Sound(hh, L, X, {}), NEW o, NEW E, Took(hh, L, o, E)
    PROVE  /\ Sound(Lift(hh, o).h, L, X, E)
           /\ Lift(hh, o).h.pages = hh.pages
           /\ Lift(hh, o).start = o.start /\ Lift(hh, o).h.end = o.end
<1> DEFINE gg == Lift(hh, o).h
<1>0. PICK wr :
         MapInv(o.m, o.end, Held(hh, L, {}) \cup E, hh.foreign \cup o.foreign, wr)
      BY DEF Took
<1>1. hh \in Heaps /\ o.m \in Maps /\ o.end \in Nat /\ o.foreign \subseteq Nat
      BY <1>0 DEF Sound, MapInv
<1>2. /\ gg \in Heaps /\ gg.sl = o.m /\ gg.end = o.end
      /\ gg.foreign = hh.foreign \cup o.foreign
      /\ gg.pages = hh.pages /\ gg.queues = hh.queues
      /\ gg.occupied = hh.occupied /\ gg.direct = hh.direct
      /\ gg.inited = hh.inited /\ gg.count = hh.count
      /\ Lift(hh, o).start = o.start
      BY <1>1, LiftFields
<1> HIDE DEF gg
<1>3. /\ QueuesOk(gg, {}) /\ BlocksOk(gg, L) /\ Settled(gg, X) /\ Bounded(gg)
      /\ PageOwn(gg) = PageOwn(hh)
      BY <1>1, <1>2, SameTables DEF Sound
<1>4. SlicesOk(gg, Runs(L), E)
  <2> DEFINE own == PageOwn(hh)
             runs == RunOwn(Runs(L))
  <2>1. /\ own \cap runs = {}
        /\ \A p, q \in DOMAIN hh.pages : p # q =>
             PageSpan(hh.pages[p], p) \cap PageSpan(hh.pages[q], q) = {}
        /\ \A p \in DOMAIN hh.pages : p % PageSlices[hh.pages[p].bin] = 0
        /\ \A x, y \in Runs(L) : x # y => RunSpan(x) \cap RunSpan(y) = {}
        BY DEF Sound, SlicesOk
  <2> HIDE DEF own, runs
  <2>2. Held(hh, L, {}) = own \cup runs
        BY DEF Held, own, runs
  <2>3. E \cap own = {} /\ E \cap runs = {}
        BY <2>2 DEF Took
  <2>4. MapOk(gg, own \cup runs \cup E)
    <3>1. wr \in SUBSET Nat
          BY <1>0 DEF MapInv
    <3>2. Below \subseteq gg.foreign
          BY <1>2 DEF Sound, SlicesOk, MapOk
    <3> QED BY <1>0, <1>2, <2>2, <3>1, <3>2 DEF MapOk
  <2>5. own = PageOwn(gg)
        BY <1>3 DEF own
  <2> QED BY <1>2, <2>1, <2>3, <2>4, <2>5 DEF SlicesOk, runs
<1>5. Sound(gg, L, X, E)
      BY <1>2, <1>3, <1>4 DEF Sound
<1> QED BY <1>2, <1>5 DEF gg

\* A run that was served, and a request that was refused.
LEMMA ServedSound ==
    ASSUME NEW hh, NEW L, NEW X, Sound(hh, L, X, {}), NEW o, NEW S, NEW wr,
           Served(o, S, hh.end, Held(hh, L, {}), hh.foreign, wr)
    PROVE  /\ Sound(Lift(hh, o).h, L, X, S)
           /\ Lift(hh, o).h.pages = hh.pages
           /\ Lift(hh, o).start = o.start /\ Lift(hh, o).h.end = o.end
<1>1. /\ MapInv(o.m, o.end, Held(hh, L, {}) \cup S, hh.foreign \cup o.foreign, wr \cup S)
      /\ S \cap Held(hh, L, {}) = {}
      BY DEF Served
<1>2. Took(hh, L, o, S)
      BY <1>1 DEF Took
<1> QED BY <1>2, LiftSound

LEMMA RefusedSound ==
    ASSUME NEW hh, NEW L, NEW X, Sound(hh, L, X, {}), NEW o, NEW wr,
           NEW m, Refused(o, m, hh.end, Held(hh, L, {}), hh.foreign, wr)
    PROVE  /\ Sound(Lift(hh, o).h, L, X, {})
           /\ Lift(hh, o).h.pages = hh.pages
           /\ Lift(hh, o).start = NoSlice /\ Lift(hh, o).h.end = o.end
<1>1. MapInv(o.m, o.end, Held(hh, L, {}) \cup {}, hh.foreign \cup o.foreign, wr)
  <2>1. Held(hh, L, {}) \cup {} = Held(hh, L, {})
        OBVIOUS
  <2> QED BY <2>1 DEF Refused
<1>2. Took(hh, L, o, {})
      BY <1>1 DEF Took
<1> QED BY <1>2, LiftSound DEF Refused

\* The map of a sound heap.
LEMMA SoundMap ==
    ASSUME NEW hh, NEW L, NEW X, NEW E, Sound(hh, L, X, E)
    PROVE  \E wr \in SUBSET Nat :
               MapInv(hh.sl, hh.end, Held(hh, L, E), hh.foreign, wr)
BY DEF Sound, SlicesOk, MapOk, Held

\* Taking a run from the map as it is does not move the end of memory; where
\* it does move, the map had no fit.
LEMMA AcquireGrows ==
    ASSUME NEW mm, NEW ee, NEW count, NEW align,
           NEW o \in Acquire(mm, ee, count, align), o.end # ee
    PROVE  Fits(mm, count, align) = {}
<1>1. SUFFICES ASSUME o \in Alloc(mm, ee, count, align) PROVE FALSE
      BY DEF Acquire
<1>2. o.end = ee
      BY <1>1 DEF Alloc, Fail, Take, Outcome
<1> QED BY <1>2

\* The end of memory did not move, or growth was the last resort: but for the
\* pages X no page is empty, and before the call no run that fits was at hand.
Resort(hh, gg, X, count, align) ==
    /\ gg.end >= hh.end
    /\ gg.end # hh.end =>
          /\ \A p \in DOMAIN gg.pages : p \notin X => ~AllFree(gg.pages[p])
          /\ Fits([hh.sl EXCEPT !.free = FreeOrEmpty(hh)], count, align) = {}

LEMMA AcquireKeeps ==
    ASSUME NEW hh, NEW L, Sound(hh, L, {}, {}),
           NEW count \in Nat \ {0}, NEW align \in Nat \ {0}, NEW top,
           NEW r \in AcquireRun(hh, count, align, top)
    PROVE  /\ \/ r.start = NoSlice /\ Sound(r.h, L, {}, {})
              \/ /\ r.start \in Nat /\ r.start % align = 0
                 /\ Sound(r.h, L, {}, Span(r.start, count))
           /\ Resort(hh, r.h, {}, count, align)
           /\ \A p \in DOMAIN r.h.pages :
                  p \in DOMAIN hh.pages /\ SameBlocks(r.h.pages[p], hh.pages[p])
<1> DEFINE ra == ReleaseEmptyPages(hh)
           Goal == /\ \/ r.start = NoSlice /\ Sound(r.h, L, {}, {})
                      \/ /\ r.start \in Nat /\ r.start % align = 0
                         /\ Sound(r.h, L, {}, Span(r.start, count))
                   /\ Resort(hh, r.h, {}, count, align)
                   /\ \A p \in DOMAIN r.h.pages :
                          p \in DOMAIN hh.pages /\ SameBlocks(r.h.pages[p], hh.pages[p])
           tfit == TailFits(hh.sl, count, align, hh.end)
           fit == Lowest(Fits(hh.sl, count, align))
<1>1. PICK wr \in SUBSET Nat :
         MapInv(hh.sl, hh.end, Held(hh, L, {}), hh.foreign, wr)
      BY SoundMap
<1>2. hh \in Heaps /\ hh.sl \in Maps /\ hh.end \in Nat
      BY HeapFields DEF Sound
<1>3. ASSUME NEW starts, starts \subseteq Fits(hh.sl, count, align),
             NEW o \in Take(hh.sl, hh.end, starts, count, {}, 0), r = Lift(hh, o)
      PROVE  Goal
  <2>1. Acquired(o, count, align, hh.end, Held(hh, L, {}), hh.foreign, wr)
        BY <1>1, <1>3, AllocOutcomes
  <2>2. /\ Served(o, Span(o.start, count), hh.end, Held(hh, L, {}), hh.foreign, wr)
        /\ o.start % align = 0 /\ o.start \in Nat
        BY <2>1 DEF Acquired, Served
  <2>3. /\ Sound(Lift(hh, o).h, L, {}, Span(o.start, count))
        /\ Lift(hh, o).start = o.start /\ Lift(hh, o).h.end = o.end
        /\ Lift(hh, o).h.pages = hh.pages
        BY <2>2, ServedSound
  <2>4. o.end = hh.end
        BY <1>3 DEF Take, Outcome
  <2>5. Resort(hh, r.h, {}, count, align)
        BY <1>2, <1>3, <2>3, <2>4 DEF Resort
  <2>6. \A p \in DOMAIN r.h.pages :
            p \in DOMAIN hh.pages /\ SameBlocks(r.h.pages[p], hh.pages[p])
        BY <1>3, <2>3 DEF SameBlocks
  <2> QED BY <1>3, <2>2, <2>3, <2>5, <2>6
<1>4. CASE top /\ tfit # {}
  <2>1. PICK o \in AllocTail(hh.sl, hh.end, count, align) : r = Lift(hh, o)
        BY <1>4 DEF AcquireRun
  <2>2. o \in Take(hh.sl, hh.end, tfit, count, {}, 0)
        BY <1>4, <2>1 DEF AllocTail
  <2>3. tfit \subseteq Fits(hh.sl, count, align)
        BY <1>2, TailFitsFit
  <2> QED BY <1>3, <2>1, <2>2, <2>3
<1>5. CASE ~(top /\ tfit # {}) /\ Fits(hh.sl, count, align) # {}
  <2>1. PICK o \in Alloc(hh.sl, hh.end, count, align) : r = Lift(hh, o)
        BY <1>5 DEF AcquireRun
  <2>2. Fits(hh.sl, count, align) \in SUBSET Nat
        BY <1>2, Limits DEF Fits
  <2>3. fit # {} /\ fit \subseteq Fits(hh.sl, count, align)
        BY <1>5, <2>2, LeastExists, LowestIn
  <2>4. o \in Take(hh.sl, hh.end, fit, count, {}, 0)
        BY <2>1, <2>3 DEF Alloc
  <2> QED BY <1>3, <2>1, <2>3, <2>4
<1>6. CASE ~(top /\ tfit # {}) /\ Fits(hh.sl, count, align) = {}
  <2>1. PICK o \in Acquire(ra.sl, ra.end, count, align) : r = Lift(ra, o)
        BY <1>6 DEF AcquireRun
  <2>2. /\ Tidied(hh, ra) /\ QueuesOk(ra, {}) /\ Settled(ra, {}) /\ Bounded(ra)
        /\ NoneEmpty(ra)
        BY ReleaseTidies DEF Sound
  <2> HIDE DEF ra
  <2>3. Sound(ra, L, {}, {})
        BY <2>2, TidiedSound
  <2>4. PICK w2 \in SUBSET Nat :
           MapInv(ra.sl, ra.end, Held(ra, L, {}), ra.foreign, w2)
        BY <2>3, SoundMap
  <2>5. ra.end = hh.end
        BY <2>2 DEF Tidied
  <2>6. \/ Acquired(o, count, align, ra.end, Held(ra, L, {}), ra.foreign, w2)
        \/ Refused(o, ra.sl, ra.end, Held(ra, L, {}), ra.foreign, w2)
        BY <2>4, AcquireOutcomes
  <2>7. o.end >= ra.end
        BY <2>6 DEF Acquired, Served, Refused
  <2>8. o.end # ra.end => Fits([hh.sl EXCEPT !.free = FreeOrEmpty(hh)], count, align) = {}
    <3>1. o.end # ra.end => Fits(ra.sl, count, align) = {}
          BY AcquireGrows
    <3>2. ra.sl.free = FreeOrEmpty(hh)
          BY <2>2, TidiedAvailable, NoneEmptyAvailable
    <3>3. [hh.sl EXCEPT !.free = FreeOrEmpty(hh)].free = FreeOrEmpty(hh)
          BY <1>2 DEF Maps
    <3> QED BY <3>1, <3>2, <3>3 DEF Fits
  <2>9. CASE Acquired(o, count, align, ra.end, Held(ra, L, {}), ra.foreign, w2)
    <3>1. /\ Served(o, Span(o.start, count), ra.end, Held(ra, L, {}), ra.foreign, w2)
          /\ o.start % align = 0 /\ o.start \in Nat
          BY <2>9 DEF Acquired, Served
    <3>2. /\ Sound(Lift(ra, o).h, L, {}, Span(o.start, count))
          /\ Lift(ra, o).h.pages = ra.pages
          /\ Lift(ra, o).start = o.start /\ Lift(ra, o).h.end = o.end
      <4> DEFINE S == Span(o.start, count)
                 X == {}
      <4>1. /\ Sound(ra, L, X, {})
            /\ Served(o, S, ra.end, Held(ra, L, {}), ra.foreign, w2)
            BY <2>3, <3>1
      <4> HIDE DEF S, X
      <4>2. /\ Sound(Lift(ra, o).h, L, X, S)
            /\ Lift(ra, o).h.pages = ra.pages
            /\ Lift(ra, o).start = o.start /\ Lift(ra, o).h.end = o.end
            BY <4>1, ServedSound
      <4> QED BY <4>2 DEF S, X
    <3>3. Resort(hh, r.h, {}, count, align)
          BY <2>1, <2>2, <2>5, <2>7, <2>8, <3>2 DEF Resort, NoneEmpty
    <3>4. \A p \in DOMAIN r.h.pages :
              p \in DOMAIN hh.pages /\ SameBlocks(r.h.pages[p], hh.pages[p])
          BY <2>1, <2>2, <3>2 DEF Tidied
    <3> QED BY <2>1, <3>1, <3>2, <3>3, <3>4
  <2>10. CASE Refused(o, ra.sl, ra.end, Held(ra, L, {}), ra.foreign, w2)
    <3>1. /\ Sound(Lift(ra, o).h, L, {}, {})
          /\ Lift(ra, o).h.pages = ra.pages
          /\ Lift(ra, o).start = NoSlice /\ Lift(ra, o).h.end = o.end
          BY <2>3, <2>10, RefusedSound
    <3>2. Resort(hh, r.h, {}, count, align)
          BY <2>1, <2>2, <2>5, <2>7, <2>8, <3>1 DEF Resort, NoneEmpty
    <3>3. \A p \in DOMAIN r.h.pages :
              p \in DOMAIN hh.pages /\ SameBlocks(r.h.pages[p], hh.pages[p])
          BY <2>1, <2>2, <3>1 DEF Tidied
    <3> QED BY <2>1, <3>1, <3>2, <3>3
  <2> QED BY <2>6, <2>9, <2>10
<1>7. Goal
      BY <1>4, <1>5, <1>6
<1> QED BY <1>7

-----------------------------------------------------------------------------
(* ensure_init.                                                            *)

\* The empty heap value has the fields of a heap.
LEMMA NewHeapIs ==
    /\ NewHeap.sl = NewMap /\ NewHeap.end = InitialEnd
    /\ NewHeap.foreign = 0 .. (CeilDiv(HeapBase, SliceWords) - 1)
    /\ NewHeap.pages = <<>> /\ NewHeap.queues = [q \in Queues |-> <<>>]
    /\ NewHeap.direct = [b \in DirectBins |-> NoPage] /\ NewHeap.occupied = {}
    /\ NewHeap.inited = FALSE /\ NewHeap.count = 0
    /\ NewHeap \in Heaps
<1>1. CeilDiv(HeapBase, SliceWords) \in Nat
      BY ConstantFacts, CeilDivFacts
<1>2. 0 .. (CeilDiv(HeapBase, SliceWords) - 1) \in SUBSET Nat
      BY <1>1
<1>3. NewMap \in Maps
      BY DEF NewMap, Maps
<1>4. <<>> \in PageTables
  <2>1. <<>> \in [{} -> PageRec]
        OBVIOUS
  <2> QED BY <2>1 DEF PageTables
<1>5. [q \in Queues |-> <<>>] \in [Queues -> Seq(Nat)]
  <2>1. <<>> \in Seq(Nat)
        OBVIOUS
  <2> QED BY <2>1
<1>6. [b \in DirectBins |-> NoPage] \in [DirectBins -> Int]
  <2>1. NoPage \in Int
        BY DEF NoPage
  <2> QED BY <2>1
<1>7. NoRange.min \in Nat /\ NoRange.max \in Nat /\ InitialEnd \in Nat
      BY BinFacts, ConstantFacts DEF NoRange
<1>8. NewHeap \in Heaps
      BY <1>2, <1>3, <1>4, <1>5, <1>6, <1>7 DEF NewHeap, Heaps
<1> QED BY <1>8 DEF NewHeap

\* A heap without pages, whose map describes the memory, is sound.
LEMMA EmptyIsSound ==
    ASSUME NEW gg \in Heaps, gg.inited, gg.pages = <<>>,
           gg.queues = [q \in Queues |-> <<>>], gg.occupied = {},
           gg.direct = [b \in DirectBins |-> NoPage],
           Below \subseteq gg.foreign,
           NEW wr, MapInv(gg.sl, gg.end, {}, gg.foreign, wr)
    PROVE  Sound(gg, {}, {}, {})
<1>1. DOMAIN gg.pages = {}
      OBVIOUS
<1>2. Elements(<<>>) = {} /\ Distinct(<<>>) /\ HeadOf(<<>>) = NoPage
      BY DEF Elements, Distinct, HeadOf
<1>3. QueuesOk(gg, {})
      BY <1>1, <1>2, BinFacts DEF QueuesOk
<1>4. SlicesOk(gg, Runs({}), {})
  <2>1. Runs({}) = {} /\ RunOwn({}) = {} /\ PageOwn(gg) = {}
        BY <1>1 DEF Runs, RunOwn, PageOwn
  <2>2. MapOk(gg, {})
    <3>1. wr \in SUBSET Nat
          BY DEF MapInv
    <3> QED BY <3>1 DEF MapOk
  <2> QED BY <1>1, <2>1, <2>2 DEF SlicesOk
<1>5. BlocksOk(gg, {}) /\ Settled(gg, {}) /\ Typed({})
      BY <1>1 DEF BlocksOk, Small, Settled, Typed
<1>6. Bounded(gg)
  <2>1. \A b \in Bins : Counting(gg, b) = {}
        BY <1>1 DEF Counting
  <2>2. IsFiniteSet({}) /\ Cardinality({}) = 0
        BY FS_EmptySet
  <2>3. \A b \in Bins : RetireBound(b) \in Nat
        BY ConstantFacts DEF RetireBound
  <2>4. \A b \in Bins : IsFiniteSet(Counting(gg, b)) /\ Cardinality(Counting(gg, b)) = 0
        BY <2>1, <2>2
  <2>5. \A b \in Bins : Cardinality(Counting(gg, b)) <= RetireBound(b)
        BY <2>3, <2>4
  <2> QED BY <2>4, <2>5 DEF Bounded
<1> QED BY <1>3, <1>4, <1>5, <1>6 DEF Sound

LEMMA EnsureInitKeeps ==
    ASSUME IInv
    PROVE  /\ Sound(EnsureInit(h), live, {}, {})
           /\ EnsureInit(h).end = h.end
           /\ ~h.inited => DOMAIN h.pages = {}
<1> DEFINE first == CeilDiv(HeapBase, SliceWords)
           b     == HeapBase \div SliceWords
           ee    == InitialEnd
           frn   == 0 .. (first - 1)
           sl    == AddFree(InitMap(b), first, Monus(ee, first), FALSE)
           gg    == EnsureInit(h)
<1>1. CASE h.inited
      BY <1>1 DEF IInv, EnsureInit
<1>2. CASE ~h.inited
  <2>1. h = NewHeap /\ live = {}
        BY <1>2 DEF IInv
  <2>2. /\ first \in Nat /\ b \in Nat /\ ee \in Nat /\ b <= first /\ first <= ee
        /\ ee <= Limit(InitMap(b)) /\ ee <= MemMax
    <3>1. /\ HeapBase \in Nat /\ SliceWords \in Nat \ {0} /\ ee \in Nat
          /\ HeapBase <= ee * SliceWords /\ ee <= Limit(InitMap(b))
          /\ ee <= MemMax
          BY ConstantFacts, HeapAssumption
    <3> HIDE DEF ee
    <3>2. /\ first \in Nat /\ HeapBase <= SliceWords * first
          /\ SliceWords * first < HeapBase + SliceWords
          BY <3>1, CeilDivFacts
    <3>3. b \in Nat /\ SliceWords * b <= HeapBase /\ HeapBase < SliceWords * b + SliceWords
          BY <3>1, DivFacts
    <3> HIDE DEF first, b
    <3>4. ~(first < b)
      <4>1. SUFFICES ASSUME first < b PROVE FALSE
            OBVIOUS
      <4>2. SliceWords * first + SliceWords <= SliceWords * b
            BY <3>1, <3>2, <3>3, <4>1, MulMono
      <4>3. SliceWords * first \in Nat /\ SliceWords * b \in Nat
            BY <3>1, <3>2, <3>3
      <4> QED BY <3>1, <3>2, <3>3, <4>2, <4>3
    <3>5. ~(ee < first)
      <4>1. SUFFICES ASSUME ee < first PROVE FALSE
            OBVIOUS
      <4>2. SliceWords * ee + SliceWords <= SliceWords * first
            BY <3>1, <3>2, <4>1, MulMono
      <4>3. SliceWords * first \in Nat /\ SliceWords * ee \in Nat /\ ee * SliceWords = SliceWords * ee
            BY <3>1, <3>2
      <4> QED BY <3>1, <3>2, <4>2, <4>3
    <3> QED BY <3>1, <3>2, <3>3, <3>4, <3>5
  <2>3. gg = [h EXCEPT !.inited = TRUE, !.sl = sl]
        BY <1>2, <2>1, NewHeapIs DEF EnsureInit
  <2> HIDE DEF first, b, ee, gg
  <2>4. MapInv(sl, ee, {}, frn, Span(first, Monus(ee, first)))
    <3>1. frn \in SUBSET Nat /\ (\A x \in frn : x < ee)
          /\ (\A x \in Nat : x < first => x \in frn)
          /\ (\A x \in Nat : (first <= x /\ x < ee) => x \notin frn)
          BY <2>2
    <3> HIDE DEF frn
    <3> QED BY <2>2, <3>1, InitEstablishes
  <2>5. sl \in Maps
        BY <2>4 DEF MapInv
  <2> HIDE DEF sl
  <2>6. h \in Heaps /\ h.pages = <<>> /\ h.queues = [q \in Queues |-> <<>>]
        /\ h.occupied = {} /\ h.direct = [x \in DirectBins |-> NoPage]
        /\ h.end = ee /\ h.foreign = frn
        BY <2>1, NewHeapIs DEF ee, first
  <2>7. /\ gg \in Heaps /\ gg.inited /\ gg.sl = sl /\ gg.pages = h.pages
        /\ gg.queues = h.queues /\ gg.occupied = h.occupied /\ gg.direct = h.direct
        /\ gg.end = h.end /\ gg.foreign = h.foreign
        BY <2>3, <2>5, <2>6 DEF Heaps
  <2>8. Sound(gg, {}, {}, {})
    <3>1. Below \subseteq gg.foreign
          BY <2>6, <2>7 DEF Below, first
    <3> QED BY <2>4, <2>6, <2>7, <3>1, EmptyIsSound
  <2>9. DOMAIN h.pages = {}
        BY <2>6
  <2> QED BY <2>1, <2>7, <2>8, <2>9 DEF gg
<1> QED BY <1>1, <1>2

-----------------------------------------------------------------------------
(* Page supply.                                                            *)

\* Page p of bin b can serve a block; it may be empty without counting down.
Supplied(hh, L, p, b) ==
    /\ Sound(hh, L, {p}, {}) /\ p \in DOMAIN hh.pages
    /\ hh.pages[p].bin = b /\ HasFree(hh.pages[p])

\* A page without a block in use on slices that were handed out.
LEMMA AddPage ==
    ASSUME NEW hh, NEW L, NEW b \in Bins, NEW p \in Nat, p % PageSlices[b] = 0,
           Sound(hh, L, {}, Span(p, PageSlices[b]))
    PROVE  LET gg == PushFront(Added(hh, p, Extended(NewPage(b))), b, p)
           IN  /\ Supplied(gg, L, p, b)
               /\ gg.end = hh.end
               /\ \A x \in DOMAIN gg.pages : x # p =>
                      x \in DOMAIN hh.pages /\ gg.pages[x] = hh.pages[x]
<1> DEFINE E  == Span(p, PageSlices[b])
           pg == Extended(NewPage(b))
           h1 == Added(hh, p, pg)
           gg == PushFront(h1, b, p)
<1>1. /\ hh \in Heaps /\ QueuesOk(hh, {}) /\ SlicesOk(hh, Runs(L), E) /\ BlocksOk(hh, L)
      /\ Settled(hh, {}) /\ Bounded(hh) /\ Typed(L) /\ hh.inited
      BY DEF Sound
<1>2. /\ pg \in PageRec /\ PageOk(pg) /\ HasFree(pg) /\ pg.bin = b /\ ~pg.full
      /\ pg.expire = 0 /\ Elements(pg.free) = 0 .. (pg.cap - 1)
  <2> DEFINE new == NewPage(b)
  <2>1. /\ new \in PageRec /\ PageOk(new) /\ Expandable(new)
        /\ new.bin = b /\ ~new.full /\ new.expire = 0 /\ new.cap = 0 /\ new.free = <<>>
        BY FreshPageOk
  <2> HIDE DEF new
  <2>2. /\ pg \in PageRec /\ PageOk(pg) /\ HasFree(pg)
        /\ pg.bin = new.bin /\ pg.full = new.full /\ pg.expire = new.expire
        /\ Elements(pg.free) = (new.cap .. (pg.cap - 1)) \cup Elements(new.free)
        BY <2>1, ExtendPage DEF new
  <2>3. Elements(<<>>) = {}
        BY DEF Elements
  <2> QED BY <2>1, <2>2, <2>3
<1>3. p \in E /\ PageSpan(pg, p) = E
      BY <1>2, PageSpanFacts
<1>4. p \notin DOMAIN hh.pages
  <2>1. SUFFICES ASSUME p \in DOMAIN hh.pages PROVE FALSE
        OBVIOUS
  <2>2. p \in PageSpan(hh.pages[p], p)
        BY <1>1, <2>1, TableOf, PageSpanFacts
  <2>3. p \in PageOwn(hh)
        BY <2>1, <2>2 DEF PageOwn
  <2> QED BY <1>1, <1>3, <2>3 DEF SlicesOk
<1> HIDE DEF pg, E
<1>5. /\ h1 \in Heaps /\ Rest(h1) = Rest(hh)
      /\ DOMAIN h1.pages = DOMAIN hh.pages \cup {p} /\ h1.pages[p] = pg
      /\ \A x \in DOMAIN hh.pages : h1.pages[x] = hh.pages[x]
      /\ QueuesOk(h1, {p})
  <2>1. hh \in Heaps /\ QueuesOk(hh, {}) /\ p \notin DOMAIN hh.pages /\ pg \in PageRec
        BY <1>1, <1>2, <1>4
  <2> QED BY <2>1, NewPageKeeps, ZenonT(60)
<1> HIDE DEF h1
<1>6. /\ gg \in Heaps /\ Rest(gg) = Rest(h1) /\ gg.pages = h1.pages
      /\ QueuesOk(gg, {})
  <2>1. QueueOf(h1.pages[p]) = b /\ b \in Queues
        BY <1>2, <1>5, BinFacts DEF QueueOf
  <2>2. p \in DOMAIN h1.pages /\ p \in {p} /\ {p} \ {p} = {}
        BY <1>5
  <2>3. /\ gg \in Heaps /\ Rest(gg) = Rest(h1) /\ gg.pages = h1.pages
        /\ QueuesOk(gg, {p} \ {p})
        BY <1>5, <2>1, <2>2, PushFrontKeeps
  <2> QED BY <2>2, <2>3
<1> HIDE DEF gg
<1>7. /\ gg.sl = hh.sl /\ gg.end = hh.end /\ gg.foreign = hh.foreign /\ gg.inited
      BY <1>1, <1>5, <1>6 DEF Rest
<1>8. /\ DOMAIN gg.pages = DOMAIN hh.pages \cup {p} /\ gg.pages[p] = pg
      /\ \A x \in DOMAIN hh.pages : gg.pages[x] = hh.pages[x]
      BY <1>5, <1>6
<1>9. SlicesOk(gg, Runs(L), {})
  <2> DEFINE own == PageOwn(hh)
             runs == RunOwn(Runs(L))
  <2>1. \A x \in DOMAIN hh.pages : PageSpan(gg.pages[x], x) = PageSpan(hh.pages[x], x)
                                   /\ PageSpan(hh.pages[x], x) \subseteq own
        BY <1>8 DEF PageOwn
  <2>2. PageSpan(gg.pages[p], p) = E
        BY <1>3, <1>8
  <2>3. PageOwn(gg) = own \cup E
    <3>1. \A s : s \in PageOwn(gg) <=>
              \E x \in DOMAIN gg.pages : s \in PageSpan(gg.pages[x], x)
          BY DEF PageOwn
    <3>2. \A s : s \in own <=> \E x \in DOMAIN hh.pages : s \in PageSpan(hh.pages[x], x)
          BY DEF PageOwn
    <3> HIDE DEF own
    <3>3. \A s : s \in PageOwn(gg) <=> s \in own \/ s \in E
          BY <1>8, <2>1, <2>2, <3>1, <3>2
    <3> HIDE DEF E
    <3> QED BY <3>3
  <2>4. /\ own \cap runs = {} /\ E \cap own = {} /\ E \cap runs = {}
        /\ MapOk(hh, own \cup runs \cup E)
        /\ \A x, y \in Runs(L) : x # y => RunSpan(x) \cap RunSpan(y) = {}
        BY <1>1 DEF SlicesOk
  <2>5. \A x, y \in DOMAIN gg.pages : x # y =>
            PageSpan(gg.pages[x], x) \cap PageSpan(gg.pages[y], y) = {}
    <3>1. ASSUME NEW x \in DOMAIN hh.pages
          PROVE  PageSpan(gg.pages[x], x) \cap PageSpan(gg.pages[p], p) = {}
          BY <2>1, <2>2, <2>4
    <3>2. ASSUME NEW x \in DOMAIN hh.pages, NEW y \in DOMAIN hh.pages, x # y
          PROVE  PageSpan(gg.pages[x], x) \cap PageSpan(gg.pages[y], y) = {}
          BY <1>1, <2>1, <3>2 DEF SlicesOk
    <3> QED BY <1>8, <3>1, <3>2
  <2>6. \A x \in DOMAIN gg.pages : x % PageSlices[gg.pages[x].bin] = 0
        BY <1>1, <1>2, <1>8 DEF SlicesOk
  <2> HIDE DEF own, runs
  <2>7. PageOwn(gg) \cup runs \cup {} = own \cup runs \cup E
        BY <2>3
  <2>8. MapOk(gg, PageOwn(gg) \cup runs \cup {})
        BY <1>7, <2>4, <2>7 DEF MapOk
  <2> QED BY <2>3, <2>4, <2>5, <2>6, <2>8 DEF SlicesOk, runs
<1>10. BlocksOk(gg, L)
  <2>1. \A x \in DOMAIN gg.pages : PageOk(gg.pages[x])
        BY <1>1, <1>2, <1>8 DEF BlocksOk
  <2>2. ASSUME NEW x \in Small(L)
        PROVE  \E q \in DOMAIN gg.pages : \E i \in Nat : Holds(gg, q, i, x)
    <3>1. PICK q \in DOMAIN hh.pages : \E i \in Nat : Holds(hh, q, i, x)
          BY <1>1 DEF BlocksOk
    <3>2. PICK i \in Nat : Holds(hh, q, i, x)
          BY <3>1
    <3>3. Holds(gg, q, i, x)
          BY <1>8, <3>2 DEF Holds, InUse
    <3> QED BY <1>8, <3>3
  <2>3. ASSUME NEW q \in DOMAIN gg.pages, NEW i \in Nat, InUse(gg, q, i)
        PROVE  \E x \in Small(L) : x.addr = BlockAddr(q, gg.pages[q].bin, i)
    <3>1. q # p
          BY <1>2, <1>8, <2>3 DEF InUse
    <3>2. q \in DOMAIN hh.pages /\ gg.pages[q] = hh.pages[q]
          BY <1>8, <3>1
    <3>3. InUse(hh, q, i)
          BY <2>3, <3>2 DEF InUse
    <3> QED BY <1>1, <3>2, <3>3 DEF BlocksOk
  <2>4. \A x, y \in Small(L) : x.addr = y.addr => x = y
        BY <1>1 DEF BlocksOk
  <2> QED BY <2>1, <2>2, <2>3, <2>4 DEF BlocksOk
<1>11. Settled(gg, {p})
      BY <1>1, <1>2, <1>8 DEF Settled
<1>12. Bounded(gg)
  <2>1. ASSUME NEW c \in Bins, NEW x \in Counting(gg, c) PROVE x \in Counting(hh, c)
        BY <1>2, <1>8 DEF Counting
  <2> QED BY <1>1, <2>1, BoundedShrinks
<1>13. Supplied(gg, L, p, b)
      BY <1>1, <1>2, <1>6, <1>7, <1>8, <1>9, <1>10, <1>11, <1>12 DEF Supplied, Sound
<1> QED BY <1>7, <1>8, <1>13 DEF gg, h1, pg

LEMMA FreshPageKeeps ==
    ASSUME NEW hh, NEW L, Sound(hh, L, {}, {}), NEW b \in Bins, NEW r \in FreshPage(hh, b)
    PROVE  /\ \/ r.page = NoPage /\ Sound(r.h, L, {}, {})
              \/ r.page # NoPage /\ Supplied(r.h, L, r.page, b)
           /\ Resort(hh, r.h, {r.page}, PageSlices[b], PageSlices[b])
<1> DEFINE n == PageSlices[b]
<1>1. n \in Nat \ {0}
      BY BinFacts
<1>2. PICK a \in AcquireRun(hh, n, n, FALSE) :
         r = IF a.start = NoSlice THEN [h |-> a.h, page |-> NoPage]
             ELSE [h |-> PushFront(Added(a.h, a.start, Extended(NewPage(b))), b, a.start),
                   page |-> a.start]
      BY DEF FreshPage, Added
<1>3. /\ \/ a.start = NoSlice /\ Sound(a.h, L, {}, {})
         \/ /\ a.start \in Nat /\ a.start % n = 0
            /\ Sound(a.h, L, {}, Span(a.start, n))
      /\ Resort(hh, a.h, {}, n, n)
      BY <1>1, AcquireKeeps
<1>4. CASE a.start = NoSlice
  <2>1. r.page = NoPage /\ r.h = a.h
        BY <1>2, <1>4
  <2>2. Sound(a.h, L, {}, {})
        BY <1>3, <1>4 DEF NoSlice
  <2> QED BY <1>3, <2>1, <2>2 DEF Resort
<1>5. CASE a.start # NoSlice
  <2> DEFINE p == a.start
             gg == PushFront(Added(a.h, p, Extended(NewPage(b))), b, p)
  <2>1. p \in Nat /\ p % n = 0 /\ Sound(a.h, L, {}, Span(p, n)) /\ p # NoPage
        BY <1>3, <1>5 DEF NoSlice, NoPage
  <2>2. r.page = p /\ r.h = gg
        BY <1>2, <1>5
  <2> HIDE DEF gg
  <2>3. /\ Supplied(gg, L, p, b) /\ gg.end = a.h.end
        /\ \A x \in DOMAIN gg.pages : x # p =>
               x \in DOMAIN a.h.pages /\ gg.pages[x] = a.h.pages[x]
        BY <2>1, AddPage DEF gg
  <2>4. Resort(hh, gg, {p}, n, n)
        BY <1>3, <2>3 DEF Resort
  <2> QED BY <2>1, <2>2, <2>3, <2>4
<1> QED BY <1>4, <1>5

-----------------------------------------------------------------------------
(* One page changes.                                                       *)

\* The heap with ng for the page at p.
WithPage(hh, p, ng) == [hh EXCEPT !.pages = [hh.pages EXCEPT ![p] = ng]]

LEMMA WithPageFields ==
    ASSUME NEW hh \in Heaps, NEW p \in DOMAIN hh.pages, NEW ng \in PageRec
    PROVE  LET gg == WithPage(hh, p, ng)
           IN  /\ gg \in Heaps /\ Rest(gg) = Rest(hh)
               /\ gg.queues = hh.queues /\ gg.occupied = hh.occupied
               /\ gg.direct = hh.direct
               /\ DOMAIN gg.pages = DOMAIN hh.pages /\ gg.pages[p] = ng
               /\ \A x \in DOMAIN hh.pages : x # p => gg.pages[x] = hh.pages[x]
<1> DEFINE t == [hh.pages EXCEPT ![p] = ng]
<1>1. hh.pages \in PageTables /\ hh.pages = [x \in DOMAIN hh.pages |-> hh.pages[x]]
      BY HeapFields, PageTableFacts
<1>2. /\ DOMAIN t = DOMAIN hh.pages /\ t[p] = ng
      /\ \A x \in DOMAIN hh.pages : x # p => t[x] = hh.pages[x]
      BY <1>1
<1>3. t \in PageTables
  <2> DEFINE P == DOMAIN hh.pages
  <2>1. P \in SUBSET Nat /\ \A x \in P : hh.pages[x] \in PageRec
        BY <1>1, PageTableFacts
  <2>2. t \in [P -> PageRec]
        BY <1>1, <2>1
  <2> QED BY <2>1, <2>2 DEF PageTables
<1> HIDE DEF t
<1>4. WithPage(hh, p, ng) = [hh EXCEPT !.pages = t]
      BY DEF WithPage, t
<1> QED BY <1>2, <1>3, <1>4, PagesFields

\* The flag and the bin stay: the queues and the slices do not notice.
LEMMA WithPageKeeps ==
    ASSUME NEW hh \in Heaps, NEW p \in DOMAIN hh.pages, NEW ng \in PageRec,
           ng.bin = hh.pages[p].bin
    PROVE  LET gg == WithPage(hh, p, ng)
           IN  /\ ng.full = hh.pages[p].full /\ QueuesOk(hh, {}) => QueuesOk(gg, {})
               /\ \A R, E : SlicesOk(hh, R, E) => SlicesOk(gg, R, E)
<1> DEFINE gg == WithPage(hh, p, ng)
<1>1. /\ gg \in Heaps /\ Rest(gg) = Rest(hh)
      /\ gg.queues = hh.queues /\ gg.occupied = hh.occupied /\ gg.direct = hh.direct
      /\ DOMAIN gg.pages = DOMAIN hh.pages /\ gg.pages[p] = ng
      /\ \A x \in DOMAIN hh.pages : x # p => gg.pages[x] = hh.pages[x]
      BY WithPageFields
<1> HIDE DEF gg
<1>2. ASSUME ng.full = hh.pages[p].full, QueuesOk(hh, {}) PROVE QueuesOk(gg, {})
  <2>1. \A x \in DOMAIN hh.pages : /\ gg.pages[x].bin = hh.pages[x].bin
                                   /\ gg.pages[x].full = hh.pages[x].full
        BY <1>1, <1>2
  <2> QED BY <1>1, <1>2, <2>1, SameQueues
<1>3. ASSUME NEW R, NEW E, SlicesOk(hh, R, E) PROVE SlicesOk(gg, R, E)
  <2>1. \A x \in DOMAIN gg.pages : /\ PageSpan(gg.pages[x], x) = PageSpan(hh.pages[x], x)
                                   /\ gg.pages[x].bin = hh.pages[x].bin
        BY <1>1 DEF PageSpan
  <2>2. PageOwn(gg) = PageOwn(hh)
        BY <1>1, <2>1 DEF PageOwn
  <2>3. gg.sl = hh.sl /\ gg.end = hh.end /\ gg.foreign = hh.foreign
        BY <1>1 DEF Rest
  <2>4. \A H : MapOk(hh, H) => MapOk(gg, H)
        BY <2>3 DEF MapOk
  <2> QED BY <1>1, <1>3, <2>1, <2>2, <2>4 DEF SlicesOk
<1> QED BY <1>2, <1>3 DEF gg

\* extend: more blocks, none of them in use.
LEMMA ExtendKeeps ==
    ASSUME NEW hh, NEW L, NEW X, Sound(hh, L, X, {}), NEW p \in DOMAIN hh.pages,
           Expandable(hh.pages[p])
    PROVE  LET gg == WithPage(hh, p, Extended(hh.pages[p]))
           IN  /\ Sound(gg, L, X, {}) /\ Rest(gg) = Rest(hh)
               /\ DOMAIN gg.pages = DOMAIN hh.pages
               /\ gg.pages[p] = Extended(hh.pages[p])
               /\ HasFree(gg.pages[p]) /\ gg.pages[p].bin = hh.pages[p].bin
               /\ gg.pages[p].full = hh.pages[p].full
<1> DEFINE ng == Extended(hh.pages[p])
           gg == WithPage(hh, p, ng)
           c  == hh.pages[p].cap
<1>1. /\ hh \in Heaps /\ QueuesOk(hh, {}) /\ BlocksOk(hh, L) /\ hh.inited
      /\ SlicesOk(hh, Runs(L), {}) /\ Settled(hh, X) /\ Bounded(hh) /\ Typed(L)
      BY DEF Sound
<1>2. hh.pages[p] \in PageRec /\ PageOk(hh.pages[p]) /\ c \in Nat
      BY <1>1, TableOf, PageFields DEF BlocksOk
<1>3. /\ ng \in PageRec /\ PageOk(ng) /\ HasFree(ng)
      /\ ng.bin = hh.pages[p].bin /\ ng.full = hh.pages[p].full
      /\ ng.expire = hh.pages[p].expire /\ ng.used = hh.pages[p].used
      /\ c <= ng.cap /\ ng.cap \in Nat
      /\ Elements(ng.free) = (c .. (ng.cap - 1)) \cup Elements(hh.pages[p].free)
      BY <1>2, ExtendPage, PageFields
<1> HIDE DEF ng
<1>4. /\ gg \in Heaps /\ Rest(gg) = Rest(hh)
      /\ DOMAIN gg.pages = DOMAIN hh.pages /\ gg.pages[p] = ng
      /\ \A x \in DOMAIN hh.pages : x # p => gg.pages[x] = hh.pages[x]
      BY <1>1, <1>3, WithPageFields
<1>5. QueuesOk(gg, {}) /\ SlicesOk(gg, Runs(L), {})
      BY <1>1, <1>3, WithPageKeeps
<1> HIDE DEF gg
<1>6. \A x \in DOMAIN hh.pages : \A i : InUse(gg, x, i) <=> InUse(hh, x, i)
  <2>1. ASSUME NEW i PROVE InUse(gg, p, i) <=> InUse(hh, p, i)
        BY <1>2, <1>3, <1>4 DEF InUse
  <2> QED BY <1>4, <2>1 DEF InUse
<1>7. \A x \in DOMAIN hh.pages : gg.pages[x].bin = hh.pages[x].bin
      BY <1>3, <1>4
<1>8. BlocksOk(gg, L)
  <2>1. \A x \in DOMAIN gg.pages : PageOk(gg.pages[x])
        BY <1>1, <1>3, <1>4 DEF BlocksOk
  <2>2. \A x \in DOMAIN hh.pages : \A i, y : Holds(hh, x, i, y) => Holds(gg, x, i, y)
        BY <1>6, <1>7 DEF Holds
  <2> QED BY <1>1, <1>4, <1>6, <1>7, <2>1, <2>2 DEF BlocksOk
<1>9. Settled(gg, X)
  <2>1. ~hh.pages[p].full
        BY <1>1 DEF Settled, HasRoom
  <2> QED BY <1>1, <1>3, <1>4, <2>1 DEF Settled, AllFree
<1>10. Bounded(gg)
  <2>1. ASSUME NEW b \in Bins, NEW x \in Counting(gg, b) PROVE x \in Counting(hh, b)
        BY <1>3, <1>4 DEF Counting
  <2> QED BY <1>1, <2>1, BoundedShrinks
<1>11. gg.inited
      BY <1>1, <1>4 DEF Rest
<1>12. Sound(gg, L, X, {})
      BY <1>1, <1>4, <1>5, <1>8, <1>9, <1>10, <1>11 DEF Sound
<1> QED BY <1>3, <1>4, <1>12 DEF gg, ng

-----------------------------------------------------------------------------
(* find_page.                                                              *)

\* A page without room has blocks in use.
LEMMA RoomlessUsed ==
    ASSUME NEW pg \in PageRec, PageOk(pg), ~HasRoom(pg)
    PROVE  ~AllFree(pg)
<1>1. pg.bin \in Bins /\ pg.cap \in Nat /\ pg.used \in Nat
      BY PageFields
<1>2. Reserved[pg.bin] \in Nat \ {0}
      BY <1>1, BlocksFit
<1>3. pg.free = <<>> /\ ~(pg.cap < Reserved[pg.bin])
      BY DEF HasRoom, HasFree, Expandable
<1>4. Len(pg.free) = 0 /\ pg.used + Len(pg.free) = pg.cap
      BY <1>3 DEF PageOk
<1>5. pg.used = pg.cap
      BY <1>1, <1>4
<1>6. pg.cap # 0
      BY <1>1, <1>2, <1>3
<1> QED BY <1>5, <1>6 DEF AllFree

\* The walk parks pages without room.
LEMMA ParkSound ==
    ASSUME NEW hh, NEW L, Sound(hh, L, {}, {}), NEW b \in Bins,
           NEW S, S \subseteq Elements(hh.queues[b]),
           \A p \in S : ~HasRoom(hh.pages[p])
    PROVE  LET gg == Park(hh, b, S)
           IN  /\ Sound(gg, L, {}, {}) /\ Tidied(hh, gg)
               /\ DOMAIN gg.pages = DOMAIN hh.pages
               /\ \A p \in DOMAIN hh.pages : SameBlocks(gg.pages[p], hh.pages[p])
               /\ \A p \in DOMAIN hh.pages : p \notin S => gg.pages[p] = hh.pages[p]
<1> DEFINE gg == Park(hh, b, S)
<1>1. hh \in Heaps /\ QueuesOk(hh, {}) /\ Settled(hh, {}) /\ Bounded(hh) /\ BlocksOk(hh, L)
      BY DEF Sound
<1>2. /\ gg \in Heaps /\ Rest(gg) = Rest(hh)
      /\ DOMAIN gg.pages = DOMAIN hh.pages
      /\ \A p \in DOMAIN hh.pages : gg.pages[p] =
             IF p \in S THEN [hh.pages[p] EXCEPT !.full = TRUE, !.expire = 0]
             ELSE hh.pages[p]
      /\ QueuesOk(gg, {})
  <2>1. hh \in Heaps /\ QueuesOk(hh, {})
        BY <1>1
  <2> QED BY <2>1, ParkKeeps
<1> HIDE DEF gg
<1>3. \A p \in DOMAIN hh.pages : hh.pages[p] \in PageRec /\ PageOk(hh.pages[p])
      BY <1>1, TableOf DEF BlocksOk
<1>4. \A p \in DOMAIN hh.pages :
          /\ SameBlocks(gg.pages[p], hh.pages[p])
          /\ p \in S => gg.pages[p].full /\ gg.pages[p].expire = 0
          /\ p \notin S => gg.pages[p] = hh.pages[p]
      BY <1>2, <1>3 DEF SameBlocks, PageRec
<1>5. gg.sl = hh.sl /\ gg.end = hh.end /\ gg.foreign = hh.foreign /\ gg.inited = hh.inited
      BY <1>2 DEF Rest
<1>6. Tidied(hh, gg)
      BY <1>1, <1>2, <1>4, <1>5, TidiedInPlace
<1>7. Settled(gg, {})
  <2>1. ASSUME NEW p \in DOMAIN hh.pages, p \in S
        PROVE  ~HasRoom(gg.pages[p]) /\ ~AllFree(gg.pages[p]) /\ gg.pages[p].expire = 0
    <3>1. ~HasRoom(hh.pages[p]) /\ ~AllFree(hh.pages[p])
          BY <1>3, <2>1, RoomlessUsed
    <3> QED BY <1>4, <2>1, <3>1 DEF SameBlocks, HasRoom, HasFree, Expandable, AllFree
  <2> QED BY <1>1, <1>2, <1>4, <2>1 DEF Settled
<1>8. Bounded(gg)
  <2>1. ASSUME NEW c \in Bins, NEW x \in Counting(gg, c) PROVE x \in Counting(hh, c)
        BY <1>2, <1>4 DEF Counting, SameBlocks
  <2> QED BY <1>1, <2>1, BoundedShrinks
<1>9. Sound(gg, L, {}, {})
      BY <1>2, <1>6, <1>7, <1>8, TidiedSound
<1> QED BY <1>2, <1>4, <1>6, <1>9 DEF gg

\* The chosen page comes to the front, and its countdown stops.
Fronted(hh, b, p) == [MoveToFront(hh, b, p) EXCEPT !.pages[p].expire = 0]

LEMMA FrontSound ==
    ASSUME NEW hh, NEW L, Sound(hh, L, {}, {}), NEW b \in Bins,
           NEW p \in DOMAIN hh.pages, hh.pages[p].bin = b, HasFree(hh.pages[p])
    PROVE  LET gg == Fronted(hh, b, p)
           IN  Supplied(gg, L, p, b) /\ gg.end = hh.end
<1> DEFINE h1 == MoveToFront(hh, b, p)
           ng == [hh.pages[p] EXCEPT !.expire = 0]
           gg == Fronted(hh, b, p)
<1>1. hh \in Heaps /\ QueuesOk(hh, {}) /\ Settled(hh, {}) /\ Bounded(hh)
      BY DEF Sound
<1>2. QueueOf(hh.pages[p]) = b /\ b \in Queues
      BY <1>1, BinFacts DEF Settled, HasRoom, QueueOf
<1>3. /\ h1 \in Heaps /\ Rest(h1) = Rest(hh) /\ h1.pages = hh.pages /\ QueuesOk(h1, {})
  <2>1. hh \in Heaps /\ QueuesOk(hh, {})
        BY <1>1
  <2> QED BY <1>2, <2>1, MoveToFrontKeeps
<1>4. hh.pages[p] \in PageRec
      BY <1>1, TableOf
<1>5. /\ ng \in PageRec /\ SameBlocks(ng, hh.pages[p]) /\ ng.full = hh.pages[p].full
      /\ ng.expire = 0 /\ ng.bin = b /\ HasFree(ng)
      BY <1>4 DEF PageRec, SameBlocks, HasFree
<1>6. gg = WithPage(h1, p, ng)
      BY <1>3 DEF Fronted, WithPage
<1> HIDE DEF h1, ng, gg
<1>7. /\ gg \in Heaps /\ Rest(gg) = Rest(h1)
      /\ DOMAIN gg.pages = DOMAIN hh.pages /\ gg.pages[p] = ng
      /\ \A x \in DOMAIN hh.pages : x # p => gg.pages[x] = hh.pages[x]
      BY <1>3, <1>5, <1>6, WithPageFields
<1>8. QueuesOk(gg, {})
  <2>1. ng.bin = h1.pages[p].bin /\ ng.full = h1.pages[p].full
        BY <1>3, <1>5
  <2> QED BY <1>3, <1>5, <1>6, <2>1, WithPageKeeps
<1>9. gg.sl = hh.sl /\ gg.end = hh.end /\ gg.foreign = hh.foreign /\ gg.inited = hh.inited
      BY <1>3, <1>7 DEF Rest
<1>10. \A x \in DOMAIN gg.pages : SameBlocks(gg.pages[x], hh.pages[x])
      BY <1>5, <1>7 DEF SameBlocks
<1>11. Tidied(hh, gg)
      BY <1>1, <1>7, <1>9, <1>10, TidiedInPlace
<1>12. Settled(gg, {p})
  <2>1. ~hh.pages[p].full
        BY <1>1 DEF Settled, HasRoom
  <2> QED BY <1>1, <1>5, <1>7, <2>1 DEF Settled
<1>13. Bounded(gg)
  <2>1. ASSUME NEW c \in Bins, NEW x \in Counting(gg, c) PROVE x \in Counting(hh, c)
        BY <1>5, <1>7 DEF Counting
  <2> QED BY <1>1, <2>1, BoundedShrinks
<1>14. Sound(gg, L, {p}, {})
      BY <1>8, <1>11, <1>12, <1>13, TidiedSound
<1> QED BY <1>5, <1>7, <1>9, <1>14 DEF Supplied, gg

\* Of finitely many positions, one has the largest value, the last on a tie.
LEMMA BestExists ==
    ASSUME NEW n \in Nat, NEW S, S \subseteq 1 .. n, S # {}, NEW m \in Nat,
           NEW f, \A i \in S : f[i] \in 0 .. m
    PROVE  \E i \in S : \A j \in S : f[i] > f[j] \/ (f[i] = f[j] /\ i >= j)
<1> DEFINE U == {f[i] : i \in S}
<1>1. PICK u \in U : \A v \in U : v <= u
  <2>1. U \subseteq 0 .. m /\ U # {}
    <3>1. PICK i \in S : TRUE
          OBVIOUS
    <3>2. f[i] \in U
          OBVIOUS
    <3>3. \A u \in U : u \in 0 .. m
          OBVIOUS
    <3> QED BY <3>2, <3>3
  <2> QED BY <2>1, GreatestExists
<1> DEFINE T == {i \in S : f[i] = u}
<1>2. PICK i \in T : \A j \in T : j <= i
  <2>1. T \subseteq 0 .. n
    <3>1. \A i \in T : i \in 1 .. n
          OBVIOUS
    <3> HIDE DEF T
    <3> QED BY <3>1
  <2>2. \E i \in S : f[i] = u
    <3>1. u \in U
          OBVIOUS
    <3> QED BY <3>1
  <2>3. T # {}
        BY <2>2
  <2> QED BY <2>1, <2>3, GreatestExists
<1>3. ASSUME NEW j \in S PROVE f[i] > f[j] \/ (f[i] = f[j] /\ i >= j)
  <2>1. f[j] <= u /\ f[i] = u /\ f[j] \in 0 .. m /\ u \in 0 .. m
        BY <1>1, <1>2
  <2>2. CASE f[j] = u
    <3>1. j <= i /\ i \in 1 .. n /\ j \in 1 .. n
          BY <1>2, <2>2
    <3> QED BY <2>1, <2>2, <3>1
  <2>3. CASE f[j] # u
        BY <2>1, <2>3
  <2> QED BY <2>2, <2>3
<1> QED BY <1>2, <1>3

\* Before growth came tidying up, which makes nothing available.
LEMMA ResortAfterTidying ==
    ASSUME NEW hh, NEW gg, NEW kk, NEW X, NEW count, NEW align,
           Tidied(hh, gg), Resort(gg, kk, X, count, align)
    PROVE  Resort(hh, kk, X, count, align)
<1>1. FreeOrEmpty(gg) = FreeOrEmpty(hh) /\ gg.end = hh.end
      BY TidiedAvailable DEF Tidied
<1>2. hh.sl \in Maps /\ gg.sl \in Maps
      BY HeapFields DEF Tidied
<1>3. \A F : Fits([gg.sl EXCEPT !.free = F], count, align)
               = Fits([hh.sl EXCEPT !.free = F], count, align)
  <2>1. \A F : [gg.sl EXCEPT !.free = F].free = F /\ [hh.sl EXCEPT !.free = F].free = F
        BY <1>2 DEF Maps
  <2> QED BY <2>1 DEF Fits
<1> QED BY <1>1, <1>3 DEF Resort

\* The pages of a bin that have room are in the bin's queue.
LEMMA RoomInQueue ==
    ASSUME NEW hh, NEW L, NEW X, NEW E, Sound(hh, L, X, E), NEW p \in DOMAIN hh.pages,
           HasRoom(hh.pages[p])
    PROVE  ~hh.pages[p].full /\ p \in Elements(hh.queues[hh.pages[p].bin])
<1>1. ~hh.pages[p].full
      BY DEF Sound, Settled
<1>2. QueueOf(hh.pages[p]) = hh.pages[p].bin
      BY <1>1 DEF QueueOf
<1> QED BY <1>1, <1>2 DEF Sound, QueuesOk

LEMMA FindPageKeeps ==
    ASSUME NEW hh, NEW L, Sound(hh, L, {}, {}), NEW b \in Bins, NEW r \in FindPage(hh, b)
    PROVE  /\ \/ r.page = NoPage /\ Sound(r.h, L, {}, {})
              \/ r.page # NoPage /\ Supplied(r.h, L, r.page, b)
           /\ Resort(hh, r.h, {r.page}, PageSlices[b], PageSlices[b])
           /\ r.h.end # hh.end => \A p \in DOMAIN hh.pages :
                  hh.pages[p].bin = b => ~HasRoom(hh.pages[p])
<1> DEFINE queue  == hh.queues[b]
           n      == PageSlices[b]
           page(i) == hh.pages[queue[i]]
           room   == {i \in DOMAIN queue : ~Roomless(hh, queue[i])}
           first  == CHOOSE i \in room : \A j \in room : i <= j
           stops  == {i \in room : HasFree(page(i)) \/ i - first >= MaxCandidates}
           walked == {i \in DOMAIN queue : \A j \in stops : j >= i}
           cands  == {i \in room \cap walked : i = first \/ ~MostlyUsed(page(i))}
           best   == CHOOSE i \in cands : \A j \in cands :
                      \/ page(i).used > page(j).used
                      \/ page(i).used = page(j).used /\ i >= j
           S      == {queue[i] : i \in walked \ room}
           h1     == Park(hh, b, S)
           p      == queue[best]
           h2     == IF HasFree(page(best)) THEN h1
                     ELSE [h1 EXCEPT !.pages[p] = Extended(@)]
           Goal   == /\ \/ r.page = NoPage /\ Sound(r.h, L, {}, {})
                        \/ r.page # NoPage /\ Supplied(r.h, L, r.page, b)
                     /\ Resort(hh, r.h, {r.page}, n, n)
                     /\ r.h.end # hh.end => \A x \in DOMAIN hh.pages :
                            hh.pages[x].bin = b => ~HasRoom(hh.pages[x])
<1>1. r \in IF room = {} THEN FreshPage(CollectRetired(h1), b)
            ELSE {[h |-> Fronted(h2, b, p), page |-> p]}
      BY DEF FindPage, Fronted
<1>2. /\ hh \in Heaps /\ QueuesOk(hh, {}) /\ Settled(hh, {}) /\ BlocksOk(hh, L)
      BY DEF Sound
<1>3. /\ queue \in Seq(Nat) /\ Len(queue) \in Nat /\ b \in Queues
      /\ DOMAIN queue = 1 .. Len(queue)
  <2>1. hh.queues \in [Queues -> Seq(Nat)] /\ b \in Queues
        BY <1>2, HeapFields, BinFacts
  <2>2. queue \in Seq(Nat)
        BY <2>1
  <2> HIDE DEF queue
  <2> QED BY <2>1, <2>2
<1>4. ASSUME NEW i \in DOMAIN queue
      PROVE  /\ queue[i] \in Elements(queue) /\ queue[i] \in DOMAIN hh.pages
             /\ page(i) \in PageRec /\ PageOk(page(i)) /\ page(i).bin = b
             /\ queue[i] # NoPage
  <2>1. queue[i] \in Elements(queue)
        BY <1>3, SeqFacts
  <2>2. queue[i] \in DOMAIN hh.pages /\ QueueOf(page(i)) = b
        BY <1>2, <1>3, <2>1 DEF QueuesOk
  <2>3. page(i) \in PageRec /\ PageOk(page(i)) /\ queue[i] \in Nat
        BY <1>2, <2>2, TableOf DEF BlocksOk
  <2>4. page(i).bin = b
        BY <2>2, BinFacts DEF QueueOf
  <2> QED BY <2>1, <2>2, <2>3, <2>4 DEF NoPage
<1>5. \A i \in DOMAIN queue : i \in room <=> HasRoom(page(i))
      BY DEF Roomless
<1> HIDE DEF queue
<1>6. S \subseteq Elements(queue) /\ \A x \in S : ~HasRoom(hh.pages[x])
      BY <1>4, <1>5
<1>7. /\ Sound(h1, L, {}, {}) /\ Tidied(hh, h1)
      /\ DOMAIN h1.pages = DOMAIN hh.pages
      /\ \A x \in DOMAIN hh.pages : SameBlocks(h1.pages[x], hh.pages[x])
  <2> HIDE DEF S
  <2> QED BY <1>6, ParkSound DEF queue
<1>8. CASE room = {}
  <2> HIDE DEF h1
  <2> DEFINE h3 == CollectRetired(h1)
  <2>1. r \in FreshPage(h3, b)
        BY <1>1, <1>8
  <2>2. h1 \in Heaps /\ QueuesOk(h1, {}) /\ Settled(h1, {}) /\ Bounded(h1)
        BY <1>7 DEF Sound
  <2>3. Tidied(h1, h3) /\ QueuesOk(h3, {}) /\ Settled(h3, {}) /\ Bounded(h3)
        BY <2>2, CollectTidies
  <2> HIDE DEF h3
  <2>4. Sound(h3, L, {}, {})
        BY <1>7, <2>3, TidiedSound
  <2>5. /\ \/ r.page = NoPage /\ Sound(r.h, L, {}, {})
           \/ r.page # NoPage /\ Supplied(r.h, L, r.page, b)
        /\ Resort(h3, r.h, {r.page}, n, n)
        BY <2>1, <2>4, FreshPageKeeps
  <2>6. Resort(h1, r.h, {r.page}, n, n)
        BY <2>3, <2>5, ResortAfterTidying
  <2>7. Resort(hh, r.h, {r.page}, n, n)
        BY <1>7, <2>6, ResortAfterTidying
  <2>8. ASSUME NEW x \in DOMAIN hh.pages, hh.pages[x].bin = b, HasRoom(hh.pages[x])
        PROVE  FALSE
    <3>1. x \in Elements(queue)
          BY <2>8, RoomInQueue DEF queue
    <3>2. PICK i \in 1 .. Len(queue) : queue[i] = x
          BY <1>3, <3>1, SeqFacts
    <3> QED BY <1>3, <1>5, <1>8, <2>8, <3>2
  <2> QED BY <2>5, <2>7, <2>8
<1>9. CASE room # {}
  <2>1. first \in room /\ \A j \in room : first <= j
    <3>1. room \in SUBSET Nat
          BY <1>3
    <3>2. \E i \in room : \A j \in room : i <= j
          BY <1>9, <3>1, LeastExists DEF Lowest
    <3> QED BY <3>2
  <2> HIDE DEF first
  <2>2. first \in cands
    <3>1. stops \subseteq room
          OBVIOUS
    <3>2. \A j \in stops : j >= first
          BY <1>3, <2>1, <3>1
    <3> HIDE DEF stops
    <3> QED BY <2>1, <3>2
  <2>3. cands \subseteq DOMAIN queue /\ cands \subseteq room
        OBVIOUS
  <2> HIDE DEF cands
  <2>4. best \in cands
    <3> DEFINE f == [i \in DOMAIN queue |-> page(i).used]
               m == Reserved[b]
    <3>1. m \in Nat
          BY BlocksFit
    <3>2. \A i \in cands : f[i] = page(i).used
          BY <2>3
    <3>3. ASSUME NEW i \in cands PROVE page(i).used \in 0 .. m
      <4>1. page(i) \in PageRec /\ PageOk(page(i)) /\ page(i).bin = b
            BY <1>4, <2>3
      <4>2. /\ page(i).used \in Nat /\ page(i).cap \in Nat /\ Len(page(i).free) \in Nat
            /\ page(i).used + Len(page(i).free) = page(i).cap /\ page(i).cap <= m
            BY <4>1, PageFields DEF PageOk
      <4> HIDE DEF page, m
      <4> QED BY <3>1, <4>2
    <3> HIDE DEF m, f
    <3>4. \A i \in cands : f[i] \in 0 .. m
          BY <3>2, <3>3
    <3>5. \E i \in cands : \A j \in cands : f[i] > f[j] \/ (f[i] = f[j] /\ i >= j)
          BY <1>3, <2>2, <2>3, <3>1, <3>4, BestExists, ZenonT(60)
    <3>6. \E i \in cands : \A j \in cands :
              \/ page(i).used > page(j).used
              \/ page(i).used = page(j).used /\ i >= j
          BY <3>2, <3>5
    <3> QED BY <3>6
  <2> HIDE DEF best
  <2>5. /\ p \in DOMAIN hh.pages /\ hh.pages[p].bin = b /\ p # NoPage
        /\ HasRoom(hh.pages[p]) /\ hh.pages[p] = page(best)
        BY <1>4, <1>5, <2>3, <2>4
  <2>6. /\ p \in DOMAIN h1.pages /\ h1.pages[p].bin = b
        /\ HasRoom(h1.pages[p])
        /\ HasFree(page(best)) => HasFree(h1.pages[p])
        /\ ~HasFree(page(best)) => Expandable(h1.pages[p])
        BY <1>7, <2>5 DEF SameBlocks, HasRoom, HasFree, Expandable
  <2> HIDE DEF h1, p
  <2>7. /\ Sound(h2, L, {}, {}) /\ h2.end = h1.end
        /\ p \in DOMAIN h2.pages /\ h2.pages[p].bin = b /\ HasFree(h2.pages[p])
    <3>1. CASE HasFree(page(best))
          BY <1>7, <2>6, <3>1
    <3>2. CASE ~HasFree(page(best))
      <4> DEFINE gg == WithPage(h1, p, Extended(h1.pages[p]))
      <4>1. h2 = gg
            BY <3>2 DEF WithPage
      <4>2. /\ Sound(gg, L, {}, {}) /\ Rest(gg) = Rest(h1)
            /\ DOMAIN gg.pages = DOMAIN h1.pages
            /\ HasFree(gg.pages[p]) /\ gg.pages[p].bin = h1.pages[p].bin
            BY <1>7, <2>6, <3>2, ExtendKeeps
      <4> HIDE DEF gg, h2
      <4> QED BY <2>6, <4>1, <4>2 DEF Rest
    <3> QED BY <3>1, <3>2
  <2> HIDE DEF h2
  <2>8. r.page = p /\ r.h = Fronted(h2, b, p)
        BY <1>1, <1>9
  <2>9. Supplied(r.h, L, p, b) /\ r.h.end = h2.end
        BY <2>7, <2>8, FrontSound
  <2>10. r.h.end = hh.end /\ hh.end \in Nat
        BY <1>2, <1>7, <2>7, <2>9, HeapFields DEF Tidied
  <2> QED BY <2>5, <2>8, <2>9, <2>10 DEF Resort
<1>10. Goal
      BY <1>8, <1>9
<1> QED BY <1>10

-----------------------------------------------------------------------------
(* Handing out a block.                                                    *)

\* Different blocks have different addresses.
LEMMA BlocksApart ==
    ASSUME NEW hh \in Heaps, NEW R, NEW E, SlicesOk(hh, R, E),
           NEW p \in DOMAIN hh.pages, NEW q \in DOMAIN hh.pages,
           NEW i \in 0 .. (Reserved[hh.pages[p].bin] - 1),
           NEW k \in 0 .. (Reserved[hh.pages[q].bin] - 1),
           BlockAddr(p, hh.pages[p].bin, i) = BlockAddr(q, hh.pages[q].bin, k)
    PROVE  p = q /\ i = k
<1> DEFINE a == BlockAddr(p, hh.pages[p].bin, i)
           b == hh.pages[p].bin
           c == hh.pages[q].bin
<1>1. p \in Nat /\ q \in Nat /\ b \in Bins /\ c \in Bins
      BY TableOf, PageFields
<1>2. a \div SliceWords \in Span(p, PageSlices[b]) /\ BlockIndex(p, b, a) = i
      BY <1>1, BlockIn
<1>3. a \div SliceWords \in Span(q, PageSlices[c]) /\ BlockIndex(q, c, a) = k
      BY <1>1, BlockIn
<1>4. p = q
  <2>1. /\ PageSpan(hh.pages[p], p) = Span(p, PageSlices[b])
        /\ PageSpan(hh.pages[q], q) = Span(q, PageSlices[c])
        BY DEF PageSpan
  <2>2. SUFFICES ASSUME p # q PROVE FALSE
        OBVIOUS
  <2>3. PageSpan(hh.pages[p], p) \cap PageSpan(hh.pages[q], q) = {}
        BY <2>2 DEF SlicesOk
  <2> DEFINE s == a \div SliceWords
  <2>4. s \in PageSpan(hh.pages[p], p) /\ s \in PageSpan(hh.pages[q], q)
        BY <1>2, <1>3, <2>1
  <2> HIDE DEF s
  <2> QED BY <2>3, <2>4
<1> HIDE DEF a
<1> QED BY <1>2, <1>3, <1>4

\* A block in use is one of its page's, and its address tells all about it.
LEMMA HoldsFacts ==
    ASSUME NEW hh \in Heaps, NEW R, NEW E, SlicesOk(hh, R, E), NEW L, BlocksOk(hh, L),
           NEW p \in DOMAIN hh.pages, NEW i, InUse(hh, p, i)
    PROVE  /\ i \in 0 .. (Reserved[hh.pages[p].bin] - 1) /\ i \in Nat
           /\ BlockIndex(p, hh.pages[p].bin, BlockAddr(p, hh.pages[p].bin, i)) = i
           /\ BlockAddr(p, hh.pages[p].bin, i) \in Nat
           /\ ~AllFree(hh.pages[p])
           /\ \A c \in Bins : PageSlices[c] = PageSlices[hh.pages[p].bin] =>
                  HeaderOf(c, BlockAddr(p, hh.pages[p].bin, i)) = p
<1> DEFINE pg == hh.pages[p]
           b  == pg.bin
<1>1. pg \in PageRec /\ PageOk(pg) /\ p \in Nat /\ p % PageSlices[b] = 0
      BY TableOf DEF BlocksOk, SlicesOk
<1>2. b \in Bins /\ pg.cap \in Nat
      BY <1>1, PageFields
<1>3. Reserved[b] \in Nat /\ pg.cap <= Reserved[b]
      BY <1>1, <1>2, BlocksFit DEF PageOk
<1>4. i \in 0 .. (pg.cap - 1) /\ i \notin Elements(pg.free)
      BY DEF InUse
<1>5. ~AllFree(pg)
      BY <1>1, <1>4, AllFreeIs
<1> HIDE DEF pg, b
<1>6. i \in 0 .. (Reserved[b] - 1) /\ i \in Nat
      BY <1>2, <1>3, <1>4
<1>7. /\ BlockAddr(p, b, i) \in Nat
      /\ BlockIndex(p, b, BlockAddr(p, b, i)) = i
      /\ \A c \in Bins : PageSlices[c] = PageSlices[b] /\ p % PageSlices[b] = 0
                             => HeaderOf(c, BlockAddr(p, b, i)) = p
      BY <1>1, <1>2, <1>6, BlockIn
<1> QED BY <1>1, <1>5, <1>6, <1>7 DEF pg, b

\* What changes when a page's list of free blocks changes: nothing elsewhere.
LEMMA SmallOf ==
    ASSUME NEW L, NEW x
    PROVE  /\ Classify(x.lay) # Huge => Small(L \cup {x}) = Small(L) \cup {x}
                                        /\ Runs(L \cup {x}) = Runs(L)
           /\ Classify(x.lay) # Huge => Small(L \ {x}) = Small(L) \ {x}
                                        /\ Runs(L \ {x}) = Runs(L)
           /\ Classify(x.lay) = Huge => Small(L \cup {x}) = Small(L)
                                        /\ Runs(L \cup {x}) = Runs(L) \cup {x}
           /\ Classify(x.lay) = Huge => Small(L \ {x}) = Small(L)
                                        /\ Runs(L \ {x}) = Runs(L) \ {x}
BY DEF Small, Runs

\* page::pop: the program gets a block nobody has.
LEMMA PopKeeps ==
    ASSUME NEW hh, NEW L, NEW p \in DOMAIN hh.pages, Sound(hh, L, {p}, {}),
           HasFree(hh.pages[p]),
           NEW l \in Layouts, Classify(l) = hh.pages[p].bin
    PROVE  LET r == PopBlock(hh, p)
               x == [addr |-> r.addr, lay |-> l]
           IN  /\ Sound(r.h, L \cup {x}, {}, {}) /\ x \notin L /\ r.addr # NoAddr
               /\ r.h.end = hh.end
               /\ DOMAIN r.h.pages = DOMAIN hh.pages /\ ~AllFree(r.h.pages[p])
               /\ \A q \in DOMAIN hh.pages : q # p => r.h.pages[q] = hh.pages[q]
<1> DEFINE pg == hh.pages[p]
           b  == pg.bin
           i  == Head(pg.free)
           a  == BlockAddr(p, b, i)
           ng == Popped(pg)
           x  == [addr |-> a, lay |-> l]
           gg == WithPage(hh, p, ng)
<1>1. /\ hh \in Heaps /\ QueuesOk(hh, {}) /\ SlicesOk(hh, Runs(L), {}) /\ BlocksOk(hh, L)
      /\ Settled(hh, {p}) /\ Bounded(hh) /\ Typed(L) /\ hh.inited
      BY DEF Sound
<1>2. pg \in PageRec /\ PageOk(pg) /\ p \in Nat
      BY <1>1, TableOf DEF BlocksOk
<1>3. /\ ng \in PageRec /\ PageOk(ng)
      /\ ng.bin = b /\ ng.cap = pg.cap /\ ng.full = pg.full
      /\ ng.expire = pg.expire /\ ng.used = pg.used + 1
      /\ i \in 0 .. (pg.cap - 1) /\ i \in Elements(pg.free)
      /\ Elements(ng.free) = Elements(pg.free) \ {i}
      BY <1>2, PopPage
<1>4. PopBlock(hh, p) = [h |-> gg, addr |-> a]
      BY DEF PopBlock, Result, WithPage
<1> HIDE DEF ng, gg
<1>5. /\ gg \in Heaps /\ Rest(gg) = Rest(hh)
      /\ DOMAIN gg.pages = DOMAIN hh.pages /\ gg.pages[p] = ng
      /\ \A q \in DOMAIN hh.pages : q # p => gg.pages[q] = hh.pages[q]
      BY <1>1, <1>3, WithPageFields DEF gg
<1>6. QueuesOk(gg, {}) /\ SlicesOk(gg, Runs(L), {})
  <2>1. hh \in Heaps /\ QueuesOk(hh, {}) /\ SlicesOk(hh, Runs(L), {})
        BY <1>1
  <2> QED BY <1>3, <2>1, WithPageKeeps DEF gg
<1>7. b \in Bins /\ pg.cap \in Nat /\ pg.used \in Nat /\ Reserved[b] \in Nat /\ pg.cap <= Reserved[b]
      BY <1>2, PageFields, BlocksFit DEF PageOk
<1>8. i \in 0 .. (Reserved[b] - 1) /\ i \in Nat
  <2> HIDE DEF b, i, pg
  <2> QED BY <1>3, <1>7
<1>9. a \in Nat /\ a # NoAddr
      BY <1>2, <1>7, <1>8, BlockIn DEF NoAddr
<1>10. /\ \A q \in DOMAIN hh.pages : gg.pages[q].bin = hh.pages[q].bin
       /\ \A q \in DOMAIN hh.pages : \A k :
             InUse(gg, q, k) <=> InUse(hh, q, k) \/ (q = p /\ k = i)
  <2>1. \A k : InUse(gg, p, k) <=> InUse(hh, p, k) \/ k = i
    <3> HIDE DEF i
    <3> QED BY <1>3, <1>5 DEF InUse
  <2> QED BY <1>3, <1>5, <2>1 DEF InUse
<1>11. ASSUME NEW y \in Small(L), y.addr = a PROVE FALSE
  <2>1. PICK q \in DOMAIN hh.pages : \E k \in Nat : Holds(hh, q, k, y)
        BY <1>1 DEF BlocksOk
  <2>2. PICK k \in Nat : Holds(hh, q, k, y)
        BY <2>1
  <2>3. InUse(hh, q, k) /\ BlockAddr(q, hh.pages[q].bin, k) = a
        BY <1>11, <2>2 DEF Holds
  <2>4. k \in 0 .. (Reserved[hh.pages[q].bin] - 1)
        BY <1>1, <2>3, HoldsFacts
  <2>5. p = q /\ i = k
    <3>1. hh \in Heaps /\ SlicesOk(hh, Runs(L), {})
          BY <1>1
    <3> HIDE DEF i
    <3> QED BY <1>8, <2>3, <2>4, <3>1, BlocksApart
  <2> QED BY <1>3, <2>3, <2>5 DEF InUse
<1>12. Classify(x.lay) # Huge /\ x.addr = a /\ x.lay = l
       BY <1>7, BinFacts DEF Huge, Full
<1>13. /\ Small(L \cup {x}) = Small(L) \cup {x} /\ Runs(L \cup {x}) = Runs(L)
  <2> HIDE DEF x
  <2> QED BY <1>12, SmallOf
<1>14. x \notin L
  <2>1. x \in L => x \in Small(L)
        BY <1>12 DEF Small
  <2> QED BY <1>11, <1>12, <2>1
<1>15. Typed(L \cup {x})
  <2>1. x = [addr |-> x.addr, lay |-> x.lay] /\ x.addr \in Nat /\ x.lay \in Layouts
        BY <1>9
  <2>2. x.addr % x.lay.align = 0
    <3>1. BlockAddr(p, Classify(l), i) % l.align = 0
          BY <1>2, <1>8, <1>12, BlockAligned
    <3> QED BY <3>1
  <2> HIDE DEF x
  <2> QED BY <1>1, <1>12, <2>1, <2>2 DEF Typed
<1>16. BlocksOk(gg, L \cup {x})
  <2>1. \A q \in DOMAIN gg.pages : PageOk(gg.pages[q])
        BY <1>1, <1>3, <1>5 DEF BlocksOk
  <2>2. Holds(gg, p, i, x)
    <3>1. InUse(gg, p, i)
          BY <1>10
    <3>2. gg.pages[p].bin = b /\ b <= b
          BY <1>3, <1>5, <1>7, BinFacts
    <3> QED BY <1>12, <3>1, <3>2 DEF Holds
  <2> HIDE DEF x, i, a
  <2>3. ASSUME NEW y \in Small(L)
        PROVE  \E q \in DOMAIN gg.pages : \E k \in Nat : Holds(gg, q, k, y)
    <3>1. PICK q \in DOMAIN hh.pages : \E k \in Nat : Holds(hh, q, k, y)
          BY <1>1 DEF BlocksOk
    <3>2. PICK k \in Nat : Holds(hh, q, k, y)
          BY <3>1
    <3>3. Holds(gg, q, k, y)
          BY <1>10, <3>2 DEF Holds
    <3> QED BY <1>5, <3>3
  <2>4. \A y \in Small(L) \cup {x} :
            \E q \in DOMAIN gg.pages : \E k \in Nat : Holds(gg, q, k, y)
        BY <1>5, <1>8, <2>2, <2>3
  <2>5. \A y, z \in Small(L) \cup {x} : y.addr = z.addr => y = z
        BY <1>1, <1>11, <1>12 DEF BlocksOk
  <2>6. ASSUME NEW q \in DOMAIN gg.pages, NEW k \in Nat, InUse(gg, q, k)
        PROVE  \E y \in Small(L) \cup {x} : y.addr = BlockAddr(q, gg.pages[q].bin, k)
    <3>1. CASE InUse(hh, q, k)
      <4>1. \E y \in Small(L) : y.addr = BlockAddr(q, hh.pages[q].bin, k)
            BY <1>1, <1>5, <3>1 DEF BlocksOk
      <4> QED BY <1>5, <1>10, <4>1
    <3>2. CASE q = p /\ k = i
      <4>1. x.addr = BlockAddr(q, gg.pages[q].bin, k)
            BY <1>3, <1>5, <1>12, <3>2 DEF a
      <4> QED BY <4>1
    <3> QED BY <1>5, <1>10, <2>6, <3>1, <3>2
  <2> QED BY <1>13, <2>1, <2>4, <2>5, <2>6 DEF BlocksOk
<1>17. Settled(gg, {}) /\ ~AllFree(gg.pages[p])
  <2>1. ~hh.pages[p].full
        BY <1>1 DEF Settled, HasRoom
  <2>2. ~AllFree(ng) /\ ~ng.full
        BY <1>3, <1>7, <2>1 DEF AllFree
  <2> QED BY <1>1, <1>5, <2>2 DEF Settled
<1>18. Bounded(gg)
  <2>1. ASSUME NEW c \in Bins, NEW y \in Counting(gg, c) PROVE y \in Counting(hh, c)
        BY <1>3, <1>5 DEF Counting
  <2> QED BY <1>1, <2>1, BoundedShrinks
<1>19. gg.inited /\ gg.end = hh.end
       BY <1>1, <1>5 DEF Rest
<1>20. Sound(gg, L \cup {x}, {}, {})
  <2>1. SlicesOk(gg, Runs(L \cup {x}), {})
        BY <1>6, <1>13
  <2> HIDE DEF x
  <2> QED BY <1>5, <1>6, <1>15, <1>16, <1>17, <1>18, <1>19, <2>1 DEF Sound
<1> QED BY <1>4, <1>5, <1>9, <1>14, <1>17, <1>19, <1>20

-----------------------------------------------------------------------------
(* Header-less runs.                                                       *)

\* The slices of runs, with one more and with one less.
LEMMA RunOwnFacts ==
    ASSUME NEW R, NEW x
    PROVE  /\ RunOwn(R \cup {x}) = RunOwn(R) \cup RunSpan(x)
           /\ x \in R => RunSpan(x) \subseteq RunOwn(R)
           /\ (x \in R /\ \A y, z \in R : y # z => RunSpan(y) \cap RunSpan(z) = {})
                  => RunOwn(R \ {x}) = RunOwn(R) \ RunSpan(x)
<1>1. \A s : /\ s \in RunOwn(R) <=> \E y \in R : s \in RunSpan(y)
             /\ s \in RunOwn(R \cup {x}) <=> \E y \in R \cup {x} : s \in RunSpan(y)
             /\ s \in RunOwn(R \ {x}) <=> \E y \in R \ {x} : s \in RunSpan(y)
      BY DEF RunOwn
<1> DEFINE A == RunOwn(R)
           B == RunOwn(R \cup {x})
           C == RunOwn(R \ {x})
           Z == RunSpan(x)
<1>2. \A s : s \in B <=> s \in A \/ s \in Z
      BY <1>1
<1>3. ASSUME x \in R PROVE \A s : s \in Z => s \in A
      BY <1>1, <1>3
<1>4. ASSUME x \in R, \A y, z \in R : y # z => RunSpan(y) \cap RunSpan(z) = {}
      PROVE  \A s : s \in C <=> s \in A /\ s \notin Z
  <2>1. ASSUME NEW s, s \in C PROVE s \in A /\ s \notin Z
        BY <1>1, <1>4, <2>1
  <2>2. ASSUME NEW s, s \in A, s \notin Z PROVE s \in C
        BY <1>1, <2>2
  <2> QED BY <2>1, <2>2
<1> HIDE DEF A, B, C, Z
<1>5. B = A \cup Z
      BY <1>2
<1>6. ASSUME x \in R PROVE Z \subseteq A
      BY <1>3, <1>6
<1>7. ASSUME x \in R, \A y, z \in R : y # z => RunSpan(y) \cap RunSpan(z) = {}
      PROVE  C = A \ Z
      BY <1>4, <1>7
<1> QED BY <1>5, <1>6, <1>7 DEF A, B, C, Z

\* Slices change hands between runs and what the call holds.
LEMMA SwapRuns ==
    ASSUME NEW hh, NEW R, NEW E, SlicesOk(hh, R, E), NEW R2, NEW E2,
           RunOwn(R2) \cup E2 = RunOwn(R) \cup E, RunOwn(R2) \cap E2 = {},
           \A x, y \in R2 : x # y => RunSpan(x) \cap RunSpan(y) = {}
    PROVE  SlicesOk(hh, R2, E2)
<1> DEFINE own == PageOwn(hh)
           A   == RunOwn(R)
           B   == RunOwn(R2)
<1>1. /\ own \cap A = {} /\ E \cap own = {} /\ MapOk(hh, own \cup A \cup E)
      /\ \A p, q \in DOMAIN hh.pages : p # q =>
             PageSpan(hh.pages[p], p) \cap PageSpan(hh.pages[q], q) = {}
      /\ \A p \in DOMAIN hh.pages : p % PageSlices[hh.pages[p].bin] = 0
      BY DEF SlicesOk
<1> HIDE DEF own, A, B
<1>2. B \cup E2 = A \cup E /\ B \cap E2 = {}
      BY DEF A, B
<1>3. own \cup B \cup E2 = own \cup A \cup E
      BY <1>2
<1>4. own \cap B = {} /\ E2 \cap own = {} /\ E2 \cap B = {}
      BY <1>1, <1>2
<1>5. MapOk(hh, own \cup B \cup E2)
      BY <1>1, <1>3
<1> QED BY <1>1, <1>4, <1>5 DEF SlicesOk, own, B

\* release of slices nobody has.
Freed(hh, E) == [hh EXCEPT !.sl = Release(@, E)]

LEMMA FreedFields ==
    ASSUME NEW hh \in Heaps, NEW E, E \subseteq Nat
    PROVE  LET gg == Freed(hh, E)
           IN  /\ gg \in Heaps /\ gg.sl = Release(hh.sl, E)
               /\ gg.end = hh.end /\ gg.foreign = hh.foreign
               /\ gg.pages = hh.pages /\ gg.queues = hh.queues
               /\ gg.occupied = hh.occupied /\ gg.direct = hh.direct
               /\ gg.inited = hh.inited
<1>1. Release(hh.sl, E) \in Maps
      BY HeapFields, Fields
<1> QED BY <1>1 DEF Heaps, Freed

LEMMA FreedSound ==
    ASSUME NEW hh, NEW L, NEW X, NEW E, Sound(hh, L, X, E)
    PROVE  /\ Sound(Freed(hh, E), L, X, {})
           /\ Freed(hh, E).end = hh.end /\ Freed(hh, E).pages = hh.pages
<1> DEFINE gg   == Freed(hh, E)
           own  == PageOwn(hh)
           runs == RunOwn(Runs(L))
<1>1. /\ hh \in Heaps /\ QueuesOk(hh, {}) /\ BlocksOk(hh, L)
      /\ Settled(hh, X) /\ Bounded(hh) /\ Typed(L) /\ hh.inited
      BY DEF Sound
<1>2. /\ own \cap runs = {} /\ E \cap own = {} /\ E \cap runs = {}
      /\ MapOk(hh, own \cup runs \cup E)
      /\ \A p, q \in DOMAIN hh.pages : p # q =>
             PageSpan(hh.pages[p], p) \cap PageSpan(hh.pages[q], q) = {}
      /\ \A x, y \in Runs(L) : x # y => RunSpan(x) \cap RunSpan(y) = {}
      /\ \A p \in DOMAIN hh.pages : p % PageSlices[hh.pages[p].bin] = 0
      BY DEF Sound, SlicesOk
<1> HIDE DEF own, runs
<1> DEFINE H == own \cup runs \cup E
<1>3. PICK wr \in SUBSET Nat : MapInv(hh.sl, hh.end, H, hh.foreign, wr)
      BY <1>2 DEF MapOk
<1>4. E \subseteq H /\ H \ E = own \cup runs \cup {}
      BY <1>2
<1>5. E \subseteq Nat
      BY <1>3, <1>4 DEF MapInv
<1> HIDE DEF H
<1>6. /\ gg \in Heaps /\ gg.sl = Release(hh.sl, E)
      /\ gg.end = hh.end /\ gg.foreign = hh.foreign
      /\ gg.pages = hh.pages /\ gg.queues = hh.queues
      /\ gg.occupied = hh.occupied /\ gg.direct = hh.direct
      /\ gg.inited = hh.inited
      BY <1>1, <1>5, FreedFields
<1> HIDE DEF gg
<1>7. MapInv(gg.sl, gg.end, H \ E, gg.foreign, wr)
      BY <1>3, <1>4, <1>6, ReleaseKeeps
<1>8. MapOk(gg, own \cup runs \cup {})
      BY <1>2, <1>4, <1>6, <1>7 DEF MapOk
<1>9. /\ QueuesOk(gg, {}) /\ BlocksOk(gg, L) /\ Settled(gg, X) /\ Bounded(gg)
      /\ PageOwn(gg) = own
      BY <1>1, <1>6, SameTables DEF own
<1>10. SlicesOk(gg, Runs(L), {})
      BY <1>2, <1>6, <1>8, <1>9 DEF SlicesOk, runs
<1> QED BY <1>1, <1>6, <1>9, <1>10 DEF Sound, gg

\* The program's runs change, its small blocks do not.
LEMMA SoundRuns ==
    ASSUME NEW hh, NEW L, NEW X, NEW E, Sound(hh, L, X, E), NEW L2, NEW E2,
           Small(L2) = Small(L), SlicesOk(hh, Runs(L2), E2), Typed(L2)
    PROVE  Sound(hh, L2, X, E2)
<1>1. BlocksOk(hh, L2)
      BY DEF Sound, BlocksOk
<1> QED BY <1>1 DEF Sound

\* A run is the slices from its address on.
LEMMA RunSpanIs ==
    ASSUME NEW s \in Nat, NEW l \in Layouts
    PROVE  LET x == [addr |-> s * SliceWords, lay |-> l]
           IN  /\ RunSpan(x) = Span(s, HugeSlices(l)) /\ s \in RunSpan(x)
               /\ x.addr \in Nat /\ x.addr # NoAddr /\ x.addr % SliceWords = 0
               /\ x.addr \div SliceWords = s
<1> DEFINE a == s * SliceWords
           n == HugeSlices(l)
<1>1. SliceWords \in Nat \ {0} /\ n \in Nat \ {0}
      BY ConstantFacts, ClassIs
<1> HIDE DEF n
<1>2. a = SliceWords * s /\ a \in Nat
      BY <1>1
<1>3. a \div SliceWords = s
      BY <1>1, <1>2, DivIs
<1>4. a % SliceWords = 0
  <2>1. a = SliceWords * (a \div SliceWords) + (a % SliceWords) /\ a % SliceWords \in Nat
        BY <1>1, <1>2
  <2> HIDE DEF a
  <2> QED BY <1>1, <1>2, <1>3, <2>1
<1>5. s \in Span(s, n)
      BY <1>1, Spans
<1>6. a # NoAddr
      BY <1>2 DEF NoAddr
<1> QED BY <1>2, <1>3, <1>4, <1>5, <1>6 DEF RunSpan, n

\* The slices a call got become a run of the program.
LEMMA RunJoins ==
    ASSUME NEW hh, NEW L, NEW l \in Layouts, Classify(l) = Huge, NEW s \in Nat,
           s % HugeAlign(l) = 0, Sound(hh, L, {}, Span(s, HugeSlices(l)))
    PROVE  LET x == [addr |-> s * SliceWords, lay |-> l]
           IN  /\ Sound(hh, L \cup {x}, {}, {}) /\ x \notin L /\ x.addr # NoAddr
<1> DEFINE x == [addr |-> s * SliceWords, lay |-> l]
           E == Span(s, HugeSlices(l))
           R == Runs(L)
           R2 == R \cup {x}
<1>1. /\ RunSpan(x) = E /\ s \in E /\ x.addr \in Nat /\ x.addr # NoAddr
      /\ x.addr % SliceWords = 0 /\ x.lay = l
      /\ x = [addr |-> x.addr, lay |-> x.lay] /\ x.addr % x.lay.align = 0
  <2>1. (s * SliceWords) % l.align = 0
        BY RunAligned
  <2> QED BY <2>1, RunSpanIs
<1> HIDE DEF x, E
<1>2. SlicesOk(hh, R, E) /\ Typed(L)
      BY DEF Sound, E
<1>3. Small(L \cup {x}) = Small(L) /\ Runs(L \cup {x}) = R2
      BY <1>1, SmallOf
<1>4. E \cap RunOwn(R) = {} /\ \A y, z \in R : y # z => RunSpan(y) \cap RunSpan(z) = {}
      BY <1>2 DEF SlicesOk
<1>5. x \notin L
  <2>1. SUFFICES ASSUME x \in R PROVE FALSE
        BY <1>1 DEF Runs
  <2>2. RunSpan(x) \subseteq RunOwn(R)
        BY <2>1, RunOwnFacts
  <2> QED BY <1>1, <1>4, <2>2
<1>6. RunOwn(R2) = RunOwn(R) \cup E
      BY <1>1, RunOwnFacts
<1>7. \A y, z \in R2 : y # z => RunSpan(y) \cap RunSpan(z) = {}
  <2>1. \A y \in R : RunSpan(y) \subseteq RunOwn(R)
        BY RunOwnFacts
  <2> HIDE DEF R
  <2> QED BY <1>1, <1>4, <2>1
<1>8. SlicesOk(hh, R2, {})
  <2> DEFINE F == {}
  <2>1. RunOwn(R2) \cup F = RunOwn(R) \cup E /\ RunOwn(R2) \cap F = {}
        BY <1>6
  <2> HIDE DEF F, R2, R
  <2>2. SlicesOk(hh, R2, F)
        BY <1>2, <1>7, <2>1, SwapRuns
  <2> QED BY <2>2 DEF F
<1>9. Typed(L \cup {x})
      BY <1>1, <1>2 DEF Typed
<1>10. Sound(hh, L \cup {x}, {}, {})
  <2>1. Sound(hh, L, {}, E)
        BY DEF E
  <2> QED BY <1>3, <1>8, <1>9, <2>1, SoundRuns
<1> QED BY <1>1, <1>5, <1>10 DEF x

\* The header-less allocation.
LEMMA AllocHugeKeeps ==
    ASSUME NEW hh, NEW L, Sound(hh, L, {}, {}), NEW l \in Layouts, Classify(l) = Huge,
           NEW top, NEW r \in HeapAllocHuge(hh, l, top)
    PROVE  LET x == [addr |-> r.addr, lay |-> l]
           IN  /\ \/ r.addr = NoAddr /\ Sound(r.h, L, {}, {})
                  \/ r.addr # NoAddr /\ x \notin L /\ Sound(r.h, L \cup {x}, {}, {})
               /\ Resort(hh, r.h, {}, HugeSlices(l), HugeAlign(l))
               /\ \A p \in DOMAIN r.h.pages :
                      p \in DOMAIN hh.pages /\ SameBlocks(r.h.pages[p], hh.pages[p])
<1> DEFINE n == HugeSlices(l)
           m == HugeAlign(l)
<1>1. n \in Nat \ {0} /\ m \in Nat \ {0}
      BY ClassIs
<1>2. PICK o \in AcquireRun(hh, n, m, top) :
         r = Result(o.h, IF o.start = NoSlice THEN NoAddr ELSE o.start * SliceWords)
      BY DEF HeapAllocHuge
<1>3. r.h = o.h /\ r.addr = IF o.start = NoSlice THEN NoAddr ELSE o.start * SliceWords
      BY <1>2 DEF Result
<1>4. /\ \/ o.start = NoSlice /\ Sound(o.h, L, {}, {})
         \/ /\ o.start \in Nat /\ o.start % m = 0
            /\ Sound(o.h, L, {}, Span(o.start, n))
      /\ Resort(hh, o.h, {}, n, m)
      /\ \A p \in DOMAIN o.h.pages :
             p \in DOMAIN hh.pages /\ SameBlocks(o.h.pages[p], hh.pages[p])
  <2> HIDE DEF n, m
  <2> QED BY <1>1, AcquireKeeps
<1>5. CASE o.start = NoSlice
  <2>1. Sound(o.h, L, {}, {})
        BY <1>4, <1>5 DEF NoSlice
  <2> QED BY <1>3, <1>4, <1>5, <2>1
<1>6. CASE o.start # NoSlice
  <2> DEFINE x == [addr |-> o.start * SliceWords, lay |-> l]
  <2>1. o.start \in Nat /\ o.start % m = 0 /\ Sound(o.h, L, {}, Span(o.start, n))
        BY <1>4, <1>6
  <2>2. Sound(o.h, L \cup {x}, {}, {}) /\ x \notin L /\ x.addr # NoAddr
        BY <2>1, RunJoins
  <2>3. r.addr = x.addr /\ [addr |-> r.addr, lay |-> l] = x
        BY <1>3, <1>6
  <2> HIDE DEF x
  <2> QED BY <1>3, <1>4, <2>2, <2>3
<1> QED BY <1>5, <1>6

-----------------------------------------------------------------------------
(* alloc.                                                                  *)

\* The run a layout asks the slice layer for.
RunOf(l)   == IF Classify(l) = Huge THEN HugeSlices(l) ELSE PageSlices[Classify(l)]
AlignOf(l) == IF Classify(l) = Huge THEN HugeAlign(l) ELSE PageSlices[Classify(l)]

\* From hh to gg memory did not grow, or nothing else could serve l.
LastResort(hh, gg, l) ==
    gg.end # hh.end =>
        /\ NoneEmpty(gg)
        /\ Classify(l) # Huge => \A p \in DOMAIN hh.pages :
               hh.pages[p].bin = Classify(l) => ~HasRoom(hh.pages[p])
        /\ Fits([hh.sl EXCEPT !.free = FreeOrEmpty(hh)], RunOf(l), AlignOf(l)) = {}

\* What an allocation comes to.
Allocated(L, l, r) ==
    LET x == [addr |-> r.addr, lay |-> l]
    IN  \/ r.addr = NoAddr /\ Sound(r.h, L, {}, {})
        \/ r.addr # NoAddr /\ x \notin L /\ Sound(r.h, L \cup {x}, {}, {})

\* An empty page is a run that fits a page of its bin.
LEMMA EmptyPageFits ==
    ASSUME NEW hh, NEW L, NEW X, NEW E, Sound(hh, L, X, E), NEW p \in DOMAIN hh.pages,
           AllFree(hh.pages[p]), NEW b, hh.pages[p].bin = b
    PROVE  Fits([hh.sl EXCEPT !.free = FreeOrEmpty(hh)], PageSlices[b], PageSlices[b]) # {}
<1> DEFINE F == FreeOrEmpty(hh)
           m == [hh.sl EXCEPT !.free = F]
<1>1. hh \in Heaps /\ p % PageSlices[b] = 0
      BY DEF Sound, SlicesOk
<1>2. hh.pages[p] \in PageRec /\ p \in Nat /\ hh.sl \in Maps
      BY <1>1, TableOf, HeapFields
<1>3. p \in PageSpan(hh.pages[p], p) /\ PageSpan(hh.pages[p], p) = Span(p, PageSlices[b])
      BY <1>2, PageSpanFacts
<1>4. PageSpan(hh.pages[p], p) \subseteq F
      BY DEF FreeOrEmpty
<1>5. m.free = F
      BY <1>2 DEF Maps
<1> HIDE DEF F, m
<1>6. p \in m.free /\ Span(p, PageSlices[b]) \subseteq m.free
      BY <1>3, <1>4, <1>5
<1>7. p \in Fits(m, PageSlices[b], PageSlices[b])
      BY <1>1, <1>6 DEF Fits
<1> QED BY <1>7 DEF m, F

\* Counting a search.
Counted(hh) == [hh EXCEPT !.count = NextCount(@)]

LEMMA CountedSound ==
    ASSUME NEW hh, NEW L, Sound(hh, L, {}, {})
    PROVE  Sound(Counted(hh), L, {}, {}) /\ Tidied(hh, Counted(hh))
<1> DEFINE gg == Counted(hh)
<1>1. hh \in Heaps /\ QueuesOk(hh, {}) /\ Settled(hh, {}) /\ Bounded(hh)
      BY DEF Sound
<1>2. NextCount(hh.count) \in Nat
      BY <1>1, HeapFields DEF NextCount
<1>3. /\ gg \in Heaps /\ gg.pages = hh.pages /\ gg.sl = hh.sl /\ gg.end = hh.end
      /\ gg.foreign = hh.foreign /\ gg.inited = hh.inited
      /\ gg.queues = hh.queues /\ gg.occupied = hh.occupied /\ gg.direct = hh.direct
      BY <1>1, <1>2 DEF Heaps, Counted
<1> HIDE DEF gg
<1>4. Tidied(hh, gg)
  <2>1. \A p \in DOMAIN gg.pages : SameBlocks(gg.pages[p], hh.pages[p])
        BY <1>3 DEF SameBlocks
  <2> QED BY <1>1, <1>3, <2>1, TidiedInPlace
<1>5. QueuesOk(gg, {}) /\ Settled(gg, {}) /\ Bounded(gg)
      BY <1>1, <1>3, SameTables
<1>6. Sound(gg, L, {}, {})
      BY <1>4, <1>5, TidiedSound
<1> QED BY <1>4, <1>6 DEF gg

\* alloc_generic.
LEMMA SearchKeeps ==
    ASSUME NEW hh, NEW L, Sound(hh, L, {}, {}), NEW l \in Layouts, Classify(l) # Huge,
           NEW r \in Search(hh, Classify(l))
    PROVE  Allocated(L, l, r) /\ LastResort(hh, r.h, l) /\ r.h.end >= hh.end
<1> DEFINE b  == Classify(l)
           n  == PageSlices[b]
           h1 == Counted(hh)
           h2 == IF h1.count = 0 THEN CollectRetired(h1) ELSE h1
<1>1. b \in Bins /\ hh.inited
      BY ClassIs DEF Sound
<1>2. PICK f \in FindPage(h2, b) :
         r = IF f.page = NoPage THEN Result(f.h, NoAddr) ELSE PopBlock(f.h, f.page)
  <2>1. EnsureInit(hh) = hh
        BY <1>1 DEF EnsureInit
  <2> QED BY <2>1 DEF Search, Counted
<1>3. Sound(h1, L, {}, {}) /\ Tidied(hh, h1)
      BY CountedSound
<1> HIDE DEF h1
<1>4. Sound(h2, L, {}, {}) /\ (h2 = h1 \/ Tidied(h1, h2))
  <2>1. h1 \in Heaps /\ QueuesOk(h1, {}) /\ Settled(h1, {}) /\ Bounded(h1)
        BY <1>3 DEF Sound
  <2> DEFINE gg == CollectRetired(h1)
  <2>2. Tidied(h1, gg) /\ QueuesOk(gg, {}) /\ Settled(gg, {}) /\ Bounded(gg)
        BY <2>1, CollectTidies
  <2> HIDE DEF gg
  <2>3. Sound(gg, L, {}, {})
        BY <1>3, <2>2, TidiedSound
  <2> QED BY <1>3, <2>2, <2>3 DEF gg
<1> HIDE DEF h2
<1>5. /\ \/ f.page = NoPage /\ Sound(f.h, L, {}, {})
         \/ f.page # NoPage /\ Supplied(f.h, L, f.page, b)
      /\ Resort(h2, f.h, {f.page}, n, n)
      /\ f.h.end # h2.end => \A p \in DOMAIN h2.pages :
             h2.pages[p].bin = b => ~HasRoom(h2.pages[p])
  <2> HIDE DEF b
  <2> QED BY <1>1, <1>4, FindPageKeeps
<1>6. Resort(hh, f.h, {f.page}, n, n)
  <2>1. Resort(h1, f.h, {f.page}, n, n)
        BY <1>4, <1>5, ResortAfterTidying
  <2> QED BY <1>3, <2>1, ResortAfterTidying
<1>7. h2.end = hh.end
      BY <1>3, <1>4 DEF Tidied
<1>8. ASSUME f.h.end # hh.end, NEW p \in DOMAIN hh.pages, hh.pages[p].bin = b,
             HasRoom(hh.pages[p])
      PROVE  FALSE
  <2>1. ~AllFree(hh.pages[p])
    <3>1. Fits([hh.sl EXCEPT !.free = FreeOrEmpty(hh)], n, n) = {}
          BY <1>6, <1>8 DEF Resort
    <3> HIDE DEF b
    <3> QED BY <1>8, <3>1, EmptyPageFits
  <2>2. p \in DOMAIN h1.pages /\ SameBlocks(h1.pages[p], hh.pages[p])
        BY <1>3, <2>1 DEF Tidied, Gone
  <2>3. p \in DOMAIN h2.pages /\ SameBlocks(h2.pages[p], hh.pages[p])
    <3>1. CASE h2 = h1
          BY <2>2, <3>1
    <3>2. CASE Tidied(h1, h2)
      <4>1. ~AllFree(h1.pages[p])
            BY <2>1, <2>2 DEF SameBlocks, AllFree
      <4>2. p \in DOMAIN h2.pages /\ SameBlocks(h2.pages[p], h1.pages[p])
            BY <2>2, <3>2, <4>1 DEF Tidied, Gone
      <4> QED BY <2>2, <4>2 DEF SameBlocks
    <3> QED BY <1>4, <3>1, <3>2
  <2>4. HasRoom(h2.pages[p]) /\ h2.pages[p].bin = b
        BY <1>8, <2>3 DEF SameBlocks, HasRoom, HasFree, Expandable
  <2> QED BY <1>5, <1>7, <1>8, <2>3, <2>4
<1>9. RunOf(l) = n /\ AlignOf(l) = n
      BY DEF RunOf, AlignOf
<1>10. ASSUME NEW gg, gg.end = f.h.end, NoneEmpty(gg) \/ f.h.end = hh.end
       PROVE  LastResort(hh, gg, l)
      BY <1>6, <1>8, <1>9, <1>10 DEF LastResort, Resort
<1>11. CASE f.page = NoPage
  <2>1. r.h = f.h /\ r.addr = NoAddr /\ Sound(f.h, L, {}, {})
        BY <1>2, <1>5, <1>11 DEF Result
  <2>2. NoneEmpty(f.h) \/ f.h.end = hh.end
    <3>1. \A p \in DOMAIN f.h.pages : p # NoPage
      <4>1. \A p \in DOMAIN f.h.pages : p \in Nat
            BY <2>1, TableOf DEF Sound
      <4> QED BY <4>1 DEF NoPage
    <3> QED BY <1>6, <1>11, <3>1 DEF Resort, NoneEmpty
  <2>3. Allocated(L, l, r)
        BY <2>1 DEF Allocated
  <2>4. LastResort(hh, f.h, l)
        BY <1>10, <2>2
  <2> QED BY <1>6, <2>1, <2>3, <2>4 DEF Resort
<1>12. CASE f.page # NoPage
  <2> DEFINE p == f.page
             x == [addr |-> r.addr, lay |-> l]
  <2>1. /\ Sound(f.h, L, {p}, {}) /\ p \in DOMAIN f.h.pages
        /\ f.h.pages[p].bin = Classify(l) /\ HasFree(f.h.pages[p])
        BY <1>5, <1>12 DEF Supplied
  <2>2. r = PopBlock(f.h, p)
        BY <1>2, <1>12
  <2>3. /\ Sound(r.h, L \cup {x}, {}, {}) /\ x \notin L /\ r.addr # NoAddr
        /\ r.h.end = f.h.end
        /\ DOMAIN r.h.pages = DOMAIN f.h.pages /\ ~AllFree(r.h.pages[p])
        /\ \A q \in DOMAIN f.h.pages : q # p => r.h.pages[q] = f.h.pages[q]
    <3> HIDE DEF b
    <3> QED BY <2>1, <2>2, PopKeeps
  <2>4. NoneEmpty(r.h) \/ f.h.end = hh.end
        BY <1>6, <2>3 DEF Resort, NoneEmpty
  <2>5. Allocated(L, l, r)
        BY <2>3 DEF Allocated
  <2>6. LastResort(hh, r.h, l)
        BY <1>10, <2>3, <2>4
  <2> QED BY <1>6, <2>3, <2>5, <2>6 DEF Resort
<1> QED BY <1>11, <1>12

LEMMA AllocKeeps ==
    ASSUME NEW hh, NEW L, Sound(hh, L, {}, {}), NEW l \in Layouts,
           NEW r \in HeapAlloc(hh, l)
    PROVE  Allocated(L, l, r) /\ LastResort(hh, r.h, l) /\ r.h.end >= hh.end
<1> DEFINE b    == Classify(l)
           head == IF b \in DirectBins THEN hh.direct[b] ELSE HeadOf(hh.queues[b])
<1>1. hh \in Heaps /\ hh.inited /\ QueuesOk(hh, {}) /\ hh.end \in Nat
      BY HeapFields DEF Sound
<1>2. CASE b = Huge
  <2>1. r \in HeapAllocHuge(hh, l, FALSE)
    <3>1. EnsureInit(hh) = hh
          BY <1>1 DEF EnsureInit
    <3> QED BY <1>2, <3>1 DEF HeapAlloc
  <2>2. /\ Allocated(L, l, r) /\ Resort(hh, r.h, {}, HugeSlices(l), HugeAlign(l))
        BY <1>2, <2>1, AllocHugeKeeps DEF Allocated
  <2>3. LastResort(hh, r.h, l)
        BY <1>2, <2>2 DEF Resort, LastResort, RunOf, AlignOf, NoneEmpty
  <2> QED BY <2>2, <2>3 DEF Resort
<1>3. CASE b # Huge /\ head # NoPage /\ HasFree(hh.pages[head])
  <2>1. b \in Bins /\ b \in Queues
        BY <1>3, ClassIs, BinFacts
  <2>2. head = HeadOf(hh.queues[b]) /\ hh.queues[b] \in Seq(Nat)
        BY <1>1, <2>1, HeapFields DEF QueuesOk
  <2>3. head \in Elements(hh.queues[b])
    <3> HIDE DEF head
    <3>1. hh.queues[b] # <<>>
          BY <1>3, <2>2 DEF HeadOf
    <3> QED BY <2>2, <3>1, SeqFacts
  <2>4. head \in DOMAIN hh.pages /\ QueueOf(hh.pages[head]) = b
        BY <1>1, <2>1, <2>3 DEF QueuesOk
  <2>5. hh.pages[head].bin = b
        BY <2>1, <2>4, BinFacts DEF QueueOf
  <2>6. r = PopBlock(hh, head)
        BY <1>3 DEF HeapAlloc
  <2> HIDE DEF head
  <2>7. Sound(hh, L, {head}, {})
        BY DEF Sound, Settled
  <2>8. /\ Sound(r.h, L \cup {[addr |-> r.addr, lay |-> l]}, {}, {})
        /\ [addr |-> r.addr, lay |-> l] \notin L /\ r.addr # NoAddr
        /\ r.h.end = hh.end
        BY <1>3, <2>4, <2>5, <2>6, <2>7, PopKeeps
  <2> QED BY <1>1, <2>8 DEF Allocated, LastResort
<1>4. CASE b # Huge /\ ~(head # NoPage /\ HasFree(hh.pages[head]))
  <2>1. r \in Search(hh, b)
        BY <1>4 DEF HeapAlloc
  <2> QED BY <1>4, <2>1, SearchKeeps
<1> QED BY <1>2, <1>3, <1>4

-----------------------------------------------------------------------------
(* dealloc.                                                                *)

\* But for page p, which may be empty or, though flagged, have room.
AllBut(hh, L, p) ==
    /\ hh \in Heaps /\ hh.inited
    /\ QueuesOk(hh, {}) /\ SlicesOk(hh, Runs(L), {}) /\ BlocksOk(hh, L)
    /\ Bounded(hh) /\ Typed(L)
    /\ p \in DOMAIN hh.pages
    /\ hh.pages[p].full => hh.pages[p].expire = 0
    /\ \A q \in DOMAIN hh.pages : q # p =>
          /\ hh.pages[q].full => ~HasRoom(hh.pages[q]) /\ hh.pages[q].expire = 0
          /\ AllFree(hh.pages[q]) => hh.pages[q].expire # 0 /\ ~hh.pages[q].full

LEMMA AllButSound ==
    ASSUME NEW hh, NEW L, NEW p, AllBut(hh, L, p),
           ~hh.pages[p].full, AllFree(hh.pages[p]) => hh.pages[p].expire # 0
    PROVE  Sound(hh, L, {}, {})
<1>1. Settled(hh, {})
      BY DEF AllBut, Settled
<1> QED BY <1>1 DEF AllBut, Sound

\* Where masking takes a live block: to the page that holds it.
LEMMA BlockFound ==
    ASSUME NEW hh, NEW L, NEW X, NEW E, Sound(hh, L, X, E), NEW x \in Small(L)
    PROVE  LET p == HeaderOf(Classify(x.lay), x.addr)
               i == BlockIndex(p, hh.pages[p].bin, x.addr)
           IN  /\ p \in DOMAIN hh.pages /\ i \in Nat /\ Holds(hh, p, i, x)
               /\ ~AllFree(hh.pages[p])
               /\ x.lay \in Layouts /\ Classify(x.lay) \in Bins
<1>1. /\ hh \in Heaps /\ SlicesOk(hh, Runs(L), E) /\ BlocksOk(hh, L) /\ Typed(L)
      BY DEF Sound
<1>2. x.lay \in Layouts /\ Classify(x.lay) # Huge
      BY <1>1 DEF Small, Typed
<1>3. Classify(x.lay) \in Bins
      BY <1>2, ClassIs
<1>4. PICK q \in DOMAIN hh.pages : \E k \in Nat : Holds(hh, q, k, x)
      BY <1>1 DEF BlocksOk
<1>5. PICK k \in Nat : Holds(hh, q, k, x)
      BY <1>4
<1>6. /\ InUse(hh, q, k) /\ x.addr = BlockAddr(q, hh.pages[q].bin, k)
      /\ PageSlices[Classify(x.lay)] = PageSlices[hh.pages[q].bin]
      BY <1>5 DEF Holds
<1>7. /\ BlockIndex(q, hh.pages[q].bin, x.addr) = k /\ ~AllFree(hh.pages[q])
      /\ HeaderOf(Classify(x.lay), x.addr) = q
      BY <1>1, <1>3, <1>6, HoldsFacts
<1> QED BY <1>2, <1>3, <1>5, <1>7

\* push: the block leaves the program.
LEMMA PushKeeps ==
    ASSUME NEW hh, NEW L, Sound(hh, L, {}, {}), NEW x \in Small(L),
           NEW p \in DOMAIN hh.pages, NEW i \in Nat, Holds(hh, p, i, x)
    PROVE  LET gg == WithPage(hh, p, Pushed(hh.pages[p], i))
           IN  /\ AllBut(gg, L \ {x}, p) /\ gg.end = hh.end
               /\ DOMAIN gg.pages = DOMAIN hh.pages
               /\ gg.pages[p].expire = hh.pages[p].expire
               /\ gg.pages[p].full = hh.pages[p].full
               /\ \A q \in DOMAIN hh.pages : q # p => gg.pages[q] = hh.pages[q]
<1> DEFINE pg == hh.pages[p]
           b  == pg.bin
           ng == Pushed(pg, i)
           gg == WithPage(hh, p, ng)
           M  == L \ {x}
<1>1. /\ hh \in Heaps /\ QueuesOk(hh, {}) /\ SlicesOk(hh, Runs(L), {}) /\ BlocksOk(hh, L)
      /\ Settled(hh, {}) /\ Bounded(hh) /\ Typed(L) /\ hh.inited
      BY DEF Sound
<1>2. pg \in PageRec /\ PageOk(pg) /\ p \in Nat
      BY <1>1, TableOf DEF BlocksOk
<1>3. /\ i \in 0 .. (pg.cap - 1) /\ i \notin Elements(pg.free)
      /\ x.addr = BlockAddr(p, b, i)
      BY DEF Holds, InUse
<1>4. /\ ng \in PageRec /\ PageOk(ng) /\ HasFree(ng)
      /\ ng.bin = b /\ ng.cap = pg.cap /\ ng.full = pg.full
      /\ ng.expire = pg.expire /\ ng.used + 1 = pg.used
      /\ Elements(ng.free) = {i} \cup Elements(pg.free)
  <2> HIDE DEF pg
  <2> QED BY <1>2, <1>3, PushPage
<1> HIDE DEF ng, gg
<1>5. /\ gg \in Heaps /\ Rest(gg) = Rest(hh)
      /\ DOMAIN gg.pages = DOMAIN hh.pages /\ gg.pages[p] = ng
      /\ \A q \in DOMAIN hh.pages : q # p => gg.pages[q] = hh.pages[q]
      BY <1>1, <1>4, WithPageFields DEF gg
<1>6. QueuesOk(gg, {}) /\ SlicesOk(gg, Runs(L), {})
  <2>1. hh \in Heaps /\ QueuesOk(hh, {}) /\ SlicesOk(hh, Runs(L), {})
        BY <1>1
  <2> QED BY <1>4, <2>1, WithPageKeeps DEF gg
<1>7. /\ \A q \in DOMAIN hh.pages : gg.pages[q].bin = hh.pages[q].bin
      /\ \A q \in DOMAIN hh.pages : \A k :
            InUse(gg, q, k) <=> InUse(hh, q, k) /\ ~(q = p /\ k = i)
  <2>1. \A k : InUse(gg, p, k) <=> InUse(hh, p, k) /\ k # i
        BY <1>4, <1>5 DEF InUse
  <2> QED BY <1>4, <1>5, <2>1 DEF InUse
<1>8. /\ Small(M) = Small(L) \ {x} /\ Runs(M) = Runs(L)
  <2>1. Classify(x.lay) # Huge
        BY DEF Small
  <2> QED BY <2>1, SmallOf
<1>9. Typed(M)
      BY <1>1 DEF Typed
<1>10. \A y, z \in Small(L) : y.addr = z.addr => y = z
      BY <1>1 DEF BlocksOk
<1>11. BlocksOk(gg, M)
  <2>1. \A q \in DOMAIN gg.pages : PageOk(gg.pages[q])
        BY <1>1, <1>4, <1>5 DEF BlocksOk
  <2>2. ASSUME NEW y \in Small(L) \ {x}
        PROVE  \E q \in DOMAIN gg.pages : \E k \in Nat : Holds(gg, q, k, y)
    <3>1. PICK q \in DOMAIN hh.pages : \E k \in Nat : Holds(hh, q, k, y)
          BY <1>1 DEF BlocksOk
    <3>2. PICK k \in Nat : Holds(hh, q, k, y)
          BY <3>1
    <3>3. ~(q = p /\ k = i)
      <4>1. y.addr # x.addr
            BY <1>10
      <4> QED BY <1>3, <3>2, <4>1 DEF Holds
    <3>4. Holds(gg, q, k, y)
          BY <1>7, <3>2, <3>3 DEF Holds
    <3> QED BY <1>5, <3>4
  <2>3. ASSUME NEW q \in DOMAIN gg.pages, NEW k \in Nat, InUse(gg, q, k)
        PROVE  \E y \in Small(L) \ {x} : y.addr = BlockAddr(q, gg.pages[q].bin, k)
    <3>1. q \in DOMAIN hh.pages /\ InUse(hh, q, k) /\ ~(q = p /\ k = i)
          BY <1>5, <1>7, <2>3
    <3>2. PICK y \in Small(L) : y.addr = BlockAddr(q, hh.pages[q].bin, k)
          BY <1>1, <3>1 DEF BlocksOk
    <3>3. y # x
      <4>1. SUFFICES ASSUME y = x PROVE FALSE
            OBVIOUS
      <4>2. BlockAddr(p, hh.pages[p].bin, i) = BlockAddr(q, hh.pages[q].bin, k)
            BY <1>3, <3>2, <4>1
      <4>3. InUse(hh, p, i)
            BY DEF Holds
      <4>4. /\ i \in 0 .. (Reserved[hh.pages[p].bin] - 1)
            /\ k \in 0 .. (Reserved[hh.pages[q].bin] - 1)
            BY <1>1, <3>1, <4>3, HoldsFacts
      <4>5. p = q /\ i = k
            BY <1>1, <3>1, <4>2, <4>4, BlocksApart
      <4> QED BY <3>1, <4>5
    <3> QED BY <1>7, <3>1, <3>2, <3>3
  <2>4. \A y, z \in Small(L) \ {x} : y.addr = z.addr => y = z
        BY <1>10
  <2> QED BY <1>8, <2>1, <2>2, <2>3, <2>4 DEF BlocksOk
<1>12. Bounded(gg)
  <2>1. ASSUME NEW c \in Bins, NEW y \in Counting(gg, c) PROVE y \in Counting(hh, c)
        BY <1>4, <1>5 DEF Counting
  <2> QED BY <1>1, <2>1, BoundedShrinks
<1>13. gg.inited /\ gg.end = hh.end
       BY <1>1, <1>5 DEF Rest
<1>14. /\ gg.pages[p].full => gg.pages[p].expire = 0
       /\ \A q \in DOMAIN gg.pages : q # p =>
             /\ gg.pages[q].full => ~HasRoom(gg.pages[q]) /\ gg.pages[q].expire = 0
             /\ AllFree(gg.pages[q]) => gg.pages[q].expire # 0 /\ ~gg.pages[q].full
       BY <1>1, <1>4, <1>5 DEF Settled
<1>15. AllBut(gg, M, p)
  <2>1. SlicesOk(gg, Runs(M), {})
        BY <1>6, <1>8
  <2> HIDE DEF M
  <2> QED BY <1>5, <1>6, <1>9, <1>11, <1>12, <1>13, <1>14, <2>1 DEF AllBut
<1> QED BY <1>4, <1>5, <1>13, <1>15 DEF gg, ng

\* retire.
LEMMA RetireKeeps ==
    ASSUME NEW hh, NEW L, NEW p, AllBut(hh, L, p),
           ~hh.pages[p].full, AllFree(hh.pages[p])
    PROVE  LET gg == Retire(hh, p)
           IN  /\ Sound(gg, L, {}, {}) /\ gg.end = hh.end
               /\ \A q \in DOMAIN gg.pages : q \in DOMAIN hh.pages
                                             /\ SameBlocks(gg.pages[q], hh.pages[q])
<1> DEFINE pg    == hh.pages[p]
           b     == pg.bin
           bsize == BlockSize[b]
           count == Len(hh.queues[b])
           e     == IF bsize <= SmallMax THEN RetireSmall ELSE RetireOther
           ng    == [pg EXCEPT !.expire = e]
           t     == [hh.pages EXCEPT ![p] = ng]
           lo    == Least(hh.retiredMin, b)
           hi    == Greatest(hh.retiredMax, b)
           h1    == Ranged(hh, t, lo, hi)
           keep  == count <= RetireMaxPages /\ (count = 1 \/ bsize < DirectMax)
           gg    == Retire(hh, p)
<1>1. /\ hh \in Heaps /\ hh.inited
      /\ QueuesOk(hh, {}) /\ SlicesOk(hh, Runs(L), {}) /\ BlocksOk(hh, L)
      /\ Bounded(hh) /\ Typed(L) /\ p \in DOMAIN hh.pages
      /\ \A q \in DOMAIN hh.pages : q # p =>
          /\ hh.pages[q].full => ~HasRoom(hh.pages[q]) /\ hh.pages[q].expire = 0
          /\ AllFree(hh.pages[q]) => hh.pages[q].expire # 0 /\ ~hh.pages[q].full
      BY DEF AllBut
<1>2. pg \in PageRec /\ p \in Nat /\ b \in Bins /\ b \in Queues /\ b \in Nat
      BY <1>1, TableOf, PageFields, BinFacts
<1>3. QueueOf(pg) = b /\ p \in Elements(hh.queues[b]) /\ hh.queues[b] \in Seq(Nat)
  <2>1. QueueOf(pg) = b
        BY DEF QueueOf
  <2> QED BY <1>1, <1>2, <2>1, HeapFields DEF QueuesOk
<1>4. CASE keep
  <2>1. /\ hh.pages \in PageTables /\ hh.retiredMin \in Nat /\ hh.retiredMax \in Nat
        /\ hh.pages = [q \in DOMAIN hh.pages |-> hh.pages[q]]
        BY <1>1, HeapFields, PageTableFacts
  <2>2. gg = h1
    <3>1. Retire(hh, p) = [hh EXCEPT !.pages[p].expire = e, !.retiredMin = Least(@, b),
                                     !.retiredMax = Greatest(@, b)]
          BY <1>4 DEF Retire
    <3> QED BY <2>1, <3>1 DEF Ranged
  <2>3. e \in Nat \ {0}
        BY ConstantFacts
  <2>4. ng \in PageRec /\ SameBlocks(ng, pg) /\ ng.full = pg.full /\ ng.expire = e
    <3> HIDE DEF e, pg
    <3> QED BY <1>2, <2>3 DEF PageRec, SameBlocks
  <2>5. h1 \in Heaps /\ h1.pages = t /\ h1.sl = hh.sl /\ h1.end = hh.end
        /\ h1.foreign = hh.foreign /\ h1.inited = hh.inited
        /\ h1.queues = hh.queues /\ h1.occupied = hh.occupied /\ h1.direct = hh.direct
    <3>1. t \in PageTables
      <4>1. WithPage(hh, p, ng).pages = t /\ WithPage(hh, p, ng) \in Heaps
        <5>1. WithPage(hh, p, ng) = [hh EXCEPT !.pages = t]
              BY DEF WithPage
        <5> HIDE DEF t, ng
        <5>2. WithPage(hh, p, ng) \in Heaps
              BY <1>1, <2>4, WithPageFields
        <5> QED BY <1>1, <5>1, <5>2 DEF Heaps
      <4> HIDE DEF t, ng
      <4> QED BY <4>1, HeapFields
    <3>2. lo \in Nat /\ hi \in Nat
          BY <1>2, <2>1 DEF Least, Greatest
    <3>3. hh \in Heaps
          BY <1>1
    <3> HIDE DEF t, lo, hi
    <3> QED BY <3>1, <3>2, <3>3, RangedFields
  <2>6. /\ DOMAIN t = DOMAIN hh.pages /\ t[p] = ng
        /\ \A q \in DOMAIN hh.pages : q # p => t[q] = hh.pages[q]
        BY <1>1, <2>1
  <2> HIDE DEF t, h1, ng, e, gg
  <2>7. \A q \in DOMAIN hh.pages : /\ SameBlocks(gg.pages[q], hh.pages[q])
                                   /\ gg.pages[q].full = hh.pages[q].full
                                   /\ gg.pages[q].bin = hh.pages[q].bin
        BY <2>2, <2>4, <2>5, <2>6 DEF SameBlocks
  <2>8. Tidied(hh, gg)
        BY <1>1, <2>2, <2>5, <2>6, <2>7, TidiedInPlace
  <2>9. QueuesOk(gg, {})
        BY <1>1, <2>2, <2>5, <2>6, <2>7, SameQueues
  <2>10. /\ ~gg.pages[p].full /\ gg.pages[p].expire # 0
         /\ \A q \in DOMAIN hh.pages : q # p => gg.pages[q] = hh.pages[q]
         /\ DOMAIN gg.pages = DOMAIN hh.pages
        BY <2>2, <2>3, <2>4, <2>5, <2>6
  <2>11. Bounded(gg)
    <3>1. ASSUME NEW c \in Bins, c # b
          PROVE  IsFiniteSet(Counting(gg, c)) /\ Cardinality(Counting(gg, c)) <= RetireBound(c)
      <4>1. Counting(gg, c) = Counting(hh, c)
        <5>1. \A q : q \in Counting(gg, c) <=> q \in Counting(hh, c)
              BY <2>7, <2>10, <3>1 DEF Counting
        <5> QED BY <5>1
      <4> QED BY <1>1, <4>1 DEF Bounded
    <3>2. IsFiniteSet(Counting(gg, b)) /\ Cardinality(Counting(gg, b)) <= RetireBound(b)
      <4>1. \A q \in Counting(gg, b) : ~gg.pages[q].full
            BY <1>1, <2>10 DEF Counting
      <4>2. gg \in Heaps /\ gg.queues = hh.queues
            BY <2>2, <2>5
      <4> HIDE DEF b
      <4>3. IsFiniteSet(Counting(gg, b)) /\ Cardinality(Counting(gg, b)) <= Len(hh.queues[b])
            BY <1>2, <2>9, <4>1, <4>2, BoundedByQueue
      <4>4. Len(hh.queues[b]) \in Nat /\ Cardinality(Counting(gg, b)) \in Nat
            BY <1>3, <4>3, FS_CardinalityType
      <4>5. Len(hh.queues[b]) <= RetireBound(b)
        <5>1. count <= RetireMaxPages /\ (count = 1 \/ BlockSize[b] < DirectMax)
              BY <1>4 DEF b
        <5>2. CASE BlockSize[b] < DirectMax
              BY <5>1, <5>2 DEF RetireBound
        <5>3. CASE ~(BlockSize[b] < DirectMax)
          <6>1. count = 1
                BY <5>1, <5>3
          <6>2. RetireBound(b) = 1
                BY <5>3 DEF RetireBound
          <6> QED BY <6>1, <6>2, 1 <= 1
        <5> QED BY <5>2, <5>3
      <4>6. RetireBound(b) \in Nat
            BY ConstantFacts DEF RetireBound
      <4> QED BY <4>3, <4>4, <4>5, <4>6
    <3> QED BY <3>1, <3>2 DEF Bounded
  <2>12. Settled(gg, {})
        BY <1>1, <2>10 DEF Settled
  <2>13. BlocksOk(gg, L) /\ SlicesOk(gg, Runs(L), {})
        BY <1>1, <2>8, TidiedBlocks, TidiedSlices
  <2>14. Sound(gg, L, {}, {}) /\ gg.end = hh.end
        BY <1>1, <2>2, <2>5, <2>9, <2>11, <2>12, <2>13 DEF Sound
  <2> QED BY <2>7, <2>10, <2>14 DEF gg
<1>5. CASE ~keep
  <2> DEFINE S == Only(b, {p})
  <2>1. gg = FreePages(hh, S)
        BY <1>5 DEF Retire
  <2>2. S[b] = {p} /\ (\A r \in Queues : r # b => S[r] = {}) /\ UNION {S[r] : r \in Queues} = {p}
        BY <1>2, OnlyFacts
  <2> HIDE DEF S, gg
  <2>3. \A q \in Queues : /\ S[q] \subseteq Elements(hh.queues[q])
                          /\ \A x \in S[q] : AllFree(hh.pages[x])
        BY <1>3, <2>2
  <2>4. \A q \in DOMAIN hh.pages : SameBlocks(hh.pages[q], hh.pages[q])
                                   /\ hh.pages[q].full = hh.pages[q].full
        BY DEF SameBlocks
  <2>5. /\ Tidied(hh, gg) /\ QueuesOk(gg, {})
        /\ DOMAIN gg.pages = DOMAIN hh.pages \ UNION {S[q] : q \in Queues}
        /\ \A q \in DOMAIN gg.pages : gg.pages[q] = hh.pages[q]
        BY <1>1, <2>1, <2>3, <2>4, FreeingTidies
  <2>6. DOMAIN gg.pages = DOMAIN hh.pages \ {p}
        BY <2>2, <2>5
  <2>7. Settled(gg, {})
        BY <1>1, <2>5, <2>6 DEF Settled
  <2>8. Bounded(gg)
    <3>1. ASSUME NEW c \in Bins, NEW x \in Counting(gg, c) PROVE x \in Counting(hh, c)
          BY <2>5, <2>6 DEF Counting
    <3> QED BY <1>1, <3>1, BoundedShrinks
  <2>9. BlocksOk(gg, L) /\ SlicesOk(gg, Runs(L), {})
        BY <1>1, <2>5, TidiedBlocks, TidiedSlices
  <2>10. gg \in Heaps /\ gg.inited /\ gg.end = hh.end
        BY <1>1, <2>5 DEF Tidied
  <2>11. Sound(gg, L, {}, {})
        BY <1>1, <2>5, <2>7, <2>8, <2>9, <2>10 DEF Sound
  <2> QED BY <2>4, <2>5, <2>6, <2>10, <2>11 DEF gg
<1> QED BY <1>4, <1>5

\* Back from the full queue.
LEMMA UnfullSound ==
    ASSUME NEW hh, NEW L, NEW p, AllBut(hh, L, p), hh.pages[p].full
    PROVE  LET gg == Unfull(hh, p)
           IN  /\ AllBut(gg, L, p) /\ ~gg.pages[p].full /\ gg.end = hh.end
               /\ \A q \in DOMAIN gg.pages : q \in DOMAIN hh.pages
                                             /\ SameBlocks(gg.pages[q], hh.pages[q])
<1> DEFINE gg == Unfull(hh, p)
           ng == [hh.pages[p] EXCEPT !.full = FALSE]
<1>1. /\ hh \in Heaps /\ hh.inited
      /\ QueuesOk(hh, {}) /\ SlicesOk(hh, Runs(L), {}) /\ BlocksOk(hh, L)
      /\ Bounded(hh) /\ Typed(L) /\ p \in DOMAIN hh.pages
      /\ hh.pages[p].full => hh.pages[p].expire = 0
      /\ \A q \in DOMAIN hh.pages : q # p =>
          /\ hh.pages[q].full => ~HasRoom(hh.pages[q]) /\ hh.pages[q].expire = 0
          /\ AllFree(hh.pages[q]) => hh.pages[q].expire # 0 /\ ~hh.pages[q].full
      BY DEF AllBut
<1>2. /\ gg \in Heaps /\ Rest(gg) = Rest(hh)
      /\ DOMAIN gg.pages = DOMAIN hh.pages
      /\ gg.pages[p] = ng
      /\ \A x \in DOMAIN hh.pages : x # p => gg.pages[x] = hh.pages[x]
      /\ QueuesOk(gg, {})
      BY <1>1, UnfullKeeps
<1>3. ~ng.full /\ ng.expire = hh.pages[p].expire /\ SameBlocks(ng, hh.pages[p])
      BY <1>1, TableOf DEF PageRec, SameBlocks
<1> HIDE DEF gg, ng
<1>4. /\ gg.sl = hh.sl /\ gg.end = hh.end /\ gg.foreign = hh.foreign
      /\ gg.inited = hh.inited
      BY <1>2 DEF Rest
<1>5. \A q \in DOMAIN gg.pages : q \in DOMAIN hh.pages
                                 /\ SameBlocks(gg.pages[q], hh.pages[q])
      BY <1>2, <1>3 DEF SameBlocks
<1>6. Tidied(hh, gg)
      BY <1>1, <1>2, <1>4, <1>5, TidiedInPlace
<1>7. BlocksOk(gg, L) /\ SlicesOk(gg, Runs(L), {})
      BY <1>1, <1>6, TidiedBlocks, TidiedSlices
<1>8. Bounded(gg)
  <2>1. ASSUME NEW c \in Bins, NEW y \in Counting(gg, c) PROVE y \in Counting(hh, c)
        BY <1>2, <1>3, <1>5 DEF Counting, SameBlocks
  <2> QED BY <1>1, <2>1, BoundedShrinks
<1>9. AllBut(gg, L, p)
      BY <1>1, <1>2, <1>3, <1>4, <1>7, <1>8 DEF AllBut
<1> QED BY <1>2, <1>3, <1>4, <1>5, <1>9 DEF gg

\* dealloc_transition.
LEMMA TransitionKeeps ==
    ASSUME NEW hh, NEW L, NEW p, AllBut(hh, L, p)
    PROVE  LET gg == Transition(hh, p)
           IN  /\ Sound(gg, L, {}, {}) /\ gg.end = hh.end
               /\ \A q \in DOMAIN gg.pages : q \in DOMAIN hh.pages
                                             /\ SameBlocks(gg.pages[q], hh.pages[q])
<1> DEFINE h1 == IF hh.pages[p].full THEN Unfull(hh, p) ELSE hh
           gg == Transition(hh, p)
<1>1. /\ AllBut(h1, L, p) /\ ~h1.pages[p].full /\ h1.end = hh.end
      /\ \A q \in DOMAIN h1.pages : q \in DOMAIN hh.pages
                                    /\ SameBlocks(h1.pages[q], hh.pages[q])
  <2>1. CASE hh.pages[p].full
        BY <2>1, UnfullSound
  <2>2. CASE ~hh.pages[p].full
        BY <2>2 DEF SameBlocks
  <2> QED BY <2>1, <2>2
<1>2. gg = IF AllFree(h1.pages[p]) THEN Retire(h1, p) ELSE h1
      BY DEF Transition
<1> HIDE DEF h1, gg
<1>3. /\ Sound(gg, L, {}, {}) /\ gg.end = h1.end
      /\ \A q \in DOMAIN gg.pages : q \in DOMAIN h1.pages
                                    /\ SameBlocks(gg.pages[q], h1.pages[q])
  <2>1. CASE AllFree(h1.pages[p])
        BY <1>1, <1>2, <2>1, RetireKeeps
  <2>2. CASE ~AllFree(h1.pages[p])
    <3>1. Sound(h1, L, {}, {})
          BY <1>1, <2>2, AllButSound
    <3> QED BY <1>2, <2>2, <3>1 DEF SameBlocks
  <2> QED BY <2>1, <2>2
<1>4. \A q \in DOMAIN gg.pages : q \in DOMAIN hh.pages
                                 /\ SameBlocks(gg.pages[q], hh.pages[q])
      BY <1>1, <1>3 DEF SameBlocks
<1> QED BY <1>1, <1>3, <1>4 DEF gg

\* A run leaves the program for the slices nobody has.
LEMMA RunLeaves ==
    ASSUME NEW hh, NEW L, Sound(hh, L, {}, {}), NEW x \in Runs(L)
    PROVE  Sound(hh, L \ {x}, {}, RunSpan(x))
<1> DEFINE R  == Runs(L)
           R2 == R \ {x}
           E  == RunSpan(x)
           F  == {}
<1>1. SlicesOk(hh, R, F) /\ Typed(L)
      BY DEF Sound
<1>2. Classify(x.lay) = Huge
      BY DEF Runs
<1>3. Small(L \ {x}) = Small(L) /\ Runs(L \ {x}) = R2
      BY <1>2, SmallOf
<1>4. \A y, z \in R : y # z => RunSpan(y) \cap RunSpan(z) = {}
      BY <1>1 DEF SlicesOk
<1>5. RunOwn(R2) = RunOwn(R) \ E /\ E \subseteq RunOwn(R)
  <2> HIDE DEF R
  <2>1. x \in R
        BY DEF R
  <2> QED BY <1>4, <2>1, RunOwnFacts
<1>6. RunOwn(R2) \cup E = RunOwn(R) \cup F /\ RunOwn(R2) \cap E = {}
      BY <1>5
<1>7. \A y, z \in R2 : y # z => RunSpan(y) \cap RunSpan(z) = {}
      BY <1>4
<1>8. SlicesOk(hh, R2, E)
  <2> HIDE DEF R, R2, E, F
  <2> QED BY <1>1, <1>6, <1>7, SwapRuns
<1>9. Typed(L \ {x})
      BY <1>1 DEF Typed
<1> QED BY <1>3, <1>8, <1>9, SoundRuns

\* dealloc.
LEMMA DeallocKeeps ==
    ASSUME NEW hh, NEW L, Sound(hh, L, {}, {}), NEW x \in L
    PROVE  LET gg == HeapDealloc(hh, x.addr, x.lay)
           IN  /\ Sound(gg, L \ {x}, {}, {}) /\ gg.end = hh.end
               /\ \A q \in DOMAIN gg.pages :
                      \/ q \in DOMAIN hh.pages /\ SameBlocks(gg.pages[q], hh.pages[q])
                      \/ /\ Classify(x.lay) # Huge
                         /\ q = HeaderOf(Classify(x.lay), x.addr)
<1> DEFINE gg == HeapDealloc(hh, x.addr, x.lay)
<1>1. CASE Classify(x.lay) = Huge
  <2>1. gg = Freed(hh, RunSpan(x))
        BY <1>1 DEF HeapDealloc, Freed, RunSpan
  <2>2. Sound(hh, L \ {x}, {}, RunSpan(x))
        BY <1>1, RunLeaves DEF Runs
  <2>3. Sound(gg, L \ {x}, {}, {}) /\ gg.end = hh.end /\ gg.pages = hh.pages
    <3> HIDE DEF gg
    <3> QED BY <2>1, <2>2, FreedSound
  <2> HIDE DEF gg
  <2>4. \A q \in DOMAIN gg.pages :
            q \in DOMAIN hh.pages /\ SameBlocks(gg.pages[q], hh.pages[q])
        BY <2>3 DEF SameBlocks
  <2> QED BY <2>3, <2>4 DEF gg
<1>2. CASE Classify(x.lay) # Huge
  <2> DEFINE p  == HeaderOf(Classify(x.lay), x.addr)
             i  == BlockIndex(p, hh.pages[p].bin, x.addr)
             h1 == WithPage(hh, p, Pushed(hh.pages[p], i))
  <2>1. x \in Small(L)
        BY <1>2 DEF Small
  <2>2. p \in DOMAIN hh.pages /\ i \in Nat /\ Holds(hh, p, i, x)
        BY <2>1, BlockFound
  <2>3. gg = IF NeedsTransition(h1.pages[p]) THEN Transition(h1, p) ELSE h1
    <3>1. [hh EXCEPT !.pages[p] = Pushed(@, i)] = h1
          BY DEF WithPage
    <3> QED BY <1>2, <3>1 DEF HeapDealloc
  <2> HIDE DEF p, i, gg
  <2>4. /\ AllBut(h1, L \ {x}, p) /\ h1.end = hh.end
        /\ DOMAIN h1.pages = DOMAIN hh.pages
        /\ \A q \in DOMAIN hh.pages : q # p => h1.pages[q] = hh.pages[q]
        BY <2>1, <2>2, PushKeeps
  <2> HIDE DEF h1
  <2>5. /\ Sound(gg, L \ {x}, {}, {}) /\ gg.end = h1.end
        /\ \A q \in DOMAIN gg.pages : q \in DOMAIN h1.pages
                                      /\ SameBlocks(gg.pages[q], h1.pages[q])
    <3>1. CASE NeedsTransition(h1.pages[p])
          BY <2>3, <2>4, <3>1, TransitionKeeps
    <3>2. CASE ~NeedsTransition(h1.pages[p])
      <4>1. ~h1.pages[p].full /\ (AllFree(h1.pages[p]) => h1.pages[p].expire # 0)
            BY <3>2 DEF NeedsTransition, AllFree
      <4>2. Sound(h1, L \ {x}, {}, {})
            BY <2>4, <4>1, AllButSound
      <4> QED BY <2>3, <3>2, <4>2 DEF SameBlocks
    <3> QED BY <3>1, <3>2
  <2>6. \A q \in DOMAIN gg.pages : q # p =>
            q \in DOMAIN hh.pages /\ SameBlocks(gg.pages[q], hh.pages[q])
        BY <2>4, <2>5
  <2> QED BY <1>2, <2>4, <2>5, <2>6 DEF gg, p
<1> QED BY <1>1, <1>2

-----------------------------------------------------------------------------
(* realloc.                                                                *)

\* From hh to gg memory did not grow, or no page stayed that was empty.
GivenUp(hh, gg) ==
    gg.end # hh.end =>
        \A p \in (DOMAIN hh.pages) \cap DOMAIN gg.pages :
            AllFree(hh.pages[p]) => ~AllFree(gg.pages[p])

\* The new block y and the blocks L were live in the same sound heap.
Beside(L, y) == y \notin L /\ \E gg : Sound(gg, L \cup {y}, {}, {})

\* What a reallocation of x for the layout l comes to.
Reallocated(hh, L, x, l, r) ==
    /\ \/ r.addr = NoAddr /\ Sound(r.h, L, {}, {})
       \/ /\ r.addr # NoAddr
          /\ Sound(r.h, (L \ {x}) \cup {[addr |-> r.addr, lay |-> l]}, {}, {})
    /\ r.addr \notin {NoAddr, x.addr} => Beside(L, [addr |-> r.addr, lay |-> l])
    /\ r.h.end >= hh.end /\ GivenUp(hh, r.h)

\* The block moves.
LEMMA MoveKeeps ==
    ASSUME NEW hh, NEW L, Sound(hh, L, {}, {}), NEW x \in L, NEW l \in Layouts,
           NEW r \in MoveBlock(hh, x.addr, x.lay, l)
    PROVE  /\ Reallocated(hh, L, x, l, r)
           /\ Classify(x.lay) = Huge /\ Classify(l) = Huge =>
                  \A p \in DOMAIN r.h.pages :
                      p \in DOMAIN hh.pages /\ SameBlocks(r.h.pages[p], hh.pages[p])
<1> DEFINE A == IF Classify(l) = Huge THEN HeapAllocHuge(hh, l, TRUE) ELSE HeapAlloc(hh, l)
<1>1. PICK a \in A : r = IF a.addr = NoAddr THEN a
                         ELSE Result(HeapDealloc(a.h, x.addr, x.lay), a.addr)
      BY DEF MoveBlock
<1>2. /\ Allocated(L, l, a) /\ a.h.end >= hh.end
      /\ a.h.end # hh.end => NoneEmpty(a.h)
      /\ Classify(l) = Huge =>
             \A p \in DOMAIN a.h.pages :
                 p \in DOMAIN hh.pages /\ SameBlocks(a.h.pages[p], hh.pages[p])
  <2>1. CASE Classify(l) = Huge
    <3>1. a \in HeapAllocHuge(hh, l, TRUE)
          BY <2>1
    <3> QED BY <2>1, <3>1, AllocHugeKeeps DEF Allocated, Resort, NoneEmpty
  <2>2. CASE Classify(l) # Huge
    <3>1. a \in HeapAlloc(hh, l)
          BY <2>2
    <3> QED BY <2>2, <3>1, AllocKeeps DEF LastResort
  <2> QED BY <2>1, <2>2
<1> HIDE DEF A
<1>3. CASE a.addr = NoAddr
  <2>1. r = a /\ Sound(a.h, L, {}, {})
        BY <1>1, <1>2, <1>3 DEF Allocated
  <2> QED BY <1>2, <1>3, <2>1 DEF Reallocated, GivenUp, NoneEmpty
<1>4. CASE a.addr # NoAddr
  <2> DEFINE y  == [addr |-> a.addr, lay |-> l]
             M  == L \cup {y}
             gg == HeapDealloc(a.h, x.addr, x.lay)
  <2>1. Sound(a.h, M, {}, {}) /\ y \notin L
        BY <1>2, <1>4 DEF Allocated
  <2>2. r.h = gg /\ r.addr = a.addr
        BY <1>1, <1>4 DEF Result
  <2> HIDE DEF y
  <2>3. x \in M /\ M \ {x} = (L \ {x}) \cup {y}
        BY <2>1
  <2> HIDE DEF M, gg
  <2>4. /\ Sound(gg, M \ {x}, {}, {}) /\ gg.end = a.h.end
        /\ \A q \in DOMAIN gg.pages :
               \/ q \in DOMAIN a.h.pages /\ SameBlocks(gg.pages[q], a.h.pages[q])
               \/ /\ Classify(x.lay) # Huge
                  /\ q = HeaderOf(Classify(x.lay), x.addr)
        BY <2>1, <2>3, DeallocKeeps DEF gg
  <2>5. Classify(x.lay) # Huge => ~AllFree(hh.pages[HeaderOf(Classify(x.lay), x.addr)])
        BY BlockFound DEF Small
  <2>6. GivenUp(hh, gg)
    <3>1. SUFFICES ASSUME gg.end # hh.end, NEW q \in DOMAIN hh.pages,
                          q \in DOMAIN gg.pages, AllFree(hh.pages[q])
                   PROVE  ~AllFree(gg.pages[q])
          BY DEF GivenUp
    <3>2. q \in DOMAIN a.h.pages /\ SameBlocks(gg.pages[q], a.h.pages[q])
          BY <2>4, <2>5, <3>1
    <3>3. ~AllFree(a.h.pages[q])
          BY <1>2, <2>4, <3>1, <3>2 DEF NoneEmpty
    <3> QED BY <3>2, <3>3 DEF AllFree, SameBlocks
  <2>7. Reallocated(hh, L, x, l, r)
    <3>1. Beside(L, y)
          BY <2>1 DEF Beside, M
    <3> QED BY <1>2, <1>4, <2>2, <2>3, <2>4, <2>6, <3>1 DEF Reallocated, y
  <2>8. Classify(x.lay) = Huge /\ Classify(l) = Huge =>
           \A p \in DOMAIN gg.pages :
               p \in DOMAIN hh.pages /\ SameBlocks(gg.pages[p], hh.pages[p])
        BY <1>2, <2>4 DEF SameBlocks
  <2> QED BY <2>2, <2>7, <2>8
<1> QED BY <1>3, <1>4

\* A block takes a layout its page still serves.
LEMMA SmallSwap ==
    ASSUME NEW hh, NEW L, Sound(hh, L, {}, {}), NEW x \in Small(L), NEW l \in Layouts,
           l.align = x.lay.align, Classify(l) # Huge, Classify(l) <= Classify(x.lay),
           PageSlices[Classify(l)] = PageSlices[Classify(x.lay)]
    PROVE  Sound(hh, (L \ {x}) \cup {[addr |-> x.addr, lay |-> l]}, {}, {})
<1> DEFINE y == [addr |-> x.addr, lay |-> l]
           K == L \ {x}
           M == K \cup {y}
           S == Small(L)
<1>1. /\ y.addr = x.addr /\ y.lay = l /\ y = [addr |-> y.addr, lay |-> y.lay]
      /\ y.lay.align = x.lay.align
      OBVIOUS
<1>2. /\ hh \in Heaps /\ SlicesOk(hh, Runs(L), {}) /\ BlocksOk(hh, L) /\ Typed(L)
      BY DEF Sound
<1>3. x \in L /\ Classify(x.lay) # Huge /\ x.lay \in Layouts
      BY <1>2 DEF Small, Typed
<1>4. /\ Classify(l) \in Bins /\ Classify(x.lay) \in Bins
      BY <1>3, ClassIs
<1> HIDE DEF y
<1>5. Small(M) = (S \ {x}) \cup {y} /\ Runs(M) = Runs(L)
  <2>1. Small(K) = S \ {x} /\ Runs(K) = Runs(L)
        BY <1>3, SmallOf
  <2> HIDE DEF K, S
  <2>2. Small(K \cup {y}) = Small(K) \cup {y} /\ Runs(K \cup {y}) = Runs(K)
        BY <1>1, SmallOf
  <2> QED BY <2>1, <2>2
<1>6. Typed(M)
      BY <1>1, <1>2, <1>3 DEF Typed
<1> HIDE DEF M
<1>7. /\ \A p \in DOMAIN hh.pages : PageOk(hh.pages[p])
      /\ \A z \in S : \E p \in DOMAIN hh.pages : \E i \in Nat : Holds(hh, p, i, z)
      /\ \A w, z \in S : w.addr = z.addr => w = z
      /\ \A p \in DOMAIN hh.pages : \A i \in Nat :
            InUse(hh, p, i) => \E z \in S : z.addr = BlockAddr(p, hh.pages[p].bin, i)
      BY <1>2 DEF BlocksOk
<1> HIDE DEF S
<1>8. x \in S
      BY DEF S
<1>9. \E p \in DOMAIN hh.pages : \E i \in Nat : Holds(hh, p, i, y)
  <2>1. PICK p \in DOMAIN hh.pages : \E i \in Nat : Holds(hh, p, i, x)
        BY <1>7, <1>8
  <2>2. PICK i \in Nat : Holds(hh, p, i, x)
        BY <2>1
  <2>3. hh.pages[p].bin \in Bins
        BY <1>2, TableOf, PageFields
  <2>4. Classify(l) <= hh.pages[p].bin
    <3>1. Classify(x.lay) <= hh.pages[p].bin
          BY <2>2 DEF Holds
    <3>2. /\ Classify(l) \in Nat /\ Classify(x.lay) \in Nat /\ hh.pages[p].bin \in Nat
          BY <1>4, <2>3, BinFacts
    <3> QED BY <3>1, <3>2
  <2>5. Holds(hh, p, i, y)
        BY <1>1, <2>2, <2>4 DEF Holds
  <2> QED BY <2>5
<1>10. BlocksOk(hh, M)
  <2>1. ASSUME NEW z \in Small(M)
        PROVE  \E p \in DOMAIN hh.pages : \E i \in Nat : Holds(hh, p, i, z)
        BY <1>5, <1>7, <1>9
  <2>2. \A w, z \in Small(M) : w.addr = z.addr => w = z
        BY <1>1, <1>5, <1>7, <1>8
  <2>3. ASSUME NEW p \in DOMAIN hh.pages, NEW i \in Nat, InUse(hh, p, i)
        PROVE  \E z \in Small(M) : z.addr = BlockAddr(p, hh.pages[p].bin, i)
    <3>1. PICK z \in S : z.addr = BlockAddr(p, hh.pages[p].bin, i)
          BY <1>7, <2>3
    <3>2. CASE z = x
          BY <1>1, <1>5, <3>1, <3>2
    <3>3. CASE z # x
          BY <1>5, <3>1, <3>3
    <3> QED BY <3>2, <3>3
  <2> QED BY <1>7, <2>1, <2>2, <2>3 DEF BlocksOk
<1>11. Sound(hh, M, {}, {})
      BY <1>2, <1>5, <1>6, <1>10 DEF Sound
<1> QED BY <1>11 DEF M, y

\* A run takes a layout, with the slices that it gains or loses.
LEMMA RunSwap ==
    ASSUME NEW hh, NEW L, NEW E, Sound(hh, L, {}, E), NEW x \in Runs(L), NEW l \in Layouts,
           l.align = x.lay.align, Classify(l) = Huge, NEW E2,
           RunSpan([addr |-> x.addr, lay |-> l]) \cup E2 = RunSpan(x) \cup E,
           RunSpan([addr |-> x.addr, lay |-> l]) \cap E2 = {}
    PROVE  Sound(hh, (L \ {x}) \cup {[addr |-> x.addr, lay |-> l]}, {}, E2)
<1> DEFINE y  == [addr |-> x.addr, lay |-> l]
           K  == L \ {x}
           M  == K \cup {y}
           R  == Runs(L)
           R1 == R \ {x}
           R2 == R1 \cup {y}
           A  == RunSpan(x)
           B  == RunSpan(y)
<1>1. /\ y.addr = x.addr /\ y.lay = l /\ y = [addr |-> y.addr, lay |-> y.lay]
      /\ y.lay.align = x.lay.align
      /\ B \cup E2 = A \cup E /\ B \cap E2 = {}
      OBVIOUS
<1> HIDE DEF y, A, B
<1>2. SlicesOk(hh, R, E) /\ Typed(L) /\ x \in R /\ x \in L /\ Classify(x.lay) = Huge
      BY DEF Sound, Runs
<1>3. Small(M) = Small(L) /\ Runs(M) = R2
  <2>1. Small(K) = Small(L) /\ Runs(K) = R1
        BY <1>2, SmallOf
  <2> HIDE DEF K, R1
  <2>2. Small(K \cup {y}) = Small(K) /\ Runs(K \cup {y}) = Runs(K) \cup {y}
        BY <1>1, SmallOf
  <2> QED BY <2>1, <2>2
<1> HIDE DEF R
<1>4. /\ \A w, z \in R : w # z => RunSpan(w) \cap RunSpan(z) = {}
      /\ E \cap RunOwn(R) = {}
      BY <1>2 DEF SlicesOk
<1>5. RunOwn(R1) = RunOwn(R) \ A /\ A \subseteq RunOwn(R)
      BY <1>2, <1>4, RunOwnFacts DEF A
<1>6. RunOwn(R2) = RunOwn(R1) \cup B
  <2> HIDE DEF R1
  <2> QED BY RunOwnFacts DEF B
<1>7. RunOwn(R2) \cup E2 = RunOwn(R) \cup E /\ RunOwn(R2) \cap E2 = {}
      BY <1>1, <1>4, <1>5, <1>6
<1>8. B \cap RunOwn(R1) = {}
      BY <1>1, <1>4, <1>5
<1>9. \A w, z \in R2 : w # z => RunSpan(w) \cap RunSpan(z) = {}
  <2>1. \A w \in R1 : RunSpan(w) \subseteq RunOwn(R1)
    <3> HIDE DEF R1
    <3> QED BY RunOwnFacts
  <2>2. \A w \in R1 : RunSpan(w) \cap B = {}
        BY <1>8, <2>1
  <2> QED BY <1>4, <2>2 DEF B
<1>10. SlicesOk(hh, R2, E2)
  <2> HIDE DEF R2
  <2> QED BY <1>2, <1>7, <1>9, SwapRuns
<1>11. Typed(M)
      BY <1>1, <1>2 DEF Typed
<1>12. Sound(hh, M, {}, E2)
  <2> HIDE DEF M, R2
  <2> QED BY <1>3, <1>10, <1>11, SoundRuns
<1> QED BY <1>12 DEF y

LEMMA SpanSplits ==
    ASSUME NEW s \in Nat, NEW m \in Nat, NEW n \in Nat, m <= n
    PROVE  /\ Span(s, m) \cup Span(s + m, n - m) = Span(s, n)
           /\ Span(s, m) \cap Span(s + m, n - m) = {}
BY DEF Span

\* A live run: where it is and how long.
LEMMA RunFacts ==
    ASSUME NEW hh, NEW L, Sound(hh, L, {}, {}), NEW x \in Runs(L), NEW l \in Layouts
    PROVE  /\ x \in L /\ x.lay \in Layouts /\ Classify(x.lay) = Huge
           /\ x.addr \in Nat /\ x.addr # NoAddr
           /\ x.addr \div SliceWords \in Nat
           /\ HugeSlices(x.lay) \in Nat /\ HugeSlices(l) \in Nat
           /\ RunSpan(x) = Span(x.addr \div SliceWords, HugeSlices(x.lay))
           /\ RunSpan([addr |-> x.addr, lay |-> l])
                  = Span(x.addr \div SliceWords, HugeSlices(l))
<1>1. x \in L /\ x.lay \in Layouts /\ Classify(x.lay) = Huge /\ x.addr \in Nat
      BY DEF Sound, Typed, Runs
<1>2. SliceWords \in Nat \ {0}
      BY ConstantFacts
<1>3. x.addr \div SliceWords \in Nat
      BY <1>1, <1>2, DivFacts
<1>4. HugeSlices(x.lay) \in Nat /\ HugeSlices(l) \in Nat
      BY <1>1, ClassIs
<1>5. x.addr # NoAddr
      BY <1>1 DEF NoAddr
<1> QED BY <1>1, <1>3, <1>4, <1>5 DEF RunSpan

\* The run becomes shorter, or stays.
LEMMA ShrinkKeeps ==
    ASSUME NEW hh, NEW L, Sound(hh, L, {}, {}), NEW x \in Runs(L), NEW l \in Layouts,
           l.align = x.lay.align, Classify(l) = Huge, HugeSlices(l) <= HugeSlices(x.lay)
    PROVE  LET gg == [hh EXCEPT !.sl = Shrink(@, x.addr \div SliceWords,
                                              HugeSlices(x.lay), HugeSlices(l))]
           IN  /\ Sound(gg, (L \ {x}) \cup {[addr |-> x.addr, lay |-> l]}, {}, {})
               /\ gg.end = hh.end
<1> DEFINE s  == x.addr \div SliceWords
           n  == HugeSlices(x.lay)
           m  == HugeSlices(l)
           E  == Span(s + m, n - m)
           y  == [addr |-> x.addr, lay |-> l]
           M  == (L \ {x}) \cup {y}
           gg == [hh EXCEPT !.sl = Shrink(@, s, n, m)]
           F  == {}
<1>1. /\ s \in Nat /\ n \in Nat /\ m \in Nat
      /\ RunSpan(x) = Span(s, n) /\ RunSpan(y) = Span(s, m)
      BY RunFacts
<1>2. gg = Freed(hh, E)
      BY DEF Freed, Shrink
<1>3. m <= n
      OBVIOUS
<1> HIDE DEF s, n, m, gg
<1>4. Span(s, m) \cup E = Span(s, n) /\ Span(s, m) \cap E = {}
      BY <1>1, <1>3, SpanSplits
<1> HIDE DEF E
<1>5. Sound(hh, L, {}, F)
      OBVIOUS
<1>6. RunSpan(y) \cup E = RunSpan(x) \cup F /\ RunSpan(y) \cap E = {}
      BY <1>1, <1>4
<1> HIDE DEF F
<1>7. Sound(hh, M, {}, E)
      BY <1>5, <1>6, RunSwap
<1>8. Sound(gg, M, {}, {}) /\ gg.end = hh.end
  <2> HIDE DEF M
  <2> QED BY <1>2, <1>7, FreedSound
<1> QED BY <1>8 DEF gg, s, n, m

\* The run x was made longer by the outcome o.
Lengthened(hh, L, x, l, o) ==
    LET gg == Lift(hh, o).h
    IN  /\ Sound(gg, (L \ {x}) \cup {[addr |-> x.addr, lay |-> l]}, {}, {})
        /\ gg.pages = hh.pages /\ gg.end = o.end /\ o.end >= hh.end

\* The slices after a run were claimed for it.
LEMMA LongerRun ==
    ASSUME NEW hh, NEW L, Sound(hh, L, {}, {}), NEW x \in Runs(L), NEW l \in Layouts,
           l.align = x.lay.align, Classify(l) = Huge, HugeSlices(x.lay) <= HugeSlices(l), NEW o, NEW wr,
           Served(o, Span(x.addr \div SliceWords + HugeSlices(x.lay),
                          HugeSlices(l) - HugeSlices(x.lay)),
                  hh.end, Held(hh, L, {}), hh.foreign, wr)
    PROVE  Lengthened(hh, L, x, l, o)
<1> DEFINE s  == x.addr \div SliceWords
           n  == HugeSlices(x.lay)
           m  == HugeSlices(l)
           E  == Span(s + n, m - n)
           y  == [addr |-> x.addr, lay |-> l]
           M  == (L \ {x}) \cup {y}
           gg == Lift(hh, o).h
           F  == {}
<1>1. /\ s \in Nat /\ n \in Nat /\ m \in Nat
      /\ RunSpan(x) = Span(s, n) /\ RunSpan(y) = Span(s, m)
      BY RunFacts
<1>2. n <= m /\ Served(o, E, hh.end, Held(hh, L, {}), hh.foreign, wr)
      OBVIOUS
<1> HIDE DEF s, n, m, gg
<1>3. Span(s, n) \cup E = Span(s, m) /\ Span(s, n) \cap E = {}
      BY <1>1, <1>2, SpanSplits
<1> HIDE DEF E
<1>4. Sound(gg, L, {}, E) /\ gg.pages = hh.pages /\ gg.end = o.end
  <2>1. Sound(hh, L, {}, {}) /\ Served(o, E, hh.end, Held(hh, L, {}), hh.foreign, wr)
        BY <1>2
  <2> DEFINE X == {}
  <2>2. Sound(hh, L, X, {})
        BY <2>1
  <2> HIDE DEF X
  <2>3. /\ Sound(Lift(hh, o).h, L, X, E)
        /\ Lift(hh, o).h.pages = hh.pages /\ Lift(hh, o).h.end = o.end
        BY <2>1, <2>2, ServedSound
  <2> QED BY <2>3 DEF gg, X
<1>5. RunSpan(y) \cup F = RunSpan(x) \cup E /\ RunSpan(y) \cap F = {}
      BY <1>1, <1>3
<1>6. Sound(gg, M, {}, F)
  <2> HIDE DEF F
  <2> QED BY <1>4, <1>5, RunSwap
<1>7. o.end >= hh.end
      BY <1>2 DEF Served
<1> QED BY <1>4, <1>6, <1>7 DEF Lengthened, gg

\* With every empty page given up: through growth, or by moving.
LEMMA GrowRunKeeps ==
    ASSUME NEW hh, NEW L, Sound(hh, L, {}, {}), NoneEmpty(hh), NEW x \in Runs(L),
           NEW l \in Layouts, l.align = x.lay.align, Classify(l) = Huge,
           HugeSlices(x.lay) <= HugeSlices(l),
           NEW o \in ExtendWithGrowth(hh.sl, hh.end, x.addr \div SliceWords,
                          HugeSlices(x.lay), HugeSlices(l) - HugeSlices(x.lay)),
           NEW r \in IF o.start # NoSlice THEN {Result(Lift(hh, o).h, x.addr)}
                     ELSE MoveBlock(Lift(hh, o).h, x.addr, x.lay, l)
    PROVE  Reallocated(hh, L, x, l, r) /\ NoneEmpty(r.h)
<1> DEFINE s  == x.addr \div SliceWords
           n  == HugeSlices(x.lay)
           m  == HugeSlices(l)
           y  == [addr |-> x.addr, lay |-> l]
           M  == (L \ {x}) \cup {y}
           gg == Lift(hh, o).h
<1>1. /\ s \in Nat /\ n \in Nat /\ m \in Nat /\ x.addr # NoAddr
      /\ x \in L /\ Classify(x.lay) = Huge /\ hh.end \in Nat
  <2>1. s \in Nat /\ n \in Nat /\ m \in Nat /\ x.addr # NoAddr
        BY RunFacts
  <2>2. x \in L /\ Classify(x.lay) = Huge
        BY DEF Runs
  <2>3. hh.end \in Nat
        BY HeapFields DEF Sound
  <2> QED BY <2>1, <2>2, <2>3
<1>2. m - n \in Nat
  <2>1. n <= m
        OBVIOUS
  <2> HIDE DEF n, m
  <2> QED BY <1>1, <2>1
<1>3. PICK wr \in SUBSET Nat : MapInv(hh.sl, hh.end, Held(hh, L, {}), hh.foreign, wr)
      BY SoundMap
<1>4. \/ /\ o.start = s
         /\ Served(o, Span(s + n, m - n), hh.end, Held(hh, L, {}), hh.foreign, wr)
      \/ Refused(o, hh.sl, hh.end, Held(hh, L, {}), hh.foreign, wr)
  <2>1. o \in ExtendWithGrowth(hh.sl, hh.end, s, n, m - n)
        OBVIOUS
  <2> HIDE DEF s, n, m
  <2> QED BY <1>1, <1>2, <1>3, <2>1, ExtendOutcomes
<1>5. CASE /\ o.start = s
           /\ Served(o, Span(s + n, m - n), hh.end, Held(hh, L, {}), hh.foreign, wr)
  <2>1. o.start # NoSlice
        BY <1>1, <1>5 DEF NoSlice
  <2>2. r.h = gg /\ r.addr = x.addr
        BY <2>1 DEF Result
  <2>3. /\ Sound(gg, M, {}, {}) /\ gg.pages = hh.pages
        /\ gg.end = o.end /\ o.end >= hh.end
    <3>1. Lengthened(hh, L, x, l, o)
          BY <1>5, LongerRun
    <3> QED BY <3>1 DEF Lengthened
  <2> HIDE DEF gg
  <2>4. NoneEmpty(gg) /\ GivenUp(hh, gg)
        BY <2>3 DEF GivenUp, NoneEmpty
  <2> QED BY <1>1, <2>2, <2>3, <2>4 DEF Reallocated
<1>6. CASE Refused(o, hh.sl, hh.end, Held(hh, L, {}), hh.foreign, wr)
  <2>1. o.start = NoSlice /\ o.end >= hh.end
        BY <1>6 DEF Refused
  <2>2. /\ Sound(gg, L, {}, {}) /\ gg.pages = hh.pages /\ gg.end = o.end
        BY <1>6, RefusedSound
  <2>3. r \in MoveBlock(gg, x.addr, x.lay, l)
        BY <2>1
  <2> HIDE DEF gg
  <2>4. /\ Reallocated(gg, L, x, l, r)
        /\ \A p \in DOMAIN r.h.pages :
               p \in DOMAIN gg.pages /\ SameBlocks(r.h.pages[p], gg.pages[p])
        BY <1>1, <2>2, <2>3, MoveKeeps
  <2>5. NoneEmpty(r.h)
        BY <2>2, <2>4 DEF NoneEmpty, AllFree, SameBlocks
  <2>6. GivenUp(hh, r.h)
        BY <2>5 DEF GivenUp, NoneEmpty
  <2>7. r.h.end >= hh.end
    <3>1. gg.end \in Nat /\ r.h.end \in Nat
          BY <2>2, <2>4, HeapFields DEF Sound, Reallocated
    <3>2. r.h.end >= gg.end /\ gg.end >= hh.end
          BY <2>1, <2>2, <2>4 DEF Reallocated
    <3> QED BY <1>1, <3>1, <3>2
  <2> QED BY <2>4, <2>5, <2>6, <2>7 DEF Reallocated
<1> QED BY <1>4, <1>5, <1>6

\* The run becomes longer, through the map, through growth or by moving.
LEMMA ExtendBlockKeeps ==
    ASSUME NEW hh, NEW L, Sound(hh, L, {}, {}), NEW x \in Runs(L), NEW l \in Layouts,
           l.align = x.lay.align, Classify(l) = Huge, HugeSlices(x.lay) <= HugeSlices(l),
           NEW r \in ExtendBlock(hh, x.addr, x.lay, l)
    PROVE  Reallocated(hh, L, x, l, r)
<1> DEFINE s  == x.addr \div SliceWords
           n  == HugeSlices(x.lay)
           m  == HugeSlices(l)
           rr == ReleaseEmptyPages(hh)
           y  == [addr |-> x.addr, lay |-> l]
           M  == (L \ {x}) \cup {y}
<1>0. /\ s \in Nat /\ n \in Nat /\ m \in Nat /\ n <= m
      /\ x.addr # NoAddr /\ x \in L /\ Classify(x.lay) = Huge
  <2>1. /\ s \in Nat /\ n \in Nat /\ m \in Nat
        /\ x.addr # NoAddr /\ x \in L /\ Classify(x.lay) = Huge
    <3>1. s \in Nat /\ n \in Nat /\ m \in Nat /\ x.addr # NoAddr
          BY RunFacts
    <3>2. x \in L /\ Classify(x.lay) = Huge
          BY DEF Runs
    <3> QED BY <3>1, <3>2
  <2>2. n <= m
        OBVIOUS
  <2> QED BY <2>1, <2>2
<1>1. /\ s \in Nat /\ n \in Nat /\ m \in Nat /\ m - n \in Nat
      /\ x.addr # NoAddr /\ x \in L /\ Classify(x.lay) = Huge
  <2> HIDE DEF n, m
  <2> QED BY <1>0
<1>2. hh \in Heaps /\ QueuesOk(hh, {}) /\ Settled(hh, {}) /\ Bounded(hh) /\ hh.end \in Nat
      BY HeapFields DEF Sound
<1> HIDE DEF rr, M
<1>3. CASE CanExtend(hh.sl, s, n, m - n)
  <2>1. PICK o \in TryExtend(hh.sl, hh.end, s, n, m - n) : r = Result(Lift(hh, o).h, x.addr)
        BY <1>3 DEF ExtendBlock
  <2>2. o = Outcome(Claim(hh.sl, Span(s + n, m - n)), hh.end, s,
                    AllZero(hh.sl, Span(s + n, m - n)), {}, 0)
        BY <1>3, <2>1 DEF TryExtend
  <2>3. PICK wr \in SUBSET Nat : MapInv(hh.sl, hh.end, Held(hh, L, {}), hh.foreign, wr)
        BY SoundMap
  <2>4. Served(o, Span(s + n, m - n), hh.end, Held(hh, L, {}), hh.foreign, wr)
    <3> DEFINE e == m - n
               z == AllZero(hh.sl, Span(s + n, e))
    <3>1. e \in Nat /\ CanExtend(hh.sl, s, n, e)
          BY <1>1, <1>3
    <3>2. o = Outcome(Claim(hh.sl, Span(s + n, e)), hh.end, s, z, {}, 0)
          BY <2>2
    <3>3. hh.end <= hh.end
          BY <1>2
    <3> HIDE DEF e, z, s, n, m
    <3>4. Served(o, Span(s + n, e), hh.end, Held(hh, L, {}), hh.foreign, wr)
          BY <1>1, <1>2, <2>3, <3>1, <3>2, <3>3, ExtendTakes
    <3> QED BY <3>4 DEF e
  <2>5. /\ Sound(Lift(hh, o).h, M, {}, {}) /\ Lift(hh, o).h.end = o.end
    <3>1. Lengthened(hh, L, x, l, o)
          BY <2>4, LongerRun
    <3> QED BY <3>1 DEF Lengthened, M
  <2>6. o.end = hh.end
        BY <2>2 DEF Outcome
  <2>7. r.h = Lift(hh, o).h /\ r.addr = x.addr
        BY <2>1 DEF Result
  <2>8. r.h.end = hh.end /\ Sound(r.h, M, {}, {})
        BY <2>5, <2>6, <2>7
  <2>9. GivenUp(hh, r.h) /\ r.h.end >= hh.end
        BY <1>2, <2>8 DEF GivenUp
  <2> QED BY <1>1, <2>7, <2>8, <2>9 DEF Reallocated, M
<1>4. CASE ~CanExtend(hh.sl, s, n, m - n)
  <2>1. PICK o \in ExtendWithGrowth(rr.sl, rr.end, s, n, m - n) :
            r \in IF o.start # NoSlice THEN {Result(Lift(rr, o).h, x.addr)}
                  ELSE MoveBlock(Lift(rr, o).h, x.addr, x.lay, l)
        BY <1>4 DEF ExtendBlock, rr
  <2>2. /\ Tidied(hh, rr) /\ QueuesOk(rr, {}) /\ Settled(rr, {}) /\ Bounded(rr)
        /\ NoneEmpty(rr)
        BY <1>2, ReleaseTidies DEF rr
  <2>3. Sound(rr, L, {}, {}) /\ rr.end = hh.end
        BY <2>2, TidiedSound DEF Tidied
  <2>4. Reallocated(rr, L, x, l, r) /\ NoneEmpty(r.h)
        BY <2>1, <2>2, <2>3, GrowRunKeeps
  <2>5. GivenUp(hh, r.h)
        BY <2>4 DEF GivenUp, NoneEmpty
  <2> QED BY <2>3, <2>4, <2>5 DEF Reallocated
<1> QED BY <1>3, <1>4

\* realloc.
LEMMA ReallocKeeps ==
    ASSUME NEW hh, NEW L, Sound(hh, L, {}, {}), NEW x \in L, NEW l \in Layouts,
           l.align = x.lay.align, NEW r \in HeapRealloc(hh, x.addr, x.lay, l)
    PROVE  Reallocated(hh, L, x, l, r)
<1> DEFINE old == Classify(x.lay)
           cls == Classify(l)
           n   == HugeSlices(x.lay)
           m   == HugeSlices(l)
           M   == (L \ {x}) \cup {[addr |-> x.addr, lay |-> l]}
<1>1. x.lay \in Layouts /\ x.addr # NoAddr /\ hh.end \in Nat
  <2>1. x.lay \in Layouts /\ x.addr \in Nat /\ hh \in Heaps
        BY DEF Sound, Typed
  <2> QED BY <2>1, HeapFields DEF NoAddr
<1>2. ASSUME NEW gg, r = Result(gg, x.addr), Sound(gg, M, {}, {}), gg.end = hh.end
      PROVE  Reallocated(hh, L, x, l, r)
  <2>1. r.h = gg /\ r.addr = x.addr
        BY <1>2 DEF Result
  <2>2. r.h.end >= hh.end /\ GivenUp(hh, r.h)
        BY <1>1, <1>2, <2>1 DEF GivenUp
  <2> QED BY <1>1, <1>2, <2>1, <2>2 DEF Reallocated
<1>3. CASE old # Huge /\ cls # Huge /\ FitsInPlace(old, cls, l.size)
  <2>1. r = Result(hh, x.addr)
        BY <1>3 DEF HeapRealloc
  <2>2. x \in Small(L) /\ old \in Bins /\ cls \in Bins
        BY <1>1, <1>3, ClassIs DEF Small
  <2>3. cls <= old /\ PageSlices[cls] = PageSlices[old]
    <3>1. old \in Nat /\ cls \in Nat
          BY <2>2, BinFacts
    <3> HIDE DEF old, cls
    <3> QED BY <1>3, <3>1 DEF FitsInPlace
  <2>4. Sound(hh, M, {}, {})
        BY <1>3, <2>2, <2>3, SmallSwap
  <2> QED BY <1>2, <2>1, <2>4
<1>4. CASE /\ ~(old # Huge /\ cls # Huge /\ FitsInPlace(old, cls, l.size))
           /\ old # Huge \/ cls # Huge
  <2>1. r \in MoveBlock(hh, x.addr, x.lay, l)
        BY <1>4 DEF HeapRealloc
  <2> QED BY <2>1, MoveKeeps
<1>5. CASE old = Huge /\ cls = Huge /\ m <= n
  <2> DEFINE gg == [hh EXCEPT !.sl = Shrink(@, x.addr \div SliceWords, n, m)]
  <2>1. r = Result(gg, x.addr)
        BY <1>5 DEF HeapRealloc
  <2>2. x \in Runs(L)
        BY <1>5 DEF Runs
  <2>3. Sound(gg, M, {}, {}) /\ gg.end = hh.end
        BY <1>5, <2>2, ShrinkKeeps
  <2> HIDE DEF gg, M
  <2> QED BY <1>2, <2>1, <2>3
<1>6. CASE old = Huge /\ cls = Huge /\ ~(m <= n)
  <2>1. r \in ExtendBlock(hh, x.addr, x.lay, l)
        BY <1>6 DEF HeapRealloc
  <2>2. x \in Runs(L)
        BY <1>6 DEF Runs
  <2>3. n <= m
    <3>1. n \in Nat /\ m \in Nat
          BY <2>2, RunFacts
    <3> QED BY <1>6, <3>1
  <2> QED BY <1>6, <2>1, <2>2, <2>3, ExtendBlockKeeps
<1> QED BY <1>3, <1>4, <1>5, <1>6

-----------------------------------------------------------------------------
(* The steps.                                                              *)

\* Once a call was made, the invariant is Sound.
LEMMA SoundIsInv == ASSUME Sound(h, live, {}, {}) PROVE IInv
BY DEF IInv, Sound

LEMMA SoundIsInvNext == ASSUME Sound(h', live', {}, {}) PROVE IInv'
BY DEF IInv, Sound

\* The heap at rest, initialised or as it is before the first call.
LEMMA AtRest ==
    ASSUME IInv
    PROVE  /\ h \in Heaps /\ h.end \in Nat
           /\ h.inited => Sound(h, live, {}, {})
           /\ ~h.inited => DOMAIN h.pages = {} /\ live = {}
           /\ live # {} => h.inited
<1>1. CASE h.inited
  <2>1. Sound(h, live, {}, {})
        BY <1>1 DEF IInv
  <2> QED BY <1>1, <2>1, HeapFields DEF Sound
<1>2. CASE ~h.inited
  <2>1. h = NewHeap /\ live = {}
        BY <1>2 DEF IInv
  <2>2. DOMAIN h.pages = {}
        BY <1>2, EnsureInitKeeps
  <2> QED BY <1>2, <2>1, <2>2, NewHeapIs, HeapFields
<1> QED BY <1>1, <1>2

\* The first allocation is one on the heap that ensure_init leaves.
LEMMA AllocInits ==
    ASSUME IInv, NEW l \in Layouts
    PROVE  HeapAlloc(h, l) = HeapAlloc(EnsureInit(h), l)
<1> DEFINE g == EnsureInit(h)
           b == Classify(l)
           head(k) == IF b \in DirectBins THEN k.direct[b] ELSE HeadOf(k.queues[b])
<1>1. CASE h.inited
  <2>1. g = h
        BY <1>1 DEF EnsureInit
  <2> QED BY <2>1
<1>2. CASE ~h.inited
  <2>1. /\ h = NewHeap /\ h.queues = [q \in Queues |-> <<>>]
        /\ h.direct = [c \in DirectBins |-> NoPage] /\ h \in Heaps
        BY <1>2, NewHeapIs DEF IInv
  <2>2. g.inited /\ g.queues = h.queues /\ g.direct = h.direct /\ EnsureInit(g) = g
        BY <1>2, <2>1 DEF EnsureInit, Heaps
  <2>3. CASE b = Huge
    <3>1. HeapAlloc(h, l) = HeapAllocHuge(g, l, FALSE)
          BY <2>3 DEF HeapAlloc
    <3>2. HeapAlloc(g, l) = HeapAllocHuge(EnsureInit(g), l, FALSE)
          BY <2>3 DEF HeapAlloc
    <3> QED BY <2>2, <3>1, <3>2
  <2>4. CASE b # Huge
    <3>1. b \in Bins /\ b \in Queues
          BY <2>4, ClassIs, BinFacts
    <3>2. head(h) = NoPage /\ head(g) = NoPage
          BY <2>1, <2>2, <3>1 DEF HeadOf
    <3>3. HeapAlloc(h, l) = Search(h, b) /\ HeapAlloc(g, l) = Search(g, b)
      <4>1. HeapAlloc(h, l) = IF head(h) # NoPage /\ HasFree(h.pages[head(h)])
                              THEN {PopBlock(h, head(h))} ELSE Search(h, b)
            BY <2>4 DEF HeapAlloc
      <4>2. HeapAlloc(g, l) = IF head(g) # NoPage /\ HasFree(g.pages[head(g)])
                              THEN {PopBlock(g, head(g))} ELSE Search(g, b)
            BY <2>4 DEF HeapAlloc
      <4> HIDE DEF head
      <4> QED BY <3>2, <4>1, <4>2
    <3>4. Search(h, b) = Search(g, b)
          BY <2>2 DEF Search
    <3> QED BY <3>3, <3>4
  <2> QED BY <2>3, <2>4
<1> QED BY <1>1, <1>2

\* What an allocation call does.
LEMMA AllocStep ==
    ASSUME IInv, NEW l \in Layouts, AllocCall(l)
    PROVE  /\ Sound(h', live', {}, {})
           /\ LastResort(EnsureInit(h), h', l)
<1>1. PICK r \in HeapAlloc(h, l) :
        /\ h' = r.h
        /\ live' = IF r.addr = NoAddr THEN live
                   ELSE live \cup {[addr |-> r.addr, lay |-> l]}
      BY DEF AllocCall
<1>2. Sound(EnsureInit(h), live, {}, {}) /\ r \in HeapAlloc(EnsureInit(h), l)
      BY <1>1, EnsureInitKeeps, AllocInits
<1>3. Allocated(live, l, r) /\ LastResort(EnsureInit(h), r.h, l)
      BY <1>2, AllocKeeps
<1> QED BY <1>1, <1>3 DEF Allocated

\* What a deallocation call does.
LEMMA DeallocStep ==
    ASSUME IInv, NEW x \in live, DeallocCall(x)
    PROVE  Sound(h', live', {}, {}) /\ h'.end = h.end
<1>1. Sound(h, live, {}, {})
      BY AtRest
<1> QED BY <1>1, DeallocKeeps DEF DeallocCall

\* What a reallocation call does.
LEMMA ReallocStep ==
    ASSUME IInv, NEW x \in live, NEW l \in Layouts, ReallocCall(x, l)
    PROVE  Sound(h', live', {}, {}) /\ GivenUp(h, h')
<1>1. Sound(h, live, {}, {})
      BY AtRest
<1>2. PICK r \in HeapRealloc(h, x.addr, x.lay, l) :
        /\ h' = r.h
        /\ live' = IF r.addr = NoAddr THEN live
                   ELSE (live \ {x}) \cup {[addr |-> r.addr, lay |-> l]}
      BY DEF ReallocCall
<1>3. l.align = x.lay.align
      BY DEF ReallocCall
<1>4. Reallocated(h, live, x, l, r)
      BY <1>1, <1>2, <1>3, ReallocKeeps
<1> QED BY <1>2, <1>4 DEF Reallocated

\* Someone else grew the memory.
LEMMA OtherStep ==
    ASSUME IInv, NEW n \in Gaps, OtherGrow(n)
    PROVE  Sound(h', live', {}, {}) /\ live' = live
<1>1. h.inited /\ n \in Nat /\ h.end + n <= MemMax
      BY SliceAssumption DEF OtherGrow
<1>2. Sound(h, live, {}, {}) /\ h \in Heaps /\ h.end \in Nat
      BY <1>1, AtRest
<1> DEFINE o == Outcome(h.sl, h.end + n, NoSlice, FALSE, Span(h.end, n), 0)
<1>3. /\ o.m = h.sl /\ o.end = h.end + n /\ o.foreign = Span(h.end, n)
      /\ h' = Lift(h, o).h /\ live' = live
      BY <1>2 DEF OtherGrow, Outcome, Lift, Heaps
<1> HIDE DEF o
<1>4. PICK wr \in SUBSET Nat : MapInv(h.sl, h.end, Held(h, live, {}), h.foreign, wr)
      BY <1>2, SoundMap
<1>5. MapInv(h.sl, h.end + n, Held(h, live, {}), h.foreign \cup Span(h.end, n), wr)
      BY <1>1, <1>4, OtherKeeps
<1> DEFINE F == {}
<1>6. /\ MapInv(o.m, o.end, Held(h, live, {}) \cup F, h.foreign \cup o.foreign, wr)
      /\ F \cap Held(h, live, {}) = {}
      BY <1>3, <1>5
<1> HIDE DEF F
<1>7. Took(h, live, o, F)
      BY <1>6 DEF Took
<1>8. Sound(Lift(h, o).h, live, {}, F)
      BY <1>2, <1>7, LiftSound
<1> QED BY <1>3, <1>8 DEF F

\* Every step keeps the invariant.
LEMMA NextIInv == ASSUME IInv, [Next]_vars PROVE IInv'
<1>1. CASE Next
  <2>1. CASE \E l \in Layouts : AllocCall(l)
        BY <2>1, AllocStep, SoundIsInvNext
  <2>2. CASE \E x \in live : DeallocCall(x)
        BY <2>2, DeallocStep, SoundIsInvNext
  <2>3. CASE \E x \in live, l \in Layouts : ReallocCall(x, l)
        BY <2>3, ReallocStep, SoundIsInvNext
  <2>4. CASE \E n \in Gaps \ {0} : OtherGrow(n)
        BY <2>4, OtherStep, SoundIsInvNext
  <2> QED BY <1>1, <2>1, <2>2, <2>3, <2>4 DEF Next
<1>2. CASE UNCHANGED vars
      BY <1>2 DEF vars, IInv
<1> QED BY <1>1, <1>2

LEMMA InitIInv == ASSUME Init PROVE IInv
<1>1. h = NewHeap /\ live = {} /\ ~h.inited
      BY DEF Init, NewHeap
<1> QED BY <1>1 DEF IInv

\* Spec keeps the joint invariant: the heap value is well formed, the queues,
\* the slices, the blocks and the countdowns agree, before and after every call.
THEOREM SpecIInv == Spec => []IInv
<1>1. Init => IInv
      BY InitIInv
<1>2. IInv /\ [Next]_vars => IInv'
      BY NextIInv
<1> QED BY <1>1, <1>2, PTL DEF Spec

-----------------------------------------------------------------------------
(* Queues and countdowns.                                                  *)

LEMMA InvQueues == ASSUME IInv PROVE QueuesValid
<1>1. CASE h.inited
  <2>1. /\ h \in Heaps /\ QueuesOk(h, {}) /\ Settled(h, {}) /\ SlicesOk(h, Runs(live), {})
        BY <1>1 DEF IInv, Sound
  <2>2. ASSUME NEW q \in Queues
        PROVE  /\ Cardinality(Elements(h.queues[q])) = Len(h.queues[q])
               /\ q \in h.occupied <=> h.queues[q] # <<>>
               /\ \A p \in Elements(h.queues[q]) :
                     q = IF h.pages[p].full THEN Full ELSE h.pages[p].bin
    <3>1. h.queues[q] \in Seq(Nat) /\ Distinct(h.queues[q])
          BY <2>1, HeapFields DEF QueuesOk
    <3>2. Cardinality(Elements(h.queues[q])) = Len(h.queues[q])
          BY <3>1, LenIsCard
    <3> QED BY <2>1, <3>2 DEF QueuesOk, QueueOf
  <2>3. ASSUME NEW p \in Pages
        PROVE  /\ p \in Elements(h.queues[IF h.pages[p].full THEN Full ELSE h.pages[p].bin])
               /\ h.pages[p].full => ~HasRoom(h.pages[p])
               /\ p % PageSlices[h.pages[p].bin] = 0
        BY <2>1 DEF Pages, QueuesOk, QueueOf, Settled, SlicesOk
  <2>4. \A b \in DirectBins : h.direct[b] = HeadOf(h.queues[b])
        BY <2>1 DEF QueuesOk
  <2> QED BY <2>2, <2>3, <2>4 DEF QueuesValid
<1>2. CASE ~h.inited
  <2>1. h = NewHeap /\ DOMAIN h.pages = {}
        BY <1>2, AtRest DEF IInv
  <2>2. /\ \A q \in Queues : h.queues[q] = <<>> /\ q \notin h.occupied
        /\ \A b \in DirectBins : h.direct[b] = NoPage
        BY <2>1, NewHeapIs
  <2>3. <<>> \in Seq(Nat) /\ Distinct(<<>>) /\ Elements(<<>>) = {} /\ HeadOf(<<>>) = NoPage
        BY DEF Distinct, Elements, HeadOf
  <2>4. Cardinality(Elements(<<>>)) = Len(<<>>)
        BY <2>3, LenIsCard
  <2>5. DirectBins \subseteq Queues
        BY BinFacts
  <2> QED BY <2>1, <2>2, <2>3, <2>4, <2>5 DEF QueuesValid, Pages
<1> QED BY <1>1, <1>2

\* Between calls every page is in the queue of its bin or, flagged and without
\* room, in the full queue, exactly once; the occupied bits and the direct
\* table say what the queues hold: the fast path never serves a stale page.
THEOREM QueuesStayValid == Spec => []QueuesValid
<1>1. IInv => QueuesValid
      BY InvQueues
<1> QED BY <1>1, SpecIInv, PTL

\* Between calls a page without live blocks has a countdown running and is in
\* the queue of its bin, where collect_retired finds it (review finding R-2).
THEOREM EmptyPagesCountDown == Spec => []EmptyPageCountsDown
<1>1. IInv => EmptyPageCountsDown
  <2>1. SUFFICES ASSUME IInv, NEW p \in Pages, AllFree(h.pages[p])
                 PROVE  h.pages[p].expire # 0 /\ ~h.pages[p].full
        BY DEF EmptyPageCountsDown
  <2>2. h.inited /\ p \in DOMAIN h.pages
        BY <2>1, AtRest DEF Pages
  <2> QED BY <2>1, <2>2, AtRest DEF Sound, Settled
<1> QED BY <1>1, SpecIInv, PTL

\* A bin never keeps more than RetireMaxPages pages with a countdown, nor more
\* than one from DirectMax up, although pages get them in retire, lose them in
\* find_page and keep them on the fast paths.
THEOREM RetiredStayBounded == Spec => []RetiredBounded
<1>1. IInv => RetiredBounded
  <2>1. SUFFICES ASSUME IInv, NEW b \in Bins
                 PROVE  Cardinality(Counting(h, b)) <= RetireBound(b)
        BY DEF RetiredBounded, Counting, RetireBound, Pages
  <2>2. CASE h.inited
        BY <2>1, <2>2, AtRest DEF Sound, Bounded
  <2>3. CASE ~h.inited
    <3>1. Counting(h, b) = {}
          BY <2>1, <2>3, AtRest DEF Counting
    <3>2. RetireBound(b) \in Nat
          BY ConstantFacts DEF RetireBound
    <3> QED BY <3>1, <3>2, FS_EmptySet
  <2> QED BY <2>2, <2>3
<1> QED BY <1>1, SpecIInv, PTL

-----------------------------------------------------------------------------
(* Slices.                                                                 *)

\* Every slice between the base of the map and the end of memory has exactly
\* one owner: the map, a page, a header-less block or another user of
\* memory.grow.  Nothing is lost by release, growth, extension or shrinking.
THEOREM SlicesStayAccounted == Spec => []SlicesAccounted
<1>1. IInv => SlicesAccounted
  <2> DEFINE pageOwn == UNION {PageSpan(h.pages[p], p) : p \in Pages}
             runOwn  == UNION {RunSpan(x) : x \in HugeLive}
  <2> SUFFICES ASSUME IInv PROVE SlicesAccounted
      OBVIOUS
  <2>1. CASE h.inited
    <3>1. HugeLive = Runs(live) /\ pageOwn = PageOwn(h) /\ runOwn = RunOwn(Runs(live))
          BY DEF HugeLive, Runs, PageOwn, RunOwn, Pages
    <3>2. SlicesOk(h, Runs(live), {})
          BY <2>1 DEF IInv, Sound
    <3> DEFINE held == PageOwn(h) \cup RunOwn(Runs(live)) \cup {}
    <3>3. PICK wr \in SUBSET Nat : MapInv(h.sl, h.end, held, h.foreign, wr)
          BY <3>2 DEF SlicesOk, MapOk
    <3>4. held = pageOwn \cup runOwn
          BY <3>1
    <3> HIDE DEF held
    <3>5. /\ h.sl.free \cap held = {} /\ h.foreign \cap (h.sl.free \cup held) = {}
          /\ NoneLost(h.sl, h.end, held, h.foreign)
          /\ h.sl \in Maps /\ h.end \in Nat
          BY <3>3 DEF MapInv
    <3>6. (h.sl.base .. (Least(h.end, UsableLimit(h.sl)) - 1))
              \subseteq (pageOwn \cup runOwn \cup h.sl.free \cup h.foreign)
      <4>1. h.sl.base \in Nat /\ UsableLimit(h.sl) \in Nat
            BY <3>5, Limits
      <4>2. ASSUME NEW x \in h.sl.base .. (Least(h.end, UsableLimit(h.sl)) - 1)
            PROVE  x \in Nat /\ h.sl.base <= x /\ x < h.end /\ x < UsableLimit(h.sl)
            BY <3>5, <4>1 DEF Least
      <4> HIDE DEF pageOwn, runOwn
      <4> QED BY <3>4, <3>5, <4>2 DEF NoneLost
    <3>7. /\ \A p, q \in Pages : p # q =>
                PageSpan(h.pages[p], p) \cap PageSpan(h.pages[q], q) = {}
          /\ \A x, y \in HugeLive : x # y => RunSpan(x) \cap RunSpan(y) = {}
          /\ pageOwn \cap runOwn = {}
          BY <3>1, <3>2 DEF SlicesOk, Pages
    <3> HIDE DEF pageOwn, runOwn
    <3>8. /\ (pageOwn \cup runOwn) \cap (h.sl.free \cup h.foreign) = {}
          /\ h.sl.free \cap h.foreign = {}
          BY <3>4, <3>5
    <3> QED BY <3>6, <3>7, <3>8 DEF SlicesAccounted, pageOwn, runOwn
  <2>2. CASE ~h.inited
    <3>1. Pages = {} /\ HugeLive = {} /\ h = NewHeap
          BY <2>2, AtRest DEF Pages, HugeLive, IInv
    <3>2. h.sl.free = {}
          BY <3>1, NewHeapIs DEF NewMap
    <3> QED BY <2>2, <3>1, <3>2 DEF SlicesAccounted
  <2> QED BY <2>1, <2>2
<1> QED BY <1>1, SpecIInv, PTL

-----------------------------------------------------------------------------
(* Blocks.                                                                 *)

\* The blocks of a page in use: as many as it counts, one for each live block
\* that masking takes to the page.
LEMMA LiveOfPage ==
    ASSUME Sound(h, live, {}, {}), NEW p \in Pages
    PROVE  LET pg  == h.pages[p]
               idx == {BlockIndex(p, pg.bin, x.addr) : x \in LiveIn(p)}
           IN  /\ idx = (0 .. (pg.cap - 1)) \ Elements(pg.free)
               /\ \A x \in LiveIn(p) : Holds(h, p, BlockIndex(p, pg.bin, x.addr), x)
               /\ IsFiniteSet(idx) /\ IsFiniteSet(LiveIn(p))
               /\ Cardinality(idx) = pg.used /\ Cardinality(LiveIn(p)) = pg.used
<1> DEFINE pg    == h.pages[p]
           ix(x) == BlockIndex(p, pg.bin, x.addr)
           S     == LiveIn(p)
           idx   == {ix(x) : x \in S}
           U     == (0 .. (pg.cap - 1)) \ Elements(pg.free)
<1>1. /\ h \in Heaps /\ BlocksOk(h, live) /\ SlicesOk(h, Runs(live), {})
      /\ p \in DOMAIN h.pages
      BY DEF Sound, Pages
<1>2. pg \in PageRec /\ PageOk(pg) /\ pg.cap \in Nat /\ pg.used \in Nat /\ pg.free \in Seq(Nat)
      BY <1>1, TableOf, PageFields DEF BlocksOk
<1>3. ASSUME NEW x \in S PROVE x \in Small(live) /\ ix(x) \in Nat /\ Holds(h, p, ix(x), x)
  <2>1. x \in Small(live) /\ HeaderOf(Classify(x.lay), x.addr) = p
        BY DEF LiveIn, Small
  <2> QED BY <2>1, BlockFound
<1>4. ASSUME NEW i \in U PROVE \E x \in S : ix(x) = i
  <2>1. i \in Nat /\ InUse(h, p, i)
        BY <1>2 DEF InUse
  <2>2. PICK x \in Small(live) : x.addr = BlockAddr(p, h.pages[p].bin, i)
        BY <1>1, <2>1 DEF BlocksOk
  <2> DEFINE q == HeaderOf(Classify(x.lay), x.addr)
             k == BlockIndex(q, h.pages[q].bin, x.addr)
  <2>3. q \in DOMAIN h.pages /\ k \in Nat /\ Holds(h, q, k, x)
        BY BlockFound
  <2> HIDE DEF q, k
  <2>4. InUse(h, q, k) /\ x.addr = BlockAddr(q, h.pages[q].bin, k)
        BY <2>3 DEF Holds
  <2>5. /\ i \in 0 .. (Reserved[h.pages[p].bin] - 1)
        /\ k \in 0 .. (Reserved[h.pages[q].bin] - 1)
        BY <1>1, <2>1, <2>3, <2>4, HoldsFacts
  <2>6. p = q /\ i = k
    <3>1. BlockAddr(p, h.pages[p].bin, i) = BlockAddr(q, h.pages[q].bin, k)
          BY <2>2, <2>4
    <3> QED BY <1>1, <2>3, <2>5, <3>1, BlocksApart
  <2>7. x \in S
        BY <2>6 DEF LiveIn, Small, q
  <2> QED BY <2>6, <2>7 DEF k
<1>5. ASSUME NEW x \in S PROVE ix(x) \in U
      BY <1>2, <1>3 DEF Holds, InUse
<1>6. \A x, y \in S : ix(x) = ix(y) => x = y
      BY <1>1, <1>3 DEF Holds, BlocksOk
<1>7. idx = U
      BY <1>4, <1>5
<1> HIDE DEF U, S
<1>8. IsFiniteSet(U) /\ Cardinality(U) = pg.used
  <2>1. /\ IsFiniteSet(0 .. (pg.cap - 1)) /\ Cardinality(0 .. (pg.cap - 1)) = pg.cap
    <3> DEFINE c == pg.cap
    <3> HIDE DEF c
    <3>1. c \in Nat /\ 0 \in Int /\ c - 1 \in Int
          BY <1>2 DEF c
    <3>2. /\ IsFiniteSet(0 .. (c - 1))
          /\ Cardinality(0 .. (c - 1)) = IF 0 > c - 1 THEN 0 ELSE (c - 1) - 0 + 1
          BY <3>1, FS_Interval
    <3>3. Cardinality(0 .. (c - 1)) = c
          BY <3>1, <3>2
    <3> QED BY <3>2, <3>3 DEF c
  <2>2. /\ Elements(pg.free) \subseteq 0 .. (pg.cap - 1)
        /\ IsFiniteSet(Elements(pg.free)) /\ Cardinality(Elements(pg.free)) = Len(pg.free)
        /\ pg.used + Len(pg.free) = pg.cap /\ Len(pg.free) \in Nat
        BY <1>2, LenIsCard DEF PageOk
  <2>3. (0 .. (pg.cap - 1)) \cap Elements(pg.free) = Elements(pg.free)
        BY <2>2
  <2>4. /\ IsFiniteSet(U)
        /\ Cardinality(U) = Cardinality(0 .. (pg.cap - 1)) - Cardinality(Elements(pg.free))
    <3> DEFINE D == 0 .. (pg.cap - 1)
               F == Elements(pg.free)
    <3>1. IsFiniteSet(D) /\ D \cap F = F /\ U = D \ F
          BY <2>1, <2>3 DEF U
    <3> HIDE DEF D, F
    <3>2. IsFiniteSet(D \ F) /\ Cardinality(D \ F) = Cardinality(D) - Cardinality(D \cap F)
          BY <3>1, FS_Difference
    <3>3. IsFiniteSet(U) /\ Cardinality(U) = Cardinality(D) - Cardinality(F)
          BY <3>1, <3>2
    <3> QED BY <3>3 DEF D, F
  <2> HIDE DEF pg
  <2> QED BY <1>2, <2>1, <2>2, <2>4
<1>9. IsFiniteSet(S) /\ Cardinality(S) = Cardinality(U)
  <2> DEFINE f == [i \in U |-> CHOOSE x \in S : ix(x) = i]
  <2> HIDE DEF ix
  <2>1. \A i \in U : f[i] \in S /\ ix(f[i]) = i
        BY <1>4
  <2>2. f \in [U -> S]
        BY <2>1
  <2>3. \A x \in S : f[ix(x)] = x
        BY <1>5, <1>6, <2>1
  <2> HIDE DEF f
  <2>4. \A i, j \in U : f[i] = f[j] => i = j
        BY <2>1
  <2>5. \A x \in S : \E i \in U : f[i] = x
        BY <1>5, <2>3
  <2> QED BY <1>8, <2>2, <2>4, <2>5, SameCard
<1> QED BY <1>3, <1>7, <1>8, <1>9 DEF U, S

\* A free always finds the page of its block: every live block masks, with its
\* layout's kind and whatever in-place reallocs did to its layout, to a page
\* that holds a block of at least its size at that address, and a page's used
\* count and free list say exactly which of its blocks are live.
THEOREM BlocksStayAccounted == Spec => []BlocksAccounted
<1>1. IInv => BlocksAccounted
  <2> SUFFICES ASSUME IInv PROVE BlocksAccounted
      OBVIOUS
  <2>1. CASE h.inited
    <3>1. Sound(h, live, {}, {})
          BY <2>1, AtRest
    <3>2. \A x \in live : Classify(x.lay) # Huge =>
              HeaderOf(Classify(x.lay), x.addr) \in Pages
          BY <3>1, BlockFound DEF Small, Pages
    <3>3. ASSUME NEW p \in Pages
          PROVE  LET pg  == h.pages[p]
                     idx == {BlockIndex(p, pg.bin, x.addr) : x \in LiveIn(p)}
                 IN  /\ pg.used = Cardinality(LiveIn(p))
                     /\ pg.cap <= Reserved[pg.bin]
                     /\ \A x \in LiveIn(p) :
                           /\ PageSlices[Classify(x.lay)] = PageSlices[pg.bin]
                           /\ x.lay.size <= BlockSize[pg.bin]
                           /\ x.addr = BlockAddr(p, pg.bin,
                                                 BlockIndex(p, pg.bin, x.addr))
                     /\ Cardinality(Elements(pg.free)) = Len(pg.free)
                     /\ idx \cap Elements(pg.free) = {}
                     /\ idx \cup Elements(pg.free) = 0 .. (pg.cap - 1)
                     /\ Cardinality(idx) = pg.used
      <4> DEFINE pg  == h.pages[p]
                 idx == {BlockIndex(p, pg.bin, x.addr) : x \in LiveIn(p)}
      <4>1. pg \in PageRec /\ PageOk(pg) /\ pg.bin \in Bins /\ pg.free \in Seq(Nat)
            BY <3>1, TableOf, PageFields DEF Sound, BlocksOk, Pages
      <4>2. /\ idx = (0 .. (pg.cap - 1)) \ Elements(pg.free)
            /\ \A x \in LiveIn(p) : Holds(h, p, BlockIndex(p, pg.bin, x.addr), x)
            /\ Cardinality(idx) = pg.used /\ Cardinality(LiveIn(p)) = pg.used
            BY <3>1, LiveOfPage
      <4>3. ASSUME NEW x \in LiveIn(p)
            PROVE  /\ PageSlices[Classify(x.lay)] = PageSlices[pg.bin]
                   /\ x.lay.size <= BlockSize[pg.bin]
                   /\ x.addr = BlockAddr(p, pg.bin, BlockIndex(p, pg.bin, x.addr))
        <5>1. Holds(h, p, BlockIndex(p, pg.bin, x.addr), x)
              BY <4>2
        <5>2. x.lay \in Layouts /\ Classify(x.lay) # Huge
              BY <3>1 DEF LiveIn, Sound, Typed
        <5>3. x.lay.size <= BlockSize[pg.bin]
              BY <4>1, <5>1, <5>2, ClassIs DEF Holds
        <5> QED BY <5>1, <5>3 DEF Holds
      <4>4. Cardinality(Elements(pg.free)) = Len(pg.free)
            BY <4>1, LenIsCard DEF PageOk
      <4>5. Elements(pg.free) \subseteq 0 .. (pg.cap - 1) /\ pg.cap <= Reserved[pg.bin]
            BY <4>1 DEF PageOk
      <4> HIDE DEF idx
      <4>6. /\ idx \cap Elements(pg.free) = {}
            /\ idx \cup Elements(pg.free) = 0 .. (pg.cap - 1)
            BY <4>2, <4>5
      <4> QED BY <4>2, <4>3, <4>4, <4>5, <4>6 DEF idx
    <3> QED BY <3>2, <3>3 DEF BlocksAccounted
  <2>2. CASE ~h.inited
        BY <2>2, AtRest DEF BlocksAccounted, Pages
  <2> QED BY <2>1, <2>2
<1> QED BY <1>1, SpecIInv, PTL

-----------------------------------------------------------------------------
(* Growth.                                                                 *)

\* When an allocation or a reallocation makes memory grow, whether it is served
\* or fails in the end, no page stays that was empty before it: linear memory
\* never grows while an empty page could have been given up (review findings R-2
\* and R2-1).
THEOREM GrowthGivesUpEmpty == Spec => GrowthReleasesEmpty
<1> DEFINE Act == (h'.end > h.end /\ ~\E n \in Gaps \ {0} : OtherGrow(n)) =>
                      \A p \in Pages \cap DOMAIN h'.pages : AllFree(h.pages[p]) =>
                          ~AllFree(h'.pages[p])
<1>1. ASSUME IInv, [Next]_vars PROVE Act
  <2>1. SUFFICES ASSUME h'.end > h.end, ~\E n \in Gaps \ {0} : OtherGrow(n),
                        NEW p \in Pages, p \in DOMAIN h'.pages, AllFree(h.pages[p])
                 PROVE  ~AllFree(h'.pages[p])
        OBVIOUS
  <2>2. h.inited /\ h.end \in Nat /\ p \in DOMAIN h.pages
        BY <1>1, AtRest DEF Pages
  <2>3. IInv'
        BY <1>1, NextIInv
  <2>4. Next
        BY <1>1, <2>1, <2>2 DEF vars
  <2>5. CASE \E l \in Layouts : AllocCall(l)
    <3>1. PICK l \in Layouts : AllocCall(l)
          BY <2>5
    <3>2. LastResort(h, h', l) /\ Sound(h', live', {}, {})
      <4>1. EnsureInit(h) = h
            BY <2>2 DEF EnsureInit
      <4> QED BY <1>1, <3>1, <4>1, AllocStep
    <3>3. h'.end # h.end
      <4>1. h'.end \in Nat
            BY <3>2, HeapFields DEF Sound
      <4> QED BY <2>1, <2>2, <4>1
    <3> QED BY <2>1, <3>2, <3>3 DEF LastResort, NoneEmpty
  <2>6. CASE \E x \in live : DeallocCall(x)
    <3>1. h'.end = h.end
          BY <1>1, <2>6, DeallocStep
    <3> QED BY <2>1, <2>2, <3>1
  <2>7. CASE \E x \in live, l \in Layouts : ReallocCall(x, l)
    <3>1. GivenUp(h, h') /\ Sound(h', live', {}, {})
          BY <1>1, <2>7, ReallocStep
    <3>2. h'.end # h.end
      <4>1. h'.end \in Nat
            BY <3>1, HeapFields DEF Sound
      <4> QED BY <2>1, <2>2, <4>1
    <3> QED BY <2>1, <2>2, <3>1, <3>2 DEF GivenUp
  <2>8. CASE \E n \in Gaps \ {0} : OtherGrow(n)
        BY <2>1, <2>8
  <2> QED BY <2>4, <2>5, <2>6, <2>7, <2>8 DEF Next
<1>2. IInv /\ [Next]_vars => Act
      BY <1>1
<1>3. Spec => [][Act]_vars
  <2> HIDE DEF Act
  <2> QED BY <1>2, SpecIInv, PTL DEF Spec
<1> QED BY <1>3 DEF GrowthReleasesEmpty

\* An allocation grows memory only if no page of its bin had room, wherever in
\* the queues it was, and no aligned run that would do was free or lay under
\* empty pages: every other source was exhausted first.
THEOREM GrowthStaysLastResort == Spec => GrowthIsLastResort
<1> DEFINE Act == \A l \in Layouts : (h'.end > h.end /\ h.inited /\ AllocCall(l)) =>
                    LET b     == Classify(l)
                        n     == IF b = Huge THEN HugeSlices(l) ELSE PageSlices[b]
                        align == IF b = Huge THEN HugeAlign(l) ELSE n
                    IN  /\ b # Huge => \A p \in Pages :
                              h.pages[p].bin = b => ~HasRoom(h.pages[p])
                        /\ Fits([h.sl EXCEPT !.free = Available], n, align) = {}
<1>1. ASSUME IInv PROVE Act
  <2>1. SUFFICES ASSUME NEW l \in Layouts, h'.end > h.end, h.inited, AllocCall(l)
                 PROVE  /\ Classify(l) # Huge => \A p \in Pages :
                               h.pages[p].bin = Classify(l) => ~HasRoom(h.pages[p])
                        /\ Fits([h.sl EXCEPT !.free = Available], RunOf(l), AlignOf(l)) = {}
        BY DEF RunOf, AlignOf
  <2>2. LastResort(h, h', l) /\ Sound(h', live', {}, {})
    <3>1. EnsureInit(h) = h
          BY <2>1 DEF EnsureInit
    <3> QED BY <1>1, <2>1, <3>1, AllocStep
  <2>3. h'.end # h.end
    <3>1. h'.end \in Nat /\ h.end \in Nat
          BY <1>1, <2>2, AtRest, HeapFields DEF Sound
    <3> QED BY <2>1, <3>1
  <2>4. Available = FreeOrEmpty(h)
        BY DEF Available, FreeOrEmpty, Pages
  <2> QED BY <2>2, <2>3, <2>4 DEF LastResort, Pages
<1>2. IInv /\ [Next]_vars => Act
      BY <1>1
<1>3. Spec => [][Act]_vars
  <2> HIDE DEF Act
  <2> QED BY <1>2, SpecIInv, PTL DEF Spec
<1> QED BY <1>3 DEF GrowthIsLastResort

-----------------------------------------------------------------------------
(* Where the words of blocks are.                                          *)

\* A word between the first one of slice s and the first one of slice s + n is
\* in one of the n slices from s on.
LEMMA SliceOfWord ==
    ASSUME NEW s \in Nat, NEW n \in Nat, NEW w \in Nat,
           SliceWords * s <= w, w < SliceWords * (s + n)
    PROVE  w \div SliceWords \in Span(s, n)
<1> DEFINE d == w \div SliceWords
           W == SliceWords
<1>1. W \in Nat \ {0}
      BY ConstantFacts
<1>2. d \in Nat /\ W * d <= w /\ w < W * d + W
      BY <1>1, DivFacts
<1> HIDE DEF d, W
<1>3. W * s <= w /\ w < W * (s + n)
      BY DEF W
<1>4. W * d \in Nat /\ W * s \in Nat /\ s + n \in Nat /\ W * (s + n) \in Nat
      BY <1>1, <1>2
<1>5. s <= d
  <2>1. SUFFICES ASSUME d < s PROVE FALSE
        BY <1>2
  <2>2. W * d + W <= W * s
        BY <1>1, <1>2, <2>1, MulMono
  <2> QED BY <1>1, <1>2, <1>3, <1>4, <2>2
<1>6. d < s + n
  <2> DEFINE t == s + n
  <2>1. t \in Nat /\ w < W * t /\ W * t \in Nat
        BY <1>3, <1>4
  <2> HIDE DEF t
  <2>2. SUFFICES ASSUME ~(d < t) PROVE FALSE
        BY DEF t
  <2>3. d = t \/ t < d
        BY <1>2, <2>1, <2>2
  <2>4. CASE d = t
        BY <1>2, <2>1, <2>4
  <2>5. CASE t < d
    <3>1. W * t + W <= W * d
          BY <1>1, <1>2, <2>1, <2>5, MulMono
    <3> QED BY <1>1, <1>2, <1>4, <2>1, <3>1
  <2> QED BY <2>3, <2>4, <2>5
<1> QED BY <1>2, <1>5, <1>6, Spans DEF d

\* The words of a live block: one at least.
LEMMA ExtentIs ==
    ASSUME NEW hh, NEW L, NEW X, NEW E, Sound(hh, L, X, E), NEW x \in L
    PROVE  /\ x.addr \in Nat /\ x.lay \in Layouts /\ x.lay.size \in Nat \ {0}
           /\ x = [addr |-> x.addr, lay |-> x.lay]
           /\ x.addr % x.lay.align = 0
           /\ Classify(x.lay) = Huge => x.addr % SliceWords = 0
           /\ x.addr \in Contract!Extent(x)
           /\ \A w \in Contract!Extent(x) :
                  w \in Nat /\ x.addr <= w /\ w < x.addr + x.lay.size
<1>1. /\ x.addr \in Nat /\ x.lay \in Layouts /\ x = [addr |-> x.addr, lay |-> x.lay]
      /\ x.addr % x.lay.align = 0
      /\ Classify(x.lay) = Huge => x.addr % SliceWords = 0
      BY DEF Sound, Typed
<1>2. x.lay.size \in Nat \ {0}
      BY <1>1, ConstantFacts
<1>3. x.addr \in Contract!Extent(x)
      BY <1>1, <1>2 DEF Contract!Extent
<1>4. \A w \in Contract!Extent(x) :
          w \in Nat /\ x.addr <= w /\ w < x.addr + x.lay.size
      BY <1>1, <1>2 DEF Contract!Extent
<1> QED BY <1>1, <1>2, <1>3, <1>4

\* The words of a run are in its slices.
LEMMA RunWords ==
    ASSUME NEW hh, NEW L, NEW X, NEW E, Sound(hh, L, X, E), NEW x \in Runs(L),
           NEW w \in Contract!Extent(x)
    PROVE  w \in Nat /\ w \div SliceWords \in RunSpan(x)
<1> DEFINE s == x.addr \div SliceWords
           n == HugeSlices(x.lay)
           W == SliceWords
           a == x.addr
           z == x.lay.size
<1>1. x \in L /\ Classify(x.lay) = Huge
      BY DEF Runs
<1>2. /\ a \in Nat /\ x.lay \in Layouts /\ z \in Nat \ {0} /\ a % W = 0
      /\ w \in Nat /\ a <= w /\ w < a + z
      BY <1>1, ExtentIs
<1>3. W \in Nat \ {0}
      BY ConstantFacts
<1>4. s \in Nat /\ a = W * s
      BY <1>2, <1>3, Divides
<1>5. n \in Nat \ {0}
      BY <1>2, ClassIs
<1>6. z <= W * n
  <2> DEFINE c == CeilDiv(z, W)
  <2>1. c \in Nat /\ z <= W * c
        BY <1>2, <1>3, CeilDivFacts
  <2>2. n = Greatest(c, 1)
        BY DEF HugeSlices
  <2> HIDE DEF c, z, W, n
  <2>3. n = c \/ n > c
        BY <1>5, <2>1, <2>2 DEF Greatest
  <2>4. CASE n = c
        BY <2>1, <2>4
  <2>5. CASE n > c
    <3>1. W * c + W <= W * n
          BY <1>3, <1>5, <2>1, <2>5, MulMono
    <3>2. W * c \in Nat /\ W * n \in Nat
          BY <1>3, <1>5, <2>1
    <3> QED BY <1>2, <1>3, <2>1, <3>1, <3>2
  <2> QED BY <2>3, <2>4, <2>5
<1>7. RunSpan(x) = Span(s, n)
      BY DEF RunSpan
<1> HIDE DEF s, n, a, z
<1>8. W * s <= w /\ w < W * (s + n)
  <2> HIDE DEF W
  <2>1. W * (s + n) = W * s + W * n /\ W * s \in Nat /\ W * n \in Nat
        BY <1>3, <1>4, <1>5, SMTT(30)
  <2> QED BY <1>2, <1>4, <1>6, <2>1
<1>9. w \div SliceWords \in Span(s, n)
      BY <1>2, <1>4, <1>5, <1>8, SliceOfWord
<1> QED BY <1>2, <1>7, <1>9

\* Block i of a page from its slice p on: its words are past those of lower
\* blocks, before those of higher ones, and in the slices of the page.
LEMMA BlockWords ==
    ASSUME NEW b \in Bins, NEW p \in Nat, NEW i \in 0 .. (Reserved[b] - 1)
    PROVE  LET a == BlockAddr(p, b, i)
           IN  /\ a \in Nat
               /\ \A w \in a .. (a + BlockSize[b] - 1) :
                      w \div SliceWords \in Span(p, PageSlices[b])
               /\ \A k \in 0 .. (Reserved[b] - 1) : i < k =>
                      a + BlockSize[b] <= BlockAddr(p, b, k)
<1> DEFINE W  == SliceWords
           st == BlockStart[b]
           bs == BlockSize[b]
           ps == PageSlices[b]
           r  == Reserved[b]
           at(k) == p * W + st + k * bs
<1>1. /\ W \in Nat \ {0} /\ st \in Nat /\ bs \in Nat \ {0} /\ ps \in Nat \ {0} /\ r \in Nat
      /\ st + r * bs <= ps * W
      BY BinFacts, BlocksFit
<1>2. \A k : BlockAddr(p, b, k) = at(k)
      BY DEF BlockAddr
<1> HIDE DEF W, st, bs, ps, r
<1>3. i \in Nat /\ i < r
      BY <1>1 DEF r
<1>4. p * W \in Nat /\ i * bs \in Nat /\ r * bs \in Nat /\ ps * W \in Nat /\ at(i) \in Nat
      BY <1>1, <1>3
<1>5. ASSUME NEW k \in Nat, i < k PROVE at(i) + bs <= at(k)
  <2>1. bs * i + bs <= bs * k
        BY <1>1, <1>3, <1>5, MulMono
  <2>2. bs * i = i * bs /\ bs * k = k * bs /\ k * bs \in Nat
        BY <1>1, <1>3
  <2> QED BY <1>1, <1>4, <2>1, <2>2
<1>6. at(i) + bs <= p * W + ps * W
  <2>1. at(i) + bs <= at(r)
        BY <1>1, <1>3, <1>5
  <2> QED BY <1>1, <1>4, <2>1
<1>7. W * p = p * W /\ W * (p + ps) = p * W + ps * W
      BY <1>1, SMTT(30)
<1>8. ASSUME NEW w \in at(i) .. (at(i) + bs - 1) PROVE w \div SliceWords \in Span(p, ps)
  <2> DEFINE a == at(i)
  <2>1. a \in Nat /\ w \in a .. (a + bs - 1) /\ a + bs <= p * W + ps * W /\ p * W <= a
        BY <1>1, <1>4, <1>6, <1>8
  <2> HIDE DEF a, at
  <2>2. w \in Nat /\ p * W <= w /\ w < p * W + ps * W
        BY <1>1, <1>4, <2>1
  <2>3. W * p <= w /\ w < W * (p + ps)
        BY <1>7, <2>2
  <2> QED BY <1>1, <2>2, <2>3, SliceOfWord DEF W
<1>9. \A k \in 0 .. (Reserved[b] - 1) : k \in Nat
      OBVIOUS
<1> HIDE DEF at
<1> QED BY <1>2, <1>4, <1>5, <1>8, <1>9 DEF ps, bs, r

\* The words of x are in those of block i of page p, and so in its slices.
Sits(hh, p, i, x) ==
    LET b == hh.pages[p].bin
    IN  /\ p \in Nat /\ b \in Bins /\ i \in 0 .. (Reserved[b] - 1)
        /\ x.addr = BlockAddr(p, b, i) /\ x.addr \in Nat
        /\ \A w \in Contract!Extent(x) :
               /\ w \in Nat /\ x.addr <= w /\ w < x.addr + BlockSize[b]
               /\ w \div SliceWords \in PageSpan(hh.pages[p], p)

LEMMA SmallWords ==
    ASSUME NEW hh, NEW L, NEW X, NEW E, Sound(hh, L, X, E), NEW x \in Small(L)
    PROVE  \E p \in DOMAIN hh.pages : \E i \in Nat : Sits(hh, p, i, x)
<1>1. /\ hh \in Heaps /\ SlicesOk(hh, Runs(L), E) /\ BlocksOk(hh, L)
      BY DEF Sound
<1>2. x \in L /\ Classify(x.lay) # Huge
      BY DEF Small
<1>3. /\ x.lay \in Layouts /\ x.lay.size \in Nat \ {0}
      /\ \A w \in Contract!Extent(x) : w \in Nat /\ x.addr <= w /\ w < x.addr + x.lay.size
      BY <1>2, ExtentIs
<1>4. PICK p \in DOMAIN hh.pages : \E i \in Nat : Holds(hh, p, i, x)
      BY <1>1 DEF BlocksOk
<1>5. PICK i \in Nat : Holds(hh, p, i, x)
      BY <1>4
<1> DEFINE b == hh.pages[p].bin
<1>6. /\ InUse(hh, p, i) /\ x.addr = BlockAddr(p, b, i) /\ Classify(x.lay) <= b
      BY <1>5 DEF Holds
<1>7. p \in Nat /\ b \in Bins /\ BlockSize[b] \in Nat
      BY <1>1, TableOf, PageFields, BinFacts
<1>8. i \in 0 .. (Reserved[b] - 1)
      BY <1>1, <1>6, HoldsFacts
<1>9. x.lay.size <= BlockSize[b]
      BY <1>2, <1>3, <1>6, <1>7, ClassIs
<1> DEFINE a == BlockAddr(p, b, i)
<1>10. /\ a \in Nat
       /\ \A w \in a .. (a + BlockSize[b] - 1) :
              w \div SliceWords \in Span(p, PageSlices[b])
  <2> HIDE DEF b
  <2> QED BY <1>7, <1>8, BlockWords
<1>11. PageSpan(hh.pages[p], p) = Span(p, PageSlices[b])
      BY DEF PageSpan
<1> HIDE DEF a, b
<1>12. ASSUME NEW w \in Contract!Extent(x)
       PROVE  /\ w \in Nat /\ x.addr <= w /\ w < x.addr + BlockSize[b]
              /\ w \div SliceWords \in PageSpan(hh.pages[p], p)
  <2>1. x.addr = a
        BY <1>6 DEF a
  <2>2. w \in Nat /\ a <= w /\ w < a + BlockSize[b]
        BY <1>3, <1>7, <1>9, <1>10, <2>1
  <2>3. w \in a .. (a + BlockSize[b] - 1)
        BY <1>7, <1>10, <2>2
  <2> QED BY <1>10, <1>11, <2>1, <2>2, <2>3
<1>13. x.addr \in Nat
      BY <1>6, <1>10 DEF a
<1>14. Sits(hh, p, i, x)
      BY <1>6, <1>7, <1>8, <1>12, <1>13 DEF b, Sits
<1> QED BY <1>14

\* No word is in two live blocks.
LEMMA ExtentsApart ==
    ASSUME NEW hh, NEW L, NEW X, NEW E, Sound(hh, L, X, E),
           NEW x \in L, NEW y \in L, x # y
    PROVE  Contract!Extent(x) \cap Contract!Extent(y) = {}
<1>1. SUFFICES ASSUME NEW w \in Contract!Extent(x), w \in Contract!Extent(y) PROVE FALSE
      OBVIOUS
<1> DEFINE c == w \div SliceWords
<1>2. /\ hh \in Heaps /\ SlicesOk(hh, Runs(L), E) /\ BlocksOk(hh, L)
      BY DEF Sound
<1>3. /\ \A p, q \in DOMAIN hh.pages : p # q =>
             PageSpan(hh.pages[p], p) \cap PageSpan(hh.pages[q], q) = {}
      /\ \A u, v \in Runs(L) : u # v => RunSpan(u) \cap RunSpan(v) = {}
      /\ PageOwn(hh) \cap RunOwn(Runs(L)) = {}
      BY <1>2 DEF SlicesOk
<1>4. ASSUME NEW z \in Runs(L), w \in Contract!Extent(z)
      PROVE  c \in RunSpan(z) /\ c \in RunOwn(Runs(L))
  <2>1. c \in RunSpan(z)
        BY <1>4, RunWords
  <2> HIDE DEF c
  <2> QED BY <2>1, RunOwnFacts
<1>5. ASSUME NEW z \in Small(L), w \in Contract!Extent(z) PROVE c \in PageOwn(hh)
  <2>1. PICK p \in DOMAIN hh.pages : c \in PageSpan(hh.pages[p], p)
        BY <1>5, SmallWords DEF Sits
  <2> HIDE DEF c
  <2> QED BY <2>1 DEF PageOwn
<1>6. /\ x \in Runs(L) \/ x \in Small(L)
      /\ y \in Runs(L) \/ y \in Small(L)
      BY DEF Runs, Small
<1>7. CASE x \in Runs(L) /\ y \in Runs(L)
  <2>1. c \in RunSpan(x) /\ c \in RunSpan(y)
        BY <1>1, <1>4, <1>7
  <2> HIDE DEF c
  <2> QED BY <1>3, <1>7, <2>1
<1>8. CASE (x \in Runs(L) /\ y \in Small(L)) \/ (y \in Runs(L) /\ x \in Small(L))
  <2>1. c \in RunOwn(Runs(L)) /\ c \in PageOwn(hh)
        BY <1>1, <1>4, <1>5, <1>8
  <2> HIDE DEF c
  <2> QED BY <1>3, <2>1
<1>9. CASE x \in Small(L) /\ y \in Small(L)
  <2>1. PICK p \in DOMAIN hh.pages : \E i \in Nat : Sits(hh, p, i, x)
        BY <1>9, SmallWords
  <2>2. PICK i \in Nat : Sits(hh, p, i, x)
        BY <2>1
  <2>3. PICK q \in DOMAIN hh.pages : \E k \in Nat : Sits(hh, q, k, y)
        BY <1>9, SmallWords
  <2>4. PICK k \in Nat : Sits(hh, q, k, y)
        BY <2>3
  <2>5. /\ c \in PageSpan(hh.pages[p], p) /\ w \in Nat
        /\ x.addr <= w /\ w < x.addr + BlockSize[hh.pages[p].bin]
        BY <1>1, <2>2 DEF Sits
  <2>6. /\ c \in PageSpan(hh.pages[q], q)
        /\ y.addr <= w /\ w < y.addr + BlockSize[hh.pages[q].bin]
        BY <1>1, <2>4 DEF Sits
  <2> HIDE DEF c
  <2>7. p = q
        BY <1>3, <2>5, <2>6
  <2>8. x.addr # y.addr
        BY <1>2, <1>9 DEF BlocksOk
  <2> DEFINE b == hh.pages[p].bin
             at(j) == BlockAddr(p, b, j)
             bs == BlockSize[b]
  <2>9. /\ b \in Bins /\ p \in Nat /\ i \in 0 .. (Reserved[b] - 1) /\ k \in 0 .. (Reserved[b] - 1)
        /\ x.addr = at(i) /\ y.addr = at(k) /\ at(i) \in Nat /\ at(k) \in Nat
        /\ at(i) <= w /\ w < at(i) + bs /\ at(k) <= w /\ w < at(k) + bs /\ w \in Nat
        BY <2>2, <2>4, <2>5, <2>6, <2>7 DEF Sits
  <2>10. bs \in Nat
        BY <2>9, BinFacts
  <2>11. Reserved[b] \in Nat
        BY <2>9, BlocksFit
  <2> HIDE DEF b
  <2>12. (i < k => at(i) + bs <= at(k)) /\ (k < i => at(k) + bs <= at(i))
        BY <2>9, BlockWords
  <2> HIDE DEF at, bs
  <2>13. i # k
        BY <2>8, <2>9
  <2>14. i < k \/ k < i
        BY <2>9, <2>11, <2>13
  <2> QED BY <2>9, <2>10, <2>12, <2>14
<1> QED BY <1>6, <1>7, <1>8, <1>9

\* The words of live blocks are words the allocator may use.
LEMMA ExtentsInside ==
    ASSUME NEW hh, NEW L, Sound(hh, L, {}, {}), NEW x \in L
    PROVE  Contract!Extent(x) \subseteq
               (CeilDiv(HeapBase, SliceWords) * SliceWords)
                   .. (MaxSliceIndex * SliceWords - 1)
<1>1. SUFFICES ASSUME NEW w \in Contract!Extent(x)
               PROVE  /\ w \in Nat /\ CeilDiv(HeapBase, SliceWords) * SliceWords <= w
                      /\ w < MaxSliceIndex * SliceWords
  <2>1. MaxSliceIndex * SliceWords \in Nat /\ CeilDiv(HeapBase, SliceWords) * SliceWords \in Nat
        BY SliceAssumption, ConstantFacts, CeilDivFacts
  <2> QED BY <2>1
<1> DEFINE c == w \div SliceWords
           W == SliceWords
           f == CeilDiv(HeapBase, SliceWords)
           N == MaxSliceIndex
<1>2. w \in Nat /\ W \in Nat \ {0} /\ f \in Nat /\ N \in Nat
      BY ExtentIs, ConstantFacts, CeilDivFacts, SliceAssumption
<1>3. c \in Nat /\ W * c <= w /\ w < W * c + W
      BY <1>2, DivFacts
<1> DEFINE own == Held(hh, L, {})
<1>4. c \in own
  <2>1. CASE x \in Runs(L)
    <3>1. c \in RunSpan(x)
          BY <2>1, RunWords
    <3> HIDE DEF c
    <3> QED BY <2>1, <3>1, RunOwnFacts DEF Held
  <2>2. CASE x \in Small(L)
    <3>1. PICK p \in DOMAIN hh.pages : c \in PageSpan(hh.pages[p], p)
          BY <2>2, SmallWords DEF Sits
    <3> HIDE DEF c
    <3> QED BY <3>1 DEF Held, PageOwn
  <2> QED BY <2>1, <2>2 DEF Runs, Small
<1>5. PICK wr \in SUBSET Nat : MapInv(hh.sl, hh.end, own, hh.foreign, wr)
      BY SoundMap
<1>6. c \notin hh.foreign /\ c # N /\ c < hh.end /\ hh.end \in Nat /\ hh.end <= MemMax
  <2> HIDE DEF own, c
  <2> QED BY <1>4, <1>5 DEF MapInv
<1>7. Below \subseteq hh.foreign
      BY DEF Sound, SlicesOk, MapOk
<1>8. f <= c
  <2> HIDE DEF c, f
  <2>1. Below = 0 .. (f - 1)
        BY DEF Below, f
  <2> QED BY <1>2, <1>3, <1>6, <1>7, <2>1
<1>9. c < N
  <2> HIDE DEF c
  <2> QED BY <1>2, <1>3, <1>6, SliceAssumption
<1> HIDE DEF c, W, f, N, own
<1>10. W * f <= W * c /\ W * c + W <= W * N
  <2>1. W * c + W <= W * N
        BY <1>2, <1>3, <1>9, MulMono
  <2>2. f = c \/ f < c
        BY <1>2, <1>3, <1>8
  <2>3. CASE f = c
    <3>1. W * c \in Nat
          BY <1>2, <1>3
    <3> QED BY <2>1, <2>3, <3>1
  <2>4. CASE f < c
    <3>1. W * f + W <= W * c
          BY <1>2, <1>3, <2>4, MulMono
    <3>2. W * f \in Nat /\ W * c \in Nat
          BY <1>2, <1>3
    <3> QED BY <1>2, <2>1, <3>1, <3>2
  <2> QED BY <2>2, <2>3, <2>4
<1>11. f * W = W * f /\ N * W = W * N /\ W * f \in Nat /\ W * N \in Nat /\ W * c \in Nat
      BY <1>2, <1>3
<1>12. f * W <= w /\ w < N * W
      BY <1>2, <1>3, <1>10, <1>11
<1> QED BY <1>2, <1>12 DEF f, W, N

\* What the program holds, the contract could have placed beside the rest.
LEMMA SoundPlaces ==
    ASSUME NEW hh, NEW L, Sound(hh, L, {}, {}), NEW y \in L
    PROVE  y \in Contract!Blocks /\ Contract!Placeable(y, L \ {y})
<1> DEFINE Words == (CeilDiv(HeapBase, SliceWords) * SliceWords)
                        .. (MaxSliceIndex * SliceWords - 1)
<1>1. /\ y = [addr |-> y.addr, lay |-> y.lay] /\ y.lay \in Layouts
      /\ y.addr % y.lay.align = 0 /\ y.addr \in Contract!Extent(y)
      BY ExtentIs
<1>2. Contract!Extent(y) \subseteq Words
      BY ExtentsInside
<1>3. \A z \in L \ {y} : Contract!Extent(y) \cap Contract!Extent(z) = {}
      BY ExtentsApart
<1>4. Contract!Placeable(y, L \ {y})
      BY <1>1, <1>2, <1>3 DEF Contract!Placeable
<1>5. y \in [addr : Words, lay : Layouts]
  <2> HIDE DEF Words
  <2>1. y.addr \in Words
        BY <1>1, <1>2
  <2> QED BY <1>1, <2>1
<1> QED BY <1>4, <1>5 DEF Contract!Blocks

-----------------------------------------------------------------------------
(* The refinement.                                                         *)

\* An allocation hands out a block beside those of the program, or fails and
\* leaves them alone.
LEMMA AllocRefines ==
    ASSUME IInv, NEW l \in Layouts, AllocCall(l)
    PROVE  Contract!Alloc \/ UNCHANGED live
<1>1. PICK r \in HeapAlloc(h, l) :
        /\ h' = r.h
        /\ live' = IF r.addr = NoAddr THEN live
                   ELSE live \cup {[addr |-> r.addr, lay |-> l]}
      BY DEF AllocCall
<1>2. Sound(EnsureInit(h), live, {}, {}) /\ r \in HeapAlloc(EnsureInit(h), l)
      BY <1>1, EnsureInitKeeps, AllocInits
<1>3. Allocated(live, l, r)
      BY <1>2, AllocKeeps
<1> DEFINE y == [addr |-> r.addr, lay |-> l]
<1>4. CASE r.addr = NoAddr
      BY <1>1, <1>4
<1>5. CASE r.addr # NoAddr
  <2>1. y \notin live /\ Sound(r.h, live \cup {y}, {}, {}) /\ live' = live \cup {y}
        BY <1>1, <1>3, <1>5 DEF Allocated
  <2> HIDE DEF y
  <2>2. y \in live \cup {y} /\ (live \cup {y}) \ {y} = live
        BY <2>1
  <2>3. y \in Contract!Blocks /\ Contract!Placeable(y, live)
    <3> DEFINE M == live \cup {y}
    <3>1. Sound(r.h, M, {}, {}) /\ y \in M /\ M \ {y} = live
          BY <2>1, <2>2
    <3> HIDE DEF M
    <3>2. y \in Contract!Blocks /\ Contract!Placeable(y, M \ {y})
          BY <3>1, SoundPlaces
    <3> QED BY <3>1, <3>2
  <2>4. y \in live' \ live
        BY <2>1
  <2> QED BY <2>1, <2>3, <2>4 DEF Contract!Alloc
<1> QED BY <1>4, <1>5

\* A reallocation puts a block in the place of the old one, beside it unless it
\* stays where it is, or fails and leaves both alone.
LEMMA ReallocRefines ==
    ASSUME IInv, NEW x \in live, NEW l \in Layouts, ReallocCall(x, l)
    PROVE  Contract!Realloc \/ UNCHANGED live
<1>1. Sound(h, live, {}, {})
      BY AtRest
<1>2. PICK r \in HeapRealloc(h, x.addr, x.lay, l) :
        /\ h' = r.h
        /\ live' = IF r.addr = NoAddr THEN live
                   ELSE (live \ {x}) \cup {[addr |-> r.addr, lay |-> l]}
      BY DEF ReallocCall
<1>3. l.align = x.lay.align
      BY DEF ReallocCall
<1>4. Reallocated(h, live, x, l, r)
      BY <1>1, <1>2, <1>3, ReallocKeeps
<1> DEFINE y == [addr |-> r.addr, lay |-> l]
           M == (live \ {x}) \cup {y}
<1>5. CASE r.addr = NoAddr
      BY <1>2, <1>5
<1>6. CASE r.addr # NoAddr
  <2>1. /\ Sound(r.h, M, {}, {}) /\ live' = M
        /\ y.addr # x.addr => Beside(live, y)
        BY <1>2, <1>4, <1>6 DEF Reallocated
  <2>2. y.lay.align = x.lay.align
        BY <1>3
  <2> HIDE DEF y
  <2>3. y \in M
        OBVIOUS
  <2>4. y \in Contract!Blocks /\ Contract!Placeable(y, M \ {y})
    <3> HIDE DEF M
    <3> QED BY <2>1, <2>3, SoundPlaces
  <2>5. CASE y.addr = x.addr
    <3>1. y \notin live \ {x}
      <4>1. SUFFICES ASSUME y \in live, y # x PROVE FALSE
            OBVIOUS
      <4>2. x.addr \in Contract!Extent(x) /\ y.addr \in Contract!Extent(y)
            BY <1>1, <4>1, ExtentIs
      <4>3. Contract!Extent(x) \cap Contract!Extent(y) = {}
            BY <1>1, <4>1, ExtentsApart
      <4> QED BY <2>5, <4>2, <4>3
    <3>2. M \ {y} = live \ {x}
          BY <3>1
    <3>3. Contract!Placeable(y, live \ {x})
          BY <2>4, <3>2
    <3> QED BY <2>1, <2>2, <2>3, <2>4, <2>5, <3>3 DEF Contract!Realloc
  <2>6. CASE y.addr # x.addr
    <3>1. PICK gg : y \notin live /\ Sound(gg, live \cup {y}, {}, {})
          BY <2>1, <2>6 DEF Beside
    <3> DEFINE N == live \cup {y}
    <3>2. Sound(gg, N, {}, {}) /\ y \in N /\ N \ {y} = live
          BY <3>1
    <3> HIDE DEF N
    <3>3. Contract!Placeable(y, N \ {y})
          BY <3>2, SoundPlaces
    <3>4. Contract!Placeable(y, live)
          BY <3>2, <3>3
    <3> QED BY <2>1, <2>2, <2>3, <2>4, <2>6, <3>4 DEF Contract!Realloc
  <2> QED BY <2>5, <2>6
<1> QED BY <1>5, <1>6

\* Every call is a step of the contract, or leaves the program's blocks alone.
LEMMA CallRefines ==
    ASSUME IInv, [Next]_vars
    PROVE  [Contract!Next]_live
<1>1. CASE \E l \in Layouts : AllocCall(l)
      BY <1>1, AllocRefines DEF Contract!Next
<1>2. CASE \E x \in live : DeallocCall(x)
      BY <1>2 DEF DeallocCall, Contract!Dealloc, Contract!Next
<1>3. CASE \E x \in live, l \in Layouts : ReallocCall(x, l)
      BY <1>3, ReallocRefines DEF Contract!Next
<1>4. CASE \E n \in Gaps \ {0} : OtherGrow(n)
      BY <1>4, OtherStep
<1>5. CASE UNCHANGED vars
      BY <1>5 DEF vars
<1> QED BY <1>1, <1>2, <1>3, <1>4, <1>5 DEF Next

\* The heap keeps the GlobalAlloc contract, for every sequence of calls, every
\* answer of memory.grow and every foreign grow: a block is large enough and
\* aligned for its layout, inside the words of the allocator and apart from
\* every live block, the one it replaces included while its contents move.
THEOREM HeapKeepsContract == Spec => ImplementsContract
<1>1. Init => Contract!Init
      BY DEF Init, Contract!Init
<1>2. IInv /\ [Next]_vars => [Contract!Next]_live
      BY CallRefines
<1> QED BY <1>1, <1>2, SpecIInv, PTL DEF Spec, ImplementsContract, Contract!Spec
=============================================================================
