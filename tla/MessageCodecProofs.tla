------------------------- MODULE MessageCodecProofs -------------------------
(***************************************************************************)
(* What the coding of messages gives for every message and every number of *)
(* digits: the checksum is a byte, two digits are a byte, and a frame has  *)
(* its marker characters at its ends only.                                 *)
(***************************************************************************)
EXTENDS MessageCodec, FiniteSetTheorems, SequenceTheorems, WellFoundedInduction, TLAPS

-----------------------------------------------------------------------------
(* The sum of the bytes.                                                   *)

\* A set of natural numbers has a least element.
LEMMA LeastNumber ==
  ASSUME NEW S \in SUBSET Nat, S # {}
  PROVE  \E m \in S : \A n \in S : m <= n
<1> DEFINE R == {rs \in Nat \X Nat : rs[1] < rs[2]}
<1>1. IsWellFoundedOn(R, Nat)
  BY NatLessThanWellFounded DEF OpToRel
<1>2. PICK m \in S : \A n \in S : ~(<<n, m>> \in R)
  BY ONLY <1>1, S \subseteq Nat, S # {}, WFMin
<1>3. ASSUME NEW n \in S PROVE m <= n
  <2>1. ~(<<n, m>> \in R) /\ n \in Nat /\ m \in Nat
    BY <1>2
  <2>2. ~(n < m)
    BY ONLY <2>1
  <2> QED
    BY ONLY <2>1, <2>2
<1> QED
  BY <1>3

\* A set that has 0 and the successor of each of its numbers has all of them.
LEMMA AllNumbers ==
  ASSUME NEW S, 0 \in S, \A n \in Nat : n \in S => n + 1 \in S
  PROVE  Nat \subseteq S
<1> DEFINE T == Nat \ S
<1>1. SUFFICES ASSUME T # {} PROVE FALSE
  OBVIOUS
<1>2. PICK m \in T : \A n \in T : m <= n
  <2>1. T \in SUBSET Nat
    OBVIOUS
  <2> HIDE DEF T
  <2> QED
    BY <1>1, <2>1, LeastNumber
<1>3. m \in Nat /\ m # 0 /\ m - 1 \in Nat /\ m - 1 \notin T
  BY <1>2
<1> QED
  BY <1>2, <1>3

\* The greatest element of numbers up to n is one of them.
LEMMA GreatestIn ==
  ASSUME NEW n \in Nat, NEW S \in SUBSET (1..n), S # {}
  PROVE  Max(S) \in S
<1> DEFINE T == {n - x : x \in S}
<1>1. T \in SUBSET Nat /\ T # {}
  <2>1. ASSUME NEW x \in S PROVE n - x \in Nat
    OBVIOUS
  <2>2. PICK x \in S : TRUE
    OBVIOUS
  <2>3. n - x \in T
    BY ONLY <2>2
  <2> QED
    BY ONLY <2>1, <2>3
<1>2. PICK m \in T : \A k \in T : m <= k
  <2> HIDE DEF T
  <2> QED
    BY <1>1, LeastNumber
<1>3. PICK x \in S : m = n - x
  BY <1>2
<1>4. \A y \in S : x >= y
  <2>1. ASSUME NEW y \in S PROVE x >= y
    <3>1. n - y \in T
      OBVIOUS
    <3>2. n - x <= n - y
      BY <1>2, <1>3, <3>1
    <3> QED
      BY <3>2
  <2> QED
    BY <2>1
<1> QED
  BY <1>4 DEF Max

\* A function that says what step makes of start in n steps, for every n.
HasIterates(X, start, step) ==
  \E f \in [Nat -> X] : f[0] = start /\ \A n \in Nat : f[n + 1] = step[<<n, f[n]>>]

LEMMA RecursionExists ==
  ASSUME NEW X, NEW start \in X, NEW step \in [Nat \X X -> X]
  PROVE  HasIterates(X, start, step)
<1> DEFINE Upto(n, g) == /\ g \in [0..n -> X] /\ g[0] = start
                         /\ \A k \in 0..(n - 1) : g[k + 1] = step[<<k, g[k]>>]
           Good == {n \in Nat : \E g : Upto(n, g)}
<1>1. Nat \subseteq Good
  <2>1. 0 \in Good
    <3>1. Upto(0, [k \in 0..0 |-> start])
      OBVIOUS
    <3> QED
      BY <3>1
  <2>2. ASSUME NEW n \in Nat, n \in Good PROVE n + 1 \in Good
    <3>1. PICK g : Upto(n, g)
      BY <2>2
    <3>2. PICK h : h = [k \in 0..(n + 1) |-> IF k = n + 1 THEN step[<<n, g[n]>>] ELSE g[k]]
      OBVIOUS
    <3>3. h \in [0..(n + 1) -> X]
      <4>1. ASSUME NEW k \in 0..(n + 1)
            PROVE  (IF k = n + 1 THEN step[<<n, g[n]>>] ELSE g[k]) \in X
        <5>1. n \in 0..n /\ (k # n + 1 => k \in 0..n)
          OBVIOUS
        <5>2. g[n] \in X
          BY <3>1, <5>1
        <5> QED
          BY <3>1, <5>1, <5>2
      <4> QED
        BY <3>2, <4>1
    <3>4. h[0] = start
      BY <3>1, <3>2
    <3>5. ASSUME NEW k \in 0..((n + 1) - 1) PROVE h[k + 1] = step[<<k, h[k]>>]
      <4>1. k \in 0..(n + 1) /\ k + 1 \in 0..(n + 1) /\ k # n + 1 /\ (k = n \/ k \in 0..(n - 1))
            /\ (k + 1 = n + 1 <=> k = n)
        OBVIOUS
      <4>2. h[k] = g[k]
        BY <3>2, <4>1
      <4>3. CASE k = n
        BY <3>2, <4>1, <4>2, <4>3
      <4>4. CASE k # n
        BY <3>1, <3>2, <4>1, <4>2, <4>4
      <4> QED
        BY <4>3, <4>4
    <3> QED
      BY <3>3, <3>4, <3>5
  <2> HIDE DEF Good
  <2> QED
    BY <2>1, <2>2, AllNumbers
<1>2. ASSUME NEW n \in Nat, NEW m \in Nat, m <= n, NEW g, Upto(n, g), NEW h, Upto(m, h)
      PROVE  h[m] = g[m]
  <2> DEFINE Same == {k \in Nat : k <= m => h[k] = g[k]}
  <2>1. 0 \in Same
    BY <1>2
  <2>2. ASSUME NEW k \in Nat, k \in Same PROVE k + 1 \in Same
    <3>1. ASSUME k + 1 <= m PROVE h[k + 1] = g[k + 1]
      <4>1. k \in 0..(n - 1) /\ k \in 0..(m - 1) /\ k <= m
        BY <1>2, <3>1
      <4> QED
        BY <1>2, <2>2, <4>1
    <3> QED
      BY <3>1
  <2>3. Nat \subseteq Same
    <3> HIDE DEF Same
    <3> QED
      BY <2>1, <2>2, AllNumbers
  <2> QED
    BY <2>3
<1>3. PICK f : f = [n \in Nat |-> (CHOOSE g : Upto(n, g))[n]]
  OBVIOUS
<1>4. \A n \in Nat : Upto(n, CHOOSE g : Upto(n, g))
  <2> HIDE DEF Upto
  <2> QED
    BY <1>1
<1>5. ASSUME NEW n \in Nat, NEW m \in Nat, m <= n, NEW g, Upto(n, g) PROVE f[m] = g[m]
  <2>1. PICK h : h = CHOOSE e : Upto(m, e)
    OBVIOUS
  <2>2. Upto(m, h) /\ f[m] = h[m]
    <3> HIDE DEF Upto
    <3> QED
      BY <1>3, <1>4, <2>1
  <2> HIDE DEF Upto
  <2> QED
    BY <1>2, <1>5, <2>2
<1>6. ASSUME NEW n \in Nat
      PROVE  f[n] \in X /\ f[0] = start /\ f[n + 1] = step[<<n, f[n]>>]
  <2>1. PICK g : Upto(n + 1, g)
    BY <1>1
  <2>2. n + 1 \in Nat /\ 0 <= n + 1 /\ n <= n + 1 /\ n + 1 <= n + 1 /\ 0 \in Nat
    OBVIOUS
  <2>3. f[n] = g[n] /\ f[0] = g[0] /\ f[n + 1] = g[n + 1]
    <3> HIDE DEF Upto
    <3> QED
      BY <1>5, <2>1, <2>2
  <2>4. n \in 0..(n + 1) /\ n \in 0..((n + 1) - 1)
    OBVIOUS
  <2> QED
    BY <2>1, <2>3, <2>4
<1>7. f \in [Nat -> X]
  BY <1>3, <1>6
<1> QED
  BY <1>6, <1>7 DEF HasIterates

\* The greatest of the first numbers.
LEMMA Prefix ==
  ASSUME NEW n \in Nat
  PROVE  Max(1..(n + 1)) = n + 1 /\ (1..(n + 1)) \ {n + 1} = 1..n /\ 1..(n + 1) # {} /\ 1..0 = {}
<1>1. n + 1 \in 1..(n + 1) /\ \A y \in 1..(n + 1) : n + 1 >= y
  OBVIOUS
<1>2. PICK T, x : T = 1..(n + 1) /\ x = Max(T)
  OBVIOUS
<1>3. \E z \in T : \A y \in T : z >= y
  BY <1>1, <1>2
<1>4. x \in T /\ \A y \in T : x >= y
  BY ONLY <1>2, <1>3 DEF Max
<1>5. x = n + 1
  BY <1>1, <1>2, <1>4
<1> QED
  BY <1>1, <1>2, <1>5

\* What FoldLeft computes for every set of positions of s, from the last one of them.
Folded(g, s, start, step) ==
  \A p \in SUBSET DOMAIN s :
    g[p] = IF p = {} THEN start ELSE step[<<g[p \ {Max(p)}], s[Max(p)]>>]

LEMMA FoldExists ==
  ASSUME NEW X, NEW S, NEW start \in X, NEW step \in [X \X S -> X], NEW s \in Seq(S)
  PROVE  \E g \in [SUBSET DOMAIN s -> X] : Folded(g, s, start, step)
<1>1. PICK D : D = DOMAIN s
  OBVIOUS
<1>2. D = 1..Len(s) /\ Len(s) \in Nat /\ IsFiniteSet(D) /\ Cardinality(D) \in Nat
  BY <1>1, FS_Interval, FS_CardinalityType
<1>3. \A p \in SUBSET D : IsFiniteSet(p) /\ Cardinality(p) \in Nat
                         /\ Cardinality(p) <= Cardinality(D)
  BY <1>2, FS_Subset, FS_CardinalityType
<1>4. ASSUME NEW p \in SUBSET D, p # {}
      PROVE  /\ s[Max(p)] \in S /\ p \ {Max(p)} \in SUBSET D
             /\ Cardinality(p \ {Max(p)}) = Cardinality(p) - 1
             /\ Cardinality(p) # 0
  <2>1. Max(p) \in p
    BY <1>2, <1>4, GreatestIn
  <2>2. Cardinality(p \ {Max(p)}) = Cardinality(p) - 1
    BY <1>3, <2>1, FS_RemoveElement
  <2>3. Cardinality(p) # 0
    BY <1>3, <1>4, FS_EmptySet
  <2> QED
    BY <1>1, <2>1, <2>2, <2>3
<1> DEFINE G == [SUBSET D -> X]
           More(g) == [p \in SUBSET D |-> IF p = {} THEN start
                                          ELSE step[<<g[p \ {Max(p)}], s[Max(p)]>>]]
           none == [p \in SUBSET D |-> start]
           more == [e \in Nat \X G |-> More(e[2])]
<1>5. ASSUME NEW g \in G PROVE More(g) \in G
  BY <1>4
<1>6. none \in G /\ more \in [Nat \X G -> G]
  <2>1. none \in G
    OBVIOUS
  <2>2. ASSUME NEW e \in Nat \X G PROVE More(e[2]) \in G
    <3>1. e[2] \in G
      OBVIOUS
    <3> HIDE DEF G, More
    <3> QED
      BY <1>5, <3>1
  <2> HIDE DEF G, More, none
  <2> QED
    BY <2>1, <2>2
<1>7. \E f \in [Nat -> G] : f[0] = none /\ \A n \in Nat : f[n + 1] = more[<<n, f[n]>>]
  <2>1. PICK H, begin, move : H = G /\ begin = none /\ move = more
    OBVIOUS
  <2>2. begin \in H /\ move \in [Nat \X H -> H]
    <3> HIDE DEF G, more, none
    <3> QED
      BY <1>6, <2>1
  <2>3. HasIterates(H, begin, move)
    BY ONLY <2>2, RecursionExists
  <2> HIDE DEF G, more, none
  <2> QED
    BY <2>1, <2>3 DEF HasIterates
<1>20. PICK f \in [Nat -> G] : f[0] = none /\ \A n \in Nat : f[n + 1] = more[<<n, f[n]>>]
  <2> HIDE DEF G, more, none
  <2> QED
    BY <1>7
<1>8. ASSUME NEW n \in Nat PROVE f[n] \in G /\ f[n + 1] = More(f[n])
  <2> HIDE DEF G, More
  <2>1. f[n] \in G /\ <<n, f[n]>> \in Nat \X G
    OBVIOUS
  <2> QED
    BY <1>20, <2>1
<1> HIDE DEF more, none
<1> DEFINE Stable == {n \in Nat : \A p \in SUBSET D : Cardinality(p) <= n => f[n + 1][p] = f[n + 2][p]}
<1>9. Nat \subseteq Stable
  <2>1. 0 \in Stable
    <3>1. ASSUME NEW p \in SUBSET D, Cardinality(p) <= 0 PROVE f[0 + 1][p] = f[0 + 2][p]
      <4>1. p = {}
        <5>1. Cardinality(p) \in Nat /\ (p # {} => Cardinality(p) # 0)
          BY <1>3, <1>4
        <5> QED
          BY ONLY <5>1, <3>1
      <4>2. 0 \in Nat /\ 1 \in Nat /\ 0 + 1 = 1 /\ 1 + 1 = 0 + 2
        OBVIOUS
      <4>3. f[0 + 1] = More(f[0]) /\ f[0 + 2] = More(f[1])
        BY <1>8, <4>2
      <4> QED
        BY <4>1, <4>3
    <3> QED
      BY <3>1
  <2>2. ASSUME NEW n \in Nat, n \in Stable PROVE n + 1 \in Stable
    <3>1. ASSUME NEW p \in SUBSET D, Cardinality(p) <= n + 1
          PROVE  f[(n + 1) + 1][p] = f[(n + 1) + 2][p]
      <4>1. f[(n + 1) + 1] = More(f[n + 1]) /\ f[(n + 1) + 2] = More(f[n + 2])
        <5>1. n + 1 \in Nat /\ n + 2 \in Nat /\ (n + 1) + 2 = (n + 2) + 1
          OBVIOUS
        <5> HIDE DEF More
        <5> QED
          BY <1>8, <5>1
      <4>2. CASE p = {}
        BY <4>1, <4>2
      <4>3. CASE p # {}
        <5>1. p \ {Max(p)} \in SUBSET D /\ Cardinality(p \ {Max(p)}) <= n
          BY <1>3, <1>4, <3>1, <4>3
        <5>2. f[n + 1][p \ {Max(p)}] = f[n + 2][p \ {Max(p)}]
          BY <2>2, <5>1
        <5>3. ASSUME NEW h PROVE More(h)[p] = step[<<h[p \ {Max(p)}], s[Max(p)]>>]
          BY <4>3
        <5>4. More(f[n + 1])[p] = More(f[n + 2])[p]
          <6> HIDE DEF More
          <6> QED
            BY <5>2, <5>3
        <5> HIDE DEF More
        <5> QED
          BY <4>1, <5>4
      <4> QED
        BY <4>2, <4>3
    <3> QED
      BY <3>1
  <2> HIDE DEF Stable
  <2> QED
    BY <2>1, <2>2, AllNumbers
<1>10. PICK n : n = Cardinality(D)
  OBVIOUS
<1>11. n \in Nat /\ n + 1 \in Nat /\ (n + 1) + 1 = n + 2
  BY <1>2, <1>10
<1>12. PICK g : g = f[n + 1]
  OBVIOUS
<1>13. g \in G /\ f[n + 2] = More(g)
  <2> HIDE DEF G, More
  <2> QED
    BY <1>8, <1>11, <1>12
<1>14. ASSUME NEW p \in SUBSET D
       PROVE  g[p] = IF p = {} THEN start ELSE step[<<g[p \ {Max(p)}], s[Max(p)]>>]
  <2>1. g[p] = f[n + 2][p]
    BY <1>3, <1>9, <1>10, <1>11, <1>12
  <2> QED
    BY <1>13, <2>1
<1>15. Folded(g, s, start, step)
  BY <1>1, <1>14 DEF Folded
<1> QED
  BY <1>1, <1>13, <1>15

\* The sums of the beginnings of a sequence.
LEMMA SumOf ==
  ASSUME NEW s \in Seq(Int)
  PROVE  \E h \in [0..Len(s) -> Int] :
           /\ h[0] = 0 /\ \A n \in 0..(Len(s) - 1) : h[n + 1] = h[n] + s[n + 1]
           /\ FoldLeft(+, 0, s) = h[Len(s)]
<1>1. PICK D : D = DOMAIN s
  OBVIOUS
<1>2. D = 1..Len(s) /\ Len(s) \in Nat
  BY <1>1
<1> DEFINE IsSum(g) == g = [p \in SUBSET D |-> IF p = {} THEN 0
                                               ELSE LET x == Max(p) IN g[p \ {x}] + s[x]]
           sum == CHOOSE g : IsSum(g)
<1>3. FoldLeft(+, 0, s) = sum[D]
  BY <1>1 DEF FoldLeft, MapThenFoldSet
<1>4. \E g : IsSum(g)
  <2>1. PICK plus : plus = [e \in Int \X Int |-> e[1] + e[2]]
    OBVIOUS
  <2>2. plus \in [Int \X Int -> Int] /\ 0 \in Int
    BY <2>1
  <2>3. PICK g \in [SUBSET DOMAIN s -> Int] : Folded(g, s, 0, plus)
    BY ONLY <2>2, s \in Seq(Int), FoldExists
  <2>4. ASSUME NEW p \in SUBSET D
        PROVE  g[p] = IF p = {} THEN 0 ELSE LET x == Max(p) IN g[p \ {x}] + s[x]
    <3>1. CASE p = {}
      BY <1>1, <2>3, <3>1 DEF Folded
    <3>2. CASE p # {}
      <4>1. g[p] = plus[<<g[p \ {Max(p)}], s[Max(p)]>>]
        BY <1>1, <2>3, <3>2 DEF Folded
      <4>2. Max(p) \in p
        BY <1>2, <3>2, GreatestIn
      <4>3. s[Max(p)] \in Int /\ g[p \ {Max(p)}] \in Int
        BY <1>1, <1>2, <4>2
      <4>4. plus[<<g[p \ {Max(p)}], s[Max(p)]>>] = g[p \ {Max(p)}] + s[Max(p)]
        BY <2>1, <4>3
      <4> QED
        BY <3>2, <4>1, <4>4
    <3> QED
      BY <3>1, <3>2
  <2>5. g = [p \in SUBSET D |-> g[p]]
    BY <1>1, <2>3
  <2>6. IsSum(g)
    BY <2>4, <2>5
  <2> QED
    BY <2>6
<1>5. IsSum(sum)
  <2> HIDE DEF IsSum
  <2> QED
    BY <1>4
<1> HIDE DEF sum
<1>6. ASSUME NEW p \in SUBSET D
      PROVE  /\ p = {} => sum[p] = 0
             /\ p # {} => sum[p] = sum[p \ {Max(p)}] + s[Max(p)]
  BY ONLY <1>5, <1>6 DEF IsSum
<1> HIDE DEF IsSum
<1>7. PICK h : h = [n \in 0..Len(s) |-> sum[1..n]]
  OBVIOUS
<1>8. h[0] = 0
  <2>1. 1..0 = {} /\ 0 \in 0..Len(s) /\ {} \in SUBSET D
    BY <1>2
  <2> QED
    BY <1>6, <1>7, <2>1
<1>9. ASSUME NEW n \in 0..(Len(s) - 1) PROVE h[n + 1] = h[n] + s[n + 1]
  <2>1. n \in 0..Len(s) /\ n + 1 \in 0..Len(s) /\ n \in Nat
    BY <1>2
  <2>2. Max(1..(n + 1)) = n + 1 /\ (1..(n + 1)) \ {n + 1} = 1..n /\ 1..(n + 1) # {}
    BY <2>1, Prefix
  <2>3. 1..(n + 1) \in SUBSET D
    BY <1>2, <2>1
  <2>4. sum[1..(n + 1)] = sum[1..n] + s[n + 1]
    BY <1>6, <2>2, <2>3
  <2> QED
    BY <1>7, <2>1, <2>4
<1>10. \A n \in Nat : n <= Len(s) => h[n] \in Int
  <2> DEFINE Good == {n \in Nat : n <= Len(s) => h[n] \in Int}
  <2>1. 0 \in Good
    BY <1>8
  <2>2. ASSUME NEW n \in Nat, n \in Good PROVE n + 1 \in Good
    <3>1. ASSUME n + 1 <= Len(s) PROVE h[n + 1] \in Int
      <4>1. n \in 0..(Len(s) - 1) /\ n <= Len(s) /\ n + 1 \in 1..Len(s)
        BY <1>2, <3>1
      <4>2. h[n] \in Int /\ s[n + 1] \in Int /\ h[n + 1] = h[n] + s[n + 1]
        BY <1>9, <2>2, <4>1
      <4> QED
        BY <4>2
    <3> QED
      BY <3>1
  <2>3. Nat \subseteq Good
    <3> HIDE DEF Good
    <3> QED
      BY <2>1, <2>2, AllNumbers
  <2> QED
    BY <2>3
<1>11. h \in [0..Len(s) -> Int] /\ sum[D] = h[Len(s)]
  BY <1>2, <1>7, <1>10
<1> QED
  BY <1>3, <1>8, <1>9, <1>11

\* The sum of a sequence of numbers is a number.
LEMMA SumIsInt ==
  ASSUME NEW s \in Seq(Int)
  PROVE  FoldLeft(+, 0, s) \in Int
<1>1. PICK h \in [0..Len(s) -> Int] : FoldLeft(+, 0, s) = h[Len(s)]
  BY SumOf
<1>2. Len(s) \in 0..Len(s)
  OBVIOUS
<1> QED
  BY <1>1, <1>2

\* What the sums of two sequences differ by that are equal but at position i.
LEMMA TwoSums ==
  ASSUME NEW s \in Seq(Int), NEW t \in Seq(Int), Len(s) = Len(t), NEW i \in 1..Len(s),
         \A k \in 1..Len(s) : k # i => s[k] = t[k]
  PROVE  FoldLeft(+, 0, s) - FoldLeft(+, 0, t) = s[i] - t[i]
<1>1. PICK g \in [0..Len(s) -> Int] :
        /\ g[0] = 0 /\ \A n \in 0..(Len(s) - 1) : g[n + 1] = g[n] + s[n + 1]
        /\ FoldLeft(+, 0, s) = g[Len(s)]
  BY SumOf
<1>2. PICK h \in [0..Len(t) -> Int] :
        /\ h[0] = 0 /\ \A n \in 0..(Len(t) - 1) : h[n + 1] = h[n] + t[n + 1]
        /\ FoldLeft(+, 0, t) = h[Len(t)]
  BY SumOf
<1> DEFINE Good == {n \in Nat : n <= Len(s) => g[n] - h[n] = IF n < i THEN 0 ELSE s[i] - t[i]}
<1>3. 0 \in Good
  <2>1. 0 < i /\ i \in Int
    OBVIOUS
  <2>2. g[0] = 0 /\ h[0] = 0
    BY <1>1, <1>2
  <2> QED
    BY ONLY <2>1, <2>2
<1>4. ASSUME NEW n \in Nat, n \in Good PROVE n + 1 \in Good
  <2>1. ASSUME n + 1 <= Len(s)
        PROVE  g[n + 1] - h[n + 1] = IF n + 1 < i THEN 0 ELSE s[i] - t[i]
    <3>1. /\ n \in 0..(Len(s) - 1) /\ n <= Len(s) /\ n + 1 \in 1..Len(s) /\ n \in 0..Len(s)
          /\ i \in 1..Len(s)
      BY <2>1
    <3>2. g[n + 1] = g[n] + s[n + 1] /\ h[n + 1] = h[n] + t[n + 1]
      BY <1>1, <1>2, <3>1
    <3>3. g[n] - h[n] = IF n < i THEN 0 ELSE s[i] - t[i]
      BY <1>4, <3>1
    <3>4. g[n] \in Int /\ h[n] \in Int /\ s[n + 1] \in Int /\ t[n + 1] \in Int
          /\ s[i] \in Int /\ t[i] \in Int
      BY <3>1
    <3>5. CASE n + 1 = i
      <4>1. n < i /\ ~(n + 1 < i) /\ s[n + 1] = s[i] /\ t[n + 1] = t[i]
        BY <3>1, <3>5
      <4>2. g[n] - h[n] = 0
        BY ONLY <3>3, <4>1
      <4>3. g[n + 1] - h[n + 1] = s[i] - t[i]
        <5>1. g[n + 1] = g[n] + s[i] /\ h[n + 1] = h[n] + t[i]
          BY ONLY <3>2, <4>1
        <5>2. PICK a, b, c, e : a = g[n] /\ b = h[n] /\ c = s[i] /\ e = t[i]
          OBVIOUS
        <5>3. a \in Int /\ b \in Int /\ c \in Int /\ e \in Int /\ a - b = 0
          BY ONLY <3>4, <4>2, <5>2
        <5>4. (a + c) - (b + e) = c - e
          BY ONLY <5>3
        <5> QED
          BY ONLY <5>1, <5>2, <5>4
      <4> QED
        BY ONLY <4>1, <4>3
    <3>6. CASE n + 1 # i
      <4>1. s[n + 1] = t[n + 1] /\ (n < i <=> n + 1 < i)
        <5>1. s[n + 1] = t[n + 1]
          BY <3>1, <3>6
        <5>2. i \in Int
          OBVIOUS
        <5>3. n < i <=> n + 1 < i
          BY ONLY n \in Nat, <3>6, <5>2
        <5> QED
          BY ONLY <5>1, <5>3
      <4>2. g[n + 1] - h[n + 1] = g[n] - h[n]
        BY ONLY <3>2, <3>4, <4>1
      <4> QED
        BY ONLY <3>3, <4>1, <4>2
    <3> QED
      BY <3>5, <3>6
  <2> QED
    BY <2>1
<1>5. Nat \subseteq Good
  <2> HIDE DEF Good
  <2> QED
    BY <1>3, <1>4, AllNumbers
<1>6. Len(s) \in Nat /\ ~(Len(s) < i)
  OBVIOUS
<1>7. g[Len(s)] - h[Len(s)] = s[i] - t[i]
  <2>1. Len(s) \in Good
    <3> HIDE DEF Good
    <3> QED
      BY <1>5, <1>6
  <2>2. PICK n : n = Len(s)
    OBVIOUS
  <2> QED
    BY ONLY <1>6, <2>1, <2>2
<1> QED
  BY <1>1, <1>2, <1>7

-----------------------------------------------------------------------------
(* Bytes and digits.                                                       *)

\* The checksum of a message is a byte.
LEMMA CodeIsByte ==
  ASSUME NEW bytes \in Seq(Byte)
  PROVE  generate_msg_validation_code(bytes) \in Byte
<1>1. Base * Base \in Nat /\ Base * Base > 0
  BY BaseAssumption
<1>2. PICK n : n = FoldLeft(+, 0, bytes)
  OBVIOUS
<1>3. bytes \in Seq(Int)
  BY <1>1 DEF Byte
<1>4. n \in Int
  BY <1>2, <1>3, SumIsInt
<1> DEFINE m == Base * Base
<1>5. generate_msg_validation_code(bytes) = (-n) % m /\ Byte = 0..(m - 1)
  BY <1>2 DEF generate_msg_validation_code, Byte
<1> HIDE DEF m
<1>6. m \in Nat /\ m > 0
  BY <1>1 DEF m
<1>7. (-n) % m \in 0..(m - 1)
  BY <1>4, <1>6
<1> QED
  BY <1>5, <1>7

\* One byte changed changes the checksum.
LEMMA CodesDiffer ==
  ASSUME NEW s \in Seq(Byte), NEW t \in Seq(Byte), Len(s) = Len(t), NEW i \in 1..Len(s),
         \A k \in 1..Len(s) : k # i => s[k] = t[k], s[i] # t[i]
  PROVE  generate_msg_validation_code(s) # generate_msg_validation_code(t)
<1>1. PICK m : m = Base * Base
  OBVIOUS
<1>2. m \in Nat /\ m > 0
  BY <1>1, BaseAssumption
<1>3. s \in Seq(Int) /\ t \in Seq(Int) /\ s[i] \in 0..(m - 1) /\ t[i] \in 0..(m - 1)
  BY <1>1, <1>2 DEF Byte
<1>4. PICK a, b : a = FoldLeft(+, 0, s) /\ b = FoldLeft(+, 0, t)
  OBVIOUS
<1>5. a \in Int /\ b \in Int /\ a - b = s[i] - t[i]
  BY <1>3, <1>4, SumIsInt, TwoSums
<1>6. PICK d : d = s[i] - t[i]
  OBVIOUS
<1>7. d \in Int /\ d # 0 /\ d < m /\ -d < m
  BY <1>2, <1>3, <1>6
<1>8. ASSUME (-a) % m = (-b) % m PROVE FALSE
  <2>1. PICK p, q, r : p = (-a) \div m /\ q = (-b) \div m /\ r = (-a) % m
    OBVIOUS
  <2>2. p \in Int /\ q \in Int /\ r \in Int
    BY <1>2, <1>5, <2>1
  <2>3. -a = m * p + r /\ -b = m * q + r
    BY <1>2, <1>5, <1>8, <2>1
  <2>4. PICK k : k = q - p
    OBVIOUS
  <2>5. k \in Int /\ d = m * k
    BY <1>2, <1>5, <1>6, <2>2, <2>3, <2>4
  <2>6. k >= 1 \/ k = 0 \/ k <= -1
    BY <2>5
  <2>7. ASSUME k >= 1 PROVE m * k >= m
    BY <1>2, <2>5, <2>7
  <2>8. ASSUME k <= -1 PROVE m * k <= -m
    BY <1>2, <2>5, <2>8
  <2>9. m * 0 = 0
    BY <1>2
  <2> QED
    BY <1>2, <1>7, <2>5, <2>6, <2>7, <2>8, <2>9
<1> QED
  BY <1>1, <1>4, <1>8 DEF generate_msg_validation_code

\* A byte is two digits.
LEMMA TwoDigits ==
  ASSUME NEW b \in Byte
  PROVE  /\ b \div Base \in Digit /\ b % Base \in Digit
         /\ b = (b \div Base) * Base + (b % Base)
BY BaseAssumption DEF Byte, Digit

\* Two digits are a byte.
LEMMA ByteOfDigits ==
  ASSUME NEW d \in Digit, NEW e \in Digit
  PROVE  d * Base \in Byte /\ d * Base + e \in Byte
BY BaseAssumption DEF Byte, Digit

\* The markers are symbols, and neither digits nor each other.
LEMMA Markers ==
  /\ Colon \in Symbol /\ CR \in Symbol /\ LF \in Symbol /\ Digit \subseteq Symbol
  /\ Colon \notin Digit /\ CR \notin Digit /\ LF \notin Digit
  /\ Colon # CR /\ Colon # LF /\ CR # LF
BY BaseAssumption DEF Colon, CR, LF, Digit, Symbol

\* A message with its checksum.
LEMMA SealedIs ==
  ASSUME NEW content \in Seq(Byte)
  PROVE  Sealed(content) \in Seq(Byte) /\ Len(Sealed(content)) = Len(content) + 1
BY CodeIsByte DEF Sealed

\* A message with its checksum passes the check of the receiver.
LEMMA SealedIsValid ==
  ASSUME NEW content \in Seq(Byte), content # << >>
  PROVE  check_msg_validation(Sealed(content))
<1>1. PICK code, bytes : /\ code = generate_msg_validation_code(content)
                        /\ bytes = Append(content, code)
  OBVIOUS
<1>2. code \in Byte
  BY <1>1, CodeIsByte
<1>3. Len(content) \in Nat /\ Len(content) > 0
  BY EmptySeq
<1>4. /\ bytes \in Seq(Byte) /\ Len(bytes) = Len(content) + 1
      /\ bytes[Len(content) + 1] = code
      /\ \A i \in 1..Len(content) : bytes[i] = content[i]
  BY <1>1, <1>2, <1>3
<1>5. Last(bytes) = code
  BY <1>3, <1>4 DEF Last
<1>6. Front(bytes) = content
  <2>1. PICK front : front = Front(bytes)
    OBVIOUS
  <2>2. /\ front \in Seq(Byte) /\ Len(front) = Len(content)
        /\ \A i \in 1..Len(content) : front[i] = bytes[i]
    BY <1>3, <1>4, <2>1 DEF Front
  <2> QED
    BY <1>4, <2>1, <2>2, SeqEqual
<1> QED
  BY <1>1, <1>3, <1>4, <1>5, <1>6 DEF check_msg_validation, Sealed

\* Its text: two digits for every byte.
LEMMA TextIs ==
  ASSUME NEW bytes \in Seq(Byte)
  PROVE  /\ encode_data_hex(bytes) \in Seq(Digit)
         /\ Len(encode_data_hex(bytes)) = 2 * Len(bytes)
         /\ \A i \in 1..Len(bytes) :
              /\ encode_data_hex(bytes)[2 * i - 1] = bytes[i] \div Base
              /\ encode_data_hex(bytes)[2 * i] = bytes[i] % Base
<1> DEFINE text == encode_data_hex(bytes)
<1>1. Len(bytes) \in Nat
  OBVIOUS
<1>2. ASSUME NEW k \in 1..(2 * Len(bytes))
      PROVE  /\ k % 2 = 1 => /\ (k + 1) \div 2 \in 1..Len(bytes)
                            /\ text[k] = bytes[(k + 1) \div 2] \div Base
             /\ k % 2 # 1 => /\ k \div 2 \in 1..Len(bytes)
                            /\ text[k] = bytes[k \div 2] % Base
  BY <1>1 DEF encode_data_hex
<1>3. \A k \in 1..(2 * Len(bytes)) : text[k] \in Digit
  BY <1>2, TwoDigits
<1>4. text \in [1..(2 * Len(bytes)) -> Digit]
  BY <1>3 DEF encode_data_hex
<1>5. text \in Seq(Digit) /\ Len(text) = 2 * Len(bytes)
  BY <1>1, <1>4
<1>6. ASSUME NEW i \in 1..Len(bytes)
      PROVE  text[2 * i - 1] = bytes[i] \div Base /\ text[2 * i] = bytes[i] % Base
  <2>1. 2 * i - 1 \in 1..(2 * Len(bytes)) /\ 2 * i \in 1..(2 * Len(bytes))
    BY <1>1
  <2>2. (2 * i - 1) % 2 = 1 /\ ((2 * i - 1) + 1) \div 2 = i
    OBVIOUS
  <2>3. (2 * i) % 2 # 1 /\ (2 * i) \div 2 = i
    OBVIOUS
  <2> HIDE DEF text
  <2> QED
    BY <1>2, <2>1, <2>2, <2>3
<1> QED
  BY <1>5, <1>6

\* Two sequences, one after the other.
LEMMA Joined ==
  ASSUME NEW S, NEW s \in Seq(S), NEW t \in Seq(S), NEW u, u = s \o t
  PROVE  /\ u \in Seq(S) /\ Len(u) = Len(s) + Len(t)
         /\ \A i \in 1..Len(s) : u[i] = s[i]
         /\ \A i \in 1..Len(t) : u[Len(s) + i] = t[i]
<1>1. /\ u \in Seq(S) /\ Len(u) = Len(s) + Len(t) /\ Len(s) \in Nat /\ Len(t) \in Nat
      /\ \A i \in 1..(Len(s) + Len(t)) : u[i] = IF i <= Len(s) THEN s[i] ELSE t[i - Len(s)]
  BY ConcatProperties
<1>2. ASSUME NEW i \in 1..Len(s) PROVE u[i] = s[i]
  BY <1>1
<1>3. ASSUME NEW i \in 1..Len(t) PROVE u[Len(s) + i] = t[i]
  <2>1. Len(s) + i \in 1..(Len(s) + Len(t)) /\ ~(Len(s) + i <= Len(s))
        /\ (Len(s) + i) - Len(s) = i
    BY <1>1
  <2> QED
    BY <1>1, <2>1
<1> QED
  BY <1>1, <1>2, <1>3

\* The symbols of a frame, one by one.
LEMMA FrameIs ==
  ASSUME NEW content \in Seq(Byte), NEW n, n = Len(content) + 1,
         NEW frame, frame = Frame(Text(content))
  PROVE  /\ n \in Nat /\ frame \in Seq(Symbol) /\ Len(frame) = 2 * n + 3
         /\ frame[1] = Colon /\ frame[2 * n + 2] = CR /\ frame[2 * n + 3] = LF
         /\ \A i \in 1..n : /\ frame[2 * i] = Sealed(content)[i] \div Base
                           /\ frame[2 * i + 1] = Sealed(content)[i] % Base
                           /\ frame[2 * i] \in Digit /\ frame[2 * i + 1] \in Digit
<1>0. PICK bytes : bytes = Sealed(content)
  OBVIOUS
<1>1. bytes \in Seq(Byte) /\ Len(bytes) = n /\ n \in Nat
  BY <1>0, SealedIs
<1>2. PICK text : text = encode_data_hex(bytes)
  OBVIOUS
<1>3. /\ text \in Seq(Digit) /\ Len(text) = 2 * n
      /\ \A i \in 1..n : text[2 * i - 1] = bytes[i] \div Base /\ text[2 * i] = bytes[i] % Base
  BY <1>1, <1>2, TextIs
<1>4. PICK first, front, last : /\ first = <<Colon>> /\ front = first \o text
                               /\ last = <<CR, LF>> /\ frame = front \o last
  BY <1>0, <1>2 DEF Frame, Text, start_c, end_c
<1>5. /\ text \in Seq(Symbol)
      /\ first \in Seq(Symbol) /\ Len(first) = 1 /\ first[1] = Colon
      /\ last \in Seq(Symbol) /\ Len(last) = 2 /\ last[1] = CR /\ last[2] = LF
  BY <1>3, <1>4, Markers
<1>6. /\ front \in Seq(Symbol) /\ Len(front) = 1 + Len(text)
      /\ front[1] = Colon
      /\ \A k \in 1..Len(text) : front[1 + k] = text[k]
  BY <1>4, <1>5, Joined
<1>7. /\ Len(front) = 2 * n + 1 /\ front[1] = Colon
      /\ \A k \in 1..(2 * n) : front[k + 1] = text[k]
  BY <1>1, <1>3, <1>6
<1>10. /\ frame \in Seq(Symbol) /\ Len(frame) = Len(front) + 2
       /\ \A k \in 1..Len(front) : frame[k] = front[k]
       /\ frame[Len(front) + 1] = CR /\ frame[Len(front) + 2] = LF
  BY <1>4, <1>5, <1>6, Joined
<1>8. /\ Len(frame) = 2 * n + 3
      /\ \A k \in 1..(2 * n + 1) : frame[k] = front[k]
      /\ frame[2 * n + 2] = CR /\ frame[2 * n + 3] = LF
  <2>1. Len(front) + 1 = 2 * n + 2 /\ Len(front) + 2 = 2 * n + 3
    BY <1>1, <1>7
  <2> QED
    BY <1>7, <1>10, <2>1
<1>9. ASSUME NEW i \in 1..n
      PROVE  /\ frame[2 * i] = Sealed(content)[i] \div Base
             /\ frame[2 * i + 1] = Sealed(content)[i] % Base
             /\ frame[2 * i] \in Digit /\ frame[2 * i + 1] \in Digit
  <2>1. /\ 2 * i - 1 \in 1..(2 * n) /\ 2 * i \in 1..(2 * n)
        /\ 2 * i \in 1..(2 * n + 1) /\ 2 * i + 1 \in 1..(2 * n + 1)
        /\ (2 * i - 1) + 1 = 2 * i
    BY <1>1
  <2>2. frame[2 * i] = text[2 * i - 1] /\ frame[2 * i + 1] = text[2 * i]
    BY <1>7, <1>8, <2>1
  <2>3. bytes[i] \in Byte
    BY <1>1
  <2> QED
    BY <1>0, <1>3, <2>2, <2>3, TwoDigits
<1>11. frame[1] = Colon
  <2>1. 1 \in 1..(2 * n + 1)
    BY <1>1
  <2> QED
    BY <1>7, <1>8, <2>1
<1> QED
  BY <1>1, <1>8, <1>9, <1>10, <1>11

-----------------------------------------------------------------------------
(* What the receiver decodes.                                              *)

\* Of a set of numbers up to n, the one that has k of them up to it.
LEMMA KthOf ==
  ASSUME NEW n \in Nat, NEW S \in SUBSET (1..n), NEW k \in 1..Cardinality(S)
  PROVE  \E i \in S : Cardinality({j \in S : j <= i}) = k
<1> DEFINE Upto(i) == {j \in S : j <= i}
           T == {i \in Nat : Cardinality(Upto(i)) >= k}
<1>0. \A j \in S : j \in Nat /\ 1 <= j /\ j <= n
  OBVIOUS
<1>1. IsFiniteSet(S) /\ Cardinality(S) \in Nat
  <2>1. IsFiniteSet(1..n)
    BY FS_Interval
  <2>2. S \subseteq 1..n
    OBVIOUS
  <2> QED
    BY ONLY <2>1, <2>2, FS_Subset, FS_CardinalityType
<1>2. \A i \in Nat : IsFiniteSet(Upto(i)) /\ Cardinality(Upto(i)) \in Nat
  <2> SUFFICES ASSUME NEW i \in Nat PROVE IsFiniteSet(Upto(i)) /\ Cardinality(Upto(i)) \in Nat
    OBVIOUS
  <2>1. Upto(i) \subseteq S
    OBVIOUS
  <2> QED
    BY ONLY <1>1, <2>1, FS_Subset, FS_CardinalityType
<1>3. n \in T
  <2>1. Upto(n) = S
    BY ONLY <1>0
  <2>2. Cardinality(S) >= k
    BY <1>1
  <2> QED
    BY <2>1, <2>2
<1>4. PICK m \in T : \A i \in T : m <= i
  <2>1. T \in SUBSET Nat /\ T # {}
    BY <1>3
  <2> HIDE DEF T
  <2> QED
    BY <2>1, LeastNumber
<1>5. m # 0
  <2>1. SUFFICES ASSUME m = 0 PROVE FALSE
    OBVIOUS
  <2>2. Upto(0) = {}
    <3>1. \A j \in S : ~(j <= 0)
      BY ONLY <1>0
    <3> QED
      BY <3>1
  <2>3. Cardinality(Upto(0)) = 0
    BY <2>2, FS_EmptySet
  <2> QED
    BY <1>4, <2>1, <2>3
<1>6. m - 1 \in Nat /\ m - 1 \notin T /\ m \in Nat
  <2>1. m \in Nat
    BY <1>4
  <2>2. m - 1 \in Nat /\ ~(m <= m - 1)
    BY ONLY <1>5, <2>1
  <2> HIDE DEF T
  <2> QED
    BY <1>4, <2>1, <2>2
<1>7. Cardinality(Upto(m)) >= k /\ ~(Cardinality(Upto(m - 1)) >= k)
  BY <1>4, <1>6
<1>8. m \in S
  <2>1. SUFFICES ASSUME m \notin S PROVE FALSE
    OBVIOUS
  <2>2. Upto(m) = Upto(m - 1)
    <3>1. \A j \in S : j <= m <=> j <= m - 1
      BY <1>0, <1>6, <2>1
    <3> QED
      BY <3>1
  <2> QED
    BY <1>7, <2>2
<1>9. Upto(m) = Upto(m - 1) \cup {m} /\ m \notin Upto(m - 1)
  <2>1. \A j \in S : j <= m <=> (j <= m - 1 \/ j = m)
    BY ONLY <1>0, <1>6
  <2>2. m <= m /\ ~(m <= m - 1)
    BY ONLY <1>6
  <2> QED
    BY <1>8, <2>1, <2>2
<1>10. Cardinality(Upto(m)) = Cardinality(Upto(m - 1)) + 1
  <2> HIDE DEF Upto
  <2> QED
    BY <1>2, <1>6, <1>9, FS_AddElement
<1>11. Cardinality(Upto(m)) = k
  <2>1. Cardinality(Upto(m)) \in Nat /\ Cardinality(Upto(m - 1)) \in Nat /\ k \in Int
    <3> HIDE DEF Upto, T
    <3> QED
      BY <1>1, <1>2, <1>6
  <2> QED
    BY ONLY <2>1, <1>7, <1>10
<1> QED
  BY <1>8, <1>11

\* The pairs of digits of a text.
LEMMA PairsAre ==
  ASSUME NEW text \in Seq(Symbol)
  PROVE  /\ Len(text) \div 2 \in Nat /\ Pairs(text) \in SUBSET (1..(Len(text) \div 2))
         /\ Cardinality(Pairs(text)) \in Nat
         /\ \A k \in 1..Cardinality(Pairs(text)) :
              /\ KthPair(text, k) \in Pairs(text)
              /\ Cardinality({j \in Pairs(text) : j <= KthPair(text, k)}) = k
<1> DEFINE n == Len(text) \div 2
           P == Pairs(text)
<1>1. n \in Nat
  OBVIOUS
<1>2. P \in SUBSET (1..n)
  BY DEF Pairs
<1>3. Cardinality(P) \in Nat
  <2>1. IsFiniteSet(1..n)
    BY <1>1, FS_Interval
  <2> HIDE DEF n, P
  <2> QED
    BY <1>2, <2>1, FS_Subset, FS_CardinalityType
<1>4. ASSUME NEW k \in 1..Cardinality(P)
      PROVE  KthPair(text, k) \in P /\ Cardinality({j \in P : j <= KthPair(text, k)}) = k
  <2> HIDE DEF n
  <2>1. \E i \in P : Cardinality({j \in P : j <= i}) = k
    <3> HIDE DEF P
    <3> QED
      BY ONLY <1>1, <1>2, k \in 1..Cardinality(P), KthOf
  <2>2. KthPair(text, k) = CHOOSE i \in P : Cardinality({j \in P : j <= i}) = k
    BY DEF KthPair
  <2> HIDE DEF P
  <2> QED
    BY <2>1, <2>2
<1> QED
  BY <1>1, <1>2, <1>3, <1>4

\* What is decoded from a text are bytes.
LEMMA DecodedIsBytes ==
  ASSUME NEW text \in Seq(Symbol)
  PROVE  decode_data_hex(text) \in Seq(Byte)
<1>1. CASE Len(text) % 2 # 0
  BY <1>1, EmptySeq DEF decode_data_hex
<1>2. CASE ~(Len(text) % 2 # 0)
  <2> DEFINE c == Cardinality(Pairs(text))
             byte(k) == text[2 * KthPair(text, k) - 1] * Base + text[2 * KthPair(text, k)]
  <2>1. decode_data_hex(text) = [k \in 1..c |-> byte(k)]
    BY <1>2 DEF decode_data_hex
  <2>2. ASSUME NEW k \in 1..c PROVE byte(k) \in Byte
    <3>1. KthPair(text, k) \in Pairs(text)
      BY PairsAre
    <3>2. text[2 * KthPair(text, k) - 1] \in Digit /\ text[2 * KthPair(text, k)] \in Digit
      BY <3>1 DEF Pairs
    <3> QED
      BY <3>2, ByteOfDigits
  <2>3. c \in Nat
    BY PairsAre
  <2> HIDE DEF c, byte
  <2>4. [k \in 1..c |-> byte(k)] \in [1..c -> Byte]
    BY <2>2
  <2> QED
    BY <2>1, <2>3, <2>4
<1> QED
  BY <1>1, <1>2

\* What an even number of digits decodes to.
LEMMA DigitsDecoded ==
  ASSUME NEW n \in Nat, NEW text \in Seq(Digit), Len(text) = 2 * n
  PROVE  /\ decode_data_hex(text) \in Seq(Byte) /\ Len(decode_data_hex(text)) = n
         /\ \A k \in 1..n : decode_data_hex(text)[k] = text[2 * k - 1] * Base + text[2 * k]
<1>1. (2 * n) \div 2 = n /\ (2 * n) % 2 = 0
  OBVIOUS
<1>2. text \in Seq(Symbol)
  BY Markers
<1>3. Pairs(text) = 1..n
  <2>1. ASSUME NEW i \in 1..n PROVE text[2 * i - 1] \in Digit /\ text[2 * i] \in Digit
    <3>1. 2 * i - 1 \in 1..(2 * n) /\ 2 * i \in 1..(2 * n)
      OBVIOUS
    <3> QED
      BY <3>1
  <2> QED
    BY <1>1, <2>1 DEF Pairs
<1>4. Cardinality(Pairs(text)) = n
  BY <1>3, FS_Interval
<1>5. ASSUME NEW k \in 1..n PROVE KthPair(text, k) = k
  <2>1. PICK i : i = KthPair(text, k)
    OBVIOUS
  <2>2. i \in 1..n /\ Cardinality({j \in 1..n : j <= i}) = k
    BY <1>2, <1>3, <1>4, <2>1, PairsAre
  <2>3. {j \in 1..n : j <= i} = 1..i
    BY <2>2
  <2>4. Cardinality(1..i) = i
    BY <2>2, FS_Interval
  <2> QED
    BY <2>1, <2>2, <2>3, <2>4
<1>6. decode_data_hex(text)
        = [k \in 1..n |-> text[2 * KthPair(text, k) - 1] * Base + text[2 * KthPair(text, k)]]
  BY <1>1, <1>4 DEF decode_data_hex
<1>7. decode_data_hex(text) \in Seq(Byte)
  BY <1>2, DecodedIsBytes
<1>8. PICK bytes : bytes = decode_data_hex(text)
  OBVIOUS
<1>9. DOMAIN bytes = 1..n /\ \A k \in 1..n : bytes[k] = text[2 * k - 1] * Base + text[2 * k]
  BY <1>5, <1>6, <1>8
<1>10. Len(bytes) = n
  BY <1>7, <1>8, <1>9
<1> QED
  BY <1>7, <1>8, <1>9, <1>10

\* Decoding undoes encoding.
LEMMA DecodedIsEncoded ==
  ASSUME NEW bytes \in Seq(Byte)
  PROVE  decode_data_hex(encode_data_hex(bytes)) = bytes
<1>1. PICK text, n : text = encode_data_hex(bytes) /\ n = Len(bytes)
  OBVIOUS
<1>2. n \in Nat
  BY <1>1
<1>3. /\ text \in Seq(Digit) /\ Len(text) = 2 * n
      /\ \A i \in 1..n : text[2 * i - 1] = bytes[i] \div Base /\ text[2 * i] = bytes[i] % Base
  BY ONLY <1>1, bytes \in Seq(Byte), TextIs
<1>4. PICK read : read = decode_data_hex(text)
  OBVIOUS
<1>5. /\ read \in Seq(Byte) /\ Len(read) = n
      /\ \A k \in 1..n : read[k] = text[2 * k - 1] * Base + text[2 * k]
  BY <1>2, <1>3, <1>4, DigitsDecoded
<1>6. ASSUME NEW k \in 1..n PROVE read[k] = bytes[k]
  <2>1. bytes[k] \in Byte
    BY <1>1
  <2> QED
    BY <1>3, <1>5, <2>1, TwoDigits
<1> QED
  BY <1>1, <1>4, <1>5, <1>6, SeqEqual

\* Multiples of different numbers differ.
LEMMA ProductsDiffer ==
  ASSUME NEW x \in Int, NEW y \in Int, x # y, NEW m \in Nat, m > 1
  PROVE  x * m \in Int /\ y * m \in Int /\ x * m # y * m
<1>1. ASSUME NEW u \in Int, NEW v \in Int, u < v PROVE u * m # v * m
  <2>1. PICK e : e = v - u
    OBVIOUS
  <2>2. e \in Nat /\ e > 0 /\ v = u + e
    BY <1>1, <2>1
  <2>3. PICK a, b : a = u * m /\ b = e * m
    OBVIOUS
  <2>4. a \in Int /\ b \in Int /\ b > 0
    BY <2>2, <2>3
  <2>5. v * m = a + b
    BY <2>2, <2>3
  <2> QED
    BY ONLY <2>3, <2>4, <2>5
<1>2. x * m \in Int /\ y * m \in Int
  OBVIOUS
<1>3. x < y \/ y < x
  OBVIOUS
<1> QED
  BY <1>1, <1>2, <1>3

\* A message that arrives with one digit changed does not pass the check of the receiver.
LEMMA WrongDigitFails ==
  ASSUME NEW content \in Seq(Byte), NEW text, text = Text(content), NEW i \in DOMAIN text,
         NEW d \in Digit, d # text[i], NEW line, line = [text EXCEPT ![i] = d]
  PROVE  ~check_msg_validation(decode_data_hex(line))
<1>1. PICK sent, n : sent = Sealed(content) /\ n = Len(content) + 1
  OBVIOUS
<1>2. n \in Nat /\ n > 0 /\ sent \in Seq(Byte) /\ Len(sent) = n
  BY <1>1, SealedIs
<1>3. text \in Seq(Digit) /\ Len(text) = 2 * n
  BY <1>1, <1>2, TextIs DEF Text
<1>4. line \in Seq(Digit) /\ Len(line) = 2 * n /\ i \in 1..(2 * n)
      /\ \A k \in 1..(2 * n) : line[k] = IF k = i THEN d ELSE text[k]
  BY <1>3
<1>5. PICK got : got = decode_data_hex(line)
  OBVIOUS
<1>6. /\ got \in Seq(Byte) /\ Len(got) = n
      /\ \A k \in 1..n : got[k] = line[2 * k - 1] * Base + line[2 * k]
  BY <1>2, <1>4, <1>5, DigitsDecoded
<1>7. \A k \in 1..n : sent[k] = text[2 * k - 1] * Base + text[2 * k]
  <2>1. decode_data_hex(text) = sent
    BY <1>1, <1>2, DecodedIsEncoded DEF Text
  <2> QED
    BY <1>2, <1>3, <2>1, DigitsDecoded
\* Where the byte of the wrong digit stands.
<1>8. PICK j \in 1..n : i = 2 * j - 1 \/ i = 2 * j
  <2>1. PICK j : j = (i + 1) \div 2
    OBVIOUS
  <2>2. i \in Int /\ n \in Int /\ 1 <= i /\ i <= 2 * n
    BY <1>2, <1>4
  <2>3. j \in Int /\ (i = 2 * j - 1 \/ i = 2 * j)
    BY ONLY <2>1, <2>2
  <2>4. j \in 1..n
    BY ONLY <2>2, <2>3
  <2> QED
    BY <2>3, <2>4
<1>9. got[j] # sent[j]
  <2>1. 2 * j - 1 \in 1..(2 * n) /\ 2 * j \in 1..(2 * n) /\ 2 * j - 1 # 2 * j
    BY <1>2, <1>8
  <2>2. PICK a, b : a = text[2 * j - 1] /\ b = text[2 * j]
    OBVIOUS
  <2>3. a \in Digit /\ b \in Digit
    BY <1>3, <2>1, <2>2
  <2>4. CASE i = 2 * j - 1
    <3>1. got[j] = d * Base + b /\ sent[j] = a * Base + b /\ d # a
      BY <1>4, <1>6, <1>7, <1>8, <2>1, <2>2, <2>4
    <3>2. d \in Int /\ a \in Int /\ b \in Int
      BY <2>3 DEF Digit
    <3>3. PICK x, y : x = d * Base /\ y = a * Base
      OBVIOUS
    <3>4. x \in Int /\ y \in Int /\ x # y
      BY ONLY <3>1, <3>2, <3>3, BaseAssumption, ProductsDiffer
    <3>5. got[j] = x + b /\ sent[j] = y + b
      BY ONLY <3>1, <3>3
    <3> QED
      BY ONLY <3>2, <3>4, <3>5
  <2>5. CASE i = 2 * j
    <3>1. got[j] = a * Base + d /\ sent[j] = a * Base + b /\ d # b
      BY <1>4, <1>6, <1>7, <1>8, <2>1, <2>2, <2>5
    <3>2. d \in Int /\ a \in Int /\ b \in Int
      BY <2>3 DEF Digit
    <3>3. PICK x : x = a * Base
      OBVIOUS
    <3>4. x \in Int
      BY ONLY <3>2, <3>3, BaseAssumption
    <3>5. got[j] = x + d /\ sent[j] = x + b
      BY ONLY <3>1, <3>3
    <3> QED
      BY ONLY <3>1, <3>2, <3>4, <3>5
  <2> QED
    BY <1>8, <2>4, <2>5
<1>10. ASSUME NEW k \in 1..n, k # j PROVE got[k] = sent[k]
  <2>1. 2 * k - 1 \in 1..(2 * n) /\ 2 * k \in 1..(2 * n) /\ i # 2 * k - 1 /\ i # 2 * k
    BY <1>2, <1>8, <1>10
  <2> QED
    BY <1>4, <1>6, <1>7, <2>1
<1>11. PICK code : code = generate_msg_validation_code(content)
  OBVIOUS
<1>12. sent[n] = code /\ \A k \in 1..(n - 1) : sent[k] = content[k]
  <2>1. code \in Byte /\ Len(content) \in Nat
    BY <1>11, CodeIsByte
  <2> QED
    BY <1>1, <1>11, <2>1 DEF Sealed
<1>13. PICK front : front = Front(got)
  OBVIOUS
<1>14. /\ front \in Seq(Byte) /\ Len(front) = n - 1
       /\ \A k \in 1..(n - 1) : front[k] = got[k]
  BY <1>2, <1>6, <1>13 DEF Front
<1>15. Len(content) = n - 1
  BY <1>1
<1>16. CASE j = n
  <2>1. ASSUME NEW k \in 1..(n - 1) PROVE front[k] = content[k]
    <3>1. k \in 1..n /\ k # j
      BY <1>2, <1>16
    <3> QED
      BY <1>10, <1>12, <1>14, <3>1
  <2>2. front = content
    BY <1>14, <1>15, <2>1, SeqEqual
  <2>3. Last(got) = got[n]
    BY <1>6 DEF Last
  <2> QED
    BY <1>5, <1>9, <1>11, <1>12, <1>13, <1>16, <2>2, <2>3 DEF check_msg_validation
<1>17. CASE j # n
  <2>1. j \in 1..(n - 1) /\ n \in 1..n
    BY <1>2, <1>17
  <2>2. front[j] # content[j]
    BY <1>9, <1>12, <1>14, <2>1
  <2>3. ASSUME NEW k \in 1..(n - 1), k # j PROVE front[k] = content[k]
    <3>1. k \in 1..n
      BY <1>2
    <3> QED
      BY <1>10, <1>12, <1>14, <2>3, <3>1
  <2>4. generate_msg_validation_code(front) # code
    BY <1>11, <1>14, <1>15, <2>1, <2>2, <2>3, CodesDiffer
  <2>5. Last(got) = code
    BY <1>6, <1>10, <1>12, <1>17, <2>1 DEF Last
  <2> QED
    BY <1>5, <1>13, <2>4, <2>5 DEF check_msg_validation
<1> QED
  BY <1>16, <1>17

-----------------------------------------------------------------------------
(* Finding a marker, and cutting a text at it.                             *)

\* A piece of a sequence.
LEMMA PieceIs ==
  ASSUME NEW S, NEW s \in Seq(S), NEW m \in Nat, NEW n \in Nat, m > 0, m <= n + 1, n <= Len(s)
  PROVE  /\ SubSeq(s, m, n) \in Seq(S) /\ Len(SubSeq(s, m, n)) = n - m + 1
         /\ \A i \in 1..(n - m + 1) : SubSeq(s, m, n)[i] = s[m + i - 1]
<1>1. \A i \in m..n : s[i] \in S
  OBVIOUS
<1>2. m \in Int /\ n \in Int
  OBVIOUS
<1>3. /\ SubSeq(s, m, n) \in Seq(S)
      /\ Len(SubSeq(s, m, n)) = IF m <= n THEN n - m + 1 ELSE 0
      /\ \A i \in 1..(n - m + 1) : SubSeq(s, m, n)[i] = s[m + i - 1]
  BY ONLY <1>1, <1>2, SubSeqProperties
<1> QED
  BY <1>3

\* The least of some numbers.
LEMMA LeastIn ==
  ASSUME NEW S \in SUBSET Nat, S # {}
  PROVE  Min(S) \in S /\ \A x \in S : Min(S) <= x
BY LeastNumber DEF Min

\* The start marker is one character.
LEMMA StartFound ==
  ASSUME NEW text \in Seq(Symbol), NEW start, start = find_full_string(text, start_c)
  PROVE  /\ start \in 0..Len(text)
         /\ start = 0 => \A i \in 1..Len(text) : text[i] # Colon
         /\ start # 0 => text[start] = Colon /\ \A i \in 1..(start - 1) : text[i] # Colon
<1> DEFINE found == {i \in 1..Len(text) : SubSeq(text, i, i) = <<Colon>>}
<1>1. Len(text) \in Nat /\ Len(start_c) = 1
  BY DEF start_c
<1>2. start = IF found = {} THEN 0 ELSE Min(found)
  <2>1. Len(text) - 1 + 1 = Len(text) /\ \A i \in 1..Len(text) : i + 1 - 1 = i
    BY <1>1
  <2>2. found = {i \in 1..(Len(text) - Len(start_c) + 1) :
                   SubSeq(text, i, i + Len(start_c) - 1) = start_c}
    BY <1>1, <2>1 DEF start_c
  <2> QED
    BY <2>2 DEF find_full_string
<1>3. ASSUME NEW i \in 1..Len(text)
      PROVE  SubSeq(text, i, i) = <<Colon>> <=> text[i] = Colon
  <2>1. /\ SubSeq(text, i, i) \in Seq(Symbol) /\ Len(SubSeq(text, i, i)) = 1
        /\ SubSeq(text, i, i)[1] = text[i]
    <3>1. /\ SubSeq(text, i, i) \in Seq(Symbol) /\ Len(SubSeq(text, i, i)) = i - i + 1
          /\ \A k \in 1..(i - i + 1) : SubSeq(text, i, i)[k] = text[i + k - 1]
      BY <1>1, PieceIs
    <3>2. i - i + 1 = 1 /\ i + 1 - 1 = i
      BY <1>1
    <3> QED
      BY <3>1, <3>2
  <2>2. PICK s : s = SubSeq(text, i, i)
    OBVIOUS
  <2>3. s \in Seq(Symbol) /\ Len(s) = 1 /\ s[1] = text[i]
    BY <2>1, <2>2
  <2>4. CASE text[i] = Colon
    <3>1. PICK t : t = <<Colon>>
      OBVIOUS
    <3>2. t \in Seq(Symbol) /\ Len(t) = 1 /\ t[1] = Colon
      BY <3>1, Markers
    <3>3. s = t
      BY ONLY <2>3, <2>4, <3>2, SeqEqual
    <3> QED
      BY <2>2, <2>4, <3>1, <3>3
  <2>5. CASE text[i] # Colon
    <3>1. <<Colon>>[1] = Colon
      OBVIOUS
    <3> QED
      BY <2>2, <2>3, <2>5, <3>1
  <2> QED
    BY <2>4, <2>5
<1>4. found \in SUBSET Nat
  BY <1>1
<1>5. ASSUME found # {} PROVE Min(found) \in found /\ \A x \in found : Min(found) <= x
  BY <1>4, <1>5, LeastIn
<1>6. \A i \in 1..Len(text) : i \in found <=> text[i] = Colon
  BY <1>3
<1>7. found \subseteq 1..Len(text)
  OBVIOUS
<1> HIDE DEF found
<1> QED
  BY <1>1, <1>2, <1>4, <1>5, <1>6, <1>7

\* The end marker is two.
LEMMA EndFound ==
  ASSUME NEW text \in Seq(Symbol), NEW end, end = find_full_string(text, end_c)
  PROVE  /\ end = 0 \/ end \in 1..(Len(text) - 1)
         /\ end = 0 => \A i \in 1..(Len(text) - 1) : ~(text[i] = CR /\ text[i + 1] = LF)
         /\ end # 0 => /\ text[end] = CR /\ text[end + 1] = LF
                       /\ \A i \in 1..(end - 1) : ~(text[i] = CR /\ text[i + 1] = LF)
<1> DEFINE last == Len(text) - 1
           found == {i \in 1..last : SubSeq(text, i, i + 1) = <<CR, LF>>}
<1>1. Len(text) \in Nat /\ Len(end_c) = 2
  BY DEF end_c
<1>2. end = IF found = {} THEN 0 ELSE Min(found)
  <2>1. Len(text) - 2 + 1 = Len(text) - 1 /\ \A i \in 1..last : i + 2 - 1 = i + 1
    BY <1>1
  <2>2. found = {i \in 1..(Len(text) - Len(end_c) + 1) :
                   SubSeq(text, i, i + Len(end_c) - 1) = end_c}
    BY <1>1, <2>1 DEF end_c
  <2> QED
    BY <2>2 DEF find_full_string
<1>3. ASSUME NEW i \in 1..last
      PROVE  SubSeq(text, i, i + 1) = <<CR, LF>> <=> text[i] = CR /\ text[i + 1] = LF
  <2>1. /\ SubSeq(text, i, i + 1) \in Seq(Symbol) /\ Len(SubSeq(text, i, i + 1)) = 2
        /\ SubSeq(text, i, i + 1)[1] = text[i] /\ SubSeq(text, i, i + 1)[2] = text[i + 1]
    <3>1. i \in Nat /\ i + 1 \in Nat /\ i > 0 /\ i <= i + 1 + 1 /\ i + 1 <= Len(text)
      BY <1>1
    <3>2. /\ SubSeq(text, i, i + 1) \in Seq(Symbol)
          /\ Len(SubSeq(text, i, i + 1)) = i + 1 - i + 1
          /\ \A k \in 1..(i + 1 - i + 1) : SubSeq(text, i, i + 1)[k] = text[i + k - 1]
      BY ONLY <3>1, text \in Seq(Symbol), PieceIs
    <3>3. i + 1 - i + 1 = 2 /\ i + 1 - 1 = i /\ i + 2 - 1 = i + 1
      BY <1>1
    <3>4. 1 \in 1..2 /\ 2 \in 1..2
      OBVIOUS
    <3>5. PICK s, n : s = SubSeq(text, i, i + 1) /\ n = i + 1 - i + 1
      OBVIOUS
    <3>6. s \in Seq(Symbol) /\ Len(s) = n /\ \A k \in 1..n : s[k] = text[i + k - 1]
      BY <3>2, <3>5
    <3>7. n = 2
      BY <3>3, <3>5
    <3>8. s[1] = text[i + 1 - 1] /\ s[2] = text[i + 2 - 1]
      BY ONLY <3>4, <3>6, <3>7
    <3>9. s[1] = text[i] /\ s[2] = text[i + 1]
      BY ONLY <3>3, <3>8
    <3> QED
      BY <3>5, <3>6, <3>7, <3>9
  <2>2. PICK s : s = SubSeq(text, i, i + 1)
    OBVIOUS
  <2>3. s \in Seq(Symbol) /\ Len(s) = 2 /\ s[1] = text[i] /\ s[2] = text[i + 1]
    BY <2>1, <2>2
  <2>4. CASE text[i] = CR /\ text[i + 1] = LF
    <3>1. PICK t : t = <<CR, LF>>
      OBVIOUS
    <3>2. t \in Seq(Symbol) /\ Len(t) = 2 /\ t[1] = CR /\ t[2] = LF
      BY <3>1, Markers
    <3>3. \A k \in 1..Len(s) : s[k] = t[k]
      <4>1. \A k \in 1..2 : k = 1 \/ k = 2
        OBVIOUS
      <4> QED
        BY <2>3, <2>4, <3>2, <4>1
    <3>4. s = t
      BY ONLY <2>3, <3>2, <3>3, SeqEqual
    <3> QED
      BY <2>2, <2>4, <3>1, <3>4
  <2>5. CASE ~(text[i] = CR /\ text[i + 1] = LF)
    <3>1. <<CR, LF>>[1] = CR /\ <<CR, LF>>[2] = LF
      OBVIOUS
    <3> QED
      BY <2>2, <2>3, <2>5, <3>1
  <2> QED
    BY <2>4, <2>5
<1>4. found \in SUBSET Nat
  BY <1>1
<1>5. ASSUME found # {} PROVE Min(found) \in found /\ \A x \in found : Min(found) <= x
  BY <1>4, <1>5, LeastIn
<1>6. \A i \in 1..last : i \in found <=> (text[i] = CR /\ text[i + 1] = LF)
  BY <1>3
<1>7. found \subseteq 1..last
  OBVIOUS
<1> HIDE DEF found
<1>8. CASE found = {}
  BY <1>2, <1>6, <1>8
<1>9. CASE found # {}
  <2>1. end \in found /\ \A x \in found : end <= x
    BY <1>2, <1>5, <1>9
  <2>2. end \in 1..last /\ text[end] = CR /\ text[end + 1] = LF
    BY <1>6, <1>7, <2>1
  <2>3. ASSUME NEW i \in 1..(end - 1) PROVE ~(text[i] = CR /\ text[i + 1] = LF)
    <3>1. i \in 1..last /\ ~(end <= i)
      BY <1>1, <2>2
    <3> QED
      BY <1>6, <2>1, <3>1
  <2> QED
    BY <1>1, <2>2, <2>3
<1> QED
  BY <1>8, <1>9
=============================================================================
