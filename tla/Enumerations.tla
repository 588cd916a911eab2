------------------------------ MODULE Enumerations ------------------------------
(***************************************************************************)
(* What the proofs about the components of MCFiles and MCOthers share:       *)
(* induction on the natural numbers, stated for a set of them, and the       *)
(* enumeration of a finite set in an order of its elements.                *)
(***************************************************************************)
EXTENDS Integers, Sequences, FiniteSetTheorems, WellFoundedInduction, TLAPS

\* No sequence of natural numbers descends for ever.
LEMMA LessIsWellFounded ==
  IsWellFoundedOn({p \in Nat \X Nat : p[1] < p[2]}, Nat)
PROOF
<1>. SUFFICES ASSUME NEW f \in [Nat -> Nat], \A n \in Nat : f[n + 1] < f[n]
              PROVE  FALSE
  BY DEF IsWellFoundedOn
<1>. DEFINE g == [n \in Nat |-> 1 .. f[n]]
<1>1. g \in [Nat -> FiniteSubsetsOf(Nat)]
  <2>1. ASSUME NEW n \in Nat
        PROVE  1 .. f[n] \in FiniteSubsetsOf(Nat)
    <3>1. IsFiniteSet(1 .. f[n])
      BY FS_Interval
    <3> QED  BY <3>1 DEF FiniteSubsetsOf
  <2> QED  BY <2>1
<1>2. ASSUME NEW n \in Nat
      PROVE  <<g[n + 1], g[n]>> \in StrictSubsetOrdering(Nat)
  <2>1. g[n + 1] = 1 .. f[n + 1] /\ g[n] = 1 .. f[n] /\ f[n] \in 1 .. f[n] /\ f[n] \notin 1 .. f[n+1]
    <3>1. f[n] \in Nat /\ f[n + 1] \in Nat /\ f[n + 1] < f[n] /\ n + 1 \in Nat
      OBVIOUS
    <3>2. g[n + 1] = 1 .. f[n + 1] /\ g[n] = 1 .. f[n]
      BY <3>1
    <3>3. f[n] \in 1 .. f[n] /\ f[n] \notin 1 .. f[n+1]
      BY <3>1
    <3> QED  BY <3>2, <3>3
  <2>2. g[n + 1] \in SUBSET Nat /\ g[n] \in SUBSET Nat /\ g[n + 1] \subseteq g[n]
    <3>1. f[n] \in Nat /\ f[n + 1] \in Nat /\ f[n + 1] < f[n]
      OBVIOUS
    <3>2. 1 .. f[n] \in SUBSET Nat /\ 1 .. f[n + 1] \in SUBSET Nat
          /\ 1 .. f[n + 1] \subseteq 1 .. f[n]
      BY <3>1
    <3> QED  BY <2>1, <3>2
  <2> HIDE DEF g
  <2> QED  BY <2>1, <2>2 DEF StrictSubsetOrdering
<1> HIDE DEF g
<1> QED  BY <1>1, <1>2, FS_StrictSubsetOrderingWellFounded DEF IsWellFoundedOn

\* Induction: a set of numbers that has zero and, with each number, the next.
LEMMA NatSetInduction ==
  ASSUME NEW S \in SUBSET Nat, 0 \in S, \A n \in S : n + 1 \in S
  PROVE  S = Nat
PROOF
<1>. DEFINE Rel == {p \in Nat \X Nat : p[1] < p[2]}
<1>1. IsWellFoundedOn(Rel, Nat)
  BY LessIsWellFounded
<1>2. SUFFICES ASSUME Nat \ S # {} PROVE FALSE
  OBVIOUS
<1> HIDE DEF Rel
<1>3. PICK x \in Nat \ S : \A y \in Nat \ S : <<y, x>> \notin Rel
  BY <1>1, <1>2, WFMin
<1>4. x # 0 /\ x - 1 \in Nat /\ x - 1 \notin S
  BY <1>3
<1>5. <<x - 1, x>> \in Rel
  BY <1>3, <1>4 DEF Rel
<1> QED  BY <1>3, <1>4, <1>5

\* R is a strict order of all the elements of S.
Orders(Rel, S) ==
  /\ \A x, y, z \in S : <<x, y>> \in Rel /\ <<y, z>> \in Rel => <<x, z>> \in Rel
  /\ \A x \in S : <<x, x>> \notin Rel
  /\ \A x, y \in S : x # y => <<x, y>> \in Rel \/ <<y, x>> \in Rel

\* An element is known by the number of those before it.
LEMMA Ranks ==
  ASSUME NEW S, IsFiniteSet(S), NEW Rel, Orders(Rel, S), NEW x \in S, NEW y \in S, <<x, y>> \in Rel
  PROVE  /\ Cardinality({z \in S : <<z, x>> \in Rel}) \in 0 .. Cardinality(S) - 1
         /\ Cardinality({z \in S : <<z, x>> \in Rel}) < Cardinality({z \in S : <<z, y>> \in Rel})
PROOF
<1>. DEFINE X == {z \in S : <<z, x>> \in Rel}
            Y == {z \in S : <<z, y>> \in Rel}
<1>1. X \subseteq Y /\ x \in Y /\ x \notin X /\ x \in S /\ X \subseteq S /\ Y \subseteq S
  BY DEF Orders
<1> HIDE DEF X, Y
<1>2. IsFiniteSet(X) /\ IsFiniteSet(Y) /\ Cardinality(X) \in Nat /\ Cardinality(Y) \in Nat
  BY <1>1, FS_Subset, FS_CardinalityType
<1>3. Cardinality(X) <= Cardinality(Y) /\ Cardinality(X) # Cardinality(Y)
  BY <1>1, <1>2, FS_Subset
<1>4. Cardinality(X) <= Cardinality(S) /\ Cardinality(X) # Cardinality(S) /\ Cardinality(S) \in Nat
  BY <1>1, <1>2, FS_Subset, FS_CardinalityType
<1> QED  BY <1>2, <1>3, <1>4 DEF X, Y

\* The same of one element.
LEMMA RankOf ==
  ASSUME NEW S, IsFiniteSet(S), NEW Rel, Orders(Rel, S), NEW x \in S
  PROVE  Cardinality({z \in S : <<z, x>> \in Rel}) \in 0 .. Cardinality(S) - 1
PROOF
<1>. DEFINE X == {z \in S : <<z, x>> \in Rel}
<1>1. x \notin X /\ X \subseteq S
  BY DEF Orders
<1> HIDE DEF X
<1>2. Cardinality(X) \in Nat /\ Cardinality(S) \in Nat
  BY <1>1, FS_Subset, FS_CardinalityType
<1>3. Cardinality(X) <= Cardinality(S) /\ Cardinality(X) # Cardinality(S)
  BY <1>1, FS_Subset
<1> QED  BY <1>2, <1>3 DEF X

\* A finite set can be enumerated in any such order.
LEMMA Enumeration ==
  ASSUME NEW S, IsFiniteSet(S), NEW Rel, Orders(Rel, S)
  PROVE  \E s \in [1..Cardinality(S) -> S] :
           \A i, j \in 1..Cardinality(S) : i < j => <<s[i], s[j]>> \in Rel
PROOF
<1>. DEFINE n == Cardinality(S)
            rank == [x \in S |-> Cardinality({z \in S : <<z, x>> \in Rel}) + 1]
<1>1. n \in Nat /\ IsFiniteSet(1..n) /\ Cardinality(1..n) = n
  BY FS_CardinalityType, FS_Interval
<1>2. \A x \in S : rank[x] \in 1..n
  BY <1>1, RankOf
<1>3. \A x, y \in S : <<x, y>> \in Rel => rank[x] < rank[y]
  <2>1. ASSUME NEW x \in S, NEW y \in S, <<x, y>> \in Rel
        PROVE  rank[x] < rank[y]
    <3>1. /\ Cardinality({z \in S : <<z, x>> \in Rel}) < Cardinality({z \in S : <<z, y>> \in Rel})
          /\ Cardinality({z \in S : <<z, x>> \in Rel}) \in Nat
          /\ Cardinality({z \in S : <<z, y>> \in Rel}) \in Nat
      BY <1>1, <2>1, Ranks, RankOf
    <3> QED  BY <3>1
  <2> QED  BY <2>1
<1>4. rank \in [S -> 1..n]
  BY <1>2
<1> HIDE DEF rank
<1>5. rank \in Injection(S, 1..n)
  <2>1. ASSUME NEW x \in S, NEW y \in S, rank[x] = rank[y]
        PROVE  x = y
    <3>1. rank[x] \in Nat /\ rank[y] \in Nat
      BY <1>1, <1>2
    <3>2. <<x, y>> \notin Rel /\ <<y, x>> \notin Rel
      BY <1>3, <2>1, <3>1
    <3> QED  BY <3>2 DEF Orders
  <2> QED  BY <1>4, <2>1 DEF Injection, IsInjective
<1>6. rank \in Surjection(S, 1..n)
  BY <1>1, <1>5, FS_Injection
<1>. DEFINE s == [i \in 1..n |-> CHOOSE x \in S : rank[x] = i]
<1>7. \A i \in 1..n : s[i] \in S /\ rank[s[i]] = i
  BY <1>6 DEF Surjection
<1>8. s \in [1..n -> S]
  BY <1>7
<1> HIDE DEF s
<1>9. ASSUME NEW i \in 1..n, NEW j \in 1..n, i < j
      PROVE  <<s[i], s[j]>> \in Rel
  <2>1. s[i] # s[j]
    BY <1>7, <1>9
  <2>2. <<s[j], s[i]>> \notin Rel
    BY <1>1, <1>3, <1>7, <1>9
  <2> QED  BY <1>7, <2>1, <2>2 DEF Orders
<1> QED  BY <1>8, <1>9

\* An enumeration has every element once, and those before its i-th are its first ones.
LEMMA Enumerates ==
  ASSUME NEW S, IsFiniteSet(S), NEW Rel, Orders(Rel, S), NEW s \in [1..Cardinality(S) -> S],
         \A i, j \in 1..Cardinality(S) : i < j => <<s[i], s[j]>> \in Rel
  PROVE  /\ \A i, j \in 1..Cardinality(S) : s[i] = s[j] => i = j
         /\ \A x \in S : \E i \in 1..Cardinality(S) : s[i] = x
         /\ \A i, j \in 1..Cardinality(S) : <<s[i], s[j]>> \in Rel => i < j
PROOF
<1>. DEFINE n == Cardinality(S)
<1>1. n \in Nat /\ IsFiniteSet(1..n) /\ Cardinality(1..n) = n
  BY FS_CardinalityType, FS_Interval
<1>2. ASSUME NEW i \in 1..n, NEW j \in 1..n, s[i] = s[j]
      PROVE  i = j
  <2>1. i \in Nat /\ j \in Nat /\ s[i] \in S
    BY <1>1
  <2>2. ~(i < j) /\ ~(j < i)
    BY <1>2, <2>1 DEF Orders
  <2> QED  BY <2>1, <2>2
<1>3. s \in Injection(1..n, S)
  BY <1>2 DEF Injection, IsInjective
<1>4. s \in Surjection(1..n, S)
  BY <1>1, <1>3, FS_Injection
<1>5. ASSUME NEW i \in 1..n, NEW j \in 1..n, <<s[i], s[j]>> \in Rel
      PROVE  i < j
  <2>1. s[i] \in S /\ s[j] \in S /\ i \in Nat /\ j \in Nat
    BY <1>1
  <2>2. i # j
    BY <1>5, <2>1 DEF Orders
  <2>3. ASSUME j < i
        PROVE  FALSE
    BY <1>5, <2>1, <2>3 DEF Orders
  <2> QED  BY <2>1, <2>2, <2>3
<1> QED  BY <1>2, <1>4, <1>5 DEF Surjection

\* Functions that agree everywhere are one function.
LEMMA SameFunction ==
  ASSUME NEW A, NEW J, NEW f \in [A -> J], NEW g \in [A -> J], \A x \in A : f[x] = g[x]
  PROVE  f = g
OBVIOUS

\* There is one enumeration only.
LEMMA OneEnumeration ==
  ASSUME NEW S, IsFiniteSet(S), NEW Rel, Orders(Rel, S),
         NEW s \in [1..Cardinality(S) -> S], NEW t \in [1..Cardinality(S) -> S],
         \A i, j \in 1..Cardinality(S) : i < j => <<s[i], s[j]>> \in Rel,
         \A i, j \in 1..Cardinality(S) : i < j => <<t[i], t[j]>> \in Rel
  PROVE  s = t
PROOF
<1>. DEFINE n == Cardinality(S)
            N == {m \in Nat : \A k \in 1..m : k <= n => s[k] = t[k]}
<1>1. n \in Nat
  BY FS_CardinalityType
<1>2. /\ \A i, j \in 1..n : s[i] = s[j] => i = j
      /\ \A i, j \in 1..n : t[i] = t[j] => i = j
      /\ \A x \in S : \E i \in 1..n : s[i] = x
      /\ \A x \in S : \E i \in 1..n : t[i] = x
      /\ \A i, j \in 1..n : <<s[i], s[j]>> \in Rel => i < j
      /\ \A i, j \in 1..n : <<t[i], t[j]>> \in Rel => i < j
  BY Enumerates
<1>3. ASSUME NEW m \in N
      PROVE  m + 1 \in N
  <2>. SUFFICES ASSUME m + 1 <= n
                PROVE  s[m + 1] = t[m + 1]
    OBVIOUS
  <2>1. m + 1 \in 1..n /\ s[m + 1] \in S /\ t[m + 1] \in S
    BY <1>1
  <2>2. PICK i \in 1..n : s[i] = t[m + 1]
    BY <1>2, <2>1
  <2>3. PICK j \in 1..n : t[j] = s[m + 1]
    BY <1>2, <2>1
  <2>4. i >= m + 1
    <3>1. ASSUME i \in 1..m
          PROVE  FALSE
      BY <1>2, <2>1, <2>2, <3>1
    <3> QED  BY <3>1
  <2>5. j >= m + 1
    <3>1. ASSUME j \in 1..m
          PROVE  FALSE
      BY <1>2, <2>1, <2>3, <3>1
    <3> QED  BY <3>1
  <2>6. CASE i = m + 1
    BY <2>2, <2>6
  <2>7. CASE m + 1 < i
    <3>1. <<s[m + 1], s[i]>> \in Rel
      BY <2>1, <2>7
    <3>2. <<t[j], t[m + 1]>> \in Rel
      BY <2>2, <2>3, <3>1
    <3>3. j < m + 1
      BY <1>2, <2>1, <3>2
    <3> QED  BY <2>5, <3>3
  <2> QED  BY <2>4, <2>6, <2>7
<1>4. 0 \in N
  OBVIOUS
<1> HIDE DEF N
<1>5. N = Nat
  <2>1. N \in SUBSET Nat
    BY DEF N
  <2> QED  BY <1>3, <1>4, <2>1, NatSetInduction
<1>6. \A k \in 1..n : s[k] = t[k]
  BY <1>1, <1>5 DEF N
<1>7. s = [k \in 1..n |-> s[k]]
  OBVIOUS
<1>8. t = [k \in 1..n |-> t[k]]
  OBVIOUS
<1>9. [k \in 1..n |-> s[k]] = [k \in 1..n |-> t[k]]
  BY <1>6
<1> QED  BY <1>7, <1>8, <1>9

\* A finite set of numbers has a greatest one.
LEMMA Greatest ==
  ASSUME NEW S \in SUBSET Int, IsFiniteSet(S), S # {}
  PROVE  \E m \in S : \A x \in S : x <= m
PROOF
<1>. DEFINE Rel == {p \in S \X S : p[1] < p[2]}
            n == Cardinality(S)
<1>1. Orders(Rel, S)
  BY DEF Orders
<1> HIDE DEF Rel
<1>2. PICK s \in [1..n -> S] : \A i, j \in 1..n : i < j => <<s[i], s[j]>> \in Rel
  BY <1>1, Enumeration
<1>3. n \in Nat /\ n # 0
  BY FS_CardinalityType, FS_EmptySet
<1>4. \A x \in S : \E i \in 1..n : s[i] = x
  BY <1>1, <1>2, Enumerates
<1>5. s[n] \in S
  BY <1>3
<1>6. ASSUME NEW x \in S
      PROVE  x <= s[n]
  <2>1. PICK i \in 1..n : s[i] = x
    BY <1>4
  <2>2. CASE i = n
    BY <2>1, <2>2
  <2>3. CASE i < n
    <3>1. <<x, s[n]>> \in Rel
      BY <1>2, <1>3, <2>1, <2>3
    <3>2. s[n] \in Int /\ x \in Int
      BY <1>3, <1>5
    <3>3. x < s[n]
      BY <3>1 DEF Rel
    <3> QED  BY <3>2, <3>3
  <2> QED  BY <1>3, <2>2, <2>3
<1> QED  BY <1>5, <1>6

\* The size of an interval.
LEMMA Interval == ASSUME NEW m \in Nat PROVE IsFiniteSet(1..m) /\ Cardinality(1..m) = m
<1>1. IsFiniteSet(1..m) /\ Cardinality(1..m) = IF 1 > m THEN 0 ELSE m - 1 + 1
  BY FS_Interval
<1> QED  BY <1>1

\* A function on 1..n is a sequence.
LEMMA MadeIsSequence ==
  ASSUME NEW S, NEW n \in Nat, NEW f \in [1..n -> S]
  PROVE  f \in Seq(S) /\ Len(f) = n
OBVIOUS

\* The numbers of a set upwards.
Upwards(S) ==
  CHOOSE f \in [1..Cardinality(S) -> S] : \A i, j \in DOMAIN f : i < j => f[i] < f[j]

\* What enumerates a set of numbers upwards is its order.
LEMMA IsUpwards ==
  ASSUME NEW S \in SUBSET Nat, NEW m \in Nat, NEW s \in [1..m -> S],
         \A i, j \in 1..m : i < j => s[i] < s[j],
         \A x \in S : \E i \in 1..m : s[i] = x
  PROVE  IsFiniteSet(S) /\ Cardinality(S) = m /\ Upwards(S) = s
<1>1. s \in Injection(1..m, S)
  <2>1. ASSUME NEW i \in 1..m, NEW j \in 1..m, s[i] = s[j]
        PROVE  i = j
    <3>1. s[i] \in Nat /\ s[j] \in Nat /\ i \in Nat /\ j \in Nat
      <4>1. s[i] \in S /\ s[j] \in S
        OBVIOUS
      <4>2. S \subseteq Nat /\ i \in Nat /\ j \in Nat
        OBVIOUS
      <4> QED  BY ONLY <4>1, <4>2
    <3>2. ~(i < j) /\ ~(j < i)
      BY <2>1, <3>1
    <3> QED  BY <3>1, <3>2
  <2> QED  BY <2>1 DEF Injection, IsInjective
<1>2. s \in Surjection(1..m, S)
  BY DEF Surjection
<1>3. s \in Bijection(1..m, S)
  BY <1>1, <1>2 DEF Bijection
<1>4. IsFiniteSet(1..m) /\ Cardinality(1..m) = m
  BY Interval
<1>5. IsFiniteSet(S) /\ Cardinality(S) = m
  BY <1>3, <1>4, FS_Bijection DEF ExistsBijection
<1>. DEFINE Less == {p \in S \X S : p[1] < p[2]}
            o == Upwards(S)
<1>6. Orders(Less, S)
  BY DEF Orders
<1>7. \A x, y \in S : x < y <=> <<x, y>> \in Less
  OBVIOUS
<1>. HIDE DEF Less
<1>8. o = CHOOSE f \in [1..m -> S] : \A i, j \in DOMAIN f : i < j => f[i] < f[j]
  BY <1>5 DEF Upwards
<1>9. \E f \in [1..m -> S] : \A i, j \in DOMAIN f : i < j => f[i] < f[j]
  OBVIOUS
<1>10. o \in [1..m -> S] /\ \A i, j \in DOMAIN o : i < j => o[i] < o[j]
  <2>. HIDE DEF o
  <2> QED  BY <1>8, <1>9
<1>. HIDE DEF o
<1>11. \A i, j \in 1..m : i < j => <<o[i], o[j]>> \in Less
  BY <1>7, <1>10
<1>12. \A i, j \in 1..m : i < j => <<s[i], s[j]>> \in Less
  BY <1>7
<1>13. o = s
  <2>1. /\ o \in [1..Cardinality(S) -> S] /\ s \in [1..Cardinality(S) -> S]
        /\ \A i, j \in 1..Cardinality(S) : i < j => <<s[i], s[j]>> \in Less
        /\ \A i, j \in 1..Cardinality(S) : i < j => <<o[i], o[j]>> \in Less
    BY <1>5, <1>10, <1>11, <1>12
  <2> QED  BY <1>5, <1>6, <2>1, OneEnumeration
<1> QED  BY <1>5, <1>13 DEF o

\* A finite set of numbers has an order.
LEMMA HasUpwards ==
  ASSUME NEW S \in SUBSET Nat, IsFiniteSet(S)
  PROVE  LET o == Upwards(S)
             m == Cardinality(S)
         IN /\ m \in Nat /\ o \in [1..m -> S]
            /\ \A i, j \in 1..m : i < j => o[i] < o[j]
            /\ \A x \in S : \E i \in 1..m : o[i] = x
<1>. DEFINE m == Cardinality(S)
            Less == {p \in S \X S : p[1] < p[2]}
<1>1. m \in Nat
  BY FS_CardinalityType
<1>2. Orders(Less, S)
  BY DEF Orders
<1>3. \A x, y \in S : x < y <=> <<x, y>> \in Less
  OBVIOUS
<1>. HIDE DEF Less
<1>4. PICK s \in [1..m -> S] : \A i, j \in 1..m : i < j => <<s[i], s[j]>> \in Less
  BY <1>2, Enumeration
<1>5. \A x \in S : \E i \in 1..m : s[i] = x
  BY <1>2, <1>4, Enumerates
<1>6. \A i, j \in 1..m : i < j => s[i] < s[j]
  BY <1>3, <1>4
<1>. HIDE DEF m
<1>7. Upwards(S) = s
  BY <1>1, <1>4, <1>5, <1>6, IsUpwards
<1> QED  BY <1>1, <1>4, <1>5, <1>6, <1>7 DEF m
=============================================================================
