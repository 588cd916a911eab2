----------------------------- MODULE OthersProofs -----------------------------
(***************************************************************************)
(* Proofs about the components of MCOthers, for every value of their        *)
(* parameters: what a search answers and an evaluation recommends, what the *)
(* page shows of a run that is underway, and the locks and bindings of the  *)
(* sandboxes.                                                              *)
(***************************************************************************)
EXTENDS MCOthers, Enumerations

-----------------------------------------------------------------------------
(* The search and its evaluation.                                          *)

\* Counting is the same in the instance.
LEMMA SameCount == ASSUME NEW S PROVE R!Cardinality(S) = Cardinality(S)
BY DEF Cardinality, R!Cardinality

\* The first elements in an order of their own are enumerated by InOrder.
LEMMA SelectedEnumerates ==
  ASSUME texts \in Seq({"text", "blank"})
  PROVE  LET S == {i \in DOMAIN texts : texts[i] # "blank"}
             s == R!Selected
         IN /\ s \in [1..Cardinality(S) -> S] /\ IsFiniteSet(S) /\ Cardinality(S) \in Nat
            /\ S \subseteq 1..Len(texts)
            /\ \A i, j \in 1..Cardinality(S) : s[i] = s[j] => i = j
            /\ \A x \in S : \E i \in 1..Cardinality(S) : s[i] = x
<1>. DEFINE S == {i \in DOMAIN texts : texts[i] # "blank"}
            Rel == {p \in S \X S : p[1] < p[2]}
            n == Cardinality(S)
<1>1. S \subseteq 1..Len(texts) /\ Len(texts) \in Nat
  OBVIOUS
<1>2. IsFiniteSet(S) /\ n \in Nat
  <2>1. IsFiniteSet(1..Len(texts))
    BY <1>1, Interval
  <2>. HIDE DEF S
  <2>2. IsFiniteSet(S)
    BY <1>1, <2>1, FS_Subset
  <2> QED  BY <2>2, FS_CardinalityType
<1>3. R!Selected = R!InOrder(S, LAMBDA i, j : i < j)
  BY DEF R!Selected
<1>4. R!InOrder(S, LAMBDA i, j : i < j) = CHOOSE s \in [1..n -> S] : \A i, j \in 1..n : i < j => s[i] < s[j]
  BY SameCount DEF R!InOrder
<1>. HIDE DEF S
<1>5. Orders(Rel, S)
  BY <1>1 DEF Orders
<1>6. \A i, j \in S : i < j <=> <<i, j>> \in Rel
  OBVIOUS
<1>. HIDE DEF Rel
<1>7. \E s \in [1..n -> S] : \A i, j \in 1..n : i < j => <<s[i], s[j]>> \in Rel
  BY <1>2, <1>5, Enumeration
<1>8. \E s \in [1..n -> S] : \A i, j \in 1..n : i < j => s[i] < s[j]
  BY <1>6, <1>7
<1>9. R!Selected \in [1..n -> S] /\ \A i, j \in 1..n : i < j => R!Selected[i] < R!Selected[j]
  BY <1>3, <1>4, <1>8
<1>10. \A i, j \in 1..n : i < j => <<R!Selected[i], R!Selected[j]>> \in Rel
  BY <1>6, <1>9
<1>11. /\ \A i, j \in 1..n : R!Selected[i] = R!Selected[j] => i = j
       /\ \A x \in S : \E i \in 1..n : R!Selected[i] = x
  BY <1>2, <1>5, <1>9, <1>10, Enumerates
<1> QED  BY <1>1, <1>2, <1>9, <1>11 DEF S

\* i comes before j.
Earlier(found, relevance, i, j) ==
  \/ relevance[found[i]] > relevance[found[j]]
  \/ relevance[found[i]] = relevance[found[j]] /\ i < j

\* ByRelevance enumerates what was found: the better ones first, and of two that
\* are as good the one that was found first.
LEMMA RelevanceEnumerates ==
  ASSUME NEW found \in Seq(R!Chunks), NEW relevance \in [R!Chunks -> Nat]
  PROVE  LET m == Len(found)
             s == R!ByRelevance(found, relevance)
         IN /\ s \in [1..m -> 1..m] /\ m \in Nat
            /\ \A i, j \in 1..m : s[i] = s[j] => i = j
            /\ \A x \in 1..m : \E i \in 1..m : s[i] = x
            /\ \A i, j \in 1..m : i < j <=> Earlier(found, relevance, s[i], s[j])
<1>. DEFINE m == Len(found)
            S == 1..m
            Rel == {p \in S \X S : Earlier(found, relevance, p[1], p[2])}
            s == R!ByRelevance(found, relevance)
<1>1. m \in Nat /\ IsFiniteSet(S) /\ Cardinality(S) = m /\ DOMAIN found = S
  <2>1. m \in Nat /\ DOMAIN found = S
    OBVIOUS
  <2>. HIDE DEF m
  <2> QED  BY <2>1, Interval
<1>2. s = R!InOrder(S, LAMBDA i, j :
    \/ relevance[found[i]] > relevance[found[j]]
    \/ relevance[found[i]] = relevance[found[j]] /\ i < j)
  BY <1>1 DEF R!ByRelevance
<1>3. R!Cardinality(S) = m
  BY <1>1, SameCount
<1>. HIDE DEF m
<1>4. s = CHOOSE f \in [1..m -> S] : \A i, j \in DOMAIN f : i < j => Earlier(found, relevance, f[i], f[j])
  BY <1>2, <1>3 DEF R!InOrder, Earlier
<1>. HIDE DEF s
<1>5. \A i \in S : relevance[found[i]] \in Nat
  BY <1>1
<1>6. Orders(Rel, S)
  <2>1. \A x, y \in S : <<x, y>> \in Rel <=> Earlier(found, relevance, x, y)
    OBVIOUS
  <2>. HIDE DEF Rel
  <2>2. \A x, y, z \in S : Earlier(found, relevance, x, y) /\ Earlier(found, relevance, y, z) => Earlier(found, relevance, x, z)
    BY <1>1, <1>5 DEF Earlier
  <2>3. \A x \in S : ~Earlier(found, relevance, x, x)
    BY <1>1, <1>5 DEF Earlier
  <2>4. \A x, y \in S : x # y => Earlier(found, relevance, x, y) \/ Earlier(found, relevance, y, x)
    BY <1>1, <1>5 DEF Earlier
  <2> QED  BY <2>1, <2>2, <2>3, <2>4 DEF Orders
<1>7. \A x, y \in S : <<x, y>> \in Rel <=> Earlier(found, relevance, x, y)
  OBVIOUS
<1>. HIDE DEF Rel, S
<1>8. \E f \in [1..m -> S] : \A i, j \in 1..m : i < j => <<f[i], f[j]>> \in Rel
  BY <1>1, <1>6, Enumeration
<1>9. \E f \in [1..m -> S] : \A i, j \in DOMAIN f : i < j => Earlier(found, relevance, f[i], f[j])
  BY <1>7, <1>8
<1>10. s \in [1..m -> S] /\ \A i, j \in 1..m : i < j => Earlier(found, relevance, s[i], s[j])
  BY <1>4, <1>9
<1>11. \A i, j \in 1..m : i < j => <<s[i], s[j]>> \in Rel
  BY <1>7, <1>10
<1>12. /\ \A i, j \in 1..m : s[i] = s[j] => i = j
       /\ \A x \in S : \E i \in 1..m : s[i] = x
       /\ \A i, j \in 1..m : <<s[i], s[j]>> \in Rel => i < j
  <2>1. /\ s \in [1..Cardinality(S) -> S]
        /\ \A i, j \in 1..Cardinality(S) : i < j => <<s[i], s[j]>> \in Rel
    BY <1>1, <1>10, <1>11
  <2>2. /\ \A i, j \in 1..Cardinality(S) : s[i] = s[j] => i = j
        /\ \A x \in S : \E i \in 1..Cardinality(S) : s[i] = x
        /\ \A i, j \in 1..Cardinality(S) : <<s[i], s[j]>> \in Rel => i < j
    <3>1. IsFiniteSet(S)
      BY <1>1
    <3> QED  BY <1>6, <2>1, <3>1, Enumerates
  <2> QED  BY <1>1, <2>2
<1>13. \A i, j \in 1..m : i < j <=> Earlier(found, relevance, s[i], s[j])
  BY <1>7, <1>10, <1>12
<1> QED  BY <1>1, <1>10, <1>12, <1>13 DEF s, m, S

\* What the service says when it does as it should: of what is asked for, the most
\* relevant first.
LEMMA BestIs ==
  ASSUME NEW found \in Seq(R!Chunks), NEW relevance \in [R!Chunks -> Nat],
         NEW n \in 0..Len(found)
  PROVE  LET o == R!ByRelevance(found, relevance)
             best == R!Best(found, relevance, n)
         IN /\ DOMAIN best = 1..n /\ Len(best) = n
            /\ best \in Seq([index : 1..Len(found), score : Nat])
            /\ \A k \in 1..n : best[k].index = o[k] /\ best[k].score = relevance[found[o[k]]]
<1>. DEFINE o == R!ByRelevance(found, relevance)
            best == R!Best(found, relevance, n)
            T == [index : 1..Len(found), score : Nat]
<1>1. best = [k \in 1..n |-> [index |-> o[k], score |-> relevance[found[o[k]]]]]
  BY DEF R!Best
<1>2. o \in [1..Len(found) -> 1..Len(found)] /\ Len(found) \in Nat
  BY RelevanceEnumerates
<1>3. \A k \in 1..n : o[k] \in 1..Len(found) /\ relevance[found[o[k]]] \in Nat
  BY <1>2
<1>. HIDE DEF o, best
<1>4. \A k \in 1..n : [index |-> o[k], score |-> relevance[found[o[k]]]] \in [index : 1..Len(found), score : Nat]
  BY <1>3
<1>5. best \in [1..n -> T] /\ n \in Nat
  BY <1>1, <1>4
<1>6. best \in Seq(T) /\ Len(best) = n
  <2>. HIDE DEF T
  <2> QED  BY <1>5, MadeIsSequence
<1>7. \A k \in 1..n : best[k].index = o[k] /\ best[k].score = relevance[found[o[k]]]
  BY <1>1
<1> QED  BY <1>5, <1>6, <1>7 DEF o, best

\* Twice this permutation is none.
IsInvolution(p, n) == \A k \in 1..n : p[p[k]] = k

\* Such a permutation orders the places anew.
LEMMA OrderThrough ==
  ASSUME NEW n \in Nat, NEW p \in [1..n -> 1..n], IsInvolution(p, n)
  PROVE  Orders({q \in (1..n) \X (1..n) : p[q[1]] < p[q[2]]}, 1..n)
<1>. DEFINE S == 1..n
            Rel == {q \in S \X S : p[q[1]] < p[q[2]]}
<1>1. \A x, y \in S : <<x, y>> \in Rel <=> p[x] < p[y]
  OBVIOUS
<1>2. \A x \in S : p[x] \in Nat
  OBVIOUS
<1>3. \A x, y \in S : p[x] = p[y] => x = y
  BY DEF IsInvolution
<1>. HIDE DEF S, Rel
<1>4. \A x, y, z \in S : p[x] < p[y] /\ p[y] < p[z] => p[x] < p[z]
  <2>1. \A a, b, c \in Nat : a < b /\ b < c => a < c
    OBVIOUS
  <2> QED  BY <1>2, <2>1
<1>5. \A x \in S : ~(p[x] < p[x])
  BY <1>2
<1>6. \A x, y \in S : x # y => p[x] < p[y] \/ p[y] < p[x]
  BY <1>2, <1>3
<1>7. Orders(Rel, S)
  BY <1>1, <1>4, <1>5, <1>6 DEF Orders
<1> QED  BY <1>7 DEF S, Rel

\* Whatever way round the answer comes, sorting it gives the best.
LEMMA SortedIsBest ==
  ASSUME NEW found \in Seq(R!Chunks), NEW relevance \in [R!Chunks -> Nat],
         NEW n \in 0..Len(found), NEW answer, NEW p \in [1..n -> 1..n],
         IsInvolution(p, n),
         answer = [k \in 1..n |-> R!Best(found, relevance, n)[p[k]]]
  PROVE  R!Sorted(answer) = R!Best(found, relevance, n)
<1>. DEFINE o == R!ByRelevance(found, relevance)
            best == R!Best(found, relevance, n)
            m == Len(found)
            S == 1..n
            Rel == {q \in S \X S : p[q[1]] < p[q[2]]}
            by == R!ByScore(answer)
<1>1. n \in Nat /\ m \in Nat /\ 1..n \subseteq 1..m
  OBVIOUS
<1>. HIDE DEF Rel, S, by
<1>2. /\ DOMAIN best = 1..n
      /\ \A k \in 1..n : best[k].index = o[k] /\ best[k].score = relevance[found[o[k]]]
  BY BestIs
<1>3. /\ \A i, j \in 1..m : i < j <=> Earlier(found, relevance, o[i], o[j])
      /\ o \in [1..m -> 1..m]
  BY RelevanceEnumerates
<1>4. IsFiniteSet(S) /\ Cardinality(S) = n /\ R!Cardinality(S) = n
  BY <1>1, Interval, SameCount DEF S
<1>5. by = R!InOrder(DOMAIN answer, LAMBDA i, j :
    \/ answer[i].score > answer[j].score
    \/ answer[i].score = answer[j].score /\ answer[i].index < answer[j].index)
  BY DEF R!ByScore, by
<1>. USE DEF S, Rel
<1>. HIDE DEF o, best, m
<1>6. DOMAIN answer = 1..n /\ \A k \in 1..n : answer[k] = best[p[k]]
  BY DEF best
<1>7. \A i, j \in 1..n : p[i] < p[j] <=>
        \/ answer[i].score > answer[j].score
        \/ answer[i].score = answer[j].score /\ answer[i].index < answer[j].index
  <2>. SUFFICES ASSUME NEW i \in 1..n, NEW j \in 1..n
                PROVE  p[i] < p[j] <=>
                         \/ answer[i].score > answer[j].score
                         \/ answer[i].score = answer[j].score /\ answer[i].index < answer[j].index
    OBVIOUS
  <2>1. p[i] \in 1..n /\ p[j] \in 1..n /\ p[i] \in 1..m /\ p[j] \in 1..m
    BY <1>1
  <2>2. /\ answer[i].index = o[p[i]] /\ answer[i].score = relevance[found[o[p[i]]]]
        /\ answer[j].index = o[p[j]] /\ answer[j].score = relevance[found[o[p[j]]]]
    BY <1>2, <1>6, <2>1
  <2>3. p[i] < p[j] <=> Earlier(found, relevance, o[p[i]], o[p[j]])
    BY <1>3, <2>1
  <2>4. Earlier(found, relevance, o[p[i]], o[p[j]])
          <=> \/ relevance[found[o[p[i]]]] > relevance[found[o[p[j]]]]
              \/ relevance[found[o[p[i]]]] = relevance[found[o[p[j]]]] /\ o[p[i]] < o[p[j]]
    BY DEF Earlier
  <2> QED  BY <2>2, <2>3, <2>4
<1>. DEFINE Above(i, j) == \/ answer[i].score > answer[j].score
                           \/ answer[i].score = answer[j].score /\ answer[i].index < answer[j].index
            Ok(f) == \A i, j \in DOMAIN f : i < j => Above(f[i], f[j])
<1>8. by = CHOOSE f \in [1..n -> S] : Ok(f)
  BY <1>4, <1>5, <1>6 DEF R!InOrder
<1>9. Orders(Rel, S)
  BY <1>1, OrderThrough
<1>10. p \in [1..n -> S] /\ \A i, j \in 1..n : i < j => <<p[i], p[j]>> \in Rel
  BY DEF IsInvolution
<1>11. \A i, j \in S : <<i, j>> \in Rel <=> Above(i, j)
  BY <1>7
<1>. HIDE DEF Rel, S, Above
<1>12. Ok(p)
  BY <1>10, <1>11
<1>13. by \in [1..n -> S] /\ Ok(by)
  <2>. HIDE DEF Ok
  <2> QED  BY <1>8, <1>10, <1>12
<1>14. \A i, j \in 1..n : i < j => <<by[i], by[j]>> \in Rel
  BY <1>11, <1>13
<1>15. by = p
  <2>1. /\ by \in [1..Cardinality(S) -> S] /\ p \in [1..Cardinality(S) -> S]
        /\ \A i, j \in 1..Cardinality(S) : i < j => <<by[i], by[j]>> \in Rel
        /\ \A i, j \in 1..Cardinality(S) : i < j => <<p[i], p[j]>> \in Rel
    BY <1>4, <1>10, <1>13, <1>14
  <2>2. IsFiniteSet(S)
    BY <1>4
  <2> QED  BY <1>9, <2>1, <2>2, OneEnumeration
<1>16. R!Sorted(answer) = [k \in 1..n |-> answer[p[k]]]
  BY <1>6, <1>15 DEF R!Sorted, by
<1>17. \A k \in 1..n : answer[p[k]] = best[k]
  BY <1>6 DEF IsInvolution
<1>18. best = [k \in 1..n |-> best[k]]
  BY DEF best, R!Best
<1> QED  BY <1>16, <1>17, <1>18 DEF best

\* An answer that is accepted is the best one, once it is sorted.
LEMMA AcceptedIsBest ==
  ASSUME NEW found \in Seq(R!Chunks), NEW relevance \in [R!Chunks -> Nat],
         NEW n \in 1..Len(found), NEW answer \in R!Answers(found, relevance, n),
         R!Valid(answer, found, n)
  PROVE  R!Sorted(answer) = R!Best(found, relevance, n)
<1>. DEFINE o == R!ByRelevance(found, relevance)
            best == R!Best(found, relevance, n)
            m == Len(found)
<1>0. n \in Nat /\ m \in Nat /\ n \in 0..m
  OBVIOUS
<1>1. /\ DOMAIN best = 1..n /\ Len(best) = n
      /\ \A k \in 1..n : best[k].index = o[k] /\ best[k].score = relevance[found[o[k]]]
      /\ best \in Seq([index : 1..m, score : Nat])
  BY <1>0, BestIs
<1>2. best = [k \in 1..n |-> best[k]]
  BY DEF R!Best
<1>3. \/ answer = best \/ answer = R!Reverse(best) \/ answer = R!Front(best)
      \/ answer = [best EXCEPT ![1] = best[n]]
      \/ answer = [best EXCEPT ![1].index = m + 1]
  BY DEF R!Answers
<1>4. /\ Len(answer) = n
      /\ \A i \in DOMAIN answer : answer[i].index \in 1..m
      /\ \A i, j \in DOMAIN answer : answer[i].index = answer[j].index => i = j
  <2>1. DOMAIN found = 1..m
    OBVIOUS
  <2>2. R!IsInjective([i \in DOMAIN answer |-> answer[i].index])
    BY DEF R!Valid
  <2>3. \A i, j \in DOMAIN answer : answer[i].index = answer[j].index => i = j
    BY <2>2 DEF R!IsInjective
  <2> QED  BY <2>1, <2>3 DEF R!Valid
<1>. HIDE DEF o, best, m
<1>5. CASE answer = best
  <2>. DEFINE p == [k \in 1..n |-> k]
  <2>1. p \in [1..n -> 1..n] /\ IsInvolution(p, n)
    BY DEF IsInvolution
  <2>2. answer = [k \in 1..n |-> best[p[k]]]
    BY <1>2, <1>5
  <2>. HIDE DEF p
  <2> QED  BY <1>0, <2>1, <2>2, SortedIsBest DEF best, m
<1>6. CASE answer = R!Reverse(best)
  <2>. DEFINE p == [k \in 1..n |-> (n - k) + 1]
  <2>1. p \in [1..n -> 1..n] /\ IsInvolution(p, n)
    BY DEF IsInvolution
  <2>2. answer = [k \in 1..n |-> best[p[k]]]
    BY <1>1, <1>6 DEF R!Reverse
  <2>. HIDE DEF p
  <2> QED  BY <1>0, <2>1, <2>2, SortedIsBest DEF best, m
<1>7. CASE answer = R!Front(best)
  <2>1. Len(answer) = n - 1
    BY <1>0, <1>1, <1>7 DEF R!Front
  <2> QED  BY <1>0, <1>4, <2>1
<1>8. CASE answer = [best EXCEPT ![1] = best[n]]
  <2>1. DOMAIN answer = 1..n /\ 1 \in 1..n /\ n \in 1..n
    BY <1>1, <1>8
  <2>2. answer[1] = best[n] /\ (n # 1 => answer[n] = best[n])
    BY <1>1, <1>8, <2>1
  <2>3. n = 1
    BY <1>4, <2>1, <2>2
  <2>4. answer = best
    <3>1. answer = [k \in 1..n |-> answer[k]]
      BY <1>8, <2>1
    <3>2. \A k \in 1..n : answer[k] = best[k]
      BY <2>2, <2>3
    <3> QED  BY <1>2, <3>1, <3>2
  <2> QED  BY <1>5, <2>4
<1>9. CASE answer = [best EXCEPT ![1].index = m + 1]
  <2>1. DOMAIN answer = 1..n /\ 1 \in 1..n
    BY <1>1, <1>9
  <2>2. answer[1].index = m + 1
    BY <1>1, <1>9, <2>1
  <2> QED  BY <1>0, <1>4, <2>1, <2>2
<1> QED  BY <1>3, <1>5, <1>6, <1>7, <1>8, <1>9 DEF best
\* What is added up over a finite set is a number.
LEMMA FoldIsNumber ==
  ASSUME NEW V, IsFiniteSet(V), NEW figures, \A v \in V : figures[v] \in Nat
  PROVE  R!FoldFunctionOnSet(+, 0, figures, V) \in Nat
<1>. DEFINE one(s) == CHOOSE x \in s : TRUE
            F(it, s) == IF s = {} THEN 0 ELSE figures[one(s)] + it[s \ {one(s)}]
            iter == CHOOSE it : it = [s \in SUBSET V |-> F(it, s)]
            Small(m) == {s \in SUBSET V : Cardinality(s) <= m}
            Folds(f, m) == \A s \in Small(m) : f[s] = F(f, s)
            N == {m \in Nat : \E f \in [Small(m) -> Nat] : Folds(f, m)}
<1>1. R!FoldFunctionOnSet(+, 0, figures, V) = iter[V]
  BY DEF R!FoldFunctionOnSet, R!MapThenFoldSet
<1>2. \A s \in SUBSET V : s # {} => one(s) \in s /\ figures[one(s)] \in Nat
  OBVIOUS
<1>3. \A s \in SUBSET V : IsFiniteSet(s) /\ Cardinality(s) \in Nat /\ (Cardinality(s) = 0 <=> s = {})
  BY FS_Subset, FS_CardinalityType, FS_EmptySet
<1>4. \A s \in SUBSET V : s # {} => Cardinality(s \ {one(s)}) = Cardinality(s) - 1
  BY <1>2, <1>3, FS_RemoveElement
<1>. HIDE DEF one
<1>5. 0 \in N
  <2>. DEFINE f == [s \in Small(0) |-> 0]
  <2>1. \A s \in Small(0) : s = {}
    BY <1>3
  <2>. HIDE DEF Small
  <2>2. f \in [Small(0) -> Nat] /\ Folds(f, 0)
    BY <2>1
  <2>. HIDE DEF f, Folds
  <2> QED  BY <2>2
<1>6. ASSUME NEW m \in N
      PROVE  m + 1 \in N
  <2>1. m \in Nat /\ m + 1 \in Nat
    OBVIOUS
  <2>2. PICK f \in [Small(m) -> Nat] : Folds(f, m)
    OBVIOUS
  <2>. DEFINE g == [s \in Small(m + 1) |-> F(f, s)]
  <2>3. \A s \in Small(m + 1) : s \in SUBSET V /\ (s # {} => s \ {one(s)} \in Small(m))
    BY <1>3, <1>4, <2>1
  <2>4. \A s \in Small(m) : s \in Small(m + 1)
    BY <1>3, <2>1
  <2>. HIDE DEF Small
  <2>5. \A s \in Small(m + 1) : F(f, s) \in Nat
    BY <1>2, <2>2, <2>3
  <2>6. g \in [Small(m + 1) -> Nat]
    BY <2>5
  <2>7. \A s \in Small(m) : g[s] = f[s]
    BY <2>2, <2>4
  <2>8. \A s \in Small(m + 1) : g[s] = F(f, s)
    OBVIOUS
  <2>. HIDE DEF g
  <2>9. Folds(g, m + 1)
    BY <2>3, <2>7, <2>8
  <2>. HIDE DEF Folds
  <2> QED  BY <2>1, <2>6, <2>9
<1>7. N = Nat
  <2>1. N \in SUBSET Nat
    OBVIOUS
  <2>. HIDE DEF N
  <2> QED  BY <1>5, <1>6, <2>1, NatSetInduction
<1>8. Cardinality(V) \in Nat /\ Small(Cardinality(V)) = SUBSET V
  <2>1. \A s \in SUBSET V : Cardinality(s) <= Cardinality(V)
    BY FS_Subset
  <2> QED  BY <1>3, <2>1
<1>9. PICK f \in [SUBSET V -> Nat] : \A s \in SUBSET V : f[s] = F(f, s)
  <2>1. Cardinality(V) \in N
    BY <1>7, <1>8
  <2>2. PICK f \in [Small(Cardinality(V)) -> Nat] : Folds(f, Cardinality(V))
    BY <2>1
  <2>. HIDE DEF Small, F
  <2> QED  BY <1>8, <2>2
<1>10. f = [s \in SUBSET V |-> F(f, s)]
  <2>. HIDE DEF F
  <2> QED  BY <1>9
<1>11. iter = [s \in SUBSET V |-> F(iter, s)]
  <2>. HIDE DEF F
  <2> QED  BY <1>10
<1>. DEFINE M == {m \in Nat : \A s \in Small(m) : iter[s] \in Nat}
<1>. HIDE DEF iter
<1>12. \A s \in SUBSET V : iter[s] = F(iter, s)
  BY <1>11
<1>13. 0 \in M
  BY <1>3, <1>12
<1>14. ASSUME NEW m \in M
       PROVE  m + 1 \in M
  <2>1. m \in Nat /\ m + 1 \in Nat
    OBVIOUS
  <2>2. \A s \in Small(m + 1) : s \in SUBSET V /\ (s # {} => s \ {one(s)} \in Small(m))
    BY <1>3, <1>4, <2>1
  <2>3. \A s \in Small(m) : iter[s] \in Nat
    OBVIOUS
  <2>. HIDE DEF Small
  <2>4. ASSUME NEW s \in Small(m + 1)
        PROVE  iter[s] \in Nat
    <3>1. CASE s = {}
      <4>1. iter[s] = 0
        BY <1>12, <2>2, <3>1
      <4> QED  BY <4>1
    <3>2. CASE s # {}
      <4>1. figures[one(s)] \in Nat /\ iter[s \ {one(s)}] \in Nat
        BY <1>2, <2>2, <2>3, <3>2
      <4>2. iter[s] = figures[one(s)] + iter[s \ {one(s)}]
        BY <1>12, <2>2, <3>2
      <4> QED  BY <4>1, <4>2
    <3> QED  BY <3>1, <3>2
  <2> QED  BY <2>1, <2>4
<1>15. M = Nat
  <2>1. M \in SUBSET Nat
    OBVIOUS
  <2>. HIDE DEF M
  <2> QED  BY <1>13, <1>14, <2>1, NatSetInduction
<1>16. V \in Small(Cardinality(V)) /\ Cardinality(V) \in M
  BY <1>8, <1>15
<1>17. iter[V] \in Nat
  <2>. HIDE DEF Small
  <2> QED  BY <1>16
<1> QED  BY <1>1, <1>17 DEF iter
-----------------------------------------------------------------------------
\* The lesser of two is one of them, and no greater than the other.
LEMMA LesserIs ==
  ASSUME NEW a \in Nat, NEW b \in Nat
  PROVE  /\ R!Lesser(a, b) \in Nat /\ R!Lesser(a, b) <= a /\ R!Lesser(a, b) <= b
         /\ R!Lesser(a, b) = a \/ R!Lesser(a, b) = b
         /\ R!Greater(a, b) \in Nat /\ R!Greater(a, b) >= a /\ R!Greater(a, b) >= b
         /\ R!Greater(a, b) = a \/ R!Greater(a, b) = b
BY DEF R!Lesser, R!Greater

\* The options are of the parameters.
LEMMA OptionsAre ==
  ASSUME searchOptions \in R!Options
  PROVE  /\ searchOptions.candidates \in Nat /\ searchOptions.limit \in Nat \ {0}
         /\ searchOptions.ks \in Kss /\ searchOptions.ks \subseteq Nat \ {0} /\ searchOptions.ks # {}
         /\ IsFiniteSet(searchOptions.ks)
         /\ searchOptions.minRecall \in Nat /\ searchOptions.stored \in {0, Count}
         /\ Count \in Nat
BY SearchParameters DEF R!Options

\* The largest K there is.
LEMMA MaxKIs ==
  ASSUME searchOptions \in R!Options
  PROVE  R!MaxK \in searchOptions.ks /\ \A k \in searchOptions.ks : k <= R!MaxK
<1>1. /\ searchOptions.ks \in SUBSET Int /\ searchOptions.ks # {} /\ IsFiniteSet(searchOptions.ks)
      /\ searchOptions.ks \subseteq Nat \ {0}
  BY OptionsAre
<1>2. \E k \in searchOptions.ks : \A j \in searchOptions.ks : j <= k
  BY <1>1, Greatest
<1> QED  BY <1>2 DEF R!MaxK

\* What is asked of Milvus is some number of hits.
LEMMA LimitIs ==
  ASSUME searchOptions \in R!Options
  PROVE  R!Limit \in Nat \ {0} /\ R!Candidates(R!Limit) \in Nat \ {0}
<1>1. R!Limit \in Nat \ {0}
  BY OptionsAre, MaxKIs DEF R!Limit
<1>2. R!Greater(R!Limit, searchOptions.candidates) \in Nat \ {0}
  BY <1>1, OptionsAre DEF R!Greater
<1> QED  BY <1>1, <1>2 DEF R!Candidates

\* Milvus finds the first of the chunks.
LEMMA FoundIs ==
  ASSUME searchOptions \in R!Options, NEW limit \in Nat \ {0}
  PROVE  /\ R!Candidates(limit) \in Nat \ {0} /\ R!Candidates(limit) >= limit
         /\ Len(R!Found(limit)) = R!Lesser(R!Candidates(limit), searchOptions.stored)
         /\ Len(R!Found(limit)) \in 0..Count
         /\ R!Found(limit) \in Seq(R!Chunks)
         /\ DOMAIN R!Found(limit) = 1..Len(R!Found(limit))
         /\ \A i \in 1..Len(R!Found(limit)) : R!Found(limit)[i] = i
<1>. DEFINE n == R!Lesser(R!Candidates(limit), searchOptions.stored)
<1>1. R!Candidates(limit) \in Nat \ {0} /\ R!Candidates(limit) >= limit
  BY OptionsAre DEF R!Candidates, R!Greater
<1>2. n \in Nat /\ n <= Count /\ Count \in Nat
  BY <1>1, OptionsAre DEF R!Lesser
<1>3. R!Found(limit) = [i \in 1..n |-> i]
  BY DEF R!Found
<1>. HIDE DEF n
<1>4. R!Found(limit) \in [1..n -> R!Chunks]
  BY <1>2, <1>3 DEF R!Chunks
<1>5. R!Found(limit) \in Seq(R!Chunks) /\ Len(R!Found(limit)) = n
  BY <1>2, <1>4, MadeIsSequence
<1> QED  BY <1>1, <1>2, <1>3, <1>5 DEF n

\* What is found for a query, how many of them are answered, and the best of them.
Asked == R!Found(R!Limit)
Size == R!Lesser(R!Limit, Len(Asked))
BestOf(q) == R!Best(Asked, samples[q].relevance, Size)

\* The right answer to a query.
Right(q) ==
  IF R!Reranks /\ Asked # << >>
  THEN [k \in 1..Size |-> [chunk |-> Asked[BestOf(q)[k].index], score |-> BestOf(q)[k].score, rank |-> k]]
  ELSE [i \in DOMAIN Asked |-> [chunk |-> Asked[i], score |-> 0, rank |-> i]]

\* What is asked for, and how much of it is answered.
LEMMA AskedIs ==
  ASSUME searchOptions \in R!Options
  PROVE  /\ Asked \in Seq(R!Chunks) /\ Len(Asked) \in 0..Count /\ DOMAIN Asked = 1..Len(Asked)
         /\ Len(Asked) = R!Lesser(R!Candidates(R!Limit), searchOptions.stored)
         /\ \A i \in 1..Len(Asked) : Asked[i] = i
         /\ Size \in 0..Len(Asked) /\ Size \in Nat /\ Len(Asked) \in Nat
         /\ Asked # << >> => Size \in 1..Len(Asked) /\ Len(Asked) # 0
<1>1. R!Limit \in Nat \ {0}
  BY LimitIs
<1>2. /\ Asked \in Seq(R!Chunks) /\ Len(Asked) \in 0..Count /\ DOMAIN Asked = 1..Len(Asked)
      /\ Len(Asked) = R!Lesser(R!Candidates(R!Limit), searchOptions.stored)
      /\ \A i \in 1..Len(Asked) : Asked[i] = i
  BY <1>1, FoundIs DEF Asked
<1>3. Count \in Nat /\ Len(Asked) \in Nat
  BY <1>2, SearchParameters
<1>4. Size \in 0..Len(Asked)
  BY <1>1, <1>3 DEF Size, R!Lesser
<1>5. Asked # << >> => Len(Asked) # 0
  BY <1>2
<1>6. Len(Asked) # 0 => Size \in 1..Len(Asked)
  BY <1>1, <1>3 DEF Size, R!Lesser
<1> QED  BY <1>2, <1>3, <1>4, <1>5, <1>6

\* What the service thinks of the chunks for a query.
LEMMA SampleIs ==
  ASSUME samples \in Seq(R!Sample), NEW q \in 1..Len(samples)
  PROVE  /\ samples[q].relevance \in [R!Chunks -> Nat] /\ samples[q].relevance \in Relevances
         /\ samples[q].relevant \in SUBSET R!Chunks
         /\ samples[q].split \in {"validation", "test"}
<1>1. samples[q] \in R!Sample
  OBVIOUS
<1> QED  BY <1>1, SearchParameters DEF R!Sample, R!Chunks

\* A hit is made of a chunk and two numbers.
LEMMA HitIs ==
  ASSUME NEW c \in R!Chunks, NEW s \in Nat, NEW r \in Nat
  PROVE  [chunk |-> c, score |-> s, rank |-> r] \in R!Hit
BY DEF R!Hit

\* The right answer of the service.
LEMMA RightOfService ==
  ASSUME searchOptions \in R!Options, samples \in Seq(R!Sample), NEW q \in 1..Len(samples),
         R!Reranks, Asked # << >>,
         NEW o, o = R!ByRelevance(Asked, samples[q].relevance)
  PROVE  /\ Right(q) \in Seq(R!Hit) /\ Len(Right(q)) = Size /\ DOMAIN Right(q) = 1..Size
         /\ \A k \in 1..Size : Right(q)[k].chunk = o[k]
         /\ \A k \in 1..Size : Right(q)[k].score = samples[q].relevance[o[k]]
         /\ \A k \in 1..Size : o[k] \in 1..Len(Asked)
<1>. DEFINE rel == samples[q].relevance
            best == R!Best(Asked, rel, Size)
<1>1. rel \in [R!Chunks -> Nat]
  BY SampleIs
<1>2. o = R!ByRelevance(Asked, rel)
  OBVIOUS
<1>3. Right(q) = [k \in 1..Size |-> [chunk |-> Asked[best[k].index], score |-> best[k].score, rank |-> k]]
  BY DEF Right, BestOf
<1>. HIDE DEF rel, best
<1>4. /\ Asked \in Seq(R!Chunks) /\ Len(Asked) \in Nat
      /\ Size \in 0..Len(Asked) /\ Size \in Nat
      /\ \A i \in 1..Len(Asked) : Asked[i] = i /\ Asked[i] \in R!Chunks
  BY AskedIs
<1>5. o \in [1..Len(Asked) -> 1..Len(Asked)]
  <2>1. Asked \in Seq(R!Chunks)
    BY <1>4
  <2>2. R!ByRelevance(Asked, rel) \in [1..Len(Asked) -> 1..Len(Asked)]
    BY <1>1, <2>1, RelevanceEnumerates
  <2> QED  BY <1>2, <2>2
<1>6. \A k \in 1..Size : best[k].index = o[k] /\ best[k].score = rel[Asked[o[k]]]
  <2>1. Asked \in Seq(R!Chunks) /\ Size \in 0..Len(Asked)
    BY <1>4
  <2>2. \A k \in 1..Size : /\ best[k].index = R!ByRelevance(Asked, rel)[k]
                            /\ best[k].score = rel[Asked[R!ByRelevance(Asked, rel)[k]]]
    BY <1>1, <2>1, BestIs DEF best
  <2> QED  BY <1>2, <2>2
<1>7. ASSUME NEW k \in 1..Size
      PROVE  /\ o[k] \in 1..Len(Asked) /\ Right(q)[k] \in R!Hit
             /\ Right(q)[k].chunk = o[k] /\ Right(q)[k].score = rel[o[k]]
  <2>1. k \in 1..Len(Asked) /\ k \in Nat
    BY <1>4
  <2>2. o[k] \in 1..Len(Asked)
    BY <1>5, <2>1
  <2>3. Asked[o[k]] = o[k] /\ o[k] \in R!Chunks
    BY <1>4, <2>2
  <2>4. Right(q)[k] = [chunk |-> o[k], score |-> rel[o[k]], rank |-> k]
    BY <1>3, <1>6, <2>3
  <2>5. rel[o[k]] \in Nat
    BY <1>1, <2>3
  <2>6. Right(q)[k] \in R!Hit
    BY <2>1, <2>3, <2>4, <2>5, HitIs
  <2> QED  BY <2>2, <2>4, <2>6
<1>8. Right(q) \in [1..Size -> R!Hit]
  BY <1>3, <1>7
<1>9. Right(q) \in Seq(R!Hit) /\ Len(Right(q)) = Size
  BY <1>4, <1>8, MadeIsSequence
<1> QED  BY <1>7, <1>8, <1>9 DEF rel

\* The right answer without it.
LEMMA RightAsFound ==
  ASSUME searchOptions \in R!Options, samples \in Seq(R!Sample), NEW q \in 1..Len(samples),
         ~(R!Reranks /\ Asked # << >>)
  PROVE  /\ Right(q) \in Seq(R!Hit) /\ Len(Right(q)) = Len(Asked) /\ DOMAIN Right(q) = 1..Len(Asked)
         /\ \A k \in 1..Len(Asked) : Right(q)[k].chunk = k /\ Right(q)[k].score = 0
<1>1. Right(q) = [i \in DOMAIN Asked |-> [chunk |-> Asked[i], score |-> 0, rank |-> i]]
  BY DEF Right
<1>2. /\ DOMAIN Asked = 1..Len(Asked) /\ Len(Asked) \in Nat
      /\ \A i \in 1..Len(Asked) : Asked[i] = i /\ Asked[i] \in R!Chunks
  BY AskedIs
<1>3. ASSUME NEW k \in 1..Len(Asked)
      PROVE  Right(q)[k] \in R!Hit /\ Right(q)[k].chunk = k /\ Right(q)[k].score = 0
  <2>1. k \in R!Chunks /\ k \in Nat /\ 0 \in Nat
    BY <1>2
  <2>2. Right(q)[k] = [chunk |-> k, score |-> 0, rank |-> k]
    BY <1>1, <1>2
  <2>3. Right(q)[k] \in R!Hit
    BY <2>1, <2>2, HitIs
  <2> QED  BY <2>2, <2>3
<1>4. Right(q) \in [1..Len(Asked) -> R!Hit]
  BY <1>1, <1>2, <1>3
<1>5. Right(q) \in Seq(R!Hit) /\ Len(Right(q)) = Len(Asked)
  BY <1>2, <1>4, MadeIsSequence
<1> QED  BY <1>3, <1>4, <1>5
-----------------------------------------------------------------------------
\* The vectors so far are those of the first texts, of one dimension.
EmbeddingIsInOrder ==
  task = "embed" =>
    /\ searchPhase \in {"embedding", "done", "failed"}
    /\ Len(texts) <= MaxTexts
    /\ Len(embedded) <= Len(R!Selected)
    /\ \A i \in 1..Len(embedded) : /\ embedded[i].of = R!Selected[i]
                                   /\ embedded[i].dimension = embedded[1].dimension
                                   /\ expected # 0 => embedded[i].dimension = expected
    /\ searchPhase = "done" => Len(embedded) = Len(R!Selected)

\* What the evaluation decides on.
Reaching == {k \in searchOptions.ks : R!ReachesTarget(k)}
Among == IF Reaching = {} THEN searchOptions.ks ELSE Reaching
Decision == [k |-> CHOOSE k \in Among : \A j \in Among \ {k} : R!Better(k, j),
             targetMet |-> Reaching # {}]

\* The answers so far are the right ones.
AskingIsInOrder ==
  task # "embed" =>
    /\ searchPhase \in {"searching", "reranking", "reporting", "done", "failed"}
    /\ Len(responses) <= Len(samples)
    /\ \A q \in 1..Len(responses) : responses[q] = Right(q)
    /\ searchPhase \in {"searching", "reranking"} => Len(responses) < Len(samples)
    /\ searchPhase = "reranking" => R!Reranks /\ hits = Asked /\ Asked # << >>
    /\ searchPhase \in {"reporting", "done"} => Len(responses) = Len(samples)
    /\ searchPhase = "reporting" => task = "evaluate"
    /\ task = "search" => Len(samples) = 1
    /\ task = "evaluate" => /\ searchOptions.stored = Count
                            /\ \A q \in 1..Len(samples) : samples[q].relevant # {}
                            /\ searchPhase = "done" => report = Decision

SearchInv == R!TypeOK /\ EmbeddingIsInOrder /\ AskingIsInOrder

\* Some sequences, none of them empty.
LEMMA SomeSequences ==
  ASSUME NEW S, NEW n \in Nat, NEW s \in R!SeqsOf(S, n)
  PROVE  s \in Seq(S) /\ Len(s) \in 1..n
<1>1. PICK k \in 1..n : s \in [1..k -> S]
  BY DEF R!SeqsOf
<1>2. k \in Nat
  BY <1>1
<1> QED  BY <1>1, <1>2, MadeIsSequence

\* There are options.
LEMMA OptionsExist == R!Options # {}
<1>1. PICK c \in CandidateLimits, l \in SearchLimits, ks \in Kss, m \in MinRecalls : TRUE
  BY SearchParameters
<1>2. [candidates |-> c, limit |-> l, ks |-> ks, minRecall |-> m, stored |-> 0] \in R!Options
  BY <1>1 DEF R!Options
<1> QED  BY <1>2

\* The first state.
LEMMA SearchStarts == R!Init => SearchInv
<1>. SUFFICES ASSUME R!Init PROVE SearchInv
  OBVIOUS
<1>1. embedded = << >> /\ hits = << >> /\ responses = << >> /\ report = R!NoReport
  BY DEF R!Init
<1>2. /\ Len(embedded) = 0 /\ Len(responses) = 0
      /\ embedded \in Seq([of : 1..MaxTexts, dimension : R!Dimensions])
      /\ hits \in Seq(R!Chunks) /\ responses \in Seq(Seq(R!Hit))
      /\ report \in [k : {0} \cup UNION Kss, targetMet : BOOLEAN]
  BY <1>1 DEF R!NoReport
<1>3. CASE /\ task = "embed" /\ searchPhase = "embedding"
           /\ texts \in R!SeqsOf({"text", "blank"}, MaxTexts)
           /\ expected \in {0} \cup R!Dimensions
           /\ searchOptions = CHOOSE o \in R!Options : TRUE
           /\ samples = << >>
  <2>1. texts \in Seq({"text", "blank"}) /\ Len(texts) <= MaxTexts
    BY <1>3, SomeSequences, SearchParameters
  <2>2. searchOptions \in R!Options
    BY <1>3, OptionsExist
  <2>3. Len(R!Selected) \in Nat
    BY <2>1, SelectedEnumerates, MadeIsSequence
  <2>4. R!TypeOK
    BY <1>2, <1>3, <2>1, <2>2 DEF R!TypeOK
  <2> QED  BY <1>2, <1>3, <2>1, <2>3, <2>4 DEF SearchInv, EmbeddingIsInOrder, AskingIsInOrder
<1>4. CASE /\ task \in {"search", "evaluate"} /\ searchPhase = "searching"
           /\ texts = << >> /\ expected = 0
           /\ searchOptions \in R!Options
           /\ task = "search" => samples \in {<<s>> : s \in {t \in R!Sample : t.split = "test" /\ t.relevant = {}}}
           /\ task = "evaluate" =>
                /\ searchOptions.stored = Count
                /\ samples \in R!SeqsOf({s \in R!Sample : R!Cardinality(s.relevant) \in 1..2}, MaxSamples)
  <2>1. task = "search" => samples \in Seq(R!Sample) /\ Len(samples) = 1
    <3>. SUFFICES ASSUME task = "search" PROVE samples \in Seq(R!Sample) /\ Len(samples) = 1
      OBVIOUS
    <3>1. PICK s \in R!Sample : samples = <<s>>
      BY <1>4
    <3> QED  BY <3>1
  <2>2. ASSUME task = "evaluate"
        PROVE  /\ samples \in Seq(R!Sample) /\ Len(samples) # 0
               /\ \A q \in 1..Len(samples) : samples[q].relevant # {}
    <3>. DEFINE S == {s \in R!Sample : R!Cardinality(s.relevant) \in 1..2}
    <3>1. samples \in Seq(S) /\ Len(samples) # 0
      BY <1>4, <2>2, SomeSequences, SearchParameters
    <3>2. \A s \in S : s \in R!Sample /\ s.relevant # {}
      BY SameCount, FS_EmptySet
    <3>. HIDE DEF S
    <3> QED  BY <3>1, <3>2
  <2>3. samples \in Seq(R!Sample) /\ Len(samples) \in Nat /\ Len(samples) # 0
    <3>1. samples \in Seq(R!Sample) /\ Len(samples) # 0
      <4>1. CASE task = "search"
        BY <2>1, <4>1
      <4>2. CASE task = "evaluate"
        BY <2>2, <4>2
      <4> QED  BY <1>4, <4>1, <4>2
    <3>2. Len(samples) \in Nat
      BY <3>1
    <3> QED  BY <3>1, <3>2
  <2>4. R!TypeOK
    BY <1>2, <1>4, <2>3 DEF R!TypeOK
  <2> QED  BY <1>2, <1>4, <2>1, <2>2, <2>3, <2>4 DEF SearchInv, EmbeddingIsInOrder, AskingIsInOrder
<1> QED  BY <1>3, <1>4 DEF R!Init

\* What does not change of a step decides what the right answers are.
LEMMA RightStays ==
  UNCHANGED <<task, searchOptions, samples>> =>
    /\ \A q : Right(q)' = Right(q)
    /\ Asked' = Asked /\ R!Reranks' = R!Reranks
<1>. SUFFICES ASSUME UNCHANGED <<task, searchOptions, samples>>
              PROVE  /\ \A q : Right(q)' = Right(q)
                     /\ Asked' = Asked /\ R!Reranks' = R!Reranks
  OBVIOUS
<1>1. R!Reranks' = R!Reranks /\ R!Limit' = R!Limit
  BY DEF R!Reranks, R!Limit, R!MaxK
<1>2. Asked' = Asked
  BY <1>1 DEF Asked, R!Found, R!Candidates, R!Lesser, R!Greater
<1>3. Size' = Size
  BY <1>1, <1>2 DEF Size, R!Lesser
<1>4. \A q : BestOf(q)' = BestOf(q)
  BY <1>2, <1>3 DEF BestOf
<1> QED  BY <1>1, <1>2, <1>3, <1>4 DEF Right

\* The selected texts depend on the texts alone.
LEMMA SelectedStays == texts' = texts => R!Selected' = R!Selected
<1>. DEFINE S == {i \in DOMAIN texts : texts[i] # "blank"}
            First(T) == CHOOSE s \in [1..R!Cardinality(T) -> T] : \A i, j \in DOMAIN s : i < j => s[i] < s[j]
<1>1. texts' = texts => S' = S
  OBVIOUS
<1>2. R!Selected = First(S)
  BY DEF R!Selected, R!InOrder
<1>3. R!Selected' = First(S')
  BY <1>2 DEF R!Selected, R!InOrder
<1>. HIDE DEF S, First
<1> QED  BY <1>1, <1>2, <1>3

\* A batch more.
LEMMA EmbedsInOrder == SearchInv /\ R!EmbedBatch => SearchInv'
<1>. SUFFICES ASSUME SearchInv, R!EmbedBatch PROVE SearchInv'
  OBVIOUS
<1>. DEFINE V == [of : 1..MaxTexts, dimension : R!Dimensions]
            Q == Len(embedded)
            total == Len(R!Selected)
<1>1. R!TypeOK /\ EmbeddingIsInOrder /\ AskingIsInOrder
  BY DEF SearchInv
<1>2. task = "embed" /\ searchPhase = "embedding" /\ Q < total
  BY <1>1 DEF R!EmbedBatch, AskingIsInOrder
<1>3. texts \in Seq({"text", "blank"}) /\ embedded \in Seq(V) /\ Q \in Nat /\ Len(texts) <= MaxTexts
  BY <1>1, <1>2 DEF R!TypeOK, EmbeddingIsInOrder
<1>4. /\ total \in Nat
      /\ \A i \in 1..total : R!Selected[i] \in 1..MaxTexts
      /\ R!Selected \in Seq(1..MaxTexts)
  <2>. DEFINE S == {i \in DOMAIN texts : texts[i] # "blank"}
  <2>1. R!Selected \in [1..Cardinality(S) -> S] /\ Cardinality(S) \in Nat /\ S \subseteq 1..Len(texts)
    BY <1>3, SelectedEnumerates
  <2>. HIDE DEF S
  <2>2. total = Cardinality(S)
    BY <2>1, MadeIsSequence
  <2>3. 1..Len(texts) \subseteq 1..MaxTexts
    BY <1>3, SearchParameters
  <2>4. R!Selected \in [1..total -> 1..MaxTexts]
    BY <2>1, <2>2, <2>3
  <2>5. R!Selected \in Seq(1..MaxTexts)
    BY <2>1, <2>2, <2>4, MadeIsSequence
  <2> QED  BY <2>1, <2>2, <2>4, <2>5
<1>. DEFINE to == IF Q + 1 + BatchSize - 1 < total THEN Q + 1 + BatchSize - 1 ELSE total
<1>5. R!Batch = SubSeq(R!Selected, Q + 1, to)
  BY DEF R!Batch
<1>6. to \in Nat /\ to <= total /\ Q + 1 <= to
  BY <1>2, <1>3, <1>4, SearchParameters
<1>. HIDE DEF V, Q, total, to
<1>7. /\ Len(R!Batch) = to - Q
      /\ \A i \in 1..Len(R!Batch) : R!Batch[i] = R!Selected[Q + i] /\ Q + i \in 1..total
  <2>1. Q \in Nat /\ total = Len(R!Selected)
    BY <1>3 DEF total
  <2>2. Len(R!Batch) = to - Q
    BY <1>4, <1>5, <1>6, <2>1
  <2>3. ASSUME NEW i \in 1..Len(R!Batch)
        PROVE  R!Batch[i] = R!Selected[Q + i] /\ Q + i \in 1..total
    <3>1. i \in 1..(to - (Q + 1) + 1) /\ Q + i \in 1..total /\ i \in Nat
      BY <1>4, <1>6, <2>1, <2>2, <2>3
    <3>2. R!Batch[i] = R!Selected[Q + 1 + i - 1]
      BY <1>4, <1>5, <1>6, <2>1, <3>1
    <3>3. Q + 1 + i - 1 = Q + i
      BY <2>1, <3>1
    <3> QED  BY <3>1, <3>2, <3>3
  <2> QED  BY <2>2, <2>3
<1>8. UNCHANGED <<task, texts, expected, searchOptions, samples, hits, responses, report>>
  BY DEF R!EmbedBatch
<1>9. R!Selected' = R!Selected
  BY <1>8, SelectedStays
<1>10. CASE searchPhase' = "failed" /\ UNCHANGED embedded
  BY <1>1, <1>2, <1>8, <1>9, <1>10 DEF SearchInv, R!TypeOK, EmbeddingIsInOrder, AskingIsInOrder
<1>11. CASE ~(searchPhase' = "failed" /\ UNCHANGED embedded)
  <2>1. PICK n \in {Len(R!Batch), Len(R!Batch) - 1} : \E dimensions \in [1..n -> R!Dimensions] :
           /\ R!Fits(dimensions, R!Batch)
           /\ embedded' = embedded \o [i \in 1..n |-> [of |-> R!Batch[i], dimension |-> dimensions[i]]]
           /\ UNCHANGED searchPhase
    BY <1>11 DEF R!EmbedBatch
  <2>2. PICK dimensions \in [1..n -> R!Dimensions] :
           /\ R!Fits(dimensions, R!Batch)
           /\ embedded' = embedded \o [i \in 1..n |-> [of |-> R!Batch[i], dimension |-> dimensions[i]]]
           /\ UNCHANGED searchPhase
    BY <2>1
  <2>3. n \in Nat /\ Q \in Nat
    BY <1>3, <1>6, <1>7
  <2>4. Len(dimensions) = n
    BY <2>3, MadeIsSequence
  <2>5. n = Len(R!Batch) /\ n = to - Q
    BY <1>7, <2>2, <2>4 DEF R!Fits
  <2>. DEFINE new == [i \in 1..n |-> [of |-> R!Batch[i], dimension |-> dimensions[i]]]
  <2>6. ASSUME NEW i \in 1..n
        PROVE  /\ new[i] \in V /\ new[i].of = R!Selected[Q + i] /\ new[i].dimension = dimensions[i]
    <3>1. new[i] = [of |-> R!Batch[i], dimension |-> dimensions[i]]
      OBVIOUS
    <3>2. R!Batch[i] = R!Selected[Q + i] /\ R!Batch[i] \in 1..MaxTexts
      BY <1>4, <1>7, <2>5
    <3>3. dimensions[i] \in R!Dimensions
      OBVIOUS
    <3>4. [of |-> R!Batch[i], dimension |-> dimensions[i]] \in V
      BY <3>2, <3>3 DEF V
    <3> QED  BY <3>1, <3>2, <3>4
  <2>7. embedded' = embedded \o new
    BY <2>2
  <2>8. DOMAIN new = 1..n
    OBVIOUS
  <2>. HIDE DEF new
  <2>9. new \in [1..n -> V]
    <3>1. new = [i \in 1..n |-> new[i]]
      BY DEF new
    <3> QED  BY <2>6, <3>1
  <2>10. new \in Seq(V) /\ Len(new) = n
    BY <2>3, <2>9, MadeIsSequence
  <2>11. embedded' \in Seq(V) /\ Len(embedded') = Q + n
    BY <1>3, <2>7, <2>10 DEF Q
  <2>12. ASSUME NEW i \in 1..Q + n
         PROVE  \/ i \in 1..Q /\ embedded'[i] = embedded[i]
                \/ i - Q \in 1..n /\ embedded'[i] = new[i - Q]
    BY <1>3, <2>3, <2>7, <2>10 DEF Q
  <2>13. /\ \A i, j \in 1..n : dimensions[i] = dimensions[j]
         /\ \A i \in 1..n : expected # 0 => dimensions[i] = expected
         /\ Q # 0 => \A i \in 1..n : dimensions[i] = embedded[1].dimension
    <3>1. DOMAIN dimensions = 1..n
      OBVIOUS
    <3>2. Q # 0 => embedded # << >>
      BY DEF Q
    <3> QED  BY <2>2, <3>1, <3>2 DEF R!Fits
  <2>14. embedded'[1].dimension = IF Q = 0 THEN dimensions[1] ELSE embedded[1].dimension
    <3>1. 1 \in 1..Q + n /\ 1 \in 1..n
      BY <1>6, <2>3, <2>5
    <3>2. CASE Q = 0
      <4>1. embedded'[1] = new[1]
        BY <2>12, <3>1, <3>2
      <4> QED  BY <2>6, <3>1, <3>2, <4>1
    <3>3. CASE Q # 0
      <4>1. embedded'[1] = embedded[1]
        BY <2>3, <2>12, <3>1, <3>3
      <4> QED  BY <3>3, <4>1
    <3> QED  BY <3>2, <3>3
  <2>15. ASSUME NEW i \in 1..Q + n
         PROVE  /\ embedded'[i].of = R!Selected[i]
                /\ embedded'[i].dimension = embedded'[1].dimension
                /\ expected # 0 => embedded'[i].dimension = expected
    <3>1. CASE i \in 1..Q /\ embedded'[i] = embedded[i]
      <4>1. /\ embedded[i].of = R!Selected[i] /\ embedded[i].dimension = embedded[1].dimension
            /\ expected # 0 => embedded[i].dimension = expected
        BY <1>1, <1>2, <3>1 DEF EmbeddingIsInOrder, Q
      <4>2. Q # 0
        BY <2>3, <3>1
      <4> QED  BY <2>14, <3>1, <4>1, <4>2
    <3>2. CASE i - Q \in 1..n /\ embedded'[i] = new[i - Q]
      <4>1. new[i - Q].of = R!Selected[Q + (i - Q)] /\ new[i - Q].dimension = dimensions[i - Q]
        BY <2>6, <3>2
      <4>2. Q + (i - Q) = i /\ 1 \in 1..n
        BY <2>3, <3>2
      <4>3. dimensions[i - Q] = embedded'[1].dimension
        BY <2>13, <2>14, <3>2, <4>2
      <4>4. expected # 0 => dimensions[i - Q] = expected
        BY <2>13, <3>2
      <4> QED  BY <3>2, <4>1, <4>2, <4>3, <4>4
    <3> QED  BY <2>12, <3>1, <3>2
  <2>16. Q + n <= total
    BY <1>3, <1>4, <1>6, <2>3, <2>5
  <2>17. R!TypeOK'
    BY <1>1, <1>8, <2>2, <2>11 DEF R!TypeOK, V
  <2>18. EmbeddingIsInOrder'
    BY <1>1, <1>2, <1>8, <1>9, <2>2, <2>11, <2>15, <2>16 DEF EmbeddingIsInOrder, total
  <2>19. AskingIsInOrder'
    BY <1>2, <1>8 DEF AskingIsInOrder
  <2> QED  BY <2>17, <2>18, <2>19 DEF SearchInv
<1> QED  BY <1>10, <1>11

\* The end of the embedding.
LEMMA EndsInOrder == SearchInv /\ R!Embedded => SearchInv'
<1>. SUFFICES ASSUME SearchInv, R!Embedded PROVE SearchInv'
  OBVIOUS
<1>1. R!TypeOK /\ EmbeddingIsInOrder /\ AskingIsInOrder
  BY DEF SearchInv
<1>2. task = "embed" /\ searchPhase' = "done" /\ Len(embedded) = Len(R!Selected)
  BY <1>1 DEF R!Embedded, AskingIsInOrder
<1>3. UNCHANGED <<task, texts, expected, embedded, searchOptions, samples, hits, responses, report>>
  BY DEF R!Embedded
<1>4. R!Selected' = R!Selected
  BY <1>3, SelectedStays
<1> QED  BY <1>1, <1>2, <1>3, <1>4 DEF SearchInv, R!TypeOK, EmbeddingIsInOrder, AskingIsInOrder
-----------------------------------------------------------------------------
\* An answer more, which is the right one.
LEMMA RespondsInOrder ==
  ASSUME SearchInv, task # "embed", searchPhase \in {"searching", "reranking"},
         UNCHANGED <<task, texts, expected, embedded, searchOptions, samples, report>>,
         R!Respond(Right(Len(responses) + 1))
  PROVE  SearchInv'
<1>. DEFINE q == Len(responses) + 1
<1>1. R!TypeOK /\ EmbeddingIsInOrder /\ AskingIsInOrder
  BY DEF SearchInv
<1>2. /\ responses \in Seq(Seq(R!Hit)) /\ samples \in Seq(R!Sample) /\ searchOptions \in R!Options
      /\ Len(responses) \in Nat /\ Len(samples) \in Nat /\ Len(responses) < Len(samples)
      /\ task \in {"search", "evaluate"}
  BY <1>1 DEF R!TypeOK, AskingIsInOrder
<1>3. q \in 1..Len(samples)
  BY <1>2
<1>4. Right(q) \in Seq(R!Hit)
  BY <1>2, <1>3, RightOfService, RightAsFound
<1>5. /\ responses' = Append(responses, Right(q))
      /\ searchPhase' = IF q < Len(samples) THEN "searching"
                        ELSE IF task = "search" THEN "done" ELSE "reporting"
      /\ hits' = << >>
  BY DEF R!Respond
<1>6. /\ responses' \in Seq(Seq(R!Hit)) /\ Len(responses') = q
      /\ \A i \in 1..q : responses'[i] = IF i = q THEN Right(q) ELSE responses[i]
  <2>. HIDE DEF q
  <2>1. q = Len(responses) + 1
    BY DEF q
  <2> QED  BY <1>2, <1>4, <1>5, <2>1
<1>7. \A i \in 1..q : responses'[i] = Right(i)
  <2>1. \A i \in 1..Len(responses) : responses[i] = Right(i)
    BY <1>1 DEF AskingIsInOrder
  <2>2. ASSUME NEW i \in 1..q
        PROVE  responses'[i] = Right(i)
    <3>1. CASE i = q
      BY <1>6, <3>1
    <3>2. CASE i # q
      <4>1. i \in 1..Len(responses)
        BY <1>2, <3>2
      <4> QED  BY <1>6, <2>1, <3>2, <4>1
    <3> QED  BY <3>1, <3>2
  <2> QED  BY <2>2
<1>8. /\ \A i : Right(i)' = Right(i)
      /\ Asked' = Asked /\ R!Reranks' = R!Reranks
  BY RightStays
<1>9. R!TypeOK'
  BY <1>1, <1>2, <1>5, <1>6 DEF R!TypeOK
<1>10. EmbeddingIsInOrder'
  BY DEF EmbeddingIsInOrder
<1>11. AskingIsInOrder'
  <2>. HIDE DEF q
  <2>1. q = Len(responses) + 1 /\ q <= Len(samples) /\ q \in Nat
    BY <1>2 DEF q
  <2>2. \A i \in 1..Len(responses') : responses'[i] = Right(i)'
    BY <1>6, <1>7, <1>8
  <2>3. /\ searchPhase' \in {"searching", "reporting", "done"}
        /\ searchPhase' = "searching" <=> q < Len(samples)
        /\ searchPhase' = "reporting" => task = "evaluate"
        /\ searchPhase' = "done" => task = "search"
    BY <1>2, <1>5
  <2>4. task' = task /\ samples' = samples /\ searchOptions' = searchOptions /\ report' = report
    OBVIOUS
  <2>5. /\ task = "search" => Len(samples) = 1
        /\ task = "evaluate" => /\ searchOptions.stored = Count
                                /\ \A i \in 1..Len(samples) : samples[i].relevant # {}
    BY <1>1, <1>2 DEF AskingIsInOrder
  <2>6. /\ Len(responses') <= Len(samples)
        /\ searchPhase' \in {"searching", "reranking"} => Len(responses') < Len(samples)
        /\ searchPhase' \in {"reporting", "done"} => Len(responses') = Len(samples)
    BY <1>2, <1>6, <2>1, <2>3
  <2> QED  BY <2>2, <2>3, <2>4, <2>5, <2>6 DEF AskingIsInOrder
<1> QED  BY <1>9, <1>10, <1>11 DEF SearchInv

\* A search of the collection.
LEMMA SearchesInOrder == SearchInv /\ R!Search => SearchInv'
<1>. SUFFICES ASSUME SearchInv, R!Search PROVE SearchInv'
  OBVIOUS
<1>1. R!TypeOK /\ EmbeddingIsInOrder /\ AskingIsInOrder
  BY DEF SearchInv
<1>2. task # "embed" /\ searchPhase = "searching"
  BY <1>1 DEF R!Search, EmbeddingIsInOrder
<1>3. UNCHANGED <<task, texts, expected, embedded, searchOptions, samples, report>>
  BY DEF R!Search
<1>4. CASE R!Reranks /\ Asked # << >>
  <2>1. hits' = Asked /\ searchPhase' = "reranking" /\ UNCHANGED responses
    BY <1>4 DEF R!Search, Asked
  <2>2. searchOptions \in R!Options
    BY <1>1 DEF R!TypeOK
  <2>3. Asked \in Seq(R!Chunks)
    BY <2>2, AskedIs
  <2>4. /\ \A i : Right(i)' = Right(i)
        /\ Asked' = Asked /\ R!Reranks' = R!Reranks
    BY <1>3, RightStays
  <2>5. R!TypeOK'
    BY <1>1, <1>3, <2>1, <2>3 DEF R!TypeOK
  <2>6. EmbeddingIsInOrder'
    BY <1>2, <1>3 DEF EmbeddingIsInOrder
  <2>7. AskingIsInOrder'
    BY <1>1, <1>2, <1>3, <1>4, <2>1, <2>4 DEF AskingIsInOrder
  <2> QED  BY <2>5, <2>6, <2>7 DEF SearchInv
<1>5. CASE ~(R!Reranks /\ Asked # << >>)
  <2>1. R!Respond([i \in DOMAIN Asked |-> [chunk |-> Asked[i], score |-> 0, rank |-> i]])
    BY <1>5 DEF R!Search, Asked
  <2>2. R!Respond(Right(Len(responses) + 1))
    BY <1>5, <2>1 DEF Right
  <2> QED  BY <1>2, <1>3, <2>2, RespondsInOrder
<1> QED  BY <1>4, <1>5

\* The reranking of what was found.
LEMMA ReranksInOrder == SearchInv /\ R!Rerank => SearchInv'
<1>. SUFFICES ASSUME SearchInv, R!Rerank PROVE SearchInv'
  OBVIOUS
<1>. DEFINE q == Len(responses) + 1
            rel == samples[q].relevance
<1>1. R!TypeOK /\ EmbeddingIsInOrder /\ AskingIsInOrder
  BY DEF SearchInv
<1>2. task # "embed" /\ searchPhase = "reranking"
  BY <1>1 DEF R!Rerank, EmbeddingIsInOrder
<1>3. UNCHANGED <<task, texts, expected, embedded, searchOptions, samples, report>>
  BY DEF R!Rerank
<1>4. hits = Asked /\ R!Reranks /\ Asked # << >> /\ Len(responses) < Len(samples)
  BY <1>1, <1>2 DEF AskingIsInOrder
<1>5. searchOptions \in R!Options /\ samples \in Seq(R!Sample) /\ q \in 1..Len(samples)
  BY <1>1, <1>4 DEF R!TypeOK
<1>6. Asked \in Seq(R!Chunks) /\ Size \in 1..Len(Asked)
  BY <1>4, <1>5, AskedIs
<1>7. rel \in [R!Chunks -> Nat]
  BY <1>5, SampleIs
<1>8. R!Current.relevance = rel
  BY DEF R!Current
<1>. HIDE DEF rel
<1>9. PICK answer \in R!Answers(Asked, rel, Size) :
        IF R!Valid(answer, Asked, Size)
        THEN R!Respond(R!Reranked(answer, Asked))
        ELSE searchPhase' = "failed" /\ UNCHANGED <<hits, responses>>
  BY <1>4, <1>8 DEF R!Rerank, Size
<1>10. CASE R!Valid(answer, Asked, Size)
  <2>1. R!Sorted(answer) = R!Best(Asked, rel, Size)
    BY <1>6, <1>7, <1>10, AcceptedIsBest
  <2>2. R!Sorted(answer) = BestOf(q)
    BY <2>1 DEF BestOf, rel
  <2>3. DOMAIN BestOf(q) = 1..Size
    BY DEF BestOf, R!Best
  <2>4. R!Reranked(answer, Asked) = Right(q)
    BY <1>4, <2>2, <2>3 DEF R!Reranked, Right
  <2>5. R!Respond(Right(Len(responses) + 1))
    BY <1>9, <1>10, <2>4
  <2> QED  BY <1>2, <1>3, <2>5, RespondsInOrder
<1>11. CASE ~R!Valid(answer, Asked, Size)
  <2>1. searchPhase' = "failed" /\ UNCHANGED <<hits, responses>>
    BY <1>9, <1>11
  <2>2. \A i : Right(i)' = Right(i)
    BY <1>3, RightStays
  <2>3. R!TypeOK'
    BY <1>1, <1>3, <2>1 DEF R!TypeOK
  <2>4. EmbeddingIsInOrder'
    BY <1>2, <1>3 DEF EmbeddingIsInOrder
  <2>5. AskingIsInOrder'
    BY <1>1, <1>2, <1>3, <2>1, <2>2 DEF AskingIsInOrder
  <2> QED  BY <2>3, <2>4, <2>5 DEF SearchInv
<1> QED  BY <1>10, <1>11
-----------------------------------------------------------------------------
\* The whole of a division is a number.
LEMMA QuotientIsNumber ==
  ASSUME NEW a \in Nat, NEW b \in Nat \ {0}
  PROVE  a \div b \in Nat
OBVIOUS

\* Sets of chunks are finite.
LEMMA ChunksAreFinite ==
  ASSUME NEW S \in SUBSET R!Chunks
  PROVE  IsFiniteSet(S) /\ R!Cardinality(S) \in Nat /\ (R!Cardinality(S) = 0 => S = {})
<1>1. IsFiniteSet(R!Chunks)
  BY Interval, SearchParameters DEF R!Chunks
<1>2. IsFiniteSet(S)
  BY <1>1, FS_Subset
<1>3. R!Cardinality(S) = Cardinality(S)
  BY SameCount
<1> QED  BY <1>2, <1>3, FS_CardinalityType, FS_EmptySet

\* What is added up over the queries of the validation is a number.
LEMMA SumIsNumber ==
  ASSUME samples \in Seq(R!Sample), NEW figures, \A q \in 1..Len(samples) : figures[q] \in Nat
  PROVE  R!Sum(figures) \in Nat
<1>1. R!Validation \subseteq 1..Len(samples) /\ Len(samples) \in Nat
  BY DEF R!Validation
<1>2. IsFiniteSet(R!Validation)
  BY <1>1, Interval, FS_Subset
<1>3. \A q \in R!Validation : figures[q] \in Nat
  BY <1>1
<1> QED  BY <1>2, <1>3, FoldIsNumber DEF R!Sum

\* The queries of an evaluation that has all its answers.
Evaluated ==
  /\ searchOptions \in R!Options /\ samples \in Seq(R!Sample)
  /\ Len(responses) = Len(samples)
  /\ \A q \in 1..Len(samples) : responses[q] = Right(q) /\ samples[q].relevant # {}

\* The chunks of a right answer are of those that are there.
LEMMA PrefixIsChunks ==
  ASSUME Evaluated, NEW q \in 1..Len(samples), NEW k \in Nat
  PROVE  R!Prefix(responses[q], k) \in SUBSET R!Chunks
<1>1. responses[q] = Right(q) /\ searchOptions \in R!Options /\ samples \in Seq(R!Sample)
  BY DEF Evaluated
<1>2. Right(q) \in Seq(R!Hit)
  BY <1>1, RightOfService, RightAsFound
<1>3. ASSUME NEW i \in 1..Len(Right(q)) PROVE Right(q)[i].chunk \in R!Chunks
  <2>1. Right(q)[i] \in R!Hit
    BY <1>2
  <2> QED  BY <2>1 DEF R!Hit
<1>4. \A i \in 1..R!Lesser(k, Len(Right(q))) : i \in 1..Len(Right(q))
  BY <1>2 DEF R!Lesser
<1> QED  BY <1>1, <1>3, <1>4 DEF R!Prefix

\* The figures are numbers.
LEMMA FiguresAreNumbers ==
  ASSUME Evaluated, NEW k \in Nat
  PROVE  /\ \A q \in 1..Len(samples) : R!Recall(q, k) \in Nat /\ R!F1(q, k) \in Nat
         /\ R!SumOfRecalls(k) \in Nat /\ R!SumOfF1s(k) \in Nat
<1>1. ASSUME NEW q \in 1..Len(samples)
      PROVE  R!Recall(q, k) \in Nat /\ R!F1(q, k) \in Nat
  <2>. DEFINE P == R!Prefix(responses[q], k)
              V == samples[q].relevant
  <2>1. P \in SUBSET R!Chunks
    BY PrefixIsChunks
  <2>2. V \in SUBSET R!Chunks /\ V # {}
    BY SampleIs DEF Evaluated
  <2>3. R!Matched(q, k) = R!Cardinality(P \cap V)
    BY DEF R!Matched
  <2>4. R!Recall(q, k) = (R!Whole * R!Matched(q, k)) \div R!Cardinality(V)
    BY DEF R!Recall
  <2>5. R!F1(q, k) = (2 * R!Whole * R!Matched(q, k)) \div (R!Cardinality(P) + R!Cardinality(V))
    BY DEF R!F1
  <2>. HIDE DEF P, V
  <2>6. P \cap V \in SUBSET R!Chunks
    BY <2>1
  <2>7. R!Matched(q, k) \in Nat /\ R!Cardinality(P) \in Nat /\ R!Cardinality(V) \in Nat \ {0}
    BY <2>1, <2>2, <2>3, <2>6, ChunksAreFinite
  <2>8. /\ R!Whole * R!Matched(q, k) \in Nat /\ 2 * R!Whole * R!Matched(q, k) \in Nat
        /\ R!Cardinality(P) + R!Cardinality(V) \in Nat \ {0}
    BY <2>7 DEF R!Whole
  <2> QED  BY <2>4, <2>5, <2>7, <2>8, QuotientIsNumber
<1>2. samples \in Seq(R!Sample) /\ DOMAIN samples = 1..Len(samples)
  BY DEF Evaluated
<1>3. R!SumOfRecalls(k) \in Nat
  <2>. DEFINE figures == [q \in DOMAIN samples |-> R!Recall(q, k)]
  <2>1. \A q \in 1..Len(samples) : figures[q] \in Nat
    BY <1>1, <1>2
  <2>. HIDE DEF figures
  <2>2. R!Sum(figures) \in Nat
    BY <1>2, <2>1, SumIsNumber
  <2> QED  BY <2>2 DEF R!SumOfRecalls, figures
<1>4. R!SumOfF1s(k) \in Nat
  <2>. DEFINE figures == [q \in DOMAIN samples |-> R!F1(q, k)]
  <2>1. \A q \in 1..Len(samples) : figures[q] \in Nat
    BY <1>1, <1>2
  <2>. HIDE DEF figures
  <2>2. R!Sum(figures) \in Nat
    BY <1>2, <2>1, SumIsNumber
  <2> QED  BY <2>2 DEF R!SumOfF1s, figures
<1> QED  BY <1>1, <1>3, <1>4

\* Of the K there is one that is better than every other.
LEMMA DecisionIs ==
  ASSUME Evaluated
  PROVE  /\ Among \subseteq searchOptions.ks /\ Among # {} /\ Decision.k \in Among
         /\ \A j \in Among \ {Decision.k} : R!Better(Decision.k, j)
<1>. DEFINE J == {p \in Among \X Among : R!Better(p[1], p[2])}
            n == Cardinality(Among)
<1>1. Among \subseteq searchOptions.ks /\ Among # {} /\ IsFiniteSet(Among) /\ Among \subseteq Nat
  <2>1. searchOptions.ks \subseteq Nat \ {0} /\ searchOptions.ks # {} /\ IsFiniteSet(searchOptions.ks)
    BY OptionsAre DEF Evaluated
  <2>2. Among \subseteq searchOptions.ks /\ Among # {}
    BY <2>1 DEF Among, Reaching
  <2> QED  BY <2>1, <2>2, FS_Subset
<1>2. \A k \in Among : R!SumOfF1s(k) \in Nat /\ k \in Nat
  BY <1>1, FiguresAreNumbers
<1>. DEFINE F(k) == R!SumOfF1s(k)
<1>3. \A k, j \in Among : R!Better(k, j) <=> F(k) > F(j) \/ (F(k) = F(j) /\ k < j)
  BY DEF R!Better
<1>. HIDE DEF F
<1>4. \A k \in Among : F(k) \in Nat /\ k \in Nat
  BY <1>2 DEF F
<1>5. \A p, q \in Among : <<p, q>> \in J <=> R!Better(p, q)
  OBVIOUS
<1>. HIDE DEF J
<1>6. Orders(J, Among)
  <2>1. \A x, y, z \in Among : R!Better(x, y) /\ R!Better(y, z) => R!Better(x, z)
    BY <1>3, <1>4
  <2>2. \A x \in Among : ~R!Better(x, x)
    BY <1>3, <1>4
  <2>3. \A x, y \in Among : x # y => R!Better(x, y) \/ R!Better(y, x)
    BY <1>3, <1>4
  <2> QED  BY <1>5, <2>1, <2>2, <2>3 DEF Orders
<1>7. n \in Nat \ {0}
  BY <1>1, FS_CardinalityType, FS_EmptySet
<1>8. PICK s \in [1..n -> Among] : \A i, j \in 1..n : i < j => <<s[i], s[j]>> \in J
  BY <1>1, <1>6, Enumeration
<1>9. \A x \in Among : \E i \in 1..n : s[i] = x
  BY <1>1, <1>6, <1>8, Enumerates
<1>10. 1 \in 1..n /\ s[1] \in Among
  BY <1>7, <1>8
<1>11. ASSUME NEW j \in Among \ {s[1]}
       PROVE  R!Better(s[1], j)
  <2>1. PICK i \in 1..n : s[i] = j
    BY <1>9
  <2>2. 1 < i
    BY <1>7, <2>1
  <2> QED  BY <1>5, <1>8, <1>10, <2>1, <2>2
<1>12. \E k \in Among : \A j \in Among \ {k} : R!Better(k, j)
  BY <1>10, <1>11
<1>13. Decision.k = CHOOSE k \in Among : \A j \in Among \ {k} : R!Better(k, j)
  BY DEF Decision
<1> QED  BY <1>1, <1>12, <1>13

\* What the sum is, with its definitions expanded.
Total(figures, V) ==
  LET one(s) == CHOOSE x \in s : TRUE
      iter == CHOOSE it : it = [s \in SUBSET V |-> IF s = {} THEN 0 ELSE figures[one(s)] + it[s \ {one(s)}]]
  IN iter[V]

\* The decision is about the answers.
LEMMA DecisionStays ==
  UNCHANGED <<searchOptions, samples, responses>> => Decision' = Decision
<1>. SUFFICES ASSUME UNCHANGED <<searchOptions, samples, responses>>
              PROVE  Decision' = Decision
  OBVIOUS
<1>1. R!Validation' = R!Validation
  BY DEF R!Validation
<1>2. \A q, k : R!Matched(q, k)' = R!Matched(q, k) /\ R!Prefix(responses[q], k)' = R!Prefix(responses[q], k)
  BY DEF R!Matched, R!Prefix, R!Lesser
<1>3. \A q, k : R!Recall(q, k)' = R!Recall(q, k)
  BY <1>2 DEF R!Recall
<1>4. \A q, k : R!F1(q, k)' = R!F1(q, k)
  BY <1>2 DEF R!F1
<1>5. ASSUME NEW k
      PROVE  R!SumOfRecalls(k)' = R!SumOfRecalls(k) /\ R!SumOfF1s(k)' = R!SumOfF1s(k)
  <2>. DEFINE recalls == [q \in DOMAIN samples |-> R!Recall(q, k)]
              f1s == [q \in DOMAIN samples |-> R!F1(q, k)]
  <2>1. recalls' = recalls
    BY <1>3
  <2>2. f1s' = f1s
    BY <1>4
  <2>3. /\ R!SumOfRecalls(k) = Total(recalls, R!Validation)
        /\ R!SumOfRecalls(k)' = Total(recalls', R!Validation')
    BY DEF R!SumOfRecalls, R!Sum, R!FoldFunctionOnSet, R!MapThenFoldSet, Total
  <2>4. /\ R!SumOfF1s(k) = Total(f1s, R!Validation)
        /\ R!SumOfF1s(k)' = Total(f1s', R!Validation')
    BY DEF R!SumOfF1s, R!Sum, R!FoldFunctionOnSet, R!MapThenFoldSet, Total
  <2>. HIDE DEF recalls, f1s
  <2> QED  BY <1>1, <2>1, <2>2, <2>3, <2>4
<1>6. \A k : R!ReachesTarget(k)' = R!ReachesTarget(k)
  BY <1>1, <1>5 DEF R!ReachesTarget
<1>7. \A k, j : R!Better(k, j)' = R!Better(k, j)
  BY <1>5 DEF R!Better
<1>8. Reaching' = Reaching
  BY <1>6 DEF Reaching
<1>9. Among' = Among
  BY <1>8 DEF Among
<1> QED  BY <1>7, <1>8, <1>9 DEF Decision

\* The decision of the evaluation.
LEMMA SelectsInOrder == SearchInv /\ R!SelectTopK => SearchInv'
<1>. SUFFICES ASSUME SearchInv, R!SelectTopK PROVE SearchInv'
  OBVIOUS
<1>1. R!TypeOK /\ EmbeddingIsInOrder /\ AskingIsInOrder
  BY DEF SearchInv
<1>2. task = "evaluate" /\ searchPhase = "reporting"
  BY <1>1 DEF R!SelectTopK, EmbeddingIsInOrder, AskingIsInOrder, R!TypeOK
<1>3. UNCHANGED <<task, texts, expected, embedded, searchOptions, samples, hits, responses>>
  BY DEF R!SelectTopK
<1>4. \A i : Right(i)' = Right(i)
  BY <1>3, RightStays
<1>5. EmbeddingIsInOrder'
  BY <1>2, <1>3 DEF EmbeddingIsInOrder
<1>6. CASE R!Validation = {}
  <2>1. searchPhase' = "failed" /\ UNCHANGED report
    BY <1>6 DEF R!SelectTopK
  <2>2. R!TypeOK'
    BY <1>1, <1>3, <2>1 DEF R!TypeOK
  <2>3. AskingIsInOrder'
    BY <1>1, <1>2, <1>3, <1>4, <2>1 DEF AskingIsInOrder
  <2> QED  BY <1>5, <2>2, <2>3 DEF SearchInv
<1>7. CASE R!Validation # {}
  <2>1. searchPhase' = "done" /\ report' = Decision
    BY <1>7 DEF R!SelectTopK, Decision, Among, Reaching
  <2>2. Evaluated
    BY <1>1, <1>2 DEF Evaluated, R!TypeOK, AskingIsInOrder
  <2>3. Decision.k \in searchOptions.ks /\ searchOptions.ks \in Kss
    BY <2>2, DecisionIs, OptionsAre DEF Evaluated
  <2>4. Decision \in [k : {0} \cup UNION Kss, targetMet : BOOLEAN]
    BY <2>3 DEF Decision
  <2>5. R!TypeOK'
    BY <1>1, <1>3, <2>1, <2>4 DEF R!TypeOK
  <2>6. Decision' = Decision
    BY <1>3, DecisionStays
  <2>7. AskingIsInOrder'
    BY <1>1, <1>2, <1>3, <1>4, <2>1, <2>6 DEF AskingIsInOrder
  <2> QED  BY <1>5, <2>5, <2>7 DEF SearchInv
<1> QED  BY <1>6, <1>7

\* The invariant is inductive.
LEMMA SearchSteps == SearchInv /\ [R!Next]_R!vars => SearchInv'
<1>. SUFFICES ASSUME SearchInv, [R!Next]_R!vars PROVE SearchInv'
  OBVIOUS
<1>1. CASE UNCHANGED R!vars
  <2>1. UNCHANGED <<task, searchPhase, texts, expected, embedded, searchOptions, samples, hits, responses, report>>
    BY <1>1 DEF R!vars
  <2>2. R!TypeOK /\ EmbeddingIsInOrder /\ AskingIsInOrder
    BY DEF SearchInv
  <2>3. R!TypeOK'
    BY <2>1, <2>2 DEF R!TypeOK
  <2>4. EmbeddingIsInOrder'
    BY <2>1, <2>2, SelectedStays DEF EmbeddingIsInOrder
  <2>5. AskingIsInOrder'
    BY <2>1, <2>2, RightStays, DecisionStays DEF AskingIsInOrder
  <2> QED  BY <2>3, <2>4, <2>5 DEF SearchInv
<1> QED  BY <1>1, EmbedsInOrder, EndsInOrder, SearchesInOrder, ReranksInOrder, SelectsInOrder DEF R!Next
-----------------------------------------------------------------------------
\* Every text that is not blank has its vector.
LEMMA InOrderBelongs == SearchInv => R!VectorsBelong
<1>. SUFFICES ASSUME SearchInv, task = "embed", searchPhase = "done"
              PROVE /\ \A i \in DOMAIN R!EmbeddedChunks :
                         /\ R!EmbeddedChunks[i].vector.of = R!EmbeddedChunks[i].chunk
                         /\ R!EmbeddedChunks[i].vector.dimension = R!EmbeddedChunks[1].vector.dimension
                         /\ expected # 0 => R!EmbeddedChunks[i].vector.dimension = expected
                    /\ \A i \in DOMAIN texts : texts[i] # "blank" =>
                         R!Cardinality({j \in DOMAIN R!EmbeddedChunks : R!EmbeddedChunks[j].chunk = i}) = 1
  BY DEF R!VectorsBelong
<1>. DEFINE S == {i \in DOMAIN texts : texts[i] # "blank"}
            n == Cardinality(S)
            E == R!EmbeddedChunks
<1>1. /\ texts \in Seq({"text", "blank"}) /\ Len(embedded) = Len(R!Selected)
      /\ embedded \in Seq([of : 1..MaxTexts, dimension : R!Dimensions])
      /\ \A i \in 1..Len(embedded) : /\ embedded[i].of = R!Selected[i]
                                     /\ embedded[i].dimension = embedded[1].dimension
                                     /\ expected # 0 => embedded[i].dimension = expected
  BY DEF SearchInv, R!TypeOK, EmbeddingIsInOrder
<1>2. /\ R!Selected \in [1..n -> S] /\ n \in Nat
      /\ \A i, j \in 1..n : R!Selected[i] = R!Selected[j] => i = j
      /\ \A x \in S : \E i \in 1..n : R!Selected[i] = x
  BY <1>1, SelectedEnumerates
<1>. HIDE DEF S
<1>3. Len(R!Selected) = n
  BY <1>2, MadeIsSequence
<1>4. DOMAIN embedded = 1..n
  BY <1>1, <1>3
<1>5. E = [i \in 1..n |-> [chunk |-> R!Selected[i], vector |-> embedded[i]]]
  BY <1>4 DEF R!EmbeddedChunks
<1>. HIDE DEF E, n
<1>6. DOMAIN E = 1..n /\ \A i \in 1..n : E[i].chunk = R!Selected[i] /\ E[i].vector = embedded[i]
  BY <1>5
<1>7. ASSUME NEW i \in DOMAIN E
      PROVE  /\ E[i].vector.of = E[i].chunk
             /\ E[i].vector.dimension = E[1].vector.dimension
             /\ expected # 0 => E[i].vector.dimension = expected
  <2>1. i \in 1..n /\ 1 \in 1..n
    BY <1>2, <1>6
  <2>2. i \in 1..Len(embedded)
    BY <1>1, <1>3, <2>1
  <2> QED  BY <1>1, <1>6, <2>1, <2>2
<1>8. ASSUME NEW i \in DOMAIN texts, texts[i] # "blank"
      PROVE  R!Cardinality({j \in DOMAIN E : E[j].chunk = i}) = 1
  <2>1. i \in S
    BY <1>8 DEF S
  <2>2. PICK j \in 1..n : R!Selected[j] = i
    BY <1>2, <2>1
  <2>3. {k \in DOMAIN E : E[k].chunk = i} = {j}
    BY <1>2, <1>6, <2>2
  <2>4. Cardinality({j}) = 1
    BY FS_Singleton
  <2> QED  BY <2>3, <2>4, SameCount
<1> QED  BY <1>7, <1>8 DEF E

\* Different elements are as many as there are places.
LEMMA ImageSize ==
  ASSUME NEW n \in Nat, NEW f, NEW T,
         \A i \in 1..n : f[i] \in T, \A t \in T : \E i \in 1..n : f[i] = t,
         \A i, j \in 1..n : f[i] = f[j] => i = j
  PROVE  R!Cardinality(T) = n
<1>. DEFINE g == [i \in 1..n |-> f[i]]
<1>1. g \in [1..n -> T] /\ \A i \in 1..n : g[i] = f[i]
  OBVIOUS
<1>. HIDE DEF g
<1>2. g \in Injection(1..n, T)
  BY <1>1 DEF Injection, IsInjective
<1>3. g \in Surjection(1..n, T)
  BY <1>1 DEF Surjection
<1>4. g \in Bijection(1..n, T)
  BY <1>2, <1>3 DEF Bijection
<1>5. IsFiniteSet(1..n) /\ Cardinality(1..n) = n
  BY Interval
<1>6. Cardinality(T) = n
  BY <1>4, <1>5, FS_Bijection DEF ExistsBijection
<1> QED  BY <1>6, SameCount

\* The right answer is ranked.
LEMMA InOrderRanks == SearchInv => R!HitsAreRanked
<1>. SUFFICES ASSUME SearchInv, task = "search", searchPhase = "done"
              PROVE  R!HitsAreRanked
  BY DEF R!HitsAreRanked
<1>. DEFINE answer == responses[1]
            score(c) == IF R!Reranks THEN samples[1].relevance[c] ELSE 0
            answered == {answer[i].chunk : i \in DOMAIN answer}
            limit == searchOptions.limit
            m == Len(Asked)
<1>1. /\ searchOptions \in R!Options /\ samples \in Seq(R!Sample) /\ Len(samples) = 1
      /\ Len(responses) = 1 /\ \A q \in 1..Len(responses) : responses[q] = Right(q)
  BY DEF SearchInv, R!TypeOK, AskingIsInOrder
<1>2. 1 \in 1..Len(samples) /\ answer = Right(1)
  BY <1>1
<1>3. R!Limit = limit /\ limit \in Nat \ {0} /\ searchOptions.stored \in Nat
      /\ searchOptions.candidates \in Nat
  BY <1>1, OptionsAre DEF R!Limit
<1>4. /\ Asked \in Seq(R!Chunks) /\ m \in Nat /\ DOMAIN Asked = 1..m
      /\ m = R!Lesser(R!Candidates(limit), searchOptions.stored)
      /\ \A i \in 1..m : Asked[i] = i
      /\ Size \in 0..m /\ Size \in Nat
      /\ Size = R!Lesser(limit, m) /\ Asked = R!Found(limit)
  BY <1>1, <1>3, AskedIs DEF Size, Asked
<1>5. R!Candidates(limit) \in Nat /\ R!Candidates(limit) >= limit
      /\ (~R!Reranks => R!Candidates(limit) = limit)
  BY <1>1, <1>3, FoundIs DEF R!Candidates
<1>6. R!Lesser(limit, m) = R!Lesser(limit, searchOptions.stored)
  BY <1>3, <1>4, <1>5 DEF R!Lesser
<1>7. {Asked[i] : i \in DOMAIN Asked} = 1..m
  BY <1>4
<1>. HIDE DEF answer, score, limit, m
<1>8. CASE R!Reranks /\ Asked # << >>
  <2>. DEFINE rel == samples[1].relevance
              o == R!ByRelevance(Asked, rel)
  <2>1. rel \in [R!Chunks -> Nat]
    BY <1>1, <1>2, SampleIs
  <2>2. /\ Len(answer) = Size /\ DOMAIN answer = 1..Size
        /\ \A k \in 1..Size : answer[k].chunk = o[k]
        /\ \A k \in 1..Size : answer[k].score = rel[o[k]]
        /\ \A k \in 1..Size : o[k] \in 1..m
    BY <1>1, <1>2, <1>8, RightOfService DEF m
  <2>. HIDE DEF rel
  <2>3. /\ o \in [1..m -> 1..m]
        /\ \A i, j \in 1..m : o[i] = o[j] => i = j
        /\ \A x \in 1..m : \E i \in 1..m : o[i] = x
        /\ \A i, j \in 1..m : i < j <=> Earlier(Asked, rel, o[i], o[j])
    <3>1. Asked \in Seq(R!Chunks)
      BY <1>4
    <3>2. /\ o \in [1..Len(Asked) -> 1..Len(Asked)]
          /\ \A i, j \in 1..Len(Asked) : o[i] = o[j] => i = j
          /\ \A x \in 1..Len(Asked) : \E i \in 1..Len(Asked) : o[i] = x
          /\ \A i, j \in 1..Len(Asked) : i < j <=> Earlier(Asked, rel, o[i], o[j])
      BY <2>1, <3>1, RelevanceEnumerates
    <3> QED  BY <3>2 DEF m
  <2>. HIDE DEF o
  <2>4. \A c : score(c) = rel[c]
    BY <1>8 DEF score, rel
  <2>5. \A i \in 1..Size : i \in 1..m
    BY <1>4
  <2>6. ASSUME NEW x \in 1..m, NEW y \in 1..m
        PROVE  Earlier(Asked, rel, x, y) <=> rel[x] > rel[y] \/ (rel[x] = rel[y] /\ x < y)
    BY <1>4 DEF Earlier
  <2>7. Len(answer) = R!Lesser(limit, searchOptions.stored)
    BY <1>4, <1>6, <2>2
  <2>8. answered = {o[i] : i \in 1..Size}
    BY <2>2
  <2>9. R!Cardinality(answered) = Size
    <3>1. \A i, j \in 1..Size : o[i] = o[j] => i = j
      BY <2>3, <2>5
    <3>2. (\A i \in 1..Size : o[i] \in answered) /\ \A t \in answered : \E i \in 1..Size : o[i] = t
      BY <2>8
    <3>3. Size \in Nat
      BY <1>4
    <3>. HIDE DEF answered
    <3> QED  BY <3>1, <3>2, <3>3, ImageSize
  <2>10. \A i \in DOMAIN answer : answer[i].score = score(answer[i].chunk)
    BY <2>2, <2>4
  <2>11. ASSUME NEW i \in DOMAIN answer, NEW j \in DOMAIN answer, i < j
         PROVE  \/ score(answer[i].chunk) > score(answer[j].chunk)
                \/ /\ score(answer[i].chunk) = score(answer[j].chunk)
                   /\ answer[i].chunk < answer[j].chunk
    <3>1. i \in 1..m /\ j \in 1..m /\ o[i] \in 1..m /\ o[j] \in 1..m
      BY <2>2, <2>5
    <3>2. Earlier(Asked, rel, o[i], o[j])
      BY <2>3, <2>11, <3>1
    <3>3. rel[o[i]] > rel[o[j]] \/ (rel[o[i]] = rel[o[j]] /\ o[i] < o[j])
      BY <2>6, <3>1, <3>2
    <3>4. answer[i].chunk = o[i] /\ answer[j].chunk = o[j]
      BY <2>2
    <3> QED  BY <2>4, <3>3, <3>4
  <2>12. ASSUME NEW c \in 1..m, c \notin answered, NEW d \in answered
         PROVE  score(c) <= score(d)
    <3>1. PICK k \in 1..Size : d = o[k]
      BY <2>8
    <3>2. PICK x \in 1..m : o[x] = c
      BY <2>3
    <3>3. x \notin 1..Size
      BY <2>8, <2>12, <3>2
    <3>4. k < x /\ k \in 1..m
      BY <1>4, <3>3
    <3>5. Earlier(Asked, rel, d, c) /\ d \in 1..m
      BY <2>3, <3>1, <3>2, <3>4
    <3>6. rel[d] > rel[c] \/ (rel[d] = rel[c] /\ d < c)
      BY <2>6, <3>5
    <3>7. rel[d] \in Nat /\ rel[c] \in Nat
      <4>1. \A i \in 1..m : i \in R!Chunks
        BY <1>4
      <4> QED  BY <2>1, <3>5, <4>1
    <3> QED  BY <2>4, <3>6, <3>7
  <2>13. \A c \in R!ToSet(R!Found(limit)) \ answered : c \in 1..m /\ c \notin answered
    <3>1. R!ToSet(R!Found(limit)) = 1..m
      BY <1>4, <1>7 DEF R!ToSet
    <3>. HIDE DEF answered
    <3> QED  BY <3>1
  <2>14. \A c \in R!ToSet(R!Found(limit)) \ answered : \A d \in answered : score(c) <= score(d)
    <3>. HIDE DEF answered
    <3> QED  BY <2>12, <2>13
  <2>. HIDE DEF answered
  <2>15. R!Cardinality(answered) = Len(answer)
    BY <2>2, <2>9
  <2> QED  BY <2>7, <2>10, <2>11, <2>14, <2>15 DEF R!HitsAreRanked, answer, answered, score, limit
<1>9. CASE ~(R!Reranks /\ Asked # << >>)
  <2>1. /\ Len(answer) = m /\ DOMAIN answer = 1..m
        /\ \A k \in 1..m : answer[k].chunk = k /\ answer[k].score = 0
    BY <1>1, <1>2, <1>9, RightAsFound DEF m
  <2>2. m # 0 => ~R!Reranks
    BY <1>4, <1>9
  <2>3. m = R!Lesser(limit, searchOptions.stored)
    <3>1. CASE R!Reranks
      BY <1>3, <1>4, <1>5, <2>2, <3>1 DEF R!Lesser
    <3>2. CASE ~R!Reranks
      BY <1>4, <1>5, <3>2
    <3> QED  BY <3>1, <3>2
  <2>4. answered = 1..m
    BY <2>1
  <2>5. R!Cardinality(answered) = m
    BY <1>4, <2>4, Interval, SameCount
  <2>6. \A i \in 1..m : score(i) = 0
    BY <2>2 DEF score
  <2>7. R!ToSet(R!Found(limit)) \ answered = {}
    BY <1>4, <1>7, <2>4 DEF R!ToSet
  <2>. HIDE DEF answered
  <2> QED  BY <2>1, <2>3, <2>5, <2>6, <2>7 DEF R!HitsAreRanked, answer, answered, score, limit
<1> QED  BY <1>8, <1>9

\* The first k of the right answer are what a search with limit k answers.
LEMMA PrefixIsServed ==
  ASSUME Evaluated, task = "evaluate", searchOptions.stored = Count,
         R!Reranks => R!MaxK <= searchOptions.candidates,
         NEW q \in 1..Len(samples), NEW k \in searchOptions.ks
  PROVE  R!Prefix(responses[q], k) = R!Served(q, k)
<1>. DEFINE m == Len(Asked)
            found == R!Found(k)
            mk == Len(found)
            nk == R!Lesser(k, mk)
            rel == samples[q].relevance
            answer == responses[q]
            first == R!Lesser(k, Len(answer))
<1>1. /\ searchOptions \in R!Options /\ samples \in Seq(R!Sample)
      /\ answer = Right(q)
  BY DEF Evaluated
<1>2. R!Limit = R!MaxK /\ R!MaxK \in Nat \ {0} /\ k \in Nat \ {0} /\ k <= R!MaxK
  BY <1>1, MaxKIs, OptionsAre DEF R!Limit
<1>3. searchOptions.candidates \in Nat /\ Count \in Nat
  BY <1>1, OptionsAre
<1>4. /\ Asked \in Seq(R!Chunks) /\ m \in Nat /\ \A i \in 1..m : Asked[i] = i
      /\ m = R!Lesser(R!Candidates(R!MaxK), Count)
      /\ Size = R!Lesser(R!MaxK, m) /\ DOMAIN Asked = 1..m
  BY <1>1, <1>2, AskedIs DEF Size
<1>5. /\ found \in Seq(R!Chunks) /\ mk \in Nat /\ \A i \in 1..mk : found[i] = i
      /\ mk = R!Lesser(R!Candidates(k), Count) /\ DOMAIN found = 1..mk
  <2>1. /\ R!Found(k) \in Seq(R!Chunks) /\ Len(R!Found(k)) \in 0..Count
        /\ \A i \in 1..Len(R!Found(k)) : R!Found(k)[i] = i
        /\ Len(R!Found(k)) = R!Lesser(R!Candidates(k), searchOptions.stored)
        /\ DOMAIN R!Found(k) = 1..Len(R!Found(k))
    <3>1. searchOptions \in R!Options /\ k \in Nat \ {0}
      BY <1>1, <1>2
    <3>. HIDE DEF m, answer, found, mk, nk, rel, first
    <3> QED  BY <3>1, FoundIs
  <2>2. mk \in Nat
    BY <1>3, <2>1
  <2> QED  BY <2>1, <2>2
<1>6. /\ R!Prefix(answer, k) = {answer[i].chunk : i \in 1..first}
      /\ R!Reranks => R!Served(q, k) = {found[a.index] : a \in R!ToSet(R!Best(found, rel, nk))}
      /\ ~R!Reranks => R!Served(q, k) = R!ToSet(found)
  BY DEF R!Prefix, R!Served
<1>. HIDE DEF m, answer, found, mk, nk, rel, first
<1>7. CASE ~R!Reranks
  <2>1. m = R!Lesser(R!MaxK, Count) /\ mk = R!Lesser(k, Count)
    BY <1>4, <1>5, <1>7 DEF R!Candidates
  <2>2. Len(answer) = m /\ \A i \in 1..m : answer[i].chunk = i
    BY <1>1, <1>7, RightAsFound DEF m, answer
  <2>3. first = mk /\ first <= m
    BY <1>2, <1>3, <2>1, <2>2 DEF first, R!Lesser
  <2>4. \A i \in 1..first : i \in 1..m
    BY <1>4, <1>5, <2>3
  <2>5. R!Prefix(answer, k) = 1..mk
    BY <1>6, <2>2, <2>3, <2>4
  <2>6. R!ToSet(found) = 1..mk
    BY <1>5 DEF R!ToSet
  <2> QED  BY <1>6, <1>7, <2>5, <2>6 DEF answer
<1>8. CASE R!Reranks
  <2>1. R!Candidates(k) = searchOptions.candidates /\ R!Candidates(R!MaxK) = searchOptions.candidates
    BY <1>2, <1>3, <1>8 DEF R!Candidates, R!Greater
  <2>2. found = Asked /\ mk = m
    <3>1. found = [i \in 1..R!Lesser(R!Candidates(k), Count) |-> i]
      BY DEF R!Found, found
    <3>2. Asked = [i \in 1..R!Lesser(R!Candidates(R!MaxK), Count) |-> i]
      BY <1>2 DEF R!Found, Asked
    <3>3. found = Asked
      BY <2>1, <3>1, <3>2
    <3> QED  BY <3>3 DEF mk, m
  <2>3. nk = R!Lesser(k, m) /\ nk \in 0..m
    BY <1>2, <1>4, <2>2 DEF nk, R!Lesser
  <2>. DEFINE o == R!ByRelevance(Asked, rel)
              best == R!Best(found, rel, nk)
  <2>4. rel \in [R!Chunks -> Nat]
    BY <1>1, SampleIs DEF rel
  <2>5. /\ DOMAIN best = 1..nk
        /\ \A i \in 1..nk : best[i].index = o[i]
    <3>1. Asked \in Seq(R!Chunks) /\ nk \in 0..Len(Asked) /\ found = Asked
      BY <1>4, <2>2, <2>3 DEF m
    <3>2. /\ DOMAIN R!Best(Asked, rel, nk) = 1..nk
          /\ \A i \in 1..nk : R!Best(Asked, rel, nk)[i].index = R!ByRelevance(Asked, rel)[i]
      BY <2>4, <3>1, BestIs
    <3> QED  BY <3>1, <3>2
  <2>6. o \in [1..m -> 1..m]
    <3>1. Asked \in Seq(R!Chunks)
      BY <1>4
    <3>2. o \in [1..Len(Asked) -> 1..Len(Asked)]
      BY <2>4, <3>1, RelevanceEnumerates
    <3> QED  BY <3>2 DEF m
  <2>. HIDE DEF best, o
  <2>7. /\ \A i \in 1..nk : o[i] \in 1..m
        /\ \A i \in 1..nk : found[best[i].index] = o[i]
    <3>1. ASSUME NEW i \in 1..nk
          PROVE  o[i] \in 1..m /\ found[best[i].index] = o[i]
      <4>1. i \in 1..m
        BY <1>4, <2>3
      <4>2. o[i] \in 1..m
        BY <2>6, <4>1
      <4> QED  BY <1>5, <2>2, <2>5, <4>2
    <3> QED  BY <3>1
  <2>8. R!Served(q, k) = {o[i] : i \in 1..nk}
    <3>1. R!ToSet(best) = {best[i] : i \in 1..nk}
      BY <2>5 DEF R!ToSet
    <3>2. R!Served(q, k) = {found[a.index] : a \in R!ToSet(best)}
      BY <1>6, <1>8 DEF best
    <3> QED  BY <2>7, <3>1, <3>2
  <2>9. CASE Asked = << >>
    <3>1. m = 0 /\ nk = 0
      BY <1>2, <2>3, <2>9 DEF m, R!Lesser
    <3>2. Len(answer) = 0
      BY <1>1, <2>9, <3>1, RightAsFound DEF answer, m
    <3>3. first = 0
      BY <1>2, <3>2 DEF first, R!Lesser
    <3>4. R!Prefix(answer, k) = {} /\ R!Served(q, k) = {}
      BY <1>6, <2>8, <3>1, <3>3
    <3> QED  BY <3>4 DEF answer
  <2>10. CASE Asked # << >>
    <3>1. /\ Len(answer) = Size
          /\ \A i \in 1..Size : answer[i].chunk = o[i]
      <4>1. o = R!ByRelevance(Asked, samples[q].relevance) /\ answer = Right(q)
        BY <1>1 DEF answer, o, rel
      <4>2. R!Reranks
        BY <1>8
      <4>. HIDE DEF o, answer
      <4>3. Len(Right(q)) = Size /\ \A i \in 1..Size : Right(q)[i].chunk = o[i]
        <5>1. /\ searchOptions \in R!Options /\ samples \in Seq(R!Sample)
              /\ q \in 1..Len(samples)
          BY <1>1
        <5>2. \A x : x = R!ByRelevance(Asked, samples[q].relevance)
                    => Len(Right(q)) = Size /\ \A i \in 1..Size : Right(q)[i].chunk = x[i]
          BY <2>10, <4>2, <5>1, RightOfService
        <5> QED  BY <4>1, <5>2
      <4> QED  BY <4>1, <4>3
    <3>2. first = nk /\ nk <= Size /\ Size \in Nat
      BY <1>2, <1>4, <2>3, <3>1 DEF first, R!Lesser
    <3>3. \A i \in 1..nk : i \in 1..Size
      BY <2>3, <3>2
    <3>4. R!Prefix(answer, k) = {o[i] : i \in 1..nk}
      BY <1>6, <3>1, <3>2, <3>3
    <3> QED  BY <2>8, <3>4 DEF answer
  <2> QED  BY <2>9, <2>10
<1> QED  BY <1>7, <1>8

\* The K that is recommended is the best for the searches with it.
LEMMA InOrderRecommends == SearchInv => R!RecommendedIsBest
<1>. SUFFICES ASSUME SearchInv, task = "evaluate", searchPhase = "done",
                     R!Reranks => R!MaxK <= searchOptions.candidates
              PROVE  R!RecommendedIsBest
  BY DEF R!RecommendedIsBest
<1>. DEFINE recalls(k) == [q \in DOMAIN samples |-> R!ServedRecall(q, k)]
            f1s(k) == [q \in DOMAIN samples |-> R!ServedF1(q, k)]
            reaching == {k \in searchOptions.ks :
              R!Sum(recalls(k)) >= searchOptions.minRecall * R!Cardinality(R!Validation)}
            among == IF reaching = {} THEN searchOptions.ks ELSE reaching
            f1(k) == R!Sum(f1s(k))
<1>1. Evaluated /\ searchOptions.stored = Count /\ report = Decision
  BY DEF SearchInv, R!TypeOK, AskingIsInOrder, Evaluated
<1>2. DOMAIN samples = 1..Len(samples)
  BY <1>1 DEF Evaluated
<1>3. ASSUME NEW k \in searchOptions.ks
      PROVE  R!Sum(recalls(k)) = R!SumOfRecalls(k) /\ f1(k) = R!SumOfF1s(k)
  <2>1. ASSUME NEW q \in DOMAIN samples
        PROVE  R!ServedRecall(q, k) = R!Recall(q, k) /\ R!ServedF1(q, k) = R!F1(q, k)
    <3>1. R!Prefix(responses[q], k) = R!Served(q, k)
      BY <1>1, <1>2, PrefixIsServed
    <3> QED  BY <3>1 DEF R!ServedRecall, R!Recall, R!ServedF1, R!F1, R!Matched
  <2>2. recalls(k) = [q \in DOMAIN samples |-> R!Recall(q, k)] /\ f1s(k) = [q \in DOMAIN samples |-> R!F1(q, k)]
    BY <2>1
  <2>. HIDE DEF recalls, f1s
  <2> QED  BY <2>2 DEF R!SumOfRecalls, R!SumOfF1s
<1>. HIDE DEF recalls, f1
<1>4. reaching = Reaching
  BY <1>3 DEF Reaching, R!ReachesTarget
<1>. HIDE DEF reaching
<1>5. among = Among
  BY <1>4 DEF Among
<1>. HIDE DEF among
<1>6. /\ Among \subseteq searchOptions.ks /\ report.k \in Among
      /\ \A j \in Among \ {report.k} : R!Better(report.k, j)
  BY <1>1, DecisionIs
<1>7. report.targetMet = (reaching # {})
  BY <1>1, <1>4 DEF Decision
<1>8. searchOptions.ks \subseteq Nat
  BY <1>1, OptionsAre DEF Evaluated
<1>9. ASSUME NEW k \in among
      PROVE  f1(k) < f1(report.k) \/ (f1(k) = f1(report.k) /\ k >= report.k)
  <2>1. k \in searchOptions.ks /\ report.k \in searchOptions.ks /\ k \in Among
    BY <1>5, <1>6
  <2>2. f1(k) = R!SumOfF1s(k) /\ f1(report.k) = R!SumOfF1s(report.k)
    BY <1>3, <2>1
  <2>3. k \in Nat /\ report.k \in Nat
    BY <1>8, <2>1
  <2>4. R!SumOfF1s(k) \in Nat /\ R!SumOfF1s(report.k) \in Nat
    BY <1>1, <2>3, FiguresAreNumbers
  <2>5. CASE k = report.k
    BY <2>2, <2>3, <2>4, <2>5
  <2>6. CASE k # report.k
    <3>1. R!Better(report.k, k)
      BY <1>6, <2>1, <2>6
    <3> QED  BY <2>2, <2>3, <2>4, <3>1 DEF R!Better
  <2> QED  BY <2>5, <2>6
<1>10. report.k \in among
  BY <1>5, <1>6
<1> QED  BY <1>7, <1>9, <1>10 DEF R!RecommendedIsBest, recalls, f1, reaching, among

\* The invariant holds of every search and every evaluation.
LEMMA SearchHolds == R!Spec => []SearchInv
BY SearchStarts, SearchSteps, PTL DEF R!Spec

\* Every variable of the embedding, the search and the evaluation keeps its type.
THEOREM SearchTyped == R!Spec => []R!TypeOK
<1>1. SearchInv => R!TypeOK
  BY DEF SearchInv
<1> QED  BY <1>1, SearchHolds, PTL

\* Each text of a file that is not blank gets its own vector, and the hits of an
\* answer are ranked by their scores (embed_chunks, search).
THEOREM SearchAnswers == R!Spec => []R!AnswersAreTrue
<1>1. SearchInv => R!AnswersAreTrue
  BY InOrderBelongs, InOrderRanks DEF R!AnswersAreTrue
<1> QED  BY <1>1, SearchHolds, PTL

\* The K an evaluation recommends is the best for the searches that will be made
\* with it (evaluate, _select_top_k).
THEOREM SearchRecommends == R!Spec => []R!RecommendedIsBest
<1>1. SearchInv => R!RecommendedIsBest
  BY InOrderRecommends
<1> QED  BY <1>1, SearchHolds, PTL

-----------------------------------------------------------------------------
(* What the page shows of a run.                                           *)

\* applyRunMessageEvent appends the items of an entry one after the other.
LEMMA ItemsInOrder ==
  ASSUME NEW shown, NEW items, NEW n \in Nat, DOMAIN items = 1..n
  PROVE  \E f : /\ f[0] = shown
                /\ \A i \in 1..n : f[i] = L!AppendAiText(f[i - 1], items[i])
                /\ f[n] = L!FoldLeft(L!AppendAiText, shown, items)
<1>. DEFINE V == 1..n
            one(s) == L!Max(s)
            F(it, s) == IF s = {} THEN shown ELSE L!AppendAiText(it[s \ {one(s)}], items[one(s)])
            iter == CHOOSE it : it = [s \in SUBSET V |-> F(it, s)]
            Small(m) == {s \in SUBSET V : Cardinality(s) <= m}
            Folds(f, m) == \A s \in Small(m) : f[s] = F(f, s)
            N == {m \in Nat : \E f : Folds(f, m)}
<1>1. L!FoldLeft(L!AppendAiText, shown, items) = iter[V]
  BY DEF L!FoldLeft, L!MapThenFoldSet
<1>2. \A s \in SUBSET V : IsFiniteSet(s) /\ Cardinality(s) \in Nat /\ (Cardinality(s) = 0 <=> s = {})
  BY Interval, FS_Subset, FS_CardinalityType, FS_EmptySet
<1>3. ASSUME NEW s \in SUBSET V, s # {}
      PROVE  one(s) \in s /\ \A x \in s : one(s) >= x
  <2>1. s \in SUBSET Int /\ IsFiniteSet(s)
    BY <1>2
  <2>2. \E m \in s : \A x \in s : x <= m
    BY <1>3, <2>1, Greatest
  <2>3. \E m \in s : \A x \in s : m >= x
    BY <2>1, <2>2
  <2> QED  BY <2>3 DEF L!Max
<1>4. \A s \in SUBSET V : s # {} => Cardinality(s \ {one(s)}) = Cardinality(s) - 1
  BY <1>2, <1>3, FS_RemoveElement
<1>5. ASSUME NEW i \in V
      PROVE  one(1..i) = i /\ (1..i) \ {i} = 1..(i - 1) /\ 1..i \in SUBSET V /\ 1..i # {}
  <2>0. i \in Nat /\ i >= 1 /\ i <= n
    OBVIOUS
  <2>1. 1..i \in SUBSET V
    BY <2>0
  <2>2. 1..i # {} /\ i \in 1..i
    BY <2>0
  <2>3. (1..i) \ {i} = 1..(i - 1)
    BY <2>0
  <2>4. one(1..i) \in 1..i /\ one(1..i) >= i
    <3>. DEFINE s == 1..i
    <3>1. s \in SUBSET V /\ s # {} /\ i \in s
      BY <2>1, <2>2
    <3>. HIDE DEF s, one, V
    <3>2. one(s) \in s /\ one(s) >= i
      BY <1>3, <3>1
    <3> QED  BY <3>2 DEF s
  <2>5. one(1..i) = i
    <3>. HIDE DEF one
    <3> QED  BY <2>0, <2>4
  <2> QED  BY <2>1, <2>2, <2>3, <2>5
<1>. HIDE DEF one
<1>6. 0 \in N
  <2>. DEFINE f == [s \in Small(0) |-> shown]
  <2>1. \A s \in Small(0) : s = {}
    BY <1>2
  <2>. HIDE DEF Small
  <2>2. Folds(f, 0)
    BY <2>1
  <2>. HIDE DEF f, Folds
  <2> QED  BY <2>2
<1>7. ASSUME NEW m \in N
      PROVE  m + 1 \in N
  <2>1. m \in Nat /\ m + 1 \in Nat
    OBVIOUS
  <2>2. PICK f : Folds(f, m)
    OBVIOUS
  <2>. DEFINE g == [s \in Small(m + 1) |-> F(f, s)]
  <2>3. \A s \in Small(m + 1) : s \in SUBSET V /\ (s # {} => s \ {one(s)} \in Small(m))
    <3>1. ASSUME NEW s \in SUBSET V, Cardinality(s) <= m + 1, s # {}
          PROVE  s \ {one(s)} \in SUBSET V /\ Cardinality(s \ {one(s)}) <= m
      <4>1. s \ {one(s)} \in SUBSET V
        OBVIOUS
      <4>2. Cardinality(s \ {one(s)}) = Cardinality(s) - 1 /\ Cardinality(s) \in Nat
        BY <1>2, <1>4, <3>1
      <4> QED  BY <2>1, <3>1, <4>1, <4>2
    <3> QED  BY <3>1
  <2>4. \A s \in Small(m) : s \in Small(m + 1)
    BY <1>2, <2>1
  <2>. HIDE DEF Small
  <2>7. \A s \in Small(m) : g[s] = f[s]
    BY <2>2, <2>4
  <2>8. \A s \in Small(m + 1) : g[s] = F(f, s)
    OBVIOUS
  <2>. HIDE DEF g
  <2>9. Folds(g, m + 1)
    BY <2>3, <2>7, <2>8
  <2>. HIDE DEF Folds
  <2> QED  BY <2>1, <2>9
<1>8. N = Nat
  <2>1. N \in SUBSET Nat
    OBVIOUS
  <2>. HIDE DEF N
  <2> QED  BY <1>6, <1>7, <2>1, NatSetInduction
<1>9. Cardinality(V) \in Nat /\ Small(Cardinality(V)) = SUBSET V
  <2>1. \A s \in SUBSET V : Cardinality(s) <= Cardinality(V)
    BY Interval, FS_Subset
  <2> QED  BY <1>2, <2>1
<1>10. \E g : g = [s \in SUBSET V |-> F(g, s)]
  <2>1. Cardinality(V) \in N
    BY <1>8, <1>9
  <2>2. PICK f : Folds(f, Cardinality(V))
    BY <2>1
  <2>. DEFINE g == [s \in SUBSET V |-> F(f, s)]
  <2>3. \A s \in SUBSET V : f[s] = F(f, s)
    <3>. HIDE DEF Small, F
    <3> QED  BY <1>9, <2>2
  <2>4. \A s \in SUBSET V : g[s] = f[s]
    BY <2>3
  <2>5. \A s \in SUBSET V : F(g, s) = F(f, s)
    <3>. HIDE DEF g
    <3> QED  BY <2>4
  <2>6. g = [s \in SUBSET V |-> F(g, s)]
    <3>. HIDE DEF F
    <3> QED  BY <2>5
  <2> QED  BY <2>6
<1>11. iter = [s \in SUBSET V |-> F(iter, s)]
  <2>. HIDE DEF F
  <2> QED  BY <1>10
<1>. HIDE DEF iter
<1>12. \A s \in SUBSET V : iter[s] = F(iter, s)
  <2>. HIDE DEF F
  <2> QED  BY <1>11
<1>. DEFINE h == [i \in 0..n |-> iter[1..i]]
<1>13. h[0] = shown
  <2>1. h[0] = iter[1..0] /\ 1..0 = {}
    OBVIOUS
  <2>2. {} \in SUBSET V
    OBVIOUS
  <2>3. iter[{}] = shown
    BY <1>12, <2>2
  <2> QED  BY <2>1, <2>3
<1>14. ASSUME NEW i \in 1..n
       PROVE  h[i] = L!AppendAiText(h[i - 1], items[i])
  <2>1. h[i] = iter[1..i] /\ h[i - 1] = iter[1..(i - 1)]
    OBVIOUS
  <2>. DEFINE s == 1..i
  <2>2. s \in SUBSET V /\ s # {} /\ one(s) = i /\ s \ {i} = 1..(i - 1)
    BY <1>5
  <2>. HIDE DEF h, s, V
  <2>3. iter[s] = L!AppendAiText(iter[s \ {i}], items[i])
    BY <1>12, <2>2
  <2> QED  BY <2>1, <2>2, <2>3 DEF s
<1>15. h[n] = iter[V]
  OBVIOUS
<1>. HIDE DEF h, iter
<1> QED  BY <1>1, <1>13, <1>14, <1>15 DEF iter

\* Counting is the same in the instance.
LEMMA SameSize == ASSUME NEW S PROVE L!Cardinality(S) = Cardinality(S)
BY DEF Cardinality, L!Cardinality

\* The order of a set of numbers is the same in the instance.
LEMMA InOrderIsUpwards == ASSUME NEW S PROVE L!InOrder(S) = Upwards(S)
<1>. DEFINE m == Cardinality(S)
<1>1. L!Cardinality(S) = m
  BY SameSize
<1>. HIDE DEF m
<1>2. L!InOrder(S) = CHOOSE f \in [1..m -> S] : \A i, j \in DOMAIN f : i < j => f[i] < f[j]
  BY <1>1 DEF L!InOrder
<1> QED  BY <1>2 DEF Upwards, m

\* What enumerates a set of numbers upwards is its order.
LEMMA IsInOrder ==
  ASSUME NEW S \in SUBSET Nat, NEW m \in Nat, NEW s \in [1..m -> S],
         \A i, j \in 1..m : i < j => s[i] < s[j],
         \A x \in S : \E i \in 1..m : s[i] = x
  PROVE  IsFiniteSet(S) /\ Cardinality(S) = m /\ L!InOrder(S) = s
BY IsUpwards, InOrderIsUpwards

\* A finite set of numbers has an order.
LEMMA HasOrder ==
  ASSUME NEW S \in SUBSET Nat, IsFiniteSet(S)
  PROVE  LET o == L!InOrder(S)
             m == Cardinality(S)
         IN /\ m \in Nat /\ o \in [1..m -> S]
            /\ \A i, j \in 1..m : i < j => o[i] < o[j]
            /\ \A x \in S : \E i \in 1..m : o[i] = x
BY HasUpwards, InOrderIsUpwards

\* As many of the set as its place are up to an element.
LEMMA PlaceInOrder ==
  ASSUME NEW S \in SUBSET Nat, IsFiniteSet(S), NEW k \in 1..Cardinality(S)
  PROVE  /\ L!InOrder(S)[k] \in S
         /\ Cardinality({x \in S : x <= L!InOrder(S)[k]}) = k
<1>. DEFINE m == Cardinality(S)
            o == L!InOrder(S)
            T == {x \in S : x <= o[k]}
            t == [i \in 1..k |-> o[i]]
<1>1. /\ m \in Nat /\ o \in [1..m -> S]
      /\ \A i, j \in 1..m : i < j => o[i] < o[j]
      /\ \A x \in S : \E i \in 1..m : o[i] = x
  BY HasOrder
<1>. HIDE DEF m, o
<1>2. k \in Nat /\ k \in 1..m /\ k <= m
  BY <1>1 DEF m
<1>3. \A i \in 1..k : i \in 1..m /\ o[i] \in S /\ o[i] \in Nat
  <2>1. ASSUME NEW i \in 1..k
        PROVE  i \in 1..m /\ o[i] \in S /\ o[i] \in Nat
    <3>1. i \in 1..m
      BY <1>1, <1>2
    <3>2. o[i] \in S
      BY <1>1, <3>1
    <3> QED  BY <3>1, <3>2
  <2> QED  BY <2>1
<1>4. \A i \in 1..k : o[i] <= o[k]
  <2>1. ASSUME NEW i \in 1..k
        PROVE  o[i] <= o[k]
    <3>1. i \in 1..m /\ i \in Nat /\ (i < k \/ i = k) /\ o[i] \in Nat /\ o[k] \in Nat
      BY <1>2, <1>3
    <3>2. i < k => o[i] < o[k]
      BY <1>1, <1>2, <3>1
    <3> QED  BY <3>1, <3>2
  <2> QED  BY <2>1
<1>5. t \in [1..k -> T]
  BY <1>3, <1>4
<1>6. \A i, j \in 1..k : i < j => t[i] < t[j]
  BY <1>1, <1>3
<1>7. ASSUME NEW x \in T
      PROVE  \E i \in 1..k : t[i] = x
  <2>1. PICK i \in 1..m : o[i] = x
    BY <1>1
  <2>2. i \in Nat /\ o[i] \in Nat /\ o[k] \in Nat /\ o[i] <= o[k]
    BY <1>2, <1>3, <2>1, <1>1
  <2>3. ~(k < i)
    BY <1>1, <1>2, <2>1, <2>2
  <2>4. i \in 1..k
    BY <1>2, <2>2, <2>3
  <2> QED  BY <2>1, <2>4
<1>8. T \in SUBSET Nat
  OBVIOUS
<1>. HIDE DEF T, t
<1>9. Cardinality(T) = k
  BY <1>2, <1>5, <1>6, <1>7, <1>8, IsInOrder
<1>10. o[k] \in S
  BY <1>1, <1>2
<1> QED  BY <1>9, <1>10 DEF T, o

\* The name that a message gets.
Name(m) == IF IdOf[m] # NoId THEN IdOf[m] ELSE CallOf[m]

\* What the agent says: a delta of a message, or a state.
Said == L!Delta \cup {L!Told(s) : s \in Todos}

\* The places at which m speaks among the first n.
Of(told, m, n) == {i \in 1..n : told[i].of = m}

\* The deltas of a message are numbered.
Texts(m, c) == [j \in 1..c |-> [of |-> m, n |-> j]]

IsSaid(told, i) ==
  \/ /\ told[i].of \in Streamed
     /\ told[i] = [of |-> told[i].of, n |-> Cardinality(Of(told, told[i].of, i))]
  \/ told[i].of \in Todos /\ told[i] = L!Told(told[i].of)

InOrderSaid(told) == told \in Seq(Said) /\ \A i \in 1..Len(told) : IsSaid(told, i)

\* What the page starts a card for.
Begins(told, n) ==
  {i \in 1..n : told[i].of \in Todos \/ \A j \in 1..(i - 1) : told[j].of # told[i].of}

Ids == Nat \cup {Name(m) : m \in Streamed} \cup {"answer", "question 1", "question 2"}

CardType == [kind : {"human", "text", "tool"}, id : Ids, content : Seq(Said), streaming : BOOLEAN]

\* A card for what began at place p, when n things have been told by entries before b.
IsCard(told, card, p, n, b) ==
  \/ /\ told[p].of \in Todos
     /\ \E e \in Nat : e < b /\ card = L!Card("tool", e, <<told[p]>>, FALSE)
  \/ /\ told[p].of \in Streamed
     /\ card = L!Card("text", Name(told[p].of),
                      Texts(told[p].of, Cardinality(Of(told, told[p].of, n))), TRUE)

\* The cards behind those that were there before, and what they are for.
Shown(told, shown, n, b, s) ==
  /\ s \in [1..(Len(shown) - 3) -> Begins(told, n)]
  /\ \A i, j \in 1..(Len(shown) - 3) : i < j => s[i] < s[j]
  /\ \A x \in Begins(told, n) : \E i \in 1..(Len(shown) - 3) : s[i] = x
  /\ \A k \in 1..(Len(shown) - 3) : IsCard(told, shown[k + 3], s[k], n, b)

Shows(told, shown, n, b) ==
  /\ shown \in Seq(CardType) /\ Len(shown) >= 3
  /\ \A i \in 1..3 : shown[i] = L!Earlier[i]
  /\ \E s : Shown(told, shown, n, b, s)

\* No message is a state.
LEMMA Apart == \A x : ~(x \in Streamed /\ x \in Todos)
BY LiveParameters

\* What is said up to a place.
LEMMA SaidIs ==
  ASSUME NEW told, InOrderSaid(told), NEW n \in 0..Len(told)
  PROVE  /\ n \in Nat /\ Len(told) \in Nat
         /\ \A i \in 1..n : i \in 1..Len(told) /\ i \in Nat /\ told[i] \in Said
         /\ \A m : IsFiniteSet(Of(told, m, n)) /\ Of(told, m, n) \in SUBSET Nat /\ Cardinality(Of(told, m, n)) \in Nat
         /\ IsFiniteSet(Begins(told, n)) /\ Begins(told, n) \in SUBSET Nat
<1>1. n \in Nat /\ Len(told) \in Nat /\ n <= Len(told)
  BY DEF InOrderSaid
<1>2. \A i \in 1..n : i \in 1..Len(told) /\ i \in Nat /\ told[i] \in Said
  BY <1>1 DEF InOrderSaid
<1>3. IsFiniteSet(1..n)
  BY <1>1, Interval
<1>4. ASSUME NEW S, S \subseteq 1..n
      PROVE  IsFiniteSet(S) /\ S \in SUBSET Nat /\ Cardinality(S) \in Nat
  <2>1. IsFiniteSet(S)
    BY <1>3, <1>4, FS_Subset
  <2>2. Cardinality(S) \in Nat
    BY <2>1, FS_CardinalityType
  <2>3. S \in SUBSET Nat
    BY <1>1, <1>4
  <2> QED  BY <2>1, <2>2, <2>3
<1>5. Begins(told, n) \subseteq 1..n /\ \A m : Of(told, m, n) \subseteq 1..n
  BY DEF Begins, Of
<1> QED  BY <1>1, <1>2, <1>4, <1>5

\* What a prefix says.
LEMMA PrefixIs ==
  ASSUME NEW told, InOrderSaid(told), NEW n \in 0..Len(told)
  PROVE  LET said == SubSeq(told, 1, n)
         IN Len(said) = n /\ DOMAIN said = 1..n /\ \A i \in 1..n : said[i] = told[i]
<1>1. n \in Nat /\ told \in Seq(Said) /\ Len(told) \in Nat /\ n <= Len(told)
  BY DEF InOrderSaid
<1> QED  BY <1>1

\* What a message has said, in the order of the stream, is in the order of its deltas.
LEMMA TextDue ==
  ASSUME NEW told, InOrderSaid(told), NEW n \in 0..Len(told), NEW m \in Streamed
  PROVE  L!At(SubSeq(told, 1, n), Of(told, m, n)) = Texts(m, Cardinality(Of(told, m, n)))
<1>. DEFINE S == Of(told, m, n)
            c == Cardinality(S)
            o == L!InOrder(S)
            said == SubSeq(told, 1, n)
<1>1. L!At(said, S) = [k \in 1..c |-> said[o[k]]]
  BY SameSize DEF L!At
<1>2. /\ n \in Nat /\ Len(told) \in Nat
      /\ \A i \in 1..n : i \in 1..Len(told) /\ i \in Nat
      /\ IsFiniteSet(S) /\ S \in SUBSET Nat /\ c \in Nat
  BY SaidIs
<1>3. \A i \in 1..n : said[i] = told[i]
  BY PrefixIs
<1>4. S \subseteq 1..n /\ \A i \in S : told[i].of = m
  BY DEF Of
<1>. HIDE DEF o, said
<1>5. ASSUME NEW k \in 1..c
      PROVE  said[o[k]] = [of |-> m, n |-> k]
  <2>1. o[k] \in S /\ Cardinality({x \in S : x <= o[k]}) = k
    <3>. HIDE DEF S
    <3> QED  BY <1>2, PlaceInOrder DEF o
  <2>. DEFINE p == o[k]
  <2>2. p \in 1..n /\ p \in 1..Len(told) /\ told[p].of = m /\ said[p] = told[p] /\ p <= n /\ p \in Nat
    BY <1>2, <1>3, <1>4, <2>1
  <2>. HIDE DEF p
  <2>3. {x \in S : x <= p} = Of(told, m, p)
    BY <1>2, <2>2 DEF Of
  <2>4. IsSaid(told, p) /\ ~(m \in Todos)
    BY <2>2, Apart DEF InOrderSaid
  <2>5. told[p] = [of |-> m, n |-> Cardinality(Of(told, m, p))]
    BY <2>2, <2>4 DEF IsSaid
  <2> QED  BY <2>1, <2>2, <2>3, <2>5 DEF p
<1>. HIDE DEF S, c
<1>6. [k \in 1..c |-> said[o[k]]] = [k \in 1..c |-> [of |-> m, n |-> k]]
  BY <1>5
<1> QED  BY <1>1, <1>6 DEF Texts, S, c, said

\* The page has the cards that are due.
LEMMA DueIs ==
  ASSUME NEW told, InOrderSaid(told), NEW n \in 0..Len(told), NEW b, NEW shown, NEW s,
         Len(shown) \in Nat, Len(shown) >= 3, Shown(told, shown, n, b, s)
  PROVE  L!Due(SubSeq(told, 1, n)) = [k \in 1..(Len(shown) - 3) |-> shown[k + 3].content]
<1>. DEFINE said == SubSeq(told, 1, n)
            m == Len(shown) - 3
            S == Begins(told, n)
            due(k) == IF said[s[k]].of \in Todos THEN <<said[s[k]]>>
                      ELSE L!At(said, {i \in DOMAIN said : said[i].of = said[s[k]].of})
<1>1. /\ n \in Nat /\ IsFiniteSet(S) /\ S \in SUBSET Nat
  BY SaidIs
<1>2. DOMAIN said = 1..n /\ \A i \in 1..n : said[i] = told[i]
  BY PrefixIs
<1>3. /\ m \in Nat /\ s \in [1..m -> S]
      /\ \A i, j \in 1..m : i < j => s[i] < s[j]
      /\ \A x \in S : \E i \in 1..m : s[i] = x
      /\ \A k \in 1..m : IsCard(told, shown[k + 3], s[k], n, b)
  BY DEF Shown
<1>. HIDE DEF said, m
<1>4. L!Beginnings(said) = S
  <2>1. \A i \in 1..n : \A j \in 1..(i - 1) : j \in 1..n
    BY <1>1
  <2>2. \A i \in 1..n : said[i].of = told[i].of
    BY <1>2
  <2> QED  BY <1>2, <2>1, <2>2 DEF L!Beginnings, Begins
<1>. HIDE DEF S
<1>5. L!InOrder(S) = s
  BY <1>1, <1>3, IsInOrder
<1>6. L!Due(said) = [k \in 1..m |-> due(k)]
  BY <1>3, <1>4, <1>5 DEF L!Due
<1>7. ASSUME NEW k \in 1..m
      PROVE  due(k) = shown[k + 3].content
  <2>. DEFINE p == s[k]
              who == told[p].of
  <2>1. p \in 1..n /\ said[p] = told[p] /\ IsCard(told, shown[k + 3], p, n, b)
    BY <1>2, <1>3 DEF S, Begins
  <2>2. CASE who \in Todos
    <3>1. PICK e \in Nat : shown[k + 3] = L!Card("tool", e, <<told[p]>>, FALSE)
      BY <2>1, <2>2, Apart DEF IsCard
    <3>2. shown[k + 3].content = <<told[p]>>
      BY <3>1 DEF L!Card
    <3> QED  BY <2>1, <2>2, <3>2
  <2>3. CASE who \in Streamed
    <3>1. shown[k + 3] = L!Card("text", Name(who), Texts(who, Cardinality(Of(told, who, n))), TRUE)
      BY <2>1, <2>3, Apart DEF IsCard
    <3>2. shown[k + 3].content = Texts(who, Cardinality(Of(told, who, n)))
      BY <3>1 DEF L!Card
    <3>3. {i \in DOMAIN said : said[i].of = who} = Of(told, who, n)
      BY <1>2 DEF Of
    <3>4. L!At(said, Of(told, who, n)) = Texts(who, Cardinality(Of(told, who, n)))
      <4>. HIDE DEF who
      <4> QED  BY <2>3, TextDue DEF said
    <3>5. due(k) = L!At(said, {i \in DOMAIN said : said[i].of = who})
      BY <2>1, <2>3, Apart
    <3> QED  BY <3>2, <3>3, <3>4, <3>5
  <2>4. who \in Todos \/ who \in Streamed
    BY <2>1 DEF IsCard
  <2> QED  BY <2>2, <2>3, <2>4
<1>. HIDE DEF due
<1>8. [k \in 1..m |-> due(k)] = [k \in 1..m |-> shown[k + 3].content]
  BY <1>7
<1> QED  BY <1>6, <1>8 DEF said, m

\* The cards that were there before.
LEMMA EarlierIs ==
  /\ Len(L!Earlier) = 3 /\ DOMAIN L!Earlier = 1..3 /\ L!Earlier \in Seq(CardType)
  /\ \A i \in 1..3 : /\ L!Earlier[i].kind # "tool" /\ L!Earlier[i].streaming = FALSE
                     /\ L!Earlier[i].kind = "text" => L!Earlier[i].id = "answer"
<1>. DEFINE a == L!Card("human", "question 1", << >>, FALSE)
            b == L!Card("text", "answer", << >>, FALSE)
            c == L!Card("human", "question 2", << >>, FALSE)
<1>1. L!Earlier = <<a, b, c>>
  BY DEF L!Earlier
<1>2. << >> \in Seq(Said) /\ "answer" \in Ids /\ "question 1" \in Ids /\ "question 2" \in Ids
  BY DEF Ids
<1>3. a \in CardType /\ b \in CardType /\ c \in CardType
  BY <1>2 DEF CardType, L!Card
<1>4. /\ a.kind # "tool" /\ a.streaming = FALSE /\ a.kind # "text"
      /\ b.kind # "tool" /\ b.streaming = FALSE /\ b.id = "answer"
      /\ c.kind # "tool" /\ c.streaming = FALSE /\ c.kind # "text"
  BY DEF L!Card
<1>. HIDE DEF a, b, c
<1>5. Len(<<a, b, c>>) = 3 /\ DOMAIN <<a, b, c>> = 1..3 /\ <<a, b, c>> \in Seq(CardType)
  BY <1>3
<1>6. ASSUME NEW i \in 1..3
      PROVE  <<a, b, c>>[i] \in {a, b, c} /\ (i = 1 => <<a, b, c>>[i] = a)
             /\ (i = 2 => <<a, b, c>>[i] = b) /\ (i = 3 => <<a, b, c>>[i] = c)
  <2>1. i = 1 \/ i = 2 \/ i = 3
    OBVIOUS
  <2> QED  BY <2>1
<1> QED  BY <1>1, <1>4, <1>5, <1>6

\* A card is a tool's or a text that streams.
LEMMA CardKinds ==
  ASSUME NEW told, NEW card, NEW p, NEW n, NEW b, IsCard(told, card, p, n, b)
  PROVE  card.kind # "human" /\ (card.kind = "tool" \/ card.streaming)
<1>1. CASE \E e \in Nat : card = L!Card("tool", e, <<told[p]>>, FALSE)
  <2>1. PICK e \in Nat : card = L!Card("tool", e, <<told[p]>>, FALSE)
    BY <1>1
  <2>2. card.kind = "tool"
    BY <2>1 DEF L!Card
  <2> QED  BY <2>2
<1>2. CASE card = L!Card("text", Name(told[p].of),
                         Texts(told[p].of, Cardinality(Of(told, told[p].of, n))), TRUE)
  <2>1. card.kind = "text"
    BY <1>2 DEF L!Card
  <2>2. card.streaming = TRUE
    BY <1>2 DEF L!Card
  <2> QED  BY <2>1, <2>2
<1> QED  BY <1>1, <1>2 DEF IsCard

\* Behind them, there are the cards of the run only.
LEMMA CardsAre ==
  ASSUME NEW told, NEW shown, NEW n, NEW b, Shows(told, shown, n, b)
  PROVE  /\ Len(shown) \in Nat /\ Len(shown) >= 3 /\ DOMAIN shown = 1..Len(shown)
         /\ shown \in Seq(CardType)
         /\ \A i \in 1..3 : shown[i] = L!Earlier[i]
         /\ \A i \in 4..Len(shown) : shown[i].kind = "tool" \/ shown[i].streaming
<1>1. /\ Len(shown) \in Nat /\ Len(shown) >= 3 /\ DOMAIN shown = 1..Len(shown)
      /\ shown \in Seq(CardType) /\ \A i \in 1..3 : shown[i] = L!Earlier[i]
  BY DEF Shows
<1>2. PICK s : Shown(told, shown, n, b, s)
  BY DEF Shows
<1>3. ASSUME NEW i \in 4..Len(shown)
      PROVE  shown[i].kind = "tool" \/ shown[i].streaming
  <2>1. i - 3 \in 1..(Len(shown) - 3) /\ (i - 3) + 3 = i
    BY <1>1
  <2>2. IsCard(told, shown[(i - 3) + 3], s[i - 3], n, b)
    BY <1>2, <2>1 DEF Shown
  <2>3. IsCard(told, shown[i], s[i - 3], n, b)
    BY <2>1, <2>2
  <2> QED  BY <2>3, CardKinds
<1> QED  BY <1>1, <1>3

\* clearRunStreamMessages leaves what was there before.
LEMMA ClearedIs ==
  ASSUME NEW told, NEW n, NEW b, Shows(told, cards, n, b)
  PROVE  L!Cleared = L!Earlier
<1>. DEFINE kept == {i \in DOMAIN cards :
                       cards[i].kind = "human" \/ ~(cards[i].kind = "tool" \/ cards[i].streaming)}
            s == [i \in 1..3 |-> i]
<1>1. /\ Len(cards) \in Nat /\ Len(cards) >= 3 /\ DOMAIN cards = 1..Len(cards)
      /\ \A i \in 1..3 : cards[i] = L!Earlier[i]
      /\ \A i \in 4..Len(cards) : cards[i].kind = "tool" \/ cards[i].streaming
  BY CardsAre
<1>2. \A i \in 4..Len(cards) : cards[i].kind # "human"
  <2>1. PICK f : Shown(told, cards, n, b, f)
    BY DEF Shows
  <2>2. ASSUME NEW i \in 4..Len(cards)
        PROVE  cards[i].kind # "human"
    <3>1. i - 3 \in 1..(Len(cards) - 3) /\ (i - 3) + 3 = i
      BY <1>1
    <3>2. IsCard(told, cards[(i - 3) + 3], f[i - 3], n, b)
      BY <2>1, <3>1 DEF Shown
    <3>3. IsCard(told, cards[i], f[i - 3], n, b)
      BY <3>1, <3>2
    <3> QED  BY <3>3, CardKinds
  <2> QED  BY <2>2
<1>3. kept = 1..3
  <2>1. \A i \in 1..3 : i \in kept
    BY <1>1, EarlierIs
  <2>2. ASSUME NEW i \in kept
        PROVE  i \in 1..3
    <3>1. i \in 1..Len(cards) /\ (i \in 1..3 \/ i \in 4..Len(cards))
      BY <1>1
    <3> QED  BY <1>1, <1>2, <3>1
  <2> QED  BY <2>1, <2>2
<1>4. Cardinality(1..3) = 3 /\ L!InOrder(1..3) = s
  <2>1. 1..3 \in SUBSET Nat /\ 3 \in Nat /\ s \in [1..3 -> 1..3] /\ \A i \in 1..3 : s[i] = i
    OBVIOUS
  <2>2. \A i, j \in 1..3 : i < j => s[i] < s[j]
    BY <2>1
  <2>3. \A x \in 1..3 : \E i \in 1..3 : s[i] = x
    BY <2>1
  <2>. DEFINE T == 1..3
              three == 3
  <2>4. T \in SUBSET Nat /\ three \in Nat /\ s \in [1..three -> T]
        /\ (\A i, j \in 1..three : i < j => s[i] < s[j])
        /\ \A x \in T : \E i \in 1..three : s[i] = x
    BY <2>1, <2>2, <2>3
  <2>. HIDE DEF T, three, s
  <2>5. Cardinality(T) = three /\ L!InOrder(T) = s
    BY <2>4, IsInOrder
  <2> QED  BY <2>5 DEF T, three
<1>5. L!Cleared = L!At(cards, kept)
  BY DEF L!Cleared
<1>6. L!At(cards, 1..3) = [k \in 1..3 |-> cards[s[k]]]
  BY <1>4, SameSize DEF L!At
<1>7. \A k \in 1..3 : cards[s[k]] = L!Earlier[k]
  BY <1>1
<1>. HIDE DEF kept, s
<1>8. [k \in 1..3 |-> cards[s[k]]] = [k \in 1..3 |-> L!Earlier[k]]
  BY <1>7
<1>9. L!Earlier = [k \in 1..3 |-> L!Earlier[k]]
  BY EarlierIs
<1> QED  BY <1>3, <1>5, <1>6, <1>8, <1>9

\* What the page shows of this run.
LEMMA OfThisRunIs ==
  ASSUME NEW told, NEW n, NEW b, Shows(told, cards, n, b)
  PROVE  [i \in DOMAIN L!OfThisRun |-> L!OfThisRun[i].content]
           = [k \in 1..(Len(cards) - 3) |-> cards[k + 3].content]
<1>. DEFINE m == Len(cards) - 3
            mine == {i \in DOMAIN cards : cards[i].kind = "tool" \/ cards[i].streaming}
            s == [k \in 1..m |-> k + 3]
<1>1. /\ Len(cards) \in Nat /\ Len(cards) >= 3 /\ DOMAIN cards = 1..Len(cards)
      /\ \A i \in 1..3 : cards[i] = L!Earlier[i]
      /\ \A i \in 4..Len(cards) : cards[i].kind = "tool" \/ cards[i].streaming
  BY CardsAre
<1>2. mine = 4..Len(cards)
  <2>1. \A i \in 1..3 : i \notin mine
    BY <1>1, EarlierIs
  <2>2. \A i \in 4..Len(cards) : i \in mine
    BY <1>1
  <2>3. ASSUME NEW i \in mine
        PROVE  i \in 4..Len(cards)
    <3>1. i \in 1..Len(cards) /\ (i \in 1..3 \/ i \in 4..Len(cards))
      BY <1>1
    <3> QED  BY <2>1, <3>1
  <2>. HIDE DEF mine
  <2> QED  BY <2>2, <2>3
<1>3. m \in Nat /\ mine \in SUBSET Nat
  <2>. HIDE DEF mine
  <2> QED  BY <1>1, <1>2
<1>4. s \in [1..m -> mine] /\ \A k \in 1..m : s[k] = k + 3
  <2>1. \A k \in 1..m : k + 3 \in mine
    <3>. HIDE DEF mine
    <3> QED  BY <1>1, <1>2
  <2>. HIDE DEF mine
  <2> QED  BY <2>1
<1>. HIDE DEF s
<1>5. \A i, j \in 1..m : i < j => s[i] < s[j]
  BY <1>3, <1>4
<1>6. \A x \in mine : \E i \in 1..m : s[i] = x
  <2>1. ASSUME NEW x \in mine
        PROVE  \E i \in 1..m : s[i] = x
    <3>1. x \in 4..Len(cards)
      BY <1>2, <2>1
    <3>2. x - 3 \in 1..m /\ (x - 3) + 3 = x
      BY <1>1, <3>1
    <3> QED  BY <1>4, <3>2
  <2> QED  BY <2>1
<1>. HIDE DEF m, mine
<1>7. Cardinality(mine) = m /\ L!InOrder(mine) = s
  BY <1>3, <1>4, <1>5, <1>6, IsInOrder
<1>8. L!OfThisRun = [k \in 1..m |-> cards[s[k]]]
  BY <1>7, SameSize DEF L!OfThisRun, L!At, mine
<1>9. \A k \in 1..m : cards[s[k]] = cards[k + 3]
  BY <1>4
<1>10. L!OfThisRun = [k \in 1..m |-> cards[k + 3]]
  BY <1>8, <1>9
<1> QED  BY <1>10 DEF m

\* A page that was cleared shows nothing of the run.
LEMMA StartsShowing ==
  ASSUME NEW told, NEW b
  PROVE  Shows(told, L!Earlier, 0, b)
<1>. DEFINE s == [k \in 1..0 |-> 0]
<1>1. Len(L!Earlier) - 3 = 0 /\ Len(L!Earlier) >= 3
  BY EarlierIs
<1>2. Begins(told, 0) = {}
  BY DEF Begins
<1>3. s \in [1..0 -> Begins(told, 0)]
  OBVIOUS
<1>. HIDE DEF s
<1>4. Shown(told, L!Earlier, 0, b, s)
  BY <1>1, <1>2, <1>3 DEF Shown
<1> QED  BY <1>1, <1>4, EarlierIs DEF Shows

\* What was shown stays right when more is said, and when more is read.
LEMMA ShowsStill ==
  ASSUME NEW told, NEW later, NEW shown, NEW n \in Nat, NEW b \in Nat, NEW c \in Nat,
         Shows(told, shown, n, b), \A i \in 1..n : later[i] = told[i], b <= c
  PROVE  Shows(later, shown, n, c)
<1>1. Begins(later, n) = Begins(told, n)
  <2>1. \A i \in 1..n : \A j \in 1..(i - 1) : j \in 1..n
    OBVIOUS
  <2> QED  BY <2>1 DEF Begins
<1>2. \A m : Of(later, m, n) = Of(told, m, n)
  BY DEF Of
<1>3. PICK s : Shown(told, shown, n, b, s)
  BY DEF Shows
<1>4. ASSUME NEW k \in 1..(Len(shown) - 3)
      PROVE  IsCard(later, shown[k + 3], s[k], n, c)
  <2>1. s[k] \in 1..n /\ IsCard(told, shown[k + 3], s[k], n, b)
    BY <1>3 DEF Shown, Begins
  <2>2. later[s[k]] = told[s[k]]
    BY <2>1
  <2>3. \A e \in Nat : e < b => e < c
    OBVIOUS
  <2> QED  BY <1>2, <2>1, <2>2, <2>3 DEF IsCard
<1>5. Shown(later, shown, n, c, s)
  BY <1>1, <1>3, <1>4 DEF Shown
<1> QED  BY <1>5 DEF Shows

\* The names of messages differ from one another and from what was there before.
LEMMA NamesApart ==
  \A m \in Streamed : Name(m) # "answer" /\ \A other \in Streamed : other # m => Name(other) # Name(m)
<1>1. ASSUME NEW m \in Streamed
      PROVE  Name(m) # "answer" /\ \A other \in Streamed : other # m => Name(other) # Name(m)
  <2>1. \A o : Name(o) = IF IdOf[o] = NoId THEN CallOf[o] ELSE IdOf[o]
    BY DEF Name
  <2>2. Name(m) # "answer"
    BY <2>1, LiveParameters
  <2>3. ASSUME NEW other \in Streamed, other # m
        PROVE  Name(other) # Name(m)
    <3>1. other \in Streamed \ {m}
      BY <2>3
    <3>2. (IF IdOf[m] = NoId THEN CallOf[m] ELSE IdOf[m]) # (IF IdOf[other] = NoId THEN CallOf[other] ELSE IdOf[other])
      BY <3>1, LiveParameters
    <3>3. Name(m) # Name(other)
      BY <2>1, <3>2
    <3> QED  BY <3>3
  <2> QED  BY <2>2, <2>3
<1> QED  BY <1>1

\* One more thing is said: who has said more, and what has begun.
LEMMA SaidNext ==
  ASSUME NEW told, InOrderSaid(told), NEW n \in Nat, n + 1 <= Len(told)
  PROVE  LET who == told[n + 1].of
         IN /\ Of(told, who, n + 1) = Of(told, who, n) \cup {n + 1}
            /\ Cardinality(Of(told, who, n + 1)) = Cardinality(Of(told, who, n)) + 1
            /\ \A m : m # who => Of(told, m, n + 1) = Of(told, m, n)
            /\ (who \in Todos \/ Of(told, who, n) = {}) => Begins(told, n + 1) = Begins(told, n) \cup {n + 1}
            /\ ~(who \in Todos \/ Of(told, who, n) = {}) => Begins(told, n + 1) = Begins(told, n)
<1>. DEFINE q == n + 1
            who == told[q].of
<1>1. n \in 0..Len(told) /\ q \in Nat
  BY DEF InOrderSaid
<1>2. \A i : i \in 1..q <=> i \in 1..n \/ i = q
  OBVIOUS
<1>3. q \notin 1..n /\ q - 1 = n
  OBVIOUS
<1>. HIDE DEF q
<1>4. Of(told, who, q) = Of(told, who, n) \cup {q} /\ q \notin Of(told, who, n)
  BY <1>2, <1>3 DEF Of
<1>5. \A m : m # who => Of(told, m, q) = Of(told, m, n)
  BY <1>2 DEF Of
<1>6. IsFiniteSet(Of(told, who, n)) /\ Cardinality(Of(told, who, n)) \in Nat
  BY <1>1, SaidIs
<1>7. Cardinality(Of(told, who, q)) = Cardinality(Of(told, who, n)) + 1
  <2>. DEFINE S == Of(told, who, n)
  <2>1. IsFiniteSet(S) /\ q \notin S
    BY <1>4, <1>6
  <2>. HIDE DEF S
  <2>2. Cardinality(S \cup {q}) = Cardinality(S) + 1
    BY <2>1, FS_AddElement
  <2> QED  BY <1>4, <2>2 DEF S
<1>8. (\A j \in 1..(q - 1) : told[j].of # told[q].of) <=> Of(told, who, n) = {}
  BY <1>3 DEF Of
<1>9. (who \in Todos \/ Of(told, who, n) = {}) => Begins(told, q) = Begins(told, n) \cup {q}
  BY <1>2, <1>8 DEF Begins
<1>10. ~(who \in Todos \/ Of(told, who, n) = {}) => Begins(told, q) = Begins(told, n)
  BY <1>2, <1>8 DEF Begins
<1> QED  BY <1>4, <1>5, <1>7, <1>9, <1>10 DEF q

\* The card of another message is what it was.
LEMMA KeepsCard ==
  ASSUME NEW told, InOrderSaid(told), NEW n \in Nat, n + 1 <= Len(told), NEW b \in Nat, NEW c \in Nat, b <= c,
         NEW card, NEW p, IsCard(told, card, p, n, b), told[p].of = told[n + 1].of => told[p].of \in Todos
  PROVE  IsCard(told, card, p, n + 1, c)
<1>1. \A e \in Nat : e < b => e < c
  OBVIOUS
<1>2. CASE told[p].of \in Todos
  <2>1. ~(told[p].of \in Streamed)
    BY <1>2, Apart
  <2> QED  BY <1>1, <1>2, <2>1 DEF IsCard
<1>3. CASE ~(told[p].of \in Todos)
  <2>1. Of(told, told[p].of, n + 1) = Of(told, told[p].of, n)
    BY <1>3, SaidNext
  <2> QED  BY <1>3, <2>1 DEF IsCard
<1> QED  BY <1>2, <1>3

\* A card behind the others, for what begins.
LEMMA AppendsCard ==
  ASSUME NEW told, NEW shown, NEW n \in Nat, NEW b, NEW c, NEW s, NEW card \in CardType,
         shown \in Seq(CardType), Len(shown) >= 3, \A i \in 1..3 : shown[i] = L!Earlier[i],
         Shown(told, shown, n, b, s), Begins(told, n + 1) = Begins(told, n) \cup {n + 1},
         \A k \in 1..(Len(shown) - 3) : IsCard(told, shown[k + 3], s[k], n + 1, c),
         IsCard(told, card, n + 1, n + 1, c)
  PROVE  Shows(told, Append(shown, card), n + 1, c)
<1>. DEFINE m == Len(shown) - 3
            all == Append(shown, card)
            q == n + 1
            t == [k \in 1..(m + 1) |-> IF k = m + 1 THEN q ELSE s[k]]
<1>1. m \in Nat /\ Len(all) - 3 = m + 1 /\ all \in Seq(CardType) /\ Len(all) >= 3
  OBVIOUS
<1>2. \A i \in 1..3 : all[i] = L!Earlier[i]
  OBVIOUS
<1>3. \A k \in 1..m : all[k + 3] = shown[k + 3]
  OBVIOUS
<1>4. all[m + 1 + 3] = card
  OBVIOUS
<1>5. /\ s \in [1..m -> Begins(told, n)]
      /\ \A i, j \in 1..m : i < j => s[i] < s[j]
      /\ \A x \in Begins(told, n) : \E i \in 1..m : s[i] = x
  BY DEF Shown
<1>6. Begins(told, q) = Begins(told, n) \cup {q}
  OBVIOUS
<1>7. \A x \in Begins(told, n) : x < q /\ x \in Nat
  BY DEF Begins
<1>8. \A k \in 1..m : IsCard(told, shown[k + 3], s[k], q, c)
  OBVIOUS
<1>9. IsCard(told, card, q, q, c)
  OBVIOUS
<1>10. \A k \in 1..(m + 1) : (k \in 1..m /\ k # m + 1) \/ k = m + 1
  BY <1>1
<1>11. q \in Nat
  OBVIOUS
<1>12. m + 1 \in 1..(m + 1) /\ \A k \in 1..m : k \in 1..(m + 1) /\ k # m + 1
  BY <1>1
<1>. HIDE DEF m, all, q
<1>13. t \in [1..(m + 1) -> Begins(told, q)]
  BY <1>5, <1>6, <1>10
<1>14. t[m + 1] = q /\ \A k \in 1..m : t[k] = s[k]
  BY <1>12
<1>. HIDE DEF t
<1>15. ASSUME NEW i \in 1..(m + 1), NEW j \in 1..(m + 1), i < j
       PROVE  t[i] < t[j]
  <2>1. i \in 1..m /\ (j \in 1..m \/ j = m + 1)
    BY <1>1, <1>15
  <2>2. CASE j \in 1..m
    BY <1>5, <1>14, <1>15, <2>1, <2>2
  <2>3. CASE j = m + 1
    <3>1. s[i] < q
      BY <1>5, <1>7, <2>1
    <3> QED  BY <1>14, <2>1, <2>3, <3>1
  <2> QED  BY <2>1, <2>2, <2>3
<1>16. ASSUME NEW x \in Begins(told, q)
       PROVE  \E i \in 1..(m + 1) : t[i] = x
  <2>1. CASE x = q
    BY <1>12, <1>14, <2>1
  <2>2. CASE x \in Begins(told, n)
    <3>1. PICK i \in 1..m : s[i] = x
      BY <1>5, <2>2
    <3> QED  BY <1>12, <1>14, <3>1
  <2> QED  BY <1>6, <2>1, <2>2
<1>17. ASSUME NEW k \in 1..(m + 1)
       PROVE  IsCard(told, all[k + 3], t[k], q, c)
  <2>1. CASE k \in 1..m
    <3>1. all[k + 3] = shown[k + 3] /\ t[k] = s[k]
      BY <1>3, <1>14, <2>1
    <3> QED  BY <1>8, <2>1, <3>1
  <2>2. CASE k = m + 1
    <3>1. all[k + 3] = card /\ t[k] = q
      BY <1>4, <1>14, <2>2
    <3> QED  BY <1>9, <3>1
  <2> QED  BY <1>10, <2>1, <2>2
<1>18. Shown(told, all, q, c, t)
  BY <1>1, <1>13, <1>15, <1>16, <1>17 DEF Shown
<1> QED  BY <1>1, <1>2, <1>18 DEF Shows, all, q

\* SetTool: a card for a state, which no entry before has brought.
LEMMA TellsState ==
  ASSUME NEW told, InOrderSaid(told), NEW n \in Nat, n + 1 <= Len(told), NEW b \in Nat, NEW shown,
         Shows(told, shown, n, b), told[n + 1].of \in Todos
  PROVE  Shows(told, L!SetTool(shown, b, told[n + 1].of), n + 1, b + 1)
<1>. DEFINE q == n + 1
            who == told[q].of
            card == L!Card("tool", b, <<L!Told(who)>>, FALSE)
            places == {i \in DOMAIN shown : shown[i].kind = "tool" /\ shown[i].id = b}
            c == b + 1
<1>1. /\ Len(shown) \in Nat /\ Len(shown) >= 3 /\ DOMAIN shown = 1..Len(shown)
      /\ shown \in Seq(CardType) /\ \A i \in 1..3 : shown[i] = L!Earlier[i]
  BY CardsAre
<1>2. PICK s : Shown(told, shown, n, b, s)
  BY DEF Shows
<1>3. q \in 1..Len(told) /\ told[q] = L!Told(who) /\ told[q] \in Said
  <2>1. q \in 1..Len(told)
    BY DEF InOrderSaid
  <2>2. IsSaid(told, q) /\ told[q] \in Said
    BY <2>1 DEF InOrderSaid
  <2> QED  BY <2>1, <2>2, Apart DEF IsSaid
<1>4. places = {}
  <2>1. ASSUME NEW i \in 4..Len(shown)
        PROVE  ~(shown[i].kind = "tool" /\ shown[i].id = b)
    <3>1. i - 3 \in 1..(Len(shown) - 3) /\ (i - 3) + 3 = i
      BY <1>1
    <3>2. IsCard(told, shown[(i - 3) + 3], s[i - 3], n, b)
      BY <1>2, <3>1 DEF Shown
    <3>3. IsCard(told, shown[i], s[i - 3], n, b)
      BY <3>1, <3>2
    <3>4. CASE told[s[i - 3]].of \in Todos
      <4>1. PICK e \in Nat : e < b /\ shown[i] = L!Card("tool", e, <<told[s[i - 3]]>>, FALSE)
        BY <3>3, <3>4, Apart DEF IsCard
      <4>2. shown[i].id = e /\ e # b
        BY <4>1 DEF L!Card
      <4> QED  BY <4>2
    <3>5. CASE told[s[i - 3]].of \in Streamed
      <4>. DEFINE o == told[s[i - 3]].of
      <4>1. shown[i] = L!Card("text", Name(o), Texts(o, Cardinality(Of(told, o, n))), TRUE)
        BY <3>3, <3>5, Apart DEF IsCard
      <4>2. shown[i].kind = "text"
        BY <4>1 DEF L!Card
      <4> QED  BY <4>2
    <3> QED  BY <3>3, <3>4, <3>5 DEF IsCard
  <2>2. \A i \in 1..3 : shown[i].kind # "tool"
    BY <1>1, EarlierIs
  <2>3. \A i \in 1..Len(shown) : i \in 1..3 \/ i \in 4..Len(shown)
    BY <1>1
  <2> QED  BY <1>1, <2>1, <2>2, <2>3
<1>5. L!SetTool(shown, b, who) = Append(shown, card)
  BY <1>4 DEF L!SetTool
<1>6. card \in CardType
  <2>0. L!Told(who) \in Said
    BY <1>3
  <2>. HIDE DEF who
  <2>1. <<L!Told(who)>> \in Seq(Said)
    BY <2>0
  <2>3. b \in Ids
    BY DEF Ids
  <2> QED  BY <2>1, <2>3 DEF CardType, L!Card
<1>7. IsCard(told, card, q, q, c)
  <2>1. b < c
    OBVIOUS
  <2>2. <<told[q]>> = <<L!Told(who)>>
    BY <1>3
  <2>3. told[q].of \in Todos
    OBVIOUS
  <2>4. card = L!Card("tool", b, <<told[q]>>, FALSE)
    BY <2>2
  <2>. HIDE DEF q, c, card, places
  <2>5. \E e \in Nat : e < c /\ card = L!Card("tool", e, <<told[q]>>, FALSE)
    BY <2>1, <2>4
  <2> QED  BY <2>3, <2>5 DEF IsCard
<1>8. \A k \in 1..(Len(shown) - 3) : IsCard(told, shown[k + 3], s[k], q, c)
  <2>1. c \in Nat /\ b <= c
    OBVIOUS
  <2>. HIDE DEF c
  <2>2. ASSUME NEW k \in 1..(Len(shown) - 3)
        PROVE  IsCard(told, shown[k + 3], s[k], q, c)
    <3>1. IsCard(told, shown[k + 3], s[k], n, b)
      BY <1>2 DEF Shown
    <3> QED  BY <2>1, <3>1, KeepsCard
  <2> QED  BY <2>2
<1>9. Begins(told, q) = Begins(told, n) \cup {q}
  BY SaidNext
<1>. HIDE DEF card, c
<1>10. Shows(told, Append(shown, card), q, c)
  BY <1>1, <1>2, <1>6, <1>7, <1>8, <1>9, AppendsCard
<1> QED  BY <1>5, <1>10 DEF c

\* The number of deltas a message has said.
LEMMA TextIs ==
  ASSUME NEW told, InOrderSaid(told), NEW n \in Nat, n + 1 <= Len(told), told[n + 1].of \in Streamed
  PROVE  LET who == told[n + 1].of
             c == Cardinality(Of(told, who, n))
         IN /\ c \in Nat /\ told[n + 1] = [of |-> who, n |-> c + 1] /\ told[n + 1] \in Said
            /\ Append(Texts(who, c), told[n + 1]) = Texts(who, Cardinality(Of(told, who, n + 1)))
            /\ (c = 0 <=> Of(told, who, n) = {})
<1>. DEFINE q == n + 1
            who == told[q].of
            c == Cardinality(Of(told, who, n))
<1>1. n \in 0..Len(told) /\ q \in 1..Len(told)
  BY DEF InOrderSaid
<1>2. c \in Nat /\ IsFiniteSet(Of(told, who, n))
  BY <1>1, SaidIs
<1>3. Cardinality(Of(told, who, q)) = c + 1
  BY SaidNext
<1>4. told[q] \in Said /\ IsSaid(told, q)
  BY <1>1 DEF InOrderSaid
<1>5. told[q] = [of |-> who, n |-> c + 1]
  BY <1>3, <1>4, Apart DEF IsSaid
<1>6. c = 0 <=> Of(told, who, n) = {}
  BY <1>2, FS_EmptySet
<1>. HIDE DEF c, q
<1>7. Append(Texts(who, c), [of |-> who, n |-> c + 1]) = Texts(who, c + 1)
  <2>. HIDE DEF who
  <2> QED  BY <1>2 DEF Texts
<1> QED  BY <1>2, <1>3, <1>4, <1>5, <1>6, <1>7 DEF c, q

\* AppendAiText: the text of a message goes behind what the page has of it.
LEMMA TellsText ==
  ASSUME NEW told, InOrderSaid(told), NEW n \in Nat, n + 1 <= Len(told), NEW b \in Nat, NEW shown,
         Shows(told, shown, n, b), told[n + 1].of \in Streamed
  PROVE  Shows(told, L!AppendAiText(shown, L!Text(Name(told[n + 1].of), told[n + 1])), n + 1, b)
<1>. DEFINE q == n + 1
            who == told[q].of
            c == Cardinality(Of(told, who, n))
            item == L!Text(Name(who), told[q])
            places == {i \in DOMAIN shown : shown[i].kind = "text" /\ shown[i].id = item.id}
            m == Len(shown) - 3
<1>1. /\ Len(shown) \in Nat /\ Len(shown) >= 3 /\ DOMAIN shown = 1..Len(shown)
      /\ shown \in Seq(CardType) /\ \A i \in 1..3 : shown[i] = L!Earlier[i]
  BY CardsAre
<1>2. PICK s : Shown(told, shown, n, b, s)
  BY DEF Shows
<1>3. /\ c \in Nat /\ told[q] = [of |-> who, n |-> c + 1] /\ told[q] \in Said
      /\ Append(Texts(who, c), told[q]) = Texts(who, Cardinality(Of(told, who, q)))
      /\ (c = 0 <=> Of(told, who, n) = {})
  BY TextIs
<1>4. item.id = Name(who) /\ item.delta = told[q] /\ Name(who) \in Ids
  BY DEF L!Text, Ids
<1>5. who \in Streamed /\ ~(who \in Todos)
  BY Apart
<1>6. ASSUME NEW k \in 1..m
      PROVE  /\ k + 3 \in 1..Len(shown) /\ s[k] \in 1..n /\ IsCard(told, shown[k + 3], s[k], n, b)
             /\ s[k] \in Begins(told, n)
             /\ k + 3 \in places <=> told[s[k]].of = who
  <2>1. k + 3 \in 1..Len(shown) /\ s[k] \in Begins(told, n) /\ s[k] \in 1..n
    <3>1. k + 3 \in 1..Len(shown)
      BY <1>1
    <3>2. s \in [1..m -> Begins(told, n)]
      BY <1>2 DEF Shown
    <3>3. s[k] \in Begins(told, n)
      BY <3>2
    <3> QED  BY <3>1, <3>3 DEF Begins
  <2>2. IsCard(told, shown[k + 3], s[k], n, b)
    BY <1>2 DEF Shown
  <2>. DEFINE o == told[s[k]].of
  <2>3. CASE o \in Todos
    <3>1. PICK e \in Nat : shown[k + 3] = L!Card("tool", e, <<told[s[k]]>>, FALSE)
      BY <2>2, <2>3, Apart DEF IsCard
    <3>2. shown[k + 3].kind = "tool"
      BY <3>1 DEF L!Card
    <3>3. k + 3 \notin places
      BY <3>2
    <3>. HIDE DEF places
    <3> QED  BY <1>5, <2>1, <2>2, <2>3, <3>3
  <2>4. CASE o \in Streamed
    <3>1. shown[k + 3] = L!Card("text", Name(o), Texts(o, Cardinality(Of(told, o, n))), TRUE)
      BY <2>2, <2>4, Apart DEF IsCard
    <3>2. shown[k + 3].kind = "text" /\ shown[k + 3].id = Name(o)
      BY <3>1 DEF L!Card
    <3>3. k + 3 \in places <=> Name(o) = Name(who)
      BY <1>1, <1>4, <2>1, <3>2
    <3>4. Name(o) = Name(who) <=> o = who
      <4>. HIDE DEF o, who
      <4> QED  BY <1>5, <2>4, NamesApart
    <3>. HIDE DEF places
    <3> QED  BY <2>1, <2>2, <3>3, <3>4
  <2>5. o \in Todos \/ o \in Streamed
    BY <2>2 DEF IsCard
  <2> QED  BY <2>3, <2>4, <2>5
<1>7. \A i \in 1..3 : i \notin places
  BY <1>1, <1>4, <1>5, EarlierIs, NamesApart
<1>8. \A i \in places : i \in 1..Len(shown) /\ i - 3 \in 1..m /\ (i - 3) + 3 = i
  <2>1. \A i \in 1..Len(shown) : i \in 1..3 \/ i \in 4..Len(shown)
    BY <1>1
  <2>2. \A i \in 4..Len(shown) : i - 3 \in 1..m /\ (i - 3) + 3 = i
    BY <1>1
  <2>3. places \subseteq 1..Len(shown)
    BY <1>1
  <2>. HIDE DEF places, m
  <2> QED  BY <1>7, <2>1, <2>2, <2>3
<1>9. CASE c = 0
  <2>. DEFINE card == L!Card("text", item.id, <<item.delta>>, TRUE)
  <2>1. Of(told, who, n) = {}
    BY <1>3, <1>9
  <2>2. \A k \in 1..m : told[s[k]].of # who
    BY <1>6, <2>1 DEF Of
  <2>3. places = {}
    <3>. HIDE DEF places, m
    <3> QED  BY <1>6, <1>8, <2>2
  <2>4. L!AppendAiText(shown, item) = Append(shown, card)
    BY <2>3 DEF L!AppendAiText
  <2>5. card \in CardType
    <3>1. <<told[q]>> \in Seq(Said)
      <4>. HIDE DEF q
      <4> QED  BY <1>3
    <3> QED  BY <1>4, <3>1 DEF CardType, L!Card
  <2>6. card = L!Card("text", Name(who), Texts(who, Cardinality(Of(told, who, q))), TRUE)
    <3>1. Texts(who, c) = << >>
      BY <1>9 DEF Texts
    <3>2. <<told[q]>> = Append(Texts(who, c), told[q])
      BY <3>1
    <3> QED  BY <1>3, <1>4, <3>2
  <2>7. IsCard(told, card, q, q, b)
    <3>. HIDE DEF q, card, places
    <3> QED  BY <1>5, <2>6 DEF IsCard
  <2>8. \A k \in 1..m : IsCard(told, shown[k + 3], s[k], q, b)
    <3>1. ASSUME NEW k \in 1..m
          PROVE  IsCard(told, shown[k + 3], s[k], q, b)
      <4>1. IsCard(told, shown[k + 3], s[k], n, b) /\ told[s[k]].of # told[q].of
        BY <1>6, <2>2
      <4>2. b <= b
        OBVIOUS
      <4> QED  BY <4>1, <4>2, KeepsCard
    <3> QED  BY <3>1
  <2>9. Begins(told, q) = Begins(told, n) \cup {q}
    BY <2>1, SaidNext
  <2>. HIDE DEF card
  <2>10. Shows(told, Append(shown, card), q, b)
    BY <1>1, <1>2, <2>5, <2>7, <2>8, <2>9, AppendsCard
  <2> QED  BY <2>4, <2>10
<1>10. CASE c # 0
  <2>1. PICK p \in Begins(told, n) : told[p].of = who /\ \A j \in 1..n : told[j].of = who => p <= j
    <3>. DEFINE S == Of(told, who, n)
                first == L!InOrder(S)[1]
    <3>1. n \in 0..Len(told)
      BY DEF InOrderSaid
    <3>2. S \in SUBSET Nat /\ IsFiniteSet(S) /\ Cardinality(S) = c
      BY <3>1, SaidIs
    <3>3. S \subseteq 1..n
      BY DEF Of
    <3>4. /\ L!InOrder(S) \in [1..c -> S]
          /\ \A i, j \in 1..c : i < j => L!InOrder(S)[i] < L!InOrder(S)[j]
          /\ \A x \in S : \E i \in 1..c : L!InOrder(S)[i] = x
      <4>. HIDE DEF S, c
      <4> QED  BY <3>2, HasOrder
    <3>5. 1 \in 1..c /\ \A i \in 1..c : i = 1 \/ 1 < i
      BY <1>3, <1>10
    <3>6. \A i, j \in S : i \in Nat /\ j \in Nat
      BY <3>2
    <3>. DEFINE order == L!InOrder(S)
    <3>. HIDE DEF S, c, order
    <3>7. order[1] \in S /\ \A x \in S : order[1] <= x
      <4>1. order \in [1..c -> S] /\ (\A i, j \in 1..c : i < j => order[i] < order[j])
            /\ \A x \in S : \E i \in 1..c : order[i] = x
        BY <3>4 DEF order
      <4>2. order[1] \in S
        BY <3>5, <4>1
      <4>3. ASSUME NEW x \in S
            PROVE  order[1] <= x
        <5>1. PICK i \in 1..c : order[i] = x
          BY <4>1
        <5>2. order[1] \in Nat /\ x \in Nat
          BY <3>6, <4>2
        <5>3. i = 1 \/ order[1] < order[i]
          BY <3>5, <4>1
        <5> QED  BY <5>1, <5>2, <5>3
      <4> QED  BY <4>2, <4>3
    <3>8. \A j \in 1..n : told[j].of = who => j \in S
      BY DEF S, Of
    <3>. DEFINE p1 == order[1]
    <3>9. p1 \in 1..n /\ told[p1].of = who
      BY <3>7 DEF S, Of
    <3>10. \A j \in 1..n : told[j].of = who => p1 <= j
      BY <3>7, <3>8
    <3>. HIDE DEF p1
    <3>11. \A j \in 1..(p1 - 1) : j \in 1..n /\ ~(p1 <= j)
      BY <3>9
    <3>12. p1 \in Begins(told, n)
      BY <3>9, <3>10, <3>11 DEF Begins
    <3> QED  BY <3>9, <3>10, <3>12
  <2>2. PICK h \in 1..m : s[h] = p
    BY <1>2 DEF Shown
  <2>3. \A k \in 1..m : told[s[k]].of = who <=> k = h
    <3>1. ASSUME NEW k \in 1..m, told[s[k]].of = who
          PROVE  k = h
      <4>1. s[k] \in 1..n /\ s[k] \in Begins(told, n) /\ p \in 1..n
        BY <1>6, <2>2
      <4>2. p <= s[k]
        BY <2>1, <3>1, <4>1
      <4>3. \A j \in 1..(s[k] - 1) : told[j].of # who
        BY <1>5, <3>1, <4>1 DEF Begins
      <4>4. ~(p < s[k])
        <5>1. p < s[k] => p \in 1..(s[k] - 1)
          BY <4>1
        <5> QED  BY <2>1, <4>3, <5>1
      <4>5. s[k] = s[h]
        BY <2>2, <4>1, <4>2, <4>4
      <4>6. ~(k < h) /\ ~(h < k)
        <5>1. \A i, j \in 1..m : i < j => s[i] < s[j]
          BY <1>2 DEF Shown
        <5>2. ~(s[k] < s[h]) /\ ~(s[h] < s[k])
          BY <4>1, <4>5
        <5>. HIDE DEF m
        <5> QED  BY <5>1, <5>2
      <4>7. k \in Nat /\ h \in Nat
        BY <1>1
      <4> QED  BY <4>6, <4>7
    <3> QED  BY <2>1, <2>2, <3>1
  <2>4. places = {h + 3}
    <3>1. h + 3 \in places
      BY <1>6, <2>3
    <3>2. ASSUME NEW i \in places
          PROVE  i = h + 3
      <4>1. i - 3 \in 1..m /\ (i - 3) + 3 = i
        BY <1>8
      <4>2. (i - 3) + 3 \in places
        BY <4>1
      <4>. HIDE DEF places, m
      <4>3. told[s[i - 3]].of = who
        BY <1>6, <4>1, <4>2
      <4>4. i - 3 = h
        BY <2>3, <4>1, <4>3
      <4> QED  BY <4>1, <4>4
    <3>. HIDE DEF places
    <3> QED  BY <3>1, <3>2
  <2>. DEFINE g == h + 3
              all == [shown EXCEPT ![g].content = Append(@, item.delta)]
  <2>5. g \in 1..Len(shown) /\ g \in 4..Len(shown)
    BY <1>1
  <2>6. (CHOOSE i \in places : \A j \in places : i <= j) = g
    BY <2>4, <2>5
  <2>7. L!AppendAiText(shown, item) = all
    BY <2>4, <2>6 DEF L!AppendAiText
  <2>8. shown[g] = L!Card("text", Name(who), Texts(who, c), TRUE) /\ shown[g] \in CardType
    <3>1. IsCard(told, shown[g], s[h], n, b) /\ told[s[h]].of = who
      BY <1>6, <2>3
    <3>2. shown[g] \in CardType
      BY <1>1, <2>5
    <3> QED  BY <1>5, <3>1, <3>2 DEF IsCard
  <2>. DEFINE card == [shown[g] EXCEPT !.content = Append(@, item.delta)]
  <2>9. card = L!Card("text", Name(who), Texts(who, Cardinality(Of(told, who, q))), TRUE)
    <3>. DEFINE x == Texts(who, c)
                y == Append(x, told[q])
    <3>1. y = Texts(who, Cardinality(Of(told, who, q)))
      BY <1>3
    <3>2. card = [L!Card("text", Name(who), x, TRUE) EXCEPT !.content = Append(@, told[q])]
      BY <1>4, <2>8
    <3>. HIDE DEF card, x
    <3>3. card = L!Card("text", Name(who), y, TRUE)
      BY <3>2 DEF L!Card
    <3> QED  BY <3>1, <3>3
  <2>10. card \in CardType
    <3>1. shown[g].content \in Seq(Said)
      BY <2>8 DEF CardType
    <3>2. Append(shown[g].content, told[q]) \in Seq(Said)
      <4>. HIDE DEF g, q
      <4> QED  BY <1>3, <3>1
    <3>. DEFINE y == Append(shown[g].content, told[q])
                old == shown[g]
    <3>3. card = [old EXCEPT !.content = y] /\ y \in Seq(Said) /\ old \in CardType
      BY <1>4, <2>8, <3>2
    <3>. HIDE DEF y, card, old
    <3> QED  BY <3>3 DEF CardType
  <2>11. /\ Len(all) = Len(shown) /\ all \in Seq(CardType) /\ all[g] = card
         /\ \A i \in 1..Len(shown) : i # g => all[i] = shown[i]
    <3>1. all = [shown EXCEPT ![g] = card]
      BY <1>1, <2>5
    <3>. HIDE DEF card, g, all
    <3> QED  BY <1>1, <2>5, <2>10, <3>1
  <2>. HIDE DEF all, card
  <2>12. \A i \in 1..3 : all[i] = L!Earlier[i]
    <3>1. \A i \in 1..3 : i \in 1..Len(shown) /\ i # g
      BY <1>1, <2>5
    <3> QED  BY <1>1, <2>11, <3>1
  <2>13. Begins(told, q) = Begins(told, n)
    BY <1>3, <1>5, <1>10, SaidNext
  <2>14. ASSUME NEW k \in 1..m
         PROVE  IsCard(told, all[k + 3], s[k], q, b)
    <3>1. CASE k = h
      <4>1. all[k + 3] = card /\ told[s[k]].of = who
        BY <2>3, <2>11, <3>1
      <4>. DEFINE w == told[s[k]].of
      <4>2. w \in Streamed /\ all[k + 3] = L!Card("text", Name(w), Texts(w, Cardinality(Of(told, w, q))), TRUE)
        BY <1>5, <2>9, <4>1
      <4> QED  BY <4>2 DEF IsCard
    <3>2. CASE k # h
      <4>1. k + 3 \in 1..Len(shown) /\ k + 3 # g /\ told[s[k]].of # told[q].of
            /\ IsCard(told, shown[k + 3], s[k], n, b)
        BY <1>1, <1>6, <2>3, <3>2
      <4>2. all[k + 3] = shown[k + 3] /\ b <= b
        BY <2>11, <4>1
      <4>3. IsCard(told, shown[k + 3], s[k], n + 1, b)
        BY <4>1, <4>2, KeepsCard
      <4> QED  BY <4>2, <4>3
    <3> QED  BY <3>1, <3>2
  <2>15. Shown(told, all, q, b, s)
    BY <1>2, <2>11, <2>13, <2>14 DEF Shown
  <2>16. Shows(told, all, q, b)
    BY <1>1, <2>11, <2>12, <2>15 DEF Shows
  <2> QED  BY <2>7, <2>16
<1> QED  BY <1>9, <1>10

Item == [id : Ids, delta : L!Delta]

Written == [type : {"messages"}, items : Seq(Item)] \cup [type : {"custom"}, state : Todos]

\* The items of what was said behind one place up to another.
IsItems(told, items, from, to) ==
  /\ items \in Seq(Item) /\ to = from + Len(items)
  /\ \A j \in 1..Len(items) : /\ told[from + j].of \in Streamed
                              /\ items[j] = L!Text(Name(told[from + j].of), told[from + j])

IsEntry(told, entry, from, to) ==
  \/ entry.type = "messages" /\ IsItems(told, entry.items, from, to)
  \/ /\ entry.type = "custom" /\ to = from + 1
     /\ told[to].of \in Todos /\ entry.state = told[to].of

\* The entries hold what was said up to upto[i], and what waits holds the rest.
IsLog(told, log, waiting, upto) ==
  /\ log \in Seq(Written) /\ waiting \in Seq(Item)
  /\ upto[0] = 0 /\ \A i \in 0..Len(log) : upto[i] \in 0..Len(told)
  /\ \A i \in 1..Len(log) : IsEntry(told, log[i], upto[i - 1], upto[i])
  /\ IsItems(told, waiting, upto[Len(log)], Len(told))

\* A page that is connected shows what the entries it has read hold.
IsPage(told, log, waiting, shown, at) ==
  /\ at \in 0..(Len(log) + 1)
  /\ \E upto : /\ IsLog(told, log, waiting, upto)
               /\ at # 0 => Shows(told, shown, upto[at - 1], at)
  /\ at = 0 => \E n \in 0..Len(told) : \E b \in Nat : Shows(told, shown, n, b)

\* Every open message has its name, under a key that no other open one has.
AreNamed(names, begun, ended) ==
  /\ begun \subseteq Streamed /\ ended \subseteq Streamed
  /\ DOMAIN names \subseteq {CallOf[m] : m \in begun \cup ended}
  /\ \A m \in begun : /\ CallOf[m] \in DOMAIN names /\ names[CallOf[m]] = Name(m)
                      /\ \A other \in begun : CallOf[other] = CallOf[m] => other = m

LiveInv ==
  /\ InOrderSaid(spoken)
  /\ AreNamed(messageIds, open, over)
  /\ lastState \in Todos \cup {L!NoState} /\ breaks \in 0..MaxBreaks
  /\ IsPage(spoken, entries, bucket, cards, next)

\* The items of the stream are read one after the other.
LEMMA ReadsItems ==
  ASSUME NEW told, InOrderSaid(told), NEW from \in Nat, NEW to \in 0..Len(told), NEW b \in Nat, NEW shown,
         NEW items, IsItems(told, items, from, to), Shows(told, shown, from, b)
  PROVE  Shows(told, L!FoldLeft(L!AppendAiText, shown, items), to, b)
<1>. DEFINE m == Len(items)
            last == L!FoldLeft(L!AppendAiText, shown, items)
<1>1. m \in Nat /\ DOMAIN items = 1..m /\ to = from + m /\ to \in Nat /\ Len(told) \in Nat /\ to <= Len(told)
  BY DEF IsItems, InOrderSaid
<1>2. PICK f : /\ f[0] = shown /\ f[m] = last
               /\ \A i \in 1..m : f[i] = L!AppendAiText(f[i - 1], items[i])
  <2>. HIDE DEF m
  <2>1. \E f : /\ f[0] = shown
               /\ \A i \in 1..m : f[i] = L!AppendAiText(f[i - 1], items[i])
               /\ f[m] = L!FoldLeft(L!AppendAiText, shown, items)
    BY ONLY <1>1, ItemsInOrder
  <2> QED  BY <2>1
<1>. DEFINE N == {i \in Nat : i <= m => Shows(told, f[i], from + i, b)}
<1>3. 0 \in N
  BY <1>2
<1>4. ASSUME NEW i \in N
      PROVE  i + 1 \in N
  <2>1. i \in Nat /\ i + 1 \in Nat
    OBVIOUS
  <2>2. CASE i + 1 <= m
    <3>. DEFINE n == from + i
                who == told[n + 1].of
    <3>1. n \in Nat /\ n + 1 <= Len(told) /\ Shows(told, f[i], n, b) /\ i + 1 \in 1..m /\ from + (i + 1) = n + 1
          /\ (i + 1) - 1 = i
      BY <1>1, <2>1, <2>2
    <3>2. told[from + (i + 1)].of \in Streamed
          /\ items[i + 1] = L!Text(Name(told[from + (i + 1)].of), told[from + (i + 1)])
      BY <3>1 DEF IsItems
    <3>3. who \in Streamed /\ items[i + 1] = L!Text(Name(who), told[n + 1])
      BY <3>1, <3>2
    <3>4. f[i + 1] = L!AppendAiText(f[i], items[i + 1])
      <4>1. f[i + 1] = L!AppendAiText(f[(i + 1) - 1], items[i + 1])
        BY <1>2, <3>1
      <4> QED  BY <3>1, <4>1
    <3>5. Shows(told, L!AppendAiText(f[i], L!Text(Name(who), told[n + 1])), n + 1, b)
      <4>. DEFINE g == f[i]
      <4>1. Shows(told, g, n, b)
        BY <3>1
      <4>. HIDE DEF n, g, N
      <4>2. Shows(told, L!AppendAiText(g, L!Text(Name(told[n + 1].of), told[n + 1])), n + 1, b)
        BY <3>1, <3>3, <4>1, TellsText
      <4> QED  BY <4>2 DEF g
    <3>6. Shows(told, f[i + 1], from + (i + 1), b)
      BY <3>1, <3>3, <3>4, <3>5
    <3> QED  BY <2>1, <3>6
  <2> QED  BY <2>1, <2>2
<1>5. N \in SUBSET Nat
  OBVIOUS
<1>. HIDE DEF N
<1>6. N = Nat
  BY <1>3, <1>4, <1>5, NatSetInduction
<1>7. m \in N
  BY <1>1, <1>6
<1> QED  BY <1>1, <1>2, <1>7 DEF N

\* What is read of an entry.
LEMMA ReadsEntry ==
  ASSUME NEW told, InOrderSaid(told), NEW log, NEW waiting, NEW upto, IsLog(told, log, waiting, upto),
         NEW at \in 1..Len(log), NEW shown, Shows(told, shown, upto[at - 1], at), Len(log) \in Nat
  PROVE  LET read == IF log[at].type = "messages" THEN L!FoldLeft(L!AppendAiText, shown, log[at].items)
                     ELSE L!SetTool(shown, at, log[at].state)
         IN Shows(told, read, upto[at], at + 1)
<1>. DEFINE from == upto[at - 1]
            to == upto[at]
<1>1. at \in Nat /\ at - 1 \in 0..Len(log) /\ at \in 0..Len(log) /\ at + 1 \in Nat /\ at <= at + 1
  OBVIOUS
<1>2. from \in 0..Len(told) /\ to \in 0..Len(told) /\ IsEntry(told, log[at], from, to)
  BY <1>1 DEF IsLog
<1>3. from \in Nat /\ to \in Nat /\ Len(told) \in Nat /\ to <= Len(told)
  BY <1>2 DEF InOrderSaid
<1>4. Shows(told, shown, from, at)
  OBVIOUS
<1>. HIDE DEF from, to
<1>5. CASE log[at].type = "messages"
  <2>1. IsItems(told, log[at].items, from, to)
    BY <1>2, <1>5 DEF IsEntry
  <2>. DEFINE items == log[at].items
              read == L!FoldLeft(L!AppendAiText, shown, items)
  <2>2. IsItems(told, items, from, to)
    BY <2>1
  <2>. HIDE DEF items
  <2>3. Shows(told, read, to, at)
    BY <1>1, <1>2, <1>3, <1>4, <2>2, ReadsItems
  <2>. HIDE DEF read
  <2>4. Shows(told, read, to, at + 1)
    BY <1>1, <1>3, <2>3, ShowsStill
  <2> QED  BY <1>5, <2>4 DEF read, items, to
<1>6. CASE log[at].type # "messages"
  <2>1. to = from + 1 /\ told[to].of \in Todos /\ log[at].state = told[to].of
    BY <1>2, <1>6 DEF IsEntry
  <2>2. from + 1 <= Len(told) /\ told[from + 1].of \in Todos
    BY <1>3, <2>1
  <2>3. Shows(told, L!SetTool(shown, at, told[from + 1].of), from + 1, at + 1)
    BY <1>1, <1>3, <1>4, <2>2, TellsState
  <2> QED  BY <1>6, <2>1, <2>3 DEF to
<1> QED  BY <1>5, <1>6

\* What was written is not changed by what is said later.
LEMMA LogGrows ==
  ASSUME NEW told, NEW log, NEW waiting, NEW upto, NEW later, NEW longer, NEW rest, NEW further,
         IsLog(told, log, waiting, upto), Len(told) \in Nat, Len(later) \in Nat, Len(told) <= Len(later),
         \A i \in 1..Len(told) : later[i] = told[i],
         IsLog(later, longer, rest, further), Len(log) \in Nat, Len(longer) \in Nat, Len(log) <= Len(longer),
         \A i \in 0..Len(log) : further[i] = upto[i],
         NEW shown, NEW at \in 0..(Len(log) + 1),
         at # 0 => Shows(told, shown, upto[at - 1], at),
         at = 0 => \E n \in 0..Len(told) : \E b \in Nat : Shows(told, shown, n, b)
  PROVE  IsPage(later, longer, rest, shown, at)
<1>1. at \in Nat /\ at \in 0..(Len(longer) + 1) /\ at <= at
  OBVIOUS
<1>2. ASSUME at # 0
      PROVE  Shows(later, shown, further[at - 1], at)
  <2>. DEFINE n == upto[at - 1]
  <2>1. at - 1 \in 0..Len(log) /\ further[at - 1] = n
    BY <1>2
  <2>2. n \in 0..Len(told) /\ Shows(told, shown, n, at)
    BY <1>2, <2>1 DEF IsLog
  <2>. HIDE DEF n
  <2>3. n \in Nat /\ \A i \in 1..n : later[i] = told[i]
    BY <2>2
  <2>4. Shows(later, shown, n, at)
    BY <1>1, <2>2, <2>3, ShowsStill
  <2> QED  BY <2>1, <2>4
<1>3. ASSUME at = 0
      PROVE  \E n \in 0..Len(later) : \E b \in Nat : Shows(later, shown, n, b)
  <2>1. PICK n \in 0..Len(told), b \in Nat : Shows(told, shown, n, b)
    BY <1>3
  <2>2. n \in Nat /\ n \in 0..Len(later) /\ b <= b /\ \A i \in 1..n : later[i] = told[i]
    OBVIOUS
  <2>3. Shows(later, shown, n, b)
    BY <2>1, <2>2, ShowsStill
  <2> QED  BY <2>2, <2>3
<1> QED  BY <1>1, <1>2, <1>3 DEF IsPage

\* What was said stays in order when one thing more is said.
LEMMA SaidMore ==
  ASSUME NEW told, InOrderSaid(told), NEW d \in Said,
         \/ d.of \in Todos /\ d = L!Told(d.of)
         \/ d.of \in Streamed /\ d = [of |-> d.of, n |-> Cardinality(Of(told, d.of, Len(told))) + 1]
  PROVE  LET more == Append(told, d)
         IN /\ InOrderSaid(more) /\ Len(told) \in Nat /\ Len(more) = Len(told) + 1
            /\ more[Len(told) + 1] = d /\ \A i \in 1..Len(told) : more[i] = told[i]
<1>. DEFINE m == Len(told)
            more == Append(told, d)
            q == m + 1
<1>1. /\ m \in Nat /\ told \in Seq(Said) /\ more \in Seq(Said) /\ Len(more) = q /\ more[q] = d
      /\ \A i \in 1..m : more[i] = told[i]
  BY DEF InOrderSaid
<1>2. \A i : i \in 1..q <=> i \in 1..m \/ i = q
  BY <1>1
<1>3. m \in Nat /\ q = m + 1
  BY <1>1
<1>. HIDE DEF more, m, q
<1>4. ASSUME NEW i \in 1..m
      PROVE  IsSaid(more, i)
  <2>1. \A j \in 1..i : j \in 1..m /\ more[j] = told[j]
    BY <1>1
  <2>2. Of(more, told[i].of, i) = Of(told, told[i].of, i)
    BY <2>1 DEF Of
  <2>3. IsSaid(told, i)
    BY DEF InOrderSaid, m
  <2>4. more[i] = told[i]
    BY <1>1
  <2> QED  BY <2>2, <2>3, <2>4 DEF IsSaid
<1>5. IsSaid(more, q)
  <2>1. Of(more, d.of, q) = Of(told, d.of, m) \cup {q} /\ q \notin Of(told, d.of, m)
    <3>1. q \notin 1..m
      BY <1>3
    <3> QED  BY <1>1, <1>2, <3>1 DEF Of
  <2>2. Cardinality(Of(more, d.of, q)) = Cardinality(Of(told, d.of, m)) + 1
    <3>. DEFINE S == Of(told, d.of, m)
    <3>1. m \in 0..Len(told)
      BY <1>3 DEF m
    <3>2. IsFiniteSet(S)
      BY <3>1, SaidIs
    <3>. HIDE DEF S
    <3>3. q \notin S => Cardinality(S \cup {q}) = Cardinality(S) + 1
      BY <3>2, FS_AddElement
    <3> QED  BY <2>1, <3>3 DEF S
  <2>3. CASE d.of \in Todos
    <3>1. ~(d.of \in Streamed)
      BY <2>3, Apart
    <3> QED  BY <1>1, <2>3, <3>1 DEF IsSaid
  <2>4. CASE d.of \in Streamed
    <3>1. ~(d.of \in Todos)
      BY <2>4, Apart
    <3>2. d = [of |-> d.of, n |-> Cardinality(Of(told, d.of, m)) + 1]
      BY <3>1 DEF m
    <3> QED  BY <1>1, <2>2, <2>4, <3>2 DEF IsSaid
  <2> QED  BY <2>3, <2>4
<1>6. InOrderSaid(more)
  BY <1>1, <1>2, <1>4, <1>5 DEF InOrderSaid
<1> QED  BY <1>1, <1>6 DEF more, m, q

\* An entry holds what it held when more is said.
LEMMA EntryStays ==
  ASSUME NEW told, NEW more, NEW m \in Nat, \A i \in 1..m : more[i] = told[i],
         NEW entry, NEW from \in Nat, NEW to \in Nat, to <= m, IsEntry(told, entry, from, to)
  PROVE  IsEntry(more, entry, from, to)
<1>1. CASE entry.type = "messages" /\ IsItems(told, entry.items, from, to)
  <2>1. \A j \in 1..Len(entry.items) : from + j \in 1..m
    BY <1>1 DEF IsItems
  <2>2. IsItems(more, entry.items, from, to)
    BY <1>1, <2>1 DEF IsItems
  <2> QED  BY <1>1, <2>2 DEF IsEntry
<1>2. CASE entry.type = "custom" /\ to = from + 1 /\ told[to].of \in Todos /\ entry.state = told[to].of
  <2>1. to \in 1..m
    BY <1>2
  <2> QED  BY <1>2, <2>1 DEF IsEntry
<1> QED  BY <1>1, <1>2 DEF IsEntry

\* An item of a text waits behind the others.
LEMMA WaitsToo ==
  ASSUME NEW told, NEW more, Len(told) \in Nat, Len(more) = Len(told) + 1,
         \A i \in 1..Len(told) : more[i] = told[i],
         NEW log, NEW waiting, NEW upto, IsLog(told, log, waiting, upto), Len(log) \in Nat,
         more[Len(more)].of \in Streamed, more[Len(more)] \in L!Delta
  PROVE  LET d == more[Len(more)]
         IN IsLog(more, log, Append(waiting, L!Text(Name(d.of), d)), upto)
<1>. DEFINE d == more[Len(more)]
            item == L!Text(Name(d.of), d)
            all == Append(waiting, item)
            m == Len(told)
            k == Len(log)
<1>1. /\ log \in Seq(Written) /\ waiting \in Seq(Item)
      /\ upto[0] = 0 /\ \A i \in 0..k : upto[i] \in 0..m
      /\ \A i \in 1..k : IsEntry(told, log[i], upto[i - 1], upto[i])
      /\ IsItems(told, waiting, upto[k], m)
  BY DEF IsLog
<1>2. item \in Item
  BY DEF Item, Ids, L!Text
<1>3. all \in Seq(Item) /\ Len(all) = Len(waiting) + 1 /\ all[Len(waiting) + 1] = item
      /\ (\A j \in 1..Len(waiting) : all[j] = waiting[j]) /\ Len(waiting) \in Nat
  <2>. HIDE DEF item
  <2> QED  BY <1>1, <1>2
<1>4. \A i \in 0..k : upto[i] \in Nat /\ upto[i] <= m /\ upto[i] \in 0..(m + 1)
  BY <1>1
<1>5. ASSUME NEW i \in 1..k
      PROVE  IsEntry(more, log[i], upto[i - 1], upto[i])
  <2>1. i - 1 \in 0..k /\ i \in 0..k
    OBVIOUS
  <2>. DEFINE from == upto[i - 1]
              to == upto[i]
  <2>2. from \in Nat /\ to \in Nat /\ to <= m /\ IsEntry(told, log[i], from, to)
    BY <1>1, <1>4, <2>1
  <2>. HIDE DEF from, to
  <2>5. IsEntry(more, log[i], from, to)
    BY <2>2, EntryStays
  <2> QED  BY <2>5 DEF from, to
<1>6. IsItems(more, all, upto[k], m + 1)
  <2>. DEFINE from == upto[k]
  <2>1. from \in Nat /\ IsItems(told, waiting, from, m)
    BY <1>1, <1>4
  <2>. HIDE DEF from, all, item, d
  <2>2. m = from + Len(waiting) /\ m + 1 = from + Len(all)
    BY <1>3, <2>1 DEF IsItems
  <2>3. ASSUME NEW j \in 1..Len(all)
        PROVE  /\ more[from + j].of \in Streamed
               /\ all[j] = L!Text(Name(more[from + j].of), more[from + j])
    <3>1. CASE j \in 1..Len(waiting)
      <4>1. from + j \in 1..m /\ more[from + j] = told[from + j] /\ all[j] = waiting[j]
        BY <1>3, <2>1, <2>2, <3>1
      <4>2. told[from + j].of \in Streamed /\ waiting[j] = L!Text(Name(told[from + j].of), told[from + j])
        BY <2>1, <3>1 DEF IsItems
      <4> QED  BY <4>1, <4>2
    <3>2. CASE j = Len(waiting) + 1
      <4>1. from + j = Len(more) /\ all[j] = item
        BY <1>3, <2>1, <2>2, <3>2
      <4>2. more[from + j] = d /\ d.of \in Streamed
        BY <4>1 DEF d
      <4> QED  BY <4>1, <4>2 DEF item
    <3> QED  BY <1>3, <3>1, <3>2
  <2>4. IsItems(more, all, from, m + 1)
    BY <1>3, <2>2, <2>3 DEF IsItems
  <2> QED  BY <2>4 DEF from
<1>. HIDE DEF all, m, k
<1>7. Len(more) = m + 1
  BY DEF m
<1>8. IsLog(more, log, all, upto)
  BY <1>1, <1>3, <1>4, <1>5, <1>6, <1>7 DEF IsLog, k
<1> QED  BY <1>8 DEF all

\* release: what waits becomes an entry.
LEMMA Releases ==
  ASSUME NEW told, Len(told) \in Nat, NEW log, NEW waiting, NEW upto, IsLog(told, log, waiting, upto),
         Len(log) \in Nat
  PROVE  LET longer == log \o L!Released(waiting)
         IN /\ Len(longer) \in Nat /\ Len(log) <= Len(longer)
            /\ \E further : /\ IsLog(told, longer, << >>, further)
                            /\ \A i \in 0..Len(log) : further[i] = upto[i]
<1>. DEFINE m == Len(told)
            k == Len(log)
            longer == log \o L!Released(waiting)
<1>1. /\ log \in Seq(Written) /\ waiting \in Seq(Item)
      /\ upto[0] = 0 /\ \A i \in 0..k : upto[i] \in 0..m
      /\ \A i \in 1..k : IsEntry(told, log[i], upto[i - 1], upto[i])
      /\ IsItems(told, waiting, upto[k], m)
  BY DEF IsLog
<1>2. CASE waiting = << >>
  <2>1. longer = log
    BY <1>1, <1>2 DEF L!Released
  <2>2. IsLog(told, longer, << >>, upto)
    BY <1>2, <2>1
  <2> QED  BY <2>1, <2>2
<1>3. CASE waiting # << >>
  <2>. DEFINE e == [type |-> "messages", items |-> waiting]
              g == [i \in 0..(k + 1) |-> IF i = k + 1 THEN m ELSE upto[i]]
  <2>1. longer = Append(log, e)
    <3>1. longer = log \o <<e>>
      BY <1>3 DEF L!Released
    <3>. HIDE DEF e
    <3> QED  BY <1>1, <3>1
  <2>2. e \in Written /\ e.type = "messages" /\ e.items = waiting
    BY <1>1 DEF Written
  <2>. HIDE DEF e
  <2>3. longer \in Seq(Written) /\ Len(longer) = k + 1 /\ longer[k + 1] = e
        /\ \A i \in 1..k : longer[i] = log[i]
    BY <1>1, <2>1, <2>2
  <2>4. g[k + 1] = m /\ \A i \in 0..k : g[i] = upto[i]
    OBVIOUS
  <2>5. \A i \in 1..(k + 1) : (i \in 1..k /\ i \in 0..k /\ i - 1 \in 0..k) \/ (i = k + 1 /\ i - 1 = k /\ k \in 0..k)
    OBVIOUS
  <2>6. 0 \in 0..k /\ m \in 0..m /\ \A i \in 0..(k + 1) : i \in 0..k \/ i = k + 1
    OBVIOUS
  <2>. HIDE DEF g, longer
  <2>7. g[0] = 0 /\ \A i \in 0..(k + 1) : g[i] \in 0..m
    BY <1>1, <2>4, <2>6
  <2>8. ASSUME NEW i \in 1..(k + 1)
        PROVE  IsEntry(told, longer[i], g[i - 1], g[i])
    <3>1. CASE i \in 1..k
      BY <1>1, <2>3, <2>4, <2>5, <3>1
    <3>2. CASE i = k + 1
      <4>1. g[i - 1] = upto[k] /\ g[i] = m /\ longer[i] = e
        BY <2>3, <2>4, <2>5, <3>2
      <4> QED  BY <1>1, <2>2, <4>1 DEF IsEntry
    <3> QED  BY <2>5, <3>1, <3>2
  <2>9. IsItems(told, << >>, g[Len(longer)], m)
    <3>1. << >> \in Seq(Item) /\ Len(<< >>) = 0
      OBVIOUS
    <3> QED  BY <2>3, <2>4, <3>1 DEF IsItems
  <2>10. IsLog(told, longer, << >>, g)
    <3>1. << >> \in Seq(Item)
      OBVIOUS
    <3> QED  BY <2>3, <2>7, <2>8, <2>9, <3>1 DEF IsLog
  <2> QED  BY <2>3, <2>4, <2>10 DEF longer
<1> QED  BY <1>2, <1>3

\* values: a state is an entry of its own, behind what waited.
LEMMA WritesState ==
  ASSUME NEW told, Len(told) \in Nat, NEW more, Len(more) = Len(told) + 1,
         \A i \in 1..Len(told) : more[i] = told[i], more[Len(more)].of \in Todos,
         NEW log, NEW upto, IsLog(told, log, << >>, upto), Len(log) \in Nat
  PROVE  LET longer == log \o <<[type |-> "custom", state |-> more[Len(more)].of]>>
         IN /\ Len(longer) = Len(log) + 1
            /\ \E further : /\ IsLog(more, longer, << >>, further)
                            /\ \A i \in 0..Len(log) : further[i] = upto[i]
<1>. DEFINE m == Len(told)
            k == Len(log)
            s == more[Len(more)].of
            e == [type |-> "custom", state |-> s]
            longer == log \o <<e>>
            g == [i \in 0..(k + 1) |-> IF i = k + 1 THEN m + 1 ELSE upto[i]]
<1>1. /\ log \in Seq(Written)
      /\ upto[0] = 0 /\ \A i \in 0..k : upto[i] \in 0..m
      /\ \A i \in 1..k : IsEntry(told, log[i], upto[i - 1], upto[i])
      /\ upto[k] = m
  <2>1. IsItems(told, << >>, upto[k], m) /\ upto[k] \in 0..m
    BY DEF IsLog
  <2>2. upto[k] = m
    BY <2>1 DEF IsItems
  <2> QED  BY <2>2 DEF IsLog
<1>2. e \in Written /\ e.type = "custom" /\ e.state = s
  BY DEF Written
<1>. HIDE DEF e
<1>3. longer \in Seq(Written) /\ Len(longer) = k + 1 /\ longer[k + 1] = e
      /\ \A i \in 1..k : longer[i] = log[i]
  BY <1>1, <1>2
<1>4. g[k + 1] = m + 1 /\ \A i \in 0..k : g[i] = upto[i]
  OBVIOUS
<1>5. \A i \in 1..(k + 1) : (i \in 1..k /\ i \in 0..k /\ i - 1 \in 0..k) \/ (i = k + 1 /\ i - 1 = k /\ k \in 0..k)
  OBVIOUS
<1>6. 0 \in 0..k /\ k \in 0..k /\ m + 1 \in 0..(m + 1) /\ \A i \in 0..(k + 1) : i \in 0..k \/ i = k + 1
  OBVIOUS
<1>7. \A i \in 0..k : upto[i] \in Nat /\ upto[i] <= m /\ upto[i] \in 0..(m + 1)
  BY <1>1
<1>8. Len(more) = m + 1 /\ more[m + 1].of = s /\ s \in Todos
  OBVIOUS
<1>. HIDE DEF g, longer, s
<1>9. g[0] = 0 /\ \A i \in 0..(k + 1) : g[i] \in 0..(m + 1)
  BY <1>1, <1>4, <1>6, <1>7
<1>10. ASSUME NEW i \in 1..(k + 1)
       PROVE  IsEntry(more, longer[i], g[i - 1], g[i])
  <2>1. CASE i \in 1..k
    <3>. DEFINE from == upto[i - 1]
                to == upto[i]
    <3>1. from \in Nat /\ to \in Nat /\ to <= m /\ IsEntry(told, log[i], from, to)
          /\ g[i - 1] = from /\ g[i] = to /\ longer[i] = log[i]
      BY <1>1, <1>3, <1>4, <1>5, <1>7, <2>1
    <3>. HIDE DEF from, to
    <3>2. m \in Nat /\ \A j \in 1..m : more[j] = told[j]
      OBVIOUS
    <3>. DEFINE entry == log[i]
    <3>3. from \in Nat /\ to \in Nat /\ to <= m /\ IsEntry(told, entry, from, to)
      BY <3>1
    <3>. HIDE DEF m, entry
    <3>4. IsEntry(more, entry, from, to)
      BY ONLY <3>2, <3>3, EntryStays
    <3> QED  BY <3>1, <3>4 DEF entry
  <2>2. CASE i = k + 1
    <3>1. g[i - 1] = m /\ g[i] = m + 1 /\ longer[i] = e
      BY <1>1, <1>3, <1>4, <1>5, <2>2
    <3> QED  BY <1>2, <1>8, <3>1 DEF IsEntry
  <2> QED  BY <1>5, <2>1, <2>2
<1>11. IsItems(more, << >>, g[Len(longer)], m + 1)
  <2>1. << >> \in Seq(Item) /\ Len(<< >>) = 0
    OBVIOUS
  <2> QED  BY <1>3, <1>4, <2>1 DEF IsItems
<1>12. IsLog(more, longer, << >>, g)
  <2>1. << >> \in Seq(Item)
    OBVIOUS
  <2> QED  BY <1>3, <1>8, <1>9, <1>10, <1>11, <2>1 DEF IsLog
<1> QED  BY <1>3, <1>4, <1>12 DEF longer, e, s

\* StartMessage: a message gets its name.
LEMMA StartNames ==
  ASSUME NEW m \in Streamed, AreNamed(messageIds, open, over), L!StartMessage(m)
  PROVE  AreNamed(messageIds', open', over')
<1>. DEFINE key == CallOf[m]
            name == L!Assigned(key, IdOf[m])
<1>1. /\ m \notin open \cup over /\ \A other \in open : CallOf[other] # key
      /\ open' = open \cup {m} /\ over' = over
      /\ messageIds' = [k \in DOMAIN messageIds \cup {key} |-> IF k = key THEN name ELSE messageIds[k]]
  BY DEF L!StartMessage, L!StreamKey, L!Named
<1>2. name = Name(m)
  <2>1. CASE IdOf[m] # NoId
    BY <2>1 DEF L!Assigned, Name
  <2>2. CASE IdOf[m] = NoId
    <3>1. ASSUME NEW o \in Streamed \ {m}
          PROVE  CallOf[m] # CallOf[o]
      BY <2>2, LiveParameters
    <3>2. key \notin DOMAIN messageIds
      <4>1. ASSUME key \in DOMAIN messageIds
            PROVE  FALSE
        <5>1. PICK o \in open \cup over : key = CallOf[o]
          BY <4>1 DEF AreNamed
        <5>2. o \in Streamed \ {m}
          BY <1>1, <5>1 DEF AreNamed
        <5> QED  BY <3>1, <5>1, <5>2
      <4> QED  BY <4>1
    <3> QED  BY <2>2, <3>2 DEF L!Assigned, Name
  <2> QED  BY <2>1, <2>2
<1>. HIDE DEF name
<1>3. DOMAIN messageIds' = DOMAIN messageIds \cup {key} /\ messageIds'[key] = name
      /\ \A k \in DOMAIN messageIds : k # key => messageIds'[k] = messageIds[k]
  BY <1>1
<1>4. DOMAIN messageIds' \subseteq {CallOf[o] : o \in open' \cup over'}
  BY <1>1, <1>3 DEF AreNamed
<1>5. ASSUME NEW o \in open'
      PROVE  /\ CallOf[o] \in DOMAIN messageIds' /\ messageIds'[CallOf[o]] = Name(o)
             /\ \A other \in open' : CallOf[other] = CallOf[o] => other = o
  <2>1. CASE o = m
    BY <1>1, <1>2, <1>3, <2>1
  <2>2. CASE o \in open /\ o # m
    <3>1. CallOf[o] \in DOMAIN messageIds /\ messageIds[CallOf[o]] = Name(o) /\ CallOf[o] # key
          /\ \A other \in open : CallOf[other] = CallOf[o] => other = o
      BY <1>1, <2>2 DEF AreNamed
    <3> QED  BY <1>1, <1>3, <2>2, <3>1
  <2> QED  BY <1>1, <2>1, <2>2
<1>6. open' \subseteq Streamed /\ over' \subseteq Streamed
  BY <1>1 DEF AreNamed
<1> QED  BY <1>4, <1>5, <1>6 DEF AreNamed

\* At the start nothing is said and the page shows what was there before.
LEMMA LiveInit == L!Init => LiveInv
<1>1. SUFFICES ASSUME L!Init PROVE LiveInv
  OBVIOUS
<1>2. /\ spoken = << >> /\ open = {} /\ over = {} /\ messageIds = << >> /\ lastState = L!NoState
      /\ bucket = << >> /\ entries = << >> /\ cards = L!Earlier /\ next = 0 /\ breaks = 0
  BY <1>1 DEF L!Init
<1>3. InOrderSaid(spoken)
  BY <1>2 DEF InOrderSaid
<1>4. AreNamed(messageIds, open, over)
  <2>1. DOMAIN messageIds = {}
    BY <1>2
  <2> QED  BY <1>2, <2>1 DEF AreNamed
<1>5. breaks \in 0..MaxBreaks
  <2>1. MaxBreaks \in Nat
    BY LiveParameters
  <2> QED  BY <1>2, <2>1
<1>6. IsPage(spoken, entries, bucket, cards, next)
  <2>. DEFINE f == [i \in {0} |-> 0]
  <2>1. f[0] = 0
    OBVIOUS
  <2>2. << >> \in Seq(Written) /\ << >> \in Seq(Item) /\ Len(<< >>) = 0
    OBVIOUS
  <2>. HIDE DEF f
  <2>3. IsItems(<< >>, << >>, f[0], 0)
    BY <2>1, <2>2 DEF IsItems
  <2>4. IsLog(<< >>, << >>, << >>, f)
    BY <2>1, <2>2, <2>3 DEF IsLog
  <2>5. \E n \in 0..Len(spoken) : \E b \in Nat : Shows(spoken, cards, n, b)
    <3>1. Shows(spoken, cards, 0, 0)
      BY <1>2, StartsShowing
    <3> QED  BY <1>2, <2>2, <3>1
  <2> QED  BY <1>2, <2>2, <2>4, <2>5 DEF IsPage
<1> QED  BY <1>2, <1>3, <1>4, <1>5, <1>6 DEF LiveInv

\* What a message says next has its number.
LEMMA SpeaksNext ==
  ASSUME NEW m \in Streamed, InOrderSaid(spoken), L!Said(m) < MaxDeltas
  PROVE  LET d == [of |-> m, n |-> L!Said(m) + 1]
         IN d \in L!Delta /\ d \in Said /\ d.of = m /\ L!Said(m) = Cardinality(Of(spoken, m, Len(spoken)))
<1>1. Len(spoken) \in Nat /\ DOMAIN spoken = 1..Len(spoken)
  BY DEF InOrderSaid
<1>2. {i \in DOMAIN spoken : spoken[i].of = m} = Of(spoken, m, Len(spoken))
  BY <1>1 DEF Of
<1>3. L!Said(m) = Cardinality(Of(spoken, m, Len(spoken)))
  BY <1>2, SameSize DEF L!Said
<1>4. Len(spoken) \in 0..Len(spoken)
  BY <1>1
<1>5. L!Said(m) \in Nat
  BY <1>3, <1>4, SaidIs
<1>6. MaxDeltas \in Nat
  BY LiveParameters
<1>7. L!Said(m) + 1 \in 1..MaxDeltas
  BY <1>5, <1>6
<1> QED  BY <1>3, <1>7 DEF L!Delta, Said

\* Speak: the delta waits, or is written with what waited.
LEMMA LiveSpeak == ASSUME LiveInv, NEW m \in Streamed, L!Speak(m) PROVE LiveInv'
<1>. DEFINE d == [of |-> m, n |-> L!Said(m) + 1]
            item == L!Text(L!Assigned(L!StreamKey(m), NoId), d)
            filled == Append(bucket, item)
            key == CallOf[m]
<1>1. /\ m \in open /\ L!Said(m) < MaxDeltas /\ spoken' = Append(spoken, d)
      /\ messageIds' = [k \in DOMAIN messageIds \cup {key} |-> IF k = key THEN L!Assigned(key, NoId) ELSE messageIds[k]]
      /\ \/ bucket' = << >> /\ entries' = entries \o L!Released(filled)
         \/ bucket' = filled /\ entries' = entries
      /\ UNCHANGED <<open, over, lastState, cards, next, breaks>>
  BY DEF L!Speak, L!StreamKey, L!Named
<1>2. /\ InOrderSaid(spoken) /\ AreNamed(messageIds, open, over)
      /\ lastState \in Todos \cup {L!NoState} /\ breaks \in 0..MaxBreaks
      /\ IsPage(spoken, entries, bucket, cards, next)
  BY DEF LiveInv
<1>3. /\ key \in DOMAIN messageIds /\ messageIds[key] = Name(m)
  BY <1>1, <1>2 DEF AreNamed
<1>4. L!Assigned(key, NoId) = Name(m) /\ item = L!Text(Name(m), d)
  <2>1. L!Assigned(key, NoId) = Name(m)
    BY <1>3 DEF L!Assigned
  <2> QED  BY <2>1 DEF L!StreamKey
<1>5. AreNamed(messageIds', open', over')
  <2>1. DOMAIN messageIds' = DOMAIN messageIds
    BY <1>1, <1>3
  <2>2. \A k \in DOMAIN messageIds : messageIds'[k] = messageIds[k]
    BY <1>1, <1>3, <1>4
  <2>3. open' = open /\ over' = over
    BY <1>1
  <2> QED  BY <1>2, <2>1, <2>2, <2>3 DEF AreNamed
<1>6. d \in L!Delta /\ d \in Said /\ d.of = m /\ d = [of |-> d.of, n |-> Cardinality(Of(spoken, d.of, Len(spoken))) + 1]
  BY <1>1, <1>2, SpeaksNext
<1>. HIDE DEF d, item
<1>7. /\ InOrderSaid(spoken') /\ Len(spoken) \in Nat /\ Len(spoken') = Len(spoken) + 1
      /\ spoken'[Len(spoken) + 1] = d /\ \A i \in 1..Len(spoken) : spoken'[i] = spoken[i]
  BY <1>1, <1>2, <1>6, SaidMore
<1>8. PICK upto : /\ IsLog(spoken, entries, bucket, upto)
                  /\ next # 0 => Shows(spoken, cards, upto[next - 1], next)
  BY <1>2 DEF IsPage
<1>9. /\ next = 0 => \E n \in 0..Len(spoken) : \E b \in Nat : Shows(spoken, cards, n, b)
      /\ Len(entries) \in Nat /\ next \in 0..(Len(entries) + 1)
  BY <1>2, <1>8 DEF IsPage, IsLog
<1>10. IsLog(spoken', entries, filled, upto)
  <2>1. spoken'[Len(spoken')] = d /\ spoken'[Len(spoken')].of \in Streamed /\ spoken'[Len(spoken')] \in L!Delta
    BY <1>6, <1>7
  <2>2. IsLog(spoken', entries, Append(bucket, L!Text(Name(spoken'[Len(spoken')].of), spoken'[Len(spoken')])), upto)
    BY <1>7, <1>8, <1>9, <2>1, WaitsToo
  <2> QED  BY <1>4, <1>6, <2>1, <2>2
<1>. HIDE DEF filled
<1>11. PICK further : /\ IsLog(spoken', entries', bucket', further)
                      /\ Len(entries') \in Nat /\ Len(entries) <= Len(entries')
                      /\ \A i \in 0..Len(entries) : further[i] = upto[i]
  <2>1. CASE bucket' = filled /\ entries' = entries
    <3>1. Len(entries) <= Len(entries)
      BY <1>9
    <3> QED  BY <1>9, <1>10, <2>1, <3>1
  <2>2. CASE bucket' = << >> /\ entries' = entries \o L!Released(filled)
    <3>1. Len(spoken') \in Nat
      BY <1>7
    <3>2. LET longer == entries \o L!Released(filled)
          IN /\ Len(longer) \in Nat /\ Len(entries) <= Len(longer)
             /\ \E more : /\ IsLog(spoken', longer, << >>, more)
                          /\ \A i \in 0..Len(entries) : more[i] = upto[i]
      BY <1>9, <1>10, <3>1, Releases
    <3> QED  BY <2>2, <3>2
  <2> QED  BY <1>1, <2>1, <2>2
<1>12. IsPage(spoken', entries', bucket', cards, next)
  <2>1. Len(spoken) <= Len(spoken') /\ Len(spoken') \in Nat
    BY <1>7
  <2> QED  BY <1>7, <1>8, <1>9, <1>11, <2>1, LogGrows
<1> QED  BY <1>1, <1>2, <1>5, <1>7, <1>12 DEF LiveInv

\* ChangeState: a state is written behind what waited.
LEMMA LiveChange == ASSUME LiveInv, NEW s \in Todos, L!ChangeState(s) PROVE LiveInv'
<1>. DEFINE d == L!Told(s)
            before == entries \o L!Released(bucket)
<1>1. /\ lastState' = s /\ spoken' = Append(spoken, d)
      /\ entries' = before \o <<[type |-> "custom", state |-> s]>> /\ bucket' = << >>
      /\ UNCHANGED <<open, over, messageIds, cards, next, breaks>>
  BY DEF L!ChangeState
<1>2. /\ InOrderSaid(spoken) /\ AreNamed(messageIds, open, over)
      /\ lastState \in Todos \cup {L!NoState} /\ breaks \in 0..MaxBreaks
      /\ IsPage(spoken, entries, bucket, cards, next)
  BY DEF LiveInv
<1>3. d \in Said /\ d.of = s
  BY DEF Said, L!Told
<1>4. AreNamed(messageIds', open', over')
  BY <1>1, <1>2
<1>5. /\ InOrderSaid(spoken') /\ Len(spoken) \in Nat /\ Len(spoken') = Len(spoken) + 1
      /\ spoken'[Len(spoken) + 1] = d /\ \A i \in 1..Len(spoken) : spoken'[i] = spoken[i]
  <2>1. d.of \in Todos /\ d = L!Told(d.of)
    BY <1>3
  <2>. HIDE DEF d
  <2> QED  BY <1>1, <1>2, <1>3, <2>1, SaidMore
<1>6. PICK upto : /\ IsLog(spoken, entries, bucket, upto)
                  /\ next # 0 => Shows(spoken, cards, upto[next - 1], next)
  BY <1>2 DEF IsPage
<1>7. /\ next = 0 => \E n \in 0..Len(spoken) : \E b \in Nat : Shows(spoken, cards, n, b)
      /\ Len(entries) \in Nat /\ next \in 0..(Len(entries) + 1)
  BY <1>2, <1>6 DEF IsPage, IsLog
<1>8. PICK between : /\ IsLog(spoken, before, << >>, between)
                     /\ Len(before) \in Nat /\ Len(entries) <= Len(before)
                     /\ \A i \in 0..Len(entries) : between[i] = upto[i]
  BY <1>5, <1>6, <1>7, Releases
<1>. HIDE DEF before, d
<1>9. PICK further : /\ IsLog(spoken', entries', bucket', further)
                     /\ Len(entries') = Len(before) + 1
                     /\ \A i \in 0..Len(before) : further[i] = between[i]
  <2>1. spoken'[Len(spoken')] = d /\ spoken'[Len(spoken')].of \in Todos
    BY <1>3, <1>5
  <2>2. LET longer == before \o <<[type |-> "custom", state |-> spoken'[Len(spoken')].of]>>
        IN /\ Len(longer) = Len(before) + 1
           /\ \E more : /\ IsLog(spoken', longer, << >>, more)
                        /\ \A i \in 0..Len(before) : more[i] = between[i]
    BY <1>5, <1>8, <2>1, WritesState
  <2> QED  BY <1>1, <1>3, <2>1, <2>2
<1>10. IsPage(spoken', entries', bucket', cards, next)
  <2>1. Len(spoken) <= Len(spoken') /\ Len(spoken') \in Nat
    BY <1>5
  <2>2. Len(entries') \in Nat /\ Len(entries) <= Len(entries')
    BY <1>7, <1>8, <1>9
  <2>3. \A i \in 0..Len(entries) : further[i] = upto[i]
    BY <1>7, <1>8, <1>9
  <2> QED  BY <1>5, <1>6, <1>7, <1>9, <2>1, <2>2, <2>3, LogGrows
<1> QED  BY <1>1, <1>2, <1>4, <1>5, <1>10 DEF LiveInv

\* ReleaseAll: nothing waits any more.
LEMMA LiveReleaseAll == ASSUME LiveInv, L!ReleaseAll PROVE LiveInv'
<1>1. /\ entries' = entries \o L!Released(bucket) /\ bucket' = << >>
      /\ UNCHANGED <<spoken, open, over, messageIds, lastState, cards, next, breaks>>
  BY DEF L!ReleaseAll
<1>2. /\ InOrderSaid(spoken) /\ IsPage(spoken, entries, bucket, cards, next)
  BY DEF LiveInv
<1>3. Len(spoken) \in Nat
  BY <1>2 DEF InOrderSaid
<1>4. PICK upto : /\ IsLog(spoken, entries, bucket, upto)
                  /\ next # 0 => Shows(spoken, cards, upto[next - 1], next)
  BY <1>2 DEF IsPage
<1>5. /\ next = 0 => \E n \in 0..Len(spoken) : \E b \in Nat : Shows(spoken, cards, n, b)
      /\ Len(entries) \in Nat /\ next \in 0..(Len(entries) + 1)
  BY <1>2, <1>4 DEF IsPage, IsLog
<1>6. PICK further : /\ IsLog(spoken, entries', bucket', further)
                     /\ Len(entries') \in Nat /\ Len(entries) <= Len(entries')
                     /\ \A i \in 0..Len(entries) : further[i] = upto[i]
  BY <1>1, <1>3, <1>4, <1>5, Releases
<1>7. IsPage(spoken, entries', bucket', cards, next)
  <2>1. Len(spoken) <= Len(spoken) /\ \A i \in 1..Len(spoken) : spoken[i] = spoken[i]
    BY <1>3
  <2> QED  BY <1>3, <1>4, <1>5, <1>6, <2>1, LogGrows
<1> QED  BY <1>1, <1>7 DEF LiveInv

\* The page connects, loses its connection, and reads.
LEMMA LivePage == ASSUME LiveInv, L!Connect \/ L!Break \/ L!ReadEntry PROVE LiveInv'
<1>1. /\ InOrderSaid(spoken) /\ IsPage(spoken, entries, bucket, cards, next) /\ Len(spoken) \in Nat
      /\ breaks \in 0..MaxBreaks
  BY DEF LiveInv, InOrderSaid
<1>2. PICK upto : /\ IsLog(spoken, entries, bucket, upto)
                  /\ next # 0 => Shows(spoken, cards, upto[next - 1], next)
  BY <1>1 DEF IsPage
<1>3. /\ next = 0 => \E n \in 0..Len(spoken) : \E b \in Nat : Shows(spoken, cards, n, b)
      /\ Len(entries) \in Nat /\ next \in 0..(Len(entries) + 1) /\ DOMAIN entries = 1..Len(entries)
      /\ upto[0] = 0 /\ \A i \in 0..Len(entries) : upto[i] \in 0..Len(spoken)
  BY <1>1, <1>2 DEF IsPage, IsLog
<1>4. UNCHANGED <<spoken, open, over, messageIds, lastState, bucket, entries>>
  BY DEF L!Connect, L!Break, L!ReadEntry
<1>5. CASE L!Connect
  <2>1. next = 0 /\ next' = 1 /\ cards' = L!Cleared /\ breaks' = breaks
    BY <1>5 DEF L!Connect
  <2>2. PICK n \in 0..Len(spoken), b \in Nat : Shows(spoken, cards, n, b)
    BY <1>3, <2>1
  <2>3. cards' = L!Earlier
    BY <2>1, <2>2, ClearedIs
  <2>4. Shows(spoken, L!Earlier, 0, 1)
    BY StartsShowing
  <2>5. 1 \in 0..(Len(entries) + 1) /\ 1 - 1 = 0 /\ 1 # 0
    BY <1>3
  <2>6. IsPage(spoken, entries, bucket, L!Earlier, 1)
    BY <1>2, <1>3, <2>4, <2>5 DEF IsPage
  <2> QED  BY <1>4, <2>1, <2>3, <2>6 DEF LiveInv
<1>6. CASE L!Break
  <2>1. next # 0 /\ next' = 0 /\ breaks < MaxBreaks /\ breaks' = breaks + 1 /\ (cards' = L!Earlier \/ cards' = cards)
    BY <1>6 DEF L!Break
  <2>2. next - 1 \in 0..Len(entries) /\ next \in Nat
    BY <1>3, <2>1
  <2>3. Shows(spoken, cards, upto[next - 1], next) /\ upto[next - 1] \in 0..Len(spoken)
    BY <1>2, <1>3, <2>1, <2>2
  <2>4. Shows(spoken, L!Earlier, 0, 0) /\ 0 \in 0..Len(spoken) /\ 0 \in Nat
    BY <1>1, StartsShowing
  <2>5. \E n \in 0..Len(spoken) : \E b \in Nat : Shows(spoken, cards', n, b)
    BY <2>1, <2>2, <2>3, <2>4
  <2>6. 0 \in 0..(Len(entries) + 1)
    BY <1>3
  <2>7. IsPage(spoken, entries, bucket, cards', 0)
    BY <1>2, <2>5, <2>6 DEF IsPage
  <2>8. breaks' \in 0..MaxBreaks
    <3>1. MaxBreaks \in Nat
      BY LiveParameters
    <3> QED  BY <1>1, <2>1, <3>1
  <2> QED  BY <1>4, <2>1, <2>7, <2>8 DEF LiveInv
<1>7. CASE L!ReadEntry
  <2>1. /\ next \in 1..Len(entries) /\ next' = next + 1 /\ breaks' = breaks
        /\ cards' = IF entries[next].type = "messages"
                    THEN L!FoldLeft(L!AppendAiText, cards, entries[next].items)
                    ELSE L!SetTool(cards, next, entries[next].state)
    BY <1>3, <1>7 DEF L!ReadEntry
  <2>2. next # 0 /\ Shows(spoken, cards, upto[next - 1], next)
    BY <1>2, <2>1
  <2>3. Shows(spoken, cards', upto[next], next + 1)
    BY <1>1, <1>2, <1>3, <2>1, <2>2, ReadsEntry
  <2>4. next + 1 \in 0..(Len(entries) + 1) /\ (next + 1) - 1 = next /\ next + 1 # 0
    BY <1>3, <2>1
  <2>. DEFINE after == next + 1
  <2>5. after \in 0..(Len(entries) + 1) /\ after # 0 /\ Shows(spoken, cards', upto[after - 1], after)
    BY <2>3, <2>4
  <2>. HIDE DEF after
  <2>6. IsPage(spoken, entries, bucket, cards', after)
    BY <1>2, <2>5 DEF IsPage
  <2> QED  BY <1>4, <2>1, <2>6 DEF LiveInv, after
<1> QED  BY <1>5, <1>6, <1>7

\* Every step keeps the invariant.
LEMMA LiveStep == LiveInv /\ [L!Next]_(L!vars) => LiveInv'
<1>1. SUFFICES ASSUME LiveInv, [L!Next]_(L!vars) PROVE LiveInv'
  OBVIOUS
<1>2. ASSUME NEW m \in Streamed, L!StartMessage(m)
      PROVE  LiveInv'
  <2>1. UNCHANGED <<spoken, over, lastState, bucket, entries, cards, next, breaks>>
    BY <1>2 DEF L!StartMessage
  <2>2. AreNamed(messageIds', open', over')
    BY <1>1, <1>2, StartNames DEF LiveInv
  <2> QED  BY <1>1, <2>1, <2>2 DEF LiveInv
<1>3. ASSUME NEW m \in Streamed, L!FinishMessage(m)
      PROVE  LiveInv'
  <2>1. /\ m \in open /\ open' = open \ {m} /\ over' = over \cup {m}
        /\ UNCHANGED <<spoken, messageIds, lastState, bucket, entries, cards, next, breaks>>
    BY <1>3 DEF L!FinishMessage
  <2>2. open' \cup over' = open \cup over /\ open' \subseteq open
    BY <2>1
  <2>3. AreNamed(messageIds', open', over')
    BY <1>1, <2>1, <2>2 DEF LiveInv, AreNamed
  <2> QED  BY <1>1, <2>1, <2>3 DEF LiveInv
<1>4. CASE UNCHANGED L!vars
  BY <1>1, <1>4 DEF LiveInv, L!vars
<1> QED  BY <1>1, <1>2, <1>3, <1>4, LiveSpeak, LiveChange, LiveReleaseAll, LivePage DEF L!Next

\* The invariant says what the page must show.
LEMMA LiveImplies == LiveInv => L!TypeOK /\ L!PageTellsAnswer
<1>1. SUFFICES ASSUME LiveInv PROVE L!TypeOK /\ L!PageTellsAnswer
  OBVIOUS
<1>2. /\ InOrderSaid(spoken) /\ AreNamed(messageIds, open, over)
      /\ lastState \in Todos \cup {L!NoState} /\ breaks \in 0..MaxBreaks
      /\ IsPage(spoken, entries, bucket, cards, next) /\ Len(spoken) \in Nat
  BY <1>1 DEF LiveInv, InOrderSaid
<1>3. PICK upto : /\ IsLog(spoken, entries, bucket, upto)
                  /\ next # 0 => Shows(spoken, cards, upto[next - 1], next)
  BY <1>2 DEF IsPage
<1>4. /\ next = 0 => \E n \in 0..Len(spoken) : \E b \in Nat : Shows(spoken, cards, n, b)
      /\ Len(entries) \in Nat /\ next \in 0..(Len(entries) + 1)
      /\ entries \in Seq(Written) /\ bucket \in Seq(Item)
      /\ \A i \in 0..Len(entries) : upto[i] \in 0..Len(spoken)
      /\ IsItems(spoken, bucket, upto[Len(entries)], Len(spoken))
  BY <1>2, <1>3 DEF IsPage, IsLog
<1>. DEFINE caughtUp == next = Len(entries) + 1 /\ bucket = << >>
<1>5. PICK n \in 0..Len(spoken), b \in Nat : Shows(spoken, cards, n, b) /\ (caughtUp => n = Len(spoken))
  <2>1. CASE next = 0
    <3>1. PICK n \in 0..Len(spoken), b \in Nat : Shows(spoken, cards, n, b)
      BY <1>4, <2>1
    <3>2. ~caughtUp
      BY <1>4, <2>1
    <3> QED  BY <3>1, <3>2
  <2>2. CASE next # 0
    <3>1. next - 1 \in 0..Len(entries) /\ upto[next - 1] \in 0..Len(spoken)
      BY <1>4, <2>2
    <3>2. caughtUp => upto[next - 1] = Len(spoken)
      <4>1. ASSUME caughtUp
            PROVE  upto[next - 1] = Len(spoken)
        <5>1. next - 1 = Len(entries) /\ Len(bucket) = 0
          BY <1>4, <4>1
        <5>2. Len(spoken) = upto[Len(entries)] + Len(bucket)
          BY <1>4 DEF IsItems
        <5> QED  BY <3>1, <5>1, <5>2
      <4> QED  BY <4>1
    <3>3. next \in Nat
      BY <1>4
    <3> QED  BY <1>3, <2>2, <3>1, <3>2, <3>3
  <2> QED  BY <2>1, <2>2
<1>6. PICK s : Shown(spoken, cards, n, b, s)
  BY <1>5 DEF Shows
<1>7. /\ Len(cards) \in Nat /\ Len(cards) >= 3 /\ DOMAIN cards = 1..Len(cards) /\ cards \in Seq(CardType)
      /\ \A i \in 1..3 : cards[i] = L!Earlier[i]
  BY <1>5, CardsAre
<1>8. [i \in DOMAIN L!OfThisRun |-> L!OfThisRun[i].content] = L!Due(SubSeq(spoken, 1, n))
  <2>1. L!Due(SubSeq(spoken, 1, n)) = [k \in 1..(Len(cards) - 3) |-> cards[k + 3].content]
    BY <1>2, <1>6, <1>7, DueIs
  <2> QED  BY <1>5, <2>1, OfThisRunIs
<1>9. SubSeq(cards, 1, Len(L!Earlier)) = L!Earlier
  <2>1. Len(L!Earlier) = 3 /\ L!Earlier = [k \in 1..3 |-> L!Earlier[k]]
    BY EarlierIs
  <2>2. SubSeq(cards, 1, 3) = [k \in 1..3 |-> cards[k]]
    BY <1>7
  <2>3. [k \in 1..3 |-> cards[k]] = [k \in 1..3 |-> L!Earlier[k]]
    BY <1>7
  <2> QED  BY <2>1, <2>2, <2>3
<1>10. L!PageTellsAnswer
  BY <1>5, <1>8, <1>9 DEF L!PageTellsAnswer
<1>11. L!TypeOK
  <2>1. spoken \in Seq(L!Delta \cup {L!Told(x) : x \in Todos})
    BY <1>2 DEF InOrderSaid, Said
  <2>2. open \subseteq Streamed /\ over \subseteq Streamed /\ DOMAIN messageIds \subseteq {CallOf[m] : m \in Streamed}
    BY <1>2 DEF AreNamed
  <2>3. ASSUME NEW i \in DOMAIN bucket
        PROVE  bucket[i].delta \in L!Delta
    <3>1. bucket[i] \in Item
      BY <1>4
    <3> QED  BY <3>1 DEF Item
  <2>4. \A i \in DOMAIN entries : entries[i].type \in {"messages", "custom"}
    BY <1>4 DEF Written
  <2>5. ASSUME NEW i \in DOMAIN cards
        PROVE  cards[i].kind \in {"human", "text", "tool"}
    <3>1. cards[i] \in CardType
      BY <1>7
    <3> QED  BY <3>1 DEF CardType
  <2>6. next \in 0..Len(entries) + 1
    BY <1>4
  <2> QED  BY <1>2, <2>1, <2>2, <2>3, <2>4, <2>5, <2>6 DEF L!TypeOK
<1> QED  BY <1>10, <1>11

\* The types of the stream, its entries and the page.
THEOREM LiveTyped == L!Spec => []L!TypeOK
<1> QED  BY LiveInit, LiveStep, LiveImplies, PTL DEF L!Spec

\* What the page shows of a run is what the agent had said up to some moment.
THEOREM PageTells == L!Spec => []L!PageTellsAnswer
<1> QED  BY LiveInit, LiveStep, LiveImplies, PTL DEF L!Spec

-----------------------------------------------------------------------------
(* The sandboxes.                                                          *)

\* The parameters, in the words of the component.
LEMMA SandboxIs ==
  /\ SandboxOf \in [B!Calls -> SandboxKeys]
  /\ B!None \notin B!Calls /\ B!None \notin SandboxKeys
  /\ MaxContainers \in Nat /\ MaxSandboxFaults \in Nat
BY SandboxParameters DEF B!Calls, B!None

\* A step of a call of the provider, of the handler of its request, and one
\* that no call takes.
ProviderStep(c) ==
  \/ c \in SandboxRuns /\ (B!StartAcquire(c) \/ B!AfterAgent(c))
  \/ c \in SandboxDestroys /\ B!StartDestroy(c)
  \/ B!LockKey(c) \/ B!Answer(c) \/ B!GiveUp(c) \/ B!Store(c)

ProvisionerStep(c) ==
  B!ServeGet(c) \/ B!ServeCreate(c) \/ B!ServeWait(c) \/ B!ServeTouch(c) \/ B!ServeDelete(c)

ElsewhereStep ==
  \/ \E k \in SandboxKeys : B!ContainerStarts(k) \/ B!ContainerDies(k) \/ B!Expire(k) \/ B!Reap(k)
  \/ B!Shutdown \/ B!Scan \/ B!ReapForget \/ B!Restart

LEMMA SandboxStepsAre ==
  B!Next => \/ \E c \in B!Calls : ProviderStep(c) \/ ProvisionerStep(c)
            \/ ElsewhereStep
PROOF BY DEF B!Next, ProviderStep, ProvisionerStep, ElsewhereStep, B!Calls

-----------------------------------------------------------------------------
(* The types.                                                              *)

\* Only runs get what becomes a binding.
RunsBind ==
  \A c \in B!Calls :
    \/ toolCall[c].at \in {"getting", "creating", "storing"}
    \/ toolCall[c].at = "locking" /\ toolCall[c].op = "acquire"
    => c \in SandboxRuns

LEMMA ProviderTypes ==
  ASSUME B!TypeOK, RunsBind, NEW c \in B!Calls, ProviderStep(c)
  PROVE  B!TypeOK'
PROOF
<1>a. /\ SandboxOf[c] \in SandboxKeys /\ c # B!None
      /\ toolCall[c] \in B!Call /\ request[c] \in B!Request
      /\ toolCall \in [B!Calls -> B!Call] /\ request \in [B!Calls -> B!Request]
      /\ bindings \in [SandboxKeys -> 0..MaxContainers]
      /\ lock \in [SandboxKeys -> B!Calls \cup {B!None}]
      /\ sandboxFaults \in 0..MaxSandboxFaults
      /\ held \subseteq SandboxRuns
      /\ closed \in {"no", "emptied", "yes"}
  BY SandboxIs DEF B!TypeOK
<1>b. 0 \in 0..MaxContainers
  BY SandboxIs
<1>c. B!NoCall \in B!Call /\ B!NoRequest \in B!Request
  BY <1>b DEF B!NoCall, B!Call, B!NoRequest, B!Request
<1>d. B!End(c) => toolCall' \in [B!Calls -> B!Call]
  BY <1>a, <1>c DEF B!End
<1>e. B!Unlock(c) => lock' \in [SandboxKeys -> B!Calls \cup {B!None}]
  BY <1>a DEF B!Unlock
<1>f. ASSUME NEW s \in {"idle", "locking", "getting", "creating", "deleting", "storing"}, B!Goto(c, s)
      PROVE  toolCall' \in [B!Calls -> B!Call]
  BY <1>a, <1>f DEF B!Goto, B!Call
<1>g. ASSUME NEW s \in {"none", "get", "create", "delete"}, B!Send(c, s)
      PROVE  request' \in [B!Calls -> B!Request]
  BY <1>a, <1>b, <1>g DEF B!Send, B!Request, B!NoRequest
<1>h. ASSUME NEW f, B!Fault(f)
      PROVE  sandboxFaults' \in 0..MaxSandboxFaults
  BY <1>a, <1>h, SandboxIs DEF B!Fault
<1>1. CASE c \in SandboxRuns /\ B!StartAcquire(c)
  <2>1. toolCall' \in [B!Calls -> B!Call]
    BY <1>1, <1>a, <1>b DEF B!StartAcquire, B!NoCall, B!Call
  <2> QED  BY <2>1, <1>1 DEF B!StartAcquire, B!TypeOK, B!backend, B!reaper
<1>2. CASE c \in SandboxRuns /\ B!AfterAgent(c)
  <2>. DEFINE releasing == [B!NoCall EXCEPT !.at = "locking", !.op = "release"]
  <2>0. releasing \in B!Call
    BY <1>b DEF B!NoCall, B!Call
  <2>1. toolCall' \in [B!Calls -> B!Call]
    BY <1>2, <1>a, <2>0 DEF B!AfterAgent
  <2>2. held' \subseteq SandboxRuns
    BY <1>2, <1>a DEF B!AfterAgent
  <2> QED  BY <2>1, <2>2, <1>2 DEF B!AfterAgent, B!TypeOK, B!backend, B!reaper
<1>3. CASE c \in SandboxDestroys /\ B!StartDestroy(c)
  <2>. DEFINE to(stage) == [B!NoCall EXCEPT !.at = stage, !.op = "destroy"]
  <2>0. to("locking") \in B!Call /\ to("deleting") \in B!Call
    BY <1>b DEF B!NoCall, B!Call
  <2>1. toolCall' \in [B!Calls -> B!Call]
    BY <1>3, <1>a, <2>0 DEF B!StartDestroy
  <2>2. request' \in [B!Calls -> B!Request]
    BY <1>3, <1>a, <1>g DEF B!StartDestroy
  <2> QED  BY <2>1, <2>2, <1>3 DEF B!StartDestroy, B!TypeOK, B!backend, B!reaper
<1>4. CASE B!LockKey(c)
  <2>1. toolCall' \in [B!Calls -> B!Call]
    BY <1>4, <1>d, <1>f DEF B!LockKey, B!Release
  <2>2. request' \in [B!Calls -> B!Request]
    BY <1>4, <1>a, <1>g DEF B!LockKey, B!Release
  <2>3. lock' \in [SandboxKeys -> B!Calls \cup {B!None}]
    BY <1>4, <1>a DEF B!LockKey, B!Release
  <2>4. bindings' \in [SandboxKeys -> 0..MaxContainers] /\ held' \subseteq SandboxRuns
    BY <1>4, <1>a, <1>b DEF B!LockKey, B!Release
  <2> QED  BY <2>1, <2>2, <2>3, <2>4, <1>4 DEF B!LockKey, B!TypeOK, B!backend, B!reaper
<1>5. CASE B!Answer(c)
  <2>1. toolCall' \in [B!Calls -> B!Call]
    <3>1. CASE toolCall' = [toolCall EXCEPT ![c].at = "storing", ![c].url = request[c].url]
      BY <3>1, <1>a DEF B!Call, B!Request
    <3> QED  BY <3>1, <1>5, <1>a, <1>d, <1>f DEF B!Answer, B!Fail
  <2>2. request' \in [B!Calls -> B!Request]
    BY <1>5, <1>g DEF B!Answer
  <2>3. lock' \in [SandboxKeys -> B!Calls \cup {B!None}]
    BY <1>5, <1>a, <1>e DEF B!Answer, B!Fail
  <2>4. bindings' \in [SandboxKeys -> 0..MaxContainers]
    BY <1>5, <1>a, <1>b DEF B!Answer
  <2> QED  BY <2>1, <2>2, <2>3, <2>4, <1>5 DEF B!Answer, B!TypeOK, B!backend, B!reaper
<1>6. CASE B!GiveUp(c)
  <2>1. toolCall' \in [B!Calls -> B!Call] /\ lock' \in [SandboxKeys -> B!Calls \cup {B!None}]
    BY <1>6, <1>d, <1>e DEF B!GiveUp, B!Fail
  <2>2. sandboxFaults' \in 0..MaxSandboxFaults
    BY <1>6, <1>h DEF B!GiveUp
  <2> QED  BY <2>1, <2>2, <1>6 DEF B!GiveUp, B!TypeOK, B!backend, B!reaper
<1>7. CASE B!Store(c)
  <2>1. toolCall' \in [B!Calls -> B!Call] /\ lock' \in [SandboxKeys -> B!Calls \cup {B!None}]
    BY <1>7, <1>d, <1>e DEF B!Store
  <2>2. bindings' \in [SandboxKeys -> 0..MaxContainers]
    <3>1. toolCall[c].url \in 0..MaxContainers
      BY <1>a DEF B!Call
    <3> QED  BY <1>7, <1>a, <3>1 DEF B!Store
  <2>3. held' \subseteq SandboxRuns
    BY <1>7, <1>a DEF B!Store, RunsBind
  <2> QED  BY <2>1, <2>2, <2>3, <1>7 DEF B!Store, B!TypeOK, B!backend, B!reaper
<1> QED  BY <1>1, <1>2, <1>3, <1>4, <1>5, <1>6, <1>7 DEF ProviderStep

LEMMA ProvisionerTypes ==
  ASSUME B!TypeOK, NEW c \in B!Calls, ProvisionerStep(c)
  PROVE  B!TypeOK'
PROOF
<1>a. /\ SandboxOf[c] \in SandboxKeys /\ c # B!None
      /\ request[c] \in B!Request /\ request \in [B!Calls -> B!Request]
      /\ container[SandboxOf[c]] \in B!Container /\ container \in [SandboxKeys -> B!Container]
      /\ started \in 0..MaxContainers /\ sandboxFaults \in 0..MaxSandboxFaults
      /\ MaxContainers \in Nat /\ docker \in B!Calls \cup {B!None}
      /\ activity \in [SandboxKeys -> {"untracked", "fresh", "expired"}]
  BY SandboxIs DEF B!TypeOK
<1>b. /\ B!NoContainer \in B!Container
      /\ container[SandboxOf[c]].url \in 0..MaxContainers
      /\ request[c].url \in 0..MaxContainers
      /\ 0 \in 0..MaxContainers
  BY <1>a DEF B!NoContainer, B!Container, B!Request
<1>c. ASSUME NEW s \in {"touch", "done", "wait", "forget"}, NEW u \in 0..MaxContainers,
             B!Serve(c, s, u)
      PROVE  request' \in [B!Calls -> B!Request]
  BY <1>a, <1>c DEF B!Serve, B!Request
<1>d. B!Refuse(c) => request' \in [B!Calls -> B!Request]
  BY <1>a, <1>b DEF B!Refuse, B!Request
<1>e. ASSUME NEW f, B!Fault(f)
      PROVE  sandboxFaults' \in 0..MaxSandboxFaults
  BY <1>a, <1>e, SandboxIs DEF B!Fault
<1>1. CASE B!ServeGet(c)
  <2>1. request' \in [B!Calls -> B!Request]
    BY <1>1, <1>b, <1>c DEF B!ServeGet
  <2> QED  BY <2>1, <1>1 DEF B!ServeGet, B!TypeOK, B!provider, B!backend, B!reaper
<1>2. CASE B!ServeCreate(c)
  <2>1. CASE container[SandboxOf[c]].state = "running" /\ B!Serve(c, "touch", container[SandboxOf[c]].url)
             /\ UNCHANGED <<B!backend, sandboxFaults>>
    <3>1. request' \in [B!Calls -> B!Request]
      BY <2>1, <1>b, <1>c
    <3> QED  BY <2>1, <3>1, <1>2 DEF B!ServeCreate, B!TypeOK, B!provider, B!backend, B!reaper
  <2>2. CASE /\ started < MaxContainers
             /\ started' = started + 1
             /\ container' = [container EXCEPT ![SandboxOf[c]] = [url |-> started', state |-> "starting"]]
             /\ docker' = c
             /\ B!Serve(c, "wait", started')
             /\ UNCHANGED sandboxFaults
    <3>1. started' \in 0..MaxContainers
      BY <2>2, <1>a
    <3>2. [url |-> started', state |-> "starting"] \in B!Container
      BY <3>1 DEF B!Container
    <3>3. request' \in [B!Calls -> B!Request] /\ container' \in [SandboxKeys -> B!Container]
      BY <2>2, <3>1, <3>2, <1>a, <1>c
    <3> QED  BY <2>2, <3>1, <3>3, <1>2 DEF B!ServeCreate, B!TypeOK, B!provider, B!reaper
  <2>3. CASE /\ B!Fault("docker") \/ (started = MaxContainers /\ UNCHANGED sandboxFaults)
             /\ container' = [container EXCEPT ![SandboxOf[c]] = B!NoContainer]
             /\ B!Refuse(c)
             /\ UNCHANGED <<docker, started>>
    <3>1. container' \in [SandboxKeys -> B!Container]
      BY <2>3, <1>a, <1>b
    <3>2. request' \in [B!Calls -> B!Request] /\ sandboxFaults' \in 0..MaxSandboxFaults
      BY <2>3, <1>a, <1>d, <1>e
    <3> QED  BY <2>3, <3>1, <3>2, <1>2 DEF B!ServeCreate, B!TypeOK, B!provider, B!reaper
  <2> QED  BY <2>1, <2>2, <2>3, <1>2 DEF B!ServeCreate
<1>3. CASE B!ServeWait(c)
  <2>1. request' \in [B!Calls -> B!Request]
    BY <1>3, <1>b, <1>c, <1>d DEF B!ServeWait
  <2>2. sandboxFaults' \in 0..MaxSandboxFaults
    BY <1>3, <1>a, <1>e DEF B!ServeWait
  <2> QED  BY <2>1, <2>2, <1>3 DEF B!ServeWait, B!TypeOK, B!provider, B!reaper
<1>4. CASE B!ServeTouch(c)
  <2>1. request' \in [B!Calls -> B!Request]
    BY <1>4, <1>b, <1>c DEF B!ServeTouch
  <2>2. activity' \in [SandboxKeys -> {"untracked", "fresh", "expired"}]
    BY <1>4, <1>a DEF B!ServeTouch
  <2> QED  BY <2>1, <2>2, <1>4 DEF B!ServeTouch, B!TypeOK, B!provider, B!backend
<1>5. CASE B!ServeDelete(c)
  <2>1. request' \in [B!Calls -> B!Request] /\ sandboxFaults' \in 0..MaxSandboxFaults
    BY <1>5, <1>a, <1>b, <1>c, <1>d, <1>e DEF B!ServeDelete
  <2>2. container' \in [SandboxKeys -> B!Container]
    BY <1>5, <1>a, <1>b DEF B!ServeDelete
  <2>3. activity' \in [SandboxKeys -> {"untracked", "fresh", "expired"}]
    BY <1>5, <1>a DEF B!ServeDelete
  <2> QED  BY <2>1, <2>2, <2>3, <1>5 DEF B!ServeDelete, B!TypeOK, B!provider
<1> QED  BY <1>1, <1>2, <1>3, <1>4, <1>5 DEF ProvisionerStep

LEMMA ElsewhereTypes ==
  ASSUME B!TypeOK, ElsewhereStep
  PROVE  B!TypeOK'
PROOF
<1>a. /\ request \in [B!Calls -> B!Request]
      /\ container \in [SandboxKeys -> B!Container]
      /\ sandboxFaults \in 0..MaxSandboxFaults /\ MaxSandboxFaults \in Nat /\ MaxContainers \in Nat
      /\ activity \in [SandboxKeys -> {"untracked", "fresh", "expired"}]
  BY SandboxIs DEF B!TypeOK
<1>b. B!NoContainer \in B!Container /\ [at |-> "done", url |-> 0, ok |-> FALSE] \in B!Request
  BY <1>a DEF B!NoContainer, B!Container, B!Request
<1>c. ASSUME NEW f, B!Fault(f)
      PROVE  sandboxFaults' \in 0..MaxSandboxFaults
  BY <1>a, <1>c DEF B!Fault
<1>1. ASSUME NEW k \in SandboxKeys, B!ContainerStarts(k)
      PROVE  B!TypeOK'
  <2>1. container' \in [SandboxKeys -> B!Container]
    BY <1>1, <1>a DEF B!ContainerStarts, B!Container
  <2> QED  BY <2>1, <1>1 DEF B!ContainerStarts, B!TypeOK, B!provider, B!reaper
<1>2. ASSUME NEW k \in SandboxKeys, B!ContainerDies(k)
      PROVE  B!TypeOK'
  <2>1. container' \in [SandboxKeys -> B!Container] /\ sandboxFaults' \in 0..MaxSandboxFaults
    BY <1>2, <1>a, <1>c DEF B!ContainerDies, B!Container
  <2> QED  BY <2>1, <1>2 DEF B!ContainerDies, B!TypeOK, B!provider, B!reaper
<1>3. ASSUME NEW k \in SandboxKeys, B!Expire(k)
      PROVE  B!TypeOK'
  BY <1>3 DEF B!Expire, B!TypeOK, B!provider, B!backend
<1>4. ASSUME NEW k \in SandboxKeys, B!Reap(k)
      PROVE  B!TypeOK'
  <2>1. container' \in [SandboxKeys -> B!Container] /\ sandboxFaults' \in 0..MaxSandboxFaults
    BY <1>4, <1>a, <1>b, <1>c DEF B!Reap
  <2>2. batch' \subseteq SandboxKeys /\ reaping' \in SandboxKeys \cup {B!None}
    BY <1>4 DEF B!Reap, B!TypeOK
  <2> QED  BY <2>1, <2>2, <1>4 DEF B!Reap, B!TypeOK, B!provider
<1>5. CASE B!Shutdown
  BY <1>5, <1>a DEF B!Shutdown, B!TypeOK, B!backend, B!reaper
<1>6. CASE B!Scan
  BY <1>6 DEF B!Scan, B!TypeOK, B!provider, B!backend
<1>7. CASE B!ReapForget
  BY <1>7 DEF B!ReapForget, B!TypeOK, B!provider, B!backend
<1>8. CASE B!Restart
  <2>1. request' \in [B!Calls -> B!Request] /\ sandboxFaults' \in 0..MaxSandboxFaults
    BY <1>8, <1>a, <1>b, <1>c DEF B!Restart
  <2> QED  BY <2>1, <1>8 DEF B!Restart, B!TypeOK, B!provider
<1> QED  BY <1>1, <1>2, <1>3, <1>4, <1>5, <1>6, <1>7, <1>8 DEF ElsewhereStep

-----------------------------------------------------------------------------
(* The locks.                                                              *)

\* Where a call is when its key is locked.
AtWork == {"getting", "creating", "deleting", "storing"}

\* Whoever gets a binding holds the lock of its key: a call that deletes may do
\* without.
KeysAreLocked ==
  \A c \in B!Calls : toolCall[c].at \in {"getting", "creating", "storing"} => lock[SandboxOf[c]] = c

LocksInv == RunsBind /\ KeysAreLocked /\ B!LocksAreReleased

LEMMA ProviderLocks ==
  ASSUME B!TypeOK, LocksInv, NEW c \in B!Calls, ProviderStep(c)
  PROVE  LocksInv'
PROOF
<1>a. /\ SandboxOf \in [B!Calls -> SandboxKeys] /\ SandboxOf[c] \in SandboxKeys /\ B!None \notin B!Calls
      /\ toolCall \in [B!Calls -> B!Call] /\ toolCall[c] \in B!Call
      /\ lock \in [SandboxKeys -> B!Calls \cup {B!None}]
  BY SandboxIs DEF B!TypeOK
\* A call that ends leaves the others where they are and holds nothing.
<1>b. ASSUME B!Fail(c)
      PROVE  LocksInv'
  <2>1. /\ toolCall'[c].at = "idle" /\ \A d \in B!Calls \ {c} : toolCall'[d] = toolCall[d]
        /\ \A k \in SandboxKeys : lock'[k] = IF lock[k] = c THEN B!None ELSE lock[k]
    BY <1>a, <1>b DEF B!Fail, B!End, B!Unlock, B!NoCall
  <2>2. RunsBind'
    BY <2>1 DEF RunsBind, LocksInv
  <2>3. KeysAreLocked'
    BY <2>1, <1>a DEF KeysAreLocked, LocksInv
  <2>4. B!LocksAreReleased'
    BY <2>1, <1>a DEF B!LocksAreReleased, LocksInv
  <2> QED  BY <2>2, <2>3, <2>4 DEF LocksInv
\* One that goes on keeps what it holds.
<1>c. ASSUME UNCHANGED lock, \A d \in B!Calls \ {c} : toolCall'[d] = toolCall[d],
             \/ toolCall[c].at \in AtWork /\ toolCall'[c].at \in AtWork
             \/ toolCall[c].at \notin AtWork /\ toolCall'[c].at \notin AtWork
             \/ toolCall[c].at \notin AtWork /\ toolCall'[c].at = "deleting",
             toolCall'[c].at \in {"getting", "creating", "storing"}
               => toolCall[c].at \in {"getting", "creating", "storing"},
             toolCall'[c].at = "locking" /\ toolCall'[c].op = "acquire" => c \in SandboxRuns
      PROVE  LocksInv'
  <2>1. RunsBind'
    BY <1>c DEF RunsBind, LocksInv
  <2>2. KeysAreLocked'
    BY <1>a, <1>c DEF KeysAreLocked, LocksInv
  <2>3. B!LocksAreReleased'
    BY <1>a, <1>c DEF B!LocksAreReleased, LocksInv, AtWork
  <2> QED  BY <2>1, <2>2, <2>3 DEF LocksInv
<1>1. CASE c \in SandboxRuns /\ B!StartAcquire(c)
  <2>1. toolCall[c].at = "idle" /\ toolCall'[c].at = "locking" /\ UNCHANGED lock
    BY <1>1, <1>a DEF B!StartAcquire, B!NoCall
  <2>2. \A d \in B!Calls \ {c} : toolCall'[d] = toolCall[d]
    BY <1>1, <1>a DEF B!StartAcquire
  <2> QED  BY <1>1, <1>c, <2>1, <2>2 DEF AtWork
<1>2. CASE c \in SandboxRuns /\ B!AfterAgent(c)
  <2>1. toolCall[c].at = "idle" /\ toolCall'[c].at \in {"idle", "locking"} /\ UNCHANGED lock
    BY <1>2, <1>a DEF B!AfterAgent, B!NoCall
  <2>2. \A d \in B!Calls \ {c} : toolCall'[d] = toolCall[d]
    BY <1>2, <1>a DEF B!AfterAgent
  <2> QED  BY <1>2, <1>c, <2>1, <2>2 DEF AtWork
<1>3. CASE c \in SandboxDestroys /\ B!StartDestroy(c)
  <2>1. /\ toolCall[c].at = "idle" /\ toolCall'[c].at \in {"locking", "deleting"}
        /\ toolCall'[c].op = "destroy" /\ UNCHANGED lock
    BY ZenonT(40), <1>3, <1>a DEF B!StartDestroy, B!NoCall
  <2>2. \A d \in B!Calls \ {c} : toolCall'[d] = toolCall[d]
    BY <1>3, <1>a DEF B!StartDestroy
  <2> QED  BY <1>c, <2>1, <2>2 DEF AtWork
<1>4. CASE B!LockKey(c)
  <2>1. CASE /\ UNCHANGED lock /\ B!End(c)
    <3>1. toolCall[c].at = "locking" /\ toolCall'[c].at = "idle"
      BY <1>4, <2>1, <1>a DEF B!LockKey, B!End, B!NoCall
    <3>2. \A d \in B!Calls \ {c} : toolCall'[d] = toolCall[d]
      BY <2>1, <1>a DEF B!End
    <3> QED  BY <1>c, <2>1, <3>1, <3>2 DEF AtWork
  <2>2. CASE /\ lock[SandboxOf[c]] = B!None
             /\ lock' = [lock EXCEPT ![SandboxOf[c]] = c]
             /\ \/ B!Goto(c, "getting") /\ toolCall[c].op = "acquire"
                \/ B!Goto(c, "deleting")
    <3>1. /\ toolCall[c].at = "locking"
          /\ \A d \in B!Calls \ {c} : toolCall'[d] = toolCall[d]
          /\ \/ toolCall'[c].at = "getting" /\ c \in SandboxRuns
             \/ toolCall'[c].at = "deleting"
      BY <1>4, <2>2, <1>a DEF B!LockKey, B!Goto, B!Call, LocksInv, RunsBind
    <3>2. lock'[SandboxOf[c]] = c /\ \A k \in SandboxKeys \ {SandboxOf[c]} : lock'[k] = lock[k]
      BY <2>2, <1>a
    <3>3. RunsBind'
      BY <3>1 DEF RunsBind, LocksInv
    <3>4. KeysAreLocked'
      <4>1. \A d \in B!Calls \ {c} : lock[SandboxOf[c]] # d
        BY <2>2, <1>a
      <4> QED  BY <3>1, <3>2, <4>1, <1>a DEF KeysAreLocked, LocksInv
    <3>5. B!LocksAreReleased'
      BY <3>1, <3>2, <1>a DEF B!LocksAreReleased, LocksInv
    <3> QED  BY <3>3, <3>4, <3>5 DEF LocksInv
  <2> QED  BY <1>4, <2>1, <2>2 DEF B!LockKey, B!Release, B!LockIsFree
<1>5. CASE B!Answer(c)
  <2>1. CASE /\ toolCall[c].at \in {"getting", "creating"}
             /\ toolCall' = [toolCall EXCEPT ![c].at = "storing", ![c].url = request[c].url]
             /\ UNCHANGED lock
    <3>1. toolCall'[c].at = "storing" /\ \A d \in B!Calls \ {c} : toolCall'[d] = toolCall[d]
      BY <2>1, <1>a DEF B!Call
    <3> QED  BY <1>c, <2>1, <3>1 DEF AtWork
  <2>2. CASE /\ toolCall[c].at = "getting"
             /\ B!Goto(c, "creating") /\ UNCHANGED lock
    <3>1. toolCall'[c].at = "creating" /\ \A d \in B!Calls \ {c} : toolCall'[d] = toolCall[d]
      BY <2>2, <1>a DEF B!Goto, B!Call
    <3> QED  BY <1>c, <2>2, <3>1 DEF AtWork
  <2>3. CASE B!Fail(c)
    BY <2>3, <1>b
  <2>4. CASE toolCall[c].at = "deleting" /\ B!End(c) /\ B!Unlock(c)
    BY <2>4, <1>b DEF B!Fail
  <2>5. CASE UNCHANGED <<toolCall, lock>>
    BY <2>5 DEF LocksInv, RunsBind, KeysAreLocked, B!LocksAreReleased
  <2> QED  BY <1>5, <2>1, <2>2, <2>3, <2>4, <2>5 DEF B!Answer
<1>6. CASE B!GiveUp(c)
  BY <1>6, <1>b DEF B!GiveUp
<1>7. CASE B!Store(c)
  BY <1>7, <1>b DEF B!Store, B!Fail
<1> QED  BY <1>1, <1>2, <1>3, <1>4, <1>5, <1>6, <1>7 DEF ProviderStep

LEMMA ElsewhereLocks ==
  ASSUME LocksInv, ElsewhereStep \/ (\E c \in B!Calls : ProvisionerStep(c)) \/ UNCHANGED B!vars
  PROVE  LocksInv'
PROOF
<1>1. UNCHANGED <<toolCall, lock>>
  BY DEF ElsewhereStep, ProvisionerStep, B!ContainerStarts, B!ContainerDies, B!Expire, B!Reap, B!Shutdown, B!Scan,
         B!ReapForget, B!Restart, B!ServeGet, B!ServeCreate, B!ServeWait, B!ServeTouch, B!ServeDelete,
         B!provider, B!vars
<1> QED  BY <1>1 DEF LocksInv, RunsBind, KeysAreLocked, B!LocksAreReleased

-----------------------------------------------------------------------------
(* The bindings.                                                           *)

\* A call may bind u to its key k: nothing newer is bound, and nothing older is
\* there.  0 is no URL.
MayBind(k, u) ==
  u # 0 => bindings[k] <= u /\ (container[k].url # 0 => u <= container[k].url)

\* No URL was made up, and what is there is not older than what is bound.
BoundUrls ==
  /\ \A k \in SandboxKeys : /\ container[k].url <= started /\ bindings[k] <= started
                            /\ container[k].url # 0 => bindings[k] <= container[k].url
  /\ \A c \in B!Calls : request[c].url <= started /\ toolCall[c].url <= started

\* What a call that holds the lock has been told, or is about to be.
AnswersBind ==
  \A c \in B!Calls :
    /\ toolCall[c].at \in {"getting", "creating"} => MayBind(SandboxOf[c], request[c].url)
    /\ toolCall[c].at = "storing" => MayBind(SandboxOf[c], toolCall[c].url)

BindInv == BoundUrls /\ AnswersBind /\ B!ClosedIsEmpty

LEMMA ProviderBinds ==
  ASSUME B!TypeOK, LocksInv, BindInv, NEW c \in B!Calls, ProviderStep(c)
  PROVE  BindInv' /\ B!MovesForward
PROOF
<1>a. /\ SandboxOf \in [B!Calls -> SandboxKeys] /\ SandboxOf[c] \in SandboxKeys
      /\ toolCall \in [B!Calls -> B!Call] /\ toolCall[c] \in B!Call
      /\ request \in [B!Calls -> B!Request] /\ request[c] \in B!Request
      /\ bindings \in [SandboxKeys -> 0..MaxContainers] /\ MaxContainers \in Nat
      /\ started \in 0..MaxContainers
      /\ container \in [SandboxKeys -> B!Container]
  BY SandboxIs DEF B!TypeOK
<1>b. /\ \A k \in SandboxKeys : bindings[k] \in Nat /\ container[k].url \in Nat
      /\ \A d \in B!Calls : request[d].url \in Nat /\ toolCall[d].url \in Nat
      /\ started \in Nat
  BY <1>a DEF B!Container, B!Call, B!Request
<1>c. UNCHANGED <<container, started>>
  BY DEF ProviderStep, B!StartAcquire, B!AfterAgent, B!StartDestroy, B!LockKey, B!Answer, B!GiveUp, B!Store,
         B!backend
\* A step that binds nothing, and tells nobody but the caller.
<1>d. ASSUME \A k \in SandboxKeys : bindings'[k] \in {bindings[k], 0}, closed' = closed,
             \A d \in B!Calls \ {c} : toolCall'[d] = toolCall[d] /\ request'[d] = request[d],
             request'[c].url \in {request[c].url, 0},
             toolCall'[c].url \in {toolCall[c].url, request[c].url, 0},
             \/ toolCall'[c].at \notin {"getting", "creating", "storing"}
             \/ toolCall'[c].at \in {"getting", "creating"} /\ request'[c].url = 0
             \/ /\ toolCall'[c].at = "storing" /\ toolCall[c].at \in {"getting", "creating"}
                /\ toolCall'[c].url = request[c].url
      PROVE  BindInv' /\ B!MovesForward
  <2>1. BoundUrls'
    BY <1>b, <1>c, <1>d DEF BoundUrls, BindInv
  <2>2. \A k \in SandboxKeys : \A u \in Nat : MayBind(k, u) => MayBind(k, u)'
    BY <1>b, <1>c, <1>d DEF MayBind
  <2>3. MayBind(SandboxOf[c], 0)'
    BY DEF MayBind
  <2>4. ASSUME NEW d \in B!Calls
        PROVE  /\ toolCall'[d].at \in {"getting", "creating"} => MayBind(SandboxOf[d], request[d].url)'
               /\ toolCall'[d].at = "storing" => MayBind(SandboxOf[d], toolCall[d].url)'
    <3>1. SandboxOf[d] \in SandboxKeys
      BY <1>a
    <3>2. CASE d # c
      <4>1. /\ toolCall[d].at \in {"getting", "creating"} => MayBind(SandboxOf[d], request[d].url)
            /\ toolCall[d].at = "storing" => MayBind(SandboxOf[d], toolCall[d].url)
        BY DEF BindInv, AnswersBind
      <4> QED  BY <1>b, <1>d, <2>2, <3>1, <3>2, <4>1 DEF MayBind
    <3>3. CASE d = c
      <4>1. toolCall[c].at \in {"getting", "creating"} => MayBind(SandboxOf[c], request[c].url)
        BY DEF BindInv, AnswersBind
      <4> QED  BY <1>b, <1>c, <1>d, <3>1, <3>3, <4>1 DEF MayBind
    <3> QED  BY <3>2, <3>3
  <2>5. AnswersBind'
    BY <2>4 DEF AnswersBind
  <2>6. B!ClosedIsEmpty'
    BY <1>d DEF BindInv, B!ClosedIsEmpty
  <2>7. B!MovesForward
    BY <1>b, <1>d DEF B!MovesForward
  <2> QED  BY <2>1, <2>5, <2>6, <2>7 DEF BindInv
<1>e. ASSUME B!End(c)
      PROVE  toolCall'[c].at = "idle" /\ toolCall'[c].url = 0 /\ \A d \in B!Calls \ {c} : toolCall'[d] = toolCall[d]
  BY <1>a, <1>e DEF B!End, B!NoCall
<1>f. ASSUME NEW s, B!Send(c, s)
      PROVE  request'[c].url = 0 /\ \A d \in B!Calls \ {c} : request'[d] = request[d]
  BY <1>a, <1>f DEF B!Send, B!NoRequest
<1>g. ASSUME NEW s, B!Goto(c, s)
      PROVE  /\ toolCall'[c].at = s /\ toolCall'[c].url = toolCall[c].url
             /\ \A d \in B!Calls \ {c} : toolCall'[d] = toolCall[d]
  BY <1>a, <1>g DEF B!Goto, B!Call
<1>1. CASE c \in SandboxRuns /\ B!StartAcquire(c)
  <2>1. /\ toolCall'[c].at = "locking" /\ toolCall'[c].url = 0
        /\ \A d \in B!Calls \ {c} : toolCall'[d] = toolCall[d]
    BY <1>1, <1>a DEF B!StartAcquire, B!NoCall
  <2> QED  BY <1>1, <1>d, <2>1 DEF B!StartAcquire
<1>2. CASE c \in SandboxRuns /\ B!AfterAgent(c)
  <2>1. /\ toolCall'[c].at \in {"idle", "locking"} /\ toolCall'[c].url \in {toolCall[c].url, 0}
        /\ \A d \in B!Calls \ {c} : toolCall'[d] = toolCall[d]
    BY <1>2, <1>a DEF B!AfterAgent, B!NoCall
  <2> QED  BY <1>2, <1>d, <2>1 DEF B!AfterAgent
<1>3. CASE c \in SandboxDestroys /\ B!StartDestroy(c)
  <2>1. /\ toolCall'[c].at \in {"locking", "deleting"} /\ toolCall'[c].url = 0
        /\ \A d \in B!Calls \ {c} : toolCall'[d] = toolCall[d]
    BY <1>3, <1>a DEF B!StartDestroy, B!NoCall
  <2>2. /\ request'[c].url \in {request[c].url, 0}
        /\ \A d \in B!Calls \ {c} : request'[d] = request[d]
    BY <1>3, <1>f DEF B!StartDestroy
  <2> QED  BY <1>3, <1>d, <2>1, <2>2 DEF B!StartDestroy
<1>4. CASE B!LockKey(c)
  <2>1. \A k \in SandboxKeys : bindings'[k] \in {bindings[k], 0}
    BY <1>4, <1>a DEF B!LockKey, B!Release
  <2>2. CASE B!End(c) /\ UNCHANGED request
    BY <1>4, <1>d, <1>e, <2>1, <2>2 DEF B!LockKey
  <2>3. CASE \/ B!Goto(c, "getting") /\ B!Send(c, "get")
             \/ B!Goto(c, "deleting") /\ B!Send(c, "delete")
    BY <1>4, <1>d, <1>f, <1>g, <2>1, <2>3 DEF B!LockKey
  <2> QED  BY <1>4, <2>2, <2>3 DEF B!LockKey, B!Release
<1>5. CASE B!Answer(c)
  <2>1. \A k \in SandboxKeys : bindings'[k] \in {bindings[k], 0}
    BY <1>5, <1>a DEF B!Answer
  <2>2. CASE /\ toolCall[c].at \in {"getting", "creating"}
             /\ toolCall' = [toolCall EXCEPT ![c].at = "storing", ![c].url = request[c].url]
             /\ B!Send(c, "none")
    <3>1. /\ toolCall'[c].at = "storing" /\ toolCall'[c].url = request[c].url
          /\ \A d \in B!Calls \ {c} : toolCall'[d] = toolCall[d]
      BY <2>2, <1>a DEF B!Call
    <3> QED  BY <1>5, <1>d, <1>f, <2>1, <2>2, <3>1 DEF B!Answer
  <2>3. CASE B!Goto(c, "creating") /\ B!Send(c, "create")
    BY <1>5, <1>d, <1>f, <1>g, <2>1, <2>3 DEF B!Answer
  <2>4. CASE B!End(c) /\ B!Send(c, "none")
    BY <1>5, <1>d, <1>e, <1>f, <2>1, <2>4 DEF B!Answer
  <2>5. CASE toolCall[c].at = "idle" /\ B!Send(c, "none") /\ UNCHANGED toolCall
    BY <1>5, <1>d, <1>f, <2>1, <2>5 DEF B!Answer
  <2> QED  BY <1>5, <2>2, <2>3, <2>4, <2>5 DEF B!Answer, B!Fail
<1>6. CASE B!GiveUp(c)
  BY <1>6, <1>d, <1>e DEF B!GiveUp, B!Fail
<1>7. CASE B!Store(c)
  <2>1. CASE closed # "no"
    BY <1>7, <1>d, <1>e, <2>1 DEF B!Store
  <2>2. CASE closed = "no"
    <3>1. /\ bindings'[SandboxOf[c]] = toolCall[c].url
          /\ \A k \in SandboxKeys \ {SandboxOf[c]} : bindings'[k] = bindings[k]
          /\ UNCHANGED <<request, closed>>
      BY <1>7, <2>2, <1>a DEF B!Store
    <3>2. MayBind(SandboxOf[c], toolCall[c].url)
      BY <1>7 DEF B!Store, BindInv, AnswersBind
    <3>3. toolCall'[c].at = "idle" /\ toolCall'[c].url = 0 /\ \A d \in B!Calls \ {c} : toolCall'[d] = toolCall[d]
      BY <1>7, <1>e DEF B!Store
    <3>4. BoundUrls'
      BY <1>a, <1>b, <1>c, <3>1, <3>2, <3>3 DEF BoundUrls, BindInv, MayBind
\* Nobody else has been told about the key, for c holds its lock.
    <3>5. ASSUME NEW d \in B!Calls \ {c}, toolCall[d].at \in {"getting", "creating", "storing"}
          PROVE  SandboxOf[d] # SandboxOf[c]
      BY <1>7, <3>5 DEF B!Store, LocksInv, KeysAreLocked
    <3>6. AnswersBind'
      BY <1>a, <1>c, <3>1, <3>3, <3>5 DEF BindInv, AnswersBind, MayBind
    <3>7. B!ClosedIsEmpty'
      BY <2>2, <3>1 DEF B!ClosedIsEmpty
    <3>8. B!MovesForward
      BY <1>b, <3>1, <3>2 DEF B!MovesForward, MayBind
    <3> QED  BY <3>4, <3>6, <3>7, <3>8 DEF BindInv
  <2> QED  BY <2>1, <2>2
<1> QED  BY <1>1, <1>2, <1>3, <1>4, <1>5, <1>6, <1>7 DEF ProviderStep

\* What the provisioner and the reaper do: containers disappear or are started with
\* the next URL, and a request is told what is there.
LEMMA Provisions ==
  ASSUME B!TypeOK, B!TypeOK', BindInv, UNCHANGED toolCall,
         \/ UNCHANGED <<bindings, closed>>
         \/ \A k \in SandboxKeys : bindings'[k] = 0,
         \/ started' = started /\ \A k \in SandboxKeys : container'[k].url \in {container[k].url, 0}
         \/ /\ started' = started + 1
            /\ \A k \in SandboxKeys : container'[k].url \in {container[k].url, started'},
         \A c \in B!Calls : request'[c].url \in {request[c].url, container'[SandboxOf[c]].url, 0}
  PROVE  BindInv' /\ B!MovesForward
PROOF
<1>1. /\ \A k \in SandboxKeys : /\ bindings[k] \in Nat /\ bindings'[k] \in Nat
                                /\ container[k].url \in Nat /\ container'[k].url \in Nat
      /\ \A c \in B!Calls : /\ SandboxOf[c] \in SandboxKeys
                            /\ request[c].url \in Nat /\ request'[c].url \in Nat
                            /\ toolCall[c].url \in Nat
      /\ started \in Nat /\ started' \in Nat
  BY SandboxIs DEF B!TypeOK, B!Container, B!Call, B!Request
<1>2. \A k \in SandboxKeys : bindings'[k] <= bindings[k]
  BY <1>1
<1>3. BoundUrls'
  <2>1. ASSUME NEW k \in SandboxKeys
        PROVE  container'[k].url <= started' /\ bindings'[k] <= started'
               /\ (container'[k].url # 0 => bindings'[k] <= container'[k].url)
    <3>1. /\ container[k].url <= started /\ bindings[k] <= started
          /\ container[k].url # 0 => bindings[k] <= container[k].url
      BY ONLY BindInv, <2>1 DEF BindInv, BoundUrls
    <3>2. container'[k].url \in {container[k].url, 0} \/ container'[k].url = started'
      BY <2>1
    <3>3. started' \in {started, started + 1} /\ bindings'[k] <= bindings[k]
      BY <1>2, <2>1
    <3>4. /\ bindings[k] \in Nat /\ bindings'[k] \in Nat /\ started \in Nat /\ started' \in Nat
          /\ container[k].url \in Nat /\ container'[k].url \in Nat
      BY <1>1, <2>1
    <3> QED  BY ONLY <3>1, <3>2, <3>3, <3>4
  <2>2. ASSUME NEW c \in B!Calls
        PROVE  request'[c].url <= started' /\ toolCall'[c].url <= started'
    <3>1. request[c].url <= started /\ toolCall[c].url <= started
      BY ONLY BindInv, <2>2 DEF BindInv, BoundUrls
    <3>2. /\ request[c].url \in Nat /\ request'[c].url \in Nat /\ toolCall[c].url \in Nat
          /\ started \in Nat /\ started' \in Nat /\ SandboxOf[c] \in SandboxKeys
      BY <1>1, <2>2
    <3>3. request'[c].url \in {request[c].url, container'[SandboxOf[c]].url, 0}
      BY <2>2
    <3>4. container'[SandboxOf[c]].url <= started' /\ container'[SandboxOf[c]].url \in Nat
      BY <1>1, <2>1, <3>2
    <3>5. started' \in {started, started + 1} /\ toolCall' = toolCall
      OBVIOUS
    <3> QED  BY ONLY <3>1, <3>2, <3>3, <3>4, <3>5
  <2> QED  BY <2>1, <2>2 DEF BoundUrls
<1>4. ASSUME NEW k \in SandboxKeys, NEW u \in Nat, u <= started, MayBind(k, u)
      PROVE  MayBind(k, u)'
  BY <1>1, <1>2, <1>4 DEF MayBind, BindInv, BoundUrls
<1>5. ASSUME NEW k \in SandboxKeys
      PROVE  MayBind(k, container[k].url)' /\ MayBind(k, 0)'
  <2>1. container'[k].url # 0 => bindings'[k] <= container'[k].url
    BY <1>3, <1>5 DEF BoundUrls
  <2>2. container'[k].url \in Nat
    BY <1>1, <1>5
  <2> QED  BY <2>1, <2>2 DEF MayBind
<1>6. ASSUME NEW c \in B!Calls, toolCall[c].at \in {"getting", "creating"}
      PROVE  MayBind(SandboxOf[c], request[c].url)'
  <2>1. MayBind(SandboxOf[c], request[c].url) /\ request[c].url <= started
    BY <1>6 DEF BindInv, AnswersBind, BoundUrls
  <2>2. MayBind(SandboxOf[c], container[SandboxOf[c]].url)' /\ MayBind(SandboxOf[c], 0)'
    BY <1>1, <1>5
  <2> QED  BY <1>1, <1>4, <2>1, <2>2 DEF MayBind
<1>7. ASSUME NEW c \in B!Calls, toolCall[c].at = "storing"
      PROVE  MayBind(SandboxOf[c], toolCall[c].url)'
  <2>1. MayBind(SandboxOf[c], toolCall[c].url) /\ toolCall[c].url <= started
    BY <1>7 DEF BindInv, AnswersBind, BoundUrls
  <2> QED  BY <1>1, <1>4, <2>1 DEF MayBind
<1>8. AnswersBind'
  BY <1>6, <1>7 DEF AnswersBind
<1>9. B!ClosedIsEmpty'
  BY DEF BindInv, B!ClosedIsEmpty
<1>10. B!MovesForward
  BY <1>1, <1>2 DEF B!MovesForward
<1> QED  BY <1>3, <1>8, <1>9, <1>10 DEF BindInv

LEMMA ProvisionerBinds ==
  ASSUME B!TypeOK, BindInv, NEW c \in B!Calls, ProvisionerStep(c)
  PROVE  BindInv' /\ B!MovesForward
PROOF
<1>a. /\ SandboxOf[c] \in SandboxKeys
      /\ request \in [B!Calls -> B!Request] /\ container \in [SandboxKeys -> B!Container]
  BY SandboxIs DEF B!TypeOK
<1>b. B!TypeOK'
  BY ProvisionerTypes
<1>c. UNCHANGED <<bindings, closed, toolCall>>
  BY DEF ProvisionerStep, B!ServeGet, B!ServeCreate, B!ServeWait, B!ServeTouch, B!ServeDelete, B!provider
<1>d. ASSUME NEW s, NEW u, B!Serve(c, s, u)
      PROVE  /\ request'[c].url = u
             /\ \A d \in B!Calls \ {c} : request'[d] = request[d]
  BY <1>a, <1>d DEF B!Serve
<1>e. ASSUME B!Refuse(c)
      PROVE  request'[c].url = 0 /\ \A d \in B!Calls \ {c} : request'[d] = request[d]
  BY <1>a, <1>e DEF B!Refuse
\* All but ServeCreate start nothing.
<1>f. ASSUME UNCHANGED started, \A k \in SandboxKeys : container'[k].url \in {container[k].url, 0},
             \A d \in B!Calls \ {c} : request'[d] = request[d],
             request'[c].url \in {request[c].url, container'[SandboxOf[c]].url, 0}
      PROVE  BindInv' /\ B!MovesForward
  <2>1. \A d \in B!Calls : request'[d].url \in {request[d].url, container'[SandboxOf[d]].url, 0}
    BY <1>f
  <2> QED  BY <1>b, <1>c, <1>f, <2>1, Provisions
<1>1. CASE B!ServeGet(c)
  <2>1. UNCHANGED <<container, started>>
    BY <1>1 DEF B!ServeGet, B!backend
  <2> QED  BY <1>1, <1>d, <1>f, <2>1 DEF B!ServeGet
<1>2. CASE B!ServeCreate(c)
  <2>1. CASE B!Serve(c, "touch", container[SandboxOf[c]].url) /\ UNCHANGED B!backend
    BY <2>1, <1>d, <1>f DEF B!backend
  <2>2. CASE /\ started' = started + 1
             /\ container' = [container EXCEPT ![SandboxOf[c]] = [url |-> started', state |-> "starting"]]
             /\ B!Serve(c, "wait", started')
    <3>1. /\ container'[SandboxOf[c]].url = started'
          /\ \A k \in SandboxKeys \ {SandboxOf[c]} : container'[k] = container[k]
      BY <2>2, <1>a
    <3>2. \A d \in B!Calls : request'[d].url \in {request[d].url, container'[SandboxOf[d]].url, 0}
      BY <2>2, <3>1, <1>d
    <3> QED  BY <1>b, <1>c, <2>2, <3>1, <3>2, Provisions
  <2>3. CASE /\ container' = [container EXCEPT ![SandboxOf[c]] = B!NoContainer]
             /\ B!Refuse(c) /\ UNCHANGED started
    <3>1. \A k \in SandboxKeys : container'[k].url \in {container[k].url, 0}
      BY <2>3, <1>a DEF B!NoContainer
    <3> QED  BY <2>3, <3>1, <1>e, <1>f
  <2> QED  BY <1>2, <2>1, <2>2, <2>3 DEF B!ServeCreate
<1>3. CASE B!ServeWait(c)
  <2>1. UNCHANGED <<container, started>>
    BY <1>3 DEF B!ServeWait
  <2> QED  BY <1>3, <1>d, <1>e, <1>f, <2>1 DEF B!ServeWait
<1>4. CASE B!ServeTouch(c)
  <2>1. UNCHANGED <<container, started>>
    BY <1>4 DEF B!ServeTouch, B!backend
  <2> QED  BY <1>4, <1>d, <1>f, <2>1 DEF B!ServeTouch
<1>5. CASE B!ServeDelete(c)
  <2>1. UNCHANGED started /\ \A k \in SandboxKeys : container'[k].url \in {container[k].url, 0}
    BY <1>5, <1>a DEF B!ServeDelete, B!NoContainer
  <2> QED  BY <1>5, <1>d, <1>e, <1>f, <2>1 DEF B!ServeDelete
<1> QED  BY <1>1, <1>2, <1>3, <1>4, <1>5 DEF ProvisionerStep

LEMMA ElsewhereBinds ==
  ASSUME B!TypeOK, BindInv, ElsewhereStep
  PROVE  BindInv' /\ B!MovesForward
PROOF
<1>a. container \in [SandboxKeys -> B!Container]
  BY DEF B!TypeOK
<1>b. B!TypeOK'
  BY ElsewhereTypes
<1>c. UNCHANGED <<toolCall, started>>
  BY DEF ElsewhereStep, B!ContainerStarts, B!ContainerDies, B!Expire, B!Reap, B!Shutdown, B!Scan, B!ReapForget,
         B!Restart, B!provider, B!backend
<1>1. \/ UNCHANGED <<bindings, closed>>
      \/ \A k \in SandboxKeys : bindings'[k] = 0
  BY DEF ElsewhereStep, B!ContainerStarts, B!ContainerDies, B!Expire, B!Reap, B!Shutdown, B!Scan, B!ReapForget,
         B!Restart, B!provider
<1>2. \A k \in SandboxKeys : container'[k].url \in {container[k].url, 0}
  <2>1. CASE \E k \in SandboxKeys : B!ContainerStarts(k) \/ B!ContainerDies(k)
    BY <2>1, <1>a DEF B!ContainerStarts, B!ContainerDies, B!Container
  <2>2. CASE \E k \in SandboxKeys : B!Reap(k)
    BY <2>2, <1>a DEF B!Reap, B!NoContainer
  <2>3. CASE UNCHANGED container
    BY <2>3
  <2> QED  BY <2>1, <2>2, <2>3 DEF ElsewhereStep, B!Expire, B!Shutdown, B!Scan, B!ReapForget, B!Restart, B!backend
<1>3. \A c \in B!Calls : request'[c].url \in {request[c].url, container'[SandboxOf[c]].url, 0}
  <2>1. CASE UNCHANGED request
    BY <2>1
  <2>2. CASE B!Restart
    BY <2>2 DEF B!Restart
  <2> QED  BY <2>1, <2>2 DEF ElsewhereStep, B!ContainerStarts, B!ContainerDies, B!Expire, B!Reap, B!Shutdown,
                             B!Scan, B!ReapForget
<1> QED  BY <1>b, <1>c, <1>1, <1>2, <1>3, Provisions

-----------------------------------------------------------------------------
(* The theorems.                                                           *)

SandboxInv == B!TypeOK /\ LocksInv /\ BindInv

LEMMA SandboxStarts == B!Init => SandboxInv
PROOF
<1> SUFFICES ASSUME B!Init PROVE SandboxInv
  OBVIOUS
<1>1. 0 \in 0..MaxContainers /\ 0 \in 0..MaxSandboxFaults
  BY SandboxIs
<1>2. B!NoCall \in B!Call /\ B!NoRequest \in B!Request /\ B!NoContainer \in B!Container
  BY <1>1 DEF B!NoCall, B!Call, B!NoRequest, B!Request, B!NoContainer, B!Container
<1>3. B!TypeOK
  BY <1>1, <1>2 DEF B!Init, B!TypeOK
<1>4. /\ \A c \in B!Calls : toolCall[c].at = "idle" /\ toolCall[c].url = 0 /\ request[c].url = 0
      /\ \A k \in SandboxKeys : lock[k] = B!None /\ bindings[k] = 0 /\ container[k].url = 0
      /\ started = 0
  BY DEF B!Init, B!NoCall, B!NoRequest, B!NoContainer
<1>5. LocksInv
  BY <1>4 DEF LocksInv, RunsBind, KeysAreLocked, B!LocksAreReleased
<1>6. BindInv
  BY <1>4 DEF BindInv, BoundUrls, AnswersBind, B!ClosedIsEmpty
<1> QED  BY <1>3, <1>5, <1>6 DEF SandboxInv

LEMMA SandboxStays == SandboxInv /\ [B!Next]_B!vars => SandboxInv' /\ [B!MovesForward]_B!vars
PROOF
<1> SUFFICES ASSUME SandboxInv, [B!Next]_B!vars
             PROVE  SandboxInv' /\ [B!MovesForward]_B!vars
  OBVIOUS
<1>0. B!TypeOK /\ LocksInv /\ BindInv /\ RunsBind
  BY DEF SandboxInv, LocksInv
<1>1. ASSUME NEW c \in B!Calls, ProviderStep(c)
      PROVE  SandboxInv' /\ B!MovesForward
  BY <1>0, <1>1, ProviderTypes, ProviderLocks, ProviderBinds DEF SandboxInv
<1>2. ASSUME NEW c \in B!Calls, ProvisionerStep(c)
      PROVE  SandboxInv' /\ B!MovesForward
  BY <1>0, <1>2, ProvisionerTypes, ElsewhereLocks, ProvisionerBinds DEF SandboxInv
<1>3. CASE ElsewhereStep
  BY <1>0, <1>3, ElsewhereTypes, ElsewhereLocks, ElsewhereBinds DEF SandboxInv
<1>4. CASE UNCHANGED B!vars
  <2>1. B!TypeOK'
    BY <1>0, <1>4 DEF B!TypeOK, B!vars
  <2>2. LocksInv'
    BY <1>0, <1>4, ElsewhereLocks
  <2>3. BindInv'
    BY <1>0, <1>4 DEF BindInv, BoundUrls, AnswersBind, MayBind, B!ClosedIsEmpty, B!vars
  <2> QED  BY <2>1, <2>2, <2>3, <1>4 DEF SandboxInv
<1> QED  BY <1>1, <1>2, <1>3, <1>4, SandboxStepsAre

LEMMA SandboxHolds == B!Spec => []SandboxInv
PROOF
<1>1. B!Init => SandboxInv
  BY SandboxStarts
<1>2. SandboxInv /\ [B!Next]_B!vars => SandboxInv'
  BY SandboxStays
<1> QED  BY <1>1, <1>2, PTL DEF B!Spec

\* Every variable of the provider and the provisioner keeps its type, through every
\* fault.
THEOREM SandboxTyped == B!Spec => []B!TypeOK
PROOF
<1>1. SandboxInv => B!TypeOK
  BY DEF SandboxInv
<1> QED  BY <1>1, SandboxHolds, PTL

\* The acquire lock of a key is held by a call for that key which is on its way: no
\* error, no timeout and no shutdown leaves a lock behind (acquire, destroy).
THEOREM SandboxLocksReleased == B!Spec => []B!LocksAreReleased
PROOF
<1>1. SandboxInv => B!LocksAreReleased
  BY DEF SandboxInv, LocksInv
<1> QED  BY <1>1, SandboxHolds, PTL

\* Once shutdown has emptied the provider's dictionaries, no call that was underway
\* puts a sandbox back (acquire looks at _closed again under the state lock).
THEOREM ClosedStaysEmpty == B!Spec => []B!ClosedIsEmpty
PROOF
<1>1. SandboxInv => B!ClosedIsEmpty
  BY DEF SandboxInv, BindInv
<1> QED  BY <1>1, SandboxHolds, PTL

\* However calls, deaths, reaping and restarts follow each other, acquire never
\* replaces a binding by an older container's.
THEOREM BindingsMoveForward == B!Spec => B!BindingMovesForward
PROOF
<1>1. SandboxInv /\ [B!Next]_B!vars => [B!MovesForward]_B!vars
  BY SandboxStays
<1> QED  BY <1>1, SandboxHolds, PTL DEF B!Spec, B!BindingMovesForward
=============================================================================
