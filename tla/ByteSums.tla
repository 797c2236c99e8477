------------------------------- MODULE ByteSums -------------------------------
(***************************************************************************)
(* Sums over finite sets, for the proofs about used_bytes_.  Total is what *)
(* MapThenSumSet of the community modules computes.  It is defined there   *)
(* by a recursion that takes the elements in an arbitrary order: here that *)
(* recursion is shown to have a solution, and its order not to matter.     *)
(* Where one would argue by induction on the size of a set, a smallest     *)
(* counterexample is refuted.                                              *)
(***************************************************************************)
EXTENDS Integers, FiniteSetsExt, FiniteSetTheorems, WellFoundedInduction, TLAPS

\* The element that the recursion takes next.
Pick(s) == CHOOSE x \in s : TRUE

\* One unfolding of the recursion, for the sizes f of the elements of S.
Unfold(f, g, S) == [s \in SUBSET S |-> IF s = {} THEN 0 ELSE f[Pick(s)] + g[s \ {Pick(s)}]]
Iter(f, S) == CHOOSE g : g = Unfold(f, g, S)

\* The sum of the f[x], for x in S.
Total(f, S) == Iter(f, S)[S]

\* g is right about the set s.
Adds(f, g, s) == g[s] = IF s = {} THEN 0 ELSE f[Pick(s)] + g[s \ {Pick(s)}]

\* g is right about the subsets of S.
Solves(f, g, S) == \A s \in SUBSET S : Adds(f, g, s)

\* f has a size for each of finitely many elements.
Sizes(f, S) == IsFiniteSet(S) /\ \A x \in S : f[x] \in Nat

-----------------------------------------------------------------------------
\* Total is the sum that used_bytes_ is compared with.
LEMMA TotalIsSum ==
    ASSUME NEW f, NEW S
    PROVE  MapThenSumSet(LAMBDA b : f[b], S) = Total(f, S)
BY Zenon DEF MapThenSumSet, MapThenFoldSet, Total, Iter, Unfold, Pick

\* A set of naturals has a least element.
LEMMA Least ==
    ASSUME NEW T, T \subseteq Nat, T # {}
    PROVE  \E n \in T : \A m \in T : n <= m
<1> DEFINE R == OpToRel(<, Nat)
<1>1. IsWellFoundedOn(R, Nat)
  BY NatLessThanWellFounded, Zenon
<1>2. \A m, n \in Nat : <<m, n>> \in R <=> m < n
  BY DEF OpToRel
<1> HIDE DEF R
<1>3. PICK n \in T : \A m \in T : ~ (<<m, n>> \in R)
  BY <1>1, WFMin, Zenon
<1>4. \A m \in T : ~ (m < n)
  BY <1>2, <1>3
<1> QED
  BY <1>4

\* Of a nonempty family of finite sets one has no smaller one.
LEMMA Smallest ==
    ASSUME NEW F, F # {}, \A s \in F : IsFiniteSet(s)
    PROVE  \E s \in F : \A r \in F : Cardinality(s) <= Cardinality(r)
<1> DEFINE T == {Cardinality(s) : s \in F}
<1>1. T \subseteq Nat /\ T # {}
  BY FS_CardinalityType
<1>2. PICK n \in T : \A m \in T : n <= m
  BY <1>1, Least, Zenon
<1> QED
  BY <1>2

\* Taking an element out makes a finite set smaller.
LEMMA Picked ==
    ASSUME NEW S, IsFiniteSet(S), S # {}
    PROVE  /\ Pick(S) \in S /\ IsFiniteSet(S \ {Pick(S)})
           /\ Cardinality(S) \in Nat /\ Cardinality(S \ {Pick(S)}) \in Nat
           /\ Cardinality(S \ {Pick(S)}) = Cardinality(S) - 1
           /\ ~(Cardinality(S) <= Cardinality(S \ {Pick(S)}))
<1>1. Pick(S) \in S
  BY DEF Pick
<1>2. IsFiniteSet(S \ {Pick(S)}) /\ Cardinality(S \ {Pick(S)}) = Cardinality(S) - 1
  BY <1>1, FS_RemoveElement
<1>3. Cardinality(S) \in Nat /\ Cardinality(S \ {Pick(S)}) \in Nat
  BY <1>2, FS_CardinalityType
<1> QED
  BY <1>1, <1>2, <1>3

\* The recursion has a solution: one that is right up to n elements gives, unfolded once,
\* one that is right up to n + 1.
LEMMA Solvable ==
    ASSUME NEW f, NEW S, IsFiniteSet(S)
    PROVE  \E g : g = Unfold(f, g, S)
<1> DEFINE Upto(n) == \E g : \A s \in SUBSET S : Cardinality(s) <= n => Adds(f, g, s)
           Bad == {n \in Nat : ~Upto(n)}
<1>1. \A s \in SUBSET S : IsFiniteSet(s) /\ Cardinality(s) \in Nat
  BY FS_Subset, FS_CardinalityType
<1>2. Upto(0)
  <2> DEFINE g == [s \in SUBSET S |-> 0]
  <2>1. \A s \in SUBSET S : Cardinality(s) <= 0 => s = {}
    BY <1>1, FS_EmptySet
  <2>2. \A s \in SUBSET S : s = {} => Adds(f, g, s)
    BY DEF Adds
  <2> QED
    BY <2>1, <2>2
<1>3. ASSUME NEW n \in Nat, Upto(n)
      PROVE  Upto(n + 1)
  <2>1. PICK g : \A s \in SUBSET S : Cardinality(s) <= n => Adds(f, g, s)
    BY <1>3
  <2> DEFINE h == Unfold(f, g, S)
  <2>2. \A s \in SUBSET S : h[s] = IF s = {} THEN 0 ELSE f[Pick(s)] + g[s \ {Pick(s)}]
    BY DEF Unfold
  <2> HIDE DEF h
  <2>3. \A s \in SUBSET S : Cardinality(s) <= n => h[s] = g[s]
    BY <2>1, <2>2 DEF Adds
  <2>4. ASSUME NEW s \in SUBSET S, Cardinality(s) <= n + 1
        PROVE  Adds(f, h, s)
    <3>1. CASE s = {}
      BY <2>2, <3>1 DEF Adds
    <3>2. CASE s # {}
      <4> DEFINE r == s \ {Pick(s)}
      <4>1. r \in SUBSET S /\ Cardinality(r) <= n
        BY <1>1, <2>4, <3>2, Picked
      <4>2. h[r] = g[r]
        BY <2>3, <4>1
      <4>3. h[s] = f[Pick(s)] + g[r]
        BY <2>2, <3>2
      <4> QED
        BY <3>2, <4>2, <4>3 DEF Adds
    <3> QED
      BY <3>1, <3>2
  <2> QED
    BY <2>4
<1>4. Bad = {}
  <2>1. SUFFICES ASSUME Bad # {} PROVE FALSE
    OBVIOUS
  <2>2. PICK n \in Bad : \A m \in Bad : n <= m
    <3>1. Bad \subseteq Nat
      OBVIOUS
    <3> HIDE DEF Bad
    <3> QED
      BY <2>1, <3>1, Least, Zenon
  <2> HIDE DEF Upto
  <2>3. n \in Nat /\ ~Upto(n)
    BY <2>2
  <2>4. n # 0
    BY <1>2, <2>3
  <2>5. n - 1 \in Nat /\ n - 1 \notin Bad
    BY <2>2, <2>3, <2>4
  <2>6. Upto(n - 1)
    BY <2>5
  <2>7. Upto((n - 1) + 1)
    BY <1>3, <2>5, <2>6
  <2>8. (n - 1) + 1 = n
    BY <2>3
  <2> QED
    BY <2>3, <2>7, <2>8
<1>5. Upto(Cardinality(S))
  <2> HIDE DEF Upto
  <2> QED
    BY <1>4, FS_CardinalityType
<1>6. PICK g : \A s \in SUBSET S : Cardinality(s) <= Cardinality(S) => Adds(f, g, s)
  BY <1>5
<1>7. \A s \in SUBSET S : Adds(f, g, s)
  BY <1>6, FS_Subset
<1> DEFINE h == [s \in SUBSET S |-> g[s]]
<1>8. h = Unfold(f, h, S)
  <2>1. \A s \in SUBSET S : s \ {Pick(s)} \in SUBSET S
    OBVIOUS
  <2>2. \A s \in SUBSET S : h[s] = IF s = {} THEN 0 ELSE f[Pick(s)] + h[s \ {Pick(s)}]
    BY <1>7, <2>1 DEF Adds
  <2> QED
    BY <2>2 DEF Unfold
<1> QED
  BY <1>8

\* What the definition chooses is a solution.
LEMMA IterSolves ==
    ASSUME NEW f, NEW S, IsFiniteSet(S)
    PROVE  Solves(f, Iter(f, S), S)
<1> DEFINE g == Iter(f, S)
<1>1. g = Unfold(f, g, S)
  BY Solvable, Zenon DEF Iter
<1> HIDE DEF g
<1>2. Solves(f, g, S)
  BY <1>1 DEF Unfold, Adds, Solves
<1> QED
  BY <1>2 DEF g

\* Two solutions agree on the sets that both are defined for.
LEMMA SolutionsAgree ==
    ASSUME NEW f, NEW g, NEW h, NEW S, IsFiniteSet(S), Solves(f, g, S), Solves(f, h, S)
    PROVE  g[S] = h[S]
<1> DEFINE Bad == {s \in SUBSET S : g[s] # h[s]}
<1>1. SUFFICES ASSUME Bad # {} PROVE FALSE
  OBVIOUS
<1>2. \A s \in Bad : IsFiniteSet(s)
  BY FS_Subset
<1>3. PICK s \in Bad : \A r \in Bad : Cardinality(s) <= Cardinality(r)
  <2> HIDE DEF Bad
  <2> QED
    BY <1>1, <1>2, Smallest, Zenon
<1>4. IsFiniteSet(s) /\ s # {} /\ g[s] # h[s]
  BY <1>2, <1>3 DEF Solves, Adds
<1> DEFINE r == s \ {Pick(s)}
<1>5. ~(Cardinality(s) <= Cardinality(r))
  BY <1>4, Picked
<1>6. r \notin Bad /\ r \in SUBSET S
  BY <1>3, <1>5
<1>7. g[r] = h[r]
  BY <1>6
<1> QED
  BY <1>3, <1>4, <1>7 DEF Solves, Adds

\* Whatever solves the recursion has the sum of S.
LEMMA SolutionIsTotal ==
    ASSUME NEW f, NEW g, NEW S, IsFiniteSet(S), g = Unfold(f, g, S)
    PROVE  g[S] = Total(f, S)
<1>1. Solves(f, g, S)
  BY DEF Unfold, Adds, Solves
<1> QED
  BY <1>1, IterSolves, SolutionsAgree DEF Total

\* The sum of a subset does not depend on the set it was reached from.
LEMMA IterOfSubset ==
    ASSUME NEW f, NEW S, IsFiniteSet(S), NEW s \in SUBSET S
    PROVE  Iter(f, S)[s] = Total(f, s)
<1>1. IsFiniteSet(s)
  BY FS_Subset
<1>2. Solves(f, Iter(f, S), s)
  BY IterSolves DEF Solves
<1> QED
  BY <1>1, <1>2, IterSolves, SolutionsAgree DEF Total

\* The recursion, of the sum itself.
LEMMA TotalUnfolds ==
    ASSUME NEW f, NEW S, IsFiniteSet(S)
    PROVE  Total(f, S) = IF S = {} THEN 0 ELSE f[Pick(S)] + Total(f, S \ {Pick(S)})
<1>1. Adds(f, Iter(f, S), S)
  BY IterSolves DEF Solves
<1>2. S # {} => Iter(f, S)[S \ {Pick(S)}] = Total(f, S \ {Pick(S)})
  BY IterOfSubset
<1> QED
  BY <1>1, <1>2 DEF Adds, Total

\* Sizes are numbers, so their sum is one.
LEMMA TotalType ==
    ASSUME NEW f, NEW S, Sizes(f, S)
    PROVE  Total(f, S) \in Nat
<1> DEFINE Bad == {r \in SUBSET S : Total(f, r) \notin Nat}
<1>1. SUFFICES ASSUME Bad # {} PROVE FALSE
  OBVIOUS
<1>2. \A r \in Bad : IsFiniteSet(r)
  BY FS_Subset DEF Sizes
<1>3. PICK r \in Bad : \A q \in Bad : Cardinality(r) <= Cardinality(q)
  <2> HIDE DEF Bad
  <2> QED
    BY <1>1, <1>2, Smallest, Zenon
<1>4. r # {} /\ IsFiniteSet(r) /\ r \in SUBSET S
  <2>1. IsFiniteSet(r) /\ r \in SUBSET S /\ Total(f, r) \notin Nat
    BY <1>2, <1>3
  <2>2. Total(f, r) = IF r = {} THEN 0 ELSE f[Pick(r)] + Total(f, r \ {Pick(r)})
    BY <2>1, TotalUnfolds, Zenon
  <2> QED
    BY <2>1, <2>2
<1> DEFINE q == r \ {Pick(r)}
<1>5. Total(f, q) \in Nat
  BY <1>3, <1>4, Picked
<1>6. Total(f, r) = f[Pick(r)] + Total(f, q)
  BY <1>4, TotalUnfolds
<1>7. f[Pick(r)] \in Nat
  BY <1>4, Picked DEF Sizes
<1> QED
  BY <1>3, <1>5, <1>6, <1>7

\* The order of the summands does not matter.
LEMMA TotalWithout ==
    ASSUME NEW f, NEW S, Sizes(f, S), NEW x \in S
    PROVE  Total(f, S) = f[x] + Total(f, S \ {x})
<1> DEFINE Off(r) == \E y \in r : Total(f, r) # f[y] + Total(f, r \ {y})
           Bad == {r \in SUBSET S : Off(r)}
<1>1. SUFFICES ASSUME Bad # {} PROVE FALSE
  OBVIOUS
<1>2. \A r \in Bad : IsFiniteSet(r)
  BY FS_Subset DEF Sizes
<1>3. PICK r \in Bad : \A q \in Bad : Cardinality(r) <= Cardinality(q)
  <2> HIDE DEF Bad
  <2> QED
    BY <1>1, <1>2, Smallest, Zenon
<1>4. PICK y \in r : Total(f, r) # f[y] + Total(f, r \ {y})
  BY <1>3
<1> DEFINE p == Pick(r)
           P == r \ {p}
           Y == r \ {y}
           Q == r \ {p, y}
<1>5. IsFiniteSet(r) /\ r \in SUBSET S /\ p \in r /\ y \in r
  BY <1>2, <1>3, <1>4, Picked
<1>6. Total(f, r) = f[p] + Total(f, P)
  BY <1>5, TotalUnfolds
<1>7. p # y
  BY <1>4, <1>6
<1>8. /\ IsFiniteSet(P) /\ Cardinality(P) = Cardinality(r) - 1
      /\ IsFiniteSet(Y) /\ Cardinality(Y) = Cardinality(r) - 1
      /\ Cardinality(r) \in Nat
  BY <1>5, FS_RemoveElement, FS_CardinalityType
<1> HIDE DEF Off
<1>9. ~Off(P) /\ ~Off(Y)
  BY <1>3, <1>5, <1>8
<1>10. Total(f, P) = f[y] + Total(f, P \ {y}) /\ Total(f, Y) = f[p] + Total(f, Y \ {p})
  BY <1>5, <1>7, <1>9 DEF Off
<1>11. P \ {y} = Q /\ Y \ {p} = Q
  OBVIOUS
<1>12. f[p] \in Nat /\ f[y] \in Nat /\ Total(f, Q) \in Nat
  <2>1. Sizes(f, Q)
    BY <1>5, FS_Subset DEF Sizes
  <2>2. f[p] \in Nat /\ f[y] \in Nat
    BY <1>5 DEF Sizes
  <2> QED
    BY <2>1, <2>2, TotalType
<1> QED
  BY <1>4, <1>6, <1>10, <1>11, <1>12

\* A new element adds its summand.
LEMMA TotalWith ==
    ASSUME NEW f, NEW S, NEW x, x \notin S, Sizes(f, S \cup {x})
    PROVE  Total(f, S \cup {x}) = f[x] + Total(f, S)
<1> DEFINE T == S \cup {x}
<1>1. T \ {x} = S /\ x \in T /\ Sizes(f, T)
  OBVIOUS
<1> HIDE DEF T
<1>2. Total(f, T) = f[x] + Total(f, T \ {x})
  BY <1>1, TotalWithout
<1> QED
  BY <1>1, <1>2 DEF T

\* Nothing adds up to nothing.
LEMMA TotalOfNone == \A f : Total(f, {}) = 0
BY TotalUnfolds, FS_EmptySet

\* At most m for each of the elements.
LEMMA TotalBound ==
    ASSUME NEW f, NEW S, IsFiniteSet(S), NEW m \in Nat, \A x \in S : f[x] \in Nat /\ f[x] <= m
    PROVE  Total(f, S) <= Cardinality(S) * m
<1> DEFINE Bad == {r \in SUBSET S : ~(Total(f, r) <= Cardinality(r) * m)}
<1>1. SUFFICES ASSUME Bad # {} PROVE FALSE
  OBVIOUS
<1>2. \A r \in Bad : IsFiniteSet(r)
  BY FS_Subset
<1>3. PICK r \in Bad : \A q \in Bad : Cardinality(r) <= Cardinality(q)
  <2> HIDE DEF Bad
  <2> QED
    BY <1>1, <1>2, Smallest, Zenon
<1>4. IsFiniteSet(r) /\ r \in SUBSET S /\ ~(Total(f, r) <= Cardinality(r) * m)
  BY <1>2, <1>3
<1>5. r # {}
  BY <1>4, TotalOfNone, FS_EmptySet
<1> DEFINE q == r \ {Pick(r)}
<1>6. /\ Pick(r) \in r /\ IsFiniteSet(q) /\ Cardinality(r) \in Nat /\ Cardinality(q) \in Nat
      /\ Cardinality(q) = Cardinality(r) - 1
  BY <1>4, <1>5, Picked
<1>7. Total(f, r) = f[Pick(r)] + Total(f, q)
  BY <1>4, <1>5, TotalUnfolds
<1>8. q \in SUBSET S /\ ~(Cardinality(r) <= Cardinality(q))
  BY <1>4, <1>6
<1>9. Total(f, q) <= Cardinality(q) * m
  BY <1>3, <1>8
<1>10. Total(f, q) \in Nat /\ f[Pick(r)] \in Nat /\ f[Pick(r)] <= m
  <2>1. Sizes(f, q)
    BY <1>6, <1>8 DEF Sizes
  <2> QED
    BY <1>4, <1>6, <2>1, TotalType
<1>11. Cardinality(r) * m = Cardinality(q) * m + m
  <2>1. \A n \in Nat : (n + 1) * m = n * m + m
    OBVIOUS
  <2>2. Cardinality(r) = Cardinality(q) + 1
    BY <1>6
  <2> QED
    BY <1>6, <2>1, <2>2
<1>12. Cardinality(q) * m \in Nat
  BY <1>6
<1> HIDE DEF q
<1> QED
  BY <1>4, <1>7, <1>9, <1>10, <1>11, <1>12

\* A sum over S is one over the values that h, which takes none twice, has on S.
LEMMA TotalReindexed ==
    ASSUME NEW f, NEW g, NEW h, NEW S, IsFiniteSet(S),
           \A x \in S : f[x] \in Nat /\ f[x] = g[h[x]],
           \A x, y \in S : h[x] = h[y] => x = y
    PROVE  Total(f, S) = Total(g, {h[x] : x \in S})
<1> DEFINE Img(r) == {h[x] : x \in r}
           Bad == {r \in SUBSET S : Total(f, r) # Total(g, Img(r))}
<1>1. SUFFICES ASSUME Bad # {} PROVE FALSE
  OBVIOUS
<1>2. \A r \in Bad : IsFiniteSet(r)
  BY FS_Subset
<1>3. PICK r \in Bad : \A q \in Bad : Cardinality(r) <= Cardinality(q)
  <2> HIDE DEF Bad
  <2> QED
    BY <1>1, <1>2, Smallest, Zenon
<1>4. IsFiniteSet(r) /\ r \in SUBSET S /\ Total(f, r) # Total(g, Img(r))
  BY <1>2, <1>3
<1>5. r # {}
  <2>1. Img({}) = {}
    OBVIOUS
  <2> QED
    BY <1>4, <2>1, TotalOfNone
<1> DEFINE p == Pick(r)
           q == r \ {p}
<1>6. p \in r /\ q \in SUBSET S /\ ~(Cardinality(r) <= Cardinality(q))
  <2>1. p \in r /\ Cardinality(r) \in Nat /\ Cardinality(q) = Cardinality(r) - 1
    BY <1>4, <1>5, Picked
  <2> QED
    BY <1>4, <2>1
<1>7. Total(f, q) = Total(g, Img(q))
  BY <1>3, <1>6
<1>8. Total(f, r) = f[p] + Total(f, q)
  BY <1>4, <1>5, TotalUnfolds
<1>9. IsFiniteSet(Img(r)) /\ h[p] \in Img(r) /\ Img(r) \ {h[p]} = Img(q)
  <2>1. IsFiniteSet(Img(r))
    <3> DEFINE k == [x \in r |-> h[x]]
    <3>1. k \in Surjection(r, Img(r))
      BY DEF Surjection
    <3> QED
      BY <1>4, <3>1, FS_Surjection, Zenon
  <2>2. \A x \in r : h[x] = h[p] => x = p
    BY <1>4, <1>6
  <2> QED
    BY <1>6, <2>1, <2>2
<1>10. Sizes(g, Img(r))
  BY <1>4, <1>9 DEF Sizes
<1>11. Total(g, Img(r)) = g[h[p]] + Total(g, Img(r) \ {h[p]})
  <2> DEFINE y == h[p]
             T == Img(r)
  <2>1. Sizes(g, T) /\ y \in T
    BY <1>9, <1>10
  <2> HIDE DEF y, T
  <2>2. Total(g, T) = g[y] + Total(g, T \ {y})
    BY <2>1, TotalWithout
  <2> QED
    BY <2>2 DEF y, T
<1>12. f[p] = g[h[p]]
  BY <1>4, <1>6
<1> QED
  BY <1>4, <1>7, <1>8, <1>9, <1>11, <1>12
=============================================================================
