--------------------------------- MODULE Sums ---------------------------------
(* Sums over finite sets, as MapThenSumSet and the folds over functions and    *)
(* sequences compute them: an element at a time, chosen nobody knows how.      *)
(* What the proofs need of them is that the order does not matter.             *)
EXTENDS Naturals, FiniteSets, FiniteSetsExt, Functions, FiniteSetTheorems, TLAPS

SumOn(u, s) == FoldFunctionOnSet(+, 0, u, s)

-----------------------------------------------------------------------------
(* Induction over the numbers, as the existence of least elements.             *)

LEMMA LessIsWellFounded == IsWellFoundedOn({p \in Nat \X Nat : p[1] < p[2]}, Nat)
  <1>1. IsWellFoundedOn(OpToRel(<, Nat), Nat)
    BY NatLessThanWellFounded, Zenon
  <1> QED BY <1>1 DEF OpToRel

\* Every set of numbers that is not empty has a least one.
LEMMA LeastNumber ==
    ASSUME NEW T \in SUBSET Nat, T # {}
    PROVE  \E x \in T : \A y \in T : x <= y
  <1> DEFINE Less == {p \in Nat \X Nat : p[1] < p[2]}
  <1>1. PICK x \in T : \A y \in T : ~(<<y, x>> \in Less)
    BY LessIsWellFounded, WFMin
  <1>2. \A y \in T : ~(y < x)
    BY <1>1
  <1> QED BY <1>2

\* What holds of 0, and of a number if it holds of the one before, holds of all.
LEMMA AllNumbers ==
    ASSUME NEW T, 0 \in T, \A n \in Nat : n \in T => n + 1 \in T
    PROVE  Nat \subseteq T
  <1> DEFINE Others == {n \in Nat : n \notin T}
  <1> SUFFICES ASSUME Others # {} PROVE FALSE
    OBVIOUS
  <1>1. PICK x \in Others : \A y \in Others : x <= y
    <2>1. Others \in SUBSET Nat
      OBVIOUS
    <2> HIDE DEF Others
    <2> QED BY <2>1, LeastNumber
  <1>2. x \in Nat /\ x # 0 /\ x - 1 \in Nat /\ x = (x - 1) + 1
    OBVIOUS
  <1>3. x - 1 \notin T
    BY <1>2
  <1>4. x - 1 \in Others /\ ~(x <= x - 1)
    BY <1>2, <1>3
  <1> QED BY <1>1, <1>4

\* What holds of the empty set, and still does with one more element, holds of
\* every finite set.
LEMMA AllSubsets ==
    ASSUME NEW S, IsFiniteSet(S), NEW T, {} \in T,
           \A R \in SUBSET S : \A x \in S \ R : R \in T => R \cup {x} \in T
    PROVE  S \in T
  <1> DEFINE N == {n \in Nat : \A R \in SUBSET S : Cardinality(R) = n => R \in T}
  <1>1. \A R \in SUBSET S : IsFiniteSet(R) /\ Cardinality(R) \in Nat
    BY FS_Subset, FS_CardinalityType
  <1>2. 0 \in N
    BY <1>1, FS_EmptySet
  <1>3. ASSUME NEW n \in Nat, n \in N
        PROVE  n + 1 \in N
    <2> SUFFICES ASSUME NEW R \in SUBSET S, Cardinality(R) = n + 1 PROVE R \in T
      OBVIOUS
    <2>0. Cardinality(R) = n + 1 /\ Cardinality(R) # 0
      OBVIOUS
    <2>1. R # {}
      BY <2>0, FS_EmptySet
    <2>2. PICK x \in R : TRUE
      BY <2>1
    <2>3. PICK Q : Q = R \ {x}
      OBVIOUS
    <2>4. Cardinality(Q) = n /\ Q \in SUBSET S /\ x \in S \ Q /\ R = Q \cup {x}
      <3>1. Cardinality(R \ {x}) = Cardinality(R) - 1
        BY <1>1, <2>2, FS_RemoveElement
      <3>2. Q \in SUBSET S /\ x \in S \ Q /\ R = Q \cup {x}
        BY <2>3
      <3> QED BY <2>0, <2>3, <3>1, <3>2
    <2>5. Q \in T
      BY <1>3, <2>4
    <2> QED BY <2>4, <2>5
  <1>4. Nat \subseteq N
    <2> HIDE DEF N
    <2> QED BY <1>2, <1>3, AllNumbers
  <1> QED BY <1>1, <1>4

-----------------------------------------------------------------------------
(* A sum that takes no heed of the order.                                      *)

Adds(F, u, R) ==
    /\ F \in [SUBSET R -> Nat]
    /\ F[{}] = 0
    /\ \A s \in SUBSET R : \A x \in s : F[s] = F[s \ {x}] + u[x]

LEMMA OneMoreAdds ==
    ASSUME NEW D, NEW u \in [D -> Nat], NEW R \in SUBSET D, NEW a \in R, NEW F, Adds(F, u, R \ {a})
    PROVE  \E G : Adds(G, u, R)
  <1> DEFINE rest(s) == s \ {a}
             G == [s \in SUBSET R |-> IF a \in s THEN F[rest(s)] + u[a] ELSE F[s]]
  <1>1. \A s \in SUBSET R : rest(s) \in SUBSET (R \ {a}) /\ (a \notin s => s = rest(s))
    OBVIOUS
  <1>2. F \in [SUBSET (R \ {a}) -> Nat] /\ F[{}] = 0 /\ u[a] \in Nat
    BY DEF Adds
  <1>3. G \in [SUBSET R -> Nat]
    BY <1>1, <1>2
  <1>4. G[{}] = 0
    BY <1>2
  <1>5. ASSUME NEW s \in SUBSET R, NEW x \in s
        PROVE  G[s] = G[s \ {x}] + u[x]
    <2>1. CASE x = a
      BY <2>1, <1>1
    <2>2. CASE x # a
      <3>1. F[rest(s)] = F[rest(s) \ {x}] + u[x]
        BY <1>1, <2>2 DEF Adds
      <3>2. rest(s) \ {x} = rest(s \ {x}) /\ (a \in s <=> a \in s \ {x})
        BY <2>2
      <3>3. G[s] = IF a \in s THEN F[rest(s)] + u[a] ELSE F[rest(s)]
        BY <1>1
      <3>4. G[s \ {x}] = IF a \in s THEN F[rest(s) \ {x}] + u[a] ELSE F[rest(s) \ {x}]
        BY <1>1, <3>2
      <3>5. F[rest(s) \ {x}] \in Nat /\ u[x] \in Nat /\ F[rest(s)] \in Nat
        BY <1>1, <1>2
      <3> HIDE DEF G
      <3> QED BY <3>1, <3>3, <3>4, <3>5, <1>2
    <2> QED BY <2>1, <2>2
  <1> HIDE DEF G
  <1>6. Adds(G, u, R)
    BY <1>3, <1>4, <1>5 DEF Adds
  <1> QED BY <1>6

\* There is such a sum over every finite set: a smallest one without it would
\* have one element too many.
LEMMA SumExists ==
    ASSUME NEW D, NEW u \in [D -> Nat], NEW S \in SUBSET D, IsFiniteSet(S)
    PROVE  \E F : Adds(F, u, S)
  <1> DEFINE Without(R) == R \in SUBSET D /\ IsFiniteSet(R) /\ ~\E F : Adds(F, u, R)
             Sizes == {n \in Nat : \E R \in SUBSET D : Without(R) /\ Cardinality(R) = n}
  <1> SUFFICES ASSUME Without(S) PROVE FALSE
    OBVIOUS
  <1>1. Cardinality(S) \in Sizes
    BY FS_CardinalityType
  <1>2. PICK n \in Sizes : \A m \in Sizes : n <= m
    <2> HIDE DEF Sizes
    <2>1. Sizes \in SUBSET Nat
      BY DEF Sizes
    <2> QED BY <1>1, <2>1, LeastNumber
  <1>3. PICK R \in SUBSET D : Without(R) /\ Cardinality(R) = n
    OBVIOUS
  <1>4. R # {}
    <2>1. Adds([s \in {{}} |-> 0], u, {})
      BY DEF Adds
    <2> QED BY <1>3, <2>1
  <1>5. PICK a \in R : TRUE
    BY <1>4
  <1>6. IsFiniteSet(R \ {a}) /\ Cardinality(R \ {a}) = n - 1
    BY <1>3, <1>5, FS_RemoveElement
  <1>7. n \in Nat /\ n # 0 /\ n - 1 \in Nat
    <2>1. n \in Nat /\ n - 1 \in Nat
      BY <1>6, FS_CardinalityType
    <2> QED BY <2>1
  <1>8. n - 1 \notin Sizes
    BY <1>2, <1>7
  <1>9. ~Without(R \ {a})
    BY <1>6, <1>7, <1>8
  <1>10. PICK F : Adds(F, u, R \ {a})
    BY <1>6, <1>9
  <1> QED BY <1>3, <1>10, OneMoreAdds

\* What the fold computes is that sum.
LEMMA FoldAdds ==
    ASSUME NEW D, NEW u \in [D -> Nat], NEW S \in SUBSET D, IsFiniteSet(S), NEW F, Adds(F, u, S)
    PROVE  SumOn(u, S) = F[S]
  <1> DEFINE some(s) == CHOOSE x \in s : TRUE
             Fold(g) == g = [s \in SUBSET S |-> IF s = {} THEN 0 ELSE u[some(s)] + g[s \ {some(s)}]]
  <1>1. \A s \in SUBSET S : s # {} => some(s) \in s
    OBVIOUS
  <1>2. Fold(F)
    <2>1. F \in [SUBSET S -> Nat]
      BY DEF Adds
    <2>2. ASSUME NEW s \in SUBSET S
          PROVE  F[s] = IF s = {} THEN 0 ELSE u[some(s)] + F[s \ {some(s)}]
      <3>1. CASE s = {}
        BY <3>1 DEF Adds
      <3>2. CASE s # {}
        <4> DEFINE x == some(s)
        <4>1. x \in s
          BY <1>1, <3>2
        <4> HIDE DEF x
        <4>2. F[s] = F[s \ {x}] + u[x] /\ F[s \ {x}] \in Nat /\ u[x] \in Nat
          BY <4>1, <2>1 DEF Adds
        <4>3. F[s] = u[x] + F[s \ {x}]
          BY <4>2
        <4> QED BY <3>2, <4>3 DEF x
      <3> QED BY <3>1, <3>2
    <2> HIDE DEF some
    <2> QED BY <2>1, <2>2
  <1> DEFINE g == CHOOSE g : Fold(g)
  <1>3. Fold(g)
    BY <1>2
  <1>4. SumOn(u, S) = g[S]
    BY DEF SumOn, FoldFunctionOnSet, MapThenFoldSet
  <1>5. \A s \in SUBSET S : g[s] = F[s]
    <2> SUFFICES ASSUME \E s \in SUBSET S : g[s] # F[s] PROVE FALSE
      OBVIOUS
    <2> DEFINE Sizes == {n \in Nat : \E s \in SUBSET S : g[s] # F[s] /\ Cardinality(s) = n}
    <2>1. \A s \in SUBSET S : IsFiniteSet(s) /\ Cardinality(s) \in Nat
      BY FS_Subset, FS_CardinalityType
    <2>2. PICK n \in Sizes : \A m \in Sizes : n <= m
      <3>1. Sizes \in SUBSET Nat /\ Sizes # {}
        BY <2>1
      <3> HIDE DEF Sizes
      <3> QED BY <3>1, LeastNumber
    <2>3. PICK s \in SUBSET S : g[s] # F[s] /\ Cardinality(s) = n
      OBVIOUS
    <2> HIDE DEF g
    <2>4. s # {}
      BY <1>2, <1>3, <2>3
    <2> DEFINE x == some(s)
               r == s \ {x}
    <2>5. x \in s
      BY <1>1, <2>4
    <2>6. g[s] = u[x] + g[r] /\ F[s] = u[x] + F[r]
      BY <1>2, <1>3, <2>4
    <2> HIDE DEF x
    <2>7. Cardinality(r) = n - 1 /\ Cardinality(r) \in Nat
      BY <2>1, <2>3, <2>5, FS_RemoveElement
    <2>8. n \in Nat
      OBVIOUS
    <2>9. Cardinality(r) \notin Sizes
      <3> HIDE DEF Sizes
      <3> QED BY <2>2, <2>7, <2>8
    <2>10. g[r] = F[r]
      BY <2>7, <2>9
    <2> QED BY <2>3, <2>6, <2>10
  <1> QED BY <1>4, <1>5

-----------------------------------------------------------------------------
(* What a sum over a finite set of natural numbers does.                       *)

LEMMA FewerAdd ==
    ASSUME NEW u, NEW S, NEW F, Adds(F, u, S), NEW R \in SUBSET S, NEW G, G = [s \in SUBSET R |-> F[s]]
    PROVE  Adds(G, u, R)
  BY DEF Adds

LEMMA SumIsNumber ==
    ASSUME NEW D, NEW u \in [D -> Nat], NEW S \in SUBSET D, IsFiniteSet(S)
    PROVE  SumOn(u, S) \in Nat
  <1>1. PICK F : Adds(F, u, S)
    BY SumExists
  <1>2. SumOn(u, S) = F[S]
    BY <1>1, FoldAdds
  <1> QED BY <1>1, <1>2 DEF Adds

LEMMA SumOfNothing ==
    ASSUME NEW D, NEW u \in [D -> Nat]
    PROVE  SumOn(u, {}) = 0
  <1>1. PICK F : Adds(F, u, {})
    BY SumExists, FS_EmptySet
  <1>2. SumOn(u, {}) = F[{}]
    BY <1>1, FoldAdds, FS_EmptySet
  <1> QED BY <1>1, <1>2 DEF Adds

\* An element more is its number more.
LEMMA SumWithOneMore ==
    ASSUME NEW D, NEW u \in [D -> Nat], NEW S \in SUBSET D, IsFiniteSet(S), NEW x \in D \ S
    PROVE  SumOn(u, S \cup {x}) = SumOn(u, S) + u[x]
  <1> DEFINE T == S \cup {x}
  <1>1. T \in SUBSET D /\ IsFiniteSet(T)
    BY FS_AddElement
  <1>2. PICK F : Adds(F, u, T)
    BY <1>1, SumExists
  <1>3. SumOn(u, T) = F[T]
    BY <1>1, <1>2, FoldAdds
  <1>4. S \in SUBSET T /\ T \ {x} = S /\ x \in T
    OBVIOUS
  <1>5. SumOn(u, S) = F[S]
    <2> DEFINE G == [s \in SUBSET S |-> F[s]]
    <2>1. G = [s \in SUBSET S |-> F[s]]
      OBVIOUS
    <2>2. Adds(G, u, S)
      <3> HIDE DEF T, G
      <3> QED BY <1>2, <1>4, <2>1, FewerAdd
    <2>3. G[S] = F[S]
      OBVIOUS
    <2> HIDE DEF G
    <2> QED BY <2>2, <2>3, FoldAdds
  <1>6. F[T] = F[S] + u[x]
    <2> HIDE DEF T
    <2> QED BY <1>2, <1>4 DEF Adds
  <1> QED BY <1>3, <1>5, <1>6

\* A sum over more elements is no smaller, and one over two sets no larger than
\* the sums over both.
LEMMA SumOfTwo ==
    ASSUME NEW D, NEW u \in [D -> Nat], NEW S \in SUBSET D, IsFiniteSet(S), NEW T \in SUBSET D, IsFiniteSet(T)
    PROVE  /\ SumOn(u, S) <= SumOn(u, S \cup T)
           /\ SumOn(u, S \cup T) <= SumOn(u, S) + SumOn(u, T)
  <1> DEFINE Right(R) == /\ SumOn(u, S) <= SumOn(u, S \cup R)
                         /\ SumOn(u, S \cup R) <= SumOn(u, S) + SumOn(u, R)
             Sizes == {n \in Nat : \E R \in SUBSET T : ~Right(R) /\ Cardinality(R) = n}
  <1> SUFFICES ASSUME ~Right(T) PROVE FALSE
    OBVIOUS
  <1>1. \A R \in SUBSET T : /\ IsFiniteSet(R) /\ Cardinality(R) \in Nat
                            /\ IsFiniteSet(S \cup R) /\ S \cup R \in SUBSET D
                            /\ SumOn(u, R) \in Nat /\ SumOn(u, S \cup R) \in Nat
    <2> SUFFICES ASSUME NEW R \in SUBSET T
                 PROVE  /\ IsFiniteSet(R) /\ Cardinality(R) \in Nat
                        /\ IsFiniteSet(S \cup R) /\ S \cup R \in SUBSET D
                        /\ SumOn(u, R) \in Nat /\ SumOn(u, S \cup R) \in Nat
      OBVIOUS
    <2>1. IsFiniteSet(R) /\ Cardinality(R) \in Nat
      BY FS_Subset, FS_CardinalityType
    <2>2. IsFiniteSet(S \cup R) /\ S \cup R \in SUBSET D
      BY <2>1, FS_Union
    <2> QED BY <2>1, <2>2, SumIsNumber
  <1>2. SumOn(u, S) \in Nat
    BY SumIsNumber
  <1>3. PICK n \in Sizes : \A m \in Sizes : n <= m
    <2>1. Sizes \in SUBSET Nat /\ Sizes # {}
      BY <1>1
    <2> HIDE DEF Sizes
    <2> QED BY <2>1, LeastNumber
  <1>4. PICK R \in SUBSET T : ~Right(R) /\ Cardinality(R) = n
    OBVIOUS
  <1>5. R # {}
    <2>1. Right({})
      <3>1. S \cup {} = S
        OBVIOUS
      <3>2. SumOn(u, {}) = 0
        BY SumOfNothing
      <3> QED BY <3>1, <3>2, <1>2
    <2> QED BY <1>4, <2>1
  <1>6. PICK x \in R : TRUE
    BY <1>5
  <1> DEFINE Q == R \ {x}
  <1>7. Q \in SUBSET T /\ x \in D \ Q /\ Q \cup {x} = R
    OBVIOUS
  <1>8. Cardinality(Q) = n - 1 /\ Cardinality(Q) \in Nat /\ n \in Nat
    BY <1>1, <1>4, FS_RemoveElement
  <1>9. Right(Q)
    <2>1. Cardinality(Q) \notin Sizes
      <3> HIDE DEF Sizes, Q
      <3> QED BY <1>3, <1>8
    <2> HIDE DEF Q, Right
    <2> QED BY <1>7, <1>8, <2>1
  <1>10. SumOn(u, R) = SumOn(u, Q) + u[x]
    <2>1. Q \in SUBSET D /\ IsFiniteSet(Q)
      BY <1>1, <1>7
    <2>2. SumOn(u, Q \cup {x}) = SumOn(u, Q) + u[x]
      <3> HIDE DEF Q
      <3> QED BY <1>7, <2>1, SumWithOneMore
    <2> QED BY <2>2, <1>7
  <1>11. SumOn(u, S \cup R) = SumOn(u, S \cup Q) + (IF x \in S THEN 0 ELSE u[x])
    <2>1. CASE x \in S
      <3>1. S \cup R = S \cup Q
        BY <2>1
      <3>2. SumOn(u, S \cup Q) \in Nat
        BY <1>1, <1>7
      <3> HIDE DEF Q
      <3> QED BY <2>1, <3>1, <3>2
    <2>2. CASE x \notin S
      <3> DEFINE V == S \cup Q
      <3>1. V \in SUBSET D /\ IsFiniteSet(V) /\ x \in D \ V /\ V \cup {x} = S \cup R
        BY <1>1, <1>7, <2>2
      <3>2. SumOn(u, V \cup {x}) = SumOn(u, V) + u[x]
        <4> HIDE DEF V
        <4> QED BY <3>1, SumWithOneMore
      <3> QED BY <2>2, <3>1, <3>2
    <2> QED BY <2>1, <2>2
  <1>12. u[x] \in Nat /\ SumOn(u, Q) \in Nat /\ SumOn(u, S \cup Q) \in Nat
    BY <1>1, <1>7
  <1> HIDE DEF Q
  <1>13. Right(R)
    BY <1>2, <1>9, <1>10, <1>11, <1>12
  <1> QED BY <1>4, <1>13

\* A sum depends on the numbers it adds, and on no others.
LEMMA SumsAgree ==
    ASSUME NEW D, NEW u \in [D -> Nat], NEW E, NEW w \in [E -> Nat], NEW S \in SUBSET D, S \in SUBSET E,
           IsFiniteSet(S), \A x \in S : u[x] = w[x]
    PROVE  SumOn(u, S) = SumOn(w, S)
  <1>1. PICK F : Adds(F, u, S)
    BY SumExists
  <1>2. Adds(F, w, S)
    BY <1>1 DEF Adds
  <1>3. SumOn(u, S) = F[S]
    BY <1>1, FoldAdds
  <1>4. SumOn(w, S) = F[S]
    BY <1>2, FoldAdds
  <1> QED BY <1>3, <1>4

\* One number of a sum replaced by another.
LEMMA SumOfReplaced ==
    ASSUME NEW D, IsFiniteSet(D), NEW u \in [D -> Nat], NEW w \in [D -> Nat], NEW x \in D,
           \A y \in D \ {x} : u[y] = w[y]
    PROVE  \E rest \in Nat : SumOn(u, D) = rest + u[x] /\ SumOn(w, D) = rest + w[x]
  <1>1. PICK S : S = D \ {x}
    OBVIOUS
  <1>2. S \in SUBSET D /\ IsFiniteSet(S) /\ x \in D \ S /\ S \cup {x} = D
    BY <1>1, FS_Subset
  <1>3. SumOn(u, S \cup {x}) = SumOn(u, S) + u[x]
    BY <1>2, SumWithOneMore
  <1>4. SumOn(w, S \cup {x}) = SumOn(w, S) + w[x]
    BY <1>2, SumWithOneMore
  <1>5. \A y \in S : u[y] = w[y]
    BY <1>1
  <1>6. SumOn(u, S) = SumOn(w, S)
    BY <1>2, <1>5, SumsAgree
  <1>7. SumOn(u, S) \in Nat
    BY <1>2, SumIsNumber
  <1> QED BY <1>2, <1>3, <1>4, <1>6, <1>7

\* One number more, of nothing.
LEMMA SumWithNothing ==
    ASSUME NEW n \in Nat, NEW u \in [1..n -> Nat], NEW w \in [1..n + 1 -> Nat],
           w[n + 1] = 0, \A i \in 1..n : w[i] = u[i]
    PROVE  SumOn(w, 1..n + 1) = SumOn(u, 1..n)
  <1>1. PICK S : S = 1..n
    OBVIOUS
  <1>2. PICK D : D = 1..n + 1
    OBVIOUS
  <1>3. PICK x : x = n + 1
    OBVIOUS
  <1>4. S \in SUBSET D /\ x \in D \ S /\ D = S \cup {x} /\ S \in SUBSET S
    BY <1>1, <1>2, <1>3
  <1>5. IsFiniteSet(S) /\ u \in [S -> Nat] /\ w \in [D -> Nat]
    <2>1. 1 \in Int /\ n \in Int
      OBVIOUS
    <2>2. IsFiniteSet(S)
      BY <1>1, <2>1, FS_Interval
    <2> QED BY <1>1, <1>2, <2>2
  <1>6. SumOn(w, S \cup {x}) = SumOn(w, S) + w[x]
    BY <1>4, <1>5, SumWithOneMore
  <1>7. \A i \in S : w[i] = u[i]
    BY <1>1
  <1>8. SumOn(w, S) = SumOn(u, S)
    BY <1>4, <1>5, <1>7, SumsAgree
  <1>9. SumOn(u, S) \in Nat
    BY <1>4, <1>5, SumIsNumber
  <1>10. SumOn(w, D) = SumOn(u, S)
    <2>1. w[x] = 0
      BY <1>3
    <2> QED BY <1>4, <1>6, <1>8, <1>9, <2>1
  <1> QED BY <1>1, <1>2, <1>10

\* A sum over a part is no larger than over the whole.
LEMMA SumOfPart ==
    ASSUME NEW D, NEW u \in [D -> Nat], NEW S \in SUBSET D, IsFiniteSet(S), NEW R \in SUBSET S
    PROVE  SumOn(u, R) <= SumOn(u, S)
  <1>1. IsFiniteSet(R) /\ R \in SUBSET D /\ R \cup S = S
    BY FS_Subset
  <1> QED BY <1>1, SumOfTwo

\* Numbers of at most `most' add up to at most that many times `most'.
LEMMA SumOfSmall ==
    ASSUME NEW D, NEW u \in [D -> Nat], NEW S \in SUBSET D, IsFiniteSet(S),
           NEW most \in Nat, \A x \in S : u[x] <= most
    PROVE  SumOn(u, S) <= Cardinality(S) * most
  <1> DEFINE Right(R) == SumOn(u, R) <= Cardinality(R) * most
             Sizes == {n \in Nat : \E R \in SUBSET S : ~Right(R) /\ Cardinality(R) = n}
  <1> SUFFICES ASSUME ~Right(S) PROVE FALSE
    OBVIOUS
  <1>1. \A R \in SUBSET S : IsFiniteSet(R) /\ Cardinality(R) \in Nat /\ R \in SUBSET D
    BY FS_Subset, FS_CardinalityType
  <1>2. PICK n \in Sizes : \A m \in Sizes : n <= m
    <2>1. Sizes \in SUBSET Nat /\ Sizes # {}
      BY <1>1
    <2> HIDE DEF Sizes
    <2> QED BY <2>1, LeastNumber
  <1>3. PICK R \in SUBSET S : ~Right(R) /\ Cardinality(R) = n
    OBVIOUS
  <1>4. R # {}
    <2>1. Right({})
      BY SumOfNothing, FS_EmptySet
    <2> QED BY <1>3, <2>1
  <1>5. PICK x \in R : TRUE
    BY <1>4
  <1> DEFINE Q == R \ {x}
  <1>6. Q \in SUBSET S /\ x \in D \ Q /\ Q \cup {x} = R
    OBVIOUS
  <1>7. Cardinality(Q) = n - 1 /\ Cardinality(Q) \in Nat /\ n \in Nat
    BY <1>1, <1>3, FS_RemoveElement
  <1>8. Right(Q)
    <2>1. Cardinality(Q) \notin Sizes
      <3> HIDE DEF Sizes, Q
      <3> QED BY <1>2, <1>7
    <2> HIDE DEF Q, Right
    <2> QED BY <1>6, <1>7, <2>1
  <1>9. Q \in SUBSET D /\ IsFiniteSet(Q)
    BY <1>1, <1>6
  <1>10. SumOn(u, R) = SumOn(u, Q) + u[x]
    <2>1. SumOn(u, Q \cup {x}) = SumOn(u, Q) + u[x]
      <3> HIDE DEF Q
      <3> QED BY <1>6, <1>9, SumWithOneMore
    <2> QED BY <2>1, <1>6
  <1>11. SumOn(u, Q) \in Nat /\ u[x] \in Nat /\ u[x] <= most
    BY <1>9, SumIsNumber
  <1>12. n * most = (n - 1) * most + most
    BY <1>7
  <1> HIDE DEF Q
  <1>13. (n - 1) * most \in Nat
    BY <1>7
  <1> DEFINE less == (n - 1) * most
  <1>14. SumOn(u, Q) <= less
    BY <1>7, <1>8
  <1>15. SumOn(u, R) <= less + most
    <2> HIDE DEF less
    <2>1. less \in Nat
      BY <1>13 DEF less
    <2> QED BY <1>10, <1>11, <1>14, <2>1
  <1> QED BY <1>3, <1>12, <1>15

\* A set counted class by class: c is the class of each of its elements.  So the
\* events of a report, split by bucket or by operation, add up to all of them
\* (backend/app/metrics.py, _report).
THEOREM SumOfClasses ==
    ASSUME NEW S, IsFiniteSet(S), NEW K, IsFiniteSet(K), NEW c, \A x \in S : c[x] \in K,
           NEW u, u = [k \in K |-> Cardinality({x \in S : c[x] = k})]
    PROVE  SumFunction(u) = Cardinality(S)
  <1> DEFINE Of(R) == {x \in S : c[x] \in R}
             Right(R) == SumOn(u, R) = Cardinality(Of(R))
             Sizes == {n \in Nat : \E R \in SUBSET K : ~Right(R) /\ Cardinality(R) = n}
  <1>1. \A R : IsFiniteSet(Of(R)) /\ Cardinality(Of(R)) \in Nat
    BY FS_Subset, FS_CardinalityType
  <1>2. \A k : {x \in S : c[x] = k} = Of({k})
    OBVIOUS
  <1>3. u \in [K -> Nat] /\ \A k \in K : u[k] = Cardinality(Of({k}))
    <2> HIDE DEF Of
    <2> QED BY <1>1, <1>2
  <1>4. \A R \in SUBSET K : IsFiniteSet(R) /\ Cardinality(R) \in Nat
    BY FS_Subset, FS_CardinalityType
  <1>5. Right(K)
    <2> SUFFICES ASSUME ~Right(K) PROVE FALSE
      OBVIOUS
    <2>1. Sizes \in SUBSET Nat /\ Cardinality(K) \in Sizes
      <3> HIDE DEF Right
      <3> QED BY <1>4
    <2>2. PICK n \in Sizes : \A m \in Sizes : n <= m
      <3> HIDE DEF Sizes
      <3> QED BY <2>1, LeastNumber
    <2>3. PICK R \in SUBSET K : ~Right(R) /\ Cardinality(R) = n
      BY <2>2
    <2>4. R # {}
      <3>1. Of({}) = {}
        OBVIOUS
      <3>2. Right({})
        BY <3>1, <1>3, SumOfNothing, FS_EmptySet
      <3> QED BY <2>3, <3>2
    <2>5. PICK k \in R : TRUE
      BY <2>4
    <2>6. PICK Q : Q = R \ {k}
      OBVIOUS
    <2>7. Q \in SUBSET K /\ k \in K \ Q /\ Q \cup {k} = R
      BY <2>6
    <2>8. Right(Q)
      <3>1. Cardinality(Q) = n - 1 /\ Cardinality(Q) \in Nat /\ n \in Nat
        BY <1>4, <2>3, <2>6, FS_RemoveElement
      <3> HIDE DEF Right
      <3> QED BY <2>2, <2>7, <3>1
    <2>9. SumOn(u, Q \cup {k}) = SumOn(u, Q) + u[k]
      <3>1. IsFiniteSet(Q) /\ Q \in SUBSET K /\ k \in K \ Q
        BY <1>4, <2>7
      <3>2. u \in [K -> Nat]
        BY <1>3
      <3> QED BY ONLY <3>1, <3>2, SumWithOneMore
    <2>10. Of(R) = Of(Q) \cup Of({k}) /\ Of(Q) \cap Of({k}) = {}
      BY <2>7
    <2>11. Cardinality(Of(R)) = Cardinality(Of(Q)) + Cardinality(Of({k}))
      <3>1. PICK A, B : A = Of(Q) /\ B = Of({k})
        OBVIOUS
      <3>2. IsFiniteSet(A) /\ IsFiniteSet(B) /\ Cardinality(A) \in Nat /\ Cardinality(B) \in Nat
        BY <1>1, <3>1
      <3>3. Of(R) = A \cup B /\ A \cap B = {}
        BY <2>10, <3>1
      <3>4. Cardinality(A \cup B) = Cardinality(A) + Cardinality(B) - Cardinality(A \cap B)
        BY <3>2, FS_Union
      <3>5. Cardinality(A \cap B) = 0
        BY <3>3, FS_EmptySet
      <3>6. Cardinality(A \cup B) = Cardinality(A) + Cardinality(B)
        BY <3>2, <3>4, <3>5
      <3> QED BY <3>1, <3>3, <3>6
    <2> HIDE DEF Of
    <2> QED BY <1>3, <2>3, <2>7, <2>8, <2>9, <2>11
  <1>6. Of(K) = S
    OBVIOUS
  <1>7. SumFunction(u) = SumOn(u, K)
    BY <1>3 DEF SumFunction, SumFunctionOnSet, SumOn
  <1> QED BY <1>5, <1>6, <1>7
-----------------------------------------------------------------------------
(* Sums over functions on sets that grow and change.                           *)

LEMMA SumFunctionIsNumber ==
    ASSUME NEW S, IsFiniteSet(S), NEW u \in [S -> Nat]
    PROVE  SumFunction(u) \in Nat /\ SumFunction(u) = SumOn(u, S)
  <1>1. SumFunction(u) = SumOn(u, S)
    BY DEF SumFunction, SumFunctionOnSet, SumOn
  <1> QED BY <1>1, SumIsNumber

\* One more summand adds itself.
LEMMA SumOfExtended ==
    ASSUME NEW S, IsFiniteSet(S), NEW x, x \notin S, NEW D, D = S \cup {x},
           NEW u \in [S -> Nat], NEW w \in [D -> Nat], \A y \in S : w[y] = u[y]
    PROVE  SumFunction(w) = SumFunction(u) + w[x]
  <1>1. IsFiniteSet(D)
    BY FS_AddElement
  <1>2. S \in SUBSET D /\ x \in D \ S
    OBVIOUS
  <1>3. SumOn(w, S \cup {x}) = SumOn(w, S) + w[x]
    BY <1>2, SumWithOneMore
  <1>4. SumOn(w, S) = SumOn(u, S)
    BY <1>2, SumsAgree
  <1>5. SumFunction(w) = SumOn(w, D) /\ SumFunction(u) = SumOn(u, S)
    BY <1>1, SumFunctionIsNumber
  <1> QED BY <1>3, <1>4, <1>5

LEMMA SumOfOne ==
    ASSUME NEW x, NEW u \in [{x} -> Nat]
    PROVE  SumFunction(u) = u[x]
  <1>1. PICK D : D = {x}
    OBVIOUS
  <1>2. u \in [D -> Nat] /\ {} \in SUBSET D /\ IsFiniteSet({}) /\ x \in D \ {}
    BY <1>1, FS_EmptySet
  <1>3. SumOn(u, {} \cup {x}) = SumOn(u, {}) + u[x]
    BY <1>2, SumWithOneMore
  <1>4. SumOn(u, {}) = 0
    BY <1>2, SumOfNothing
  <1>5. {} \cup {x} = D /\ u[x] \in Nat
    BY <1>1
  <1>6. SumFunction(u) = SumOn(u, D)
    BY <1>1, FS_Singleton, SumFunctionIsNumber
  <1> QED BY <1>3, <1>4, <1>5, <1>6

\* A summand that changes changes the sum by as much.
LEMMA SumOfChanged ==
    ASSUME NEW S, IsFiniteSet(S), NEW u \in [S -> Nat], NEW w \in [S -> Nat], NEW x \in S,
           \A y \in S \ {x} : u[y] = w[y]
    PROVE  SumFunction(w) + u[x] = SumFunction(u) + w[x]
  <1>1. PICK rest \in Nat : SumOn(u, S) = rest + u[x] /\ SumOn(w, S) = rest + w[x]
    BY SumOfReplaced
  <1>2. SumFunction(w) = SumOn(w, S) /\ SumFunction(u) = SumOn(u, S)
    BY SumFunctionIsNumber
  <1>3. u[x] \in Nat /\ w[x] \in Nat
    OBVIOUS
  <1> QED BY <1>1, <1>2, <1>3

\* What is 0 can be left out.
LEMMA SumOfChosen ==
    ASSUME NEW S, IsFiniteSet(S), NEW u \in [S -> Nat], NEW R \in SUBSET S, NEW w \in [R -> Nat],
           \A x \in R : u[x] = w[x], \A x \in S \ R : u[x] = 0
    PROVE  SumFunction(u) = SumFunction(w)
  <1>1. PICK Z : Z = S \ R
    OBVIOUS
  <1>2. IsFiniteSet(Z) /\ IsFiniteSet(R) /\ R \cup Z = S
    BY <1>1, FS_Subset
  <1> DEFINE T == {Q \in SUBSET Z : SumOn(u, R \cup Q) = SumOn(u, R)}
  <1>3. {} \in T
    <2>1. R \cup {} = R
      OBVIOUS
    <2> QED BY <2>1
  <1>4. ASSUME NEW Q \in SUBSET Z, NEW x \in Z \ Q, Q \in T
        PROVE  Q \cup {x} \in T
    <2>1. PICK V : V = R \cup Q
      OBVIOUS
    <2>2. V \in SUBSET S /\ IsFiniteSet(V) /\ x \in S \ V
      BY <1>1, <2>1, FS_Subset
    <2>3. SumOn(u, V \cup {x}) = SumOn(u, V) + u[x]
      BY <2>2, SumWithOneMore
    <2>4. u[x] = 0 /\ SumOn(u, V) \in Nat
      BY <1>1, <2>2, SumIsNumber
    <2>5. R \cup (Q \cup {x}) = V \cup {x}
      BY <2>1
    <2>6. SumOn(u, V) = SumOn(u, R)
      BY <1>4, <2>1
    <2>7. SumOn(u, V \cup {x}) = SumOn(u, R)
      BY <2>3, <2>4, <2>6
    <2>8. SumOn(u, R \cup (Q \cup {x})) = SumOn(u, R)
      BY <2>5, <2>7
    <2>9. Q \cup {x} \in SUBSET Z
      OBVIOUS
    <2> QED BY <2>8, <2>9
  <1>5. Z \in T
    <2> HIDE DEF T
    <2> QED BY <1>2, <1>3, <1>4, AllSubsets
  <1>6. SumOn(u, S) = SumOn(u, R)
    BY <1>2, <1>5
  <1>7. SumOn(u, R) = SumOn(w, R)
    BY <1>2, SumsAgree
  <1> QED BY <1>2, <1>6, <1>7, SumFunctionIsNumber

\* Ones add up to how many there are.
LEMMA SumOfMarks ==
    ASSUME NEW S, IsFiniteSet(S), NEW R \in SUBSET S, NEW u \in [S -> Nat],
           \A x \in S : u[x] = IF x \in R THEN 1 ELSE 0
    PROVE  SumFunction(u) = Cardinality(R)
  <1>1. IsFiniteSet(R)
    BY FS_Subset
  <1> DEFINE T == {Q \in SUBSET R : SumOn(u, Q) = Cardinality(Q)}
  <1>2. {} \in T
    BY SumOfNothing, FS_EmptySet
  <1>3. ASSUME NEW Q \in SUBSET R, NEW x \in R \ Q, Q \in T
        PROVE  Q \cup {x} \in T
    <2>1. IsFiniteSet(Q) /\ Q \in SUBSET S /\ x \in S \ Q
      BY <1>1, FS_Subset
    <2>2. SumOn(u, Q \cup {x}) = SumOn(u, Q) + u[x]
      BY <2>1, SumWithOneMore
    <2>3. Cardinality(Q \cup {x}) = Cardinality(Q) + 1
      BY <2>1, FS_AddElement
    <2>4. u[x] = 1
      OBVIOUS
    <2> QED BY <1>3, <2>2, <2>3, <2>4
  <1>4. R \in T
    <2> HIDE DEF T
    <2> QED BY <1>1, <1>2, <1>3, AllSubsets
  <1>5. PICK w : w = [x \in R |-> 1]
    OBVIOUS
  <1>6. SumFunction(u) = SumFunction(w)
    BY <1>5, SumOfChosen
  <1>7. SumFunction(w) = SumOn(w, R) /\ SumOn(w, R) = SumOn(u, R)
    BY <1>1, <1>5, SumFunctionIsNumber, SumsAgree
  <1> QED BY <1>4, <1>6, <1>7
===============================================================================
