---------------------------- MODULE SumTheorems ----------------------------
(***************************************************************************)
(* Facts about the sums the models take with MapThenSumSet.  A sum of      *)
(* naturals over a finite set is the number of its units: the pairs of an  *)
(* element and a unit of it.  That turns every fact about sums into one    *)
(* about finite sets, and leaves a single induction, the uniqueness of the *)
(* function the fold is defined by.                                        *)
(***************************************************************************)
EXTENDS Integers, FiniteSets, FiniteSetsExt, FiniteSetTheorems, WellFoundedInduction, TLAPS

\* The element the fold of the community modules takes first.
FirstOf(s) == CHOOSE x \in s : TRUE

\* The units of x, and those of all elements of S.
UnitsOf(F, x)  == {x} \X (1 .. F[x])
Units(F, S)    == UNION {UnitsOf(F, x) : x \in S}
Count(F, S)    == Cardinality(Units(F, S))

\* Every non-empty set of naturals has a least element.
LEMMA LeastNatural ==
  ASSUME NEW T \in SUBSET Nat, T # {}
  PROVE  \E x \in T : \A y \in T : x <= y
<1>1. PICK x \in T : \A y \in T : ~ (<<y, x>> \in OpToRel(<, Nat))
  BY NatLessThanWellFounded, WFMin
<1>2. ASSUME NEW y \in T PROVE x <= y
  <2>1. <<y, x>> \notin OpToRel(<, Nat)
    BY <1>1
  <2>2. <<y, x>> \in Nat \X Nat /\ ~(y < x)
    BY <2>1 DEF OpToRel
  <2>. QED BY <2>2
<1>. QED BY <1>2

\* An element has as many units as its value.
LEMMA UnitsOfOne ==
  ASSUME NEW F, NEW x, F[x] \in Nat
  PROVE  IsFiniteSet(UnitsOf(F, x)) /\ Cardinality(UnitsOf(F, x)) = F[x]
<1>1. IsFiniteSet({x}) /\ Cardinality({x}) = 1
  BY FS_Singleton
<1>2. IsFiniteSet(1 .. F[x]) /\ Cardinality(1 .. F[x]) = F[x]
  BY FS_Interval
<1>3. IsFiniteSet(UnitsOf(F, x)) /\ Cardinality(UnitsOf(F, x)) = Cardinality({x}) * Cardinality(1 .. F[x])
  BY <1>1, <1>2, FS_Product DEF UnitsOf
<1>. QED BY <1>1, <1>2, <1>3

\* The units of a finite set are finitely many.
LEMMA UnitsFinite ==
  ASSUME NEW S, IsFiniteSet(S), NEW F, \A x \in S : F[x] \in Nat
  PROVE  IsFiniteSet(Units(F, S)) /\ Count(F, S) \in Nat
<1>. DEFINE f == [x \in S |-> UnitsOf(F, x)]
            T == {UnitsOf(F, x) : x \in S}
<1>1. f \in Surjection(S, T)
  BY DEF Surjection
<1>2. IsFiniteSet(T)
  BY <1>1, FS_Surjection
<1>3. \A U \in T : IsFiniteSet(U)
  BY UnitsOfOne
<1>4. IsFiniteSet(UNION T)
  BY <1>2, <1>3, FS_UNION
<1>. QED BY <1>4, FS_CardinalityType DEF Units, Count

\* One element more adds its value.
LEMMA CountSplits ==
  ASSUME NEW S, IsFiniteSet(S), NEW F, \A x \in S : F[x] \in Nat, NEW e \in S
  PROVE  Count(F, S) = F[e] + Count(F, S \ {e})
<1>1. IsFiniteSet(S \ {e})
  BY FS_RemoveElement
<1>2. IsFiniteSet(Units(F, S \ {e})) /\ Count(F, S \ {e}) \in Nat
  BY <1>1, UnitsFinite
<1>3. IsFiniteSet(UnitsOf(F, e)) /\ Cardinality(UnitsOf(F, e)) = F[e]
  BY UnitsOfOne
<1>4. Units(F, S) = UnitsOf(F, e) \cup Units(F, S \ {e})
  BY DEF Units
<1>5. UnitsOf(F, e) \cap Units(F, S \ {e}) = {}
  BY DEF Units, UnitsOf
<1>6. Cardinality(UnitsOf(F, e) \cup Units(F, S \ {e}))
         = Cardinality(UnitsOf(F, e)) + Cardinality(Units(F, S \ {e})) - Cardinality(UnitsOf(F, e) \cap Units(F, S \ {e}))
  BY <1>2, <1>3, FS_Union
<1>7. Cardinality(UnitsOf(F, e) \cap Units(F, S \ {e})) = 0
  BY <1>5, FS_EmptySet
<1>8. Cardinality(Units(F, S)) = Cardinality(UnitsOf(F, e) \cup Units(F, S \ {e}))
  BY <1>4
<1>9. Cardinality(Units(F, S \ {e})) = Count(F, S \ {e}) /\ Cardinality(Units(F, S)) = Count(F, S)
  BY DEF Count
<1>. QED BY <1>2, <1>3, <1>6, <1>7, <1>8, <1>9

\* Nothing sums up to zero.
LEMMA CountOfNone == \A F : Count(F, {}) = 0
  BY FS_EmptySet DEF Count, Units

\* Smaller values over fewer elements sum up to less.
LEMMA CountMonotone ==
  ASSUME NEW T, IsFiniteSet(T), NEW S \in SUBSET T, NEW F, NEW G,
         \A x \in T : G[x] \in Nat, \A x \in S : F[x] \in Nat /\ F[x] <= G[x]
  PROVE  Count(F, S) <= Count(G, T)
<1>1. IsFiniteSet(Units(G, T))
  BY UnitsFinite
<1>2. \A x \in S : UnitsOf(F, x) \subseteq UnitsOf(G, x)
  BY DEF UnitsOf
<1>3. Units(F, S) \subseteq Units(G, T)
  BY <1>2 DEF Units
<1>. QED BY <1>1, <1>3, FS_Subset DEF Count

\* Equal values sum up to the same.
LEMMA CountExtensional ==
  ASSUME NEW S, NEW F, NEW G, \A x \in S : F[x] = G[x]
  PROVE  Count(F, S) = Count(G, S)
<1>1. \A x \in S : UnitsOf(F, x) = UnitsOf(G, x)
  BY DEF UnitsOf
<1>. QED BY <1>1 DEF Count, Units

\* Elements of value zero do not matter.
LEMMA CountOfSupport ==
  ASSUME NEW T, NEW S \in SUBSET T, NEW F, \A x \in T \ S : F[x] = 0
  PROVE  Count(F, T) = Count(F, S)
<1>1. \A x \in T \ S : UnitsOf(F, x) = {}
  BY DEF UnitsOf
<1>2. Units(F, T) = Units(F, S)
  BY <1>1 DEF Units
<1>. QED BY <1>2 DEF Count

\* Equal values sum up to their product with the number of elements.
LEMMA CountOfConstant ==
  ASSUME NEW S, IsFiniteSet(S), NEW v \in Nat, NEW F, \A x \in S : F[x] = v
  PROVE  Count(F, S) = Cardinality(S) * v
<1>1. Units(F, S) = S \X (1 .. v)
  BY DEF Units, UnitsOf
<1>2. IsFiniteSet(1 .. v) /\ Cardinality(1 .. v) = v
  BY FS_Interval
<1>3. Cardinality(S \X (1 .. v)) = Cardinality(S) * Cardinality(1 .. v)
  BY <1>2, FS_Product
<1>. QED BY <1>1, <1>2, <1>3 DEF Count

\* A bijection that keeps the values keeps the sum.
LEMMA CountOfImage ==
  ASSUME NEW S, IsFiniteSet(S), NEW T, NEW b \in Bijection(S, T), NEW F, NEW G,
         \A x \in S : F[x] \in Nat, \A x \in S : G[b[x]] = F[x]
  PROVE  Count(F, S) = Count(G, T)
<1>. DEFINE f == [u \in Units(F, S) |-> <<b[u[1]], u[2]>>]
<1>1. /\ b \in [S -> T] /\ \A y \in T : \E x \in S : b[x] = y
      /\ \A x, y \in S : b[x] = b[y] => x = y
  BY DEF Bijection, Injection, Surjection, IsInjective
<1>2. \A u : u \in Units(F, S) <=> \E x \in S : \E i \in 1 .. F[x] : u = <<x, i>>
  BY DEF Units, UnitsOf
<1>3. \A u : u \in Units(G, T) <=> \E y \in T : \E i \in 1 .. G[y] : u = <<y, i>>
  BY DEF Units, UnitsOf
<1>4. f \in [Units(F, S) -> Units(G, T)]
  BY <1>1, <1>2, <1>3
<1>5. ASSUME NEW v \in Units(G, T) PROVE \E u \in Units(F, S) : f[u] = v
  <2>1. PICK y \in T : \E i \in 1 .. G[y] : v = <<y, i>>
    BY <1>3
  <2>4. PICK i \in 1 .. G[y] : v = <<y, i>>
    BY <2>1
  <2>2. PICK x \in S : b[x] = y
    BY <1>1
  <2>3. <<x, i>> \in Units(F, S)
    BY <1>2, <2>2, <2>4
  <2>. QED BY <2>2, <2>3, <2>4
<1>6. ASSUME NEW u \in Units(F, S), NEW v \in Units(F, S), f[u] = f[v] PROVE u = v
  <2>1. PICK x \in S : \E i \in 1 .. F[x] : u = <<x, i>>
    BY <1>2
  <2>2. PICK y \in S : \E j \in 1 .. F[y] : v = <<y, j>>
    BY <1>2
  <2>3. <<b[x], u[2]>> = <<b[y], v[2]>> /\ u = <<x, u[2]>> /\ v = <<y, v[2]>>
    BY <1>6, <2>1, <2>2
  <2>4. x = y /\ u[2] = v[2]
    BY <1>1, <2>3
  <2>. QED BY <2>3, <2>4
<1>7. f \in Bijection(Units(F, S), Units(G, T))
  BY <1>4, <1>5, <1>6 DEF Bijection, Injection, Surjection, IsInjective
<1>8. IsFiniteSet(Units(F, S))
  BY UnitsFinite
<1>. QED BY <1>7, <1>8, FS_Bijection DEF Count, ExistsBijection

\* The equation of the fold: what it is of a set, from what it is of the set without its first element.
IsFold(g, F, S) == g = [s \in SUBSET S |-> IF s = {} THEN 0 ELSE F[FirstOf(s)] + g[s \ {FirstOf(s)}]]

\* The first element of a non-empty set is one of its elements.
LEMMA FirstIn == \A s : s # {} => FirstOf(s) \in s
  BY DEF FirstOf

\* Counting units solves the equation of the fold.
LEMMA CountIsFold ==
  ASSUME NEW S, IsFiniteSet(S), NEW F, \A x \in S : F[x] \in Nat
  PROVE  IsFold([s \in SUBSET S |-> Count(F, s)], F, S)
<1>. DEFINE g == [s \in SUBSET S |-> Count(F, s)]
<1>1. ASSUME NEW s \in SUBSET S
      PROVE  g[s] = IF s = {} THEN 0 ELSE F[FirstOf(s)] + g[s \ {FirstOf(s)}]
  <2>1. CASE s = {}
    BY <2>1, CountOfNone
  <2>2. CASE s # {}
    <3>1. IsFiniteSet(s) /\ FirstOf(s) \in s /\ \A x \in s : F[x] \in Nat
      BY <2>2, FirstIn, FS_Subset
    <3>2. Count(F, s) = F[FirstOf(s)] + Count(F, s \ {FirstOf(s)})
      BY <3>1, CountSplits
    <3>3. s \ {FirstOf(s)} \in SUBSET S
      OBVIOUS
    <3>. QED BY <2>2, <3>2, <3>3
  <2>. QED BY <2>1, <2>2
<1>. QED BY <1>1 DEF IsFold

\* Nothing else does: two solutions that differ would differ first on a set whose smaller subsets agree.
LEMMA FoldIsCount ==
  ASSUME NEW S, IsFiniteSet(S), NEW F, \A x \in S : F[x] \in Nat, NEW g, IsFold(g, F, S)
  PROVE  \A s \in SUBSET S : g[s] = Count(F, s)
<1>. DEFINE Bad == {s \in SUBSET S : g[s] # Count(F, s)}
            Sizes == {Cardinality(s) : s \in Bad}
<1>. SUFFICES ASSUME Bad # {} PROVE FALSE
  OBVIOUS
<1>1. \A s \in SUBSET S : IsFiniteSet(s) /\ Cardinality(s) \in Nat
  BY FS_Subset, FS_CardinalityType
<1>2. Sizes \in SUBSET Nat /\ Sizes # {}
  BY <1>1
<1>3. PICK n \in Sizes : \A m \in Sizes : n <= m
  BY <1>2, LeastNatural
<1>4. PICK s \in Bad : Cardinality(s) = n
  BY <1>3
<1>5. s \in SUBSET S /\ g[s] # Count(F, s) /\ \A u \in Bad : Cardinality(s) <= Cardinality(u)
  BY <1>3, <1>4
<1>6. s # {}
  BY <1>5, CountOfNone DEF IsFold
<1>. DEFINE e == FirstOf(s)
<1>7. e \in s /\ IsFiniteSet(s) /\ \A x \in s : F[x] \in Nat
  BY <1>1, <1>5, <1>6, FirstIn
<1>8. Cardinality(s \ {e}) = Cardinality(s) - 1 /\ Cardinality(s) \in Nat /\ s \ {e} \in SUBSET S
  BY <1>1, <1>5, <1>7, FS_RemoveElement
<1>9. g[s \ {e}] = Count(F, s \ {e})
  BY <1>5, <1>8
<1>10. g[s] = F[e] + g[s \ {e}]
  BY <1>5, <1>6 DEF IsFold
<1>11. Count(F, s) = F[e] + Count(F, s \ {e})
  BY <1>7, CountSplits
<1>. QED BY <1>5, <1>9, <1>10, <1>11

\* A sum is the number of units.
THEOREM SumIsCount ==
  ASSUME NEW S, IsFiniteSet(S), NEW F, \A x \in S : F[x] \in Nat
  PROVE  MapThenSumSet(LAMBDA x : F[x], S) = Count(F, S)
<1>. DEFINE h == CHOOSE g : IsFold(g, F, S)
<1>1. MapThenSumSet(LAMBDA x : F[x], S) = h[S]
  BY DEF MapThenSumSet, MapThenFoldSet, IsFold, FirstOf
<1>2. IsFold(h, F, S)
  <2>1. \E g : IsFold(g, F, S)
    BY CountIsFold
  <2>. QED BY <2>1
<1>. HIDE DEF h
<1>3. h[S] = Count(F, S)
  BY <1>2, FoldIsCount
<1>. QED BY <1>1, <1>3
=============================================================================
