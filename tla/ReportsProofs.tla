---------------------------- MODULE ReportsProofs ----------------------------
(***************************************************************************)
(* Proofs about Reports, for any accounts, amounts and dates, and any      *)
(* number of postings and closings.                                        *)
(***************************************************************************)
EXTENDS Reports, FiniteSetTheorems, WellFoundedInduction, TLAPS

(***************************************************************************)
(* Sums over finite sets.                                                  *)
(***************************************************************************)

\* Induction over the subsets of a finite set, smaller ones first.  The property is the set P
\* of the subsets that have it.
LEMMA SubsetInduction ==
  ASSUME NEW S, IsFiniteSet(S), NEW P,
         \A T \in SUBSET S : (\A x \in T : T \ {x} \in P) => T \in P
  PROVE  S \in P
<1> SUFFICES ASSUME S \notin P PROVE FALSE
  OBVIOUS
<1> DEFINE Bad == {n \in Nat : \E T \in SUBSET S : T \notin P /\ Cardinality(T) = n}
<1>1. Cardinality(S) \in Bad
  BY FS_CardinalityType
<1>2. PICK m \in Bad : \A n \in Bad : ~(<<n, m>> \in OpToRel(<, Nat))
  <2>1. Bad \subseteq Nat /\ Bad # {}
    BY <1>1
  <2> HIDE DEF Bad
  <2> QED BY <2>1, WFMin, NatLessThanWellFounded
<1>3. PICK T \in SUBSET S : T \notin P /\ Cardinality(T) = m
  OBVIOUS
<1>4. PICK x \in T : T \ {x} \notin P
  BY <1>3
<1>5. IsFiniteSet(T)
  BY FS_Subset
<1>6. IsFiniteSet(T \ {x}) /\ Cardinality(T \ {x}) = m - 1 /\ Cardinality(T \ {x}) \in Nat
  BY <1>3, <1>4, <1>5, FS_RemoveElement, FS_CardinalityType
<1>7. m - 1 \in Bad
  BY <1>4, <1>6
<1>8. m \in Nat /\ m - 1 \in Nat /\ m - 1 < m
  BY <1>6
<1>9. <<m - 1, m>> \in OpToRel(<, Nat)
  BY <1>8 DEF OpToRel
<1> QED BY <1>2, <1>7, <1>9

\* The member that the fold of the community modules takes first.
Chosen(s) == CHOOSE x \in s : TRUE

\* Amounts as sets of units: the sum of f over s is the number of units of its positive values
\* less that of its negative ones.
Units(f, s) == UNION {{x} \X (1..f[x]) : x \in s}
UnitSum(f, s) == Cardinality(Units(f, s)) - Cardinality(Units([x \in s |-> -f[x]], s))

\* Finitely many values have finitely many units, and one member contributes its own.
LEMMA UnitsStep ==
  ASSUME NEW s, IsFiniteSet(s), NEW f, \A y \in s : f[y] \in Int, NEW x \in s
  PROVE  /\ IsFiniteSet(Units(f, s)) /\ IsFiniteSet(Units(f, s \ {x}))
         /\ Cardinality(Units(f, s)) =
              Cardinality(Units(f, s \ {x})) + (IF f[x] > 0 THEN f[x] ELSE 0)
<1> DEFINE one == {x} \X (1..f[x])
<1>1. ASSUME NEW t \in SUBSET s PROVE IsFiniteSet(Units(f, t))
  <2> DEFINE G == [y \in t |-> {y} \X (1..f[y])]
             R == {{y} \X (1..f[y]) : y \in t}
  <2>1. G \in Surjection(t, R)
    BY DEF Surjection
  <2>2. IsFiniteSet(R)
    BY <2>1, FS_Subset, FS_Surjection
  <2>3. \A y \in t : IsFiniteSet({y} \X (1..f[y]))
    <3> TAKE y \in t
    <3>1. f[y] \in Int
      OBVIOUS
    <3>2. IsFiniteSet({y})
      BY FS_Singleton
    <3>3. IsFiniteSet(1..f[y])
      BY <3>1, FS_Interval
    <3> QED BY <3>2, <3>3, FS_Product
  <2>4. \A T \in R : IsFiniteSet(T)
    BY <2>3
  <2>5. IsFiniteSet(UNION R)
    <3> HIDE DEF R
    <3> QED BY <2>2, <2>4, FS_UNION
  <2> QED BY <2>5 DEF Units
<1>2. IsFiniteSet(one) /\ Cardinality(one) = IF f[x] > 0 THEN f[x] ELSE 0
  <2>1. IsFiniteSet({x}) /\ Cardinality({x}) = 1
    BY FS_Singleton
  <2>2. IsFiniteSet(1..f[x]) /\ Cardinality(1..f[x]) = IF f[x] > 0 THEN f[x] ELSE 0
    BY FS_Interval
  <2>3. IsFiniteSet(one) /\ Cardinality(one) = Cardinality({x}) * Cardinality(1..f[x])
    BY <2>1, <2>2, FS_Product
  <2> QED BY <2>1, <2>2, <2>3
<1>3. Units(f, s) = Units(f, s \ {x}) \cup one
  BY DEF Units
<1>4. Units(f, s \ {x}) \cap one = {}
  BY DEF Units
<1>5. IsFiniteSet(Units(f, s \ {x})) /\ IsFiniteSet(Units(f, s))
  BY <1>1
<1> HIDE DEF one
<1>6. Cardinality(Units(f, s \ {x}) \cup one) = Cardinality(Units(f, s \ {x})) + Cardinality(one) - 0
  <2>1. Cardinality(Units(f, s \ {x}) \cup one) =
          Cardinality(Units(f, s \ {x})) + Cardinality(one) - Cardinality(Units(f, s \ {x}) \cap one)
    BY <1>2, <1>5, FS_Union
  <2> QED BY <1>4, <2>1, FS_EmptySet
<1>7. Cardinality(Units(f, s \ {x})) \in Nat
  BY <1>5, FS_CardinalityType
<1> QED BY <1>2, <1>3, <1>5, <1>6, <1>7

\* The sum of units has the recursion of a sum, over any member.
LEMMA UnitSumStep ==
  ASSUME NEW s, IsFiniteSet(s), NEW f, \A y \in s : f[y] \in Int
  PROVE  /\ UnitSum(f, s) \in Int
         /\ \A x \in s : UnitSum(f, s) = f[x] + UnitSum(f, s \ {x}) /\ UnitSum(f, s \ {x}) \in Int
         /\ s = {} => UnitSum(f, s) = 0
<1>1. ASSUME NEW x \in s
      PROVE  /\ UnitSum(f, s) = f[x] + UnitSum(f, s \ {x}) 
             /\ UnitSum(f, s \ {x}) \in Int /\ UnitSum(f, s) \in Int
  <2> DEFINE g == [y \in s |-> -f[y]]
             h == [y \in s \ {x} |-> -f[y]]
  <2>1. Units(h, s \ {x}) = Units(g, s \ {x})
    BY DEF Units
  <2>2. \A y \in s : g[y] \in Int
    OBVIOUS
  <2>3. g[x] = -f[x] /\ f[x] \in Int
    OBVIOUS
  <2> HIDE DEF g
  <2>4. /\ IsFiniteSet(Units(g, s)) /\ IsFiniteSet(Units(g, s \ {x}))
        /\ Cardinality(Units(g, s)) = Cardinality(Units(g, s \ {x})) + (IF g[x] > 0 THEN g[x] ELSE 0)
    BY <2>2, UnitsStep
  <2>5. /\ IsFiniteSet(Units(f, s)) /\ IsFiniteSet(Units(f, s \ {x}))
        /\ Cardinality(Units(f, s)) = Cardinality(Units(f, s \ {x})) + (IF f[x] > 0 THEN f[x] ELSE 0)
    BY UnitsStep
  <2>6. UnitSum(f, s) = Cardinality(Units(f, s)) - Cardinality(Units(g, s))
    BY DEF UnitSum, g
  <2>7. UnitSum(f, s \ {x}) = Cardinality(Units(f, s \ {x})) - Cardinality(Units(g, s \ {x}))
    BY <2>1 DEF UnitSum
  <2>8. Cardinality(Units(f, s \ {x})) \in Nat /\ Cardinality(Units(g, s \ {x})) \in Nat
    BY <2>4, <2>5, FS_CardinalityType
  <2> QED BY <2>3, <2>4, <2>5, <2>6, <2>7, <2>8
<1>2. ASSUME s = {} PROVE UnitSum(f, s) = 0
  <2>1. Units(f, s) = {} /\ Units([x \in s |-> -f[x]], s) = {}
    BY <1>2 DEF Units
  <2> QED BY <2>1, FS_EmptySet DEF UnitSum
<1> QED
  <2>1. CASE s = {}
    BY <1>2, <2>1
  <2>2. CASE s # {}
    <3>1. PICK x : x \in s
      BY <2>2
    <3> QED BY <1>1, <2>2, <3>1
  <2> QED BY <2>1, <2>2

\* The fold of the community modules computes that sum, whatever order it takes the members in.
LEMMA SumIsUnitSum ==
  ASSUME NEW S, IsFiniteSet(S), NEW f, \A x \in S : f[x] \in Int
  PROVE  SumFunctionOnSet(f, S) = UnitSum(f, S)
<1> DEFINE Rec(h) == [s \in SUBSET S |->
                        IF s = {} THEN 0 ELSE f[Chosen(s)] + h[s \ {Chosen(s)}]]
           g == [s \in SUBSET S |-> UnitSum(f, s)]
<1>1. \A s \in SUBSET S : s # {} => Chosen(s) \in s
  BY DEF Chosen
<1>2. g = Rec(g)
  <2>1. ASSUME NEW s \in SUBSET S
        PROVE  g[s] = IF s = {} THEN 0 ELSE f[Chosen(s)] + g[s \ {Chosen(s)}]
    <3>1. IsFiniteSet(s) /\ \A x \in s : f[x] \in Int
      BY FS_Subset
    <3> QED BY <1>1, <3>1, UnitSumStep
  <2> QED BY <2>1
<1>3. PICK h : h = Rec(h) /\ SumFunctionOnSet(f, S) = h[S]
  <2> HIDE DEF g
  <2> QED BY <1>2 DEF SumFunctionOnSet, FoldFunctionOnSet, MapThenFoldSet, Chosen
<1> DEFINE P == {s \in SUBSET S : h[s] = UnitSum(f, s)}
<1> HIDE DEF g
<1>4. ASSUME NEW T \in SUBSET S, \A x \in T : T \ {x} \in P
      PROVE  h[T] = UnitSum(f, T)
  <2>1. IsFiniteSet(T) /\ \A x \in T : f[x] \in Int
    BY FS_Subset
  <2>2. h[T] = IF T = {} THEN 0 ELSE f[Chosen(T)] + h[T \ {Chosen(T)}]
    BY <1>3
  <2>3. CASE T = {}
    BY <2>1, <2>2, <2>3, UnitSumStep
  <2>4. CASE T # {}
    <3>1. Chosen(T) \in T
      BY <1>1, <2>4
    <3>2. h[T \ {Chosen(T)}] = UnitSum(f, T \ {Chosen(T)})
      BY <1>4, <3>1
    <3> QED BY <2>1, <2>2, <2>4, <3>1, <3>2, UnitSumStep
  <2> QED BY <2>3, <2>4
<1>5. \A T \in SUBSET S : (\A x \in T : T \ {x} \in P) => T \in P
  BY <1>4
<1>6. S \in P
  <2> HIDE DEF P
  <2> QED BY <1>5, SubsetInduction
<1> QED BY <1>3, <1>6

\* A sum is that of all members but one, and the value of that one.
LEMMA SumStep ==
  ASSUME NEW S, IsFiniteSet(S), NEW f, \A x \in S : f[x] \in Int
  PROVE  /\ SumFunctionOnSet(f, S) \in Int
         /\ S = {} => SumFunctionOnSet(f, S) = 0
         /\ \A x \in S : /\ SumFunctionOnSet(f, S) = f[x] + SumFunctionOnSet(f, S \ {x})
                         /\ SumFunctionOnSet(f, S \ {x}) \in Int
<1>1. ASSUME NEW x \in S
      PROVE  SumFunctionOnSet(f, S \ {x}) = UnitSum(f, S \ {x})
  BY FS_RemoveElement, SumIsUnitSum
<1> QED BY <1>1, SumIsUnitSum, UnitSumStep

\* Sums of functions that add up, member by member, add up.
LEMMA SumAdd ==
  ASSUME NEW S, IsFiniteSet(S), NEW f, NEW g, NEW h,
         \A x \in S : f[x] \in Int /\ g[x] \in Int /\ h[x] = f[x] + g[x]
  PROVE  SumFunctionOnSet(h, S) = SumFunctionOnSet(f, S) + SumFunctionOnSet(g, S)
<1> DEFINE P == {T \in SUBSET S :
                   SumFunctionOnSet(h, T) = SumFunctionOnSet(f, T) + SumFunctionOnSet(g, T)}
<1>1. ASSUME NEW T \in SUBSET S, \A x \in T : T \ {x} \in P
      PROVE  T \in P
  <2>1. IsFiniteSet(T) /\ \A x \in T : f[x] \in Int /\ g[x] \in Int /\ h[x] \in Int
    BY FS_Subset
  <2>2. CASE T = {}
    BY <2>1, <2>2, SumStep
  <2>3. CASE T # {}
    <3>1. PICK x : x \in T
      BY <2>3
    <3>2. SumFunctionOnSet(h, T \ {x}) = SumFunctionOnSet(f, T \ {x}) + SumFunctionOnSet(g, T \ {x})
      BY <1>1, <3>1
    <3>3. h[x] = f[x] + g[x] /\ f[x] \in Int /\ g[x] \in Int
      BY <3>1
    <3>4. /\ SumFunctionOnSet(h, T) = h[x] + SumFunctionOnSet(h, T \ {x})
          /\ SumFunctionOnSet(f, T) = f[x] + SumFunctionOnSet(f, T \ {x})
          /\ SumFunctionOnSet(g, T) = g[x] + SumFunctionOnSet(g, T \ {x})
          /\ SumFunctionOnSet(f, T \ {x}) \in Int /\ SumFunctionOnSet(g, T \ {x}) \in Int
      BY <2>1, <3>1, SumStep
    <3>5. SumFunctionOnSet(h, T) = SumFunctionOnSet(f, T) + SumFunctionOnSet(g, T)
      BY <3>2, <3>3, <3>4
    <3> QED BY <3>5
  <2> QED BY <2>2, <2>3
<1>2. S \in P
  <2> HIDE DEF P
  <2> QED BY <1>1, SubsetInduction
<1> QED BY <1>2

\* A sum of zeros is zero.
LEMMA SumZero ==
  ASSUME NEW S, IsFiniteSet(S), NEW f, \A x \in S : f[x] = 0
  PROVE  SumFunctionOnSet(f, S) = 0
<1>1. SumFunctionOnSet(f, S) = SumFunctionOnSet(f, S) + SumFunctionOnSet(f, S)
  BY SumAdd
<1>2. SumFunctionOnSet(f, S) \in Int
  BY SumStep
<1>3. \A a \in Int : a = a + a => a = 0
  OBVIOUS
<1> QED BY <1>1, <1>2, <1>3

\* Equal values have equal sums.
LEMMA SumSame ==
  ASSUME NEW S, IsFiniteSet(S), NEW f, NEW g, \A x \in S : f[x] \in Int /\ f[x] = g[x]
  PROVE  SumFunctionOnSet(f, S) = SumFunctionOnSet(g, S)
<1> DEFINE z == [x \in S |-> 0]
<1>1. SumFunctionOnSet(z, S) = 0
  BY SumZero
<1>2. \A x \in S : f[x] \in Int /\ z[x] \in Int /\ g[x] = f[x] + z[x]
  OBVIOUS
<1> HIDE DEF z
<1>3. SumFunctionOnSet(g, S) = SumFunctionOnSet(f, S) + SumFunctionOnSet(z, S)
  BY <1>2, SumAdd
<1>4. SumFunctionOnSet(f, S) \in Int
  BY SumStep
<1> QED BY <1>1, <1>3, <1>4

\* Opposite values have opposite sums.
LEMMA SumNegative ==
  ASSUME NEW S, IsFiniteSet(S), NEW f, NEW g, \A x \in S : f[x] \in Int /\ g[x] = -f[x]
  PROVE  SumFunctionOnSet(g, S) = -SumFunctionOnSet(f, S)
<1> DEFINE z == [x \in S |-> 0]
<1>1. SumFunctionOnSet(z, S) = 0
  BY SumZero
<1>2. \A x \in S : f[x] \in Int /\ g[x] \in Int /\ z[x] = f[x] + g[x]
  OBVIOUS
<1> HIDE DEF z
<1>3. SumFunctionOnSet(z, S) = SumFunctionOnSet(f, S) + SumFunctionOnSet(g, S)
  BY <1>2, SumAdd
<1>4. SumFunctionOnSet(f, S) \in Int /\ SumFunctionOnSet(g, S) \in Int
  BY <1>2, SumStep
<1> QED BY <1>1, <1>3, <1>4

\* The sum over a set is that over its two parts.
LEMMA SumUnion ==
  ASSUME NEW S, IsFiniteSet(S), NEW T, T \subseteq S, NEW f, \A x \in S : f[x] \in Int
  PROVE  /\ SumFunctionOnSet(f, S) = SumFunctionOnSet(f, T) + SumFunctionOnSet(f, S \ T)
         /\ SumFunctionOnSet(f, T) \in Int /\ SumFunctionOnSet(f, S \ T) \in Int
<1> DEFINE P == {U \in SUBSET T :
                   SumFunctionOnSet(f, U \cup (S \ T))
                     = SumFunctionOnSet(f, U) + SumFunctionOnSet(f, S \ T)}
<1>0. /\ IsFiniteSet(T) /\ IsFiniteSet(S \ T)
      /\ SumFunctionOnSet(f, T) \in Int /\ SumFunctionOnSet(f, S \ T) \in Int
  BY FS_Subset, SumStep
<1>1. ASSUME NEW U \in SUBSET T, \A x \in U : U \ {x} \in P
      PROVE  U \in P
  <2> DEFINE V == U \cup (S \ T)
  <2>1. IsFiniteSet(U) /\ IsFiniteSet(V) /\ \A x \in V : f[x] \in Int
    BY FS_Subset
  <2>2. CASE U = {}
    <3>1. V = S \ T
      BY <2>2
    <3>2. SumFunctionOnSet(f, U) = 0
      BY <2>1, <2>2, SumStep
    <3> HIDE DEF V
    <3>3. SumFunctionOnSet(f, V) = SumFunctionOnSet(f, U) + SumFunctionOnSet(f, S \ T)
      BY <1>0, <3>1, <3>2
    <3> QED BY <3>3 DEF V
  <2>3. CASE U # {}
    <3>1. PICK x : x \in U
      BY <2>3
    <3>2. V \ {x} = (U \ {x}) \cup (S \ T)
      BY <3>1
    <3>3. SumFunctionOnSet(f, V \ {x}) = SumFunctionOnSet(f, U \ {x}) + SumFunctionOnSet(f, S \ T)
      BY <1>1, <3>1, <3>2
    <3>4. x \in V /\ f[x] \in Int
      BY <2>1, <3>1
    <3> HIDE DEF V
    <3>5. /\ SumFunctionOnSet(f, V) = f[x] + SumFunctionOnSet(f, V \ {x})
          /\ SumFunctionOnSet(f, V \ {x}) \in Int
      BY <2>1, <3>4, SumStep
    <3>6. /\ SumFunctionOnSet(f, U) = f[x] + SumFunctionOnSet(f, U \ {x})
          /\ SumFunctionOnSet(f, U \ {x}) \in Int
      BY <2>1, <3>1, SumStep
    <3>7. SumFunctionOnSet(f, V) = SumFunctionOnSet(f, U) + SumFunctionOnSet(f, S \ T)
      BY <1>0, <3>3, <3>4, <3>5, <3>6
    <3> QED BY <3>7 DEF V
  <2> QED BY <2>2, <2>3
<1>2. T \in P
  <2> HIDE DEF P
  <2> QED BY <1>0, <1>1, SubsetInduction
<1>3. T \cup (S \ T) = S
  OBVIOUS
<1> QED BY <1>0, <1>2, <1>3

\* Members whose value is zero do not count.
LEMMA SumSupport ==
  ASSUME NEW S, IsFiniteSet(S), NEW T, T \subseteq S, NEW f, \A x \in S : f[x] \in Int,
         \A x \in S \ T : f[x] = 0
  PROVE  SumFunctionOnSet(f, S) = SumFunctionOnSet(f, T)
<1>1. IsFiniteSet(S \ T)
  BY FS_Subset
<1>2. SumFunctionOnSet(f, S \ T) = 0
  BY <1>1, SumZero
<1>3. /\ SumFunctionOnSet(f, S) = SumFunctionOnSet(f, T) + SumFunctionOnSet(f, S \ T)
      /\ SumFunctionOnSet(f, T) \in Int
  BY SumUnion
<1> QED BY <1>2, <1>3

\* The sum over one member.
LEMMA SumOne ==
  ASSUME NEW x, NEW f, f[x] \in Int
  PROVE  SumFunctionOnSet(f, {x}) = f[x]
<1>1. IsFiniteSet({x}) /\ IsFiniteSet({}) /\ {x} \ {x} = {}
  BY FS_Singleton, FS_EmptySet
<1>2. SumFunctionOnSet(f, {}) = 0
  BY <1>1, SumStep
<1>3. SumFunctionOnSet(f, {x}) = f[x] + SumFunctionOnSet(f, {x} \ {x})
  BY <1>1, SumStep
<1>4. SumFunctionOnSet(f, {x} \ {x}) = 0
  BY <1>1, <1>2
<1> QED BY <1>3, <1>4

\* A sum of non-negative values is non-negative, and positive if one of them is.
LEMMA SumPositive ==
  ASSUME NEW S, IsFiniteSet(S), NEW f, \A x \in S : f[x] \in Int /\ f[x] >= 0
  PROVE  /\ SumFunctionOnSet(f, S) >= 0
         /\ \A x \in S : f[x] > 0 => SumFunctionOnSet(f, S) > 0
<1> DEFINE P == {T \in SUBSET S : SumFunctionOnSet(f, T) >= 0}
<1>1. ASSUME NEW T \in SUBSET S, \A x \in T : T \ {x} \in P
      PROVE  T \in P
  <2>1. IsFiniteSet(T) /\ \A x \in T : f[x] \in Int
    BY FS_Subset
  <2>2. CASE T = {}
    BY <2>1, <2>2, SumStep
  <2>3. CASE T # {}
    <3>1. PICK x : x \in T
      BY <2>3
    <3>2. /\ SumFunctionOnSet(f, T) = f[x] + SumFunctionOnSet(f, T \ {x})
          /\ SumFunctionOnSet(f, T \ {x}) \in Int
      BY <2>1, <3>1, SumStep
    <3>3. SumFunctionOnSet(f, T \ {x}) >= 0 /\ f[x] >= 0 /\ f[x] \in Int
      BY <1>1, <3>1
    <3>4. SumFunctionOnSet(f, T) >= 0
      BY <3>2, <3>3
    <3> QED BY <3>4
  <2> QED BY <2>2, <2>3
<1>2. \A T \in SUBSET S : SumFunctionOnSet(f, T) >= 0
  <2> TAKE U \in SUBSET S
  <2>1. IsFiniteSet(U)
    BY FS_Subset
  <2>2. \A T \in SUBSET U : (\A x \in T : T \ {x} \in P) => T \in P
    BY <1>1
  <2>3. U \in P
    <3> HIDE DEF P
    <3> QED BY <2>1, <2>2, SubsetInduction
  <2> QED BY <2>3
<1>3. ASSUME NEW x \in S, f[x] > 0
      PROVE  SumFunctionOnSet(f, S) > 0
  <2>1. /\ SumFunctionOnSet(f, S) = f[x] + SumFunctionOnSet(f, S \ {x})
        /\ SumFunctionOnSet(f, S \ {x}) \in Int
    BY SumStep
  <2>2. SumFunctionOnSet(f, S \ {x}) >= 0 /\ f[x] \in Int
    BY <1>2
  <2> QED BY <1>3, <2>1, <2>2
<1> QED BY <1>2, <1>3

\* A table of numbers has the same sum by rows and by columns.
LEMMA SumSwap ==
  ASSUME NEW I, IsFiniteSet(I), NEW N, IsFiniteSet(N), NEW F,
         \A i \in I : \A n \in N : F[i][n] \in Int
  PROVE  SumFunctionOnSet([i \in I |-> SumFunctionOnSet(F[i], N)], I)
           = SumFunctionOnSet([n \in N |-> SumFunctionOnSet([i \in I |-> F[i][n]], I)], N)
<1> DEFINE R == [i \in I |-> SumFunctionOnSet(F[i], N)]
           K(n) == [i \in I |-> F[i][n]]
           C(T) == [n \in N |-> SumFunctionOnSet(K(n), T)]
           P == {T \in SUBSET I : SumFunctionOnSet(R, T) = SumFunctionOnSet(C(T), N)}
<1>0. \A i \in I : R[i] = SumFunctionOnSet(F[i], N) /\ R[i] \in Int
  BY SumStep
<1>1. ASSUME NEW T \in SUBSET I, \A x \in T : T \ {x} \in P
      PROVE  SumFunctionOnSet(R, T) = SumFunctionOnSet(C(T), N)
  <2>1. IsFiniteSet(T)
    BY FS_Subset
  <2>2. ASSUME NEW n \in N
        PROVE  /\ SumFunctionOnSet(K(n), T) \in Int
               /\ T = {} => SumFunctionOnSet(K(n), T) = 0
               /\ \A x \in T : /\ SumFunctionOnSet(K(n), T) = F[x][n] + SumFunctionOnSet(K(n), T \ {x})
                               /\ SumFunctionOnSet(K(n), T \ {x}) \in Int
    <3>1. \A i \in T : K(n)[i] \in Int /\ K(n)[i] = F[i][n]
      OBVIOUS
    <3> HIDE DEF K
    <3>2. \A i \in T : K(n)[i] \in Int
      BY <3>1
    <3>3. /\ SumFunctionOnSet(K(n), T) \in Int
          /\ T = {} => SumFunctionOnSet(K(n), T) = 0
          /\ \A x \in T : /\ SumFunctionOnSet(K(n), T) = K(n)[x] + SumFunctionOnSet(K(n), T \ {x})
                          /\ SumFunctionOnSet(K(n), T \ {x}) \in Int
      BY <2>1, <3>2, SumStep
    <3> QED BY <3>1, <3>3
  <2>3. \A x \in T : R[x] \in Int
    BY <1>0
  <2> HIDE DEF R, K
  <2>4. CASE T = {}
    <3>1. SumFunctionOnSet(R, T) = 0
      BY <2>1, <2>3, <2>4, SumStep
    <3>2. \A n \in N : C(T)[n] = 0
      BY <2>2, <2>4
    <3>3. SumFunctionOnSet(C(T), N) = 0
      <4> HIDE DEF C
      <4> QED BY <3>2, SumZero
    <3> QED BY <3>1, <3>3
  <2>5. CASE T # {}
    <3>1. PICK x : x \in T
      BY <2>5
    <3>2. SumFunctionOnSet(R, T) = R[x] + SumFunctionOnSet(R, T \ {x})
      BY <2>1, <2>3, <3>1, SumStep
    <3>3. SumFunctionOnSet(R, T \ {x}) = SumFunctionOnSet(C(T \ {x}), N)
      BY <1>1, <3>1
    <3>4. \A n \in N : F[x][n] \in Int /\ C(T \ {x})[n] \in Int /\ C(T)[n] = F[x][n] + C(T \ {x})[n]
      BY <2>2, <3>1
    <3>5. SumFunctionOnSet(C(T), N) = SumFunctionOnSet(F[x], N) + SumFunctionOnSet(C(T \ {x}), N)
      <4> HIDE DEF C
      <4> QED BY <3>4, SumAdd
    <3>6. R[x] = SumFunctionOnSet(F[x], N)
      BY <1>0, <3>1
    <3> QED BY <3>2, <3>3, <3>5, <3>6
  <2> QED BY <2>4, <2>5
<1>2. \A T \in SUBSET I : (\A x \in T : T \ {x} \in P) => T \in P
  BY <1>1
<1>3. I \in P
  <2> HIDE DEF P
  <2> QED BY <1>2, SubsetInduction
<1> QED BY <1>3

\* The sum over a set is the sum of the sums over its parts, one for each key.
LEMMA SumFibres ==
  ASSUME NEW S, IsFiniteSet(S), NEW A, IsFiniteSet(A), NEW k, \A x \in S : k[x] \in A,
         NEW f, \A x \in S : f[x] \in Int
  PROVE  SumFunctionOnSet([a \in A |-> SumFunctionOnSet(f, {x \in S : k[x] = a})], A)
           = SumFunctionOnSet(f, S)
<1> DEFINE F == [a \in A |-> [x \in S |-> IF k[x] = a THEN f[x] ELSE 0]]
           Part(a) == {x \in S : k[x] = a}
           R == [a \in A |-> SumFunctionOnSet(F[a], S)]
           C == [x \in S |-> SumFunctionOnSet([a \in A |-> F[a][x]], A)]
<1>1. \A a \in A : \A x \in S : F[a][x] \in Int
  OBVIOUS
<1>2. SumFunctionOnSet(R, A) = SumFunctionOnSet(C, S)
  <2> HIDE DEF F
  <2> QED BY <1>1, SumSwap
<1>3. ASSUME NEW a \in A
      PROVE  R[a] = SumFunctionOnSet(f, Part(a)) /\ R[a] \in Int
  <2>0. R[a] = SumFunctionOnSet(F[a], S)
    OBVIOUS
  <2>1. \A x \in S : F[a][x] \in Int
    OBVIOUS
  <2>2. \A x \in S \ Part(a) : F[a][x] = 0
    OBVIOUS
  <2>3. Part(a) \subseteq S /\ IsFiniteSet(Part(a))
    BY FS_Subset
  <2>4. \A x \in Part(a) : F[a][x] \in Int /\ F[a][x] = f[x]
    OBVIOUS
  <2> HIDE DEF F, Part, R
  <2>5. SumFunctionOnSet(F[a], S) = SumFunctionOnSet(F[a], Part(a))
    BY <2>1, <2>2, <2>3, SumSupport
  <2>6. SumFunctionOnSet(F[a], Part(a)) = SumFunctionOnSet(f, Part(a))
    BY <2>3, <2>4, SumSame
  <2> QED BY <2>0, <2>1, <2>5, <2>6, SumStep
<1>4. ASSUME NEW x \in S
      PROVE  C[x] = f[x]
  <2> DEFINE g == [a \in A |-> F[a][x]]
  <2>1. /\ \A a \in A : g[a] \in Int
        /\ \A a \in A \ {k[x]} : g[a] = 0
        /\ {k[x]} \subseteq A /\ g[k[x]] = f[x]
        /\ C[x] = SumFunctionOnSet(g, A)
    OBVIOUS
  <2> HIDE DEF g, C
  <2>2. SumFunctionOnSet(g, A) = SumFunctionOnSet(g, {k[x]})
    BY <2>1, SumSupport
  <2>3. SumFunctionOnSet(g, {k[x]}) = g[k[x]]
    BY <2>1, SumOne
  <2> QED BY <2>1, <2>2, <2>3
<1> DEFINE Q == [a \in A |-> SumFunctionOnSet(f, Part(a))]
<1>5. \A a \in A : R[a] \in Int /\ R[a] = Q[a]
  BY <1>3
<1>6. SumFunctionOnSet(Q, A) = SumFunctionOnSet(R, A)
  <2> HIDE DEF Q, R
  <2> QED BY <1>5, SumSame
<1>7. SumFunctionOnSet(C, S) = SumFunctionOnSet(f, S)
  <2> HIDE DEF C
  <2> QED BY <1>4, SumSame
<1> QED BY <1>2, <1>6, <1>7

(***************************************************************************)
(* Rows in the order of their dates and numbers.                           *)
(***************************************************************************)

\* What the order needs of rows: dates and numbers that compare, and no number twice.
Rowset(S) ==
  /\ IsFiniteSet(S)
  /\ \A e \in S : e.date \in Int /\ e.number \in Int
  /\ \A e, f \in S : e.number = f.number => e = f

\* How many rows of S come before e.
Before(S, e) == Cardinality({f \in S : DateThenNumber(f, e)})

\* The rows of S stand behind 0, 1, 2, ... others, each behind another number of them.
LEMMA BeforeRanks ==
  ASSUME NEW S, Rowset(S)
  PROVE  /\ Cardinality(S) \in Nat
         /\ \A e \in S : Before(S, e) \in 0..Cardinality(S) - 1
         /\ \A e, f \in S : Before(S, e) = Before(S, f) => e = f
         /\ \A i \in 0..Cardinality(S) - 1 : \E e \in S : Before(S, e) = i
<1> DEFINE n == Cardinality(S)
           less(e) == {f \in S : DateThenNumber(f, e)}
<1>1. n \in Nat /\ IsFiniteSet(S)
  BY FS_CardinalityType DEF Rowset
<1>2. ASSUME NEW e \in S
      PROVE  IsFiniteSet(less(e)) /\ Before(S, e) \in 0..n - 1
  <2>1. less(e) \in SUBSET (S \ {e})
    BY DEF Rowset, DateThenNumber
  <2>2. IsFiniteSet(S \ {e}) /\ Cardinality(S \ {e}) = n - 1
    BY <1>1, FS_RemoveElement
  <2>3. IsFiniteSet(less(e)) /\ Cardinality(less(e)) <= n - 1
    <3> HIDE DEF less, n
    <3> QED BY <2>1, <2>2, FS_Subset
  <2>4. Cardinality(less(e)) \in Nat
    BY <2>3, FS_CardinalityType
  <2> QED BY <1>1, <2>3, <2>4 DEF Before
<1>3. ASSUME NEW e \in S, NEW f \in S, DateThenNumber(e, f)
      PROVE  Before(S, e) < Before(S, f)
  <2>1. less(e) \cup {e} \in SUBSET less(f)
    BY <1>3 DEF Rowset, DateThenNumber
  <2>2. e \notin less(e)
    BY DEF Rowset, DateThenNumber
  <2>3. IsFiniteSet(less(e)) /\ IsFiniteSet(less(f))
    BY <1>2
  <2> HIDE DEF less
  <2>4. Cardinality(less(e) \cup {e}) = Cardinality(less(e)) + 1
    BY <2>2, <2>3, FS_AddElement
  <2>5. Cardinality(less(e) \cup {e}) <= Cardinality(less(f))
    BY <2>1, <2>3, FS_Subset
  <2>6. Cardinality(less(e)) \in Nat /\ Cardinality(less(f)) \in Nat
    BY <2>3, FS_CardinalityType
  <2> QED BY <2>4, <2>5, <2>6 DEF Before, less
<1>4. ASSUME NEW e \in S, NEW f \in S, Before(S, e) = Before(S, f)
      PROVE  e = f
  <2>1. e = f \/ DateThenNumber(e, f) \/ DateThenNumber(f, e)
    BY DEF Rowset, DateThenNumber
  <2>2. Before(S, e) \in 0..n - 1 /\ Before(S, f) \in 0..n - 1
    <3> HIDE DEF n, less
    <3> QED BY <1>2
  <2>3. \A a \in 0..n - 1 : ~(a < a)
    OBVIOUS
  <2> QED BY <1>3, <1>4, <2>1, <2>2, <2>3
<1> DEFINE T == 0..n - 1
           rank == [e \in S |-> Before(S, e)]
<1>5. rank \in Injection(S, T)
  BY <1>2, <1>4 DEF Injection, IsInjective
<1>6. IsFiniteSet(T) /\ Cardinality(T) = n
  BY <1>1, FS_Interval
<1>7. rank \in Surjection(S, T)
  <2> HIDE DEF T, rank
  <2> QED BY <1>5, <1>6, FS_Injection
<1>8. \A i \in T : \E e \in S : Before(S, e) = i
  BY <1>7 DEF Surjection
<1> QED BY <1>1, <1>2, <1>4, <1>8

\* Ordered lists every row once, in the order of the rows before it.
LEMMA OrderedLists ==
  ASSUME NEW S, Rowset(S)
  PROVE  /\ Cardinality(S) \in Nat
         /\ Ordered(S) \in [1..Cardinality(S) -> S]
         /\ Ordered(S) \in Seq(S) /\ Len(Ordered(S)) = Cardinality(S)
         /\ \A i \in 1..Cardinality(S) : Before(S, Ordered(S)[i]) = i - 1
         /\ \A i, j \in 1..Cardinality(S) : Ordered(S)[i] = Ordered(S)[j] => i = j
         /\ \A e \in S : \E i \in 1..Cardinality(S) : Ordered(S)[i] = e
<1> DEFINE n == Cardinality(S)
           before == [e \in S |-> Cardinality({f \in S : DateThenNumber(f, e)})]
<1>0. /\ n \in Nat
      /\ \A e \in S : Before(S, e) \in 0..n - 1
      /\ \A e, f \in S : Before(S, e) = Before(S, f) => e = f
      /\ \A i \in 0..n - 1 : \E e \in S : Before(S, e) = i
  BY BeforeRanks
<1>1. \A e \in S : before[e] = Before(S, e)
  BY DEF Before
<1>2. Ordered(S) = [i \in 1..n |-> CHOOSE e \in S : before[e] = i - 1]
  BY DEF Ordered
<1> HIDE DEF before, n
<1>3. ASSUME NEW i \in 1..n
      PROVE  Ordered(S)[i] \in S /\ Before(S, Ordered(S)[i]) = i - 1
  <2>1. \E e \in S : before[e] = i - 1
    BY <1>0, <1>1
  <2> QED BY <1>1, <1>2, <2>1
<1>4. Ordered(S) \in [1..n -> S]
  BY <1>2, <1>3
<1>5. Ordered(S) \in Seq(S) /\ Len(Ordered(S)) = n
  BY <1>0, <1>4
<1>6. ASSUME NEW e \in S PROVE \E i \in 1..n : Ordered(S)[i] = e
  <2>1. Before(S, e) + 1 \in 1..n /\ (Before(S, e) + 1) - 1 = Before(S, e)
    BY <1>0
  <2>2. Before(S, Ordered(S)[Before(S, e) + 1]) = Before(S, e)
    BY <1>3, <2>1
  <2> QED BY <1>0, <1>3, <2>1, <2>2
<1>7. \A i, j \in 1..n : Ordered(S)[i] = Ordered(S)[j] => i = j
  <2> TAKE i, j \in 1..n
  <2> HAVE Ordered(S)[i] = Ordered(S)[j]
  <2>1. i - 1 = j - 1
    BY <1>3
  <2> QED BY <1>0, <2>1
<1> QED BY <1>0, <1>3, <1>4, <1>5, <1>6, <1>7 DEF n

\* Sequences of one length with the same members are equal.
LEMMA SequencesEqual ==
  ASSUME NEW T, NEW s \in Seq(T), NEW t \in Seq(T), Len(s) = Len(t),
         \A i \in 1..Len(s) : s[i] = t[i]
  PROVE  s = t
<1>1. s \in [1..Len(s) -> T] /\ t \in [1..Len(s) -> T]
  OBVIOUS
<1> QED BY <1>1

\* A row after all others is listed after them.
LEMMA OrderedAppend ==
  ASSUME NEW S, NEW x, Rowset(S \cup {x}), x \notin S, \A e \in S : DateThenNumber(e, x)
  PROVE  Ordered(S \cup {x}) = Append(Ordered(S), x)
<1> DEFINE T == S \cup {x}
           n == Cardinality(S)
           p == Ordered(S)
           q == Ordered(T)
<1>1. Rowset(S) /\ IsFiniteSet(S)
  BY FS_Subset DEF Rowset
<1>2. n \in Nat /\ Cardinality(T) = n + 1
  BY <1>1, FS_CardinalityType, FS_AddElement
<1>3. ASSUME NEW e \in S PROVE Before(T, e) = Before(S, e)
  <2>1. ~DateThenNumber(x, e)
    BY DEF Rowset, DateThenNumber
  <2>2. {f \in T : DateThenNumber(f, e)} = {f \in S : DateThenNumber(f, e)}
    BY <2>1
  <2> QED BY <2>2 DEF Before
<1>4. Before(T, x) = n
  <2>1. ~DateThenNumber(x, x)
    BY DEF Rowset, DateThenNumber
  <2>2. {f \in T : DateThenNumber(f, x)} = S
    BY <2>1
  <2> QED BY <2>2 DEF Before
<1>5. /\ p \in [1..n -> S] /\ p \in Seq(S) /\ Len(p) = n
      /\ \A i \in 1..n : Before(S, p[i]) = i - 1
  BY <1>1, OrderedLists
<1>6. q \in [1..n + 1 -> T] /\ \A i \in 1..n + 1 : Before(T, q[i]) = i - 1
  <2> HIDE DEF n
  <2> QED BY <1>2, OrderedLists
<1>7. \A e, f \in T : Before(T, e) = Before(T, f) => e = f
  <2> HIDE DEF T
  <2> QED BY BeforeRanks DEF T
<1>8. ASSUME NEW i \in 1..n + 1 PROVE q[i] = IF i <= n THEN p[i] ELSE x
  <2>0. q[i] \in T /\ Before(T, q[i]) = i - 1
    BY <1>6
  <2>1. CASE i <= n
    <3>1. i \in 1..n
      BY <1>2, <2>1
    <3>2. p[i] \in S
      BY <1>5, <3>1
    <3>3. Before(T, p[i]) = i - 1
      BY <1>3, <1>5, <3>1, <3>2
    <3> QED BY <1>7, <2>0, <2>1, <3>2, <3>3
  <2>2. CASE ~(i <= n)
    <3>1. i - 1 = n
      BY <1>2, <2>2
    <3> QED BY <1>4, <1>7, <2>0, <2>2, <3>1
  <2> QED BY <2>1, <2>2
<1>9. /\ Append(p, x) \in Seq(T) /\ Len(Append(p, x)) = n + 1
      /\ \A i \in 1..n + 1 : Append(p, x)[i] = IF i <= n THEN p[i] ELSE x
  <2>1. p \in Seq(T) /\ x \in T
    BY <1>5
  <2> HIDE DEF p, n, T
  <2> QED BY <1>2, <1>5, <2>1
<1>10. q \in Seq(T) /\ Len(q) = n + 1
  <2> HIDE DEF n
  <2> QED BY <1>2, OrderedLists
<1>11. \A i \in 1..n + 1 : q[i] = Append(p, x)[i]
  BY <1>8, <1>9
<1> HIDE DEF p, q, n, T
<1>12. q = Append(p, x)
  BY <1>9, <1>10, <1>11, SequencesEqual
<1> QED BY <1>12 DEF p, q, T

\* Without rows there is nothing to list.
LEMMA OrderedEmpty == Ordered({}) = << >>
<1>1. Cardinality({}) = 0
  BY FS_EmptySet
<1> QED BY <1>1 DEF Ordered

(***************************************************************************)
(* The loop over the boundary entries.                                     *)
(***************************************************************************)

\* Induction up to m, for the set P of the numbers that have the property.
LEMMA UpTo ==
  ASSUME NEW m \in Nat, NEW P, 0 \in P, \A n \in 0..m - 1 : n \in P => n + 1 \in P
  PROVE  \A n \in 0..m : n \in P
<1> DEFINE Bad == {n \in 0..m : n \notin P}
<1> SUFFICES ASSUME Bad # {} PROVE FALSE
  OBVIOUS
<1>1. PICK k \in Bad : \A n \in Bad : ~(<<n, k>> \in OpToRel(<, Nat))
  <2>1. Bad \subseteq Nat
    OBVIOUS
  <2> HIDE DEF Bad
  <2> QED BY <2>1, WFMin, NatLessThanWellFounded
<1>2. k - 1 \in Nat /\ k - 1 \in 0..m - 1 /\ k \in Nat /\ (k - 1) + 1 = k
  OBVIOUS
<1>3. k - 1 \notin P
  BY <1>2
<1>4. k - 1 \in Bad
  BY <1>2, <1>3
<1>5. <<k - 1, k>> \in OpToRel(<, Nat)
  BY <1>2 DEF OpToRel
<1> QED BY <1>1, <1>4, <1>5

\* What h has to be to hold the steps of the loop over the first n members of s.
LoopSteps(h, s, n) ==
  [i \in 0..n |-> IF i = 0 THEN ScanStart ELSE ScanEntry(h[i - 1], s[i])]

\* The loop has its steps, and what it returns is the last one.
LEMMA LoopRuns ==
  ASSUME NEW T, NEW s \in Seq(T)
  PROVE  \E h : h = LoopSteps(h, s, Len(s)) /\ ScanEntries(s) = h[Len(s)]
<1> DEFINE P == {n \in Nat : \E h : h = LoopSteps(h, s, n)}
<1>1. 0 \in P
  <2> DEFINE h == [i \in 0..0 |-> ScanStart]
  <2>1. h = LoopSteps(h, s, 0)
    BY DEF LoopSteps
  <2> QED BY <2>1
<1>2. ASSUME NEW n \in Nat, n \in P PROVE n + 1 \in P
  <2>1. PICK g : g = LoopSteps(g, s, n)
    BY <1>2
  <2> DEFINE h == [i \in 0..n + 1 |-> IF i = n + 1 THEN ScanEntry(g[n], s[n + 1]) ELSE g[i]]
  <2>2. ASSUME NEW i \in 0..n + 1
        PROVE  h[i] = IF i = 0 THEN ScanStart ELSE ScanEntry(h[i - 1], s[i])
    <3>1. CASE i = n + 1
      <4>1. h[i - 1] = g[n]
        BY <3>1
      <4> QED BY <3>1, <4>1
    <3>2. CASE i # n + 1
      <4>1. i \in 0..n /\ h[i] = g[i]
        BY <3>2
      <4>2. g[i] = IF i = 0 THEN ScanStart ELSE ScanEntry(g[i - 1], s[i])
        BY <2>1, <4>1 DEF LoopSteps
      <4>3. i # 0 => h[i - 1] = g[i - 1]
        BY <4>1
      <4> HIDE DEF h
      <4> QED BY <4>1, <4>2, <4>3
    <3> QED BY <3>1, <3>2
  <2>3. h = LoopSteps(h, s, n + 1)
    BY <2>2 DEF LoopSteps
  <2> QED BY <2>3
<1>3. Len(s) \in P
  <2>1. Len(s) \in Nat /\ \A n \in 0..Len(s) - 1 : n \in P => n + 1 \in P
    BY <1>2
  <2> HIDE DEF P
  <2>2. \A n \in 0..Len(s) : n \in P
    BY <1>1, <2>1, UpTo
  <2> QED BY <2>1, <2>2
<1>4. \E h : h = LoopSteps(h, s, Len(s))
  BY <1>3
<1> QED BY <1>4 DEF ScanEntries, LoopSteps

\* Without boundary entries the loop ends as it starts.
LEMMA ScanEmpty == ScanEntries(<< >>) = ScanStart
<1>1. << >> \in Seq({}) /\ Len(<< >>) = 0
  OBVIOUS
<1>2. PICK h : h = LoopSteps(h, << >>, 0) /\ ScanEntries(<< >>) = h[0]
  BY <1>1, LoopRuns
<1> QED BY <1>2 DEF LoopSteps

\* One entry more is one step more.
LEMMA ScanAppend ==
  ASSUME NEW T, NEW s \in Seq(T), NEW x \in T
  PROVE  ScanEntries(Append(s, x)) = ScanEntry(ScanEntries(s), x)
<1> DEFINE n == Len(s)
           t == Append(s, x)
<1>1. /\ n \in Nat /\ t \in Seq(T) /\ Len(t) = n + 1 /\ t[n + 1] = x
      /\ \A i \in 1..n : t[i] = s[i]
  OBVIOUS
<1> HIDE DEF n, t
<1>2. PICK g : g = LoopSteps(g, s, n) /\ ScanEntries(s) = g[n]
  BY LoopRuns DEF n
<1>3. PICK h : h = LoopSteps(h, t, n + 1) /\ ScanEntries(t) = h[n + 1]
  BY <1>1, LoopRuns
<1>4. /\ \A i \in 0..n : g[i] = IF i = 0 THEN ScanStart ELSE ScanEntry(g[i - 1], s[i])
      /\ \A i \in 0..n + 1 : h[i] = IF i = 0 THEN ScanStart ELSE ScanEntry(h[i - 1], t[i])
  BY <1>2, <1>3 DEF LoopSteps
<1> DEFINE P == {i \in 0..n : g[i] = h[i]}
<1>5. 0 \in P
  BY <1>1, <1>4
<1>6. ASSUME NEW i \in 0..n - 1, i \in P PROVE i + 1 \in P
  <2>1. /\ i + 1 \in 0..n /\ i + 1 \in 0..n + 1 /\ i + 1 # 0 /\ (i + 1) - 1 = i
        /\ t[i + 1] = s[i + 1]
    BY <1>1
  <2>2. g[i + 1] = ScanEntry(g[i], s[i + 1]) /\ h[i + 1] = ScanEntry(h[i], t[i + 1])
    BY <1>4, <2>1
  <2> QED BY <1>6, <2>1, <2>2
<1>7. n \in P
  <2>1. \A i \in 0..n - 1 : i \in P => i + 1 \in P
    BY <1>6
  <2> HIDE DEF P
  <2>2. \A i \in 0..n : i \in P
    BY <1>1, <1>5, <2>1, UpTo
  <2> QED BY <1>1, <2>2
<1>8. h[n + 1] = ScanEntry(h[n], x)
  <2>1. n + 1 \in 0..n + 1 /\ n + 1 # 0 /\ (n + 1) - 1 = n
    BY <1>1
  <2> QED BY <1>1, <1>4, <2>1
<1> QED BY <1>2, <1>3, <1>7, <1>8 DEF t

(***************************************************************************)
(* The invariant.                                                          *)
(***************************************************************************)

EntryType ==
  [number : Nat \ {0}, source_type : SourceType, date : Days, reversal_of : {NoEntry},
   debit : [Accounts -> Nat], credit : [Accounts -> Nat]]

TypeOK ==
  /\ journal \in Seq(EntryType)
  /\ books_closed_until \in {NoDate} \cup Days
  /\ postings \in Nat

\* The n-th entry has number n.
NumbersGapless == \A i \in DOMAIN journal : journal[i].number = i

\* Every entry debits as much as it credits.
EntriesBalance == \A e \in Entries : SumFunction(e.debit) = SumFunction(e.credit)

\* A closing leaves nothing: up to its date the journal adds up to zero on every account.
ClosedIsZero ==
  \A e \in Entries : e.source_type = "PATRIMONIAL_CLOSING" =>
    /\ e.date <= books_closed_until
    /\ \A a \in Accounts : Net(Dated(NoDate, e.date), a) = 0

Opens(e) == e.source_type \in {"OPENING", "REOPENING"}

\* What _build_logical_exercises has read when it is through with the journal.
Scan == ScanEntries(BoundaryEntries(journal))

\* Entry s opened the exercise that is open: the closed period ends before it and holds
\* everything written before it, and only postings came after it.
OpenFrom(s) ==
  /\ s \in DOMAIN journal /\ Opens(journal[s])
  /\ books_closed_until < journal[s].date
  /\ \A i \in DOMAIN journal :
       /\ i < s => journal[i].date <= books_closed_until
       /\ i > s => journal[i].source_type = "MANUAL"
  /\ Scan.current = journal[s]

ExerciseType ==
  [exercise_index : Nat, opening_entry : Nat \ {0}, start_date : Days,
   closing_entry : Nat \ {0}, closing_date : Days, status : {"closed"}]

\* The closed exercises lie one after the other in the closed period, and each starts on
\* the date of its opening entry.
ClosedChain ==
  LET closed == Scan.exercises
  IN  /\ closed \in Seq(ExerciseType)
      /\ \A k \in DOMAIN closed :
           /\ closed[k].start_date <= closed[k].closing_date
           /\ closed[k].closing_date <= books_closed_until
           /\ closed[k].opening_entry \in DOMAIN journal
           /\ journal[closed[k].opening_entry].date = closed[k].start_date
      /\ \A j, k \in DOMAIN closed : j < k => closed[j].closing_date < closed[k].start_date

Chain ==
  IF Ready THEN /\ Scan.seen_opening /\ ~Scan.invalid
                /\ \E s \in DOMAIN journal : OpenFrom(s)
                /\ ClosedChain
           ELSE books_closed_until = NoDate

IInv == TypeOK /\ NumbersGapless /\ EntriesBalance /\ ClosedIsZero /\ Chain


(***************************************************************************)
(* Sets of entries and what they add up to.                                *)
(***************************************************************************)

\* A journal numbered without gaps is a set of rows, and so is each of its parts.
LEMMA JournalRows ==
  ASSUME NEW J \in Seq(EntryType), \A i \in DOMAIN J : J[i].number = i
  PROVE  /\ Rowset(Range(J)) /\ Range(J) \subseteq EntryType
         /\ \A S \in SUBSET Range(J) : Rowset(S)
<1>1. DOMAIN J = 1..Len(J) /\ Len(J) \in Nat
  OBVIOUS
<1>2. \A i \in 1..Len(J) : J[i] \in EntryType
  OBVIOUS
<1>3. Range(J) = {J[i] : i \in 1..Len(J)} /\ Range(J) \subseteq EntryType
  BY <1>1, <1>2 DEF Range
<1>4. IsFiniteSet(Range(J))
  <2> DEFINE D == 1..Len(J)
             R == Range(J)
             f == [i \in D |-> J[i]]
  <2>1. f \in Surjection(D, R)
    BY <1>3 DEF Surjection
  <2>2. IsFiniteSet(D)
    BY <1>1, FS_Interval
  <2>3. IsFiniteSet(R)
    <3> HIDE DEF D, R, f
    <3> QED BY <2>1, <2>2, FS_Surjection
  <2> QED BY <2>3
<1>5. \A e \in EntryType : e.date \in Int /\ e.number \in Int
  BY DEF EntryType, Days
<1>6. \A e, f \in Range(J) : e.number = f.number => e = f
  BY <1>1, <1>3
<1>7. Rowset(Range(J))
  BY <1>3, <1>4, <1>5, <1>6 DEF Rowset
<1>8. ASSUME NEW S \in SUBSET Range(J) PROVE Rowset(S)
  BY <1>7, FS_Subset DEF Rowset
<1> QED BY <1>3, <1>7, <1>8

\* What one entry does to an account.
Effect(e, a) == e.debit[a] - e.credit[a]

\* Debit, credit and net of finitely many entries are integers.
LEMMA NetType ==
  ASSUME NEW S, IsFiniteSet(S), S \subseteq EntryType, NEW a \in Accounts
  PROVE  Debit(S, a) \in Int /\ Credit(S, a) \in Int /\ Net(S, a) \in Int
<1> DEFINE d == [e \in S |-> e.debit[a]]
           c == [e \in S |-> e.credit[a]]
<1>1. \A e \in S : d[e] \in Int /\ c[e] \in Int
  BY DEF EntryType
<1>2. Debit(S, a) = SumFunctionOnSet(d, S) /\ Credit(S, a) = SumFunctionOnSet(c, S)
  BY DEF Debit, Credit
<1> HIDE DEF d, c
<1>3. SumFunctionOnSet(d, S) \in Int /\ SumFunctionOnSet(c, S) \in Int
  BY <1>1, SumStep
<1> QED BY <1>2, <1>3 DEF Net

\* The entries of two parts add up to those of both.
LEMMA NetUnion ==
  ASSUME NEW S, IsFiniteSet(S), S \subseteq EntryType, NEW T, T \subseteq S, NEW a \in Accounts
  PROVE  /\ Debit(S, a) = Debit(T, a) + Debit(S \ T, a)
         /\ Credit(S, a) = Credit(T, a) + Credit(S \ T, a)
         /\ Net(S, a) = Net(T, a) + Net(S \ T, a)
<1>1. ASSUME NEW s \in {"debit", "credit"}
      PROVE  SumFunctionOnSet([e \in S |-> e[s][a]], S)
               = SumFunctionOnSet([e \in T |-> e[s][a]], T)
                   + SumFunctionOnSet([e \in S \ T |-> e[s][a]], S \ T)
  <2> DEFINE f == [e \in S |-> e[s][a]]
             g == [e \in T |-> e[s][a]]
             h == [e \in S \ T |-> e[s][a]]
  <2>1. /\ \A e \in S : f[e] \in Int
        /\ \A e \in T : f[e] \in Int /\ f[e] = g[e]
        /\ \A e \in S \ T : f[e] \in Int /\ f[e] = h[e]
    BY DEF EntryType
  <2>2. IsFiniteSet(T) /\ IsFiniteSet(S \ T)
    BY FS_Subset
  <2> HIDE DEF f, g, h
  <2>3. SumFunctionOnSet(f, S) = SumFunctionOnSet(f, T) + SumFunctionOnSet(f, S \ T)
    BY <2>1, SumUnion
  <2>4. SumFunctionOnSet(f, T) = SumFunctionOnSet(g, T)
    BY <2>1, <2>2, SumSame
  <2>5. SumFunctionOnSet(f, S \ T) = SumFunctionOnSet(h, S \ T)
    BY <2>1, <2>2, SumSame
  <2>6. SumFunctionOnSet(f, S) = SumFunctionOnSet(g, T) + SumFunctionOnSet(h, S \ T)
    BY <2>3, <2>4, <2>5
  <2> QED BY <2>6 DEF f, g, h
<1>2. Debit(S, a) = Debit(T, a) + Debit(S \ T, a)
  BY <1>1 DEF Debit
<1>3. Credit(S, a) = Credit(T, a) + Credit(S \ T, a)
  BY <1>1 DEF Credit
<1>4. /\ Debit(T, a) \in Int /\ Debit(S \ T, a) \in Int
      /\ Credit(T, a) \in Int /\ Credit(S \ T, a) \in Int
  <2>1. IsFiniteSet(T) /\ IsFiniteSet(S \ T)
    BY FS_Subset
  <2> QED BY <2>1, NetType
<1>5. \A p, q, r, t \in Int : (p + q) - (r + t) = (p - r) + (q - t)
  OBVIOUS
<1> QED BY <1>2, <1>3, <1>4, <1>5 DEF Net

\* One entry more.
LEMMA NetStep ==
  ASSUME NEW S, IsFiniteSet(S), NEW x, S \cup {x} \subseteq EntryType, x \notin S, NEW a \in Accounts
  PROVE  /\ Net(S \cup {x}, a) = Net(S, a) + Effect(x, a)
         /\ Debit(S \cup {x}, a) = Debit(S, a) + x.debit[a]
         /\ Credit(S \cup {x}, a) = Credit(S, a) + x.credit[a]
<1> DEFINE T == S \cup {x}
<1>1. IsFiniteSet(T) /\ T \ S = {x} /\ S \subseteq T /\ T \subseteq EntryType
  BY FS_AddElement
<1>2. Debit({x}, a) = x.debit[a] /\ Credit({x}, a) = x.credit[a]
  <2> DEFINE d == [e \in {x} |-> e.debit[a]]
             c == [e \in {x} |-> e.credit[a]]
  <2>1. d[x] \in Int /\ c[x] \in Int /\ d[x] = x.debit[a] /\ c[x] = x.credit[a]
    BY DEF EntryType
  <2> HIDE DEF d, c
  <2>2. SumFunctionOnSet(d, {x}) = x.debit[a] /\ SumFunctionOnSet(c, {x}) = x.credit[a]
    BY <2>1, SumOne
  <2> QED BY <2>2 DEF Debit, Credit, d, c
<1> HIDE DEF T
<1>3. /\ Net(T, a) = Net(S, a) + Net({x}, a)
      /\ Debit(T, a) = Debit(S, a) + Debit({x}, a)
      /\ Credit(T, a) = Credit(S, a) + Credit({x}, a)
  BY <1>1, NetUnion
<1> QED BY <1>2, <1>3 DEF Net, Effect, T

\* No entries, no effect.
LEMMA NetEmpty ==
  ASSUME NEW a \in Accounts
  PROVE  Debit({}, a) = 0 /\ Credit({}, a) = 0 /\ Net({}, a) = 0
<1>1. Debit({}, a) = 0
  <2> DEFINE f == [e \in {} |-> e.debit[a]]
  <2>1. SumFunctionOnSet(f, {}) = 0
    <3> HIDE DEF f
    <3> QED BY FS_EmptySet, SumZero
  <2> QED BY <2>1 DEF Debit
<1>2. Credit({}, a) = 0
  <2> DEFINE f == [e \in {} |-> e.credit[a]]
  <2>1. SumFunctionOnSet(f, {}) = 0
    <3> HIDE DEF f
    <3> QED BY FS_EmptySet, SumZero
  <2> QED BY <2>1 DEF Credit
<1> QED BY <1>1, <1>2 DEF Net

\* Entries that balance one by one balance together.
LEMMA BalancedTogether ==
  ASSUME NEW S, IsFiniteSet(S), S \subseteq EntryType,
         \A e \in S : SumFunction(e.debit) = SumFunction(e.credit)
  PROVE  /\ SumFunction([a \in Accounts |-> Debit(S, a)])
              = SumFunction([a \in Accounts |-> Credit(S, a)])
         /\ SumFunction([a \in Accounts |-> Net(S, a)]) = 0
<1>0. IsFiniteSet(Accounts)
  BY AccountsAssumption
<1>1. ASSUME NEW s \in {"debit", "credit"}
      PROVE  SumFunctionOnSet([e \in S |-> SumFunctionOnSet(e[s], Accounts)], S)
               = SumFunctionOnSet([a \in Accounts |-> SumFunctionOnSet([e \in S |-> e[s][a]], S)],
                                  Accounts)
  <2> DEFINE F == [e \in S |-> e[s]]
  <2>1. \A e \in S : \A a \in Accounts : F[e][a] \in Int
    BY DEF EntryType
  <2>2. SumFunctionOnSet([e \in S |-> SumFunctionOnSet(F[e], Accounts)], S)
          = SumFunctionOnSet([a \in Accounts |-> SumFunctionOnSet([e \in S |-> F[e][a]], S)],
                             Accounts)
    <3> HIDE DEF F
    <3> QED BY <1>0, <2>1, SumSwap
  <2>3. [e \in S |-> SumFunctionOnSet(F[e], Accounts)] = [e \in S |-> SumFunctionOnSet(e[s], Accounts)]
    OBVIOUS
  <2>4. \A a \in Accounts : [e \in S |-> F[e][a]] = [e \in S |-> e[s][a]]
    OBVIOUS
  <2>5. [a \in Accounts |-> SumFunctionOnSet([e \in S |-> F[e][a]], S)]
          = [a \in Accounts |-> SumFunctionOnSet([e \in S |-> e[s][a]], S)]
    <3> HIDE DEF F
    <3> QED BY <2>4
  <2> HIDE DEF F
  <2> QED BY <2>2, <2>3, <2>5
<1> DEFINE D == [a \in Accounts |-> Debit(S, a)]
           C == [a \in Accounts |-> Credit(S, a)]
           N == [a \in Accounts |-> Net(S, a)]
<1>2. \A e \in S : SumFunctionOnSet(e.debit, Accounts) = SumFunctionOnSet(e.credit, Accounts)
  BY DEF EntryType, SumFunction
<1>3. [e \in S |-> SumFunctionOnSet(e.debit, Accounts)]
        = [e \in S |-> SumFunctionOnSet(e.credit, Accounts)]
  BY <1>2
<1>4. SumFunctionOnSet(D, Accounts) = SumFunctionOnSet([e \in S |-> SumFunctionOnSet(e.debit, Accounts)], S)
  BY <1>1 DEF Debit
<1>5. SumFunctionOnSet(C, Accounts) = SumFunctionOnSet([e \in S |-> SumFunctionOnSet(e.credit, Accounts)], S)
  BY <1>1 DEF Credit
<1>6. \A a \in Accounts : N[a] \in Int /\ C[a] \in Int /\ D[a] = N[a] + C[a]
  <2> TAKE a \in Accounts
  <2>1. Debit(S, a) \in Int /\ Credit(S, a) \in Int
    BY NetType
  <2> QED BY <2>1 DEF Net
<1>7. DOMAIN D = Accounts /\ DOMAIN C = Accounts /\ DOMAIN N = Accounts
  OBVIOUS
<1> HIDE DEF D, C, N
<1>8. SumFunctionOnSet(D, Accounts) = SumFunctionOnSet(N, Accounts) + SumFunctionOnSet(C, Accounts)
  BY <1>0, <1>6, SumAdd
<1>9. SumFunctionOnSet(D, Accounts) = SumFunctionOnSet(C, Accounts)
  BY <1>3, <1>4, <1>5
<1>10. SumFunctionOnSet(C, Accounts) \in Int /\ SumFunctionOnSet(N, Accounts) \in Int
  BY <1>0, <1>6, SumStep
<1>11. SumFunctionOnSet(N, Accounts) = 0
  BY <1>8, <1>9, <1>10
<1>12. SumFunction(D) = SumFunction(C) /\ SumFunction(N) = 0
  BY <1>7, <1>9, <1>11 DEF SumFunction
<1> QED BY <1>12 DEF D, C, N

(***************************************************************************)
(* The entries of a closing.                                               *)
(***************************************************************************)

\* A single amount on one account.
LEMMA OnceSums ==
  ASSUME NEW r \in Accounts, NEW x \in Nat
  PROVE  /\ Once(r, x) \in [Accounts -> Nat]
         /\ \A a \in Accounts : Once(r, x)[a] = IF a = r THEN x ELSE 0
         /\ SumFunction(Once(r, x)) = x
<1> DEFINE f == Once(r, x)
<1>1. f \in [Accounts -> Nat] /\ \A a \in Accounts : f[a] = IF a = r THEN x ELSE 0
  BY DEF Once, Nothing
<1> HIDE DEF f
<1>2. DOMAIN f = Accounts /\ {r} \subseteq Accounts /\ f[r] = x
  BY <1>1
<1>3. SumFunctionOnSet(f, Accounts) = SumFunctionOnSet(f, {r})
  <2>1. IsFiniteSet(Accounts) /\ (\A a \in Accounts : f[a] \in Int) /\ \A a \in Accounts \ {r} : f[a] = 0
    BY <1>1, AccountsAssumption
  <2> QED BY <1>2, <2>1, SumSupport
<1>4. SumFunctionOnSet(f, {r}) = x
  BY <1>2, SumOne
<1>5. SumFunction(f) = x
  BY <1>2, <1>3, <1>4 DEF SumFunction
<1> QED BY <1>1, <1>5 DEF f

\* What a closing writes about the balances b of the accounts in S, on one side.
Side(b, S) == [a \in Accounts |-> IF a \in S THEN Positive(b[a]) + Positive(-b[a]) ELSE 0]

LEMMA SideSums ==
  ASSUME NEW b \in [Accounts -> Int], NEW S \in SUBSET Accounts
  PROVE  /\ Side(b, S) \in [Accounts -> Nat]
         /\ SumFunctionOnSet(Side(b, S), S) \in Nat
         /\ SumFunction(Side(b, S)) = SumFunctionOnSet(Side(b, S), S)
         /\ Side(b, S) = Nothing => SumFunctionOnSet(Side(b, S), S) = 0
         /\ (\A a \in S : b[a] >= 0) =>
              /\ SumFunctionOnSet(Side(b, S), S) = SumFunctionOnSet(b, S)
              /\ \A a \in Accounts : Side(b, S)[a] = IF a \in S THEN b[a] ELSE 0
         /\ (\A a \in S : b[a] <= 0) =>
              /\ SumFunctionOnSet(Side(b, S), S) = -SumFunctionOnSet(b, S)
              /\ \A a \in Accounts : Side(b, S)[a] = IF a \in S THEN -b[a] ELSE 0
<1> DEFINE f == Side(b, S)
<1>0. IsFiniteSet(Accounts) /\ IsFiniteSet(S)
  BY AccountsAssumption, FS_Subset
<1>1. /\ f \in [Accounts -> Nat]
      /\ \A a \in Accounts : f[a] = IF a \in S THEN (IF b[a] >= 0 THEN b[a] ELSE -b[a]) ELSE 0
  BY DEF Side, Positive
<1>2. f = Nothing => \A a \in Accounts : f[a] = 0
  BY DEF Nothing
<1> HIDE DEF f
<1>3. DOMAIN f = Accounts /\ (\A a \in Accounts : f[a] \in Int) /\ (\A a \in S : f[a] \in Int /\ f[a] >= 0)
  BY <1>1
<1>4. SumFunctionOnSet(f, S) \in Int /\ SumFunctionOnSet(f, S) >= 0
  BY <1>0, <1>3, SumStep, SumPositive
<1>5. SumFunctionOnSet(f, Accounts) = SumFunctionOnSet(f, S)
  <2>1. \A a \in Accounts \ S : f[a] = 0
    BY <1>1
  <2> QED BY <1>0, <1>3, <2>1, SumSupport
<1>6. SumFunction(f) = SumFunctionOnSet(f, S)
  BY <1>3, <1>5 DEF SumFunction
<1>7. ASSUME f = Nothing PROVE SumFunctionOnSet(f, S) = 0
  <2>1. \A a \in S : f[a] = 0
    BY <1>2, <1>7
  <2> QED BY <1>0, <2>1, SumZero
<1>8. ASSUME \A a \in S : b[a] >= 0
      PROVE  /\ SumFunctionOnSet(f, S) = SumFunctionOnSet(b, S)
             /\ \A a \in Accounts : f[a] = IF a \in S THEN b[a] ELSE 0
  <2>1. \A a \in S : f[a] \in Int /\ f[a] = b[a]
    BY <1>1, <1>8
  <2>2. SumFunctionOnSet(f, S) = SumFunctionOnSet(b, S)
    BY <1>0, <2>1, SumSame
  <2> QED BY <1>1, <2>1, <2>2
<1>9. ASSUME \A a \in S : b[a] <= 0
      PROVE  /\ SumFunctionOnSet(f, S) = -SumFunctionOnSet(b, S)
             /\ \A a \in Accounts : f[a] = IF a \in S THEN -b[a] ELSE 0
  <2>1. \A a \in S : b[a] \in Int /\ f[a] = -b[a]
    BY <1>1, <1>9
  <2>2. SumFunctionOnSet(f, S) = -SumFunctionOnSet(b, S)
    BY <1>0, <2>1, SumNegative
  <2> QED BY <1>1, <2>1, <2>2
<1> QED BY <1>1, <1>4, <1>6, <1>7, <1>8, <1>9 DEF f

\* The two sides of the patrimonial closing are equally large if the balances add up to zero.
LEMMA ClosingSidesBalance ==
  ASSUME NEW b \in [Accounts -> Int], SumFunction(b) = 0
  PROVE  /\ ClosingSide(b, 1) \in [Accounts -> Nat] /\ ClosingSide(b, -1) \in [Accounts -> Nat]
         /\ SumFunction(ClosingSide(b, 1)) = SumFunction(ClosingSide(b, -1))
         /\ NetLoss(b) \in Int
         /\ \A a \in Accounts :
              ClosingSide(b, -1)[a] - ClosingSide(b, 1)[a] =
                (IF a \in OfType(Patrimonial) THEN -b[a] ELSE 0)
                  + (IF a = ResultAccount THEN -NetLoss(b) ELSE 0)
<1> DEFINE P == OfType(Patrimonial)
           R == OfType({"EX", "IN"})
           f == ClosingSide(b, -1)
           g == ClosingSide(b, 1)
           h1 == [a \in Accounts |-> IF a \in P THEN -b[a] ELSE 0]
           h2 == [a \in Accounts |-> IF a = ResultAccount THEN -NetLoss(b) ELSE 0]
           h == [a \in Accounts |-> h1[a] + h2[a]]
<1>0. IsFiniteSet(Accounts) /\ P \subseteq Accounts /\ R = Accounts \ P
      /\ R \subseteq Accounts /\ ResultAccount \in Accounts
  BY AccountsAssumption DEF OfType, Patrimonial
<1>1. IsFiniteSet(P) /\ IsFiniteSet(R)
  BY <1>0, FS_Subset
<1>2. /\ SumFunctionOnSet(b, Accounts) = SumFunctionOnSet(b, P) + SumFunctionOnSet(b, R)
      /\ SumFunctionOnSet(b, P) \in Int /\ SumFunctionOnSet(b, R) \in Int
  <2> HIDE DEF P, R
  <2> QED BY <1>0, SumUnion
<1>3. NetLoss(b) = SumFunctionOnSet(b, R) /\ NetLoss(b) \in Int
  BY <1>2 DEF NetLoss
<1>4. SumFunctionOnSet(b, Accounts) = 0
  BY DEF SumFunction
<1>5. f \in [Accounts -> Nat] /\ g \in [Accounts -> Nat]
      /\ \A a \in Accounts : f[a] - g[a] = h[a]
  <2> HIDE DEF P, R
  <2> QED BY <1>3 DEF ClosingSide, Positive, P
<1>6. /\ \A a \in Accounts : h1[a] \in Int /\ h2[a] \in Int /\ h[a] = h1[a] + h2[a] /\ h[a] \in Int
      /\ \A a \in P : b[a] \in Int /\ h1[a] = -b[a] /\ h1[a] \in Int
      /\ \A a \in Accounts \ P : h1[a] = 0
      /\ \A a \in Accounts \ {ResultAccount} : h2[a] = 0
      /\ h2[ResultAccount] = -NetLoss(b) /\ h2[ResultAccount] \in Int
  <2> HIDE DEF P, R
  <2> QED BY <1>0, <1>3
<1>7. \A a \in Accounts : h[a] = (IF a \in P THEN -b[a] ELSE 0)
                                   + (IF a = ResultAccount THEN -NetLoss(b) ELSE 0)
  OBVIOUS
<1> HIDE DEF f, g, h, h1, h2, P, R
<1>8. SumFunctionOnSet(h1, Accounts) = -SumFunctionOnSet(b, P)
  <2>1. SumFunctionOnSet(h1, Accounts) = SumFunctionOnSet(h1, P)
    BY <1>0, <1>6, SumSupport
  <2>2. SumFunctionOnSet(h1, P) = -SumFunctionOnSet(b, P)
    BY <1>1, <1>6, SumNegative
  <2> QED BY <2>1, <2>2
<1>9. SumFunctionOnSet(h2, Accounts) = -NetLoss(b)
  <2>1. {ResultAccount} \subseteq Accounts
    BY <1>0
  <2>2. SumFunctionOnSet(h2, Accounts) = SumFunctionOnSet(h2, {ResultAccount})
    BY <1>0, <1>6, <2>1, SumSupport
  <2>3. SumFunctionOnSet(h2, {ResultAccount}) = h2[ResultAccount]
    BY <1>6, SumOne
  <2> QED BY <1>6, <2>2, <2>3
<1>10. SumFunctionOnSet(h, Accounts) = 0
  <2>1. SumFunctionOnSet(h, Accounts) = SumFunctionOnSet(h1, Accounts) + SumFunctionOnSet(h2, Accounts)
    BY <1>0, <1>6, SumAdd
  <2>2. \A p, r \in Int : p + r = 0 => -p + -r = 0
    OBVIOUS
  <2> QED BY <1>2, <1>3, <1>4, <1>8, <1>9, <2>1, <2>2
<1>11. SumFunctionOnSet(f, Accounts) = SumFunctionOnSet(g, Accounts)
  <2>1. \A a \in Accounts : g[a] \in Int /\ h[a] \in Int /\ f[a] \in Int /\ f[a] = g[a] + h[a]
    <3> TAKE a \in Accounts
    <3>1. f[a] \in Int /\ g[a] \in Int /\ h[a] \in Int /\ f[a] - g[a] = h[a]
      BY <1>5, <1>6
    <3> QED BY <3>1
  <2>2. SumFunctionOnSet(f, Accounts) = SumFunctionOnSet(g, Accounts) + SumFunctionOnSet(h, Accounts)
    BY <1>0, <2>1, SumAdd
  <2>3. SumFunctionOnSet(g, Accounts) \in Int
    BY <1>0, <2>1, SumStep
  <2> QED BY <1>10, <2>2, <2>3
<1>12. DOMAIN f = Accounts /\ DOMAIN g = Accounts
  BY <1>5
<1>13. SumFunction(f) = SumFunction(g)
  BY <1>11, <1>12 DEF SumFunction
<1> QED BY <1>3, <1>5, <1>7, <1>13 DEF f, g, P

\* An entry before it has its number, of type t and date d, that balances.
Draft(x, t, d) ==
  /\ x = JournalEntry(0, t, d, x.debit, x.credit)
  /\ x.debit \in [Accounts -> Nat] /\ x.credit \in [Accounts -> Nat]
  /\ SumFunction(x.debit) = SumFunction(x.credit)

\* Lists put together.
LEMMA Lists ==
  ASSUME NEW x, NEW y, NEW p, NEW q
  PROVE  /\ << >> \o << >> \o <<p, q>> = <<p, q>>
         /\ <<x>> \o << >> \o <<p, q>> = <<x, p, q>>
         /\ << >> \o <<y>> \o <<p, q>> = <<y, p, q>>
         /\ <<x>> \o <<y>> \o <<p, q>> = <<x, y, p, q>>
<1> DEFINE T == {x, y, p, q}
<1>1. << >> \in Seq(T) /\ <<x>> \in Seq(T) /\ <<y>> \in Seq(T) /\ <<p, q>> \in Seq(T)
      /\ <<x, p, q>> \in Seq(T) /\ <<y, p, q>> \in Seq(T) /\ <<x, y, p, q>> \in Seq(T)
      /\ <<x, y>> \in Seq(T)
  OBVIOUS
<1>2. << >> \o << >> = << >> /\ << >> \o <<p, q>> = <<p, q>>
      /\ << >> \o <<y>> = <<y>> /\ <<x>> \o << >> = <<x>>
  OBVIOUS
<1>3. ASSUME NEW z \in T PROVE <<z>> \o <<p, q>> = <<z, p, q>>
  <2>1. <<z>> \in Seq(T) /\ <<z, p, q>> \in Seq(T) /\ <<p, q>> \in Seq(T)
    BY <1>1
  <2>2. <<z>> \o <<p, q>> \in Seq(T) /\ Len(<<z>> \o <<p, q>>) = 3 /\ Len(<<z, p, q>>) = 3
    BY <2>1
  <2>3. \A i \in 1..3 : (<<z>> \o <<p, q>>)[i] = <<z, p, q>>[i]
    BY <2>1
  <2> QED BY <2>1, <2>2, <2>3, SequencesEqual
<1>4. <<x>> \o <<y>> = <<x, y>>
  <2>1. <<x>> \o <<y>> \in Seq(T) /\ Len(<<x>> \o <<y>>) = 2 /\ Len(<<x, y>>) = 2
    BY <1>1
  <2>2. \A i \in 1..2 : (<<x>> \o <<y>>)[i] = <<x, y>>[i]
    BY <1>1
  <2> QED BY <1>1, <2>1, <2>2, SequencesEqual
<1>5. <<x, y>> \o <<p, q>> = <<x, y, p, q>>
  <2>1. <<x, y>> \o <<p, q>> \in Seq(T) /\ Len(<<x, y>> \o <<p, q>>) = 4 /\ Len(<<x, y, p, q>>) = 4
    BY <1>1
  <2>2. \A i \in 1..4 : (<<x, y>> \o <<p, q>>)[i] = <<x, y, p, q>>[i]
    BY <1>1
  <2> QED BY <1>1, <2>1, <2>2, SequencesEqual
<1> QED BY <1>2, <1>3, <1>4, <1>5

\* A closing consists of at most two closings of results, the patrimonial closing and the
\* reopening.  Each balances, and all but the reopening bring every account to zero.
LEMMA ClosingDrafts ==
  ASSUME NEW b \in [Accounts -> Int], SumFunction(b) = 0, NaturalBalances(b),
         NEW cd, NEW rd
  PROVE  LET C == ClosingEntries(b, cd, rd)
             m == Len(C)
         IN  /\ m \in 2..4 /\ C \in Seq({C[i] : i \in 1..m})
             /\ \A i \in 1..m - 2 : Draft(C[i], "RESULT_CLOSING", cd)
             /\ Draft(C[m - 1], "PATRIMONIAL_CLOSING", cd)
             /\ Draft(C[m], "REOPENING", rd)
             /\ \A a \in Accounts :
                  /\ m = 2 => Effect(C[1], a) = -b[a]
                  /\ m = 3 => Effect(C[1], a) + Effect(C[2], a) = -b[a]
                  /\ m = 4 => Effect(C[1], a) + Effect(C[2], a) + Effect(C[3], a) = -b[a]
<1> DEFINE L == OfType({"EX"})
           G == OfType({"IN"})
           sL == Side(b, L)
           sG == Side(b, G)
           tL == SumFunctionOnSet(sL, L)
           tG == SumFunctionOnSet(sG, G)
           l == JournalEntry(0, "RESULT_CLOSING", cd, Once(ResultAccount, tL), sL)
           g == JournalEntry(0, "RESULT_CLOSING", cd, sG, Once(ResultAccount, tG))
           pc == JournalEntry(0, "PATRIMONIAL_CLOSING", cd, ClosingSide(b, -1), ClosingSide(b, 1))
           ro == JournalEntry(0, "REOPENING", rd, ClosingSide(b, 1), ClosingSide(b, -1))
           C == ClosingEntries(b, cd, rd)
<1>0. /\ L \in SUBSET Accounts /\ G \in SUBSET Accounts /\ L \cap G = {}
      /\ OfType({"EX", "IN"}) = L \cup G /\ L \subseteq L \cup G /\ (L \cup G) \ L = G
      /\ OfType(Patrimonial) = Accounts \ (L \cup G)
      /\ ResultAccount \in Accounts /\ ResultAccount \notin L \cup G
      /\ IsFiniteSet(L \cup G)
  <2>1. /\ L \in SUBSET Accounts /\ G \in SUBSET Accounts /\ L \cap G = {}
        /\ OfType({"EX", "IN"}) = L \cup G /\ L \subseteq L \cup G /\ (L \cup G) \ L = G
        /\ OfType(Patrimonial) = Accounts \ (L \cup G)
        /\ ResultAccount \in Accounts /\ ResultAccount \notin L \cup G
    BY AccountsAssumption DEF OfType, Patrimonial
  <2>2. L \cup G \in SUBSET Accounts /\ IsFiniteSet(Accounts)
    BY <2>1, AccountsAssumption
  <2>3. IsFiniteSet(L \cup G)
    <3> HIDE DEF L, G
    <3> QED BY <2>2, FS_Subset
  <2> QED BY <2>1, <2>3
<1>1. (\A a \in L : b[a] >= 0) /\ (\A a \in G : b[a] <= 0)
  BY DEF NaturalBalances
<1>2. C = (IF sL = Nothing THEN << >> ELSE <<l>>) \o (IF sG = Nothing THEN << >> ELSE <<g>>)
            \o <<pc, ro>>
  BY DEF ClosingEntries, ResultClosings, Side
<1> HIDE DEF L, G, C
<1>3. /\ sL \in [Accounts -> Nat] /\ tL \in Nat /\ SumFunction(sL) = tL
      /\ sL = Nothing => tL = 0
      /\ tL = SumFunctionOnSet(b, L)
      /\ \A a \in Accounts : sL[a] = IF a \in L THEN b[a] ELSE 0
  BY <1>0, <1>1, SideSums
<1>4. /\ sG \in [Accounts -> Nat] /\ tG \in Nat /\ SumFunction(sG) = tG
      /\ sG = Nothing => tG = 0
      /\ tG = -SumFunctionOnSet(b, G)
      /\ \A a \in Accounts : sG[a] = IF a \in G THEN -b[a] ELSE 0
  BY <1>0, <1>1, SideSums
<1>5. /\ NetLoss(b) = SumFunctionOnSet(b, L) + SumFunctionOnSet(b, G)
      /\ SumFunctionOnSet(b, L) \in Int /\ SumFunctionOnSet(b, G) \in Int
  <2> DEFINE LG == L \cup G
  <2>1. \A a \in LG : b[a] \in Int
    BY <1>0
  <2>2. L \subseteq LG /\ LG \ L = G /\ IsFiniteSet(LG) /\ NetLoss(b) = SumFunctionOnSet(b, LG)
    BY <1>0 DEF NetLoss
  <2> HIDE DEF LG
  <2>3. /\ SumFunctionOnSet(b, LG) = SumFunctionOnSet(b, L) + SumFunctionOnSet(b, LG \ L)
        /\ SumFunctionOnSet(b, L) \in Int /\ SumFunctionOnSet(b, LG \ L) \in Int
    BY <2>1, <2>2, SumUnion
  <2> QED BY <2>2, <2>3
<1>6. /\ Once(ResultAccount, tL) \in [Accounts -> Nat] /\ SumFunction(Once(ResultAccount, tL)) = tL
      /\ \A a \in Accounts : Once(ResultAccount, tL)[a] = IF a = ResultAccount THEN tL ELSE 0
      /\ Once(ResultAccount, tG) \in [Accounts -> Nat] /\ SumFunction(Once(ResultAccount, tG)) = tG
      /\ \A a \in Accounts : Once(ResultAccount, tG)[a] = IF a = ResultAccount THEN tG ELSE 0
  <2> HIDE DEF sL, sG, tL, tG
  <2> QED BY <1>0, <1>3, <1>4, OnceSums
<1>7. /\ ClosingSide(b, 1) \in [Accounts -> Nat] /\ ClosingSide(b, -1) \in [Accounts -> Nat]
      /\ SumFunction(ClosingSide(b, 1)) = SumFunction(ClosingSide(b, -1))
      /\ \A a \in Accounts :
           ClosingSide(b, -1)[a] - ClosingSide(b, 1)[a] =
             (IF a \in OfType(Patrimonial) THEN -b[a] ELSE 0)
               + (IF a = ResultAccount THEN -NetLoss(b) ELSE 0)
  BY ClosingSidesBalance
<1> HIDE DEF sL, sG, tL, tG
<1>8. /\ Draft(l, "RESULT_CLOSING", cd) /\ Draft(g, "RESULT_CLOSING", cd)
      /\ Draft(pc, "PATRIMONIAL_CLOSING", cd) /\ Draft(ro, "REOPENING", rd)
  BY <1>3, <1>4, <1>6, <1>7 DEF Draft, JournalEntry
<1>9. ASSUME NEW a \in Accounts
      PROVE  /\ Effect(l, a) \in Int /\ Effect(g, a) \in Int /\ Effect(pc, a) \in Int
             /\ sL = Nothing => Effect(l, a) = 0
             /\ sG = Nothing => Effect(g, a) = 0
             /\ Effect(l, a) + Effect(g, a) + Effect(pc, a) = -b[a]
  <2>1. /\ Effect(l, a) = (IF a = ResultAccount THEN tL ELSE 0) - (IF a \in L THEN b[a] ELSE 0)
        /\ Effect(g, a) = (IF a \in G THEN -b[a] ELSE 0) - (IF a = ResultAccount THEN tG ELSE 0)
    BY <1>3, <1>4, <1>6 DEF Effect, JournalEntry
  <2>2. Effect(pc, a) = (IF a \in OfType(Patrimonial) THEN -b[a] ELSE 0)
                          + (IF a = ResultAccount THEN -NetLoss(b) ELSE 0)
    BY <1>7 DEF Effect, JournalEntry
  <2>3. ASSUME sL = Nothing PROVE Effect(l, a) = 0
    <3>1. sL[a] = 0
      BY <2>3 DEF Nothing
    <3> QED BY <1>3, <2>1, <2>3, <3>1
  <2>4. ASSUME sG = Nothing PROVE Effect(g, a) = 0
    <3>1. sG[a] = 0
      BY <2>4 DEF Nothing
    <3> QED BY <1>4, <2>1, <2>4, <3>1
  <2>5. b[a] \in Int /\ tL \in Int /\ tG \in Int /\ NetLoss(b) = tL - tG
    BY <1>3, <1>4, <1>5
  <2> HIDE DEF l, g, pc
  <2>6. Effect(l, a) + Effect(g, a) + Effect(pc, a) = -b[a]
    BY <1>0, <2>1, <2>2, <2>5
  <2>7. Effect(l, a) \in Int /\ Effect(g, a) \in Int /\ Effect(pc, a) \in Int
    BY <2>1, <2>2, <2>5
  <2> QED BY <2>3, <2>4, <2>6, <2>7
<1> HIDE DEF l, g, pc, ro
<1>10. CASE sL = Nothing /\ sG = Nothing
  <2>1. C = <<pc, ro>>
    BY <1>2, <1>10
  <2>2. \A a \in Accounts : Effect(pc, a) = -b[a]
    BY <1>9, <1>10
  <2> QED BY <1>8, <2>1, <2>2 DEF C
<1>11. CASE sL # Nothing /\ sG = Nothing
  <2>1. C = <<l, pc, ro>>
    <3>1. C = <<l>> \o << >> \o <<pc, ro>>
      BY <1>2, <1>11
    <3> QED BY <3>1, Lists
  <2>2. \A a \in Accounts : Effect(l, a) + Effect(pc, a) = -b[a]
    BY <1>9, <1>11
  <2> QED BY <1>8, <2>1, <2>2 DEF C
<1>12. CASE sL = Nothing /\ sG # Nothing
  <2>1. C = <<g, pc, ro>>
    <3>1. C = << >> \o <<g>> \o <<pc, ro>>
      BY <1>2, <1>12
    <3> QED BY <3>1, Lists
  <2>2. \A a \in Accounts : Effect(g, a) + Effect(pc, a) = -b[a]
    BY <1>9, <1>12
  <2> QED BY <1>8, <2>1, <2>2 DEF C
<1>13. CASE sL # Nothing /\ sG # Nothing
  <2>1. C = <<l, g, pc, ro>>
    <3>1. C = <<l>> \o <<g>> \o <<pc, ro>>
      BY <1>2, <1>13
    <3>2. <<l>> \o <<g>> \o <<pc, ro>> = <<l, g, pc, ro>>
      BY Lists
    <3> QED BY <3>1, <3>2
  <2>2. \A a \in Accounts : Effect(l, a) + Effect(g, a) + Effect(pc, a) = -b[a]
    BY <1>9
  <2> QED BY <1>8, <2>1, <2>2 DEF C
<1> QED BY <1>10, <1>11, <1>12, <1>13

\* A list is given by its length and its elements.
LEMMA TupleType ==
  ASSUME NEW T, NEW m \in Nat, NEW f, f = [i \in 1..m |-> f[i]], \A i \in 1..m : f[i] \in T
  PROVE  f \in Seq(T) /\ Len(f) = m
OBVIOUS

\* A draft that gets its number is an entry.
LEMMA DraftNumbered ==
  ASSUME NEW x, NEW t \in SourceType, NEW d \in Days, Draft(x, t, d), NEW k \in Nat \ {0}
  PROVE  LET y == [x EXCEPT !.number = k]
         IN  /\ y \in EntryType /\ y.number = k /\ y.source_type = t /\ y.date = d
             /\ SumFunction(y.debit) = SumFunction(y.credit)
             /\ \A a \in Accounts : Effect(y, a) = Effect(x, a)
<1> DEFINE y == [x EXCEPT !.number = k]
<1>1. y = [number |-> k, source_type |-> t, date |-> d, reversal_of |-> NoEntry,
           debit |-> x.debit, credit |-> x.credit]
  BY DEF Draft, JournalEntry
<1> HIDE DEF y
<1>2. y \in EntryType
  BY <1>1 DEF Draft, EntryType
<1> QED BY <1>1, <1>2 DEF Draft, Effect, y

\* The balances a closing works on: those of a balanced journal.
LEMMA BalancesLoaded ==
  ASSUME TypeOK, NumbersGapless, EntriesBalance, NEW d
  PROVE  /\ LoadBalances(d) \in [Accounts -> Int] /\ SumFunction(LoadBalances(d)) = 0
         /\ Dated(NoDate, d) \subseteq EntryType /\ IsFiniteSet(Dated(NoDate, d))
<1> DEFINE S == Dated(NoDate, d)
<1>1. S \subseteq Entries
  BY DEF Dated
<1>2. Rowset(S) /\ S \subseteq EntryType
  BY <1>1, JournalRows DEF TypeOK, NumbersGapless, Entries
<1>3. \A e \in S : SumFunction(e.debit) = SumFunction(e.credit)
  BY <1>1 DEF EntriesBalance
<1>4. LoadBalances(d) = [a \in Accounts |-> Net(S, a)]
  BY DEF LoadBalances
<1> HIDE DEF S
<1>5. \A a \in Accounts : Net(S, a) \in Int
  BY <1>2, NetType DEF Rowset
<1>6. SumFunction([a \in Accounts |-> Net(S, a)]) = 0
  BY <1>2, <1>3, BalancedTogether DEF Rowset
<1> QED BY <1>2, <1>4, <1>5, <1>6 DEF S, Rowset

\* A closing of the dates cd and rd has written m entries behind n others: they are numbered,
\* balanced and in their places, and up to the closing date the journal K adds up to zero.
ClosingWritten(K, n, m, cd, rd) ==
  /\ m \in 2..4 /\ n \in Nat /\ K \in Seq(EntryType) /\ Len(K) = n + m
  /\ \A i \in 1..n + m : K[i].number = i
  /\ \A i \in 1..n : K[i] = journal[i]
  /\ \A i \in n + 1..n + m - 2 : K[i].source_type = "RESULT_CLOSING" /\ K[i].date = cd
  /\ K[n + m - 1].source_type = "PATRIMONIAL_CLOSING" /\ K[n + m - 1].date = cd
  /\ K[n + m].source_type = "REOPENING" /\ K[n + m].date = rd
  /\ \A e \in Range(K) : SumFunction(e.debit) = SumFunction(e.credit)
  /\ \A a \in Accounts : Net({e \in Range(K) : NoDate <= e.date /\ e.date <= cd}, a) = 0

LEMMA ClosingWrites ==
  ASSUME TypeOK, NumbersGapless, EntriesBalance, NEW cd \in Days, NEW rd \in Days, cd < rd,
         NaturalBalances(LoadBalances(cd)), \A e \in Entries : e.date <= cd
  PROVE  LET N == Numbered(ClosingEntries(LoadBalances(cd), cd, rd))
         IN  ClosingWritten(journal \o N, Len(journal), Len(N), cd, rd)
<1> DEFINE b == LoadBalances(cd)
           C == ClosingEntries(b, cd, rd)
           N == Numbered(C)
           K == journal \o N
           n == Len(journal)
           m == Len(C)
<1>1. b \in [Accounts -> Int] /\ SumFunction(b) = 0
  BY BalancesLoaded
<1>2. /\ m \in 2..4 /\ C \in Seq({C[i] : i \in 1..m})
      /\ \A i \in 1..m - 2 : Draft(C[i], "RESULT_CLOSING", cd)
      /\ Draft(C[m - 1], "PATRIMONIAL_CLOSING", cd)
      /\ Draft(C[m], "REOPENING", rd)
      /\ \A a \in Accounts :
           /\ m = 2 => Effect(C[1], a) = -b[a]
           /\ m = 3 => Effect(C[1], a) + Effect(C[2], a) = -b[a]
           /\ m = 4 => Effect(C[1], a) + Effect(C[2], a) + Effect(C[3], a) = -b[a]
  <2> HIDE DEF b
  <2> QED BY <1>1, ClosingDrafts DEF b
<1>3. n \in Nat /\ journal \in Seq(EntryType) /\ DOMAIN journal = 1..n
  BY DEF TypeOK
<1> DEFINE type(i) == IF i <= m - 2 THEN "RESULT_CLOSING"
                      ELSE IF i = m - 1 THEN "PATRIMONIAL_CLOSING" ELSE "REOPENING"
           day(i) == IF i = m THEN rd ELSE cd
<1>4. DOMAIN C = 1..m /\ m \in 2..4
  BY <1>2
<1> HIDE DEF b, C, m
<1>5. ASSUME NEW i \in 1..m
      PROVE  /\ N[i] = [C[i] EXCEPT !.number = n + i]
             /\ N[i] \in EntryType /\ N[i].number = n + i
             /\ N[i].source_type = type(i) /\ N[i].date = day(i)
             /\ SumFunction(N[i].debit) = SumFunction(N[i].credit)
             /\ \A a \in Accounts : Effect(N[i], a) = Effect(C[i], a)
  <2>1. N[i] = [C[i] EXCEPT !.number = n + i]
    BY <1>4 DEF Numbered
  <2>2. n + i \in Nat \ {0} /\ day(i) \in Days /\ type(i) \in SourceType
    BY <1>2, <1>3 DEF SourceType
  <2>3. Draft(C[i], type(i), day(i))
    BY <1>2
  <2> HIDE DEF type, day, N, n
  <2> QED BY <2>1, <2>2, <2>3, DraftNumbered
<1>51. \A i \in 1..m : N[i] \in EntryType /\ N[i].number = n + i
  BY <1>5
<1>52. \A i \in 1..m : SumFunction(N[i].debit) = SumFunction(N[i].credit)
  BY <1>5
<1>53. \A i \in 1..m : N[i].date = day(i)
  BY <1>5
<1>6. N \in Seq(EntryType) /\ Len(N) = m
  <2>1. DOMAIN N = 1..m
    BY <1>4 DEF Numbered
  <2>2. N = [i \in 1..m |-> N[i]]
    BY <1>4 DEF Numbered
  <2>3. m \in Nat
    BY <1>2
  <2>4. \A i \in 1..m : N[i] \in EntryType
    BY <1>5
  <2> HIDE DEF N
  <2> QED BY <2>2, <2>3, <2>4, TupleType
<1> HIDE DEF N, n
<1>7. /\ K \in Seq(EntryType) /\ Len(K) = n + m
      /\ \A i \in 1..n : K[i] = journal[i]
      /\ \A i \in 1..m : K[n + i] = N[i]
  BY <1>2, <1>3, <1>6 DEF n
<1>8. \A i \in 1..n + m : K[i].number = i
  <2> TAKE i \in 1..n + m
  <2>1. CASE i <= n
    BY <1>3, <1>7, <2>1 DEF NumbersGapless
  <2>2. CASE i > n
    <3>1. i - n \in 1..m /\ n + (i - n) = i
      BY <1>2, <1>3, <2>2
    <3>2. K[n + (i - n)] = N[i - n] /\ N[i - n].number = n + (i - n)
      BY <1>5, <1>7, <3>1
    <3> HIDE DEF K
    <3> QED BY <3>1, <3>2
  <2>3. i <= n \/ i > n
    BY <1>3, <1>4
  <2> HIDE DEF K
  <2> QED BY <2>1, <2>2, <2>3
<1>9. /\ \A i \in n + 1..n + m - 2 : K[i].source_type = "RESULT_CLOSING" /\ K[i].date = cd
      /\ K[n + m - 1].source_type = "PATRIMONIAL_CLOSING" /\ K[n + m - 1].date = cd
      /\ K[n + m].source_type = "REOPENING" /\ K[n + m].date = rd
  <2>1. ASSUME NEW i \in n + 1..n + m - 2
        PROVE  K[i].source_type = "RESULT_CLOSING" /\ K[i].date = cd
    <3>1. i - n \in 1..m /\ n + (i - n) = i /\ i - n <= m - 2 /\ i - n # m
      BY <1>2, <1>3
    <3>2. K[n + (i - n)] = N[i - n] /\ N[i - n].source_type = "RESULT_CLOSING" /\ N[i - n].date = cd
      BY <1>5, <1>7, <3>1
    <3> HIDE DEF K
    <3> QED BY <3>1, <3>2
  <2>2. K[n + m - 1] = N[m - 1] /\ m - 1 \in 1..m /\ ~(m - 1 <= m - 2) /\ m - 1 # m
    <3>1. m - 1 \in 1..m /\ n + (m - 1) = n + m - 1 /\ ~(m - 1 <= m - 2) /\ m - 1 # m
      BY <1>2, <1>3
    <3>2. K[n + (m - 1)] = N[m - 1]
      BY <1>7, <3>1
    <3> HIDE DEF K
    <3> QED BY <3>1, <3>2
  <2>3. K[n + m] = N[m] /\ m \in 1..m /\ ~(m <= m - 2) /\ m # m - 1
    <3>1. m \in 1..m /\ ~(m <= m - 2) /\ m # m - 1
      BY <1>4
    <3> QED BY <1>7, <3>1
  <2> QED BY <1>5, <2>1, <2>2, <2>3
<1>10. Range(K) = Entries \cup {N[i] : i \in 1..m}
  <2>1. DOMAIN K = 1..n + m /\ DOMAIN journal = 1..n
    BY <1>3, <1>7
  <2>2. \A i \in 1..n + m : i \in 1..n \/ (i - n \in 1..m /\ n + (i - n) = i)
    BY <1>2, <1>3
  <2>3. \A i \in 1..m : n + i \in 1..n + m
    BY <1>2, <1>3
  <2>4. \A i \in 1..n : i \in 1..n + m
    BY <1>2, <1>3
  <2>5. Range(K) = {K[i] : i \in 1..n + m} /\ Entries = {journal[i] : i \in 1..n}
    BY <2>1 DEF Range, Entries
  <2> HIDE DEF K
  <2> QED BY <1>7, <2>2, <2>3, <2>4, <2>5
<1>11. \A e \in Range(K) : SumFunction(e.debit) = SumFunction(e.credit)
  BY <1>10, <1>52 DEF EntriesBalance
<1> DEFINE S == Dated(NoDate, cd)
           T == {e \in Range(K) : NoDate <= e.date /\ e.date <= cd}
<1>12. S = Entries /\ IsFiniteSet(S) /\ S \subseteq EntryType
  <2>1. Entries \subseteq EntryType
    BY JournalRows DEF TypeOK, NumbersGapless, Entries
  <2>2. \A e \in Entries : NoDate <= e.date
    BY <2>1 DEF EntryType, Days, NoDate
  <2>3. S = Entries
    BY <2>2 DEF Dated
  <2> QED BY <2>3, BalancesLoaded
<1>13. T = S \cup {N[i] : i \in 1..m - 1}
  <2>1. \A i \in 1..m : i = m \/ i \in 1..m - 1
    BY <1>2
  <2>2. \A i \in 1..m - 1 : i \in 1..m /\ i # m
    BY <1>2
  <2>3. N[m].date = rd /\ ~(rd <= cd) /\ m \in 1..m
    BY <1>4, <1>53 DEF Days
  <2>4. \A i \in 1..m - 1 : N[i].date = cd
    BY <1>5, <2>2
  <2>5. NoDate <= cd /\ cd <= cd
    BY DEF Days, NoDate
  <2>6. \A e \in Entries : NoDate <= e.date /\ e.date <= cd
    BY <1>12 DEF Dated
  <2> HIDE DEF K
  <2> QED BY <1>10, <1>12, <2>1, <2>2, <2>3, <2>4, <2>5, <2>6
<1>14. ASSUME NEW i \in 1..m, NEW U, U \subseteq S \cup {N[j] : j \in 1..i - 1}, IsFiniteSet(U),
              NEW a \in Accounts
       PROVE  /\ Net(U \cup {N[i]}, a) = Net(U, a) + Effect(C[i], a)
              /\ IsFiniteSet(U \cup {N[i]}) /\ Net(U, a) \in Int
  <2>1. \A e \in S : e.number \in 1..n
    BY <1>3, <1>12 DEF Entries, Range, NumbersGapless
  <2>2. \A j \in 1..i - 1 : j \in 1..m /\ n + j # n + i
    BY <1>2, <1>3
  <2>3. \A e \in U : e \in EntryType /\ e.number # n + i
    <3>1. \A e \in S : e \in EntryType /\ e.number # n + i
      BY <1>3, <1>4, <1>12, <2>1
    <3>2. \A j \in 1..i - 1 : N[j] \in EntryType /\ N[j].number # n + i
      BY <1>51, <2>2
    <3> HIDE DEF S
    <3> QED BY <1>14, <3>1, <3>2
  <2>4. N[i] \notin U /\ U \cup {N[i]} \subseteq EntryType
    BY <1>5, <2>3
  <2>5. IsFiniteSet(U \cup {N[i]})
    BY <1>14, FS_AddElement
  <2>6. U \subseteq EntryType
    BY <2>3
  <2> HIDE DEF S
  <2>7. Net(U \cup {N[i]}, a) = Net(U, a) + Effect(N[i], a) /\ Net(U, a) \in Int
    BY <1>14, <2>4, <2>6, NetStep, NetType
  <2> QED BY <1>5, <2>5, <2>7
<1>15. \A a \in Accounts : b[a] = Net(S, a) /\ Net(S, a) \in Int
  <2>1. \A a \in Accounts : b[a] = Net(S, a)
    BY DEF b, LoadBalances
  <2> HIDE DEF S
  <2> QED BY <1>1, <2>1
<1>16. ASSUME NEW a \in Accounts PROVE Net(T, a) = 0
  <2> DEFINE U1 == S \cup {N[1]}
             U2 == U1 \cup {N[2]}
             U3 == U2 \cup {N[3]}
  <2>0. 1 \in 1..m /\ 2 \in 1..m
    BY <1>2
  <2>1. Net(U1, a) = Net(S, a) + Effect(C[1], a) /\ IsFiniteSet(U1)
    <3> HIDE DEF S
    <3> QED BY <1>12, <1>14, <2>0
  <2>2. Net(U2, a) = Net(U1, a) + Effect(C[2], a) /\ IsFiniteSet(U2)
    <3>1. U1 \subseteq S \cup {N[j] : j \in 1..2 - 1}
      OBVIOUS
    <3> HIDE DEF S, U1
    <3> QED BY <1>14, <2>0, <2>1, <3>1
  <2>3. ASSUME m = 4 PROVE Net(U3, a) = Net(U2, a) + Effect(C[3], a)
    <3>1. U2 \subseteq S \cup {N[j] : j \in 1..3 - 1} /\ 3 \in 1..m
      BY <2>3
    <3> HIDE DEF S, U2
    <3> QED BY <1>14, <2>2, <3>1
  <2>4. /\ m = 2 => T = U1
        /\ m = 3 => T = U2
        /\ m = 4 => T = U3
    <3> HIDE DEF T, S
    <3>1. ASSUME m = 2 PROVE T = U1
      BY <1>13, <3>1
    <3>2. ASSUME m = 3 PROVE T = U2
      <4>1. 1..m - 1 = {1, 2}
        BY <3>2
      <4> QED BY <1>13, <4>1
    <3>3. ASSUME m = 4 PROVE T = U3
      <4>1. 1..m - 1 = {1, 2, 3}
        BY <3>3
      <4> QED BY <1>13, <4>1
    <3> QED BY <3>1, <3>2, <3>3
  <2>5. /\ m = 2 => Effect(C[1], a) = -b[a]
        /\ m = 3 => Effect(C[1], a) + Effect(C[2], a) = -b[a]
        /\ m = 4 => Effect(C[1], a) + Effect(C[2], a) + Effect(C[3], a) = -b[a]
    BY <1>2
  <2>6. /\ b[a] = Net(S, a) /\ b[a] \in Int
        /\ \A i \in 1..m : Effect(C[i], a) \in Int
    <3>1. \A i \in 1..m : Effect(N[i], a) \in Int
      BY <1>51 DEF EntryType, Effect
    <3> QED BY <1>5, <1>15, <3>1
  <2>7. m = 2 \/ m = 3 \/ m = 4
    BY <1>2
  <2> HIDE DEF T, S, U1, U2, U3
  <2>8. CASE m = 2
    <3>1. Net(T, a) = b[a] + (-b[a])
      BY <2>1, <2>4, <2>5, <2>6, <2>8
    <3> QED BY <2>6, <3>1
  <2>9. CASE m = 3
    <3>1. Effect(C[1], a) \in Int /\ Effect(C[2], a) \in Int
      BY <2>0, <2>6
    <3>2. Net(T, a) = b[a] + (Effect(C[1], a) + Effect(C[2], a))
      BY <2>1, <2>2, <2>4, <2>6, <2>9, <3>1
    <3>3. Net(T, a) = b[a] + (-b[a])
      BY <2>5, <2>9, <3>2
    <3> QED BY <2>6, <3>3
  <2>10. CASE m = 4
    <3>1. Effect(C[1], a) \in Int /\ Effect(C[2], a) \in Int /\ Effect(C[3], a) \in Int
      BY <2>6, <2>10
    <3>2. Net(T, a) = b[a] + (Effect(C[1], a) + Effect(C[2], a) + Effect(C[3], a))
      BY <2>1, <2>2, <2>3, <2>4, <2>6, <2>10, <3>1
    <3>3. Net(T, a) = b[a] + (-b[a])
      BY <2>5, <2>10, <3>2
    <3> QED BY <2>6, <3>3
  <2> QED BY <2>7, <2>8, <2>9, <2>10
<1>17. /\ m \in 2..4 /\ n \in Nat /\ K \in Seq(EntryType) /\ Len(K) = n + m
       /\ \A i \in 1..n : K[i] = journal[i]
  BY <1>2, <1>3, <1>7
<1> HIDE DEF K, T
<1>18. ClosingWritten(K, n, m, cd, rd)
  BY <1>8, <1>9, <1>11, <1>16, <1>17 DEF ClosingWritten, T
<1> QED BY <1>6, <1>18 DEF N, K, n, C, b

(***************************************************************************)
(* The invariant holds.                                                    *)
(***************************************************************************)

\* The entries the loop over a journal J reads.
Boundaries(J) == {e \in Range(J) : IsBoundary(e)}

\* A boundary entry after all others is one step more of the loop.
LEMMA ScanGrows ==
  ASSUME NEW S, NEW x, Rowset(S \cup {x}), x \notin S, \A e \in S : DateThenNumber(e, x)
  PROVE  ScanEntries(Ordered(S \cup {x})) = ScanEntry(ScanEntries(Ordered(S)), x)
<1>1. Rowset(S)
  BY FS_Subset DEF Rowset
<1>2. Ordered(S) \in Seq(S \cup {x})
  <2>1. Ordered(S) \in Seq(S)
    BY <1>1, OrderedLists
  <2> QED BY <2>1
<1>3. ScanEntries(Append(Ordered(S), x)) = ScanEntry(ScanEntries(Ordered(S)), x)
  BY <1>2, ScanAppend
<1> QED BY <1>3, OrderedAppend

\* The loop keeps four variables.
LEMMA ScanFields ==
  ASSUME NEW T, NEW s \in Seq(T)
  PROVE  DOMAIN ScanEntries(s) = {"exercises", "current", "seen_opening", "invalid"}
<1> DEFINE F == {"exercises", "current", "seen_opening", "invalid"}
<1>1. PICK h : h = LoopSteps(h, s, Len(s)) /\ ScanEntries(s) = h[Len(s)]
  BY LoopRuns
<1>2. \A i \in 0..Len(s) : h[i] = IF i = 0 THEN ScanStart ELSE ScanEntry(h[i - 1], s[i])
  BY <1>1 DEF LoopSteps
<1>3. DOMAIN ScanStart = F
  BY DEF ScanStart
<1>4. ASSUME NEW scan, DOMAIN scan = F, NEW x PROVE DOMAIN ScanEntry(scan, x) = F
  BY <1>4 DEF ScanEntry, ScanOpening, ScanReopening, ScanClosing
<1> DEFINE P == {i \in 0..Len(s) : DOMAIN h[i] = F}
<1> HIDE DEF F
<1>5. 0 \in P
  BY <1>2, <1>3
<1>6. ASSUME NEW i \in 0..Len(s) - 1, i \in P PROVE i + 1 \in P
  <2>1. i + 1 \in 0..Len(s) /\ i + 1 # 0 /\ (i + 1) - 1 = i
    OBVIOUS
  <2>2. h[i + 1] = ScanEntry(h[i], s[i + 1])
    BY <1>2, <2>1
  <2> QED BY <1>4, <1>6, <2>1, <2>2
<1>7. Len(s) \in Nat /\ \A i \in 0..Len(s) - 1 : i \in P => i + 1 \in P
  BY <1>6
<1>8. \A i \in 0..Len(s) : i \in P
  <2> HIDE DEF P
  <2> QED BY <1>5, <1>7, UpTo
<1> QED BY <1>1, <1>7, <1>8 DEF F

\* What a client posts, and what opens the books, is an entry.
LEMMA EntryMade ==
  ASSUME NEW n \in Nat \ {0}, NEW t \in SourceType, NEW d \in Days,
         NEW p \in Accounts, NEW q \in Accounts, NEW x \in Nat
  PROVE  LET e == JournalEntry(n, t, d, Once(p, x), Once(q, x))
         IN  /\ e \in EntryType /\ e.number = n /\ e.source_type = t /\ e.date = d
             /\ SumFunction(e.debit) = SumFunction(e.credit)
<1>1. /\ Once(p, x) \in [Accounts -> Nat] /\ Once(q, x) \in [Accounts -> Nat]
      /\ SumFunction(Once(p, x)) = x /\ SumFunction(Once(q, x)) = x
  BY OnceSums
<1> QED BY <1>1 DEF JournalEntry, EntryType

\* An entry with the next number is a new one, and goes to the end.
LEMMA RowAdded ==
  ASSUME NEW J \in Seq(EntryType), \A i \in DOMAIN J : J[i].number = i,
         NEW x \in EntryType, x.number = Len(J) + 1
  PROVE  LET K == Append(J, x)
         IN  /\ K \in Seq(EntryType) /\ Len(K) = Len(J) + 1 /\ K # << >>
             /\ DOMAIN J = 1..Len(J) /\ DOMAIN K = 1..Len(J) + 1
             /\ K[Len(J) + 1] = x /\ \A i \in 1..Len(J) : K[i] = J[i]
             /\ \A i \in DOMAIN K : K[i].number = i
             /\ Range(K) = Range(J) \cup {x} /\ x \notin Range(J)
<1> DEFINE K == Append(J, x)
           n == Len(J)
<1>1. /\ n \in Nat /\ K \in Seq(EntryType) /\ Len(K) = n + 1 /\ K[n + 1] = x /\ K # << >>
      /\ DOMAIN J = 1..n /\ DOMAIN K = 1..n + 1 /\ \A i \in 1..n : K[i] = J[i]
  OBVIOUS
<1>2. \A i \in DOMAIN K : K[i].number = i
  BY <1>1
<1>3. \A i \in 1..n + 1 : i \in 1..n \/ i = n + 1
  BY <1>1
<1> HIDE DEF K
<1>4. Range(K) = Range(J) \cup {x}
  BY <1>1, <1>3 DEF Range
<1>5. x \notin Range(J)
  BY <1>1 DEF Range
<1> QED BY <1>1, <1>2, <1>4, <1>5 DEF K

LEMMA InitInv == Init => IInv
<1> SUFFICES ASSUME Init PROVE IInv
  OBVIOUS
<1>1. journal = << >> /\ books_closed_until = NoDate /\ postings = 0
  BY DEF Init
<1>2. TypeOK
  BY <1>1 DEF TypeOK
<1>3. DOMAIN journal = {} /\ Entries = {}
  BY <1>1 DEF Entries, Range
<1> QED BY <1>1, <1>2, <1>3 DEF IInv, NumbersGapless, EntriesBalance, ClosedIsZero, Chain, Ready

\* The opening entry starts the first exercise.
LEMMA OpenInv ==
  ASSUME IInv, NEW d \in Days, Open(d) PROVE IInv'
<1> DEFINE x == JournalEntry(1, "OPENING", d, Once(OpeningAccounts[1], OpeningAmount),
                             Once(OpeningAccounts[2], OpeningAmount))
<1>1. /\ journal = << >> /\ journal' = <<x>>
      /\ books_closed_until' = books_closed_until /\ postings' = postings
  BY DEF Open
<1>2. /\ x \in EntryType /\ x.number = 1 /\ x.source_type = "OPENING" /\ x.date = d
      /\ SumFunction(x.debit) = SumFunction(x.credit)
  <2>1. OpeningAccounts[1] \in Accounts /\ OpeningAccounts[2] \in Accounts
    BY AccountsAssumption
  <2>2. OpeningAmount \in Nat /\ 1 \in Nat \ {0} /\ "OPENING" \in SourceType
    BY DaysAssumption DEF SourceType
  <2> HIDE DEF x
  <2> QED BY <2>1, <2>2, EntryMade DEF x
<1> HIDE DEF x
<1>3. books_closed_until = NoDate
  BY <1>1 DEF IInv, Chain, Ready
<1>4. /\ DOMAIN <<x>> = {1} /\ <<x>>[1] = x /\ <<x>> \in Seq(EntryType) /\ Len(<<x>>) = 1
      /\ <<x>> # << >>
  BY <1>2
<1>5. Range(<<x>>) = {x}
  BY <1>4 DEF Range
<1>6. TypeOK'
  BY <1>1, <1>4 DEF IInv, TypeOK
<1>7. NumbersGapless' /\ EntriesBalance' /\ ClosedIsZero'
  BY <1>1, <1>2, <1>4, <1>5 DEF NumbersGapless, EntriesBalance, ClosedIsZero, Entries
<1>8. ScanEntries(BoundaryEntries(<<x>>)) = ScanEntry(ScanStart, x)
  <2>1. {e \in Range(<<x>>) : IsBoundary(e)} = {} \cup {x}
    BY <1>2, <1>5 DEF IsBoundary, BoundaryType
  <2>2. Rowset({} \cup {x})
    <3>1. {} \cup {x} = {x} /\ IsFiniteSet({x})
      BY FS_Singleton
    <3>2. x.date \in Int /\ x.number \in Int
      BY <1>2 DEF Days
    <3> QED BY <3>1, <3>2 DEF Rowset
  <2>3. ScanEntries(Ordered({} \cup {x})) = ScanEntry(ScanEntries(Ordered({})), x)
    BY <2>2, ScanGrows
  <2> QED BY <2>1, <2>3, OrderedEmpty, ScanEmpty DEF BoundaryEntries
<1>9. ScanEntry(ScanStart, x) = [exercises |-> << >>, current |-> x, seen_opening |-> TRUE,
                                 invalid |-> FALSE]
  BY <1>2 DEF ScanEntry, ScanOpening, ScanStart, HasCurrent
<1>10. /\ Scan'.exercises = << >> /\ Scan'.current = x /\ Scan'.seen_opening
       /\ ~Scan'.invalid
  BY <1>1, <1>8, <1>9 DEF Scan
<1>11. OpenFrom(1)'
  BY <1>1, <1>2, <1>3, <1>4, <1>10 DEF OpenFrom, Opens, NoDate, Days
<1>12. ClosedChain'
  <2>1. << >> \in Seq(ExerciseType) /\ DOMAIN << >> = {}
    OBVIOUS
  <2> QED BY <1>10, <2>1 DEF ClosedChain
<1>13. Chain'
  BY <1>1, <1>4, <1>10, <1>11, <1>12 DEF Chain, Ready
<1> QED BY <1>6, <1>7, <1>13 DEF IInv

\* A posting goes behind the closed period: it moves no boundary and no balance of a closing.
LEMMA PostInv ==
  ASSUME IInv, NEW d \in Days, NEW pair \in PostingPairs, NEW amount \in Amounts,
         Post(d, pair, amount)
  PROVE  IInv'
<1> DEFINE n == Len(journal)
           x == JournalEntry(n + 1, "MANUAL", d, Once(pair[1], amount), Once(pair[2], amount))
           K == Append(journal, x)
<1>1. /\ journal # << >> /\ journal' = K /\ d > books_closed_until
      /\ books_closed_until' = books_closed_until /\ postings' = postings + 1
  BY DEF Post
<1>2. /\ journal \in Seq(EntryType) /\ \A i \in DOMAIN journal : journal[i].number = i
      /\ n \in Nat /\ postings \in Nat /\ books_closed_until \in {NoDate} \cup Days
  BY DEF IInv, TypeOK, NumbersGapless
<1>3. /\ x \in EntryType /\ x.number = n + 1 /\ x.source_type = "MANUAL" /\ x.date = d
      /\ SumFunction(x.debit) = SumFunction(x.credit)
  <2>1. pair[1] \in Accounts /\ pair[2] \in Accounts
    BY AccountsAssumption
  <2>2. amount \in Nat /\ n + 1 \in Nat \ {0} /\ "MANUAL" \in SourceType
    BY <1>2, DaysAssumption DEF SourceType
  <2> HIDE DEF x, n
  <2> QED BY <2>1, <2>2, EntryMade DEF x
<1> HIDE DEF x
<1>4. /\ K \in Seq(EntryType) /\ Len(K) = n + 1 /\ K # << >>
      /\ DOMAIN journal = 1..n /\ DOMAIN K = 1..n + 1
      /\ K[n + 1] = x /\ \A i \in 1..n : K[i] = journal[i]
      /\ \A i \in DOMAIN K : K[i].number = i
      /\ Range(K) = Range(journal) \cup {x} /\ x \notin Range(journal)
  BY <1>2, <1>3, RowAdded
<1> HIDE DEF K, n
<1>5. TypeOK' /\ NumbersGapless'
  BY <1>1, <1>2, <1>4 DEF TypeOK, NumbersGapless
<1>6. EntriesBalance'
  BY <1>1, <1>3, <1>4 DEF IInv, EntriesBalance, Entries
<1>7. ClosedIsZero'
  <2> SUFFICES ASSUME NEW e \in Range(K), e.source_type = "PATRIMONIAL_CLOSING"
               PROVE  /\ e.date <= books_closed_until
                      /\ \A a \in Accounts :
                           Net({f \in Range(K) : NoDate <= f.date /\ f.date <= e.date}, a) = 0
    BY <1>1 DEF ClosedIsZero, Entries, Dated
  <2>1. e \in Entries
    BY <1>3, <1>4 DEF Entries
  <2>2. /\ e.date <= books_closed_until
        /\ \A a \in Accounts : Net(Dated(NoDate, e.date), a) = 0
    BY <2>1 DEF IInv, ClosedIsZero
  <2>3. ~(d <= e.date)
    <3>1. e \in EntryType
      BY <1>2, <2>1, JournalRows DEF Entries
    <3> QED BY <1>1, <1>2, <2>2, <3>1 DEF EntryType, Days, NoDate
  <2>4. {f \in Range(K) : NoDate <= f.date /\ f.date <= e.date} = Dated(NoDate, e.date)
    BY <1>3, <1>4, <2>3 DEF Dated, Entries
  <2> QED BY <2>2, <2>4
<1>8. Scan' = Scan
  <2>1. {e \in Range(K) : IsBoundary(e)} = {e \in Range(journal) : IsBoundary(e)}
    BY <1>3, <1>4 DEF IsBoundary, BoundaryType
  <2>2. BoundaryEntries(K) = BoundaryEntries(journal)
    BY <2>1 DEF BoundaryEntries
  <2> QED BY <1>1, <2>2 DEF Scan
<1>9. PICK s \in DOMAIN journal : OpenFrom(s)
  BY <1>1 DEF IInv, Chain, Ready
<1>10. OpenFrom(s)'
  <2>1. s \in DOMAIN K /\ K[s] = journal[s] /\ s \in 1..n
    BY <1>2, <1>4 DEF n
  <2>2. \A i \in DOMAIN K : i \in 1..n \/ i = n + 1
    BY <1>2, <1>4 DEF n
  <2>3. \A i \in DOMAIN K : /\ i < s => K[i].date <= books_closed_until
                            /\ i > s => K[i].source_type = "MANUAL"
    <3> TAKE i \in DOMAIN K
    <3>1. CASE i \in 1..n
      BY <1>4, <1>9, <3>1 DEF OpenFrom
    <3>2. CASE i = n + 1
      BY <1>2, <1>3, <1>4, <2>1, <3>2 DEF n
    <3> QED BY <2>2, <3>1, <3>2
  <2> QED BY <1>1, <1>8, <1>9, <2>1, <2>3 DEF OpenFrom, Opens
<1>11. ClosedChain'
  <2>1. ClosedChain
    BY <1>1 DEF IInv, Chain, Ready
  <2>2. \A i \in DOMAIN journal : i \in DOMAIN K /\ K[i] = journal[i]
    BY <1>2, <1>4 DEF n
  <2> QED BY <1>1, <1>8, <2>1, <2>2 DEF ClosedChain
<1>12. Chain'
  <2>1. s \in DOMAIN journal'
    BY <1>10 DEF OpenFrom
  <2> QED BY <1>1, <1>4, <1>8, <1>10, <1>11, <2>1 DEF IInv, Chain, Ready
<1> QED BY <1>5, <1>6, <1>7, <1>12 DEF IInv

\* Before the opening entry there is no exercise to close.
LEMMA NothingToClose ==
  ASSUME journal = << >>
  PROVE  CurrentLogicalExercise(BuildLogicalExercises(journal).exercises).status # "open"
<1>1. {e \in Range(journal) : IsBoundary(e)} = {}
  BY DEF Range
<1>2. ScanEntries(BoundaryEntries(journal)) = ScanStart
  BY <1>1, OrderedEmpty, ScanEmpty DEF BoundaryEntries
<1>3. BuildLogicalExercises(journal).exercises = << >>
  BY <1>2 DEF BuildLogicalExercises, HasCurrent, ScanStart
<1> QED BY <1>3 DEF CurrentLogicalExercise, NoExercise, Exercise

\* What a closing relies on, and the journal it leaves.
LEMMA CloseFacts ==
  ASSUME IInv, NEW cd \in Days, NEW rd \in Days, Close(cd, rd)
  PROVE  LET n == Len(journal)
             K == journal'
             m == Len(K) - n
         IN  /\ Ready /\ books_closed_until < cd /\ cd < rd /\ \A e \in Entries : e.date <= cd
             /\ books_closed_until' = cd /\ postings' = postings
             /\ ClosingWritten(K, n, m, cd, rd)
<1>1. /\ RequestValid(cd, rd) /\ NaturalBalances(LoadBalances(cd))
      /\ journal' = journal \o Numbered(ClosingEntries(LoadBalances(cd), cd, rd))
      /\ books_closed_until' = cd /\ postings' = postings
  BY DEF Close
<1>2. Ready
  <2> SUFFICES ASSUME journal = << >> PROVE FALSE
    BY DEF Ready
  <2> QED BY <1>1, NothingToClose DEF RequestValid
<1>3. /\ books_closed_until \in Int /\ cd \in Int /\ rd \in Int
      /\ rd > cd /\ cd > books_closed_until
      /\ \A e \in Entries : e.date <= cd
  BY <1>1 DEF RequestValid, IInv, TypeOK, Days, NoDate
<1>4. books_closed_until < cd /\ cd < rd
  BY <1>3
<1> DEFINE N == Numbered(ClosingEntries(LoadBalances(cd), cd, rd))
           K == journal \o N
           n == Len(journal)
           m == Len(N)
<1>5. ClosingWritten(K, n, m, cd, rd)
  <2>1. TypeOK /\ NumbersGapless /\ EntriesBalance
    BY DEF IInv
  <2> QED BY <1>1, <1>3, <1>4, <2>1, ClosingWrites
<1>6. K = journal' /\ Len(journal') - n = m
  <2> HIDE DEF N, m, n
  <2> QED BY <1>1, <1>5 DEF ClosingWritten, N
<1> HIDE DEF N, K, n, m
<1> QED BY <1>1, <1>2, <1>3, <1>4, <1>5, <1>6 DEF n

\* What the loop makes of the two boundary entries of a closing.
LEMMA ScanClose ==
  ASSUME IInv, NEW cd \in Days, NEW rd \in Days, Close(cd, rd)
  PROVE  LET k == Len(journal')
         IN  /\ Scan'.exercises =
                  Append(Scan.exercises, Exercise(Scan.current, journal'[k - 1],
                                                  Len(Scan.exercises) + 1, "closed"))
             /\ Scan'.current = journal'[k]
             /\ Scan'.seen_opening /\ ~Scan'.invalid
<1> DEFINE n == Len(journal)
           K == journal'
           m == Len(K) - n
           pc == K[n + m - 1]
           ro == K[n + m]
           B == Boundaries(journal)
<1>1. /\ Ready /\ cd < rd /\ \A e \in Entries : e.date <= cd
      /\ m \in 2..4 /\ n \in Nat /\ K \in Seq(EntryType) /\ Len(K) = n + m
      /\ \A i \in 1..n + m : K[i].number = i
      /\ \A i \in 1..n : K[i] = journal[i]
      /\ \A i \in n + 1..n + m - 2 : K[i].source_type = "RESULT_CLOSING"
      /\ pc.source_type = "PATRIMONIAL_CLOSING" /\ pc.date = cd
      /\ ro.source_type = "REOPENING" /\ ro.date = rd
  <2>1. /\ Ready /\ cd < rd /\ \A e \in Entries : e.date <= cd
        /\ ClosingWritten(K, n, m, cd, rd)
    BY CloseFacts
  <2> HIDE DEF K, n, m
  <2> QED BY <2>1 DEF ClosingWritten
<1>2. /\ journal \in Seq(EntryType) /\ DOMAIN journal = 1..n
      /\ \A i \in 1..n : journal[i].number = i
  BY DEF IInv, TypeOK, NumbersGapless
<1> HIDE DEF m, n, K
<1>3. /\ n + m - 1 \in 1..n + m /\ n + m \in 1..n + m /\ DOMAIN K = 1..n + m
      /\ \A i \in 1..n : i \in 1..n + m
      /\ \A i \in 1..n + m : i \in 1..n \/ i \in n + 1..n + m - 2 \/ i = n + m - 1 \/ i = n + m
  BY <1>1
<1>4. Rowset(Range(K)) /\ \A S \in SUBSET Range(K) : Rowset(S)
  BY <1>1, <1>3, JournalRows
<1>5. Range(K) = {K[i] : i \in 1..n + m} /\ Entries = {journal[i] : i \in 1..n}
  BY <1>2, <1>3 DEF Range, Entries
<1>6. Boundaries(K) = (B \cup {pc}) \cup {ro}
  <2>1. \A i \in 1..n : journal[i] \in Range(K)
    BY <1>1, <1>3, <1>5
  <2>2. pc \in Range(K) /\ ro \in Range(K) /\ IsBoundary(pc) /\ IsBoundary(ro)
    BY <1>1, <1>3, <1>5 DEF IsBoundary, BoundaryType
  <2>3. \A i \in n + 1..n + m - 2 : ~IsBoundary(K[i])
    BY <1>1 DEF IsBoundary, BoundaryType
  <2>4. B = {e \in Entries : IsBoundary(e)} /\ Boundaries(K) = {e \in Range(K) : IsBoundary(e)}
    BY DEF Boundaries, Entries
  <2>5. \A i \in 1..n + m : K[i] \in Entries \/ ~IsBoundary(K[i]) \/ K[i] = pc \/ K[i] = ro
    BY <1>1, <1>3, <1>5, <2>3
  <2> HIDE DEF pc, ro, B
  <2> QED BY <1>5, <2>1, <2>2, <2>4, <2>5
<1>7. /\ \A e \in B : e.date <= cd /\ e.number \in 1..n /\ e.date \in Int
      /\ pc.number = n + m - 1 /\ ro.number = n + m /\ B \subseteq Entries
  <2>1. \A e \in Entries : e.date <= cd /\ e.number \in 1..n
    BY <1>1, <1>2, <1>5
  <2>2. B \subseteq Entries
    BY DEF Boundaries, Entries
  <2>3. \A e \in Entries : e.date \in Int
    <3>1. Entries \subseteq EntryType
      BY <1>2, JournalRows DEF Entries
    <3> QED BY <3>1 DEF EntryType, Days
  <2> QED BY <1>1, <1>3, <2>1, <2>2, <2>3
<1>8. cd \in Int /\ rd \in Int
  BY DEF Days
<1>9. /\ \A e \in B : DateThenNumber(e, pc) /\ e # pc
      /\ \A e \in B \cup {pc} : DateThenNumber(e, ro) /\ e # ro
  <2>1. \A e \in B : e.number < n + m - 1 /\ e.number # n + m - 1
    BY <1>1, <1>7
  <2>2. \A e \in B : DateThenNumber(e, pc) /\ e # pc
    BY <1>1, <1>7, <1>8, <2>1 DEF DateThenNumber
  <2>3. \A e \in B : DateThenNumber(e, ro) /\ e # ro
    BY <1>1, <1>7, <1>8 DEF DateThenNumber
  <2>4. DateThenNumber(pc, ro) /\ pc # ro
    BY <1>1, <1>8 DEF DateThenNumber
  <2> QED BY <2>2, <2>3, <2>4
<1> HIDE DEF B, pc, ro
<1>10. ScanEntries(Ordered((B \cup {pc}) \cup {ro})) = ScanEntry(ScanEntry(ScanEntries(Ordered(B)), pc), ro)
  <2>1. Rowset((B \cup {pc}) \cup {ro}) /\ Rowset(B \cup {pc})
    <3>1. (B \cup {pc}) \cup {ro} \subseteq Range(K)
      BY <1>6 DEF Boundaries
    <3> QED BY <1>4, <3>1
  <2>2. ScanEntries(Ordered(B \cup {pc})) = ScanEntry(ScanEntries(Ordered(B)), pc)
    BY <1>9, <2>1, ScanGrows
  <2> DEFINE C == B \cup {pc}
  <2>3. ro \notin C /\ (\A e \in C : DateThenNumber(e, ro)) /\ Rowset(C \cup {ro})
    BY <1>9, <2>1
  <2> HIDE DEF C
  <2>4. ScanEntries(Ordered(C \cup {ro})) = ScanEntry(ScanEntries(Ordered(C)), ro)
    BY <2>3, ScanGrows
  <2> QED BY <2>2, <2>4 DEF C
<1>11. Scan = ScanEntries(Ordered(B)) /\ Scan' = ScanEntries(Ordered((B \cup {pc}) \cup {ro}))
  BY <1>6 DEF Scan, BoundaryEntries, Boundaries, B, K
<1> DEFINE scan == Scan
<1>12. DOMAIN scan = {"exercises", "current", "seen_opening", "invalid"}
  <2>1. Rowset(B)
    <3>1. B \subseteq Entries
      BY <1>7
    <3> QED BY <1>2, <3>1, JournalRows DEF Entries
  <2>2. Ordered(B) \in Seq(B)
    BY <2>1, OrderedLists
  <2> QED BY <1>11, <2>2, ScanFields
<1>13. scan.seen_opening /\ ~scan.invalid /\ HasCurrent(scan)
  <2>1. PICK s \in DOMAIN journal : OpenFrom(s)
    BY <1>1 DEF IInv, Chain
  <2>2. scan.current = journal[s] /\ journal[s].number = s /\ s \in 1..n
    BY <1>2, <2>1 DEF OpenFrom
  <2>3. scan.current # NoOpening
    BY <1>1, <2>2 DEF NoOpening, NoEntry
  <2> QED BY <1>1, <2>3 DEF IInv, Chain, HasCurrent
<1> HIDE DEF scan
<1> DEFINE one == [scan EXCEPT
                     !.exercises = Append(@, Exercise(scan.current, pc, Len(@) + 1, "closed")),
                     !.current   = NoOpening]
<1>14. ScanEntry(scan, pc) = one
  BY <1>1, <1>13 DEF ScanEntry, ScanClosing
<1>15. /\ one.exercises = Append(scan.exercises, Exercise(scan.current, pc, Len(scan.exercises) + 1, "closed"))
       /\ one.current = NoOpening /\ one.seen_opening = scan.seen_opening
       /\ one.invalid = scan.invalid
       /\ DOMAIN one = {"exercises", "current", "seen_opening", "invalid"}
  BY <1>12
<1> HIDE DEF one
<1>16. ScanEntry(one, ro) = [one EXCEPT !.current = ro]
  BY <1>1, <1>13, <1>15 DEF ScanEntry, ScanReopening, HasCurrent
<1>17. Scan' = [one EXCEPT !.current = ro]
  BY <1>10, <1>11, <1>14, <1>16 DEF scan
<1>18. /\ Scan'.exercises = one.exercises /\ Scan'.current = ro
       /\ Scan'.seen_opening = one.seen_opening /\ Scan'.invalid = one.invalid
  BY <1>15, <1>17
<1>19. n + m = Len(journal')
  BY <1>1 DEF K
<1>20. Scan'.seen_opening /\ ~Scan'.invalid
  <2>1. one.seen_opening /\ ~one.invalid
    BY <1>13, <1>15, Zenon
  <2> QED BY <1>18, <2>1, Zenon
<1>21. /\ Scan'.exercises =
              Append(scan.exercises, Exercise(scan.current, K[(n + m) - 1], Len(scan.exercises) + 1,
                                              "closed"))
       /\ Scan'.current = K[n + m]
  <2>1. Scan'.exercises = one.exercises /\ Scan'.current = ro
    BY <1>18
  <2>2. one.exercises = Append(scan.exercises, Exercise(scan.current, pc, Len(scan.exercises) + 1, "closed"))
    BY <1>15
  <2>3. (n + m) - 1 = n + m - 1
    BY <1>1
  <2> QED BY <2>1, <2>2, <2>3 DEF pc, ro
<1>22. /\ Scan'.exercises =
              Append(Scan.exercises, Exercise(Scan.current, journal'[Len(journal') - 1],
                                              Len(Scan.exercises) + 1, "closed"))
       /\ Scan'.current = journal'[Len(journal')]
  BY <1>19, <1>21 DEF scan, K
<1> QED BY <1>20, <1>22, Zenon

\* A closing ends the exercise that is open and opens the next one behind it.
LEMMA CloseInv ==
  ASSUME IInv, NEW cd \in Days, NEW rd \in Days, Close(cd, rd) PROVE IInv'
<1> DEFINE n == Len(journal)
           K == journal'
           m == Len(K) - n
<1>1. /\ Ready /\ books_closed_until < cd /\ cd < rd /\ \A e \in Entries : e.date <= cd
      /\ books_closed_until' = cd /\ postings' = postings
      /\ ClosingWritten(K, n, m, cd, rd)
  BY CloseFacts
<1>2. /\ journal \in Seq(EntryType) /\ DOMAIN journal = 1..n /\ n \in Nat
      /\ \A i \in 1..n : journal[i].number = i
      /\ books_closed_until \in Int /\ postings \in Nat /\ cd \in Int /\ rd \in Int
  BY DEF IInv, TypeOK, NumbersGapless, Days, NoDate
<1>3. m \in 2..4 /\ K \in Seq(EntryType) /\ Len(K) = n + m /\ \A i \in 1..n : K[i] = journal[i]
  <2> HIDE DEF m, n, K
  <2> QED BY <1>1 DEF ClosingWritten
<1> HIDE DEF m, n, K
<1>4. /\ n + m - 1 \in 1..n + m /\ n + m \in 1..n + m /\ DOMAIN K = 1..n + m
      /\ \A i \in 1..n : i \in 1..n + m
      /\ \A i \in 1..n + m : i \in 1..n \/ i \in n + 1..n + m - 2 \/ i = n + m - 1 \/ i = n + m
  BY <1>2, <1>3
<1>5. TypeOK'
  BY <1>1, <1>2, <1>3 DEF TypeOK, K
<1>6. NumbersGapless'
  <2>1. \A i \in DOMAIN K : K[i].number = i
    BY <1>1, <1>4 DEF ClosingWritten
  <2> QED BY <2>1 DEF NumbersGapless, K
<1>7. EntriesBalance'
  <2>1. \A e \in Range(K) : SumFunction(e.debit) = SumFunction(e.credit)
    BY <1>1 DEF ClosingWritten
  <2> QED BY <2>1 DEF EntriesBalance, Entries, K
<1>8. \A i \in n + 1..n + m : cd <= K[i].date /\ (K[i].source_type = "PATRIMONIAL_CLOSING" => i = n + m - 1)
  <2> TAKE i \in n + 1..n + m
  <2>1. i \in n + 1..n + m - 2 \/ i = n + m - 1 \/ i = n + m
    BY <1>2, <1>3
  <2>2. CASE i \in n + 1..n + m - 2
    <3>1. K[i].source_type = "RESULT_CLOSING" /\ K[i].date = cd
      BY <1>1, <2>2 DEF ClosingWritten
    <3> QED BY <1>2, <3>1
  <2>3. CASE i = n + m - 1
    <3>1. K[n + m - 1].date = cd
      BY <1>1 DEF ClosingWritten
    <3> QED BY <1>2, <2>3, <3>1
  <2>4. CASE i = n + m
    <3>1. K[n + m].date = rd /\ K[n + m].source_type = "REOPENING"
      BY <1>1 DEF ClosingWritten
    <3> QED BY <1>1, <1>2, <2>4, <3>1
  <2> QED BY <2>1, <2>2, <2>3, <2>4
<1>9. /\ Entries \subseteq Range(K) /\ Entries \subseteq EntryType
      /\ \A e \in Range(K) : e \in Entries \/ \E i \in n + 1..n + m : e = K[i]
  <2>1. Range(K) = {K[i] : i \in 1..n + m} /\ Entries = {journal[i] : i \in 1..n}
    BY <1>2, <1>4 DEF Range, Entries
  <2>2. \A i \in 1..n + m : i \in 1..n \/ i \in n + 1..n + m
    BY <1>2, <1>3
  <2>3. Entries \subseteq EntryType
    BY <1>2, JournalRows DEF Entries
  <2> QED BY <1>3, <1>4, <2>1, <2>2, <2>3
<1>10. ClosedIsZero'
  <2> SUFFICES ASSUME NEW e \in Range(K), e.source_type = "PATRIMONIAL_CLOSING"
               PROVE  /\ e.date <= cd
                      /\ \A a \in Accounts :
                           Net({f \in Range(K) : NoDate <= f.date /\ f.date <= e.date}, a) = 0
    BY <1>1 DEF ClosedIsZero, Entries, Dated, K
  <2>1. CASE e \in Entries
    <3>1. /\ e.date <= books_closed_until
          /\ \A a \in Accounts : Net(Dated(NoDate, e.date), a) = 0
      BY <2>1 DEF IInv, ClosedIsZero
    <3>2. e.date \in Int /\ \A f \in Entries : f.date \in Int
      BY <1>9, <2>1 DEF EntryType, Days
    <3>3. e.date < cd
      BY <1>1, <1>2, <3>1, <3>2
    <3>4. \A f \in Range(K) : f.date <= e.date => f \in Entries
      <4> TAKE f \in Range(K)
      <4>1. CASE f \in Entries
        BY <4>1
      <4>2. ASSUME NEW i \in n + 1..n + m, f = K[i] PROVE ~(f.date <= e.date)
        <5>1. cd <= f.date /\ f.date \in Int
          <6>1. i \in 1..n + m
            BY <1>2, <1>3
          <6>2. K[i] \in EntryType
            BY <1>3, <1>4, <6>1
          <6> QED BY <1>8, <4>2, <6>2 DEF EntryType, Days
        <5> QED BY <1>2, <3>2, <3>3, <5>1
      <4> QED BY <1>9, <4>1, <4>2
    <3>5. {f \in Range(K) : NoDate <= f.date /\ f.date <= e.date} = Dated(NoDate, e.date)
      BY <1>9, <3>4 DEF Dated
    <3>6. e.date <= cd
      BY <1>2, <3>2, <3>3
    <3> QED BY <3>1, <3>5, <3>6
  <2>2. CASE e \notin Entries
    <3>1. PICK i \in n + 1..n + m : e = K[i]
      BY <1>9, <2>2
    <3>2. e = K[n + m - 1]
      BY <1>8, <3>1
    <3>3. e.date = cd
      BY <1>1, <3>2 DEF ClosingWritten
    <3>4. \A a \in Accounts : Net({f \in Range(K) : NoDate <= f.date /\ f.date <= cd}, a) = 0
      BY <1>1 DEF ClosingWritten
    <3> QED BY <1>2, <3>3, <3>4
  <2> QED BY <2>1, <2>2
<1>11. /\ Scan'.exercises =
              Append(Scan.exercises, Exercise(Scan.current, K[n + m - 1],
                                              Len(Scan.exercises) + 1, "closed"))
       /\ Scan'.current = K[n + m]
  <2>1. /\ Scan'.exercises =
              Append(Scan.exercises, Exercise(Scan.current, K[Len(K) - 1],
                                              Len(Scan.exercises) + 1, "closed"))
        /\ Scan'.current = K[Len(K)]
    BY ScanClose DEF K
  <2>2. Len(K) - 1 = n + m - 1
    BY <1>2, <1>3
  <2> QED BY <1>3, <2>1, <2>2
<1>12. Scan'.seen_opening /\ ~Scan'.invalid
  BY ScanClose
<1>13. PICK p \in Nat : p = n + m
  BY <1>2, <1>3
<1>14. OpenFrom(p)'
  <2>1. n + m \in DOMAIN K /\ Opens(K[n + m])
    BY <1>1, <1>4 DEF ClosingWritten, Opens
  <2>2. cd < K[n + m].date
    BY <1>1 DEF ClosingWritten
  <2>3. \A i \in DOMAIN K : i < n + m => K[i].date <= cd
    <3> TAKE i \in DOMAIN K
    <3> HAVE i < n + m
    <3>1. CASE i \in 1..n
      <4>1. K[i] \in Entries
        BY <1>2, <1>3, <3>1 DEF Entries, Range
      <4> QED BY <1>1, <4>1
    <3>2. CASE i \in n + 1..n + m - 2 \/ i = n + m - 1
      <4>1. K[i].date = cd
        BY <1>1, <3>2 DEF ClosingWritten
      <4> QED BY <1>2, <4>1
    <3>3. i # n + m
      BY <1>2, <1>3
    <3> QED BY <1>4, <3>1, <3>2, <3>3
  <2>4. \A i \in DOMAIN K : ~(i > n + m)
    BY <1>2, <1>3, <1>4
  <2>5. /\ p \in DOMAIN K /\ Opens(K[p]) /\ cd < K[p].date
        /\ \A i \in DOMAIN K : i < p => K[i].date <= cd
        /\ \A i \in DOMAIN K : ~(i > p)
        /\ Scan'.current = K[p]
    BY <1>11, <1>13, <2>1, <2>2, <2>3, <2>4
  <2> QED BY <1>1, <2>5 DEF OpenFrom, Opens, K
<1>15. ClosedChain'
  <2> DEFINE closed == Scan.exercises
             x == Exercise(Scan.current, K[n + m - 1], Len(closed) + 1, "closed")
             longer == Append(closed, x)
             N == Len(closed)
  <2>1. PICK s \in DOMAIN journal : OpenFrom(s)
    BY <1>1 DEF IInv, Chain
  <2>2. ClosedChain
    BY <1>1 DEF IInv, Chain
  <2>3. /\ s \in 1..n /\ Scan.current = journal[s] /\ journal[s].number = s
        /\ journal[s] \in Entries /\ journal[s] \in EntryType
        /\ books_closed_until < journal[s].date /\ journal[s].date <= cd
        /\ journal[s].date \in Days
    <3>1. journal[s] \in Entries
      BY <1>2, <2>1 DEF Entries, Range
    <3>2. journal[s].date \in Days
      BY <1>9, <3>1 DEF EntryType
    <3> QED BY <1>1, <1>2, <1>9, <2>1, <3>1, <3>2 DEF OpenFrom
  <2>4. K[n + m - 1].number = n + m - 1 /\ K[n + m - 1].date = cd
    BY <1>1, <1>4 DEF ClosingWritten
  <2>5. closed \in Seq(ExerciseType) /\ N \in Nat /\ DOMAIN closed = 1..N
    BY <2>2 DEF ClosedChain
  <2>6. /\ x \in ExerciseType /\ x.start_date = journal[s].date /\ x.closing_date = cd
        /\ x.opening_entry = s
    BY <1>2, <1>3, <2>3, <2>4, <2>5 DEF Exercise, ExerciseType
  <2> HIDE DEF x, N, closed
  <2>7. /\ longer \in Seq(ExerciseType) /\ DOMAIN longer = 1..N + 1
        /\ longer[N + 1] = x /\ \A k \in 1..N : longer[k] = closed[k]
    BY <2>5, <2>6 DEF N
  <2> HIDE DEF longer
  <2>8. \A k \in 1..N : /\ closed[k].start_date <= closed[k].closing_date
                        /\ closed[k].closing_date <= books_closed_until
                        /\ closed[k].opening_entry \in 1..n
                        /\ journal[closed[k].opening_entry].date = closed[k].start_date
                        /\ closed[k].closing_date \in Int
    <3>1. \A k \in 1..N : closed[k] \in ExerciseType
      BY <2>5
    <3>2. \A k \in 1..N : closed[k].closing_date \in Int
      BY <3>1 DEF ExerciseType, Days
    <3> QED BY <1>2, <2>2, <2>5, <3>2 DEF ClosedChain, closed
  <2>9. \A k \in 1..N + 1 :
          /\ longer[k].start_date <= longer[k].closing_date
          /\ longer[k].closing_date <= cd
          /\ longer[k].opening_entry \in DOMAIN K
          /\ K[longer[k].opening_entry].date = longer[k].start_date
    <3> TAKE k \in 1..N + 1
    <3>1. CASE k \in 1..N
      <4>1. closed[k].closing_date <= cd
        BY <1>1, <1>2, <2>8, <3>1
      <4> QED BY <1>3, <1>4, <2>7, <2>8, <3>1, <4>1
    <3>2. CASE k = N + 1
      BY <1>2, <1>3, <1>4, <2>3, <2>6, <2>7, <3>2
    <3> QED BY <2>5, <3>1, <3>2
  <2>10. \A j, k \in 1..N + 1 : j < k => longer[j].closing_date < longer[k].start_date
    <3> TAKE j, k \in 1..N + 1
    <3> HAVE j < k
    <3>1. j \in 1..N
      BY <2>5
    <3>2. CASE k \in 1..N
      <4>1. closed[j].closing_date < closed[k].start_date
        BY <2>2, <2>5, <3>1, <3>2 DEF ClosedChain, closed
      <4> QED BY <2>7, <3>1, <3>2, <4>1
    <3>3. CASE k = N + 1
      <4>1. closed[j].closing_date < journal[s].date
        BY <1>2, <2>3, <2>8, <3>1 DEF Days
      <4> QED BY <2>6, <2>7, <3>1, <3>3, <4>1
    <3> QED BY <2>5, <3>2, <3>3
  <2>11. Scan'.exercises = longer
    BY <1>11 DEF longer, x, closed
  <2> QED BY <1>1, <2>7, <2>9, <2>10, <2>11 DEF ClosedChain, K
<1>16. Chain'
  <2>1. Ready' /\ p \in DOMAIN journal'
    BY <1>2, <1>3, <1>4, <1>13 DEF Ready, K
  <2> QED BY <1>12, <1>14, <1>15, <2>1, Zenon DEF Chain
<1> QED BY <1>5, <1>6, <1>7, <1>10, <1>16 DEF IInv

\* Every state keeps the types, the numbers, the balance of every entry, the zero a closing
\* leaves and the chain of the exercises: one of them is open, behind the closed period.
THEOREM ReportsInvariant == Spec => []IInv
<1>1. ASSUME IInv, [Next]_vars PROVE IInv'
  <2>1. ASSUME NEW d \in Days, Open(d) PROVE IInv'
    BY <1>1, <2>1, OpenInv
  <2>2. ASSUME NEW d \in Days, NEW pair \in PostingPairs, NEW amount \in Amounts, Post(d, pair, amount)
        PROVE  IInv'
    BY <1>1, <2>2, PostInv
  <2>3. ASSUME NEW cd \in Days, NEW rd \in Days, Close(cd, rd) PROVE IInv'
    BY <1>1, <2>3, CloseInv
  <2>4. ASSUME UNCHANGED vars PROVE IInv'
    BY <1>1, <2>4 DEF vars, IInv, TypeOK, NumbersGapless, EntriesBalance, ClosedIsZero, Chain, OpenFrom,
                      ClosedChain, Ready, Entries, Dated, Scan
  <2> QED BY <1>1, <2>1, <2>2, <2>3, <2>4 DEF Next
<1> QED BY InitInv, <1>1, PTL DEF Spec

(***************************************************************************)
(* The exercises, and the period of a report.                              *)
(***************************************************************************)

\* Finitely many integers have a largest one.
LEMMA MaxElement ==
  ASSUME NEW S \in SUBSET Int, IsFiniteSet(S), S # {}
  PROVE  Max(S) \in S /\ \A x \in S : x <= Max(S)
<1> DEFINE P == {T \in SUBSET S : T = {} \/ \E x \in T : \A y \in T : x >= y}
<1>1. ASSUME NEW T \in SUBSET S, \A x \in T : T \ {x} \in P PROVE T \in P
  <2>1. CASE T = {}
    BY <2>1
  <2>2. CASE T # {}
    <3>1. PICK x \in T : TRUE
      BY <2>2
    <3>2. T \ {x} = {} \/ \E z \in T \ {x} : \A y \in T \ {x} : z >= y
      BY <1>1, <3>1
    <3>3. CASE T \ {x} = {}
      <4>1. \A y \in T : x >= y
        BY <3>1, <3>3
      <4> QED BY <3>1, <4>1
    <3>4. ASSUME NEW z \in T \ {x}, \A y \in T \ {x} : z >= y PROVE T \in P
      <4>1. CASE z >= x
        <5>1. \A y \in T : z >= y
          BY <3>4, <4>1
        <5> QED BY <5>1
      <4>2. CASE ~(z >= x)
        <5>1. \A y \in T : x >= y
          <6> TAKE y \in T
          <6>1. x \in Int /\ y \in Int /\ z \in Int
            BY <3>1
          <6>2. y = x \/ z >= y
            BY <3>4
          <6> QED BY <4>2, <6>1, <6>2
        <5> QED BY <3>1, <5>1
      <4> QED BY <4>1, <4>2
    <3> QED BY <3>2, <3>3, <3>4
  <2> QED BY <2>1, <2>2
<1>2. S \in P
  <2> HIDE DEF P
  <2> QED BY <1>1, SubsetInduction
<1>3. Max(S) \in S /\ \A y \in S : Max(S) >= y
  BY <1>2 DEF Max
<1> QED BY <1>3

\* The exercises X of the journal: closed ones one after the other, then the open one.
InLine(X) ==
  LET n == Len(X)
  IN  /\ n \in Nat \ {0} /\ DOMAIN X = 1..n
      /\ X[n].status = "open" /\ X[n].closing_date = NoDate
      /\ books_closed_until < X[n].start_date
      /\ OpenFrom(X[n].opening_entry)
      /\ \A k \in 1..n : /\ X[k].start_date \in Days /\ X[k].opening_entry \in DOMAIN journal
                         /\ journal[X[k].opening_entry].date = X[k].start_date
                         /\ X[k].opening_entry # NoEntry /\ X[k] # NoExercise
      /\ \A k \in 1..n - 1 : X[k].closing_date \in Days /\ X[k].status = "closed"
      /\ \A j, k \in 1..n : j < k => /\ X[j].closing_date < X[k].start_date
                                     /\ X[j].start_date < X[k].start_date

LEMMA Built ==
  ASSUME IInv, Ready
  PROVE  /\ ~BuildLogicalExercises(journal).invalid
         /\ InLine(BuildLogicalExercises(journal).exercises)
<1> DEFINE closed == Scan.exercises
           N == Len(closed)
           x == Exercise(Scan.current, NoOpening, N + 1, "open")
           X == Append(closed, x)
<1>1. Scan.seen_opening /\ ~Scan.invalid /\ ClosedChain
  BY DEF IInv, Chain
<1>2. PICK s \in DOMAIN journal : OpenFrom(s)
  BY DEF IInv, Chain
<1>3. /\ journal[s] \in EntryType /\ journal[s].number = s /\ journal[s].date \in Days
      /\ s # NoEntry
  <2>1. journal[s] \in EntryType /\ journal[s].number = s
    BY DEF IInv, TypeOK, NumbersGapless
  <2> QED BY <2>1 DEF EntryType, NoEntry
<1>4. HasCurrent(Scan)
  BY <1>2, <1>3 DEF OpenFrom, HasCurrent, NoOpening
<1>5. closed \in Seq(ExerciseType) /\ N \in Nat /\ DOMAIN closed = 1..N
  BY <1>1 DEF ClosedChain
<1>6. /\ x.start_date = journal[s].date /\ x.opening_entry = s /\ x.closing_date = NoDate
      /\ x.status = "open"
  BY <1>2, <1>3 DEF Exercise, OpenFrom, NoOpening
<1>7. BuildLogicalExercises(journal).exercises = X
  BY <1>4 DEF BuildLogicalExercises, Scan
<1>8. ~BuildLogicalExercises(journal).invalid
  <2>1. X # << >>
    <3> HIDE DEF x, closed
    <3> QED BY <1>5
  <2> HIDE DEF X
  <2> DEFINE R == BuildLogicalExercises(journal)
  <2>2. R = [exercises |-> X, invalid |-> Scan.invalid \/ (journal # << >> /\ X = << >>)]
    BY <1>4 DEF BuildLogicalExercises, Scan, X
  <2> HIDE DEF R
  <2>3. ~R.invalid
    BY <1>1, <2>1, <2>2
  <2> QED BY <2>3 DEF R
<1> HIDE DEF x
<1>9. /\ Len(X) = N + 1 /\ DOMAIN X = 1..N + 1 /\ X[N + 1] = x
      /\ \A k \in 1..N : X[k] = closed[k]
  <2> HIDE DEF closed
  <2> QED BY <1>5 DEF N
<1> HIDE DEF X, N, closed
<1>10. books_closed_until < journal[s].date /\ books_closed_until \in Int
  BY <1>2 DEF OpenFrom, IInv, TypeOK, Days, NoDate
<1>11. \A k \in 1..N :
         /\ closed[k].start_date \in Days /\ closed[k].closing_date \in Days
         /\ closed[k].status = "closed" /\ closed[k].opening_entry \in DOMAIN journal
         /\ journal[closed[k].opening_entry].date = closed[k].start_date
         /\ closed[k].start_date <= closed[k].closing_date
         /\ closed[k].closing_date <= books_closed_until
         /\ closed[k].opening_entry # NoEntry
  <2> TAKE k \in 1..N
  <2>1. closed[k] \in ExerciseType
    BY <1>5
  <2>2. /\ closed[k].start_date \in Days /\ closed[k].closing_date \in Days
        /\ closed[k].status = "closed" /\ closed[k].opening_entry # NoEntry
    BY <2>1 DEF ExerciseType, NoEntry
  <2> QED BY <1>1, <1>5, <2>2 DEF ClosedChain, closed
<1>12. ASSUME NEW k \in 1..N + 1
       PROVE  /\ X[k].start_date \in Days /\ X[k].opening_entry \in DOMAIN journal
              /\ journal[X[k].opening_entry].date = X[k].start_date
              /\ X[k].opening_entry # NoEntry /\ X[k] # NoExercise
  <2>1. /\ X[k].start_date \in Days /\ X[k].opening_entry \in DOMAIN journal
        /\ journal[X[k].opening_entry].date = X[k].start_date
        /\ X[k].opening_entry # NoEntry
    <3>1. CASE k \in 1..N
      BY <1>9, <1>11, <3>1
    <3>2. CASE k = N + 1
      BY <1>3, <1>6, <1>9, <3>2
    <3> QED BY <1>5, <3>1, <3>2
  <2>2. NoExercise.opening_entry = NoEntry
    BY DEF NoExercise, Exercise, NoOpening
  <2> QED BY <2>1, <2>2
<1>13. ASSUME NEW j \in 1..N + 1, NEW k \in 1..N + 1, j < k
       PROVE  X[j].closing_date < X[k].start_date /\ X[j].start_date < X[k].start_date
  <2>1. j \in 1..N
    BY <1>5, <1>13
  <2>2. /\ X[j].start_date \in Int /\ X[j].closing_date \in Int /\ X[k].start_date \in Int
        /\ X[j].start_date <= X[j].closing_date
    BY <1>9, <1>11, <1>12, <2>1 DEF Days
  <2>3. X[j].closing_date < X[k].start_date
    <3>1. CASE k \in 1..N
      BY <1>1, <1>5, <1>9, <1>13, <2>1, <3>1 DEF ClosedChain, closed
    <3>2. CASE k = N + 1
      BY <1>6, <1>9, <1>10, <1>11, <2>1, <2>2, <3>2
    <3> QED BY <1>5, <3>1, <3>2
  <2> QED BY <2>2, <2>3
<1>14. \A k \in 1..N : X[k].closing_date \in Days /\ X[k].status = "closed"
  BY <1>9, <1>11
<1>15. /\ N + 1 \in Nat \ {0} /\ (N + 1) - 1 = N
  BY <1>5
<1>16. InLine(X)
  BY <1>2, <1>6, <1>9, <1>10, <1>12, <1>13, <1>14, <1>15 DEF InLine
<1> QED BY <1>7, <1>8, <1>16

\* The current exercise is the open one, the last.
LEMMA CurrentOpen ==
  ASSUME NEW X, InLine(X) PROVE CurrentLogicalExercise(X) = X[Len(X)]
<1> DEFINE n == Len(X)
           open == {i \in DOMAIN X : X[i].status = "open"}
<1>1. n \in Nat \ {0} /\ DOMAIN X = 1..n
  BY DEF InLine
<1>2. open = {n}
  <2>1. \A i \in 1..n - 1 : X[i].status = "closed"
    BY DEF InLine
  <2>2. X[n].status = "open"
    BY DEF InLine
  <2>3. n \in 1..n /\ \A i \in 1..n : i = n \/ i \in 1..n - 1
    <3> HIDE DEF n
    <3> QED BY <1>1
  <2> HIDE DEF n
  <2> QED BY <1>1, <2>1, <2>2, <2>3
<1>3. Max(open) = n
  <2> HIDE DEF n, open
  <2>1. IsFiniteSet({n}) /\ {n} \in SUBSET Int /\ {n} # {}
    <3>1. n \in Int
      BY <1>1
    <3>2. IsFiniteSet({n})
      BY FS_Singleton
    <3> QED BY <3>1, <3>2
  <2> QED BY <1>2, <2>1, MaxElement
<1>4. X # << >>
  BY <1>1
<1> QED BY <1>2, <1>3, <1>4 DEF CurrentLogicalExercise

\* The first day asked for.
FirstDay(X, p) == IF p.date_from = NoDate THEN X[1].start_date ELSE p.date_from

\* What resolve_report_exercise_context answers to the parameters p.
LEMMA ContextFacts ==
  ASSUME NEW X, InLine(X), NEW p \in Params
  PROVE  LET c == Context(X, p)
             from == FirstDay(X, p)
             met == Intersected(X, from, DateTo(p))
         IN  /\ c.to = DateTo(p) /\ c.to \in Days /\ from \in Days
             /\ c.visible_from \in Days /\ c.computed_from \in Days
             /\ c.computed_from <= c.visible_from /\ from <= c.visible_from
             /\ \/ /\ met = {} /\ c.active_exercise = NoExercise /\ c.previous_exercises = {}
                   /\ c.visible_from = from /\ c.computed_from = from
                \/ \E k \in met :
                     /\ \A i \in met : i <= k
                     /\ c.active_exercise = X[k]
                     /\ c.previous_exercises = {X[i] : i \in met \ {k}}
                     /\ c.computed_from = X[k].start_date /\ X[k].start_date <= c.to
                     /\ c.visible_from = from \/ (c.visible_from = X[k].start_date /\ from <= X[k].start_date)
<1> DEFINE c == Context(X, p)
           n == Len(X)
           from == FirstDay(X, p)
           met == Intersected(X, from, DateTo(p))
           k == Max(met)
<1>1. /\ n \in Nat \ {0} /\ DOMAIN X = 1..n
      /\ \A i \in 1..n : X[i].start_date \in Days
  BY DEF InLine
<1>2. DateTo(p) \in Days
  BY DaysAssumption DEF Params, DateTo, Days
<1> HIDE DEF n
<1>3. from \in Days
  <2>1. 1 \in 1..n
    BY <1>1
  <2>2. X[1].start_date \in Days
    BY <1>1, <2>1
  <2>3. p.date_from \in {NoDate} \cup Days
    BY DEF Params
  <2> QED BY <2>2, <2>3 DEF FirstDay
<1>4. Context(X, p) =
        IF met = {}
        THEN [active_exercise |-> NoExercise, previous_exercises |-> {},
              visible_from |-> from, computed_from |-> from, to |-> DateTo(p)]
        ELSE [active_exercise    |-> X[k],
              previous_exercises |-> {X[i] : i \in met \ {k}},
              visible_from  |-> IF from > X[k].start_date THEN from ELSE X[k].start_date,
              computed_from |-> X[k].start_date,
              to            |-> DateTo(p)]
  BY DEF Context, FirstDay
<1> HIDE DEF from, c
<1>5. met \subseteq 1..n /\ IsFiniteSet(met) /\ \A i \in met : X[i].start_date <= DateTo(p)
  <2>1. met \subseteq 1..n /\ \A i \in met : X[i].start_date <= DateTo(p)
    BY <1>1 DEF Intersected
  <2>2. IsFiniteSet(1..n)
    BY <1>1, FS_Interval
  <2> HIDE DEF met
  <2> QED BY <2>1, <2>2, FS_Subset
<1>6. ASSUME met # {} PROVE k \in met /\ \A i \in met : i <= k
  <2>1. met \in SUBSET Int
    BY <1>1, <1>5
  <2> HIDE DEF met
  <2> QED BY <1>5, <1>6, <2>1, MaxElement
<1> HIDE DEF met, k
<1>7. CASE met = {}
  <2>1. c = [active_exercise |-> NoExercise, previous_exercises |-> {},
             visible_from |-> from, computed_from |-> from, to |-> DateTo(p)]
    BY <1>4, <1>7 DEF c
  <2>2. from <= from
    BY <1>3 DEF Days
  <2>3. /\ c.to = DateTo(p) /\ c.active_exercise = NoExercise /\ c.previous_exercises = {}
        /\ c.visible_from = from /\ c.computed_from = from
    BY <2>1
  <2> HIDE DEF c
  <2> QED BY <1>2, <1>3, <1>7, <2>2, <2>3 DEF c, from, met
<1>8. CASE met # {}
  <2>1. c = [active_exercise    |-> X[k],
             previous_exercises |-> {X[i] : i \in met \ {k}},
             visible_from  |-> IF from > X[k].start_date THEN from ELSE X[k].start_date,
             computed_from |-> X[k].start_date,
             to            |-> DateTo(p)]
    BY <1>4, <1>8 DEF c
  <2>2. /\ c.to = DateTo(p) /\ c.active_exercise = X[k]
        /\ c.previous_exercises = {X[i] : i \in met \ {k}}
        /\ c.visible_from = (IF from > X[k].start_date THEN from ELSE X[k].start_date)
        /\ c.computed_from = X[k].start_date
    BY <2>1
  <2>3. X[k].start_date \in Days /\ X[k].start_date <= DateTo(p)
    BY <1>1, <1>5, <1>6, <1>8
  <2>4. /\ c.visible_from = from \/ (c.visible_from = X[k].start_date /\ from <= X[k].start_date)
        /\ c.visible_from \in Days /\ c.computed_from <= c.visible_from /\ from <= c.visible_from
    BY <1>3, <2>2, <2>3 DEF Days
  <2> HIDE DEF c
  <2> QED BY <1>2, <1>3, <1>6, <1>8, <2>2, <2>3, <2>4 DEF c, from, met
<1> QED BY <1>7, <1>8

\* The contexts there are, and what the reports build on.
LEMMA ContextsBuilt ==
  ASSUME IInv, Ready
  PROVE  /\ InLine(BuildLogicalExercises(journal).exercises)
         /\ ContextOf = [p \in Params |-> Context(BuildLogicalExercises(journal).exercises, p)]
         /\ \A c \in Contexts : \E p \in Params : c = Context(BuildLogicalExercises(journal).exercises, p)
         /\ \A d1, d2 : Rowset(Dated(d1, d2)) /\ IsFiniteSet(Dated(d1, d2)) /\ Dated(d1, d2) \subseteq EntryType
         /\ \A d1, d2 : \A e \in Dated(d1, d2) :
              SumFunction(e.debit) = SumFunction(e.credit) /\ e.date \in Days
<1>1. InLine(BuildLogicalExercises(journal).exercises)
  BY Built
<1>2. ContextOf = [p \in Params |-> Context(BuildLogicalExercises(journal).exercises, p)]
  BY DEF ContextOf
<1>3. \A c \in Contexts : \E p \in Params : c = Context(BuildLogicalExercises(journal).exercises, p)
  BY <1>2 DEF Contexts, Range
<1>4. \A S \in SUBSET Entries : Rowset(S)
  BY JournalRows DEF IInv, TypeOK, NumbersGapless, Entries
<1>5. Entries \subseteq EntryType
  BY JournalRows DEF IInv, TypeOK, NumbersGapless, Entries
<1>6. ASSUME NEW d1, NEW d2
      PROVE  /\ Rowset(Dated(d1, d2)) /\ IsFiniteSet(Dated(d1, d2)) /\ Dated(d1, d2) \subseteq EntryType
             /\ \A e \in Dated(d1, d2) : SumFunction(e.debit) = SumFunction(e.credit) /\ e.date \in Days
  <2>1. Dated(d1, d2) \subseteq Entries
    BY DEF Dated
  <2>2. Rowset(Dated(d1, d2)) /\ IsFiniteSet(Dated(d1, d2))
    BY <1>4, <2>1 DEF Rowset
  <2>3. \A e \in Entries : SumFunction(e.debit) = SumFunction(e.credit) /\ e.date \in Days
    BY <1>5 DEF IInv, EntriesBalance, EntryType
  <2> QED BY <1>5, <2>1, <2>2, <2>3
<1> QED BY <1>1, <1>2, <1>3, <1>6

\* The image of a finite set is finite.
LEMMA FiniteImage ==
  ASSUME NEW S, IsFiniteSet(S), NEW f
  PROVE  IsFiniteSet({f[x] : x \in S})
<1> DEFINE T == {f[x] : x \in S}
           g == [x \in S |-> f[x]]
<1>1. g \in Surjection(S, T)
  BY DEF Surjection
<1> HIDE DEF T, g
<1>2. IsFiniteSet(T)
  BY <1>1, FS_Surjection
<1> QED BY <1>2 DEF T

\* The entries of the journal are finitely many rows with dates.
LEMMA EntryRows ==
  ASSUME IInv
  PROVE  /\ Entries \subseteq EntryType /\ Rowset(Entries) /\ IsFiniteSet(Entries)
         /\ \A e \in Entries : e.date \in Days /\ e.date \in Int /\ 0 < e.date
<1>1. Entries \subseteq EntryType /\ Rowset(Entries)
  BY JournalRows DEF IInv, TypeOK, NumbersGapless, Entries
<1>2. \A e \in Entries : e.date \in Days
  BY <1>1 DEF EntryType
<1> QED BY <1>1, <1>2 DEF Rowset, Days

\* The entries of a range of days are those before a day and those from it on.
LEMMA DatedSplit ==
  ASSUME IInv, Ready, NEW d1 \in Int, NEW d2 \in Int, NEW d3 \in Int, d1 <= d2, d2 <= d3 + 1,
         NEW a \in Accounts
  PROVE  /\ Debit(Dated(d1, d3), a) = Debit(Dated(d1, d2 - 1), a) + Debit(Dated(d2, d3), a)
         /\ Credit(Dated(d1, d3), a) = Credit(Dated(d1, d2 - 1), a) + Credit(Dated(d2, d3), a)
         /\ Net(Dated(d1, d3), a) = Net(Dated(d1, d2 - 1), a) + Net(Dated(d2, d3), a)
<1> DEFINE S == Dated(d1, d3)
           T == Dated(d1, d2 - 1)
<1>1. \A e \in Entries : e.date \in Int
  BY EntryRows
<1>2. T \subseteq S /\ S \ T = Dated(d2, d3)
  BY <1>1 DEF Dated
<1>3. IsFiniteSet(S) /\ S \subseteq EntryType
  BY ContextsBuilt
<1> HIDE DEF S, T
<1>4. /\ Debit(S, a) = Debit(T, a) + Debit(S \ T, a)
      /\ Credit(S, a) = Credit(T, a) + Credit(S \ T, a)
      /\ Net(S, a) = Net(T, a) + Net(S \ T, a)
  BY <1>2, <1>3, NetUnion
<1> QED BY <1>2, <1>4 DEF S, T

\* A trial balance starts with everything the closings before it have left: the balances of
\* the whole journal differ from it by the strays alone.
THEOREM ReportsCarryOver == Spec => []ExerciseCarriesOver
<1>1. ASSUME IInv PROVE ExerciseCarriesOver
  <2> SUFFICES ASSUME Ready, NEW c \in Contexts, c.active_exercise # NoExercise, NEW a \in Accounts
               PROVE  LET ended == {NoDate} \cup {e.date : e \in {f \in Entries :
                                      f.source_type = "PATRIMONIAL_CLOSING" /\ f.date < c.computed_from}}
                      IN  Net(Dated(NoDate, c.to), a)
                            = Net(Dated(Max(ended) + 1, c.computed_from - 1), a) + Net(TrialEntries(c), a)
    BY DEF ExerciseCarriesOver
  <2> DEFINE X == BuildLogicalExercises(journal).exercises
             closings == {f \in Entries : f.source_type = "PATRIMONIAL_CLOSING" /\ f.date < c.computed_from}
             dates == {e.date : e \in closings}
             ended == {NoDate} \cup dates
             m == Max(ended)
             cf == c.computed_from
  <2>1. InLine(X)
    BY <1>1, ContextsBuilt
  <2>2. PICK p \in Params : c = Context(X, p)
    BY <1>1, ContextsBuilt
  <2>3. cf \in Days /\ c.to \in Days /\ cf <= c.to
    <3> HIDE DEF X
    <3> QED BY <2>1, <2>2, ContextFacts
  <2>4. cf \in Int /\ c.to \in Int /\ 0 < cf
    BY <2>3 DEF Days
  <2>5. Entries \subseteq EntryType /\ IsFiniteSet(Entries)
    BY <1>1, EntryRows
  <2>6. /\ closings \subseteq Entries /\ \A d \in dates : d \in Int /\ d < cf
        /\ \A d \in dates : 0 <= d
    BY <2>5 DEF EntryType, Days
  <2>7. IsFiniteSet(ended)
    <3>1. IsFiniteSet(closings)
      BY <2>5, <2>6, FS_Subset
    <3> DEFINE day == [e \in closings |-> e.date]
    <3>2. dates = {day[e] : e \in closings}
      OBVIOUS
    <3> HIDE DEF closings, day, dates
    <3>3. IsFiniteSet(dates)
      BY <3>1, <3>2, FiniteImage
    <3> HIDE DEF dates
    <3>4. dates \cup {NoDate} = ended
      BY DEF ended
    <3> HIDE DEF ended
    <3> QED BY <3>3, <3>4, FS_AddElement
  <2>8. m \in ended
    <3>1. ended \in SUBSET Int /\ ended # {}
      BY <2>6 DEF NoDate
    <3> HIDE DEF ended
    <3> QED BY <2>7, <3>1, MaxElement
  <2>9. m \in Int /\ m < cf /\ 0 <= m
    BY <2>4, <2>6, <2>8 DEF NoDate
  <2>10. Net(Dated(NoDate, m), a) = 0
    <3>1. CASE m = NoDate
      <4>1. Dated(NoDate, m) = {}
        <5>1. \A e \in Entries : e.date \in Int /\ 0 < e.date
          BY <1>1, EntryRows
        <5> HIDE DEF m
        <5> QED BY <3>1, <5>1 DEF Dated, NoDate
      <4> QED BY <4>1, NetEmpty
    <3>2. CASE m \in dates
      <4>1. PICK e \in closings : m = e.date
        BY <3>2
      <4> QED BY <1>1, <2>6, <4>1 DEF IInv, ClosedIsZero
    <3> QED BY <2>8, <3>1, <3>2
  <2> HIDE DEF m, X, cf
  <2>11. Net(Dated(NoDate, c.to), a) = Net(Dated(NoDate, (m + 1) - 1), a) + Net(Dated(m + 1, c.to), a)
    <3>1. NoDate \in Int /\ m + 1 \in Int /\ NoDate <= m + 1 /\ m + 1 <= c.to + 1
      BY <2>3, <2>4, <2>9 DEF NoDate
    <3> QED BY <1>1, <2>4, <3>1, DatedSplit
  <2>12. Net(Dated(m + 1, c.to), a) = Net(Dated(m + 1, cf - 1), a) + Net(Dated(cf, c.to), a)
    <3>1. m + 1 \in Int /\ m + 1 <= cf /\ cf <= c.to + 1
      BY <2>3, <2>4, <2>9
    <3> QED BY <1>1, <2>4, <3>1, DatedSplit
  <2>13. (m + 1) - 1 = m
    BY <2>9
  <2>14. Net(Dated(m + 1, c.to), a) \in Int
    BY <1>1, ContextsBuilt, NetType
  <2>15. Net(Dated(NoDate, c.to), a) = Net(Dated(m + 1, cf - 1), a) + Net(Dated(cf, c.to), a)
    BY <2>10, <2>11, <2>12, <2>13, <2>14
  <2> QED BY <2>15 DEF TrialEntries, cf, m
<1> QED BY <1>1, ReportsInvariant, PTL

\* The rows of a trial balance: an account without a row has no debit and no credit.
LEMMA RowsKept ==
  ASSUME NEW E, IsFiniteSet(E), E \subseteq EntryType
  PROVE  /\ DOMAIN Rows(E) \subseteq Accounts /\ IsFiniteSet(DOMAIN Rows(E))
         /\ \A a \in DOMAIN Rows(E) : Rows(E)[a] = <<Debit(E, a), Credit(E, a)>>
         /\ \A a \in Accounts \ DOMAIN Rows(E) : Debit(E, a) = 0 /\ Credit(E, a) = 0
<1> DEFINE D == {b \in Accounts : \E e \in E : e.debit[b] + e.credit[b] > 0}
<1>1. DOMAIN Rows(E) = D /\ \A a \in D : Rows(E)[a] = <<Debit(E, a), Credit(E, a)>>
  BY DEF Rows
<1>2. D \subseteq Accounts /\ IsFiniteSet(D)
  <2>1. D \subseteq Accounts
    OBVIOUS
  <2> HIDE DEF D
  <2> QED BY <2>1, AccountsAssumption, FS_Subset
<1>3. ASSUME NEW a \in Accounts \ D PROVE Debit(E, a) = 0 /\ Credit(E, a) = 0
  <2> DEFINE d == [e \in E |-> e.debit[a]]
             c == [e \in E |-> e.credit[a]]
  <2>1. \A e \in E : ~(e.debit[a] + e.credit[a] > 0)
    BY <1>3
  <2>2. \A e \in E : e.debit[a] \in Nat /\ e.credit[a] \in Nat
    BY DEF EntryType
  <2>3. \A x, y \in Nat : ~(x + y > 0) => x = 0 /\ y = 0
    OBVIOUS
  <2>4. \A e \in E : d[e] = 0 /\ c[e] = 0
    BY <2>1, <2>2, <2>3
  <2> HIDE DEF d, c, D
  <2>5. SumFunctionOnSet(d, E) = 0 /\ SumFunctionOnSet(c, E) = 0
    BY <2>4, SumZero
  <2> QED BY <2>5 DEF Debit, Credit, d, c
<1> HIDE DEF D
<1> QED BY <1>1, <1>2, <1>3

\* A trial balance of balanced entries balances, account by account and group by group.
LEMMA TotalsBalance ==
  ASSUME NEW E, IsFiniteSet(E), E \subseteq EntryType,
         \A e \in E : SumFunction(e.debit) = SumFunction(e.credit)
  PROVE  LET totals == Totals(Rows(E))
         IN  totals.debit = totals.credit /\ totals.debit_balance = totals.credit_balance
<1> DEFINE rows == Rows(E)
           D == DOMAIN rows
           d == [a \in D |-> rows[a][1]]
           c == [a \in D |-> rows[a][2]]
           nd == [a \in D |-> rows[a][1] - rows[a][2]]
           groups == {Group[a] : a \in D}
           net == [g \in groups |-> GroupNet(rows, g)]
           pos == [g \in groups |-> Positive(net[g])]
           neg == [g \in groups |-> Positive(-net[g])]
<1>1. /\ D \subseteq Accounts /\ IsFiniteSet(D)
      /\ \A a \in D : rows[a] = <<Debit(E, a), Credit(E, a)>>
      /\ \A a \in Accounts \ D : Debit(E, a) = 0 /\ Credit(E, a) = 0
  BY RowsKept
<1>2. \A a \in Accounts : Debit(E, a) \in Int /\ Credit(E, a) \in Int
  BY NetType
<1>3. Totals(rows) = [debit          |-> SumFunction(d),
                      credit         |-> SumFunction(c),
                      debit_balance  |-> SumFunction(pos),
                      credit_balance |-> SumFunction(neg)]
  BY DEF Totals
<1> HIDE DEF rows
<1>4. /\ DOMAIN d = D /\ DOMAIN c = D /\ DOMAIN pos = groups /\ DOMAIN neg = groups
      /\ \A a \in D : /\ d[a] = Debit(E, a) /\ c[a] = Credit(E, a) /\ nd[a] = Debit(E, a) - Credit(E, a)
                      /\ d[a] \in Int /\ c[a] \in Int /\ nd[a] \in Int /\ d[a] = nd[a] + c[a]
  BY <1>1, <1>2
<1>5. SumFunctionOnSet(d, D) = SumFunctionOnSet(c, D)
  <2> DEFINE dd == [a \in Accounts |-> Debit(E, a)]
             cc == [a \in Accounts |-> Credit(E, a)]
  <2>1. DOMAIN dd = Accounts /\ DOMAIN cc = Accounts
    OBVIOUS
  <2>2. SumFunction(dd) = SumFunction(cc)
    BY BalancedTogether
  <2>3. IsFiniteSet(Accounts)
    BY AccountsAssumption
  <2>4. /\ \A a \in Accounts : dd[a] \in Int /\ cc[a] \in Int
        /\ \A a \in Accounts \ D : dd[a] = 0 /\ cc[a] = 0
        /\ \A a \in D : d[a] = dd[a] /\ c[a] = cc[a]
    BY <1>1, <1>2, <1>4
  <2> HIDE DEF dd, cc, d, c, D
  <2>5. SumFunctionOnSet(dd, Accounts) = SumFunctionOnSet(dd, D)
    BY <1>1, <2>3, <2>4, SumSupport
  <2>6. SumFunctionOnSet(cc, Accounts) = SumFunctionOnSet(cc, D)
    BY <1>1, <2>3, <2>4, SumSupport
  <2>7. SumFunctionOnSet(d, D) = SumFunctionOnSet(dd, D)
    BY <1>1, <1>4, <2>4, SumSame
  <2>8. SumFunctionOnSet(c, D) = SumFunctionOnSet(cc, D)
    BY <1>1, <1>4, <2>4, SumSame
  <2> QED BY <2>1, <2>2, <2>5, <2>6, <2>7, <2>8 DEF SumFunction
<1>6. SumFunctionOnSet(nd, D) = 0
  <2> HIDE DEF d, c, nd, D
  <2>1. SumFunctionOnSet(d, D) = SumFunctionOnSet(nd, D) + SumFunctionOnSet(c, D)
    BY <1>1, <1>4, SumAdd
  <2>2. SumFunctionOnSet(nd, D) \in Int /\ SumFunctionOnSet(c, D) \in Int
    BY <1>1, <1>4, SumStep
  <2> QED BY <1>5, <2>1, <2>2
<1>7. IsFiniteSet(groups)
  BY <1>1, FiniteImage
<1>8. SumFunctionOnSet(net, groups) = 0
  <2>1. net = [g \in groups |-> SumFunctionOnSet(nd, {a \in D : Group[a] = g})]
    BY DEF GroupNet
  <2>2. \A a \in D : Group[a] \in groups
    OBVIOUS
  <2>3. \A a \in D : nd[a] \in Int
    BY <1>4
  <2> HIDE DEF net, nd, D, groups
  <2>4. SumFunctionOnSet([g \in groups |-> SumFunctionOnSet(nd, {a \in D : Group[a] = g})], groups)
          = SumFunctionOnSet(nd, D)
    BY <1>1, <1>7, <2>2, <2>3, SumFibres
  <2> QED BY <1>6, <2>1, <2>4
<1>9. \A g \in groups : net[g] \in Int
  <2> TAKE g \in groups
  <2> DEFINE F == {a \in D : Group[a] = g}
  <2>1. IsFiniteSet(F) /\ \A a \in F : nd[a] \in Int
    <3>1. F \subseteq D
      OBVIOUS
    <3>2. \A a \in F : nd[a] \in Int
      BY <1>4, <3>1
    <3> HIDE DEF F, D
    <3> QED BY <1>1, <3>1, <3>2, FS_Subset
  <2>2. net[g] = SumFunctionOnSet(nd, F)
    BY DEF GroupNet
  <2> HIDE DEF F, nd, net
  <2> QED BY <2>1, <2>2, SumStep
<1>10. SumFunctionOnSet(pos, groups) = SumFunctionOnSet(neg, groups)
  <2>1. \A x \in Int : Positive(x) \in Int /\ Positive(-x) \in Int /\ Positive(x) = x + Positive(-x)
    BY DEF Positive
  <2>2. \A g \in groups : net[g] \in Int /\ neg[g] \in Int /\ pos[g] = net[g] + neg[g]
    <3>1. \A g \in groups : pos[g] = Positive(net[g]) /\ neg[g] = Positive(-net[g])
      OBVIOUS
    <3> HIDE DEF pos, neg, net, groups
    <3> QED BY <1>9, <2>1, <3>1
  <2> HIDE DEF pos, neg, net, groups
  <2>3. SumFunctionOnSet(pos, groups) = SumFunctionOnSet(net, groups) + SumFunctionOnSet(neg, groups)
    BY <1>7, <2>2, SumAdd
  <2>4. SumFunctionOnSet(neg, groups) \in Int
    BY <1>7, <2>2, SumStep
  <2> QED BY <1>8, <2>3, <2>4
<1>11. SumFunction(d) = SumFunction(c) /\ SumFunction(pos) = SumFunction(neg)
  <2> HIDE DEF d, c, pos, neg, groups, D
  <2> QED BY <1>4, <1>5, <1>10 DEF SumFunction
<1> HIDE DEF d, c, pos, neg
<1> QED BY <1>3, <1>11 DEF rows

\* The entries that move an account make its debit and its credit.
LEMMA MovedKept ==
  ASSUME NEW E, IsFiniteSet(E), E \subseteq EntryType, NEW a \in Accounts
  PROVE  LET M == {e \in E : e.debit[a] + e.credit[a] > 0}
         IN  Debit(M, a) = Debit(E, a) /\ Credit(M, a) = Credit(E, a)
<1> DEFINE M == {e \in E : e.debit[a] + e.credit[a] > 0}
           Z == E \ M
           d == [e \in Z |-> e.debit[a]]
           c == [e \in Z |-> e.credit[a]]
<1>1. \A e \in E : e.debit[a] \in Nat /\ e.credit[a] \in Nat
  BY DEF EntryType
<1>2. \A x, y \in Nat : ~(x + y > 0) => x = 0 /\ y = 0
  OBVIOUS
<1>3. \A e \in Z : d[e] = 0 /\ c[e] = 0
  <2>1. \A e \in Z : ~(e.debit[a] + e.credit[a] > 0)
    OBVIOUS
  <2> QED BY <1>1, <1>2, <2>1
<1>4. M \subseteq E /\ Z \subseteq E
  OBVIOUS
<1> HIDE DEF M
<1>5. IsFiniteSet(Z) /\ IsFiniteSet(M)
  BY <1>4, FS_Subset
<1> HIDE DEF Z, d, c
<1>6. SumFunctionOnSet(d, Z) = 0 /\ SumFunctionOnSet(c, Z) = 0
  BY <1>3, <1>5, SumZero
<1>7. Debit(Z, a) = 0 /\ Credit(Z, a) = 0
  BY <1>6 DEF Debit, Credit, d, c
<1>8. Debit(E, a) = Debit(M, a) + Debit(Z, a) /\ Credit(E, a) = Credit(M, a) + Credit(Z, a)
  BY <1>4, NetUnion DEF Z
<1>9. Debit(M, a) \in Int /\ Credit(M, a) \in Int
  <2>1. M \subseteq EntryType
    BY <1>4
  <2> QED BY <1>5, <2>1, NetType
<1>10. Debit(M, a) = Debit(E, a) /\ Credit(M, a) = Credit(E, a)
  BY <1>7, <1>8, <1>9
<1> QED BY <1>10 DEF M

\* What h has to be to hold the running balances over the movements s.
Running(h, opening, s, a) ==
  [i \in 0..Len(s) |->
     IF i = 0 THEN opening ELSE h[i - 1] + BalanceDelta(a, s[i].debit[a], s[i].credit[a])]

\* The running balances over the rows of M end with what M adds to the opening balance.
LEMMA RunningEnds ==
  ASSUME NEW M, Rowset(M), M \subseteq EntryType, NEW a \in Accounts, NEW opening \in Int
  PROVE  LET s == Ordered(M)
         IN  /\ \E h : h = Running(h, opening, s, a)
             /\ \A h : h = Running(h, opening, s, a) =>
                  h[Len(s)] = opening + BalanceDelta(a, Debit(M, a), Credit(M, a))
<1> DEFINE s == Ordered(M)
           n == Len(s)
           P(i) == {s[j] : j \in 1..i}
           g == [i \in 0..n |-> opening + BalanceDelta(a, Debit(P(i), a), Credit(P(i), a))]
<1>1. /\ n \in Nat /\ \A i \in 1..n : s[i] \in M
      /\ \A i, j \in 1..n : s[i] = s[j] => i = j
      /\ \A e \in M : \E i \in 1..n : s[i] = e
  BY OrderedLists
<1> HIDE DEF s, n
<1>2. \A i \in 0..n : IsFiniteSet(P(i)) /\ P(i) \subseteq EntryType
  <2> TAKE i \in 0..n
  <2>1. P(i) \subseteq M
    BY <1>1
  <2> HIDE DEF P
  <2> QED BY <2>1, FS_Subset DEF Rowset
<1>3. g[0] = opening
  <2>1. P(0) = {} /\ 0 \in 0..n
    BY <1>1
  <2>2. g[0] = opening + BalanceDelta(a, Debit(P(0), a), Credit(P(0), a))
    BY <2>1
  <2>3. g[0] = opening + BalanceDelta(a, 0, 0)
    BY <2>1, <2>2, NetEmpty
  <2>4. BalanceDelta(a, 0, 0) = 0
    BY DEF BalanceDelta
  <2> HIDE DEF g
  <2> QED BY <2>3, <2>4
<1>4. ASSUME NEW i \in 1..n
      PROVE  g[i] = g[i - 1] + BalanceDelta(a, s[i].debit[a], s[i].credit[a])
  <2> DEFINE x == s[i]
             Q == P(i - 1)
             R == P(i)
  <2>1. i - 1 \in 0..n /\ i \in 0..n
    BY <1>1
  <2>2. R = Q \cup {x}
    <3>1. \A j \in 1..i : j = i \/ j \in 1..i - 1
      OBVIOUS
    <3>2. i \in 1..i /\ \A j \in 1..i - 1 : j \in 1..i
      BY <1>1
    <3> QED BY <3>1, <3>2
  <2>3. x \notin Q
    <3>1. \A j \in 1..i - 1 : j \in 1..n /\ j # i
      BY <1>1
    <3> QED BY <1>1, <3>1
  <2>4. /\ g[i] = opening + BalanceDelta(a, Debit(R, a), Credit(R, a))
        /\ g[i - 1] = opening + BalanceDelta(a, Debit(Q, a), Credit(Q, a))
    <3> HIDE DEF P
    <3> QED BY <2>1
  <2>5. IsFiniteSet(Q) /\ Q \subseteq EntryType
    <3> HIDE DEF P
    <3> QED BY <1>2, <2>1
  <2>6. x \in EntryType
    BY <1>1
  <2> HIDE DEF x, Q, R, g, P
  <2>7. /\ Debit(R, a) = Debit(Q, a) + x.debit[a]
        /\ Credit(R, a) = Credit(Q, a) + x.credit[a]
    BY <2>2, <2>3, <2>5, <2>6, NetStep
  <2>8. /\ Debit(Q, a) \in Int /\ Credit(Q, a) \in Int
        /\ x.debit[a] \in Int /\ x.credit[a] \in Int
    BY <2>5, <2>6, NetType DEF EntryType
  <2>9. /\ BalanceDelta(a, Debit(R, a), Credit(R, a))
             = BalanceDelta(a, Debit(Q, a), Credit(Q, a)) + BalanceDelta(a, x.debit[a], x.credit[a])
        /\ BalanceDelta(a, Debit(Q, a), Credit(Q, a)) \in Int
        /\ BalanceDelta(a, x.debit[a], x.credit[a]) \in Int
    BY <2>7, <2>8 DEF BalanceDelta
  <2>10. \A p, q, r \in Int : p + (q + r) = (p + q) + r
    OBVIOUS
  <2>11. g[i] = g[i - 1] + BalanceDelta(a, x.debit[a], x.credit[a])
    BY <2>4, <2>9, <2>10
  <2> QED BY <2>11 DEF x
<1>5. DOMAIN g = 0..n /\ g = [i \in 0..n |-> g[i]]
  OBVIOUS
<1> HIDE DEF g
<1>6. g = Running(g, opening, s, a)
  <2>1. \A i \in 0..n :
          g[i] = IF i = 0 THEN opening ELSE g[i - 1] + BalanceDelta(a, s[i].debit[a], s[i].credit[a])
    BY <1>1, <1>3, <1>4
  <2> QED BY <1>5, <2>1 DEF Running, n
<1>7. ASSUME NEW h, h = Running(h, opening, s, a) PROVE h[n] = g[n]
  <2>1. \A i \in 0..n :
          h[i] = IF i = 0 THEN opening ELSE h[i - 1] + BalanceDelta(a, s[i].debit[a], s[i].credit[a])
    BY <1>7 DEF Running, n
  <2> DEFINE S == {i \in 0..n : h[i] = g[i]}
  <2>2. 0 \in S
    BY <1>1, <1>3, <2>1
  <2>3. \A i \in 0..n - 1 : i \in S => i + 1 \in S
    <3> TAKE i \in 0..n - 1
    <3> HAVE i \in S
    <3>1. i + 1 \in 0..n /\ i + 1 # 0 /\ (i + 1) - 1 = i /\ i + 1 \in 1..n
      BY <1>1
    <3>2. h[i + 1] = h[i] + BalanceDelta(a, s[i + 1].debit[a], s[i + 1].credit[a])
      BY <2>1, <3>1
    <3>3. g[i + 1] = g[i] + BalanceDelta(a, s[i + 1].debit[a], s[i + 1].credit[a])
      BY <1>4, <3>1
    <3> QED BY <3>1, <3>2, <3>3
  <2>4. \A i \in 0..n : i \in S
    <3> HIDE DEF S
    <3> QED BY <1>1, <2>2, <2>3, UpTo
  <2> QED BY <1>1, <2>4
<1>8. g[n] = opening + BalanceDelta(a, Debit(M, a), Credit(M, a))
  <2>1. P(n) = M
    BY <1>1
  <2>2. g[n] = opening + BalanceDelta(a, Debit(P(n), a), Credit(P(n), a))
    BY <1>1 DEF g
  <2> HIDE DEF P
  <2> QED BY <2>1, <2>2
<1> QED BY <1>6, <1>7, <1>8 DEF s, n

\* The closing balance of a card: the opening balance and what the visible days add to it,
\* whether they are added up at once or entry by entry.
LEMMA CardCloses ==
  ASSUME IInv, Ready, NEW c, NEW a \in Accounts
  PROVE  /\ Card(c, a).closing_balance = OpeningBalance(c, a) + Balance(Dated(c.visible_from, c.to), a)
         /\ Card(c, a).balances # << >> => Last(Card(c, a).balances) = Card(c, a).closing_balance
<1> DEFINE E == Dated(c.visible_from, c.to)
           M == {e \in E : e.debit[a] + e.credit[a] > 0}
           s == Ordered(M)
           opening == OpeningBalance(c, a)
           n == Len(s)
<1>1. IsFiniteSet(E) /\ E \subseteq EntryType /\ Rowset(E)
  BY ContextsBuilt
<1>2. opening \in Int
  <2>1. \A d1, d2 : Debit(Dated(d1, d2), a) \in Int /\ Credit(Dated(d1, d2), a) \in Int
    BY ContextsBuilt, NetType
  <2> QED BY <2>1 DEF OpeningBalance, Balance, BalanceDelta
<1>3. \E h : /\ h = Running(h, opening, s, a)
             /\ Card(c, a) = [opening_balance |-> opening,
                              balances        |-> [i \in DOMAIN s |-> h[i]],
                              period_totals   |-> <<Debit(M, a), Credit(M, a)>>,
                              closing_balance |-> opening + BalanceDelta(a, Debit(M, a), Credit(M, a))]
  <2>1. Rowset(M) /\ M \subseteq EntryType
    <3>1. M \subseteq E
      OBVIOUS
    <3> HIDE DEF M, E
    <3> QED BY <1>1, <3>1, FS_Subset DEF Rowset
  <2>2. \E h : h = Running(h, opening, s, a)
    <3> HIDE DEF M, opening
    <3> QED BY <1>2, <2>1, RunningEnds
  <2> QED BY <2>2 DEF Card, Running
<1>4. PICK h : /\ h = Running(h, opening, s, a)
               /\ Card(c, a) = [opening_balance |-> opening,
                              balances        |-> [i \in DOMAIN s |-> h[i]],
                              period_totals   |-> <<Debit(M, a), Credit(M, a)>>,
                              closing_balance |-> opening + BalanceDelta(a, Debit(M, a), Credit(M, a))]
  BY <1>3
<1>5. M \subseteq E
  OBVIOUS
<1>6. Debit(M, a) = Debit(E, a) /\ Credit(M, a) = Credit(E, a)
  <2> HIDE DEF E
  <2> QED BY <1>1, MovedKept
<1> HIDE DEF M, E
<1>7. Rowset(M) /\ M \subseteq EntryType
  BY <1>1, <1>5, FS_Subset DEF Rowset
<1> HIDE DEF opening
<1>8. h[n] = opening + BalanceDelta(a, Debit(M, a), Credit(M, a))
  BY <1>2, <1>4, <1>7, RunningEnds
<1>9. n \in Nat /\ DOMAIN s = 1..n
  BY <1>7, OrderedLists
<1> HIDE DEF s, n
<1> DEFINE balances == [i \in 1..n |-> h[i]]
<1>10. /\ Card(c, a).balances = balances
       /\ Card(c, a).closing_balance = opening + BalanceDelta(a, Debit(M, a), Credit(M, a))
  BY <1>4, <1>9
<1>11. balances # << >> => Last(balances) = h[n]
  <2>1. Len(balances) = n
    BY <1>9
  <2>2. balances # << >> => n \in 1..n
    BY <1>9
  <2> QED BY <2>1, <2>2 DEF Last
<1> HIDE DEF balances
<1>12. Card(c, a).closing_balance = opening + BalanceDelta(a, Debit(E, a), Credit(E, a))
  BY <1>6, <1>10
<1> QED BY <1>8, <1>10, <1>11, <1>12 DEF Balance, E, opening

\* A trial balance, cut from the first day of the exercise on, balances twice; the ledger,
\* cut at the first visible day, goes on where it stopped and agrees with it, entry by entry.
THEOREM ReportsAgreeAlways == Spec => []ReportsAgree
<1>1. ASSUME IInv PROVE TrialBalances
  <2> SUFFICES ASSUME Ready, NEW c \in Contexts
               PROVE  LET totals == TrialBalance(c).totals
                      IN  totals.debit = totals.credit /\ totals.debit_balance = totals.credit_balance
    BY DEF TrialBalances
  <2> DEFINE E == TrialEntries(c)
  <2>1. /\ IsFiniteSet(E) /\ E \subseteq EntryType
        /\ \A e \in E : SumFunction(e.debit) = SumFunction(e.credit)
    BY <1>1, ContextsBuilt DEF TrialEntries
  <2>2. TrialBalance(c).totals = Totals(Rows(E))
    BY DEF TrialBalance
  <2> HIDE DEF E
  <2> QED BY <2>1, <2>2, TotalsBalance
<1>2. ASSUME IInv, Ready, NEW c \in Contexts
      PROVE  /\ c.computed_from \in Int /\ c.visible_from \in Int /\ c.to \in Int
             /\ c.computed_from <= c.visible_from
  <2> DEFINE X == BuildLogicalExercises(journal).exercises
  <2>1. InLine(X)
    BY <1>2, ContextsBuilt
  <2>2. PICK p \in Params : c = Context(X, p)
    BY <1>2, ContextsBuilt
  <2>3. /\ c.computed_from \in Days /\ c.visible_from \in Days /\ c.to \in Days
        /\ c.computed_from <= c.visible_from
    <3> HIDE DEF X
    <3> QED BY <2>1, <2>2, ContextFacts
  <2> QED BY <2>3 DEF Days
<1>3. ASSUME IInv, Ready, NEW c \in Contexts, c.visible_from <= c.to + 1, NEW a \in Accounts
      PROVE  Card(c, a).closing_balance = Balance(Dated(c.computed_from, c.to), a)
  <2> DEFINE E == Dated(c.computed_from, c.to)
             F == Dated(c.computed_from, c.visible_from - 1)
             G == Dated(c.visible_from, c.to)
  <2>1. Debit(E, a) = Debit(F, a) + Debit(G, a) /\ Credit(E, a) = Credit(F, a) + Credit(G, a)
    BY <1>2, <1>3, DatedSplit
  <2>2. /\ Debit(F, a) \in Int /\ Debit(G, a) \in Int
        /\ Credit(F, a) \in Int /\ Credit(G, a) \in Int
    BY <1>3, ContextsBuilt, NetType
  <2>3. Card(c, a).closing_balance = Balance(F, a) + Balance(G, a)
    BY <1>3, CardCloses DEF OpeningBalance
  <2> HIDE DEF E, F, G
  <2>4. Balance(E, a) = Balance(F, a) + Balance(G, a)
    BY <2>1, <2>2 DEF Balance, BalanceDelta
  <2> QED BY <2>3, <2>4 DEF E
<1>4. ASSUME IInv PROVE LedgerContinues
  <2> SUFFICES ASSUME Ready, NEW c \in Contexts, NEW d \in Contexts, InOrder(c),
                      c.active_exercise = d.active_exercise, c.active_exercise # NoExercise,
                      d.visible_from = c.to + 1, NEW a \in Accounts
               PROVE  Card(c, a).closing_balance = OpeningBalance(d, a)
    BY DEF LedgerContinues
  <2> DEFINE X == BuildLogicalExercises(journal).exercises
  <2>1. InLine(X)
    BY <1>4, ContextsBuilt
  <2>2. PICK p \in Params : c = Context(X, p)
    BY <1>4, ContextsBuilt
  <2>3. PICK q \in Params : d = Context(X, q)
    BY <1>4, ContextsBuilt
  <2>4. c.computed_from = c.active_exercise.start_date
    <3> HIDE DEF X
    <3> QED BY <2>1, <2>2, ContextFacts
  <2>5. d.computed_from = d.active_exercise.start_date
    <3> HIDE DEF X
    <3> QED BY <2>1, <2>3, ContextFacts
  <2>6. c.visible_from <= c.to + 1 /\ (c.to + 1) - 1 = c.to
    BY <1>2, <1>4 DEF InOrder
  <2>7. Card(c, a).closing_balance = Balance(Dated(c.computed_from, c.to), a)
    BY <1>3, <1>4, <2>6
  <2> QED BY <2>4, <2>5, <2>6, <2>7 DEF OpeningBalance
<1>5. ASSUME IInv PROVE LedgerAgreesWithTrial
  <2> SUFFICES ASSUME Ready, NEW c \in Contexts, InOrder(c), NEW a \in Accounts
               PROVE  LET rows == TrialBalance(c).rows
                          card == Card(c, a)
                          row  == IF a \in DOMAIN rows THEN rows[a] ELSE <<0, 0>>
                      IN  /\ card.closing_balance = BalanceDelta(a, row[1], row[2])
                          /\ card.balances # << >> => Last(card.balances) = card.closing_balance
    BY DEF LedgerAgreesWithTrial
  <2> DEFINE E == TrialEntries(c)
             rows == Rows(E)
             row == IF a \in DOMAIN rows THEN rows[a] ELSE <<0, 0>>
  <2>1. IsFiniteSet(E) /\ E \subseteq EntryType
    BY <1>5, ContextsBuilt DEF TrialEntries
  <2>2. TrialBalance(c).rows = rows
    BY DEF TrialBalance
  <2>3. row[1] = Debit(E, a) /\ row[2] = Credit(E, a)
    <3>1. /\ \A b \in DOMAIN Rows(E) : Rows(E)[b] = <<Debit(E, b), Credit(E, b)>>
          /\ \A b \in Accounts \ DOMAIN Rows(E) : Debit(E, b) = 0 /\ Credit(E, b) = 0
      <4> HIDE DEF E
      <4> QED BY <2>1, RowsKept
    <3> HIDE DEF E
    <3> QED BY <3>1
  <2>4. c.visible_from <= c.to + 1
    BY <1>2, <1>5 DEF InOrder
  <2>5. Card(c, a).closing_balance = Balance(E, a)
    BY <1>3, <1>5, <2>4 DEF TrialEntries
  <2>6. Card(c, a).balances # << >> => Last(Card(c, a).balances) = Card(c, a).closing_balance
    BY <1>5, CardCloses
  <2> HIDE DEF E, rows, row
  <2>7. Card(c, a).closing_balance = BalanceDelta(a, row[1], row[2])
    BY <2>3, <2>5 DEF Balance
  <2> QED BY <2>2, <2>6, <2>7 DEF row
<1>6. IInv => ReportsAgree
  BY <1>1, <1>4, <1>5 DEF ReportsAgree
<1> QED BY <1>6, ReportsInvariant, PTL

\* The order of the rows of a set lists each of them.
LEMMA OrderedCovers ==
  ASSUME NEW S, Rowset(S)
  PROVE  Range(Ordered(S)) = S /\ \A e \in S : Contains(Ordered(S), e)
<1> DEFINE s == Ordered(S)
           n == Cardinality(S)
<1>1. /\ n \in Nat /\ s \in [1..n -> S] /\ Len(s) = n
      /\ \A e \in S : \E i \in 1..n : s[i] = e
  BY OrderedLists
<1> HIDE DEF s, n
<1>2. Range(s) = S
  BY <1>1 DEF Range
<1>3. \A e \in S : Contains(s, e)
  BY <1>1 DEF Contains
<1> QED BY <1>2, <1>3 DEF s

\* Every entry is in the journal book of its own day, strays included; a book that covers the
\* date of an entry leaves it out only in favour of a previous exercise that it names.
THEOREM ReportsFindEveryEntry == Spec => []EveryEntryFindable
<1>1. ASSUME IInv PROVE EveryEntryFindable
  <2> SUFFICES ASSUME Ready PROVE EveryEntryFindable
    BY DEF EveryEntryFindable
  <2> DEFINE X == BuildLogicalExercises(journal).exercises
             n == Len(X)
             within(e, x) == x.start_date <= e.date
                               /\ (x.closing_date = NoDate \/ e.date <= x.closing_date)
  <2>1. InLine(X) /\ ContextOf = [p \in Params |-> Context(X, p)]
    BY <1>1, ContextsBuilt
  <2> HIDE DEF X
  <2>2. ASSUME NEW e \in Entries
        PROVE  Contains(JournalBook(ContextOf[[date_from |-> e.date, date_to |-> e.date]]), e)
    <3> DEFINE p == [date_from |-> e.date, date_to |-> e.date]
               c == Context(X, p)
    <3>1. e.date \in Days /\ e.date \in Int /\ e.date # NoDate /\ e.date <= e.date
      BY <1>1, EntryRows DEF NoDate
    <3>2. p \in Params /\ p.date_from = e.date /\ p.date_to = e.date
      BY <3>1 DEF Params
    <3>3. FirstDay(X, p) = e.date /\ DateTo(p) = e.date
      BY <3>1, <3>2 DEF FirstDay, DateTo
    <3> HIDE DEF p
    <3>4. c.to = e.date /\ c.visible_from <= e.date
      <4>1. /\ c.to = DateTo(p)
            /\ c.visible_from = FirstDay(X, p) \/ c.visible_from <= c.to
        BY <2>1, <3>2, ContextFacts
      <4> QED BY <3>1, <3>3, <4>1
    <3>5. e \in Dated(c.visible_from, c.to)
      BY <3>1, <3>4 DEF Dated
    <3>6. Rowset(Dated(c.visible_from, c.to))
      BY <1>1, ContextsBuilt
    <3> HIDE DEF c
    <3>7. Contains(JournalBook(c), e)
      BY <3>5, <3>6, OrderedCovers DEF JournalBook
    <3>8. ContextOf[p] = c
      BY <2>1, <3>2 DEF c
    <3> QED BY <3>7, <3>8 DEF p
  <2>3. ASSUME NEW p \in Params, NEW e \in Dated(p.date_from, ContextOf[p].to) \ Range(JournalBook(ContextOf[p])),
               NEW x \in Range(X), within(e, x)
        PROVE  \E y \in ContextOf[p].previous_exercises : within(e, y)
    <3> DEFINE c == Context(X, p)
               from == FirstDay(X, p)
               met == Intersected(X, from, DateTo(p))
    <3>1. ContextOf[p] = c
      BY <2>1
    <3>2. /\ c.to = DateTo(p) /\ c.to \in Days /\ from \in Days
          /\ c.visible_from \in Days
          /\ \/ met = {} /\ c.visible_from = from
             \/ \E k \in met :
                  /\ \A i \in met : i <= k
                  /\ c.previous_exercises = {X[i] : i \in met \ {k}}
                  /\ c.visible_from = from \/ c.visible_from = X[k].start_date
      BY <2>1, ContextFacts
    <3>3. /\ n \in Nat \ {0} /\ DOMAIN X = 1..n
          /\ \A k \in 1..n : X[k].start_date \in Days
          /\ \A j, k \in 1..n : j < k => X[j].start_date < X[k].start_date
          /\ \A k \in 1..n - 1 : X[k].closing_date \in Days
      BY <2>1 DEF InLine
    <3> HIDE DEF c, n
    <3>4. /\ e \in Entries /\ p.date_from <= e.date /\ e.date <= c.to
          /\ e \notin Range(JournalBook(c))
      BY <2>3, <3>1 DEF Dated
    <3>5. e.date \in Days /\ e.date \in Int
      BY <1>1, <3>4, EntryRows
    <3>6. ~(c.visible_from <= e.date)
      <4>1. Rowset(Dated(c.visible_from, c.to))
        BY <1>1, ContextsBuilt
      <4>2. e \notin Dated(c.visible_from, c.to)
        BY <3>4, <4>1, OrderedCovers DEF JournalBook
      <4> QED BY <3>4, <4>2 DEF Dated
    <3>7. PICK i \in 1..n : x = X[i]
      BY <3>3 DEF Range
    <3>8. X[i].start_date <= e.date
      BY <2>3, <3>7
    <3>9. from <= e.date
      <4>1. CASE p.date_from # NoDate
        BY <3>4, <4>1 DEF FirstDay
      <4>2. CASE p.date_from = NoDate
        <5>1. 1 \in 1..n /\ (i = 1 \/ 1 < i)
          BY <3>3
        <5>2. X[1].start_date <= X[i].start_date
          BY <3>3, <5>1 DEF Days
        <5>3. from = X[1].start_date
          BY <4>2 DEF FirstDay
        <5>4. X[i].start_date \in Int /\ X[1].start_date \in Int
          BY <3>3, <5>1 DEF Days
        <5> QED BY <3>5, <3>8, <5>2, <5>3, <5>4
      <4> QED BY <4>1, <4>2
    <3>10. c.visible_from # from
      BY <3>6, <3>9
    <3>11. PICK k \in met : /\ \A j \in met : j <= k
                            /\ c.previous_exercises = {X[j] : j \in met \ {k}}
                            /\ c.visible_from = X[k].start_date
      BY <3>2, <3>10
    <3>12. k \in 1..n
      BY <3>3, <3>11 DEF Intersected
    <3>13. i < k
      <4> SUFFICES ASSUME ~(i < k) PROVE FALSE
        OBVIOUS
      <4>1. i = k \/ k < i
        BY <3>12
      <4>2. X[k].start_date <= X[i].start_date
        BY <3>3, <3>12, <4>1 DEF Days
      <4>3. X[i].start_date \in Int /\ X[k].start_date \in Int
        BY <3>3, <3>12 DEF Days
      <4>4. c.visible_from <= e.date
        BY <3>5, <3>8, <3>11, <4>2, <4>3
      <4> QED BY <3>6, <4>4
    <3>14. X[i].closing_date \in Days /\ X[i].closing_date # NoDate
      <4>1. i \in 1..n - 1
        BY <3>3, <3>12, <3>13
      <4> QED BY <3>3, <4>1 DEF Days, NoDate
    <3>15. e.date <= X[i].closing_date
      BY <2>3, <3>7, <3>14
    <3>16. i \in met
      <4>1. X[i].start_date \in Int /\ X[i].closing_date \in Int /\ from \in Int /\ DateTo(p) \in Int
        BY <3>2, <3>3, <3>14 DEF Days
      <4>2. X[i].start_date <= DateTo(p)
        BY <3>2, <3>4, <3>5, <3>8, <4>1
      <4>3. X[i].closing_date >= from
        BY <3>5, <3>9, <3>15, <4>1
      <4> QED BY <3>3, <3>14, <4>2, <4>3 DEF Intersected
    <3>17. i # k
      BY <3>12, <3>13
    <3> HIDE DEF met
    <3>18. x \in c.previous_exercises
      BY <3>7, <3>11, <3>16, <3>17
    <3> QED BY <2>3, <3>1, <3>18
  <2> HIDE DEF within
  <2>4. ASSUME NEW p \in Params, NEW e \in Dated(p.date_from, ContextOf[p].to) \ Range(JournalBook(ContextOf[p]))
        PROVE  \/ \E x \in ContextOf[p].previous_exercises : within(e, x)
               \/ \A x \in Range(X) : ~within(e, x)
    BY <2>3
  <2> QED BY <2>2, <2>4 DEF EveryEntryFindable, within, X
<1> QED BY <1>1, ReportsInvariant, PTL

\* Copies that their keys determine are as many as their keys.
LEMMA OnePerKey ==
  ASSUME NEW C, IsFiniteSet(C), \A s, t \in C : s[1] = t[1] => s = t
  PROVE  Cardinality(C) = Cardinality({s[1] : s \in C})
<1> DEFINE K == {s[1] : s \in C}
           f == [s \in C |-> s[1]]
<1>1. f \in Bijection(C, K)
  <2>1. f \in Injection(C, K)
    BY DEF Injection, IsInjective
  <2>2. f \in Surjection(C, K)
    BY DEF Surjection
  <2> QED BY <2>1, <2>2 DEF Bijection
<1> HIDE DEF K, f
<1>2. Cardinality(C) = Cardinality(K)
  BY <1>1, FS_Bijection DEF ExistsBijection
<1> QED BY <1>2 DEF K

\* There are finitely many contexts, and finitely many choices of accounts.
LEMMA ContextsFinite ==
  ASSUME IInv, Ready PROVE IsFiniteSet(Contexts) /\ IsFiniteSet(Asked)
<1> DEFINE D == {NoDate} \cup Days
           P == D \X D
           f == [x \in P |-> [date_from |-> x[1], date_to |-> x[2]]]
           Q == {f[x] : x \in P}
<1>1. IsFiniteSet(P)
  <2>1. IsFiniteSet(Days)
    BY DaysAssumption, FS_Interval DEF Days
  <2>2. IsFiniteSet(Days \cup {NoDate})
    BY <2>1, FS_AddElement
  <2>3. D = Days \cup {NoDate}
    OBVIOUS
  <2>4. IsFiniteSet(D)
    BY <2>2, <2>3
  <2> HIDE DEF D
  <2> QED BY <2>4, FS_Product
<1>2. Params \subseteq Q
  <2> SUFFICES ASSUME NEW p \in Params PROVE p \in Q
    OBVIOUS
  <2>1. /\ p = [date_from |-> p.date_from, date_to |-> p.date_to]
        /\ p.date_from \in D /\ p.date_to \in D
    BY DEF Params
  <2> DEFINE x == <<p.date_from, p.date_to>>
  <2>2. x \in P /\ x[1] = p.date_from /\ x[2] = p.date_to
    BY <2>1
  <2>3. f[x] = [date_from |-> x[1], date_to |-> x[2]]
    BY <2>2
  <2>4. f[x] = p
    BY <2>1, <2>2, <2>3
  <2> HIDE DEF f, P, x
  <2> QED BY <2>2, <2>4
<1>3. IsFiniteSet(Params)
  <2>1. IsFiniteSet(Q)
    <3> HIDE DEF f, P
    <3> QED BY <1>1, FiniteImage
  <2> HIDE DEF Q
  <2> QED BY <1>2, <2>1, FS_Subset
<1>4. Contexts = {ContextOf[p] : p \in Params}
  <2>1. DOMAIN ContextOf = Params
    BY ContextsBuilt
  <2> QED BY <2>1 DEF Contexts, Range
<1>5. IsFiniteSet(Contexts)
  BY <1>3, <1>4, FiniteImage
<1>6. IsFiniteSet(Asked)
  <2> DEFINE g == [a \in Accounts |-> {a}]
             G == {g[a] : a \in Accounts}
  <2>1. Asked = G \cup {Accounts}
    BY DEF Asked
  <2>2. IsFiniteSet(G)
    <3> HIDE DEF g
    <3> QED BY AccountsAssumption, FiniteImage
  <2> HIDE DEF G
  <2> QED BY <2>1, <2>2, FS_AddElement
<1> QED BY <1>5, <1>6

\* A card, from the visible entries E and those of the exercise before them, F.
CardOn(E, F, a) ==
  LET moved     == {e \in E : e.debit[a] + e.credit[a] > 0}
      movements == Ordered(moved)
      opening   == Balance(F, a)
      totals    == <<Debit(moved, a), Credit(moved, a)>>
      balance[i \in 0..Len(movements)] ==
        IF i = 0 THEN opening
        ELSE balance[i - 1] + BalanceDelta(a, movements[i].debit[a], movements[i].credit[a])
  IN  [opening_balance |-> opening,
       balances        |-> [i \in DOMAIN movements |-> balance[i]],
       period_totals   |-> totals,
       closing_balance |-> opening + BalanceDelta(a, totals[1], totals[2])]

LEMMA CardDrawn ==
  ASSUME NEW c, NEW a
  PROVE  Card(c, a) = CardOn(Dated(c.visible_from, c.to), Dated(c.computed_from, c.visible_from - 1), a)
BY DEF Card, CardOn, OpeningBalance

\* Requests that share a key get the same report: the key of the ledger leaves out the start
\* of the exercise, but names the opening entry, which gives it away.
THEOREM ReportsKeptByKey == Spec => []SameKeySameReport
<1>1. ASSUME IInv PROVE SameKeySameReport
  <2> SUFFICES ASSUME Ready
               PROVE  LET one(copies) == Cardinality(copies) = Cardinality({copy[1] : copy \in copies})
                      IN  /\ one({<<BookKey(c), JournalBook(c)>> : c \in Contexts})
                          /\ one({<<TrialKey(c), TrialBalance(c)>> : c \in Contexts})
                          /\ one({<<LedgerKey(c, asked), Ledger(c, asked)>> : c \in Contexts, asked \in Asked})
    BY DEF SameKeySameReport
  <2> DEFINE X == BuildLogicalExercises(journal).exercises
  <2>1. InLine(X) /\ \A c \in Contexts : \E p \in Params : c = Context(X, p)
    BY <1>1, ContextsBuilt
  <2> HIDE DEF X
  <2>2. ASSUME NEW c \in Contexts
        PROVE  \/ c.active_exercise.opening_entry = NoEntry /\ c.computed_from = c.visible_from
               \/ /\ c.active_exercise.opening_entry # NoEntry
                  /\ c.computed_from = journal[c.active_exercise.opening_entry].date
    <3>1. PICK p \in Params : c = Context(X, p)
      BY <2>1
    <3> DEFINE met == Intersected(X, FirstDay(X, p), DateTo(p))
    <3>2. \/ c.active_exercise = NoExercise /\ c.visible_from = c.computed_from
          \/ \E k \in met : c.active_exercise = X[k] /\ c.computed_from = X[k].start_date
      BY <2>1, <3>1, ContextFacts
    <3>3. met \subseteq 1..Len(X)
      BY <2>1 DEF InLine, Intersected
    <3>4. \A k \in 1..Len(X) : /\ X[k].opening_entry # NoEntry
                               /\ journal[X[k].opening_entry].date = X[k].start_date
      BY <2>1 DEF InLine
    <3>5. NoExercise.opening_entry = NoEntry
      BY DEF NoExercise, Exercise, NoOpening
    <3> HIDE DEF met
    <3> QED BY <3>2, <3>3, <3>4, <3>5
  <2>3. ASSUME NEW c \in Contexts, NEW d \in Contexts,
               c.visible_from = d.visible_from, c.to = d.to,
               c.active_exercise.opening_entry = d.active_exercise.opening_entry, NEW asked
        PROVE  Ledger(c, asked) = Ledger(d, asked)
    <3>1. c.computed_from = d.computed_from
      BY <2>2, <2>3
    <3>2. \A a : Card(c, a) = Card(d, a)
      BY <2>3, <3>1, CardDrawn
    <3> QED BY <3>2 DEF Ledger
  <2>4. IsFiniteSet(Contexts) /\ IsFiniteSet(Asked)
    BY <1>1, ContextsFinite
  <2> DEFINE books == {<<BookKey(c), JournalBook(c)>> : c \in Contexts}
             trials == {<<TrialKey(c), TrialBalance(c)>> : c \in Contexts}
             ledgers == {<<LedgerKey(c, asked), Ledger(c, asked)>> : c \in Contexts, asked \in Asked}
  <2>5. Cardinality(books) = Cardinality({s[1] : s \in books})
    <3> DEFINE f == [c \in Contexts |-> <<BookKey(c), JournalBook(c)>>]
    <3>1. books = {f[c] : c \in Contexts}
      OBVIOUS
    <3>2. IsFiniteSet(books)
      <4> HIDE DEF books, f
      <4> QED BY <2>4, <3>1, FiniteImage
    <3>3. \A c, d \in Contexts : BookKey(c) = BookKey(d) => JournalBook(c) = JournalBook(d)
      BY DEF BookKey, JournalBook
    <3>4. \A s, t \in books : s[1] = t[1] => s = t
      BY <3>3
    <3> HIDE DEF books
    <3> QED BY <3>2, <3>4, OnePerKey
  <2>6. Cardinality(trials) = Cardinality({s[1] : s \in trials})
    <3> DEFINE f == [c \in Contexts |-> <<TrialKey(c), TrialBalance(c)>>]
    <3>1. trials = {f[c] : c \in Contexts}
      OBVIOUS
    <3>2. IsFiniteSet(trials)
      <4> HIDE DEF trials, f
      <4> QED BY <2>4, <3>1, FiniteImage
    <3>3. \A c, d \in Contexts : TrialKey(c) = TrialKey(d) => TrialBalance(c) = TrialBalance(d)
      BY DEF TrialKey, TrialBalance, TrialEntries
    <3>4. \A s, t \in trials : s[1] = t[1] => s = t
      BY <3>3
    <3> HIDE DEF trials
    <3> QED BY <3>2, <3>4, OnePerKey
  <2>7. Cardinality(ledgers) = Cardinality({s[1] : s \in ledgers})
    <3> DEFINE P == Contexts \X Asked
               f == [x \in P |-> <<LedgerKey(x[1], x[2]), Ledger(x[1], x[2])>>]
    <3>1. ledgers = {f[x] : x \in P}
      <4>1. ASSUME NEW x \in P PROVE f[x] \in ledgers
        OBVIOUS
      <4>2. ASSUME NEW c \in Contexts, NEW asked \in Asked
            PROVE  <<LedgerKey(c, asked), Ledger(c, asked)>> = f[<<c, asked>>] /\ <<c, asked>> \in P
        OBVIOUS
      <4> HIDE DEF f, P
      <4>3. ASSUME NEW t \in ledgers PROVE \E x \in P : t = f[x]
        <5>1. PICK c \in Contexts, asked \in Asked : t = <<LedgerKey(c, asked), Ledger(c, asked)>>
          OBVIOUS
        <5>2. t = f[<<c, asked>>] /\ <<c, asked>> \in P
          BY <4>2, <5>1
        <5> QED BY <5>2
      <4> HIDE DEF ledgers
      <4> QED BY <4>1, <4>3
    <3>2. IsFiniteSet(P)
      BY <2>4, FS_Product
    <3>3. IsFiniteSet(ledgers)
      <4> HIDE DEF ledgers, f, P
      <4> QED BY <3>1, <3>2, FiniteImage
    <3>4. \A c, d \in Contexts, a, b \in Asked :
            LedgerKey(c, a) = LedgerKey(d, b) => a = b /\ Ledger(c, a) = Ledger(d, b)
      BY <2>3 DEF LedgerKey
    <3>5. \A s, t \in ledgers : s[1] = t[1] => s = t
      BY <3>4
    <3> HIDE DEF ledgers
    <3> QED BY <3>3, <3>5, OnePerKey
  <2> QED BY <2>5, <2>6, <2>7
<1> QED BY <1>1, ReportsInvariant, PTL

\* What validate_demo_payload keeps within the open exercise: its start, and the date of the
\* last entry.
LEMMA DemoStateOpen ==
  ASSUME IInv, NEW s \in DOMAIN journal, OpenFrom(s), NEW m \in s..Len(journal)
  PROVE  /\ DemoState(m).expected_start = journal[s].date
         /\ DemoState(m).previous_date = IF m = s THEN NoDate ELSE journal[m].date
<1> DEFINE opened == {i \in 1..m : journal[i].source_type \in {"OPENING", "REOPENING"}}
           manual(k) == {i \in k..m : journal[i].source_type = "MANUAL"}
           later == {i \in s + 1..m : TRUE}
<1>1. /\ DOMAIN journal = 1..Len(journal) /\ Len(journal) \in Nat /\ s \in Nat /\ m \in Nat
      /\ s \in 1..m /\ m <= Len(journal)
  BY DEF IInv, TypeOK
<1>2. /\ journal[s].source_type \in {"OPENING", "REOPENING"}
      /\ \A i \in 1..m : i > s => journal[i].source_type = "MANUAL"
  BY <1>1 DEF OpenFrom, Opens
<1>3. Max(opened) = s
  <2>1. s \in opened /\ \A i \in opened : i <= s
    BY <1>1, <1>2
  <2>2. IsFiniteSet(opened) /\ opened \in SUBSET Int
    <3>1. opened \subseteq 1..m /\ IsFiniteSet(1..m)
      BY <1>1, FS_Interval
    <3>2. \A i \in 1..m : i \in Int
      OBVIOUS
    <3> HIDE DEF opened
    <3> QED BY <3>1, <3>2, FS_Subset
  <2>3. \A i, j \in Int : i <= j /\ j <= i => i = j
    OBVIOUS
  <2> HIDE DEF opened
  <2>4. Max(opened) \in opened /\ \A i \in opened : i <= Max(opened)
    BY <2>1, <2>2, MaxElement
  <2> QED BY <2>1, <2>2, <2>3, <2>4
<1>4. manual(s) = s + 1..m
  <2>1. \A i \in s..m : i = s \/ i \in s + 1..m
    BY <1>1
  <2>2. \A i \in s + 1..m : i \in s..m /\ i \in 1..m /\ i > s
    BY <1>1
  <2> QED BY <1>2, <2>1, <2>2
<1>5. DemoState(m) = [expected_start |-> journal[s].date,
                      previous_date  |-> IF manual(s) = {} THEN NoDate ELSE journal[Max(manual(s))].date]
  <2> DEFINE o == Max(opened)
  <2>1. DemoState(m) = [expected_start |-> journal[o].date,
                        previous_date  |-> IF manual(o) = {} THEN NoDate ELSE journal[Max(manual(o))].date]
    BY DEF DemoState
  <2>2. o = s
    BY <1>3
  <2> HIDE DEF o, manual
  <2> QED BY <2>1, <2>2
<1>6. ASSUME m # s PROVE manual(s) # {} /\ Max(manual(s)) = m
  <2> DEFINE M == s + 1..m
  <2>1. m \in M /\ \A i \in M : i <= m
    BY <1>1, <1>6
  <2>2. IsFiniteSet(M) /\ M \in SUBSET Int
    BY <1>1, FS_Interval
  <2>3. \A i, j \in Int : i <= j /\ j <= i => i = j
    OBVIOUS
  <2> HIDE DEF M
  <2>4. Max(M) \in M /\ \A i \in M : i <= Max(M)
    BY <2>1, <2>2, MaxElement
  <2>5. Max(M) = m
    BY <1>1, <2>1, <2>2, <2>3, <2>4
  <2> QED BY <1>4, <2>1, <2>5 DEF M
<1>7. m = s => manual(s) = {}
  BY <1>1, <1>4
<1> HIDE DEF manual
<1> QED BY <1>5, <1>6, <1>7

\* What the import of a demo file has still to do is never refused for its dates: entries go
\* on in the open exercise, and a closing in its place is one that _validate_request takes.
THEOREM ReportsDemoImports == Spec => []DemoDatesImport
<1>1. ASSUME IInv PROVE DemoDatesImport
  <2> DEFINE n == Len(journal)
             state == DemoState(n)
  <2> SUFFICES ASSUME Ready, DemoJournal
               PROVE  /\ \A d \in Days : DemoEntryValid(state, d) => d > books_closed_until
                      /\ \A cd, rd \in Days : DemoClosingValid(state, cd, rd) => RequestValid(cd, rd)
    BY DEF DemoDatesImport
  <2>1. PICK s \in DOMAIN journal : OpenFrom(s)
    BY <1>1 DEF IInv, Chain
  <2>2. /\ n \in Nat /\ DOMAIN journal = 1..n /\ s \in 1..n /\ n \in s..n /\ s \in s..n
        /\ journal[s].date \in Int /\ books_closed_until \in Int
        /\ books_closed_until < journal[s].date
        /\ \A i \in 1..n : journal[i] \in Entries /\ journal[i].date \in Int
    <3>1. n \in Nat /\ DOMAIN journal = 1..n
      BY <1>1 DEF IInv, TypeOK
    <3>2. \A i \in 1..n : journal[i] \in Entries
      BY <3>1 DEF Entries, Range
    <3>3. \A i \in 1..n : journal[i].date \in Int
      BY <1>1, <3>2, EntryRows
    <3>4. books_closed_until \in Int
      BY <1>1 DEF IInv, TypeOK, Days, NoDate
    <3>5. s \in 1..n /\ n \in s..n /\ s \in s..n
      <4> HIDE DEF n
      <4> QED BY <2>1, <3>1
    <3> QED BY <2>1, <3>1, <3>2, <3>3, <3>4, <3>5 DEF OpenFrom
  <2>3. \A m \in s..n : /\ DemoState(m).expected_start = journal[s].date
                        /\ DemoState(m).previous_date = IF m = s THEN NoDate ELSE journal[m].date
    BY <1>1, <2>1, DemoStateOpen
  <2> HIDE DEF n
  <2>4. \A i \in s + 1..n - 1 : journal[i].date <= journal[i + 1].date
    <3> TAKE i \in s + 1..n - 1
    <3>1. /\ i + 1 \in 2..n /\ (i + 1) - 1 = i /\ i \in s..n /\ i # s /\ i + 1 \in 1..n /\ i + 1 > s
      BY <2>2
    <3>2. journal[i + 1].source_type = "MANUAL"
      BY <2>1, <2>2, <3>1 DEF OpenFrom
    <3>3. DemoEntryValid(DemoState((i + 1) - 1), journal[i + 1].date)
      BY <3>1, <3>2 DEF DemoJournal, n
    <3>4. DemoState(i).previous_date = journal[i].date
      BY <2>3, <3>1
    <3>5. journal[i + 1].date >= journal[i].date
      BY <3>1, <3>3, <3>4 DEF DemoEntryValid
    <3>6. journal[i].date \in Int /\ journal[i + 1].date \in Int
      BY <2>2, <3>1
    <3> QED BY <3>5, <3>6
  <2>5. \A i \in s + 1..n : journal[i].date <= journal[n].date
    <3> DEFINE P == {j \in 0..n : n - j > s => journal[n - j].date <= journal[n].date}
    <3>1. 0 \in P
      BY <2>2
    <3>2. ASSUME NEW j \in 0..n - 1, j \in P PROVE j + 1 \in P
      <4> SUFFICES ASSUME n - (j + 1) > s PROVE journal[n - (j + 1)].date <= journal[n].date
        BY <2>2
      <4> DEFINE i == n - (j + 1)
      <4>1. i \in s + 1..n - 1 /\ i + 1 = n - j /\ n - j > s /\ i \in 1..n /\ i + 1 \in 1..n /\ n \in 1..n
        BY <2>2
      <4> HIDE DEF i
      <4>2. journal[i].date <= journal[i + 1].date
        BY <2>4, <4>1
      <4>3. journal[i + 1].date <= journal[n].date
        BY <3>2, <4>1
      <4>4. journal[i].date \in Int /\ journal[i + 1].date \in Int /\ journal[n].date \in Int
        BY <2>2, <4>1
      <4>5. journal[i].date <= journal[n].date
        BY <4>2, <4>3, <4>4
      <4> QED BY <4>5 DEF i
    <3>3. \A j \in 0..n - 1 : j \in P => j + 1 \in P
      BY <3>2
    <3>4. \A j \in 0..n : j \in P
      <4> HIDE DEF P
      <4> QED BY <2>2, <3>1, <3>3, UpTo
    <3> TAKE i \in s + 1..n
    <3>5. n - i \in 0..n /\ n - (n - i) = i /\ i > s
      BY <2>2
    <3>6. n - (n - i) > s => journal[n - (n - i)].date <= journal[n].date
      BY <3>4, <3>5
    <3> QED BY <3>5, <3>6
  <2>6. state.expected_start = journal[s].date /\ (n # s => state.previous_date = journal[n].date)
    BY <2>2, <2>3
  <2> HIDE DEF state
  <2>7. ASSUME NEW d \in Days, DemoEntryValid(state, d) PROVE d > books_closed_until
    <3>1. d >= journal[s].date /\ d \in Int
      BY <2>6, <2>7 DEF DemoEntryValid, Days
    <3> QED BY <2>2, <3>1
  <2>8. ASSUME NEW cd \in Days, NEW rd \in Days, DemoClosingValid(state, cd, rd) PROVE RequestValid(cd, rd)
    <3> DEFINE built == BuildLogicalExercises(journal)
               X == built.exercises
    <3>1. /\ rd > cd /\ cd >= journal[s].date /\ state.previous_date <= cd
          /\ cd \in Int /\ rd \in Int
      BY <2>6, <2>8 DEF DemoClosingValid, Days
    <3>2. cd > books_closed_until
      BY <2>2, <3>1
    <3>3. ~built.invalid /\ InLine(X)
      BY <1>1, Built
    <3>4. CurrentLogicalExercise(X) = X[Len(X)]
      <4> HIDE DEF X
      <4> QED BY <3>3, CurrentOpen
    <3>5. X[Len(X)].status = "open" /\ X[Len(X)].start_date = journal[s].date
      <4> DEFINE l == Len(X)
      <4>1. l \in Nat \ {0} /\ X[l].status = "open" /\ OpenFrom(X[l].opening_entry)
        BY <3>3 DEF InLine
      <4>2. X[l].opening_entry \in DOMAIN journal /\ journal[X[l].opening_entry].date = X[l].start_date
        <5>1. \A k \in 1..l : /\ X[k].opening_entry \in DOMAIN journal
                              /\ journal[X[k].opening_entry].date = X[k].start_date
          BY <3>3 DEF InLine
        <5> HIDE DEF l, X
        <5> QED BY <4>1, <5>1
      <4>3. X[l].opening_entry = s
        <5> DEFINE t == X[l].opening_entry
        <5>1. OpenFrom(t) /\ t \in 1..n
          BY <2>2, <4>1, <4>2
        <5> HIDE DEF t
        <5>2. ~(t > s) /\ ~(s > t)
          BY <2>1, <2>2, <5>1 DEF OpenFrom, Opens
        <5> QED BY <2>2, <5>1, <5>2 DEF t
      <4> QED BY <4>1, <4>2, <4>3
    <3>6. \A e \in Entries : e.date <= cd
      <4> SUFFICES ASSUME NEW i \in 1..n PROVE journal[i].date <= cd
        BY <2>2 DEF Entries, Range
      <4>1. CASE i < s
        <5>1. journal[i].date <= books_closed_until
          BY <2>1, <2>2, <4>1 DEF OpenFrom
        <5> QED BY <2>2, <3>1, <3>2, <5>1
      <4>2. CASE i = s
        BY <2>2, <3>1, <4>2
      <4>3. CASE i > s
        <5>1. n # s /\ i \in s + 1..n /\ n \in 1..n
          BY <2>2, <4>3
        <5>2. journal[i].date <= journal[n].date /\ journal[n].date <= cd
          BY <2>5, <2>6, <3>1, <5>1
        <5> QED BY <2>2, <3>1, <5>1, <5>2
      <4> QED BY <2>2, <4>1, <4>2, <4>3
    <3>7. \A e \in Entries : /\ e.source_type = "PATRIMONIAL_CLOSING" => e.date # cd
                             /\ e.source_type = "REOPENING" => e.date # rd
      <4> TAKE e \in Entries
      <4>1. e.date \in Int /\ e.date <= cd
        BY <1>1, <3>6, EntryRows
      <4>2. e.source_type = "PATRIMONIAL_CLOSING" => e.date <= books_closed_until
        BY <1>1 DEF IInv, ClosedIsZero
      <4> QED BY <2>2, <3>1, <3>2, <4>1, <4>2
    <3> HIDE DEF built, X
    <3>8. /\ CurrentLogicalExercise(X).status = "open"
          /\ cd >= CurrentLogicalExercise(X).start_date
      BY <3>1, <3>4, <3>5
    <3> QED BY <3>1, <3>2, <3>3, <3>6, <3>7, <3>8 DEF RequestValid, built, X
  <2> QED BY <2>7, <2>8
<1> QED BY <1>1, ReportsInvariant, PTL

=============================================================================
