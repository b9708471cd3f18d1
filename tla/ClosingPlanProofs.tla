------------------------- MODULE ClosingPlanProofs -------------------------
(***************************************************************************)
(* Proofs about ClosingPlan, for any chart of accounts, any amounts and    *)
(* any number of postings and closings.                                    *)
(***************************************************************************)
EXTENDS ClosingPlan, FiniteSetTheorems, WellFoundedInduction, TLAPS

(***************************************************************************)
(* Sums over finite sets.                                                  *)
(***************************************************************************)

\* Induction over the subsets of a finite set, smaller ones first.  The property is the set P
\* of the subsets that have it.
LEMMA SubsetInduction ==
  ASSUME NEW S, IsFiniteSet(S), NEW P,
         \A T \in SUBSET S : (\A x \in T : T \ {x} \in P) => T \in P
  PROVE  S \in P
<1> SUFFICES ASSUME S \notin P PROVE FALSE
  OBVIOUS
<1> DEFINE Bad == {n \in Nat : \E T \in SUBSET S : T \notin P /\ Cardinality(T) = n}
<1>1. Cardinality(S) \in Bad
  BY FS_CardinalityType
<1>2. PICK m \in Bad : \A n \in Bad : ~(<<n, m>> \in OpToRel(<, Nat))
  <2>1. Bad \subseteq Nat /\ Bad # {}
    BY <1>1
  <2> HIDE DEF Bad
  <2> QED BY <2>1, WFMin, NatLessThanWellFounded
<1>3. PICK T \in SUBSET S : T \notin P /\ Cardinality(T) = m
  OBVIOUS
<1>4. PICK x \in T : T \ {x} \notin P
  BY <1>3
<1>5. IsFiniteSet(T)
  BY FS_Subset
<1>6. IsFiniteSet(T \ {x}) /\ Cardinality(T \ {x}) = m - 1 /\ Cardinality(T \ {x}) \in Nat
  BY <1>3, <1>4, <1>5, FS_RemoveElement, FS_CardinalityType
<1>7. m - 1 \in Bad
  BY <1>4, <1>6
<1>8. m \in Nat /\ m - 1 \in Nat /\ m - 1 < m
  BY <1>6
<1>9. <<m - 1, m>> \in OpToRel(<, Nat)
  BY <1>8 DEF OpToRel
<1> QED BY <1>2, <1>7, <1>9

\* The member that the fold of the community modules takes first.
Chosen(s) == CHOOSE x \in s : TRUE

\* Amounts as sets of units: the sum of f over s is the number of units of its positive values
\* less that of its negative ones.
Units(f, s) == UNION {{x} \X (1..f[x]) : x \in s}
UnitSum(f, s) == Cardinality(Units(f, s)) - Cardinality(Units([x \in s |-> -f[x]], s))

\* Finitely many values have finitely many units, and one member contributes its own.
LEMMA UnitsStep ==
  ASSUME NEW s, IsFiniteSet(s), NEW f, \A y \in s : f[y] \in Int, NEW x \in s
  PROVE  /\ IsFiniteSet(Units(f, s)) /\ IsFiniteSet(Units(f, s \ {x}))
         /\ Cardinality(Units(f, s)) =
              Cardinality(Units(f, s \ {x})) + (IF f[x] > 0 THEN f[x] ELSE 0)
<1> DEFINE one == {x} \X (1..f[x])
<1>1. ASSUME NEW t \in SUBSET s PROVE IsFiniteSet(Units(f, t))
  <2> DEFINE G == [y \in t |-> {y} \X (1..f[y])]
             R == {{y} \X (1..f[y]) : y \in t}
  <2>1. G \in Surjection(t, R)
    BY DEF Surjection
  <2>2. IsFiniteSet(R)
    BY <2>1, FS_Subset, FS_Surjection
  <2>3. \A y \in t : IsFiniteSet({y} \X (1..f[y]))
    <3> TAKE y \in t
    <3>1. f[y] \in Int
      OBVIOUS
    <3>2. IsFiniteSet({y})
      BY FS_Singleton
    <3>3. IsFiniteSet(1..f[y])
      BY <3>1, FS_Interval
    <3> QED BY <3>2, <3>3, FS_Product
  <2>4. \A T \in R : IsFiniteSet(T)
    BY <2>3
  <2>5. IsFiniteSet(UNION R)
    <3> HIDE DEF R
    <3> QED BY <2>2, <2>4, FS_UNION
  <2> QED BY <2>5 DEF Units
<1>2. IsFiniteSet(one) /\ Cardinality(one) = IF f[x] > 0 THEN f[x] ELSE 0
  <2>1. IsFiniteSet({x}) /\ Cardinality({x}) = 1
    BY FS_Singleton
  <2>2. IsFiniteSet(1..f[x]) /\ Cardinality(1..f[x]) = IF f[x] > 0 THEN f[x] ELSE 0
    BY FS_Interval
  <2>3. IsFiniteSet(one) /\ Cardinality(one) = Cardinality({x}) * Cardinality(1..f[x])
    BY <2>1, <2>2, FS_Product
  <2> QED BY <2>1, <2>2, <2>3
<1>3. Units(f, s) = Units(f, s \ {x}) \cup one
  BY DEF Units
<1>4. Units(f, s \ {x}) \cap one = {}
  BY DEF Units
<1>5. IsFiniteSet(Units(f, s \ {x})) /\ IsFiniteSet(Units(f, s))
  BY <1>1
<1> HIDE DEF one
<1>6. Cardinality(Units(f, s \ {x}) \cup one) = Cardinality(Units(f, s \ {x})) + Cardinality(one) - 0
  <2>1. Cardinality(Units(f, s \ {x}) \cup one) =
          Cardinality(Units(f, s \ {x})) + Cardinality(one) - Cardinality(Units(f, s \ {x}) \cap one)
    BY <1>2, <1>5, FS_Union
  <2> QED BY <1>4, <2>1, FS_EmptySet
<1>7. Cardinality(Units(f, s \ {x})) \in Nat
  BY <1>5, FS_CardinalityType
<1> QED BY <1>2, <1>3, <1>5, <1>6, <1>7

\* The sum of units has the recursion of a sum, over any member.
LEMMA UnitSumStep ==
  ASSUME NEW s, IsFiniteSet(s), NEW f, \A y \in s : f[y] \in Int
  PROVE  /\ UnitSum(f, s) \in Int
         /\ \A x \in s : UnitSum(f, s) = f[x] + UnitSum(f, s \ {x}) /\ UnitSum(f, s \ {x}) \in Int
         /\ s = {} => UnitSum(f, s) = 0
<1>1. ASSUME NEW x \in s
      PROVE  /\ UnitSum(f, s) = f[x] + UnitSum(f, s \ {x}) 
             /\ UnitSum(f, s \ {x}) \in Int /\ UnitSum(f, s) \in Int
  <2> DEFINE g == [y \in s |-> -f[y]]
             h == [y \in s \ {x} |-> -f[y]]
  <2>1. Units(h, s \ {x}) = Units(g, s \ {x})
    BY DEF Units
  <2>2. \A y \in s : g[y] \in Int
    OBVIOUS
  <2>3. g[x] = -f[x] /\ f[x] \in Int
    OBVIOUS
  <2> HIDE DEF g
  <2>4. /\ IsFiniteSet(Units(g, s)) /\ IsFiniteSet(Units(g, s \ {x}))
        /\ Cardinality(Units(g, s)) = Cardinality(Units(g, s \ {x})) + (IF g[x] > 0 THEN g[x] ELSE 0)
    BY <2>2, UnitsStep
  <2>5. /\ IsFiniteSet(Units(f, s)) /\ IsFiniteSet(Units(f, s \ {x}))
        /\ Cardinality(Units(f, s)) = Cardinality(Units(f, s \ {x})) + (IF f[x] > 0 THEN f[x] ELSE 0)
    BY UnitsStep
  <2>6. UnitSum(f, s) = Cardinality(Units(f, s)) - Cardinality(Units(g, s))
    BY DEF UnitSum, g
  <2>7. UnitSum(f, s \ {x}) = Cardinality(Units(f, s \ {x})) - Cardinality(Units(g, s \ {x}))
    BY <2>1 DEF UnitSum
  <2>8. Cardinality(Units(f, s \ {x})) \in Nat /\ Cardinality(Units(g, s \ {x})) \in Nat
    BY <2>4, <2>5, FS_CardinalityType
  <2> QED BY <2>3, <2>4, <2>5, <2>6, <2>7, <2>8
<1>2. ASSUME s = {} PROVE UnitSum(f, s) = 0
  <2>1. Units(f, s) = {} /\ Units([x \in s |-> -f[x]], s) = {}
    BY <1>2 DEF Units
  <2> QED BY <2>1, FS_EmptySet DEF UnitSum
<1> QED
  <2>1. CASE s = {}
    BY <1>2, <2>1
  <2>2. CASE s # {}
    <3>1. PICK x : x \in s
      BY <2>2
    <3> QED BY <1>1, <2>2, <3>1
  <2> QED BY <2>1, <2>2

\* The fold of the community modules computes that sum, whatever order it takes the members in.
LEMMA SumIsUnitSum ==
  ASSUME NEW S, IsFiniteSet(S), NEW f, \A x \in S : f[x] \in Int
  PROVE  SumFunctionOnSet(f, S) = UnitSum(f, S)
<1> DEFINE Rec(h) == [s \in SUBSET S |->
                        IF s = {} THEN 0 ELSE f[Chosen(s)] + h[s \ {Chosen(s)}]]
           g == [s \in SUBSET S |-> UnitSum(f, s)]
<1>1. \A s \in SUBSET S : s # {} => Chosen(s) \in s
  BY DEF Chosen
<1>2. g = Rec(g)
  <2>1. ASSUME NEW s \in SUBSET S
        PROVE  g[s] = IF s = {} THEN 0 ELSE f[Chosen(s)] + g[s \ {Chosen(s)}]
    <3>1. IsFiniteSet(s) /\ \A x \in s : f[x] \in Int
      BY FS_Subset
    <3> QED BY <1>1, <3>1, UnitSumStep
  <2> QED BY <2>1
<1>3. PICK h : h = Rec(h) /\ SumFunctionOnSet(f, S) = h[S]
  <2> HIDE DEF g
  <2> QED BY <1>2 DEF SumFunctionOnSet, FoldFunctionOnSet, MapThenFoldSet, Chosen
<1> DEFINE P == {s \in SUBSET S : h[s] = UnitSum(f, s)}
<1> HIDE DEF g
<1>4. ASSUME NEW T \in SUBSET S, \A x \in T : T \ {x} \in P
      PROVE  h[T] = UnitSum(f, T)
  <2>1. IsFiniteSet(T) /\ \A x \in T : f[x] \in Int
    BY FS_Subset
  <2>2. h[T] = IF T = {} THEN 0 ELSE f[Chosen(T)] + h[T \ {Chosen(T)}]
    BY <1>3
  <2>3. CASE T = {}
    BY <2>1, <2>2, <2>3, UnitSumStep
  <2>4. CASE T # {}
    <3>1. Chosen(T) \in T
      BY <1>1, <2>4
    <3>2. h[T \ {Chosen(T)}] = UnitSum(f, T \ {Chosen(T)})
      BY <1>4, <3>1
    <3> QED BY <2>1, <2>2, <2>4, <3>1, <3>2, UnitSumStep
  <2> QED BY <2>3, <2>4
<1>5. \A T \in SUBSET S : (\A x \in T : T \ {x} \in P) => T \in P
  BY <1>4
<1>6. S \in P
  <2> HIDE DEF P
  <2> QED BY <1>5, SubsetInduction
<1> QED BY <1>3, <1>6

\* A sum is that of all members but one, and the value of that one.
LEMMA SumStep ==
  ASSUME NEW S, IsFiniteSet(S), NEW f, \A x \in S : f[x] \in Int
  PROVE  /\ SumFunctionOnSet(f, S) \in Int
         /\ S = {} => SumFunctionOnSet(f, S) = 0
         /\ \A x \in S : /\ SumFunctionOnSet(f, S) = f[x] + SumFunctionOnSet(f, S \ {x})
                         /\ SumFunctionOnSet(f, S \ {x}) \in Int
<1>1. ASSUME NEW x \in S
      PROVE  SumFunctionOnSet(f, S \ {x}) = UnitSum(f, S \ {x})
  BY FS_RemoveElement, SumIsUnitSum
<1> QED BY <1>1, SumIsUnitSum, UnitSumStep

\* Sums of functions that add up, member by member, add up.
LEMMA SumAdd ==
  ASSUME NEW S, IsFiniteSet(S), NEW f, NEW g, NEW h,
         \A x \in S : f[x] \in Int /\ g[x] \in Int /\ h[x] = f[x] + g[x]
  PROVE  SumFunctionOnSet(h, S) = SumFunctionOnSet(f, S) + SumFunctionOnSet(g, S)
<1> DEFINE P == {T \in SUBSET S :
                   SumFunctionOnSet(h, T) = SumFunctionOnSet(f, T) + SumFunctionOnSet(g, T)}
<1>1. ASSUME NEW T \in SUBSET S, \A x \in T : T \ {x} \in P
      PROVE  T \in P
  <2>1. IsFiniteSet(T) /\ \A x \in T : f[x] \in Int /\ g[x] \in Int /\ h[x] \in Int
    BY FS_Subset
  <2>2. CASE T = {}
    BY <2>1, <2>2, SumStep
  <2>3. CASE T # {}
    <3>1. PICK x : x \in T
      BY <2>3
    <3>2. SumFunctionOnSet(h, T \ {x}) = SumFunctionOnSet(f, T \ {x}) + SumFunctionOnSet(g, T \ {x})
      BY <1>1, <3>1
    <3>3. h[x] = f[x] + g[x] /\ f[x] \in Int /\ g[x] \in Int
      BY <3>1
    <3>4. /\ SumFunctionOnSet(h, T) = h[x] + SumFunctionOnSet(h, T \ {x})
          /\ SumFunctionOnSet(f, T) = f[x] + SumFunctionOnSet(f, T \ {x})
          /\ SumFunctionOnSet(g, T) = g[x] + SumFunctionOnSet(g, T \ {x})
          /\ SumFunctionOnSet(f, T \ {x}) \in Int /\ SumFunctionOnSet(g, T \ {x}) \in Int
      BY <2>1, <3>1, SumStep
    <3>5. SumFunctionOnSet(h, T) = SumFunctionOnSet(f, T) + SumFunctionOnSet(g, T)
      BY <3>2, <3>3, <3>4
    <3> QED BY <3>5
  <2> QED BY <2>2, <2>3
<1>2. S \in P
  <2> HIDE DEF P
  <2> QED BY <1>1, SubsetInduction
<1> QED BY <1>2

\* A sum of zeros is zero.
LEMMA SumZero ==
  ASSUME NEW S, IsFiniteSet(S), NEW f, \A x \in S : f[x] = 0
  PROVE  SumFunctionOnSet(f, S) = 0
<1>1. SumFunctionOnSet(f, S) = SumFunctionOnSet(f, S) + SumFunctionOnSet(f, S)
  BY SumAdd
<1>2. SumFunctionOnSet(f, S) \in Int
  BY SumStep
<1>3. \A a \in Int : a = a + a => a = 0
  OBVIOUS
<1> QED BY <1>1, <1>2, <1>3

\* Equal values have equal sums.
LEMMA SumSame ==
  ASSUME NEW S, IsFiniteSet(S), NEW f, NEW g, \A x \in S : f[x] \in Int /\ f[x] = g[x]
  PROVE  SumFunctionOnSet(f, S) = SumFunctionOnSet(g, S)
<1> DEFINE z == [x \in S |-> 0]
<1>1. SumFunctionOnSet(z, S) = 0
  BY SumZero
<1>2. \A x \in S : f[x] \in Int /\ z[x] \in Int /\ g[x] = f[x] + z[x]
  OBVIOUS
<1> HIDE DEF z
<1>3. SumFunctionOnSet(g, S) = SumFunctionOnSet(f, S) + SumFunctionOnSet(z, S)
  BY <1>2, SumAdd
<1>4. SumFunctionOnSet(f, S) \in Int
  BY SumStep
<1> QED BY <1>1, <1>3, <1>4

\* Opposite values have opposite sums.
LEMMA SumNegative ==
  ASSUME NEW S, IsFiniteSet(S), NEW f, NEW g, \A x \in S : f[x] \in Int /\ g[x] = -f[x]
  PROVE  SumFunctionOnSet(g, S) = -SumFunctionOnSet(f, S)
<1> DEFINE z == [x \in S |-> 0]
<1>1. SumFunctionOnSet(z, S) = 0
  BY SumZero
<1>2. \A x \in S : f[x] \in Int /\ g[x] \in Int /\ z[x] = f[x] + g[x]
  OBVIOUS
<1> HIDE DEF z
<1>3. SumFunctionOnSet(z, S) = SumFunctionOnSet(f, S) + SumFunctionOnSet(g, S)
  BY <1>2, SumAdd
<1>4. SumFunctionOnSet(f, S) \in Int /\ SumFunctionOnSet(g, S) \in Int
  BY <1>2, SumStep
<1> QED BY <1>1, <1>3, <1>4

\* The sum over a set is that over its two parts.
LEMMA SumUnion ==
  ASSUME NEW S, IsFiniteSet(S), NEW T, T \subseteq S, NEW f, \A x \in S : f[x] \in Int
  PROVE  /\ SumFunctionOnSet(f, S) = SumFunctionOnSet(f, T) + SumFunctionOnSet(f, S \ T)
         /\ SumFunctionOnSet(f, T) \in Int /\ SumFunctionOnSet(f, S \ T) \in Int
<1> DEFINE P == {U \in SUBSET T :
                   SumFunctionOnSet(f, U \cup (S \ T))
                     = SumFunctionOnSet(f, U) + SumFunctionOnSet(f, S \ T)}
<1>0. /\ IsFiniteSet(T) /\ IsFiniteSet(S \ T)
      /\ SumFunctionOnSet(f, T) \in Int /\ SumFunctionOnSet(f, S \ T) \in Int
  BY FS_Subset, SumStep
<1>1. ASSUME NEW U \in SUBSET T, \A x \in U : U \ {x} \in P
      PROVE  U \in P
  <2> DEFINE V == U \cup (S \ T)
  <2>1. IsFiniteSet(U) /\ IsFiniteSet(V) /\ \A x \in V : f[x] \in Int
    BY FS_Subset
  <2>2. CASE U = {}
    <3>1. V = S \ T
      BY <2>2
    <3>2. SumFunctionOnSet(f, U) = 0
      BY <2>1, <2>2, SumStep
    <3> HIDE DEF V
    <3>3. SumFunctionOnSet(f, V) = SumFunctionOnSet(f, U) + SumFunctionOnSet(f, S \ T)
      BY <1>0, <3>1, <3>2
    <3> QED BY <3>3 DEF V
  <2>3. CASE U # {}
    <3>1. PICK x : x \in U
      BY <2>3
    <3>2. V \ {x} = (U \ {x}) \cup (S \ T)
      BY <3>1
    <3>3. SumFunctionOnSet(f, V \ {x}) = SumFunctionOnSet(f, U \ {x}) + SumFunctionOnSet(f, S \ T)
      BY <1>1, <3>1, <3>2
    <3>4. x \in V /\ f[x] \in Int
      BY <2>1, <3>1
    <3> HIDE DEF V
    <3>5. /\ SumFunctionOnSet(f, V) = f[x] + SumFunctionOnSet(f, V \ {x})
          /\ SumFunctionOnSet(f, V \ {x}) \in Int
      BY <2>1, <3>4, SumStep
    <3>6. /\ SumFunctionOnSet(f, U) = f[x] + SumFunctionOnSet(f, U \ {x})
          /\ SumFunctionOnSet(f, U \ {x}) \in Int
      BY <2>1, <3>1, SumStep
    <3>7. SumFunctionOnSet(f, V) = SumFunctionOnSet(f, U) + SumFunctionOnSet(f, S \ T)
      BY <1>0, <3>3, <3>4, <3>5, <3>6
    <3> QED BY <3>7 DEF V
  <2> QED BY <2>2, <2>3
<1>2. T \in P
  <2> HIDE DEF P
  <2> QED BY <1>0, <1>1, SubsetInduction
<1>3. T \cup (S \ T) = S
  OBVIOUS
<1> QED BY <1>0, <1>2, <1>3

\* Members whose value is zero do not count.
LEMMA SumSupport ==
  ASSUME NEW S, IsFiniteSet(S), NEW T, T \subseteq S, NEW f, \A x \in S : f[x] \in Int,
         \A x \in S \ T : f[x] = 0
  PROVE  SumFunctionOnSet(f, S) = SumFunctionOnSet(f, T)
<1>1. IsFiniteSet(S \ T)
  BY FS_Subset
<1>2. SumFunctionOnSet(f, S \ T) = 0
  BY <1>1, SumZero
<1>3. /\ SumFunctionOnSet(f, S) = SumFunctionOnSet(f, T) + SumFunctionOnSet(f, S \ T)
      /\ SumFunctionOnSet(f, T) \in Int
  BY SumUnion
<1> QED BY <1>2, <1>3

\* The sum over one member.
LEMMA SumOne ==
  ASSUME NEW x, NEW f, f[x] \in Int
  PROVE  SumFunctionOnSet(f, {x}) = f[x]
<1>1. IsFiniteSet({x}) /\ IsFiniteSet({}) /\ {x} \ {x} = {}
  BY FS_Singleton, FS_EmptySet
<1>2. SumFunctionOnSet(f, {}) = 0
  BY <1>1, SumStep
<1>3. SumFunctionOnSet(f, {x}) = f[x] + SumFunctionOnSet(f, {x} \ {x})
  BY <1>1, SumStep
<1>4. SumFunctionOnSet(f, {x} \ {x}) = 0
  BY <1>1, <1>2
<1> QED BY <1>3, <1>4

\* The sum over two members.
LEMMA SumTwo ==
  ASSUME NEW x, NEW y, x # y, NEW f, f[x] \in Int, f[y] \in Int
  PROVE  SumFunctionOnSet(f, {x, y}) = f[x] + f[y]
<1>1. IsFiniteSet({x, y})
  <2>1. IsFiniteSet({x} \cup {y})
    BY FS_Singleton, FS_AddElement
  <2>2. {x} \cup {y} = {x, y}
    OBVIOUS
  <2> QED BY <2>1, <2>2
<1>2. {x, y} \ {x} = {y}
  OBVIOUS
<1>3. SumFunctionOnSet(f, {x, y}) = f[x] + SumFunctionOnSet(f, {x, y} \ {x})
  BY <1>1, SumStep
<1> QED BY <1>2, <1>3, SumOne

\* A sum of non-negative values is non-negative, and positive if one of them is.
LEMMA SumPositive ==
  ASSUME NEW S, IsFiniteSet(S), NEW f, \A x \in S : f[x] \in Int /\ f[x] >= 0
  PROVE  /\ SumFunctionOnSet(f, S) >= 0
         /\ \A x \in S : f[x] > 0 => SumFunctionOnSet(f, S) > 0
<1> DEFINE P == {T \in SUBSET S : SumFunctionOnSet(f, T) >= 0}
<1>1. ASSUME NEW T \in SUBSET S, \A x \in T : T \ {x} \in P
      PROVE  T \in P
  <2>1. IsFiniteSet(T) /\ \A x \in T : f[x] \in Int
    BY FS_Subset
  <2>2. CASE T = {}
    BY <2>1, <2>2, SumStep
  <2>3. CASE T # {}
    <3>1. PICK x : x \in T
      BY <2>3
    <3>2. /\ SumFunctionOnSet(f, T) = f[x] + SumFunctionOnSet(f, T \ {x})
          /\ SumFunctionOnSet(f, T \ {x}) \in Int
      BY <2>1, <3>1, SumStep
    <3>3. SumFunctionOnSet(f, T \ {x}) >= 0 /\ f[x] >= 0 /\ f[x] \in Int
      BY <1>1, <3>1
    <3>4. SumFunctionOnSet(f, T) >= 0
      BY <3>2, <3>3
    <3> QED BY <3>4
  <2> QED BY <2>2, <2>3
<1>2. \A T \in SUBSET S : SumFunctionOnSet(f, T) >= 0
  <2> TAKE U \in SUBSET S
  <2>1. IsFiniteSet(U)
    BY FS_Subset
  <2>2. \A T \in SUBSET U : (\A x \in T : T \ {x} \in P) => T \in P
    BY <1>1
  <2>3. U \in P
    <3> HIDE DEF P
    <3> QED BY <2>1, <2>2, SubsetInduction
  <2> QED BY <2>3
<1>3. ASSUME NEW x \in S, f[x] > 0
      PROVE  SumFunctionOnSet(f, S) > 0
  <2>1. /\ SumFunctionOnSet(f, S) = f[x] + SumFunctionOnSet(f, S \ {x})
        /\ SumFunctionOnSet(f, S \ {x}) \in Int
    BY SumStep
  <2>2. SumFunctionOnSet(f, S \ {x}) >= 0 /\ f[x] \in Int
    BY <1>2
  <2> QED BY <1>3, <2>1, <2>2
<1> QED BY <1>2, <1>3

\* A table of numbers has the same sum by rows and by columns.
LEMMA SumSwap ==
  ASSUME NEW I, IsFiniteSet(I), NEW N, IsFiniteSet(N), NEW F,
         \A i \in I : \A n \in N : F[i][n] \in Int
  PROVE  SumFunctionOnSet([i \in I |-> SumFunctionOnSet(F[i], N)], I)
           = SumFunctionOnSet([n \in N |-> SumFunctionOnSet([i \in I |-> F[i][n]], I)], N)
<1> DEFINE R == [i \in I |-> SumFunctionOnSet(F[i], N)]
           K(n) == [i \in I |-> F[i][n]]
           C(T) == [n \in N |-> SumFunctionOnSet(K(n), T)]
           P == {T \in SUBSET I : SumFunctionOnSet(R, T) = SumFunctionOnSet(C(T), N)}
<1>0. \A i \in I : R[i] = SumFunctionOnSet(F[i], N) /\ R[i] \in Int
  BY SumStep
<1>1. ASSUME NEW T \in SUBSET I, \A x \in T : T \ {x} \in P
      PROVE  SumFunctionOnSet(R, T) = SumFunctionOnSet(C(T), N)
  <2>1. IsFiniteSet(T)
    BY FS_Subset
  <2>2. ASSUME NEW n \in N
        PROVE  /\ SumFunctionOnSet(K(n), T) \in Int
               /\ T = {} => SumFunctionOnSet(K(n), T) = 0
               /\ \A x \in T : /\ SumFunctionOnSet(K(n), T) = F[x][n] + SumFunctionOnSet(K(n), T \ {x})
                               /\ SumFunctionOnSet(K(n), T \ {x}) \in Int
    <3>1. \A i \in T : K(n)[i] \in Int /\ K(n)[i] = F[i][n]
      OBVIOUS
    <3> HIDE DEF K
    <3>2. \A i \in T : K(n)[i] \in Int
      BY <3>1
    <3>3. /\ SumFunctionOnSet(K(n), T) \in Int
          /\ T = {} => SumFunctionOnSet(K(n), T) = 0
          /\ \A x \in T : /\ SumFunctionOnSet(K(n), T) = K(n)[x] + SumFunctionOnSet(K(n), T \ {x})
                          /\ SumFunctionOnSet(K(n), T \ {x}) \in Int
      BY <2>1, <3>2, SumStep
    <3> QED BY <3>1, <3>3
  <2>3. \A x \in T : R[x] \in Int
    BY <1>0
  <2> HIDE DEF R, K
  <2>4. CASE T = {}
    <3>1. SumFunctionOnSet(R, T) = 0
      BY <2>1, <2>3, <2>4, SumStep
    <3>2. \A n \in N : C(T)[n] = 0
      BY <2>2, <2>4
    <3>3. SumFunctionOnSet(C(T), N) = 0
      <4> HIDE DEF C
      <4> QED BY <3>2, SumZero
    <3> QED BY <3>1, <3>3
  <2>5. CASE T # {}
    <3>1. PICK x : x \in T
      BY <2>5
    <3>2. SumFunctionOnSet(R, T) = R[x] + SumFunctionOnSet(R, T \ {x})
      BY <2>1, <2>3, <3>1, SumStep
    <3>3. SumFunctionOnSet(R, T \ {x}) = SumFunctionOnSet(C(T \ {x}), N)
      BY <1>1, <3>1
    <3>4. \A n \in N : F[x][n] \in Int /\ C(T \ {x})[n] \in Int /\ C(T)[n] = F[x][n] + C(T \ {x})[n]
      BY <2>2, <3>1
    <3>5. SumFunctionOnSet(C(T), N) = SumFunctionOnSet(F[x], N) + SumFunctionOnSet(C(T \ {x}), N)
      <4> HIDE DEF C
      <4> QED BY <3>4, SumAdd
    <3>6. R[x] = SumFunctionOnSet(F[x], N)
      BY <1>0, <3>1
    <3> QED BY <3>2, <3>3, <3>5, <3>6
  <2> QED BY <2>4, <2>5
<1>2. \A T \in SUBSET I : (\A x \in T : T \ {x} \in P) => T \in P
  BY <1>1
<1>3. I \in P
  <2> HIDE DEF P
  <2> QED BY <1>2, SubsetInduction
<1> QED BY <1>3

\* The sum over a set is the sum of the sums over its parts, one for each key.
LEMMA SumFibres ==
  ASSUME NEW S, IsFiniteSet(S), NEW A, IsFiniteSet(A), NEW k, \A x \in S : k[x] \in A,
         NEW f, \A x \in S : f[x] \in Int
  PROVE  SumFunctionOnSet([a \in A |-> SumFunctionOnSet(f, {x \in S : k[x] = a})], A)
           = SumFunctionOnSet(f, S)
<1> DEFINE F == [a \in A |-> [x \in S |-> IF k[x] = a THEN f[x] ELSE 0]]
           Part(a) == {x \in S : k[x] = a}
           R == [a \in A |-> SumFunctionOnSet(F[a], S)]
           C == [x \in S |-> SumFunctionOnSet([a \in A |-> F[a][x]], A)]
<1>1. \A a \in A : \A x \in S : F[a][x] \in Int
  OBVIOUS
<1>2. SumFunctionOnSet(R, A) = SumFunctionOnSet(C, S)
  <2> HIDE DEF F
  <2> QED BY <1>1, SumSwap
<1>3. ASSUME NEW a \in A
      PROVE  R[a] = SumFunctionOnSet(f, Part(a)) /\ R[a] \in Int
  <2>0. R[a] = SumFunctionOnSet(F[a], S)
    OBVIOUS
  <2>1. \A x \in S : F[a][x] \in Int
    OBVIOUS
  <2>2. \A x \in S \ Part(a) : F[a][x] = 0
    OBVIOUS
  <2>3. Part(a) \subseteq S /\ IsFiniteSet(Part(a))
    BY FS_Subset
  <2>4. \A x \in Part(a) : F[a][x] \in Int /\ F[a][x] = f[x]
    OBVIOUS
  <2> HIDE DEF F, Part, R
  <2>5. SumFunctionOnSet(F[a], S) = SumFunctionOnSet(F[a], Part(a))
    BY <2>1, <2>2, <2>3, SumSupport
  <2>6. SumFunctionOnSet(F[a], Part(a)) = SumFunctionOnSet(f, Part(a))
    BY <2>3, <2>4, SumSame
  <2> QED BY <2>0, <2>1, <2>5, <2>6, SumStep
<1>4. ASSUME NEW x \in S
      PROVE  C[x] = f[x]
  <2> DEFINE g == [a \in A |-> F[a][x]]
  <2>1. /\ \A a \in A : g[a] \in Int
        /\ \A a \in A \ {k[x]} : g[a] = 0
        /\ {k[x]} \subseteq A /\ g[k[x]] = f[x]
        /\ C[x] = SumFunctionOnSet(g, A)
    OBVIOUS
  <2> HIDE DEF g, C
  <2>2. SumFunctionOnSet(g, A) = SumFunctionOnSet(g, {k[x]})
    BY <2>1, SumSupport
  <2>3. SumFunctionOnSet(g, {k[x]}) = g[k[x]]
    BY <2>1, SumOne
  <2> QED BY <2>1, <2>2, <2>3
<1> DEFINE Q == [a \in A |-> SumFunctionOnSet(f, Part(a))]
<1>5. \A a \in A : R[a] \in Int /\ R[a] = Q[a]
  BY <1>3
<1>6. SumFunctionOnSet(Q, A) = SumFunctionOnSet(R, A)
  <2> HIDE DEF Q, R
  <2> QED BY <1>5, SumSame
<1>7. SumFunctionOnSet(C, S) = SumFunctionOnSet(f, S)
  <2> HIDE DEF C
  <2> QED BY <1>4, SumSame
<1> QED BY <1>2, <1>6, <1>7

\* The sum of a sequence is that of its two parts.
LEMMA SumConcat ==
  ASSUME NEW s \in Seq(Int), NEW t \in Seq(Int)
  PROVE  SumFunction(s \o t) = SumFunction(s) + SumFunction(t)
<1> DEFINE u == s \o t
           m == Len(s)
           Shift(T) == (1..m) \cup {m + j : j \in T}
           P == {T \in SUBSET (1..Len(t)) :
                   SumFunctionOnSet(u, Shift(T)) = SumFunctionOnSet(s, 1..m) + SumFunctionOnSet(t, T)}
<1>0. /\ m \in Nat /\ Len(t) \in Nat /\ u \in Seq(Int) /\ Len(u) = m + Len(t)
      /\ \A j \in 1..m : u[j] = s[j] /\ s[j] \in Int
      /\ \A j \in 1..Len(t) : u[m + j] = t[j] /\ t[j] \in Int
      /\ DOMAIN s = 1..m /\ DOMAIN t = 1..Len(t) /\ DOMAIN u = 1..(m + Len(t))
      /\ \A j \in 1..(m + Len(t)) : u[j] \in Int
  OBVIOUS
<1>1. IsFiniteSet(1..m) /\ IsFiniteSet(1..Len(t)) /\ IsFiniteSet(1..(m + Len(t)))
  BY <1>0, FS_Interval
<1> HIDE DEF u, m
<1>2. SumFunctionOnSet(s, 1..m) \in Int
  BY <1>0, <1>1, SumStep
<1>3. ASSUME NEW T \in SUBSET (1..Len(t)), \A x \in T : T \ {x} \in P
      PROVE  SumFunctionOnSet(u, Shift(T)) = SumFunctionOnSet(s, 1..m) + SumFunctionOnSet(t, T)
  <2>1. Shift(T) \subseteq 1..(m + Len(t))
    BY <1>0
  <2>2. IsFiniteSet(T) /\ \A j \in T : t[j] \in Int
    BY <1>0, <1>1, FS_Subset
  <2>3. IsFiniteSet(Shift(T)) /\ \A j \in Shift(T) : u[j] \in Int
    <3> HIDE DEF Shift
    <3> QED BY <1>0, <1>1, <2>1, FS_Subset
  <2>4. CASE T = {}
    <3>1. Shift(T) = 1..m
      BY <2>4
    <3>2. SumFunctionOnSet(t, T) = 0
      BY <2>2, <2>4, SumStep
    <3>3. SumFunctionOnSet(s, 1..m) = SumFunctionOnSet(u, 1..m)
      BY <1>0, <1>1, SumSame
    <3> HIDE DEF Shift
    <3> QED BY <1>2, <3>1, <3>2, <3>3
  <2>5. CASE T # {}
    <3>1. PICK x : x \in T
      BY <2>5
    <3>2. Shift(T) \ {m + x} = Shift(T \ {x}) /\ m + x \in Shift(T)
      <4>1. x \in Int /\ x > 0 /\ m \in Int /\ \A j \in T : j \in Int
        BY <1>0, <3>1
      <4>2. m + x \notin 1..m /\ \A j \in T : (m + j = m + x) <=> (j = x)
        BY <4>1
      <4> QED BY <3>1, <4>2
    <3>3. SumFunctionOnSet(u, Shift(T \ {x})) = SumFunctionOnSet(s, 1..m) + SumFunctionOnSet(t, T \ {x})
      BY <1>3, <3>1
    <3>4. u[m + x] = t[x] /\ t[x] \in Int
      BY <1>0, <3>1
    <3> HIDE DEF Shift
    <3>5. SumFunctionOnSet(u, Shift(T)) = u[m + x] + SumFunctionOnSet(u, Shift(T) \ {m + x})
      BY <2>3, <3>2, SumStep
    <3> HIDE DEF P
    <3>6. /\ SumFunctionOnSet(t, T) = t[x] + SumFunctionOnSet(t, T \ {x})
          /\ SumFunctionOnSet(t, T \ {x}) \in Int
      BY <2>2, <3>1, SumStep
    <3>7. ASSUME NEW a \in Int, NEW y \in Int, NEW c \in Int
          PROVE  y + (a + c) = a + (y + c)
      OBVIOUS
    <3>8. SumFunctionOnSet(u, Shift(T))
            = t[x] + (SumFunctionOnSet(s, 1..m) + SumFunctionOnSet(t, T \ {x}))
      BY <3>2, <3>3, <3>4, <3>5
    <3> QED BY <1>2, <3>4, <3>6, <3>7, <3>8
  <2> QED BY <2>4, <2>5
<1>4. \A T \in SUBSET (1..Len(t)) : (\A x \in T : T \ {x} \in P) => T \in P
  BY <1>3
<1>5. 1..Len(t) \in P
  <2> HIDE DEF P
  <2> QED BY <1>1, <1>4, SubsetInduction
<1>6. Shift(1..Len(t)) = 1..(m + Len(t))
  <2>1. ASSUME NEW j \in 1..(m + Len(t)), j \notin 1..m
        PROVE  \E i \in 1..Len(t) : j = m + i
    <3>1. j - m \in 1..Len(t) /\ j = m + (j - m)
      BY <1>0, <2>1
    <3> QED BY <3>1
  <2> QED BY <1>0, <2>1
<1> QED BY <1>0, <1>5, <1>6 DEF SumFunction, u

(***************************************************************************)
(* Nodes, draft entries and what they do to balances.                      *)
(***************************************************************************)

\* The node of an account with movements.
Real(a) == [account |-> a, virtual |-> FALSE]

\* The nodes that are posted to an account, and those of the accounts of a collective.
NodesAt(a) == {n \in Node : n.account = a}
NodesUnder(p) == {n \in Node : ParentOf[n.account] = p}

\* A draft entry: integers for some of the nodes.
Entry == UNION {[D -> Int] : D \in SUBSET Node}

\* A node is the real one of an account, or a virtual one.
LEMMA NodeShape ==
  /\ \A n \in Node : /\ n.account \in Accounts
                     /\ n.virtual \in BOOLEAN
                     /\ ~n.virtual => n = Real(n.account)
                     /\ n.virtual => \E p \in SupportParents : n = Virtual(p)
  /\ \A a \in Accounts : Real(a) \in Node
  /\ \A p \in SupportParents : Virtual(p) \in Node
<1>1. ASSUME NEW n \in Node
      PROVE  /\ n.account \in Accounts
             /\ n.virtual \in BOOLEAN
             /\ ~n.virtual => n = Real(n.account)
             /\ n.virtual => \E p \in SupportParents : n = Virtual(p)
  <2>1. CASE n \in [account : Accounts, virtual : {FALSE}]
    BY <2>1 DEF Real
  <2>2. CASE n \in {Virtual(p) : p \in SupportParents}
    <3>1. PICK p \in SupportParents : n = Virtual(p)
      BY <2>2
    <3>2. n.account = Support[p] /\ n.virtual
      BY <3>1 DEF Virtual
    <3> QED BY <3>1, <3>2, SupportAssumption
  <2> QED BY <2>1, <2>2 DEF Node
<1>2. \A a \in Accounts : Real(a) \in Node
  BY DEF Node, Real
<1>3. \A p \in SupportParents : Virtual(p) \in Node
  BY DEF Node
<1> QED BY <1>1, <1>2, <1>3

\* A virtual node is posted to the support account of its collective, and to no other.
LEMMA VirtualShape ==
  ASSUME NEW p \in SupportParents
  PROVE  /\ Virtual(p) \in Node /\ Virtual(p).account = Support[p] /\ Virtual(p).virtual
         /\ Support[p] \in Accounts /\ ParentOf[Support[p]] = p
         /\ \A q \in SupportParents : Virtual(q) = Virtual(p) => q = p
<1>1. Virtual(p) \in Node /\ Virtual(p).account = Support[p] /\ Virtual(p).virtual
  BY DEF Node, Virtual
<1>2. ASSUME NEW q \in SupportParents, Virtual(q) = Virtual(p)
      PROVE  q = p
  <2>1. Virtual(q).account = Support[q]
    BY DEF Virtual
  <2> QED BY <1>1, <1>2, <2>1, SupportAssumption
<1> QED BY <1>1, <1>2, SupportAssumption

\* A company has finitely many nodes.
LEMMA NodesFinite ==
  /\ IsFiniteSet(Node)
  /\ \A N \in SUBSET Node : IsFiniteSet(N)
  /\ \A a : IsFiniteSet(NodesAt(a)) /\ IsFiniteSet(NodesUnder(a))
<1> DEFINE V == {[account |-> a, virtual |-> TRUE] : a \in Accounts}
           R == {Real(a) : a \in Accounts}
           v == [a \in Accounts |-> [account |-> a, virtual |-> TRUE]]
           r == [a \in Accounts |-> Real(a)]
<1>1. v \in Surjection(Accounts, V) /\ r \in Surjection(Accounts, R)
  BY DEF Surjection
<1>2. IsFiniteSet(V) /\ IsFiniteSet(R)
  <2> HIDE DEF V, R, v, r
  <2> QED BY <1>1, AccountsAssumption, FS_Surjection
<1>3. Node \subseteq V \cup R
  <2> SUFFICES ASSUME NEW n \in Node PROVE n \in V \cup R
    OBVIOUS
  <2>1. CASE n.virtual
    BY <2>1, NodeShape, SupportAssumption DEF Virtual
  <2>2. CASE ~n.virtual
    BY <2>2, NodeShape
  <2> QED BY <2>1, <2>2
<1>4. IsFiniteSet(V \cup R)
  <2> HIDE DEF V, R
  <2> QED BY <1>2, FS_Union
<1>5. IsFiniteSet(Node)
  <2> HIDE DEF V, R
  <2> QED BY <1>3, <1>4, FS_Subset
<1>6. \A N \in SUBSET Node : IsFiniteSet(N)
  BY <1>5, FS_Subset
<1> QED BY <1>5, <1>6 DEF NodesAt, NodesUnder

\* A draft entry moves integers, and nothing on the nodes that it has no line for.
LEMMA AmountType ==
  ASSUME NEW e \in Entry
  PROVE  /\ DOMAIN e \subseteq Node
         /\ \A n \in DOMAIN e : e[n] \in Int
         /\ \A n : Amount(e, n) \in Int
BY DEF Entry, Amount

\* What drafts move on one node is a sequence of integers.
LEMMA AmountsAreSeq ==
  ASSUME NEW drafts \in Seq(Entry), NEW n
  PROVE  [i \in DOMAIN drafts |-> Amount(drafts[i], n)] \in Seq(Int)
<1>1. \A i \in 1..Len(drafts) : Amount(drafts[i], n) \in Int
  BY AmountType
<1> QED BY <1>1

\* _apply_entry_to_balances keeps balances of nodes.
LEMMA ApplyType ==
  ASSUME NEW b \in [Node -> Int], NEW drafts \in Seq(Entry)
  PROVE  ApplyAll(b, drafts) \in [Node -> Int]
<1>1. ASSUME NEW n \in Node
      PROVE  SumFunction([i \in DOMAIN drafts |-> Amount(drafts[i], n)]) \in Int
  <2> DEFINE f == [i \in DOMAIN drafts |-> Amount(drafts[i], n)]
  <2>1. \A i \in DOMAIN f : f[i] \in Int
    BY AmountType
  <2>2. IsFiniteSet(DOMAIN f)
    BY FS_Interval
  <2> HIDE DEF f
  <2> QED BY <2>1, <2>2, SumStep DEF SumFunction, f
<1> QED BY <1>1 DEF ApplyAll

\* Drafts are applied one after the other.
LEMMA ApplyConcat ==
  ASSUME NEW b \in [Node -> Int], NEW s \in Seq(Entry), NEW t \in Seq(Entry)
  PROVE  ApplyAll(ApplyAll(b, s), t) = ApplyAll(b, s \o t)
<1>1. ASSUME NEW n \in Node
      PROVE  ApplyAll(ApplyAll(b, s), t)[n] = ApplyAll(b, s \o t)[n]
  <2> DEFINE f == [i \in DOMAIN s |-> Amount(s[i], n)]
             g == [i \in DOMAIN t |-> Amount(t[i], n)]
             h == [i \in DOMAIN (s \o t) |-> Amount((s \o t)[i], n)]
  <2>1. f \in Seq(Int) /\ g \in Seq(Int)
    BY AmountsAreSeq
  <2>2. h = f \o g
    <3>1. Len(f) = Len(s) /\ Len(g) = Len(t)
      OBVIOUS
    <3>2. h = [i \in 1..(Len(s) + Len(t)) |-> h[i]] /\ DOMAIN h = 1..(Len(s) + Len(t))
      OBVIOUS
    <3>3. f \o g = [i \in 1..(Len(s) + Len(t)) |-> (f \o g)[i]]
      <4>1. ASSUME NEW u \in Seq(Int), NEW v \in Seq(Int)
            PROVE  u \o v \in Seq(Int) /\ Len(u \o v) = Len(u) + Len(v)
        OBVIOUS
      <4>2. ASSUME NEW q \in Seq(Int) PROVE q = [i \in 1..Len(q) |-> q[i]]
        <5>1. q \in [1..Len(q) -> Int]
          OBVIOUS
        <5> QED BY <5>1
      <4> HIDE DEF f, g, h
      <4> DEFINE w == f \o g
      <4>3. w \in Seq(Int) /\ Len(w) = Len(s) + Len(t)
        <5>1. w \in Seq(Int) /\ Len(w) = Len(f) + Len(g)
          BY <2>1, <4>1, Zenon
        <5> HIDE DEF w
        <5> QED BY <3>1, <5>1
      <4> HIDE DEF w
      <4>4. w = [i \in 1..(Len(s) + Len(t)) |-> w[i]]
        BY <4>2, <4>3
      <4> QED BY <4>4 DEF w
    <3>4. ASSUME NEW i \in 1..(Len(s) + Len(t)) PROVE h[i] = (f \o g)[i]
      <4>1. h[i] = Amount((s \o t)[i], n)
        OBVIOUS
      <4>2. CASE i <= Len(s)
        <5>1. (s \o t)[i] = s[i] /\ f[i] = Amount(s[i], n)
          BY <4>2
        <5>2. (f \o g)[i] = f[i]
          <6> HIDE DEF f, g
          <6> QED BY <2>1, <3>1, <4>2
        <5> QED BY <4>1, <5>1, <5>2
      <4>3. CASE i > Len(s)
        <5>1. (s \o t)[i] = t[i - Len(s)] /\ g[i - Len(s)] = Amount(t[i - Len(s)], n)
          BY <4>3
        <5>2. (f \o g)[i] = g[i - Len(s)]
          <6> HIDE DEF f, g
          <6> QED BY <2>1, <3>1, <4>3
        <5> QED BY <4>1, <5>1, <5>2
      <4> QED BY <4>2, <4>3
    <3> HIDE DEF f, g, h
    <3> QED BY <3>2, <3>3, <3>4
  <2>3. /\ ApplyAll(b, s)[n] = b[n] + SumFunction(f)
        /\ ApplyAll(ApplyAll(b, s), t)[n] = ApplyAll(b, s)[n] + SumFunction(g)
        /\ ApplyAll(b, s \o t)[n] = b[n] + SumFunction(h)
    BY DEF ApplyAll
  <2> HIDE DEF f, g, h
  <2>4. SumFunction(h) = SumFunction(f) + SumFunction(g)
    BY <2>1, <2>2, SumConcat
  <2>5. SumFunction(f) \in Int /\ SumFunction(g) \in Int
    <3>1. ASSUME NEW q \in Seq(Int) PROVE SumFunction(q) \in Int
      <4>1. IsFiniteSet(DOMAIN q) /\ \A i \in DOMAIN q : q[i] \in Int
        BY FS_Interval
      <4> QED BY <4>1, SumStep DEF SumFunction
    <3> QED BY <2>1, <3>1
  <2> QED BY <2>3, <2>4, <2>5
<1>2. ApplyAll(ApplyAll(b, s), t) = [n \in Node |-> ApplyAll(ApplyAll(b, s), t)[n]]
  BY DEF ApplyAll
<1>3. ApplyAll(b, s \o t) = [n \in Node |-> ApplyAll(b, s \o t)[n]]
  BY DEF ApplyAll
<1> QED BY <1>1, <1>2, <1>3

\* Nothing is applied without a draft.
LEMMA ApplyNone ==
  ASSUME NEW b \in [Node -> Int]
  PROVE  ApplyAll(b, << >>) = b
<1>1. ASSUME NEW n
      PROVE  SumFunction([i \in DOMAIN << >> |-> Amount(<< >>[i], n)]) = 0
  <2> DEFINE f == [i \in DOMAIN << >> |-> Amount(<< >>[i], n)]
  <2>1. DOMAIN f = {}
    OBVIOUS
  <2> HIDE DEF f
  <2>2. SumFunctionOnSet(f, {}) = 0
    BY FS_EmptySet, SumStep
  <2> QED BY <2>1, <2>2 DEF SumFunction, f
<1> QED BY <1>1 DEF ApplyAll

\* One draft adds its amounts.
LEMMA ApplyOne ==
  ASSUME NEW b \in [Node -> Int], NEW e \in Entry
  PROVE  /\ ApplyAll(b, << e >>) \in [Node -> Int]
         /\ \A n \in Node : ApplyAll(b, << e >>)[n] = b[n] + Amount(e, n)
<1>1. ASSUME NEW n \in Node
      PROVE  ApplyAll(b, << e >>)[n] = b[n] + Amount(e, n)
  <2> DEFINE f == [i \in DOMAIN << e >> |-> Amount(<< e >>[i], n)]
  <2>1. DOMAIN f = {1} /\ f[1] = Amount(e, n)
    OBVIOUS
  <2>2. ApplyAll(b, << e >>)[n] = b[n] + SumFunction(f)
    BY DEF ApplyAll
  <2> HIDE DEF f
  <2>3. f[1] \in Int
    BY <2>1, AmountType
  <2> QED BY <2>1, <2>2, <2>3, SumOne DEF SumFunction
<1>2. << e >> \in Seq(Entry)
  OBVIOUS
<1> QED BY <1>1, <1>2, ApplyType

\* What drafts add to the sum of some nodes is what they move on these nodes, one by one.
LEMMA ApplySum ==
  ASSUME NEW b \in [Node -> Int], NEW drafts \in Seq(Entry), NEW N \in SUBSET Node
  PROVE  LET on(e) == SumFunctionOnSet([n \in N |-> Amount(e, n)], N)
         IN  /\ SumFunctionOnSet(ApplyAll(b, drafts), N)
                  = SumFunctionOnSet(b, N) + SumFunction([i \in DOMAIN drafts |-> on(drafts[i])])
             /\ \A i \in DOMAIN drafts : on(drafts[i]) \in Int
             /\ SumFunctionOnSet(b, N) \in Int
<1> DEFINE on(e) == SumFunctionOnSet([n \in N |-> Amount(e, n)], N)
           I == DOMAIN drafts
           F == [i \in I |-> [n \in N |-> Amount(drafts[i], n)]]
           C == [n \in N |-> SumFunctionOnSet([i \in I |-> F[i][n]], I)]
           R == [i \in I |-> SumFunctionOnSet(F[i], N)]
<1>0. IsFiniteSet(I) /\ IsFiniteSet(N) /\ \A i \in I : drafts[i] \in Entry
  BY FS_Interval, NodesFinite
<1>1. \A i \in I : \A n \in N : F[i][n] \in Int
  BY AmountType
<1>2. SumFunctionOnSet(R, I) = SumFunctionOnSet(C, N)
  <2> HIDE DEF F, I
  <2> QED BY <1>0, <1>1, SumSwap
<1>3. \A n \in N : C[n] \in Int
  <2> SUFFICES ASSUME NEW n \in N PROVE C[n] \in Int
    OBVIOUS
  <2> DEFINE f == [i \in I |-> F[i][n]]
  <2>1. C[n] = SumFunctionOnSet(f, I) /\ \A i \in I : f[i] \in Int
    BY <1>1
  <2> HIDE DEF f, C, I
  <2> QED BY <1>0, <2>1, SumStep
<1>4. ASSUME NEW n \in N
      PROVE  ApplyAll(b, drafts)[n] = b[n] + C[n]
  <2>1. [i \in I |-> F[i][n]] = [i \in DOMAIN drafts |-> Amount(drafts[i], n)]
    OBVIOUS
  <2>2. C[n] = SumFunction([i \in DOMAIN drafts |-> Amount(drafts[i], n)])
    BY <2>1 DEF SumFunction
  <2> HIDE DEF C
  <2> QED BY <2>2 DEF ApplyAll
<1>5. SumFunctionOnSet(ApplyAll(b, drafts), N) = SumFunctionOnSet(b, N) + SumFunctionOnSet(C, N)
  <2>1. \A n \in N : b[n] \in Int
    OBVIOUS
  <2> HIDE DEF C
  <2> QED BY <1>0, <1>3, <1>4, <2>1, SumAdd
<1>6. R = [i \in DOMAIN drafts |-> on(drafts[i])]
  OBVIOUS
<1>7. \A i \in I : on(drafts[i]) \in Int
  <2> SUFFICES ASSUME NEW i \in I PROVE on(drafts[i]) \in Int
    OBVIOUS
  <2> DEFINE f == [n \in N |-> Amount(drafts[i], n)]
  <2>1. \A n \in N : f[n] \in Int
    BY <1>0, AmountType
  <2> HIDE DEF f, I
  <2>2. SumFunctionOnSet(f, N) \in Int
    BY <1>0, <2>1, SumStep
  <2> QED BY <2>2 DEF f
<1>8. SumFunctionOnSet(R, I) = SumFunction(R)
  BY DEF SumFunction
<1>9. SumFunctionOnSet(b, N) \in Int
  BY <1>0, SumStep
<1> QED BY <1>2, <1>5, <1>6, <1>7, <1>8, <1>9

\* _resolve_line_account_ids: what an entry posts to an account is what it moves on its nodes.
LEMMA PostedByNode ==
  ASSUME NEW e \in Entry, NEW a
  PROVE  Posted(e, a) = SumFunctionOnSet([n \in NodesAt(a) |-> Amount(e, n)], NodesAt(a))
<1> DEFINE f == [n \in NodesAt(a) |-> Amount(e, n)]
           D == {n \in DOMAIN e : n.account = a}
<1>1. /\ D \subseteq NodesAt(a) /\ \A n \in NodesAt(a) : f[n] \in Int
      /\ \A n \in NodesAt(a) \ D : f[n] = 0
      /\ \A n \in D : f[n] \in Int /\ f[n] = e[n]
  BY AmountType DEF NodesAt, Amount
<1>2. IsFiniteSet(NodesAt(a)) /\ IsFiniteSet(D)
  BY <1>1, NodesFinite, FS_Subset
<1> HIDE DEF f, D
<1>3. SumFunctionOnSet(f, NodesAt(a)) = SumFunctionOnSet(f, D)
  BY <1>1, <1>2, SumSupport
<1>4. SumFunctionOnSet(f, D) = SumFunctionOnSet(e, D)
  BY <1>1, <1>2, SumSame
<1> QED BY <1>3, <1>4 DEF Posted, f, D

\* A balance that is loaded is that of the account.
LEMMA LoadSums ==
  ASSUME NEW L \in [Accounts -> Int]
  PROVE  /\ LoadBalanceNodes(L) \in [Node -> Int]
         /\ \A a \in Accounts : SumFunctionOnSet(LoadBalanceNodes(L), NodesAt(a)) = L[a]
         /\ \A a \in Accounts : LoadBalanceNodes(L)[Real(a)] = L[a]
<1> DEFINE b == LoadBalanceNodes(L)
<1>1. b \in [Node -> Int] /\ \A n \in Node : b[n] = IF n.virtual THEN 0 ELSE L[n.account]
  BY NodeShape DEF LoadBalanceNodes
<1>2. ASSUME NEW a \in Accounts
      PROVE  SumFunctionOnSet(b, NodesAt(a)) = L[a] /\ b[Real(a)] = L[a]
  <2>1. Real(a) \in NodesAt(a) /\ b[Real(a)] = L[a] /\ L[a] \in Int
    BY <1>1, NodeShape DEF NodesAt, Real
  <2>2. \A n \in NodesAt(a) \ {Real(a)} : b[n] = 0
    BY <1>1, NodeShape DEF NodesAt
  <2>3. IsFiniteSet(NodesAt(a)) /\ \A n \in NodesAt(a) : b[n] \in Int
    BY <1>1, NodesFinite DEF NodesAt
  <2> HIDE DEF b
  <2>4. SumFunctionOnSet(b, NodesAt(a)) = SumFunctionOnSet(b, {Real(a)})
    BY <2>1, <2>2, <2>3, SumSupport
  <2> QED BY <2>1, <2>4, SumOne
<1> QED BY <1>1, <1>2

\* What is posted for drafts that were applied to the loaded balances is, on each account, the
\* balance of its nodes.
LEMMA PostAllByNode ==
  ASSUME NEW L \in [Accounts -> Int], NEW drafts \in Seq(Entry)
  PROVE  /\ PostAll(L, drafts) \in [Accounts -> Int]
         /\ \A a \in Accounts :
              PostAll(L, drafts)[a]
                = SumFunctionOnSet(ApplyAll(LoadBalanceNodes(L), drafts), NodesAt(a))
<1>1. ASSUME NEW a \in Accounts
      PROVE  /\ PostAll(L, drafts)[a]
                  = SumFunctionOnSet(ApplyAll(LoadBalanceNodes(L), drafts), NodesAt(a))
             /\ PostAll(L, drafts)[a] \in Int
  <2> DEFINE on(e) == SumFunctionOnSet([n \in NodesAt(a) |-> Amount(e, n)], NodesAt(a))
             b == LoadBalanceNodes(L)
  <2>1. b \in [Node -> Int] /\ SumFunctionOnSet(b, NodesAt(a)) = L[a] /\ NodesAt(a) \in SUBSET Node
    BY LoadSums DEF NodesAt
  <2>2. \A i \in DOMAIN drafts : drafts[i] \in Entry
    OBVIOUS
  <2>3. [i \in DOMAIN drafts |-> Posted(drafts[i], a)] = [i \in DOMAIN drafts |-> on(drafts[i])]
    BY <2>2, PostedByNode
  <2>4. PostAll(L, drafts)[a] = L[a] + SumFunction([i \in DOMAIN drafts |-> Posted(drafts[i], a)])
    BY DEF PostAll
  <2> HIDE DEF b
  <2>5. SumFunctionOnSet(ApplyAll(b, drafts), NodesAt(a))
          = SumFunctionOnSet(b, NodesAt(a)) + SumFunction([i \in DOMAIN drafts |-> on(drafts[i])])
    BY <2>1, ApplySum
  <2>6. ApplyAll(b, drafts) \in [Node -> Int]
    BY <2>1, ApplyType
  <2>7. SumFunctionOnSet(ApplyAll(b, drafts), NodesAt(a)) \in Int
    BY <2>1, <2>6, NodesFinite, SumStep
  <2> QED BY <2>1, <2>3, <2>4, <2>5, <2>7 DEF b
<1>2. PostAll(L, drafts) = [a \in Accounts |-> PostAll(L, drafts)[a]]
  BY DEF PostAll
<1> QED BY <1>1, <1>2

\* Entries whose lines balance leave the total of all nodes alone.
LEMMA ApplyKeepsTotal ==
  ASSUME NEW b \in [Node -> Int], NEW drafts \in Seq(Entry),
         \A i \in DOMAIN drafts : SumFunction(drafts[i]) = 0
  PROVE  SumFunctionOnSet(ApplyAll(b, drafts), Node) = SumFunctionOnSet(b, Node)
<1> DEFINE on(e) == SumFunctionOnSet([n \in Node |-> Amount(e, n)], Node)
           q == [i \in DOMAIN drafts |-> on(drafts[i])]
<1>1. /\ SumFunctionOnSet(ApplyAll(b, drafts), Node) = SumFunctionOnSet(b, Node) + SumFunction(q)
      /\ SumFunctionOnSet(b, Node) \in Int
  BY ApplySum
<1>2. ASSUME NEW e \in Entry
      PROVE  on(e) = SumFunction(e)
  <2> DEFINE f == [n \in Node |-> Amount(e, n)]
             D == DOMAIN e
  <2>1. /\ D \subseteq Node /\ \A n \in Node : f[n] \in Int
        /\ \A n \in Node \ D : f[n] = 0
        /\ \A n \in D : f[n] \in Int /\ f[n] = e[n]
    BY AmountType DEF Amount
  <2>2. IsFiniteSet(Node) /\ IsFiniteSet(D)
    BY <2>1, NodesFinite
  <2> HIDE DEF f, D
  <2>3. SumFunctionOnSet(f, Node) = SumFunctionOnSet(f, D)
    BY <2>1, <2>2, SumSupport
  <2>4. SumFunctionOnSet(f, D) = SumFunctionOnSet(e, D)
    BY <2>1, <2>2, SumSame
  <2> QED BY <2>3, <2>4 DEF SumFunction, f, D
<1>3. \A i \in DOMAIN q : q[i] = 0
  BY <1>2
<1>4. IsFiniteSet(DOMAIN q)
  BY FS_Interval
<1> HIDE DEF q
<1>5. SumFunction(q) = 0
  BY <1>3, <1>4, SumZero DEF SumFunction
<1> QED BY <1>1, <1>5

\* The accounts of a collective.
AccountsUnder(p) == {a \in Accounts : ParentOf[a] = p}

\* The balance of a collective and the total, account by account.
LEMMA ByAccount ==
  ASSUME NEW b \in [Node -> Int]
  PROVE  /\ SumFunctionOnSet([a \in Accounts |-> SumFunctionOnSet(b, NodesAt(a))], Accounts)
              = SumFunctionOnSet(b, Node)
         /\ \A p : SumFunctionOnSet([a \in AccountsUnder(p) |-> SumFunctionOnSet(b, NodesAt(a))],
                                    AccountsUnder(p))
                     = ParentBalance(b, p)
<1> DEFINE k == [n \in Node |-> n.account]
<1>1. ASSUME NEW N \in SUBSET Node, NEW A \in SUBSET Accounts,
             \A a \in A : NodesAt(a) \subseteq N, \A n \in N : n.account \in A
      PROVE  SumFunctionOnSet([a \in A |-> SumFunctionOnSet(b, NodesAt(a))], A)
               = SumFunctionOnSet(b, N)
  <2>1. \A a \in A : {n \in N : k[n] = a} = NodesAt(a)
    BY <1>1 DEF NodesAt
  <2>2. [a \in A |-> SumFunctionOnSet(b, {n \in N : k[n] = a})]
          = [a \in A |-> SumFunctionOnSet(b, NodesAt(a))]
    BY <2>1
  <2>3. IsFiniteSet(N) /\ IsFiniteSet(A)
    BY NodesFinite, AccountsAssumption, FS_Subset
  <2>4. \A n \in N : k[n] \in A /\ b[n] \in Int
    BY <1>1
  <2> HIDE DEF k
  <2>5. SumFunctionOnSet([a \in A |-> SumFunctionOnSet(b, {n \in N : k[n] = a})], A)
          = SumFunctionOnSet(b, N)
    BY <2>3, <2>4, SumFibres
  <2> QED BY <2>2, <2>5
<1>2. SumFunctionOnSet([a \in Accounts |-> SumFunctionOnSet(b, NodesAt(a))], Accounts)
        = SumFunctionOnSet(b, Node)
  BY <1>1, NodeShape DEF NodesAt
<1>3. ASSUME NEW p
      PROVE  SumFunctionOnSet([a \in AccountsUnder(p) |-> SumFunctionOnSet(b, NodesAt(a))],
                              AccountsUnder(p)) = ParentBalance(b, p)
  <2>1. /\ NodesUnder(p) \in SUBSET Node /\ AccountsUnder(p) \in SUBSET Accounts
        /\ \A a \in AccountsUnder(p) : NodesAt(a) \subseteq NodesUnder(p)
        /\ \A n \in NodesUnder(p) : n.account \in AccountsUnder(p)
    BY NodeShape DEF NodesUnder, NodesAt, AccountsUnder
  <2>2. ParentBalance(b, p) = SumFunctionOnSet(b, NodesUnder(p))
    BY DEF ParentBalance, NodesUnder
  <2> QED BY <1>1, <2>1, <2>2
<1> QED BY <1>2, <1>3

\* Balances that agree account by account agree on every collective and in total.
LEMMA SameByAccount ==
  ASSUME NEW b \in [Node -> Int], NEW c \in [Node -> Int],
         \A a \in Accounts : SumFunctionOnSet(b, NodesAt(a)) = SumFunctionOnSet(c, NodesAt(a))
  PROVE  /\ SumFunctionOnSet(b, Node) = SumFunctionOnSet(c, Node)
         /\ \A p : ParentBalance(b, p) = ParentBalance(c, p)
<1>1. ASSUME NEW A \in SUBSET Accounts
      PROVE  [a \in A |-> SumFunctionOnSet(b, NodesAt(a))] = [a \in A |-> SumFunctionOnSet(c, NodesAt(a))]
  OBVIOUS
<1>2. \A p : AccountsUnder(p) \in SUBSET Accounts
  BY DEF AccountsUnder
<1> QED BY <1>1, <1>2, ByAccount

\* A change of one member changes the sum by as much.
LEMMA SumChange ==
  ASSUME NEW S, IsFiniteSet(S), NEW f, NEW g, NEW x \in S, NEW d \in Int,
         \A y \in S : f[y] \in Int, g[x] = f[x] + d, \A y \in S \ {x} : g[y] = f[y]
  PROVE  SumFunctionOnSet(g, S) = SumFunctionOnSet(f, S) + d
<1>1. IsFiniteSet(S \ {x}) /\ \A y \in S : g[y] \in Int
  BY FS_RemoveElement
<1>2. SumFunctionOnSet(f, S \ {x}) = SumFunctionOnSet(g, S \ {x})
  BY <1>1, SumSame
<1>3. /\ SumFunctionOnSet(f, S) = f[x] + SumFunctionOnSet(f, S \ {x})
      /\ SumFunctionOnSet(f, S \ {x}) \in Int
  BY SumStep
<1>4. SumFunctionOnSet(g, S) = g[x] + SumFunctionOnSet(g, S \ {x})
  BY <1>1, SumStep
<1>5. f[x] \in Int
  OBVIOUS
<1> QED BY <1>2, <1>3, <1>4, <1>5

\* A collective whose nodes are left alone keeps its balance.
LEMMA ParentSame ==
  ASSUME NEW b \in [Node -> Int], NEW c \in [Node -> Int], NEW p,
         \A n \in NodesUnder(p) : b[n] = c[n]
  PROVE  ParentBalance(b, p) = ParentBalance(c, p)
<1>1. \A n \in NodesUnder(p) : b[n] \in Int
  BY DEF NodesUnder
<1>2. SumFunctionOnSet(b, NodesUnder(p)) = SumFunctionOnSet(c, NodesUnder(p))
  BY <1>1, NodesFinite, SumSame
<1> QED BY <1>2 DEF ParentBalance, NodesUnder

\* One half of _build_adjustment_entries: an entry that can be posted and brings the collective
\* to its count, or none without a count.
LEMMA AdjustmentEffect ==
  ASSUME NEW b \in [Node -> Int], NEW count \in Count,
         NEW parent \in SupportParents, NEW shortage \in SupportParents,
         NEW surplus \in SupportParents, parent # shortage, parent # surplus
  PROVE  LET new == Adjustment(b, count, parent, shortage, surplus)
             c   == ApplyAll(b, new)
         IN  /\ new \in Seq(Entry) /\ \A i \in DOMAIN new : ValidLines(new[i])
             /\ c \in [Node -> Int]
             /\ \A n \in Node \ {Virtual(parent), Virtual(shortage), Virtual(surplus)} : c[n] = b[n]
             /\ count.given => ParentBalance(c, parent) = count.amount
             /\ ~count.given => new = << >>
<1> DEFINE new == Adjustment(b, count, parent, shortage, surplus)
           c == ApplyAll(b, new)
           d == count.amount - ParentBalance(b, parent)
           v == Virtual(parent)
           o == Virtual(IF d > 0 THEN surplus ELSE shortage)
           e == [n \in {v, o} |-> IF n = o THEN -d ELSE d]
<1>1. ParentBalance(b, parent) \in Int /\ count.amount \in Int
  <2>1. \A n \in NodesUnder(parent) : b[n] \in Int
    BY DEF NodesUnder
  <2>2. SumFunctionOnSet(b, NodesUnder(parent)) \in Int
    BY <2>1, NodesFinite, SumStep
  <2>3. ParentBalance(b, parent) = SumFunctionOnSet(b, NodesUnder(parent))
    BY DEF ParentBalance, NodesUnder
  <2>4. count.amount \in Int
    <3>1. CASE count \in [given : {TRUE}, amount : 0..MaxAmount]
      BY <3>1, BoundsAssumption
    <3>2. CASE count = [given |-> FALSE, amount |-> 0]
      BY <3>2
    <3> QED BY <3>1, <3>2 DEF Count
  <2> QED BY <2>2, <2>3, <2>4
<1>2. d \in Int
  BY <1>1
<1>3. CASE ~count.given \/ d = 0
  <2>1. new = << >>
    BY <1>3 DEF Adjustment
  <2>2. c = b
    BY <2>1, ApplyNone
  <2>3. new \in Seq(Entry) /\ DOMAIN new = {}
    BY <2>1
  <2>4. count.given => ParentBalance(b, parent) = count.amount
    BY <1>1, <1>3
  <2> HIDE DEF new, c
  <2> QED BY <2>1, <2>2, <2>3, <2>4 DEF new, c
<1>4. CASE count.given /\ d # 0
  <2>1. new = << e >>
    BY <1>4 DEF Adjustment
  <2> DEFINE other == IF d > 0 THEN surplus ELSE shortage
  <2>2. other \in SupportParents /\ other # parent
    OBVIOUS
  <2>3. /\ v \in Node /\ o \in Node /\ v # o /\ o \in {Virtual(surplus), Virtual(shortage)}
        /\ v \in NodesUnder(parent) /\ o \notin NodesUnder(parent)
    BY <2>2, VirtualShape DEF NodesUnder
  <2> HIDE DEF v, o, d, other
  <2>4. /\ DOMAIN e = {v, o} /\ e[v] = d /\ e[o] = -d
        /\ e \in [{v, o} -> Int] /\ {v, o} \in SUBSET Node
    BY <1>2, <2>3
  <2>5. e \in Entry
    BY <2>4 DEF Entry
  <2> HIDE DEF e
  <2>6. ValidLines(e)
    <3>1. SumFunction(e) = 0
      <4>1. SumFunctionOnSet(e, {v, o}) = e[v] + e[o]
        BY <1>2, <2>3, <2>4, SumTwo
      <4> QED BY <1>2, <2>4, <4>1 DEF SumFunction
    <3>2. \A n \in DOMAIN e : e[n] # 0
      BY <1>2, <1>4, <2>4
    <3>3. {n \in DOMAIN e : e[n] > 0} # {} /\ {n \in DOMAIN e : e[n] < 0} # {}
      <4>1. CASE d > 0
        BY <1>2, <2>4, <4>1
      <4>2. CASE d < 0
        BY <1>2, <2>4, <4>2
      <4> QED BY <1>2, <1>4, <4>1, <4>2
    <3> QED BY <3>1, <3>2, <3>3 DEF ValidLines
  <2>7. new \in Seq(Entry) /\ \A i \in DOMAIN new : ValidLines(new[i])
    BY <2>1, <2>5, <2>6
  <2>8. c \in [Node -> Int] /\ \A n \in Node : c[n] = b[n] + Amount(e, n)
    BY <2>1, <2>5, ApplyOne
  <2> HIDE DEF c, new
  <2>9. /\ \A n \in Node \ {v, o} : c[n] = b[n]
        /\ c[v] = b[v] + d
    BY <2>3, <2>4, <2>8 DEF Amount
  <2>10. ParentBalance(c, parent) = count.amount
    <3>1. SumFunctionOnSet(c, NodesUnder(parent)) = SumFunctionOnSet(b, NodesUnder(parent)) + d
      <4>1. /\ IsFiniteSet(NodesUnder(parent)) /\ \A n \in NodesUnder(parent) : b[n] \in Int
            /\ \A n \in NodesUnder(parent) \ {v} : c[n] = b[n]
        BY <2>3, <2>9, NodesFinite DEF NodesUnder
      <4> QED BY <1>2, <2>3, <2>9, <4>1, SumChange
    <3>2. ParentBalance(c, parent) = ParentBalance(b, parent) + d
      BY <3>1 DEF ParentBalance, NodesUnder
    <3> QED BY <1>1, <3>2 DEF d
  <2>11. \A n \in Node \ {Virtual(parent), Virtual(shortage), Virtual(surplus)} : c[n] = b[n]
    BY <2>3, <2>9 DEF v
  <2> QED BY <1>4, <2>7, <2>8, <2>10, <2>11 DEF new, c
<1> QED BY <1>3, <1>4

\* One half of _build_result_closing_entries, for nodes that are all on one side: an entry that
\* can be posted and moves their sum to 3.02.
LEMMA CloseAgainstResultEffect ==
  ASSUME NEW b \in [Node -> Int], NEW nodes \in SUBSET Node, Virtual(Result) \notin nodes,
         \/ \A n \in nodes : b[n] > 0
         \/ \A n \in nodes : b[n] < 0
  PROVE  LET new == CloseAgainstResult(b, nodes)
         IN  /\ new \in Seq(Entry) /\ \A i \in DOMAIN new : ValidLines(new[i])
             /\ \A c \in [Node -> Int] :
                  /\ ApplyAll(c, new) \in [Node -> Int]
                  /\ \A n \in Node \ (nodes \cup {Virtual(Result)}) : ApplyAll(c, new)[n] = c[n]
                  /\ \A n \in nodes : ApplyAll(c, new)[n] = c[n] - b[n]
                  /\ ApplyAll(c, new)[Virtual(Result)]
                       = c[Virtual(Result)] + SumFunctionOnSet(b, nodes)
             /\ SumFunctionOnSet(b, nodes) \in Int
<1> DEFINE new == CloseAgainstResult(b, nodes)
           v == Virtual(Result)
           s == SumFunctionOnSet(b, nodes)
           e == [n \in nodes \cup {v} |-> IF n \in nodes THEN -b[n] ELSE s]
<1>1. /\ IsFiniteSet(nodes) /\ IsFiniteSet(nodes \cup {v}) /\ nodes \cup {v} \in SUBSET Node
      /\ \A n \in nodes : b[n] \in Int
  BY NodesFinite, VirtualShape DEF SupportParents
<1>2. s \in Int
  BY <1>1, SumStep
<1>3. CASE nodes = {}
  <2>1. new = << >> /\ new \in Seq(Entry) /\ DOMAIN new = {}
    BY <1>3 DEF CloseAgainstResult
  <2>2. s = 0
    BY <1>1, <1>3, SumStep
  <2>3. \A c \in [Node -> Int] : ApplyAll(c, new) = c
    BY <2>1, ApplyNone
  <2>4. v \in Node
    BY <1>1
  <2> HIDE DEF new, s, v
  <2> QED BY <1>2, <1>3, <2>1, <2>2, <2>3, <2>4 DEF new, s, v
<1>4. CASE nodes # {}
  <2>1. new = << e >>
    BY <1>4 DEF CloseAgainstResult
  <2>2. /\ DOMAIN e = nodes \cup {v} /\ e \in [nodes \cup {v} -> Int]
        /\ \A n \in nodes : e[n] = -b[n]
        /\ e[v] = s
    BY <1>1, <1>2
  <2>3. e \in Entry
    BY <1>1, <2>2 DEF Entry
  <2> HIDE DEF e, s, v
  <2>4. SumFunction(e) = 0
    <3>1. SumFunctionOnSet(e, nodes \cup {v}) = e[v] + SumFunctionOnSet(e, (nodes \cup {v}) \ {v})
      BY <1>1, <2>2, SumStep
    <3>2. (nodes \cup {v}) \ {v} = nodes
      BY DEF v
    <3>3. SumFunctionOnSet(e, nodes) = -s
      BY <1>1, <2>2, SumNegative DEF s
    <3> QED BY <1>2, <2>2, <3>1, <3>2, <3>3 DEF SumFunction
  <2>5. PICK m : m \in nodes
    BY <1>4
  <2>6. ASSUME \A n \in nodes : b[n] > 0 PROVE ValidLines(e)
    <3>1. s > 0
      <4>1. \A n \in nodes : b[n] >= 0
        BY <1>1, <2>6
      <4> QED BY <1>1, <2>5, <2>6, <4>1, SumPositive DEF s
    <3>2. ValidLines(e)
      <4>1. v \in DOMAIN e /\ e[v] > 0
        BY <2>2, <3>1
      <4>2. m \in DOMAIN e /\ e[m] < 0
        BY <1>1, <2>2, <2>5, <2>6
      <4>3. \A n \in DOMAIN e : e[n] # 0
        BY <1>1, <2>2, <2>6, <4>1
      <4> QED BY <2>4, <4>1, <4>2, <4>3 DEF ValidLines
    <3> QED BY <3>2
  <2>7. ASSUME \A n \in nodes : b[n] < 0 PROVE ValidLines(e)
    <3>1. s < 0
      <4> DEFINE f == [n \in nodes |-> -b[n]]
      <4>1. \A n \in nodes : f[n] \in Int /\ f[n] >= 0 /\ f[n] > 0 /\ f[n] = -b[n]
        BY <1>1, <2>7
      <4> HIDE DEF f
      <4>2. SumFunctionOnSet(f, nodes) > 0
        BY <1>1, <2>5, <4>1, SumPositive
      <4>3. SumFunctionOnSet(f, nodes) = -s
        BY <1>1, <4>1, SumNegative DEF s
      <4> QED BY <1>2, <4>2, <4>3
    <3>2. ValidLines(e)
      <4>1. v \in DOMAIN e /\ e[v] < 0
        BY <2>2, <3>1
      <4>2. m \in DOMAIN e /\ e[m] > 0
        BY <1>1, <2>2, <2>5, <2>7
      <4>3. \A n \in DOMAIN e : e[n] # 0
        BY <1>1, <2>2, <2>7, <4>1
      <4> QED BY <2>4, <4>1, <4>2, <4>3 DEF ValidLines
    <3> QED BY <3>2
  <2>8. ValidLines(e)
    BY <2>6, <2>7
  <2>9. new \in Seq(Entry) /\ \A i \in DOMAIN new : ValidLines(new[i])
    BY <2>1, <2>3, <2>8
  <2>10. ASSUME NEW c \in [Node -> Int]
         PROVE  /\ ApplyAll(c, new) \in [Node -> Int]
                /\ \A n \in Node \ (nodes \cup {v}) : ApplyAll(c, new)[n] = c[n]
                /\ \A n \in nodes : ApplyAll(c, new)[n] = c[n] - b[n]
                /\ ApplyAll(c, new)[v] = c[v] + s
    <3>1. ApplyAll(c, new) \in [Node -> Int] /\ \A n \in Node : ApplyAll(c, new)[n] = c[n] + Amount(e, n)
      BY <2>1, <2>3, ApplyOne
    <3>2. /\ \A n \in Node \ (nodes \cup {v}) : Amount(e, n) = 0
          /\ \A n \in nodes : Amount(e, n) = -b[n]
          /\ Amount(e, v) = s
      BY <2>2 DEF Amount
    <3> HIDE DEF new
    <3> QED BY <1>1, <1>2, <3>1, <3>2
  <2> HIDE DEF new
  <2> QED BY <1>2, <2>9, <2>10 DEF new, s, v
<1> QED BY <1>3, <1>4

\* The root of a node is one of five.
LEMMA Roots ==
  /\ \A n \in Node : RootOf(n.account) \in 1..5
  /\ \A p \in SupportParents : RootOf(Support[p]) = p[1]
BY NodeShape, AccountsAssumption, SupportAssumption DEF RootOf

\* _build_result_closing_entries: the result accounts are closed and their net result is on 3.02.
LEMMA ResultClosingEffect ==
  ASSUME NEW b \in [Node -> Int], ResultsNatural(b)
  PROVE  LET new == ResultClosingEntries(b)
             c   == ApplyAll(b, new)
         IN  /\ new \in Seq(Entry) /\ \A i \in DOMAIN new : ValidLines(new[i])
             /\ c \in [Node -> Int]
             /\ \A n \in Node : RootOf(n.account) \in {4, 5} => c[n] = 0
             /\ \A n \in Node : RootOf(n.account) \in Patrimonial /\ n # Virtual(Result) => c[n] = b[n]
             /\ c[Virtual(Result)] = b[Virtual(Result)] - NetResult(b)
             /\ NetResult(b) \in Int
<1> DEFINE D == DebitNodes(b, 4)
           K == CreditNodes(b, 5)
           s == CloseAgainstResult(b, D)
           t == CloseAgainstResult(b, K)
           new == ResultClosingEntries(b)
           v == Virtual(Result)
<1>1. /\ D \in SUBSET Node /\ K \in SUBSET Node /\ D \cap K = {}
      /\ \A n \in D : b[n] > 0 /\ RootOf(n.account) = 4
      /\ \A n \in K : b[n] < 0 /\ RootOf(n.account) = 5
      /\ \A n \in Node : RootOf(n.account) = 4 => n \in D \/ b[n] = 0
      /\ \A n \in Node : RootOf(n.account) = 5 => n \in K \/ b[n] = 0
  BY DEF DebitNodes, CreditNodes, NodesOf, ResultsNatural
<1>2. v \in Node /\ RootOf(v.account) = 3
  BY VirtualShape, Roots DEF SupportParents, Result
<1>3. v \notin D /\ v \notin K
  BY <1>1, <1>2
<1>4. new = s \o t
  BY DEF ResultClosingEntries
<1> HIDE DEF D, K
<1>5. /\ s \in Seq(Entry) /\ \A i \in DOMAIN s : ValidLines(s[i])
      /\ \A c \in [Node -> Int] :
           /\ ApplyAll(c, s) \in [Node -> Int]
           /\ \A n \in Node \ (D \cup {v}) : ApplyAll(c, s)[n] = c[n]
           /\ \A n \in D : ApplyAll(c, s)[n] = c[n] - b[n]
           /\ ApplyAll(c, s)[v] = c[v] + SumFunctionOnSet(b, D)
      /\ SumFunctionOnSet(b, D) \in Int
  BY <1>1, <1>3, CloseAgainstResultEffect
<1>6. /\ t \in Seq(Entry) /\ \A i \in DOMAIN t : ValidLines(t[i])
      /\ \A c \in [Node -> Int] :
           /\ ApplyAll(c, t) \in [Node -> Int]
           /\ \A n \in Node \ (K \cup {v}) : ApplyAll(c, t)[n] = c[n]
           /\ \A n \in K : ApplyAll(c, t)[n] = c[n] - b[n]
           /\ ApplyAll(c, t)[v] = c[v] + SumFunctionOnSet(b, K)
      /\ SumFunctionOnSet(b, K) \in Int
  BY <1>1, <1>3, CloseAgainstResultEffect
<1> HIDE DEF s, t, new, v
<1>7. new \in Seq(Entry) /\ \A i \in DOMAIN new : ValidLines(new[i])
  <2>1. \A i \in DOMAIN (s \o t) : ValidLines((s \o t)[i])
    <3> SUFFICES ASSUME NEW i \in DOMAIN (s \o t) PROVE ValidLines((s \o t)[i])
      OBVIOUS
    <3>1. CASE i <= Len(s)
      BY <1>5, <1>6, <3>1
    <3>2. CASE i > Len(s)
      <4>1. (s \o t)[i] = t[i - Len(s)] /\ i - Len(s) \in DOMAIN t
        BY <1>5, <1>6, <3>2
      <4> QED BY <1>6, <4>1
    <3> QED BY <1>5, <1>6, <3>1, <3>2
  <2> QED BY <1>4, <1>5, <1>6, <2>1
<1> DEFINE c1 == ApplyAll(b, s)
           c  == ApplyAll(b, new)
<1>8. c = ApplyAll(c1, t)
  BY <1>4, <1>5, <1>6, ApplyConcat
<1>9. /\ c1 \in [Node -> Int]
      /\ \A n \in Node \ (D \cup {v}) : c1[n] = b[n]
      /\ \A n \in D : c1[n] = b[n] - b[n]
      /\ c1[v] = b[v] + SumFunctionOnSet(b, D)
  BY <1>5
<1> HIDE DEF c1
<1>10. /\ c \in [Node -> Int]
       /\ \A n \in Node \ (K \cup {v}) : c[n] = c1[n]
       /\ \A n \in K : c[n] = c1[n] - b[n]
       /\ c[v] = c1[v] + SumFunctionOnSet(b, K)
  BY <1>6, <1>8, <1>9
<1> HIDE DEF c
<1>11. \A n \in Node : RootOf(n.account) \in {4, 5} => c[n] = 0
  <2> SUFFICES ASSUME NEW n \in Node, RootOf(n.account) \in {4, 5} PROVE c[n] = 0
    OBVIOUS
  <2>0. n # v /\ b[n] \in Int
    BY <1>2
  <2>1. CASE n \in D
    BY <1>1, <1>9, <1>10, <2>0, <2>1
  <2>2. CASE n \in K
    BY <1>1, <1>9, <1>10, <2>0, <2>2
  <2>3. CASE n \notin D \cup K
    BY <1>1, <1>9, <1>10, <2>0, <2>3
  <2> QED BY <2>1, <2>2, <2>3
<1>12. \A n \in Node : RootOf(n.account) \in Patrimonial /\ n # v => c[n] = b[n]
  <2> SUFFICES ASSUME NEW n \in Node, RootOf(n.account) \in Patrimonial, n # v PROVE c[n] = b[n]
    OBVIOUS
  <2>1. n \notin D /\ n \notin K
    BY <1>1 DEF Patrimonial
  <2> QED BY <1>9, <1>10, <2>1
<1>13. NetResult(b) = (-SumFunctionOnSet(b, K)) - SumFunctionOnSet(b, D)
  BY DEF NetResult, CreditTotal, DebitTotal, D, K
<1>14. c[v] = b[v] - NetResult(b) /\ NetResult(b) \in Int
  BY <1>2, <1>5, <1>6, <1>9, <1>10, <1>13
<1> QED BY <1>7, <1>10, <1>11, <1>12, <1>14 DEF c, new, v

\* _build_patrimonial_closing_and_reopening, when the results are closed and all nodes add up to
\* zero: both entries can be posted, the first clears every node and the second brings it back.
LEMMA PatrimonyEffect ==
  ASSUME NEW b \in [Node -> Int], SumFunctionOnSet(b, Node) = 0, NodesOf(b, Patrimonial) # {},
         \A n \in Node : RootOf(n.account) \in {4, 5} => b[n] = 0
  PROVE  LET closing == PatrimonialClosing(b)
         IN  /\ closing \in Entry /\ ValidLines(closing)
             /\ Reopening(closing) \in Entry /\ ValidLines(Reopening(closing))
             /\ \A n \in Node : ApplyAll(b, << closing >>)[n] = 0
             /\ ApplyAll(b, << closing, Reopening(closing) >>) = b
<1> DEFINE N == NodesOf(b, Patrimonial)
           e == PatrimonialClosing(b)
           r == Reopening(e)
<1>1. /\ N \in SUBSET Node /\ \A n \in N : b[n] \in Int /\ b[n] # 0
      /\ \A n \in Node \ N : b[n] = 0
  BY Roots DEF NodesOf, Patrimonial
<1>2. IsFiniteSet(Node) /\ IsFiniteSet(N)
  BY <1>1, NodesFinite
<1>3. /\ DOMAIN e = N /\ \A n \in N : e[n] = -b[n]
      /\ DOMAIN r = N /\ \A n \in N : r[n] = -e[n]
      /\ e = [n \in N |-> e[n]] /\ r = [n \in N |-> r[n]]
  BY DEF PatrimonialClosing, Reopening
<1> HIDE DEF N, e, r
<1>4. \A n \in N : e[n] \in Int /\ r[n] \in Int /\ r[n] = b[n] /\ e[n] # 0 /\ r[n] # 0
  BY <1>1, <1>3
<1>5. e \in Entry /\ r \in Entry
  BY <1>1, <1>3, <1>4 DEF Entry
<1>6. SumFunctionOnSet(b, N) = 0
  BY <1>1, <1>2, SumSupport
<1>7. SumFunction(e) = 0 /\ SumFunction(r) = 0
  <2>1. SumFunctionOnSet(e, N) = -SumFunctionOnSet(b, N)
    BY <1>1, <1>2, <1>3, SumNegative
  <2>2. SumFunctionOnSet(r, N) = -SumFunctionOnSet(e, N)
    BY <1>2, <1>3, <1>4, SumNegative
  <2>3. /\ \A x \in Int : -x \in Int /\ x + (-x) = 0
        /\ \A y \in Int : 0 + y = 0 => y = 0
    OBVIOUS
  <2>4. SumFunctionOnSet(e, N) = 0 /\ SumFunctionOnSet(r, N) = 0
    <3>0. SumFunctionOnSet(b, N) \in Int /\ SumFunctionOnSet(e, N) \in Int
      BY <1>1, <1>2, <1>4, SumStep
    <3>1. /\ SumFunctionOnSet(e, N) \in Int /\ SumFunctionOnSet(r, N) \in Int
          /\ SumFunctionOnSet(b, N) + SumFunctionOnSet(e, N) = 0
          /\ SumFunctionOnSet(e, N) + SumFunctionOnSet(r, N) = 0
      BY <2>1, <2>2, <2>3, <3>0
    <3>2. SumFunctionOnSet(e, N) = 0
      BY <1>6, <2>3, <3>1
    <3> QED BY <2>3, <3>1, <3>2
  <2> QED BY <1>3, <2>4 DEF SumFunction
<1>8. PICK m : m \in N
  BY DEF N
<1>9. ASSUME NEW f, DOMAIN f = N, \A n \in N : f[n] \in Int /\ f[n] # 0, SumFunction(f) = 0
      PROVE  \E n \in N : f[n] > 0
  <2> SUFFICES ASSUME ~\E n \in N : f[n] > 0 PROVE FALSE
    OBVIOUS
  <2> DEFINE g == [n \in N |-> -f[n]]
  <2>1. \A n \in N : g[n] \in Int /\ g[n] > 0 /\ g[n] >= 0 /\ g[n] = -f[n]
    BY <1>9
  <2> HIDE DEF g
  <2>2. SumFunctionOnSet(g, N) > 0
    BY <1>2, <1>8, <2>1, SumPositive
  <2>3. SumFunctionOnSet(g, N) = -SumFunctionOnSet(f, N)
    BY <1>2, <1>9, <2>1, SumNegative
  <2> QED BY <1>9, <2>2, <2>3 DEF SumFunction
<1>10. (\E n \in N : e[n] > 0) /\ (\E n \in N : r[n] > 0)
  BY <1>3, <1>4, <1>7, <1>9
<1>11. ValidLines(e) /\ ValidLines(r)
  <2>1. (\E n \in N : e[n] < 0) /\ (\E n \in N : r[n] < 0)
    BY <1>3, <1>4, <1>10
  <2> QED BY <1>3, <1>4, <1>7, <1>10, <2>1 DEF ValidLines
<1>12. \A n \in Node : ApplyAll(b, << e >>)[n] = 0 /\ ApplyAll(b, << e >>) \in [Node -> Int]
  <2>1. \A n \in Node : ApplyAll(b, << e >>)[n] = b[n] + Amount(e, n) /\ ApplyAll(b, << e >>) \in [Node -> Int]
    BY <1>5, ApplyOne
  <2>2. \A n \in Node : b[n] \in Int /\ b[n] + Amount(e, n) = 0
    <3> SUFFICES ASSUME NEW n \in Node PROVE b[n] + Amount(e, n) = 0
      OBVIOUS
    <3>1. CASE n \in N
      BY <1>1, <1>3, <3>1 DEF Amount
    <3>2. CASE n \notin N
      BY <1>1, <1>3, <3>2 DEF Amount
    <3> QED BY <3>1, <3>2
  <2> QED BY <2>1, <2>2
<1>13. ApplyAll(b, << e, r >>) = b
  <2> DEFINE z == ApplyAll(b, << e >>)
  <2>0. z \in [Node -> Int]
    BY <1>5, ApplyOne
  <2>1. ApplyAll(z, << r >>) = ApplyAll(b, << e >> \o << r >>)
    <3>1. << e >> \in Seq(Entry) /\ << r >> \in Seq(Entry)
      BY <1>5
    <3> QED BY <3>1, ApplyConcat
  <2>2. << e >> \o << r >> = << e, r >>
    <3> DEFINE u == << e >> \o << r >>
               w == << e, r >>
    <3>1. u \in Seq(Entry) /\ w \in Seq(Entry) /\ Len(u) = 2 /\ Len(w) = 2
      BY <1>5
    <3>2. u[1] = w[1] /\ u[2] = w[2]
      BY <1>5
    <3> HIDE DEF u, w
    <3>3. u \in [1..2 -> Entry] /\ w \in [1..2 -> Entry]
      BY <3>1
    <3>4. \A i \in 1..2 : u[i] = w[i]
      BY <3>2
    <3>5. u = w
      BY <3>3, <3>4
    <3> QED BY <3>5 DEF u, w
  <2>3. \A n \in Node : z[n] = 0
    BY <1>12
  <2> HIDE DEF z
  <2>4. /\ ApplyAll(z, << r >>) \in [Node -> Int]
        /\ \A n \in Node : ApplyAll(z, << r >>)[n] = z[n] + Amount(r, n)
    BY <1>5, <2>0, ApplyOne
  <2>5. \A n \in Node : Amount(r, n) = b[n]
    BY <1>1, <1>3, <1>4 DEF Amount
  <2>6. \A n \in Node : ApplyAll(z, << r >>)[n] = b[n]
    BY <2>3, <2>4, <2>5
  <2>7. ApplyAll(z, << r >>) = b
    <3> DEFINE y == ApplyAll(z, << r >>)
    <3>1. y \in [Node -> Int] /\ \A n \in Node : y[n] = b[n]
      BY <2>4, <2>6
    <3> HIDE DEF y
    <3>2. y = b
      BY <3>1
    <3> QED BY <3>2 DEF y
  <2> QED BY <2>1, <2>2, <2>7
<1> QED BY <1>5, <1>11, <1>12, <1>13 DEF e, r

\* _build_balance_sheet: without nodes on the wrong side, what it adds up is every node.
LEMMA SheetEffect ==
  ASSUME NEW b \in [Node -> Int], SumFunctionOnSet(b, Node) = 0,
         ResultsNatural(b), ContraNodes(b) = {}
  PROVE  IsBalanced(BalanceSheet(b))
<1> DEFINE A == DebitNodes(b, 1)
           L == CreditNodes(b, 2)
           E == CreditNodes(b, 3)
           D == DebitNodes(b, 4)
           K == CreditNodes(b, 5)
           U1 == Node \ A
           U2 == U1 \ L
           U3 == U2 \ E
           U4 == U3 \ D
           U5 == U4 \ K
<1>1. A \subseteq Node /\ L \subseteq U1 /\ E \subseteq U2 /\ D \subseteq U3 /\ K \subseteq U4
  BY DEF DebitNodes, CreditNodes, NodesOf
<1>2. \A n \in U5 : b[n] = 0
  BY Roots DEF DebitNodes, CreditNodes, NodesOf, ResultsNatural, ContraNodes
<1>3. /\ IsFiniteSet(Node) /\ IsFiniteSet(U1) /\ IsFiniteSet(U2) /\ IsFiniteSet(U3)
      /\ IsFiniteSet(U4) /\ IsFiniteSet(U5)
  BY NodesFinite, FS_Subset
<1>4. \A n \in Node : b[n] \in Int
  OBVIOUS
<1>5. U1 \subseteq Node /\ U2 \subseteq Node /\ U3 \subseteq Node /\ U4 \subseteq Node
  OBVIOUS
<1> HIDE DEF A, L, E, D, K
<1>6. /\ SumFunctionOnSet(b, Node) = SumFunctionOnSet(b, A) + SumFunctionOnSet(b, U1)
      /\ SumFunctionOnSet(b, A) \in Int
  BY <1>1, <1>3, <1>4, SumUnion
<1> HIDE DEF U1
<1>7. /\ SumFunctionOnSet(b, U1) = SumFunctionOnSet(b, L) + SumFunctionOnSet(b, U2)
      /\ SumFunctionOnSet(b, L) \in Int
  BY <1>1, <1>3, <1>4, <1>5, SumUnion
<1> HIDE DEF U2
<1>8. /\ SumFunctionOnSet(b, U2) = SumFunctionOnSet(b, E) + SumFunctionOnSet(b, U3)
      /\ SumFunctionOnSet(b, E) \in Int
  BY <1>1, <1>3, <1>4, <1>5, SumUnion
<1> HIDE DEF U3
<1>9. /\ SumFunctionOnSet(b, U3) = SumFunctionOnSet(b, D) + SumFunctionOnSet(b, U4)
      /\ SumFunctionOnSet(b, D) \in Int
  BY <1>1, <1>3, <1>4, <1>5, SumUnion
<1> HIDE DEF U4
<1>10. /\ SumFunctionOnSet(b, U4) = SumFunctionOnSet(b, K) + SumFunctionOnSet(b, U5)
       /\ SumFunctionOnSet(b, K) \in Int
  BY <1>1, <1>3, <1>4, <1>5, SumUnion
<1> HIDE DEF U5
<1>11. SumFunctionOnSet(b, U5) = 0
  BY <1>2, <1>3, SumZero
<1>12. BalanceSheet(b).assets = SumFunctionOnSet(b, A)
  BY DEF BalanceSheet, DebitTotal, A
<1>13. BalanceSheet(b).liabilities = -SumFunctionOnSet(b, L)
  BY DEF BalanceSheet, CreditTotal, L
<1>14. BalanceSheet(b).equity
         = (-SumFunctionOnSet(b, E)) + ((-SumFunctionOnSet(b, K)) - SumFunctionOnSet(b, D))
  BY DEF BalanceSheet, CreditTotal, DebitTotal, NetResult, E, D, K
<1> QED BY <1>6, <1>7, <1>8, <1>9, <1>10, <1>11, <1>12, <1>13, <1>14 DEF IsBalanced

(***************************************************************************)
(* The inductive invariant.                                                *)
(***************************************************************************)

\* The steps of a request that is still being planned.
Stages == {"cash", "inventory", "statements", "results", "patrimonial"}

\* The types of the variables that the closing reads.
TypeInv ==
  /\ ledger \in [Accounts -> Int]
  /\ balances \in [Node -> Int]
  /\ entries \in Seq(Entry)
  /\ request \in [cash : Count, inventory : Count]
  /\ pc \in Stages \cup {"idle", "planned"}

\* _validate_patrimonial_natural_balances, but for the accumulated result.
NaturalButResult(b) ==
  \A a \in Accounts : ParentOf[a] # Result =>
    /\ RootOf(a) = 1        => ParentBalance(b, ParentOf[a]) >= 0
    /\ RootOf(a) \in {2, 3} => ParentBalance(b, ParentOf[a]) <= 0

\* Debits are credits, and an opening or a reopening leaves balances that can be closed.
LedgerInv ==
  /\ SumFunctionOnSet(ledger, Accounts) = 0
  /\ ~moved => /\ NaturalButResult(LoadBalanceNodes(ledger))
               /\ \A a \in Accounts : RootOf(a) \in {4, 5} => ledger[a] = 0

\* The balances are those of the ledger after the drafts, which can be posted.
Drafted(drafts) ==
  /\ balances = ApplyAll(LoadBalanceNodes(ledger), drafts)
  /\ \A i \in DOMAIN drafts : ValidLines(drafts[i])

\* What ClosePatrimony appends to the drafts.
LastEntries == << PatrimonialClosing(balances), Reopening(PatrimonialClosing(balances)) >>

\* A plan without the last entries is drafted; a finished one is such a plan and the last entries.
DraftInv ==
  /\ pc \in {"idle", "cash"} => entries = << >>
  /\ pc \in Stages => Drafted(entries)
  /\ pc = "planned" =>
       /\ NodesOf(balances, Patrimonial) # {}
       /\ \E drafts \in Seq(Entry) : Drafted(drafts) /\ entries = drafts \o LastEntries

\* Cash and inventory are what was counted, and without a count nothing was drafted.
CountInv ==
  /\ pc = "inventory" /\ ~request.cash.given => entries = << >>
  /\ pc = "statements" /\ ~request.cash.given /\ ~request.inventory.given => entries = << >>
  /\ pc \notin {"idle", "cash"} /\ request.cash.given =>
       ParentBalance(balances, Cash) = request.cash.amount
  /\ pc \notin {"idle", "cash", "inventory"} /\ request.inventory.given =>
       ParentBalance(balances, Inventory) = request.inventory.amount

\* What the closing may move of assets, liabilities and capital: the support accounts, and of
\* 3.02 only the net result.
PatrimonyInv ==
  pc # "idle" =>
    /\ \A a \in Accounts \ {Support[p] : p \in SupportParents} :
         RootOf(a) \in Patrimonial => balances[Real(a)] = ledger[a]
    /\ SumFunctionOnSet(balances, NodesAt(Support[Result]))
         = ledger[Support[Result]] - (IF pc \in {"patrimonial", "planned"} THEN sheet.net_result ELSE 0)

\* The statements were drawn from balances that passed the checks, then the results were closed.
StatementInv ==
  /\ pc \in {"results", "patrimonial", "planned"} => NaturalButResult(balances)
  /\ pc = "results" => ResultsNatural(balances) /\ sheet = BalanceSheet(balances)
  /\ pc \in {"patrimonial", "planned"} =>
       \A n \in Node : RootOf(n.account) \in {4, 5} => balances[n] = 0

\* The inductive invariant.
IInv == TypeInv /\ LedgerInv /\ DraftInv /\ CountInv /\ PatrimonyInv /\ StatementInv

\* The totals of loaded balances are those of the accounts.
LEMMA LoadTotals ==
  ASSUME NEW L \in [Accounts -> Int]
  PROVE  /\ SumFunctionOnSet(LoadBalanceNodes(L), Node) = SumFunctionOnSet(L, Accounts)
         /\ \A p : ParentBalance(LoadBalanceNodes(L), p) = SumFunctionOnSet(L, AccountsUnder(p))
<1> DEFINE b == LoadBalanceNodes(L)
           s(A) == [a \in A |-> SumFunctionOnSet(b, NodesAt(a))]
<1>1. b \in [Node -> Int] /\ \A a \in Accounts : SumFunctionOnSet(b, NodesAt(a)) = L[a]
  BY LoadSums
<1>2. ASSUME NEW A \in SUBSET Accounts
      PROVE  SumFunctionOnSet(s(A), A) = SumFunctionOnSet(L, A)
  <2>1. IsFiniteSet(A) /\ \A a \in A : s(A)[a] \in Int /\ s(A)[a] = L[a]
    BY <1>1, AccountsAssumption, FS_Subset
  <2> HIDE DEF s
  <2> QED BY <2>1, SumSame
<1>3. /\ SumFunctionOnSet(s(Accounts), Accounts) = SumFunctionOnSet(b, Node)
      /\ \A p : SumFunctionOnSet(s(AccountsUnder(p)), AccountsUnder(p)) = ParentBalance(b, p)
  <2> HIDE DEF b
  <2> QED BY <1>1, ByAccount
<1>4. \A p : AccountsUnder(p) \in SUBSET Accounts
  BY DEF AccountsUnder
<1> HIDE DEF s, b
<1> QED BY <1>2, <1>3, <1>4 DEF b

\* Balances that agree on every collective are natural together.
LEMMA NaturalSame ==
  ASSUME NEW b, NEW c, \A p \in (1..5) \X Nat : p # Result => ParentBalance(b, p) = ParentBalance(c, p),
         NaturalButResult(b)
  PROVE  NaturalButResult(c)
BY AccountsAssumption DEF NaturalButResult

\* execute_simplified_closing: what is posted for a plan leaves the balances of the plan.
LEMMA ExecuteEffect ==
  ASSUME NEW L \in [Accounts -> Int], NEW b \in [Node -> Int], NEW drafts \in Seq(Entry),
         b = ApplyAll(LoadBalanceNodes(L), drafts),
         SumFunctionOnSet(b, Node) = 0, NodesOf(b, Patrimonial) # {},
         \A n \in Node : RootOf(n.account) \in {4, 5} => b[n] = 0
  PROVE  LET closing == PatrimonialClosing(b)
             all     == drafts \o << closing, Reopening(closing) >>
             M       == PostAll(L, all)
         IN  /\ all \in Seq(Entry)
             /\ M \in [Accounts -> Int]
             /\ \A a \in Accounts : M[a] = SumFunctionOnSet(b, NodesAt(a))
             /\ \A a \in Accounts : RootOf(a) \in {4, 5} => M[a] = 0
             /\ \A a \in Accounts : PostAll(L, Front(all))[a] = 0
             /\ SumFunctionOnSet(M, Accounts) = 0
             /\ \A p : ParentBalance(LoadBalanceNodes(M), p) = ParentBalance(b, p)
<1> DEFINE e == PatrimonialClosing(b)
           r == Reopening(e)
           all == drafts \o << e, r >>
           M == PostAll(L, all)
<1>1. /\ e \in Entry /\ r \in Entry
      /\ \A n \in Node : ApplyAll(b, << e >>)[n] = 0
      /\ ApplyAll(b, << e, r >>) = b
  BY PatrimonyEffect
<1> HIDE DEF e, r
<1>2. << e, r >> \in Seq(Entry) /\ << e >> \in Seq(Entry) /\ all \in Seq(Entry)
  BY <1>1
<1>3. LoadBalanceNodes(L) \in [Node -> Int]
  BY LoadSums
<1>4. ApplyAll(LoadBalanceNodes(L), all) = b
  BY <1>1, <1>2, <1>3, ApplyConcat
<1>5. Front(all) = drafts \o << e >>
  <2>1. Len(all) = Len(drafts) + 2
    BY <1>2
  <2>2. Front(all) = SubSeq(all, 1, Len(all) - 1)
    BY DEF Front
  <2>3. /\ SubSeq(all, 1, Len(all) - 1) = [i \in 1..(Len(drafts) + 1) |-> all[i]]
        /\ drafts \o << e >> = [i \in 1..(Len(drafts) + 1) |-> (drafts \o << e >>)[i]]
    BY <2>1
  <2>4. \A i \in 1..(Len(drafts) + 1) : all[i] = (drafts \o << e >>)[i]
    BY <2>1
  <2> QED BY <2>2, <2>3, <2>4
<1>6. ApplyAll(LoadBalanceNodes(L), Front(all)) = ApplyAll(b, << e >>) /\ Front(all) \in Seq(Entry)
  <2>1. drafts \o << e >> \in Seq(Entry)
    BY <1>2
  <2> DEFINE l == LoadBalanceNodes(L)
             one == << e >>
  <2> HIDE DEF l, one, all
  <2>2. l \in [Node -> Int] /\ one \in Seq(Entry) /\ b = ApplyAll(l, drafts)
    BY <1>2, <1>3 DEF l, one
  <2>3. ApplyAll(ApplyAll(l, drafts), one) = ApplyAll(l, drafts \o one)
    BY <2>2, ApplyConcat
  <2> QED BY <1>5, <2>1, <2>2, <2>3 DEF l, one
<1> HIDE DEF all
<1>7. M \in [Accounts -> Int] /\ \A a \in Accounts : M[a] = SumFunctionOnSet(b, NodesAt(a))
  BY <1>2, <1>4, PostAllByNode
<1>8. \A a \in Accounts : PostAll(L, Front(all))[a] = 0
  <2> SUFFICES ASSUME NEW a \in Accounts PROVE PostAll(L, Front(all))[a] = 0
    OBVIOUS
  <2> DEFINE z == ApplyAll(b, << e >>)
  <2>1. PostAll(L, Front(all))[a] = SumFunctionOnSet(z, NodesAt(a))
    BY <1>6, PostAllByNode
  <2>2. \A n \in NodesAt(a) : z[n] = 0
    BY <1>1 DEF NodesAt
  <2> HIDE DEF z
  <2> QED BY <2>1, <2>2, NodesFinite, SumZero
<1>9. \A a \in Accounts : RootOf(a) \in {4, 5} => M[a] = 0
  <2> SUFFICES ASSUME NEW a \in Accounts, RootOf(a) \in {4, 5} PROVE M[a] = 0
    OBVIOUS
  <2>1. \A n \in NodesAt(a) : b[n] = 0
    BY DEF NodesAt
  <2> QED BY <1>7, <2>1, NodesFinite, SumZero
<1> HIDE DEF M
<1>10. \A a \in Accounts : SumFunctionOnSet(LoadBalanceNodes(M), NodesAt(a)) = SumFunctionOnSet(b, NodesAt(a))
  BY <1>7, LoadSums
<1>11. LoadBalanceNodes(M) \in [Node -> Int]
  BY <1>7, LoadSums
<1>12. /\ SumFunctionOnSet(LoadBalanceNodes(M), Node) = SumFunctionOnSet(b, Node)
       /\ \A p : ParentBalance(LoadBalanceNodes(M), p) = ParentBalance(b, p)
  BY <1>10, <1>11, SameByAccount
<1>13. SumFunctionOnSet(M, Accounts) = 0
  BY <1>7, <1>12, LoadTotals
<1> QED BY <1>2, <1>7, <1>8, <1>9, <1>12, <1>13 DEF M, all, r, e

\* _create_opening_entry_from_payload: the opening balances, and what it leaves can be closed.
LEMMA OpeningEffect ==
  ASSUME NEW L \in Openings, \E a \in Accounts : ParentOf[a] = Capital /\ L[a] < 0
  PROVE  /\ L \in [Accounts -> Int]
         /\ SumFunctionOnSet(L, Accounts) = 0
         /\ NaturalButResult(LoadBalanceNodes(L))
         /\ \A a \in Accounts : RootOf(a) \in {4, 5} => L[a] = 0
<1>0. PICK assets \in [OfRoot(1) -> 0..MaxAmount], liabilities \in [OfRoot(2) -> 0..MaxAmount],
           capital \in {a \in Accounts : ParentOf[a] = Capital} :
        L = OpeningLedger(assets, liabilities, capital)
  BY DEF Openings
<1> DEFINE A == OfRoot(1)
           B == OfRoot(2)
           sa == SumFunction(assets)
           sb == SumFunction(liabilities)
<1>1. /\ A \subseteq Accounts /\ B \subseteq Accounts /\ A \cap B = {}
      /\ \A a \in A : RootOf(a) = 1 /\ assets[a] \in Nat
      /\ \A a \in B : RootOf(a) = 2 /\ liabilities[a] \in Nat
      /\ capital \in Accounts /\ RootOf(capital) = 3 /\ capital \notin A /\ capital \notin B
      /\ DOMAIN assets = A /\ DOMAIN liabilities = B
  BY PostingAssumption, BoundsAssumption DEF OfRoot, RootOf, Capital
<1>2. IsFiniteSet(Accounts) /\ IsFiniteSet(A) /\ IsFiniteSet(B)
  BY <1>1, AccountsAssumption, FS_Subset
<1> HIDE DEF A, B
<1>3. /\ sa \in Int /\ sb \in Int
      /\ sa = SumFunctionOnSet(assets, A) /\ sb = SumFunctionOnSet(liabilities, B)
  BY <1>1, <1>2, SumStep DEF SumFunction
<1> HIDE DEF sa, sb
<1>4. \A a \in Accounts : L[a] = CASE a \in A       -> assets[a]
                                   [] a \in B       -> -liabilities[a]
                                   [] a = capital -> sb - sa
                                   [] OTHER         -> 0
  BY <1>0, <1>1 DEF OpeningLedger, sa, sb
<1>5. /\ \A a \in A : L[a] = assets[a] /\ L[a] \in Int /\ L[a] >= 0
      /\ \A a \in B : L[a] = -liabilities[a] /\ L[a] \in Int /\ L[a] <= 0
      /\ L[capital] = sb - sa /\ L[capital] \in Int
      /\ \A a \in Accounts : a \notin A /\ a \notin B /\ a # capital => L[a] = 0
  <2>1. \A a \in A : L[a] = assets[a]
    BY <1>1, <1>4
  <2>2. \A a \in B : L[a] = -liabilities[a]
    BY <1>1, <1>4
  <2>3. L[capital] = sb - sa
    BY <1>1, <1>4
  <2>4. \A a \in Accounts : a \notin A /\ a \notin B /\ a # capital => L[a] = 0
    BY <1>4
  <2> QED BY <1>1, <1>3, <2>1, <2>2, <2>3, <2>4
<1>6. L \in [Accounts -> Int]
  <2>1. \A a \in Accounts : L[a] \in Int
    BY <1>5
  <2>2. L = [a \in Accounts |-> L[a]]
    BY <1>0 DEF OpeningLedger
  <2> QED BY <2>1, <2>2
<1>7. SumFunctionOnSet(L, Accounts) = 0
  <2> DEFINE U1 == Accounts \ A
             U2 == U1 \ B
             U3 == U2 \ {capital}
  <2>1. /\ B \subseteq U1 /\ capital \in U2 /\ \A a \in U3 : L[a] = 0
        /\ U1 \subseteq Accounts /\ U2 \subseteq Accounts /\ \A a \in Accounts : L[a] \in Int
    BY <1>1, <1>5, <1>6
  <2>2. IsFiniteSet(U1) /\ IsFiniteSet(U2) /\ IsFiniteSet(U3)
    BY <1>2, FS_Subset
  <2>3. SumFunctionOnSet(L, Accounts) = SumFunctionOnSet(L, A) + SumFunctionOnSet(L, U1)
    BY <1>1, <1>2, <2>1, SumUnion
  <2> HIDE DEF U1
  <2>4. SumFunctionOnSet(L, U1) = SumFunctionOnSet(L, B) + SumFunctionOnSet(L, U2)
    BY <2>1, <2>2, SumUnion
  <2> HIDE DEF U2
  <2>5. SumFunctionOnSet(L, U2) = L[capital] + SumFunctionOnSet(L, U3)
    BY <2>1, <2>2, SumStep
  <2> HIDE DEF U3
  <2>6. SumFunctionOnSet(L, U3) = 0
    BY <2>1, <2>2, SumZero
  <2>7. SumFunctionOnSet(L, A) = sa
    BY <1>2, <1>3, <1>5, SumSame
  <2>8. SumFunctionOnSet(L, B) = -sb
    BY <1>1, <1>2, <1>3, <1>5, SumNegative
  <2> QED BY <1>3, <1>5, <2>3, <2>4, <2>5, <2>6, <2>7, <2>8
<1>8. sb - sa <= 0
  BY <1>1, <1>3, <1>5 DEF RootOf, Capital
<1>9. ASSUME NEW p, NEW s \in {1, -1}, \A a \in AccountsUnder(p) : s * L[a] >= 0
      PROVE  s * ParentBalance(LoadBalanceNodes(L), p) >= 0
  <2> DEFINE N == AccountsUnder(p)
             g == [a \in N |-> s * L[a]]
  <2>1. N \subseteq Accounts /\ IsFiniteSet(N)
    BY <1>2, FS_Subset DEF AccountsUnder
  <2>2. \A a \in N : L[a] \in Int
    BY <1>6, <2>1
  <2>3. \A a \in N : g[a] \in Int /\ g[a] >= 0 /\ g[a] = s * L[a]
    BY <1>9, <2>2
  <2>4. ParentBalance(LoadBalanceNodes(L), p) = SumFunctionOnSet(L, N)
    BY <1>6, LoadTotals
  <2>5. SumFunctionOnSet(L, N) \in Int
    BY <2>1, <2>2, SumStep
  <2> HIDE DEF N, g
  <2>6. SumFunctionOnSet(g, N) >= 0
    BY <2>1, <2>3, SumPositive
  <2>7. SumFunctionOnSet(g, N) = s * SumFunctionOnSet(L, N)
    <3>1. CASE s = 1
      <4>1. \A a \in N : g[a] \in Int /\ g[a] = L[a]
        BY <2>2, <2>3, <3>1
      <4>2. SumFunctionOnSet(g, N) = SumFunctionOnSet(L, N)
        BY <2>1, <4>1, SumSame
      <4> QED BY <2>5, <3>1, <4>2
    <3>2. CASE s = -1
      <4>1. \A a \in N : L[a] \in Int /\ g[a] = -L[a]
        BY <2>2, <2>3, <3>2
      <4>2. SumFunctionOnSet(g, N) = -SumFunctionOnSet(L, N)
        BY <2>1, <4>1, SumNegative
      <4> QED BY <2>5, <3>2, <4>2
    <3> QED BY <3>1, <3>2
  <2> QED BY <2>4, <2>6, <2>7
<1>10. ASSUME NEW a \in Accounts
       PROVE  /\ RootOf(a) = 1 => L[a] >= 0
              /\ RootOf(a) \in {2, 3} => L[a] <= 0
              /\ RootOf(a) \in {4, 5} => L[a] = 0
  BY <1>1, <1>5, <1>8
<1>11. ASSUME NEW a \in Accounts
       PROVE  /\ RootOf(a) = 1 => ParentBalance(LoadBalanceNodes(L), ParentOf[a]) >= 0
              /\ RootOf(a) \in {2, 3} => ParentBalance(LoadBalanceNodes(L), ParentOf[a]) <= 0
  <2> DEFINE p == ParentOf[a]
             total == ParentBalance(LoadBalanceNodes(L), p)
  <2>1. \A x \in AccountsUnder(p) : x \in Accounts /\ RootOf(x) = RootOf(a) /\ L[x] \in Int
    BY <1>6 DEF AccountsUnder, RootOf
  <2>2. total \in Int
    <3>1. IsFiniteSet(AccountsUnder(p)) /\ total = SumFunctionOnSet(L, AccountsUnder(p))
      BY <1>2, <1>6, LoadTotals, FS_Subset DEF AccountsUnder
    <3> QED BY <2>1, <3>1, SumStep
  <2> HIDE DEF total
  <2>3. CASE RootOf(a) = 1
    <3>1. \A x \in AccountsUnder(p) : 1 * L[x] >= 0
      BY <1>10, <2>1, <2>3
    <3>2. 1 * total >= 0
      BY <1>9, <3>1 DEF total
    <3> QED BY <2>2, <2>3, <3>2 DEF total
  <2>4. CASE RootOf(a) \in {2, 3}
    <3>1. \A x \in AccountsUnder(p) : (-1) * L[x] >= 0
      BY <1>10, <2>1, <2>4
    <3>2. (-1) * total >= 0
      BY <1>9, <3>1 DEF total
    <3>3. total <= 0
      BY <2>2, <3>2
    <3> QED BY <2>4, <3>3 DEF total
  <2> QED BY <2>3, <2>4
<1> QED BY <1>6, <1>7, <1>10, <1>11 DEF NaturalButResult

\* The collectives of the support accounts are different ones.
LEMMA SupportDistinct ==
  /\ {Cash, Inventory, Result, CashShortage, InventoryShortage, CashSurplus, InventorySurplus}
       = SupportParents
  /\ Cash # CashShortage /\ Cash # CashSurplus
  /\ Inventory # InventoryShortage /\ Inventory # InventorySurplus
  /\ Result \notin {Cash, CashShortage, CashSurplus, Inventory, InventoryShortage, InventorySurplus}
  /\ Cash \notin {Inventory, InventoryShortage, InventorySurplus}
  /\ Cash[1] = 1 /\ Inventory[1] = 1 /\ Result[1] = 3
BY DEF SupportParents, Cash, Inventory, Result, CashShortage, InventoryShortage, CashSurplus,
       InventorySurplus

\* As long as a plan is drafted, its nodes add up to zero.
LEMMA TotalIsZero ==
  ASSUME TypeInv, LedgerInv, NEW drafts \in Seq(Entry), Drafted(drafts)
  PROVE  SumFunctionOnSet(balances, Node) = 0
<1> DEFINE b == LoadBalanceNodes(ledger)
<1>1. ledger \in [Accounts -> Int] /\ SumFunctionOnSet(ledger, Accounts) = 0
  BY DEF TypeInv, LedgerInv
<1>2. b \in [Node -> Int] /\ SumFunctionOnSet(b, Node) = 0
  BY <1>1, LoadSums, LoadTotals
<1>3. balances = ApplyAll(b, drafts) /\ \A i \in DOMAIN drafts : SumFunction(drafts[i]) = 0
  BY DEF Drafted, ValidLines
<1> HIDE DEF b
<1> QED BY <1>2, <1>3, ApplyKeepsTotal

\* A stage of the plan appends entries that can be posted, and applies them.
LEMMA DraftStep ==
  ASSUME TypeInv, DraftInv, pc \in Stages, NEW new, NEW next, Draft(new, next),
         new \in Seq(Entry), \A i \in DOMAIN new : ValidLines(new[i])
  PROVE  /\ entries' = entries \o new /\ balances' = ApplyAll(balances, new) /\ pc' = next
         /\ UNCHANGED <<ledger, snapshot, request, moved, postings, closings>>
         /\ entries' \in Seq(Entry) /\ balances' \in [Node -> Int]
         /\ Drafted(entries)'
<1>1. /\ entries' = entries \o new /\ balances' = ApplyAll(balances, new) /\ pc' = next
      /\ UNCHANGED <<ledger, snapshot, request, moved, postings, closings>>
  BY DEF Draft
<1>2. /\ ledger \in [Accounts -> Int] /\ balances \in [Node -> Int] /\ entries \in Seq(Entry)
      /\ balances = ApplyAll(LoadBalanceNodes(ledger), entries)
      /\ \A i \in DOMAIN entries : ValidLines(entries[i])
  BY DEF TypeInv, DraftInv, Drafted
<1>3. entries' \in Seq(Entry) /\ balances' \in [Node -> Int]
  BY <1>1, <1>2, ApplyType
<1>4. balances' = ApplyAll(LoadBalanceNodes(ledger), entries \o new)
  BY <1>1, <1>2, LoadSums, ApplyConcat
<1>5. \A i \in DOMAIN (entries \o new) : ValidLines((entries \o new)[i])
  <2> SUFFICES ASSUME NEW i \in DOMAIN (entries \o new) PROVE ValidLines((entries \o new)[i])
    OBVIOUS
  <2>1. CASE i <= Len(entries)
    BY <1>2, <2>1
  <2>2. CASE i > Len(entries)
    <3>1. (entries \o new)[i] = new[i - Len(entries)] /\ i - Len(entries) \in DOMAIN new
      BY <1>2, <2>2
    <3> QED BY <3>1
  <2> QED BY <1>2, <2>1, <2>2
<1> QED BY <1>1, <1>3, <1>4, <1>5 DEF Drafted

\* _build_adjustment_entries, for either count.
LEMMA AdjustStep ==
  ASSUME IInv, pc \in {"cash", "inventory"}, NEW next \in {"inventory", "statements"},
         NEW count \in Count, NEW parent \in SupportParents, NEW shortage \in SupportParents,
         NEW surplus \in SupportParents, parent # shortage, parent # surplus,
         Result \notin {parent, shortage, surplus},
         Draft(Adjustment(balances, count, parent, shortage, surplus), next), UNCHANGED sheet
  PROVE  /\ TypeInv' /\ LedgerInv' /\ DraftInv' /\ PatrimonyInv' /\ StatementInv'
         /\ pc' = next /\ request' = request
         /\ count.given => ParentBalance(balances', parent) = count.amount
         /\ ~count.given => entries' = entries
         /\ \A p : p \notin {parent, shortage, surplus} =>
              ParentBalance(balances', p) = ParentBalance(balances, p)
<1> DEFINE new == Adjustment(balances, count, parent, shortage, surplus)
           three == {Virtual(parent), Virtual(shortage), Virtual(surplus)}
<1>0. TypeInv /\ LedgerInv /\ DraftInv /\ PatrimonyInv /\ pc \in Stages /\ balances \in [Node -> Int]
  BY DEF IInv, TypeInv, Stages
<1>1. /\ new \in Seq(Entry) /\ \A i \in DOMAIN new : ValidLines(new[i])
      /\ \A n \in Node \ three : ApplyAll(balances, new)[n] = balances[n]
      /\ count.given => ParentBalance(ApplyAll(balances, new), parent) = count.amount
      /\ ~count.given => new = << >>
  BY <1>0, AdjustmentEffect
<1> HIDE DEF new
<1>2. /\ entries' = entries \o new /\ balances' = ApplyAll(balances, new) /\ pc' = next
      /\ UNCHANGED <<ledger, snapshot, request, moved, postings, closings>>
      /\ entries' \in Seq(Entry) /\ balances' \in [Node -> Int]
      /\ Drafted(entries)'
  BY <1>0, <1>1, DraftStep DEF new
<1>3. TypeInv'
  BY <1>0, <1>2 DEF TypeInv, Stages
<1>4. LedgerInv'
  BY <1>0, <1>2 DEF LedgerInv
<1>5. DraftInv'
  BY <1>2 DEF DraftInv, Stages
<1>6. \A n \in Node \ three : balances'[n] = balances[n]
  BY <1>1, <1>2
<1>7. \A p : p \notin {parent, shortage, surplus} =>
        ParentBalance(balances', p) = ParentBalance(balances, p)
  <2> SUFFICES ASSUME NEW p, p \notin {parent, shortage, surplus}
               PROVE  ParentBalance(balances', p) = ParentBalance(balances, p)
    OBVIOUS
  <2>1. \A n \in NodesUnder(p) : n \in Node \ three
    BY VirtualShape DEF NodesUnder
  <2>2. \A n \in NodesUnder(p) : balances'[n] = balances[n]
    BY <1>6, <2>1
  <2>3. balances \in [Node -> Int] /\ balances' \in [Node -> Int]
    BY <1>0, <1>2
  <2> HIDE DEF three
  <2> QED BY <2>2, <2>3, ParentSame
<1>8. PatrimonyInv'
  <2>1. \A a \in Accounts : balances'[Real(a)] = balances[Real(a)]
    <3> SUFFICES ASSUME NEW a \in Accounts PROVE Real(a) \in Node \ three
      BY <1>6
    <3> QED BY NodeShape, VirtualShape DEF Real
  <2>2. SumFunctionOnSet(balances', NodesAt(Support[Result]))
          = SumFunctionOnSet(balances, NodesAt(Support[Result]))
    <3>1. \A n \in NodesAt(Support[Result]) : n \in Node \ three
      BY VirtualShape, SupportDistinct DEF NodesAt
    <3>2. \A n \in NodesAt(Support[Result]) : balances[n] \in Int /\ balances[n] = balances'[n]
      BY <1>0, <1>6, <3>1
    <3> QED BY <3>2, NodesFinite, SumSame
  <2>3. pc # "idle" /\ pc \notin {"patrimonial", "planned"} /\ pc' \notin {"patrimonial", "planned"}
    BY <1>2
  <2> QED BY <1>0, <1>2, <2>1, <2>2, <2>3 DEF PatrimonyInv
<1>9. StatementInv'
  BY <1>2 DEF StatementInv
<1>10. ~count.given => entries' = entries
  BY <1>0, <1>1, <1>2 DEF TypeInv
<1> QED BY <1>1, <1>2, <1>3, <1>4, <1>5, <1>7, <1>8, <1>9, <1>10

\* The cash count.
LEMMA AdjustCashStep == IInv /\ AdjustCash => IInv'
<1> SUFFICES ASSUME IInv, AdjustCash PROVE IInv'
  OBVIOUS
<1>1. /\ pc = "cash" /\ request.cash \in Count /\ UNCHANGED sheet
      /\ Draft(Adjustment(balances, request.cash, Cash, CashShortage, CashSurplus), "inventory")
      /\ entries = << >>
  BY DEF AdjustCash, IInv, TypeInv, DraftInv
<1>2. /\ TypeInv' /\ LedgerInv' /\ DraftInv' /\ PatrimonyInv' /\ StatementInv'
      /\ pc' = "inventory" /\ request' = request
      /\ request.cash.given => ParentBalance(balances', Cash) = request.cash.amount
      /\ ~request.cash.given => entries' = entries
  <2>1. /\ Cash \in SupportParents /\ CashShortage \in SupportParents /\ CashSurplus \in SupportParents
        /\ Cash # CashShortage /\ Cash # CashSurplus
        /\ Result \notin {Cash, CashShortage, CashSurplus}
    BY SupportDistinct
  <2> QED BY <1>1, <2>1, AdjustStep
<1>3. CountInv'
  BY <1>1, <1>2 DEF CountInv
<1> QED BY <1>2, <1>3 DEF IInv

\* The inventory count, which leaves the cash as it was counted.
LEMMA AdjustInventoryStep == IInv /\ AdjustInventory => IInv'
<1> SUFFICES ASSUME IInv, AdjustInventory PROVE IInv'
  OBVIOUS
<1>1. /\ pc = "inventory" /\ request.inventory \in Count /\ UNCHANGED sheet
      /\ Draft(Adjustment(balances, request.inventory, Inventory, InventoryShortage,
                          InventorySurplus), "statements")
  BY DEF AdjustInventory, IInv, TypeInv
<1>2. /\ TypeInv' /\ LedgerInv' /\ DraftInv' /\ PatrimonyInv' /\ StatementInv'
      /\ pc' = "statements" /\ request' = request
      /\ request.inventory.given => ParentBalance(balances', Inventory) = request.inventory.amount
      /\ ~request.inventory.given => entries' = entries
      /\ ParentBalance(balances', Cash) = ParentBalance(balances, Cash)
  BY <1>1, SupportDistinct, AdjustStep
<1>3. CountInv'
  BY <1>1, <1>2 DEF CountInv, IInv
<1> QED BY <1>2, <1>3 DEF IInv

\* build_simplified_closing_plan begins with the balances of the ledger.
LEMMA StartPlanStep ==
  ASSUME IInv, NEW cash \in Count, NEW inventory \in Count, StartPlan(cash, inventory)
  PROVE  IInv'
<1>1. /\ pc = "idle" /\ pc' = "cash" /\ balances' = LoadBalanceNodes(ledger)
      /\ request' = [cash |-> cash, inventory |-> inventory]
      /\ UNCHANGED <<ledger, entries, sheet, moved>>
  BY DEF StartPlan
<1>2. TypeInv /\ LedgerInv /\ ledger \in [Accounts -> Int] /\ entries = << >>
  BY <1>1 DEF IInv, TypeInv, DraftInv
<1>3. TypeInv'
  BY <1>1, <1>2, LoadSums DEF TypeInv, Stages
<1>4. LedgerInv'
  BY <1>1, <1>2 DEF LedgerInv
<1>5. DraftInv'
  <2>1. ApplyAll(LoadBalanceNodes(ledger), << >>) = LoadBalanceNodes(ledger)
    BY <1>2, LoadSums, ApplyNone
  <2>2. Drafted(entries)'
    BY <1>1, <1>2, <2>1 DEF Drafted
  <2> QED BY <1>1, <1>2, <2>2 DEF DraftInv
<1>6. CountInv'
  BY <1>1 DEF CountInv
<1>7. PatrimonyInv'
  <2>1. Support[Result] \in Accounts
    BY VirtualShape, SupportDistinct
  <2>2. SumFunctionOnSet(balances', NodesAt(Support[Result])) = ledger[Support[Result]]
    BY <1>1, <1>2, <2>1, LoadSums
  <2>3. ledger[Support[Result]] \in Int
    BY <1>2, <2>1
  <2>4. \A a \in Accounts : balances'[Real(a)] = ledger[a]
    BY <1>1, <1>2, LoadSums
  <2> QED BY <1>1, <2>2, <2>3, <2>4 DEF PatrimonyInv
<1>8. StatementInv'
  BY <1>1 DEF StatementInv
<1> QED BY <1>3, <1>4, <1>5, <1>6, <1>7, <1>8 DEF IInv

\* The checks have passed, and the statements are drawn.
LEMMA BuildStatementsStep == IInv /\ BuildStatements => IInv'
<1> SUFFICES ASSUME IInv, BuildStatements PROVE IInv'
  OBVIOUS
<1>1. /\ pc = "statements" /\ pc' = "results" /\ NaturalBalances(balances) /\ ResultsNatural(balances)
      /\ sheet' = BalanceSheet(balances)
      /\ entries' = entries \o << >> /\ balances' = ApplyAll(balances, << >>)
      /\ UNCHANGED <<ledger, request, moved>>
  BY DEF BuildStatements, Draft
<1>2. balances' = balances /\ entries' = entries
  <2>1. balances \in [Node -> Int] /\ entries \in Seq(Entry)
    BY DEF IInv, TypeInv
  <2> QED BY <1>1, <2>1, ApplyNone
<1>3. TypeInv'
  BY <1>1, <1>2 DEF IInv, TypeInv, Stages
<1>4. LedgerInv'
  BY <1>1 DEF IInv, LedgerInv
<1>5. DraftInv'
  <2>1. Drafted(entries)
    BY <1>1 DEF IInv, DraftInv, Stages
  <2>2. Drafted(entries)'
    BY <1>1, <1>2, <2>1 DEF Drafted
  <2> QED BY <1>1, <2>2 DEF DraftInv, Stages
<1>6. CountInv'
  BY <1>1, <1>2 DEF IInv, CountInv
<1>7. PatrimonyInv'
  BY <1>1, <1>2 DEF IInv, PatrimonyInv
<1>8. StatementInv'
  <2>1. NaturalButResult(balances)
    BY <1>1 DEF NaturalBalances, NaturalButResult
  <2> QED BY <1>1, <1>2, <2>1 DEF StatementInv
<1> QED BY <1>3, <1>4, <1>5, <1>6, <1>7, <1>8 DEF IInv

\* The result accounts are closed against 3.02.
LEMMA CloseResultsStep == IInv /\ CloseResults => IInv'
<1> SUFFICES ASSUME IInv, CloseResults PROVE IInv'
  OBVIOUS
<1> DEFINE new == ResultClosingEntries(balances)
           v == Virtual(Result)
<1>0. /\ TypeInv /\ LedgerInv /\ DraftInv /\ CountInv /\ PatrimonyInv
      /\ pc = "results" /\ pc \in Stages /\ balances \in [Node -> Int] /\ ledger \in [Accounts -> Int]
      /\ ResultsNatural(balances) /\ NaturalButResult(balances)
      /\ sheet = BalanceSheet(balances) /\ sheet' = sheet /\ Draft(new, "patrimonial")
  BY DEF IInv, CloseResults, StatementInv, TypeInv, Stages
<1>1. /\ new \in Seq(Entry) /\ \A i \in DOMAIN new : ValidLines(new[i])
      /\ \A n \in Node : RootOf(n.account) \in {4, 5} => ApplyAll(balances, new)[n] = 0
      /\ \A n \in Node : RootOf(n.account) \in Patrimonial /\ n # v =>
           ApplyAll(balances, new)[n] = balances[n]
      /\ ApplyAll(balances, new)[v] = balances[v] - NetResult(balances)
      /\ NetResult(balances) \in Int
  BY <1>0, ResultClosingEffect
<1> HIDE DEF new
<1>2. /\ entries' = entries \o new /\ balances' = ApplyAll(balances, new) /\ pc' = "patrimonial"
      /\ UNCHANGED <<ledger, snapshot, request, moved, postings, closings>>
      /\ entries' \in Seq(Entry) /\ balances' \in [Node -> Int]
      /\ Drafted(entries)'
  BY <1>0, <1>1, DraftStep
<1>3. TypeInv'
  BY <1>0, <1>2 DEF TypeInv, Stages
<1>4. LedgerInv'
  BY <1>0, <1>2 DEF LedgerInv
<1>5. DraftInv'
  BY <1>2 DEF DraftInv, Stages
<1>6. v \in Node /\ v.account = Support[Result] /\ ParentOf[v.account] = Result /\ RootOf(v.account) = 3
  BY VirtualShape, SupportDistinct DEF RootOf
<1> HIDE DEF v
<1>7. ASSUME NEW p, p # Result, p[1] \in Patrimonial
      PROVE  ParentBalance(balances', p) = ParentBalance(balances, p)
  <2>1. \A n \in NodesUnder(p) : n \in Node /\ RootOf(n.account) \in Patrimonial /\ n # v
    BY <1>6, <1>7 DEF NodesUnder, RootOf
  <2>2. \A n \in NodesUnder(p) : balances'[n] = balances[n]
    BY <1>1, <1>2, <2>1
  <2> QED BY <1>0, <1>2, <2>2, ParentSame
<1>8. CountInv'
  <2>1. /\ ParentBalance(balances', Cash) = ParentBalance(balances, Cash)
        /\ ParentBalance(balances', Inventory) = ParentBalance(balances, Inventory)
    BY <1>7, SupportDistinct DEF Patrimonial
  <2> QED BY <1>0, <1>2, <2>1 DEF CountInv
<1>9. PatrimonyInv'
  <2>1. \A a \in Accounts : RootOf(a) \in Patrimonial => balances'[Real(a)] = balances[Real(a)]
    <3> SUFFICES ASSUME NEW a \in Accounts, RootOf(a) \in Patrimonial
                 PROVE  balances'[Real(a)] = balances[Real(a)]
      OBVIOUS
    <3>1. Real(a) \in Node /\ Real(a).account = a /\ Real(a) # v
      BY NodeShape, VirtualShape, SupportDistinct DEF Real, v
    <3> QED BY <1>1, <1>2, <3>1
  <2> DEFINE N == NodesAt(Support[Result])
             d == -NetResult(balances)
  <2>2. /\ IsFiniteSet(N) /\ v \in N /\ d \in Int /\ \A n \in N : balances[n] \in Int
        /\ balances'[v] = balances[v] + d
        /\ \A n \in N \ {v} : balances'[n] = balances[n]
    <3>1. \A n \in N : n \in Node /\ RootOf(n.account) = 3
      BY <1>6 DEF NodesAt
    <3>2. balances[v] \in Int
      BY <1>0, <1>6
    <3> QED BY <1>0, <1>1, <1>2, <1>6, <3>1, <3>2, NodesFinite DEF NodesAt, Patrimonial
  <2> HIDE DEF N, d
  <2>3. SumFunctionOnSet(balances', N) = SumFunctionOnSet(balances, N) + d
    BY <2>2, SumChange
  <2>4. SumFunctionOnSet(balances, N) = ledger[Support[Result]] - 0 /\ ledger[Support[Result]] \in Int
    BY <1>0, VirtualShape, SupportDistinct DEF PatrimonyInv, N
  <2>5. sheet'.net_result = NetResult(balances)
    BY <1>0 DEF BalanceSheet
  <2>6. SumFunctionOnSet(balances', N) = ledger[Support[Result]] - sheet'.net_result
    BY <1>1, <2>3, <2>4, <2>5 DEF d
  <2>7. \A a \in Accounts \ {Support[p] : p \in SupportParents} :
          RootOf(a) \in Patrimonial => balances[Real(a)] = ledger[a]
    BY <1>0 DEF PatrimonyInv
  <2> QED BY <1>2, <2>1, <2>6, <2>7 DEF PatrimonyInv, N
<1>10. StatementInv'
  <2>1. NaturalButResult(balances')
    <3> SUFFICES ASSUME NEW a \in Accounts, ParentOf[a] # Result, RootOf(a) \in {1, 2, 3}
                 PROVE  ParentBalance(balances', ParentOf[a]) = ParentBalance(balances, ParentOf[a])
      BY <1>0 DEF NaturalButResult
    <3> QED BY <1>7 DEF RootOf, Patrimonial
  <2>2. \A n \in Node : RootOf(n.account) \in {4, 5} => balances'[n] = 0
    BY <1>1, <1>2
  <2>3. NaturalButResult(balances)'
    BY <2>1 DEF NaturalButResult
  <2> QED BY <1>2, <2>2, <2>3 DEF StatementInv
<1> QED BY <1>3, <1>4, <1>5, <1>8, <1>9, <1>10 DEF IInv

\* The closing and the reopening are drafted; the balances stay those they close.
LEMMA ClosePatrimonyStep == IInv /\ ClosePatrimony => IInv'
<1> SUFFICES ASSUME IInv, ClosePatrimony PROVE IInv'
  OBVIOUS
<1>1. /\ pc = "patrimonial" /\ pc' = "planned" /\ NodesOf(balances, Patrimonial) # {}
      /\ entries' = entries \o LastEntries
      /\ UNCHANGED <<ledger, request, balances, sheet, moved>>
  BY DEF ClosePatrimony, LastEntries
<1>2. /\ TypeInv /\ LedgerInv /\ Drafted(entries) /\ entries \in Seq(Entry)
      /\ balances \in [Node -> Int]
      /\ \A n \in Node : RootOf(n.account) \in {4, 5} => balances[n] = 0
  BY <1>1 DEF IInv, TypeInv, DraftInv, StatementInv, Stages
<1>3. SumFunctionOnSet(balances, Node) = 0
  BY <1>2, TotalIsZero
<1>4. LastEntries \in Seq(Entry)
  <2>1. /\ PatrimonialClosing(balances) \in Entry
        /\ Reopening(PatrimonialClosing(balances)) \in Entry
    BY <1>1, <1>2, <1>3, PatrimonyEffect
  <2> QED BY <2>1 DEF LastEntries
<1>5. TypeInv'
  <2>1. entries' \in Seq(Entry)
    BY <1>1, <1>2, <1>4
  <2> QED BY <1>1, <1>2, <2>1 DEF TypeInv
<1>6. LedgerInv'
  BY <1>1, <1>2 DEF LedgerInv
<1>7. DraftInv'
  <2>1. Drafted(entries) = (balances' = ApplyAll(LoadBalanceNodes(ledger'), entries)
                              /\ \A i \in DOMAIN entries : ValidLines(entries[i]))
    BY <1>1 DEF Drafted
  <2>2. LastEntries' = LastEntries
    BY <1>1 DEF LastEntries
  <2>3. (NodesOf(balances, Patrimonial) # {})'
    BY <1>1 DEF NodesOf
  <2>4. (\E drafts \in Seq(Entry) : Drafted(drafts) /\ entries = drafts \o LastEntries)'
    <3> SUFFICES \E drafts \in Seq(Entry) :
                   /\ balances' = ApplyAll(LoadBalanceNodes(ledger'), drafts)
                   /\ \A i \in DOMAIN drafts : ValidLines(drafts[i])
                   /\ entries' = drafts \o LastEntries'
      BY DEF Drafted
    <3>1. /\ entries \in Seq(Entry)
          /\ balances' = ApplyAll(LoadBalanceNodes(ledger'), entries)
          /\ \A i \in DOMAIN entries : ValidLines(entries[i])
          /\ entries' = entries \o LastEntries'
      BY <1>1, <1>2, <2>1, <2>2
    <3> QED BY <3>1
  <2> QED BY <1>1, <2>3, <2>4 DEF DraftInv, Stages
<1>8. CountInv'
  BY <1>1 DEF IInv, CountInv
<1>9. PatrimonyInv'
  BY <1>1 DEF IInv, PatrimonyInv
<1>10. StatementInv'
  <2>1. NaturalButResult(balances)'
    BY <1>1 DEF IInv, StatementInv, NaturalButResult
  <2> QED BY <1>1, <1>2, <2>1 DEF StatementInv
<1> QED BY <1>5, <1>6, <1>7, <1>8, <1>9, <1>10 DEF IInv

\* A plan that is dropped leaves nothing but the ledger to say something of.
LEMMA DropPlanStep ==
  ASSUME DropPlan, ledger' \in [Accounts -> Int], LedgerInv'
  PROVE  IInv'
<1>1. /\ pc' = "idle" /\ request' = NoRequest /\ balances' = NoBalances /\ entries' = << >>
  BY DEF DropPlan
<1>2. TypeInv'
  <2>1. NoRequest \in [cash : Count, inventory : Count]
    BY DEF NoRequest, NoCount, Count
  <2>2. NoBalances \in [Node -> Int]
    BY DEF NoBalances
  <2>3. << >> \in Seq(Entry)
    OBVIOUS
  <2> QED BY <1>1, <2>1, <2>2, <2>3 DEF TypeInv
<1>3. DraftInv'
  BY <1>1 DEF DraftInv, Stages
<1>4. CountInv'
  BY <1>1 DEF CountInv
<1>5. PatrimonyInv'
  BY <1>1 DEF PatrimonyInv
<1>6. StatementInv'
  BY <1>1 DEF StatementInv
<1> QED BY <1>2, <1>3, <1>4, <1>5, <1>6 DEF IInv

\* A refused or discarded plan: the ledger is what it was.
LEMMA RefuseStep == IInv /\ (Refuse \/ Discard) => IInv'
<1> SUFFICES ASSUME IInv, Refuse \/ Discard PROVE IInv'
  OBVIOUS
<1>1. DropPlan /\ UNCHANGED <<ledger, moved>>
  BY DEF Refuse, Discard
<1>2. ledger' \in [Accounts -> Int] /\ LedgerInv'
  BY <1>1 DEF IInv, TypeInv, LedgerInv
<1> QED BY <1>1, <1>2, DropPlanStep

\* What a plan that can be executed consists of.
LEMMA Planned ==
  ASSUME IInv, pc = "planned", NEW drafts \in Seq(Entry), Drafted(drafts),
         entries = drafts \o LastEntries
  PROVE  /\ \A i \in DOMAIN entries : ValidLines(entries[i])
         /\ PostAll(ledger, entries) \in [Accounts -> Int]
         /\ \A a \in Accounts :
              PostAll(ledger, entries)[a] = SumFunctionOnSet(balances, NodesAt(a))
         /\ \A a \in Accounts : RootOf(a) \in {4, 5} => PostAll(ledger, entries)[a] = 0
         /\ \A a \in Accounts : PostAll(ledger, Front(entries))[a] = 0
         /\ SumFunctionOnSet(PostAll(ledger, entries), Accounts) = 0
         /\ \A p : ParentBalance(LoadBalanceNodes(PostAll(ledger, entries)), p)
                     = ParentBalance(balances, p)
<1> DEFINE e == PatrimonialClosing(balances)
           r == Reopening(e)
<1>1. /\ TypeInv /\ LedgerInv /\ ledger \in [Accounts -> Int] /\ balances \in [Node -> Int]
      /\ NodesOf(balances, Patrimonial) # {}
      /\ \A n \in Node : RootOf(n.account) \in {4, 5} => balances[n] = 0
  BY DEF IInv, TypeInv, DraftInv, StatementInv
<1>2. SumFunctionOnSet(balances, Node) = 0
  BY <1>1, TotalIsZero
<1>3. ValidLines(e) /\ ValidLines(r)
  BY <1>1, <1>2, PatrimonyEffect
<1>4. entries = drafts \o << e, r >>
  BY DEF LastEntries
<1>5. /\ balances = ApplyAll(LoadBalanceNodes(ledger), drafts)
      /\ \A i \in DOMAIN drafts : ValidLines(drafts[i])
  BY DEF Drafted
<1>6. /\ PostAll(ledger, entries) \in [Accounts -> Int]
      /\ \A a \in Accounts :
           PostAll(ledger, entries)[a] = SumFunctionOnSet(balances, NodesAt(a))
      /\ \A a \in Accounts : RootOf(a) \in {4, 5} => PostAll(ledger, entries)[a] = 0
      /\ \A a \in Accounts : PostAll(ledger, Front(entries))[a] = 0
      /\ SumFunctionOnSet(PostAll(ledger, entries), Accounts) = 0
      /\ \A p : ParentBalance(LoadBalanceNodes(PostAll(ledger, entries)), p)
                  = ParentBalance(balances, p)
  <2> DEFINE all == drafts \o << e, r >>
             M == PostAll(ledger, all)
  <2>1. /\ M \in [Accounts -> Int]
        /\ \A a \in Accounts : M[a] = SumFunctionOnSet(balances, NodesAt(a))
        /\ \A a \in Accounts : RootOf(a) \in {4, 5} => M[a] = 0
        /\ \A a \in Accounts : PostAll(ledger, Front(all))[a] = 0
        /\ SumFunctionOnSet(M, Accounts) = 0
        /\ \A p : ParentBalance(LoadBalanceNodes(M), p) = ParentBalance(balances, p)
    BY <1>1, <1>2, <1>5, ExecuteEffect
  <2>2. entries = all
    BY <1>4
  <2> HIDE DEF all
  <2> QED BY <2>1, <2>2
<1> HIDE DEF e, r
<1>7. \A i \in DOMAIN entries : ValidLines(entries[i])
  <2> SUFFICES ASSUME NEW i \in DOMAIN entries PROVE ValidLines(entries[i])
    OBVIOUS
  <2>1. i \in 1..(Len(drafts) + 2)
    BY <1>4
  <2>2. CASE i <= Len(drafts)
    BY <1>4, <1>5, <2>1, <2>2
  <2>3. CASE i = Len(drafts) + 1
    <3>1. entries[i] = e
      BY <1>4, <2>3
    <3> QED BY <1>3, <3>1
  <2>4. CASE i = Len(drafts) + 2
    <3>1. entries[i] = r
      BY <1>4, <2>4
    <3> QED BY <1>3, <3>1
  <2> QED BY <2>1, <2>2, <2>3, <2>4
<1> QED BY <1>6, <1>7

\* execute_simplified_closing leaves a ledger that can be closed again.
LEMMA ExecuteStep == IInv /\ Execute => IInv'
<1> SUFFICES ASSUME IInv, Execute PROVE IInv'
  OBVIOUS
<1>1. /\ pc = "planned" /\ ledger' = PostAll(ledger, entries) /\ moved' = FALSE /\ DropPlan
  BY DEF Execute
<1>2. \E drafts \in Seq(Entry) : Drafted(drafts) /\ entries = drafts \o LastEntries
  BY <1>1 DEF IInv, DraftInv
<1>3. /\ ledger' \in [Accounts -> Int] /\ SumFunctionOnSet(ledger', Accounts) = 0
      /\ \A a \in Accounts : RootOf(a) \in {4, 5} => ledger'[a] = 0
      /\ \A p : ParentBalance(LoadBalanceNodes(ledger'), p) = ParentBalance(balances, p)
  BY <1>1, <1>2, Planned
<1>4. NaturalButResult(LoadBalanceNodes(ledger'))
  <2>1. NaturalButResult(balances)
    BY <1>1 DEF IInv, StatementInv
  <2> QED BY <1>3, <2>1, NaturalSame
<1>5. LedgerInv'
  <2>1. NaturalButResult(LoadBalanceNodes(ledger))'
    BY <1>4 DEF NaturalButResult, LoadBalanceNodes
  <2> QED BY <1>3, <2>1 DEF LedgerInv
<1> QED BY <1>1, <1>3, <1>5, DropPlanStep

\* create_journal_entry moves an amount from one account to another.
LEMMA PostEntryStep ==
  ASSUME IInv, NEW debit \in PostingAccounts, NEW credit \in PostingAccounts,
         NEW amount \in 1..MaxAmount, PostEntry(debit, credit, amount)
  PROVE  IInv'
<1> DEFINE mid == [ledger EXCEPT ![debit] = @ + amount]
<1>1. /\ pc = "idle" /\ debit # credit /\ moved' = TRUE
      /\ ledger' = [ledger EXCEPT ![debit] = @ + amount, ![credit] = @ - amount]
      /\ UNCHANGED <<pc, request, balances, entries, sheet>>
  BY DEF PostEntry, plan
<1>2. /\ debit \in Accounts /\ credit \in Accounts /\ amount \in Int /\ -amount \in Int
      /\ ledger \in [Accounts -> Int] /\ SumFunctionOnSet(ledger, Accounts) = 0
      /\ IsFiniteSet(Accounts)
  BY PostingAssumption, BoundsAssumption, AccountsAssumption DEF IInv, TypeInv, LedgerInv
<1>3. /\ \A a \in Accounts : ledger[a] \in Int
      /\ mid \in [Accounts -> Int] /\ mid[debit] = ledger[debit] + amount
      /\ \A a \in Accounts \ {debit} : mid[a] = ledger[a]
  BY <1>2
<1>4. /\ ledger' \in [Accounts -> Int] /\ ledger'[credit] = mid[credit] + (-amount)
      /\ \A a \in Accounts \ {credit} : ledger'[a] = mid[a]
  BY <1>1, <1>2
<1> HIDE DEF mid
<1>5. SumFunctionOnSet(mid, Accounts) = SumFunctionOnSet(ledger, Accounts) + amount
  BY <1>2, <1>3, SumChange
<1>6. SumFunctionOnSet(ledger', Accounts) = SumFunctionOnSet(mid, Accounts) + (-amount)
  <2> DEFINE d == -amount
  <2>1. /\ \A a \in Accounts : mid[a] \in Int
        /\ d \in Int /\ ledger'[credit] = mid[credit] + d
    BY <1>2, <1>3, <1>4
  <2> HIDE DEF d
  <2>2. SumFunctionOnSet(ledger', Accounts) = SumFunctionOnSet(mid, Accounts) + d
    BY <1>2, <1>4, <2>1, SumChange
  <2> QED BY <2>2 DEF d
<1>7. SumFunctionOnSet(ledger', Accounts) = 0
  BY <1>2, <1>5, <1>6
<1>8. TypeInv'
  BY <1>1, <1>4 DEF IInv, TypeInv
<1>9. LedgerInv'
  BY <1>1, <1>7 DEF LedgerInv
<1>10. DraftInv'
  BY <1>1 DEF IInv, DraftInv, Stages
<1>11. CountInv'
  BY <1>1 DEF CountInv
<1>12. PatrimonyInv'
  BY <1>1 DEF PatrimonyInv
<1>13. StatementInv'
  BY <1>1 DEF StatementInv
<1> QED BY <1>8, <1>9, <1>10, <1>11, <1>12, <1>13 DEF IInv

\* An opened company.
LEMMA InitInv == Init => IInv
<1> SUFFICES ASSUME Init PROVE IInv
  OBVIOUS
<1>1. /\ ledger \in Openings /\ \E a \in Accounts : ParentOf[a] = Capital /\ ledger[a] < 0
      /\ pc = "idle" /\ request = NoRequest /\ balances = NoBalances /\ entries = << >>
  BY DEF Init
<1>2. /\ ledger \in [Accounts -> Int] /\ LedgerInv
  BY <1>1, OpeningEffect DEF LedgerInv
<1>3. TypeInv
  <2>1. NoRequest \in [cash : Count, inventory : Count]
    BY DEF NoRequest, NoCount, Count
  <2>2. NoBalances \in [Node -> Int] /\ << >> \in Seq(Entry)
    BY DEF NoBalances
  <2> QED BY <1>1, <1>2, <2>1, <2>2 DEF TypeInv
<1> QED BY <1>1, <1>2, <1>3 DEF IInv, DraftInv, CountInv, PatrimonyInv, StatementInv, Stages

\* A stuttering step changes nothing the invariant speaks of.
LEMMA StutterStep == IInv /\ UNCHANGED vars => IInv'
<1> SUFFICES ASSUME IInv, UNCHANGED vars PROVE IInv'
  OBVIOUS
<1>1. UNCHANGED <<ledger, pc, request, balances, entries, sheet, moved>>
  BY DEF vars, plan
<1>2. TypeInv'
  BY <1>1 DEF IInv, TypeInv
<1>3. LedgerInv'
  BY <1>1 DEF IInv, LedgerInv
<1>4. DraftInv'
  BY <1>1 DEF IInv, DraftInv, Drafted, LastEntries
<1>5. CountInv'
  BY <1>1 DEF IInv, CountInv
<1>6. PatrimonyInv'
  BY <1>1 DEF IInv, PatrimonyInv
<1>7. StatementInv'
  BY <1>1 DEF IInv, StatementInv
<1> QED BY <1>2, <1>3, <1>4, <1>5, <1>6, <1>7 DEF IInv

(***************************************************************************)
(* The theorems.                                                           *)
(***************************************************************************)

\* Whatever is posted, counted and closed, the balances a plan works on are those its drafts
\* would leave in the ledger, which is balanced; the parts of the invariant say the rest of it.
THEOREM PlanInvariant == Spec => []IInv
<1>1. IInv /\ [Next]_vars => IInv'
  <2> SUFFICES ASSUME IInv, [Next]_vars PROVE IInv'
    OBVIOUS
  <2>1. ASSUME NEW debit \in PostingAccounts, NEW credit \in PostingAccounts,
               NEW amount \in 1..MaxAmount, PostEntry(debit, credit, amount)
        PROVE  IInv'
    BY <2>1, PostEntryStep
  <2>2. ASSUME NEW cash \in Count, NEW inventory \in Count, StartPlan(cash, inventory)
        PROVE  IInv'
    BY <2>2, StartPlanStep
  <2>3. CASE AdjustCash
    BY <2>3, AdjustCashStep
  <2>4. CASE AdjustInventory
    BY <2>4, AdjustInventoryStep
  <2>5. CASE Refuse \/ Discard
    BY <2>5, RefuseStep
  <2>6. CASE BuildStatements
    BY <2>6, BuildStatementsStep
  <2>7. CASE CloseResults
    BY <2>7, CloseResultsStep
  <2>8. CASE ClosePatrimony
    BY <2>8, ClosePatrimonyStep
  <2>9. CASE Execute
    BY <2>9, ExecuteStep
  <2>10. CASE UNCHANGED vars
    BY <2>10, StutterStep
  <2> QED BY <2>1, <2>2, <2>3, <2>4, <2>5, <2>6, <2>7, <2>8, <2>9, <2>10 DEF Next
<1> QED BY <1>1, InitInv, PTL DEF Spec

\* A plan that was drawn up can be posted: both the drafts of the counts and the results and the
\* closing and reopening satisfy _validate_lines, for every chart, every posting and every count.
THEOREM PlanCanBePosted == Spec => []PlanIsPostable
<1>1. IInv => PlanIsPostable
  <2> SUFFICES ASSUME IInv, pc = "planned" PROVE \A i \in DOMAIN entries : ValidLines(entries[i])
    BY DEF PlanIsPostable
  <2>1. \E drafts \in Seq(Entry) : Drafted(drafts) /\ entries = drafts \o LastEntries
    BY DEF IInv, DraftInv
  <2> QED BY <2>1, Planned
<1> QED BY <1>1, PlanInvariant, PTL

\* The entries before the reopening bring every account to zero, although virtual and real nodes
\* of a support account were closed apart.
THEOREM ClosingZeroes == Spec => []ClosingZeroesLedger
<1>1. IInv => ClosingZeroesLedger
  <2> SUFFICES ASSUME IInv, pc = "planned"
               PROVE  \A a \in Accounts : PostAll(ledger, Front(entries))[a] = 0
    BY DEF ClosingZeroesLedger
  <2>1. \E drafts \in Seq(Entry) : Drafted(drafts) /\ entries = drafts \o LastEntries
    BY DEF IInv, DraftInv
  <2> QED BY <2>1, Planned
<1> QED BY <1>1, PlanInvariant, PTL

\* The balance sheet of the plan balances as long as no node is on the wrong side.
THEOREM SheetBalances == Spec => []SheetBalancesUnlessContra
<1>1. IInv => SheetBalancesUnlessContra
  <2> SUFFICES ASSUME IInv, pc = "results", ContraNodes(balances) = {}
               PROVE  IsBalanced(sheet)
    BY DEF SheetBalancesUnlessContra
  <2>1. /\ TypeInv /\ LedgerInv /\ Drafted(entries) /\ entries \in Seq(Entry)
        /\ balances \in [Node -> Int] /\ ResultsNatural(balances) /\ sheet = BalanceSheet(balances)
    BY DEF IInv, TypeInv, DraftInv, StatementInv, Stages
  <2>2. SumFunctionOnSet(balances, Node) = 0
    BY <2>1, TotalIsZero
  <2> QED BY <2>1, <2>2, SheetEffect
<1> QED BY <1>1, PlanInvariant, PTL

\* A company that was just opened or reopened passes the checks of a plan without counts exactly
\* when it has no accumulated loss on 3.02.
THEOREM ReopenedCloses == Spec => []ReopenedCanClose
<1>1. IInv => ReopenedCanClose
  <2> SUFFICES ASSUME IInv, pc = "statements", ~moved, request = NoRequest
               PROVE  NaturalBalances(balances) /\ ResultsNatural(balances)
                        <=> ParentBalance(balances, Result) <= 0
    BY DEF ReopenedCanClose
  <2>1. /\ ledger \in [Accounts -> Int] /\ entries = << >> /\ Drafted(entries)
        /\ NaturalButResult(LoadBalanceNodes(ledger))
        /\ \A a \in Accounts : RootOf(a) \in {4, 5} => ledger[a] = 0
    <3>1. ~request.cash.given /\ ~request.inventory.given
      BY DEF NoRequest, NoCount
    <3>2. entries = << >>
      BY <3>1 DEF IInv, CountInv
    <3> QED BY <3>2 DEF IInv, TypeInv, LedgerInv, DraftInv, Stages
  <2>2. balances = LoadBalanceNodes(ledger)
    BY <2>1, LoadSums, ApplyNone DEF Drafted
  <2>3. ResultsNatural(balances)
    <3>1. \A n \in Node : RootOf(n.account) \in {4, 5} => balances[n] = 0
      BY <2>1, <2>2, NodeShape DEF LoadBalanceNodes
    <3> QED BY <3>1 DEF ResultsNatural, CreditNodes, DebitNodes, NodesOf
  <2>4. NaturalButResult(balances)
    BY <2>1, <2>2
  <2>5. Support[Result] \in Accounts /\ ParentOf[Support[Result]] = Result /\ Result[1] = 3
    BY VirtualShape, SupportDistinct
  <2>6. NaturalBalances(balances) => ParentBalance(balances, Result) <= 0
    <3>1. RootOf(Support[Result]) \in {2, 3}
      BY <2>5 DEF RootOf
    <3> QED BY <2>5, <3>1 DEF NaturalBalances
  <2>7. ParentBalance(balances, Result) <= 0 => NaturalBalances(balances)
    <3> SUFFICES ASSUME ParentBalance(balances, Result) <= 0, NEW a \in Accounts
                 PROVE  /\ RootOf(a) = 1        => ParentBalance(balances, ParentOf[a]) >= 0
                        /\ RootOf(a) \in {2, 3} => ParentBalance(balances, ParentOf[a]) <= 0
      BY DEF NaturalBalances
    <3>1. CASE ParentOf[a] = Result
      BY <2>5, <3>1 DEF RootOf
    <3>2. CASE ParentOf[a] # Result
      BY <2>4, <3>2 DEF NaturalButResult
    <3> QED BY <3>1, <3>2
  <2> QED BY <2>3, <2>6, <2>7
<1> QED BY <1>1, PlanInvariant, PTL

\* After execute_simplified_closing nothing is carried over of the results, cash and inventory are
\* what was counted, 3.02 took the net result of the stored statements, and no other account of
\* assets, liabilities and capital has moved.
THEOREM ReopeningCarries == Spec => ReopeningCarriesPatrimony
<1> DEFINE Carried ==
      /\ \A a \in Accounts : RootOf(a) \in {4, 5} => ledger'[a] = 0
      /\ request.cash.given =>
           ParentBalance(LoadBalanceNodes(ledger'), Cash) = request.cash.amount
      /\ request.inventory.given =>
           ParentBalance(LoadBalanceNodes(ledger'), Inventory) = request.inventory.amount
      /\ ledger'[Support[Result]] = ledger[Support[Result]] - sheet.net_result
      /\ \A a \in Accounts \ {Support[p] : p \in SupportParents} :
           RootOf(a) \in Patrimonial => ledger'[a] = ledger[a]
<1>1. IInv /\ Execute => Carried
  <2> SUFFICES ASSUME IInv, Execute PROVE Carried
    OBVIOUS
  <2>1. pc = "planned" /\ ledger' = PostAll(ledger, entries)
    BY DEF Execute
  <2>2. \E drafts \in Seq(Entry) : Drafted(drafts) /\ entries = drafts \o LastEntries
    BY <2>1 DEF IInv, DraftInv
  <2>3. /\ \A a \in Accounts : ledger'[a] = SumFunctionOnSet(balances, NodesAt(a))
        /\ \A a \in Accounts : RootOf(a) \in {4, 5} => ledger'[a] = 0
        /\ \A p : ParentBalance(LoadBalanceNodes(ledger'), p) = ParentBalance(balances, p)
    BY <2>1, <2>2, Planned
  <2>4. /\ request.cash.given => ParentBalance(balances, Cash) = request.cash.amount
        /\ request.inventory.given => ParentBalance(balances, Inventory) = request.inventory.amount
    BY <2>1 DEF IInv, CountInv
  <2>5. ledger'[Support[Result]] = ledger[Support[Result]] - sheet.net_result
    <3>1. Support[Result] \in Accounts
      BY VirtualShape, SupportDistinct
    <3> QED BY <2>1, <2>3, <3>1 DEF IInv, PatrimonyInv
  <2>6. ASSUME NEW a \in Accounts \ {Support[p] : p \in SupportParents}, RootOf(a) \in Patrimonial
        PROVE  ledger'[a] = ledger[a]
    <3>1. NodesAt(a) = {Real(a)}
      <4>1. \A n \in NodesAt(a) : n = Real(a)
        <5> SUFFICES ASSUME NEW n \in NodesAt(a) PROVE n = Real(a)
          OBVIOUS
        <5>1. n \in Node /\ n.account = a
          BY DEF NodesAt
        <5>2. ~n.virtual
          BY <5>1, NodeShape, VirtualShape
        <5> QED BY <5>1, <5>2, NodeShape
      <4>2. Real(a) \in NodesAt(a)
        BY NodeShape DEF NodesAt, Real
      <4> QED BY <4>1, <4>2
    <3>2. balances[Real(a)] \in Int
      BY NodeShape DEF IInv, TypeInv
    <3>3. SumFunctionOnSet(balances, {Real(a)}) = balances[Real(a)]
      BY <3>2, SumOne
    <3>4. balances[Real(a)] = ledger[a]
      BY <2>1, <2>6 DEF IInv, PatrimonyInv
    <3> QED BY <2>3, <3>1, <3>3, <3>4
  <2> QED BY <2>3, <2>4, <2>5, <2>6
<1>2. IInv /\ [Next]_vars => [Execute => Carried]_vars
  BY <1>1
<1> HIDE DEF Carried
<1>3. Spec => [][Execute => Carried]_vars
  BY <1>2, PlanInvariant, PTL DEF Spec
<1> QED BY <1>3, PTL DEF ReopeningCarriesPatrimony, Carried
=============================================================================
