----------------------------- MODULE TotalsLemmas -----------------------------
(***************************************************************************)
(* What the theorems about sums need to know of totals: they are numbers,  *)
(* and they change with their summands.                                    *)
(***************************************************************************)
EXTENDS Totals, FiniteSetTheorems, TLAPS

\* A unit is a holder with the number of the unit.
LEMMA UnitsMembers ==
  ASSUME NEW S, NEW f \in [S -> Nat], NEW u
  PROVE  u \in Units(S, f) <=> \E a \in S : \E n \in 1 .. f[a] : u = <<a, n>>
BY DEF Units, UnitsOf

\* One holder has as many units as it has tokens.
LEMMA UnitsOfCardinality ==
  ASSUME NEW S, NEW f \in [S -> Nat], NEW a \in S
  PROVE  IsFiniteSet(UnitsOf(f, a)) /\ Cardinality(UnitsOf(f, a)) = f[a]
<1>1. IsFiniteSet({a}) /\ Cardinality({a}) = 1
  BY FS_Singleton
<1>2. f[a] \in Nat
  OBVIOUS
<1>3. IsFiniteSet(1 .. f[a]) /\ Cardinality(1 .. f[a]) = f[a]
  BY <1>2, FS_Interval
<1>4. /\ IsFiniteSet({a} \X (1 .. f[a]))
      /\ Cardinality({a} \X (1 .. f[a])) = Cardinality({a}) * Cardinality(1 .. f[a])
  BY <1>1, <1>3, FS_Product
<1>5. 1 * f[a] = f[a]
  BY <1>2
<1>6. QED
  BY <1>1, <1>3, <1>4, <1>5 DEF UnitsOf

\* There are finitely many units, so that a total is a natural number.
LEMMA UnitsFinite ==
  ASSUME NEW S, IsFiniteSet(S), NEW f \in [S -> Nat]
  PROVE  IsFiniteSet(Units(S, f)) /\ Total(S, f) \in Nat
<1> DEFINE T == {UnitsOf(f, a) : a \in S}
           g == [a \in S |-> UnitsOf(f, a)]
<1>1. g \in Surjection(S, T)
  BY DEF Surjection
<1>2. IsFiniteSet(T)
  BY <1>1, FS_Surjection
<1>3. \A t \in T : IsFiniteSet(t)
  BY UnitsOfCardinality
<1> HIDE DEF T
<1>4. IsFiniteSet(UNION T)
  BY <1>2, <1>3, FS_UNION
<1>5. QED
  BY <1>4, FS_CardinalityType DEF T, Units, Total

\* Nothing makes nothing.
LEMMA TotalZero ==
  ASSUME NEW S, NEW f, \A a \in S : f[a] = 0
  PROVE  Total(S, f) = 0
<1>1. Units(S, f) = {}
  BY DEF Units, UnitsOf
<1>2. QED
  BY <1>1, FS_EmptySet DEF Total

\* The total without one holder, and that holder's part.
LEMMA TotalSplit ==
  ASSUME NEW S, IsFiniteSet(S), NEW f \in [S -> Nat], NEW a \in S
  PROVE  /\ Total(S, f) = Total(S \ {a}, f) + f[a]
         /\ Total(S \ {a}, f) \in Nat
<1> DEFINE R == S \ {a}
           g == [b \in R |-> f[b]]
<1>1. IsFiniteSet(R)
  BY FS_RemoveElement
<1>2. g \in [R -> Nat]
  OBVIOUS
<1>3. Units(R, f) = Units(R, g)
  BY DEF Units, UnitsOf
<1>4. IsFiniteSet(Units(R, f)) /\ Total(R, f) \in Nat
  BY <1>1, <1>2, <1>3, UnitsFinite DEF Total
<1>5. IsFiniteSet(UnitsOf(f, a)) /\ Cardinality(UnitsOf(f, a)) = f[a]
  BY UnitsOfCardinality
<1>6. Units(S, f) = Units(R, f) \cup UnitsOf(f, a)
  BY DEF Units
<1>7. Units(R, f) \cap UnitsOf(f, a) = {}
  BY DEF Units, UnitsOf
<1>8. Cardinality(Units(R, f) \cap UnitsOf(f, a)) = 0
  BY <1>7, FS_EmptySet
<1>9. Total(S, f) = Total(R, f) + f[a] - 0
  BY <1>4, <1>5, <1>6, <1>8, FS_Union DEF Total
<1>10. QED
  BY <1>4, <1>9

\* Functions that agree on the holders have the same total.
LEMMA TotalSame ==
  ASSUME NEW S, NEW f, NEW g, \A a \in S : f[a] = g[a]
  PROVE  Total(S, f) = Total(S, g)
<1>1. Units(S, f) = Units(S, g)
  BY DEF Units, UnitsOf
<1>2. QED
  BY <1>1 DEF Total

\* When only the amount of one holder changes, the total changes by as much.
LEMMA TotalChange ==
  ASSUME NEW S, IsFiniteSet(S), NEW f \in [S -> Nat], NEW g \in [S -> Nat], NEW a \in S,
         \A b \in S \ {a} : f[b] = g[b]
  PROVE  Total(S, g) = Total(S, f) - f[a] + g[a]
<1>1. Total(S, f) = Total(S \ {a}, f) + f[a] /\ Total(S \ {a}, f) \in Nat
  BY TotalSplit
<1>2. Total(S, g) = Total(S \ {a}, g) + g[a]
  BY TotalSplit
<1>3. Total(S \ {a}, f) = Total(S \ {a}, g)
  BY TotalSame
<1>4. f[a] \in Nat /\ g[a] \in Nat
  OBVIOUS
<1>5. QED
  BY <1>1, <1>2, <1>3, <1>4

\* The total of sums is the sum of the totals.
LEMMA TotalSum ==
  ASSUME NEW S, IsFiniteSet(S), NEW f \in [S -> Nat], NEW g \in [S -> Nat], NEW h \in [S -> Nat],
         \A a \in S : h[a] = f[a] + g[a]
  PROVE  Total(S, h) = Total(S, f) + Total(S, g)
<1> DEFINE U == Units(S, f)
           V == Units(S, h) \ U
           W == Units(S, g)
           m == [u \in W |-> <<u[1], u[2] + f[u[1]]>>]
<1>1. IsFiniteSet(U) /\ IsFiniteSet(W) /\ IsFiniteSet(Units(S, h))
  BY UnitsFinite
<1>2. \A u \in W : \E a \in S : \E n \in 1 .. g[a] : u = <<a, n>>
  BY UnitsMembers
<1>3. \A u \in U : \E a \in S : \E n \in 1 .. f[a] : u = <<a, n>>
  BY UnitsMembers
<1>4. \A a \in S : f[a] \in Nat /\ g[a] \in Nat /\ h[a] = f[a] + g[a]
  OBVIOUS
<1>5. U \subseteq Units(S, h)
  <2> SUFFICES ASSUME NEW u \in U PROVE u \in Units(S, h)
    OBVIOUS
  <2>1. PICK a \in S : \E n \in 1 .. f[a] : u = <<a, n>>
    BY <1>3
  <2>2. PICK n \in 1 .. f[a] : u = <<a, n>>
    BY <2>1
  <2>3. n \in 1 .. h[a]
    BY <1>4
  <2> QED BY <2>2, <2>3, UnitsMembers
<1>6. ASSUME NEW a \in S, NEW n \in Nat
      PROVE  <<a, n>> \in V <=> n > f[a] /\ n <= h[a]
  <2>1. <<a, n>> \in U <=> n \in 1 .. f[a]
    BY UnitsMembers
  <2>2. <<a, n>> \in Units(S, h) <=> n \in 1 .. h[a]
    BY UnitsMembers
  <2> QED BY <1>4, <2>1, <2>2
<1>7. m \in Bijection(W, V)
  <2>1. ASSUME NEW u \in W PROVE m[u] \in V
    <3>1. PICK a \in S : \E n \in 1 .. g[a] : u = <<a, n>>
      BY <1>2
    <3>2. PICK n \in 1 .. g[a] : u = <<a, n>>
      BY <3>1
    <3>3. m[u] = <<a, n + f[a]>>
      BY <3>2
    <3>4. n + f[a] \in Nat /\ n + f[a] > f[a] /\ n + f[a] <= h[a]
      BY <1>4
    <3> QED BY <1>6, <3>3, <3>4
  <2>2. ASSUME NEW u \in W, NEW w \in W, m[u] = m[w] PROVE u = w
    <3>1. PICK a \in S : \E n \in 1 .. g[a] : u = <<a, n>>
      BY <1>2
    <3>2. PICK n \in 1 .. g[a] : u = <<a, n>>
      BY <3>1
    <3>3. PICK b \in S : \E k \in 1 .. g[b] : w = <<b, k>>
      BY <1>2
    <3>4. PICK k \in 1 .. g[b] : w = <<b, k>>
      BY <3>3
    <3>5. m[u] = <<a, n + f[a]>> /\ m[w] = <<b, k + f[b]>>
      BY <3>2, <3>4
    <3>6. a = b /\ n + f[a] = k + f[b]
      BY <2>2, <3>5
    <3>7. n = k
      BY <1>4, <3>6
    <3> QED BY <3>2, <3>4, <3>6, <3>7
  <2>3. ASSUME NEW v \in V PROVE \E u \in W : m[u] = v
    <3>1. PICK a \in S : \E n \in 1 .. h[a] : v = <<a, n>>
      BY UnitsMembers
    <3>2. PICK n \in 1 .. h[a] : v = <<a, n>>
      BY <3>1
    <3>3. n \in Nat /\ n > f[a] /\ n <= h[a]
      <4>1. n \in Nat
        BY <1>4
      <4> HIDE DEF V
      <4> QED BY <1>6, <3>2, <4>1
    <3>4. n - f[a] \in 1 .. g[a] /\ (n - f[a]) + f[a] = n
      BY <1>4, <3>3
    <3>5. <<a, n - f[a]>> \in W
      BY <3>4, UnitsMembers
    <3>6. m[<<a, n - f[a]>>] = <<a, (n - f[a]) + f[a]>>
      BY <3>5
    <3> HIDE DEF m, W
    <3> QED BY <3>2, <3>4, <3>5, <3>6
  <2>4. m \in [W -> V]
    BY <2>1
  <2> HIDE DEF m, V, W
  <2> QED BY <2>2, <2>3, <2>4 DEF Bijection, Injection, Surjection, IsInjective
<1>8. IsFiniteSet(V) /\ Cardinality(V) = Cardinality(W)
  <2> HIDE DEF m, V, W
  <2>1. ExistsBijection(W, V)
    BY <1>7 DEF ExistsBijection
  <2> QED BY <1>1, <2>1, FS_Bijection
<1>9. Units(S, h) = U \cup V /\ U \cap V = {}
  BY <1>5
<1>10. Cardinality(U \cap V) = 0
  BY <1>9, FS_EmptySet
<1>11. Cardinality(U) \in Nat /\ Cardinality(V) \in Nat
  BY <1>1, <1>8, FS_CardinalityType
<1> HIDE DEF U, V, W, m
<1>12. Cardinality(U \cup V) = Cardinality(U) + Cardinality(V) - 0
  BY <1>1, <1>8, <1>10, FS_Union
<1>13. QED
  BY <1>8, <1>9, <1>11, <1>12 DEF Total, U, W

===============================================================================
