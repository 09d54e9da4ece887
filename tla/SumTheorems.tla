----------------------------- MODULE SumTheorems -----------------------------
(***************************************************************************)
(* Facts about the sums of module Sums.                                    *)
(***************************************************************************)
EXTENDS Sums, FiniteSetTheorems, FunctionTheorems, TLAPS

\* The units of a finite sum are finitely many, so that a sum is a number.
LEMMA TotalType ==
    ASSUME NEW S, IsFiniteSet(S), NEW f, \A x \in S : f[x] \in Nat
    PROVE  IsFiniteSet(Units(f, S)) /\ Total(f, S) \in Nat
<1> DEFINE h == [x \in S |-> {x} \X (1..f[x])]
           T == {h[x] : x \in S}
<1>1. IsFiniteSet(T)
  <2>1. h \in Surjection(S, T)
    BY DEF Surjection
  <2> QED BY <2>1, FS_Surjection
<1>2. \A t \in T : IsFiniteSet(t)
  <2>1. ASSUME NEW x \in S
        PROVE  IsFiniteSet({x} \X (1..f[x]))
    <3>1. IsFiniteSet({x})
      BY FS_Singleton
    <3>2. IsFiniteSet(1..f[x])
      BY FS_Interval
    <3> QED BY <3>1, <3>2, FS_Product
  <2> QED BY <2>1
<1>3. Units(f, S) = UNION T
  BY DEF Units
<1>4. IsFiniteSet(Units(f, S))
  BY <1>1, <1>2, <1>3, FS_UNION
<1> QED BY <1>4, FS_CardinalityType DEF Total

\* Membership in the units, as pairs.
LEMMA UnitsMember ==
    ASSUME NEW S, NEW f, NEW x, NEW k
    PROVE  <<x, k>> \in Units(f, S) <=> x \in S /\ k \in 1..f[x]
BY DEF Units

\* Functions that agree on S have the same sum over S.
LEMMA TotalAgree ==
    ASSUME NEW S, NEW f, NEW g, \A x \in S : f[x] = g[x]
    PROVE  Total(f, S) = Total(g, S)
<1>1. Units(f, S) = Units(g, S)
  BY DEF Units
<1> QED BY <1>1 DEF Total

\* A sum over two disjoint sets is the sum of the sums.
LEMMA TotalUnion ==
    ASSUME NEW S, IsFiniteSet(S), NEW T, IsFiniteSet(T), S \cap T = {},
           NEW f, \A x \in S \cup T : f[x] \in Nat
    PROVE  Total(f, S \cup T) = Total(f, S) + Total(f, T)
<1>1. IsFiniteSet(Units(f, S)) /\ IsFiniteSet(Units(f, T))
  BY TotalType
<1>2. Units(f, S \cup T) = Units(f, S) \cup Units(f, T)
  BY DEF Units
<1>3. Units(f, S) \cap Units(f, T) = {}
  BY DEF Units
<1>4. Cardinality(Units(f, S) \cap Units(f, T)) = 0
  BY <1>3, FS_EmptySet
<1>5. /\ Cardinality(Units(f, S)) \in Nat
      /\ Cardinality(Units(f, T)) \in Nat
  BY <1>1, FS_CardinalityType
<1>6. Cardinality(Units(f, S) \cup Units(f, T))
          = Cardinality(Units(f, S)) + Cardinality(Units(f, T))
            - Cardinality(Units(f, S) \cap Units(f, T))
  BY <1>1, FS_Union
<1>7. Total(f, S \cup T) = Cardinality(Units(f, S) \cup Units(f, T))
  BY <1>2, Zenon DEF Total
<1>8. Total(f, S) = Cardinality(Units(f, S)) /\ Total(f, T) = Cardinality(Units(f, T))
  BY Zenon DEF Total
<1> QED BY <1>4, <1>5, <1>6, <1>7, <1>8

\* The sum over one element is its value.
LEMMA TotalSingle ==
    ASSUME NEW x, NEW f, f[x] \in Nat
    PROVE  Total(f, {x}) = f[x]
<1>1. Units(f, {x}) = {x} \X (1..f[x])
  BY DEF Units
<1>2. IsFiniteSet({x}) /\ Cardinality({x}) = 1
  BY FS_Singleton
<1>3. IsFiniteSet(1..f[x]) /\ Cardinality(1..f[x]) = f[x]
  BY FS_Interval
<1>4. Cardinality({x} \X (1..f[x])) = 1 * f[x]
  BY <1>2, <1>3, FS_Product, ZenonT(30)
<1>5. Total(f, {x}) = Cardinality({x} \X (1..f[x]))
  BY <1>1, Zenon DEF Total
<1> QED BY <1>4, <1>5

\* One more element adds its value.
LEMMA TotalAdd ==
    ASSUME NEW S, IsFiniteSet(S), NEW x, x \notin S,
           NEW f, \A y \in S \cup {x} : f[y] \in Nat
    PROVE  Total(f, S \cup {x}) = Total(f, S) + f[x]
<1>1. IsFiniteSet({x}) /\ S \cap {x} = {}
  BY FS_Singleton
<1>2. Total(f, S \cup {x}) = Total(f, S) + Total(f, {x})
  BY <1>1, TotalUnion
<1> QED BY <1>2, TotalSingle

\* A sum of zeros is zero.
LEMMA TotalZero ==
    ASSUME NEW S, NEW f, \A x \in S : f[x] = 0
    PROVE  Total(f, S) = 0
<1>1. Units(f, S) = {}
  BY DEF Units
<1> QED BY <1>1, FS_EmptySet DEF Total

\* The sum over a part is at most the sum over the whole.
LEMMA TotalPart ==
    ASSUME NEW S, IsFiniteSet(S), NEW T \in SUBSET S,
           NEW f, \A x \in S : f[x] \in Nat
    PROVE  Total(f, T) <= Total(f, S)
<1>1. IsFiniteSet(T) /\ IsFiniteSet(S \ T)
  BY FS_Subset, FS_Difference
<1>2. S = T \cup (S \ T) /\ T \cap (S \ T) = {}
  OBVIOUS
<1>3. Total(f, S) = Total(f, T) + Total(f, S \ T)
  BY <1>1, <1>2, TotalUnion
<1>4. Total(f, T) \in Nat /\ Total(f, S \ T) \in Nat
  BY <1>1, TotalType
<1> QED BY <1>3, <1>4

\* Elements whose value is zero do not count.
LEMMA TotalSupport ==
    ASSUME NEW S, IsFiniteSet(S), NEW T \in SUBSET S,
           NEW f, \A x \in S : f[x] \in Nat, \A x \in S \ T : f[x] = 0
    PROVE  Total(f, S) = Total(f, T)
<1>1. IsFiniteSet(T) /\ IsFiniteSet(S \ T)
  BY FS_Subset, FS_Difference
<1>2. S = T \cup (S \ T) /\ T \cap (S \ T) = {}
  OBVIOUS
<1>3. Total(f, S) = Total(f, T) + Total(f, S \ T)
  BY <1>1, <1>2, TotalUnion
<1>4. Total(f, T) \in Nat /\ Total(f, S \ T) = 0
  BY <1>1, TotalType, TotalZero
<1> QED BY <1>3, <1>4

\* Changing one value changes the sum by the difference.
LEMMA TotalUpdate ==
    ASSUME NEW S, IsFiniteSet(S), NEW x \in S,
           NEW f, NEW g, \A y \in S : f[y] \in Nat /\ g[y] \in Nat,
           \A y \in S \ {x} : g[y] = f[y]
    PROVE  Total(g, S) = Total(f, S) - f[x] + g[x]
<1> DEFINE R == S \ {x}
<1>1. IsFiniteSet(R) /\ x \notin R /\ S = R \cup {x}
  BY FS_Difference, FS_Subset
<1>2. Total(f, S) = Total(f, R) + f[x] /\ Total(g, S) = Total(g, R) + g[x]
  BY <1>1, TotalAdd
<1>3. Total(f, R) = Total(g, R)
  BY TotalAgree
<1>4. Total(f, R) \in Nat
  BY <1>1, TotalType
<1> QED BY <1>2, <1>3, <1>4

\* What is before x, and x, together are a part of the whole.
LEMMA BeforeStep ==
    ASSUME NEW S \in SUBSET Nat, IsFiniteSet(S), NEW x \in S,
           NEW f, \A y \in S : f[y] \in Nat
    PROVE  /\ Before(f, S, x) \in Nat
           /\ Before(f, S, x) + f[x] <= Total(f, S)
           /\ \A y \in S : x < y => Before(f, S, x) + f[x] <= Before(f, S, y)
<1> DEFINE B(y) == {c \in S : c < y}
<1>1. ASSUME NEW y \in S
      PROVE  IsFiniteSet(B(y)) /\ Before(f, S, y) = Total(f, B(y))
  BY FS_Subset, Zenon DEF Before
<1>2. x \notin B(x) /\ B(x) \cup {x} \in SUBSET S
  OBVIOUS
<1>3. Total(f, B(x)) \in Nat
  BY <1>1, TotalType
<1>4. Total(f, B(x) \cup {x}) = Total(f, B(x)) + f[x]
  BY <1>1, <1>2, TotalAdd
<1>5. Total(f, B(x) \cup {x}) <= Total(f, S)
  BY <1>2, TotalPart
<1>6. ASSUME NEW y \in S, x < y
      PROVE  Total(f, B(x) \cup {x}) <= Total(f, B(y))
  <2>1. \A c \in S : c \in Nat
    OBVIOUS
  <2>2. \A c \in S : c < x => c < y
    BY <1>6, <2>1
  <2>3. B(x) \cup {x} \in SUBSET B(y)
    BY <1>6, <2>2
  <2> QED BY <1>1, <2>3, TotalPart
<1> QED BY <1>1, <1>3, <1>4, <1>5, <1>6

\* Taking from the numbers of S, in order, what is left to take and what each
\* one has, takes the whole amount if there is that much.
LEMMA TotalTaken ==
    ASSUME NEW S \in SUBSET Nat, IsFiniteSet(S),
           NEW f, \A x \in S : f[x] \in Nat,
           NEW a \in Nat, a <= Total(f, S),
           NEW u,
           \A x \in S : u[x] = IF a > Before(f, S, x)
                                THEN MinOf(f[x], a - Before(f, S, x)) ELSE 0
    PROVE  Total(u, S) = a
<1> DEFINE U == Units(f, S)
           n == Total(f, S)
           pos == [p \in U |-> Before(f, S, p[1]) + p[2]]
<1>1. IsFiniteSet(U) /\ n \in Nat /\ Cardinality(U) = n
  <2>1. IsFiniteSet(U) /\ n \in Nat
    BY TotalType
  <2>2. Cardinality(U) = n
    BY Zenon DEF Total
  <2> QED BY <2>1, <2>2
<1>2. ASSUME NEW p \in U
      PROVE  \E x \in S : \E k \in 1..f[x] :
                 p = <<x, k>> /\ pos[p] = Before(f, S, x) + k
  BY DEF Units
<1>3. \A p \in U : pos[p] \in 1..n
  <2> TAKE p \in U
  <2>1. PICK x \in S : \E k \in 1..f[x] : p = <<x, k>> /\ pos[p] = Before(f, S, x) + k
    BY <1>2
  <2>2. Before(f, S, x) \in Nat /\ Before(f, S, x) + f[x] <= n
    BY BeforeStep
  <2> QED BY <1>1, <2>1, <2>2
<1>4. \A p, q \in U : pos[p] = pos[q] => p = q
  <2> SUFFICES ASSUME NEW p \in U, NEW q \in U, pos[p] = pos[q]
               PROVE  p = q
    OBVIOUS
  <2>1. PICK x \in S : \E k \in 1..f[x] : p = <<x, k>> /\ pos[p] = Before(f, S, x) + k
    BY <1>2
  <2>2. PICK y \in S : \E k \in 1..f[y] : q = <<y, k>> /\ pos[q] = Before(f, S, y) + k
    BY <1>2
  <2>3. /\ Before(f, S, x) \in Nat
        /\ x < y => Before(f, S, x) + f[x] <= Before(f, S, y)
    BY BeforeStep
  <2>4. /\ Before(f, S, y) \in Nat
        /\ y < x => Before(f, S, y) + f[y] <= Before(f, S, x)
    BY BeforeStep
  <2>5. x = y
    BY <2>1, <2>2, <2>3, <2>4
  <2> QED BY <2>1, <2>2, <2>3, <2>5
<1>5. \A i \in 1..n : \E p \in U : pos[p] = i
  <2>1. pos \in Injection(U, 1..n)
    BY <1>3, <1>4, Fun_IsInj
  <2>2. IsFiniteSet(1..n) /\ Cardinality(1..n) = n
    BY <1>1, FS_Interval
  <2>3. pos \in Surjection(U, 1..n)
    BY <1>1, <2>1, <2>2, FS_Injection
  <2> QED BY <2>3 DEF Surjection
<1> DEFINE V == Units(u, S)
           low == [p \in V |-> pos[p]]
<1>6. \A x \in S, k \in Nat \ {0} :
          k \in 1..u[x] <=> k \in 1..f[x] /\ Before(f, S, x) + k <= a
  <2> SUFFICES ASSUME NEW x \in S, NEW k \in Nat \ {0}
               PROVE  k \in 1..u[x] <=> k \in 1..f[x] /\ Before(f, S, x) + k <= a
    OBVIOUS
  <2>1. Before(f, S, x) \in Nat
    BY BeforeStep
  <2>2. u[x] = IF a > Before(f, S, x) THEN MinOf(f[x], a - Before(f, S, x)) ELSE 0
    OBVIOUS
  <2> QED BY <2>1, <2>2 DEF MinOf
<1>7. \A p : p \in V <=> p \in U /\ pos[p] <= a
  <2>1. ASSUME NEW p \in V
        PROVE  p \in U /\ pos[p] <= a
    <3>1. PICK x \in S : \E k \in 1..u[x] : p = <<x, k>>
      BY DEF Units
    <3>2. PICK k \in 1..u[x] : p = <<x, k>>
      BY <3>1
    <3>3. k \in Nat \ {0}
      OBVIOUS
    <3>4. k \in 1..f[x] /\ Before(f, S, x) + k <= a
      BY <1>6, <3>3
    <3>5. p \in U
      BY <3>2, <3>4, UnitsMember
    <3> QED BY <3>2, <3>4, <3>5
  <2>2. ASSUME NEW p \in U, pos[p] <= a
        PROVE  p \in V
    <3>1. PICK x \in S : \E k \in 1..f[x] : p = <<x, k>> /\ pos[p] = Before(f, S, x) + k
      BY <1>2
    <3>2. PICK k \in 1..f[x] : p = <<x, k>> /\ pos[p] = Before(f, S, x) + k
      BY <3>1
    <3>3. k \in 1..u[x]
      BY <1>6, <2>2, <3>2
    <3> QED BY <3>2, <3>3, UnitsMember
  <2> QED BY <2>1, <2>2
<1>8. low \in Bijection(V, 1..a)
  <2>1. \A p \in V : low[p] \in 1..a
    BY <1>1, <1>3, <1>7
  <2>2. \A p, q \in V : low[p] = low[q] => p = q
    BY <1>4, <1>7
  <2>3. \A i \in 1..a : \E p \in V : low[p] = i
    <3> TAKE i \in 1..a
    <3>1. i \in 1..n
      BY <1>1
    <3>2. PICK p \in U : pos[p] = i
      BY <1>5, <3>1
    <3> QED BY <1>7, <3>2
  <2> QED BY <2>1, <2>2, <2>3, Fun_IsBij
<1>9. IsFiniteSet(1..a) /\ Cardinality(1..a) = a
  BY FS_Interval
<1>10. Cardinality(V) = a
  <2>1. ExistsBijection(1..a, V)
    BY <1>8, Fun_ExistsBijSymmetric DEF ExistsBijection
  <2> QED BY <1>9, <2>1, FS_Bijection
<1> QED BY <1>10, Zenon DEF Total

\* The sum of a pointwise sum is the sum of the sums.
LEMMA TotalPlus ==
    ASSUME NEW S, IsFiniteSet(S),
           NEW f, NEW u, NEW g,
           \A x \in S : f[x] \in Nat /\ u[x] \in Nat /\ g[x] \in Nat /\ f[x] = u[x] + g[x]
    PROVE  Total(f, S) = Total(u, S) + Total(g, S)
<1> DEFINE U == Units(u, S)
           G == Units(g, S)
           F == Units(f, S)
           shift == [p \in G |-> <<p[1], u[p[1]] + p[2]>>]
           rest == {shift[p] : p \in G}
<1>1. /\ IsFiniteSet(U) /\ IsFiniteSet(G)
      /\ Cardinality(U) \in Nat /\ Cardinality(G) \in Nat
  <2>1. IsFiniteSet(U) /\ IsFiniteSet(G)
    BY TotalType
  <2> QED BY <2>1, FS_CardinalityType
<1>2. \A p \in G : \E x \in S : \E k \in 1..g[x] : p = <<x, k>> /\ shift[p] = <<x, u[x] + k>>
  BY DEF Units
<1>3. IsFiniteSet(rest) /\ Cardinality(rest) = Cardinality(G)
  <2>1. \A p, q \in G : shift[p] = shift[q] => p = q
    <3> SUFFICES ASSUME NEW p \in G, NEW q \in G, shift[p] = shift[q]
                 PROVE  p = q
      OBVIOUS
    <3>1. PICK x \in S : \E k \in 1..g[x] : p = <<x, k>> /\ shift[p] = <<x, u[x] + k>>
      BY <1>2
    <3>2. PICK k \in 1..g[x] : p = <<x, k>> /\ shift[p] = <<x, u[x] + k>>
      BY <3>1
    <3>3. PICK y \in S : \E l \in 1..g[y] : q = <<y, l>> /\ shift[q] = <<y, u[y] + l>>
      BY <1>2
    <3>4. PICK l \in 1..g[y] : q = <<y, l>> /\ shift[q] = <<y, u[y] + l>>
      BY <3>3
    <3>5. x = y /\ u[x] + k = u[x] + l
      BY <3>2, <3>4
    <3>6. k = l
      BY <3>5
    <3> QED BY <3>2, <3>4, <3>5, <3>6
  <2>2. shift \in Bijection(G, rest)
    BY <2>1, Fun_IsBij
  <2> QED BY <1>1, <2>2, FS_Bijection DEF ExistsBijection
<1>4. U \cap rest = {}
  <2> SUFFICES ASSUME NEW p \in G, shift[p] \in U
               PROVE  FALSE
    OBVIOUS
  <2>1. PICK x \in S : \E k \in 1..g[x] : p = <<x, k>> /\ shift[p] = <<x, u[x] + k>>
    BY <1>2
  <2>2. PICK k \in 1..g[x] : p = <<x, k>> /\ shift[p] = <<x, u[x] + k>>
    BY <2>1
  <2>3. u[x] + k \in 1..u[x]
    BY <2>2, UnitsMember
  <2> QED BY <2>3
<1>5. F = U \cup rest
  <2>1. ASSUME NEW p \in F
        PROVE  p \in U \cup rest
    <3>1. PICK x \in S : \E k \in 1..f[x] : p = <<x, k>>
      BY DEF Units
    <3>2. PICK k \in 1..f[x] : p = <<x, k>>
      BY <3>1
    <3>3. CASE k <= u[x]
      BY <3>2, <3>3, UnitsMember
    <3>4. CASE k > u[x]
      <4>1. k - u[x] \in 1..g[x]
        BY <3>4
      <4>2. <<x, k - u[x]>> \in G
        BY <4>1, UnitsMember
      <4>3. shift[<<x, k - u[x]>>] = <<x, u[x] + (k - u[x])>>
        BY <4>2
      <4>4. u[x] + (k - u[x]) = k
        BY <3>4
      <4> QED BY <3>2, <4>2, <4>3, <4>4
    <3> QED BY <3>3, <3>4
  <2>2. ASSUME NEW p \in U
        PROVE  p \in F
    <3>1. PICK x \in S : \E k \in 1..u[x] : p = <<x, k>>
      BY DEF Units
    <3>2. PICK k \in 1..u[x] : p = <<x, k>>
      BY <3>1
    <3>3. k \in 1..f[x]
      OBVIOUS
    <3> QED BY <3>2, <3>3, UnitsMember
  <2>3. ASSUME NEW p \in G
        PROVE  shift[p] \in F
    <3>1. PICK x \in S : \E k \in 1..g[x] : p = <<x, k>> /\ shift[p] = <<x, u[x] + k>>
      BY <1>2
    <3>2. PICK k \in 1..g[x] : p = <<x, k>> /\ shift[p] = <<x, u[x] + k>>
      BY <3>1
    <3>3. u[x] + k \in 1..f[x]
      OBVIOUS
    <3> QED BY <3>2, <3>3, UnitsMember
  <2> QED BY <2>1, <2>2, <2>3
<1>6. Cardinality(U \cup rest) = Cardinality(U) + Cardinality(rest) - Cardinality(U \cap rest)
  BY <1>1, <1>3, FS_Union
<1>7. Cardinality(U \cap rest) = 0
  BY <1>4, FS_EmptySet
<1>8. Total(f, S) = Cardinality(U \cup rest)
  BY <1>5, Zenon DEF Total
<1>9. Total(u, S) = Cardinality(U) /\ Total(g, S) = Cardinality(G)
  BY Zenon DEF Total
<1> QED BY <1>1, <1>3, <1>6, <1>7, <1>8, <1>9
=============================================================================
