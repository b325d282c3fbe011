----------------------------- MODULE SumsProofs -----------------------------
(***************************************************************************)
(* What a sum is when every term is zero, how it moves with one term, that *)
(* more terms make it no smaller, and that scaling the terms scales it.    *)
(***************************************************************************)
EXTENDS Sums, Integers, FiniteSetTheorems, TLAPS

LEMMA UnitsFinite ==
    ASSUME NEW D, NEW f \in [D -> Nat], NEW k \in D
    PROVE  IsFiniteSet(Units(f, k)) /\ Cardinality(Units(f, k)) = f[k]
<1>1. IsFiniteSet(1 .. f[k]) /\ Cardinality(1 .. f[k]) = f[k]
  BY FS_Interval
<1>2. IsFiniteSet({k}) /\ Cardinality({k}) = 1
  BY FS_Singleton
<1>3. /\ IsFiniteSet({k} \X (1 .. f[k]))
      /\ Cardinality({k} \X (1 .. f[k])) = 1 * f[k]
  BY <1>1, <1>2, FS_Product
<1>4. QED
  BY <1>3 DEF Units

LEMMA UnitsOfFinite ==
    ASSUME NEW D, IsFiniteSet(D), NEW f \in [D -> Nat], NEW S \in SUBSET D
    PROVE  IsFiniteSet(UNION {Units(f, k) : k \in S})
<1> DEFINE T == {Units(f, k) : k \in S}
           u == [k \in S |-> Units(f, k)]
<1>1. IsFiniteSet(S)
  BY FS_Subset
<1>2. u \in Surjection(S, T)
  BY DEF Surjection
<1>3. IsFiniteSet(T)
  BY <1>1, <1>2, FS_Surjection
<1>4. \A t \in T : IsFiniteSet(t)
  BY UnitsFinite
<1>5. QED
  BY <1>3, <1>4, FS_UNION

LEMMA SumNat ==
    ASSUME NEW D, IsFiniteSet(D), NEW f \in [D -> Nat]
    PROVE  SumOf(f) \in Nat
<1>1. IsFiniteSet(UNION {Units(f, k) : k \in D})
  BY UnitsOfFinite
<1>2. QED
  BY <1>1, FS_CardinalityType DEF SumOf

LEMMA SumZero ==
    ASSUME NEW D, NEW f \in [D -> Nat], \A k \in D : f[k] = 0
    PROVE  SumOf(f) = 0
<1>1. UNION {Units(f, k) : k \in D} = {}
  BY DEF Units
<1>2. QED
  BY <1>1, FS_EmptySet DEF SumOf

\* A sum is one of its terms and the sum of the others, which is the same for
\* two functions that agree on the others.
LEMMA SumWithout ==
    ASSUME NEW D, IsFiniteSet(D), NEW f \in [D -> Nat], NEW k \in D
    PROVE  SumOf(f) =
             f[k] + Cardinality(UNION {Units(f, i) : i \in D \ {k}})
<1> DEFINE R == UNION {Units(f, i) : i \in D \ {k}}
<1> SUFFICES SumOf(f) = f[k] + Cardinality(R)
  OBVIOUS
<1>1. IsFiniteSet(R)
  BY UnitsOfFinite
<1>2. IsFiniteSet(Units(f, k)) /\ Cardinality(Units(f, k)) = f[k]
  BY UnitsFinite
<1>3. Units(f, k) \cap R = {}
  BY DEF Units
<1>4. UNION {Units(f, i) : i \in D} = Units(f, k) \cup R
  OBVIOUS
<1>5. Cardinality(R) \in Nat /\ Cardinality({}) = 0
  BY <1>1, FS_CardinalityType, FS_EmptySet
<1>6. Cardinality(Units(f, k) \cup R)
        = Cardinality(Units(f, k)) + Cardinality(R) - Cardinality({})
  BY <1>1, <1>2, <1>3, FS_Union
<1>7. SumOf(f) = Cardinality(Units(f, k) \cup R)
  BY <1>4 DEF SumOf
<1>8. f[k] \in Nat
  OBVIOUS
<1> HIDE DEF R
<1>9. QED
  BY <1>2, <1>3, <1>5, <1>6, <1>7, <1>8

LEMMA SumChange ==
    ASSUME NEW D, IsFiniteSet(D), NEW f \in [D -> Nat], NEW g \in [D -> Nat],
           NEW k \in D, \A i \in D \ {k} : g[i] = f[i]
    PROVE  SumOf(g) = SumOf(f) + g[k] - f[k] /\ SumOf(f) >= f[k]
<1> DEFINE R(h) == UNION {Units(h, i) : i \in D \ {k}}
<1>1. R(g) = R(f)
  BY DEF Units
<1>2. Cardinality(R(f)) \in Nat
  BY UnitsOfFinite, FS_CardinalityType
<1>3. SumOf(f) = f[k] + Cardinality(R(f))
  BY SumWithout
<1>4. SumOf(g) = g[k] + Cardinality(R(g))
  BY SumWithout
<1>5. f[k] \in Nat /\ g[k] \in Nat
  OBVIOUS
<1> HIDE DEF R
<1>6. QED
  BY <1>1, <1>2, <1>3, <1>4, <1>5

\* A sum over more terms is no smaller.
LEMMA SumGrows ==
    ASSUME NEW D, IsFiniteSet(D), NEW f \in [D -> Nat],
           NEW C \in SUBSET D, NEW g \in [C -> Nat], \A k \in C : g[k] = f[k]
    PROVE  SumOf(g) <= SumOf(f)
<1>1. IsFiniteSet(UNION {Units(f, k) : k \in D})
  BY UnitsOfFinite
<1>2. UNION {Units(g, k) : k \in C} \subseteq UNION {Units(f, k) : k \in D}
  <2>1. \A k \in C : Units(g, k) = Units(f, k)
    BY DEF Units
  <2>2. QED
    BY <2>1
<1>3. QED
  BY <1>1, <1>2, FS_Subset DEF SumOf

\* A sum over one term more is larger by that term.
LEMMA SumGains ==
    ASSUME NEW D, IsFiniteSet(D), NEW f \in [D -> Nat], NEW k \in D
    PROVE  SumOf(f) = SumOf([i \in D \ {k} |-> f[i]]) + f[k]
<1> DEFINE R(h) == UNION {Units(h, i) : i \in D \ {k}}
           g == [i \in D \ {k} |-> f[i]]
<1>1. R(g) = R(f)
  BY DEF Units
<1>2. SumOf(g) = Cardinality(R(g))
  <2>1. DOMAIN g = D \ {k}
    OBVIOUS
  <2>2. QED
    BY <2>1 DEF SumOf
<1>3. SumOf(f) = f[k] + Cardinality(R(f))
  BY SumWithout
<1>4. Cardinality(R(f)) \in Nat
  <2>1. IsFiniteSet(R(f))
    BY UnitsOfFinite
  <2>2. QED
    BY <2>1, FS_CardinalityType
<1>5. f[k] \in Nat
  OBVIOUS
<1> HIDE DEF R, g
<1>6. SumOf(f) = SumOf(g) + f[k]
  BY <1>1, <1>2, <1>3, <1>4, <1>5
<1>7. QED
  BY <1>6 DEF g

\* The t-th place of the i-th block of s places is no place of another block.
LEMMA PlaceIsUnique ==
    ASSUME NEW s \in Nat, NEW i \in Nat \ {0}, NEW j \in Nat \ {0},
           NEW t \in 1 .. s, NEW u \in 1 .. s,
           (i - 1) * s + t = (j - 1) * s + u
    PROVE  i = j /\ t = u
<1>1. \A a, b \in Nat : a < b => a * s + s <= b * s
  <2> SUFFICES ASSUME NEW a \in Nat, NEW b \in Nat, a < b
               PROVE  a * s + s <= b * s
    OBVIOUS
  <2>1. (b - a - 1) * s >= 0
    OBVIOUS
  <2>2. (b - a - 1) * s = b * s - a * s - s
    OBVIOUS
  <2>3. a * s \in Nat /\ b * s \in Nat
    OBVIOUS
  <2>4. QED
    BY <2>1, <2>2, <2>3
<1>2. PICK a \in Nat, b \in Nat : a = i - 1 /\ b = j - 1
  OBVIOUS
<1>3. a * s \in Nat /\ b * s \in Nat
  OBVIOUS
<1>4. a = b
  BY <1>1, <1>2, <1>3
<1>5. QED
  BY <1>2, <1>3, <1>4

\* A sum of terms that are each at least s times another's is s times as large.
LEMMA SumScaled ==
    ASSUME NEW D, IsFiniteSet(D), NEW f \in [D -> Nat], NEW g \in [D -> Nat],
           NEW s \in Nat, \A k \in D : f[k] * s <= g[k]
    PROVE  SumOf(f) * s <= SumOf(g)
<1> DEFINE A == UNION {Units(f, k) : k \in D}
           B == UNION {Units(g, k) : k \in D}
           Place(i, t) == (i - 1) * s + t
           h == [x \in A \X (1 .. s) |-> <<x[1][1], Place(x[1][2], x[2])>>]
<1>1. IsFiniteSet(A) /\ IsFiniteSet(B)
  BY UnitsOfFinite
<1>2. \A x \in A \X (1 .. s) :
         /\ x = <<<<x[1][1], x[1][2]>>, x[2]>>
         /\ x[1][1] \in D /\ x[1][2] \in 1 .. f[x[1][1]] /\ x[2] \in 1 .. s
  BY DEF Units
<1>3. ASSUME NEW k \in D, NEW i \in 1 .. f[k], NEW t \in 1 .. s
      PROVE  Place(i, t) \in 1 .. g[k]
  <2>1. f[k] \in Nat /\ g[k] \in Nat /\ i \in Nat /\ t \in Nat /\ t <= s
    OBVIOUS
  <2>2. (i - 1) * s \in Nat /\ i * s \in Nat /\ f[k] * s \in Nat
    BY <2>1
  <2>3. (i - 1) * s + s = i * s
    BY <2>1
  <2>4. i * s <= f[k] * s
    <3>1. (f[k] - i) * s >= 0
      BY <2>1
    <3>2. (f[k] - i) * s = f[k] * s - i * s
      BY <2>1
    <3>3. QED
      BY <2>2, <3>1, <3>2
  <2>5. QED
    BY <2>1, <2>2, <2>3, <2>4
<1>4. \A x \in A \X (1 .. s) : h[x] \in B
  <2> SUFFICES ASSUME NEW x \in A \X (1 .. s) PROVE h[x] \in B
    OBVIOUS
  <2>1. Place(x[1][2], x[2]) \in 1 .. g[x[1][1]]
    BY <1>2, <1>3
  <2>2. h[x] \in Units(g, x[1][1])
    BY <1>2, <2>1 DEF Units
  <2>3. QED
    BY <1>2, <2>2
<1>5. ASSUME NEW x \in A \X (1 .. s), NEW y \in A \X (1 .. s), h[x] = h[y]
      PROVE  x = y
  <2>1. x[1][1] = y[1][1] /\ Place(x[1][2], x[2]) = Place(y[1][2], y[2])
    BY <1>5
  <2>2. x[1][2] \in Nat \ {0} /\ y[1][2] \in Nat \ {0}
    BY <1>2
  <2>3. PICK i \in Nat \ {0}, n \in Nat \ {0} : i = x[1][2] /\ n = y[1][2]
    BY <2>2
  <2>4. PICK t \in 1 .. s, u \in 1 .. s : t = x[2] /\ u = y[2]
    BY <1>2
  <2>5. (i - 1) * s + t = (n - 1) * s + u
    BY <2>1, <2>3, <2>4
  <2>6. i = n /\ t = u
    BY <2>5, PlaceIsUnique
  <2>7. QED
    BY <1>2, <2>1, <2>3, <2>4, <2>6
<1>6. h \in Injection(A \X (1 .. s), B)
  BY <1>4, <1>5 DEF Injection, IsInjective
<1>7. Cardinality(A \X (1 .. s)) <= Cardinality(B)
  BY <1>1, <1>6, FS_Injection
<1>8. Cardinality(A \X (1 .. s)) = Cardinality(A) * s
  <2> HIDE DEF A, B, h
  <2>1. IsFiniteSet(1 .. s) /\ Cardinality(1 .. s) = s
    BY FS_Interval
  <2>2. Cardinality(A \X (1 .. s)) = Cardinality(A) * Cardinality(1 .. s)
    BY <1>1, <2>1, FS_Product
  <2>3. QED
    BY <2>1, <2>2
<1>9. SumOf(f) = Cardinality(A) /\ SumOf(g) = Cardinality(B)
  BY DEF SumOf
<1>10. QED
  BY <1>7, <1>8, <1>9
=============================================================================
