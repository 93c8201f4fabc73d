----------------------------- MODULE CollectionProofs -----------------------------
(***************************************************************************)
(* What the proofs need of the collections: of SumOver, that it is a       *)
(* natural number, what one summand contributes to it, that it depends on  *)
(* nothing else and adds up; of Without, that removing entries from a list *)
(* leaves a list of exactly the others, in their order, and never makes    *)
(* one occur twice; of numbers, that a set has a least one and a finite    *)
(* family a first highest one.                                             *)
(***************************************************************************)
EXTENDS Sums, PoolLists, FiniteSetTheorems, WellFoundedInduction, TLAPS

LEMMA LeastNumber ==
  ASSUME NEW T \in SUBSET Nat, T # {}
  PROVE  \E n \in T : \A m \in T : n <= m
<1> DEFINE R == {ss \in Nat \X Nat : ss[1] < ss[2]}
<1>1. IsWellFoundedOn(R, Nat)
  <2>1. R = OpToRel(<, Nat)
    BY DEF OpToRel
  <2>2. QED
    BY <2>1, NatLessThanWellFounded, Zenon
<1>2. \A m, n \in Nat : m < n => <<m, n>> \in R
  OBVIOUS
<1> HIDE DEF R
<1>3. PICK n \in T : \A m \in T : ~(<<m, n>> \in R)
  BY <1>1, WFMin
<1>4. ASSUME NEW m \in T
      PROVE  n <= m
  <2>1. m \in Nat /\ n \in Nat
    OBVIOUS
  <2>2. ~(m < n)
    BY <1>2, <1>3, <2>1
  <2>3. QED
    BY <2>1, <2>2
<1>5. QED
  BY <1>4

-----------------------------------------------------------------------------
(* Sums. *)

LEMMA UnitsFinite ==
  ASSUME NEW S, IsFiniteSet(S), NEW f, \A x \in S : f[x] \in Nat
  PROVE  IsFiniteSet(Units(f, S))
<1> DEFINE block == [x \in S |-> {x} \X (1 .. f[x])]
           blocks == {block[x] : x \in S}
<1>1. IsFiniteSet(blocks)
  <2>1. block \in Surjection(S, blocks)
    BY DEF Surjection
  <2>2. QED
    BY <2>1, FS_Surjection
<1>2. ASSUME NEW B \in blocks PROVE IsFiniteSet(B)
  <2>1. PICK x \in S : B = {x} \X (1 .. f[x])
    OBVIOUS
  <2>2. IsFiniteSet({x})
    BY FS_Singleton
  <2>3. IsFiniteSet(1 .. f[x])
    <3>1. 1 \in Int /\ f[x] \in Int
      OBVIOUS
    <3>2. QED
      BY <3>1, FS_Interval
  <2>4. QED
    BY <2>1, <2>2, <2>3, FS_Product
<1>3. Units(f, S) = UNION blocks
  BY DEF Units
<1>4. QED
  BY <1>1, <1>2, <1>3, FS_UNION

LEMMA SumType ==
  ASSUME NEW S, IsFiniteSet(S), NEW f, \A x \in S : f[x] \in Nat
  PROVE  SumOver(f, S) \in Nat
BY UnitsFinite, FS_CardinalityType DEF SumOver

LEMMA SumEmpty ==
  ASSUME NEW f
  PROVE  SumOver(f, {}) = 0
<1>1. Units(f, {}) = {}
  BY DEF Units
<1>2. QED
  BY <1>1, FS_EmptySet DEF SumOver

(* A sum is the contribution of one element and the sum of the others.     *)
LEMMA SumSplit ==
  ASSUME NEW S, IsFiniteSet(S), NEW f, \A x \in S : f[x] \in Nat, NEW y \in S
  PROVE  /\ SumOver(f, S \ {y}) \in Nat
         /\ SumOver(f, S) = SumOver(f, S \ {y}) + f[y]
<1> DEFINE rest == Units(f, S \ {y})
           own == {y} \X (1 .. f[y])
<1>1. IsFiniteSet(S \ {y})
  BY FS_RemoveElement
<1>2. IsFiniteSet(rest) /\ SumOver(f, S \ {y}) = Cardinality(rest)
  BY <1>1, UnitsFinite DEF SumOver
<1>3. IsFiniteSet(own) /\ Cardinality(own) = f[y]
  <2>1. IsFiniteSet({y}) /\ Cardinality({y}) = 1
    BY FS_Singleton
  <2>2. f[y] \in Nat
    OBVIOUS
  <2>3. IsFiniteSet(1 .. f[y]) /\ Cardinality(1 .. f[y]) = f[y]
    <3>1. 1 \in Int /\ f[y] \in Int
      BY <2>2
    <3>2. /\ IsFiniteSet(1 .. f[y])
          /\ Cardinality(1 .. f[y]) = IF 1 > f[y] THEN 0 ELSE f[y] - 1 + 1
      BY <3>1, FS_Interval
    <3>3. QED
      BY <2>2, <3>2
  <2>4. /\ IsFiniteSet(own)
        /\ Cardinality(own) = Cardinality({y}) * Cardinality(1 .. f[y])
    BY <2>1, <2>3, FS_Product
  <2>5. QED
    BY <2>1, <2>2, <2>3, <2>4
<1>4. Units(f, S) = rest \cup own
  BY DEF Units
<1>5. rest \cap own = {}
  BY DEF Units
<1>6. Cardinality(rest) \in Nat
  BY <1>2, FS_CardinalityType
<1>7. Cardinality(rest \cup own) = Cardinality(rest) + f[y]
  <2>1. Cardinality(rest \cup own)
          = Cardinality(rest) + Cardinality(own) - Cardinality(rest \cap own)
    BY <1>2, <1>3, FS_Union
  <2>2. Cardinality(rest \cap own) = 0
    BY <1>5, FS_EmptySet
  <2>3. QED
    BY <1>3, <1>6, <2>1, <2>2
<1>8. QED
  BY <1>2, <1>4, <1>6, <1>7 DEF SumOver

(* A sum is determined by the values on its set.                           *)
LEMMA SumSame ==
  ASSUME NEW S, NEW f, NEW g, \A x \in S : f[x] = g[x]
  PROVE  SumOver(f, S) = SumOver(g, S)
<1>1. Units(f, S) = Units(g, S)
  BY DEF Units
<1>2. QED
  BY <1>1 DEF SumOver

(* Changing one summand changes the sum by as much.                        *)
LEMMA SumChange ==
  ASSUME NEW S, IsFiniteSet(S), NEW y \in S,
         NEW f, \A x \in S : f[x] \in Nat,
         NEW g, \A x \in S : g[x] \in Nat,
         \A x \in S \ {y} : g[x] = f[x]
  PROVE  SumOver(g, S) = SumOver(f, S) - f[y] + g[y]
<1>1. SumOver(f, S \ {y}) = SumOver(g, S \ {y})
  BY SumSame
<1>2. /\ SumOver(f, S \ {y}) \in Nat
      /\ SumOver(f, S) = SumOver(f, S \ {y}) + f[y]
  BY SumSplit
<1>3. SumOver(g, S) = SumOver(g, S \ {y}) + g[y]
  BY SumSplit
<1>4. f[y] \in Nat /\ g[y] \in Nat
  OBVIOUS
<1>5. QED
  BY <1>1, <1>2, <1>3, <1>4

LEMMA SummandBelow ==
  ASSUME NEW S, IsFiniteSet(S), NEW f, \A x \in S : f[x] \in Nat, NEW y \in S
  PROVE  f[y] <= SumOver(f, S)
<1>1. f[y] \in Nat
  OBVIOUS
<1>2. /\ SumOver(f, S \ {y}) \in Nat
      /\ SumOver(f, S) = SumOver(f, S \ {y}) + f[y]
  BY SumSplit
<1>3. QED
  BY <1>1, <1>2

(* A summand of zero may be left out.                                      *)
LEMMA SumWithZeros ==
  ASSUME NEW S, NEW T \in SUBSET S, NEW f, \A x \in S \ T : f[x] = 0
  PROVE  SumOver(f, S) = SumOver(f, T)
<1>1. \A x \in S \ T : {x} \X (1 .. f[x]) = {}
  BY 1 .. 0 = {}
<1>2. Units(f, S) = Units(f, T)
  BY <1>1 DEF Units
<1>3. QED
  BY <1>2 DEF SumOver

(* Sums add summand by summand: the units of g, and after them those of h, *)
(* are the units of f.                                                     *)
LEMMA SumAdds ==
  ASSUME NEW S, IsFiniteSet(S),
         NEW f, \A x \in S : f[x] \in Nat,
         NEW g, \A x \in S : g[x] \in Nat,
         NEW h, \A x \in S : h[x] \in Nat,
         \A x \in S : f[x] = g[x] + h[x]
  PROVE  SumOver(f, S) = SumOver(g, S) + SumOver(h, S)
<1> DEFINE after == UNION {{x} \X ((g[x] + 1) .. f[x]) : x \in S}
           place == [u \in Units(h, S) |-> <<u[1], g[u[1]] + u[2]>>]
<1>1. \A u : u \in Units(h, S)
              <=> \E x \in S : \E n \in 1 .. h[x] : u = <<x, n>>
  BY DEF Units
<1>2. \A u : u \in after <=> \E x \in S : \E n \in (g[x] + 1) .. f[x] : u = <<x, n>>
  OBVIOUS
<1>3. place \in Bijection(Units(h, S), after)
  <2>1. ASSUME NEW u \in Units(h, S)
        PROVE  place[u] \in after
    <3>1. PICK x \in S : \E n \in 1 .. h[x] : u = <<x, n>>
      BY <1>1
    <3>2. PICK n \in 1 .. h[x] : u = <<x, n>>
      BY <3>1
    <3>3. g[x] + n \in (g[x] + 1) .. f[x] /\ place[u] = <<x, g[x] + n>>
      BY <3>2
    <3>4. QED
      BY <1>2, <3>3
  <2>2. ASSUME NEW u \in Units(h, S), NEW v \in Units(h, S), place[u] = place[v]
        PROVE  u = v
    <3>1. PICK x \in S : \E n \in 1 .. h[x] : u = <<x, n>>
      BY <1>1
    <3>2. PICK n \in 1 .. h[x] : u = <<x, n>>
      BY <3>1
    <3>3. PICK y \in S : \E m \in 1 .. h[y] : v = <<y, m>>
      BY <1>1
    <3>4. PICK m \in 1 .. h[y] : v = <<y, m>>
      BY <3>3
    <3>5. place[u] = <<x, g[x] + n>> /\ place[v] = <<y, g[y] + m>>
      BY <3>2, <3>4
    <3>6. x = y /\ g[x] + n = g[x] + m
      BY <2>2, <3>5
    <3>7. n = m
      BY <3>6
    <3>8. QED
      BY <3>2, <3>4, <3>6, <3>7
  <2>3. ASSUME NEW w \in after
        PROVE  \E u \in Units(h, S) : place[u] = w
    <3>1. PICK x \in S : \E n \in (g[x] + 1) .. f[x] : w = <<x, n>>
      BY <1>2
    <3>2. PICK n \in (g[x] + 1) .. f[x] : w = <<x, n>>
      BY <3>1
    <3>3. n - g[x] \in 1 .. h[x] /\ g[x] + (n - g[x]) = n
      BY <3>2
    <3>4. <<x, n - g[x]>> \in Units(h, S)
      BY <1>1, <3>3
    <3>5. place[<<x, n - g[x]>>] = w
      BY <3>2, <3>3, <3>4
    <3>6. QED
      BY <3>4, <3>5
  <2> HIDE DEF place, after
  <2>4. place \in [Units(h, S) -> after]
    BY <2>1 DEF place
  <2>5. QED
    BY <2>2, <2>3, <2>4
       DEF Bijection, Injection, Surjection, IsInjective
<1>4. /\ IsFiniteSet(Units(g, S)) /\ IsFiniteSet(Units(h, S))
      /\ IsFiniteSet(Units(f, S))
  BY UnitsFinite
<1>5. IsFiniteSet(after) /\ Cardinality(after) = SumOver(h, S)
  BY <1>3, <1>4, FS_Bijection DEF SumOver, ExistsBijection
<1>6. Units(f, S) = Units(g, S) \cup after
  <2>1. \A x \in S : 1 .. f[x] = (1 .. g[x]) \cup ((g[x] + 1) .. f[x])
    OBVIOUS
  <2>2. QED
    BY <2>1 DEF Units
<1>7. Units(g, S) \cap after = {}
  <2>1. \A x \in S : (1 .. g[x]) \cap ((g[x] + 1) .. f[x]) = {}
    OBVIOUS
  <2>2. QED
    BY <2>1 DEF Units
<1> HIDE DEF after
<1>8. /\ Cardinality(Units(f, S)) = Cardinality(Units(g, S)) + Cardinality(after)
                                       - Cardinality(Units(g, S) \cap after)
      /\ Cardinality(Units(g, S) \cap after) = 0
  BY <1>4, <1>5, <1>6, <1>7, FS_Union, FS_EmptySet
<1>9. SumOver(g, S) \in Nat /\ SumOver(h, S) \in Nat
  BY SumType
<1>10. QED
  BY <1>5, <1>8, <1>9 DEF SumOver

(* Shares of a whole are bounded as each of them is.                       *)
LEMMA SumScaled ==
  ASSUME NEW S, IsFiniteSet(S), NEW a \in Nat, NEW b \in Nat,
         NEW f, \A x \in S : f[x] \in Nat,
         NEW g, \A x \in S : g[x] \in Nat,
         \A x \in S : f[x] * a <= g[x] * b
  PROVE  SumOver(f, S) * a <= SumOver(g, S) * b
<1> DEFINE over(T) == ~(SumOver(f, T) * a <= SumOver(g, T) * b)
           sizes == {n \in Nat : \E T \in SUBSET S : Cardinality(T) = n /\ over(T)}
<1> SUFFICES ASSUME over(S)
             PROVE  FALSE
  OBVIOUS
<1> HIDE DEF over
<1>1. sizes \in SUBSET Nat /\ sizes # {}
  <2>1. Cardinality(S) \in Nat
    BY FS_CardinalityType
  <2>2. Cardinality(S) \in sizes
    BY <2>1
  <2>3. QED
    BY <2>2
<1>2. PICK n \in sizes : \A m \in sizes : n <= m
  <2> HIDE DEF sizes
  <2>1. QED
    BY <1>1, LeastNumber
<1>3. PICK T \in SUBSET S : Cardinality(T) = n /\ over(T)
  OBVIOUS
<1>4. IsFiniteSet(T)
  BY FS_Subset
<1>5. T # {}
  <2>1. SumOver(f, {}) = 0 /\ SumOver(g, {}) = 0
    BY SumEmpty
  <2>2. 0 * a <= 0 * b
    OBVIOUS
  <2>3. ~over({})
    BY <2>1, <2>2 DEF over
  <2>4. QED
    BY <1>3, <2>3
<1>6. PICK y \in T : TRUE
  BY <1>5
<1>7. ~over(T \ {y})
  <2>1. Cardinality(T \ {y}) = n - 1
    BY <1>3, <1>4, FS_RemoveElement
  <2>2. n \in Nat /\ n # 0
    <3>1. Cardinality(T) # 0
      BY <1>4, <1>5, FS_EmptySet
    <3>2. QED
      BY <1>1, <1>3, <3>1
  <2>3. n - 1 \in Nat /\ ~(n <= n - 1)
    BY <2>2
  <2>4. n - 1 \notin sizes
    BY <1>2, <2>3
  <2>5. T \ {y} \in SUBSET S
    OBVIOUS
  <2>6. QED
    BY <2>1, <2>3, <2>4, <2>5
<1>8. /\ SumOver(f, T \ {y}) \in Nat /\ SumOver(f, T) = SumOver(f, T \ {y}) + f[y]
      /\ SumOver(g, T \ {y}) \in Nat /\ SumOver(g, T) = SumOver(g, T \ {y}) + g[y]
  <2>1. \A x \in T : f[x] \in Nat /\ g[x] \in Nat
    OBVIOUS
  <2>2. QED
    BY <1>4, <1>6, <2>1, SumSplit
<1>9. f[y] * a <= g[y] * b /\ f[y] \in Nat /\ g[y] \in Nat
  BY <1>6
<1> DEFINE p == SumOver(f, T \ {y})
           q == SumOver(g, T \ {y})
<1>10. (p + f[y]) * a = p * a + f[y] * a /\ (q + g[y]) * b = q * b + g[y] * b
  BY <1>8, <1>9
<1>11. p * a \in Int /\ f[y] * a \in Int /\ q * b \in Int /\ g[y] * b \in Int
  BY <1>8, <1>9
<1>12. p * a <= q * b
  BY <1>7 DEF over
<1> HIDE DEF p, q
<1>13. (p + f[y]) * a <= (q + g[y]) * b
  BY <1>9, <1>10, <1>11, <1>12
<1>14. QED
  BY <1>3, <1>8, <1>13 DEF over, p, q

LEMMA SumMonotone ==
  ASSUME NEW S, IsFiniteSet(S),
         NEW f, \A x \in S : f[x] \in Nat,
         NEW g, \A x \in S : g[x] \in Nat,
         \A x \in S : f[x] <= g[x]
  PROVE  SumOver(f, S) <= SumOver(g, S)
<1>1. \A x \in S : f[x] * 1 <= g[x] * 1
  OBVIOUS
<1>2. SumOver(f, S) * 1 <= SumOver(g, S) * 1
  BY <1>1, SumScaled
<1>3. SumOver(f, S) \in Nat /\ SumOver(g, S) \in Nat
  BY SumType
<1>4. QED
  BY <1>2, <1>3

(* A sum without a summand of one is without any.                          *)
LEMMA SumOfNone ==
  ASSUME NEW S, IsFiniteSet(S), NEW f, \A x \in S : f[x] \in Nat \ {0}, SumOver(f, S) = 0
  PROVE  S = {}
<1>1. \A x \in S : f[x] \in Nat /\ f[x] # 0
  OBVIOUS
<1>2. SUFFICES ASSUME NEW y \in S PROVE FALSE
  OBVIOUS
<1>3. f[y] <= SumOver(f, S)
  BY <1>1, SummandBelow
<1>4. QED
  BY <1>1, <1>3

(* One more element adds its summand. *)
LEMMA SumOneMore ==
  ASSUME NEW S, IsFiniteSet(S), NEW y, y \notin S,
         NEW f, \A x \in S : f[x] \in Nat, f[y] \in Nat
  PROVE  SumOver(f, S \cup {y}) = SumOver(f, S) + f[y]
<1>1. IsFiniteSet(S \cup {y})
  BY FS_AddElement
<1>2. (S \cup {y}) \ {y} = S
  OBVIOUS
<1>3. \A x \in S \cup {y} : f[x] \in Nat
  OBVIOUS
<1>4. QED
  BY <1>1, <1>2, <1>3, SumSplit

(* What one share of a sum lacks of its bound, the sum lacks.              *)
LEMMA SummandGap ==
  ASSUME NEW S, IsFiniteSet(S), NEW y \in S,
         NEW f, \A x \in S : f[x] \in Nat,
         NEW g, \A x \in S : g[x] \in Nat,
         \A x \in S : f[x] <= g[x]
  PROVE  g[y] - f[y] <= SumOver(g, S) - SumOver(f, S)
<1> DEFINE h == [x \in S |-> g[x] - f[x]]
<1>1. \A x \in S : h[x] \in Nat /\ g[x] = f[x] + h[x]
  OBVIOUS
<1>2. h[y] = g[y] - f[y]
  OBVIOUS
<1> HIDE DEF h
<1>3. SumOver(g, S) = SumOver(f, S) + SumOver(h, S)
  BY <1>1, SumAdds
<1>4. h[y] <= SumOver(h, S)
  BY <1>1, SummandBelow
<1>5. SumOver(f, S) \in Nat /\ SumOver(h, S) \in Nat /\ h[y] \in Nat
  BY <1>1, SumType
<1>6. QED
  BY <1>2, <1>3, <1>4, <1>5

(* A change of one summand, and a gain of the others. *)
LEMMA SumDrops ==
  ASSUME NEW S, IsFiniteSet(S), NEW y \in S, NEW d \in Int,
         NEW f, \A x \in S : f[x] \in Nat,
         NEW g, \A x \in S : g[x] \in Nat,
         \A x \in S \ {y} : f[x] <= g[x], f[y] <= g[y] + d
  PROVE  SumOver(f, S) <= SumOver(g, S) + d
<1>1. /\ SumOver(f, S \ {y}) \in Nat /\ SumOver(f, S) = SumOver(f, S \ {y}) + f[y]
      /\ SumOver(g, S \ {y}) \in Nat /\ SumOver(g, S) = SumOver(g, S \ {y}) + g[y]
  BY SumSplit
<1>2. IsFiniteSet(S \ {y}) /\ \A x \in S \ {y} : f[x] \in Nat /\ g[x] \in Nat
  BY FS_RemoveElement
<1>3. SumOver(f, S \ {y}) <= SumOver(g, S \ {y})
  BY <1>2, SumMonotone
<1>4. f[y] \in Nat /\ g[y] \in Nat
  OBVIOUS
<1>5. QED
  BY <1>1, <1>3, <1>4

(* Among finitely many entries there is a first one of the highest value.  *)
LEMMA FirstHighest ==
  ASSUME NEW S \in SUBSET Nat, IsFiniteSet(S), S # {}, NEW f, \A i \in S : f[i] \in Nat
  PROVE  \E i \in S : \A j \in S : f[j] < f[i] \/ (f[j] = f[i] /\ i <= j)
<1> DEFINE bound == SumOver(f, S)
           below == {bound - f[i] : i \in S}
<1>1. bound \in Nat /\ \A i \in S : f[i] \in Nat /\ f[i] <= bound
  BY SumType, SummandBelow
<1> HIDE DEF bound
<1>2. below \in SUBSET Nat /\ below # {}
  <2>1. \A i \in S : bound - f[i] \in Nat
    BY <1>1
  <2>2. QED
    BY <2>1
<1>3. PICK d \in below : \A e \in below : d <= e
  <2> HIDE DEF below
  <2>1. QED
    BY <1>2, LeastNumber
<1> DEFINE highest == {i \in S : bound - f[i] = d}
<1>4. highest \in SUBSET Nat /\ highest # {}
  BY <1>3
<1>5. PICK i \in highest : \A j \in highest : i <= j
  <2> HIDE DEF highest
  <2>1. QED
    BY <1>4, LeastNumber
<1>6. ASSUME NEW j \in S
      PROVE  f[j] < f[i] \/ (f[j] = f[i] /\ i <= j)
  <2>1. i \in S /\ bound - f[i] = d /\ f[i] \in Nat /\ f[j] \in Nat
    BY <1>1, <1>5
  <2>2. d <= bound - f[j]
    BY <1>3
  <2>3. CASE bound - f[j] = d
    BY <1>1, <1>5, <2>1, <2>3
  <2>4. CASE bound - f[j] # d
    <3>1. d \in Int
      BY <1>1, <2>1
    <3>2. QED
      BY <1>1, <2>1, <2>2, <2>4, <3>1
  <2>5. QED
    BY <2>3, <2>4
<1>7. QED
  BY <1>5, <1>6

-----------------------------------------------------------------------------
(* Lists. *)

(* Rank numbers the members of a finite set of positions.                  *)
LEMMA RankNumbers ==
  ASSUME NEW n \in Nat, NEW kept \in SUBSET (1 .. n)
  PROVE  /\ IsFiniteSet(kept)
         /\ Cardinality(kept) \in Nat
         /\ \A i \in kept : Rank(kept, i) \in 1 .. Cardinality(kept)
         /\ \A i, j \in kept : Rank(kept, i) = Rank(kept, j) => i = j
         /\ \A k \in 1 .. Cardinality(kept) : \E i \in kept : Rank(kept, i) = k
<1>1. IsFiniteSet(kept) /\ Cardinality(kept) \in Nat
  <2>1. IsFiniteSet(1 .. n)
    BY FS_Interval
  <2>2. QED
    BY <2>1, FS_Subset, FS_CardinalityType
<1>2. ASSUME NEW i \in kept
      PROVE  /\ IsFiniteSet(kept \cap (1 .. i))
             /\ Rank(kept, i) \in 1 .. Cardinality(kept)
  <2> DEFINE upTo == kept \cap (1 .. i)
  <2>1. IsFiniteSet(upTo) /\ Cardinality(upTo) <= Cardinality(kept)
    BY <1>1, FS_Intersection
  <2>2. Cardinality(upTo) \in Nat
    BY <2>1, FS_CardinalityType
  <2>3. upTo # {}
    BY <1>2
  <2>4. Cardinality(upTo) # 0
    BY <2>1, <2>3, FS_EmptySet
  <2>5. QED
    BY <1>1, <2>1, <2>2, <2>4 DEF Rank
<1>3. ASSUME NEW i \in kept, NEW j \in kept, i < j
      PROVE  Rank(kept, i) < Rank(kept, j)
  <2> DEFINE upToI == kept \cap (1 .. i)
             upToJ == kept \cap (1 .. j)
  <2>1. i \in Int /\ j \in Int
    OBVIOUS
  <2>2. upToI \subseteq upToJ /\ j \in upToJ /\ j \notin upToI
    BY <1>3, <2>1
  <2>3. IsFiniteSet(upToI) /\ IsFiniteSet(upToJ)
    BY <1>2
  <2>4. Cardinality(upToI) \in Nat /\ Cardinality(upToJ) \in Nat
    BY <2>3, FS_CardinalityType
  <2>5. /\ Cardinality(upToI) <= Cardinality(upToJ)
        /\ Cardinality(upToI) # Cardinality(upToJ)
    BY <2>2, <2>3, FS_Subset
  <2>6. QED
    BY <2>4, <2>5 DEF Rank
<1>4. ASSUME NEW i \in kept, NEW j \in kept, Rank(kept, i) = Rank(kept, j)
      PROVE  i = j
  <2>1. i \in Int /\ j \in Int
    OBVIOUS
  <2>2. Rank(kept, i) \in Int /\ Rank(kept, j) \in Int
    <3>1. /\ Rank(kept, i) \in 1 .. Cardinality(kept)
          /\ Rank(kept, j) \in 1 .. Cardinality(kept)
      BY <1>2
    <3>2. QED
      BY <3>1
  <2>3. CASE i < j
    BY <1>3, <1>4, <2>2, <2>3
  <2>4. CASE j < i
    BY <1>3, <1>4, <2>2, <2>4
  <2>5. QED
    BY <2>1, <2>3, <2>4
<1>5. ASSUME NEW k \in 1 .. Cardinality(kept)
      PROVE  \E i \in kept : Rank(kept, i) = k
  <2> DEFINE ranks == [i \in kept |-> Rank(kept, i)]
             T     == 1 .. Cardinality(kept)
  <2>1. ranks \in Injection(kept, T)
    <3>1. ranks \in [kept -> T]
      BY <1>2
    <3>2. \A i, j \in kept : ranks[i] = ranks[j] => i = j
      BY <1>4
    <3>3. QED
      BY <3>1, <3>2 DEF Injection, IsInjective
  <2>2. IsFiniteSet(T) /\ Cardinality(T) = Cardinality(kept)
    <3>1. 1 \in Int /\ Cardinality(kept) \in Int
      BY <1>1
    <3>2. /\ IsFiniteSet(T)
          /\ Cardinality(T) = IF 1 > Cardinality(kept) THEN 0
                              ELSE Cardinality(kept) - 1 + 1
      BY <3>1, FS_Interval
    <3>3. QED
      BY <1>1, <3>2
  <2>3. ranks \in Surjection(kept, T)
    BY <2>1, <2>2, FS_Injection
  <2>4. QED
    BY <2>3 DEF Surjection
<1>6. QED
  BY <1>1, <1>2, <1>4, <1>5

(* Entries leave from the front of a list only: the rest moves up.         *)
LEMMA WithoutPrefix ==
  ASSUME NEW n \in Nat, NEW list, DOMAIN list = 1 .. n, NEW s \in 0 .. n, NEW gone,
         \A i \in 1 .. n : list[i] \in gone <=> i <= s
  PROVE  Without(list, gone) = [k \in 1 .. n - s |-> list[s + k]]
<1> DEFINE kept == {i \in DOMAIN list : list[i] \notin gone}
<1>1. kept = (s + 1) .. n
  OBVIOUS
<1>2. \A a, b \in Int : a <= b + 1 => Cardinality(a .. b) = b - a + 1
  <2> SUFFICES ASSUME NEW a \in Int, NEW b \in Int, a <= b + 1
               PROVE  Cardinality(a .. b) = b - a + 1
    OBVIOUS
  <2>1. Cardinality(a .. b) = IF a > b THEN 0 ELSE b - a + 1
    BY FS_Interval
  <2>2. QED
    BY <2>1
<1>3. Cardinality(kept) = n - s
  <2>1. s + 1 \in Int /\ n \in Int /\ s + 1 <= n + 1
    OBVIOUS
  <2>2. Cardinality((s + 1) .. n) = n - (s + 1) + 1
    BY <1>2, <2>1
  <2>3. Cardinality(kept) = n - (s + 1) + 1
    BY <1>1, <2>2, Zenon
  <2> HIDE DEF kept
  <2>4. QED
    BY <2>3
<1>4. ASSUME NEW i \in kept
      PROVE  Rank(kept, i) = i - s
  <2>1. i \in Int /\ s + 1 \in Int /\ s + 1 <= i + 1
    BY <1>1
  <2>2. kept \cap (1 .. i) = (s + 1) .. i
    BY <1>1
  <2>3. Cardinality((s + 1) .. i) = i - (s + 1) + 1
    BY <1>2, <2>1
  <2>4. Rank(kept, i) = i - (s + 1) + 1
    BY <2>2, <2>3, Zenon DEF Rank
  <2> HIDE DEF kept
  <2>5. QED
    BY <2>1, <2>4
<1>5. ASSUME NEW k \in 1 .. n - s
      PROVE  (CHOOSE i \in kept : Rank(kept, i) = k) = s + k
  <2>1. s + k \in kept /\ Rank(kept, s + k) = k
    <3>1. s + k \in kept
      BY <1>1
    <3>2. Rank(kept, s + k) = s + k - s
      BY <1>4, <3>1
    <3>3. QED
      BY <3>1, <3>2
  <2>2. \A i \in kept : Rank(kept, i) = k => i = s + k
    <3>1. ASSUME NEW i \in kept, Rank(kept, i) = k
          PROVE  i = s + k
      <4>1. i \in Int /\ i - s = k
        BY <1>1, <1>4, <3>1
      <4>2. QED
        BY <4>1
    <3>2. QED
      BY <3>1
  <2> HIDE DEF kept
  <2>3. QED
    BY <2>1, <2>2
<1>6. Without(list, gone)
        = [k \in 1 .. Cardinality(kept) |-> list[CHOOSE i \in kept : Rank(kept, i) = k]]
  BY DEF Without
<1> HIDE DEF kept
<1>7. QED
  BY <1>3, <1>5, <1>6

LEMMA WithoutList ==
  ASSUME NEW S, NEW list \in Seq(S), NEW gone
  PROVE  /\ Without(list, gone) \in Seq(S)
         /\ \A p : (\E k \in DOMAIN Without(list, gone) : Without(list, gone)[k] = p)
                     <=> /\ \E i \in DOMAIN list : list[i] = p
                         /\ p \notin gone
         /\ IsInjective(list) => IsInjective(Without(list, gone))
<1> DEFINE kept  == {i \in DOMAIN list : list[i] \notin gone}
           n     == Len(list)
           at(k) == CHOOSE i \in kept : Rank(kept, i) = k
           left  == Without(list, gone)
<1>1. n \in Nat /\ DOMAIN list = 1 .. n /\ kept \in SUBSET (1 .. n)
  OBVIOUS
<1>2. /\ Cardinality(kept) \in Nat
      /\ \A i \in kept : Rank(kept, i) \in 1 .. Cardinality(kept)
      /\ \A i, j \in kept : Rank(kept, i) = Rank(kept, j) => i = j
      /\ \A k \in 1 .. Cardinality(kept) : \E i \in kept : Rank(kept, i) = k
  BY <1>1, RankNumbers
<1>3. left = [k \in 1 .. Cardinality(kept) |-> list[at(k)]]
  BY DEF Without
<1>4. ASSUME NEW k \in 1 .. Cardinality(kept)
      PROVE  at(k) \in kept /\ Rank(kept, at(k)) = k
  BY <1>2
<1>5. ASSUME NEW i \in kept
      PROVE  at(Rank(kept, i)) = i
  BY <1>2, <1>4
<1>6. \A i \in kept : list[i] \in S /\ list[i] \notin gone
  OBVIOUS
<1>7. left \in Seq(S)
  <2>1. \A k \in 1 .. Cardinality(kept) : list[at(k)] \in S
    BY <1>4, <1>6
  <2> DEFINE size == Cardinality(kept)
             entry == [k \in 1 .. size |-> list[at(k)]]
  <2>2. size \in Nat /\ entry \in [1 .. size -> S]
    BY <1>2, <2>1
  <2> HIDE DEF size, entry
  <2>3. entry \in Seq(S)
    BY <2>2
  <2>4. QED
    BY <1>3, <2>3 DEF size, entry
<1>8. DOMAIN left = 1 .. Cardinality(kept)
  BY <1>3
<1>9. ASSUME NEW p
      PROVE  (\E k \in DOMAIN left : left[k] = p)
               <=> (\E i \in DOMAIN list : list[i] = p) /\ p \notin gone
  <2>1. ASSUME NEW k \in DOMAIN left, left[k] = p
        PROVE  (\E i \in DOMAIN list : list[i] = p) /\ p \notin gone
    BY <1>3, <1>4, <1>8, <2>1
  <2>2. ASSUME NEW i \in DOMAIN list, list[i] = p, p \notin gone
        PROVE  \E k \in DOMAIN left : left[k] = p
    <3>1. i \in kept
      BY <2>2
    <3>2. Rank(kept, i) \in DOMAIN left /\ at(Rank(kept, i)) = i
      BY <1>2, <1>5, <1>8, <3>1
    <3>3. left[Rank(kept, i)] = list[i]
      BY <1>3, <1>8, <3>2
    <3>4. QED
      BY <2>2, <3>2, <3>3
  <2>3. QED
    BY <2>1, <2>2
<1>10. ASSUME IsInjective(list)
       PROVE  IsInjective(left)
  <2> SUFFICES ASSUME NEW j \in DOMAIN left, NEW k \in DOMAIN left,
                      left[j] = left[k]
               PROVE  j = k
    BY DEF IsInjective
  <2>1. /\ at(j) \in kept /\ Rank(kept, at(j)) = j
        /\ at(k) \in kept /\ Rank(kept, at(k)) = k
    BY <1>4, <1>8
  <2>2. list[at(j)] = list[at(k)]
    BY <1>3, <1>8
  <2>3. at(j) = at(k)
    BY <1>10, <2>1, <2>2 DEF IsInjective
  <2>4. QED
    BY <2>1, <2>3
<1> HIDE DEF left
<1>11. QED
  BY <1>7, <1>9, <1>10 DEF left
=============================================================================
