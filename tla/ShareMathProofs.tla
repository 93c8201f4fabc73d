--------------------------- MODULE ShareMathProofs ---------------------------
(***************************************************************************)
(* Facts about the share arithmetic, for every amount and every offset.    *)
(* The arithmetic is nonlinear: each step multiplies two known bounds and  *)
(* leaves the rest linear in the products.                                 *)
(***************************************************************************)
EXTENDS ShareMath, TLAPS

(* Multiplication by a natural number keeps an inequality.                 *)
LEMMA ProductMonotone ==
  ASSUME NEW a \in Int, NEW b \in Int, NEW k \in Nat, a <= b
  PROVE  a * k <= b * k
OBVIOUS

LEMMA DivisionBounds ==
  ASSUME NEW a \in Nat, NEW b \in Nat \ {0}
  PROVE  /\ a \div b \in Nat
         /\ (a \div b) * b <= a
         /\ a < (a \div b) * b + b
OBVIOUS

LEMMA QuotientBelow ==
  ASSUME NEW q \in Int, NEW m \in Int, NEW b \in Nat \ {0}, q * b <= m * b
  PROVE  q <= m
<1>1. SUFFICES ASSUME q >= m + 1 PROVE FALSE
  OBVIOUS
<1>2. (m + 1) * b <= q * b
  BY <1>1, ProductMonotone
<1>3. (m + 1) * b = m * b + b
  OBVIOUS
<1>4. QED
  BY <1>2, <1>3

-----------------------------------------------------------------------------
(* What a floor division of the two formulas says, with the divisor moved  *)
(* to the other side.                                                      *)
LEMMA MintBounds ==
  ASSUME NEW amount \in Nat, NEW totalShares \in Nat, NEW nav \in Nat
  PROVE  /\ MintShares(amount, totalShares, nav) \in Nat
         /\ MintShares(amount, totalShares, nav) * (nav + VirtualOffset)
              <= amount * (totalShares + VirtualOffset)
<1>1. nav + VirtualOffset \in Nat \ {0} /\ totalShares + VirtualOffset \in Nat
  BY OffsetAssumption
<1>2. amount * (totalShares + VirtualOffset) \in Nat
  BY <1>1
<1>3. QED
  BY <1>1, <1>2, DivisionBounds DEF MintShares

LEMMA RedeemBounds ==
  ASSUME NEW burned \in Nat, NEW totalShares \in Nat, NEW nav \in Nat
  PROVE  /\ RedeemAssets(burned, totalShares, nav) \in Nat
         /\ RedeemAssets(burned, totalShares, nav) * (totalShares + VirtualOffset)
              <= burned * (nav + VirtualOffset)
<1>1. totalShares + VirtualOffset \in Nat \ {0} /\ nav + VirtualOffset \in Nat
  BY OffsetAssumption
<1>2. burned * (nav + VirtualOffset) \in Nat
  BY <1>1
<1>3. QED
  BY <1>1, <1>2, DivisionBounds DEF RedeemAssets

(* A deposit into a backed bucket never mints more shares than units.      *)
LEMMA MintAtMostAmount ==
  ASSUME NEW amount \in Nat, NEW totalShares \in Nat, NEW nav \in Nat,
         totalShares <= nav
  PROVE  MintShares(amount, totalShares, nav) <= amount
<1> DEFINE minted == MintShares(amount, totalShares, nav)
           N == nav + VirtualOffset
           T == totalShares + VirtualOffset
<1>1. N \in Nat \ {0} /\ T \in Nat /\ T <= N
  BY OffsetAssumption
<1>2. minted \in Nat /\ minted * N <= amount * T
  BY MintBounds
<1>3. amount * T <= amount * N
  <2>1. T * amount <= N * amount
    BY <1>1, ProductMonotone
  <2>2. T * amount = amount * T /\ N * amount = amount * N
    BY <1>1
  <2>3. QED
    BY <2>1, <2>2
<1>4. minted * N <= amount * N
  <2>1. minted * N \in Int /\ amount * T \in Int /\ amount * N \in Int
    BY <1>1, <1>2
  <2>2. QED
    BY <1>2, <1>3, <2>1
<1>5. QED
  BY <1>1, <1>2, <1>4, QuotientBelow

(* A redemption pays at most the burned shares plus the whole surplus of   *)
(* the bucket, so that what stays still backs the shares that stay.        *)
LEMMA RedeemLeavesBacking ==
  ASSUME NEW totalShares \in Nat, NEW nav \in Nat, totalShares <= nav,
         NEW burned \in 0 .. totalShares
  PROVE  RedeemAssets(burned, totalShares, nav) <= burned + (nav - totalShares)
<1> DEFINE paid == RedeemAssets(burned, totalShares, nav)
           T == totalShares + VirtualOffset
           surplus == nav - totalShares
<1>1. T \in Nat \ {0} /\ surplus \in Nat /\ burned \in Nat /\ burned <= T
  BY OffsetAssumption
<1>2. paid \in Nat /\ paid * T <= burned * (nav + VirtualOffset)
  BY <1>1, RedeemBounds
<1>3. burned * (nav + VirtualOffset) = burned * T + burned * surplus
  <2>1. nav + VirtualOffset = T + surplus
    BY OffsetAssumption
  <2>2. burned * (T + surplus) = burned * T + burned * surplus
    BY <1>1
  <2>3. QED
    BY <2>1, <2>2
<1>4. burned * surplus <= T * surplus
  BY <1>1, ProductMonotone
<1>5. (burned + surplus) * T = burned * T + T * surplus
  BY <1>1
<1>6. paid * T <= (burned + surplus) * T
  <2>1. /\ paid * T \in Int /\ burned * T \in Int
        /\ burned * surplus \in Int /\ T * surplus \in Int
    BY <1>1, <1>2
  <2>2. QED
    BY <1>2, <1>3, <1>4, <1>5, <2>1
<1>7. QED
  BY <1>1, <1>2, <1>6, QuotientBelow

-----------------------------------------------------------------------------
(* The price of a share is (nav + V) / (totalShares + V); two prices are   *)
(* compared by cross multiplication.                                       *)

LEMMA MintKeepsPrice ==
  ASSUME NEW amount \in Nat, NEW totalShares \in Nat, NEW nav \in Nat
  PROVE  LET minted == MintShares(amount, totalShares, nav)
         IN ((nav + amount) + VirtualOffset) * (totalShares + VirtualOffset)
              >= (nav + VirtualOffset) * ((totalShares + minted) + VirtualOffset)
<1> DEFINE minted == MintShares(amount, totalShares, nav)
           N == nav + VirtualOffset
           T == totalShares + VirtualOffset
<1>1. N \in Nat /\ T \in Nat
  BY OffsetAssumption
<1>2. minted \in Nat /\ minted * N <= amount * T
  BY MintBounds
<1>3. /\ (nav + amount) + VirtualOffset = N + amount
      /\ (totalShares + minted) + VirtualOffset = T + minted
  BY <1>2, OffsetAssumption
<1> HIDE DEF minted, N, T
<1>4. /\ (N + amount) * T = N * T + amount * T
      /\ N * (T + minted) = N * T + minted * N
  BY <1>1, <1>2
<1>5. N * T \in Int /\ amount * T \in Int /\ minted * N \in Int
  BY <1>1, <1>2
<1>6. (N + amount) * T >= N * (T + minted)
  BY <1>2, <1>4, <1>5
<1>7. QED
  BY <1>3, <1>6 DEF minted, N, T

LEMMA RedeemKeepsPrice ==
  ASSUME NEW totalShares \in Nat, NEW nav \in Nat, NEW burned \in Nat
  PROVE  LET paid == RedeemAssets(burned, totalShares, nav)
         IN ((nav - paid) + VirtualOffset) * (totalShares + VirtualOffset)
              >= (nav + VirtualOffset) * ((totalShares - burned) + VirtualOffset)
<1> DEFINE paid == RedeemAssets(burned, totalShares, nav)
           N == nav + VirtualOffset
           T == totalShares + VirtualOffset
<1>1. N \in Nat /\ T \in Nat
  BY OffsetAssumption
<1>2. paid \in Nat /\ paid * T <= burned * N
  BY RedeemBounds
<1>3. /\ (nav - paid) + VirtualOffset = N - paid
      /\ (totalShares - burned) + VirtualOffset = T - burned
  BY <1>2, OffsetAssumption
<1> HIDE DEF paid, N, T
<1>4. /\ (N - paid) * T = N * T - paid * T
      /\ N * (T - burned) = N * T - burned * N
  BY <1>1, <1>2
<1>5. N * T \in Int /\ paid * T \in Int /\ burned * N \in Int
  BY <1>1, <1>2
<1>6. (N - paid) * T >= N * (T - burned)
  BY <1>2, <1>4, <1>5
<1>7. QED
  BY <1>3, <1>6 DEF paid, N, T

LEMMA InterestKeepsPrice ==
  ASSUME NEW totalShares \in Nat, NEW nav \in Nat, NEW interest \in Nat
  PROVE  ((nav + interest) + VirtualOffset) * (totalShares + VirtualOffset)
           >= (nav + VirtualOffset) * (totalShares + VirtualOffset)
<1>1. /\ totalShares + VirtualOffset \in Nat /\ nav + VirtualOffset \in Int
      /\ (nav + interest) + VirtualOffset \in Int
      /\ nav + VirtualOffset <= (nav + interest) + VirtualOffset
  BY OffsetAssumption
<1>2. (nav + VirtualOffset) * (totalShares + VirtualOffset)
        <= ((nav + interest) + VirtualOffset) * (totalShares + VirtualOffset)
  BY <1>1, ProductMonotone
<1>3. QED
  BY <1>1, <1>2

(* At a price that has not fallen the same shares redeem to no less.       *)
LEMMA RedeemFollowsPrice ==
  ASSUME NEW held \in Nat,
         NEW totalShares \in Nat, NEW nav \in Nat,
         NEW totalAfter \in Nat, NEW navAfter \in Nat,
         (navAfter + VirtualOffset) * (totalShares + VirtualOffset)
           >= (nav + VirtualOffset) * (totalAfter + VirtualOffset)
  PROVE  RedeemAssets(held, totalAfter, navAfter)
           >= RedeemAssets(held, totalShares, nav)
<1> DEFINE now == RedeemAssets(held, totalShares, nav)
           later == RedeemAssets(held, totalAfter, navAfter)
           N == nav + VirtualOffset
           T == totalShares + VirtualOffset
           M == navAfter + VirtualOffset
           U == totalAfter + VirtualOffset
<1>1. N \in Nat /\ M \in Nat /\ T \in Nat \ {0} /\ U \in Nat \ {0}
  BY OffsetAssumption
<1>2. now \in Nat /\ now * T <= held * N
  BY RedeemBounds
<1>3. later \in Nat /\ held * M < later * U + U
  <2>1. held * M \in Nat
    BY <1>1
  <2>2. QED
    BY <1>1, <2>1, DivisionBounds DEF RedeemAssets
<1>4. M * T >= N * U
  OBVIOUS
<1> HIDE DEF now, later, N, T, M, U
<1>5. (now * U) * T <= (held * M) * T
  <2>1. (now * T) * U <= (held * N) * U
    BY <1>1, <1>2, ProductMonotone
  <2>2. (N * U) * held <= (M * T) * held
    <3>1. N * U \in Int /\ M * T \in Int
      BY <1>1
    <3>2. QED
      BY <1>4, <3>1, ProductMonotone
  <2>3. /\ (now * U) * T = (now * T) * U
        /\ (held * N) * U = (N * U) * held
        /\ (held * M) * T = (M * T) * held
    BY <1>1, <1>2
  <2>4. /\ (now * T) * U \in Int /\ (N * U) * held \in Int
        /\ (M * T) * held \in Int
    BY <1>1, <1>2
  <2>5. QED
    BY <2>1, <2>2, <2>3, <2>4
<1>6. now * U <= held * M
  <2>1. now * U \in Int /\ held * M \in Int
    BY <1>1, <1>2
  <2>2. QED
    BY <1>1, <1>5, <2>1, QuotientBelow
<1>7. now * U < (later + 1) * U
  <2>1. (later + 1) * U = later * U + U
    BY <1>1, <1>3
  <2>2. now * U \in Int /\ held * M \in Int /\ later * U \in Int
    BY <1>1, <1>2, <1>3
  <2>3. QED
    BY <1>1, <1>3, <1>6, <2>1, <2>2
<1>8. now < later + 1
  <2>1. SUFFICES ASSUME later + 1 <= now
                 PROVE  FALSE
    BY <1>2, <1>3
  <2>2. (later + 1) * U <= now * U
    BY <1>1, <1>2, <1>3, <2>1, ProductMonotone
  <2>3. (later + 1) * U \in Int /\ now * U \in Int
    BY <1>1, <1>2, <1>3
  <2>4. QED
    BY <1>7, <2>2, <2>3
<1>9. QED
  BY <1>2, <1>3, <1>8 DEF now, later

-----------------------------------------------------------------------------
(* What rounding costs, in whole units. *)

(* The quotient is the greatest whole number that fits. *)
LEMMA QuotientGreatest ==
  ASSUME NEW a \in Nat, NEW b \in Nat \ {0}, NEW k \in Int, k * b <= a
  PROVE  k <= a \div b
<1> DEFINE q == a \div b
<1>1. q \in Nat /\ a < q * b + b
  BY DivisionBounds
<1> HIDE DEF q
<1>2. SUFFICES ASSUME k >= q + 1 PROVE FALSE
  BY <1>1 DEF q
<1>3. (q + 1) * b <= k * b
  BY <1>1, <1>2, ProductMonotone
<1>4. (q + 1) * b = q * b + b /\ q * b \in Int /\ k * b \in Int
  BY <1>1
<1>5. QED
  BY <1>1, <1>3, <1>4

LEMMA RedeemGreatest ==
  ASSUME NEW held \in Nat, NEW totalShares \in Nat, NEW nav \in Nat, NEW k \in Int,
         k * (totalShares + VirtualOffset) <= held * (nav + VirtualOffset)
  PROVE  k <= RedeemAssets(held, totalShares, nav)
<1>1. totalShares + VirtualOffset \in Nat \ {0} /\ held * (nav + VirtualOffset) \in Nat
  BY OffsetAssumption
<1>2. QED
  BY <1>1, QuotientGreatest DEF RedeemAssets

(* The rounded price is the least whole number not below the price. *)
LEMMA PriceAboveBounds ==
  ASSUME NEW totalShares \in Nat, NEW nav \in Nat
  PROVE  /\ PriceAbove(totalShares, nav) \in Nat \ {0}
         /\ nav + VirtualOffset <= PriceAbove(totalShares, nav) * (totalShares + VirtualOffset)
         /\ \A k \in Nat : nav + VirtualOffset <= k * (totalShares + VirtualOffset)
                             => PriceAbove(totalShares, nav) <= k
<1> DEFINE N == nav + VirtualOffset
           T == totalShares + VirtualOffset
           q == PriceAbove(totalShares, nav)
<1>1. N \in Nat \ {0} /\ T \in Nat \ {0} /\ N + T - 1 \in Nat
  BY OffsetAssumption
<1>2. q = (N + T - 1) \div T
  <2>1. nav + totalShares + 2 * VirtualOffset - 1 = N + T - 1
    BY OffsetAssumption
  <2>2. QED
    BY <2>1 DEF PriceAbove
<1> HIDE DEF N, T, q
<1>3. q \in Nat /\ q * T <= N + T - 1 /\ N + T - 1 < q * T + T
  BY <1>1, <1>2, DivisionBounds
<1>4. q * T \in Int
  BY <1>1, <1>3
<1>5. N <= q * T
  BY <1>1, <1>3, <1>4
<1>6. q # 0
  <2>1. 0 * T = 0
    BY <1>1
  <2>2. QED
    BY <1>1, <1>5, <2>1
<1>7. ASSUME NEW k \in Nat, N <= k * T
      PROVE  q <= k
  <2>1. SUFFICES ASSUME k + 1 <= q PROVE FALSE
    BY <1>3
  <2>2. (k + 1) * T <= q * T
    BY <1>1, <1>3, <2>1, ProductMonotone
  <2>3. (k + 1) * T = k * T + T /\ k * T \in Int
    BY <1>1
  <2>4. QED
    BY <1>1, <1>3, <1>4, <1>7, <2>2, <2>3
<1>8. QED
  BY <1>3, <1>5, <1>6, <1>7 DEF N, T, q

LEMMA PriceAboveGrows ==
  ASSUME NEW totalShares \in Nat, NEW nav \in Nat,
         NEW totalAfter \in Nat, NEW navAfter \in Nat,
         (navAfter + VirtualOffset) * (totalShares + VirtualOffset)
           >= (nav + VirtualOffset) * (totalAfter + VirtualOffset)
  PROVE  PriceAbove(totalShares, nav) <= PriceAbove(totalAfter, navAfter)
<1> DEFINE N == nav + VirtualOffset
           T == totalShares + VirtualOffset
           M == navAfter + VirtualOffset
           U == totalAfter + VirtualOffset
           q == PriceAbove(totalAfter, navAfter)
<1>1. N \in Nat /\ M \in Nat /\ T \in Nat \ {0} /\ U \in Nat \ {0}
  BY OffsetAssumption
<1>2. q \in Nat /\ M <= q * U
  BY PriceAboveBounds
<1>3. M * T >= N * U
  OBVIOUS
<1>4. \A k \in Nat : N <= k * T => PriceAbove(totalShares, nav) <= k
  BY PriceAboveBounds
<1> HIDE DEF N, T, M, U, q
<1>5. M * T <= (q * U) * T
  <2>1. q * U \in Int
    BY <1>1, <1>2
  <2>2. QED
    BY <1>1, <1>2, <2>1, ProductMonotone
<1>6. N * U <= (q * T) * U
  <2>1. (q * U) * T = (q * T) * U
    BY <1>1, <1>2
  <2>2. N * U \in Int /\ M * T \in Int /\ (q * T) * U \in Int
    BY <1>1, <1>2
  <2>3. QED
    BY <1>3, <1>5, <2>1, <2>2
<1>7. N <= q * T
  <2>1. q * T \in Int
    BY <1>1, <1>2
  <2>2. QED
    BY <1>1, <1>6, <2>1, QuotientBelow
<1>8. QED
  BY <1>2, <1>4, <1>7 DEF q

(* Redeeming at once pays no less than redeeming in two parts. *)
LEMMA RedeemAdds ==
  ASSUME NEW x \in Nat, NEW y \in Nat, NEW totalShares \in Nat, NEW nav \in Nat
  PROVE  RedeemAssets(x, totalShares, nav) + RedeemAssets(y, totalShares, nav)
           <= RedeemAssets(x + y, totalShares, nav)
<1> DEFINE N == nav + VirtualOffset
           T == totalShares + VirtualOffset
           p == RedeemAssets(x, totalShares, nav)
           r == RedeemAssets(y, totalShares, nav)
<1>1. N \in Nat /\ T \in Nat
  BY OffsetAssumption
<1>2. p \in Nat /\ p * T <= x * N /\ r \in Nat /\ r * T <= y * N
  BY RedeemBounds
<1> SUFFICES p + r <= RedeemAssets(x + y, totalShares, nav)
  OBVIOUS
<1> HIDE DEF p, r
<1>3. (p + r) * T <= (x + y) * N
  <2> HIDE DEF N, T
  <2>1. (p + r) * T = p * T + r * T /\ (x + y) * N = x * N + y * N
    BY <1>1, <1>2
  <2>2. p * T \in Int /\ r * T \in Int /\ x * N \in Int /\ y * N \in Int
    BY <1>1, <1>2
  <2>3. QED
    BY <1>2, <2>1, <2>2
<1>4. p + r \in Int /\ x + y \in Nat
  BY <1>2
<1>5. QED
  BY <1>3, <1>4, RedeemGreatest

(* A deposit is worth what was paid in, but for less than one share. *)
LEMMA MintIsWorth ==
  ASSUME NEW amount \in Nat, NEW totalShares \in Nat, NEW nav \in Nat
  PROVE  amount - PriceAbove(totalShares, nav)
           <= RedeemAssets(MintShares(amount, totalShares, nav), totalShares, nav)
<1> DEFINE N == nav + VirtualOffset
           T == totalShares + VirtualOffset
           m == MintShares(amount, totalShares, nav)
           q == PriceAbove(totalShares, nav)
<1>1. N \in Nat \ {0} /\ T \in Nat
  BY OffsetAssumption
<1>2. m \in Nat /\ amount * T < m * N + N
  <2>1. amount * T \in Nat
    BY <1>1
  <2>2. QED
    BY <1>1, <2>1, DivisionBounds DEF MintShares
<1>3. q \in Nat /\ N <= q * T
  BY PriceAboveBounds
<1> SUFFICES amount - q <= RedeemAssets(m, totalShares, nav)
  OBVIOUS
<1> HIDE DEF m, q
<1>4. (amount - q) * T <= m * N
  <2> HIDE DEF N, T
  <2>1. (amount - q) * T = amount * T - q * T
    BY <1>1, <1>3
  <2>2. amount * T \in Int /\ q * T \in Int /\ m * N \in Int
    BY <1>1, <1>2, <1>3
  <2>3. QED
    BY <1>1, <1>2, <1>3, <2>1, <2>2
<1>5. amount - q \in Int
  BY <1>3
<1>6. QED
  BY <1>2, <1>4, <1>5, RedeemGreatest

(* What is put back of a basis when some of its shares leave: no less of a *)
(* larger basis, and no less than what is left of a smaller one.           *)
Rest(basis, burned, held) == basis - (basis * burned) \div held

LEMMA RestBounds ==
  ASSUME NEW held \in Nat \ {0}, NEW burned \in 0 .. held, NEW x \in Nat, NEW y \in Nat
  PROVE  /\ Rest(x, burned, held) \in 0 .. x
         /\ Rest(x, burned, held) <= Rest(x + y, burned, held)
         /\ Rest(x + y, burned, held) <= Rest(x, burned, held) + y
<1> DEFINE f == (x * burned) \div held
           g == ((x + y) * burned) \div held
<1>1. burned \in Nat /\ burned <= held /\ x * burned \in Nat /\ (x + y) * burned \in Nat
  OBVIOUS
<1>2. f \in Nat /\ f * held <= x * burned /\ x * burned < f * held + held
  BY <1>1, DivisionBounds
<1>3. g \in Nat /\ g * held <= (x + y) * burned
  BY <1>1, DivisionBounds
<1>4. \A k \in Int : k * held <= (x + y) * burned => k <= g
  BY <1>1, QuotientGreatest
<1> SUFFICES x - f \in 0 .. x /\ x - f <= x + y - g /\ x + y - g <= x - f + y
  BY DEF Rest
<1> HIDE DEF f, g
<1>5. /\ (x + y) * burned = x * burned + y * burned
      /\ y * burned <= y * held /\ x * burned <= x * held
      /\ y * burned \in Nat /\ y * held \in Nat /\ x * held \in Nat
  <2>1. burned * y <= held * y /\ burned * x <= held * x
    BY <1>1, ProductMonotone
  <2>2. QED
    BY <1>1, <2>1
<1>6. f <= x
  BY <1>2, <1>5, QuotientBelow
<1>7. f <= g
  <2>1. f * held \in Int /\ x * burned \in Int
    BY <1>1, <1>2
  <2>2. f * held <= (x + y) * burned
    BY <1>2, <1>5, <2>1
  <2>3. QED
    BY <1>2, <1>4, <2>2
<1>8. g <= f + y
  <2>1. SUFFICES ASSUME f + y + 1 <= g PROVE FALSE
    BY <1>2, <1>3
  <2>2. (f + y + 1) * held <= g * held
    BY <1>2, <1>3, <2>1, ProductMonotone
  <2>3. (f + y + 1) * held = f * held + y * held + held
    BY <1>2
  <2>4. f * held \in Int /\ g * held \in Int
    BY <1>2, <1>3
  <2>5. QED
    BY <1>1, <1>2, <1>3, <1>5, <2>2, <2>3, <2>4
<1>9. QED
  BY <1>2, <1>3, <1>6, <1>7, <1>8

(* What leaves of a position's worth pro rata is no more than the shares   *)
(* are paid, and what rests of it no more, but for a unit, than the rest   *)
(* of the shares redeems for.                                              *)
LEMMA RestIsWorth ==
  ASSUME NEW held \in Nat \ {0}, NEW burned \in 0 .. held,
         NEW totalShares \in Nat, NEW nav \in Nat
  PROVE  LET worth == RedeemAssets(held, totalShares, nav)
         IN /\ worth - RedeemAssets(burned, totalShares, nav) <= Rest(worth, burned, held)
            /\ Rest(worth, burned, held) <= RedeemAssets(held - burned, totalShares, nav) + 1
<1> DEFINE N == nav + VirtualOffset
           T == totalShares + VirtualOffset
           v == RedeemAssets(held, totalShares, nav)
           f == (v * burned) \div held
<1>1. N \in Nat /\ T \in Nat /\ burned \in Nat /\ held - burned \in Nat
  BY OffsetAssumption
<1>2. v \in Nat /\ v * T <= held * N
  BY RedeemBounds
<1>3. \A k \in Int : k * T <= burned * N => k <= RedeemAssets(burned, totalShares, nav)
  BY <1>1, RedeemGreatest
<1>4. \A k \in Int : k * T <= (held - burned) * N
                       => k <= RedeemAssets(held - burned, totalShares, nav)
  BY <1>1, RedeemGreatest
<1> SUFFICES /\ v - RedeemAssets(burned, totalShares, nav) <= v - f
             /\ v - f <= RedeemAssets(held - burned, totalShares, nav) + 1
  BY DEF Rest
<1> HIDE DEF N, T, v
<1>5. v * burned \in Nat
  BY <1>1, <1>2
<1>6. f \in Nat /\ f * held <= v * burned /\ v * burned < f * held + held
  BY <1>5, DivisionBounds
<1> HIDE DEF f
<1>7. f <= RedeemAssets(burned, totalShares, nav)
  <2>1. (f * held) * T <= (v * burned) * T
    <3>1. f * held \in Int
      BY <1>6
    <3>2. QED
      BY <1>1, <1>5, <1>6, <3>1, ProductMonotone
  <2>2. (v * T) * burned <= (held * N) * burned
    <3>1. v * T \in Int /\ held * N \in Int
      BY <1>1, <1>2
    <3>2. QED
      BY <1>1, <1>2, <3>1, ProductMonotone
  <2>3. /\ (f * held) * T = (f * T) * held /\ (v * burned) * T = (v * T) * burned
        /\ (held * N) * burned = (burned * N) * held
    BY <1>1, <1>2, <1>6
  <2>4. (f * T) * held \in Int /\ (v * T) * burned \in Int /\ (burned * N) * held \in Int
    BY <1>1, <1>2, <1>6
  <2>5. (f * T) * held <= (burned * N) * held
    BY <2>1, <2>2, <2>3, <2>4
  <2>6. f * T \in Int /\ burned * N \in Int
    BY <1>1, <1>6
  <2>7. f * T <= burned * N
    BY <2>5, <2>6, QuotientBelow
  <2>8. QED
    BY <1>3, <1>6, <2>7
<1>8. v - f - 1 <= RedeemAssets(held - burned, totalShares, nav)
  <2> DEFINE k == v - f - 1
             left == held - burned
  <2>1. k \in Int /\ left \in Nat
    BY <1>1, <1>2, <1>6
  <2>2. k * held <= v * left
    <3>1. k * held = v * held - f * held - held /\ v * left = v * held - v * burned
      BY <1>1, <1>2, <1>6
    <3>2. v * held \in Int /\ f * held \in Int
      BY <1>2, <1>6
    <3>3. QED
      BY <1>5, <1>6, <3>1, <3>2
  <2> HIDE DEF k, left
  <2>3. (k * held) * T <= (v * left) * T
    <3>1. k * held \in Int /\ v * left \in Int
      BY <1>2, <2>1
    <3>2. QED
      BY <1>1, <2>2, <3>1, ProductMonotone
  <2>4. (v * T) * left <= (held * N) * left
    <3>1. v * T \in Int /\ held * N \in Int
      BY <1>1, <1>2
    <3>2. QED
      BY <1>2, <2>1, <3>1, ProductMonotone
  <2>5. /\ (k * held) * T = (k * T) * held /\ (v * left) * T = (v * T) * left
        /\ (held * N) * left = (left * N) * held
    BY <1>1, <1>2, <2>1
  <2>6. (k * T) * held \in Int /\ (v * T) * left \in Int /\ (left * N) * held \in Int
    BY <1>1, <1>2, <2>1
  <2>7. (k * T) * held <= (left * N) * held
    BY <2>3, <2>4, <2>5, <2>6
  <2>8. k * T \in Int /\ left * N \in Int
    BY <1>1, <2>1
  <2>9. k * T <= left * N
    BY <2>7, <2>8, QuotientBelow
  <2>10. k <= RedeemAssets(left, totalShares, nav)
    BY <1>4, <2>1, <2>9 DEF left
  <2>11. QED
    BY <2>10 DEF k, left
<1>9. QED
  <2>1. /\ RedeemAssets(burned, totalShares, nav) \in Int
        /\ RedeemAssets(held - burned, totalShares, nav) \in Int
    BY <1>1, RedeemBounds
  <2>2. QED
    BY <1>2, <1>6, <1>7, <1>8, <2>1

(* Shares at a quoted price that is not above the price now, and shares at *)
(* one unit each, are worth no more than they redeem for.                  *)
LEMMA QuotedBelowRedeemed ==
  ASSUME NEW held \in Nat, NEW totalShares \in Nat, NEW nav \in Nat,
         NEW scale \in Nat \ {0}, NEW price \in Nat,
         price * (totalShares + VirtualOffset) <= (nav + VirtualOffset) * scale
  PROVE  (held * price) \div scale <= RedeemAssets(held, totalShares, nav)
<1> DEFINE N == nav + VirtualOffset
           T == totalShares + VirtualOffset
           q == (held * price) \div scale
<1>1. N \in Nat /\ T \in Nat \ {0} /\ held * price \in Nat
  BY OffsetAssumption
<1>2. q \in Nat /\ q * scale <= held * price
  BY <1>1, DivisionBounds
<1>3. price * T <= N * scale
  OBVIOUS
<1>4. q * T <= held * N => q <= RedeemAssets(held, totalShares, nav)
  BY <1>2, RedeemGreatest DEF N, T
<1> HIDE DEF N, T, q
<1>5. (q * T) * scale <= (held * N) * scale
  <2>1. (q * scale) * T <= (held * price) * T
    <3>1. q * scale \in Int /\ held * price \in Int /\ T \in Nat
      BY <1>1, <1>2
    <3>2. QED
      BY <1>2, <3>1, ProductMonotone
  <2>2. (price * T) * held <= (N * scale) * held
    <3>1. price * T \in Int /\ N * scale \in Int
      BY <1>1
    <3>2. QED
      BY <1>3, <3>1, ProductMonotone
  <2>3. /\ (q * T) * scale = (q * scale) * T
        /\ (held * price) * T = (price * T) * held
        /\ (held * N) * scale = (N * scale) * held
    BY <1>1, <1>2
  <2>4. /\ (q * scale) * T \in Int /\ (price * T) * held \in Int
        /\ (N * scale) * held \in Int
    BY <1>1, <1>2
  <2>5. QED
    BY <2>1, <2>2, <2>3, <2>4
<1>6. q * T \in Int /\ held * N \in Int
  BY <1>1, <1>2
<1>7. q * T <= held * N
  BY <1>5, <1>6, QuotientBelow
<1>8. QED
  BY <1>4, <1>7 DEF q

LEMMA QuotedAtPar ==
  ASSUME NEW held \in Nat, NEW totalShares \in Nat, NEW nav \in Nat, totalShares <= nav,
         NEW scale \in Nat \ {0}
  PROVE  (held * scale) \div scale <= RedeemAssets(held, totalShares, nav)
<1>1. /\ totalShares + VirtualOffset \in Int /\ nav + VirtualOffset \in Int /\ scale \in Nat
      /\ totalShares + VirtualOffset <= nav + VirtualOffset
  BY OffsetAssumption
<1>2. (totalShares + VirtualOffset) * scale <= (nav + VirtualOffset) * scale
  BY <1>1, ProductMonotone
<1>3. scale * (totalShares + VirtualOffset) = (totalShares + VirtualOffset) * scale
  BY <1>1
<1>4. QED
  BY <1>2, <1>3, QuotedBelowRedeemed

-----------------------------------------------------------------------------
(* Depositing and redeeming the minted shares at once, whatever the price  *)
(* of the bucket, never returns more than was deposited.                   *)
THEOREM RoundTripIsNoGain ==
  ASSUME NEW amount \in Nat, NEW totalShares \in Nat, NEW nav \in Nat
  PROVE  LET minted == MintShares(amount, totalShares, nav)
         IN RedeemAssets(minted, totalShares + minted, nav + amount) <= amount
<1> DEFINE minted == MintShares(amount, totalShares, nav)
           paid == RedeemAssets(minted, totalShares + minted, nav + amount)
           N == nav + VirtualOffset
           T == totalShares + VirtualOffset
<1>1. N \in Nat \ {0} /\ T \in Nat \ {0}
  BY OffsetAssumption
<1>2. minted \in Nat /\ minted * N <= amount * T
  BY MintBounds
<1>3. paid \in Nat /\ paid * (T + minted) <= minted * (N + amount)
  <2>1. totalShares + minted \in Nat /\ nav + amount \in Nat
    BY <1>2
  <2>2. /\ totalShares + minted + VirtualOffset = T + minted
        /\ nav + amount + VirtualOffset = N + amount
    BY <1>2, OffsetAssumption
  <2>3. QED
    BY <1>2, <2>1, <2>2, RedeemBounds
<1>4. minted * (N + amount) = minted * N + minted * amount
  BY <1>1, <1>2
<1>5. amount * (T + minted) = amount * T + minted * amount
  BY <1>1, <1>2
<1>6. paid * (T + minted) <= amount * (T + minted)
  <2>1. /\ paid * (T + minted) \in Int /\ minted * N \in Int
        /\ minted * amount \in Int /\ amount * T \in Int
    BY <1>1, <1>2, <1>3
  <2>2. QED
    BY <1>2, <1>3, <1>4, <1>5, <2>1
<1>7. T + minted \in Nat \ {0}
  BY <1>1, <1>2
<1>8. QED
  BY <1>3, <1>6, <1>7, QuotientBelow
=============================================================================
