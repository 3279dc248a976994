----------------------------- MODULE L1OracleProofs -----------------------------
(***************************************************************************)
(* Theorems of L1Fee and L1Oracle: the fee is the exact fee up to the cap, *)
(* for any width of the integers that leaves the caps room.                *)
(***************************************************************************)
EXTENDS L1Oracle, TLAPS

-----------------------------------------------------------------------------
(* Arithmetic that saturates *)

Sat(x) == IF x > UMAX THEN UMAX ELSE x

\* A factor of at least one does not make a product smaller.
LEMMA ProductGrows ==
    ASSUME NEW a \in Nat, NEW b \in Nat
    PROVE  /\ a * b \in Nat /\ (b >= 1 => a * b >= a)
           /\ b = 0 => a * b = 0
           /\ a * b = b * a
OBVIOUS

\* A larger factor does not either.
LEMMA ProductIsMonotone ==
    ASSUME NEW a \in Nat, NEW b \in Nat, NEW c \in Nat, a <= b
    PROVE  a * c <= b * c
<1>1. b - a \in Nat
  OBVIOUS
<1>2. (b - a) * c \in Nat
  BY <1>1, ProductGrows
<1>3. b * c = a * c + (b - a) * c
  OBVIOUS
<1>4. a * c \in Nat /\ b * c \in Nat
  BY ProductGrows
<1> QED BY <1>2, <1>3, <1>4

\* Saturation of an operand does not show in a saturated sum or product: only whether the exact
\* result leaves the U256 counts.
LEMMA SaturationAbsorbs ==
    ASSUME NEW a \in Nat, NEW b \in Nat
    PROVE  /\ Sat(a) \in U256
           /\ Sat(Sat(a) + b) = Sat(a + b)
           /\ Sat(Sat(a) * b) = Sat(a * b)
           /\ SaturatingAdd(a, b) = Sat(a + b) /\ SaturatingMul(a, b) = Sat(a * b)
<1>1. UMAX \in Nat
  BY FeeAssumption
<1>2. Sat(a) \in U256
  BY <1>1 DEF Sat, U256
<1>3. Sat(Sat(a) + b) = Sat(a + b)
  BY <1>1 DEF Sat
<1>4. Sat(Sat(a) * b) = Sat(a * b)
  <2>1. CASE a <= UMAX
    BY <1>1, <2>1 DEF Sat
  <2>2. CASE a > UMAX /\ b = 0
    BY <1>1, <2>2, ProductGrows DEF Sat
  <2>3. CASE a > UMAX /\ b >= 1
    <3>1. UMAX * b \in Nat /\ UMAX * b >= UMAX
      BY <1>1, <2>3, ProductGrows
    <3>2. a * b \in Nat /\ a * b >= a
      BY <2>3, ProductGrows
    <3>3. Sat(a) = UMAX
      BY <2>3 DEF Sat
    <3> DEFINE p == UMAX * b
               q == a * b
    <3>4. Sat(p) = UMAX /\ Sat(q) = UMAX
      <4> HIDE DEF p, q
      <4>1. p \in Nat /\ p >= UMAX /\ q \in Nat /\ q >= a
        BY <3>1, <3>2 DEF p, q
      <4> QED BY <1>1, <2>3, <4>1 DEF Sat
    <3> QED BY <3>3, <3>4
  <2> QED BY <1>1, <2>1, <2>2, <2>3
<1>5. SaturatingAdd(a, b) = Sat(a + b) /\ SaturatingMul(a, b) = Sat(a * b)
  BY DEF SaturatingAdd, SaturatingMul, Sat
<1> QED BY <1>2, <1>3, <1>4, <1>5

\* Division, and what it does to the order.
LEMMA Quotient ==
    ASSUME NEW x \in Nat, NEW d \in Nat \ {0}
    PROVE  /\ x \div d \in Nat
           /\ d * (x \div d) <= x /\ x < d * (x \div d) + d
<1>1. x \div d \in Int /\ x = d * (x \div d) + (x % d) /\ x % d \in 0 .. d - 1
  OBVIOUS
<1> DEFINE q == x \div d
           p == d * q
<1>2. p \in Int /\ p <= x /\ x < p + d
  <2> HIDE DEF q
  <2>1. p \in Int
    BY <1>1 DEF q
  <2> QED BY <1>1, <2>1 DEF q
<1>3. q >= 0
  <2> SUFFICES ASSUME q <= 0 - 1 PROVE FALSE
    BY <1>1
  <2>1. 0 - q - 1 \in Nat
    BY <1>1
  <2>2. d * (0 - q - 1) \in Nat
    BY <2>1, ProductGrows
  <2>3. d * (0 - q - 1) = 0 - p - d
    BY <1>1
  <2>4. 0 - p - d \in Nat
    BY <2>2, <2>3
  <2> HIDE DEF p, q
  <2> QED BY <1>2, <2>4
<1> QED BY <1>1, <1>2, <1>3

\* A quotient is at least c exactly if the dividend is at least d times c.
LEMMA QuotientAtLeast ==
    ASSUME NEW x \in Nat, NEW d \in Nat \ {0}, NEW c \in Nat
    PROVE  x \div d >= c <=> x >= d * c
<1> DEFINE q == x \div d
<1>1. q \in Nat /\ d * q <= x /\ x < d * q + d
  BY Quotient
<1> HIDE DEF q
<1>2. ASSUME q >= c PROVE x >= d * c
  <2>1. c * d <= q * d
    BY <1>1, <1>2, ProductIsMonotone
  <2>2. d * c \in Nat /\ d * q \in Nat /\ c * d = d * c /\ q * d = d * q
    BY <1>1, ProductGrows
  <2> QED BY <1>1, <2>1, <2>2
<1>3. ASSUME q < c PROVE x < d * c
  <2>1. (q + 1) * d <= c * d
    BY <1>1, <1>3, ProductIsMonotone
  <2>2. (q + 1) * d = d * q + d /\ c * d = d * c
    BY <1>1
  <2>3. d * c \in Nat /\ d * q \in Nat
    BY <1>1, ProductGrows
  <2> QED BY <1>1, <2>1, <2>2, <2>3
<1> QED BY <1>1, <1>2, <1>3 DEF q

\* Division keeps the order.
LEMMA QuotientIsMonotone ==
    ASSUME NEW x \in Nat, NEW y \in Nat, NEW d \in Nat \ {0}, x <= y
    PROVE  x \div d <= y \div d
<1> DEFINE q == x \div d
<1>1. q \in Nat /\ q >= q /\ y \div d \in Nat
  BY Quotient
<1>2. x >= d * q
  BY <1>1, QuotientAtLeast
<1>3. d * q \in Nat
  BY <1>1, ProductGrows
<1>4. y >= d * q
  BY <1>2, <1>3
<1>5. y \div d >= q
  BY <1>1, <1>4, QuotientAtLeast
<1> QED BY <1>1, <1>5

\* Dividing twice is dividing by the product.
LEMMA QuotientOfAQuotient ==
    ASSUME NEW x \in Nat, NEW d \in Nat \ {0}
    PROVE  (x \div d) \div d = x \div (d * d)
<1> DEFINE dd == d * d
           q == x \div d
           r == q \div d
           z == x \div dd
<1>1. dd \in Nat \ {0}
  <2>1. dd \in Nat /\ dd >= d
    BY ProductGrows
  <2> QED BY <2>1
<1>2. q \in Nat /\ r \in Nat /\ z \in Nat
  BY <1>1, Quotient
<1>3. \A c \in Nat : r >= c <=> z >= c
  <2> SUFFICES ASSUME NEW c \in Nat PROVE r >= c <=> z >= c
    OBVIOUS
  <2>1. d * c \in Nat
    BY ProductGrows
  <2>2. r >= c <=> q >= d * c
    BY <1>2, QuotientAtLeast
  <2>3. q >= d * c <=> x >= d * (d * c)
    BY <2>1, QuotientAtLeast
  <2>4. z >= c <=> x >= dd * c
    BY <1>1, QuotientAtLeast
  <2>5. d * (d * c) = dd * c
    OBVIOUS
  <2> QED BY <2>2, <2>3, <2>4, <2>5
<1> HIDE DEF q, r, z
<1>4. r >= z /\ z >= r
  BY <1>2, <1>3
<1>5. r = z
  BY <1>2, <1>4
<1> QED BY <1>5 DEF r, q, z

-----------------------------------------------------------------------------
(* Saturation below the cap *)

\* A fee of at least the cap is the cap, whatever else it is.
LEMMA CappedAlike ==
    ASSUME NEW x \in Nat, NEW y \in Nat, NEW cap \in Nat, x = y \/ (x >= cap /\ y >= cap)
    PROVE  AtMost(x, cap) = AtMost(y, cap)
BY DEF AtMost

\* The cap hides the saturation of a dividend, where the cap times the divisor fits in a U256.
LEMMA CapHidesSaturation ==
    ASSUME NEW x \in Nat, NEW d \in Nat \ {0}, NEW cap \in Nat, d * cap <= UMAX
    PROVE  AtMost(Sat(x) \div d, cap) = AtMost(x \div d, cap)
<1>1. UMAX \in Nat /\ Sat(x) \in Nat /\ d * cap \in Nat
  BY FeeAssumption, ProductGrows DEF Sat
<1>2. x \div d \in Nat /\ Sat(x) \div d \in Nat
  BY <1>1, Quotient
<1>3. CASE x <= UMAX
  <2>1. Sat(x) = x
    BY <1>1, <1>3 DEF Sat
  <2> QED BY <2>1
<1>4. CASE x > UMAX
  <2>1. Sat(x) = UMAX
    BY <1>4 DEF Sat
  <2>2. Sat(x) >= d * cap /\ x >= d * cap
    BY <1>1, <1>4, <2>1
  <2>3. Sat(x) \div d >= cap /\ x \div d >= cap
    BY <1>1, <2>2, QuotientAtLeast
  <2> QED BY <1>2, <2>3, CappedAlike
<1> QED BY <1>1, <1>3, <1>4

\* The room FeeAssumption leaves above the cap of every fork.
LEMMA CapsHaveRoom ==
    ASSUME NEW f \in ScrollSpecId
    PROVE  /\ Cap(f) \in Nat
           /\ PRECISION * Cap(f) \in Nat
           /\ PRECISION * Cap(f) <= UMAX
           /\ (PRECISION * PRECISION) * Cap(f) <= UMAX
           /\ MaxSize * (PRECISION * Cap(f)) <= UMAX
<1> DEFINE c == Cap(f)
           P == PRECISION
           pc1 == P * c
           pu == P * U96_MAX
<1>1. c \in Nat /\ U96_MAX \in Nat /\ c <= U96_MAX /\ UMAX \in Nat
      /\ P \in Nat \ {0} /\ MaxSize \in Nat \ {0}
  BY FeeAssumption DEF Cap
<1> HIDE DEF c, P
<1>2. pc1 \in Nat /\ pu \in Nat /\ pc1 <= pu
  <2>1. c * P <= U96_MAX * P
    BY <1>1, ProductIsMonotone
  <2>2. c * P = P * c /\ U96_MAX * P = P * U96_MAX
    BY <1>1
  <2> QED BY <1>1, <2>1, <2>2, ProductGrows
<1> HIDE DEF pc1, pu
<1>3. MaxSize * pc1 <= MaxSize * pu
  <2>1. pc1 * MaxSize <= pu * MaxSize
    BY <1>1, <1>2, ProductIsMonotone
  <2>2. pc1 * MaxSize = MaxSize * pc1 /\ pu * MaxSize = MaxSize * pu
    BY <1>1, <1>2
  <2> QED BY <2>1, <2>2
<1>4. MaxSize * pu <= UMAX
  <2>1. MaxSize * pu = MaxSize * P * U96_MAX
    BY <1>1 DEF pu
  <2> QED BY <2>1, FeeAssumption DEF P
<1>5. MaxSize * pc1 \in Nat /\ MaxSize * pu \in Nat /\ MaxSize * pc1 >= pc1
  BY <1>1, <1>2, ProductGrows
<1>6. (P * P) * c <= UMAX
  <2> DEFINE pp == P * P
  <2>1. pp \in Nat
    BY <1>1, ProductGrows
  <2>2. pp * U96_MAX <= UMAX
    BY FeeAssumption DEF P
  <2> HIDE DEF pp
  <2>3. c * pp <= U96_MAX * pp
    BY <1>1, <2>1, ProductIsMonotone
  <2>4. c * pp = pp * c /\ U96_MAX * pp = pp * U96_MAX
    BY <1>1, <2>1
  <2>5. pp * c \in Nat /\ pp * U96_MAX \in Nat
    BY <1>1, <2>1, ProductGrows
  <2>6. pp * c <= UMAX
    BY <1>1, <2>2, <2>3, <2>4, <2>5
  <2> QED BY <2>6 DEF pp
<1> QED BY <1>1, <1>2, <1>3, <1>4, <1>5, <1>6 DEF c, P, pc1

-----------------------------------------------------------------------------
(* The four formulas, with saturated and with unbounded integers *)

\* The formula of calculate_tx_l1_cost_shanghai, in the code's arithmetic and without a width.
SaturatedShanghai(gas, overhead, extra, base, scalar) ==
    SaturatingMul(SaturatingMul(SaturatingAdd(SaturatingAdd(gas, overhead), extra), base), scalar)
        \div PRECISION
UnboundedShanghai(gas, overhead, extra, base, scalar) ==
    ((gas + overhead + extra) * base * scalar) \div PRECISION

\* calculate_tx_l1_cost_shanghai: five saturating operations and a division.
LEMMA ShanghaiArithmetic ==
    ASSUME NEW gas \in Nat, NEW overhead \in Nat, NEW extra \in Nat, NEW base \in Nat,
           NEW scalar \in Nat, NEW cap \in Nat, PRECISION * cap <= UMAX
    PROVE  AtMost(SaturatedShanghai(gas, overhead, extra, base, scalar), cap)
           = AtMost(UnboundedShanghai(gas, overhead, extra, base, scalar), cap)
<1> DEFINE g == gas + overhead + extra
           gb == g * base
           gbs == gb * scalar
<1>1. PRECISION \in Nat \ {0} /\ UMAX \in Nat
  BY FeeAssumption
<1>2. SaturatingAdd(gas, overhead) = Sat(gas + overhead)
      /\ SaturatingAdd(Sat(gas + overhead), extra) = Sat(g)
  <2> DEFINE go == gas + overhead
  <2>1. go \in Nat /\ g = go + extra /\ SaturatingAdd(gas, overhead) = Sat(go)
    BY SaturationAbsorbs
  <2> HIDE DEF go, g
  <2>2. Sat(go) \in Nat
    BY <1>1, <2>1 DEF Sat
  <2>3. SaturatingAdd(Sat(go), extra) = Sat(Sat(go) + extra) /\ Sat(Sat(go) + extra) = Sat(go + extra)
    BY <2>1, <2>2, SaturationAbsorbs
  <2> QED BY <2>1, <2>3 DEF go
<1>3. g \in Nat
  OBVIOUS
<1> HIDE DEF g
<1>4. gb \in Nat /\ Sat(g) \in Nat /\ SaturatingMul(Sat(g), base) = Sat(gb)
  <2>1. gb \in Nat
    BY <1>3, ProductGrows
  <2>2. Sat(g) \in Nat
    BY <1>1, <1>3 DEF Sat
  <2>3. SaturatingMul(Sat(g), base) = Sat(Sat(g) * base)
    BY <2>2, SaturationAbsorbs
  <2>4. Sat(Sat(g) * base) = Sat(g * base)
    BY <1>3, SaturationAbsorbs
  <2> QED BY <2>1, <2>2, <2>3, <2>4
<1> HIDE DEF gb
<1>5. gbs \in Nat /\ SaturatingMul(Sat(gb), scalar) = Sat(gbs)
  <2>1. gbs \in Nat
    BY <1>4, ProductGrows
  <2>2. Sat(gb) \in Nat
    BY <1>1, <1>4 DEF Sat
  <2>3. SaturatingMul(Sat(gb), scalar) = Sat(Sat(gb) * scalar)
    BY <2>2, SaturationAbsorbs
  <2>4. Sat(Sat(gb) * scalar) = Sat(gb * scalar)
    BY <1>4, SaturationAbsorbs
  <2> QED BY <2>1, <2>3, <2>4
<1> HIDE DEF gbs
<1>6. AtMost(Sat(gbs) \div PRECISION, cap) = AtMost(gbs \div PRECISION, cap)
  BY <1>1, <1>5, CapHidesSaturation
<1>7. gbs \div PRECISION = UnboundedShanghai(gas, overhead, extra, base, scalar)
  BY DEF gbs, gb, g, UnboundedShanghai
<1>8. Sat(gbs) \div PRECISION = SaturatedShanghai(gas, overhead, extra, base, scalar)
  BY <1>2, <1>4, <1>5 DEF SaturatedShanghai
<1> QED BY <1>6, <1>7, <1>8

\* The formula of calculate_tx_l1_cost_curie, in the code's arithmetic and without a width.
SaturatedCurie(commit, base, length, blobBase, blobScalar) ==
    SaturatingAdd(SaturatingMul(commit, base),
                  SaturatingMul(SaturatingMul(length, blobBase), blobScalar)) \div PRECISION
UnboundedCurie(commit, base, length, blobBase, blobScalar) ==
    (commit * base + blobScalar * length * blobBase) \div PRECISION

\* calculate_tx_l1_cost_curie: the calldata gas was saturated by the fetch already.
LEMMA CurieArithmetic ==
    ASSUME NEW commit \in Nat, NEW base \in Nat, NEW length \in Nat, NEW blobBase \in Nat,
           NEW blobScalar \in Nat, NEW cap \in Nat, PRECISION * cap <= UMAX
    PROVE  AtMost(SaturatedCurie(commit, base, length, blobBase, blobScalar), cap)
           = AtMost(UnboundedCurie(commit, base, length, blobBase, blobScalar), cap)
<1> DEFINE x == commit * base
           lb == length * blobBase
           y == lb * blobScalar
<1>1. PRECISION \in Nat \ {0} /\ UMAX \in Nat
  BY FeeAssumption
<1>2. x \in Nat /\ lb \in Nat /\ SaturatingMul(commit, base) = Sat(x)
      /\ SaturatingMul(length, blobBase) = Sat(lb)
  BY ProductGrows, SaturationAbsorbs
<1> HIDE DEF x, lb
<1>3. y \in Nat /\ Sat(lb) \in Nat /\ SaturatingMul(Sat(lb), blobScalar) = Sat(y)
  <2>1. y \in Nat
    BY <1>2, ProductGrows
  <2>2. Sat(lb) \in Nat
    BY <1>1, <1>2 DEF Sat
  <2>3. SaturatingMul(Sat(lb), blobScalar) = Sat(Sat(lb) * blobScalar)
    BY <2>2, SaturationAbsorbs
  <2>4. Sat(Sat(lb) * blobScalar) = Sat(lb * blobScalar)
    BY <1>2, SaturationAbsorbs
  <2> QED BY <2>1, <2>2, <2>3, <2>4
<1>4. y = blobScalar * length * blobBase
  BY DEF y, lb
<1> HIDE DEF y
<1>5. SaturatingAdd(Sat(x), Sat(y)) = Sat(x + y)
  BY <1>1, <1>2, <1>3 DEF SaturatingAdd, Sat
<1>6. AtMost(Sat(x + y) \div PRECISION, cap) = AtMost((x + y) \div PRECISION, cap)
  <2>1. x + y \in Nat
    BY <1>2, <1>3
  <2> QED BY <1>1, <2>1, CapHidesSaturation
<1>7. (x + y) \div PRECISION = UnboundedCurie(commit, base, length, blobBase, blobScalar)
  BY <1>4 DEF x, UnboundedCurie
<1>8. Sat(x + y) \div PRECISION = SaturatedCurie(commit, base, length, blobBase, blobScalar)
  BY <1>2, <1>3, <1>5 DEF SaturatedCurie
<1> QED BY <1>6, <1>7, <1>8

\* fee_per_byte: the exact price, saturated once.
LEMMA FeePerByteIsSaturated ==
    ASSUME NEW commit \in Nat, NEW base \in Nat, NEW blobScalar \in Nat, NEW blobBase \in Nat
    PROVE  /\ commit * base + blobScalar * blobBase \in Nat
           /\ SaturatingAdd(SaturatingMul(commit, base), SaturatingMul(blobScalar, blobBase))
              = Sat(commit * base + blobScalar * blobBase)
<1> DEFINE x == commit * base
           y == blobScalar * blobBase
<1>1. x \in Nat /\ y \in Nat /\ UMAX \in Nat
  BY ProductGrows, FeeAssumption
<1>2. SaturatingMul(commit, base) = Sat(x) /\ SaturatingMul(blobScalar, blobBase) = Sat(y)
  BY SaturationAbsorbs
<1> HIDE DEF x, y
<1>3. SaturatingAdd(Sat(x), Sat(y)) = Sat(x + y) /\ x + y \in Nat
  BY <1>1 DEF SaturatingAdd, Sat
<1>4. x = commit * base /\ y = blobScalar * blobBase
  BY DEF x, y
<1> QED BY <1>2, <1>3, <1>4

\* calculate_tx_l1_cost_feynman: two divisions by the precision come out as one by its square.
LEMMA FeynmanArithmetic ==
    ASSUME NEW perByte \in Nat, NEW length \in Nat, NEW penalty \in Nat, NEW cap \in Nat,
           (PRECISION * PRECISION) * cap <= UMAX
    PROVE  AtMost((SaturatingMul(SaturatingMul(length, Sat(perByte)), penalty)
                     \div PRECISION) \div PRECISION, cap)
           = AtMost((length * perByte * penalty) \div (PRECISION * PRECISION), cap)
<1> DEFINE lp == length * perByte
           lpp == lp * penalty
           pp == PRECISION * PRECISION
<1>1. PRECISION \in Nat \ {0} /\ UMAX \in Nat
  BY FeeAssumption
<1>2. pp \in Nat \ {0}
  <2>1. pp \in Nat /\ pp >= PRECISION
    BY <1>1, ProductGrows
  <2> QED BY <1>1, <2>1
<1>3. lp \in Nat /\ SaturatingMul(length, Sat(perByte)) = Sat(lp)
  <2>1. Sat(perByte) \in Nat
    BY <1>1 DEF Sat
  <2>2. SaturatingMul(length, Sat(perByte)) = Sat(length * Sat(perByte))
    BY <2>1, SaturationAbsorbs
  <2>3. length * Sat(perByte) = Sat(perByte) * length /\ length * perByte = perByte * length
    BY <2>1
  <2>4. Sat(Sat(perByte) * length) = Sat(perByte * length)
    BY SaturationAbsorbs
  <2> QED BY <2>2, <2>3, <2>4, ProductGrows
<1>4. lp = length * perByte
  OBVIOUS
<1> HIDE DEF lp
<1>5. lpp \in Nat /\ Sat(lp) \in Nat /\ SaturatingMul(Sat(lp), penalty) = Sat(lpp)
  <2>1. lpp \in Nat
    BY <1>3, ProductGrows
  <2>2. Sat(lp) \in Nat
    BY <1>1, <1>3 DEF Sat
  <2>3. SaturatingMul(Sat(lp), penalty) = Sat(Sat(lp) * penalty)
    BY <2>2, SaturationAbsorbs
  <2>4. Sat(Sat(lp) * penalty) = Sat(lp * penalty)
    BY <1>3, SaturationAbsorbs
  <2> QED BY <2>1, <2>2, <2>3, <2>4
<1>6. lpp = lp * penalty /\ pp = PRECISION * PRECISION
  OBVIOUS
<1>7. pp * cap <= UMAX
  OBVIOUS
<1> HIDE DEF lpp, pp
<1>8. (Sat(lpp) \div PRECISION) \div PRECISION = Sat(lpp) \div pp
  <2>1. Sat(lpp) \in Nat
    BY <1>1, <1>5 DEF Sat
  <2> QED BY <1>1, <1>6, <2>1, QuotientOfAQuotient
<1>9. AtMost(Sat(lpp) \div pp, cap) = AtMost(lpp \div pp, cap)
  BY <1>2, <1>5, <1>7, CapHidesSaturation
<1> QED BY <1>3, <1>4, <1>5, <1>6, <1>8, <1>9

\* calculate_tx_l1_cost_galileo.  The penalty saturates before it is divided, so a large factor
\* could bring a saturated product down to a small fee; but the base alone is above the cap then,
\* because no transaction is longer than MaxSize.
LEMMA GalileoArithmetic ==
    ASSUME NEW perByte \in Nat, NEW size \in Nat, NEW factor \in Nat \ {0}, NEW cap \in Nat,
           size <= MaxSize, PRECISION * cap \in Nat, PRECISION * cap <= UMAX,
           MaxSize * (PRECISION * cap) <= UMAX
    PROVE  LET base == SaturatingMul(Sat(perByte), size)
           IN  AtMost(SaturatingAdd(base, SaturatingMul(base, size) \div factor) \div PRECISION, cap)
               = AtMost((perByte * size + (perByte * size * size) \div factor) \div PRECISION, cap)
<1> DEFINE base == SaturatingMul(Sat(perByte), size)
           pen == SaturatingMul(base, size) \div factor
           b == perByte * size
           bs == b * size
           p == bs \div factor
           pcap == PRECISION * cap
<1>1. PRECISION \in Nat \ {0} /\ UMAX \in Nat /\ MaxSize \in Nat
  BY FeeAssumption
<1>2. b \in Nat /\ base = Sat(b) /\ base \in Nat
  <2>1. b \in Nat
    BY ProductGrows
  <2>2. Sat(perByte) \in Nat
    BY <1>1 DEF Sat
  <2>3. base = Sat(Sat(perByte) * size)
    BY <2>2, SaturationAbsorbs
  <2>4. Sat(Sat(perByte) * size) = Sat(perByte * size)
    BY SaturationAbsorbs
  <2>5. Sat(b) \in Nat
    BY <1>1, <2>1 DEF Sat
  <2> QED BY <2>1, <2>3, <2>4, <2>5
<1> HIDE DEF base, b
<1>3. bs \in Nat /\ p \in Nat
  BY <1>2, ProductGrows, Quotient
<1>4. SaturatingMul(base, size) = Sat(bs) /\ Sat(bs) \in Nat /\ pen \in Nat
  <2>1. SaturatingMul(base, size) = Sat(Sat(b) * size)
    BY <1>2, SaturationAbsorbs
  <2>2. Sat(Sat(b) * size) = Sat(b * size)
    BY <1>2, SaturationAbsorbs
  <2>3. Sat(bs) \in Nat
    BY <1>1, <1>3 DEF Sat
  <2>4. Sat(bs) \div factor \in Nat
    BY <2>3, Quotient
  <2> QED BY <2>1, <2>2, <2>3, <2>4
<1>5. bs = b * size /\ p = bs \div factor /\ pen = SaturatingMul(base, size) \div factor
  OBVIOUS
<1>6. pcap \in Nat /\ pcap <= UMAX /\ MaxSize * pcap <= UMAX /\ pcap = PRECISION * cap
  OBVIOUS
<1> HIDE DEF bs, p, pen, pcap
<1>7. base + pen \in Nat /\ b + p \in Nat /\ Sat(base + pen) \in Nat
      /\ SaturatingAdd(base, pen) = Sat(base + pen)
  BY <1>1, <1>2, <1>3, <1>4 DEF SaturatingAdd, Sat
\* Where the base reaches the cap by itself, both fees are the cap.
<1>8. ASSUME b >= pcap
      PROVE  AtMost(Sat(base + pen) \div PRECISION, cap) = AtMost((b + p) \div PRECISION, cap)
  <2>1. Sat(base + pen) >= pcap /\ b + p >= pcap
    BY <1>1, <1>2, <1>3, <1>4, <1>6, <1>8 DEF Sat
  <2>2. Sat(base + pen) \div PRECISION >= cap /\ (b + p) \div PRECISION >= cap
    BY <1>1, <1>6, <1>7, <2>1, QuotientAtLeast
  <2>3. Sat(base + pen) \div PRECISION \in Nat /\ (b + p) \div PRECISION \in Nat
    BY <1>1, <1>7, Quotient
  <2> QED BY <2>2, <2>3, CappedAlike
\* Elsewhere the penalty does not saturate.
<1>9. ASSUME b < pcap
      PROVE  AtMost(Sat(base + pen) \div PRECISION, cap) = AtMost((b + p) \div PRECISION, cap)
  <2>1. base = b
    BY <1>1, <1>2, <1>6, <1>9 DEF Sat
  <2>2. bs <= UMAX
    <3>1. b * size <= pcap * size
      BY <1>2, <1>6, <1>9, ProductIsMonotone
    <3>2. size * pcap <= MaxSize * pcap
      BY <1>1, <1>6, ProductIsMonotone
    <3>3. pcap * size = size * pcap /\ pcap * size \in Nat /\ MaxSize * pcap \in Nat
      BY <1>1, <1>6, ProductGrows
    <3> QED BY <1>1, <1>3, <1>5, <1>6, <3>1, <3>2, <3>3
  <2>3. pen = p
    BY <1>1, <1>3, <1>4, <1>5, <2>2 DEF Sat
  <2>4. AtMost(Sat(b + p) \div PRECISION, cap) = AtMost((b + p) \div PRECISION, cap)
    BY <1>1, <1>6, <1>7, CapHidesSaturation
  <2> QED BY <2>1, <2>3, <2>4
<1>10. AtMost(SaturatingAdd(base, pen) \div PRECISION, cap) = AtMost((b + p) \div PRECISION, cap)
  BY <1>2, <1>6, <1>7, <1>8, <1>9
<1>11. bs = perByte * size * size /\ b = perByte * size
  BY <1>5 DEF b
<1> QED BY <1>5, <1>10, <1>11 DEF base, pen

-----------------------------------------------------------------------------
(* The fee from what the fetch stored *)

\* Values of the oracle are no None, so that a fetched field is missing only where the fork leaves
\* it out.
LEMMA FetchedValues ==
    ASSUME NEW o \in [Slots -> U256]
    PROVE  /\ o["l1_base_fee"] \in U256 /\ o["l1_fee_overhead"] \in U256
           /\ o["l1_base_fee_scalar"] \in U256 /\ o["l1_blob_base_fee"] \in U256
           /\ o["l1_commit_scalar"] \in U256 /\ o["l1_blob_scalar"] \in U256
           /\ o["penalty_threshold"] \in U256 /\ o["penalty_factor"] \in U256
           /\ SaturatingMul(o["l1_commit_scalar"], o["l1_base_fee"]) \in U256
           /\ U256 \subseteq Nat /\ None \notin U256
<1>1. /\ o["l1_base_fee"] \in U256 /\ o["l1_fee_overhead"] \in U256
      /\ o["l1_base_fee_scalar"] \in U256 /\ o["l1_blob_base_fee"] \in U256
      /\ o["l1_commit_scalar"] \in U256 /\ o["l1_blob_scalar"] \in U256
      /\ o["penalty_threshold"] \in U256 /\ o["penalty_factor"] \in U256
  BY DEF Slots
<1>2. U256 \subseteq Nat /\ None \notin U256
  BY FeeAssumption, OracleAssumption DEF U256
<1>3. \A a, b \in Nat : SaturatingMul(a, b) \in U256
  <2> SUFFICES ASSUME NEW a \in Nat, NEW b \in Nat PROVE SaturatingMul(a, b) \in U256
    OBVIOUS
  <2>1. SaturatingMul(a, b) = Sat(a * b) /\ a * b \in Nat
    BY SaturationAbsorbs, ProductGrows
  <2>2. \A x \in Nat : Sat(x) \in U256
    BY SaturationAbsorbs
  <2> HIDE DEF Sat
  <2> QED BY <2>1, <2>2
<1>4. SaturatingMul(o["l1_commit_scalar"], o["l1_base_fee"]) \in U256
  BY <1>1, <1>2, <1>3
<1> QED BY <1>1, <1>2, <1>4

\* What a transaction of the data set is.
LEMMA DataOfTheSet ==
    ASSUME NEW data \in DataSet
    PROVE  /\ data.zeros \in Nat /\ data.nonzeros \in Nat /\ Length(data) \in Nat
           /\ data.ratio \in U256 \cup {None} /\ data.compressed \in Nat \cup {None}
           /\ Length(data) <= MaxSize
<1>1. data \in TxData /\ Length(data) <= MaxSize
  BY OracleAssumption
<1> QED BY <1>1 DEF TxData, Length

\* Before Curie.
LEMMA ShanghaiFeeIsExact ==
    ASSUME NEW o \in [Slots -> U256], NEW data \in DataSet, spec \in ScrollSpecId,
           ~IsEnabledIn(spec, CURIE)
    PROVE  TryCalculateTxL1Cost(InfoFrom(o, spec), data, spec)
           = Fee(AtMost(ExactShanghai(o, data), Cap(spec)))
<1> DEFINE info == InfoFrom(o, spec)
           gas == data.zeros * ZERO_BYTE_COST + data.nonzeros * NON_ZERO_BYTE_COST
           v == ShanghaiFee(info, data).fee
<1>1. info.l1_base_fee = o["l1_base_fee"] /\ info.l1_fee_overhead = o["l1_fee_overhead"]
      /\ info.l1_base_fee_scalar = o["l1_base_fee_scalar"]
  BY DEF InfoFrom
<1>2. gas \in Nat
  BY DataOfTheSet, FeeAssumption, ProductGrows
<1>3. TryCalculateTxL1Cost(info, data, spec) = Fee(AtMost(v, Cap(spec)))
  BY DEF TryCalculateTxL1Cost, Formula, ShanghaiFee, Fee
<1>4. v = SaturatingMul(SaturatingMul(SaturatingAdd(SaturatingAdd(gas, o["l1_fee_overhead"]),
                                                    TX_L1_COMMIT_EXTRA_COST),
                                      o["l1_base_fee"]), o["l1_base_fee_scalar"]) \div PRECISION
  BY <1>1 DEF ShanghaiFee, Fee, PreCurieL1Gas
<1>5. ExactShanghai(o, data) = ((gas + o["l1_fee_overhead"] + TX_L1_COMMIT_EXTRA_COST)
                                  * o["l1_base_fee"] * o["l1_base_fee_scalar"]) \div PRECISION
  BY DEF ExactShanghai
<1>6. o["l1_fee_overhead"] \in Nat /\ o["l1_base_fee"] \in Nat /\ o["l1_base_fee_scalar"] \in Nat
      /\ TX_L1_COMMIT_EXTRA_COST \in Nat
  BY FetchedValues, FeeAssumption
<1>7. Cap(spec) \in Nat /\ PRECISION * Cap(spec) <= UMAX
  BY CapsHaveRoom
<1> HIDE DEF v, gas, info
<1>8. AtMost(v, Cap(spec)) = AtMost(ExactShanghai(o, data), Cap(spec))
  <2> DEFINE overhead == o["l1_fee_overhead"]
             base == o["l1_base_fee"]
             scalar == o["l1_base_fee_scalar"]
             cap == Cap(spec)
             s == SaturatedShanghai(gas, overhead, TX_L1_COMMIT_EXTRA_COST, base, scalar)
             x == UnboundedShanghai(gas, overhead, TX_L1_COMMIT_EXTRA_COST, base, scalar)
  <2>1. overhead \in Nat /\ base \in Nat /\ scalar \in Nat /\ cap \in Nat
        /\ TX_L1_COMMIT_EXTRA_COST \in Nat /\ PRECISION * cap <= UMAX
    BY <1>6, <1>7
  <2>2. v = s /\ ExactShanghai(o, data) = x
    BY <1>4, <1>5 DEF SaturatedShanghai, UnboundedShanghai
  <2> HIDE DEF overhead, base, scalar, cap
  <2>3. AtMost(s, cap) = AtMost(x, cap)
    BY <1>2, <2>1, ShanghaiArithmetic, SMTT(30)
  <2> HIDE DEF s, x
  <2> QED BY <2>2, <2>3 DEF cap
<1> QED BY <1>3, <1>8 DEF info

\* Curie until Feynman.
LEMMA CurieFeeIsExact ==
    ASSUME NEW o \in [Slots -> U256], NEW data \in DataSet, spec \in ScrollSpecId,
           IsEnabledIn(spec, CURIE), ~IsEnabledIn(spec, FEYNMAN)
    PROVE  TryCalculateTxL1Cost(InfoFrom(o, spec), data, spec)
           = Fee(AtMost(ExactCurie(o, data), Cap(spec)))
<1> DEFINE info == InfoFrom(o, spec)
           v == SaturatingAdd(SaturatingMul(o["l1_commit_scalar"], o["l1_base_fee"]),
                    SaturatingMul(SaturatingMul(Length(data), o["l1_blob_base_fee"]),
                                  o["l1_blob_scalar"])) \div PRECISION
<1>1. info.l1_blob_base_fee = o["l1_blob_base_fee"] /\ info.l1_blob_scalar = o["l1_blob_scalar"]
      /\ info.calldata_gas = SaturatingMul(o["l1_commit_scalar"], o["l1_base_fee"])
  BY DEF InfoFrom
<1>2. Present({info.l1_blob_base_fee, info.l1_blob_scalar, info.calldata_gas})
  BY <1>1, FetchedValues DEF Present
<1>3. CurieFee(info, data) = Fee(v)
  BY <1>1, <1>2 DEF CurieFee, CurieBlobFee
<1>4. TryCalculateTxL1Cost(info, data, spec) = Fee(AtMost(v, Cap(spec)))
  <2> HIDE DEF v, info
  <2>1. Formula(info, data, spec) = Fee(v)
    BY <1>3 DEF Formula
  <2> QED BY <2>1 DEF TryCalculateTxL1Cost, Fee
<1>5. ExactCurie(o, data) = (o["l1_commit_scalar"] * o["l1_base_fee"]
                               + o["l1_blob_scalar"] * Length(data) * o["l1_blob_base_fee"]) \div PRECISION
  BY DEF ExactCurie
<1>6. o["l1_commit_scalar"] \in Nat /\ o["l1_base_fee"] \in Nat /\ o["l1_blob_scalar"] \in Nat
      /\ o["l1_blob_base_fee"] \in Nat /\ Length(data) \in Nat
  BY FetchedValues, DataOfTheSet
<1>7. Cap(spec) \in Nat /\ PRECISION * Cap(spec) <= UMAX
  BY CapsHaveRoom
<1>8. AtMost(v, Cap(spec)) = AtMost(ExactCurie(o, data), Cap(spec))
  <2> DEFINE commit == o["l1_commit_scalar"]
             base == o["l1_base_fee"]
             blobScalar == o["l1_blob_scalar"]
             blobBase == o["l1_blob_base_fee"]
             length == Length(data)
             cap == Cap(spec)
             x == UnboundedCurie(commit, base, length, blobBase, blobScalar)
             s == SaturatedCurie(commit, base, length, blobBase, blobScalar)
  <2>1. commit \in Nat /\ base \in Nat /\ blobScalar \in Nat /\ blobBase \in Nat
        /\ length \in Nat /\ cap \in Nat /\ PRECISION * cap <= UMAX
    BY <1>6, <1>7
  <2>2. v = s /\ ExactCurie(o, data) = x
    BY <1>5 DEF SaturatedCurie, UnboundedCurie
  <2> HIDE DEF commit, base, blobScalar, blobBase, length, cap, v
  <2>3. AtMost(s, cap) = AtMost(x, cap)
    BY <2>1, CurieArithmetic, SMTT(30)
  <2> HIDE DEF s, x
  <2> QED BY <2>2, <2>3 DEF cap
<1> QED BY <1>4, <1>8

\* The price of a byte from the fetched fields.
LEMMA FeePerByteOfTheFetch ==
    ASSUME NEW o \in [Slots -> U256], IsEnabledIn(spec, CURIE)
    PROVE  FeePerByte(InfoFrom(o, spec)) = Sat(ExactPerByte(o)) /\ ExactPerByte(o) \in Nat
<1> DEFINE info == InfoFrom(o, spec)
<1>1. info.l1_commit_scalar = o["l1_commit_scalar"] /\ info.l1_base_fee = o["l1_base_fee"]
      /\ info.l1_blob_scalar = o["l1_blob_scalar"] /\ info.l1_blob_base_fee = o["l1_blob_base_fee"]
  BY DEF InfoFrom
<1>2. o["l1_commit_scalar"] \in Nat /\ o["l1_base_fee"] \in Nat /\ o["l1_blob_scalar"] \in Nat
      /\ o["l1_blob_base_fee"] \in Nat
  BY FetchedValues
<1> HIDE DEF info
<1>3. FeePerByte(info) = SaturatingAdd(SaturatingMul(o["l1_commit_scalar"], o["l1_base_fee"]),
                                       SaturatingMul(o["l1_blob_scalar"], o["l1_blob_base_fee"]))
  BY <1>1 DEF FeePerByte
<1> DEFINE commit == o["l1_commit_scalar"]
           base == o["l1_base_fee"]
           blobScalar == o["l1_blob_scalar"]
           blobBase == o["l1_blob_base_fee"]
<1>4. commit \in Nat /\ base \in Nat /\ blobScalar \in Nat /\ blobBase \in Nat
      /\ FeePerByte(info) = SaturatingAdd(SaturatingMul(commit, base), SaturatingMul(blobScalar, blobBase))
      /\ ExactPerByte(o) = commit * base + blobScalar * blobBase
  BY <1>2, <1>3 DEF ExactPerByte
<1> HIDE DEF commit, base, blobScalar, blobBase
<1>5. commit * base + blobScalar * blobBase \in Nat
      /\ SaturatingAdd(SaturatingMul(commit, base), SaturatingMul(blobScalar, blobBase))
         = Sat(commit * base + blobScalar * blobBase)
  BY <1>4, FeePerByteIsSaturated
<1>6. FeePerByte(info) = Sat(ExactPerByte(o)) /\ ExactPerByte(o) \in Nat
  BY <1>4, <1>5, Zenon
<1> QED BY <1>6 DEF info

\* Feynman until Galileo.
LEMMA FeynmanFeeIsExact ==
    ASSUME NEW o \in [Slots -> U256], NEW data \in DataSet, spec \in ScrollSpecId,
           IsEnabledIn(spec, FEYNMAN), ~IsEnabledIn(spec, GALILEO)
    PROVE  IF Acceptable(data)
           THEN TryCalculateTxL1Cost(InfoFrom(o, spec), data, spec)
                = Fee(AtMost(ExactFeynman(o, data), Cap(spec)))
           ELSE TryCalculateTxL1Cost(InfoFrom(o, spec), data, spec).error # "none"
<1> DEFINE info == InfoFrom(o, spec)
           penalty == IF data.ratio >= o["penalty_threshold"] THEN PRECISION ELSE o["penalty_factor"]
           perByte == ExactPerByte(o)
           v == (SaturatingMul(SaturatingMul(Length(data), Sat(perByte)), penalty)
                   \div PRECISION) \div PRECISION
<1>1. IsEnabledIn(spec, CURIE)
  BY DEF IsEnabledIn, ScrollSpecId, CURIE, FEYNMAN, TSUKI_V2, SHANGHAI
<1>2. Acceptable(data) <=> data.ratio # None /\ data.ratio >= PRECISION
  BY DEF Acceptable
<1>3. info.l1_commit_scalar = o["l1_commit_scalar"] /\ info.l1_blob_scalar = o["l1_blob_scalar"]
      /\ info.l1_blob_base_fee = o["l1_blob_base_fee"]
      /\ info.penalty_threshold = o["penalty_threshold"]
      /\ info.penalty_factor = o["penalty_factor"]
  BY <1>1 DEF InfoFrom
<1>4. Present({info.l1_commit_scalar, info.l1_blob_scalar, info.l1_blob_base_fee,
               info.penalty_threshold, info.penalty_factor})
  BY <1>3, FetchedValues DEF Present
<1>5. FeePerByte(info) = Sat(perByte) /\ perByte \in Nat
  BY <1>1, FeePerByteOfTheFetch
<1> HIDE DEF info, perByte
<1>6. Formula(info, data, spec) = FeynmanFee(info, data)
  BY <1>1 DEF Formula
<1>7. PRECISION \in Nat /\ data.ratio \in Nat \cup {None}
  BY FeeAssumption, DataOfTheSet, FetchedValues
<1>8. ASSUME Acceptable(data)
      PROVE  TryCalculateTxL1Cost(info, data, spec) = Fee(AtMost(ExactFeynman(o, data), Cap(spec)))
  <2>1. data.ratio # None /\ data.ratio \in Nat /\ ~(data.ratio < PRECISION)
    BY <1>2, <1>7, <1>8
  <2>2. FeynmanFee(info, data) = Fee(v)
    BY <1>3, <1>4, <1>5, <2>1 DEF FeynmanFee
  <2>3. TryCalculateTxL1Cost(info, data, spec) = Fee(AtMost(v, Cap(spec)))
    <3> HIDE DEF v
    <3> QED BY <1>6, <2>2 DEF TryCalculateTxL1Cost, Fee
  <2>4. penalty \in Nat /\ Length(data) \in Nat
    BY <1>7, FetchedValues, DataOfTheSet
  <2>5. ExactFeynman(o, data) = (Length(data) * perByte * penalty) \div (PRECISION * PRECISION)
    BY DEF ExactFeynman, perByte
  <2>6. Cap(spec) \in Nat /\ (PRECISION * PRECISION) * Cap(spec) <= UMAX
    BY CapsHaveRoom
  <2> HIDE DEF penalty
  <2>7. AtMost(v, Cap(spec)) = AtMost(ExactFeynman(o, data), Cap(spec))
    BY <1>5, <2>4, <2>5, <2>6, FeynmanArithmetic
  <2> QED BY <2>3, <2>7
<1>9. ASSUME ~Acceptable(data)
      PROVE  TryCalculateTxL1Cost(info, data, spec).error # "none"
  <2>1. data.ratio = None \/ data.ratio < PRECISION
    BY <1>2, <1>7, <1>9
  <2>2. FeynmanFee(info, data).error # "none"
    BY <2>1 DEF FeynmanFee, FeeError
  <2> QED BY <1>6, <2>2 DEF TryCalculateTxL1Cost
<1> QED BY <1>8, <1>9 DEF info

\* Galileo and later.
LEMMA GalileoFeeIsExact ==
    ASSUME NEW o \in [Slots -> U256], NEW data \in DataSet, spec \in ScrollSpecId,
           IsEnabledIn(spec, GALILEO)
    PROVE  IF Acceptable(data)
           THEN TryCalculateTxL1Cost(InfoFrom(o, spec), data, spec)
                = Fee(AtMost(ExactGalileo(o, data), Cap(spec)))
           ELSE TryCalculateTxL1Cost(InfoFrom(o, spec), data, spec).error # "none"
<1> DEFINE info == InfoFrom(o, spec)
           factor == IF o["penalty_factor"] = 0 THEN 1 ELSE o["penalty_factor"]
           perByte == ExactPerByte(o)
           size == data.compressed
           base == SaturatingMul(Sat(perByte), size)
           v == SaturatingAdd(base, SaturatingMul(base, size) \div factor) \div PRECISION
<1>1. IsEnabledIn(spec, CURIE) /\ IsEnabledIn(spec, FEYNMAN)
  BY DEF IsEnabledIn, ScrollSpecId, CURIE, FEYNMAN, GALILEO, TSUKI_V2, SHANGHAI
<1>2. Acceptable(data) <=> data.compressed # None /\ data.compressed <= Length(data)
  BY DEF Acceptable
<1>3. info.l1_commit_scalar = o["l1_commit_scalar"] /\ info.l1_blob_scalar = o["l1_blob_scalar"]
      /\ info.l1_blob_base_fee = o["l1_blob_base_fee"]
      /\ info.penalty_factor = o["penalty_factor"]
  BY <1>1 DEF InfoFrom
<1>4. Present({info.l1_commit_scalar, info.l1_blob_scalar, info.l1_blob_base_fee,
               info.penalty_factor})
  BY <1>3, FetchedValues DEF Present
<1>5. FeePerByte(info) = Sat(perByte) /\ perByte \in Nat
  BY <1>1, FeePerByteOfTheFetch
<1> HIDE DEF info, perByte
<1>6. Formula(info, data, spec) = GalileoFee(info, data)
  BY <1>1 DEF Formula
<1>7. size \in Nat \cup {None} /\ Length(data) \in Nat /\ Length(data) <= MaxSize /\ MaxSize \in Nat
  BY FeeAssumption, DataOfTheSet
<1>8. ASSUME Acceptable(data)
      PROVE  TryCalculateTxL1Cost(info, data, spec) = Fee(AtMost(ExactGalileo(o, data), Cap(spec)))
  <2>1. data.compressed # None /\ size \in Nat /\ ~(data.compressed > Length(data))
        /\ size <= MaxSize
    BY <1>2, <1>7, <1>8
  <2>2. GalileoFee(info, data) = Fee(v)
    BY <1>3, <1>4, <1>5, <2>1 DEF GalileoFee, Sanitized
  <2>3. TryCalculateTxL1Cost(info, data, spec) = Fee(AtMost(v, Cap(spec)))
    <3> HIDE DEF v
    <3> QED BY <1>6, <2>2 DEF TryCalculateTxL1Cost, Fee
  <2>4. factor \in Nat \ {0}
    BY FetchedValues
  <2>5. ExactGalileo(o, data) = (perByte * size + (perByte * size * size) \div factor) \div PRECISION
    BY DEF ExactGalileo, perByte
  <2>6. Cap(spec) \in Nat /\ PRECISION * Cap(spec) \in Nat /\ PRECISION * Cap(spec) <= UMAX
        /\ MaxSize * (PRECISION * Cap(spec)) <= UMAX
    BY CapsHaveRoom
  <2> HIDE DEF factor, size
  <2>7. AtMost(v, Cap(spec)) = AtMost(ExactGalileo(o, data), Cap(spec))
    BY <1>5, <2>1, <2>4, <2>5, <2>6, GalileoArithmetic
  <2> QED BY <2>3, <2>7
<1>9. ASSUME ~Acceptable(data)
      PROVE  TryCalculateTxL1Cost(info, data, spec).error # "none"
  <2>1. data.compressed = None \/ data.compressed > Length(data)
    BY <1>2, <1>7, <1>9
  <2>2. GalileoFee(info, data).error # "none"
    BY <2>1 DEF GalileoFee, FeeError
  <2> QED BY <1>6, <2>2 DEF TryCalculateTxL1Cost
<1> QED BY <1>8, <1>9 DEF info

\* Every fork: the fee from the fields fetched from o is the exact fee for o, up to the cap.
LEMMA FeeOfTheFetch ==
    ASSUME NEW o \in [Slots -> U256], NEW data \in DataSet, spec \in ScrollSpecId
    PROVE  IF Acceptable(data)
           THEN TryCalculateTxL1Cost(InfoFrom(o, spec), data, spec)
                = Fee(AtMost(ExactFee(o, data), Cap(spec)))
           ELSE TryCalculateTxL1Cost(InfoFrom(o, spec), data, spec).error # "none"
<1>1. /\ IsEnabledIn(spec, GALILEO) => IsEnabledIn(spec, FEYNMAN)
      /\ IsEnabledIn(spec, FEYNMAN) => IsEnabledIn(spec, CURIE)
  BY DEF IsEnabledIn, ScrollSpecId, CURIE, FEYNMAN, GALILEO, TSUKI_V2, SHANGHAI
<1>2. CASE IsEnabledIn(spec, GALILEO)
  <2>1. ExactFee(o, data) = ExactGalileo(o, data)
    BY <1>1, <1>2, Zenon DEF ExactFee
  <2> QED BY <1>2, <2>1, GalileoFeeIsExact
<1>3. CASE IsEnabledIn(spec, FEYNMAN) /\ ~IsEnabledIn(spec, GALILEO)
  <2>1. ExactFee(o, data) = ExactFeynman(o, data)
    BY <1>3 DEF ExactFee
  <2> QED BY <1>3, <2>1, FeynmanFeeIsExact
<1>4. CASE IsEnabledIn(spec, CURIE) /\ ~IsEnabledIn(spec, FEYNMAN)
  <2>1. ExactFee(o, data) = ExactCurie(o, data) /\ Acceptable(data)
    BY <1>1, <1>4 DEF ExactFee, Acceptable
  <2> QED BY <1>4, <2>1, CurieFeeIsExact
<1>5. CASE ~IsEnabledIn(spec, CURIE)
  <2>1. ExactFee(o, data) = ExactShanghai(o, data) /\ Acceptable(data)
    BY <1>1, <1>5 DEF ExactFee, Acceptable
  <2> QED BY <1>5, <2>1, ShanghaiFeeIsExact
<1> QED BY <1>2, <1>3, <1>4, <1>5

-----------------------------------------------------------------------------
(* The invariant *)

\* What the fetch left in the L1BlockInfo is what the fork reads of the oracle as earlier
\* transactions left it: neither a journaled slot nor one the journal never loaded is stale.
InfoInv == pc = "fetched" => l1_block_info = InfoFrom(Contents, spec)

IInv == TypeOK /\ InfoInv

\* Every field of a fetched L1BlockInfo is a U256 or None.
LEMMA FetchedInfoIsTyped ==
    ASSUME NEW o \in [Slots -> U256]
    PROVE  \A f \in DOMAIN InfoFrom(o, spec) : InfoFrom(o, spec)[f] \in U256 \cup {None}
<1> DEFINE T == U256 \cup {None}
           gas == SaturatingMul(o["l1_commit_scalar"], o["l1_base_fee"])
<1>1. o["l1_base_fee"] \in T /\ o["l1_fee_overhead"] \in T /\ o["l1_base_fee_scalar"] \in T
      /\ o["l1_blob_base_fee"] \in T /\ o["l1_commit_scalar"] \in T /\ o["l1_blob_scalar"] \in T
      /\ o["penalty_threshold"] \in T /\ o["penalty_factor"] \in T /\ gas \in T /\ None \in T
  BY FetchedValues
<1> HIDE DEF T, gas
<1>2. \A f \in DOMAIN InfoFrom(o, spec) : InfoFrom(o, spec)[f] \in T
  BY <1>1 DEF InfoFrom, gas
<1> QED BY <1>2 DEF T

\* The closure of try_fetch_from_journal gives the oracle's contents, and they are U256 values.
LEMMA StorageIsContents ==
    ASSUME TypeOK
    PROVE  /\ [s \in Slots |-> Storage(s)] = Contents
           /\ Contents \in [Slots -> U256]
<1>1. \A s \in Slots : /\ Storage(s) = IF journaled[s] = None THEN db[s] ELSE journaled[s]
                       /\ Storage(s) \in U256
  BY DEF Storage, TypeOK
<1>2. [s \in Slots |-> Storage(s)] = Contents
  BY <1>1 DEF Contents
<1> QED BY <1>1, <1>2

\* A new journal and the default L1BlockInfo satisfy the invariant.
LEMMA InitIInv == Init => IInv
<1> SUFFICES ASSUME Init PROVE IInv
  OBVIOUS
<1>1. 0 \in U256 /\ InitialValues \subseteq U256 /\ InitialSpecs \subseteq ScrollSpecId
  BY FeeAssumption, OracleAssumption DEF U256
<1>2. pc \in {"idle", "fetched"} /\ spec \in ScrollSpecId /\ db \in [Slots -> U256]
      /\ journaled \in [Slots -> U256 \cup {None}]
  BY <1>1 DEF Init, NotLoaded
<1>3. \A f \in DOMAIN l1_block_info : l1_block_info[f] \in U256 \cup {None}
  BY <1>1 DEF Init, DefaultL1BlockInfo
<1>4. InfoInv
  BY DEF Init, InfoInv
<1> QED BY <1>2, <1>3, <1>4 DEF IInv, TypeOK

\* The fetch, the transactions and the end of a block keep it.
LEMMA NextIInv == IInv /\ [Next]_vars => IInv'
<1> SUFFICES ASSUME IInv, [Next]_vars PROVE IInv'
  OBVIOUS
<1>0. TypeOK /\ WriteValues \subseteq U256 /\ InitialSpecs \subseteq ScrollSpecId
  BY OracleAssumption DEF IInv
<1>1. CASE FetchFromJournal
  <2>1. l1_block_info' = InfoFrom(Contents, spec) /\ Contents \in [Slots -> U256]
    BY <1>0, <1>1, StorageIsContents DEF FetchFromJournal
  <2>2. Contents' = Contents
    BY <1>1 DEF FetchFromJournal, Contents
  <2>3. \A f \in DOMAIN l1_block_info' : l1_block_info'[f] \in U256 \cup {None}
    BY <2>1, FetchedInfoIsTyped
  <2>4. TypeOK'
    BY <1>0, <1>1, <2>3 DEF FetchFromJournal, TypeOK
  <2>5. InfoInv'
    BY <1>1, <2>1, <2>2 DEF FetchFromJournal, InfoInv
  <2> QED BY <2>4, <2>5 DEF IInv
<1>2. ASSUME NEW s \in Slots, Load(s) PROVE IInv'
  <2>1. Storage(s) \in U256
    BY <1>0, StorageIsContents DEF Storage, TypeOK
  <2>2. journaled' \in [Slots -> U256 \cup {None}]
    BY <1>0, <1>2, <2>1 DEF Load, TypeOK
  <2> QED BY <1>0, <1>2, <2>2 DEF Load, TypeOK, InfoInv, IInv
<1>3. ASSUME NEW s \in Slots, NEW v \in WriteValues, Store(s, v) PROVE IInv'
  <2>1. journaled' \in [Slots -> U256 \cup {None}]
    BY <1>0, <1>3 DEF Store, TypeOK
  <2> QED BY <1>0, <1>3, <2>1 DEF Store, TypeOK, InfoInv, IInv
<1>4. CASE RunElsewhere
  BY <1>0, <1>4 DEF RunElsewhere, TypeOK, InfoInv, IInv
<1>5. CASE CommitBlock
  <2>1. db' \in [Slots -> U256]
    BY <1>0, <1>5, StorageIsContents DEF CommitBlock
  <2>2. journaled' \in [Slots -> U256 \cup {None}]
    BY <1>5 DEF CommitBlock, NotLoaded
  <2> QED BY <1>0, <1>5, <2>1, <2>2 DEF CommitBlock, TypeOK, InfoInv, IInv
<1>6. CASE DropBlock
  <2>1. journaled' \in [Slots -> U256 \cup {None}]
    BY <1>6 DEF DropBlock, NotLoaded
  <2> QED BY <1>0, <1>6, <2>1 DEF DropBlock, TypeOK, InfoInv, IInv
<1>7. CASE UNCHANGED vars
  <2>1. Contents' = Contents
    BY <1>7 DEF vars, Contents
  <2> QED BY <1>0, <1>7, <2>1 DEF vars, TypeOK, InfoInv, IInv
<1> QED BY <1>1, <1>2, <1>3, <1>4, <1>5, <1>6, <1>7 DEF Next

\* The exact fee from Galileo on grows with the compressed size.
LEMMA GalileoGrowsWithSize ==
    ASSUME NEW o \in [Slots -> U256], NEW d1, NEW d2, IsEnabledIn(spec, CURIE),
           d1.compressed \in Nat, d2.compressed \in Nat, d1.compressed <= d2.compressed
    PROVE  /\ ExactGalileo(o, d1) \in Nat /\ ExactGalileo(o, d2) \in Nat
           /\ ExactGalileo(o, d1) <= ExactGalileo(o, d2)
<1> DEFINE p == ExactPerByte(o)
           c1 == d1.compressed
           c2 == d2.compressed
           f == IF o["penalty_factor"] = 0 THEN 1 ELSE o["penalty_factor"]
           b1 == p * c1
           b2 == p * c2
           s1 == b1 * c1
           s2 == b2 * c2
           q1 == s1 \div f
           q2 == s2 \div f
<1>1. p \in Nat /\ c1 \in Nat /\ c2 \in Nat /\ c1 <= c2
  BY FeePerByteOfTheFetch
<1>2. f \in Nat \ {0} /\ PRECISION \in Nat \ {0}
  BY FetchedValues, FeeAssumption
<1>3. ExactGalileo(o, d1) = (b1 + q1) \div PRECISION
      /\ ExactGalileo(o, d2) = (b2 + q2) \div PRECISION
  BY DEF ExactGalileo
<1> HIDE DEF p, c1, c2, f
<1>4. b1 \in Nat /\ b2 \in Nat /\ b1 <= b2
  <2>1. c1 * p <= c2 * p
    BY <1>1, ProductIsMonotone
  <2>2. c1 * p = p * c1 /\ c2 * p = p * c2
    BY <1>1
  <2> QED BY <1>1, <2>1, <2>2, ProductGrows
<1> HIDE DEF b1, b2
<1>5. s1 \in Nat /\ s2 \in Nat /\ s1 <= s2
  <2>1. b1 * c1 <= b2 * c1
    BY <1>1, <1>4, ProductIsMonotone
  <2>2. c1 * b2 <= c2 * b2
    BY <1>1, <1>4, ProductIsMonotone
  <2>3. c1 * b2 = b2 * c1 /\ c2 * b2 = b2 * c2
    BY <1>1, <1>4
  <2>4. b1 * c1 \in Nat /\ b2 * c1 \in Nat /\ b2 * c2 \in Nat
    BY <1>1, <1>4, ProductGrows
  <2> QED BY <2>1, <2>2, <2>3, <2>4
<1> HIDE DEF s1, s2
<1>6. q1 \in Nat /\ q2 \in Nat /\ q1 <= q2
  BY <1>2, <1>5, Quotient, QuotientIsMonotone
<1> HIDE DEF q1, q2
<1>7. b1 + q1 \in Nat /\ b2 + q2 \in Nat /\ b1 + q1 <= b2 + q2
  BY <1>4, <1>6
<1>8. (b1 + q1) \div PRECISION \in Nat /\ (b2 + q2) \div PRECISION \in Nat
      /\ (b1 + q1) \div PRECISION <= (b2 + q2) \div PRECISION
  BY <1>2, <1>7, Quotient, QuotientIsMonotone
<1> QED BY <1>3, <1>8

\* The invariant makes try_calculate_tx_l1_cost exact up to the cap.
LEMMA IInvImpliesExact == IInv => FeeIsExactUpToCap
<1> SUFFICES ASSUME IInv, pc = "fetched", NEW data \in DataSet
             PROVE  LET r == TryCalculateTxL1Cost(l1_block_info, data, spec)
                    IN  IF Acceptable(data)
                        THEN r = Fee(AtMost(ExactFee(Contents, data), Cap(spec)))
                        ELSE r.error # "none"
  BY DEF FeeIsExactUpToCap
<1>1. l1_block_info = InfoFrom(Contents, spec) /\ Contents \in [Slots -> U256]
      /\ spec \in ScrollSpecId
  BY StorageIsContents DEF IInv, InfoInv, TypeOK
<1> QED BY <1>1, FeeOfTheFetch

\* ... and monotone in the compressed size.
LEMMA IInvImpliesGrowth == IInv => FeeGrowsWithSize
<1> SUFFICES ASSUME IInv, pc = "fetched", IsEnabledIn(spec, GALILEO),
                    NEW d1 \in DataSet, NEW d2 \in DataSet,
                    Acceptable(d1), Acceptable(d2), d1.compressed <= d2.compressed
             PROVE  TryCalculateTxL1Cost(l1_block_info, d1, spec).fee
                    <= TryCalculateTxL1Cost(l1_block_info, d2, spec).fee
  BY DEF FeeGrowsWithSize
<1> DEFINE e1 == ExactGalileo(Contents, d1)
           e2 == ExactGalileo(Contents, d2)
           cap == Cap(spec)
<1>1. l1_block_info = InfoFrom(Contents, spec) /\ Contents \in [Slots -> U256]
      /\ spec \in ScrollSpecId
  BY StorageIsContents DEF IInv, InfoInv, TypeOK
<1>2. TryCalculateTxL1Cost(l1_block_info, d1, spec).fee = AtMost(e1, cap)
      /\ TryCalculateTxL1Cost(l1_block_info, d2, spec).fee = AtMost(e2, cap)
  BY <1>1, GalileoFeeIsExact DEF Fee
<1>3. d1.compressed \in Nat /\ d2.compressed \in Nat
  BY DataOfTheSet DEF Acceptable
<1>4. IsEnabledIn(spec, CURIE)
  BY <1>1 DEF IsEnabledIn, ScrollSpecId, CURIE, GALILEO, TSUKI_V2, SHANGHAI
<1>5. e1 \in Nat /\ e2 \in Nat /\ e1 <= e2
  BY <1>1, <1>3, <1>4, GalileoGrowsWithSize
<1>6. cap \in Nat
  BY <1>1, CapsHaveRoom
<1> HIDE DEF e1, e2, cap
<1>7. AtMost(e1, cap) <= AtMost(e2, cap)
  BY <1>5, <1>6 DEF AtMost
<1> QED BY <1>2, <1>7

-----------------------------------------------------------------------------
(* Theorems *)

\* The fetched L1BlockInfo always fits the oracle, whatever blocks were committed or dropped.
THEOREM Invariant == Spec => []IInv
BY InitIInv, NextIInv, PTL DEF Spec

\* What the oracle, the journal and the L1BlockInfo hold are 256-bit values, or nothing.
THEOREM OracleIsTyped == Spec => []TypeOK
<1>1. IInv => TypeOK
  BY DEF IInv
<1> QED BY <1>1, Invariant, PTL

\* After try_fetch_from_journal every fork's fee is the exact one for the oracle as earlier
\* transactions left it, up to the cap, and an error is the transaction's own: for every oracle,
\* every set of transactions and every width that leaves the caps room.
THEOREM FeesAreExactUpToTheCap == Spec => []FeeIsExactUpToCap
BY Invariant, IInvImpliesExact, PTL

\* From Galileo on a better compressed transaction never pays more, saturation and caps included.
THEOREM FeesGrowWithSize == Spec => []FeeGrowsWithSize
BY Invariant, IInvImpliesGrowth, PTL
=============================================================================
