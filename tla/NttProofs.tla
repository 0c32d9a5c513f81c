-------------------------------- MODULE NttProofs --------------------------------
(***************************************************************************)
(* No int16_t of ntt.c wraps, for any K and any of the input polynomials,  *)
(* and the bounds IndCpa calculates with are bounds of the numbers; and    *)
(* what is computed is the transform and the product, modulo Q, exactly.   *)
(*                                                                         *)
(* Bounds: first the two reductions; then what one block of butterflies    *)
(* does to an array of which the part before start has been through the    *)
(* layer and the rest has not; then the layers, of which Poly gives the    *)
(* bounds.                                                                 *)
(*                                                                         *)
(* Values: the arrays are compared with remainders of the polynomial       *)
(* modulo X^s - g, defined by Horner's rule.  The table of zetas is the    *)
(* tree of the factors of X^256 + 1; a block of ntt goes from a factor to  *)
(* its two halves, one of invntt back; and on every layer of the tree the  *)
(* product of the remainders is the remainder of the product.              *)
(***************************************************************************)
EXTENDS Ntt, InductionLemmas, TLAPS

Bounded(u, bound) == u \in Int /\ 0 - bound <= u /\ u <= bound
Arr(p, bound)     == \A j \in Index : Bounded(p[j], bound)

--------------------------------------------------------------------------------
(* The conversion to 16 bits takes off a multiple of 2^16, or nothing.     *)
LEMMA Int16Is ==
  ASSUME NEW u \in Int
  PROVE  /\ \E m \in Int : int16(u) = u - 65536 * m
         /\ int16(u) \in Int /\ -32768 <= int16(u) /\ int16(u) <= 32767
         /\ Bounded(u, 32767) => int16(u) = u
<1>1. int16(u) = u - 65536 * ((u + 32768) \div 65536)
  BY DEF int16
<1>2. (u + 32768) \div 65536 \in Int
  OBVIOUS
<1>3. -32768 <= int16(u) /\ int16(u) <= 32767 /\ int16(u) \in Int
  BY DEF int16
<1>4. Bounded(u, 32767) => int16(u) = u
  BY DEF int16, Bounded
<1>. QED  BY <1>1, <1>2, <1>3, <1>4

(* montgomery_reduce divides exactly.                                      *)
LEMMA MontgomeryIs ==
  ASSUME NEW u \in Int, NEW w \in Nat, Bounded(u, w), w <= 2000000000
  PROVE  Bounded(montgomery_reduce(u), P!MontBound(w))
<1>. DEFINE z == int16(u) * QINV
            t == int16(z)
            e == u - t * Q
<1>1. PICK m2 \in Int : int16(u) = u - 65536 * m2
  BY Int16Is
<1>2. z \in Int
  BY Int16Is DEF QINV
<1>. HIDE DEF z
<1>3. PICK m1 \in Int : t = z - 65536 * m1
  BY ONLY <1>2, Int16Is
<1>4. t \in Int /\ -32768 <= t /\ t <= 32767
  BY ONLY <1>2, Int16Is
<1>. DEFINE q == m2 + 169 * (u - 65536 * m2) + 3329 * m1
<1>5. q \in Int
  OBVIOUS
<1>. HIDE DEF t
<1>6. e = 65536 * q
  BY <1>1, <1>3 DEF Q, QINV, z
<1>7. e \in Int /\ e <= w + 32768 * 3329 /\ 0 - (w + 32768 * 3329) <= e
  BY <1>4 DEF Bounded, Q
<1>. HIDE DEF e, q
<1>8. e \div 65536 = q
  BY <1>5, <1>6
<1>9. q <= (w + 32768 * 3329) \div 65536 /\ 0 - ((w + 32768 * 3329) \div 65536) <= q
  BY <1>5, <1>6, <1>7
<1>10. Bounded(q, P!MontBound(w))
  BY <1>5, <1>9 DEF Bounded, P!MontBound, P!Q
<1>11. Bounded(q, 32767)
  BY <1>5, <1>9 DEF Bounded
<1>12. montgomery_reduce(u) = int16(q)
  BY <1>8 DEF montgomery_reduce, t, e, z
<1>. QED  BY <1>5, <1>10, <1>11, <1>12, Int16Is

LEMMA ProductBounded ==
  ASSUME NEW u, NEW w, NEW c \in Nat, NEW d \in Nat, Bounded(u, c), Bounded(w, d)
  PROVE  u * w \in Int /\ Bounded(u * w, c * d) /\ c * d \in Nat
<1>. USE DEF Bounded
<1>0. u * w \in Int /\ c * d \in Nat /\ 0 - c <= u /\ u <= c /\ 0 - d <= w /\ w <= d
  OBVIOUS
<1>1. CASE u >= 0 /\ w >= 0
  <2>1. u * w <= c * w /\ c * w <= c * d /\ 0 <= u * w
    BY <1>0, <1>1
  <2>. QED  BY <1>0, <2>1
<1>2. CASE u >= 0 /\ w < 0
  <2>1. u * (0 - w) <= c * (0 - w) /\ c * (0 - w) <= c * d /\ 0 <= u * (0 - w)
    BY <1>0, <1>2
  <2>2. u * (0 - w) = 0 - u * w
    BY <1>0
  <2>. QED  BY <1>0, <2>1, <2>2
<1>3. CASE u < 0 /\ w >= 0
  <2>1. (0 - u) * w <= c * w /\ c * w <= c * d /\ 0 <= (0 - u) * w
    BY <1>0, <1>3
  <2>2. (0 - u) * w = 0 - u * w
    BY <1>0
  <2>. QED  BY <1>0, <2>1, <2>2
<1>4. CASE u < 0 /\ w < 0
  <2>1. (0 - u) * (0 - w) <= c * (0 - w) /\ c * (0 - w) <= c * d /\ 0 <= (0 - u) * (0 - w)
    BY <1>0, <1>4
  <2>2. (0 - u) * (0 - w) = u * w
    BY <1>0
  <2>. QED  BY <1>0, <2>1, <2>2
<1>. QED  BY <1>1, <1>2, <1>3, <1>4

LEMMA FqmulIs ==
  ASSUME NEW u, NEW w, NEW c \in Nat, NEW d \in Nat, c * d <= 2000000000,
         Bounded(u, c), Bounded(w, d)
  PROVE  Bounded(fqmul(u, w), P!fqmulBound(c, d))
<1>1. u * w \in Int /\ Bounded(u * w, c * d) /\ c * d \in Nat
  BY ProductBounded
<1>. QED  BY <1>1, MontgomeryIs DEF fqmul, P!fqmulBound

(* barrett_reduce yields the centred residue.                              *)
LEMMA BarrettIs ==
  ASSUME NEW u, Bounded(u, 32767)
  PROVE  Bounded(barrett_reduce(u), 1664)
<1>. DEFINE t == (20159 * u + 33554432) \div 67108864
<1>1. t \in Int /\ 67108864 * t <= 20159 * u + 33554432
      /\ 20159 * u + 33554432 < 67108864 * t + 67108864
  BY DEF Bounded
<1>. HIDE DEF t
<1>2. -10 <= t /\ t <= 10
  BY <1>1 DEF Bounded
<1>3. t * Q \in Int /\ t * Q = 3329 * t
  BY <1>1 DEF Q
<1>4. -1664 <= u - 3329 * t /\ u - 3329 * t <= 1664
  BY <1>1 DEF Bounded
<1>5. u - 3329 * t \in Int
  BY <1>1 DEF Bounded
<1>6. Bounded(u - 3329 * t, 1664) /\ Bounded(u - 3329 * t, 32767)
  BY <1>4, <1>5 DEF Bounded
<1>7. barrett_reduce(u) = int16(u - int16(3329 * t))
  BY <1>3 DEF barrett_reduce, t
<1>8. int16(u - int16(3329 * t)) = int16(u - 3329 * t)
  <2>1. Bounded(u - int16(3329 * t), 1664) \/ int16(3329 * t) # 3329 * t
    BY <1>6
  <2>. QED  BY <1>1, <1>2, <1>4, <2>1 DEF int16, Bounded
<1>. QED  BY <1>5, <1>6, <1>7, <1>8, Int16Is

LEMMA Wider ==
  ASSUME NEW u, NEW c \in Nat, NEW d \in Nat, c <= d, Bounded(u, c)
  PROVE  Bounded(u, d)
  BY DEF Bounded

LEMMA SumBounded ==
  ASSUME NEW u, NEW w, NEW c \in Nat, NEW d \in Nat, Bounded(u, c), Bounded(w, d)
  PROVE  Bounded(u + w, c + d) /\ Bounded(u - w, c + d)
  BY DEF Bounded

LEMMA ZetaIs == \A i \in 0 .. 127 : Bounded(Zeta(i), 1659)
  BY DEF Zeta, zetas, Bounded

--------------------------------------------------------------------------------
(* Blocks.                                                                 *)

(* The part before s has been through the layer.                           *)
HalfDone(p, lo, hi, s) == \A j \in Index : Bounded(p[j], IF j < s THEN hi ELSE lo)

(* Nothing wraps if all that is stored fits.                               *)
Fits(f) == Arr(f, 32767) /\ Remember(f) /\ wrapped = FALSE
IsStored(f) == \A j \in Index : r'[j] = f[j]

LEMMA Unwrapped == ASSUME NEW f, Fits(f) PROVE wrapped' = FALSE
<1>. DEFINE some == \E j \in Index : f[j] # int16(f[j])
<1>1. ~ some
  BY Int16Is DEF Fits, Arr, Bounded
<1>2. wrapped' = (wrapped \/ some) /\ wrapped = FALSE
  BY DEF Remember, Fits
<1>. HIDE DEF some
<1>. QED  BY ONLY <1>1, <1>2, Zenon

LEMMA Stored == ASSUME NEW f, Fits(f), Store(f) PROVE IsStored(f)
<1>1. \A j \in Index : int16(f[j]) = f[j]
  BY Int16Is DEF Fits, Arr, Bounded
<1>. QED  BY <1>1 DEF Store, IsStored

InBounds == start \in Nat /\ len \in Nat \ {0} /\ start + 2 * len <= 256

(* The indices a block reads.                                              *)
LEMMA BlockIndices ==
  ASSUME InBounds, NEW j \in Index
  PROVE  /\ j \in Lower => /\ j >= start /\ j < start + 2 * len
                           /\ j + len \in Index /\ j + len >= start
         /\ j \in Upper => /\ j >= start /\ j < start + 2 * len
                           /\ j - len \in Index /\ j - len >= start
         /\ j \notin Lower /\ j \notin Upper => (j < start <=> j < start + 2 * len)
         /\ ~ (j \in Lower /\ j \in Upper)
  BY DEF InBounds, Index, N, Lower, Upper

LEMMA ForwardBlock ==
  ASSUME InBounds, NEW lo \in Nat, NEW hi \in Nat, hi <= 32767,
         hi = lo + P!fqmulBound(1659, lo), NEW z, Bounded(z, 1659),
         HalfDone(r, lo, hi, start)
  PROVE  HalfDone(Butterflies(z), lo, hi, start + 2 * len) /\ Arr(Butterflies(z), 32767)
<1>. DEFINE g == P!fqmulBound(1659, lo)
            f == Butterflies(z)
<1>1. g \in Nat /\ hi = lo + g /\ lo <= hi
  BY DEF P!fqmulBound, P!MontBound, P!Q
<1>2. \A w : Bounded(w, lo) => Bounded(fqmul(z, w), g)
  <2>1. 1659 * lo <= 2000000000
    BY <1>1
  <2>. QED  BY <2>1, FqmulIs
<1>. HIDE DEF g
<1>3. \A j \in Index : j >= start => Bounded(r[j], lo)
  BY DEF HalfDone, Index, InBounds
<1>4. ASSUME NEW j \in Index
      PROVE  Bounded(f[j], IF j < start + 2 * len THEN hi ELSE lo)
  <2>1. CASE j \in Lower
    <3>1. f[j] = r[j] + fqmul(z, r[j + len])
      BY <2>1, BlockIndices DEF Butterflies
    <3>2. Bounded(r[j], lo) /\ Bounded(fqmul(z, r[j + len]), g)
      BY <1>2, <1>3, <2>1, BlockIndices
    <3>3. Bounded(f[j], hi)
      BY <1>1, <3>1, <3>2, SumBounded
    <3>. QED  BY <2>1, <3>3, BlockIndices
  <2>2. CASE j \in Upper
    <3>1. f[j] = r[j - len] - fqmul(z, r[j])
      BY <2>2, BlockIndices DEF Butterflies
    <3>2. Bounded(r[j - len], lo) /\ Bounded(fqmul(z, r[j]), g)
      BY <1>2, <1>3, <2>2, BlockIndices
    <3>3. Bounded(r[j - len] - fqmul(z, r[j]), lo + g)
      BY ONLY <3>2, <1>1, lo \in Nat, SumBounded
    <3>4. Bounded(f[j], hi)
      BY <1>1, <3>1, <3>3
    <3>. QED  BY <2>2, <3>4, BlockIndices
  <2>3. CASE j \notin Lower /\ j \notin Upper
    <3>1. f[j] = r[j]
      BY <2>3 DEF Butterflies
    <3>. QED  BY <2>3, <3>1, BlockIndices DEF HalfDone
  <2>. QED  BY <2>1, <2>2, <2>3
<1>5. HalfDone(f, lo, hi, start + 2 * len)
  BY <1>4 DEF HalfDone
<1>6. Arr(f, 32767)
  BY <1>1, <1>4, Wider DEF Arr
<1>. QED  BY <1>5, <1>6

(* What invntt makes of the sums and differences of a block.               *)
Halves(z) ==
  [j \in Index |-> CASE j \in Lower -> barrett_reduce(int16(Differences[j]))
                     [] j \in Upper -> fqmul(z, int16(Differences[j]))
                     [] OTHER       -> r[j]]

LEMMA InverseBlock ==
  ASSUME InBounds, NEW lo \in Nat, NEW hi \in Nat, hi <= 16383, lo <= 16383,
         hi = P!Larger(1664, P!fqmulBound(1659, 2 * lo)), NEW z, Bounded(z, 1659),
         HalfDone(r, lo, hi, start)
  PROVE  HalfDone(Halves(z), lo, hi, start + 2 * len) /\ Arr(Differences, 32767)
<1>. DEFINE g == P!fqmulBound(1659, 2 * lo)
            f == Halves(z)
            e == Differences
<1>1. g \in Nat /\ 1664 <= hi /\ g <= hi
  BY DEF P!fqmulBound, P!MontBound, P!Q, P!Larger
<1>2. \A w : Bounded(w, 2 * lo) => Bounded(fqmul(z, w), g)
  <2>1. 1659 * (2 * lo) <= 2000000000 /\ 2 * lo \in Nat
    OBVIOUS
  <2>. QED  BY <2>1, FqmulIs
<1>. HIDE DEF g
<1>3. \A j \in Index : j >= start => Bounded(r[j], lo)
  BY DEF HalfDone, Index, InBounds
<1>4. \A j \in Index : j \in Lower \/ j \in Upper => Bounded(e[j], 2 * lo)
  <2>1. ASSUME NEW j \in Index, j \in Lower
        PROVE  Bounded(e[j], 2 * lo)
    <3>1. e[j] = r[j] + r[j + len]
      BY <2>1, BlockIndices DEF Differences
    <3>2. Bounded(r[j], lo) /\ Bounded(r[j + len], lo)
      BY <1>3, <2>1, BlockIndices
    <3>3. Bounded(r[j] + r[j + len], lo + lo)
      BY ONLY <3>2, lo \in Nat, SumBounded
    <3>. QED  BY <3>1, <3>3
  <2>2. ASSUME NEW j \in Index, j \in Upper
        PROVE  Bounded(e[j], 2 * lo)
    <3>1. e[j] = r[j] - r[j - len]
      BY <2>2, BlockIndices DEF Differences
    <3>2. Bounded(r[j], lo) /\ Bounded(r[j - len], lo)
      BY <1>3, <2>2, BlockIndices
    <3>3. Bounded(r[j] - r[j - len], lo + lo)
      BY ONLY <3>2, lo \in Nat, SumBounded
    <3>. QED  BY <3>1, <3>3
  <2>. QED  BY <2>1, <2>2
<1>5. \A j \in Index : j \in Lower \/ j \in Upper => Bounded(e[j], 32767) /\ int16(e[j]) = e[j]
  <2>1. \A w : Bounded(w, 2 * lo) => Bounded(w, 32767) /\ int16(w) = w
    BY Int16Is DEF Bounded
  <2>. QED  BY <1>4, <2>1
<1>6. \A j \in Index : j \notin Lower /\ j \notin Upper => e[j] = r[j] /\ f[j] = r[j]
  BY DEF Differences, Halves
<1>. HIDE DEF e
<1>7. ASSUME NEW j \in Index
      PROVE  Bounded(f[j], IF j < start + 2 * len THEN hi ELSE lo)
  <2>1. CASE j \in Lower
    <3>1. f[j] = barrett_reduce(int16(e[j]))
      BY <2>1, BlockIndices DEF Halves, e
    <3>2. Bounded(f[j], 1664)
      BY <1>5, <2>1, <3>1, BarrettIs
    <3>3. Bounded(f[j], hi)
      BY <1>1, <3>2, Wider
    <3>. QED  BY <2>1, <3>3, BlockIndices
  <2>2. CASE j \in Upper
    <3>1. f[j] = fqmul(z, int16(e[j]))
      BY <2>2, BlockIndices DEF Halves, e
    <3>2. Bounded(f[j], g)
      BY <1>2, <1>4, <1>5, <2>2, <3>1
    <3>3. Bounded(f[j], hi)
      BY <1>1, <3>2, Wider
    <3>. QED  BY <2>2, <3>3, BlockIndices
  <2>3. CASE j \notin Lower /\ j \notin Upper
    <3>1. f[j] = r[j]
      BY <1>6, <2>3
    <3>. QED  BY <2>3, <3>1, BlockIndices DEF HalfDone
  <2>. QED  BY <2>1, <2>2, <2>3
<1>8. HalfDone(f, lo, hi, start + 2 * len)
  BY <1>7 DEF HalfDone
<1>9. \A j \in Index : Bounded(r[j], 32767)
  BY Wider DEF HalfDone
<1>10. Arr(e, 32767)
  BY <1>5, <1>6, <1>9 DEF Arr
<1>. QED  BY <1>8, <1>10 DEF e

--------------------------------------------------------------------------------
(* Products.                                                               *)

LEMMA ZetaOfIs ==
  ASSUME NEW i \in Index
  PROVE  Bounded(ZetaOf(i), 1659)
<1>1. 64 + i \div 4 \in 0 .. 127
  BY DEF Index, N
<1>2. Bounded(Zeta(64 + i \div 4), 1659)
  BY <1>1, ZetaIs
<1>3. Bounded(0 - Zeta(64 + i \div 4), 1659)
  BY <1>2 DEF Bounded
<1>. QED  BY <1>2, <1>3 DEF ZetaOf

LEMMA BasemulIs ==
  ASSUME NEW u, NEW w, Arr(u, 4095), Arr(w, 1664)
  PROVE  Arr(basemul(u, w), 3536)
<1>1. P!fqmulBound(4095, 1664) = 1768 /\ P!fqmulBound(1768, 1659) = 1709
  BY DEF P!fqmulBound, P!MontBound, P!Q
<1>2. \A c, d : Bounded(c, 4095) /\ Bounded(d, 1664) => Bounded(fqmul(c, d), 1768)
  <2>1. 4095 * 1664 <= 2000000000
    OBVIOUS
  <2>. QED  BY <1>1, <2>1, FqmulIs
<1>3. \A c, d : Bounded(c, 1768) /\ Bounded(d, 1659) => Bounded(fqmul(c, d), 1768)
  <2>1. 1768 * 1659 <= 2000000000
    OBVIOUS
  <2>2. \A c, d : Bounded(c, 1768) /\ Bounded(d, 1659) => Bounded(fqmul(c, d), 1709)
    BY <1>1, <2>1, FqmulIs
  <2>. QED  BY <2>2 DEF Bounded
<1>4. \A c, d : Bounded(c, 1768) /\ Bounded(d, 1768) => Bounded(c + d, 3536)
  BY DEF Bounded
<1>5. ASSUME NEW j \in Index
      PROVE  Bounded(basemul(u, w)[j], 3536)
  <2>. DEFINE i == j - (j % 2)
  <2>1. i \in Index /\ i + 1 \in Index
    BY DEF Index, N
  <2>2. /\ Bounded(u[i], 4095) /\ Bounded(u[i + 1], 4095)
        /\ Bounded(w[i], 1664) /\ Bounded(w[i + 1], 1664) /\ Bounded(ZetaOf(i), 1659)
    BY <2>1, ZetaOfIs DEF Arr
  <2>3. basemul(u, w)[j] =
          IF j = i THEN fqmul(fqmul(u[i + 1], w[i + 1]), ZetaOf(i)) + fqmul(u[i], w[i])
          ELSE fqmul(u[i], w[i + 1]) + fqmul(u[i + 1], w[i])
    BY DEF basemul
  <2>. HIDE DEF i
  <2>4. /\ Bounded(fqmul(fqmul(u[i + 1], w[i + 1]), ZetaOf(i)), 1768)
        /\ Bounded(fqmul(u[i], w[i]), 1768)
        /\ Bounded(fqmul(u[i], w[i + 1]), 1768)
        /\ Bounded(fqmul(u[i + 1], w[i]), 1768)
    BY <1>2, <1>3, <2>2
  <2>. QED  BY <1>4, <2>3, <2>4
<1>. QED  BY <1>5 DEF Arr

--------------------------------------------------------------------------------
(* The layers, with the bounds Poly gives them.                            *)
Butterfly(c) == c + P!fqmulBound(1659, c)
F0 == 3328
F1 == Butterfly(F0)
F2 == Butterfly(F1)
F3 == Butterfly(F2)
F4 == Butterfly(F3)
F5 == Butterfly(F4)
F6 == Butterfly(F5)
F7 == Butterfly(F6)
Before(l) ==
  IF l = 128 THEN F0 ELSE IF l = 64 THEN F1 ELSE IF l = 32 THEN F2 ELSE
  IF l = 16 THEN F3 ELSE IF l = 8 THEN F4 ELSE IF l = 4 THEN F5 ELSE
  IF l = 2 THEN F6 ELSE F7

Halving(c) == P!Larger(1664, P!fqmulBound(1659, 2 * c))
I0 == 3536 * K
I1 == Halving(I0)
I2 == Halving(I1)
I3 == Halving(I2)
I4 == Halving(I3)
I5 == Halving(I4)
I6 == Halving(I5)
I7 == Halving(I6)
InvBefore(l) ==
  IF l = 2 THEN I0 ELSE IF l = 4 THEN I1 ELSE IF l = 8 THEN I2 ELSE
  IF l = 16 THEN I3 ELSE IF l = 32 THEN I4 ELSE IF l = 64 THEN I5 ELSE
  IF l = 128 THEN I6 ELSE I7

ForwardLens == {2, 4, 8, 16, 32, 64, 128}

LEMMA ButterflyIs ==
  ASSUME NEW c \in Nat, NEW d \in Nat, c <= d, d <= 18000
  PROVE  Butterfly(c) \in Nat /\ Butterfly(c) <= d + 2121
  BY DEF Butterfly, P!fqmulBound, P!MontBound, P!Q

LEMMA HalvingIs ==
  ASSUME NEW c \in Nat, c <= 14144
  PROVE  Halving(c) \in Nat /\ Halving(c) <= 2381
  BY DEF Halving, P!fqmulBound, P!MontBound, P!Q, P!Larger

LEMMA ForwardSizes ==
  /\ F0 \in Nat /\ F1 \in Nat /\ F2 \in Nat /\ F3 \in Nat /\ F4 \in Nat /\ F5 \in Nat
  /\ F6 \in Nat /\ F7 \in Nat
  /\ F1 <= 32767 /\ F2 <= 32767 /\ F3 <= 32767 /\ F4 <= 32767 /\ F5 <= 32767
  /\ F6 <= 32767 /\ F7 <= 32767
<1>1. F0 \in Nat /\ F0 <= 3328
  BY DEF F0
<1>2. F1 \in Nat /\ F1 <= 5449
  BY <1>1, ButterflyIs DEF F1
<1>3. F2 \in Nat /\ F2 <= 7570
  BY <1>2, ButterflyIs DEF F2
<1>4. F3 \in Nat /\ F3 <= 9691
  BY <1>3, ButterflyIs DEF F3
<1>5. F4 \in Nat /\ F4 <= 11812
  BY <1>4, ButterflyIs DEF F4
<1>6. F5 \in Nat /\ F5 <= 13933
  BY <1>5, ButterflyIs DEF F5
<1>7. F6 \in Nat /\ F6 <= 16054
  BY <1>6, ButterflyIs DEF F6
<1>8. F7 \in Nat /\ F7 <= 18175
  BY <1>7, ButterflyIs DEF F7
<1>. QED  BY <1>1, <1>2, <1>3, <1>4, <1>5, <1>6, <1>7, <1>8

LEMMA InverseSizes ==
  /\ I0 \in Nat /\ I0 <= 14144
  /\ I1 \in Nat /\ I1 <= 14144 /\ I2 \in Nat /\ I2 <= 14144 /\ I3 \in Nat /\ I3 <= 14144
  /\ I4 \in Nat /\ I4 <= 14144 /\ I5 \in Nat /\ I5 <= 14144 /\ I6 \in Nat /\ I6 <= 14144
  /\ I7 \in Nat /\ I7 <= 2381
<1>0. I0 \in Nat /\ I0 <= 14144
  BY NttAssumption DEF I0
<1>1. I1 \in Nat /\ I1 <= 2381
  BY <1>0, HalvingIs DEF I1
<1>2. I2 \in Nat /\ I2 <= 2381
  BY <1>1, HalvingIs DEF I2
<1>3. I3 \in Nat /\ I3 <= 2381
  BY <1>2, HalvingIs DEF I3
<1>4. I4 \in Nat /\ I4 <= 2381
  BY <1>3, HalvingIs DEF I4
<1>5. I5 \in Nat /\ I5 <= 2381
  BY <1>4, HalvingIs DEF I5
<1>6. I6 \in Nat /\ I6 <= 2381
  BY <1>5, HalvingIs DEF I6
<1>7. I7 \in Nat /\ I7 <= 2381
  BY <1>6, HalvingIs DEF I7
<1>. QED  BY <1>0, <1>1, <1>2, <1>3, <1>4, <1>5, <1>6, <1>7

LEMMA ForwardLayer ==
  ASSUME NEW l \in ForwardLens
  PROVE  /\ Before(l) \in Nat /\ Before(l \div 2) \in Nat /\ Before(l \div 2) <= 32767
         /\ Before(l \div 2) = Before(l) + P!fqmulBound(1659, Before(l))
<1>1. /\ Before(128) = F0 /\ Before(64) = F1 /\ Before(32) = F2 /\ Before(16) = F3
      /\ Before(8) = F4 /\ Before(4) = F5 /\ Before(2) = F6 /\ Before(1) = F7
  BY DEF Before
<1>2. /\ 128 \div 2 = 64 /\ 64 \div 2 = 32 /\ 32 \div 2 = 16 /\ 16 \div 2 = 8
      /\ 8 \div 2 = 4 /\ 4 \div 2 = 2 /\ 2 \div 2 = 1
  OBVIOUS
<1>3. /\ F1 = F0 + P!fqmulBound(1659, F0) /\ F2 = F1 + P!fqmulBound(1659, F1)
      /\ F3 = F2 + P!fqmulBound(1659, F2) /\ F4 = F3 + P!fqmulBound(1659, F3)
      /\ F5 = F4 + P!fqmulBound(1659, F4) /\ F6 = F5 + P!fqmulBound(1659, F5)
      /\ F7 = F6 + P!fqmulBound(1659, F6)
  BY DEF F1, F2, F3, F4, F5, F6, F7, Butterfly
<1>. QED  BY <1>1, <1>2, <1>3, ForwardSizes DEF ForwardLens

LEMMA InverseLayer ==
  ASSUME NEW l \in ForwardLens
  PROVE  /\ InvBefore(l) \in Nat /\ InvBefore(2 * l) \in Nat
         /\ InvBefore(l) <= 16383 /\ InvBefore(2 * l) <= 16383
         /\ InvBefore(2 * l) = P!Larger(1664, P!fqmulBound(1659, 2 * InvBefore(l)))
<1>1. /\ InvBefore(2) = I0 /\ InvBefore(4) = I1 /\ InvBefore(8) = I2
      /\ InvBefore(16) = I3 /\ InvBefore(32) = I4 /\ InvBefore(64) = I5
      /\ InvBefore(128) = I6 /\ InvBefore(256) = I7
  BY DEF InvBefore
<1>2. /\ 2 * 128 = 256 /\ 2 * 64 = 128 /\ 2 * 32 = 64 /\ 2 * 16 = 32 /\ 2 * 8 = 16
      /\ 2 * 4 = 8 /\ 2 * 2 = 4
  OBVIOUS
<1>. DEFINE H(c) == P!Larger(1664, P!fqmulBound(1659, 2 * c))
<1>3. /\ I1 = H(I0) /\ I2 = H(I1) /\ I3 = H(I2) /\ I4 = H(I3) /\ I5 = H(I4)
      /\ I6 = H(I5) /\ I7 = H(I6)
  BY DEF I1, I2, I3, I4, I5, I6, I7, Halving
<1>. HIDE DEF H
<1>4. InvBefore(2 * l) = H(InvBefore(l))
  BY <1>1, <1>2, <1>3 DEF ForwardLens
<1>5. /\ InvBefore(l) \in Nat /\ InvBefore(2 * l) \in Nat
      /\ InvBefore(l) <= 16383 /\ InvBefore(2 * l) <= 16383
  BY <1>1, <1>2, InverseSizes DEF ForwardLens
<1>. QED  BY <1>4, <1>5 DEF H

--------------------------------------------------------------------------------
(* The loops: k, len and start.                                            *)

(* The k-th block of ntt, counted from 1, and of invntt, backwards.        *)
Forward ==
  /\ len \in {1} \cup ForwardLens /\ start \in Nat /\ start < 256 /\ k \in Nat
  /\ 2 * len * k = 256 + start
Backward ==
  /\ len \in ForwardLens \cup {256} /\ start \in Nat /\ start < 256 /\ k \in Nat
  /\ 2 * len * k = 512 - 2 * len - start

(* A block of ntt lies in the array, its zeta in the table, and the next   *)
(* block is the next of the layer or the first of the next layer.          *)
LEMMA ForwardStep ==
  ASSUME Forward, len >= 2, NextBlock(len \div 2), k' = k + 1
  PROVE  /\ InBounds /\ k \in 0 .. 127 /\ len \in ForwardLens /\ Forward'
         /\ \/ start' = start + 2 * len /\ len' = len
            \/ start' = 0 /\ len' = len \div 2 /\ start + 2 * len = 256
<1>. USE DEF Forward, ForwardLens, NextBlock, N, InBounds
<1>0. len \in ForwardLens
  OBVIOUS
<1>1. CASE len = 128
  BY <1>1
<1>2. CASE len = 64
  BY <1>2
<1>3. CASE len = 32
  BY <1>3
<1>4. CASE len = 16
  BY <1>4
<1>5. CASE len = 8
  BY <1>5
<1>6. CASE len = 4
  BY <1>6
<1>7. CASE len = 2
  BY <1>7
<1>. QED  BY <1>0, <1>1, <1>2, <1>3, <1>4, <1>5, <1>6, <1>7

(* Likewise for invntt.                                                    *)
LEMMA BackwardStep ==
  ASSUME Backward, len <= 128, NextBlock(2 * len), k' = k - 1
  PROVE  /\ InBounds /\ k \in 0 .. 127 /\ len \in ForwardLens /\ Backward'
         /\ \/ start' = start + 2 * len /\ len' = len
            \/ start' = 0 /\ len' = 2 * len /\ start + 2 * len = 256
<1>. USE DEF Backward, ForwardLens, NextBlock, N, InBounds
<1>0. len \in ForwardLens
  OBVIOUS
<1>1. CASE len = 128
  BY <1>1
<1>2. CASE len = 64
  BY <1>2
<1>3. CASE len = 32
  BY <1>3
<1>4. CASE len = 16
  BY <1>4
<1>5. CASE len = 8
  BY <1>5
<1>6. CASE len = 4
  BY <1>6
<1>7. CASE len = 2
  BY <1>7
<1>. QED  BY <1>0, <1>1, <1>2, <1>3, <1>4, <1>5, <1>6, <1>7

--------------------------------------------------------------------------------
(* The inductive invariant.                                                *)

Shape ==
  /\ wrapped = FALSE
  /\ n \in Nat /\ n <= K
  /\ pc \in {"ntt_x", "ntt_y", "basemul", "inv", "done"}
(* The array in ntt, between two blocks.                                   *)
Transforms ==
  pc \in {"ntt_x", "ntt_y"} =>
    Forward /\ HalfDone(r, Before(len), Before(len \div 2), start)
(* What waits to be transformed or multiplied.                             *)
Operands ==
  /\ pc = "ntt_x" => Arr(y, 3328)
  /\ pc \in {"ntt_y", "basemul"} => Arr(a, 1664)
  /\ pc = "basemul" => Arr(b, 4095)
(* n products have been added up.                                          *)
Sums ==
  /\ pc \in {"ntt_x", "ntt_y"} => n = 0
  /\ (pc = "basemul" /\ n > 0) => Arr(r, 3536 * n)
(* The array in invntt, and what invntt returns.                           *)
TransformsBack ==
  /\ pc = "inv" => Backward /\ HalfDone(r, InvBefore(len), InvBefore(2 * len), start)
  /\ pc = "done" => Arr(r, P!fqmulBound(I7, 1441))

IInv == Shape /\ Transforms /\ Operands /\ Sums /\ TransformsBack

(* A layer begins where the one before it ended.                           *)
LEMMA LayerBegins ==
  ASSUME NEW p, NEW lo, NEW hi, Arr(p, lo)
  PROVE  HalfDone(p, lo, hi, 0)
  BY DEF Arr, HalfDone, Index

LEMMA LayerEnds ==
  ASSUME NEW p, NEW lo, NEW hi, HalfDone(p, lo, hi, 256)
  PROVE  Arr(p, hi)
  BY DEF Arr, HalfDone, Index, N

(* Noise and what poly_decompress returns.                                 *)
LEMMA SampleIs ==
  ASSUME NEW s \in Nat
  PROVE  Arr(Noise(s), 3328) /\ Arr(Large(s), 3328)
<1>1. \A e \in Int : (e % 7) - 3 \in Int /\ -3 <= (e % 7) - 3 /\ (e % 7) - 3 <= 3
  OBVIOUS
<1>2. \A e \in Int : e % Q \in Int /\ 0 <= e % Q /\ e % Q <= 3328
  BY DEF Q
<1>3. ASSUME NEW j \in Index
      PROVE  Bounded(Noise(s)[j], 3328)
  <2>. DEFINE e == (j + s) * (j + 7 * s + 3)
  <2>1. e \in Int
    BY DEF Index
  <2>2. Noise(s)[j] = (e % 7) - 3
    BY DEF Noise
  <2>. HIDE DEF e
  <2>. QED  BY <1>1, <2>1, <2>2 DEF Bounded
<1>4. ASSUME NEW j \in Index
      PROVE  Bounded(Large(s)[j], 3328)
  <2>. DEFINE e == 1200 * s + 833 * j * j
  <2>1. e \in Int
    BY DEF Index
  <2>2. Large(s)[j] = e % Q
    BY DEF Large
  <2>. HIDE DEF e
  <2>. QED  BY <1>2, <2>1, <2>2 DEF Bounded
<1>. QED  BY <1>3, <1>4 DEF Arr

(* Not a few samples but whatever the code can be given: two polynomials   *)
(* with coefficients below Q, as noise and poly_decompress return them, or *)
(* any operands of basemul, one reduced and one of 12-bit values.          *)
AnyInput ==
  /\ k = 1 /\ len = 128 /\ start = 0 /\ n = 0 /\ wrapped = FALSE
  /\ \/ Arr(x, 3328) /\ Arr(y, 3328) /\ r = x /\ pc = "ntt_x"
     \/ Arr(a, 1664) /\ Arr(b, 4095) /\ x = Extreme /\ pc = "basemul"

(* The initial states TLC takes are among these.                           *)
LEMMA InitAnyInput == Init => AnyInput
<1>. SUFFICES ASSUME Init PROVE AnyInput
  OBVIOUS
<1>1. CASE \E s \in Samples :
             /\ x = IF s % 2 = 0 THEN Noise(s) ELSE Large(s)
             /\ y = IF s % 2 = 0 THEN Large(s + 1) ELSE Noise(s)
             /\ r = x /\ a = Zero /\ b = Zero /\ pc = "ntt_x"
  <2>1. Arr(x, 3328) /\ Arr(y, 3328) /\ r = x /\ pc = "ntt_x"
    BY <1>1, SampleIs, NttAssumption
  <2>. QED  BY <2>1 DEF Init, AnyInput
<1>2. CASE \E s \in {1, 2, 256} :
             /\ x = Extreme /\ y = Extreme
             /\ r = Zero /\ pc = "basemul"
             /\ a = Signs(s, 1664) /\ b = [j \in Index |-> 4095]
  <2>1. Arr(a, 1664)
    BY <1>2 DEF Signs, Arr, Bounded
  <2>2. Arr(b, 4095) /\ x = Extreme /\ pc = "basemul"
    BY <1>2 DEF Arr, Bounded
  <2>. QED  BY <2>1, <2>2 DEF Init, AnyInput
<1>. QED  BY <1>1, <1>2 DEF Init

(* IInv holds of any input.                                                *)
LEMMA AnyInputIInv == AnyInput => IInv
<1>. SUFFICES ASSUME AnyInput PROVE IInv
  OBVIOUS
<1>1. Shape
  BY NttAssumption DEF AnyInput, Shape
<1>2. CASE Arr(x, 3328) /\ Arr(y, 3328) /\ r = x /\ pc = "ntt_x"
  <2>1. Forward /\ n = 0
    BY DEF AnyInput, Forward, ForwardLens
  <2>2. HalfDone(r, Before(len), Before(len \div 2), start)
    <3>1. start = 0 /\ Before(len) = 3328
      BY DEF AnyInput, Before, F0
    <3>. QED  BY <1>2, <3>1, LayerBegins
  <2>. QED  BY <1>1, <1>2, <2>1, <2>2 DEF IInv, Transforms, Operands, Sums, TransformsBack
<1>3. CASE Arr(a, 1664) /\ Arr(b, 4095) /\ x = Extreme /\ pc = "basemul"
  <2>1. n = 0
    BY DEF AnyInput
  <2>. QED  BY <1>1, <1>3, <2>1 DEF IInv, Transforms, Operands, Sums, TransformsBack
<1>. QED  BY <1>2, <1>3 DEF AnyInput

(* What a block of ntt stores, and where the loops go from there.          *)
LEMMA NttBlockStores ==
  ASSUME IInv, NttBlock
  PROVE  /\ InBounds /\ len >= 2 /\ len \in ForwardLens /\ Forward /\ Forward' /\ wrapped' = FALSE
         /\ \/ start' = start + 2 * len /\ len' = len
            \/ start' = 0 /\ len' = len \div 2 /\ start + 2 * len = 256
         /\ IsStored(Butterflies(Zeta(k)))
         /\ HalfDone(r', Before(len), Before(len \div 2), start + 2 * len)
         /\ HalfDone(r, Before(len), Before(len \div 2), start)
         /\ Before(len) \in Nat /\ Before(len) <= Before(len \div 2) /\ Before(len \div 2) <= 32767
         /\ Before(len \div 2) \in Nat
<1>. DEFINE f == Butterflies(Zeta(k))
<1>0. /\ Store(f) /\ Remember(f) /\ wrapped = FALSE /\ len >= 2 /\ k' = k + 1
      /\ NextBlock(len \div 2) /\ Forward
      /\ HalfDone(r, Before(len), Before(len \div 2), start)
  BY DEF NttBlock, IInv, Shape, Transforms
<1>1. /\ InBounds /\ k \in 0 .. 127 /\ len \in ForwardLens /\ Forward'
      /\ \/ start' = start + 2 * len /\ len' = len
         \/ start' = 0 /\ len' = len \div 2 /\ start + 2 * len = 256
  BY <1>0, ForwardStep
<1>. DEFINE lo == Before(len)
            hi == Before(len \div 2)
<1>2. lo \in Nat /\ hi \in Nat /\ hi <= 32767 /\ hi = lo + P!fqmulBound(1659, lo)
  BY <1>1, ForwardLayer
<1>3. HalfDone(r, lo, hi, start) /\ Bounded(Zeta(k), 1659)
  BY <1>0, <1>1, ZetaIs
<1>4. lo <= hi
  BY <1>2 DEF P!fqmulBound, P!MontBound, P!Q
<1>. HIDE DEF lo, hi
<1>5. HalfDone(f, lo, hi, start + 2 * len) /\ Arr(f, 32767)
  BY <1>1, <1>2, <1>3, ForwardBlock
<1>. HIDE DEF f
<1>6. IsStored(f) /\ wrapped' = FALSE
  <2>1. Fits(f) /\ Store(f)
    BY <1>0, <1>5 DEF Fits
  <2>. QED  BY ONLY <2>1, Stored, Unwrapped
<1>7. HalfDone(r', lo, hi, start + 2 * len)
  BY <1>5, <1>6 DEF HalfDone, IsStored
<1>. QED  BY <1>0, <1>1, <1>2, <1>3, <1>4, <1>6, <1>7 DEF f, lo, hi

LEMMA NttBlockStep == IInv /\ NttBlock => IInv'
<1>. SUFFICES ASSUME IInv, NttBlock PROVE IInv'
  OBVIOUS
<1>1. HalfDone(r', Before(len'), Before(len' \div 2), start')
  <2>1. CASE start' = start + 2 * len /\ len' = len
    BY <2>1, NttBlockStores
  <2>2. CASE start' = 0 /\ len' = len \div 2 /\ start + 2 * len = 256
    BY <2>2, NttBlockStores, LayerBegins, LayerEnds
  <2>. QED  BY <2>1, <2>2, NttBlockStores
<1>2. Shape'
  <2>1. wrapped' = FALSE
    BY NttBlockStores
  <2>2. Shape /\ UNCHANGED <<n, pc>>
    BY DEF IInv, NttBlock
  <2>. QED  BY <2>1, <2>2 DEF Shape
<1>3. Transforms'
  BY <1>1, NttBlockStores DEF Transforms
<1>4. Operands' /\ Sums' /\ TransformsBack'
  BY DEF IInv, Operands, Sums, TransformsBack, NttBlock
<1>. QED  BY <1>2, <1>3, <1>4 DEF IInv

(* What poly_reduce returns.                                               *)
LEMMA ReducedIs ==
  ASSUME NEW p, Arr(p, 32767)
  PROVE  Arr(poly_reduce(p), 1664)
  BY BarrettIs DEF Arr, poly_reduce

(* What ntt returns.                                                       *)
LEMMA Transformed ==
  ASSUME IInv, pc \in {"ntt_x", "ntt_y"}, len = 1
  PROVE  Arr(r, F7) /\ Arr(r, 32767)
<1>1. HalfDone(r, Before(1), Before(1 \div 2), start)
  BY DEF IInv, Transforms
<1>2. Before(1) = F7 /\ Before(1 \div 2) = F7 /\ F7 \in Nat /\ F7 <= 32767
  BY ForwardSizes DEF Before
<1>3. Arr(r, F7)
  BY <1>1, <1>2 DEF HalfDone, Arr, Index
<1>4. Arr(r, 32767)
  BY <1>2, <1>3, Wider DEF Arr
<1>. QED  BY <1>3, <1>4

LEMMA NttReturnXStep == IInv /\ NttReturnX => IInv'
<1>. SUFFICES ASSUME IInv, NttReturnX PROVE IInv'
  OBVIOUS
<1>1. /\ Arr(r, 32767) /\ Arr(y, 3328) /\ a' = poly_reduce(r) /\ r' = y
      /\ k' = 1 /\ len' = 128 /\ start' = 0 /\ pc' = "ntt_y"
      /\ n = 0 /\ UNCHANGED <<x, y, b, n, wrapped>>
  BY Transformed DEF NttReturnX, NttCall, IInv, Operands, Sums
<1>2. Arr(a', 1664)
  BY <1>1, ReducedIs
<1>3. HalfDone(r', Before(len'), Before(len' \div 2), start')
  BY <1>1, LayerBegins DEF Before, F0
<1>4. Forward'
  BY <1>1 DEF Forward, ForwardLens
<1>5. Shape'
  BY <1>1 DEF IInv, Shape
<1>6. Transforms'
  BY <1>3, <1>4 DEF Transforms
<1>7. Operands' /\ Sums' /\ TransformsBack'
  BY <1>1, <1>2 DEF Operands, Sums, TransformsBack
<1>. QED  BY <1>5, <1>6, <1>7 DEF IInv

LEMMA NttReturnYStep == IInv /\ NttReturnY => IInv'
<1>. SUFFICES ASSUME IInv, NttReturnY PROVE IInv'
  OBVIOUS
<1>1. /\ Arr(r, 32767) /\ Arr(a, 1664) /\ b' = Canonical(poly_reduce(r))
      /\ pc' = "basemul" /\ UNCHANGED <<x, y, r, a, k, len, start, n, wrapped>>
  BY Transformed DEF NttReturnY, IInv, Operands
<1>. DEFINE p == poly_reduce(r)
<1>2. Arr(p, 1664)
  BY <1>1, ReducedIs
<1>. HIDE DEF p
<1>3. Arr(Canonical(p), 4095)
  BY <1>2 DEF Arr, Canonical, Bounded, Q
<1>4. Arr(b', 4095)
  BY <1>1, <1>3 DEF p
<1>5. n = 0
  BY DEF IInv, Sums, NttReturnY
<1>. QED
  BY <1>1, <1>4, <1>5 DEF IInv, Shape, Transforms, Operands, Sums, TransformsBack

(* What the products store.                                                *)
LEMMA BasemulStores ==
  ASSUME IInv, Basemul
  PROVE  IsStored(basemul(b, a)) /\ wrapped' = FALSE /\ Arr(basemul(b, a), 3536)
<1>. DEFINE f == basemul(b, a)
<1>1. /\ Arr(b, 4095) /\ Arr(a, 1664) /\ Store(f) /\ Remember(f) /\ wrapped = FALSE
  BY DEF Basemul, IInv, Shape, Operands
<1>2. Arr(f, 3536)
  BY <1>1, BasemulIs
<1>. HIDE DEF f
<1>3. IsStored(f) /\ wrapped' = FALSE
  <2>1. Arr(f, 32767)
    BY <1>2, Wider DEF Arr
  <2>2. Fits(f) /\ Store(f)
    BY <1>1, <2>1 DEF Fits
  <2>. QED  BY ONLY <2>2, Stored, Unwrapped
<1>. QED  BY <1>2, <1>3 DEF f

LEMMA BasemulStep == IInv /\ Basemul => IInv'
<1>. SUFFICES ASSUME IInv, Basemul PROVE IInv'
  OBVIOUS
<1>1. n' = 1 /\ pc = "basemul" /\ UNCHANGED <<x, y, a, b, k, len, start, pc>>
  BY DEF Basemul
<1>2. Arr(r', 3536) /\ wrapped' = FALSE
  BY BasemulStores DEF Arr, IsStored
<1>. QED
  BY <1>1, <1>2, NttAssumption
  DEF IInv, Shape, Transforms, Operands, Sums, TransformsBack

Accumulated == [j \in Index |-> r[j] + basemul(b, a)[j]]

LEMMA BasemulAccStores ==
  ASSUME IInv, BasemulAcc
  PROVE  IsStored(Accumulated) /\ wrapped' = FALSE /\ Arr(Accumulated, 3536 * (n + 1))
<1>. DEFINE f == Accumulated
<1>1. /\ Arr(b, 4095) /\ Arr(a, 1664) /\ Store(f) /\ Remember(f) /\ wrapped = FALSE
      /\ n \in Nat /\ 1 <= n /\ n < K /\ Arr(r, 3536 * n)
  BY DEF BasemulAcc, Accumulated, IInv, Shape, Operands, Sums
<1>2. Arr(basemul(b, a), 3536)
  BY <1>1, BasemulIs
<1>3. Arr(f, 3536 * (n + 1))
  <2>1. 3536 * n \in Nat /\ 3536 * (n + 1) = 3536 * n + 3536
    BY <1>1
  <2>2. ASSUME NEW j \in Index
        PROVE  Bounded(r[j] + basemul(b, a)[j], 3536 * n + 3536)
    <3>1. Bounded(r[j], 3536 * n) /\ Bounded(basemul(b, a)[j], 3536)
      BY <1>1, <1>2 DEF Arr
    <3>. QED  BY <2>1, <3>1, SumBounded
  <2>. QED  BY <2>1, <2>2 DEF Arr, Accumulated
<1>. HIDE DEF f
<1>4. 3536 * (n + 1) \in Nat /\ 3536 * (n + 1) <= 14144
  BY <1>1, NttAssumption
<1>5. IsStored(f) /\ wrapped' = FALSE
  <2>1. Arr(f, 32767)
    BY <1>3, <1>4, Wider DEF Arr
  <2>2. Fits(f) /\ Store(f)
    BY <1>1, <2>1 DEF Fits
  <2>. QED  BY ONLY <2>2, Stored, Unwrapped
<1>. QED  BY <1>3, <1>5 DEF f

LEMMA BasemulAccStep == IInv /\ BasemulAcc => IInv'
<1>. SUFFICES ASSUME IInv, BasemulAcc PROVE IInv'
  OBVIOUS
<1>1. /\ n \in Nat /\ n < K /\ n' = n + 1
      /\ pc = "basemul" /\ UNCHANGED <<x, y, a, b, k, len, start, pc>>
  BY DEF BasemulAcc, IInv, Shape
<1>2. Arr(r', 3536 * n') /\ wrapped' = FALSE
  BY <1>1, BasemulAccStores DEF Arr, IsStored
<1>. QED
  BY <1>1, <1>2, NttAssumption
  DEF IInv, Shape, Transforms, Operands, Sums, TransformsBack

LEMMA InvCallStep == IInv /\ InvCall => IInv'
<1>. SUFFICES ASSUME IInv, InvCall PROVE IInv'
  OBVIOUS
<1>1. /\ pc = "basemul" /\ n = K /\ Arr(r, 3536 * n) /\ pc' = "inv"
      /\ k' = 127 /\ len' = 2 /\ start' = 0 /\ UNCHANGED <<x, y, r, a, b, n, wrapped>>
  BY NttAssumption DEF InvCall, IInv, Sums
<1>2. HalfDone(r', InvBefore(len'), InvBefore(2 * len'), start')
  BY <1>1, LayerBegins DEF InvBefore, I0
<1>3. Backward'
  BY <1>1 DEF Backward, ForwardLens
<1>. QED
  BY <1>1, <1>2, <1>3 DEF IInv, Shape, Transforms, Operands, Sums, TransformsBack

LEMMA InvBlockStep == IInv /\ InvBlock => IInv'
<1>. SUFFICES ASSUME IInv, InvBlock PROVE IInv'
  OBVIOUS
<1>. DEFINE f == Halves(Zeta(k))
            lo == InvBefore(len)
            hi == InvBefore(2 * len)
<1>1. /\ r' = f /\ Remember(Differences) /\ wrapped = FALSE /\ len <= 128
      /\ k' = k - 1 /\ NextBlock(2 * len) /\ Backward /\ HalfDone(r, lo, hi, start)
      /\ pc = "inv" /\ UNCHANGED <<x, y, a, b, n, pc>>
  BY DEF InvBlock, Halves, IInv, Shape, TransformsBack
<1>2. /\ InBounds /\ k \in 0 .. 127 /\ len \in ForwardLens /\ Backward'
      /\ \/ start' = start + 2 * len /\ len' = len
         \/ start' = 0 /\ len' = 2 * len /\ start + 2 * len = 256
  BY <1>1, BackwardStep
<1>3. /\ lo \in Nat /\ hi \in Nat /\ lo <= 16383 /\ hi <= 16383
      /\ hi = P!Larger(1664, P!fqmulBound(1659, 2 * lo))
  BY <1>2, InverseLayer
<1>4. Bounded(Zeta(k), 1659)
  BY <1>2, ZetaIs
<1>. HIDE DEF lo, hi
<1>5. HalfDone(f, lo, hi, start + 2 * len) /\ Arr(Differences, 32767)
  BY <1>1, <1>2, <1>3, <1>4, InverseBlock
<1>. HIDE DEF f
<1>6. wrapped' = FALSE
  <2>1. Fits(Differences)
    BY <1>1, <1>5 DEF Fits
  <2>. QED  BY ONLY <2>1, Unwrapped
<1>7. HalfDone(r', InvBefore(len'), InvBefore(2 * len'), start')
  <2>1. CASE start' = start + 2 * len /\ len' = len
    BY <1>1, <1>5, <2>1 DEF lo, hi
  <2>2. CASE start' = 0 /\ len' = 2 * len /\ start + 2 * len = 256
    BY <1>1, <1>5, <2>2, LayerBegins, LayerEnds DEF hi
  <2>. QED  BY <1>2, <2>1, <2>2
<1>8. Shape'
  BY <1>1, <1>6 DEF IInv, Shape
<1>. QED
  BY <1>1, <1>2, <1>7, <1>8 DEF IInv, Transforms, Operands, Sums, TransformsBack

LEMMA InvScaleStep == IInv /\ InvScale => IInv'
<1>. SUFFICES ASSUME IInv, InvScale PROVE IInv'
  OBVIOUS
<1>1. /\ Backward /\ HalfDone(r, InvBefore(256), InvBefore(2 * 256), start)
      /\ r' = [j \in Index |-> fqmul(r[j], 1441)] /\ pc' = "done"
      /\ UNCHANGED <<x, y, a, b, k, len, start, n, wrapped>>
  BY DEF InvScale, IInv, TransformsBack
<1>2. \A j \in Index : Bounded(r[j], I7)
  BY <1>1 DEF HalfDone, InvBefore
<1>3. I7 \in Nat /\ I7 * 1441 <= 2000000000 /\ 1441 \in Nat /\ Bounded(1441, 1441)
  BY InverseSizes DEF Bounded
<1>4. \A j \in Index : Bounded(fqmul(r[j], 1441), P!fqmulBound(I7, 1441))
  BY <1>2, <1>3, FqmulIs
<1>5. Arr(r', P!fqmulBound(I7, 1441))
  BY <1>1, <1>4 DEF Arr
<1>. QED
  BY <1>1, <1>5 DEF IInv, Shape, Transforms, Operands, Sums, TransformsBack

LEMMA NextIInv == IInv /\ [Next]_vars => IInv'
<1>1. CASE UNCHANGED vars
  <2>. SUFFICES ASSUME IInv PROVE IInv'
    OBVIOUS
  <2>. USE <1>1 DEF vars
  <2>1. Shape'
    BY DEF IInv, Shape
  <2>2. Transforms'
    BY DEF IInv, Transforms, Forward
  <2>3. Operands' /\ Sums'
    BY DEF IInv, Operands, Sums
  <2>4. TransformsBack'
    BY DEF IInv, TransformsBack, Backward
  <2>. QED  BY <2>1, <2>2, <2>3, <2>4 DEF IInv
<1>. QED
  BY <1>1, NttBlockStep, NttReturnXStep, NttReturnYStep, BasemulStep, BasemulAccStep,
     InvCallStep, InvBlockStep, InvScaleStep DEF Next, Done

--------------------------------------------------------------------------------
(* The bounds of Poly.                                                     *)

(* Seven layers from Q - 1.                                                *)
LEMMA NttBoundIs == P!NttBound(Q - 1) = F7
<1>. DEFINE Layer(f) ==
              [l \in 0 .. 7 |-> IF l = 0 THEN Q - 1
                                ELSE f[l - 1] + P!fqmulBound(P!MaxZeta, f[l - 1])]
            f == CHOOSE g : g = Layer(g)
            w == [l \in 0 .. 7 |->
                    IF l = 0 THEN F0 ELSE IF l = 1 THEN F1 ELSE IF l = 2 THEN F2 ELSE
                    IF l = 3 THEN F3 ELSE IF l = 4 THEN F4 ELSE IF l = 5 THEN F5 ELSE
                    IF l = 6 THEN F6 ELSE F7]
<1>1. w = Layer(w)
  <2>1. ASSUME NEW l \in 0 .. 7
        PROVE  w[l] = Layer(w)[l]
    <3>1. /\ w[0] = F0 /\ w[1] = F1 /\ w[2] = F2 /\ w[3] = F3 /\ w[4] = F4 /\ w[5] = F5
          /\ w[6] = F6 /\ w[7] = F7
      OBVIOUS
    <3>2. /\ w[0] = Q - 1
          /\ w[1] = Butterfly(w[0]) /\ w[2] = Butterfly(w[1]) /\ w[3] = Butterfly(w[2])
          /\ w[4] = Butterfly(w[3]) /\ w[5] = Butterfly(w[4]) /\ w[6] = Butterfly(w[5])
          /\ w[7] = Butterfly(w[6])
      BY <3>1 DEF F0, F1, F2, F3, F4, F5, F6, F7, Q
    <3>3. Layer(w)[l] = IF l = 0 THEN Q - 1 ELSE Butterfly(w[l - 1])
      BY DEF Butterfly, P!MaxZeta
    <3>4. l \in {0, 1, 2, 3, 4, 5, 6, 7}
      OBVIOUS
    <3>. HIDE DEF w
    <3>. QED  BY <3>2, <3>3, <3>4
  <2>. QED  BY <2>1
<1>. HIDE DEF w
<1>2. f = Layer(f)
  BY <1>1
<1>. HIDE DEF f
<1>3. \A l \in 0 .. 7 : f[l] = IF l = 0 THEN F0 ELSE Butterfly(f[l - 1])
  BY <1>2 DEF Butterfly, P!MaxZeta, F0, Q
<1>4. /\ f[0] = F0 /\ f[1] = Butterfly(f[0]) /\ f[2] = Butterfly(f[1])
      /\ f[3] = Butterfly(f[2]) /\ f[4] = Butterfly(f[3]) /\ f[5] = Butterfly(f[4])
      /\ f[6] = Butterfly(f[5]) /\ f[7] = Butterfly(f[6])
  BY <1>3
<1>5. f[7] = F7
  BY <1>4 DEF F1, F2, F3, F4, F5, F6, F7
<1>. QED  BY <1>5 DEF P!NttBound, f

(* Seven layers of invntt from c.                                          *)
LEMMA InvBoundIs ==
  P!poly_invntt_tomont([P!Unset EXCEPT !.bound = I0, !.dom = "ntt"]).bound
    = P!fqmulBound(I7, 1441)
<1>. DEFINE p == [P!Unset EXCEPT !.bound = I0, !.dom = "ntt"]
            Layer(f) ==
              [l \in 0 .. 7 |->
                 IF l = 0 THEN p.bound
                 ELSE P!Larger((P!Q - 1) \div 2, P!fqmulBound(P!MaxZeta, 2 * f[l - 1]))]
            f == CHOOSE g : g = Layer(g)
            w == [l \in 0 .. 7 |->
                    IF l = 0 THEN I0 ELSE IF l = 1 THEN I1 ELSE IF l = 2 THEN I2 ELSE
                    IF l = 3 THEN I3 ELSE IF l = 4 THEN I4 ELSE IF l = 5 THEN I5 ELSE
                    IF l = 6 THEN I6 ELSE I7]
<1>0. p.bound = I0 /\ p.dom = "ntt"
  BY DEF P!Unset
<1>1. \A g : Layer(g) = [l \in 0 .. 7 |-> IF l = 0 THEN I0 ELSE Halving(g[l - 1])]
  BY <1>0 DEF Halving, P!MaxZeta, P!Q
<1>2. w = Layer(w)
  <2>1. ASSUME NEW l \in 0 .. 7
        PROVE  w[l] = Layer(w)[l]
    <3>1. /\ w[0] = I0 /\ w[1] = I1 /\ w[2] = I2 /\ w[3] = I3 /\ w[4] = I4 /\ w[5] = I5
          /\ w[6] = I6 /\ w[7] = I7
      OBVIOUS
    <3>2. /\ w[0] = I0
          /\ w[1] = Halving(w[0]) /\ w[2] = Halving(w[1]) /\ w[3] = Halving(w[2])
          /\ w[4] = Halving(w[3]) /\ w[5] = Halving(w[4]) /\ w[6] = Halving(w[5])
          /\ w[7] = Halving(w[6])
      BY <3>1 DEF I1, I2, I3, I4, I5, I6, I7
    <3>3. Layer(w)[l] = IF l = 0 THEN I0 ELSE Halving(w[l - 1])
      BY <1>1
    <3>4. l \in {0, 1, 2, 3, 4, 5, 6, 7}
      OBVIOUS
    <3>. HIDE DEF w, Layer
    <3>. QED  BY <3>2, <3>3, <3>4
  <2>. QED  BY <2>1
<1>. HIDE DEF w
<1>3. f = Layer(f)
  BY <1>2
<1>. HIDE DEF f
<1>4. f = [l \in 0 .. 7 |-> IF l = 0 THEN I0 ELSE Halving(f[l - 1])]
  BY <1>1, <1>3
<1>. HIDE DEF Layer
<1>5. \A l \in 0 .. 7 : f[l] = IF l = 0 THEN I0 ELSE Halving(f[l - 1])
  BY <1>4
<1>6. /\ f[0] = I0 /\ f[1] = Halving(f[0]) /\ f[2] = Halving(f[1])
      /\ f[3] = Halving(f[2]) /\ f[4] = Halving(f[3]) /\ f[5] = Halving(f[4])
      /\ f[6] = Halving(f[5]) /\ f[7] = Halving(f[6])
  BY <1>5
<1>7. f[7] = I7
  BY <1>6 DEF I1, I2, I3, I4, I5, I6, I7
<1>. DEFINE out == [p EXCEPT !.dom = "std", !.mont = p.mont + 1,
                             !.bound = P!fqmulBound(f[7], 1441),
                             !.peak = P!Larger(p.peak, 2 * P!Larger(f[0], f[1]))]
<1>8. P!poly_invntt_tomont(p) = out
  BY <1>0 DEF P!poly_invntt_tomont, P!Checked, f, Layer
<1>9. out.bound = P!fqmulBound(f[7], 1441)
  BY DEF P!Unset
<1>. HIDE DEF out, p
<1>10. P!poly_invntt_tomont(p).bound = P!fqmulBound(I7, 1441)
  BY <1>7, <1>8, <1>9
<1>. QED  BY <1>10 DEF p

--------------------------------------------------------------------------------
LEMMA WithinIs ==
  ASSUME NEW p, NEW bound, Arr(p, bound)
  PROVE  Within(p, bound)
  BY DEF Arr, Bounded, Within

(* The bounds Poly computes are those of the proof.                        *)
LEMMA PolyBounds ==
  LET op(bound) == [P!Unset EXCEPT !.bound = bound, !.dom = "ntt"]
      sum == K * P!BaseMulBound(op(4095), op(1664))
  IN  /\ sum = I0
      /\ P!poly_reduce(op(0)).bound = 1664
      /\ P!poly_invntt_tomont(op(sum)).bound = P!fqmulBound(I7, 1441)
<1>. DEFINE op(bound) == [P!Unset EXCEPT !.bound = bound, !.dom = "ntt"]
            sum == K * P!BaseMulBound(op(4095), op(1664))
<1>1. \A c : op(c).bound = c
  BY DEF P!Unset
<1>2. P!poly_reduce(op(0)).bound = 1664
  BY DEF P!poly_reduce, P!Unset, P!Q
<1>3. P!BaseMulBound(op(4095), op(1664)) = 3536
  <2>1. op(4095).bound = 4095 /\ op(1664).bound = 1664
    BY <1>1
  <2>. HIDE DEF op
  <2>. QED
    BY <2>1 DEF P!BaseMulBound, P!fqmulBound, P!MontBound, P!Q, P!MaxZeta, P!Larger
<1>4. sum = I0
  <2>. HIDE DEF op
  <2>. QED  BY <1>3, NttAssumption DEF I0
<1>5. P!poly_invntt_tomont(op(I0)).bound = P!fqmulBound(I7, 1441)
  BY InvBoundIs
<1>. HIDE DEF sum
<1>6. P!poly_invntt_tomont(op(sum)).bound = P!fqmulBound(I7, 1441)
  BY <1>4, <1>5
<1>. QED  BY <1>2, <1>4, <1>6 DEF sum

LEMMA IInvImplies == IInv => StaysInRange
<1>. SUFFICES ASSUME IInv PROVE StaysInRange
  OBVIOUS
<1>. DEFINE op(bound) == [P!Unset EXCEPT !.bound = bound, !.dom = "ntt"]
            sum == K * P!BaseMulBound(op(4095), op(1664))
<1>1. /\ sum = I0 /\ P!poly_reduce(op(0)).bound = 1664
      /\ P!poly_invntt_tomont(op(sum)).bound = P!fqmulBound(I7, 1441)
  BY PolyBounds
<1>. HIDE DEF op, sum
<1>2. ~ wrapped
  BY DEF IInv, Shape
<1>3. (pc \in {"ntt_x", "ntt_y"} /\ len = 1) => Within(r, P!NttBound(Q - 1))
  BY NttBoundIs, Transformed, WithinIs
<1>4. pc = "basemul" => Within(a, 1664) /\ Within(b, 4095)
  BY WithinIs DEF IInv, Operands
<1>5. (pc = "basemul" /\ n = K) => Within(r, I0)
  <2>1. ASSUME pc = "basemul", n = K
        PROVE  Arr(r, I0)
    BY <2>1, NttAssumption DEF IInv, Sums, I0
  <2>. QED  BY <2>1, WithinIs
<1>6. pc = "done" => Within(r, P!fqmulBound(I7, 1441))
  BY WithinIs DEF IInv, TransformsBack
<1>. QED  BY <1>1, <1>2, <1>3, <1>4, <1>5, <1>6 DEF StaysInRange, op, sum

(* ntt never reduces between its layers, nor do the K calls of             *)
(* poly_basemul_acc, nor the first additions of invntt: still no int16_t   *)
(* ever has to hold a value outside its range, whatever the polynomials,   *)
(* and the numbers stay within the bounds Poly computes, on which          *)
(* NothingOverflows of IndCpaProofs rests.                                 *)
THEOREM NothingWrapsEver == AnyInput /\ [][Next]_vars => []StaysInRange
<1>1. AnyInput => IInv
  BY AnyInputIInv
<1>2. IInv /\ [Next]_vars => IInv'
  BY NextIInv
<1>3. IInv => StaysInRange
  BY IInvImplies
<1>. QED  BY <1>1, <1>2, <1>3, PTL

(* In particular not on the samples TLC runs through.                      *)
THEOREM NothingWraps == Spec => []StaysInRange
<1>1. Init => AnyInput
  BY InitAnyInput
<1>. QED  BY <1>1, NothingWrapsEver, PTL DEF Spec

--------------------------------------------------------------------------------
(* Equal modulo Q.                                                         *)
Same(u, v) == (u - v) % 3329 = 0

LEMMA SameIs == ASSUME NEW u, NEW v PROVE Same(u, v) <=> (u - v) % Q = 0
  BY DEF Same, Q

(* Two numbers equal modulo Q, and a third; sums, differences, products.   *)
LEMMA SameItself == ASSUME NEW u \in Int PROVE Same(u, u)
  BY DEF Same

LEMMA SameBack ==
  ASSUME NEW u \in Int, NEW v \in Int, Same(u, v) PROVE Same(v, u)
  BY DEF Same

LEMMA SameOn ==
  ASSUME NEW u \in Int, NEW v \in Int, NEW w \in Int, Same(u, v), Same(v, w)
  PROVE  Same(u, w)
  BY DEF Same

LEMMA SameSum ==
  ASSUME NEW u \in Int, NEW v \in Int, NEW w \in Int, NEW t \in Int, Same(u, v), Same(w, t)
  PROVE  Same(u + w, v + t) /\ Same(u - w, v - t)
  BY DEF Same

LEMMA SameOnto ==
  ASSUME NEW u \in Int, NEW v \in Int, NEW w \in Int, NEW t \in Int, Same(u, v + w), Same(v, t)
  PROVE  Same(u, t + w)
<1>1. v + w \in Int /\ t + w \in Int /\ Same(w, w)
  BY SameItself
<1>2. Same(v + w, t + w)
  BY <1>1, SameSum
<1>. QED  BY <1>1, <1>2, SameOn

LEMMA Multiple ==
  ASSUME NEW u \in Int, u % 3329 = 0
  PROVE  \E m \in Int : u = 3329 * m
<1>. DEFINE Is(m) == u = 3329 * m
<1>1. Is(u \div 3329) /\ u \div 3329 \in Int
  OBVIOUS
<1>. HIDE DEF Is
<1>2. \E m \in Int : Is(m)
  BY <1>1
<1>. QED  BY <1>2 DEF Is

LEMMA SameProduct ==
  ASSUME NEW u \in Int, NEW v \in Int, NEW w \in Int, NEW t \in Int, Same(u, v), Same(w, t)
  PROVE  Same(u * w, v * t)
<1>1. PICK m \in Int : u - v = 3329 * m
  BY u - v \in Int, Multiple DEF Same
<1>0. PICK o \in Int : w - t = 3329 * o
  BY w - t \in Int, Multiple DEF Same
<1>2. u = v + 3329 * m /\ w = t + 3329 * o
  BY <1>0, <1>1
<1>3. (v + 3329 * m) * (t + 3329 * o) = v * t + 3329 * (m * t + v * o + 3329 * (m * o))
  OBVIOUS
<1>4. PICK d \in Int, e \in Int, f \in Int :
        d = m * t + v * o + 3329 * (m * o) /\ e = u * w /\ f = v * t
  OBVIOUS
<1>5. e - f = 3329 * d
  BY <1>2, <1>3, <1>4
<1>6. (e - f) % 3329 = 0
  BY <1>5
<1>. QED  BY <1>4, <1>6 DEF Same

(* The same as a predicate, which the provers find more easily.            *)
SameTimes(u, v, w, t) == Same(u * w, v * t)

LEMMA ProductSame ==
  ASSUME NEW u \in Int, NEW v \in Int, NEW w \in Int, NEW t \in Int, Same(u, v), Same(w, t)
  PROVE  SameTimes(u, v, w, t)
<1>1. Same(u * w, v * t)
  BY SameProduct
<1>. QED  BY <1>1 DEF SameTimes

LEMMA SameRest ==
  ASSUME NEW u \in Int PROVE u % Q \in Int /\ Same(u % Q, u)
  BY DEF Q, Same

(* What the two reductions do to a number modulo Q: 169 is the inverse of  *)
(* 2^16.                                                                   *)
LEMMA MontgomerySame ==
  ASSUME NEW u \in Int, Bounded(u, 2000000000)
  PROVE  montgomery_reduce(u) \in Int /\ Same(montgomery_reduce(u), 169 * u)
<1>. DEFINE z == int16(u) * QINV
            t == int16(z)
            e == u - t * Q
<1>1. PICK m2 \in Int : int16(u) = u - 65536 * m2
  BY Int16Is
<1>2. z \in Int
  BY Int16Is DEF QINV
<1>. HIDE DEF z
<1>3. PICK m1 \in Int : t = z - 65536 * m1
  BY ONLY <1>2, Int16Is
<1>4. t \in Int /\ -32768 <= t /\ t <= 32767
  BY ONLY <1>2, Int16Is
<1>. DEFINE q == m2 + 169 * (u - 65536 * m2) + 3329 * m1
<1>5. q \in Int
  OBVIOUS
<1>. HIDE DEF t
<1>6. e = 65536 * q
  BY <1>1, <1>3 DEF Q, QINV, z
<1>7. e \in Int /\ e <= 2000000000 + 32768 * 3329 /\ 0 - (2000000000 + 32768 * 3329) <= e
  BY <1>4 DEF Bounded, Q
<1>8. e = u - 3329 * t
  BY <1>4 DEF Q
<1>. HIDE DEF e, q
<1>9. e \div 65536 = q
  BY <1>5, <1>6
<1>10. -32768 <= q /\ q <= 32767
  BY <1>5, <1>6, <1>7
<1>11. montgomery_reduce(u) = int16(q)
  BY <1>9 DEF montgomery_reduce, t, e, z
<1>12. int16(q) = q
  BY <1>5, <1>10 DEF int16
<1>13. q - 169 * u = 3329 * (0 - (169 * t + 3327 * q)) /\ 0 - (169 * t + 3327 * q) \in Int
  BY <1>4, <1>5, <1>6, <1>8
<1>14. (q - 169 * u) % 3329 = 0
  BY <1>5, <1>13
<1>. QED  BY <1>5, <1>11, <1>12, <1>14 DEF Same

LEMMA BarrettSame ==
  ASSUME NEW u, Bounded(u, 32767)
  PROVE  barrett_reduce(u) \in Int /\ Same(barrett_reduce(u), u)
<1>. DEFINE t == (20159 * u + 33554432) \div 67108864
<1>1. t \in Int /\ 67108864 * t <= 20159 * u + 33554432
      /\ 20159 * u + 33554432 < 67108864 * t + 67108864
  BY DEF Bounded
<1>. HIDE DEF t
<1>2. -10 <= t /\ t <= 10 /\ u \in Int
  BY <1>1 DEF Bounded
<1>3. barrett_reduce(u) = int16(u - int16(3329 * t))
  <2>1. t * Q = 3329 * t
    BY <1>1 DEF Q
  <2>. QED  BY <2>1 DEF barrett_reduce, t
<1>4. PICK v \in Int, m \in Int : v = int16(3329 * t) /\ v = 3329 * t - 65536 * m
  <2>1. PICK m \in Int : int16(3329 * t) = 3329 * t - 65536 * m
    BY <1>1, Int16Is
  <2>. QED  BY <1>1, <2>1
<1>5. PICK w \in Int, o \in Int : w = int16(u - v) /\ w = (u - v) - 65536 * o
  <2>1. PICK d \in Int : d = u - v
    BY <1>2
  <2>2. d \in Int
    OBVIOUS
  <2>3. PICK l \in Int : int16(d) = d - 65536 * l
    BY ONLY <2>2, Int16Is
  <2>. QED  BY <1>2, <1>4, <2>1, <2>3
<1>6. -1664 <= w /\ w <= 1664 /\ w \in Int
  <2>1. Bounded(barrett_reduce(u), 1664)
    BY BarrettIs
  <2>. QED  BY <1>3, <1>4, <1>5, <2>1 DEF Bounded
<1>7. o = m
  BY <1>1, <1>2, <1>4, <1>5, <1>6 DEF Bounded
<1>8. w - u = 3329 * (0 - t) /\ 0 - t \in Int
  BY <1>1, <1>2, <1>4, <1>5, <1>7
<1>. QED  BY <1>3, <1>4, <1>5, <1>8 DEF Same

--------------------------------------------------------------------------------
(* Remainders.                                                             *)

Ints(p) == \A j \in Index : p[j] \in Int

Sizes == {2, 4, 8, 16, 32, 64, 128, 256}

LEMMA SizeIs ==
  ASSUME NEW s \in Sizes
  PROVE  /\ s \in Nat /\ 256 \div s \in Nat /\ s * (256 \div s) = 256
         /\ \A j \in 1 .. 256 \div s, c \in 0 .. s - 1 : s * (256 \div s - j) + c \in Index
<1>. USE DEF Sizes, Index, N
<1>1. CASE s = 2
  BY <1>1
<1>2. CASE s = 4
  BY <1>2
<1>3. CASE s = 8
  BY <1>3
<1>4. CASE s = 16
  BY <1>4
<1>5. CASE s = 32
  BY <1>5
<1>6. CASE s = 64
  BY <1>6
<1>7. CASE s = 128
  BY <1>7
<1>8. CASE s = 256
  BY <1>8
<1>. QED  BY <1>1, <1>2, <1>3, <1>4, <1>5, <1>6, <1>7, <1>8

(* A function that is defined by f[j] = f[j - 1] * g + q[j] is just that.    *)
Turns(f, m, g, q) == f = [j \in 0 .. m |-> IF j = 0 THEN 0 ELSE f[j - 1] * g + q[j]]

LEMMA TurnsExist ==
  ASSUME NEW m \in Nat, NEW g \in Int, NEW q \in [1 .. m -> Int]
  PROVE  /\ \E f : Turns(f, m, g, q)
         /\ \A f : Turns(f, m, g, q) =>
              /\ f \in [0 .. m -> Int] /\ f[0] = 0
              /\ \A j \in 1 .. m : f[j] = f[j - 1] * g + q[j]
<1>. DEFINE h == [j \in 1 .. m |-> [v \in Int |-> v * g + q[j]]]
<1>1. /\ h \in [1 .. m -> [Int -> Int]] /\ \A j \in 1 .. m, v \in Int : h[j][v] = v * g + q[j]
      /\ 0 \in Int
      /\ \A j \in 1 .. m : j - 1 \in 0 .. m /\ j \in 0 .. m /\ j # 0
  OBVIOUS
<1>. HIDE DEF h
<1>2. PICK f : f \in Recursive(m, Int, 0, h)
  <2>1. Recursive(m, Int, 0, h) # {}
    BY <1>1, Recursion
  <2>. QED  BY <2>1
<1>3. Turns(f, m, g, q)
  <2>1. f \in [0 .. m -> Int] /\ f[0] = 0 /\ \A j \in 1 .. m : f[j] = h[j][f[j - 1]]
    BY <1>2 DEF Recursive
  <2>2. \A j \in 1 .. m : f[j] = f[j - 1] * g + q[j]
    BY <1>1, <2>1
  <2>. QED  BY <2>1, <2>2 DEF Turns
<1>4. ASSUME NEW d, Turns(d, m, g, q)
      PROVE  /\ d \in [0 .. m -> Int] /\ d[0] = 0
             /\ \A j \in 1 .. m : d[j] = d[j - 1] * g + q[j]
  <2>0. d = [j \in 0 .. m |-> IF j = 0 THEN 0 ELSE d[j - 1] * g + q[j]]
    BY <1>4 DEF Turns
  <2>1. d[0] = 0 /\ d = [j \in 0 .. m |-> d[j]] /\ \A j \in 1 .. m : d[j] = d[j - 1] * g + q[j]
    <3>1. \A j \in 0 .. m : d[j] = IF j = 0 THEN 0 ELSE d[j - 1] * g + q[j]
      BY <2>0
    <3>2. d = [j \in 0 .. m |-> d[j]]
      BY <2>0, <3>1
    <3>3. 0 \in 0 .. m
      OBVIOUS
    <3>. QED  BY <1>1, <3>1, <3>2, <3>3
  <2>2. Unfolds(d, m, Int, 0, h)
    BY <1>1, <2>1 DEF Unfolds
  <2>. QED  BY <1>1, <2>1, <2>2, Unfolding DEF Recursive
<1>. QED  BY <1>3, <1>4

(* Coefficient c of p modulo X^s - g, by Horner's rule.                    *)
Part(p, s, c) == [j \in 1 .. 256 \div s |-> p[s * (256 \div s - j) + c]]
Horner(p, s, g, c) == CHOOSE f : Turns(f, 256 \div s, g, Part(p, s, c))
Rem(p, s, g, c) == Horner(p, s, g, c)[256 \div s]

(* f goes through Horner's rule in m turns.                                *)
Steps(f, p, s, m, g, c) ==
  /\ f \in [0 .. m -> Int] /\ f[0] = 0
  /\ \A j \in 1 .. m : f[j] = f[j - 1] * g + p[s * (m - j) + c]

LEMMA HornerIs ==
  ASSUME NEW p, Ints(p), NEW s \in Sizes, NEW g \in Int, NEW c \in 0 .. s - 1
  PROVE  Steps(Horner(p, s, g, c), p, s, 256 \div s, g, c)
<1>1. PICK m \in Nat : m = 256 \div s
  BY SizeIs
<1>. DEFINE q == Part(p, s, c)
            run == Horner(p, s, g, c)
<1>2. q \in [1 .. m -> Int] /\ \A j \in 1 .. m : q[j] = p[s * (m - j) + c]
  BY <1>1, SizeIs DEF Ints, Part
<1>3. run = CHOOSE f : Turns(f, m, g, q)
  BY <1>1 DEF Horner
<1>. HIDE DEF run, q
<1>4. Turns(run, m, g, q)
  <2>1. \E f : Turns(f, m, g, q)
    BY <1>2, TurnsExist
  <2>. QED  BY <1>3, <2>1
<1>5. /\ run \in [0 .. m -> Int] /\ run[0] = 0
      /\ \A j \in 1 .. m : run[j] = run[j - 1] * g + q[j]
  BY <1>2, <1>4, TurnsExist
<1>. QED  BY <1>1, <1>2, <1>5 DEF Steps, run

LEMMA RemInt ==
  ASSUME NEW p, Ints(p), NEW s \in Sizes, NEW g \in Int, NEW c \in 0 .. s - 1
  PROVE  Rem(p, s, g, c) \in Int
<1>1. 256 \div s \in 0 .. 256 \div s
  BY SizeIs
<1>. QED  BY <1>1, HornerIs DEF Rem, Steps

(* Two turns modulo X^s - z are one turn modulo X^(2 * s) - z^2 for the    *)
(* even and one for the odd powers of X^s.                                 *)
LEMMA SplitStep ==
  ASSUME NEW z \in Int, NEW g \in Int, NEW u \in Int, NEW v \in Int, NEW w \in Int,
         NEW e \in Int, NEW o \in Int, Same(z * z, g), Same(w, u + z * v)
  PROVE  Same((w * z + o) * z + e, (u * g + e) + z * (v * g + o))
<1>1. PICK a1 \in Int, a2 \in Int, a3 \in Int, a4 \in Int :
        a1 = w * (z * z) /\ a2 = (u + z * v) * g /\ a3 = z * o /\ a4 = u + z * v
  OBVIOUS
<1>2. Same(a1, a2)
  <2>1. z * z \in Int /\ u + z * v \in Int
    OBVIOUS
  <2>. QED  BY <1>1, <2>1, SameProduct
<1>3. (w * z + o) * z + e = w * (z * z) + z * o + e
  OBVIOUS
<1>4. (u * g + e) + z * (v * g + o) = (u + z * v) * g + z * o + e
  OBVIOUS
<1>5. Same(a1 + a3 + e, a2 + a3 + e)
  BY <1>1, <1>2 DEF Same
<1>. QED  BY <1>1, <1>3, <1>4, <1>5

(* The remainder modulo X^(2 * l) - g gives that modulo X^l - z, where z is *)
(* a square root of g.                                                     *)
LEMMA RemSplit ==
  ASSUME NEW p, Ints(p), NEW l \in ForwardLens, NEW z \in Int, NEW g \in Int,
         Same(z * z, g), NEW c \in 0 .. l - 1
  PROVE  Same(Rem(p, l, z, c), Rem(p, 2 * l, g, c) + z * Rem(p, 2 * l, g, c + l))
<1>1. PICK m \in Nat : 256 \div (2 * l) = m /\ 256 \div l = 2 * m
  BY DEF ForwardLens
<1>2. l \in Sizes /\ 2 * l \in Sizes /\ c \in 0 .. 2 * l - 1 /\ c + l \in 0 .. 2 * l - 1 /\ l \in Nat
  BY DEF ForwardLens, Sizes
<1>3. PICK u \in [0 .. m -> Int], v \in [0 .. m -> Int], w \in [0 .. 2 * m -> Int] :
        /\ u = Horner(p, 2 * l, g, c) /\ v = Horner(p, 2 * l, g, c + l)
        /\ w = Horner(p, l, z, c)
        /\ Steps(u, p, 2 * l, m, g, c) /\ Steps(v, p, 2 * l, m, g, c + l)
        /\ Steps(w, p, l, 2 * m, z, c)
  <2>1. /\ Steps(Horner(p, 2 * l, g, c), p, 2 * l, m, g, c)
        /\ Steps(Horner(p, 2 * l, g, c + l), p, 2 * l, m, g, c + l)
        /\ Steps(Horner(p, l, z, c), p, l, 2 * m, z, c)
    BY <1>1, <1>2, HornerIs
  <2>. QED  BY <2>1 DEF Steps
<1>. DEFINE S == {i \in Nat : i <= m => Same(w[2 * i], u[i] + z * v[i])}
<1>4. 0 \in S
  <2>1. w[0] = 0 /\ u[0] = 0 /\ v[0] = 0
    BY <1>3 DEF Steps
  <2>. QED  BY <2>1, SameItself
<1>5. ASSUME NEW i \in Nat, i \in S PROVE i + 1 \in S
  <2>. SUFFICES ASSUME i + 1 <= m PROVE Same(w[2 * (i + 1)], u[i + 1] + z * v[i + 1])
    OBVIOUS
  <2>1. /\ i \in 0 .. m /\ i + 1 \in 1 .. m /\ (i + 1) - 1 = i
        /\ 2 * i \in 0 .. 2 * m /\ 2 * i + 1 \in 1 .. 2 * m /\ 2 * i + 2 \in 1 .. 2 * m
        /\ (2 * i + 1) - 1 = 2 * i /\ (2 * i + 2) - 1 = 2 * i + 1 /\ 2 * (i + 1) = 2 * i + 2
    OBVIOUS
  <2>2. /\ 2 * l * (m - (i + 1)) + c = l * (2 * m - (2 * i + 2)) + c
        /\ 2 * l * (m - (i + 1)) + (c + l) = l * (2 * m - (2 * i + 1)) + c
    <3>1. l * (2 * (m - (i + 1))) = 2 * l * (m - (i + 1))
      BY <1>2
    <3>2. l * (2 * (m - (i + 1)) + 1) = l * (2 * (m - (i + 1))) + l
      BY <1>2
    <3>3. 2 * m - (2 * i + 2) = 2 * (m - (i + 1)) /\ 2 * m - (2 * i + 1) = 2 * (m - (i + 1)) + 1
      OBVIOUS
    <3>4. PICK h \in Int : h = 2 * l * (m - (i + 1))
      BY <1>2
    <3>. QED  BY <3>1, <3>2, <3>3, <3>4, <1>2
  <2>3. PICK e \in Int, o \in Int :
          e = p[2 * l * (m - (i + 1)) + c] /\ o = p[2 * l * (m - (i + 1)) + (c + l)]
    <3>1. 2 * l * (m - (i + 1)) + c \in Index /\ 2 * l * (m - (i + 1)) + (c + l) \in Index
      <4>1. PICK s \in Sizes : s = 2 * l
        BY <1>2
      <4>2. \A j \in 1 .. m, d \in 0 .. s - 1 : s * (m - j) + d \in Index
        <5>1. \A j \in 1 .. 256 \div s, d \in 0 .. s - 1 : s * (256 \div s - j) + d \in Index
          BY SizeIs
        <5>2. 256 \div s = m
          BY <1>1, <4>1
        <5>. QED  BY <5>1, <5>2
      <4>. QED  BY <1>2, <2>1, <4>1, <4>2
    <3>. QED  BY <3>1 DEF Ints
  <2>4. u[i + 1] = u[i] * g + e /\ v[i + 1] = v[i] * g + o
    BY <1>3, <2>1, <2>3 DEF Steps
  <2>5. w[2 * i + 1] = w[2 * i] * z + o /\ w[2 * i + 2] = w[2 * i + 1] * z + e
    BY <1>3, <2>1, <2>2, <2>3 DEF Steps
  <2>6. u[i] \in Int /\ v[i] \in Int /\ w[2 * i] \in Int /\ Same(w[2 * i], u[i] + z * v[i])
    BY <1>5, <2>1
  <2>7. Same((w[2 * i] * z + o) * z + e, (u[i] * g + e) + z * (v[i] * g + o))
    BY <2>6, SplitStep
  <2>. QED  BY <2>1, <2>4, <2>5, <2>7
<1>6. m \in S
  <2>. HIDE DEF S
  <2>. QED  BY <1>4, <1>5, Induction
<1>7. Same(w[2 * m], u[m] + z * v[m])
  BY <1>6
<1>8. Rem(p, l, z, c) = w[2 * m] /\ Rem(p, 2 * l, g, c) = u[m] /\ Rem(p, 2 * l, g, c + l) = v[m]
  BY <1>1, <1>3 DEF Rem
<1>. QED  BY <1>7, <1>8

(* Modulo X^256 + 1 a polynomial of 256 coefficients is itself.            *)
LEMMA RemWhole ==
  ASSUME NEW p, Ints(p), NEW g \in Int, NEW c \in Index
  PROVE  Rem(p, 256, g, c) = p[c]
<1>1. 256 \div 256 = 1 /\ 256 \in Sizes /\ c \in 0 .. 256 - 1 /\ p[c] \in Int
  BY DEF Sizes, Index, N, Ints
<1>. DEFINE f == Horner(p, 256, g, c)
<1>2. Steps(f, p, 256, 1, g, c)
  BY <1>1, HornerIs
<1>. HIDE DEF f
<1>3. 1 \in 1 .. 1 /\ 1 - 1 = 0 /\ 256 * (1 - 1) + c = c
  BY <1>1
<1>4. f[1] = p[c]
  BY <1>1, <1>2, <1>3 DEF Steps
<1>. QED  BY <1>1, <1>4 DEF Rem, f

--------------------------------------------------------------------------------
(* The factors of X^256 + 1.  The nodes of the tree are numbered as in a   *)
(* heap: the 2^t factors of layer t are X^(256 / 2^t) - Node(m) with m from *)
(* 2^t, and block k of ntt splits that of node k.                          *)

Z(m) == 169 * Zeta(m)
Node(m) == IF m = 1 THEN 0 - 1
           ELSE IF m % 2 = 0 THEN Z(m \div 2) ELSE 0 - Z(m \div 2)

LEMMA ZIs ==
  /\ \A m \in 0 .. 127 : Zeta(m) \in Int /\ Z(m) \in Int
  /\ \A m \in 1 .. 255 : Node(m) \in Int
<1>1. \A m \in 0 .. 127 : Zeta(m) \in Int /\ Z(m) \in Int
  BY ZetaIs DEF Bounded, Z
<1>2. \A m \in 1 .. 255 : m = 1 \/ m \div 2 \in 0 .. 127
  OBVIOUS
<1>. QED  BY <1>1, <1>2 DEF Node

LEMMA NodeSquares == \A m \in 1 .. 127 : Same(Z(m) * Z(m), Node(m))
  BY SMTT(60) DEF Same, Z, Node, Zeta, zetas

(* A number and the bits it is made of.                                    *)
Bits7(e, b0, b1, b2, b3, b4, b5, b6) ==
  e = b0 + 2 * b1 + 4 * b2 + 8 * b3 + 16 * b4 + 32 * b5 + 64 * b6

LEMMA ReverseBits ==
  ASSUME NEW e, NEW b0 \in 0 .. 1, NEW b1 \in 0 .. 1, NEW b2 \in 0 .. 1, NEW b3 \in 0 .. 1,
         NEW b4 \in 0 .. 1, NEW b5 \in 0 .. 1, NEW b6 \in 0 .. 1,
         Bits7(e, b0, b1, b2, b3, b4, b5, b6)
  PROVE  e \in 0 .. 127 /\ Bits7(Reverse7(e), b6, b5, b4, b3, b2, b1, b0)
<1>1. e \in 0 .. 127
  BY DEF Bits7
<1>2. /\ e % 2 = b0 /\ (e \div 2) % 2 = b1 /\ (e \div 4) % 2 = b2 /\ (e \div 8) % 2 = b3
      /\ (e \div 16) % 2 = b4 /\ (e \div 32) % 2 = b5 /\ e \div 64 = b6
  BY DEF Bits7
<1>. QED  BY <1>1, <1>2 DEF Reverse7, Bits7

LEMMA ReverseTwice ==
  ASSUME NEW i \in 0 .. 127
  PROVE  Reverse7(i) \in 0 .. 127 /\ Reverse7(Reverse7(i)) = i
<1>1. PICK b0 \in 0 .. 1, b1 \in 0 .. 1, b2 \in 0 .. 1, b3 \in 0 .. 1, b4 \in 0 .. 1,
           b5 \in 0 .. 1, b6 \in 0 .. 1 : Bits7(i, b0, b1, b2, b3, b4, b5, b6)
  BY DEF Bits7
<1>2. Bits7(Reverse7(i), b6, b5, b4, b3, b2, b1, b0)
  BY <1>1, ReverseBits
<1>3. Reverse7(i) \in 0 .. 127 /\ Bits7(Reverse7(Reverse7(i)), b0, b1, b2, b3, b4, b5, b6)
  BY <1>2, ReverseBits
<1>. QED  BY <1>1, <1>3 DEF Bits7

LEMMA NodeSteps ==
  /\ Same(17, Node(128))
  /\ \A e \in 0 .. 126 : Same(289 * Node(128 + Reverse7(e)), Node(128 + Reverse7(e + 1)))
  BY SMTT(60) DEF Same, Z, Node, Zeta, zetas, Reverse7

(* The roots of Ntt are these.                                             *)
IsPowers(f) ==
  /\ f \in [0 .. 127 -> Int] /\ f[0] = 17
  /\ \A e \in 1 .. 127 : f[e] = (f[e - 1] * 289) % Q

LEMMA OddPowersAre == IsPowers(OddPowers)
<1>0. PICK m \in Nat : m = 127
  OBVIOUS
<1>. DEFINE On(v) == (v * 289) % Q
            Layer(f) == [e \in 0 .. 127 |-> IF e = 0 THEN 17 ELSE On(f[e - 1])]
            f == CHOOSE f : f = Layer(f)
            h == [e \in 1 .. m |-> [v \in Int |-> On(v)]]
<1>10. OddPowers = f
  BY DEF OddPowers
<1>5. \A v \in Int : On(v) \in Int
  BY DEF Q
<1>. HIDE DEF On
<1>1. /\ h \in [1 .. m -> [Int -> Int]] /\ \A e \in 1 .. m, v \in Int : h[e][v] = On(v)
      /\ 17 \in Int
      /\ \A e \in 1 .. m : e - 1 \in 0 .. m /\ e \in 0 .. m /\ e # 0
  BY <1>5
<1>. HIDE DEF h
<1>2. PICK d : d \in Recursive(m, Int, 17, h)
  <2>1. Recursive(m, Int, 17, h) # {}
    BY <1>1, Recursion
  <2>. QED  BY <2>1
<1>3. d = Layer(d)
  <2>1. d \in [0 .. m -> Int] /\ d[0] = 17 /\ \A e \in 1 .. m : d[e] = h[e][d[e - 1]]
    BY <1>2 DEF Recursive
  <2>2. \A e \in 1 .. m : d[e] = On(d[e - 1])
    BY <1>1, <2>1
  <2>3. d = [e \in 0 .. m |-> IF e = 0 THEN 17 ELSE On(d[e - 1])]
    BY <2>1, <2>2
  <2>. QED  BY <1>0, <2>3
<1>4. f = Layer(f)
  BY <1>3
<1>. HIDE DEF f
<1>6. f[0] = 17 /\ f = [e \in 0 .. m |-> f[e]] /\ \A e \in 1 .. m : f[e] = On(f[e - 1])
  <2>1. f = [e \in 0 .. m |-> IF e = 0 THEN 17 ELSE On(f[e - 1])]
    BY <1>0, <1>4
  <2>2. \A e \in 0 .. m : f[e] = IF e = 0 THEN 17 ELSE On(f[e - 1])
    BY <2>1
  <2>3. f = [e \in 0 .. m |-> f[e]]
    BY <2>1, <2>2
  <2>4. 0 \in 0 .. m
    OBVIOUS
  <2>. QED  BY <1>1, <2>2, <2>3, <2>4
<1>7. Unfolds(f, m, Int, 17, h)
  <2>1. \A e \in 1 .. m : f[e - 1] \in Int => f[e] = h[e][f[e - 1]]
    BY <1>1, <1>6
  <2>. QED  BY <1>6, <2>1 DEF Unfolds
<1>8. f \in Recursive(m, Int, 17, h)
  BY <1>1, <1>7, Unfolding
<1>9. f \in [0 .. m -> Int]
  BY <1>8 DEF Recursive
<1>. QED  BY <1>0, <1>10, <1>6, <1>9 DEF IsPowers, On

LEMMA RootsAre ==
  ASSUME NEW i \in 0 .. 127 PROVE Roots[i] \in Int /\ Same(Roots[i], Node(128 + i))
<1>. DEFINE S == {e \in Nat : e <= 127 => Same(OddPowers[e], Node(128 + Reverse7(e)))}
<1>1. 0 \in S
  <2>1. Reverse7(0) = 0 /\ 128 + 0 = 128
    BY DEF Reverse7
  <2>. QED  BY <2>1, OddPowersAre, NodeSteps DEF IsPowers
<1>2. ASSUME NEW e \in Nat, e \in S PROVE e + 1 \in S
  <2>. SUFFICES ASSUME e + 1 <= 127 PROVE Same(OddPowers[e + 1], Node(128 + Reverse7(e + 1)))
    OBVIOUS
  <2>1. e \in 0 .. 126 /\ e + 1 \in 1 .. 127 /\ (e + 1) - 1 = e /\ e \in 0 .. 127
    OBVIOUS
  <2>2. PICK u \in Int, v \in Int, t \in Int, w \in Int :
          /\ u = OddPowers[e] /\ v = OddPowers[e + 1]
          /\ t = Node(128 + Reverse7(e)) /\ w = Node(128 + Reverse7(e + 1))
    <3>1. OddPowers[e] \in Int /\ OddPowers[e + 1] \in Int
      BY <2>1, OddPowersAre DEF IsPowers
    <3>2. Reverse7(e) \in 0 .. 127 /\ Reverse7(e + 1) \in 0 .. 127
      <4>1. e + 1 \in 0 .. 127
        BY <2>1
      <4>. QED  BY <2>1, <4>1, ReverseTwice
    <3>3. 128 + Reverse7(e) \in 1 .. 255 /\ 128 + Reverse7(e + 1) \in 1 .. 255
      BY <3>2
    <3>. QED  BY <3>1, <3>3, ZIs
  <2>3. v = (u * 289) % 3329
    BY <2>1, <2>2, OddPowersAre DEF IsPowers, Q
  <2>4. Same(u, t) /\ Same(289 * t, w)
    BY <1>2, <2>1, <2>2, NodeSteps
  <2>5. Same(v, w)
    BY <2>3, <2>4 DEF Same
  <2>. QED  BY <2>2, <2>5
<1>. HIDE DEF S
<1>3. Nat \subseteq S
  BY <1>1, <1>2, Induction
<1>4. Reverse7(i) \in 0 .. 127 /\ Reverse7(Reverse7(i)) = i
  BY ReverseTwice
<1>5. Same(OddPowers[Reverse7(i)], Node(128 + i))
  BY <1>3, <1>4 DEF S
<1>6. OddPowers[Reverse7(i)] \in Int
  BY <1>4, OddPowersAre DEF IsPowers
<1>. QED  BY <1>5, <1>6 DEF Roots

(* The remainders of Ntt are these.                                        *)
IsRemainder(f, p, i, odd) ==
  /\ f \in [0 .. 128 -> Int] /\ f[0] = 0
  /\ \A j \in 1 .. 128 : f[j] = (f[j - 1] * Roots[i] + p[2 * (128 - j) + odd]) % Q
EndsIn(f, v) == v = f[128]

LEMMA RemainderIs ==
  ASSUME NEW p, Ints(p), NEW i \in 0 .. 127, NEW odd \in {0, 1}
  PROVE  \E f : IsRemainder(f, p, i, odd) /\ EndsIn(f, Remainder(p, i, odd))
<1>0. PICK m \in Nat : m = 128
  OBVIOUS
<1>. DEFINE On(j, v) == (v * Roots[i] + p[2 * (128 - j) + odd]) % Q
            Layer(f) == [j \in 0 .. 128 |-> IF j = 0 THEN 0 ELSE On(j, f[j - 1])]
            f == CHOOSE f : f = Layer(f)
            h == [j \in 1 .. m |-> [v \in Int |-> On(j, v)]]
<1>1. Remainder(p, i, odd) = f[128]
  BY DEF Remainder
<1>2. \A j \in 1 .. m, v \in Int : On(j, v) \in Int
  <2>1. \A j \in 1 .. m : p[2 * (128 - j) + odd] \in Int
    BY <1>0 DEF Ints, Index, N
  <2>2. Roots[i] \in Int
    BY RootsAre
  <2>. QED  BY <2>1, <2>2 DEF Q
<1>. HIDE DEF On
<1>3. /\ h \in [1 .. m -> [Int -> Int]] /\ \A j \in 1 .. m, v \in Int : h[j][v] = On(j, v)
      /\ 0 \in Int
      /\ \A j \in 1 .. m : j - 1 \in 0 .. m /\ j \in 0 .. m /\ j # 0
  BY <1>2
<1>. HIDE DEF h
<1>4. PICK d : d \in Recursive(m, Int, 0, h)
  <2>1. Recursive(m, Int, 0, h) # {}
    BY <1>3, Recursion
  <2>. QED  BY <2>1
<1>5. d = Layer(d)
  <2>1. d \in [0 .. m -> Int] /\ d[0] = 0 /\ \A j \in 1 .. m : d[j] = h[j][d[j - 1]]
    BY <1>4 DEF Recursive
  <2>2. \A j \in 1 .. m : d[j] = On(j, d[j - 1])
    BY <1>3, <2>1
  <2>3. d = [j \in 0 .. m |-> IF j = 0 THEN 0 ELSE On(j, d[j - 1])]
    BY <2>1, <2>2
  <2>. QED  BY <1>0, <2>3
<1>6. f = Layer(f)
  BY <1>5
<1>. HIDE DEF f
<1>7. f[0] = 0 /\ f = [j \in 0 .. m |-> f[j]] /\ \A j \in 1 .. m : f[j] = On(j, f[j - 1])
  <2>1. f = [j \in 0 .. m |-> IF j = 0 THEN 0 ELSE On(j, f[j - 1])]
    BY <1>0, <1>6
  <2>2. \A j \in 0 .. m : f[j] = IF j = 0 THEN 0 ELSE On(j, f[j - 1])
    BY <2>1
  <2>3. f = [j \in 0 .. m |-> f[j]]
    BY <2>1, <2>2
  <2>4. 0 \in 0 .. m
    OBVIOUS
  <2>. QED  BY <1>3, <2>2, <2>3, <2>4
<1>8. f \in [0 .. m -> Int]
  <2>1. \A j \in 1 .. m : f[j - 1] \in Int => f[j] = h[j][f[j - 1]]
    BY <1>3, <1>7
  <2>2. Unfolds(f, m, Int, 0, h)
    BY <1>7, <2>1 DEF Unfolds
  <2>3. f \in Recursive(m, Int, 0, h)
    BY <1>3, <2>2, Unfolding
  <2>. QED  BY <2>3 DEF Recursive
<1>9. IsRemainder(f, p, i, odd) /\ EndsIn(f, Remainder(p, i, odd))
  BY <1>0, <1>1, <1>7, <1>8 DEF IsRemainder, EndsIn, On
<1>. QED  BY <1>9

LEMMA RemainderSame ==
  ASSUME NEW p, Ints(p), NEW i \in 0 .. 127, NEW odd \in {0, 1}
  PROVE  Remainder(p, i, odd) \in Int /\ Same(Remainder(p, i, odd), Rem(p, 2, Node(128 + i), odd))
<1>1. PICK f : IsRemainder(f, p, i, odd) /\ EndsIn(f, Remainder(p, i, odd))
  BY RemainderIs
<1>2. PICK g \in Int : g = Node(128 + i)
  <2>1. 128 + i \in 1 .. 255
    OBVIOUS
  <2>. QED  BY <2>1, ZIs
<1>3. PICK z \in Int : z = Roots[i] /\ Same(z, g)
  BY <1>2, RootsAre
<1>. DEFINE w == Horner(p, 2, g, odd)
<1>4. Steps(w, p, 2, 128, g, odd)
  <2>1. 2 \in Sizes /\ odd \in 0 .. 2 - 1 /\ 256 \div 2 = 128
    BY DEF Sizes
  <2>. QED  BY <2>1, HornerIs
<1>5. Rem(p, 2, g, odd) = w[128]
  BY DEF Rem
<1>. HIDE DEF w
<1>. DEFINE S == {j \in Nat : j <= 128 => Same(f[j], w[j])}
<1>6. 0 \in S
  <2>1. f[0] = 0 /\ w[0] = 0
    BY <1>1, <1>4 DEF IsRemainder, Steps
  <2>. QED  BY <2>1, SameItself
<1>7. ASSUME NEW j \in Nat, j \in S PROVE j + 1 \in S
  <2>. SUFFICES ASSUME j + 1 <= 128 PROVE Same(f[j + 1], w[j + 1])
    OBVIOUS
  <2>1. j + 1 \in 1 .. 128 /\ (j + 1) - 1 = j /\ j \in 0 .. 128
    OBVIOUS
  <2>2. PICK e \in Int : e = p[2 * (128 - (j + 1)) + odd]
    <3>1. 2 * (128 - (j + 1)) + odd \in Index
      BY DEF Index, N
    <3>. QED  BY <3>1 DEF Ints
  <2>3. PICK u \in Int, v \in Int : u = f[j] /\ v = w[j] /\ Same(u, v)
    <3>1. f[j] \in Int /\ w[j] \in Int
      BY <1>1, <1>4, <2>1 DEF IsRemainder, Steps
    <3>2. Same(f[j], w[j])
      BY <1>7, <2>1
    <3>. QED  BY <3>1, <3>2
  <2>4. f[j + 1] = (u * z + e) % Q
    BY <1>1, <1>3, <2>1, <2>2, <2>3 DEF IsRemainder
  <2>5. w[j + 1] = v * g + e
    BY <1>4, <2>1, <2>2, <2>3 DEF Steps
  <2>6. Same(u * z + e, v * g + e)
    <3>1. PICK c \in Int, d \in Int : c = u * z /\ d = v * g
      OBVIOUS
    <3>2. Same(c, d)
      BY <1>3, <2>3, <3>1, SameProduct
    <3>. QED  BY <3>1, <3>2 DEF Same
  <2>7. Same((u * z + e) % Q, u * z + e)
    BY SameRest, u * z + e \in Int
  <2>8. (u * z + e) % Q \in Int /\ u * z + e \in Int /\ v * g + e \in Int
    BY DEF Q
  <2>. QED  BY <2>4, <2>5, <2>6, <2>7, <2>8, SameOn
<1>8. 128 \in S
  <2>1. Nat \subseteq S
    <3>. HIDE DEF S
    <3>. QED  BY <1>6, <1>7, Induction
  <2>. HIDE DEF S
  <2>. QED  BY <2>1
<1>9. f[128] \in Int
  BY <1>1 DEF IsRemainder
<1>. QED  BY <1>1, <1>2, <1>5, <1>8, <1>9 DEF EndsIn

--------------------------------------------------------------------------------
(* Blocks of ntt, modulo Q.                                                *)

(* Coefficient j of the layer with blocks of s: remainders of p.           *)
Image(p, s, j) == Rem(p, s, Node((256 + j) \div s), j % s)
Halfway(q, p) == \A j \in Index : Same(q[j], Image(p, IF j < start THEN len ELSE 2 * len, j))

LEMMA ImageInt ==
  ASSUME NEW p, Ints(p), NEW s \in Sizes, NEW j \in Index
  PROVE  Image(p, s, j) \in Int
<1>1. (256 + j) \div s \in 1 .. 255 /\ j % s \in 0 .. s - 1
  BY DEF Sizes, Index, N
<1>. QED  BY <1>1, ZIs, RemInt DEF Image

(* The nodes the block at start belongs to: m before, 2 * m and 2 * m + 1  *)
(* after it has been split.                                                *)
BlockNode(m) == m \in 1 .. 127 /\ 2 * len * m = 256 + start

LEMMA BlockNodes ==
  ASSUME len \in ForwardLens, start \in 0 .. 255, NEW m, BlockNode(m), NEW j \in Lower
  PROVE  /\ j - start \in 0 .. len - 1 /\ j \in Index /\ j + len \in Index
         /\ (256 + j) \div (2 * len) = m /\ j % (2 * len) = j - start
         /\ (256 + (j + len)) \div (2 * len) = m /\ (j + len) % (2 * len) = j - start + len
         /\ (256 + j) \div len = 2 * m /\ j % len = j - start
         /\ (256 + (j + len)) \div len = 2 * m + 1 /\ (j + len) % len = j - start
<1>. USE DEF BlockNode, ForwardLens, Lower, Index, N
<1>0. len \in ForwardLens
  OBVIOUS
<1>1. CASE len = 128
  BY <1>1
<1>2. CASE len = 64
  BY <1>2
<1>3. CASE len = 32
  BY <1>3
<1>4. CASE len = 16
  BY <1>4
<1>5. CASE len = 8
  BY <1>5
<1>6. CASE len = 4
  BY <1>6
<1>7. CASE len = 2
  BY <1>7
<1>. QED  BY <1>0, <1>1, <1>2, <1>3, <1>4, <1>5, <1>6, <1>7


LEMMA FqmulSame ==
  ASSUME NEW u, NEW w, NEW c \in Nat, NEW d \in Nat, c * d <= 2000000000,
         Bounded(u, c), Bounded(w, d)
  PROVE  fqmul(u, w) \in Int /\ Same(fqmul(u, w), 169 * (u * w))
<1>1. u * w \in Int /\ Bounded(u * w, c * d) /\ c * d \in Nat
  BY ProductBounded
<1>2. Bounded(u * w, 2000000000)
  BY <1>1, Wider
<1>. QED  BY <1>1, <1>2, MontgomerySame DEF fqmul

(* The sum and the difference of a block are the remainders modulo         *)
(* X^len - Z(k) and X^len + Z(k).                                          *)
LEMMA PairSame ==
  ASSUME Forward, len >= 2, NEW p, Ints(p), Arr(r, 32767), Halfway(r, p), NEW j \in Lower
  PROVE  /\ Same(r[j] + fqmul(Zeta(k), r[j + len]), Image(p, len, j))
         /\ Same(r[j] - fqmul(Zeta(k), r[j + len]), Image(p, len, j + len))
<1>0. BlockNode(k) /\ len \in ForwardLens /\ start \in 0 .. 255
  BY DEF Forward, ForwardLens, BlockNode
<1>1. /\ len \in ForwardLens /\ len \in Sizes /\ 2 * len \in Sizes
      /\ k \in 1 .. 127 /\ 2 * k \in 1 .. 255 /\ 2 * k + 1 \in 1 .. 255
      /\ ~ (j < start) /\ ~ (j + len < start)
  BY DEF Forward, ForwardLens, Sizes, Lower
<1>2. PICK c \in Int : /\ c = j - start /\ c \in 0 .. len - 1
                      /\ c \in 0 .. 2 * len - 1 /\ c + len \in 0 .. 2 * len - 1
  <2>1. j - start \in 0 .. len - 1 /\ len \in Nat
    BY <1>0, BlockNodes DEF ForwardLens
  <2>. QED  BY <2>1
<1>3. PICK z \in Int, g \in Int : z = Z(k) /\ g = Node(k) /\ Same(z * z, g)
  <2>1. k \in 0 .. 127 /\ k \in 1 .. 255
    BY <1>1
  <2>2. Z(k) \in Int /\ Node(k) \in Int /\ Same(Z(k) * Z(k), Node(k))
    BY <1>1, <2>1, ZIs, NodeSquares
  <2>. QED  BY <2>2
<1>4. Node(2 * k) = z /\ Node(2 * k + 1) = 0 - z
  <2>1. /\ 2 * k # 1 /\ (2 * k) % 2 = 0 /\ (2 * k) \div 2 = k
        /\ 2 * k + 1 # 1 /\ (2 * k + 1) % 2 # 0 /\ (2 * k + 1) \div 2 = k
    BY <1>1
  <2>. QED  BY <1>3, <2>1 DEF Node
<1>5. PICK u \in Int, v \in Int : u = Rem(p, 2 * len, g, c) /\ v = Rem(p, 2 * len, g, c + len)
  BY <1>1, <1>2, RemInt
<1>6. PICK s \in Int, t \in Int : /\ s = r[j] /\ t = r[j + len] /\ Bounded(t, 32767)
                                /\ Same(s, u) /\ Same(t, v)
  <2>1. j \in Index /\ j + len \in Index
    BY <1>0, BlockNodes
  <2>2. Image(p, 2 * len, j) = u /\ Image(p, 2 * len, j + len) = v
    BY <1>0, <1>2, <1>3, <1>5, BlockNodes DEF Image
  <2>3. Same(r[j], u) /\ Same(r[j + len], v)
    BY <1>1, <2>1, <2>2 DEF Halfway
  <2>. QED  BY <2>1, <2>3 DEF Arr, Bounded
<1>7. PICK m \in Int : m = fqmul(Zeta(k), t) /\ Same(m, z * t)
  <2>1. 1659 * 32767 <= 2000000000 /\ k \in 0 .. 127
    BY <1>1
  <2>2. Bounded(Zeta(k), 1659) /\ Zeta(k) \in Int
    BY <2>1, ZetaIs, ZIs
  <2>3. fqmul(Zeta(k), t) \in Int /\ Same(fqmul(Zeta(k), t), 169 * (Zeta(k) * t))
    BY <1>6, <2>1, <2>2, FqmulSame
  <2>4. 169 * (Zeta(k) * t) = z * t
    BY <1>3, <2>2 DEF Z
  <2>. QED  BY <2>3, <2>4
<1>8. PICK e \in Int, f \in Int : e = z * t /\ f = z * v /\ Same(e, f)
  <2>1. Same(z, z) /\ Same(t, v)
    BY <1>6, SameItself
  <2>2. Same(z * t, z * v) /\ z * t \in Int /\ z * v \in Int
    BY <2>1, SameProduct
  <2>. QED  BY <2>2
<1>9. Same(s + m, u + f) /\ Same(s - m, u - f)
  <2>1. Same(m, f)
    BY <1>7, <1>8, SameOn
  <2>2. Same(s, u)
    BY <1>6
  <2>3. \A a1 \in Int, a2 \in Int, a3 \in Int, a4 \in Int :
          Same(a1, a2) /\ Same(a3, a4) => Same(a1 + a3, a2 + a4) /\ Same(a1 - a3, a2 - a4)
    BY SameSum
  <2>. QED  BY <2>1, <2>2, <2>3
<1>10. PICK w1 \in Int, w2 \in Int : /\ w1 = Rem(p, len, z, c) /\ w2 = Rem(p, len, 0 - z, c)
                                    /\ Same(w1, u + f) /\ Same(w2, u - f)
  <2>1. Rem(p, len, z, c) \in Int /\ Rem(p, len, 0 - z, c) \in Int
    BY <1>1, <1>2, RemInt
  <2>2. Same(Rem(p, len, z, c), u + z * v)
    BY <1>1, <1>2, <1>3, <1>5, RemSplit
  <2>3. (0 - z) * (0 - z) = z * z /\ (0 - z) * v = 0 - f /\ 0 - z \in Int
    BY <1>8
  <2>4. Same(Rem(p, len, 0 - z, c), u + (0 - z) * v)
    BY <1>1, <1>2, <1>3, <1>5, <2>3, RemSplit
  <2>. QED  BY <1>8, <2>1, <2>2, <2>3, <2>4
<1>11. Same(s + m, w1) /\ Same(s - m, w2)
  BY <1>9, <1>10 DEF Same
<1>12. Image(p, len, j) = w1 /\ Image(p, len, j + len) = w2
  BY <1>0, <1>2, <1>4, <1>10, BlockNodes DEF Image
<1>. QED  BY <1>6, <1>7, <1>11, <1>12

LEMMA ForwardSame ==
  ASSUME Forward, len >= 2, InBounds, NEW p, Ints(p), Arr(r, 32767), Halfway(r, p),
         NEW j \in Index
  PROVE  Same(Butterflies(Zeta(k))[j], Image(p, IF j < start + 2 * len THEN len ELSE 2 * len, j))
<1>1. CASE j \in Lower
  <2>1. Butterflies(Zeta(k))[j] = r[j] + fqmul(Zeta(k), r[j + len]) /\ j < start + 2 * len
    BY <1>1, BlockIndices DEF Butterflies
  <2>. QED  BY <1>1, <2>1, PairSame
<1>2. CASE j \in Upper
  <2>1. /\ Butterflies(Zeta(k))[j] = r[j - len] - fqmul(Zeta(k), r[j]) /\ j < start + 2 * len
        /\ j - len \in Lower /\ (j - len) + len = j
    BY <1>2, BlockIndices DEF Butterflies, InBounds, Lower, Upper, Index
  <2>2. Same(r[j - len] - fqmul(Zeta(k), r[(j - len) + len]), Image(p, len, (j - len) + len))
    BY <2>1, PairSame
  <2>. QED  BY <2>1, <2>2
<1>3. CASE j \notin Lower /\ j \notin Upper
  <2>1. Butterflies(Zeta(k))[j] = r[j] /\ (j < start <=> j < start + 2 * len)
    BY <1>3, BlockIndices DEF Butterflies
  <2>. QED  BY <2>1 DEF Halfway
<1>. QED  BY <1>1, <1>2, <1>3

--------------------------------------------------------------------------------
(* Products of polynomials, modulo X^s - g and Q.                          *)

(* The sum of q[1] to q[m].                                                *)
PartialSums(q, m) == CHOOSE f : Turns(f, m, 1, q)
Total(q, m)    == PartialSums(q, m)[m]
AddUp(f, q, m) == f \in [0 .. m -> Int] /\ f[0] = 0 /\ \A j \in 1 .. m : f[j] = f[j - 1] + q[j]

LEMMA PartialSumsAre ==
  ASSUME NEW m \in Nat, NEW q \in [1 .. m -> Int]
  PROVE  AddUp(PartialSums(q, m), q, m) /\ Total(q, m) \in Int
<1>. DEFINE f == PartialSums(q, m)
<1>1. Turns(f, m, 1, q)
  <2>1. \E d : Turns(d, m, 1, q)
    BY TurnsExist
  <2>. QED  BY <2>1 DEF PartialSums
<1>. HIDE DEF f
<1>2. /\ f \in [0 .. m -> Int] /\ f[0] = 0 /\ \A j \in 1 .. m : f[j] = f[j - 1] * 1 + q[j]
  <2>1. PICK g \in Int : g = 1
    OBVIOUS
  <2>2. /\ f \in [0 .. m -> Int] /\ f[0] = 0 /\ \A j \in 1 .. m : f[j] = f[j - 1] * g + q[j]
    <3>1. Turns(f, m, g, q)
      BY <1>1, <2>1
    <3>. QED  BY <3>1, TurnsExist
  <2>. QED  BY <2>1, <2>2
<1>3. \A j \in 1 .. m : j - 1 \in 0 .. m
  OBVIOUS
<1>4. \A j \in 1 .. m : f[j] = f[j - 1] + q[j]
  BY <1>2, <1>3
<1>5. f[m] \in Int
  BY <1>2
<1>. QED  BY <1>2, <1>4, <1>5 DEF AddUp, Total, f

(* What is added up two terms at a time, from two sums of twice as many.   *)
LEMMA Folding ==
  ASSUME NEW l \in Nat, NEW a1 \in [1 .. 2 * l -> Int], NEW a2 \in [1 .. 2 * l -> Int],
         NEW z \in Int, NEW f \in [0 .. l -> Int], f[0] = 0,
         \A j \in 1 .. l :
           Same(f[j], f[j - 1] + ((a1[j] + a1[j + l]) + z * (a2[j] + a2[j + l])))
  PROVE  Same(f[l], Total(a1, 2 * l) + z * Total(a2, 2 * l))
<1>1. PICK g \in [0 .. 2 * l -> Int], h \in [0 .. 2 * l -> Int] :
        AddUp(g, a1, 2 * l) /\ AddUp(h, a2, 2 * l) /\ Total(a1, 2 * l) = g[2 * l] /\ Total(a2, 2 * l) = h[2 * l]
  <2>1. 2 * l \in Nat
    OBVIOUS
  <2>2. AddUp(PartialSums(a1, 2 * l), a1, 2 * l) /\ AddUp(PartialSums(a2, 2 * l), a2, 2 * l)
    BY <2>1, PartialSumsAre
  <2>. QED  BY <2>2 DEF AddUp, Total
<1>. DEFINE Sum(j) == (g[j] + (g[j + l] - g[l])) + z * (h[j] + (h[j + l] - h[l]))
            S == {j \in Nat : j <= l => Same(f[j], Sum(j))}
<1>2. 0 \in S
  <2>1. g[0] = 0 /\ h[0] = 0 /\ g[l] \in Int /\ h[l] \in Int /\ 0 + l = l
    BY <1>1 DEF AddUp
  <2>2. Sum(0) = 0
    BY <2>1
  <2>. QED  BY <2>2 DEF Same
<1>3. ASSUME NEW j \in Nat, j \in S PROVE j + 1 \in S
  <2>. SUFFICES ASSUME j + 1 <= l PROVE Same(f[j + 1], Sum(j + 1))
    OBVIOUS
  <2>1. /\ j + 1 \in 1 .. l /\ j + 1 \in 1 .. 2 * l /\ j + 1 + l \in 1 .. 2 * l
        /\ (j + 1) - 1 = j /\ (j + 1 + l) - 1 = j + l
        /\ j \in 0 .. l /\ j + 1 \in 0 .. l
        /\ j \in 0 .. 2 * l /\ j + l \in 0 .. 2 * l /\ l \in 0 .. 2 * l
    OBVIOUS
  <2>2. PICK g0 \in Int, g1 \in Int, g2 \in Int, h0 \in Int, h1 \in Int, h2 \in Int :
          /\ g0 = g[j] /\ g1 = g[j + l] /\ g2 = g[l]
          /\ h0 = h[j] /\ h1 = h[j + l] /\ h2 = h[l]
    BY <1>1, <2>1
  <2>3. PICK c1 \in Int, c2 \in Int, d1 \in Int, d2 \in Int :
          /\ c1 = a1[j + 1] /\ c2 = a1[j + 1 + l] /\ d1 = a2[j + 1] /\ d2 = a2[j + 1 + l]
    BY <2>1
  <2>4. g[j + 1] = g0 + c1 /\ g[j + 1 + l] = g1 + c2 /\ h[j + 1] = h0 + d1 /\ h[j + 1 + l] = h1 + d2
    <3>1. g[j + 1] = g[(j + 1) - 1] + a1[j + 1] /\ g[j + 1 + l] = g[(j + 1 + l) - 1] + a1[j + 1 + l]
      BY <1>1, <2>1 DEF AddUp
    <3>2. h[j + 1] = h[(j + 1) - 1] + a2[j + 1] /\ h[j + 1 + l] = h[(j + 1 + l) - 1] + a2[j + 1 + l]
      BY <1>1, <2>1 DEF AddUp
    <3>. QED  BY <2>1, <2>2, <2>3, <3>1, <3>2
  <2>5. PICK e0 \in Int, e1 \in Int : e0 = f[j] /\ e1 = f[j + 1]
    BY <2>1
  <2>6. PICK v0 \in Int, v1 \in Int : v0 = z * (h0 + (h1 - h2)) /\ v1 = z * (d1 + d2)
    OBVIOUS
  <2>7. Same(e0, (g0 + (g1 - g2)) + v0)
    BY <1>3, <2>1, <2>2, <2>5, <2>6
  <2>8. Same(e1, e0 + ((c1 + c2) + v1))
    BY <2>1, <2>3, <2>5, <2>6
  <2>9. Same(e1, ((g0 + (g1 - g2)) + v0) + ((c1 + c2) + v1))
    <3>1. PICK t0 \in Int, t1 \in Int : t0 = (g0 + (g1 - g2)) + v0 /\ t1 = (c1 + c2) + v1
      OBVIOUS
    <3>2. Same(e0, t0) /\ Same(e1, e0 + t1)
      BY <2>7, <2>8, <3>1
    <3>3. Same(e1, t0 + t1)
      BY <3>2, SameOnto
    <3>. QED  BY <3>1, <3>3
  <2>10. z * ((h0 + d1) + ((h1 + d2) - h2)) = v0 + v1
    BY <2>6
  <2>11. Sum(j + 1) = ((g0 + c1) + ((g1 + c2) - g2)) + (v0 + v1)
    BY <2>2, <2>4, <2>10
  <2>12. Sum(j + 1) = ((g0 + (g1 - g2)) + v0) + ((c1 + c2) + v1)
    BY <2>11
  <2>. QED  BY <2>5, <2>9, <2>12
<1>4. l \in S
  <2>. HIDE DEF S
  <2>. QED  BY <1>2, <1>3, Induction
<1>5. Sum(l) = g[2 * l] + z * h[2 * l]
  <2>1. /\ g[l] \in Int /\ h[l] \in Int /\ g[2 * l] \in Int /\ h[2 * l] \in Int /\ l + l = 2 * l
    BY <1>1
  <2>2. g[l] + (g[2 * l] - g[l]) = g[2 * l] /\ h[l] + (h[2 * l] - h[l]) = h[2 * l]
    BY <2>1
  <2>. QED  BY <2>1, <2>2
<1>. HIDE DEF Sum
<1>. QED  BY <1>1, <1>4, <1>5

(* (a + z * b) * (c + z * d), where z^2 = g, and z times that.             *)
Crossed(z, g, u, v, a1, b1, c1, d1) ==
  /\ Same(u * v, (a1 * c1 + g * (b1 * d1)) + z * (a1 * d1 + b1 * c1))
  /\ Same(z * (u * v), (g * (a1 * d1) + g * (b1 * c1)) + z * (a1 * c1 + g * (b1 * d1)))

LEMMA Cross ==
  ASSUME NEW z \in Int, NEW g \in Int, NEW u \in Int, NEW v \in Int, NEW a1 \in Int,
         NEW b1 \in Int, NEW c1 \in Int, NEW d1 \in Int, Same(z * z, g),
         Same(u, a1 + z * b1), Same(v, c1 + z * d1)
  PROVE  Crossed(z, g, u, v, a1, b1, c1, d1)
<1>1. PICK ac \in Int, ad \in Int, bc \in Int, bd \in Int, zz \in Int :
        ac = a1 * c1 /\ ad = a1 * d1 /\ bc = b1 * c1 /\ bd = b1 * d1 /\ zz = z * z
  OBVIOUS
<1>2. PICK uv \in Int : uv = u * v /\ Same(uv, (a1 + z * b1) * (c1 + z * d1))
  <2>1. a1 + z * b1 \in Int /\ c1 + z * d1 \in Int
    OBVIOUS
  <2>. QED  BY <2>1, SameProduct
<1>3. (a1 + z * b1) * (c1 + z * d1) = (ac + z * (ad + bc)) + zz * bd
  BY <1>1
<1>4. PICK e \in Int, h \in Int, k1 \in Int : e = zz * bd /\ h = g * bd /\ k1 = z * (ad + bc) /\ Same(e, h)
  <2>1. Same(zz, g) /\ Same(bd, bd)
    BY <1>1, SameItself
  <2>2. zz * bd \in Int /\ g * bd \in Int /\ z * (ad + bc) \in Int
    OBVIOUS
  <2>3. Same(zz * bd, g * bd)
    BY <2>1, SameProduct
  <2>. QED  BY <2>2, <2>3
<1>5. Same(uv, (ac + h) + k1)
  <2>1. Same(uv, (ac + k1) + e)
    BY <1>2, <1>3, <1>4
  <2>2. ac + k1 \in Int /\ ac + h \in Int /\ (ac + h) + k1 = h + (ac + k1) /\ (ac + k1) + e = e + (ac + k1)
    OBVIOUS
  <2>3. Same(uv, h + (ac + k1))
    BY <1>4, <2>1, <2>2, SameOnto
  <2>. QED  BY <2>2, <2>3
<1>6. Same(u * v, (a1 * c1 + g * (b1 * d1)) + z * (a1 * d1 + b1 * c1))
  BY <1>1, <1>2, <1>4, <1>5
<1>7. PICK w \in Int : w = (ac + h) + k1 /\ Same(z * uv, z * w)
  <2>1. Same(z, z) /\ (ac + h) + k1 \in Int
    BY SameItself
  <2>. QED  BY <1>5, <2>1, SameProduct
<1>8. PICK m \in Int : m = z * (ac + h) /\ z * w = m + zz * (ad + bc)
  <2>1. z * w = z * (ac + h) + z * k1 /\ z * k1 = zz * (ad + bc)
    <3>1. z * w = z * (ac + h) + z * k1
      BY <1>7
    <3>2. z * (z * (ad + bc)) = (z * z) * (ad + bc)
      OBVIOUS
    <3>. QED  BY <1>1, <1>4, <3>1, <3>2
  <2>. QED  BY <2>1
<1>9. Same(zz * (ad + bc), g * (ad + bc))
  <2>1. Same(zz, g) /\ Same(ad + bc, ad + bc) /\ ad + bc \in Int
    BY <1>1, SameItself
  <2>. QED  BY <2>1, SameProduct
<1>10. PICK o \in Int, y1 \in Int : o = zz * (ad + bc) /\ y1 = g * (ad + bc)
  OBVIOUS
<1>11. Same(z * uv, y1 + m)
  <2>1. z * uv \in Int /\ Same(z * uv, o + m) /\ Same(o, y1)
    BY <1>7, <1>8, <1>9, <1>10
  <2>. QED  BY <2>1, SameOnto
<1>12. y1 + m = (g * ad + g * bc) + z * (ac + g * bd)
  BY <1>4, <1>8, <1>10
<1>13. Same(z * (u * v), (g * (a1 * d1) + g * (b1 * c1)) + z * (a1 * c1 + g * (b1 * d1)))
  BY <1>1, <1>2, <1>11, <1>12
<1>. QED  BY <1>6, <1>13 DEF Crossed

(* Coefficient c of u * v modulo X^s - g.                                  *)
Terms(u, v, s, g, c) ==
  [i \in 1 .. s |-> IF i - 1 <= c THEN u[i - 1] * v[c - (i - 1)]
                    ELSE g * (u[i - 1] * v[s + c - (i - 1)])]
Conv(u, v, s, g, c) == Total(Terms(u, v, s, g, c), s)

LEMMA TermsInt ==
  ASSUME NEW s \in Nat, NEW u \in [0 .. s - 1 -> Int], NEW v \in [0 .. s - 1 -> Int],
         NEW g \in Int, NEW c \in 0 .. s - 1
  PROVE  Terms(u, v, s, g, c) \in [1 .. s -> Int] /\ Conv(u, v, s, g, c) \in Int
<1>1. ASSUME NEW i \in 1 .. s
      PROVE  (IF i - 1 <= c THEN u[i - 1] * v[c - (i - 1)]
              ELSE g * (u[i - 1] * v[s + c - (i - 1)])) \in Int
  <2>1. u[i - 1] \in Int
    OBVIOUS
  <2>2. CASE i - 1 <= c
    <3>1. v[c - (i - 1)] \in Int
      BY <2>2
    <3>. QED  BY <2>1, <2>2, <3>1
  <2>3. CASE ~ (i - 1 <= c)
    <3>1. v[s + c - (i - 1)] \in Int
      BY <2>3
    <3>2. u[i - 1] * v[s + c - (i - 1)] \in Int
      BY <2>1, <3>1
    <3>. QED  BY <2>3, <3>2
  <2>. QED  BY <2>2, <2>3
<1>2. Terms(u, v, s, g, c) \in [1 .. s -> Int]
  BY <1>1 DEF Terms
<1>. QED  BY <1>2, PartialSumsAre DEF Conv

(* u is U modulo X^l - z.                                                  *)
Split(u, U, z, l) == \A c \in 0 .. l - 1 : Same(u[c], U[c] + z * U[c + l])

(* One term of the product of the remainders, from two pairs of terms of   *)
(* the product.                                                            *)
LEMMA TermSplit ==
  ASSUME NEW l \in Nat, NEW U \in [0 .. 2 * l - 1 -> Int], NEW V \in [0 .. 2 * l - 1 -> Int],
         NEW u \in [0 .. l - 1 -> Int], NEW v \in [0 .. l - 1 -> Int], NEW z \in Int, NEW g \in Int,
         Same(z * z, g), Split(u, U, z, l), Split(v, V, z, l), NEW c \in 0 .. l - 1, NEW j \in 1 .. l,
         NEW t, NEW t1, NEW t2,
         t = Terms(u, v, l, z, c), t1 = Terms(U, V, 2 * l, g, c), t2 = Terms(U, V, 2 * l, g, c + l)
  PROVE  Same(t[j], (t1[j] + t1[j + l]) + z * (t2[j] + t2[j + l]))
<1>1. PICK i \in 0 .. l - 1 : i = j - 1
  OBVIOUS
<1>2. /\ j \in 1 .. 2 * l /\ j + l \in 1 .. 2 * l /\ (j + l) - 1 = i + l
      /\ i \in 0 .. 2 * l - 1 /\ i + l \in 0 .. 2 * l - 1
  BY <1>1
<1>3. PICK a1 \in Int, b1 \in Int, u1 \in Int : /\ a1 = U[i] /\ b1 = U[i + l] /\ u1 = u[i]
                                              /\ Same(u1, a1 + z * b1)
  <2>1. U[i] \in Int /\ U[i + l] \in Int /\ u[i] \in Int /\ Same(u[i], U[i] + z * U[i + l])
    BY <1>2 DEF Split
  <2>. QED  BY <2>1
<1>4. /\ t[j] = IF i <= c THEN u[i] * v[c - i] ELSE z * (u[i] * v[l + c - i])
      /\ t1[j] = IF i <= c THEN U[i] * V[c - i] ELSE g * (U[i] * V[2 * l + c - i])
      /\ t1[j + l] = IF i + l <= c THEN U[i + l] * V[c - (i + l)]
                     ELSE g * (U[i + l] * V[2 * l + c - (i + l)])
      /\ t2[j] = IF i <= c + l THEN U[i] * V[(c + l) - i]
                 ELSE g * (U[i] * V[2 * l + (c + l) - i])
      /\ t2[j + l] = IF i + l <= c + l THEN U[i + l] * V[(c + l) - (i + l)]
                     ELSE g * (U[i + l] * V[2 * l + (c + l) - (i + l)])
  BY <1>1, <1>2 DEF Terms
<1>5. /\ ~ (i + l <= c) /\ i <= c + l /\ 2 * l + c - (i + l) = l + c - i
      /\ (c + l) - (i + l) = c - i /\ 2 * l + (c + l) - (i + l) = 2 * l + c - i
      /\ (c + l) - i = l + c - i
      /\ i + l <= c + l <=> i <= c
  OBVIOUS
<1>6. CASE i <= c
  <2>1. PICK c1 \in Int, d1 \in Int, v1 \in Int : /\ c1 = V[c - i] /\ d1 = V[l + c - i] /\ v1 = v[c - i]
                                                /\ Same(v1, c1 + z * d1)
    <3>1. c - i \in 0 .. l - 1 /\ c - i \in 0 .. 2 * l - 1 /\ l + c - i \in 0 .. 2 * l - 1 /\ (c - i) + l = l + c - i
      BY <1>6
    <3>2. V[c - i] \in Int /\ V[l + c - i] \in Int /\ v[c - i] \in Int
      BY <3>1
    <3>3. Same(v[c - i], V[c - i] + z * V[l + c - i])
      BY <3>1 DEF Split
    <3>. QED  BY <3>2, <3>3
  <2>2. t[j] = u1 * v1 /\ t1[j] = a1 * c1 /\ t1[j + l] = g * (b1 * d1) /\ t2[j] = a1 * d1 /\ t2[j + l] = b1 * c1
    BY <1>3, <1>4, <1>5, <1>6, <2>1
  <2>3. Same(u1 * v1, (a1 * c1 + g * (b1 * d1)) + z * (a1 * d1 + b1 * c1))
    <3>1. Crossed(z, g, u1, v1, a1, b1, c1, d1)
      BY <1>3, <2>1, Cross
    <3>. QED  BY <3>1 DEF Crossed
  <2>. QED  BY <2>2, <2>3
<1>7. CASE ~ (i <= c)
  <2>1. PICK c1 \in Int, d1 \in Int, v1 \in Int :
          /\ c1 = V[l + c - i] /\ d1 = V[2 * l + c - i] /\ v1 = v[l + c - i] /\ Same(v1, c1 + z * d1)
    <3>1. /\ l + c - i \in 0 .. l - 1 /\ l + c - i \in 0 .. 2 * l - 1
          /\ 2 * l + c - i \in 0 .. 2 * l - 1 /\ (l + c - i) + l = 2 * l + c - i
      BY <1>7
    <3>2. V[l + c - i] \in Int /\ V[2 * l + c - i] \in Int /\ v[l + c - i] \in Int
      BY <3>1
    <3>3. Same(v[l + c - i], V[l + c - i] + z * V[2 * l + c - i])
      BY <3>1 DEF Split
    <3>. QED  BY <3>2, <3>3
  <2>2. /\ t[j] = z * (u1 * v1) /\ t1[j] = g * (a1 * d1) /\ t1[j + l] = g * (b1 * c1)
        /\ t2[j] = a1 * c1 /\ t2[j + l] = g * (b1 * d1)
    BY <1>3, <1>4, <1>5, <1>7, <2>1
  <2>3. Same(z * (u1 * v1), (g * (a1 * d1) + g * (b1 * c1)) + z * (a1 * c1 + g * (b1 * d1)))
    <3>1. Crossed(z, g, u1, v1, a1, b1, c1, d1)
      BY <1>3, <2>1, Cross
    <3>. QED  BY <3>1 DEF Crossed
  <2>. QED  BY <2>2, <2>3
<1>. QED  BY <1>6, <1>7

(* The product of the remainders is the remainder of the product.          *)
LEMMA ConvSplit ==
  ASSUME NEW l \in Nat, NEW U \in [0 .. 2 * l - 1 -> Int], NEW V \in [0 .. 2 * l - 1 -> Int],
         NEW u \in [0 .. l - 1 -> Int], NEW v \in [0 .. l - 1 -> Int], NEW z \in Int, NEW g \in Int,
         Same(z * z, g), Split(u, U, z, l), Split(v, V, z, l), NEW c \in 0 .. l - 1
  PROVE  Same(Conv(u, v, l, z, c), Conv(U, V, 2 * l, g, c) + z * Conv(U, V, 2 * l, g, c + l))
<1>1. PICK t \in [1 .. l -> Int], t1 \in [1 .. 2 * l -> Int], t2 \in [1 .. 2 * l -> Int] :
        t = Terms(u, v, l, z, c) /\ t1 = Terms(U, V, 2 * l, g, c) /\ t2 = Terms(U, V, 2 * l, g, c + l)
  <2>1. Terms(u, v, l, z, c) \in [1 .. l -> Int]
    BY TermsInt
  <2>2. /\ Terms(U, V, 2 * l, g, c) \in [1 .. 2 * l -> Int]
        /\ Terms(U, V, 2 * l, g, c + l) \in [1 .. 2 * l -> Int]
    <3>1. PICK s \in Nat : s = 2 * l
      OBVIOUS
    <3>2. /\ c \in 0 .. s - 1 /\ c + l \in 0 .. s - 1
          /\ U \in [0 .. s - 1 -> Int] /\ V \in [0 .. s - 1 -> Int]
      BY <3>1
    <3>3. Terms(U, V, s, g, c) \in [1 .. s -> Int] /\ Terms(U, V, s, g, c + l) \in [1 .. s -> Int]
      BY <3>2, TermsInt
    <3>. QED  BY <3>1, <3>3
  <2>. QED  BY <2>1, <2>2
<1>. DEFINE f == PartialSums(t, l)
<1>2. AddUp(f, t, l) /\ f[l] = Conv(u, v, l, z, c)
  BY <1>1, PartialSumsAre DEF Conv, Total
<1>. HIDE DEF f
<1>3. ASSUME NEW j \in 1 .. l
      PROVE  Same(f[j], f[j - 1] + ((t1[j] + t1[j + l]) + z * (t2[j] + t2[j + l])))
  <2>1. Same(t[j], (t1[j] + t1[j + l]) + z * (t2[j] + t2[j + l]))
    BY <1>1, TermSplit
  <2>2. f[j] = f[j - 1] + t[j] /\ f[j - 1] \in Int /\ t[j] \in Int
    <3>1. j - 1 \in 0 .. l
      OBVIOUS
    <3>. QED  BY <1>2, <3>1 DEF AddUp
  <2>3. PICK e \in Int, d \in Int, h \in Int :
          e = f[j - 1] /\ d = t[j] /\ h = (t1[j] + t1[j + l]) + z * (t2[j] + t2[j + l])
    <3>1. j \in 1 .. 2 * l /\ j + l \in 1 .. 2 * l
      OBVIOUS
    <3>2. t1[j] \in Int /\ t1[j + l] \in Int /\ t2[j] \in Int /\ t2[j + l] \in Int
      BY <3>1
    <3>3. (t1[j] + t1[j + l]) + z * (t2[j] + t2[j + l]) \in Int
      BY <3>2
    <3>. QED  BY <2>2, <3>3
  <2>4. Same(e + d, e + h)
    <3>1. Same(e, e) /\ Same(d, h)
      BY <2>1, <2>3, SameItself
    <3>. QED  BY <3>1, SameSum
  <2>. QED  BY <2>2, <2>3, <2>4
<1>4. f \in [0 .. l -> Int] /\ f[0] = 0
  BY <1>2 DEF AddUp
<1>5. Same(f[l], Total(t1, 2 * l) + z * Total(t2, 2 * l))
  BY <1>3, <1>4, Folding
<1>. QED  BY <1>1, <1>2, <1>5 DEF Conv

(* The product of Ntt is this one modulo X^256 + 1.                        *)
Negacyclic(p, q) == [j \in Index |-> NegacyclicProduct(p, q, j)]
Coefficients(p) == [j \in 0 .. 255 |-> p[j]]
Term(p, q, j, i) == IF i <= j THEN p[i] * q[j - i] ELSE 0 - p[i] * q[256 + j - i]
IsProduct(f, p, q, j) ==
  /\ f \in [0 .. 128 -> Int] /\ f[0] = 0
  /\ \A i \in 1 .. 128 : f[i] = (f[i - 1] + Term(p, q, j, i - 1) + Term(p, q, j, i + 127)) % Q

LEMMA TermInt ==
  ASSUME NEW p, Ints(p), NEW q, Ints(q), NEW j \in Index, NEW i \in Index
  PROVE  Term(p, q, j, i) \in Int
<1>1. PICK u \in Int : u = p[i]
  BY DEF Ints
<1>2. CASE i <= j
  <2>1. q[j - i] \in Int
    <3>1. j - i \in Index
      BY <1>2 DEF Index, N
    <3>. QED  BY <3>1 DEF Ints
  <2>2. u * q[j - i] \in Int
    BY <2>1
  <2>. QED  BY <1>1, <1>2, <2>2 DEF Term
<1>3. CASE ~ (i <= j)
  <2>1. PICK v \in Int : v = q[256 + j - i]
    <3>1. 256 + j - i \in Index
      BY <1>3 DEF Index, N
    <3>. QED  BY <3>1 DEF Ints
  <2>2. 0 - u * v \in Int
    OBVIOUS
  <2>. QED  BY <1>1, <1>3, <2>1, <2>2 DEF Term
<1>. QED  BY <1>2, <1>3

LEMMA ProductIs ==
  ASSUME NEW p, Ints(p), NEW q, Ints(q), NEW j \in Index
  PROVE  \E f : IsProduct(f, p, q, j) /\ EndsIn(f, NegacyclicProduct(p, q, j))
<1>0. PICK m \in Nat : m = 128
  OBVIOUS
<1>. DEFINE On(i, v) == (v + Term(p, q, j, i - 1) + Term(p, q, j, i + 127)) % Q
            Layer(f) == [i \in 0 .. 128 |-> IF i = 0 THEN 0 ELSE On(i, f[i - 1])]
            f == CHOOSE f : f = Layer(f)
            h == [i \in 1 .. m |-> [v \in Int |-> On(i, v)]]
<1>1. NegacyclicProduct(p, q, j) = f[128]
  BY DEF NegacyclicProduct, Term, N
<1>2. \A i \in 1 .. m, v \in Int : On(i, v) \in Int
  <2>1. ASSUME NEW i \in 1 .. m
        PROVE  Term(p, q, j, i - 1) \in Int /\ Term(p, q, j, i + 127) \in Int
    <3>1. i - 1 \in Index /\ i + 127 \in Index
      BY <1>0 DEF Index, N
    <3>. QED  BY <3>1, TermInt
  <2>. QED  BY <2>1 DEF Q
<1>. HIDE DEF On
<1>3. /\ h \in [1 .. m -> [Int -> Int]] /\ \A i \in 1 .. m, v \in Int : h[i][v] = On(i, v)
      /\ 0 \in Int
      /\ \A i \in 1 .. m : i - 1 \in 0 .. m /\ i \in 0 .. m /\ i # 0
  BY <1>2
<1>. HIDE DEF h
<1>4. PICK d : d \in Recursive(m, Int, 0, h)
  <2>1. Recursive(m, Int, 0, h) # {}
    BY <1>3, Recursion
  <2>. QED  BY <2>1
<1>5. d = Layer(d)
  <2>1. d \in [0 .. m -> Int] /\ d[0] = 0 /\ \A i \in 1 .. m : d[i] = h[i][d[i - 1]]
    BY <1>4 DEF Recursive
  <2>2. \A i \in 1 .. m : d[i] = On(i, d[i - 1])
    BY <1>3, <2>1
  <2>3. d = [i \in 0 .. m |-> IF i = 0 THEN 0 ELSE On(i, d[i - 1])]
    BY <2>1, <2>2
  <2>. QED  BY <1>0, <2>3
<1>6. f = Layer(f)
  BY <1>5
<1>. HIDE DEF f
<1>7. f[0] = 0 /\ f = [i \in 0 .. m |-> f[i]] /\ \A i \in 1 .. m : f[i] = On(i, f[i - 1])
  <2>1. f = [i \in 0 .. m |-> IF i = 0 THEN 0 ELSE On(i, f[i - 1])]
    BY <1>0, <1>6
  <2>2. \A i \in 0 .. m : f[i] = IF i = 0 THEN 0 ELSE On(i, f[i - 1])
    BY <2>1
  <2>3. f = [i \in 0 .. m |-> f[i]]
    BY <2>1, <2>2
  <2>4. 0 \in 0 .. m
    OBVIOUS
  <2>. QED  BY <1>3, <2>2, <2>3, <2>4
<1>8. f \in [0 .. m -> Int]
  <2>1. \A i \in 1 .. m : f[i - 1] \in Int => f[i] = h[i][f[i - 1]]
    BY <1>3, <1>7
  <2>2. Unfolds(f, m, Int, 0, h)
    BY <1>7, <2>1 DEF Unfolds
  <2>3. f \in Recursive(m, Int, 0, h)
    BY <1>3, <2>2, Unfolding
  <2>. QED  BY <2>3 DEF Recursive
<1>9. IsProduct(f, p, q, j) /\ EndsIn(f, NegacyclicProduct(p, q, j))
  BY <1>0, <1>1, <1>7, <1>8 DEF IsProduct, EndsIn, On
<1>. QED  BY <1>9

LEMMA NegacyclicInt == ASSUME NEW p, Ints(p), NEW q, Ints(q) PROVE Ints(Negacyclic(p, q))
<1>1. ASSUME NEW j \in Index PROVE NegacyclicProduct(p, q, j) \in Int
  <2>1. PICK f : IsProduct(f, p, q, j) /\ EndsIn(f, NegacyclicProduct(p, q, j))
    BY ProductIs
  <2>. QED  BY <2>1 DEF IsProduct, EndsIn
<1>. QED  BY <1>1 DEF Ints, Negacyclic

LEMMA NegacyclicSame ==
  ASSUME NEW p, Ints(p), NEW q, Ints(q), NEW j \in Index
  PROVE  Same(Negacyclic(p, q)[j], Conv(Coefficients(p), Coefficients(q), 256, 0 - 1, j))
<1>1. PICK f : IsProduct(f, p, q, j) /\ EndsIn(f, NegacyclicProduct(p, q, j))
  BY ProductIs
<1>2. PICK l \in Nat, g \in Int, o \in Int : l = 128 /\ g = 0 - 1 /\ o = 0
  OBVIOUS
<1>. DEFINE u == Coefficients(p)
            v == Coefficients(q)
            t == Terms(u, v, 2 * l, g, j)
<1>3. u \in [0 .. 2 * l - 1 -> Int] /\ v \in [0 .. 2 * l - 1 -> Int]
  BY <1>2 DEF Coefficients, Ints, Index, N
<1>4. t \in [1 .. 2 * l -> Int]
  <2>1. PICK s \in Nat : s = 2 * l /\ j \in 0 .. s - 1
    BY <1>2 DEF Index, N
  <2>. HIDE DEF u, v
  <2>2. Terms(u, v, s, g, j) \in [1 .. s -> Int]
    BY <1>3, <2>1, TermsInt
  <2>. QED  BY <2>1, <2>2
<1>5. ASSUME NEW i \in Index PROVE t[i + 1] = Term(p, q, j, i)
  <2>1. i + 1 \in 1 .. 2 * l /\ (i + 1) - 1 = i
    BY <1>2 DEF Index, N
  <2>2. PICK e \in Int : e = p[i] /\ u[i] = e
    <3>1. p[i] \in Int
      BY DEF Ints
    <3>2. i \in 0 .. 255
      BY DEF Index, N
    <3>3. u[i] = p[i]
      BY <3>2 DEF Coefficients
    <3>. QED  BY <3>1, <3>3
  <2>. HIDE DEF u
  <2>3. t[i + 1] = IF i <= j THEN e * v[j - i] ELSE g * (e * v[256 + j - i])
    BY <1>2, <2>1, <2>2 DEF Terms
  <2>4. CASE i <= j
    <3>1. v[j - i] = q[j - i]
      BY <2>4 DEF Coefficients, Index, N
    <3>. HIDE DEF v
    <3>. QED  BY <2>2, <2>3, <2>4, <3>1 DEF Term
  <2>5. CASE ~ (i <= j)
    <3>1. PICK d \in Int : d = q[256 + j - i] /\ v[256 + j - i] = d
      <4>1. 256 + j - i \in Index /\ 256 + j - i \in 0 .. 255
        BY <2>5 DEF Index, N
      <4>2. q[256 + j - i] \in Int
        BY <4>1 DEF Ints
      <4>3. v[256 + j - i] = q[256 + j - i]
        BY <4>1 DEF Coefficients
      <4>. QED  BY <4>2, <4>3
    <3>. HIDE DEF v
    <3>2. g * (e * d) = 0 - e * d
      BY <1>2
    <3>. QED  BY <2>2, <2>3, <2>5, <3>1, <3>2 DEF Term
  <2>. QED  BY <2>4, <2>5
<1>. HIDE DEF u, v, t
<1>6. f \in [0 .. l -> Int] /\ f[0] = 0
  BY <1>1, <1>2 DEF IsProduct
<1>7. ASSUME NEW i \in 1 .. l
      PROVE  Same(f[i], f[i - 1] + ((t[i] + t[i + l]) + o * (t[i] + t[i + l])))
  <2>1. /\ i - 1 \in Index /\ i + 127 \in Index /\ (i - 1) + 1 = i /\ (i + 127) + 1 = i + l
        /\ i \in 1 .. 128 /\ i - 1 \in 0 .. l
    BY <1>2 DEF Index, N
  <2>2. PICK d \in Int, e \in Int, h \in Int :
          /\ d = Term(p, q, j, i - 1) /\ e = Term(p, q, j, i + 127) /\ h = f[i - 1]
          /\ t[i] = d /\ t[i + l] = e
    <3>1. t[(i - 1) + 1] = Term(p, q, j, i - 1) /\ t[(i + 127) + 1] = Term(p, q, j, i + 127)
      BY <1>5, <2>1
    <3>2. Term(p, q, j, i - 1) \in Int /\ Term(p, q, j, i + 127) \in Int
      BY <2>1, TermInt
    <3>. QED  BY <1>6, <2>1, <3>1, <3>2
  <2>3. f[i] = (h + d + e) % Q
    BY <1>1, <2>1, <2>2 DEF IsProduct
  <2>4. Same((h + d + e) % Q, h + d + e)
    BY h + d + e \in Int, SameRest
  <2>5. h + ((d + e) + o * (d + e)) = h + d + e
    BY <1>2
  <2>. QED  BY <2>2, <2>3, <2>4, <2>5
<1>8. Same(f[l], Total(t, 2 * l) + o * Total(t, 2 * l))
  BY <1>4, <1>6, <1>7, Folding
<1>9. Total(t, 2 * l) \in Int
  BY <1>4, 2 * l \in Nat, PartialSumsAre
<1>10. Same(f[l], Total(t, 2 * l))
  BY <1>2, <1>8, <1>9
<1>11. Total(t, 2 * l) = Conv(u, v, 256, 0 - 1, j)
  BY <1>2 DEF Conv, t
<1>12. Negacyclic(p, q)[j] = f[l]
  BY <1>1, <1>2 DEF Negacyclic, EndsIn
<1>. QED  BY <1>10, <1>11, <1>12 DEF u, v

(* The coefficients of p modulo X^s - g; the nodes of the layer with       *)
(* blocks of s; and that on this layer the remainders of the product are   *)
(* the products of the remainders.                                         *)
Residue(p, s, g) == [c \in 0 .. s - 1 |-> Rem(p, s, g, c)]
Layer(s) == 256 \div s .. 2 * (256 \div s) - 1
ProductsOn(s, p, q) ==
  \A m \in Layer(s), c \in 0 .. s - 1 :
    Same(Conv(Residue(p, s, Node(m)), Residue(q, s, Node(m)), s, Node(m), c),
         Rem(Negacyclic(p, q), s, Node(m), c))

LEMMA ResidueSplit ==
  ASSUME NEW p, Ints(p), NEW l \in ForwardLens, NEW z \in Int, NEW g \in Int, Same(z * z, g)
  PROVE  /\ Residue(p, l, z) \in [0 .. l - 1 -> Int]
         /\ Residue(p, 2 * l, g) \in [0 .. 2 * l - 1 -> Int]
         /\ Split(Residue(p, l, z), Residue(p, 2 * l, g), z, l)
<1>1. l \in Sizes /\ 2 * l \in Sizes /\ l \in Nat
  BY DEF ForwardLens, Sizes
<1>2. Residue(p, l, z) \in [0 .. l - 1 -> Int]
  BY <1>1, RemInt DEF Residue
<1>3. Residue(p, 2 * l, g) \in [0 .. 2 * l - 1 -> Int]
  <2>1. \A c \in 0 .. 2 * l - 1 : Rem(p, 2 * l, g, c) \in Int
    BY <1>1, RemInt
  <2>. QED  BY <2>1 DEF Residue
<1>4. ASSUME NEW c \in 0 .. l - 1
      PROVE  Same(Residue(p, l, z)[c], Residue(p, 2 * l, g)[c] + z * Residue(p, 2 * l, g)[c + l])
  <2>1. c \in 0 .. 2 * l - 1 /\ c + l \in 0 .. 2 * l - 1
    BY <1>1
  <2>2. /\ Residue(p, l, z)[c] = Rem(p, l, z, c)
        /\ Residue(p, 2 * l, g)[c] = Rem(p, 2 * l, g, c)
        /\ Residue(p, 2 * l, g)[c + l] = Rem(p, 2 * l, g, c + l)
    BY <2>1 DEF Residue
  <2>3. Same(Rem(p, l, z, c), Rem(p, 2 * l, g, c) + z * Rem(p, 2 * l, g, c + l))
    BY RemSplit
  <2>. QED  BY <2>2, <2>3
<1>. QED  BY <1>2, <1>3, <1>4 DEF Split

(* The whole product.                                                      *)
LEMMA ProductsWhole ==
  ASSUME NEW p, Ints(p), NEW q, Ints(q)
  PROVE  ProductsOn(256, p, q)
<1>. SUFFICES ASSUME NEW m \in Layer(256), NEW c \in 0 .. 255
              PROVE  Same(Conv(Residue(p, 256, Node(m)), Residue(q, 256, Node(m)), 256, Node(m), c),
                          Rem(Negacyclic(p, q), 256, Node(m), c))
  BY DEF ProductsOn
<1>1. m = 1 /\ Node(m) = 0 - 1 /\ c \in Index /\ 0 - 1 \in Int
  BY DEF Layer, Node, Index, N
<1>2. ASSUME NEW h, Ints(h)
      PROVE  Residue(h, 256, 0 - 1) = Coefficients(h)
  <2>1. \A d \in 0 .. 255 : d \in Index
    BY DEF Index, N
  <2>2. \A d \in 0 .. 255 : Rem(h, 256, 0 - 1, d) = h[d]
    BY <1>1, <1>2, <2>1, RemWhole
  <2>. QED  BY <2>2 DEF Residue, Coefficients
<1>3. Rem(Negacyclic(p, q), 256, 0 - 1, c) = Negacyclic(p, q)[c]
  BY <1>1, NegacyclicInt, RemWhole
<1>4. PICK u \in Int, v \in Int : /\ u = Negacyclic(p, q)[c]
                                 /\ v = Conv(Coefficients(p), Coefficients(q), 256, 0 - 1, c)
  <2>1. Negacyclic(p, q)[c] \in Int
    BY <1>1, NegacyclicInt DEF Ints
  <2>2. Coefficients(p) \in [0 .. 256 - 1 -> Int] /\ Coefficients(q) \in [0 .. 256 - 1 -> Int]
    BY DEF Coefficients, Ints, Index, N
  <2>3. PICK s \in Nat : s = 256
    OBVIOUS
  <2>4. /\ Coefficients(p) \in [0 .. s - 1 -> Int] /\ Coefficients(q) \in [0 .. s - 1 -> Int]
        /\ c \in 0 .. s - 1
    BY <2>2, <2>3
  <2>5. Conv(Coefficients(p), Coefficients(q), s, 0 - 1, c) \in Int
    BY <1>1, <2>4, TermsInt
  <2>. QED  BY <2>1, <2>3, <2>5
<1>5. Same(u, v)
  BY <1>1, <1>4, NegacyclicSame
<1>6. Same(v, u)
  BY <1>5, SameBack
<1>. QED  BY <1>1, <1>2, <1>3, <1>4, <1>6

(* From one layer to the next.                                             *)
LEMMA ProductsNext ==
  ASSUME NEW p, Ints(p), NEW q, Ints(q), NEW l \in ForwardLens, ProductsOn(2 * l, p, q)
  PROVE  ProductsOn(l, p, q)
<1>. SUFFICES ASSUME NEW m \in Layer(l), NEW c \in 0 .. l - 1
              PROVE  Same(Conv(Residue(p, l, Node(m)), Residue(q, l, Node(m)), l, Node(m), c),
                          Rem(Negacyclic(p, q), l, Node(m), c))
  BY DEF ProductsOn
<1>1. /\ m \in 2 .. 255 /\ m \div 2 \in 1 .. 127 /\ m \div 2 \in Layer(2 * l)
      /\ m % 2 \in 0 .. 1 /\ l \in Nat /\ c \in 0 .. 2 * l - 1 /\ c + l \in 0 .. 2 * l - 1
  BY DEF Layer, ForwardLens
<1>2. PICK z \in Int, g \in Int : z = Node(m) /\ g = Node(m \div 2) /\ Same(z * z, g)
  <2>1. m \in 1 .. 255 /\ m \div 2 \in 1 .. 255 /\ m \div 2 \in 0 .. 127
    BY <1>1
  <2>2. PICK e \in Int : e = Z(m \div 2) /\ Same(e * e, Node(m \div 2))
    BY <1>1, <2>1, ZIs, NodeSquares
  <2>3. Node(m) = e \/ Node(m) = 0 - e
    BY <1>1, <2>2 DEF Node
  <2>4. (0 - e) * (0 - e) = e * e
    OBVIOUS
  <2>5. Node(m) * Node(m) = e * e /\ Node(m) \in Int /\ Node(m \div 2) \in Int
    BY <2>1, <2>3, <2>4, ZIs
  <2>. QED  BY <2>2, <2>5
<1>. DEFINE w == Negacyclic(p, q)
            U == Residue(p, 2 * l, g)
            V == Residue(q, 2 * l, g)
            u == Residue(p, l, z)
            v == Residue(q, l, z)
<1>3. Ints(w)
  BY NegacyclicInt
<1>4. /\ U \in [0 .. 2 * l - 1 -> Int] /\ V \in [0 .. 2 * l - 1 -> Int]
      /\ u \in [0 .. l - 1 -> Int] /\ v \in [0 .. l - 1 -> Int]
      /\ Split(u, U, z, l) /\ Split(v, V, z, l)
  BY <1>2, ResidueSplit
<1>5. Same(Conv(U, V, 2 * l, g, c), Rem(w, 2 * l, g, c))
  BY <1>1, <1>2 DEF ProductsOn
<1>6. Same(Conv(U, V, 2 * l, g, c + l), Rem(w, 2 * l, g, c + l))
  BY <1>1, <1>2 DEF ProductsOn
<1>7. Same(Rem(w, l, z, c), Rem(w, 2 * l, g, c) + z * Rem(w, 2 * l, g, c + l))
  BY <1>2, <1>3, RemSplit
<1>. HIDE DEF w, U, V, u, v
<1>8. Same(Conv(u, v, l, z, c), Conv(U, V, 2 * l, g, c) + z * Conv(U, V, 2 * l, g, c + l))
  BY <1>1, <1>2, <1>4, ConvSplit
<1>9. PICK c0 \in Int, c1 \in Int, c2 \in Int, r0 \in Int, r1 \in Int, r2 \in Int :
        /\ c0 = Conv(u, v, l, z, c) /\ c1 = Conv(U, V, 2 * l, g, c) /\ c2 = Conv(U, V, 2 * l, g, c + l)
        /\ r0 = Rem(w, l, z, c) /\ r1 = Rem(w, 2 * l, g, c) /\ r2 = Rem(w, 2 * l, g, c + l)
  <2>1. Conv(u, v, l, z, c) \in Int
    BY <1>1, <1>4, TermsInt
  <2>2. Conv(U, V, 2 * l, g, c) \in Int /\ Conv(U, V, 2 * l, g, c + l) \in Int
    <3>1. PICK s \in Nat : s = 2 * l
      BY <1>1
    <3>2. /\ U \in [0 .. s - 1 -> Int] /\ V \in [0 .. s - 1 -> Int]
          /\ c \in 0 .. s - 1 /\ c + l \in 0 .. s - 1
      BY <1>1, <1>4, <3>1
    <3>3. Conv(U, V, s, g, c) \in Int /\ Conv(U, V, s, g, c + l) \in Int
      BY <3>2, TermsInt
    <3>. QED  BY <3>1, <3>3
  <2>3. l \in Sizes /\ 2 * l \in Sizes
    BY DEF ForwardLens, Sizes
  <2>4. Rem(w, l, z, c) \in Int /\ Rem(w, 2 * l, g, c) \in Int /\ Rem(w, 2 * l, g, c + l) \in Int
    BY <1>1, <1>3, <2>3, RemInt
  <2>. QED  BY <2>1, <2>2, <2>4
<1>10. PICK e \in Int, f \in Int : e = z * c2 /\ f = z * r2 /\ Same(e, f)
  <2>1. Same(z, z) /\ Same(c2, r2)
    BY <1>6, <1>9, SameItself
  <2>2. Same(z * c2, z * r2) /\ z * c2 \in Int /\ z * r2 \in Int
    BY <2>1, SameProduct
  <2>. QED  BY <2>2
<1>11. Same(c0, c1 + e) /\ Same(c1, r1) /\ Same(r0, r1 + f)
  BY <1>5, <1>7, <1>8, <1>9, <1>10
<1>12. Same(c1 + e, r1 + f)
  BY <1>10, <1>11, SameSum
<1>13. Same(c0, r1 + f) /\ Same(r1 + f, r0)
  <2>1. r1 + f \in Int /\ c1 + e \in Int
    OBVIOUS
  <2>. QED  BY <1>11, <1>12, <2>1, SameOn, SameBack
<1>14. Same(c0, r0)
  BY <1>13, r1 + f \in Int, SameOn
<1>. QED  BY <1>2, <1>9, <1>14 DEF u, v, w

LEMMA ProductsLast ==
  ASSUME NEW p, Ints(p), NEW q, Ints(q)
  PROVE  ProductsOn(2, p, q)
<1>1. ProductsOn(256, p, q)
  BY ProductsWhole
<1>2. /\ 2 * 128 = 256 /\ 2 * 64 = 128 /\ 2 * 32 = 64 /\ 2 * 16 = 32 /\ 2 * 8 = 16
      /\ 2 * 4 = 8 /\ 2 * 2 = 4 /\ ForwardLens = {2, 4, 8, 16, 32, 64, 128}
  BY DEF ForwardLens
<1>3. \A l \in ForwardLens : ProductsOn(2 * l, p, q) => ProductsOn(l, p, q)
  BY ProductsNext
<1>4. ProductsOn(128, p, q)
  BY <1>1, <1>2, <1>3
<1>5. ProductsOn(64, p, q)
  BY <1>2, <1>3, <1>4
<1>6. ProductsOn(32, p, q)
  BY <1>2, <1>3, <1>5
<1>7. ProductsOn(16, p, q)
  BY <1>2, <1>3, <1>6
<1>8. ProductsOn(8, p, q)
  BY <1>2, <1>3, <1>7
<1>9. ProductsOn(4, p, q)
  BY <1>2, <1>3, <1>8
<1>. QED  BY <1>2, <1>3, <1>9

(* Modulo X^2 - g.                                                         *)
IsPair(p, g, p0, p1) == p0 = Rem(p, 2, g, 0) /\ p1 = Rem(p, 2, g, 1)
IsPairProduct(p, q, g, p0, p1, q0, q1) ==
  /\ Same(p0 * q0 + g * (p1 * q1), Rem(Negacyclic(p, q), 2, g, 0))
  /\ Same(p0 * q1 + p1 * q0, Rem(Negacyclic(p, q), 2, g, 1))

LEMMA PairProduct ==
  ASSUME NEW p, Ints(p), NEW q, Ints(q), NEW m \in 128 .. 255, NEW g \in Int, g = Node(m),
         NEW p0 \in Int, NEW p1 \in Int, NEW q0 \in Int, NEW q1 \in Int,
         IsPair(p, g, p0, p1), IsPair(q, g, q0, q1)
  PROVE  IsPairProduct(p, q, g, p0, p1, q0, q1)
<1>. DEFINE u == Residue(p, 2, g)
            v == Residue(q, 2, g)
<1>0. PICK s \in Nat : s = 2
  OBVIOUS
<1>1. /\ u \in [0 .. s - 1 -> Int] /\ v \in [0 .. s - 1 -> Int]
      /\ u[0] = p0 /\ u[1] = p1 /\ v[0] = q0 /\ v[1] = q1
  <2>1. 2 \in Sizes
    BY DEF Sizes
  <2>2. \A c \in 0 .. 2 - 1 : Rem(p, 2, g, c) \in Int /\ Rem(q, 2, g, c) \in Int
    BY <2>1, RemInt
  <2>. QED  BY <1>0, <2>2 DEF Residue, IsPair
<1>. HIDE DEF u, v
<1>2. ASSUME NEW c \in 0 .. 1, NEW t, t = Terms(u, v, s, g, c)
      PROVE  t[1] \in Int /\ t[2] \in Int /\ Conv(u, v, s, g, c) = t[1] + t[2]
  <2>1. t \in [1 .. s -> Int]
    <3>1. c \in 0 .. s - 1
      BY <1>0
    <3>. QED  BY <1>1, <1>2, <3>1, TermsInt
  <2>2. AddUp(PartialSums(t, s), t, s) /\ Total(t, s) = PartialSums(t, s)[s]
    BY <2>1, PartialSumsAre DEF Total
  <2>3. 1 \in 1 .. s /\ 2 \in 1 .. s /\ 1 - 1 = 0 /\ 2 - 1 = 1
    BY <1>0
  <2>4. PICK f : f = PartialSums(t, s) /\ AddUp(f, t, s)
    BY <2>2
  <2>5. f[1] = f[0] + t[1] /\ f[2] = f[1] + t[2] /\ f[0] = 0
    BY <2>3, <2>4 DEF AddUp
  <2>6. t[1] \in Int /\ t[2] \in Int
    BY <2>1, <2>3
  <2>7. f[2] = t[1] + t[2]
    BY <2>5, <2>6
  <2>. QED  BY <1>0, <1>2, <2>2, <2>4, <2>6, <2>7 DEF Conv
<1>3. Conv(u, v, s, g, 0) = p0 * q0 + g * (p1 * q1)
  <2>1. PICK t : t = Terms(u, v, s, g, 0)
    OBVIOUS
  <2>2. t[1] = p0 * q0 /\ t[2] = g * (p1 * q1)
    <3>1. /\ 1 \in 1 .. s /\ 2 \in 1 .. s /\ 1 - 1 <= 0 /\ ~ (2 - 1 <= 0)
          /\ 1 - 1 = 0 /\ 2 - 1 = 1 /\ 0 - 0 = 0 /\ s + 0 - 1 = 1
      BY <1>0
    <3>2. t[1] = u[1 - 1] * v[0 - (1 - 1)] /\ t[2] = g * (u[2 - 1] * v[s + 0 - (2 - 1)])
      BY <2>1, <3>1 DEF Terms
    <3>. QED  BY <1>1, <3>1, <3>2
  <2>3. Conv(u, v, s, g, 0) = t[1] + t[2]
    BY <1>2, <2>1
  <2>. QED  BY <2>2, <2>3
<1>4. Conv(u, v, s, g, 1) = p0 * q1 + p1 * q0
  <2>1. PICK t : t = Terms(u, v, s, g, 1)
    OBVIOUS
  <2>2. t[1] = p0 * q1 /\ t[2] = p1 * q0
    <3>1. /\ 1 \in 1 .. s /\ 2 \in 1 .. s /\ 1 - 1 <= 1 /\ 2 - 1 <= 1
          /\ 1 - 1 = 0 /\ 2 - 1 = 1 /\ 1 - 0 = 1
      BY <1>0
    <3>2. t[1] = u[1 - 1] * v[1 - (1 - 1)] /\ t[2] = u[2 - 1] * v[1 - (2 - 1)]
      BY <2>1, <3>1 DEF Terms
    <3>. QED  BY <1>1, <3>1, <3>2
  <2>3. Conv(u, v, s, g, 1) = t[1] + t[2]
    BY <1>2, <2>1
  <2>. QED  BY <2>2, <2>3
<1>5. \A c \in 0 .. 1 : Same(Conv(u, v, s, g, c), Rem(Negacyclic(p, q), 2, g, c))
  <2>1. m \in Layer(2) /\ 2 - 1 = 1
    BY DEF Layer
  <2>. QED  BY <1>0, <2>1, ProductsLast DEF ProductsOn, u, v
<1>. QED  BY <1>3, <1>4, <1>5 DEF IsPairProduct

Images(q, p) == \A j \in Index : q[j] \in Int /\ Same(q[j], Image(p, 2, j))

(* The factor of the pair at i.                                            *)
LEMMA PairNode ==
  ASSUME NEW i \in Index, i % 2 = 0
  PROVE  169 * ZetaOf(i) = Node((256 + i) \div 2) /\ ZetaOf(i) \in Int
<1>1. PICK m \in 128 .. 255 : m = (256 + i) \div 2
  BY DEF Index, N
<1>2. /\ m # 1 /\ (m % 2 = 0 <=> i % 4 = 0) /\ m \div 2 = 64 + i \div 4
      /\ 64 + i \div 4 \in 0 .. 127
  BY <1>1 DEF Index, N
<1>3. PICK e \in Int : e = Zeta(64 + i \div 4)
  BY <1>2, ZIs
<1>4. Z(m \div 2) = 169 * e
  BY <1>2, <1>3 DEF Z
<1>. QED  BY <1>1, <1>2, <1>3, <1>4 DEF ZetaOf, Node

LEMMA BasemulSame ==
  ASSUME NEW p, Ints(p), NEW q, Ints(q), NEW u, NEW w, Arr(u, 4095), Arr(w, 1664),
         Images(u, q), Images(w, p), NEW j \in Index
  PROVE  Same(basemul(u, w)[j], 169 * Image(Negacyclic(p, q), 2, j))
<1>1. PICK i \in Index : i = j - (j % 2) /\ i % 2 = 0 /\ i + 1 \in Index /\ (i + 1) % 2 = 1 /\ (j = i \/ j = i + 1)
  <2>1. /\ j - (j % 2) \in Index /\ (j - (j % 2)) % 2 = 0 /\ (j - (j % 2)) + 1 \in Index
        /\ ((j - (j % 2)) + 1) % 2 = 1 /\ (j = j - (j % 2) \/ j = (j - (j % 2)) + 1)
    BY DEF Index, N
  <2>. QED  BY <2>1
<1>2. PICK m \in 128 .. 255 : m = (256 + i) \div 2 /\ m = (256 + (i + 1)) \div 2
  <2>1. PICK h \in 0 .. 127 : i = 2 * h
    <3>1. i \div 2 \in 0 .. 127 /\ i = 2 * (i \div 2)
      BY <1>1 DEF Index, N
    <3>. QED  BY <3>1
  <2>2. (256 + 2 * h) \div 2 = 128 + h /\ (256 + (2 * h + 1)) \div 2 = 128 + h
    OBVIOUS
  <2>. QED  BY <2>1, <2>2
<1>3. PICK g \in Int, e \in Int : g = Node(m) /\ e = ZetaOf(i) /\ g = 169 * e
  <2>1. Node(m) \in Int
    BY ZIs
  <2>. QED  BY <1>1, <1>2, <2>1, PairNode
<1>4. PICK p0 \in Int, p1 \in Int, q0 \in Int, q1 \in Int :
        p0 = Rem(p, 2, g, 0) /\ p1 = Rem(p, 2, g, 1) /\ q0 = Rem(q, 2, g, 0) /\ q1 = Rem(q, 2, g, 1)
  <2>1. 2 \in Sizes /\ 0 \in 0 .. 2 - 1 /\ 1 \in 0 .. 2 - 1
    BY DEF Sizes
  <2>2. /\ Rem(p, 2, g, 0) \in Int /\ Rem(p, 2, g, 1) \in Int
        /\ Rem(q, 2, g, 0) \in Int /\ Rem(q, 2, g, 1) \in Int
    BY <2>1, RemInt
  <2>. QED  BY <2>2
<1>5. \A h : Image(h, 2, i) = Rem(h, 2, g, 0) /\ Image(h, 2, i + 1) = Rem(h, 2, g, 1)
  BY <1>1, <1>2, <1>3 DEF Image
<1>6. PICK u0 \in Int, u1 \in Int, w0 \in Int, w1 \in Int :
        /\ u0 = u[i] /\ u1 = u[i + 1] /\ w0 = w[i] /\ w1 = w[i + 1]
        /\ Same(u0, q0) /\ Same(u1, q1) /\ Same(w0, p0) /\ Same(w1, p1)
        /\ Bounded(u0, 4095) /\ Bounded(u1, 4095) /\ Bounded(w0, 1664) /\ Bounded(w1, 1664)
  <2>1. u[i] \in Int /\ u[i + 1] \in Int /\ w[i] \in Int /\ w[i + 1] \in Int
    BY <1>1 DEF Images
  <2>2. Same(u[i], q0) /\ Same(u[i + 1], q1) /\ Same(w[i], p0) /\ Same(w[i + 1], p1)
    BY <1>1, <1>4, <1>5 DEF Images
  <2>3. /\ Bounded(u[i], 4095) /\ Bounded(u[i + 1], 4095)
        /\ Bounded(w[i], 1664) /\ Bounded(w[i + 1], 1664)
    BY <1>1 DEF Arr
  <2>. QED  BY <2>1, <2>2, <2>3
<1>7. \A c \in Int, d \in Int : Bounded(c, 4095) /\ Bounded(d, 1664) =>
        /\ fqmul(c, d) \in Int /\ Same(fqmul(c, d), 169 * (c * d)) /\ Bounded(fqmul(c, d), 1768)
  <2>1. 4095 * 1664 <= 2000000000 /\ P!fqmulBound(4095, 1664) = 1768
    BY DEF P!fqmulBound, P!MontBound, P!Q
  <2>. QED  BY <2>1, FqmulSame, FqmulIs
<1>8. PICK f00 \in Int, f01 \in Int, f10 \in Int, f11 \in Int :
        /\ f00 = fqmul(u0, w0) /\ f01 = fqmul(u0, w1) /\ f10 = fqmul(u1, w0) /\ f11 = fqmul(u1, w1)
        /\ Same(f00, 169 * (u0 * w0)) /\ Same(f01, 169 * (u0 * w1))
        /\ Same(f10, 169 * (u1 * w0)) /\ Same(f11, 169 * (u1 * w1)) /\ Bounded(f11, 1768)
  <2>1. /\ fqmul(u0, w0) \in Int /\ Same(fqmul(u0, w0), 169 * (u0 * w0))
        /\ fqmul(u0, w1) \in Int /\ Same(fqmul(u0, w1), 169 * (u0 * w1))
    BY <1>6, <1>7
  <2>2. /\ fqmul(u1, w0) \in Int /\ Same(fqmul(u1, w0), 169 * (u1 * w0))
        /\ fqmul(u1, w1) \in Int /\ Same(fqmul(u1, w1), 169 * (u1 * w1))
        /\ Bounded(fqmul(u1, w1), 1768)
    BY <1>6, <1>7
  <2>. QED  BY <2>1, <2>2
<1>9. PICK h \in Int : h = fqmul(f11, e) /\ Same(h, 169 * (f11 * e))
  <2>1. Bounded(e, 1659) /\ 1768 * 1659 <= 2000000000
    BY <1>3, ZetaOfIs
  <2>. QED  BY <1>8, <2>1, FqmulSame
<1>10. PICK a00 \in Int, a01 \in Int, a10 \in Int, a11 \in Int :
         /\ a00 = p0 * q0 /\ a01 = p0 * q1 /\ a10 = p1 * q0 /\ a11 = p1 * q1
         /\ Same(u0 * w0, a00) /\ Same(u0 * w1, a10) /\ Same(u1 * w0, a01) /\ Same(u1 * w1, a11)
  <2>1. Same(u0 * w0, q0 * p0) /\ Same(u0 * w1, q0 * p1) /\ Same(u1 * w0, q1 * p0) /\ Same(u1 * w1, q1 * p1)
    <3>1. /\ SameTimes(u0, q0, w0, p0) /\ SameTimes(u0, q0, w1, p1)
          /\ SameTimes(u1, q1, w0, p0) /\ SameTimes(u1, q1, w1, p1)
      BY <1>6, ProductSame
    <3>. QED  BY <3>1 DEF SameTimes
  <2>2. q0 * p0 = p0 * q0 /\ q0 * p1 = p1 * q0 /\ q1 * p0 = p0 * q1 /\ q1 * p1 = p1 * q1
    OBVIOUS
  <2>3. p0 * q0 \in Int /\ p0 * q1 \in Int /\ p1 * q0 \in Int /\ p1 * q1 \in Int
    OBVIOUS
  <2>. QED  BY <2>1, <2>2, <2>3
<1>11. /\ Same(f00, 169 * a00) /\ Same(f01, 169 * a10) /\ Same(f10, 169 * a01) /\ Same(f11, 169 * a11)
  <2>1. ASSUME NEW d0 \in Int, NEW d1 \in Int, NEW d2 \in Int, Same(d0, 169 * d1), Same(d1, d2)
        PROVE  Same(d0, 169 * d2)
    BY <2>1 DEF Same
  <2>2. u0 * w0 \in Int /\ u0 * w1 \in Int /\ u1 * w0 \in Int /\ u1 * w1 \in Int
    OBVIOUS
  <2>. QED  BY <1>8, <1>10, <2>1, <2>2
<1>12. Same(h, 169 * (g * a11))
  <2>1. Same(f11 * e, (169 * a11) * e)
    <3>1. Same(e, e) /\ 169 * a11 \in Int
      BY SameItself
    <3>. QED  BY <1>11, <3>1, SameProduct
  <2>2. (169 * a11) * e = g * a11
    BY <1>3
  <2>3. PICK d1 \in Int, d2 \in Int : d1 = f11 * e /\ d2 = g * a11 /\ Same(d1, d2) /\ Same(h, 169 * d1)
    <3>1. f11 * e \in Int /\ g * a11 \in Int
      OBVIOUS
    <3>. QED  BY <1>9, <2>1, <2>2, <3>1
  <2>4. Same(h, 169 * d2)
    BY <2>3 DEF Same
  <2>. QED  BY <2>3, <2>4
<1>13. /\ Same(a00 + g * a11, Rem(Negacyclic(p, q), 2, g, 0))
       /\ Same(a01 + a10, Rem(Negacyclic(p, q), 2, g, 1))
  <2>1. IsPairProduct(p, q, g, p0, p1, q0, q1)
    <3>1. g = Node(m) /\ IsPair(p, g, p0, p1) /\ IsPair(q, g, q0, q1)
      BY <1>3, <1>4 DEF IsPair
    <3>. QED  BY <3>1, PairProduct
  <2>. QED  BY <1>10, <2>1 DEF IsPairProduct
<1>14. PICK r0 \in Int, r1 \in Int : /\ r0 = Rem(Negacyclic(p, q), 2, g, 0)
                                    /\ r1 = Rem(Negacyclic(p, q), 2, g, 1)
  <2>1. 2 \in Sizes /\ 0 \in 0 .. 2 - 1 /\ 1 \in 0 .. 2 - 1 /\ Ints(Negacyclic(p, q))
    BY NegacyclicInt DEF Sizes
  <2>2. Rem(Negacyclic(p, q), 2, g, 0) \in Int /\ Rem(Negacyclic(p, q), 2, g, 1) \in Int
    BY <2>1, RemInt
  <2>. QED  BY <2>2
<1>15. basemul(u, w)[j] = IF j = i THEN h + f00 ELSE f01 + f10
  BY <1>1, <1>3, <1>6, <1>8, <1>9 DEF basemul
<1>16. Same(h + f00, 169 * r0)
  <2>1. PICK d \in Int : d = g * a11
    OBVIOUS
  <2>2. Same(h + f00, 169 * d + 169 * a00)
    BY <1>11, <1>12, <2>1, SameSum
  <2>3. Same(a00 + d, r0)
    BY <1>13, <1>14, <2>1
  <2>. QED  BY <2>2, <2>3 DEF Same
<1>17. Same(f01 + f10, 169 * r1)
  <2>1. Same(f01 + f10, 169 * a10 + 169 * a01)
    BY <1>11, SameSum
  <2>2. Same(a01 + a10, r1)
    BY <1>13, <1>14
  <2>. QED  BY <2>1, <2>2 DEF Same
<1>18. Image(Negacyclic(p, q), 2, i) = r0 /\ Image(Negacyclic(p, q), 2, i + 1) = r1
  BY <1>5, <1>14
<1>. QED  BY <1>1, <1>15, <1>16, <1>17, <1>18

--------------------------------------------------------------------------------
(* Blocks of invntt, modulo Q.                                             *)

(* Every layer of invntt doubles the coefficients.                         *)
Grown(p, s, c, j)  == c * ((s \div 2) * Image(p, s, j))
HalfMerged(q, p, c) ==
  \A j \in Index : Same(q[j], Grown(p, IF j < start THEN 2 * len ELSE len, c, j))

(* invntt goes through the same table backwards, which on every layer goes *)
(* through the negative inverses.                                          *)
Negated(h, z)  == (h * z + 1) % 3329 = 0
Opposite(e, m) == Negated(Z(e), Z(m))

LEMMA Opposites ==
  /\ Opposite(1, 1)
  /\ \A m \in 2 .. 3 : Opposite(5 - m, m)
  /\ \A m \in 4 .. 7 : Opposite(11 - m, m)
  /\ \A m \in 8 .. 15 : Opposite(23 - m, m)
  /\ \A m \in 16 .. 31 : Opposite(47 - m, m)
  /\ \A m \in 32 .. 63 : Opposite(95 - m, m)
  /\ \A m \in 64 .. 127 : Opposite(191 - m, m)
  BY SMTT(60) DEF Opposite, Negated, Z, Zeta, zetas

LEMMA BackwardNode ==
  ASSUME Backward, len <= 128
  PROVE  \E m : BlockNode(m) /\ Opposite(k, m)
<1>. USE DEF Backward, ForwardLens, BlockNode
<1>0. len \in ForwardLens
  OBVIOUS
<1>1. CASE len = 128
  <2>1. PICK m \in 1 .. 1 : BlockNode(m) /\ k = 2 - m
    <3>1. 2 - k \in 1 .. 1 /\ BlockNode(2 - k) /\ k = 2 - (2 - k)
      BY <1>1
    <3>. QED  BY <3>1
  <2>. QED  BY <2>1, Opposites
<1>2. CASE len = 64
  <2>1. PICK m \in 2 .. 3 : BlockNode(m) /\ k = 5 - m
    <3>1. 5 - k \in 2 .. 3 /\ BlockNode(5 - k) /\ k = 5 - (5 - k)
      BY <1>2
    <3>. QED  BY <3>1
  <2>. QED  BY <2>1, Opposites
<1>3. CASE len = 32
  <2>1. PICK m \in 4 .. 7 : BlockNode(m) /\ k = 11 - m
    <3>1. 11 - k \in 4 .. 7 /\ BlockNode(11 - k) /\ k = 11 - (11 - k)
      BY <1>3
    <3>. QED  BY <3>1
  <2>. QED  BY <2>1, Opposites
<1>4. CASE len = 16
  <2>1. PICK m \in 8 .. 15 : BlockNode(m) /\ k = 23 - m
    <3>1. 23 - k \in 8 .. 15 /\ BlockNode(23 - k) /\ k = 23 - (23 - k)
      BY <1>4
    <3>. QED  BY <3>1
  <2>. QED  BY <2>1, Opposites
<1>5. CASE len = 8
  <2>1. PICK m \in 16 .. 31 : BlockNode(m) /\ k = 47 - m
    <3>1. 47 - k \in 16 .. 31 /\ BlockNode(47 - k) /\ k = 47 - (47 - k)
      BY <1>5
    <3>. QED  BY <3>1
  <2>. QED  BY <2>1, Opposites
<1>6. CASE len = 4
  <2>1. PICK m \in 32 .. 63 : BlockNode(m) /\ k = 95 - m
    <3>1. 95 - k \in 32 .. 63 /\ BlockNode(95 - k) /\ k = 95 - (95 - k)
      BY <1>6
    <3>. QED  BY <3>1
  <2>. QED  BY <2>1, Opposites
<1>7. CASE len = 2
  <2>1. PICK m \in 64 .. 127 : BlockNode(m) /\ k = 191 - m
    <3>1. 191 - k \in 64 .. 127 /\ BlockNode(191 - k) /\ k = 191 - (191 - k)
      BY <1>7
    <3>. QED  BY <3>1
  <2>. QED  BY <2>1, Opposites
<1>. QED  BY <1>0, <1>1, <1>2, <1>3, <1>4, <1>5, <1>6, <1>7 DEF ForwardLens

(* The algebra of a block: from e * (u + z * v) and e * (u - z * v) to      *)
(* 2 * e times u and v.                                                    *)
Merged(h, e, u, v, s, t) == /\ Same(s + t, 2 * (e * u))
                            /\ Same(h * (t - s), 2 * (e * v))

LEMMA Merging ==
  ASSUME NEW z \in Int, NEW h \in Int, Negated(h, z), NEW e \in Int, NEW u \in Int,
         NEW v \in Int, NEW R1 \in Int, NEW R2 \in Int, NEW s \in Int, NEW t \in Int,
         Same(R1, u + z * v), Same(R2, u - z * v), Same(s, e * R1), Same(t, e * R2)
  PROVE  Merged(h, e, u, v, s, t)
<1>1. PICK f \in Int : f = z * v
  OBVIOUS
<1>2. SameTimes(e, e, R1 + R2, 2 * u) /\ SameTimes(e, e, R2 - R1, 0 - 2 * f)
  <2>1. Same(R1 + R2, 2 * u)
    BY <1>1 DEF Same
  <2>2. Same(R2 - R1, 0 - 2 * f)
    BY <1>1 DEF Same
  <2>3. Same(e, e) /\ R1 + R2 \in Int /\ R2 - R1 \in Int /\ 2 * u \in Int /\ 0 - 2 * f \in Int
    BY SameItself
  <2>. QED  BY <2>1, <2>2, <2>3, ProductSame
<1>3. PICK e1 \in Int, e2 \in Int, eu \in Int, ef \in Int, ev \in Int, q \in Int :
        e1 = e * R1 /\ e2 = e * R2 /\ eu = e * u /\ ef = e * f /\ ev = e * v /\ q = h * z
  OBVIOUS
<1>4. Same(e1 + e2, 2 * eu) /\ Same(e2 - e1, 0 - 2 * ef)
  <2>1. /\ e * (R1 + R2) = e1 + e2 /\ e * (2 * u) = 2 * eu
        /\ e * (R2 - R1) = e2 - e1 /\ e * (0 - 2 * f) = 0 - 2 * ef
    BY <1>3
  <2>. QED  BY <1>2, <2>1 DEF SameTimes
<1>5. Same(s, e1) /\ Same(t, e2)
  BY <1>3
<1>6. Same(s + t, e1 + e2) /\ Same(t - s, e2 - e1)
  BY <1>5 DEF Same
<1>7. Same(s + t, 2 * eu) /\ Same(t - s, 0 - 2 * ef)
  <2>1. s + t \in Int /\ e1 + e2 \in Int /\ 2 * eu \in Int
    OBVIOUS
  <2>2. t - s \in Int /\ e2 - e1 \in Int /\ 0 - 2 * ef \in Int
    OBVIOUS
  <2>3. Same(s + t, 2 * eu)
    BY <1>4, <1>6, <2>1, SameOn
  <2>4. Same(t - s, 0 - 2 * ef)
    BY <1>4, <1>6, <2>2, SameOn
  <2>. QED  BY <2>3, <2>4
<1>8. SameTimes(h, h, t - s, 0 - 2 * ef)
  <2>1. Same(h, h) /\ t - s \in Int /\ 0 - 2 * ef \in Int
    BY SameItself
  <2>. QED  BY <1>7, <2>1, ProductSame
<1>9. h * (0 - 2 * ef) = q * (0 - 2 * ev)
  <2>1. ef = z * ev
    <3>1. e * (z * v) = z * (e * v)
      OBVIOUS
    <3>. QED  BY <1>1, <1>3, <3>1
  <2>2. h * (0 - 2 * (z * ev)) = (h * z) * (0 - 2 * ev)
    OBVIOUS
  <2>. QED  BY <1>3, <2>1, <2>2
<1>10. SameTimes(q, 0 - 1, 0 - 2 * ev, 0 - 2 * ev)
  <2>1. (q + 1) % 3329 = 0
    BY <1>3 DEF Negated
  <2>2. Same(q, 0 - 1)
    BY <2>1 DEF Same
  <2>3. 0 - 1 \in Int /\ 0 - 2 * ev \in Int /\ Same(0 - 2 * ev, 0 - 2 * ev)
    BY SameItself
  <2>. QED  BY <2>2, <2>3, ProductSame
<1>11. Same(q * (0 - 2 * ev), 2 * ev)
  <2>1. (0 - 1) * (0 - 2 * ev) = 2 * ev
    OBVIOUS
  <2>. QED  BY <1>10, <2>1 DEF SameTimes
<1>12. Same(h * (t - s), 2 * ev)
  <2>1. Same(h * (t - s), q * (0 - 2 * ev))
    BY <1>8, <1>9 DEF SameTimes
  <2>2. PICK y1 \in Int, y2 \in Int, y3 \in Int : y1 = h * (t - s) /\ y2 = q * (0 - 2 * ev) /\ y3 = 2 * ev
    OBVIOUS
  <2>3. Same(y1, y3)
    BY <1>11, <2>1, <2>2, SameOn
  <2>. QED  BY <2>2, <2>3
<1>. QED  BY <1>3, <1>7, <1>12 DEF Merged

Sums2(p, c, j) ==
  /\ Same(r[j] + r[j + len], Grown(p, 2 * len, c, j))
  /\ Same(Z(k) * (r[j + len] - r[j]), Grown(p, 2 * len, c, j + len))

LEMMA PairMerged ==
  ASSUME Backward, len <= 128, NEW p, Ints(p), NEW c \in Int, Arr(r, 16383), HalfMerged(r, p, c),
         NEW j \in Lower
  PROVE  Sums2(p, c, j)
<1>1. PICK m : BlockNode(m) /\ Opposite(k, m)
  BY BackwardNode
<1>2. /\ len \in ForwardLens /\ len \in Sizes /\ 2 * len \in Sizes /\ start \in 0 .. 255
      /\ k \in 0 .. 127 /\ m \in 1 .. 127 /\ m \in 0 .. 127
      /\ m \in 1 .. 255 /\ 2 * m \in 1 .. 255 /\ 2 * m + 1 \in 1 .. 255
      /\ ~ (j < start) /\ ~ (j + len < start)
  BY <1>1 DEF Backward, ForwardLens, Sizes, Lower, BlockNode
<1>3. PICK d \in Int : /\ d = j - start /\ d \in 0 .. len - 1
                      /\ d \in 0 .. 2 * len - 1 /\ d + len \in 0 .. 2 * len - 1
  <2>1. j - start \in 0 .. len - 1 /\ len \in Nat
    BY <1>1, <1>2, BlockNodes DEF ForwardLens
  <2>. QED  BY <2>1
<1>4. PICK z \in Int, g \in Int, h \in Int :
        z = Z(m) /\ g = Node(m) /\ h = Z(k) /\ Same(z * z, g) /\ Negated(h, z)
  <2>1. Z(m) \in Int /\ Node(m) \in Int /\ Z(k) \in Int
    BY <1>2, ZIs
  <2>2. Same(Z(m) * Z(m), Node(m)) /\ Negated(Z(k), Z(m))
    BY <1>1, <1>2, NodeSquares DEF Opposite
  <2>. QED  BY <2>1, <2>2
<1>5. Node(2 * m) = z /\ Node(2 * m + 1) = 0 - z
  <2>1. /\ 2 * m # 1 /\ (2 * m) % 2 = 0 /\ (2 * m) \div 2 = m
        /\ 2 * m + 1 # 1 /\ (2 * m + 1) % 2 # 0 /\ (2 * m + 1) \div 2 = m
    BY <1>2
  <2>. QED  BY <1>4, <2>1 DEF Node
<1>6. PICK u \in Int, v \in Int : u = Rem(p, 2 * len, g, d) /\ v = Rem(p, 2 * len, g, d + len)
  BY <1>2, <1>3, RemInt
<1>7. PICK R1 \in Int, R2 \in Int : /\ R1 = Rem(p, len, z, d) /\ R2 = Rem(p, len, 0 - z, d)
                                   /\ Same(R1, u + z * v) /\ Same(R2, u - z * v)
  <2>1. Rem(p, len, z, d) \in Int /\ Rem(p, len, 0 - z, d) \in Int
    BY <1>2, <1>3, RemInt
  <2>2. Same(Rem(p, len, z, d), u + z * v)
    BY <1>2, <1>3, <1>4, <1>6, RemSplit
  <2>3. (0 - z) * (0 - z) = z * z /\ u + (0 - z) * v = u - z * v /\ 0 - z \in Int
    OBVIOUS
  <2>4. Same(Rem(p, len, 0 - z, d), u + (0 - z) * v)
    BY <1>2, <1>3, <1>4, <1>6, <2>3, RemSplit
  <2>. QED  BY <2>1, <2>2, <2>3, <2>4
<1>8. /\ Image(p, len, j) = R1 /\ Image(p, len, j + len) = R2
      /\ Image(p, 2 * len, j) = u /\ Image(p, 2 * len, j + len) = v
  BY <1>1, <1>2, <1>3, <1>4, <1>5, <1>6, <1>7, BlockNodes DEF Image
<1>9. PICK i \in Int, e \in Int : len \div 2 = i /\ len = 2 * i /\ (2 * len) \div 2 = len /\ e = c * i
  <2>1. len \div 2 \in Int /\ len = 2 * (len \div 2) /\ (2 * len) \div 2 = len
    BY <1>2 DEF ForwardLens
  <2>2. c * (len \div 2) \in Int
    BY <2>1
  <2>. QED  BY <2>1, <2>2
<1>10. PICK s \in Int, t \in Int : s = r[j] /\ t = r[j + len] /\ Same(s, e * R1) /\ Same(t, e * R2)
  <2>1. j \in Index /\ j + len \in Index
    BY <1>1, <1>2, BlockNodes
  <2>2. r[j] \in Int /\ r[j + len] \in Int
    BY <2>1 DEF Arr, Bounded
  <2>3. Same(r[j], c * (i * R1)) /\ Same(r[j + len], c * (i * R2))
    <3>1. Same(r[j], Grown(p, len, c, j)) /\ Same(r[j + len], Grown(p, len, c, j + len))
      BY <1>2, <2>1 DEF HalfMerged
    <3>2. Grown(p, len, c, j) = c * (i * R1) /\ Grown(p, len, c, j + len) = c * (i * R2)
      BY <1>8, <1>9 DEF Grown
    <3>. QED  BY <3>1, <3>2
  <2>4. c * (i * R1) = (c * i) * R1 /\ c * (i * R2) = (c * i) * R2
    OBVIOUS
  <2>. QED  BY <1>9, <2>2, <2>3, <2>4
<1>11. Same(s + t, 2 * (e * u)) /\ Same(h * (t - s), 2 * (e * v))
  <2>1. Merged(h, e, u, v, s, t)
    BY <1>4, <1>7, <1>10, Merging
  <2>. QED  BY <2>1 DEF Merged
<1>12. c * (len * u) = 2 * (e * u) /\ c * (len * v) = 2 * (e * v)
  <2>1. c * ((2 * i) * u) = 2 * ((c * i) * u) /\ c * ((2 * i) * v) = 2 * ((c * i) * v)
    OBVIOUS
  <2>. QED  BY <1>9, <2>1
<1>13. /\ Grown(p, 2 * len, c, j) = 2 * (e * u)
       /\ Grown(p, 2 * len, c, j + len) = 2 * (e * v)
  BY <1>8, <1>9, <1>12 DEF Grown
<1>. QED  BY <1>4, <1>10, <1>11, <1>13 DEF Sums2

LEMMA InverseSame ==
  ASSUME Backward, len <= 128, InBounds, NEW p, Ints(p), NEW c \in Int, Arr(r, 16383),
         HalfMerged(r, p, c), NEW j \in Index
  PROVE  Same(Halves(Zeta(k))[j], Grown(p, IF j < start + 2 * len THEN 2 * len ELSE len, c, j))
<1>0. \A i \in Index : Bounded(r[i], 16383) /\ r[i] \in Int
  BY DEF Arr, Bounded
<1>1. CASE j \in Lower
  <2>1. j + len \in Index /\ j < start + 2 * len /\ ~ (j \in Upper)
    BY <1>1, BlockIndices
  <2>2. PICK e \in Int : e = r[j] + r[j + len] /\ Bounded(e, 32767)
    BY <1>0, <2>1 DEF Bounded
  <2>3. Halves(Zeta(k))[j] = barrett_reduce(int16(e))
    BY <1>1, <2>1, <2>2 DEF Halves, Differences
  <2>4. int16(e) = e
    BY <2>2, Int16Is
  <2>5. barrett_reduce(e) \in Int /\ Same(barrett_reduce(e), e)
    BY <2>2, BarrettSame
  <2>6. Same(e, Grown(p, 2 * len, c, j))
    BY <1>1, <2>2, PairMerged DEF Sums2
  <2>7. Grown(p, 2 * len, c, j) \in Int
    <3>1. 2 * len \in Sizes /\ (2 * len) \div 2 \in Int
      BY DEF Backward, ForwardLens, Sizes
    <3>2. Image(p, 2 * len, j) \in Int
      BY <3>1, ImageInt
    <3>3. ((2 * len) \div 2) * Image(p, 2 * len, j) \in Int
      BY <3>1, <3>2
    <3>. QED  BY <3>3 DEF Grown
  <2>8. Same(barrett_reduce(e), Grown(p, 2 * len, c, j))
    BY <2>5, <2>6, <2>7, SameOn
  <2>. QED  BY <2>1, <2>3, <2>4, <2>8
<1>2. CASE j \in Upper
  <2>1. /\ j - len \in Lower /\ j - len \in Index /\ (j - len) + len = j /\ j < start + 2 * len
        /\ ~ (j \in Lower)
    BY <1>2, BlockIndices DEF InBounds, Lower, Upper, Index
  <2>2. PICK e \in Int : e = r[j] - r[j - len] /\ Bounded(e, 32767)
    BY <1>0, <2>1 DEF Bounded
  <2>3. Halves(Zeta(k))[j] = fqmul(Zeta(k), int16(e))
    BY <1>2, <2>1, <2>2 DEF Halves, Differences
  <2>4. int16(e) = e
    BY <2>2, Int16Is
  <2>5. fqmul(Zeta(k), e) \in Int /\ Same(fqmul(Zeta(k), e), Z(k) * e)
    <3>1. k \in 0 .. 127 /\ 1659 * 32767 <= 2000000000
      BY DEF Backward, ForwardLens
    <3>2. Bounded(Zeta(k), 1659) /\ Zeta(k) \in Int
      BY <3>1, ZetaIs, ZIs
    <3>3. fqmul(Zeta(k), e) \in Int /\ Same(fqmul(Zeta(k), e), 169 * (Zeta(k) * e))
      BY <2>2, <3>1, <3>2, FqmulSame
    <3>4. 169 * (Zeta(k) * e) = Z(k) * e
      BY <3>2 DEF Z
    <3>. QED  BY <3>3, <3>4
  <2>6. Same(Z(k) * e, Grown(p, 2 * len, c, j))
    <3>1. Sums2(p, c, j - len)
      BY <2>1, PairMerged
    <3>. QED  BY <2>1, <2>2, <3>1 DEF Sums2
  <2>7. Grown(p, 2 * len, c, j) \in Int
    <3>1. 2 * len \in Sizes /\ (2 * len) \div 2 \in Int
      BY DEF Backward, ForwardLens, Sizes
    <3>2. Image(p, 2 * len, j) \in Int
      BY <3>1, ImageInt
    <3>3. ((2 * len) \div 2) * Image(p, 2 * len, j) \in Int
      BY <3>1, <3>2
    <3>. QED  BY <3>3 DEF Grown
  <2>8. Z(k) * e \in Int
    <3>1. k \in 0 .. 127
      BY DEF Backward, ForwardLens
    <3>2. Z(k) \in Int
      BY <3>1, ZIs
    <3>. QED  BY <3>2
  <2>9. Same(fqmul(Zeta(k), e), Grown(p, 2 * len, c, j))
    BY <2>5, <2>6, <2>7, <2>8, SameOn
  <2>. QED  BY <2>1, <2>3, <2>4, <2>9
<1>3. CASE j \notin Lower /\ j \notin Upper
  <2>1. Halves(Zeta(k))[j] = r[j] /\ (j < start <=> j < start + 2 * len)
    BY <1>3, BlockIndices DEF Halves
  <2>. QED  BY <2>1 DEF HalfMerged
<1>. QED  BY <1>1, <1>2, <1>3

--------------------------------------------------------------------------------
(* The second invariant: what the arrays are modulo Q.                     *)

Polynomials == (pc \in {"ntt_x", "ntt_y"} \/ x # Extreme) => Ints(x) /\ Ints(y)
(* Between two blocks of ntt.                                              *)
Remainders ==
  /\ pc = "ntt_x" => Halfway(r, x)
  /\ pc = "ntt_y" => Halfway(r, y)
  /\ (pc \in {"ntt_x", "ntt_y"} /\ len = 1) => start = 0
(* The factors.                                                            *)
Factors ==
  /\ pc = "ntt_y" => Images(a, x)
  /\ (pc = "basemul" /\ x # Extreme) => Images(a, x) /\ Images(b, y)
(* n products, each divided by 2^16.                                       *)
Products(m) == \A j \in Index : Same(r[j], (169 * m) * Image(Negacyclic(x, y), 2, j))
Accumulates == (pc = "basemul" /\ x # Extreme /\ n > 0) => Products(n)
(* Between two blocks of invntt, and at the end.                           *)
Merges ==
  /\ (pc = "inv" /\ x # Extreme) => HalfMerged(r, Negacyclic(x, y), 169 * K)
  /\ (pc = "done" /\ x # Extreme) => \A j \in Index : Same(r[j], K * Negacyclic(x, y)[j])

Exact == Polynomials /\ Remainders /\ Factors /\ Accumulates /\ Merges

(* Before the first layer of ntt nothing has to have happened.             *)
LEMMA HalfwayBegins ==
  ASSUME NEW p, Ints(p)
  PROVE  \A j \in Index : Same(p[j], Image(p, 2 * 128, j))
<1>. SUFFICES ASSUME NEW j \in Index PROVE Same(p[j], Image(p, 256, j))
  OBVIOUS
<1>1. (256 + j) \div 256 = 1 /\ j % 256 = j /\ 1 \in 1 .. 255
  BY DEF Index, N
<1>2. Node(1) \in Int
  BY <1>1, ZIs
<1>3. Image(p, 256, j) = p[j]
  BY <1>1, <1>2, RemWhole DEF Image
<1>. QED  BY <1>3, SameItself DEF Ints

LEMMA NttBlockHalfway ==
  ASSUME IInv, NttBlock, NEW p, Ints(p), Halfway(r, p)
  PROVE  \A j \in Index : Same(r'[j], Image(p, IF j < start' THEN len' ELSE 2 * len', j))
<1>1. Arr(r, 32767)
  <2>1. /\ HalfDone(r, Before(len), Before(len \div 2), start)
        /\ Before(len) \in Nat /\ Before(len) <= Before(len \div 2) /\ Before(len \div 2) <= 32767
        /\ Before(len \div 2) \in Nat
    BY NttBlockStores
  <2>. DEFINE lo == Before(len)
              hi == Before(len \div 2)
  <2>2. HalfDone(r, lo, hi, start) /\ lo \in Nat /\ hi \in Nat /\ lo <= hi /\ hi <= 32767
    BY <2>1
  <2>. HIDE DEF lo, hi
  <2>3. \A j \in Index : Bounded(r[j], lo) \/ Bounded(r[j], hi)
    BY <2>2 DEF HalfDone
  <2>. QED  BY <2>2, <2>3 DEF Arr, Bounded
<1>2. /\ InBounds /\ len >= 2 /\ len \in ForwardLens /\ Forward
      /\ IsStored(Butterflies(Zeta(k)))
  BY NttBlockStores
<1>. SUFFICES ASSUME NEW j \in Index
              PROVE  Same(r'[j], Image(p, IF j < start' THEN len' ELSE 2 * len', j))
  OBVIOUS
<1>3. Same(r'[j], Image(p, IF j < start + 2 * len THEN len ELSE 2 * len, j))
  <2>1. Same(Butterflies(Zeta(k))[j], Image(p, IF j < start + 2 * len THEN len ELSE 2 * len, j))
    BY <1>1, <1>2, ForwardSame
  <2>2. r'[j] = Butterflies(Zeta(k))[j]
    BY <1>2 DEF IsStored
  <2>. QED  BY <2>1, <2>2
<1>4. CASE start' = start + 2 * len /\ len' = len
  BY <1>3, <1>4
<1>5. CASE start' = 0 /\ len' = len \div 2 /\ start + 2 * len = 256
  <2>1. j < start + 2 * len /\ ~ j < start'
    BY <1>5 DEF Index, N
  <2>2. 2 * len' = len
    BY <1>2, <1>5 DEF ForwardLens
  <2>. QED  BY <1>3, <2>1, <2>2
<1>. QED  BY <1>4, <1>5, NttBlockStores

LEMMA NttBlockExact == IInv /\ Exact /\ NttBlock => Exact'
<1>. SUFFICES ASSUME IInv, Exact, NttBlock PROVE Exact'
  OBVIOUS
<1>1. pc \in {"ntt_x", "ntt_y"} /\ UNCHANGED <<x, y, a, b, n, pc>>
  BY DEF NttBlock
<1>2. Ints(x) /\ Ints(y)
  BY <1>1 DEF Exact, Polynomials
<1>3. (pc = "ntt_x" => Halfway(r, x)') /\ (pc = "ntt_y" => Halfway(r, y)')
  BY <1>1, <1>2, NttBlockHalfway DEF Exact, Remainders, Halfway
<1>4. len' = 1 => start' = 0
  BY NttBlockStores
<1>5. Polynomials'
  BY <1>1, <1>2 DEF Polynomials, Ints
<1>6. Remainders'
  BY <1>1, <1>3, <1>4 DEF Remainders
<1>7. Factors'
  BY <1>1 DEF Exact, Factors, Images
<1>8. Accumulates' /\ Merges'
  BY <1>1 DEF Accumulates, Merges
<1>. QED  BY <1>5, <1>6, <1>7, <1>8 DEF Exact

(* poly_reduce and the conversion to canonical residues change nothing     *)
(* modulo Q.                                                               *)
LEMMA ReducedImages ==
  ASSUME NEW p, Ints(p), Arr(r, 32767), Halfway(r, p), len = 1, start = 0
  PROVE  Images(poly_reduce(r), p) /\ Images(Canonical(poly_reduce(r)), p)
<1>. SUFFICES ASSUME NEW j \in Index
              PROVE  /\ poly_reduce(r)[j] \in Int /\ Same(poly_reduce(r)[j], Image(p, 2, j))
                     /\ Canonical(poly_reduce(r))[j] \in Int
                     /\ Same(Canonical(poly_reduce(r))[j], Image(p, 2, j))
  BY DEF Images
<1>1. Image(p, 2, j) \in Int
  BY ImageInt DEF Sizes
<1>2. Same(r[j], Image(p, 2, j))
  <2>1. ~ j < start /\ 2 * len = 2
    BY DEF Index
  <2>. QED  BY <2>1 DEF Halfway
<1>3. r[j] \in Int /\ Bounded(r[j], 32767)
  BY DEF Arr, Bounded
<1>. DEFINE e == poly_reduce(r)[j]
<1>4. e \in Int /\ Same(e, r[j])
  BY <1>3, BarrettSame DEF poly_reduce
<1>5. Canonical(poly_reduce(r))[j] = IF e < 0 THEN e + Q ELSE e
  BY DEF Canonical
<1>. HIDE DEF e
<1>6. Same(e, Image(p, 2, j))
  BY <1>1, <1>2, <1>3, <1>4, SameOn
<1>7. e + Q \in Int /\ Same(e + Q, e)
  BY <1>4 DEF Same, Q
<1>8. Same(e + Q, Image(p, 2, j))
  BY <1>1, <1>4, <1>6, <1>7, SameOn
<1>. QED  BY <1>4, <1>5, <1>6, <1>7, <1>8 DEF e

LEMMA NttReturnXExact == IInv /\ Exact /\ NttReturnX => Exact'
<1>. SUFFICES ASSUME IInv, Exact, NttReturnX PROVE Exact'
  OBVIOUS
<1>1. /\ pc = "ntt_x" /\ len = 1 /\ a' = poly_reduce(r) /\ r' = y /\ len' = 128 /\ start' = 0
      /\ pc' = "ntt_y" /\ UNCHANGED <<x, y, b, n>>
  BY DEF NttReturnX, NttCall
<1>2. Ints(x) /\ Ints(y) /\ Halfway(r, x) /\ start = 0
  BY <1>1 DEF Exact, Polynomials, Remainders
<1>3. Arr(r, 32767)
  BY <1>1, Transformed
<1>4. Images(a', x)
  BY <1>1, <1>2, <1>3, ReducedImages
<1>5. Polynomials'
  BY <1>1, <1>2 DEF Polynomials, Ints
<1>6. Remainders'
  <2>1. \A j \in Index : Same(y[j], Image(y, 2 * 128, j))
    BY <1>2, HalfwayBegins
  <2>2. ASSUME NEW j \in Index
        PROVE  Same(r'[j], Image(y', IF j < start' THEN len' ELSE 2 * len', j))
    <3>1. ~ j < start'
      BY <1>1 DEF Index
    <3>. QED  BY <1>1, <2>1, <3>1
  <2>. QED  BY <1>1, <2>2 DEF Remainders, Halfway
<1>7. Factors'
  BY <1>1, <1>4 DEF Factors, Images
<1>8. Accumulates' /\ Merges'
  BY <1>1 DEF Accumulates, Merges
<1>. QED  BY <1>5, <1>6, <1>7, <1>8 DEF Exact

LEMMA NttReturnYExact == IInv /\ Exact /\ NttReturnY => Exact'
<1>. SUFFICES ASSUME IInv, Exact, NttReturnY PROVE Exact'
  OBVIOUS
<1>1. /\ pc = "ntt_y" /\ len = 1 /\ b' = Canonical(poly_reduce(r))
      /\ pc' = "basemul" /\ UNCHANGED <<x, y, r, a, n>>
  BY DEF NttReturnY
<1>2. Ints(x) /\ Ints(y) /\ Halfway(r, y) /\ start = 0 /\ Images(a, x)
  BY <1>1 DEF Exact, Polynomials, Remainders, Factors
<1>3. Arr(r, 32767) /\ n = 0
  BY <1>1, Transformed DEF IInv, Sums
<1>4. Images(b', y)
  BY <1>1, <1>2, <1>3, ReducedImages
<1>5. Polynomials'
  BY <1>1, <1>2 DEF Polynomials, Ints
<1>6. Remainders'
  BY <1>1 DEF Remainders
<1>7. Factors'
  BY <1>1, <1>2, <1>4 DEF Factors, Images
<1>8. Accumulates' /\ Merges'
  BY <1>1, <1>3 DEF Accumulates, Merges
<1>. QED  BY <1>5, <1>6, <1>7, <1>8 DEF Exact

(* One more product.                                                       *)
LEMMA OneMore ==
  ASSUME NEW m \in Nat, NEW u \in Int, NEW v \in Int, NEW w \in Int,
         Same(u, (169 * m) * w), Same(v, 169 * w)
  PROVE  Same(u + v, (169 * (m + 1)) * w)
<1>1. (169 * m) * w \in Int /\ 169 * w \in Int
  OBVIOUS
<1>2. Same(u + v, (169 * m) * w + 169 * w)
  BY <1>1, SameSum
<1>3. (169 * m) * w + 169 * w = (169 * (m + 1)) * w
  OBVIOUS
<1>. QED  BY <1>2, <1>3

LEMMA BasemulExact == IInv /\ Exact /\ Basemul => Exact'
<1>. SUFFICES ASSUME IInv, Exact, Basemul PROVE Exact'
  OBVIOUS
<1>1. n' = 1 /\ pc = "basemul" /\ UNCHANGED <<x, y, a, b, k, len, start, pc>>
  BY DEF Basemul
<1>2. ASSUME x # Extreme, NEW j \in Index
      PROVE  Same(r'[j], (169 * n') * Image(Negacyclic(x, y), 2, j))
  <2>1. Ints(x) /\ Ints(y) /\ Images(a, x) /\ Images(b, y) /\ Arr(a, 1664) /\ Arr(b, 4095)
    BY <1>1, <1>2 DEF Exact, Polynomials, Factors, IInv, Operands
  <2>2. Same(basemul(b, a)[j], 169 * Image(Negacyclic(x, y), 2, j))
    BY <1>2, <2>1, BasemulSame
  <2>3. r'[j] = basemul(b, a)[j]
    BY <1>2, BasemulStores DEF IsStored
  <2>4. 169 * n' = 169
    BY <1>1
  <2>. QED  BY <2>2, <2>3, <2>4
<1>3. Polynomials' /\ Factors'
  BY <1>1 DEF Exact, Polynomials, Factors, Ints, Images
<1>4. Remainders' /\ Merges'
  BY <1>1 DEF Remainders, Merges
<1>5. Accumulates'
  BY <1>1, <1>2 DEF Accumulates, Products
<1>. QED  BY <1>3, <1>4, <1>5 DEF Exact

LEMMA BasemulAccExact == IInv /\ Exact /\ BasemulAcc => Exact'
<1>. SUFFICES ASSUME IInv, Exact, BasemulAcc PROVE Exact'
  OBVIOUS
<1>1. /\ n \in Nat /\ 1 <= n /\ n' = n + 1
      /\ pc = "basemul" /\ UNCHANGED <<x, y, a, b, k, len, start, pc>>
  BY DEF BasemulAcc, IInv, Shape
<1>2. ASSUME x # Extreme, NEW j \in Index
      PROVE  Same(r'[j], (169 * n') * Image(Negacyclic(x, y), 2, j))
  <2>. DEFINE w == Image(Negacyclic(x, y), 2, j)
              v == basemul(b, a)[j]
  <2>1. /\ Ints(x) /\ Ints(y) /\ Images(a, x) /\ Images(b, y) /\ Arr(a, 1664) /\ Arr(b, 4095)
        /\ Products(n) /\ Arr(r, 3536 * n)
    BY <1>1, <1>2 DEF Exact, Polynomials, Factors, Accumulates, IInv, Operands, Sums
  <2>2. Same(v, 169 * w)
    BY <1>2, <2>1, BasemulSame
  <2>3. w \in Int
    BY <1>2, <2>1, NegacyclicInt, ImageInt DEF Sizes
  <2>4. v \in Int /\ r[j] \in Int
    BY <1>2, <2>1, BasemulIs DEF Arr, Bounded
  <2>5. Same(r[j], (169 * n) * w)
    BY <1>2, <2>1 DEF Products
  <2>6. r'[j] = r[j] + v
    BY <1>2, BasemulAccStores DEF IsStored, Accumulated
  <2>. HIDE DEF v, w
  <2>7. Same(r[j] + v, (169 * (n + 1)) * w)
    BY <1>1, <2>2, <2>3, <2>4, <2>5, OneMore
  <2>8. Same(r'[j], (169 * n') * w)
    BY <1>1, <2>6, <2>7
  <2>. QED  BY <2>8 DEF w
<1>3. Polynomials' /\ Factors'
  BY <1>1 DEF Exact, Polynomials, Factors, Ints, Images
<1>4. Remainders' /\ Merges'
  BY <1>1 DEF Remainders, Merges
<1>5. Accumulates'
  BY <1>1, <1>2 DEF Accumulates, Products
<1>. QED  BY <1>3, <1>4, <1>5 DEF Exact

LEMMA InvCallExact == IInv /\ Exact /\ InvCall => Exact'
<1>. SUFFICES ASSUME IInv, Exact, InvCall PROVE Exact'
  OBVIOUS
<1>1. /\ pc = "basemul" /\ n = K /\ pc' = "inv" /\ len' = 2 /\ start' = 0 /\ K \in Nat /\ K > 0
      /\ UNCHANGED <<x, y, r, a, b, n>>
  BY NttAssumption DEF InvCall
<1>2. ASSUME x # Extreme, NEW j \in Index
      PROVE  Same(r'[j], Grown(Negacyclic(x, y), IF j < start' THEN 2 * len' ELSE len', 169 * K, j))
  <2>. DEFINE w == Image(Negacyclic(x, y), 2, j)
  <2>1. Ints(x) /\ Ints(y) /\ Products(n)
    BY <1>1, <1>2 DEF Exact, Polynomials, Accumulates
  <2>2. w \in Int
    BY <1>2, <2>1, NegacyclicInt, ImageInt DEF Sizes
  <2>3. Same(r'[j], (169 * K) * w)
    BY <1>1, <1>2, <2>1 DEF Products
  <2>4. (IF j < start' THEN 2 * len' ELSE len') = 2 /\ 2 \div 2 = 1
    BY <1>1 DEF Index
  <2>5. Grown(Negacyclic(x, y), 2, 169 * K, j) = (169 * K) * (1 * w)
    BY <2>4 DEF Grown
  <2>. HIDE DEF w
  <2>6. 1 * w = w
    BY <2>2
  <2>. QED  BY <2>3, <2>4, <2>5, <2>6
<1>3. Polynomials'
  BY <1>1 DEF Exact, Polynomials, Ints
<1>4. Remainders' /\ Factors' /\ Accumulates'
  BY <1>1 DEF Remainders, Factors, Accumulates
<1>5. Merges'
  BY <1>1, <1>2 DEF Merges, HalfMerged
<1>. QED  BY <1>3, <1>4, <1>5 DEF Exact

LEMMA InvBlockExact == IInv /\ Exact /\ InvBlock => Exact'
<1>. SUFFICES ASSUME IInv, Exact, InvBlock PROVE Exact'
  OBVIOUS
<1>1. /\ pc = "inv" /\ r' = Halves(Zeta(k)) /\ Backward /\ len <= 128
      /\ NextBlock(2 * len) /\ k' = k - 1
      /\ HalfDone(r, InvBefore(len), InvBefore(2 * len), start)
      /\ UNCHANGED <<x, y, a, b, n, pc>>
  BY DEF InvBlock, Halves, IInv, TransformsBack
<1>2. /\ InBounds /\ len \in ForwardLens
      /\ \/ start' = start + 2 * len /\ len' = len
         \/ start' = 0 /\ len' = 2 * len /\ start + 2 * len = 256
  BY <1>1, BackwardStep
<1>3. Arr(r, 16383)
  <2>. DEFINE lo == InvBefore(len)
              hi == InvBefore(2 * len)
  <2>1. HalfDone(r, lo, hi, start) /\ lo \in Nat /\ hi \in Nat /\ lo <= 16383 /\ hi <= 16383
    BY <1>1, <1>2, InverseLayer
  <2>. HIDE DEF lo, hi
  <2>2. \A j \in Index : Bounded(r[j], lo) \/ Bounded(r[j], hi)
    BY <2>1 DEF HalfDone
  <2>. QED  BY <2>1, <2>2 DEF Arr, Bounded
<1>4. ASSUME x # Extreme, NEW j \in Index
      PROVE  Same(r'[j], Grown(Negacyclic(x, y), IF j < start' THEN 2 * len' ELSE len', 169 * K, j))
  <2>. DEFINE w == Negacyclic(x, y)
              c == 169 * K
  <2>1. Ints(w) /\ HalfMerged(r, w, c) /\ c \in Int
    BY <1>1, <1>4, NegacyclicInt, NttAssumption DEF Exact, Polynomials, Merges
  <2>. HIDE DEF w, c
  <2>2. Same(r'[j], Grown(w, IF j < start + 2 * len THEN 2 * len ELSE len, c, j))
    BY <1>1, <1>2, <1>3, <1>4, <2>1, InverseSame
  <2>3. CASE start' = start + 2 * len /\ len' = len
    BY <2>2, <2>3 DEF w, c
  <2>4. CASE start' = 0 /\ len' = 2 * len /\ start + 2 * len = 256
    <3>1. j < start + 2 * len /\ ~ j < start'
      BY <1>4, <2>4 DEF Index, N
    <3>. QED  BY <2>2, <2>4, <3>1 DEF w, c
  <2>. QED  BY <1>2, <2>3, <2>4
<1>5. Polynomials'
  BY <1>1 DEF Exact, Polynomials, Ints
<1>6. Remainders' /\ Factors' /\ Accumulates'
  BY <1>1 DEF Remainders, Factors, Accumulates
<1>7. Merges'
  BY <1>1, <1>4 DEF Merges, HalfMerged
<1>. QED  BY <1>5, <1>6, <1>7 DEF Exact

(* 1441 takes back the doublings of seven layers, the division by 2^16 of  *)
(* every product and its own.                                              *)
LEMMA Scaling ==
  ASSUME NEW c \in Int, NEW w \in Int, NEW u \in Int, NEW v \in Int,
         Same(u, (169 * c) * (128 * w)), Same(v, 169 * (u * 1441))
  PROVE  Same(v, c * w)
<1>1. PICK d \in Int : d = c * w
  OBVIOUS
<1>2. (169 * c) * (128 * w) = 21632 * d
  BY <1>1
<1>3. Same(u, 21632 * d) /\ Same(v, 243529 * u) /\ 21632 * d \in Int /\ 243529 * u \in Int
  BY <1>2
<1>4. \E m1 \in Int : u - 21632 * d = 3329 * m1
  <2>1. PICK t \in Int : t = u - 21632 * d
    BY <1>3
  <2>2. t % 3329 = 0
    BY <1>3, <2>1 DEF Same
  <2>3. \E m \in Int : t = 3329 * m
    BY <2>2, Multiple
  <2>. QED  BY <2>1, <2>3
<1>5. \E m2 \in Int : v - 243529 * u = 3329 * m2
  <2>1. PICK t \in Int : t = v - 243529 * u
    BY <1>3
  <2>2. t % 3329 = 0
    BY <1>3, <2>1 DEF Same
  <2>3. \E m \in Int : t = 3329 * m
    BY <2>2, Multiple
  <2>. QED  BY <2>1, <2>3
<1>6. PICK m1 \in Int, m2 \in Int : u - 21632 * d = 3329 * m1 /\ v - 243529 * u = 3329 * m2
  BY <1>4, <1>5
<1>7. Same(v, d)
  <2>1. v - d = 3329 * (m2 + 243529 * m1 + 1582463 * d)
    BY <1>6
  <2>. QED  BY <2>1 DEF Same
<1>. QED  BY <1>1, <1>7

LEMMA InvScaleExact == IInv /\ Exact /\ InvScale => Exact'
<1>. SUFFICES ASSUME IInv, Exact, InvScale PROVE Exact'
  OBVIOUS
<1>1. /\ pc = "inv" /\ len = 256 /\ Backward /\ HalfDone(r, InvBefore(256), InvBefore(2 * 256), start)
      /\ r' = [j \in Index |-> fqmul(r[j], 1441)] /\ pc' = "done"
      /\ UNCHANGED <<x, y, a, b, n>>
  BY DEF InvScale, IInv, TransformsBack
<1>2. start = 0
  BY <1>1 DEF Backward
<1>3. ASSUME x # Extreme, NEW j \in Index
      PROVE  Same(r'[j], K * Negacyclic(x, y)[j])
  <2>. DEFINE p == Negacyclic(x, y)
              w == p[j]
  <2>1. Ints(p) /\ HalfMerged(r, p, 169 * K) /\ K \in Int
    BY <1>1, <1>3, NegacyclicInt, NttAssumption DEF Exact, Polynomials, Merges
  <2>. HIDE DEF p
  <2>2. Image(p, 256, j) = w /\ w \in Int
    <3>1. (256 + j) \div 256 = 1 /\ j % 256 = j /\ 1 \in 1 .. 255
      BY <1>3 DEF Index, N
    <3>2. Node(1) \in Int
      BY <3>1, ZIs
    <3>. QED  BY <1>3, <2>1, <3>1, <3>2, RemWhole DEF Image, Ints
  <2>3. Same(r[j], Grown(p, 256, 169 * K, j))
    <3>1. ~ j < start
      BY <1>2, <1>3 DEF Index
    <3>. QED  BY <1>1, <1>3, <2>1, <3>1 DEF HalfMerged
  <2>4. 256 \div 2 = 128
    OBVIOUS
  <2>. HIDE DEF w
  <2>5. Same(r[j], (169 * K) * (128 * w))
    BY <2>2, <2>3, <2>4 DEF Grown
  <2>6. I7 \in Nat /\ I7 * 1441 <= 2000000000 /\ 1441 \in Nat /\ Bounded(1441, 1441)
    BY InverseSizes DEF Bounded
  <2>7. Bounded(r[j], I7)
    BY <1>1, <1>3 DEF HalfDone, InvBefore
  <2>8. r[j] \in Int
    BY <2>7 DEF Bounded
  <2>9. fqmul(r[j], 1441) \in Int /\ Same(fqmul(r[j], 1441), 169 * (r[j] * 1441))
    BY <2>6, <2>7, FqmulSame
  <2>10. Same(fqmul(r[j], 1441), K * w)
    BY <2>1, <2>2, <2>5, <2>8, <2>9, Scaling
  <2>. QED  BY <1>1, <1>3, <2>10 DEF p, w
<1>4. Polynomials'
  BY <1>1 DEF Exact, Polynomials, Ints
<1>5. Remainders' /\ Factors' /\ Accumulates'
  BY <1>1 DEF Remainders, Factors, Accumulates
<1>6. Merges'
  BY <1>1, <1>3 DEF Merges
<1>. QED  BY <1>4, <1>5, <1>6 DEF Exact

(* It holds of any input.                                                  *)
LEMMA AnyInputExact == AnyInput => Exact
<1>. SUFFICES ASSUME AnyInput PROVE Exact
  OBVIOUS
<1>1. CASE Arr(x, 3328) /\ Arr(y, 3328) /\ r = x /\ pc = "ntt_x"
  <2>1. Ints(x) /\ Ints(y) /\ len = 128 /\ start = 0
    BY <1>1 DEF AnyInput, Arr, Bounded, Ints
  <2>2. \A j \in Index : Same(x[j], Image(x, 2 * 128, j))
    BY <2>1, HalfwayBegins
  <2>3. Halfway(r, x)
    BY <1>1, <2>1, <2>2 DEF Halfway, Index
  <2>. QED
    BY <1>1, <2>1, <2>3 DEF Exact, Polynomials, Remainders, Factors, Accumulates, Merges
<1>2. CASE Arr(a, 1664) /\ Arr(b, 4095) /\ x = Extreme /\ pc = "basemul"
  BY <1>2 DEF Exact, Polynomials, Remainders, Factors, Accumulates, Merges
<1>. QED  BY <1>1, <1>2 DEF AnyInput

LEMMA NextExact == IInv /\ Exact /\ [Next]_vars => Exact'
<1>1. CASE UNCHANGED vars
  BY <1>1 DEF vars, Exact, Polynomials, Remainders, Factors, Accumulates, Products, Merges,
              Ints, Halfway, Images, HalfMerged
<1>. QED
  BY <1>1, NttBlockExact, NttReturnXExact, NttReturnYExact, BasemulExact, BasemulAccExact,
     InvCallExact, InvBlockExact, InvScaleExact DEF Next, Done

(* What the invariant says at the end of ntt.                              *)
LEMMA HalfwayResidues ==
  ASSUME NEW p, Ints(p), Arr(r, 32767), Halfway(r, p), len = 1, start = 0
  PROVE  Residues(r, p)
<1>. SUFFICES ASSUME NEW i \in 0 .. 127, NEW odd \in {0, 1}
              PROVE  (r[2 * i + odd] - Remainder(p, i, odd)) % Q = 0
  BY DEF Residues
<1>1. PICK j \in Index : j = 2 * i + odd
  BY DEF Index, N
<1>2. (256 + j) \div 2 = 128 + i /\ j % 2 = odd
  BY <1>1
<1>. DEFINE u == Remainder(p, i, odd)
            v == Image(p, 2, j)
<1>3. v = Rem(p, 2, Node(128 + i), odd)
  BY <1>2 DEF Image
<1>4. u \in Int /\ Same(u, v)
  BY <1>3, RemainderSame
<1>5. v \in Int
  BY ImageInt DEF Sizes
<1>6. Same(r[j], v)
  <2>1. ~ j < start /\ 2 * len = 2
    BY DEF Index
  <2>. QED  BY <2>1 DEF Halfway
<1>7. r[j] \in Int
  BY DEF Arr, Bounded
<1>. HIDE DEF u, v
<1>8. Same(v, u)
  BY <1>4, <1>5, SameBack
<1>9. Same(r[j], u)
  BY <1>4, <1>5, <1>6, <1>7, <1>8, SameOn
<1>. QED  BY <1>1, <1>9, SameIs DEF u

LEMMA ExactRemainders == IInv /\ Exact => TransformIsRemainders
<1>. SUFFICES ASSUME IInv, Exact PROVE TransformIsRemainders
  OBVIOUS
<1>1. ASSUME pc = "ntt_x", len = 1
      PROVE  Residues(r, x)
  <2>1. Ints(x) /\ Halfway(r, x) /\ start = 0
    BY <1>1 DEF Exact, Polynomials, Remainders
  <2>2. Arr(r, 32767)
    BY <1>1, Transformed
  <2>. QED  BY <1>1, <2>1, <2>2, HalfwayResidues
<1>2. ASSUME pc = "ntt_y", len = 1
      PROVE  Residues(r, y)
  <2>1. Ints(y) /\ Halfway(r, y) /\ start = 0
    BY <1>2 DEF Exact, Polynomials, Remainders
  <2>2. Arr(r, 32767)
    BY <1>2, Transformed
  <2>. QED  BY <1>2, <2>1, <2>2, HalfwayResidues
<1>. QED  BY <1>1, <1>2 DEF TransformIsRemainders

LEMMA ExactProduct == Exact => ProductIsExact
<1>. SUFFICES ASSUME Exact, pc = "done", x # Extreme, NEW j \in Index
              PROVE  (r[j] - K * NegacyclicProduct(x, y, j)) % Q = 0
  BY DEF ProductIsExact
<1>1. Same(r[j], K * Negacyclic(x, y)[j])
  BY DEF Exact, Merges
<1>2. Negacyclic(x, y)[j] = NegacyclicProduct(x, y, j)
  BY DEF Negacyclic
<1>. QED  BY <1>1, <1>2, SameIs

(* Of every polynomial the code can be given ntt leaves the remainders     *)
(* modulo the 128 factors of X^256 + 1, in the order of the table of       *)
(* zetas.                                                                  *)
THEOREM TransformsExactly == AnyInput /\ [][Next]_vars => []TransformIsRemainders
<1>1. AnyInput => IInv /\ Exact
  BY AnyInputIInv, AnyInputExact
<1>2. (IInv /\ Exact) /\ [Next]_vars => (IInv /\ Exact)'
  BY NextIInv, NextExact
<1>3. IInv /\ Exact => TransformIsRemainders
  BY ExactRemainders
<1>. QED  BY <1>1, <1>2, <1>3, PTL

(* ntt, K times basemul and invntt multiply exactly: whatever the two      *)
(* polynomials, the result is K times their product modulo X^256 + 1.      *)
THEOREM MultipliesExactly == AnyInput /\ [][Next]_vars => []ProductIsExact
<1>1. AnyInput => IInv /\ Exact
  BY AnyInputIInv, AnyInputExact
<1>2. (IInv /\ Exact) /\ [Next]_vars => (IInv /\ Exact)'
  BY NextIInv, NextExact
<1>3. IInv /\ Exact => ProductIsExact
  BY ExactProduct
<1>. QED  BY <1>1, <1>2, <1>3, PTL

(* In particular ntt leaves the remainders of the samples TLC runs through. *)
THEOREM SamplesTransform == Spec => []TransformIsRemainders
<1>1. Init => AnyInput
  BY InitAnyInput
<1>. QED  BY <1>1, TransformsExactly, PTL DEF Spec

(* And the products of those samples are exact.                            *)
THEOREM SamplesMultiply == Spec => []ProductIsExact
<1>1. Init => AnyInput
  BY InitAnyInput
<1>. QED  BY <1>1, MultipliesExactly, PTL DEF Spec

================================================================================
