------------------------------ MODULE IndCpaProofs ------------------------------
(***************************************************************************)
(* What IndCpa checks on two messages and two coins, for all of them and   *)
(* for every set of ranks indcpa.c can be built for.                       *)
(*                                                                         *)
(* The first part says what the operations of Poly do to a polynomial of   *)
(* which the domain, the Montgomery factor, the value and a limit for the  *)
(* coefficients are known; the second what the monomials of a ciphertext   *)
(* are; the third is the invariant and its steps.                          *)
(***************************************************************************)
EXTENDS IndCpa, TLAPS

(* A polynomial with domain d, factor m and value t, its coefficients at   *)
(* most limit, that never was too large for 16 bits.                       *)
P(d, m, bd, pe, t) ==
  [dom |-> d, mont |-> m, bound |-> bd, peak |-> pe, terms |-> t]
UpTo(x, limit) == x \in Nat /\ x <= limit
Holds(p, d, m, limit, t) ==
  \E bd, pe : UpTo(bd, limit) /\ UpTo(pe, MaxInt16) /\ p = P(d, m, bd, pe, t)

(* The limits: of a decoder's result, of Barrett's, of the noise, of a     *)
(* value read from bytes, of a product, of up to four products, and after  *)
(* invntt.                                                                 *)
Decoded  == Q - 1
Reduced  == 1664
Noise    == 3
Received == 4095
Product  == 3536
Sums     == 14144
InvLimit == 1716

(* They fit where they are needed.                                         *)
LEMMA Limits ==
  /\ Decoded \in Nat /\ Reduced \in Nat /\ Noise \in Nat /\ Received \in Nat
  /\ Product \in Nat /\ Sums \in Nat /\ InvLimit \in Nat /\ MaxInt16 \in Nat
  /\ Noise <= Decoded /\ Decoded <= Received /\ InvLimit + Noise <= Decoded
  /\ Received <= MaxInt16 /\ Product <= MaxInt16 /\ Sums = 4 * Product
  /\ InvLimit + Noise + 1665 <= MaxInt16 /\ Decoded + InvLimit <= MaxInt16
  /\ Reduced <= MaxInt16 /\ 4 * Product <= MaxInt16
  BY DEF Decoded, Reduced, Noise, Received, Product, Sums, InvLimit, MaxInt16, Q

--------------------------------------------------------------------------------
(* A larger argument has the larger bound, and 16-bit products stay small. *)
LEMMA MontBoundIs ==
  ASSUME NEW a \in Nat, NEW limit \in Nat, a <= limit
  PROVE  UpTo(MontBound(a), MontBound(limit))
  BY DEF MontBound, UpTo, Q

LEMMA ProductIs ==
  ASSUME NEW x \in Nat, NEW y \in Nat, NEW u \in Nat, NEW w \in Nat, x <= u, y <= w
  PROVE  x * y \in Nat /\ x * y <= u * w
<1>1. x * y \in Nat /\ u * y \in Nat /\ u * w \in Nat
  OBVIOUS
<1>2. x * y <= u * y
  OBVIOUS
<1>3. u * y <= u * w
  OBVIOUS
<1>. QED  BY <1>1, <1>2, <1>3

LEMMA FqmulIs ==
  ASSUME NEW x, NEW y, NEW u \in Nat, NEW w \in Nat, UpTo(x, u), UpTo(y, w)
  PROVE  UpTo(fqmulBound(x, y), MontBound(u * w))
<1>1. x * y \in Nat /\ x * y <= u * w /\ u * w \in Nat
  BY ProductIs DEF UpTo
<1>. QED  BY <1>1, MontBoundIs DEF fqmulBound

(* One layer of ntt, and its seven: from the q - 1 a decoder can yield they *)
(* stay within 16 bits.                                                    *)
Butterfly(x) == x + fqmulBound(MaxZeta, x)
NttLayers(f, x) == [l \in 0 .. 7 |-> IF l = 0 THEN x ELSE Butterfly(f[l - 1])]
NttWitness(x) ==
  LET a == Butterfly(x)  c == Butterfly(a)  d == Butterfly(c)
      e == Butterfly(d)  g == Butterfly(e)  h == Butterfly(g)
  IN  [l \in 0 .. 7 |-> IF l = 0 THEN x ELSE IF l = 1 THEN a ELSE IF l = 2 THEN c
         ELSE IF l = 3 THEN d ELSE IF l = 4 THEN e ELSE IF l = 5 THEN g
         ELSE IF l = 6 THEN h ELSE Butterfly(h)]

LEMMA ButterflyIs ==
  ASSUME NEW x, UpTo(x, 18000)
  PROVE  UpTo(Butterfly(x), x + 2121)
<1>1. 1659 * x \in Nat /\ 1659 * x <= 29862000
  BY DEF UpTo
<1>. QED  BY <1>1 DEF Butterfly, fqmulBound, MontBound, UpTo, Q, MaxZeta

LEMMA NttBoundIs ==
  ASSUME NEW x, UpTo(x, Decoded)
  PROVE  UpTo(NttBound(x), MaxInt16)
<1>1. NttWitness(x) = NttLayers(NttWitness(x), x)
  BY DEF NttWitness, NttLayers
<1>2. NttBound(x) = (CHOOSE f : f = NttLayers(f, x))[7]
  BY DEF NttBound, NttLayers, Butterfly
<1>3. PICK f : f = NttLayers(f, x) /\ NttBound(x) = f[7]
  BY <1>1, <1>2
<1>4. \A l \in 0 .. 7 : f[l] = IF l = 0 THEN x ELSE Butterfly(f[l - 1])
  BY <1>3 DEF NttLayers
<1>5. /\ f[0] = x /\ f[1] = Butterfly(f[0]) /\ f[2] = Butterfly(f[1])
      /\ f[3] = Butterfly(f[2]) /\ f[4] = Butterfly(f[3]) /\ f[5] = Butterfly(f[4])
      /\ f[6] = Butterfly(f[5]) /\ f[7] = Butterfly(f[6])
  BY <1>4
<1>6. UpTo(f[1], 5449)
  BY <1>5, ButterflyIs DEF UpTo, Decoded, Q
<1>7. UpTo(f[2], 7570)
  BY <1>5, <1>6, ButterflyIs DEF UpTo
<1>8. UpTo(f[3], 9691)
  BY <1>5, <1>7, ButterflyIs DEF UpTo
<1>9. UpTo(f[4], 11812)
  BY <1>5, <1>8, ButterflyIs DEF UpTo
<1>10. UpTo(f[5], 13933)
  BY <1>5, <1>9, ButterflyIs DEF UpTo
<1>11. UpTo(f[6], 16054)
  BY <1>5, <1>10, ButterflyIs DEF UpTo
<1>12. UpTo(f[7], 18175)
  BY <1>5, <1>11, ButterflyIs DEF UpTo
<1>. QED  BY <1>3, <1>12 DEF UpTo, MaxInt16

(* The same for invntt, from sums of four products on.                     *)
InvButterfly(x) == Larger((Q - 1) \div 2, fqmulBound(MaxZeta, 2 * x))
InvLayers(f, x) == [l \in 0 .. 7 |-> IF l = 0 THEN x ELSE InvButterfly(f[l - 1])]
InvWitness(x) ==
  LET a == InvButterfly(x)  c == InvButterfly(a)  d == InvButterfly(c)
      e == InvButterfly(d)  g == InvButterfly(e)  h == InvButterfly(g)
  IN  [l \in 0 .. 7 |-> IF l = 0 THEN x ELSE IF l = 1 THEN a ELSE IF l = 2 THEN c
         ELSE IF l = 3 THEN d ELSE IF l = 4 THEN e ELSE IF l = 5 THEN g
         ELSE IF l = 6 THEN h ELSE InvButterfly(h)]
InvOf(p, f) ==
  Checked(p.dom = "ntt",
          [p EXCEPT !.dom = "std", !.mont = p.mont + 1,
                    !.bound = fqmulBound(f[7], 1441),
                    !.peak = Larger(p.peak, 2 * Larger(f[0], f[1]))])

LEMMA InvButterflyIs ==
  ASSUME NEW x, UpTo(x, Sums)
  PROVE  UpTo(InvButterfly(x), 2381)
<1>1. 1659 * (2 * x) \in Nat /\ 1659 * (2 * x) <= 46929792
  BY DEF Sums, UpTo
<1>. QED  BY <1>1 DEF InvButterfly, fqmulBound, MontBound, Larger, UpTo, Q, MaxZeta

(* The coefficients before and after the last layer.                       *)
LEMMA InvLayersAre ==
  ASSUME NEW p, UpTo(p.bound, Sums)
  PROVE  \E f : /\ poly_invntt_tomont(p) = InvOf(p, f)
                /\ UpTo(2 * Larger(f[0], f[1]), MaxInt16)
                /\ UpTo(fqmulBound(f[7], 1441), InvLimit)
<1>. DEFINE x == p.bound
<1>1. InvWitness(x) = InvLayers(InvWitness(x), x)
  BY DEF InvWitness, InvLayers
<1>2. poly_invntt_tomont(p) = InvOf(p, CHOOSE f : f = InvLayers(f, x))
  BY DEF poly_invntt_tomont, InvOf, InvLayers, InvButterfly
<1>3. PICK f : f = InvLayers(f, x) /\ poly_invntt_tomont(p) = InvOf(p, f)
  BY <1>1, <1>2
<1>4. \A l \in 0 .. 7 : f[l] = IF l = 0 THEN x ELSE InvButterfly(f[l - 1])
  BY <1>3 DEF InvLayers
<1>5. /\ f[0] = x /\ f[1] = InvButterfly(f[0]) /\ f[2] = InvButterfly(f[1])
      /\ f[3] = InvButterfly(f[2]) /\ f[4] = InvButterfly(f[3])
      /\ f[5] = InvButterfly(f[4]) /\ f[6] = InvButterfly(f[5])
      /\ f[7] = InvButterfly(f[6])
  BY <1>4
<1>6. UpTo(f[0], Sums) /\ UpTo(f[1], 2381)
  BY <1>5, InvButterflyIs
<1>7. \A y : UpTo(y, 2381) => UpTo(y, Sums)
  BY DEF Sums, UpTo
<1>8. UpTo(f[2], 2381) /\ UpTo(f[3], 2381) /\ UpTo(f[4], 2381)
  BY <1>5, <1>6, <1>7, InvButterflyIs
<1>9. UpTo(f[5], 2381) /\ UpTo(f[6], 2381) /\ UpTo(f[7], 2381)
  BY <1>5, <1>7, <1>8, InvButterflyIs
<1>10. UpTo(fqmulBound(f[7], 1441), MontBound(2381 * 1441))
  <2>1. UpTo(1441, 1441)
    BY DEF UpTo
  <2>. QED  BY <1>9, <2>1, FqmulIs
<1>11. UpTo(fqmulBound(f[7], 1441), 1716)
  BY <1>10 DEF MontBound, UpTo, Q
<1>12. UpTo(2 * Larger(f[0], f[1]), MaxInt16)
  BY <1>6 DEF Larger, Sums, UpTo, MaxInt16
<1>. QED  BY <1>3, <1>11, <1>12 DEF InvLimit

--------------------------------------------------------------------------------
(* Operations.                                                             *)

LEMMA Fields ==
  ASSUME NEW d, NEW m, NEW bd, NEW pe, NEW t
  PROVE  LET p == P(d, m, bd, pe, t)
         IN  p.dom = d /\ p.mont = m /\ p.bound = bd /\ p.peak = pe /\ p.terms = t
  BY DEF P

SetBound(p, bx) == [p EXCEPT !.bound = bx]
AfterNtt(p, bx, px) == [p EXCEPT !.dom = "ntt", !.bound = bx, !.peak = px]
AfterInv(p, n, bx, px) ==
  [p EXCEPT !.dom = "std", !.mont = n, !.bound = bx, !.peak = px]

LEMMA Updates ==
  ASSUME NEW d, NEW m, NEW bd, NEW pe, NEW t, NEW n, NEW bx, NEW px
  PROVE  LET p == P(d, m, bd, pe, t)
         IN  /\ SetBound(p, bx) = P(d, m, bx, pe, t)
             /\ AfterNtt(p, bx, px) = P("ntt", m, bx, px, t)
             /\ AfterInv(p, n, bx, px) = P("std", n, bx, px, t)
<1>. DEFINE p == P(d, m, bd, pe, t)
<1>1. AfterNtt(p, bx, px) =
        [[[p EXCEPT !.dom = "ntt"] EXCEPT !.bound = bx] EXCEPT !.peak = px]
  BY DEF AfterNtt
<1>2. AfterInv(p, n, bx, px) =
        [[[[p EXCEPT !.dom = "std"] EXCEPT !.mont = n] EXCEPT !.bound = bx] EXCEPT !.peak = px]
  BY DEF AfterInv
<1>3. /\ [p EXCEPT !.dom = "ntt"] = P("ntt", m, bd, pe, t)
      /\ [p EXCEPT !.dom = "std"] = P("std", m, bd, pe, t)
  BY DEF P
<1>4. [P("std", m, bd, pe, t) EXCEPT !.mont = n] = P("std", n, bd, pe, t)
  BY DEF P
<1>5. /\ [P("ntt", m, bd, pe, t) EXCEPT !.bound = bx] = P("ntt", m, bx, pe, t)
      /\ [P("std", n, bd, pe, t) EXCEPT !.bound = bx] = P("std", n, bx, pe, t)
      /\ [p EXCEPT !.bound = bx] = P(d, m, bx, pe, t)
  BY DEF P
<1>6. /\ [P("ntt", m, bx, pe, t) EXCEPT !.peak = px] = P("ntt", m, bx, px, t)
      /\ [P("std", n, bx, pe, t) EXCEPT !.peak = px] = P("std", n, bx, px, t)
  BY DEF P
<1>7. SetBound(p, bx) = P(d, m, bx, pe, t)
  BY <1>5 DEF SetBound
<1>8. AfterNtt(p, bx, px) = P("ntt", m, bx, px, t)
  BY <1>1, <1>3, <1>5, <1>6
<1>9. AfterInv(p, n, bx, px) = P("std", n, bx, px, t)
  BY <1>2, <1>3, <1>4, <1>5, <1>6
<1>. QED  BY <1>7, <1>8, <1>9

LEMMA Larger16 ==
  ASSUME NEW x, NEW y, UpTo(x, MaxInt16), UpTo(y, MaxInt16)
  PROVE  UpTo(Larger(x, y), MaxInt16)
  BY DEF Larger, UpTo

LEMMA FreshHolds ==
  ASSUME NEW d, NEW bd \in Nat, bd <= MaxInt16, NEW t
  PROVE  Holds(Fresh(d, bd, t), d, 0, bd, t)
<1>1. Fresh(d, bd, t) = P(d, 0, bd, bd, t)
  BY DEF P, Fresh
<1>2. UpTo(bd, bd) /\ UpTo(bd, MaxInt16)
  BY DEF UpTo
<1>. QED  BY <1>1, <1>2 DEF Holds

(* A weaker limit.                                                         *)
LEMMA Weaken ==
  ASSUME NEW p, NEW d, NEW m, NEW low \in Nat, NEW high \in Nat, low <= high, NEW t,
         Holds(p, d, m, low, t)
  PROVE  Holds(p, d, m, high, t)
<1>1. \A x : UpTo(x, low) => UpTo(x, high)
  BY DEF UpTo
<1>. QED  BY <1>1 DEF Holds

LEMMA ReduceHolds ==
  ASSUME NEW p, NEW d, NEW m, NEW limit, NEW t, Holds(p, d, m, limit, t)
  PROVE  Holds(poly_reduce(p), d, m, Reduced, t)
<1>1. PICK bd, pe : UpTo(pe, MaxInt16) /\ p = P(d, m, bd, pe, t)
  BY DEF Holds
<1>2. poly_reduce(p) = P(d, m, 1664, pe, t)
  BY <1>1 DEF poly_reduce, P, Q
<1>3. UpTo(1664, Reduced)
  BY DEF UpTo, Reduced
<1>. QED  BY <1>1, <1>2, <1>3 DEF Holds

LEMMA NttHolds ==
  ASSUME NEW p, NEW m, NEW t, Holds(p, "std", m, Decoded, t)
  PROVE  Holds(poly_ntt(p), "ntt", m, Reduced, t)
<1>1. PICK bd, pe : /\ UpTo(bd, Decoded) /\ UpTo(pe, MaxInt16)
                    /\ p = P("std", m, bd, pe, t)
  BY DEF Holds
<1>2. UpTo(NttBound(bd), MaxInt16)
  BY <1>1, NttBoundIs
<1>3. UpTo(Larger(pe, NttBound(bd)), MaxInt16)
  BY <1>1, <1>2, Larger16
<1>. DEFINE n == AfterNtt(p, NttBound(bd), Larger(pe, NttBound(bd)))
<1>4. poly_ntt(p) = P("ntt", m, 1664, Larger(pe, NttBound(bd)), t)
  <2>1. p.dom = "std" /\ p.bound = bd /\ p.peak = pe
    BY <1>1, Fields
  <2>2. poly_ntt(p) = poly_reduce(n)
    BY <2>1 DEF poly_ntt, Checked, AfterNtt
  <2>3. n = P("ntt", m, NttBound(bd), Larger(pe, NttBound(bd)), t)
    BY <1>1, Updates
  <2>. HIDE DEF n
  <2>4. poly_reduce(n) = SetBound(n, 1664)
    BY DEF poly_reduce, SetBound, Q
  <2>. QED  BY <2>2, <2>3, <2>4, Updates
<1>5. UpTo(1664, Reduced)
  BY DEF UpTo, Reduced
<1>. QED  BY <1>3, <1>4, <1>5 DEF Holds

LEMMA InvHolds ==
  ASSUME NEW p, NEW m, NEW t, Holds(p, "ntt", m, Sums, t)
  PROVE  Holds(poly_invntt_tomont(p), "std", m + 1, InvLimit, t)
<1>1. PICK bd, pe : UpTo(bd, Sums) /\ UpTo(pe, MaxInt16) /\ p = P("ntt", m, bd, pe, t)
  BY DEF Holds
<1>2. UpTo(p.bound, Sums)
  BY <1>1 DEF P
<1>3. PICK f : /\ poly_invntt_tomont(p) = InvOf(p, f)
               /\ UpTo(2 * Larger(f[0], f[1]), MaxInt16)
               /\ UpTo(fqmulBound(f[7], 1441), InvLimit)
  BY <1>2, InvLayersAre
<1>4. UpTo(Larger(pe, 2 * Larger(f[0], f[1])), MaxInt16)
  BY <1>1, <1>3, Larger16
<1>5. InvOf(p, f) = P("std", m + 1, fqmulBound(f[7], 1441),
                      Larger(pe, 2 * Larger(f[0], f[1])), t)
  <2>1. p.dom = "ntt" /\ p.mont = m /\ p.peak = pe
    BY <1>1, Fields
  <2>2. InvOf(p, f) = AfterInv(p, m + 1, fqmulBound(f[7], 1441),
                               Larger(pe, 2 * Larger(f[0], f[1])))
    BY <2>1 DEF InvOf, Checked, AfterInv
  <2>. QED  BY <1>1, <2>2, Updates
<1>. QED  BY <1>3, <1>4, <1>5 DEF Holds

LEMMA BaseMulBoundIs ==
  ASSUME NEW a, NEW c, UpTo(a.bound, Received), UpTo(c.bound, Reduced)
  PROVE  UpTo(BaseMulBound(a, c), Product)
<1>. DEFINE ab == fqmulBound(a.bound, c.bound)
<1>1. UpTo(ab, MontBound(4095 * 1664))
  BY FqmulIs DEF Received, Reduced
<1>2. UpTo(ab, 1768)
  BY <1>1 DEF MontBound, UpTo, Q
<1>3. BaseMulBound(a, c) = Larger(fqmulBound(ab, MaxZeta) + ab, 2 * ab)
  BY DEF BaseMulBound
<1>. HIDE DEF ab
<1>4. UpTo(fqmulBound(ab, MaxZeta), MontBound(1768 * 1659))
  <2>1. UpTo(MaxZeta, 1659)
    BY DEF UpTo, MaxZeta
  <2>. QED  BY <1>2, <2>1, FqmulIs
<1>5. UpTo(fqmulBound(ab, MaxZeta), 1768)
  BY <1>4 DEF MontBound, UpTo, Q
<1>. QED  BY <1>2, <1>3, <1>5 DEF Larger, Product, UpTo

LEMMA MulHolds ==
  ASSUME NEW a, NEW c, NEW t, NEW u,
         Holds(a, "ntt", 0, Received, t), Holds(c, "ntt", 0, Reduced, u)
  PROVE  Holds(poly_basemul(a, c), "ntt", -1, Product, Times(t, u))
<1>1. PICK ba, pa : /\ UpTo(ba, Received) /\ UpTo(pa, MaxInt16)
                    /\ a = P("ntt", 0, ba, pa, t)
  BY DEF Holds
<1>2. PICK bc, pd : /\ UpTo(bc, Reduced) /\ UpTo(pd, MaxInt16)
                    /\ c = P("ntt", 0, bc, pd, u)
  BY DEF Holds
<1>3. UpTo(BaseMulBound(a, c), Product)
  BY <1>1, <1>2, BaseMulBoundIs DEF P
<1>4. UpTo(BaseMulBound(a, c), MaxInt16)
  BY <1>3, Limits DEF UpTo
<1>5. UpTo(Larger(BaseMulBound(a, c), Larger(pa, pd)), MaxInt16)
  BY <1>1, <1>2, <1>4, Larger16
<1>6. poly_basemul(a, c) = P("ntt", -1, BaseMulBound(a, c),
                             Larger(BaseMulBound(a, c), Larger(pa, pd)), Times(t, u))
  BY <1>1, <1>2 DEF poly_basemul, Checked, P
<1>. QED  BY <1>3, <1>5, <1>6 DEF Holds

LEMMA CombineHolds ==
  ASSUME NEW p, NEW r, NEW c, NEW d, d # "junk", NEW m,
         NEW lp \in Nat, NEW lr \in Nat, lp + lr <= MaxInt16, NEW t, NEW u,
         Holds(p, d, m, lp, t), Holds(r, d, m, lr, u)
  PROVE  Holds(Combine(p, c, r), d, m, lp + lr, PlusTimes(t, c, u))
<1>1. PICK b1, k1 : UpTo(b1, lp) /\ UpTo(k1, MaxInt16) /\ p = P(d, m, b1, k1, t)
  BY DEF Holds
<1>2. PICK b2, k2 : UpTo(b2, lr) /\ UpTo(k2, MaxInt16) /\ r = P(d, m, b2, k2, u)
  BY DEF Holds
<1>3. UpTo(b1 + b2, lp + lr) /\ UpTo(b1 + b2, MaxInt16)
  BY <1>1, <1>2, Limits DEF UpTo
<1>4. UpTo(Larger(b1 + b2, Larger(k1, k2)), MaxInt16)
  BY <1>1, <1>2, <1>3, Larger16
<1>5. Combine(p, c, r) = P(d, m, b1 + b2, Larger(b1 + b2, Larger(k1, k2)), PlusTimes(t, c, u))
  BY <1>1, <1>2 DEF Combine, Checked, P
<1>. QED  BY <1>3, <1>4, <1>5 DEF Holds

--------------------------------------------------------------------------------
(* Rows of products.                                                       *)

(* The sum of the first j of at most four values.                          *)
Sum(j, F) ==
  LET two   == PlusTimes(F[0], 1, F[1])
      three == PlusTimes(two, 1, F[2])
  IN  IF j = 1 THEN F[0] ELSE IF j = 2 THEN two ELSE IF j = 3 THEN three
      ELSE PlusTimes(three, 1, F[3])

LEMMA SumNext ==
  ASSUME NEW j \in 1 .. 3, NEW F
  PROVE  Sum(j + 1, F) = PlusTimes(Sum(j, F), 1, F[j])
<1>1. j = 1 \/ j = 2 \/ j = 3
  OBVIOUS
<1>. QED  BY <1>1 DEF Sum

(* The sum of j products, with the next one added.                         *)
SumHolds(p, j, F) == Holds(p, "ntt", -1, j * Product, Sum(j, F))

LEMMA FirstProduct ==
  ASSUME NEW a, NEW c, NEW t, NEW u, NEW F, F[0] = Times(t, u),
         Holds(a, "ntt", 0, Received, t), Holds(c, "ntt", 0, Reduced, u)
  PROVE  SumHolds(poly_basemul(a, c), 1, F)
<1>1. Holds(poly_basemul(a, c), "ntt", -1, Product, Times(t, u))
  BY MulHolds
<1>. QED  BY <1>1 DEF SumHolds, Sum, Product

LEMMA NextProduct ==
  ASSUME NEW j \in 1 .. 3, NEW r, NEW a, NEW c, NEW t, NEW u, NEW F, F[j] = Times(t, u),
         SumHolds(r, j, F),
         Holds(a, "ntt", 0, Received, t), Holds(c, "ntt", 0, Reduced, u)
  PROVE  SumHolds(poly_basemul_acc(r, a, c), j + 1, F)
<1>1. Holds(poly_basemul(a, c), "ntt", -1, Product, Times(t, u))
  BY MulHolds
<1>2. Holds(r, "ntt", -1, j * Product, Sum(j, F))
  BY DEF SumHolds
<1>3. j * Product \in Nat /\ Product \in Nat /\ j * Product + Product <= MaxInt16
      /\ j * Product + Product = (j + 1) * Product
  BY DEF Product, MaxInt16
<1>4. Holds(Combine(r, 1, poly_basemul(a, c)), "ntt", -1, j * Product + Product,
            PlusTimes(Sum(j, F), 1, Times(t, u)))
  BY <1>1, <1>2, <1>3, CombineHolds
<1>. QED  BY <1>3, <1>4, SumNext DEF SumHolds, poly_basemul_acc, poly_add

LEMMA SumLimit ==
  ASSUME NEW j \in 1 .. 4, NEW p, NEW F, SumHolds(p, j, F)
  PROVE  Holds(p, "ntt", -1, Sums, Sum(j, F))
<1>1. j * Product \in Nat /\ j * Product <= Sums
  BY DEF Product, Sums
<1>. QED  BY <1>1, Weaken DEF SumHolds, Sums

(* matacc, where its recursion is spelt out.                               *)
EntryTerm(row, col, seed, tr) ==
  IF tr THEN Atom(<<"A", seed, row, col>>) ELSE Atom(<<"A", seed, col, row>>)
RowTerms(row, seed, tr, F) == [c \in Vec |-> Times(EntryTerm(row, c, seed, tr), F[c])]

RowOf(f, row, seed, tr) ==
  [c \in Vec |-> IF c = 0 THEN poly_basemul(EntryOf(row, 0, seed, tr), mem[0])
                 ELSE poly_basemul_acc(f[c - 1], EntryOf(row, c, seed, tr), mem[c])]
RowWitness(row, seed, tr) ==
  LET e(c) == EntryOf(row, c, seed, tr)
      s0 == poly_basemul(e(0), mem[0])
      s1 == poly_basemul_acc(s0, e(1), mem[1])
      s2 == poly_basemul_acc(s1, e(2), mem[2])
  IN  [c \in Vec |-> IF c = 0 THEN s0 ELSE IF c = 1 THEN s1 ELSE IF c = 2 THEN s2
                     ELSE poly_basemul_acc(s2, e(3), mem[3])]

LEMMA EntryHolds ==
  ASSUME NEW row, NEW col, NEW seed, NEW tr \in BOOLEAN
  PROVE  Holds(EntryOf(row, col, seed, tr), "ntt", 0, Received, EntryTerm(row, col, seed, tr))
<1>1. Holds(Fresh("ntt", Decoded, EntryTerm(row, col, seed, tr)), "ntt", 0, Decoded,
            EntryTerm(row, col, seed, tr))
  BY FreshHolds, Limits
<1>2. EntryOf(row, col, seed, tr) = Fresh("ntt", Decoded, EntryTerm(row, col, seed, tr))
  BY DEF EntryOf, EntryTerm, MatrixEntry, Decoded
<1>. QED  BY <1>1, <1>2, Weaken, Limits

LEMMA MataccHolds ==
  ASSUME K \in {2, 3, 4}, NEW row, NEW seed, NEW tr \in BOOLEAN, NEW F,
         \A c \in Vec : Holds(mem[c], "ntt", 0, Reduced, F[c])
  PROVE  Holds(matacc(row, seed, tr), "ntt", -1, Sums,
               Sum(K, RowTerms(row, seed, tr, F)))
<1>. DEFINE T == RowTerms(row, seed, tr, F)
<1>1. RowWitness(row, seed, tr) = RowOf(RowWitness(row, seed, tr), row, seed, tr)
  BY DEF RowWitness, RowOf, Vec
<1>2. matacc(row, seed, tr) = (CHOOSE f : f = RowOf(f, row, seed, tr))[K - 1]
  BY DEF matacc, RowOf
<1>3. PICK f : f = RowOf(f, row, seed, tr) /\ matacc(row, seed, tr) = f[K - 1]
  BY <1>1, <1>2
<1>4. \A c \in Vec :
        f[c] = IF c = 0 THEN poly_basemul(EntryOf(row, 0, seed, tr), mem[0])
               ELSE poly_basemul_acc(f[c - 1], EntryOf(row, c, seed, tr), mem[c])
  BY <1>3 DEF RowOf
<1>5. \A c \in Vec : T[c] = Times(EntryTerm(row, c, seed, tr), F[c])
  BY DEF RowTerms
<1>6. 0 \in Vec /\ 1 \in Vec /\ K - 1 \in Vec
  BY DEF Vec
<1>. HIDE DEF T
<1>7. SumHolds(f[0], 1, T)
  BY <1>4, <1>5, <1>6, FirstProduct, EntryHolds
<1>8. ASSUME NEW c \in 1 .. 3, c \in Vec, SumHolds(f[c - 1], c, T)
      PROVE  SumHolds(f[c], c + 1, T)
  BY <1>4, <1>5, <1>8, NextProduct, EntryHolds
<1>9. SumHolds(f[1], 2, T)
  BY <1>6, <1>7, <1>8
<1>10. K >= 3 => SumHolds(f[2], 3, T)
  BY <1>8, <1>9 DEF Vec
<1>11. K = 4 => SumHolds(f[3], 4, T)
  BY <1>8, <1>10 DEF Vec
<1>12. SumHolds(f[K - 1], K, T)
  BY <1>9, <1>10, <1>11
<1>. QED  BY <1>3, <1>12, SumLimit DEF T

--------------------------------------------------------------------------------
(* Values: the rows of t (not transposed) and of u (transposed) with their *)
(* noise, and v.                                                           *)
NoiseAtom(seed, n) == <<"noise", seed, n>>
EntryAtom(seed, x, y) == <<"A", seed, x, y>>
MsgAtom(m) == <<"msg", m>>
Kind(a)    == a[1]
NoiseTerm(seed, n) == Atom(NoiseAtom(seed, n))
NoiseTerms(seed)   == [c \in Vec |-> NoiseTerm(seed, c)]
RowTerm(row, tr, seed) ==
  PlusTimes(Sum(K, RowTerms(row, publicseed, tr, NoiseTerms(seed))), 1,
            NoiseTerm(seed, K + row))
DotTerms(coins) == [c \in Vec |-> Times(pk.t[c], NoiseTerm(coins, c))]
NoisyDot(coins) == PlusTimes(Sum(K, DotTerms(coins)), 1, NoiseTerm(coins, 2 * K))
VTerm(m, coins) == PlusTimes(NoisyDot(coins), 1, Atom(MsgAtom(m)))
Forged(part)    == Atom(<<"forged", part>>)

(* Atoms of different kinds differ, and each tells what it was made of.    *)
LEMMA Atoms ==
  /\ \A seed, n : Kind(NoiseAtom(seed, n)) = "noise"
  /\ \A seed, x, y : Kind(EntryAtom(seed, x, y)) = "A"
  /\ \A m : Kind(MsgAtom(m)) = "msg"
  /\ \A part : Kind(<<"forged", part>>) = "forged"
  /\ Kind(<<"junk">>) = "junk"
  /\ \A s1, s2, n1, n2 : NoiseAtom(s1, n1) = NoiseAtom(s2, n2) => s1 = s2
  /\ \A m1, m2 : MsgAtom(m1) = MsgAtom(m2) => m1 = m2
  BY DEF NoiseAtom, EntryAtom, MsgAtom, Kind

(* Which monomials a value has.                                            *)
LEMMA AtomIs ==
  ASSUME NEW a
  PROVE  DOMAIN Atom(a) = {{a}} /\ Coef(Atom(a), {a}) = 1
  BY DEF Atom, Monomial, Coef

LEMMA InAtom ==
  ASSUME NEW a, NEW x \in DOMAIN Atom(a)
  PROVE  a \in x /\ \A c : x = {c} => c = a
<1>1. x = {a}
  BY DEF Atom, Monomial
<1>. QED  BY <1>1

LEMMA PlusDomain ==
  ASSUME NEW f, NEW c, NEW g, NEW x \in DOMAIN PlusTimes(f, c, g)
  PROVE  x \in DOMAIN f \/ x \in DOMAIN g
  BY DEF PlusTimes

LEMMA PlusAtom ==
  ASSUME NEW f, NEW a, {a} \notin DOMAIN f
  PROVE  {a} \in DOMAIN PlusTimes(f, 1, Atom(a))
<1>. DEFINE sum == [x \in DOMAIN f \cup DOMAIN Atom(a) |-> Coef(f, x) + 1 * Coef(Atom(a), x)]
<1>1. DOMAIN PlusTimes(f, 1, Atom(a)) = {y \in DOMAIN sum : sum[y] # 0}
  BY DEF PlusTimes
<1>2. {a} \in DOMAIN sum
  BY AtomIs
<1>3. sum[{a}] = 0 + 1 * 1
  BY <1>2, AtomIs DEF Coef
<1>. QED  BY <1>1, <1>2, <1>3

LEMMA TimesDomain ==
  ASSUME NEW f, NEW g, NEW x \in DOMAIN Times(f, g)
  PROVE  \E y \in DOMAIN f, z \in DOMAIN g : x = y \cup z
<1>1. DOMAIN Times(f, g) = {p[1] \cup p[2] : p \in (DOMAIN f) \X (DOMAIN g)}
  BY DEF Times
<1>. QED  BY <1>1

LEMMA SumDomain ==
  ASSUME NEW j \in 1 .. 4, NEW F, NEW x \in DOMAIN Sum(j, F)
  PROVE  \E c \in 0 .. j - 1 : x \in DOMAIN F[c]
<1>1. CASE j = 1
  BY <1>1 DEF Sum
<1>2. CASE j = 2
  BY <1>2, PlusDomain DEF Sum
<1>3. CASE j = 3
  BY <1>3, PlusDomain DEF Sum
<1>4. CASE j = 4
  BY <1>4, PlusDomain DEF Sum
<1>. QED  BY <1>1, <1>2, <1>3, <1>4

(* Every monomial of a row contains an entry of the matrix, ...            *)
LEMMA RowDomain ==
  ASSUME K \in {2, 3, 4}, NEW row, NEW tr, NEW F,
         NEW x \in DOMAIN Sum(K, RowTerms(row, publicseed, tr, F))
  PROVE  \E a \in x : Kind(a) = "A"
<1>1. PICK c \in 0 .. K - 1 : x \in DOMAIN RowTerms(row, publicseed, tr, F)[c]
  BY SumDomain
<1>2. x \in DOMAIN Times(EntryTerm(row, c, publicseed, tr), F[c])
  BY <1>1 DEF RowTerms, Vec
<1>3. PICK y \in DOMAIN EntryTerm(row, c, publicseed, tr) : y \subseteq x
  BY <1>2, TimesDomain
<1>4. PICK a : EntryTerm(row, c, publicseed, tr) = Atom(a) /\ Kind(a) = "A"
  BY Atoms DEF EntryTerm, EntryAtom
<1>5. a \in y
  BY <1>3, <1>4, InAtom
<1>. QED  BY <1>3, <1>4, <1>5

(* ... and every monomial of a product with the noise contains noise.      *)
LEMMA DotDomain ==
  ASSUME K \in {2, 3, 4}, NEW coins, NEW x \in DOMAIN NoisyDot(coins)
  PROVE  \E a \in x : Kind(a) = "noise"
<1>0. ASSUME NEW n, NEW z \in DOMAIN NoiseTerm(coins, n)
      PROVE  \E a \in z : Kind(a) = "noise"
  <2>1. NoiseAtom(coins, n) \in z
    BY <1>0, InAtom DEF NoiseTerm
  <2>. QED  BY <2>1, Atoms
<1>1. CASE x \in DOMAIN NoiseTerm(coins, 2 * K)
  BY <1>0, <1>1
<1>2. CASE x \in DOMAIN Sum(K, DotTerms(coins))
  <2>1. PICK c \in 0 .. K - 1 : x \in DOMAIN DotTerms(coins)[c]
    BY <1>2, SumDomain
  <2>2. x \in DOMAIN Times(pk.t[c], NoiseTerm(coins, c))
    BY <2>1 DEF DotTerms, Vec
  <2>3. PICK z \in DOMAIN NoiseTerm(coins, c) : z \subseteq x
    BY <2>2, TimesDomain
  <2>. QED  BY <2>3, <1>0
<1>. QED  BY <1>1, <1>2, PlusDomain DEF NoisyDot

(* So the noise that was added to a row can be read off it, ...            *)
LEMMA RowHasNoise ==
  ASSUME K \in {2, 3, 4}, NEW row, NEW tr, NEW seed
  PROVE  /\ {NoiseAtom(seed, K + row)} \in DOMAIN RowTerm(row, tr, seed)
         /\ \A a : {a} \in DOMAIN RowTerm(row, tr, seed) =>
              Kind(a) = "A" \/ a = NoiseAtom(seed, K + row)
<1>. DEFINE F == NoiseTerms(seed)
            S == Sum(K, RowTerms(row, publicseed, tr, F))
            n == NoiseAtom(seed, K + row)
<1>1. \A x \in DOMAIN S : \E a \in x : Kind(a) = "A"
  BY RowDomain
<1>. HIDE DEF S
<1>2. {n} \notin DOMAIN S
  BY <1>1, Atoms
<1>3. RowTerm(row, tr, seed) = PlusTimes(S, 1, Atom(n))
  BY DEF RowTerm, NoiseTerm, S
<1>. HIDE DEF n
<1>4. {n} \in DOMAIN PlusTimes(S, 1, Atom(n))
  BY <1>2, PlusAtom
<1>5. ASSUME NEW a, {a} \in DOMAIN PlusTimes(S, 1, Atom(n))
      PROVE  Kind(a) = "A" \/ a = n
  <2>1. {a} \in DOMAIN S \/ {a} \in DOMAIN Atom(n)
    BY <1>5, PlusDomain
  <2>2. {a} \in DOMAIN Atom(n) => a = n
    BY InAtom
  <2>. QED  BY <1>1, <2>1, <2>2
<1>. QED  BY <1>3, <1>4, <1>5 DEF n

(* ... and the message off v.                                              *)
LEMMA VHasMessage ==
  ASSUME K \in {2, 3, 4}, NEW m, NEW coins
  PROVE  /\ {MsgAtom(m)} \in DOMAIN VTerm(m, coins)
         /\ \A a : {a} \in DOMAIN VTerm(m, coins) => Kind(a) = "noise" \/ a = MsgAtom(m)
<1>. DEFINE D == NoisyDot(coins)
            w == MsgAtom(m)
<1>1. \A x \in DOMAIN D : \E a \in x : Kind(a) = "noise"
  BY DotDomain
<1>. HIDE DEF D
<1>2. {w} \notin DOMAIN D
  BY <1>1, Atoms
<1>3. VTerm(m, coins) = PlusTimes(D, 1, Atom(w))
  BY DEF VTerm, D
<1>. HIDE DEF w
<1>4. {w} \in DOMAIN PlusTimes(D, 1, Atom(w))
  BY <1>2, PlusAtom
<1>5. ASSUME NEW a, {a} \in DOMAIN PlusTimes(D, 1, Atom(w))
      PROVE  Kind(a) = "noise" \/ a = w
  <2>1. {a} \in DOMAIN D \/ {a} \in DOMAIN Atom(w)
    BY <1>5, PlusDomain
  <2>2. {a} \in DOMAIN Atom(w) => a = w
    BY InAtom
  <2>. QED  BY <1>1, <2>1, <2>2
<1>. QED  BY <1>3, <1>4, <1>5 DEF w

LEMMA ValuesDiffer ==
  ASSUME K \in {2, 3, 4}
  PROVE  /\ \A row, tr, seed : RowTerm(row, tr, seed) # Junk
         /\ \A row, tr, seed, part : RowTerm(row, tr, seed) # Forged(part)
         /\ \A row, tr, s1, s2 : RowTerm(row, tr, s1) = RowTerm(row, tr, s2) => s1 = s2
         /\ \A m, coins, part : VTerm(m, coins) # Forged(part)
         /\ \A m1, m2, c1, c2 : VTerm(m1, c1) = VTerm(m2, c2) => m1 = m2
<1>1. /\ \A a : {a} \in DOMAIN Junk => Kind(a) = "junk"
      /\ \A a, part : {a} \in DOMAIN Forged(part) => Kind(a) = "forged"
  <2>1. \A a, c : {a} \in DOMAIN Atom(c) => a = c
    BY InAtom
  <2>. QED  BY <2>1, Atoms DEF Junk, Forged
<1>2. ASSUME NEW row, NEW tr, NEW seed
      PROVE  RowTerm(row, tr, seed) # Junk
  BY <1>1, RowHasNoise, Atoms
<1>3. ASSUME NEW row, NEW tr, NEW seed, NEW part
      PROVE  RowTerm(row, tr, seed) # Forged(part)
  <2>1. SUFFICES ASSUME RowTerm(row, tr, seed) = Forged(part)
                 PROVE  FALSE
    OBVIOUS
  <2>2. {NoiseAtom(seed, K + row)} \in DOMAIN Forged(part)
    BY <2>1, RowHasNoise
  <2>3. Kind(NoiseAtom(seed, K + row)) = "forged"
    BY <2>2, <1>1
  <2>. QED  BY <2>3, Atoms
<1>4. ASSUME NEW row, NEW tr, NEW s1, NEW s2, RowTerm(row, tr, s1) = RowTerm(row, tr, s2)
      PROVE  s1 = s2
  <2>1. {NoiseAtom(s1, K + row)} \in DOMAIN RowTerm(row, tr, s2)
    BY <1>4, RowHasNoise
  <2>2. \/ Kind(NoiseAtom(s1, K + row)) = "A"
        \/ NoiseAtom(s1, K + row) = NoiseAtom(s2, K + row)
    BY <2>1, RowHasNoise
  <2>. QED  BY <2>2, Atoms
<1>5. ASSUME NEW m, NEW coins, NEW part
      PROVE  VTerm(m, coins) # Forged(part)
  BY <1>1, VHasMessage, Atoms
<1>6. ASSUME NEW m1, NEW m2, NEW c1, NEW c2, VTerm(m1, c1) = VTerm(m2, c2)
      PROVE  m1 = m2
  <2>1. {MsgAtom(m1)} \in DOMAIN VTerm(m2, c2)
    BY <1>6, VHasMessage
  <2>2. Kind(MsgAtom(m1)) = "noise" \/ MsgAtom(m1) = MsgAtom(m2)
    BY <2>1, VHasMessage
  <2>. QED  BY <2>2, Atoms
<1>. QED  BY <1>2, <1>3, <1>4, <1>5, <1>6

--------------------------------------------------------------------------------
(* The invariant.                                                          *)

Calls == [m : Messages, coins : Coins]

IsFun(f, S) == f = [x \in S |-> f[x]]

Shape ==
  /\ K \in {2, 3, 4} /\ i \in 0 .. K
  /\ pc \in {"idle", "kp_noise", "kp_row", "enc_noise", "enc_row", "enc_dot", "dec_dot",
             "cmp_noise", "cmp_row", "cmp_dot"}
  /\ sent \in Calls \cup {NoArg}
  /\ pc \in {"enc_noise", "enc_row", "enc_dot", "cmp_noise", "cmp_row", "cmp_dot"} =>
       arg \in Calls

Stored ==
  /\ IsFun(mem, 0 .. K) /\ IsFun(ct, 0 .. K) /\ IsFun(pk.t, Vec)
  /\ pk = [t |-> pk.t, seed |-> pk.seed]

(* NoOverflow and the first half of WellFormed                             *)
Sane(p) == UpTo(p.peak, MaxInt16) /\ (p.dom = "junk" => p = Unset)
Clean   == \A x \in 0 .. K : Sane(mem[x])

(* Every nonce drawn is below the next one, which the place in the         *)
(* function determines.                                                    *)
Nonces ==
  /\ nonce \in Nat /\ ~ reused
  /\ \A d \in drawn : d[2] \in 0 .. nonce - 1
  /\ pc \in {"kp_noise", "enc_noise", "cmp_noise"} => nonce = i
  /\ pc \in {"kp_row", "enc_row", "cmp_row"} => nonce = K + i
  /\ pc \in {"enc_dot", "cmp_dot"} => nonce = 2 * K

(* What the slots hold.  From its second iteration on the inner product    *)
(* has taken the place of the first vector element.                        *)
Sampled(seed) == \A x \in 0 .. i - 1 : Holds(mem[x], "std", 0, Noise, NoiseTerm(seed, x))
Transformed(seed, from) ==
  \A x \in Vec : x >= from => Holds(mem[x], "ntt", 0, Reduced, NoiseTerm(seed, x))
DecTerms ==
  [c \in Vec |-> Times(sk[c], PlusTimes(ct[c], 1, Atom(<<"round", c>>)))]
Slots ==
  /\ pc = "kp_noise" => Sampled(noiseseed)
  /\ pc = "kp_row" => Transformed(noiseseed, 0)
  /\ pc \in {"enc_noise", "cmp_noise"} => Sampled(arg.coins)
  /\ pc \in {"enc_row", "cmp_row"} => Transformed(arg.coins, 0)
  /\ pc \in {"enc_dot", "cmp_dot"} =>
       IF i = 0 THEN Transformed(arg.coins, 0)
       ELSE Transformed(arg.coins, 1) /\ SumHolds(mem[0], i, DotTerms(arg.coins))
  /\ pc = "dec_dot" /\ i > 0 => SumHolds(mem[0], i, DecTerms)

(* Keys are made once, before anything else; then none of them is junk.    *)
Keys ==
  /\ pk.seed \in {"none", publicseed}
  /\ pk.seed = "none" =>
       /\ pc \in {"idle", "kp_noise", "kp_row"}
       /\ ct[K] = NoBytes /\ sent = NoArg /\ rc = NoRc
  /\ pc \in {"kp_noise", "kp_row"} => pk.seed = "none"
  /\ pc = "kp_row" => \A x \in 0 .. i - 1 : pk.t[x] # Junk
  /\ pk.seed # "none" => \A x \in Vec : pk.t[x] # Junk /\ sk[x] # Junk

(* A ciphertext is not there yet, what indcpa_enc makes of the arguments   *)
(* in sent, or forged somewhere.                                           *)
Row(x, coins) == RowTerm(x, TRUE, coins)
Encrypted(a) == (\A x \in Vec : ct[x] = Row(x, a.coins)) /\ ct[K] = VTerm(a.m, a.coins)
Origin ==
  /\ sent # NoArg => Encrypted(sent)
  /\ sent = NoArg => ct[K] = NoBytes \/ \E part \in 0 .. K : ct[part] = Forged(part)
  /\ pc \in {"enc_noise", "enc_row", "enc_dot"} =>
       sent = NoArg /\ ct[K] = NoBytes /\ rc = NoRc
  /\ pc = "enc_row" => \A x \in 0 .. i - 1 : ct[x] = Row(x, arg.coins)
  /\ pc = "enc_dot" => \A x \in Vec : ct[x] = Row(x, arg.coins)

(* indcpa_enc_cmp has found no difference yet exactly if there was none.   *)
Comparison ==
  /\ pc \in {"cmp_noise", "cmp_row", "cmp_dot"} => rc \in {0, 1} /\ ct[K] # NoBytes
  /\ pc = "cmp_noise" => rc = 0
  /\ pc = "cmp_row" => (rc = 0 <=> \A x \in 0 .. i - 1 : ct[x] = Row(x, arg.coins))
  /\ pc = "cmp_dot" => (rc = 0 <=> \A x \in Vec : ct[x] = Row(x, arg.coins))
  /\ pc \in {"idle", "dec_dot"} => (rc # NoRc => (rc = 0) = (sent = arg))

IInv == Shape /\ Stored /\ Clean /\ Nonces /\ Slots /\ Keys /\ Origin /\ Comparison

--------------------------------------------------------------------------------
(* What the steps compute.                                                 *)

LEMMA FilledFun ==
  ASSUME NEW S, NEW f, NEW y, f = [x \in S |-> y]
  PROVE  IsFun(f, S) /\ \A x \in S : f[x] = y
  BY DEF IsFun

LEMMA NttVecFun ==
  /\ IsFun(NttVec, 0 .. K)
  /\ \A x \in 0 .. K : NttVec[x] = IF x \in Vec THEN poly_ntt(mem[x]) ELSE mem[x]
  BY DEF NttVec, IsFun

LEMMA KeyUpdate ==
  ASSUME pk = [t |-> pk.t, seed |-> pk.seed], NEW x, NEW y, NEW z,
         pk' = [pk EXCEPT !.t[x] = y] \/ pk' = [pk EXCEPT !.seed = z]
  PROVE  /\ pk' = [t |-> pk'.t, seed |-> pk'.seed]
         /\ pk' = [pk EXCEPT !.t[x] = y] =>
              pk'.t = [pk.t EXCEPT ![x] = y] /\ pk'.seed = pk.seed
         /\ pk' = [pk EXCEPT !.seed = z] => pk'.t = pk.t /\ pk'.seed = z
  OBVIOUS

LEMMA DrawStep ==
  ASSUME nonce \in Nat, ~ reused, \A d \in drawn : d[2] \in 0 .. nonce - 1,
         NEW seed, Draw(seed)
  PROVE  /\ nonce' = nonce + 1 /\ nonce' \in Nat /\ ~ reused'
         /\ \A d \in drawn' : d[2] \in 0 .. nonce' - 1
<1>1. <<seed, nonce>>[2] = nonce
  OBVIOUS
<1>2. <<seed, nonce>> \notin drawn
  BY <1>1
<1>3. ~ reused' /\ nonce' = nonce + 1 /\ drawn' = drawn \cup {<<seed, nonce>>}
  BY <1>2 DEF Draw
<1>. QED  BY <1>1, <1>3

LEMMA HoldsSane ==
  ASSUME NEW p, NEW d, d # "junk", NEW m, NEW limit, NEW t, Holds(p, d, m, limit, t)
  PROVE  Sane(p)
  BY DEF Holds, P, Sane

LEMMA UnsetSane == Sane(Unset)
  BY Limits DEF Sane, Unset, UpTo

LEMMA EncodeIs ==
  ASSUME NEW p, NEW d, NEW t, Holds(p, d, 0, Reduced, t)
  PROVE  Encode(p, d) = t
<1>1. PICK bd, pe : UpTo(bd, Reduced) /\ p = P(d, 0, bd, pe, t)
  BY DEF Holds
<1>2. p.dom = d /\ p.mont = 0 /\ p.bound = bd /\ p.terms = t
  BY <1>1, Fields
<1>3. bd < Q
  BY <1>1 DEF UpTo, Reduced, Q
<1>. QED  BY <1>2, <1>3 DEF Encode, Encodable

LEMMA NoiseHolds ==
  ASSUME NEW eta, UpTo(eta, Noise), NEW seed, NEW n
  PROVE  Holds(poly_getnoise(eta, seed, n), "std", 0, Noise, NoiseTerm(seed, n))
<1>1. Holds(Fresh("std", eta, NoiseTerm(seed, n)), "std", 0, eta, NoiseTerm(seed, n))
  BY FreshHolds, Limits DEF UpTo
<1>2. Holds(Fresh("std", eta, NoiseTerm(seed, n)), "std", 0, Noise, NoiseTerm(seed, n))
  BY <1>1, Weaken, Limits DEF UpTo
<1>. QED  BY <1>2 DEF poly_getnoise, NoiseTerm, NoiseAtom

LEMMA Etas == UpTo(ETA1, Noise) /\ UpTo(ETA2, Noise)
  BY DEF ETA1, ETA2, Noise, UpTo

LEMMA AddNoiseHolds ==
  ASSUME NEW p, NEW t, Holds(p, "std", 0, InvLimit, t),
         NEW eta, UpTo(eta, Noise), NEW seed, NEW n
  PROVE  Holds(poly_addnoise(p, eta, seed, n), "std", 0, InvLimit + Noise,
               PlusTimes(t, 1, NoiseTerm(seed, n)))
<1>1. InvLimit \in Nat /\ Noise \in Nat /\ InvLimit + Noise <= MaxInt16 /\ "std" # "junk"
  BY Limits
<1>. QED  BY <1>1, NoiseHolds, CombineHolds DEF poly_addnoise, poly_add

(* A row of the matrix times the vector, with its noise.                   *)
NoisyRow(row, seed, tr, eta, s) ==
  poly_addnoise(poly_invntt_tomont(matacc(row, seed, tr)), eta, s, K + row)

LEMMA NoisyRowHolds ==
  ASSUME Shape, NEW s, Transformed(s, 0), NEW row, NEW tr \in BOOLEAN,
         NEW eta, UpTo(eta, Noise)
  PROVE  Holds(NoisyRow(row, publicseed, tr, eta, s), "std", 0, InvLimit + Noise,
               RowTerm(row, tr, s))
<1>1. ASSUME NEW c \in Vec
      PROVE  Holds(mem[c], "ntt", 0, Reduced, NoiseTerms(s)[c])
  <2>1. c >= 0
    BY DEF Vec, Shape
  <2>2. NoiseTerms(s)[c] = NoiseTerm(s, c)
    BY DEF NoiseTerms
  <2>. QED  BY <2>1, <2>2 DEF Transformed
<1>2. Holds(matacc(row, publicseed, tr), "ntt", -1, Sums,
            Sum(K, RowTerms(row, publicseed, tr, NoiseTerms(s))))
  BY <1>1, MataccHolds DEF Shape
<1>3. Holds(poly_invntt_tomont(matacc(row, publicseed, tr)), "std", 0, InvLimit,
            Sum(K, RowTerms(row, publicseed, tr, NoiseTerms(s))))
  BY <1>2, InvHolds
<1>. QED  BY <1>3, AddNoiseHolds DEF NoisyRow, RowTerm

LEMMA CipherRow ==
  ASSUME Shape, NEW s, Transformed(s, 0), NEW row
  PROVE  LET p == poly_reduce(NoisyRow(row, publicseed, TRUE, ETA2, s))
         IN  Sane(p) /\ poly_compress(p) = Row(row, s)
<1>. DEFINE p == poly_reduce(NoisyRow(row, publicseed, TRUE, ETA2, s))
<1>1. Holds(p, "std", 0, Reduced, Row(row, s))
  BY NoisyRowHolds, Etas, ReduceHolds DEF Row
<1>. HIDE DEF p
<1>2. Sane(p) /\ poly_compress(p) = Row(row, s)
  BY <1>1, HoldsSane, EncodeIs DEF poly_compress
<1>. QED  BY <1>2 DEF p

LEMMA KeyRow ==
  ASSUME Shape, NEW s, Transformed(s, 0), NEW row
  PROVE  LET p == poly_reduce(poly_ntt(NoisyRow(row, publicseed, FALSE, ETA1, s)))
         IN  Sane(p) /\ poly_tobytes(p) = RowTerm(row, FALSE, s)
<1>. DEFINE n == NoisyRow(row, publicseed, FALSE, ETA1, s)
            p == poly_reduce(poly_ntt(n))
<1>1. Holds(n, "std", 0, InvLimit + Noise, RowTerm(row, FALSE, s))
  BY NoisyRowHolds, Etas
<1>. HIDE DEF n
<1>2. Holds(n, "std", 0, Decoded, RowTerm(row, FALSE, s))
  <2>1. InvLimit + Noise \in Nat /\ Decoded \in Nat /\ InvLimit + Noise <= Decoded
    BY Limits
  <2>. QED  BY <1>1, <2>1, Weaken
<1>3. Holds(p, "ntt", 0, Reduced, RowTerm(row, FALSE, s))
  BY <1>2, NttHolds, ReduceHolds
<1>. HIDE DEF p
<1>4. Sane(p) /\ poly_tobytes(p) = RowTerm(row, FALSE, s)
  BY <1>3, HoldsSane, EncodeIs DEF poly_tobytes
<1>. QED  BY <1>4 DEF p, n

(* The inner product of t and the vector, one iteration, and its end.      *)
ReceivedT == poly_frombytes(pk.t[i])

LEMMA FromBytesHolds ==
  ASSUME NEW bytes
  PROVE  Holds(poly_frombytes(bytes), "ntt", 0, Received, bytes)
<1>1. Holds(Fresh("ntt", Received, bytes), "ntt", 0, Received, bytes)
  BY FreshHolds, Limits
<1>. QED  BY <1>1 DEF poly_frombytes, Received

LEMMA DotStep ==
  ASSUME Shape, i < K, NEW s,
         IF i = 0 THEN Transformed(s, 0)
         ELSE Transformed(s, 1) /\ SumHolds(mem[0], i, DotTerms(s))
  PROVE  SumHolds(IF i = 0 THEN poly_basemul(ReceivedT, mem[0])
                  ELSE poly_basemul_acc(mem[0], ReceivedT, mem[i]),
                  i + 1, DotTerms(s))
<1>1. i \in Vec /\ DotTerms(s)[i] = Times(pk.t[i], NoiseTerm(s, i))
  BY DEF Shape, Vec, DotTerms
<1>2. Holds(mem[i], "ntt", 0, Reduced, NoiseTerm(s, i))
  <2>1. i >= 0 /\ (i # 0 => i >= 1)
    BY DEF Shape
  <2>. QED  BY <1>1, <2>1 DEF Transformed
<1>3. Holds(ReceivedT, "ntt", 0, Received, pk.t[i])
  BY FromBytesHolds DEF ReceivedT
<1>4. CASE i = 0
  BY <1>1, <1>2, <1>3, <1>4, FirstProduct
<1>5. CASE i # 0
  <2>1. i \in 1 .. 3
    BY <1>5 DEF Shape
  <2>. QED  BY <2>1, <1>1, <1>2, <1>3, <1>5, NextProduct
<1>. QED  BY <1>4, <1>5

LEMMA LastPart ==
  ASSUME Shape, NEW m, NEW s, SumHolds(mem[0], K, DotTerms(s))
  PROVE  LET noisy == poly_addnoise(poly_invntt_tomont(mem[0]), ETA2, s, 2 * K)
             p     == poly_reduce(poly_add(noisy, poly_frommsg(m)))
         IN  Sane(p) /\ poly_compress(p) = VTerm(m, s) /\ Sane(poly_frommsg(m))
<1>. DEFINE noisy == poly_addnoise(poly_invntt_tomont(mem[0]), ETA2, s, 2 * K)
            f == poly_frommsg(m)
            p == poly_reduce(poly_add(noisy, f))
<1>1. Holds(mem[0], "ntt", -1, Sums, Sum(K, DotTerms(s)))
  BY SumLimit DEF Shape
<1>2. Holds(poly_invntt_tomont(mem[0]), "std", 0, InvLimit, Sum(K, DotTerms(s)))
  BY <1>1, InvHolds
<1>3. Holds(noisy, "std", 0, InvLimit + Noise, NoisyDot(s))
  BY <1>2, AddNoiseHolds, Etas DEF NoisyDot
<1>4. Holds(f, "std", 0, 1665, Atom(MsgAtom(m)))
  <2>1. Holds(Fresh("std", 1665, Atom(MsgAtom(m))), "std", 0, 1665, Atom(MsgAtom(m)))
    BY FreshHolds DEF MaxInt16
  <2>. QED  BY <2>1 DEF poly_frommsg, MsgAtom, Q
<1>. DEFINE g == poly_add(noisy, f)
<1>5. InvLimit + Noise \in Nat /\ InvLimit + Noise + 1665 <= MaxInt16 /\ "std" # "junk"
  BY Limits
<1>. HIDE DEF noisy, f
<1>6. Holds(g, "std", 0, InvLimit + Noise + 1665, VTerm(m, s))
  <2>1. Holds(Combine(noisy, 1, f), "std", 0, InvLimit + Noise + 1665,
              PlusTimes(NoisyDot(s), 1, Atom(MsgAtom(m))))
    BY <1>3, <1>4, <1>5, CombineHolds
  <2>. QED  BY <2>1 DEF poly_add, VTerm
<1>7. Holds(p, "std", 0, Reduced, VTerm(m, s))
  BY <1>6, ReduceHolds
<1>. HIDE DEF p, g
<1>8. Sane(p) /\ poly_compress(p) = VTerm(m, s) /\ Sane(f)
  BY <1>4, <1>7, HoldsSane, EncodeIs DEF poly_compress
<1>. QED  BY <1>8 DEF p, g, noisy, f

(* Decryption: one iteration, and its end.                                 *)
ReceivedU == poly_ntt(poly_decompress(ct[i], i))

LEMMA DecompressHolds ==
  ASSUME NEW bytes, NEW part
  PROVE  Holds(poly_decompress(bytes, part), "std", 0, Decoded,
               PlusTimes(bytes, 1, Atom(<<"round", part>>)))
  BY FreshHolds, Limits DEF poly_decompress, Decoded

LEMMA DecStep ==
  ASSUME Shape, i < K, i > 0 => SumHolds(mem[0], i, DecTerms)
  PROVE  /\ Sane(ReceivedU)
         /\ SumHolds(IF i = 0 THEN poly_basemul(poly_frombytes(sk[i]), ReceivedU)
                     ELSE poly_basemul_acc(mem[0], poly_frombytes(sk[i]), ReceivedU),
                     i + 1, DecTerms)
<1>. DEFINE u == PlusTimes(ct[i], 1, Atom(<<"round", i>>))
<1>1. i \in Vec /\ DecTerms[i] = Times(sk[i], u)
  BY DEF Shape, Vec, DecTerms
<1>2. Holds(ReceivedU, "ntt", 0, Reduced, u)
  BY DecompressHolds, NttHolds DEF ReceivedU
<1>3. Holds(poly_frombytes(sk[i]), "ntt", 0, Received, sk[i])
  BY FromBytesHolds
<1>. HIDE DEF u
<1>4. CASE i = 0
  BY <1>1, <1>2, <1>3, <1>4, FirstProduct, HoldsSane
<1>5. CASE i # 0
  <2>1. i \in 1 .. 3 /\ i > 0
    BY <1>5 DEF Shape
  <2>. QED  BY <2>1, <1>1, <1>2, <1>3, <1>5, NextProduct, HoldsSane
<1>. QED  BY <1>4, <1>5

LEMMA DecEnd ==
  ASSUME Shape, SumHolds(mem[0], K, DecTerms)
  PROVE  LET d == poly_decompress(ct[K], K)
         IN  Sane(d) /\ Sane(poly_reduce(poly_sub(d, poly_invntt_tomont(mem[0]))))
<1>. DEFINE d == poly_decompress(ct[K], K)
            t == PlusTimes(ct[K], 1, Atom(<<"round", K>>))
            p == poly_invntt_tomont(mem[0])
            S == Sum(K, DecTerms)
<1>1. Holds(d, "std", 0, Decoded, t)
  BY DecompressHolds
<1>2. Holds(mem[0], "ntt", -1, Sums, S)
  BY SumLimit DEF Shape
<1>3. Holds(p, "std", 0, InvLimit, S)
  BY <1>2, InvHolds
<1>. HIDE DEF d, t, p, S
<1>4. /\ Decoded \in Nat /\ InvLimit \in Nat /\ Decoded + InvLimit <= MaxInt16
      /\ "std" # "junk"
  BY Limits
<1>5. Holds(poly_sub(d, p), "std", 0, Decoded + InvLimit, PlusTimes(t, -1, S))
  BY <1>1, <1>3, <1>4, CombineHolds DEF poly_sub
<1>6. Holds(poly_reduce(poly_sub(d, p)), "std", 0, Reduced, PlusTimes(t, -1, S))
  BY <1>5, ReduceHolds
<1>7. Sane(d) /\ Sane(poly_reduce(poly_sub(d, p)))
  BY <1>1, <1>6, HoldsSane
<1>. QED  BY <1>7 DEF d, p

(* A value is the same after a step that changes nothing it is made of.    *)
LEMMA SameRows ==
  ASSUME K' = K
  PROVE  /\ Vec' = Vec
         /\ \A row, tr, s : RowTerm(row, tr, s)' = RowTerm(row, tr, s)
         /\ \A row, s : Row(row, s)' = Row(row, s)
  BY DEF Row, RowTerm, RowTerms, NoiseTerms, NoiseTerm, EntryTerm, Sum, Vec

LEMMA SameDots ==
  ASSUME K' = K, pk' = pk
  PROVE  /\ \A s : DotTerms(s)' = DotTerms(s)
         /\ \A m, s : VTerm(m, s)' = VTerm(m, s)
  BY DEF VTerm, NoisyDot, DotTerms, NoiseTerm, Sum, Vec

LEMMA SameDecs ==
  ASSUME K' = K, sk' = sk, ct' = ct
  PROVE  DecTerms' = DecTerms
  BY DEF DecTerms, Vec

LEMMA Indices ==
  ASSUME Shape
  PROVE  /\ 0 \in 0 .. K /\ K \in 0 .. K /\ i \in 0 .. K /\ K \notin Vec /\ 0 \in Vec
         /\ \A x \in Vec : x \in 0 .. K /\ x # K /\ x >= 0
         /\ \A x \in 0 .. K : x = K \/ x \in Vec
         /\ i < K => i \in Vec /\ \A x \in 0 .. i : x = i \/ x \in 0 .. i - 1
         /\ \A x \in 0 .. i - 1 : x \in Vec /\ x # i
         /\ i = K => 0 .. i - 1 = Vec
         /\ i < K => i + 1 \in 0 .. K /\ (i + 1) - 1 = i
  BY DEF Shape, Vec

(* sampling, common to three functions, and the transform after it         *)
LEMMA SampleStep ==
  ASSUME Shape, Stored, NEW s, Sampled(s), nonce = i, i < K,
         mem' = [mem EXCEPT ![i] = poly_getnoise(ETA1, s, nonce)]
  PROVE  /\ IsFun(mem', 0 .. K) /\ Sane(mem'[i])
         /\ \A x \in 0 .. K : x # i => mem'[x] = mem[x]
         /\ \A x \in 0 .. i : Holds(mem'[x], "std", 0, Noise, NoiseTerm(s, x))
<1>. DEFINE p == poly_getnoise(ETA1, s, nonce)
<1>1. Holds(p, "std", 0, Noise, NoiseTerm(s, i))
  BY NoiseHolds, Etas
<1>. HIDE DEF p
<1>2. /\ IsFun(mem', 0 .. K) /\ mem'[i] = p
      /\ \A x \in (0 .. K) \ {i} : mem'[x] = mem[x]
  <2>1. mem' = [mem EXCEPT ![i] = p]
    BY DEF p
  <2>2. IsFun(mem, 0 .. K) /\ i \in 0 .. K
    BY Indices DEF Stored
  <2>. QED  BY <2>1, <2>2 DEF IsFun
<1>3. ASSUME NEW x \in 0 .. i
      PROVE  Holds(mem'[x], "std", 0, Noise, NoiseTerm(s, x))
  <2>1. CASE x = i
    BY <1>1, <1>2, <2>1
  <2>2. CASE x # i
    BY <1>2, <2>2, Indices DEF Sampled
  <2>. QED  BY <2>1, <2>2
<1>4. Sane(mem'[i])
  BY <1>1, <1>2, HoldsSane
<1>. QED  BY <1>2, <1>3, <1>4

LEMMA TransformStep ==
  ASSUME Shape, Clean, NEW s, Sampled(s), i = K, mem' = NttVec
  PROVE  /\ IsFun(mem', 0 .. K)
         /\ \A x \in Vec : Holds(mem'[x], "ntt", 0, Reduced, NoiseTerm(s, x))
         /\ \A x \in 0 .. K : Sane(mem'[x])
<1>1. ASSUME NEW x \in Vec
      PROVE  Holds(mem'[x], "ntt", 0, Reduced, NoiseTerm(s, x))
  <2>1. Holds(mem[x], "std", 0, Noise, NoiseTerm(s, x))
    BY Indices DEF Sampled
  <2>2. Holds(mem[x], "std", 0, Decoded, NoiseTerm(s, x))
    BY <2>1, Weaken, Limits
  <2>3. mem'[x] = poly_ntt(mem[x])
    BY NttVecFun, Indices
  <2>. QED  BY <2>2, <2>3, NttHolds
<1>2. mem'[K] = mem[K]
  BY NttVecFun, Indices
<1>3. ASSUME NEW x \in 0 .. K
      PROVE  Sane(mem'[x])
  <2>1. x = K \/ x \in Vec
    BY Indices
  <2>. QED  BY <1>1, <1>2, <2>1, HoldsSane, Indices DEF Clean
<1>. QED  BY <1>1, <1>3, NttVecFun

(* A row puts its polynomial into the slot after the vector.               *)
LEMMA RowSlot ==
  ASSUME Shape, Stored, Clean, NEW p, Sane(p), mem' = [mem EXCEPT ![K] = p]
  PROVE  /\ IsFun(mem', 0 .. K) /\ mem'[K] = p
         /\ \A x \in Vec : mem'[x] = mem[x]
         /\ \A x \in 0 .. K : Sane(mem'[x])
<1>1. /\ IsFun(mem', 0 .. K) /\ mem'[K] = p
      /\ \A x \in (0 .. K) \ {K} : mem'[x] = mem[x]
  <2>1. IsFun(mem, 0 .. K) /\ K \in 0 .. K
    BY Indices DEF Stored
  <2>. QED  BY <2>1 DEF IsFun
<1>. QED  BY <1>1, Indices DEF Clean

LEMMA TwoSlots ==
  ASSUME Shape, Stored, Clean, NEW p, NEW q, Sane(p), Sane(q),
         mem' = [mem EXCEPT ![K] = p, ![0] = q]
  PROVE  /\ IsFun(mem', 0 .. K) /\ mem'[K] = p /\ mem'[0] = q
         /\ \A x \in Vec : x >= 1 => mem'[x] = mem[x]
         /\ \A x \in 0 .. K : Sane(mem'[x])
<1>. DEFINE f == [mem EXCEPT ![K] = p]
<1>0. IsFun(mem, 0 .. K) /\ K \in 0 .. K /\ 0 \in 0 .. K
  BY Indices DEF Stored
<1>1. mem' = [f EXCEPT ![0] = q]
  OBVIOUS
<1>2. /\ IsFun(f, 0 .. K) /\ f[K] = p
      /\ \A x \in (0 .. K) \ {K} : f[x] = mem[x]
  BY <1>0 DEF IsFun
<1>. HIDE DEF f
<1>3. /\ IsFun(mem', 0 .. K) /\ mem'[0] = q
      /\ \A x \in (0 .. K) \ {0} : mem'[x] = f[x]
  BY <1>0, <1>1, <1>2 DEF IsFun
<1>4. K # 0 /\ \A x \in Vec : x >= 1 => x # 0 /\ x # K /\ x \in 0 .. K
  BY Indices DEF Shape
<1>5. mem'[K] = p /\ \A x \in Vec : x >= 1 => mem'[x] = mem[x]
  BY <1>2, <1>3, <1>4, Indices
<1>6. \A x \in 0 .. K : x = 0 \/ x = K \/ (x \in Vec /\ x >= 1)
  BY DEF Shape, Vec
<1>7. \A x \in 0 .. K : Sane(mem'[x])
  BY <1>3, <1>5, <1>6 DEF Clean
<1>. QED  BY <1>3, <1>5, <1>7

(* Drawing keeps nonces fresh.                                             *)
LEMMA EnterStep ==
  ASSUME Shape, NEW place, Enter(place)
  PROVE  /\ IsFun(mem', 0 .. K) /\ \A x \in 0 .. K : Sane(mem'[x])
         /\ pc' = place /\ i' = 0 /\ nonce' = 0 /\ drawn' = {} /\ K' = K
         /\ reused' = reused
<1>1. IsFun(mem', 0 .. K) /\ \A x \in 0 .. K : mem'[x] = Unset
  BY FilledFun DEF Enter
<1>. QED  BY <1>1, UnsetSane DEF Enter

--------------------------------------------------------------------------------
(* Every step keeps the invariant.                                         *)

LEMMA InitIInv == Init => IInv
<1>. SUFFICES ASSUME Init PROVE IInv
  OBVIOUS
<1>1. K \in {2, 3, 4}
  BY IndCpaAssumption DEF Init
<1>2. Shape
  BY <1>1 DEF Init, Shape, Vec
<1>3. Stored /\ Clean
  <2>1. /\ IsFun(mem, 0 .. K) /\ (\A x \in 0 .. K : mem[x] = Unset) /\ IsFun(ct, 0 .. K)
    BY FilledFun DEF Init
  <2>2. pk.t = [x \in Vec |-> NoBytes] /\ pk = [t |-> pk.t, seed |-> pk.seed]
    BY DEF Init
  <2>3. IsFun(pk.t, Vec)
    BY <2>2, FilledFun
  <2>. QED  BY <2>1, <2>2, <2>3, UnsetSane DEF Stored, Clean
<1>4. Nonces /\ Slots /\ Comparison
  BY <1>1 DEF Init, Nonces, Slots, Comparison
<1>5. Keys
  BY <1>1 DEF Init, Keys, publicseed
<1>6. Origin
  BY <1>1 DEF Init, Origin
<1>. QED  BY <1>2, <1>3, <1>4, <1>5, <1>6 DEF IInv

(* A step that changes no key and no ciphertext.                           *)
LEMMA SameOrigin ==
  ASSUME K' = K, pk' = pk, ct' = ct, sent' = sent
  PROVE  /\ (sent # NoArg => Encrypted(sent)) => (sent' # NoArg => Encrypted(sent)')
         /\ (\A s : \A x \in Vec : Row(x, s)' = Row(x, s)) /\ Vec' = Vec
<1>1. Encrypted(sent)' <=> Encrypted(sent)
  BY SameRows, SameDots DEF Encrypted
<1>. QED  BY <1>1, SameRows

LEMMA KeypairCallStep ==
  ASSUME IInv, KeypairCall
  PROVE  IInv'
<1>. USE DEF KeypairCall, IInv
<1>0. /\ IsFun(mem', 0 .. K) /\ \A x \in 0 .. K : Sane(mem'[x])
      /\ pc' = "kp_noise" /\ i' = 0 /\ nonce' = 0 /\ drawn' = {} /\ K' = K
      /\ reused' = reused
  BY EnterStep
<1>1. Shape'
  BY <1>0 DEF Shape
<1>2. Stored' /\ Clean'
  BY <1>0 DEF Stored, Clean, Vec
<1>3. Nonces'
  BY <1>0 DEF Nonces
<1>4. Slots'
  BY <1>0 DEF Slots, Sampled
<1>5. Keys'
  BY <1>0 DEF Keys, Vec
<1>6. Origin'
  BY <1>0 DEF Origin, Keys
<1>7. Comparison'
  BY <1>0 DEF Comparison, Keys
<1>. QED  BY <1>1, <1>2, <1>3, <1>4, <1>5, <1>6, <1>7

LEMMA KeypairNoiseStep ==
  ASSUME IInv, KeypairNoise
  PROVE  IInv'
<1>. USE DEF KeypairNoise, Loop, IInv
<1>0. /\ IsFun(mem', 0 .. K) /\ Sane(mem'[i])
      /\ \A x \in 0 .. K : x # i => mem'[x] = mem[x]
      /\ \A x \in 0 .. i : Holds(mem'[x], "std", 0, Noise, NoiseTerm(noiseseed, x))
  BY SampleStep DEF Slots, Nonces, skpv
<1>1. Shape'
  BY Indices DEF Shape
<1>2. Stored' /\ Clean'
  BY <1>0 DEF Stored, Clean, Vec
<1>3. Nonces'
  BY DrawStep DEF Nonces
<1>4. Slots'
  BY <1>0, Indices DEF Slots, Sampled
<1>5. Keys'
  BY DEF Keys, Vec
<1>6. Origin'
  BY DEF Origin, Keys
<1>7. Comparison'
  BY DEF Comparison, Keys
<1>. QED  BY <1>1, <1>2, <1>3, <1>4, <1>5, <1>6, <1>7

LEMMA KeypairNttStep ==
  ASSUME IInv, KeypairNtt
  PROVE  IInv'
<1>. USE DEF KeypairNtt, Goto, IInv
<1>0. /\ IsFun(mem', 0 .. K) /\ \A x \in 0 .. K : Sane(mem'[x])
      /\ \A x \in Vec : Holds(mem'[x], "ntt", 0, Reduced, NoiseTerm(noiseseed, x))
  BY TransformStep DEF Slots
<1>1. Shape'
  BY Indices DEF Shape
<1>2. Stored' /\ Clean'
  BY <1>0 DEF Stored, Clean, Vec
<1>3. Nonces'
  BY DEF Nonces, Shape
<1>4. Slots'
  BY <1>0 DEF Slots, Transformed, Vec
<1>5. Keys'
  BY DEF Keys, Vec
<1>6. Origin'
  BY DEF Origin, Keys
<1>7. Comparison'
  BY DEF Comparison, Keys
<1>. QED  BY <1>1, <1>2, <1>3, <1>4, <1>5, <1>6, <1>7

LEMMA KeypairRowStep ==
  ASSUME IInv, KeypairRow
  PROVE  IInv'
<1>. USE DEF KeypairRow, Loop, IInv
<1>. DEFINE p == poly_reduce(poly_ntt(NoisyRow(i, publicseed, FALSE, ETA1, noiseseed)))
            t == RowTerm(i, FALSE, noiseseed)
<1>0. Sane(p) /\ poly_tobytes(p) = t
  BY KeyRow DEF Slots
<1>1. mem' = [mem EXCEPT ![K] = p] /\ pk' = [pk EXCEPT !.t[i] = poly_tobytes(mem'[K])]
  BY DEF NoisyRow, Nonces, pkp
<1>. HIDE DEF p, t
<1>2. /\ IsFun(mem', 0 .. K) /\ mem'[K] = p
      /\ \A x \in Vec : mem'[x] = mem[x]
      /\ \A x \in 0 .. K : Sane(mem'[x])
  BY <1>0, <1>1, RowSlot
<1>3. pk' = [pk EXCEPT !.t[i] = t]
  BY <1>0, <1>1, <1>2
<1>4. /\ pk' = [t |-> pk'.t, seed |-> pk'.seed] /\ pk'.seed = pk.seed
      /\ pk'.t = [pk.t EXCEPT ![i] = t]
  BY <1>3, KeyUpdate DEF Stored
<1>5. /\ IsFun(pk'.t, Vec) /\ pk'.t[i] = t
      /\ \A x \in Vec \ {i} : pk'.t[x] = pk.t[x]
  <2>. DEFINE f == pk.t
              g == pk'.t
  <2>1. IsFun(f, Vec) /\ i \in Vec
    BY Indices DEF Stored
  <2>2. g = [f EXCEPT ![i] = t]
    BY <1>4
  <2>. HIDE DEF f, g
  <2>3. IsFun(g, Vec) /\ g[i] = t /\ \A x \in Vec \ {i} : g[x] = f[x]
    BY <2>1, <2>2 DEF IsFun
  <2>. QED  BY <2>3 DEF f, g
<1>6. t # Junk
  BY ValuesDiffer DEF Shape, t
<1>7. Shape'
  BY Indices DEF Shape
<1>8. Stored' /\ Clean'
  BY <1>2, <1>4, <1>5 DEF Stored, Clean, Vec
<1>9. Nonces'
  <2>1. nonce = K + i /\ nonce \in Nat
    BY DEF Nonces
  <2>. QED  BY <2>1, DrawStep DEF Nonces, Shape
<1>10. Slots'
  BY <1>2 DEF Slots, Transformed, Vec
<1>11. Keys'
  <2>1. \A x \in 0 .. i : pk'.t[x] # Junk
    BY <1>5, <1>6, Indices DEF Keys
  <2>. QED  BY <2>1, <1>4, Indices DEF Keys
<1>12. Origin'
  BY <1>4 DEF Origin, Keys
<1>13. Comparison'
  BY DEF Comparison, Keys
<1>. QED  BY <1>7, <1>8, <1>9, <1>10, <1>11, <1>12, <1>13

LEMMA KeypairReturnStep ==
  ASSUME IInv, KeypairReturn
  PROVE  IInv'
<1>. USE DEF KeypairReturn, Goto, IInv
<1>1. ASSUME NEW x \in Vec
      PROVE  sk'[x] # Junk
  <2>1. sk'[x] = poly_tobytes(mem[x])
    BY DEF skpv
  <2>2. Holds(mem[x], "ntt", 0, Reduced, NoiseTerm(noiseseed, x))
    BY Indices DEF Slots, Transformed
  <2>3. sk'[x] = NoiseTerm(noiseseed, x)
    BY <2>1, <2>2, EncodeIs DEF poly_tobytes
  <2>4. {NoiseAtom(noiseseed, x)} \in DOMAIN NoiseTerm(noiseseed, x)
    BY AtomIs DEF NoiseTerm
  <2>5. {NoiseAtom(noiseseed, x)} \in DOMAIN Junk => NoiseAtom(noiseseed, x) = <<"junk">>
    BY InAtom DEF Junk
  <2>. QED  BY <2>3, <2>4, <2>5, Atoms
<1>2. /\ pk' = [t |-> pk'.t, seed |-> pk'.seed] /\ pk'.seed = publicseed
      /\ pk'.t = pk.t
  BY KeyUpdate DEF Stored
<1>3. \A x \in Vec : pk.t[x] # Junk
  BY Indices DEF Keys
<1>4. Shape'
  BY Indices DEF Shape
<1>5. Stored' /\ Clean'
  BY <1>2 DEF Stored, Clean, Vec
<1>6. Nonces' /\ Slots'
  BY DEF Nonces, Slots
<1>7. Keys'
  BY <1>1, <1>2, <1>3 DEF Keys, Vec, publicseed
<1>8. Origin'
  BY DEF Origin, Keys
<1>9. Comparison'
  BY DEF Comparison, Keys
<1>. QED  BY <1>4, <1>5, <1>6, <1>7, <1>8, <1>9

LEMMA EncCallStep ==
  ASSUME IInv, NEW m \in Messages, NEW c \in Coins, EncCall(m, c)
  PROVE  IInv'
<1>. USE DEF EncCall, IInv
<1>0. /\ IsFun(mem', 0 .. K) /\ \A x \in 0 .. K : Sane(mem'[x])
      /\ pc' = "enc_noise" /\ i' = 0 /\ nonce' = 0 /\ drawn' = {} /\ K' = K
      /\ reused' = reused
  BY EnterStep
<1>1. IsFun(ct', 0 .. K) /\ \A x \in 0 .. K : ct'[x] = NoBytes
  BY FilledFun
<1>2. Shape'
  BY <1>0 DEF Shape, Calls
<1>3. Stored' /\ Clean'
  BY <1>0, <1>1 DEF Stored, Clean, Vec
<1>4. Nonces'
  BY <1>0 DEF Nonces
<1>5. Slots'
  BY <1>0 DEF Slots, Sampled
<1>6. Keys'
  BY <1>0 DEF Keys, Vec
<1>7. Origin'
  BY <1>0, <1>1, Indices DEF Origin
<1>8. Comparison'
  BY <1>0 DEF Comparison
<1>. QED  BY <1>2, <1>3, <1>4, <1>5, <1>6, <1>7, <1>8

LEMMA EncNoiseStep ==
  ASSUME IInv, EncNoise
  PROVE  IInv'
<1>. USE DEF EncNoise, Loop, IInv
<1>0. /\ IsFun(mem', 0 .. K) /\ Sane(mem'[i])
      /\ \A x \in 0 .. K : x # i => mem'[x] = mem[x]
      /\ \A x \in 0 .. i : Holds(mem'[x], "std", 0, Noise, NoiseTerm(arg.coins, x))
  BY SampleStep DEF Slots, Nonces, sp
<1>1. Shape'
  BY Indices DEF Shape
<1>2. Stored' /\ Clean'
  BY <1>0 DEF Stored, Clean, Vec
<1>3. Nonces'
  BY DrawStep DEF Nonces
<1>4. Slots'
  BY <1>0, Indices DEF Slots, Sampled
<1>5. Keys'
  BY DEF Keys, Vec
<1>6. Origin'
  BY DEF Origin
<1>7. Comparison'
  BY DEF Comparison
<1>. QED  BY <1>1, <1>2, <1>3, <1>4, <1>5, <1>6, <1>7

LEMMA EncNttStep ==
  ASSUME IInv, EncNtt
  PROVE  IInv'
<1>. USE DEF EncNtt, Goto, IInv
<1>0. /\ IsFun(mem', 0 .. K) /\ \A x \in 0 .. K : Sane(mem'[x])
      /\ \A x \in Vec : Holds(mem'[x], "ntt", 0, Reduced, NoiseTerm(arg.coins, x))
  BY TransformStep DEF Slots
<1>1. Shape'
  BY Indices DEF Shape
<1>2. Stored' /\ Clean'
  BY <1>0 DEF Stored, Clean, Vec
<1>3. Nonces'
  BY DEF Nonces, Shape
<1>4. Slots'
  BY <1>0 DEF Slots, Transformed, Vec
<1>5. Keys'
  BY DEF Keys, Vec
<1>6. Origin'
  BY DEF Origin
<1>7. Comparison'
  BY DEF Comparison
<1>. QED  BY <1>1, <1>2, <1>3, <1>4, <1>5, <1>6, <1>7

LEMMA EncRowStep ==
  ASSUME IInv, EncRow
  PROVE  IInv'
<1>. USE DEF EncRow, Loop, IInv
<1>. DEFINE p == poly_reduce(NoisyRow(i, publicseed, TRUE, ETA2, arg.coins))
            t == Row(i, arg.coins)
<1>0. Sane(p) /\ poly_compress(p) = t
  BY CipherRow DEF Slots
<1>1. mem' = [mem EXCEPT ![K] = p] /\ ct' = [ct EXCEPT ![i] = poly_compress(mem'[K])]
  BY DEF NoisyRow, Nonces, Keys, b
<1>. HIDE DEF p, t
<1>2. /\ IsFun(mem', 0 .. K) /\ mem'[K] = p
      /\ \A x \in Vec : mem'[x] = mem[x]
      /\ \A x \in 0 .. K : Sane(mem'[x])
  BY <1>0, <1>1, RowSlot
<1>3. /\ IsFun(ct', 0 .. K) /\ ct'[i] = t
      /\ \A x \in (0 .. K) \ {i} : ct'[x] = ct[x]
  <2>1. ct' = [ct EXCEPT ![i] = t] /\ IsFun(ct, 0 .. K) /\ i \in 0 .. K
    BY <1>0, <1>1, <1>2, Indices DEF Stored
  <2>. QED  BY <2>1 DEF IsFun
<1>4. Shape'
  BY Indices DEF Shape
<1>5. Stored' /\ Clean'
  BY <1>2, <1>3 DEF Stored, Clean, Vec
<1>6. Nonces'
  <2>1. nonce = K + i /\ nonce \in Nat
    BY DEF Nonces
  <2>. QED  BY <2>1, DrawStep DEF Nonces, Shape
<1>7. Slots'
  BY <1>2 DEF Slots, Transformed, Vec
<1>8. ct'[K] = ct[K]
  BY <1>3, Indices
<1>9. Keys'
  BY <1>8 DEF Keys, Vec
<1>10. Origin'
  <2>1. \A x \in 0 .. i : ct'[x] = Row(x, arg.coins)
    BY <1>3, Indices DEF Origin, t
  <2>2. \A x \in 0 .. i' - 1 : ct'[x] = Row(x, arg.coins)'
    BY <2>1, SameRows, Indices
  <2>. QED  BY <2>2, <1>8 DEF Origin
<1>11. Comparison'
  BY DEF Comparison
<1>. QED  BY <1>4, <1>5, <1>6, <1>7, <1>9, <1>10, <1>11

LEMMA EncRowsDoneStep ==
  ASSUME IInv, EncRowsDone
  PROVE  IInv'
<1>. USE DEF EncRowsDone, Goto, IInv
<1>1. Shape'
  BY Indices DEF Shape
<1>2. Stored' /\ Clean'
  BY DEF Stored, Clean, Vec
<1>3. Nonces'
  BY DEF Nonces, Shape
<1>4. Slots'
  BY DEF Slots, Transformed, Vec
<1>5. Keys'
  BY DEF Keys, Vec
<1>6. Origin'
  BY SameRows, Indices DEF Origin
<1>7. Comparison'
  BY DEF Comparison
<1>. QED  BY <1>1, <1>2, <1>3, <1>4, <1>5, <1>6, <1>7

(* One iteration of the inner product, in either function.                 *)
LEMMA DotSlots ==
  ASSUME Shape, Stored, Clean, NEW s, i < K, i' = i + 1, K' = K, pk' = pk,
         IF i = 0 THEN Transformed(s, 0)
         ELSE Transformed(s, 1) /\ SumHolds(mem[0], i, DotTerms(s)),
         mem' = [mem EXCEPT ![K] = ReceivedT,
                            ![0] = IF i = 0 THEN poly_basemul(ReceivedT, mem[0])
                                   ELSE poly_basemul_acc(mem[0], ReceivedT, mem[i])]
  PROVE  /\ IsFun(mem', 0 .. K)
         /\ \A x \in 0 .. K : Sane(mem'[x])
         /\ SumHolds(mem'[0], i', DotTerms(s))
         /\ \A x \in Vec : x >= 1 => Holds(mem'[x], "ntt", 0, Reduced, NoiseTerm(s, x))
<1>. DEFINE q == IF i = 0 THEN poly_basemul(ReceivedT, mem[0])
                 ELSE poly_basemul_acc(mem[0], ReceivedT, mem[i])
<1>1. SumHolds(q, i + 1, DotTerms(s))
  BY DotStep
<1>2. Sane(ReceivedT)
  BY FromBytesHolds, HoldsSane DEF ReceivedT
<1>3. mem' = [mem EXCEPT ![K] = ReceivedT, ![0] = q]
  OBVIOUS
<1>. HIDE DEF q
<1>4. Sane(q)
  BY <1>1, HoldsSane DEF SumHolds
<1>5. /\ IsFun(mem', 0 .. K) /\ mem'[0] = q
      /\ \A x \in Vec : x >= 1 => mem'[x] = mem[x]
      /\ \A x \in 0 .. K : Sane(mem'[x])
  BY <1>2, <1>3, <1>4, TwoSlots
<1>6. SumHolds(mem'[0], i', DotTerms(s))
  BY <1>1, <1>5
<1>7. \A x \in Vec : x >= 1 => Holds(mem'[x], "ntt", 0, Reduced, NoiseTerm(s, x))
  BY <1>5, Indices DEF Transformed
<1>. QED  BY <1>5, <1>6, <1>7

LEMMA EncDotStep ==
  ASSUME IInv, EncDot
  PROVE  IInv'
<1>. USE DEF EncDot, Loop, IInv
<1>0. mem' = [mem EXCEPT ![K] = ReceivedT,
                         ![0] = IF i = 0 THEN poly_basemul(ReceivedT, mem[0])
                                ELSE poly_basemul_acc(mem[0], ReceivedT, mem[i])]
  BY DEF ReceivedT, pkp, v, sp
<1>1. /\ IsFun(mem', 0 .. K)
      /\ \A x \in 0 .. K : Sane(mem'[x])
      /\ SumHolds(mem'[0], i', DotTerms(arg.coins))
      /\ \A x \in Vec : x >= 1 => Holds(mem'[x], "ntt", 0, Reduced, NoiseTerm(arg.coins, x))
  BY <1>0, DotSlots DEF Slots
<1>2. Shape'
  BY Indices DEF Shape
<1>3. Stored' /\ Clean'
  BY <1>1 DEF Stored, Clean, Vec
<1>4. Nonces'
  BY DEF Nonces
<1>5. Slots'
  <2>1. DotTerms(arg.coins)' = DotTerms(arg.coins)
    BY DEF DotTerms, Vec
  <2>2. SumHolds(mem[0], i, DotTerms(arg.coins))'
    BY <2>1, <1>1
  <2>3. Transformed(arg.coins, 1)'
    BY <1>1 DEF Transformed, Vec
  <2>4. i' # 0
    BY DEF Shape
  <2>. QED  BY <2>2, <2>3, <2>4 DEF Slots
<1>6. Keys'
  BY DEF Keys, Vec
<1>7. Origin'
  BY SameRows DEF Origin
<1>8. Comparison'
  BY DEF Comparison
<1>. QED  BY <1>2, <1>3, <1>4, <1>5, <1>6, <1>7, <1>8

LEMMA EncReturnStep ==
  ASSUME IInv, EncReturn
  PROVE  IInv'
<1>. USE DEF EncReturn, IInv
<1>. DEFINE noisy == poly_addnoise(poly_invntt_tomont(mem[0]), ETA2, arg.coins, 2 * K)
            f == poly_frommsg(arg.m)
            p == poly_reduce(poly_add(noisy, f))
            t == VTerm(arg.m, arg.coins)
<1>0. Sane(p) /\ poly_compress(p) = t /\ Sane(f)
  <2>1. SumHolds(mem[0], K, DotTerms(arg.coins))
    BY DEF Slots, Shape
  <2>. QED  BY <2>1, LastPart
<1>1. mem' = [mem EXCEPT ![K] = f, ![0] = p] /\ ct' = [ct EXCEPT ![K] = poly_compress(mem'[0])]
  BY DEF Nonces, k, b, v, sp
<1>. HIDE DEF p, f, t
<1>2. /\ IsFun(mem', 0 .. K) /\ mem'[0] = p
      /\ \A x \in 0 .. K : Sane(mem'[x])
  BY <1>0, <1>1, TwoSlots
<1>3. IsFun(ct', 0 .. K) /\ ct'[K] = t /\ \A x \in Vec : ct'[x] = ct[x]
  <2>1. ct' = [ct EXCEPT ![K] = t] /\ IsFun(ct, 0 .. K) /\ K \in 0 .. K
    BY <1>0, <1>1, <1>2, Indices DEF Stored
  <2>2. IsFun(ct', 0 .. K) /\ ct'[K] = t /\ \A x \in (0 .. K) \ {K} : ct'[x] = ct[x]
    BY <2>1 DEF IsFun
  <2>. QED  BY <2>2, Indices
<1>4. arg # NoArg /\ arg \in Calls /\ K' = K
  BY IndCpaAssumption DEF Shape, Calls, NoArg
<1>5. Shape'
  BY <1>4, Indices DEF Shape
<1>6. Stored' /\ Clean'
  BY <1>2, <1>3 DEF Stored, Clean, Vec
<1>7. Nonces'
  BY DrawStep DEF Nonces
<1>8. Slots'
  BY DEF Slots
<1>9. Keys'
  BY DEF Keys, Vec
<1>10. Encrypted(sent)'
  <2>1. /\ \A x \in Vec : ct'[x] = Row(x, arg.coins)
        /\ ct'[K] = VTerm(arg.m, arg.coins)
    BY <1>3 DEF Origin, t
  <2>. QED  BY <2>1, SameRows, SameDots DEF Encrypted
<1>11. Origin'
  BY <1>4, <1>10 DEF Origin
<1>12. Comparison'
  BY DEF Comparison, Origin
<1>. QED  BY <1>5, <1>6, <1>7, <1>8, <1>9, <1>11, <1>12

(* Where the ciphertext came from does not change unless it does.          *)
LEMMA KeptOrigin ==
  ASSUME Origin, K' = K, pk' = pk, ct' = ct, sent' = sent,
         pc' \notin {"enc_noise", "enc_row", "enc_dot"}
  PROVE  Origin'
<1>1. sent # NoArg => Encrypted(sent)'
  BY SameRows, SameDots DEF Encrypted, Origin
<1>2. \A part : Forged(part)' = Forged(part)
  BY DEF Forged
<1>. QED  BY <1>1, <1>2 DEF Origin

LEMMA TamperStep ==
  ASSUME IInv, NEW part \in 0 .. K, Tamper(part)
  PROVE  IInv'
<1>. USE DEF Tamper, IInv
<1>1. IsFun(ct', 0 .. K) /\ ct'[part] = Forged(part)
  <2>1. ct' = [ct EXCEPT ![part] = Forged(part)] /\ IsFun(ct, 0 .. K)
    BY DEF Stored, Forged
  <2>. QED  BY <2>1 DEF IsFun
<1>2. pk.seed # "none"
  BY DEF Keys
<1>3. Shape'
  BY DEF Shape
<1>4. Stored' /\ Clean'
  BY <1>1 DEF Stored, Clean, Vec
<1>5. Nonces' /\ Slots'
  BY DEF Nonces, Slots
<1>6. Keys'
  BY <1>2 DEF Keys, Vec
<1>7. Origin'
  BY <1>1 DEF Origin, Forged
<1>8. Comparison'
  BY DEF Comparison
<1>. QED  BY <1>3, <1>4, <1>5, <1>6, <1>7, <1>8

LEMMA DecCallStep ==
  ASSUME IInv, DecCall
  PROVE  IInv'
<1>. USE DEF DecCall, IInv
<1>0. /\ IsFun(mem', 0 .. K) /\ \A x \in 0 .. K : Sane(mem'[x])
      /\ pc' = "dec_dot" /\ i' = 0 /\ nonce' = 0 /\ drawn' = {} /\ K' = K
      /\ reused' = reused
  BY EnterStep
<1>1. Shape'
  BY <1>0 DEF Shape
<1>2. Stored' /\ Clean'
  BY <1>0 DEF Stored, Clean, Vec
<1>3. Nonces'
  BY <1>0 DEF Nonces
<1>4. Slots'
  BY <1>0 DEF Slots
<1>5. Keys'
  BY <1>0 DEF Keys, Vec
<1>6. Origin'
  BY <1>0, KeptOrigin
<1>7. Comparison'
  BY <1>0 DEF Comparison
<1>. QED  BY <1>1, <1>2, <1>3, <1>4, <1>5, <1>6, <1>7

(* Decryption uses the first two slots.                                    *)
LEMMA DecSlots ==
  ASSUME Shape, Stored, Clean, NEW p, NEW q, Sane(p), Sane(q),
         mem' = [mem EXCEPT ![1] = p, ![0] = q]
  PROVE  IsFun(mem', 0 .. K) /\ mem'[0] = q /\ \A x \in 0 .. K : Sane(mem'[x])
<1>. DEFINE f == [mem EXCEPT ![1] = p]
<1>0. IsFun(mem, 0 .. K) /\ 1 \in 0 .. K /\ 0 \in 0 .. K
  BY DEF Stored, Shape
<1>1. mem' = [f EXCEPT ![0] = q]
  OBVIOUS
<1>2. IsFun(f, 0 .. K) /\ f[1] = p /\ \A x \in (0 .. K) \ {1} : f[x] = mem[x]
  BY <1>0 DEF IsFun
<1>. HIDE DEF f
<1>3. IsFun(mem', 0 .. K) /\ mem'[0] = q /\ \A x \in (0 .. K) \ {0} : mem'[x] = f[x]
  BY <1>0, <1>1, <1>2 DEF IsFun
<1>4. \A x \in 0 .. K : Sane(f[x])
  BY <1>2 DEF Clean
<1>5. \A x \in 0 .. K : Sane(mem'[x])
  BY <1>3, <1>4
<1>. QED  BY <1>3, <1>5

LEMMA DecDotStep ==
  ASSUME IInv, DecDot
  PROVE  IInv'
<1>. USE DEF DecDot, Loop, IInv
<1>. DEFINE u == ReceivedU
            q == IF i = 0 THEN poly_basemul(poly_frombytes(sk[i]), ReceivedU)
                 ELSE poly_basemul_acc(mem[0], poly_frombytes(sk[i]), ReceivedU)
<1>0. Sane(u) /\ SumHolds(q, i + 1, DecTerms)
  BY DecStep DEF Slots
<1>1. mem' = [mem EXCEPT ![1] = u, ![0] = q]
  BY DEF ReceivedU, bp, mp
<1>. HIDE DEF u, q
<1>2. Sane(q)
  BY <1>0, HoldsSane DEF SumHolds
<1>3. IsFun(mem', 0 .. K) /\ mem'[0] = q /\ \A x \in 0 .. K : Sane(mem'[x])
  BY <1>0, <1>1, <1>2, DecSlots
<1>4. Shape'
  BY Indices DEF Shape
<1>5. Stored' /\ Clean'
  BY <1>3 DEF Stored, Clean, Vec
<1>6. Nonces'
  BY DEF Nonces
<1>7. Slots'
  <2>1. SumHolds(mem[0], i, DecTerms)'
    BY <1>0, <1>3, SameDecs
  <2>. QED  BY <2>1 DEF Slots
<1>8. Keys'
  BY DEF Keys, Vec
<1>9. Origin'
  BY KeptOrigin
<1>10. Comparison'
  BY DEF Comparison
<1>. QED  BY <1>4, <1>5, <1>6, <1>7, <1>8, <1>9, <1>10

LEMMA DecReturnStep ==
  ASSUME IInv, DecReturn
  PROVE  IInv'
<1>. USE DEF DecReturn, Goto, IInv
<1>. DEFINE d == poly_decompress(ct[K], K)
            w == poly_reduce(poly_sub(d, poly_invntt_tomont(mem[0])))
<1>0. Sane(d) /\ Sane(w)
  <2>1. SumHolds(mem[0], K, DecTerms)
    BY DEF Slots, Shape
  <2>. QED  BY <2>1, DecEnd
<1>1. mem' = [mem EXCEPT ![1] = d, ![0] = w]
  BY DEF decv, bp, mp
<1>. HIDE DEF d, w
<1>2. IsFun(mem', 0 .. K) /\ \A x \in 0 .. K : Sane(mem'[x])
  BY <1>0, <1>1, DecSlots
<1>3. Shape'
  BY Indices DEF Shape
<1>4. Stored' /\ Clean'
  BY <1>2 DEF Stored, Clean, Vec
<1>5. Nonces' /\ Slots'
  BY DEF Nonces, Slots
<1>6. Keys'
  BY DEF Keys, Vec
<1>7. Origin'
  BY KeptOrigin
<1>8. Comparison'
  BY DEF Comparison
<1>. QED  BY <1>3, <1>4, <1>5, <1>6, <1>7, <1>8

LEMMA CmpCallStep ==
  ASSUME IInv, NEW m \in Messages, NEW c \in Coins, CmpCall(m, c)
  PROVE  IInv'
<1>. USE DEF CmpCall, IInv
<1>0. /\ IsFun(mem', 0 .. K) /\ \A x \in 0 .. K : Sane(mem'[x])
      /\ pc' = "cmp_noise" /\ i' = 0 /\ nonce' = 0 /\ drawn' = {} /\ K' = K
      /\ reused' = reused
  BY EnterStep
<1>1. Shape'
  BY <1>0 DEF Shape, Calls
<1>2. Stored' /\ Clean'
  BY <1>0 DEF Stored, Clean, Vec
<1>3. Nonces'
  BY <1>0 DEF Nonces
<1>4. Slots'
  BY <1>0 DEF Slots, Sampled
<1>5. Keys'
  BY <1>0 DEF Keys, Vec
<1>6. Origin'
  BY <1>0, KeptOrigin
<1>7. Comparison'
  BY <1>0 DEF Comparison
<1>. QED  BY <1>1, <1>2, <1>3, <1>4, <1>5, <1>6, <1>7

LEMMA CmpNoiseStep ==
  ASSUME IInv, CmpNoise
  PROVE  IInv'
<1>. USE DEF CmpNoise, Loop, IInv
<1>0. /\ IsFun(mem', 0 .. K) /\ Sane(mem'[i])
      /\ \A x \in 0 .. K : x # i => mem'[x] = mem[x]
      /\ \A x \in 0 .. i : Holds(mem'[x], "std", 0, Noise, NoiseTerm(arg.coins, x))
  BY SampleStep DEF Slots, Nonces, sp
<1>1. Shape'
  BY Indices DEF Shape
<1>2. Stored' /\ Clean'
  BY <1>0 DEF Stored, Clean, Vec
<1>3. Nonces'
  BY DrawStep DEF Nonces
<1>4. Slots'
  BY <1>0, Indices DEF Slots, Sampled
<1>5. Keys'
  BY DEF Keys, Vec
<1>6. Origin'
  BY KeptOrigin
<1>7. Comparison'
  BY DEF Comparison
<1>. QED  BY <1>1, <1>2, <1>3, <1>4, <1>5, <1>6, <1>7

LEMMA CmpNttStep ==
  ASSUME IInv, CmpNtt
  PROVE  IInv'
<1>. USE DEF CmpNtt, Goto, IInv
<1>0. /\ IsFun(mem', 0 .. K) /\ \A x \in 0 .. K : Sane(mem'[x])
      /\ \A x \in Vec : Holds(mem'[x], "ntt", 0, Reduced, NoiseTerm(arg.coins, x))
  BY TransformStep DEF Slots
<1>1. Shape'
  BY Indices DEF Shape
<1>2. Stored' /\ Clean'
  BY <1>0 DEF Stored, Clean, Vec
<1>3. Nonces'
  BY DEF Nonces, Shape
<1>4. Slots'
  BY <1>0 DEF Slots, Transformed, Vec
<1>5. Keys'
  BY DEF Keys, Vec
<1>6. Origin'
  BY KeptOrigin
<1>7. Comparison'
  BY Indices DEF Comparison
<1>. QED  BY <1>1, <1>2, <1>3, <1>4, <1>5, <1>6, <1>7

(* What or-ing in one more comparison says.                                *)
LEMMA OrDiffers ==
  ASSUME NEW found \in {0, 1}, NEW bytes, NEW p
  PROVE  /\ Or(found, Differs(bytes, p)) \in {0, 1}
         /\ Or(found, Differs(bytes, p)) = 0 <=> found = 0 /\ bytes = poly_compress(p)
  BY DEF Or, Differs, Larger

LEMMA CmpRowStep ==
  ASSUME IInv, CmpRow
  PROVE  IInv'
<1>. USE DEF CmpRow, Loop, IInv
<1>. DEFINE p == poly_reduce(NoisyRow(i, publicseed, TRUE, ETA2, arg.coins))
            t == Row(i, arg.coins)
<1>0. Sane(p) /\ poly_compress(p) = t
  BY CipherRow DEF Slots
<1>1. mem' = [mem EXCEPT ![K] = p] /\ rc' = Or(rc, Differs(ct[i], mem'[K]))
  BY DEF NoisyRow, Nonces, Keys, b
<1>. HIDE DEF p, t
<1>2. /\ IsFun(mem', 0 .. K) /\ mem'[K] = p
      /\ \A x \in Vec : mem'[x] = mem[x]
      /\ \A x \in 0 .. K : Sane(mem'[x])
  BY <1>0, <1>1, RowSlot
<1>3. rc' \in {0, 1} /\ (rc' = 0 <=> rc = 0 /\ ct[i] = t)
  <2>1. /\ Or(rc, Differs(ct[i], p)) \in {0, 1}
        /\ Or(rc, Differs(ct[i], p)) = 0 <=> rc = 0 /\ ct[i] = t
    BY <1>0, OrDiffers DEF Comparison
  <2>. QED  BY <1>1, <1>2, <2>1
<1>4. Shape'
  BY Indices DEF Shape
<1>5. Stored' /\ Clean'
  BY <1>2 DEF Stored, Clean, Vec
<1>6. Nonces'
  <2>1. nonce = K + i /\ nonce \in Nat
    BY DEF Nonces
  <2>. QED  BY <2>1, DrawStep DEF Nonces, Shape
<1>7. Slots'
  BY <1>2 DEF Slots, Transformed, Vec
<1>8. Keys'
  BY DEF Keys, Vec, Comparison
<1>9. Origin'
  BY KeptOrigin
<1>10. Comparison'
  <2>1. rc = 0 <=> \A x \in 0 .. i - 1 : ct[x] = Row(x, arg.coins)
    BY DEF Comparison
  <2>2. rc' = 0 <=> \A x \in 0 .. i : ct[x] = Row(x, arg.coins)
    <3>1. \A x \in 0 .. i - 1 : x \in 0 .. i
      BY DEF Shape
    <3>2. i \in 0 .. i
      BY DEF Shape
    <3>. QED  BY <1>3, <2>1, <3>1, <3>2, Indices DEF t
  <2>3. rc' = 0 <=> \A x \in 0 .. i' - 1 : ct'[x] = Row(x, arg.coins)'
    BY <2>2, SameRows, Indices
  <2>. QED  BY <1>3, <2>3 DEF Comparison
<1>. QED  BY <1>4, <1>5, <1>6, <1>7, <1>8, <1>9, <1>10

LEMMA CmpRowsDoneStep ==
  ASSUME IInv, CmpRowsDone
  PROVE  IInv'
<1>. USE DEF CmpRowsDone, Goto, IInv
<1>1. Shape'
  BY Indices DEF Shape
<1>2. Stored' /\ Clean'
  BY DEF Stored, Clean, Vec
<1>3. Nonces'
  BY DEF Nonces, Shape
<1>4. Slots'
  BY DEF Slots, Transformed, Vec
<1>5. Keys'
  BY DEF Keys, Vec
<1>6. Origin'
  BY KeptOrigin
<1>7. Comparison'
  BY SameRows, Indices DEF Comparison
<1>. QED  BY <1>1, <1>2, <1>3, <1>4, <1>5, <1>6, <1>7

LEMMA CmpDotStep ==
  ASSUME IInv, CmpDot
  PROVE  IInv'
<1>. USE DEF CmpDot, Loop, IInv
<1>0. mem' = [mem EXCEPT ![K] = ReceivedT,
                         ![0] = IF i = 0 THEN poly_basemul(ReceivedT, mem[0])
                                ELSE poly_basemul_acc(mem[0], ReceivedT, mem[i])]
  BY DEF ReceivedT, pkp, v, sp
<1>1. /\ IsFun(mem', 0 .. K)
      /\ \A x \in 0 .. K : Sane(mem'[x])
      /\ SumHolds(mem'[0], i', DotTerms(arg.coins))
      /\ \A x \in Vec : x >= 1 => Holds(mem'[x], "ntt", 0, Reduced, NoiseTerm(arg.coins, x))
  BY <1>0, DotSlots DEF Slots
<1>2. Shape'
  BY Indices DEF Shape
<1>3. Stored' /\ Clean'
  BY <1>1 DEF Stored, Clean, Vec
<1>4. Nonces'
  BY DEF Nonces
<1>5. Slots'
  <2>1. DotTerms(arg.coins)' = DotTerms(arg.coins)
    BY DEF DotTerms, Vec
  <2>2. SumHolds(mem[0], i, DotTerms(arg.coins))'
    BY <2>1, <1>1
  <2>3. Transformed(arg.coins, 1)'
    BY <1>1 DEF Transformed, Vec
  <2>4. i' # 0
    BY DEF Shape
  <2>. QED  BY <2>2, <2>3, <2>4 DEF Slots
<1>6. Keys'
  BY DEF Keys, Vec
<1>7. Origin'
  BY KeptOrigin
<1>8. Comparison'
  BY SameRows DEF Comparison
<1>. QED  BY <1>2, <1>3, <1>4, <1>5, <1>6, <1>7, <1>8

(* The ciphertext is what indcpa_enc makes of the arguments exactly if it  *)
(* was called with them and nobody touched its result.                     *)
LEMMA OneOrigin ==
  ASSUME IInv, ct[K] # NoBytes, arg \in Calls
  PROVE  Encrypted(arg) <=> sent = arg
<1>. USE DEF IInv
<1>1. ASSUME sent = arg
      PROVE  Encrypted(arg)
  BY <1>1, IndCpaAssumption DEF Origin, Calls, NoArg
<1>2. ASSUME Encrypted(arg), sent # NoArg
      PROVE  sent = arg
  <2>1. Encrypted(sent)
    BY <1>2 DEF Origin
  <2>2. VTerm(sent.m, sent.coins) = VTerm(arg.m, arg.coins)
    BY <1>2, <2>1 DEF Encrypted
  <2>3. Row(0, sent.coins) = Row(0, arg.coins)
    BY <1>2, <2>1, Indices DEF Encrypted
  <2>4. sent.m = arg.m /\ sent.coins = arg.coins
    BY <2>2, <2>3, ValuesDiffer DEF Row, Shape
  <2>5. sent \in Calls
    BY <1>2 DEF Shape
  <2>. QED  BY <2>4, <2>5 DEF Calls
<1>3. ASSUME Encrypted(arg), sent = NoArg
      PROVE  FALSE
  <2>1. PICK part \in 0 .. K : ct[part] = Forged(part)
    BY <1>3 DEF Origin
  <2>2. CASE part \in Vec
    <3>1. RowTerm(part, TRUE, arg.coins) = Forged(part)
      BY <1>3, <2>1, <2>2 DEF Encrypted, Row
    <3>. QED  BY <3>1, ValuesDiffer DEF Shape
  <2>3. CASE part = K
    <3>1. VTerm(arg.m, arg.coins) = Forged(part)
      BY <1>3, <2>1, <2>3 DEF Encrypted
    <3>. QED  BY <3>1, ValuesDiffer DEF Shape
  <2>. QED  BY <2>2, <2>3, Indices
<1>. QED  BY <1>1, <1>2, <1>3

LEMMA CmpReturnStep ==
  ASSUME IInv, CmpReturn
  PROVE  IInv'
<1>. USE DEF CmpReturn, IInv
<1>. DEFINE noisy == poly_addnoise(poly_invntt_tomont(mem[0]), ETA2, arg.coins, 2 * K)
            f == poly_frommsg(arg.m)
            p == poly_reduce(poly_add(noisy, f))
            t == VTerm(arg.m, arg.coins)
<1>0. Sane(p) /\ poly_compress(p) = t /\ Sane(f)
  <2>1. SumHolds(mem[0], K, DotTerms(arg.coins))
    BY DEF Slots, Shape
  <2>. QED  BY <2>1, LastPart
<1>1. /\ mem' = [mem EXCEPT ![K] = f, ![0] = p]
      /\ rc' = IF Or(rc, Differs(ct[K], mem'[0])) = 0 THEN 0 ELSE 1
  BY DEF Nonces, k, b, v, sp
<1>. HIDE DEF p, f, t
<1>2. /\ IsFun(mem', 0 .. K) /\ mem'[0] = p
      /\ \A x \in 0 .. K : Sane(mem'[x])
  BY <1>0, <1>1, TwoSlots
<1>3. rc' = 0 <=> Encrypted(arg)
  <2>1. Or(rc, Differs(ct[K], p)) = 0 <=> rc = 0 /\ ct[K] = t
    BY <1>0, OrDiffers DEF Comparison
  <2>. QED  BY <1>1, <1>2, <2>1 DEF Comparison, Encrypted, t
<1>4. arg \in Calls /\ ct[K] # NoBytes
  BY DEF Shape, Comparison
<1>5. (rc' = 0) = (sent = arg)
  BY <1>3, <1>4, OneOrigin
<1>6. Shape'
  BY Indices DEF Shape
<1>7. Stored' /\ Clean'
  BY <1>2 DEF Stored, Clean, Vec
<1>8. Nonces'
  BY DrawStep DEF Nonces
<1>9. Slots'
  BY DEF Slots
<1>10. Keys'
  BY <1>4 DEF Keys, Vec
<1>11. Origin'
  BY KeptOrigin
<1>12. Comparison'
  BY <1>5 DEF Comparison
<1>. QED  BY <1>6, <1>7, <1>8, <1>9, <1>10, <1>11, <1>12

LEMMA StutterStep ==
  ASSUME IInv, UNCHANGED vars
  PROVE  IInv'
<1>. USE DEF vars, IInv
<1>1. Shape' /\ Stored' /\ Clean' /\ Nonces'
  BY DEF Shape, Stored, Clean, Nonces, Vec
<1>2. Slots'
  <2>1. \A s : DotTerms(s)' = DotTerms(s)
    BY SameDots
  <2>2. DotTerms(arg.coins)' = DotTerms(arg.coins)
    BY DEF DotTerms, Vec
  <2>3. DecTerms' = DecTerms
    BY SameDecs
  <2>. QED  BY <2>2, <2>3 DEF Slots, Sampled, Transformed, Vec
<1>3. Keys'
  BY DEF Keys, Vec
<1>4. Origin'
  <2>1. Encrypted(sent)' <=> Encrypted(sent)
    BY SameRows, SameDots DEF Encrypted
  <2>. QED  BY <2>1, SameRows DEF Origin, Forged
<1>5. Comparison'
  BY SameRows DEF Comparison
<1>. QED  BY <1>1, <1>2, <1>3, <1>4, <1>5

LEMMA NextIInv ==
  ASSUME IInv, [Next]_vars
  PROVE  IInv'
<1>1. CASE KeypairCall \/ KeypairNoise \/ KeypairNtt \/ KeypairRow \/ KeypairReturn
  BY <1>1, KeypairCallStep, KeypairNoiseStep, KeypairNttStep, KeypairRowStep,
     KeypairReturnStep
<1>2. CASE \E m \in Messages, c \in Coins : EncCall(m, c) \/ CmpCall(m, c)
  BY <1>2, EncCallStep, CmpCallStep
<1>3. CASE EncNoise \/ EncNtt \/ EncRow \/ EncRowsDone \/ EncDot \/ EncReturn
  BY <1>3, EncNoiseStep, EncNttStep, EncRowStep, EncRowsDoneStep, EncDotStep,
     EncReturnStep
<1>4. CASE \E part \in 0 .. K : Tamper(part)
  BY <1>4, TamperStep
<1>5. CASE DecCall \/ DecDot \/ DecReturn
  BY <1>5, DecCallStep, DecDotStep, DecReturnStep
<1>6. CASE CmpNoise \/ CmpNtt \/ CmpRow \/ CmpRowsDone \/ CmpDot \/ CmpReturn
  BY <1>6, CmpNoiseStep, CmpNttStep, CmpRowStep, CmpRowsDoneStep, CmpDotStep,
     CmpReturnStep
<1>7. CASE UNCHANGED vars
  BY <1>7, StutterStep
<1>. QED  BY <1>1, <1>2, <1>3, <1>4, <1>5, <1>6, <1>7 DEF Next

(* The invariant holds in every reachable state, for every set of ranks    *)
(* the code can be built for, all messages and all coins.                  *)
LEMMA IInvHolds == Spec => []IInv
<1>1. Init => IInv
  BY InitIInv
<1>2. IInv /\ [Next]_vars => IInv'
  BY NextIInv
<1>. QED  BY <1>1, <1>2, PTL DEF Spec

--------------------------------------------------------------------------------
(* No int16_t of key generation, encryption, decryption or re-encryption   *)
(* ever has to hold more than 16 bits, whatever keys, messages, coins and  *)
(* forged ciphertexts they are given: the reductions that are left out     *)
(* can be left out, for rank 4 too.                                        *)
THEOREM NothingOverflows == Spec => []NoOverflow
<1>1. IInv => NoOverflow
  BY DEF IInv, Stored, IsFun, Clean, Sane, UpTo, NoOverflow
<1>. QED  BY <1>1, IInvHolds, PTL

(* No addition, product, transform or encoder is ever applied to           *)
(* polynomials in the wrong domain, with unlike Montgomery factors or too  *)
(* large for it, nor to a slot that has not been written; the keys that    *)
(* leave indcpa_keypair_derand are therefore sound.                        *)
THEOREM DomainsAgree == Spec => []WellFormed
<1>1. IInv => WellFormed
  BY DEF IInv, Stored, IsFun, Clean, Sane, Keys, WellFormed
<1>. QED  BY <1>1, IInvHolds, PTL

(* No call gives the PRF the same seed and nonce twice, so no two noise    *)
(* polynomials of a key or of a ciphertext are the same.                   *)
THEOREM NoncesAreFresh == Spec => []NonceFresh
<1>1. IInv => NonceFresh
  BY DEF IInv, Nonces, NonceFresh
<1>. QED  BY <1>1, IInvHolds, PTL

(* indcpa_enc_cmp answers 0 exactly for the ciphertext that indcpa_enc     *)
(* makes of the same arguments: its copy of the encryption computes the    *)
(* same parts in the same order, no difference found is lost, and neither  *)
(* other arguments nor a replaced part can give the same ciphertext.       *)
THEOREM ComparesTheWhole == Spec => []CmpIsReencryption
<1>1. IInv => CmpIsReencryption
  BY DEF IInv, Comparison, CmpIsReencryption
<1>. QED  BY <1>1, IInvHolds, PTL
=================================================================================
