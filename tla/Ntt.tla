---------------------------------- MODULE Ntt ----------------------------------
(***************************************************************************)
(* ntt.c and reduce.c on the numbers themselves: one step per block of     *)
(* butterflies (one value of start), every int16_t store wraps.  The       *)
(* machine does what indcpa.c does with two polynomials: it transforms     *)
(* both, stores the second as canonical residues (in a key, or as an entry *)
(* of A), multiplies and accumulates K times and transforms back.          *)
(***************************************************************************)
EXTENDS Reduce, Sequences

P == INSTANCE Poly        \* the bounds IndCpa calculates with

CONSTANTS K,              \* MLKEM_K: products accumulated before invntt
          Samples         \* numbers of the pairs of polynomials to multiply

ASSUME NttAssumption == K \in 1 .. 4 /\ Samples \subseteq Nat

VARIABLES
  x, y,     \* history: the factors, or Extreme ones given as transforms
  r,        \* the array being transformed
  a, b,     \* the transforms of x and y
  k,        \* the next index into zetas
  len, start,
  n,        \* products accumulated
  wrapped,  \* history: an int16_t did not hold the value stored into it
  pc

vars == <<x, y, r, a, b, k, len, start, n, wrapped, pc>>

N == 256
Index == 0 .. N - 1

zetas == <<
  -1044, -758, -359, -1517, 1493, 1422, 287, 202, -171, 622, 1577, 182, 962,
  -1202, -1474, 1468, 573, -1325, 264, 383, -829, 1458, -1602, -130, -681,
  1017, 732, 608, -1542, 411, -205, -1571, 1223, 652, -552, 1015, -1293, 1491,
  -282, -1544, 516, -8, -320, -666, -1618, -1162, 126, 1469, -853, -90, -271,
  830, 107, -1421, -247, -951, -398, 961, -1508, -725, 448, -1065, 677, -1275,
  -1103, 430, 555, 843, -1251, 871, 1550, 105, 422, 587, 177, -235, -291, -460,
  1574, 1653, -246, 778, 1159, -147, -777, 1483, -602, 1119, -1590, 644, -872,
  349, 418, 329, -156, -75, 817, 1097, 603, 610, 1322, -1285, -1465, 384,
  -1215, -136, 1218, -1335, -874, 220, -1187, -1659, -1185, -1530, -1278, 794,
  -1510, -854, -870, 478, -108, -308, 996, 991, 958, -1460, 1522, 1628 >>
BugZeta(i) == zetas[i]    \* mutant: ++k for k++
Zeta(i) == zetas[i + 1]   \* the table of the code starts at 0

--------------------------------------------------------------------------------
(* Stores *)

fqmul(u, v) == montgomery_reduce(u * v)

\* An array of sums is stored: what does not fit wraps, and is remembered.
Store(sums) == r' = [j \in Index |-> int16(sums[j])]
Remember(sums) ==
  wrapped' = (wrapped \/ \E j \in Index : sums[j] # int16(sums[j]))

--------------------------------------------------------------------------------
(* Loops *)

Lower == start .. start + len - 1
Upper == start + len .. start + 2 * len - 1

\* The sums and differences of one block of ntt.
Butterflies(z) ==
  [j \in Index |->
     CASE j \in Lower -> r[j] + fqmul(z, r[j + len])
       [] j \in Upper -> r[j - len] - fqmul(z, r[j])
       [] OTHER       -> r[j]]

\* Of one block of invntt: t + r[j + len], passed as an int16_t, and
\* r[j + len] - t, stored in one.
Differences ==
  [j \in Index |->
     CASE j \in Lower -> r[j] + r[j + len]
       [] j \in Upper -> r[j] - r[j - len]
       [] OTHER       -> r[j]]

\* Where the loops stand after a block.
NextBlock(nextLen) ==
  IF start + 2 * len < N THEN start' = start + 2 * len /\ len' = len
                         ELSE start' = 0 /\ len' = nextLen

NttCall(p) ==
  /\ r' = p /\ k' = 1 /\ len' = 128 /\ start' = 0

NttBlock ==
  /\ pc \in {"ntt_x", "ntt_y"} /\ len >= 2
  /\ LET sums == Butterflies(Zeta(k)) IN Store(sums) /\ Remember(sums)
  /\ k' = k + 1
  /\ NextBlock(len \div 2)
  /\ UNCHANGED <<x, y, a, b, n, pc>>

poly_reduce(p) == [j \in Index |-> barrett_reduce(p[j])]

\* The transform of x is reduced and kept; that of y begins.
NttReturnX ==
  /\ pc = "ntt_x" /\ len = 1
  /\ a' = poly_reduce(r)
  /\ NttCall(y)
  /\ pc' = "ntt_y"
  /\ UNCHANGED <<x, y, b, n, wrapped>>

\* poly_tobytes and poly_frombytes: canonical residues.
Canonical(p) == [j \in Index |-> IF p[j] < 0 THEN p[j] + Q ELSE p[j]]

NttReturnY ==
  /\ pc = "ntt_y" /\ len = 1
  /\ b' = Canonical(poly_reduce(r))
  /\ pc' = "basemul"
  /\ UNCHANGED <<x, y, r, a, k, len, start, n, wrapped>>

--------------------------------------------------------------------------------
(* Products *)

\* basemul of the pair that starts at i: zetas[64 + i/4], then its negative.
ZetaOf(i) == IF i % 4 = 0 THEN Zeta(64 + i \div 4) ELSE 0 - Zeta(64 + i \div 4)

basemul(u, v) ==
  [j \in Index |->
     LET i == j - (j % 2) IN
       IF j = i
       THEN fqmul(fqmul(u[i + 1], v[i + 1]), ZetaOf(i)) + fqmul(u[i], v[i])
       ELSE fqmul(u[i], v[i + 1]) + fqmul(u[i + 1], v[i])]

Basemul ==
  /\ pc = "basemul" /\ n = 0
  /\ LET sums == basemul(b, a) IN Store(sums) /\ Remember(sums)
  /\ n' = 1
  /\ UNCHANGED <<x, y, a, b, k, len, start, pc>>

BasemulAcc ==
  /\ pc = "basemul" /\ 1 <= n /\ n < K
  /\ LET product == basemul(b, a)
         sums == [j \in Index |-> r[j] + product[j]]
     IN  Store(sums) /\ Remember(sums)
  /\ n' = n + 1
  /\ UNCHANGED <<x, y, a, b, k, len, start, pc>>

InvCall ==
  /\ pc = "basemul" /\ n = K
  /\ k' = 127 /\ len' = 2 /\ start' = 0
  /\ pc' = "inv"
  /\ UNCHANGED <<x, y, r, a, b, n, wrapped>>

InvBlock ==
  /\ pc = "inv" /\ len <= 128
  /\ LET sums == Differences
     IN  /\ r' = [j \in Index |->
                    CASE j \in Lower -> barrett_reduce(int16(sums[j]))
                      [] j \in Upper -> fqmul(Zeta(k), int16(sums[j]))
                      [] OTHER       -> r[j]]
         /\ Remember(sums)
  /\ k' = k - 1
  /\ NextBlock(2 * len)
  /\ UNCHANGED <<x, y, a, b, n, pc>>

BugInvScale ==            \* mutant: the factor of an 8-layer transform
  /\ pc = "inv" /\ len = 256
  /\ r' = [j \in Index |-> fqmul(r[j], 2385)]
  /\ pc' = "done"
  /\ UNCHANGED <<x, y, a, b, k, len, start, n, wrapped>>

InvScale ==
  /\ pc = "inv" /\ len = 256
  /\ r' = [j \in Index |-> fqmul(r[j], 1441)]
  /\ pc' = "done"
  /\ UNCHANGED <<x, y, a, b, k, len, start, n, wrapped>>

Done == pc = "done" /\ UNCHANGED vars

--------------------------------------------------------------------------------
(* Inputs *)

\* Noise of eta = 2 or 3, and the values poly_decompress can return.
Noise(s) == [j \in Index |-> (((j + s) * (j + 7 * s + 3)) % 7) - 3]
Large(s) == [j \in Index |-> (1200 * s + 833 * j * j) % Q]
Zero == [j \in Index |-> 0]

\* Nothing is known of a matrix entry but that it is a canonical residue, or,
\* from a foreign key, any 12-bit value: the products can be extreme.
Extreme == <<"extreme">>
Signs(s, c) == [j \in Index |-> IF (j \div s) % 2 = 0 THEN c ELSE 0 - c]

Init ==
  /\ k = 1 /\ len = 128 /\ start = 0 /\ n = 0 /\ wrapped = FALSE
  /\ \/ \E s \in Samples :
          /\ x = IF s % 2 = 0 THEN Noise(s) ELSE Large(s)
          /\ y = IF s % 2 = 0 THEN Large(s + 1) ELSE Noise(s)
          /\ r = x /\ a = Zero /\ b = Zero /\ pc = "ntt_x"
     \/ \E s \in {1, 2, 256} :
          /\ x = Extreme /\ y = Extreme
          /\ r = Zero /\ pc = "basemul"
          /\ a = Signs(s, 1664) /\ b = [j \in Index |-> 4095]

Next == \/ NttBlock \/ NttReturnX \/ NttReturnY
        \/ Basemul \/ BasemulAcc
        \/ InvCall \/ InvBlock \/ InvScale
        \/ Done

Spec == Init /\ [][Next]_vars

--------------------------------------------------------------------------------
(* Properties *)

\* 17^(2 * e + 1)
OddPowers ==
  LET f[e \in 0 .. 127] == IF e = 0 THEN 17 ELSE (f[e - 1] * 289) % Q IN f

\* The seven bits of i in reverse order.
Reverse7(i) ==
  64 * (i % 2) + 32 * ((i \div 2) % 2) + 16 * ((i \div 4) % 2) + 8 * ((i \div 8) % 2)
    + 4 * ((i \div 16) % 2) + 2 * ((i \div 32) % 2) + i \div 64

Roots == [i \in 0 .. 127 |-> OddPowers[Reverse7(i)]]

\* The remainder of p modulo X^2 - Roots[i]: Horner's rule on the even and on
\* the odd coefficients.
Remainder(p, i, odd) ==
  LET f[j \in 0 .. 128] ==
        IF j = 0 THEN 0
        ELSE (f[j - 1] * Roots[i] + p[2 * (128 - j) + odd]) % Q
  IN f[128]

Residues(p, q) ==
  \A i \in 0 .. 127, odd \in {0, 1} : (p[2 * i + odd] - Remainder(q, i, odd)) % Q = 0

\* What ntt leaves in r is the polynomial modulo the 128 factors of X^256 + 1,
\* in the bit-reversed order of the comment above the table of zetas.
TransformIsRemainders ==
  /\ (pc = "ntt_x" /\ len = 1) => Residues(r, x)
  /\ (pc = "ntt_y" /\ len = 1) => Residues(r, y)

\* Coefficient j of p * q modulo X^256 + 1 and Q,
\* two terms at a time.
NegacyclicProduct(p, q, j) ==
  LET term(i) == IF i <= j THEN p[i] * q[j - i] ELSE 0 - p[i] * q[N + j - i]
      sum[i \in 0 .. 128] ==
        IF i = 0 THEN 0 ELSE (sum[i - 1] + term(i - 1) + term(i + 127)) % Q
  IN sum[128]

\* The Montgomery factors cancel: K products transformed back are K times the
\* product of the two polynomials.
ProductIsExact ==
  (pc = "done" /\ x # Extreme) =>
    \A j \in Index : (r[j] - K * NegacyclicProduct(x, y, j)) % Q = 0

Within(p, bound) == \A j \in Index : (0 - bound) <= p[j] /\ p[j] <= bound

\* Although nothing is reduced between the layers of ntt, nor while products
\* are accumulated, nor before the first additions of invntt, no int16_t ever
\* has to hold a value outside its range; and the results stay within the bounds
\* that Poly gives for ntt, basemul and invntt.
StaysInRange ==
  LET op(bound) == [P!Unset EXCEPT !.bound = bound, !.dom = "ntt"]
      sum == K * P!BaseMulBound(op(4095), op(1664))
  IN  /\ ~wrapped
      /\ (pc \in {"ntt_x", "ntt_y"} /\ len = 1) => Within(r, P!NttBound(Q - 1))
      /\ pc = "basemul" => Within(a, P!poly_reduce(op(0)).bound) /\ Within(b, 4095)
      /\ (pc = "basemul" /\ n = K) => Within(r, sum)
      /\ pc = "done" => Within(r, P!poly_invntt_tomont(op(sum)).bound)
================================================================================
