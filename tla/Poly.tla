---------------------------------- MODULE Poly ---------------------------------
(***************************************************************************)
(* The polynomials of mlkem/ as indcpa.c uses them: not 256 coefficients   *)
(* but what the algorithms have to keep straight about them,               *)
(*   dom    the domain: "std", "ntt", or "junk" once it has been misused;  *)
(*   mont   the power of 2^16 the coefficients are multiplied by (mod q);  *)
(*   bound  a bound on the absolute value of every coefficient;            *)
(*   peak   the largest bound any int16_t on the way here had to hold;     *)
(*   terms  the value mod q, a sum of monomials over independent atoms     *)
(*          (noise polynomials, matrix entries, the message, ...).         *)
(* The bounds are those of the integer code: montgomery_reduce, the        *)
(* butterflies of ntt and invntt, basemul and the range of each decoder.   *)
(***************************************************************************)
EXTENDS Integers, FiniteSets, FiniteSetsExt

Q        == 3329
MaxInt16 == 32767
MaxZeta  == 1659     \* largest absolute value in the table zetas of ntt.c
Larger(a, b) == IF a < b THEN b ELSE a

(* Sums of monomials: a function from monomials (sets of atoms) to their   *)
(* nonzero coefficients.                                                   *)
Coef(f, x) == IF x \in DOMAIN f THEN f[x] ELSE 0

Monomial(x) == [y \in {x} |-> 1]
Atom(a) == Monomial({a})

PlusTimes(f, c, g) ==
  LET sum == [x \in DOMAIN f \cup DOMAIN g |-> Coef(f, x) + c * Coef(g, x)]
  IN  [x \in {y \in DOMAIN sum : sum[y] # 0} |-> sum[x]]

Times(f, g) ==
  LET pairs == (DOMAIN f) \X (DOMAIN g)
      coef(x) == MapThenSumSet(LAMBDA p : f[p[1]] * g[p[2]],
                               {p \in pairs : p[1] \cup p[2] = x})
  IN  [x \in {p[1] \cup p[2] : p \in pairs} |-> coef(x)]

NoTerms == [x \in {} |-> 0]
Junk    == Atom(<<"junk">>)
Unset   == [dom |-> "junk", mont |-> 0, bound |-> 0, peak |-> 0, terms |-> Junk]

(* A result whose operands were not what the operation needs.              *)
Checked(ok, p) == IF ok THEN p ELSE [p EXCEPT !.dom = "junk", !.terms = Junk]

--------------------------------------------------------------------------------
(* montgomery_reduce(a) is (a - t q) / 2^16 for a 16-bit t.                *)
MontBound(a) == (a + 32768 * Q) \div 65536
fqmulBound(a, b) == MontBound(a * b)

(* barrett_reduce: the centered representative.                            *)
poly_reduce(p) == [p EXCEPT !.bound = (Q - 1) \div 2]

(* Seven layers of butterflies: r[j] -+ fqmul(zeta, r[j + len]).           *)
NttBound(b) ==
  LET layer[l \in 0 .. 7] ==
        IF l = 0 THEN b ELSE layer[l - 1] + fqmulBound(MaxZeta, layer[l - 1])
  IN  layer[7]

BugPolyNtt(p) ==                      \* mutant: ntt without the reduction
  LET b == NttBound(p.bound) IN
    Checked(p.dom = "std",
            [p EXCEPT !.dom = "ntt", !.bound = b, !.peak = Larger(p.peak, b)])
poly_ntt(p) ==
  LET b == NttBound(p.bound) IN
    Checked(p.dom = "std",
            poly_reduce([p EXCEPT !.dom = "ntt", !.bound = b,
                                  !.peak = Larger(p.peak, b)]))

(* Each layer adds and subtracts two coefficients in 16 bits before one    *)
(* sum is Barrett-reduced and the difference multiplied by a zeta; at the  *)
(* end all are multiplied by 2^32 / 128, which leaves a factor 2^16.       *)
poly_invntt_tomont(p) ==
  LET layer[l \in 0 .. 7] ==
        IF l = 0 THEN p.bound
        ELSE Larger((Q - 1) \div 2, fqmulBound(MaxZeta, 2 * layer[l - 1]))
      top == 2 * Larger(layer[0], layer[1])
  IN  Checked(p.dom = "ntt",
              [p EXCEPT !.dom = "std", !.mont = p.mont + 1,
                        !.bound = fqmulBound(layer[7], 1441),
                        !.peak = Larger(p.peak, top)])

(* basemul: r[0] = (a1 b1) zeta + a0 b0, r[1] = a0 b1 + a1 b0; operands    *)
(* are copied first, so r may be one of them.                              *)
BaseMulBound(a, b) ==
  LET ab == fqmulBound(a.bound, b.bound)
  IN  Larger(fqmulBound(ab, MaxZeta) + ab, 2 * ab)

poly_basemul(a, b) ==
  LET bnd == BaseMulBound(a, b) IN
    Checked(a.dom = "ntt" /\ b.dom = "ntt",
            [dom |-> "ntt", mont |-> a.mont + b.mont - 1, bound |-> bnd,
             peak |-> Larger(bnd, Larger(a.peak, b.peak)),
             terms |-> Times(a.terms, b.terms)])

(* poly_add and poly_sub (c = 1, -1): no reduction.                        *)
Combine(p, c, r) ==
  LET bnd == p.bound + r.bound IN
    Checked(p.dom = r.dom /\ p.mont = r.mont /\ p.dom # "junk",
            [p EXCEPT !.bound = bnd, !.peak = Larger(bnd, Larger(p.peak, r.peak)),
                      !.terms = PlusTimes(p.terms, c, r.terms)])

poly_add(p, r) == Combine(p, 1, r)
poly_sub(p, r) == Combine(p, -1, r)

poly_basemul_acc(r, a, b) == poly_add(r, poly_basemul(a, b))

--------------------------------------------------------------------------------
Fresh(dom, bound, terms) ==
  [dom |-> dom, mont |-> 0, bound |-> bound, peak |-> bound, terms |-> terms]

(* One PRF call names one noise polynomial.                                *)
poly_getnoise(eta, seed, nonce) == Fresh("std", eta, Atom(<<"noise", seed, nonce>>))
poly_addnoise(p, eta, seed, nonce) == poly_add(p, poly_getnoise(eta, seed, nonce))

(* The sampled entry of A, named by what follows the seed in the XOF.      *)
MatrixEntry(seed, x, y) == Fresh("ntt", Q - 1, Atom(<<"A", seed, x, y>>))

poly_frommsg(m) == Fresh("std", (Q + 1) \div 2, Atom(<<"msg", m>>))

(* A value leaves a polynomial for a byte string.  The encoders map a      *)
(* negative coefficient to its positive representative by adding q once.   *)
Encodable(p, dom) == p.dom = dom /\ p.mont = 0 /\ p.bound < Q
Encode(p, dom) == IF Encodable(p, dom) THEN p.terms ELSE Junk

poly_tobytes(p)   == Encode(p, "ntt")
poly_compress(p)  == Encode(p, "std")
poly_tomsg(p)     == Encode(p, "std")

(* poly_frombytes takes any 12-bit value; nothing checks it against q.     *)
poly_frombytes(bytes) == Fresh("ntt", 4095, bytes)

(* Compression loses low bits: a small error comes back with the value.    *)
poly_decompress(bytes, part) ==
  Fresh("std", Q - 1, PlusTimes(bytes, 1, Atom(<<"round", part>>)))
================================================================================
