-------------------------------- MODULE Codec --------------------------------
(***************************************************************************)
(* The byte formats of poly.c: d-bit compressed coefficients (d = 4, 5 for *)
(* poly_compress, d = 10, 11 for poly_packcompress), the uncompressed      *)
(* 12-bit poly_tobytes, and messages, one bit of which is a coefficient    *)
(* (poly_tomsg).  One group is the smallest run of coefficients that fills *)
(* whole bytes; the loops of poly.c repeat it.                             *)
(*                                                                         *)
(* The machine reduces and serialises a group, lets one bit of it be       *)
(* damaged on the way, and then decodes it, compares it, or both, as       *)
(* decapsulation does.                                                     *)
(*                                                                         *)
(* Or it makes noise of bytes, as cbd.c does with words of 8 or 4 fields,  *)
(* in place of a group of coefficients or on top of it.                    *)
(***************************************************************************)
EXTENDS Words, Reduce, Sequences

CONSTANTS
  Stride,  \* coefficient i of the sample group u is u + i * Stride mod Q
  Flipped  \* the sample groups whose bytes may be damaged

ASSUME CodecAssumption ==
  /\ Stride \in Nat
  /\ Flipped \subseteq 0 .. Q - 1

VARIABLES
  d,      \* the format: bits per coefficient; or eta, 2 or 3, for noise
  seed,   \* history: the sample group that was serialised
  coeffs, \* the group of coefficients, 0-based
  bytes,  \* its serialisation, 1-based
  intact, \* history: no bit was damaged
  rc,     \* the result of the last comparison
  pc      \* "poly", "bytes", "decoded", "compared"; "noise", "added", "set"

vars == <<d, seed, coeffs, bytes, intact, rc, pc>>

Compressed == {4, 5, 10, 11}
Formats == Compressed \cup {1, 12}
Group == [x \in Formats |-> CASE x \in {1, 4, 5, 11} -> 8 [] x = 10 -> 4 [] x = 12 -> 2]
Positions(x) == 0 .. Group[x] - 1
ByteCount(x) == (Group[x] * x) \div 8

-----------------------------------------------------------------------------
(* Words are sets of bit positions *)

Byte(w) == w \cap 0 .. 7

-----------------------------------------------------------------------------
(* Rounding *)

\* u += (u >> 15) & MLKEM_Q: the representative in 0 .. Q - 1.
Rep(u) == IF u < 0 THEN u + Q ELSE u

\* *r ^= b & (*r ^ v) with b all ones or all zeros.
cmov_int16(r, v, b) == IF b THEN v ELSE r

\* The constants of the reciprocal division: added, multiplied, shifted out.
Half  == [x \in Formats |-> IF x \in {1, 4, 10} THEN 1665 ELSE 1664]
Recip == [x \in Formats \ {12} |->
            CASE x \in {1, 4} -> 80635 [] x = 5 -> 40318 [] x = 10 -> 1290167 [] x = 11 -> 645084]
Down  == [x \in Formats \ {12} |->
            CASE x \in {1, 4} -> 28 [] x = 5 -> 27 [] x = 10 -> 32 [] x = 11 -> 31]
Word  == [x \in Formats |-> IF x \in {1, 4, 5} THEN 32 ELSE 64]

\* floor(a * c / 2^s) for s >= 16: the multiplier is split so that no product
\* leaves the 32 bits TLC computes with.
MulShift(a, c, s) ==
  LET c0 == c % 256
      c1 == (c \div 256) % 256
      c2 == c \div 65536
      t1 == a * c1 + ((a * c0) \div 256)
      t2 == a * c2 + (t1 \div 256)
  IN t2 \div 2^(s - 16)

\* What is left of a w-bit product after s bits are shifted out.
Keep(n, w, s) == IF w - s >= 31 THEN n ELSE n % 2^(w - s)

BugCode(x, u) ==   \* mutant: MLKEM_Q/2 everywhere
  LET v == IF x = 1 THEN u ELSE Rep(u)
  IN  Keep(MulShift(v * 2^x + 1664, Recip[x], Down[x]), Word[x], Down[x]) % 2^x

\* The reciprocal division wraps in 32 bits for d = 1, 4 and 5, where 4 bits
\* or 5 are left.  For d = 1 it is made of a coefficient that may be negative
\* (the line that would add MLKEM_Q is a comment): as a uint32_t that is the
\* same as dividing downwards modulo 2^32.
Code(x, u) ==
  LET v == IF x = 1 THEN u ELSE Rep(u)
  IN  Keep(MulShift(v * 2^x + Half[x], Recip[x], Down[x]), Word[x], Down[x]) % 2^x

\* The word stored for coefficient u: 12-bit values are not rounded.
Field(x, u) == Bits(IF x = 12 THEN Rep(u) ELSE Code(x, u))

-----------------------------------------------------------------------------
(* Serialisation: one definition per layout; t is the group of fields *)

Pack1(t) == << UNION {Shl(t[j], j) : j \in 0 .. 7} >>

Pack4(t) == [k \in 1 .. 4 |-> t[2 * k - 2] \cup Shl(t[2 * k - 1], 4)]

Pack5(t) ==
  << t[0] \cup Shl(t[1], 5),
     Shr(t[1], 3) \cup Shl(t[2], 2) \cup Shl(t[3], 7),
     Shr(t[3], 1) \cup Shl(t[4], 4),
     Shr(t[4], 4) \cup Shl(t[5], 1) \cup Shl(t[6], 6),
     Shr(t[6], 2) \cup Shl(t[7], 3) >>

Pack10(t) ==
  << t[0],
     Shr(t[0], 8) \cup Shl(Low(t[1], 6), 2),
     Shr(t[1], 6) \cup Shl(Low(t[2], 4), 4),
     Shr(t[2], 4) \cup Shl(Low(t[3], 2), 6),
     Shr(t[3], 2) >>

Pack11(t) ==
  << t[0],
     Shr(t[0], 8) \cup Shl(Low(t[1], 5), 3),
     Shr(t[1], 5) \cup Shl(Low(t[2], 2), 6),
     Shr(t[2], 2),
     Shr(t[2], 10) \cup Shl(Low(t[3], 7), 1),
     Shr(t[3], 7) \cup Shl(Low(t[4], 4), 4),
     Shr(t[4], 4) \cup Shl(Low(t[5], 1), 7),
     Shr(t[5], 1),
     Shr(t[5], 9) \cup Shl(Low(t[6], 6), 2),
     Shr(t[6], 6) \cup Shl(Low(t[7], 3), 5),
     Shr(t[7], 3) >>

Pack12(t) == << t[0], Shr(t[0], 8) \cup Shl(t[1], 4), Shr(t[1], 4) >>

Pack(x, t) ==
  LET words == CASE x = 1  -> Pack1(t)
                 [] x = 4  -> Pack4(t)  [] x = 5  -> Pack5(t) [] x = 10 -> Pack10(t)
                 [] x = 11 -> Pack11(t) [] x = 12 -> Pack12(t)
  IN [k \in 1 .. ByteCount(x) |-> Byte(words[k])]

Encode(x, a) == Pack(x, [i \in Positions(x) |-> Field(x, a[i])])

-----------------------------------------------------------------------------
(* Deserialisation *)

Unpack1(a) == [i \in 0 .. 7 |-> Low(Shr(a[1], i), 1)]

Unpack4(a) == [i \in 0 .. 7 |-> IF i % 2 = 0 THEN Low(a[i \div 2 + 1], 4)
                                            ELSE Shr(a[i \div 2 + 1], 4)]

\* The masks & 31 are applied by poly_decompress after the uint8_t stores.
Unpack5(a) ==
  LET t == << a[1], Shr(a[1], 5) \cup Shl(a[2], 3), Shr(a[2], 2),
              Shr(a[2], 7) \cup Shl(a[3], 1), Shr(a[3], 4) \cup Shl(a[4], 4),
              Shr(a[4], 1), Shr(a[4], 6) \cup Shl(a[5], 2), Shr(a[5], 3) >>
  IN [i \in 0 .. 7 |-> Low(Byte(t[i + 1]), 5)]

Unpack10(a) ==
  LET t == << a[1] \cup Shl(Low(a[2], 2), 8),
              Shr(a[2], 2) \cup Shl(Low(a[3], 4), 6),
              Shr(a[3], 4) \cup Shl(Low(a[4], 6), 4),
              Shr(a[4], 6) \cup Shl(a[5], 2) >>
  IN [i \in 0 .. 3 |-> t[i + 1]]

BugUnpack11(a) ==   \* mutant: wrong mask
  LET t == << a[1] \cup Shl(Low(a[2], 3), 8),
              Shr(a[2], 3) \cup Shl(Low(a[3], 6), 5),
              Shr(a[3], 6) \cup Shl(a[4], 2) \cup Shl(Low(a[5], 1), 10),
              Shr(a[5], 1) \cup Shl(Low(a[6], 4), 7),
              Shr(a[6], 4) \cup Shl(Low(a[7], 7), 4),
              Shr(a[7], 7) \cup Shl(a[8], 1) \cup Shl(Low(a[9], 1), 9),
              Shr(a[9], 2) \cup Shl(Low(a[10], 5), 6),
              Shr(a[10], 5) \cup Shl(a[11], 3) >>
  IN [i \in 0 .. 7 |-> t[i + 1]]

Unpack11(a) ==
  LET t == << a[1] \cup Shl(Low(a[2], 3), 8),
              Shr(a[2], 3) \cup Shl(Low(a[3], 6), 5),
              Shr(a[3], 6) \cup Shl(a[4], 2) \cup Shl(Low(a[5], 1), 10),
              Shr(a[5], 1) \cup Shl(Low(a[6], 4), 7),
              Shr(a[6], 4) \cup Shl(Low(a[7], 7), 4),
              Shr(a[7], 7) \cup Shl(a[8], 1) \cup Shl(Low(a[9], 2), 9),
              Shr(a[9], 2) \cup Shl(Low(a[10], 5), 6),
              Shr(a[10], 5) \cup Shl(a[11], 3) >>
  IN [i \in 0 .. 7 |-> t[i + 1]]

Unpack12(a) ==
  [i \in 0 .. 1 |-> Low(IF i = 0 THEN a[1] \cup Shl(a[2], 8)
                                 ELSE Shr(a[2], 4) \cup Shl(a[3], 4), 12)]

Unpack(x, a) ==
  CASE x = 1  -> Unpack1(a)  [] x = 4  -> Unpack4(a)  [] x = 5  -> Unpack5(a)
    [] x = 10 -> Unpack10(a) [] x = 11 -> Unpack11(a) [] x = 12 -> Unpack12(a)

\* (y * MLKEM_Q + 2^(d-1)) >> d; the 12-bit value itself; the middle or 0.
Expand(x, w) ==
  CASE x = 1  -> cmov_int16(0, (Q + 1) \div 2, w = {0})
    [] x = 12 -> Value(w)
    [] OTHER  -> (Value(w) * Q + 2^(x - 1)) \div 2^x

-----------------------------------------------------------------------------
(* Noise: cbd2 makes 8 coefficients of 4 bytes, cbd3 4 of 3 *)

Etas == {2, 3}
NoiseGroup(eta) == 0 .. (IF eta = 2 THEN 7 ELSE 3)
NoiseBytes(eta) == 1 .. (IF eta = 2 THEN 4 ELSE 3)

\* load32_littleendian, load24_littleendian
load_littleendian(a) == UNION {Shl(a[k], 8 * (k - 1)) : k \in DOMAIN a}

\* 0x55555555 and 0x00249249
NoiseMask(eta) == {i \in 0 .. (IF eta = 2 THEN 31 ELSE 23) : i % eta = 0}

\* The bits of each field of eta bits, counted in place.
FieldSums(eta, t) ==
  LET part(s) == Shr(t, s) \cap NoiseMask(eta)
      two == Plus32(part(0), part(1))
  IN IF eta = 2 THEN two ELSE Plus32(two, part(2))

NoiseCoeff(eta, sums, j) ==
  LET at(s) == Value(Low(Shr(sums, 2 * eta * j + s), eta)) IN at(0) - at(eta)

-----------------------------------------------------------------------------
(* The machine *)

\* Residue i of the sample group u; additions and subtractions have made it any
\* number an int16_t holds, poly_reduce is the last thing done to it.
Residue(u, i) == (u + i * Stride) % Q
Unreduced(u, i) == Residue(u, i) + Q * (((u + i) % 18) - 9)
poly_reduce(x, u) == [i \in Positions(x) |-> barrett_reduce(Unreduced(u, i))]

\* Byte k of sample u, and what the polynomial held before.
NoiseByte(u, k) == Bits((37 * u + 101 * k + 13 * (u \div 256) * (k + 1)) % 256)
Held(u, i) == ((u + i * Stride) % 5) - 2

Init ==
  /\ seed \in 0 .. Q - 1
  /\ \/ /\ d \in Formats
        /\ coeffs = poly_reduce(d, seed)
        /\ bytes = <<>>
        /\ pc = "poly"
     \/ /\ d \in Etas
        /\ coeffs = [i \in NoiseGroup(d) |-> Held(seed, i)]
        /\ bytes = [k \in NoiseBytes(d) |-> NoiseByte(seed, k)]
        /\ pc = "noise"
  /\ intact = TRUE
  /\ rc = {}

\* poly_compress, poly_packcompress, poly_tobytes, poly_tomsg
Serialize ==
  /\ pc = "poly"
  /\ bytes' = Encode(d, coeffs)
  /\ pc' = "bytes"
  /\ UNCHANGED <<d, seed, coeffs, intact, rc>>

\* The environment: a ciphertext arrives with one bit changed.
Damage(k, b) ==
  /\ pc = "bytes"
  /\ intact
  /\ d \in Compressed
  /\ seed \in Flipped
  /\ bytes' = [bytes EXCEPT ![k] = Xor(@, {b})]
  /\ intact' = FALSE
  /\ UNCHANGED <<d, seed, coeffs, rc, pc>>

\* poly_decompress, poly_unpackdecompress, poly_frombytes, poly_frommsg
Deserialize ==
  /\ pc = "bytes"
  /\ coeffs' = LET t == Unpack(d, bytes) IN [i \in Positions(d) |-> Expand(d, t[i])]
  /\ pc' = "decoded"
  /\ UNCHANGED <<d, seed, bytes, intact, rc>>

BugDiff(x, r, a) ==   \* mutant: = for |=
  LET e == Encode(x, a) IN Xor(r[Len(r)], e[Len(r)])

\* cmp_poly_compress, cmp_poly_packcompress: rc accumulates every differing bit.
Diff(x, r, a) ==
  LET e == Encode(x, a) IN UNION {Xor(r[k], e[k]) : k \in DOMAIN r}

Compare ==
  /\ pc \in {"bytes", "decoded"}
  /\ d \in Compressed
  /\ rc' = Diff(d, bytes, coeffs)
  /\ pc' = "compared"
  /\ UNCHANGED <<d, seed, coeffs, bytes, intact>>

\* cbd2, cbd3, by poly_cbd_eta1 and poly_cbd_eta2
BugCbd(add) ==   \* mutant: what was there is never cleared
  /\ pc = "noise"
  /\ LET sums == FieldSums(d, load_littleendian(bytes))
     IN coeffs' = [i \in NoiseGroup(d) |-> coeffs[i] + NoiseCoeff(d, sums, i)]
  /\ pc' = IF add THEN "added" ELSE "set"
  /\ UNCHANGED <<d, seed, bytes, intact, rc>>
Cbd(add) ==
  /\ pc = "noise"
  /\ LET sums == FieldSums(d, load_littleendian(bytes))
     IN coeffs' = [i \in NoiseGroup(d) |->
                     (IF add THEN coeffs[i] ELSE 0) + NoiseCoeff(d, sums, i)]
  /\ pc' = IF add THEN "added" ELSE "set"
  /\ UNCHANGED <<d, seed, bytes, intact, rc>>

Done == /\ pc \in {"compared", "added", "set"} \/ (pc = "decoded" /\ d \notin Compressed)
        /\ UNCHANGED vars

Next ==
  \/ Serialize
  \/ \E k \in DOMAIN bytes, b \in 0 .. 7 : Damage(k, b)
  \/ Deserialize
  \/ Compare
  \/ \E add \in BOOLEAN : Cbd(add)
  \/ Done

Spec == Init /\ [][Next]_vars

-----------------------------------------------------------------------------
(* Properties *)

\* The d-bit field i of a little-endian bit string.
FieldAt(i) ==
  {b \in 0 .. d - 1 : LET g == i * d + b IN g % 8 \in bytes[g \div 8 + 1]}

\* The multiplication by a rounded reciprocal, wrap-around included, and the
\* byte layout together store, at bit offset d * i, exactly the value of the
\* division each function keeps as a comment:
\* (((u << d) + MLKEM_Q/2) / MLKEM_Q) & (2^d - 1).  For d = 1 the code does
\* without the representative in 0 .. Q - 1 that its comment starts from.
StoresRoundedQuotient ==
  (pc = "bytes" /\ intact) =>
    \A i \in Positions(d) :
      LET u == Residue(seed, i)
      IN Value(FieldAt(i)) =
           IF d = 12 THEN u ELSE ((u * 2^d + Q \div 2) \div Q) % 2^d

\* The distance of two residues.
Distance(a, b) == LET r == (a - b) % Q IN IF r > Q - r THEN Q - r ELSE r

\* Decoding an undamaged serialisation gives a canonical residue within half a
\* compression step of the coefficient that was serialised (that residue itself
\* with 12 bits).  For d = 1: a bit survives noise of up to a quarter of Q.
DecodesNearby ==
  (pc = "decoded" /\ intact) =>
    \A i \in Positions(d) :
      /\ coeffs[i] \in 0 .. Q - 1
      /\ Distance(coeffs[i], Residue(seed, i)) <=
           IF d = 12 THEN 0 ELSE (Q + 2^d) \div 2^(d + 1)

\* The streaming comparison of decapsulation is zero for the coefficients that
\* were serialised if nothing was damaged, not zero wherever a bit was, and zero
\* again for the coefficients the bytes decode to, whatever the bytes.
ComparisonIsExact ==
  pc = "compared" => (rc = {}) = (intact \/ coeffs # poly_reduce(d, seed))

\* Noise is centred binomial: a coefficient is the number of ones in eta bits of
\* the stream less that in the next eta, each bit used once and in order, although
\* the sums of all fields are made at once in one word; and it replaces or joins
\* what the coefficient held, as the caller asks.
NoiseIsBinomial ==
  pc \in {"added", "set"} =>
    \A i \in NoiseGroup(d) :
      LET ones(from) == Cardinality({g \in from .. from + d - 1 : g % 8 \in bytes[g \div 8 + 1]})
      IN coeffs[i] = (IF pc = "added" THEN Held(seed, i) ELSE 0)
                       + ones(2 * d * i) - ones(2 * d * i + d)
=============================================================================
