--------------------------------- MODULE Words ---------------------------------
(***************************************************************************)
(* Machine words as the sets of their one bits: | is \cup, & is \cap, a    *)
(* shift moves every element and a store keeps the positions the type has. *)
(***************************************************************************)
EXTENDS Integers, FiniteSetsExt

Bits(n)  == {i \in 0 .. 15 : (n \div 2^i) % 2 = 1}     \* of a number below 2^16
Value(w) == MapThenSumSet(LAMBDA i : 2^i, w)

Shr(w, n) == {i - n : i \in {j \in w : j >= n}}
Shl(w, n) == {i + n : i \in w}
Low(w, n) == w \cap 0 .. n - 1
Xor(v, w) == (v \ w) \cup (w \ v)

\* w stored in 32 bits; rotated to the left in them.
Word32(w)   == w \cap 0 .. 31
Rol32(w, n) == {(i + n) % 32 : i \in w}

\* v + w in 32 bits: a bit is one if an odd number of the two and the carry are.
Plus32(v, w) ==
  LET carry[i \in 0 .. 31] ==
        /\ i > 0
        /\ \/ (i - 1) \in v \cap w
           \/ (i - 1) \in v \cup w /\ carry[i - 1]
  IN {i \in 0 .. 31 : ((i \in v) # (i \in w)) # carry[i]}

\* The exclusive or of A[c] over all c in S.
XorAll(A, S) ==
  {i \in UNION {A[c] : c \in S} : Cardinality({c \in S : i \in A[c]}) % 2 = 1}
================================================================================
