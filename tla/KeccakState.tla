------------------------------ MODULE KeccakState ------------------------------
(***************************************************************************)
(* The first 25 words of a Keccak context, seen through the four calls     *)
(* that fips202.c makes on them: zeroing, XORing bytes in at an offset,    *)
(* permuting, and extracting bytes from an offset.                         *)
(*                                                                         *)
(* The permutation is a black box, so a state is told apart by what was    *)
(* XORed into it between permutations.  perms is the sequence of blocks    *)
(* that were XORed in before each of the permutations made so far, lanes   *)
(* is what was XORed in since the last one.  XOR is a symmetric difference *)
(* of sets of symbols, so a byte XORed in twice cancels, as it does in the *)
(* code.                                                                   *)
(***************************************************************************)
EXTENDS Integers, Sequences

CONSTANT R   (* the rate: bytes of the state that absorb and squeeze touch *)

ASSUME RateAssumption == R \in Nat \ {0}

(***************************************************************************)
(* A message byte is its index in the whole message, whichever call        *)
(* brought it.  A domain-separation byte p (0x1F, 0x06) and the final bit  *)
(* 0x80 share no bit, so p | 0x80 is the symbol of p XOR that of 0x80.     *)
(***************************************************************************)
DomainByte == -1
TopBit     == -2
Stale      == -3   \* what memory held before it was ever written
Symbol     == Nat \cup {DomainByte, TopBit, Stale}

Offset == 0 .. R - 1
Lanes  == [Offset -> SUBSET Symbol]
Zero   == [o \in Offset |-> {}]

XorSet(A, B) == (A \ B) \cup (B \ A)

ZeroState  == [perms |-> << >>, lanes |-> Zero]
StaleState == [perms |-> << >>, lanes |-> [o \in Offset |-> {Stale}]]

(* KeccakF1600_StateXORBytes of len message bytes starting at byte m.      *)
XORBytes(s, m, offset, len) ==
  [s EXCEPT !.lanes =
     [o \in Offset |-> IF offset <= o /\ o < offset + len
                         THEN XorSet(s.lanes[o], {m + (o - offset)})
                         ELSE s.lanes[o]]]

(* KeccakF1600_StateXORBytes of one byte made of the given symbols.        *)
XORByte(s, symbols, offset) ==
  [s EXCEPT !.lanes = [s.lanes EXCEPT ![offset] = XorSet(s.lanes[offset], symbols)]]

StatePermute(s) == [perms |-> Append(s.perms, s.lanes), lanes |-> Zero]

(* A squeezed byte is named by everything it depends on.                   *)
ExtractBytes(s, offset, len) ==
  [i \in 1 .. len |-> [perms  |-> s.perms,
                       xored  |-> s.lanes[offset + i - 1],
                       offset |-> offset + i - 1]]

(* The tail every absorb ends with: p right after the last message byte    *)
(* and 0x80 in the last byte of the block, merged when they are the same.  *)
XORPadding(s, last) ==
  IF last = R - 1
    THEN XORByte(s, {DomainByte, TopBit}, last)
    ELSE XORByte(XORByte(s, {DomainByte}, last), {TopBit}, R - 1)
================================================================================
