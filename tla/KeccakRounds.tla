----------------------------- MODULE KeccakRounds -----------------------------
(***************************************************************************)
(* KeccakP1600_Permute_Nrounds(state, 24) of keccakf1600.c.  The 25 lanes  *)
(* are kept as 50 half lanes, even bits apart from odd bits, and every     *)
(* round writes its results over its inputs: where a lane is stored        *)
(* changes from round to round and comes home after four.  The four macros *)
(* KeccakRound0..3 spell that out cell by cell; the tables below are what  *)
(* they spell.  "ge1" is Age1, the odd half of lane ge; "e1" is De1.       *)
(***************************************************************************)
EXTENDS Words, Sequences

VARIABLES
  A,      \* the half lanes
  D,      \* what theta adds to each column
  round,  \* rounds completed
  row,    \* blocks of this round completed, 0 before the columns are summed
  pRC,    \* round constants consumed
  ref,    \* history: the lanes of Keccak-p after the same rounds
  pc      \* "permute" in the loop over rounds

permuting == <<A, D, round, row, pRC, ref>>

X == <<"a", "e", "i", "o", "u">>
Y == <<"b", "g", "k", "m", "s">>
Cell(x, y, h) == Y[y + 1] \o X[x + 1] \o <<"0", "1">>[h + 1]
Cells == {Cell(x, y, h) : x \in 0 .. 4, y \in 0 .. 4, h \in 0 .. 1}
Columns == {"a0", "a1", "e0", "e1", "i0", "i1", "o0", "o1", "u0", "u1"}

--------------------------------------------------------------------------------
(* The cells each round sums per column, and the cells each of its ten     *)
(* blocks writes, in the order chi leaves Ba, Be, Bi, Bo and Bu in them.   *)

Sums0 == [
  u0 |-> {"bu0", "gu0", "ku0", "mu0", "su0"},
  e1 |-> {"be1", "ge1", "ke1", "me1", "se1"},
  u1 |-> {"bu1", "gu1", "ku1", "mu1", "su1"},
  e0 |-> {"be0", "ge0", "ke0", "me0", "se0"},
  i0 |-> {"bi0", "gi0", "ki0", "mi0", "si0"},
  i1 |-> {"bi1", "gi1", "ki1", "mi1", "si1"},
  a0 |-> {"ba0", "ga0", "ka0", "ma0", "sa0"},
  a1 |-> {"ba1", "ga1", "ka1", "ma1", "sa1"},
  o1 |-> {"bo1", "go1", "ko1", "mo1", "so1"},
  o0 |-> {"bo0", "go0", "ko0", "mo0", "so0"} ]

Rows0 == <<
  <<"ba0", "ge0", "ki1", "mo1", "su0">>,
  <<"ba1", "ge1", "ki0", "mo0", "su1">>,
  <<"ka1", "me1", "si1", "bo0", "gu0">>,
  <<"ka0", "me0", "si0", "bo1", "gu1">>,
  <<"sa0", "be1", "gi0", "ko1", "mu0">>,
  <<"sa1", "be0", "gi1", "ko0", "mu1">>,
  <<"ga0", "ke0", "mi1", "so0", "bu1">>,
  <<"ga1", "ke1", "mi0", "so1", "bu0">>,
  <<"ma1", "se0", "bi0", "go1", "ku1">>,
  <<"ma0", "se1", "bi1", "go0", "ku0">> >>

Sums1 == [
  u0 |-> {"su0", "gu0", "mu0", "bu1", "ku1"},
  e1 |-> {"ge1", "me0", "be0", "ke1", "se1"},
  u1 |-> {"su1", "gu1", "mu1", "bu0", "ku0"},
  e0 |-> {"ge0", "me1", "be1", "ke0", "se0"},
  i0 |-> {"ki1", "si1", "gi0", "mi1", "bi0"},
  i1 |-> {"ki0", "si0", "gi1", "mi0", "bi1"},
  a0 |-> {"ba0", "ka1", "sa0", "ga0", "ma1"},
  a1 |-> {"ba1", "ka0", "sa1", "ga1", "ma0"},
  o1 |-> {"mo0", "bo1", "ko0", "so1", "go0"},
  o0 |-> {"mo1", "bo0", "ko1", "so0", "go1"} ]

Rows1 == <<
  <<"ba0", "me1", "gi1", "so1", "ku1">>,
  <<"ba1", "me0", "gi0", "so0", "ku0">>,
  <<"sa1", "ke1", "bi1", "mo1", "gu0">>,
  <<"sa0", "ke0", "bi0", "mo0", "gu1">>,
  <<"ma1", "ge1", "si1", "ko0", "bu1">>,
  <<"ma0", "ge0", "si0", "ko1", "bu0">>,
  <<"ka1", "be1", "mi0", "go1", "su1">>,
  <<"ka0", "be0", "mi1", "go0", "su0">>,
  <<"ga1", "se0", "ki1", "bo1", "mu1">>,
  <<"ga0", "se1", "ki0", "bo0", "mu0">> >>

Sums2 == [
  u0 |-> {"ku1", "gu0", "bu1", "su1", "mu1"},
  e1 |-> {"me0", "ke0", "ge0", "be0", "se1"},
  u1 |-> {"ku0", "gu1", "bu0", "su0", "mu0"},
  e0 |-> {"me1", "ke1", "ge1", "be1", "se0"},
  i0 |-> {"gi1", "bi1", "si1", "mi0", "ki1"},
  i1 |-> {"gi0", "bi0", "si0", "mi1", "ki0"},
  a0 |-> {"ba0", "sa1", "ma1", "ka1", "ga1"},
  a1 |-> {"ba1", "sa0", "ma0", "ka0", "ga0"},
  o1 |-> {"so0", "mo0", "ko1", "go0", "bo0"},
  o0 |-> {"so1", "mo1", "ko0", "go1", "bo1"} ]

Rows2 == <<
  <<"ba0", "ke1", "si0", "go0", "mu1">>,
  <<"ba1", "ke0", "si1", "go1", "mu0">>,
  <<"ma0", "be0", "ki0", "so1", "gu0">>,
  <<"ma1", "be1", "ki1", "so0", "gu1">>,
  <<"ga1", "me0", "bi1", "ko1", "su1">>,
  <<"ga0", "me1", "bi0", "ko0", "su0">>,
  <<"sa1", "ge1", "mi1", "bo1", "ku0">>,
  <<"sa0", "ge0", "mi0", "bo0", "ku1">>,
  <<"ka0", "se0", "gi1", "mo0", "bu0">>,
  <<"ka1", "se1", "gi0", "mo1", "bu1">> >>

Sums3 == [
  u0 |-> {"mu1", "gu0", "su1", "ku0", "bu0"},
  e1 |-> {"ke0", "be1", "me1", "ge0", "se1"},
  u1 |-> {"mu0", "gu1", "su0", "ku1", "bu1"},
  e0 |-> {"ke1", "be0", "me0", "ge1", "se0"},
  i0 |-> {"si0", "ki0", "bi1", "mi1", "gi1"},
  i1 |-> {"si1", "ki1", "bi0", "mi0", "gi0"},
  a0 |-> {"ba0", "ma0", "ga1", "sa1", "ka0"},
  a1 |-> {"ba1", "ma1", "ga0", "sa0", "ka1"},
  o1 |-> {"go1", "so0", "ko0", "bo0", "mo1"},
  o0 |-> {"go0", "so1", "ko1", "bo1", "mo0"} ]

Rows3 == <<
  <<"ba0", "be0", "bi0", "bo0", "bu0">>,
  <<"ba1", "be1", "bi1", "bo1", "bu1">>,
  <<"ga0", "ge0", "gi0", "go0", "gu0">>,
  <<"ga1", "ge1", "gi1", "go1", "gu1">>,
  <<"ka0", "ke0", "ki0", "ko0", "ku0">>,
  <<"ka1", "ke1", "ki1", "ko1", "ku1">>,
  <<"ma0", "me0", "mi0", "mo0", "mu0">>,
  <<"ma1", "me1", "mi1", "mo1", "mu1">>,
  <<"sa0", "se0", "si0", "so0", "su0">>,
  <<"sa1", "se1", "si1", "so1", "su1">> >>

Sums(r) == CASE r = 0 -> Sums0 [] r = 1 -> Sums1 [] r = 2 -> Sums2 [] r = 3 -> Sums3
Rows(r) == CASE r = 0 -> Rows0 [] r = 1 -> Rows1 [] r = 2 -> Rows2 [] r = 3 -> Rows3

(* The same in all rounds: Ba, Be, Bi, Bo and Bu of a block are read from  *)
(* the cells at these places of its row, with this column added, and       *)
(* rotated by this much.                                                   *)
Reads == <<
  << <<1, "a0", 0>>, <<2, "e0", 22>>, <<3, "i1", 22>>, <<4, "o1", 11>>, <<5, "u0", 7>> >>,
  << <<1, "a1", 0>>, <<2, "e1", 22>>, <<3, "i0", 21>>, <<4, "o0", 10>>, <<5, "u1", 7>> >>,
  << <<4, "o0", 14>>, <<5, "u0", 10>>, <<1, "a1", 2>>, <<2, "e1", 23>>, <<3, "i1", 31>> >>,
  << <<4, "o1", 14>>, <<5, "u1", 10>>, <<1, "a0", 1>>, <<2, "e0", 22>>, <<3, "i0", 30>> >>,
  << <<2, "e1", 1>>, <<3, "i0", 3>>, <<4, "o1", 13>>, <<5, "u0", 4>>, <<1, "a0", 9>> >>,
  << <<2, "e0", 0>>, <<3, "i1", 3>>, <<4, "o0", 12>>, <<5, "u1", 4>>, <<1, "a1", 9>> >>,
  << <<5, "u1", 14>>, <<1, "a0", 18>>, <<2, "e0", 5>>, <<3, "i1", 8>>, <<4, "o0", 28>> >>,
  << <<5, "u0", 13>>, <<1, "a1", 18>>, <<2, "e1", 5>>, <<3, "i0", 7>>, <<4, "o1", 28>> >>,
  << <<3, "i0", 31>>, <<4, "o1", 28>>, <<5, "u1", 20>>, <<1, "a1", 21>>, <<2, "e0", 1>> >>,
  << <<3, "i1", 31>>, <<4, "o0", 27>>, <<5, "u0", 19>>, <<1, "a0", 20>>, <<2, "e1", 1>> >> >>

KeccakF1600RoundConstants_int2 ==
  << {0}, {}, {}, {0, 3, 7}, {}, {0, 1, 3, 7, 31}, {}, {7, 15, 31}, {0},
     {0, 1, 3, 7}, {0}, {15}, {0}, {3, 7, 15, 31}, {0}, {1, 7, 31}, {},
     {0, 1, 3}, {}, {1, 3}, {0}, {1, 7, 15}, {}, {0, 1, 15}, {0},
     {0, 1, 3, 7, 15}, {0}, {0, 1, 3, 31}, {0}, {1, 3, 7, 31}, {0},
     {0, 7, 31}, {}, {0, 7, 31}, {}, {3, 31}, {}, {0, 1, 7}, {},
     {0, 1, 15, 31}, {0}, {3, 7, 15, 31}, {}, {3, 7, 31}, {0}, {15}, {},
     {1, 7, 15, 31}, {0, 1, 2, 3, 4, 5, 6, 7} >>

\* What ends the loop: the value 0xFF after the last pair.
BugSentinel == {}   \* mutant: a table that ends with 0
Sentinel == 0 .. 7

--------------------------------------------------------------------------------
(* The permutation *)

\* The ten sums, combined: theta rotates a lane by one bit, which for halves
\* is the odd half rotated, taken as the even one, and the even one as it is.
Theta ==
  /\ pc = "permute" /\ row = 0
  /\ LET C == [c \in Columns |-> XorAll(A, Sums(round % 4)[c])]
         even(p, n) == Xor(C[p], Rol32(C[n], 1))
         odd(p, n)  == Xor(C[p], C[n])
     IN D' = [a0 |-> even("u0", "e1"), a1 |-> odd("u1", "e0"),
              e0 |-> even("a0", "i1"), e1 |-> odd("a1", "i0"),
              i0 |-> even("e0", "o1"), i1 |-> odd("e1", "o0"),
              o0 |-> even("i0", "u1"), o1 |-> odd("i1", "u0"),
              u0 |-> even("o0", "a1"), u1 |-> odd("o1", "a0")]
  /\ row' = 1
  /\ UNCHANGED <<A, round, pRC, ref, pc>>

BugRow(r, i) == Rows(r)[IF i = 2 THEN 1 ELSE i]   \* mutant: one half twice
Row(r, i) == Rows(r)[i]

\* The rows that end with  Aba0 ^= *(pRoundConstants++).
TakesConstant(i) == i \in {1, 2}

\* The state after one block: rho and pi are in Reads, then chi and iota.
BlockResult(w, i) ==
  LET B == [c \in 1 .. 5 |->
              LET from == Reads[i][c]
              IN Rol32(Xor(A[w[from[1]]], D[from[2]]), from[3])]
      chi(c) == Xor(B[c], B[((c + 1) % 5) + 1] \ B[(c % 5) + 1])
      iota(c) == IF c = 1 /\ TakesConstant(i)
                 THEN KeccakF1600RoundConstants_int2[pRC + 1] ELSE {}
  IN [cell \in Cells |->
        IF \E c \in 1 .. 5 : w[c] = cell
        THEN LET c == CHOOSE c \in 1 .. 5 : w[c] = cell IN Xor(chi(c), iota(c))
        ELSE A[cell]]

--------------------------------------------------------------------------------
(* Keccak-p[1600], lane by lane, as the permutation is defined.            *)

Positions == (0 .. 4) \X (0 .. 4)
Rol64(w, n) == {(i + n) % 64 : i \in w}

\* The walk over the lanes that gives the offsets of rho.
Walk[t \in 0 .. 23] ==
  IF t = 0 THEN <<1, 0>>
  ELSE LET p == Walk[t - 1] IN <<p[2], (2 * p[1] + 3 * p[2]) % 5>>
Offset == [p \in Positions |->
  IF p = <<0, 0>> THEN 0
  ELSE LET t == CHOOSE t \in 0 .. 23 : Walk[t] = p IN (((t + 1) * (t + 2)) \div 2) % 64]

\* The shift register x^8 + x^6 + x^5 + x^4 + 1 that gives those of iota.
Register[t \in 0 .. 254] ==
  IF t = 0 THEN {0}
  ELSE LET s == Shl(Register[t - 1], 1)
       IN IF 8 \in s THEN Xor(s \ {8}, {0, 4, 5, 6}) ELSE s
RoundConstant == [r \in 0 .. 23 |-> {2^j - 1 : j \in {k \in 0 .. 6 : 0 \in Register[7 * r + k]}}]

ReferenceRound(L, r) ==
  LET parity == [x \in 0 .. 4 |-> XorAll(L, {x} \X (0 .. 4))]
      theta  == [p \in Positions |->
                   Xor(L[p], Xor(parity[(p[1] + 4) % 5], Rol64(parity[(p[1] + 1) % 5], 1)))]
      rho    == [p \in Positions |-> Rol64(theta[p], Offset[p])]
      pi     == [p \in Positions |-> rho[<<(p[1] + 3 * p[2]) % 5, p[1]>>]]
      chi    == [p \in Positions |->
                   Xor(pi[p], pi[<<(p[1] + 2) % 5, p[2]>>] \ pi[<<(p[1] + 1) % 5, p[2]>>])]
  IN [chi EXCEPT ![<<0, 0>>] = Xor(@, RoundConstant[r])]

--------------------------------------------------------------------------------

\* One of the ten blocks; after the last of them the round is over.
Block ==
  /\ pc = "permute" /\ row \in 1 .. 10
  /\ LET w == Row(round % 4, row)
     IN A' = BlockResult(w, row)
  /\ pRC' = IF TakesConstant(row) THEN pRC + 1 ELSE pRC
  /\ IF row < 10
     THEN row' = row + 1 /\ UNCHANGED <<round, ref>>
     ELSE row' = 11 /\ round' = round + 1 /\ ref' = ReferenceRound(ref, round)
  /\ UNCHANGED <<D, pc>>

\* The loop goes on after every round but the last of four, and there unless
\* the next constant is the one that ends the table.
NextRound ==
  /\ pc = "permute" /\ row = 11
  /\ LET end == round % 4 = 0 /\ KeccakF1600RoundConstants_int2[pRC + 1] = Sentinel
     IN IF end THEN pc' = "idle" /\ UNCHANGED row ELSE row' = 0 /\ UNCHANGED pc
  /\ UNCHANGED <<A, D, round, pRC, ref>>

PermuteCall ==
  /\ pc' = "permute"
  /\ round' = 0 /\ row' = 0 /\ pRC' = 0
  /\ UNCHANGED <<A, D, ref>>

\* The half lanes that hold the lanes L: even bits apart from odd bits.
Interleaved(L) ==
  [c \in Cells |->
     LET p == CHOOSE p \in Positions \X {0, 1} : Cell(p[1][1], p[1][2], p[2]) = c
     IN {i \in 0 .. 31 : 2 * i + p[2] \in L[p[1]]}]
================================================================================
