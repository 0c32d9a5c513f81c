------------------------------ MODULE KeccakF1600 ------------------------------
(***************************************************************************)
(* The three calls of keccakf1600.c on one state: XOR bytes into a range,  *)
(* extract the bytes of a range, permute.  SnP_AddBytes and                *)
(* SnP_ExtractBytes cut the range into lanes; the low and high word of a   *)
(* lane are turned into its even and odd bits and back; KeccakRounds has   *)
(* the permutation.  KeccakState takes it for granted that all this is a   *)
(* permutation of an array of bytes; here it is shown.                     *)
(***************************************************************************)
EXTENDS KeccakRounds, FiniteSets

CONSTANTS
  Samples,      \* numbers of the contents of the state and of the data
  Offsets,      \* arguments of the calls
  Lengths,
  MaxCalls,     \* bound: calls on a range before each permutation and after the last
  MaxPermutes   \* bound: permutations

ASSUME SamplesAssumption == Samples \subseteq Nat
ASSUME RangesAssumption ==
  /\ Offsets \subseteq 0 .. 199 /\ Lengths \subseteq 0 .. 200
  /\ MaxCalls \in Nat /\ MaxPermutes \in Nat

LaneLength == 8

VARIABLES
  data,     \* bytes to add, or extracted so far
  offset, length,          \* the arguments
  op,                      \* the last call: "none", "add", "extract", "permute"
  sizeLeft, lane, inLane,  \* _sizeLeft, _lanePosition, _offsetInLane
  calls, permutes          \* counted for the bounds

args == <<op, offset, length, calls, permutes>>
range == <<data, sizeLeft, lane, inLane>>
vars == <<permuting, pc, range, args>>

--------------------------------------------------------------------------------
(* Bit interleaving *)

Mask == [n \in {1, 2, 4, 8} |->
  CASE n = 1 -> {i \in 0 .. 31 : i % 4 = 1}           \* 0x22222222
    [] n = 2 -> {i \in 0 .. 31 : i % 8 \in {2, 3}}    \* 0x0C0C0C0C
    [] n = 4 -> {i \in 0 .. 31 : i % 16 \in 4 .. 7}   \* 0x00F000F0
    [] n = 8 -> 8 .. 15]                              \* 0x0000FF00

\* temp = (t ^ (t >> n)) & mask;  t = t ^ temp ^ (temp << n)
Exchange(t, n) ==
  LET temp == Xor(t, Shr(t, n)) \cap Mask[n]
  IN Word32(Xor(Xor(t, temp), Shl(temp, n)))

Gather(t)  == Exchange(Exchange(Exchange(Exchange(t, 1), 2), 4), 8)
BugScatter(t) ==   \* mutant: not the inverse
  Exchange(Exchange(Exchange(Exchange(t, 1), 2), 4), 8)
Scatter(t) == Exchange(Exchange(Exchange(Exchange(t, 8), 4), 2), 1)

toBitInterleaving(low, high) ==
  [even |-> Low(Gather(low), 16) \cup Word32(Shl(Gather(high), 16)),
   odd  |-> Shr(Gather(low), 16) \cup (Gather(high) \ 0 .. 15)]

\* The low and the high word of a lane.
fromBitInterleaving(l) ==
  [low  |-> Scatter(Low(l.even, 16) \cup Word32(Shl(l.odd, 16))),
   high |-> Scatter(Shr(l.even, 16) \cup (l.odd \ 0 .. 15))]

\* A few bytes at some offset of a lane of zeros.
BugLaneAsBytes(bytes, off) ==   \* mutant: always at the start
  UNION {Shl(bytes[i], 8 * (i - 1)) : i \in DOMAIN bytes}
LaneAsBytes(bytes, off) ==
  UNION {Shl(bytes[i], 8 * (off + i - 1)) : i \in DOMAIN bytes}

Even(j) == Cell(j % 5, j \div 5, 0)
Odd(j)  == Cell(j % 5, j \div 5, 1)

AddToLane(j, bytes, off) ==
  LET w == LaneAsBytes(bytes, off)
      x == toBitInterleaving(Low(w, 32), Shr(w, 32))
  IN [A EXCEPT ![Even(j)] = Xor(@, x.even), ![Odd(j)] = Xor(@, x.odd)]

BytesOfLane(j, off, n) ==
  LET x == fromBitInterleaving([even |-> A[Even(j)], odd |-> A[Odd(j)]])
      w == x.low \cup Shl(x.high, 32)
  IN [i \in 1 .. n |-> Low(Shr(w, 8 * (off + i - 1)), 8)]

--------------------------------------------------------------------------------
(* The state as its callers see it: 200 bytes, eight to a lane.            *)

Content(s, i) == {b \in 0 .. 7 : (i * i + b * (i + 3) + s * (b + 1)) % 5 < 2}

\* Byte i is in lane i \div 8, and lane 5y + x is in column x of row y.
LaneOfByte(i) == <<(i \div 8) % 5, i \div 40>>

ReferenceXor(L, o, bytes) ==
  [p \in Positions |->
     LET first == 8 * (p[1] + 5 * p[2])
         at(b) == first + b \div 8 - o + 1
     IN Xor(L[p], {b \in 0 .. 63 : at(b) \in DOMAIN bytes /\ b % 8 \in bytes[at(b)]})]

ReferenceBytes(L, o, n) ==
  [i \in 1 .. n |->
     {b \in 0 .. 7 : 8 * ((o + i - 1) % 8) + b \in L[LaneOfByte(o + i - 1)]}]

Nothing == [p \in Positions |-> {}]

\* No bits at all, or bits without a pattern.
Init ==
  /\ ref \in {Nothing} \cup
              {ReferenceXor(Nothing, 0, [i \in 1 .. 200 |-> Content(s, i)]) : s \in Samples}
  /\ A = Interleaved(ref)
  /\ D = [c \in Columns |-> {}]
  /\ round = 0 /\ row = 0 /\ pRC = 0
  /\ pc = "idle" /\ op = "none"
  /\ data = <<>> /\ offset = 0 /\ length = 0
  /\ sizeLeft = 0 /\ lane = 0 /\ inLane = 0
  /\ calls = 0 /\ permutes = 0

--------------------------------------------------------------------------------
(* The calls *)

Enter(o, n, call) ==
  /\ pc = "idle"
  /\ op' = call /\ offset' = o /\ length' = n
  /\ sizeLeft' = n
  /\ lane' = o \div LaneLength
  /\ inLane' = o % LaneLength

StateXORBytes(o, n, s) ==
  /\ calls < MaxCalls /\ calls' = calls + 1
  /\ Enter(o, n, "add")
  /\ pc' = IF o = 0 THEN "lanes" ELSE "loop"
  /\ data' = [i \in 1 .. n |-> Content(s + 1, 3 * i)]
  /\ ref' = ReferenceXor(ref, o, data')
  /\ UNCHANGED <<A, D, round, row, pRC, permutes>>

StateExtractBytes(o, n) ==
  /\ calls < MaxCalls /\ calls' = calls + 1
  /\ Enter(o, n, "extract")
  /\ pc' = IF o = 0 THEN "lanes" ELSE "loop"
  /\ data' = <<>>
  /\ UNCHANGED <<permuting, permutes>>

StatePermute ==
  /\ permutes < MaxPermutes
  /\ Enter(0, 0, "permute")
  /\ permutes' = permutes + 1 /\ calls' = 0
  /\ data' = <<>>
  /\ PermuteCall

Rounds == (Theta \/ Block \/ NextRound) /\ UNCHANGED <<range, args>>

\* Add or extract n bytes at offset off of lane j, the next in line.
Transfer(j, off, n) ==
  LET moved == length - sizeLeft
  IN IF op = "add"
     THEN /\ A' = AddToLane(j, SubSeq(data, moved + 1, moved + n), off)
          /\ UNCHANGED data
     ELSE /\ data' = data \o BytesOfLane(j, off, n)
          /\ UNCHANGED A

\* SnP_AddLanes and SnP_ExtractLanes: one whole lane after the other.
WholeLane ==
  /\ pc = "lanes"
  /\ IF lane < length \div LaneLength
     THEN /\ Transfer(lane, 0, LaneLength)
          /\ lane' = lane + 1
          /\ sizeLeft' = sizeLeft - LaneLength
          /\ UNCHANGED pc
     ELSE /\ pc' = "tail"
          /\ UNCHANGED <<A, data, lane, sizeLeft>>
  /\ UNCHANGED <<D, round, row, pRC, ref, args, inLane>>

RestOfLanes ==
  /\ pc = "tail"
  /\ IF length % LaneLength > 0
     THEN Transfer(length \div LaneLength, 0, length % LaneLength)
     ELSE UNCHANGED <<A, data>>
  /\ pc' = "idle"
  /\ sizeLeft' = 0
  /\ UNCHANGED <<D, round, row, pRC, ref, args, lane, inLane>>

BytesInLane ==
  IF LaneLength - inLane > sizeLeft THEN sizeLeft ELSE LaneLength - inLane

\* The loop for a range that does not start at 0; the first lane may be partial.
PartOfLane ==
  /\ pc = "loop" /\ sizeLeft > 0
  /\ Transfer(lane, inLane, BytesInLane)
  /\ sizeLeft' = sizeLeft - BytesInLane
  /\ lane' = lane + 1
  /\ inLane' = 0
  /\ UNCHANGED <<D, round, row, pRC, ref, pc, args>>

Return ==
  /\ pc = "loop" /\ sizeLeft = 0
  /\ pc' = "idle"
  /\ UNCHANGED <<permuting, range, args>>

Next ==
  \/ \E o \in Offsets : \E n \in Lengths \cap 0 .. 200 - o :
       (\E s \in Samples : StateXORBytes(o, n, s)) \/ StateExtractBytes(o, n)
  \/ StatePermute \/ Rounds
  \/ WholeLane \/ RestOfLanes \/ PartOfLane \/ Return

Spec == Init /\ [][Next]_vars

--------------------------------------------------------------------------------
(* Properties *)

\* Whenever four rounds have been made, every lane is back in its own two
\* cells and holds what Keccak-p makes of it, round constants included: no block
\* has read a cell that an earlier block of its round had overwritten.
LanesComeHome ==
  (pc = "permute" /\ round % 4 = 0 /\ row \in {0, 11}) => A = Interleaved(ref)

\* The loop counts nothing and only looks, every four rounds, for the value at
\* the end of the table: it stops neither before nor after 24 rounds, although
\* the table is full of words it could take for that value.
MakesAllRounds ==
  /\ (pc = "idle" /\ op = "permute") => round = 24
  /\ round = 24 => row = 11

\* After any sequence of calls, the halves stand for the bytes the caller
\* expects: bytes XORed in across lanes that a permutation has just moved
\* about meet the right ones, and all others are untouched.
StateIsBytes == pc = "idle" => A = Interleaved(ref)

\* Extraction returns exactly the bytes of the range, and no call of
\* ExtractBytesInLane copies beyond the lane it is about.
ExtractsTheRange ==
  /\ (pc = "idle" /\ op = "extract") => data = ReferenceBytes(ref, offset, length)
  /\ (pc = "loop" /\ sizeLeft > 0) => inLane + BytesInLane <= LaneLength
================================================================================
