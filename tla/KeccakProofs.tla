------------------------------ MODULE KeccakProofs ------------------------------
(***************************************************************************)
(* KeccakBlocks for every rate and every bound: the context stays well     *)
(* formed, finalize always finds room for its padding byte, the state is   *)
(* at every moment of the incremental absorb phase the message fed so far, *)
(* and a context of the block API holds nothing of what the memory held.   *)
(***************************************************************************)
EXTENDS KeccakBlocks, SequenceTheorems, TLAPS

(* A call in progress belongs to the phase the caller is in, and leaves    *)
(* less than a block for the padding.  Without this conjunct a squeeze     *)
(* loop could be running while Absorbed speaks.                            *)
Contract == /\ pc = "absorb"  => phase = "absorb"
            /\ pc = "squeeze" => phase = "squeeze"
            /\ pc \in {"absorb_blocks", "pad", "squeeze_blocks"} => phase = "blocks"
            /\ pc = "pad" => mlen < R

(* States made of symbols of S only, and the symbols a program may see.    *)
StateOver(S) == [perms : Seq([Offset -> SUBSET S]), lanes : [Offset -> SUBSET S]]
Written == Nat \cup {DomainByte, TopBit}

(* StartsFromZero speaks once the message is in; this from the first call. *)
Clean == phase = "blocks" => s \in StateOver(Written)

IInv == TypeOK /\ RoomForPadding /\ Contract /\ Absorbed /\ Clean

--------------------------------------------------------------------------------
(* Facts about the state operators, whoever calls them.                    *)

(* The layout of the unfinished block: count bytes from message byte first.*)
Prefix(first, count) == [o \in Offset |-> IF o < count THEN {first + o} ELSE {}]

LEMMA ZeroIsPrefix ==
  ASSUME NEW first \in Nat
  PROVE  /\ Zero = Prefix(first, 0)
         /\ Zero \in Lanes
BY DEF Zero, Prefix, Offset, Lanes, Symbol

(* XORing the next bytes behind a prefix extends the prefix: this is where *)
(* a wrong offset or a byte taken twice would show.                        *)
LEMMA XORBytesExtendsPrefix ==
  ASSUME NEW st, st \in [perms : Seq(Lanes), lanes : Lanes],
         NEW first \in Nat, NEW pos \in Nat, NEW len \in Nat, pos + len <= R,
         st.lanes = Prefix(first, pos)
  PROVE  LET new == XORBytes(st, first + pos, pos, len) IN
           /\ new = [perms |-> st.perms, lanes |-> Prefix(first, pos + len)]
           /\ new \in [perms : Seq(Lanes), lanes : Lanes]
<1> DEFINE new == XORBytes(st, first + pos, pos, len)
<1>1. \A o \in Offset :
        (IF pos <= o /\ o < pos + len
           THEN XorSet(st.lanes[o], {(first + pos) + (o - pos)})
           ELSE st.lanes[o])
        = Prefix(first, pos + len)[o]
  <2> TAKE o \in Offset
  <2>1. o \in Nat
    BY RateAssumption DEF Offset
  <2>2. (first + pos) + (o - pos) = first + o
    BY <2>1
  <2>3. CASE pos <= o /\ o < pos + len
    <3>1. st.lanes[o] = {}
      BY <2>1, <2>3 DEF Prefix
    <3>2. Prefix(first, pos + len)[o] = {first + o}
      BY <2>1, <2>3 DEF Prefix
    <3>3. XorSet({}, {first + o}) = {first + o}
      BY DEF XorSet
    <3> QED BY <2>2, <2>3, <3>1, <3>2, <3>3
  <2>4. CASE ~ (pos <= o /\ o < pos + len)
    BY <2>1, <2>4 DEF Prefix
  <2> QED BY <2>3, <2>4
<1>2. [o \in Offset |-> IF pos <= o /\ o < pos + len
                          THEN XorSet(st.lanes[o], {(first + pos) + (o - pos)})
                          ELSE st.lanes[o]]
      = Prefix(first, pos + len)
  BY <1>1 DEF Prefix
<1>3. new = [perms |-> st.perms, lanes |-> Prefix(first, pos + len)]
  <2>1. new = [st EXCEPT !.lanes = Prefix(first, pos + len)]
    BY <1>2 DEF XORBytes
  <2> QED BY <2>1
<1>4. Prefix(first, pos + len) \in Lanes
  BY RateAssumption DEF Prefix, Lanes, Symbol, Offset
<1> QED BY <1>3, <1>4

LEMMA PermuteType ==
  ASSUME NEW st, st \in [perms : Seq(Lanes), lanes : Lanes]
  PROVE  /\ StatePermute(st) \in [perms : Seq(Lanes), lanes : Lanes]
         /\ Len(StatePermute(st).perms) = Len(st.perms) + 1
         /\ StatePermute(st).lanes = Zero
BY ZeroIsPrefix DEF StatePermute

LEMMA PaddingType ==
  ASSUME NEW st, st \in [perms : Seq(Lanes), lanes : Lanes],
         NEW last \in Offset
  PROVE  XORPadding(st, last) \in [perms : Seq(Lanes), lanes : Lanes]
<1>1. \A q \in [perms : Seq(Lanes), lanes : Lanes], o \in Offset,
          A \in SUBSET Symbol :
        XORByte(q, A, o) \in [perms : Seq(Lanes), lanes : Lanes]
  BY DEF XORByte, XorSet, Lanes
<1>2. {DomainByte} \in SUBSET Symbol /\ {TopBit} \in SUBSET Symbol
      /\ {DomainByte, TopBit} \in SUBSET Symbol
  BY DEF Symbol
<1>3. R - 1 \in Offset
  BY RateAssumption DEF Offset
<1> QED BY <1>1, <1>2, <1>3 DEF XORPadding

(* n blocks of R bytes and one more.                                       *)
LEMMA NextBlock ==
  ASSUME NEW n \in Nat
  PROVE  R * n \in Nat /\ R * (n + 1) = R * n + R
BY RateAssumption, Z3

--------------------------------------------------------------------------------
(* The same operators keep to the symbols they are given: S is Written in   *)
(* one use of these lemmas and Symbol in the other.                        *)
LEMMA ZeroOver ==
  ASSUME NEW S
  PROVE  ZeroState \in StateOver(S)
BY DEF ZeroState, Zero, StateOver

LEMMA XORBytesOver ==
  ASSUME NEW S, Nat \subseteq S, NEW st \in StateOver(S),
         NEW first \in Nat, NEW pos \in Nat, NEW len
  PROVE  XORBytes(st, first, pos, len) \in StateOver(S)
<1>1. ASSUME NEW o \in Offset, pos <= o
      PROVE  XorSet(st.lanes[o], {first + (o - pos)}) \subseteq S
  <2>1. first + (o - pos) \in Nat
    BY <1>1, RateAssumption DEF Offset
  <2>2. st.lanes[o] \subseteq S
    BY DEF StateOver
  <2> QED BY <2>1, <2>2 DEF XorSet
<1>2. \A o \in Offset : st.lanes[o] \subseteq S
  BY DEF StateOver
<1>3. [o \in Offset |-> IF pos <= o /\ o < pos + len
                          THEN XorSet(st.lanes[o], {first + (o - pos)})
                          ELSE st.lanes[o]] \in [Offset -> SUBSET S]
  BY <1>1, <1>2
<1> QED BY <1>3 DEF XORBytes, StateOver

LEMMA PermuteOver ==
  ASSUME NEW S, NEW st \in StateOver(S)
  PROVE  StatePermute(st) \in StateOver(S)
<1>1. Zero \in [Offset -> SUBSET S]
  BY DEF Zero
<1> QED BY <1>1 DEF StatePermute, StateOver

LEMMA PaddingOver ==
  ASSUME NEW S, DomainByte \in S, TopBit \in S, NEW st \in StateOver(S),
         NEW last \in Offset
  PROVE  XORPadding(st, last) \in StateOver(S)
<1>1. \A q \in StateOver(S), o \in Offset, A \in SUBSET S :
        XORByte(q, A, o) \in StateOver(S)
  BY DEF XORByte, XorSet, StateOver
<1>2. R - 1 \in Offset
  BY RateAssumption DEF Offset
<1>3. {DomainByte} \in SUBSET S /\ {TopBit} \in SUBSET S
      /\ {DomainByte, TopBit} \in SUBSET S
  OBVIOUS
<1> QED BY <1>1, <1>2, <1>3 DEF XORPadding

LEMMA TypedIsOver == [perms : Seq(Lanes), lanes : Lanes] = StateOver(Symbol)
BY DEF StateOver, Lanes

LEMMA Symbols == /\ Nat \subseteq Symbol /\ DomainByte \in Symbol /\ TopBit \in Symbol
                 /\ Nat \subseteq Written /\ DomainByte \in Written /\ TopBit \in Written
                 /\ Stale \notin Written
BY DEF Symbol, Written, DomainByte, TopBit, Stale

--------------------------------------------------------------------------------
(* The inductive invariant holds at the start.                             *)
LEMMA InitIInv == Init => IInv
<1> SUFFICES ASSUME Init PROVE IInv
  OBVIOUS
<1>1. ZeroState \in StateOver(Symbol) /\ StaleState \in StateOver(Symbol)
  <2>1. [o \in Offset |-> {Stale}] \in [Offset -> SUBSET Symbol]
    BY DEF Symbol
  <2>2. StaleState \in StateOver(Symbol)
    BY <2>1 DEF StaleState, StateOver
  <2> QED BY <2>2, ZeroOver
<1>2. s \in [perms : Seq(Lanes), lanes : Lanes]
  BY <1>1, TypedIsOver DEF Init
<1>3. s25 \in Nat
  BY RateAssumption DEF Init
<1> QED
  BY <1>2, <1>3 DEF Init, IInv, TypeOK, RoomForPadding, Contract, Absorbed, Clean

(* The inductive invariant is preserved by every step.                     *)
LEMMA IncIInv == IInv /\ IncCalls /\ UNCHANGED nblocks => IInv'
<1> SUFFICES ASSUME IInv, IncCalls, UNCHANGED nblocks PROVE IInv'
  OBVIOUS
<1>0. R \in Nat /\ R >= 1 /\ MaxMsg \in Nat /\ MaxOut \in Nat
  BY RateAssumption, BoundsAssumption
<1> DEFINE n == Len(s.perms)
<1>a. /\ TypeOK /\ Contract /\ Absorbed /\ n \in Nat
      /\ phase \in {"absorb", "squeeze"} => s25 < R
      /\ s.perms \in Seq(Lanes)
  <2>1. TypeOK /\ RoomForPadding /\ Contract /\ Absorbed
    BY DEF IInv
  <2>2. s \in [perms : Seq(Lanes), lanes : Lanes]
    BY <2>1 DEF TypeOK
  <2>3. s.perms \in Seq(Lanes) /\ n \in Nat
    BY <2>2
  <2> QED BY <2>1, <2>3 DEF RoomForPadding
<1>b. phase = "absorb" => m = R * n + s25 /\ s.lanes = Prefix(R * n, s25)
  BY <1>a DEF Absorbed, Prefix
<1>1. CASE IncInit
  <2>1. s' \in [perms : Seq(Lanes), lanes : Lanes] /\ Len(s'.perms) = 0
        /\ s'.lanes = Zero
    BY <1>1, ZeroIsPrefix DEF IncInit, ZeroState
  <2>2. Absorbed'
    BY <1>0, <1>1, <2>1, ZeroIsPrefix DEF IncInit, Absorbed, Prefix
  <2> QED
    BY <1>0, <1>1, <1>a, <2>1, <2>2
       DEF IncInit, IInv, Clean, TypeOK, RoomForPadding, Contract
<1>2. ASSUME NEW len \in 0 .. MaxMsg, AbsorbCall(len) PROVE IInv'
  BY <1>0, <1>2, <1>a DEF AbsorbCall, IInv, Clean, TypeOK, RoomForPadding, Contract, Absorbed
<1>3. CASE AbsorbBlock
  <2> DEFINE taken == R - s25
             new == XORBytes(s, m, s25, taken)
  <2>1. phase = "absorb" /\ taken \in Nat /\ s25 + taken = R /\ mlen - taken \in Nat
    BY <1>0, <1>3, <1>a DEF AbsorbBlock, MoreBlocks, Contract, TypeOK
  <2>2. R * n \in Nat /\ m = R * n + s25 /\ s.lanes = Prefix(R * n, s25)
    BY <1>a, <1>b, <2>1, NextBlock
  <2>3. new \in [perms : Seq(Lanes), lanes : Lanes] /\ Len(new.perms) = n
    <3>1. s \in [perms : Seq(Lanes), lanes : Lanes] /\ s25 \in Nat
      BY <1>a DEF TypeOK
    <3>2. s25 + taken <= R
      BY <1>0, <2>1
    <3>3. XORBytes(s, R * n + s25, s25, taken)
            = [perms |-> s.perms, lanes |-> Prefix(R * n, s25 + taken)]
          /\ XORBytes(s, R * n + s25, s25, taken)
               \in [perms : Seq(Lanes), lanes : Lanes]
      <4> HIDE DEF taken
      <4> QED BY <2>1, <2>2, <3>1, <3>2, XORBytesExtendsPrefix
    <3> QED BY <2>2, <3>3
  <2>4. /\ s' \in [perms : Seq(Lanes), lanes : Lanes]
        /\ Len(s'.perms) = n + 1 /\ s'.lanes = Zero
    BY <1>3, <2>3, PermuteType DEF AbsorbBlock
  <2>5. m' = R * (n + 1) /\ m' \in Nat /\ s25' = 0
    <3>1. m' = R * n + s25 + taken /\ s25' = 0
      BY <1>3, <2>2 DEF AbsorbBlock
    <3>2. R * (n + 1) = R * n + R
      BY <1>a, NextBlock
    <3>3. s25 \in Nat
      BY <1>a DEF TypeOK
    <3>4. R * n + s25 + taken = R * n + R
      BY <1>0, <2>1, <2>2, <3>3
    <3> HIDE DEF taken
    <3> QED BY <1>0, <2>2, <3>1, <3>2, <3>4
  <2>6. Absorbed'
    <3>1. R * (n + 1) \in Nat
      BY <2>5
    <3>2. s'.lanes = Prefix(R * (n + 1), 0)
      BY <2>4, <3>1, ZeroIsPrefix
    <3> QED BY <2>4, <2>5, <3>1, <3>2 DEF Absorbed, Prefix
  <2> QED
    BY <1>0, <1>3, <1>a, <2>1, <2>4, <2>5, <2>6
       DEF AbsorbBlock, IInv, Clean, TypeOK, RoomForPadding, Contract
<1>4. CASE AbsorbRest
  <2> DEFINE new == XORBytes(s, m, s25, mlen)
  <2>1. phase = "absorb" /\ s25 \in Nat /\ mlen \in Nat /\ s25 + mlen < R
    BY <1>0, <1>4, <1>a DEF AbsorbRest, MoreBlocks, Contract, TypeOK
  <2>2. R * n \in Nat /\ m = R * n + s25 /\ s.lanes = Prefix(R * n, s25)
    BY <1>a, <1>b, <2>1, NextBlock
  <2>3. /\ s' = [perms |-> s.perms, lanes |-> Prefix(R * n, s25 + mlen)]
        /\ s' \in [perms : Seq(Lanes), lanes : Lanes]
    <3>1. s \in [perms : Seq(Lanes), lanes : Lanes]
      BY <1>a DEF TypeOK
    <3>2. s25 + mlen <= R
      BY <1>0, <2>1
    <3>3. XORBytes(s, R * n + s25, s25, mlen)
            = [perms |-> s.perms, lanes |-> Prefix(R * n, s25 + mlen)]
          /\ XORBytes(s, R * n + s25, s25, mlen)
               \in [perms : Seq(Lanes), lanes : Lanes]
      BY <2>1, <2>2, <3>1, <3>2, XORBytesExtendsPrefix
    <3> QED BY <1>4, <2>2, <3>3 DEF AbsorbRest
  <2>4. m' = R * n + s25' /\ s25' = s25 + mlen
    BY <1>4, <2>1, <2>2 DEF AbsorbRest
  <2>5. Absorbed'
    BY <2>3, <2>4 DEF Absorbed, Prefix
  <2> QED
    BY <1>0, <1>4, <1>a, <2>1, <2>2, <2>3, <2>4, <2>5
       DEF AbsorbRest, IInv, Clean, TypeOK, RoomForPadding, Contract
<1>5. CASE Finalize
  <2>1. s25 \in Offset
    <3>1. s25 \in Nat /\ s25 < R
      BY <1>5, <1>a DEF TypeOK, Finalize
    <3> QED BY <1>0, <3>1 DEF Offset
  <2>2. s' \in [perms : Seq(Lanes), lanes : Lanes]
    BY <1>5, <1>a, <2>1, PaddingType DEF Finalize, TypeOK
  <2> QED
    BY <1>0, <1>5, <1>a, <2>2
       DEF Finalize, IInv, Clean, TypeOK, RoomForPadding, Contract, Absorbed
<1>6. ASSUME NEW outlen \in 0 .. MaxOut, SqueezeCall(outlen) PROVE IInv'
  BY <1>0, <1>6, <1>a
     DEF SqueezeCall, Smaller, IInv, Clean, TypeOK, RoomForPadding, Contract, Absorbed
<1>7. CASE SqueezeBlock
  <2>1. s' \in [perms : Seq(Lanes), lanes : Lanes]
    BY <1>7, <1>a, PermuteType DEF SqueezeBlock, TypeOK
  <2>2. s25' \in Nat /\ s25' < R /\ mlen' \in Nat
    BY <1>0, <1>7, <1>a DEF SqueezeBlock, Smaller, TypeOK
  <2> QED
    BY <1>7, <1>a, <2>1, <2>2
       DEF SqueezeBlock, IInv, Clean, TypeOK, RoomForPadding, Contract, Absorbed
<1>8. CASE SqueezeReturn
  BY <1>8, <1>a DEF SqueezeReturn, IInv, Clean, TypeOK, RoomForPadding, Contract, Absorbed
<1> QED
  BY <1>1, <1>2, <1>3, <1>4, <1>5, <1>6, <1>7, <1>8 DEF IncCalls

(* The calls of the block API: what they do to the state is the business of *)
(* the lemmas above, and Absorbed does not speak of their phase.           *)
LEMMA BlocksIInv == ASSUME IInv, BlockCalls PROVE IInv'
<1>0. R \in Nat /\ R >= 1 /\ MaxMsg \in Nat /\ MaxBlocks \in Nat
  BY RateAssumption, BoundsAssumption, BlocksAssumption
<1>a. TypeOK /\ Contract /\ Clean
  BY DEF IInv
<1>b. s \in StateOver(Symbol) /\ m \in Nat /\ mlen \in Nat /\ nblocks \in Nat /\ s25 \in Nat
  BY <1>a, TypedIsOver DEF TypeOK
<1>c. ASSUME phase' = "blocks", UNCHANGED s25,
             s' \in StateOver(Symbol), s' \in StateOver(Written),
             pc' \in {"idle", "absorb_blocks", "pad", "squeeze_blocks"},
             pc' = "pad" => mlen' < R,
             m' \in Nat, mlen' \in Nat, nblocks' \in Nat
      PROVE  IInv'
  BY <1>b, <1>c, TypedIsOver DEF IInv, TypeOK, RoomForPadding, Contract, Absorbed, Clean
<1>1. ASSUME NEW len \in 0 .. MaxMsg, ShakeAbsorb(len) PROVE IInv'
  <2>1. s' = ZeroState
    BY <1>1 DEF ShakeAbsorb, EnterAbsorb
  <2>2. s' \in StateOver(Symbol) /\ s' \in StateOver(Written)
    BY <2>1, ZeroOver
  <2>3. len \in Nat
    BY <1>0
  <2> QED BY <1>1, <1>c, <2>2, <2>3 DEF ShakeAbsorb, EnterAbsorb
<1>2. CASE AbsorbWholeBlock
  <2>1. phase = "blocks" /\ s \in StateOver(Written)
    BY <1>2, <1>a DEF AbsorbWholeBlock, Contract, Clean
  <2>2. /\ XORBytes(s, m, 0, R) \in StateOver(Symbol)
        /\ XORBytes(s, m, 0, R) \in StateOver(Written)
    BY <1>b, <2>1, Symbols, XORBytesOver
  <2>3. s' \in StateOver(Symbol) /\ s' \in StateOver(Written)
    BY <1>2, <2>2, PermuteOver DEF AbsorbWholeBlock
  <2>4. mlen - R \in Nat /\ m + R \in Nat
    <3>1. mlen >= R
      BY <1>2 DEF AbsorbWholeBlock, BlocksLeft
    <3> QED BY <1>0, <1>b, <3>1
  <2> QED BY <1>2, <1>b, <1>c, <2>1, <2>3, <2>4 DEF AbsorbWholeBlock
<1>3. CASE AbsorbTail
  <2>1. phase = "blocks" /\ s \in StateOver(Written) /\ mlen < R
    <3>1. phase = "blocks" /\ s \in StateOver(Written)
      BY <1>3, <1>a DEF AbsorbTail, Contract, Clean
    <3>2. ~ (mlen >= R)
      BY <1>3 DEF AbsorbTail, BlocksLeft
    <3> QED BY <1>0, <1>b, <3>1, <3>2
  <2>2. s' \in StateOver(Symbol) /\ s' \in StateOver(Written)
    BY <1>3, <1>b, <2>1, Symbols, XORBytesOver DEF AbsorbTail
  <2> QED BY <1>3, <1>b, <1>c, <2>1, <2>2 DEF AbsorbTail
<1>4. CASE Pad
  <2>1. phase = "blocks" /\ s \in StateOver(Written) /\ mlen \in Offset
    BY <1>0, <1>4, <1>a, <1>b DEF Pad, Contract, Clean, Offset
  <2>2. s' \in StateOver(Symbol) /\ s' \in StateOver(Written)
    BY <1>4, <1>b, <2>1, Symbols, PaddingOver DEF Pad
  <2> QED BY <1>4, <1>b, <1>c, <2>1, <2>2 DEF Pad
<1>5. ASSUME NEW n \in 0 .. MaxBlocks, SqueezeBlocks(n) PROVE IInv'
  <2>1. phase = "blocks" /\ s \in StateOver(Written)
    BY <1>5, <1>a DEF SqueezeBlocks, Clean
  <2>2. n \in Nat
    BY <1>0
  <2> QED BY <1>5, <1>b, <1>c, <2>1, <2>2 DEF SqueezeBlocks
<1>6. CASE SqueezeNextBlock
  <2>1. phase = "blocks" /\ s \in StateOver(Written)
    BY <1>6, <1>a DEF SqueezeNextBlock, Contract, Clean
  <2>2. s' \in StateOver(Symbol) /\ s' \in StateOver(Written)
    BY <1>6, <1>b, <2>1, PermuteOver DEF SqueezeNextBlock
  <2>3. nblocks - 1 \in Nat
    <3>1. nblocks > 0
      BY <1>6 DEF SqueezeNextBlock
    <3> QED BY <1>b, <3>1
  <2> QED BY <1>6, <1>b, <1>c, <2>1, <2>2, <2>3 DEF SqueezeNextBlock
<1>7. CASE SqueezeBlocksReturn
  <2>1. phase = "blocks" /\ s \in StateOver(Written)
    BY <1>7, <1>a DEF SqueezeBlocksReturn, Contract, Clean
  <2> QED BY <1>7, <1>b, <1>c, <2>1 DEF SqueezeBlocksReturn
<1> QED
  BY <1>1, <1>2, <1>3, <1>4, <1>5, <1>6, <1>7 DEF BlockCalls

LEMMA NextIInv == IInv /\ [Next]_keccakVars => IInv'
<1>1. IInv /\ UNCHANGED keccakVars => IInv'
  BY DEF keccakVars, vars, IInv, TypeOK, RoomForPadding, Contract, Absorbed, Clean
<1> QED BY <1>1, IncIInv, BlocksIInv DEF Next

LEMMA Invariance == Spec => []IInv
<1> QED BY InitIInv, NextIInv, PTL DEF Spec

(* A context of either API is well formed after any calls.                 *)
THEOREM TypeCorrect == Spec => []TypeOK
<1>1. IInv => TypeOK
  BY DEF IInv
<1> QED BY <1>1, Invariance, PTL

(* fips202.c, keccak_inc_finalize: "we are guaranteed that s_inc[25] < r". *)
THEOREM FinalizeHasRoom == Spec => []RoomForPadding
<1>1. IInv => RoomForPadding
  BY DEF IInv
<1> QED BY <1>1, Invariance, PTL

(* keccak_inc_absorb puts every message byte where one call over the whole *)
(* message would have put it, for any cut into calls.                      *)
THEOREM AbsorbsTheMessage == Spec => []Absorbed
<1>1. IInv => Absorbed
  BY DEF IInv
<1> QED BY <1>1, Invariance, PTL

(* keccak_absorb behind the zeroing loop of shake128_absorb: nothing the   *)
(* memory held before is left under the message or under a permutation.    *)
THEOREM BlocksStartFromZero == Spec => []StartsFromZero
<1>1. IInv => StartsFromZero
  <2> SUFFICES ASSUME IInv, phase = "blocks", NEW o \in Offset
               PROVE  /\ Stale \notin s.lanes[o]
                      /\ \A b \in DOMAIN s.perms : Stale \notin s.perms[b][o]
    BY DEF StartsFromZero
  <2>1. s \in StateOver(Written)
    BY DEF IInv, Clean
  <2>2. s.lanes[o] \subseteq Written
    BY <2>1 DEF StateOver
  <2>3. ASSUME NEW b \in DOMAIN s.perms PROVE s.perms[b][o] \subseteq Written
    BY <2>1 DEF StateOver
  <2> QED BY <2>2, <2>3, Symbols
<1> QED BY <1>1, Invariance, PTL

--------------------------------------------------------------------------------
(* Both APIs of fips202.c implement Sponge, for every rate and every       *)
(* bound: each step is a step of the sponge over the whole message or none *)
(* that its user can see.                                                  *)

(* The state after q blocks of the message and count bytes of the next.    *)
Fed(q, count) == [perms |-> [b \in 1 .. q |-> Prefix(R * (b - 1), R)],
                  lanes |-> Prefix(R * q, count)]

(* The state after p permutations of a sealed message of len bytes that    *)
(* were not needed to take it in.                                          *)
Padded(len, b) == Promise!PaddedBlock(len, b)
Sealed(len, p) ==
  LET q == len \div R IN
    [perms |-> [b \in 1 .. q + p |-> IF b <= q + 1 THEN Padded(len, b - 1) ELSE Zero],
     lanes |-> IF p = 0 THEN Padded(len, q) ELSE Zero]

Byte(len, j) == Promise!SpongeByte(len, j)
Bytes(len)   == {Byte(len, j) : j \in Nat}
Chunk(len, from, k) == [i \in 1 .. k |-> Byte(len, from + i - 1)]

(* Sealed states while the output is being read: h bytes have been handed  *)
(* out and left are left of the last block.                                *)
Reading(len, st, h, left) ==
  /\ h \in Seq(Bytes(len))
  /\ \E p \in Nat : st = Sealed(len, p) /\ Len(h) + left = R * p

(* The variables of Sponge, as Promise has them.                           *)
Absorbing == phase \in {"none", "absorb"} \/ pc \in {"absorb_blocks", "pad"}
Taken     == IF phase = "blocks" /\ pc # "absorb_blocks" THEN m + mlen ELSE m

(* Bytes of the last block that are still to be handed out.                *)
Left == IF phase = "squeeze" THEN s25 ELSE 0

(* The state is a function of what the sponge has taken in and given out.  *)
Corresponds ==
  /\ Absorbing => out = << >>
  /\ phase = "none" => pc = "idle"
  /\ phase = "absorb" => \E q \in Nat : m = R * q + s25 /\ s = Fed(q, s25)
  /\ pc = "absorb_blocks" => \E q \in Nat : m = R * q /\ s = Fed(q, 0)
  /\ pc = "pad" => \E q \in Nat : m = R * q /\ s = Fed(q, mlen)
  /\ ~ Absorbing => Reading(Taken, s, out, Left)
  /\ pc = "squeeze" /\ mlen > 0 => s25 = 0
--------------------------------------------------------------------------------
(* Arithmetic of blocks.                                                   *)

LEMMA DivMod ==
  ASSUME NEW q \in Nat, NEW r \in Offset
  PROVE  (R * q + r) \div R = q /\ (R * q + r) % R = r
BY RateAssumption DEF Offset

LEMMA Parts ==
  ASSUME NEW n \in Nat
  PROVE  /\ n \div R \in Nat /\ n % R \in Offset
         /\ n = R * (n \div R) + (n % R)
BY RateAssumption DEF Offset

LEMMA Products ==
  ASSUME NEW q \in Nat
  PROVE  R * q \in Nat /\ R * (q + 1) = R * q + R /\ R * 0 = 0 /\ q * R = R * q
BY RateAssumption, Z3

(* Block b of the message, before its q-th, is full.                       *)
LEMMA EarlierBlock ==
  ASSUME NEW q \in Nat, NEW b \in 1 .. q
  PROVE  R * (b - 1) \in Nat /\ R * (b - 1) + R <= R * q
<1>1. b - 1 \in Nat /\ q - b \in Nat
  OBVIOUS
<1>2. R * q = R * (b - 1) + R + R * (q - b)
  BY RateAssumption, Z3
<1>3. R * (b - 1) \in Nat /\ R * (q - b) \in Nat
  BY <1>1, Products
<1> QED BY <1>2, <1>3, RateAssumption

--------------------------------------------------------------------------------
(* What Sponge defines, in terms of this module's Offset and Zero.         *)

LEMMA PaddedIs ==
  ASSUME NEW len, NEW b
  PROVE  Padded(len, b) =
           [o \in Offset |->
              (IF b * R + o < len THEN {b * R + o} ELSE {})
                \cup (IF b * R + o = len THEN {DomainByte} ELSE {})
                \cup (IF b = len \div R /\ o = R - 1 THEN {TopBit} ELSE {})]
BY DEF Padded, Promise!PaddedBlock, Promise!Offset, Offset,
       Promise!DomainByte, DomainByte, Promise!TopBit, TopBit

LEMMA ByteIs ==
  ASSUME NEW len \in Nat, NEW j \in Nat
  PROVE  Byte(len, j) = [perms  |-> Sealed(len, j \div R + 1).perms,
                         xored  |-> {},
                         offset |-> j % R]
<1>1. Promise!Zero = Zero
  BY DEF Promise!Zero, Zero, Promise!Offset, Offset
<1>2. len \div R \in Nat /\ j \div R \in Nat
  BY Parts
<1>3. len \div R + 1 + j \div R = len \div R + (j \div R + 1)
  BY <1>2
<1> QED BY <1>1, <1>3 DEF Byte, Promise!SpongeByte, Sealed, Padded

--------------------------------------------------------------------------------
(* What the operations of KeccakState make of such states.                 *)

LEMMA PrefixType ==
  ASSUME NEW first \in Nat, NEW count \in Nat
  PROVE  Prefix(first, count) \in Lanes
BY RateAssumption DEF Prefix, Lanes, Symbol, Offset

LEMMA FedType ==
  ASSUME NEW q \in Nat, NEW count \in Nat
  PROVE  Fed(q, count) \in [perms : Seq(Lanes), lanes : Lanes]
<1>1. ASSUME NEW b \in 1 .. q PROVE Prefix(R * (b - 1), R) \in Lanes
  BY EarlierBlock, PrefixType, RateAssumption
<1>2. [b \in 1 .. q |-> Prefix(R * (b - 1), R)] \in Seq(Lanes)
  BY <1>1, IsASeq
<1>3. Prefix(R * q, count) \in Lanes
  BY Products, PrefixType
<1> QED BY <1>2, <1>3 DEF Fed

(* Taking in the next bytes of the block.                                  *)
LEMMA FeedBytes ==
  ASSUME NEW q \in Nat, NEW pos \in Nat, NEW len \in Nat, pos + len <= R
  PROVE  XORBytes(Fed(q, pos), R * q + pos, pos, len) = Fed(q, pos + len)
<1>1. Fed(q, pos) \in [perms : Seq(Lanes), lanes : Lanes]
  BY FedType
<1>2. Fed(q, pos).lanes = Prefix(R * q, pos)
  BY DEF Fed
<1>3. R * q \in Nat
  BY Products
<1>4. ASSUME NEW st \in [perms : Seq(Lanes), lanes : Lanes], NEW first \in Nat,
             st.lanes = Prefix(first, pos)
      PROVE  /\ XORBytes(st, first + pos, pos, len)
                  = [perms |-> st.perms, lanes |-> Prefix(first, pos + len)]
             /\ XORBytes(st, first + pos, pos, len) \in [perms : Seq(Lanes), lanes : Lanes]
  BY <1>4, XORBytesExtendsPrefix
<1>5. XORBytes(Fed(q, pos), R * q + pos, pos, len)
        = [perms |-> Fed(q, pos).perms, lanes |-> Prefix(R * q, pos + len)]
  BY <1>1, <1>2, <1>3, <1>4
<1> QED BY <1>5 DEF Fed

(* A full block goes under the permutation.                                *)
LEMMA PermuteFed ==
  ASSUME NEW q \in Nat
  PROVE  StatePermute(Fed(q, R)) = Fed(q + 1, 0)
<1> DEFINE f == [b \in 1 .. q |-> Prefix(R * (b - 1), R)]
<1>1. f \in Seq(Lanes) /\ Len(f) = q
  <2>1. ASSUME NEW b \in 1 .. q PROVE Prefix(R * (b - 1), R) \in Lanes
    BY EarlierBlock, PrefixType, RateAssumption
  <2> QED BY <2>1, IsASeq
<1>2. Prefix(R * q, R) \in Lanes
  BY Products, PrefixType, RateAssumption
<1>3. Append(f, Prefix(R * q, R)) = [b \in 1 .. q + 1 |-> Prefix(R * (b - 1), R)]
  <2> DEFINE a == Append(f, Prefix(R * q, R))
             g == [b \in 1 .. q + 1 |-> Prefix(R * (b - 1), R)]
  <2>1. /\ a \in Seq(Lanes) /\ Len(a) = q + 1
        /\ \A b \in 1 .. q : a[b] = f[b]
        /\ a[q + 1] = Prefix(R * q, R)
    <3> HIDE DEF f
    <3> QED BY <1>1, <1>2, AppendProperties
  <2>2. a = [b \in 1 .. q + 1 |-> a[b]]
    <3> HIDE DEF a
    <3> QED BY <2>1
  <2>3. \A b \in 1 .. q + 1 : a[b] = g[b]
    <3> TAKE b \in 1 .. q + 1
    <3>1. CASE b = q + 1
      <4>1. b - 1 = q
        BY <3>1
      <4> QED BY <2>1, <3>1, <4>1
    <3>2. CASE b # q + 1
      <4>1. b \in 1 .. q
        BY <3>2
      <4> QED BY <2>1, <4>1
    <3> QED BY <3>1, <3>2
  <2>4. a = g
    <3> HIDE DEF a
    <3> QED BY <2>2, <2>3
  <2> QED BY <2>4
<1>4. Zero = Prefix(R * (q + 1), 0)
  BY Products, ZeroIsPrefix
<1> QED BY <1>3, <1>4 DEF StatePermute, Fed

(* The padding seals the message: the blocks before are full ones, and the *)
(* last has p and 0x80 behind its bytes.                                   *)
LEMMA PadFed ==
  ASSUME NEW q \in Nat, NEW count \in Offset
  PROVE  XORPadding(Fed(q, count), count) = Sealed(R * q + count, 0)
<1> DEFINE len == R * q + count
<1>1. len \in Nat /\ len \div R = q /\ R * q \in Nat /\ count \in Nat /\ R \in Nat \ {0}
  BY DivMod, Products, RateAssumption DEF Offset
<1> DEFINE f == Prefix(R * q, count)
           new == [o \in Offset |->
                     XorSet(IF o = count THEN XorSet(f[o], {DomainByte}) ELSE f[o],
                            IF o = R - 1 THEN {TopBit} ELSE {})]
<1>2. XORPadding(Fed(q, count), count) = [perms |-> Fed(q, count).perms, lanes |-> new]
  <2>1. R - 1 \in Offset
    BY <1>1 DEF Offset
  <2>2. \A A : XorSet(A, {}) = A
    BY DEF XorSet
  <2>3. f \in [Offset -> SUBSET Nat]
    BY <1>1 DEF Prefix, Offset
  <2>4. CASE count = R - 1
    <3>1. \A A \in SUBSET Nat :
            XorSet(XorSet(A, {DomainByte}), {TopBit}) = XorSet(A, {DomainByte, TopBit})
      BY DEF XorSet, DomainByte, TopBit
    <3>2. XORPadding(Fed(q, count), count)
            = [perms |-> Fed(q, count).perms,
               lanes |-> [f EXCEPT ![count] = XorSet(f[count], {DomainByte, TopBit})]]
      BY <2>4 DEF XORPadding, XORByte, Fed
    <3>3. [f EXCEPT ![count] = XorSet(f[count], {DomainByte, TopBit})] = new
      <4> HIDE DEF f
      <4> QED BY <2>2, <2>3, <2>4, <3>1
    <3> QED BY <3>2, <3>3
  <2>5. CASE count # R - 1
    <3> DEFINE f1 == [f EXCEPT ![count] = XorSet(f[count], {DomainByte})]
               f2 == [f1 EXCEPT ![R - 1] = XorSet(f1[R - 1], {TopBit})]
    <3>1. XORPadding(Fed(q, count), count) = [perms |-> Fed(q, count).perms, lanes |-> f2]
      BY <2>5 DEF XORPadding, XORByte, Fed
    <3>2. DOMAIN f2 = Offset /\ f2 = [o \in Offset |-> f2[o]]
      <4> HIDE DEF f
      <4> QED BY <2>3
    <3>3. ASSUME NEW o \in Offset PROVE f2[o] = new[o]
      <4> HIDE DEF f
      <4> QED BY <2>1, <2>2, <2>3, <2>5
    <3>4. f2 = new
      <4> HIDE DEF f2
      <4> QED BY <3>2, <3>3
    <3> QED BY <3>1, <3>4
  <2> QED BY <2>4, <2>5
<1>3. new = Padded(len, q)
  <2>1. ASSUME NEW o \in Offset
        PROVE  new[o] = (IF q * R + o < len THEN {q * R + o} ELSE {})
                          \cup (IF q * R + o = len THEN {DomainByte} ELSE {})
                          \cup (IF q = len \div R /\ o = R - 1 THEN {TopBit} ELSE {})
    <3>1. o \in Nat /\ q * R = R * q
      BY <1>1, Products DEF Offset
    <3>2. (q * R + o < len <=> o < count) /\ (q * R + o = len <=> o = count)
      BY <1>1, <3>1
    <3>3. f[o] = IF o < count THEN {R * q + o} ELSE {}
      BY DEF Prefix
    <3>4. R * q + o \notin {DomainByte, TopBit} /\ DomainByte # TopBit
      BY <1>1, <3>1 DEF DomainByte, TopBit
    <3>5. ~ (o < count /\ o = count)
      BY <1>1, <3>1
    <3> HIDE DEF f, len
    <3> QED BY <1>1, <3>1, <3>2, <3>3, <3>4, <3>5 DEF XorSet
  <2> HIDE DEF len, f
  <2> QED BY <2>1, PaddedIs
<1>4. Fed(q, count).perms = Sealed(len, 0).perms
  <2>1. ASSUME NEW b \in 1 .. q
        PROVE  Prefix(R * (b - 1), R) = Padded(len, b - 1)
    <3>1. R * (b - 1) \in Nat /\ R * (b - 1) + R <= R * q /\ (b - 1) * R = R * (b - 1)
      BY EarlierBlock, Products
    <3>2. ASSUME NEW o \in Offset
          PROVE  /\ (b - 1) * R + o < len /\ (b - 1) * R + o # len
                 /\ (b - 1) # len \div R /\ o < R
      BY <1>1, <3>1 DEF Offset
    <3> HIDE DEF len
    <3> QED BY <3>1, <3>2, PaddedIs DEF Prefix
  <2>2. Sealed(len, 0).perms
          = [b \in 1 .. q |-> IF b <= q + 1 THEN Padded(len, b - 1) ELSE Zero]
    <3> HIDE DEF len
    <3> QED BY <1>1 DEF Sealed
  <2> HIDE DEF len
  <2> QED BY <1>1, <2>1, <2>2 DEF Fed
<1>5. Sealed(len, 0).lanes = Padded(len, q) /\ Sealed(len, 0) = [perms |-> Sealed(len, 0).perms, lanes |-> Sealed(len, 0).lanes]
  <2> HIDE DEF len
  <2> QED BY <1>1 DEF Sealed
<1> HIDE DEF len, new
<1> QED BY <1>2, <1>3, <1>4, <1>5 DEF len

LEMMA PermuteSealed ==
  ASSUME NEW len \in Nat, NEW p \in Nat
  PROVE  StatePermute(Sealed(len, p)) = Sealed(len, p + 1)
<1> DEFINE q == len \div R
           block(b) == IF b <= q + 1 THEN Padded(len, b - 1) ELSE Zero
           f == [b \in 1 .. q + p |-> block(b)]
           last == IF p = 0 THEN Padded(len, q) ELSE Zero
           S == {block(b) : b \in Nat}
<1>1. q \in Nat
  BY Parts
<1>2. last = block(q + p + 1)
  BY <1>1
<1>3. f \in Seq(S) /\ Len(f) = q + p /\ last \in S
  <2>1. \A b \in Nat : block(b) \in S
    OBVIOUS
  <2> HIDE DEF block, S, q, last
  <2>2. f \in [1 .. q + p -> S] /\ q + p \in Nat /\ q + p + 1 \in Nat
    BY <1>1, <2>1
  <2>3. f \in Seq(S) /\ Len(f) = q + p
    <3> HIDE DEF f
    <3> QED BY <2>2, IsASeq, LenProperties
  <2> QED BY <1>2, <2>1, <2>2, <2>3
<1>4. Append(f, last) = [b \in 1 .. q + (p + 1) |-> block(b)]
  <2> DEFINE a == Append(f, last)
             g == [b \in 1 .. q + (p + 1) |-> block(b)]
  <2> HIDE DEF block, S, q, last
  <2>1. /\ a \in Seq(S) /\ Len(a) = q + p + 1
        /\ \A b \in 1 .. q + p : a[b] = f[b]
        /\ a[q + p + 1] = last
    <3> HIDE DEF f
    <3> QED BY <1>1, <1>3, AppendProperties
  <2>2. a = [b \in 1 .. q + (p + 1) |-> a[b]]
    <3>1. q + (p + 1) = q + p + 1
      BY <1>1
    <3> HIDE DEF a
    <3> QED BY <2>1, <3>1, LenProperties
  <2>3. \A b \in 1 .. q + (p + 1) : a[b] = g[b]
    <3> TAKE b \in 1 .. q + (p + 1)
    <3>1. CASE b = q + p + 1
      BY <1>2, <2>1, <3>1
    <3>2. CASE b # q + p + 1
      <4>1. b \in 1 .. q + p
        BY <1>1, <3>2
      <4> QED BY <2>1, <4>1
    <3> QED BY <3>1, <3>2
  <2>4. a = g
    <3> HIDE DEF a
    <3> QED BY <2>2, <2>3
  <2> QED BY <2>4
<1>5. Sealed(len, p) = [perms |-> f, lanes |-> last]
  BY DEF Sealed
<1>6. Sealed(len, p + 1) = [perms |-> [b \in 1 .. q + (p + 1) |-> block(b)], lanes |-> Zero]
  <2>1. p + 1 # 0
    OBVIOUS
  <2> QED BY <2>1 DEF Sealed
<1>7. StatePermute(Sealed(len, p)) = [perms |-> Append(f, last), lanes |-> Zero]
  <2> HIDE DEF f, last
  <2> QED BY <1>5 DEF StatePermute
<1> HIDE DEF f, last, block, q
<1> QED BY <1>4, <1>6, <1>7, Zenon

(* Reading from offset off on after the p-th permutation gives the bytes   *)
(* of the sponge from R * (p - 1) + off on.                                *)
LEMMA ExtractSealed ==
  ASSUME NEW len \in Nat, NEW p \in Nat, NEW off \in Nat, NEW k \in Nat, off + k <= R
  PROVE  ExtractBytes(Sealed(len, p + 1), off, k) = Chunk(len, R * p + off, k)
<1> SUFFICES ASSUME NEW i \in 1 .. k
             PROVE  [perms  |-> Sealed(len, p + 1).perms,
                     xored  |-> Sealed(len, p + 1).lanes[off + i - 1],
                     offset |-> off + i - 1] = Byte(len, R * p + off + i - 1)
  BY DEF ExtractBytes, Chunk
<1> DEFINE o == off + i - 1
<1>1. o \in Offset /\ R * p \in Nat
  BY RateAssumption, Products DEF Offset
<1>2. R * p + off + i - 1 = R * p + o /\ R * p + o \in Nat
  BY <1>1 DEF Offset
<1>3. Sealed(len, p + 1).lanes[o] = {}
  <2>1. Sealed(len, p + 1).lanes = Zero
    BY DEF Sealed
  <2> HIDE DEF o
  <2> QED BY <1>1, <2>1 DEF Zero
<1> HIDE DEF o
<1>4. (R * p + o) \div R = p /\ (R * p + o) % R = o
  BY <1>1, DivMod
<1>5. Byte(len, R * p + o)
      = [perms |-> Sealed(len, p + 1).perms, xored |-> {}, offset |-> o]
  BY <1>2, <1>4, ByteIs
<1> QED BY <1>2, <1>3, <1>5 DEF o

(* Such bytes behind the output so far.                                    *)
LEMMA HandOut ==
  ASSUME NEW len \in Nat, NEW p \in Nat, NEW off \in Nat, NEW k \in Nat, off + k <= R,
         NEW h \in Seq(Bytes(len)), Len(h) = R * p + off
  PROVE  /\ ExtractBytes(Sealed(len, p + 1), off, k) = Chunk(len, Len(h), k)
         /\ h \o Chunk(len, Len(h), k) \in Seq(Bytes(len))
         /\ Len(h \o Chunk(len, Len(h), k)) = Len(h) + k
<1> DEFINE x == Chunk(len, Len(h), k)
<1>1. Len(h) \in Nat
  BY LenProperties
<1>2. ExtractBytes(Sealed(len, p + 1), off, k) = x
  BY ExtractSealed
<1>3. x \in Seq(Bytes(len)) /\ Len(x) = k
  <2>1. ASSUME NEW i \in 1 .. k PROVE Byte(len, Len(h) + i - 1) \in Bytes(len)
    <3>1. Len(h) + i - 1 \in Nat
      BY <1>1
    <3> QED BY <3>1 DEF Bytes
  <2>2. x \in [1 .. k -> Bytes(len)]
    BY <2>1 DEF Chunk
  <2> HIDE DEF x
  <2> QED BY <2>2, IsASeq, LenProperties
<1> HIDE DEF x
<1>4. h \o x \in Seq(Bytes(len)) /\ Len(h \o x) = Len(h) + k
  BY <1>3, ConcatProperties
<1> QED BY <1>2, <1>4 DEF x

--------------------------------------------------------------------------------
(* What a user of the sponge sees of a step.                               *)

Hidden   == UNCHANGED <<Absorbing, Taken, out>>
Restarts == Absorbing' /\ Taken' = 0 /\ out' = << >>
TakesIn  == Absorbing /\ Absorbing' /\ Taken' \in Nat /\ Taken' >= Taken /\ out' = out
Seals    == Absorbing /\ ~ Absorbing' /\ Taken' = Taken /\ out' = out
HandsOut == /\ ~ Absorbing /\ ~ Absorbing' /\ Taken' = Taken
            /\ \E k \in 0 .. R : out' = out \o Chunk(Taken, Len(out), k)
Visible  == Hidden \/ Restarts \/ TakesIn \/ Seals \/ HandsOut

LEMMA VisibleSimulates == Visible => [Promise!SpongeNext]_(Promise!spongeVars)
<1>1. Hidden => UNCHANGED Promise!spongeVars
  BY DEF Hidden, Promise!spongeVars, Absorbing, Taken
<1>2. Restarts => Promise!Restart
  BY DEF Restarts, Promise!Restart, Absorbing, Taken
<1>3. TakesIn => Promise!Absorb
  BY DEF TakesIn, Promise!Absorb, Absorbing, Taken
<1>4. Seals => Promise!Seal
  BY DEF Seals, Promise!Seal, Absorbing, Taken
<1>5. HandsOut => Promise!Squeeze
  BY DEF HandsOut, Promise!Squeeze, Absorbing, Taken, Chunk, Byte
<1> QED BY <1>1, <1>2, <1>3, <1>4, <1>5 DEF Visible, Promise!SpongeNext

LEMMA InitCorresponds == Init => Corresponds /\ Promise!SpongeInit
BY DEF Init, Corresponds, Promise!SpongeInit, Absorbing

(* Handing out bytes that are left of the last block.                      *)
LEMMA ReadsLeft ==
  ASSUME NEW len \in Nat, NEW st, NEW h, NEW left \in 0 .. R, NEW k \in 0 .. left,
         Reading(len, st, h, left)
  PROVE  LET new == h \o ExtractBytes(st, R - left, k) IN
           /\ new = h \o Chunk(len, Len(h), k)
           /\ Reading(len, st, new, left - k)
<1>0. R \in Nat /\ R > 0 /\ left \in Nat /\ k \in Nat /\ R - left \in Nat
  BY RateAssumption
<1>1. PICK p \in Nat : st = Sealed(len, p) /\ Len(h) + left = R * p
  BY DEF Reading
<1>2. h \in Seq(Bytes(len)) /\ Len(h) \in Nat
  BY LenProperties DEF Reading
<1>3. CASE p = 0
  <2>1. R * p = 0 /\ left = 0 /\ k = 0
    BY <1>0, <1>1, <1>2, <1>3
  <2>2. ExtractBytes(st, R - left, k) = Chunk(len, Len(h), k)
    BY <2>1 DEF ExtractBytes, Chunk
  <2>3. Chunk(len, Len(h), k) = << >>
    BY <2>1 DEF Chunk
  <2>4. h \o Chunk(len, Len(h), k) = h
    BY <1>2, <2>3, ConcatEmptySeq
  <2>5. left - k = left
    BY <2>1
  <2> QED BY <2>2, <2>4, <2>5
<1>4. CASE p # 0
  <2>1. PICK r \in Nat : p = r + 1
    <3>1. p - 1 \in Nat /\ p = (p - 1) + 1
      BY <1>4
    <3> QED BY <3>1
  <2>2. R * p = R * r + R /\ R * r \in Nat
    BY <2>1, Products
  <2>3. PICK off \in Nat : off = R - left
    BY <1>0
  <2>a. Len(h) = R * r + off /\ off + k <= R
    BY <1>0, <1>1, <1>2, <2>2, <2>3
  <2>4. /\ ExtractBytes(Sealed(len, r + 1), off, k) = Chunk(len, Len(h), k)
        /\ h \o Chunk(len, Len(h), k) \in Seq(Bytes(len))
        /\ Len(h \o Chunk(len, Len(h), k)) = Len(h) + k
    <3>1. /\ len \in Nat /\ r \in Nat /\ off \in Nat /\ k \in Nat /\ off + k <= R
          /\ h \in Seq(Bytes(len)) /\ Len(h) = R * r + off
      BY <1>0, <1>2, <2>1, <2>3, <2>a
    <3> QED BY ONLY <3>1, HandOut
  <2> DEFINE new == h \o ExtractBytes(st, R - left, k)
  <2>5. /\ new = h \o Chunk(len, Len(h), k)
        /\ new \in Seq(Bytes(len))
        /\ Len(new) = Len(h) + k
    BY <1>1, <2>1, <2>3, <2>4
  <2> HIDE DEF new
  <2>6. Len(new) + (left - k) = R * p
    <3>1. (Len(h) + k) + (left - k) = Len(h) + left
      BY <1>0, <1>2
    <3> QED BY <1>1, <2>5, <3>1
  <2>7. Reading(len, st, new, left - k)
    BY <1>1, <2>5, <2>6 DEF Reading
  <2> QED BY <2>5, <2>7 DEF new
<1> QED BY <1>3, <1>4

(* Another permutation when nothing is left.                               *)
LEMMA ReadsNext ==
  ASSUME NEW len \in Nat, NEW st, NEW h, NEW k \in 0 .. R, Reading(len, st, h, 0)
  PROVE  LET new == h \o ExtractBytes(StatePermute(st), 0, k) IN
           /\ new = h \o Chunk(len, Len(h), k)
           /\ Reading(len, StatePermute(st), new, R - k)
<1>0. R \in Nat /\ R > 0 /\ k \in Nat
  BY RateAssumption
<1>1. PICK p \in Nat : st = Sealed(len, p) /\ Len(h) + 0 = R * p
  BY DEF Reading
<1>2. h \in Seq(Bytes(len)) /\ Len(h) \in Nat
  BY LenProperties DEF Reading
<1>3. StatePermute(st) = Sealed(len, p + 1) /\ p + 1 \in Nat
  BY <1>1, PermuteSealed
<1>4. R * (p + 1) = R * p + R /\ R * p \in Nat
  BY Products
<1>5. Reading(len, StatePermute(st), h, R)
  <2>1. Len(h) + R = R * (p + 1)
    BY <1>0, <1>1, <1>2, <1>4
  <2> QED BY <1>2, <1>3, <2>1 DEF Reading
<1>6. R \in 0 .. R /\ k \in 0 .. R /\ R - R = 0
  BY <1>0
<1> DEFINE st2 == StatePermute(st)
<1> HIDE DEF st2
<1>7. LET new == h \o ExtractBytes(st2, R - R, k) IN
        /\ new = h \o Chunk(len, Len(h), k)
        /\ Reading(len, st2, new, R - k)
  BY <1>5, <1>6, ReadsLeft DEF st2
<1> QED BY <1>6, <1>7 DEF st2

--------------------------------------------------------------------------------
(* The incremental API, call by call.                                      *)
LEMMA IncCorresponds ==
  ASSUME IInv, Corresponds, IncCalls
  PROVE  Corresponds' /\ Visible
<1>0. R \in Nat /\ R > 0 /\ MaxMsg \in Nat /\ MaxOut \in Nat
  BY RateAssumption, BoundsAssumption
<1>a. /\ TypeOK /\ Contract /\ RoomForPadding
      /\ s25 \in Nat /\ m \in Nat /\ mlen \in Nat
  BY DEF IInv, TypeOK
<1>1. CASE IncInit
  <2>1. s' = Fed(0, 0) /\ 0 = R * 0
    <3>1. Zero = Prefix(R * 0, 0) /\ 0 = R * 0
      BY Products, ZeroIsPrefix
    <3> QED BY <1>1, <3>1 DEF IncInit, ZeroState, Fed
  <2>2. Restarts /\ pc' = "idle" /\ phase' = "absorb" /\ m' = 0 /\ s25' = 0
    BY <1>1 DEF IncInit, Restarts, Absorbing, Taken
  <2>3. \E q \in Nat : m' = R * q + s25' /\ s' = Fed(q, s25')
    <3>1. m' = R * 0 + s25' /\ s' = Fed(0, s25')
      BY <2>1, <2>2
    <3> QED BY <3>1
  <2>4. Corresponds'
    BY <2>2, <2>3 DEF Corresponds, Restarts
  <2> QED BY <2>2, <2>4 DEF Visible
<1>2. ASSUME NEW len \in 0 .. MaxMsg, AbsorbCall(len) PROVE Corresponds' /\ Visible
  <2>1. Hidden
    BY <1>2 DEF AbsorbCall, Hidden, Absorbing, Taken
  <2>2. Corresponds'
    BY <1>2 DEF AbsorbCall, Corresponds, Absorbing
  <2> QED BY <2>1, <2>2 DEF Visible
<1>3. CASE AbsorbBlock
  <2>1. phase = "absorb" /\ pc = "absorb"
    BY <1>3, <1>a DEF AbsorbBlock, Contract
  <2>2. s25 < R
    BY <1>a, <2>1 DEF RoomForPadding
  <2>3. PICK q \in Nat : m = R * q + s25 /\ s = Fed(q, s25)
    BY <2>1 DEF Corresponds
  <2>4. R * q \in Nat /\ R * (q + 1) = R * q + R
    BY Products
  <2>5. PICK taken \in Nat : taken = R - s25 /\ s25 + taken = R
    <3>1. R - s25 \in Nat /\ s25 + (R - s25) = R
      BY <1>0, <1>a, <2>2
    <3> QED BY <3>1
  <2>6. XORBytes(s, m, s25, taken) = Fed(q, R)
    BY <1>0, <1>a, <2>3, <2>5, FeedBytes
  <2>7. s' = Fed(q + 1, 0)
    BY <1>3, <2>5, <2>6, PermuteFed DEF AbsorbBlock
  <2>8. m' = R * (q + 1) + s25' /\ s25' = 0 /\ m' \in Nat /\ m' >= m
    BY <1>0, <1>3, <1>a, <2>2, <2>3, <2>4 DEF AbsorbBlock
  <2>9. TakesIn
    BY <1>3, <2>1, <2>8 DEF TakesIn, AbsorbBlock, Absorbing, Taken
  <2>10. Corresponds'
    BY <1>3, <2>1, <2>7, <2>8 DEF Corresponds, AbsorbBlock, Absorbing
  <2> QED BY <2>9, <2>10 DEF Visible
<1>4. CASE AbsorbRest
  <2>1. phase = "absorb" /\ pc = "absorb" /\ s25 + mlen < R
    <3>1. phase = "absorb" /\ pc = "absorb"
      BY <1>4, <1>a DEF AbsorbRest, Contract
    <3>2. ~ (mlen + s25 >= R)
      BY <1>4 DEF AbsorbRest, MoreBlocks
    <3> QED BY <1>0, <1>a, <3>1, <3>2
  <2>2. PICK q \in Nat : m = R * q + s25 /\ s = Fed(q, s25)
    BY <2>1 DEF Corresponds
  <2>3. s' = Fed(q, s25')
    <3>1. s25 + mlen <= R
      BY <1>0, <1>a, <2>1
    <3>2. XORBytes(s, m, s25, mlen) = Fed(q, s25 + mlen)
      BY <1>a, <2>2, <3>1, FeedBytes
    <3> QED BY <1>4, <3>2 DEF AbsorbRest
  <2>4. m' = R * q + s25' /\ m' \in Nat /\ m' >= m
    <3>1. R * q \in Nat
      BY Products
    <3> QED BY <1>4, <1>a, <2>2, <3>1 DEF AbsorbRest
  <2>5. TakesIn
    BY <1>4, <2>1, <2>4 DEF TakesIn, AbsorbRest, Absorbing, Taken
  <2>6. Corresponds'
    BY <1>4, <2>1, <2>3, <2>4 DEF Corresponds, AbsorbRest, Absorbing
  <2> QED BY <2>5, <2>6 DEF Visible
<1>5. CASE Finalize
  <2>1. phase = "absorb" /\ pc = "idle" /\ s25 \in Offset
    BY <1>0, <1>5, <1>a DEF Finalize, RoomForPadding, Offset
  <2>2. PICK q \in Nat : m = R * q + s25 /\ s = Fed(q, s25)
    BY <2>1 DEF Corresponds
  <2>3. s' = Sealed(m, 0)
    BY <1>5, <2>1, <2>2, PadFed DEF Finalize
  <2>4. out' = << >> /\ R * 0 = 0
    BY <1>5, <2>1, Products DEF Finalize, Corresponds, Absorbing
  <2>5. Seals /\ Taken' = m /\ Left' = 0 /\ ~ Absorbing'
    BY <1>5, <2>1 DEF Seals, Finalize, Absorbing, Taken, Left
  <2>6. Reading(m, s', out', 0)
    <3>1. << >> \in Seq(Bytes(m)) /\ Len(<< >>) + 0 = R * 0
      BY <2>4
    <3> QED BY <2>3, <2>4, <3>1 DEF Reading
  <2>7. Corresponds'
    BY <1>5, <2>1, <2>5, <2>6 DEF Corresponds, Finalize
  <2> QED BY <2>5, <2>7 DEF Visible
<1>6. ASSUME NEW outlen \in 0 .. MaxOut, SqueezeCall(outlen) PROVE Corresponds' /\ Visible
  <2>1. phase = "squeeze" /\ pc = "idle" /\ ~ Absorbing /\ Taken = m /\ Left = s25
    BY <1>6 DEF SqueezeCall, Absorbing, Taken, Left
  <2>2. PICK k \in 0 .. s25 : k = Smaller(outlen, s25)
    BY <1>0, <1>a DEF Smaller
  <2>3. s25 \in 0 .. R /\ k \in 0 .. R /\ Reading(m, s, out, s25)
    BY <1>0, <1>a, <2>1 DEF RoomForPadding, Corresponds
  <2>4. /\ out' = out \o Chunk(m, Len(out), k)
        /\ Reading(m, s, out', s25 - k)
    <3>1. out' = out \o ExtractBytes(s, R - s25, k)
      BY <1>6, <2>2 DEF SqueezeCall
    <3> QED BY <1>a, <2>2, <2>3, <3>1, ReadsLeft
  <2>5. /\ phase' = "squeeze" /\ pc' = "squeeze" /\ s' = s /\ m' = m
        /\ s25' = s25 - k /\ mlen' = outlen - k
    BY <1>6, <2>1, <2>2 DEF SqueezeCall
  <2>6. ~ Absorbing' /\ Taken' = m /\ Left' = s25'
    BY <2>5 DEF Absorbing, Taken, Left
  <2>7. mlen' > 0 => s25' = 0
    BY <1>0, <1>a, <2>2, <2>5 DEF Smaller
  <2>8. HandsOut
    BY <2>1, <2>3, <2>4, <2>6 DEF HandsOut
  <2>9. Corresponds'
    BY <2>4, <2>5, <2>6, <2>7 DEF Corresponds
  <2> QED BY <2>8, <2>9 DEF Visible
<1>7. CASE SqueezeBlock
  <2>1. /\ phase = "squeeze" /\ pc = "squeeze" /\ mlen > 0
        /\ ~ Absorbing /\ Taken = m /\ Left = s25
    BY <1>7, <1>a DEF SqueezeBlock, Contract, Absorbing, Taken, Left
  <2>2. Reading(m, s, out, 0)
    BY <2>1 DEF Corresponds
  <2>3. PICK k \in 0 .. R : k = Smaller(mlen, R)
    BY <1>0, <1>a DEF Smaller
  <2>4. /\ out' = out \o Chunk(m, Len(out), k)
        /\ Reading(m, StatePermute(s), out', R - k)
    BY <1>7, <1>a, <2>2, <2>3, ReadsNext DEF SqueezeBlock
  <2>5. /\ phase' = "squeeze" /\ pc' = "squeeze" /\ s' = StatePermute(s) /\ m' = m
        /\ s25' = R - k /\ mlen' = mlen - k
    BY <1>7, <2>1, <2>3 DEF SqueezeBlock
  <2>6. ~ Absorbing' /\ Taken' = m /\ Left' = s25'
    BY <2>5 DEF Absorbing, Taken, Left
  <2>7. mlen' > 0 => s25' = 0
    BY <1>0, <1>a, <2>3, <2>5 DEF Smaller
  <2>8. HandsOut
    BY <2>1, <2>3, <2>4, <2>6 DEF HandsOut
  <2>9. Corresponds'
    BY <2>4, <2>5, <2>6, <2>7 DEF Corresponds
  <2> QED BY <2>8, <2>9 DEF Visible
<1>8. CASE SqueezeReturn
  <2>1. phase = "squeeze" /\ pc = "squeeze"
    BY <1>8, <1>a DEF SqueezeReturn, Contract
  <2>2. Hidden /\ Corresponds'
    BY <1>8, <2>1 DEF SqueezeReturn, Hidden, Absorbing, Taken, Corresponds, Left
  <2> QED BY <2>2 DEF Visible
<1> QED
  BY <1>1, <1>2, <1>3, <1>4, <1>5, <1>6, <1>7, <1>8 DEF IncCalls

(* The block API, call by call.                                            *)
LEMMA BlocksCorrespond ==
  ASSUME IInv, Corresponds, BlockCalls
  PROVE  Corresponds' /\ Visible
<1>0. R \in Nat /\ R > 0 /\ MaxMsg \in Nat
  BY RateAssumption, BoundsAssumption
<1>a. /\ TypeOK /\ Contract
      /\ m \in Nat /\ mlen \in Nat /\ nblocks \in Nat
  BY DEF IInv, TypeOK
<1>1. ASSUME NEW len \in 0 .. MaxMsg, ShakeAbsorb(len) PROVE Corresponds' /\ Visible
  <2>1. s' = Fed(0, 0) /\ 0 = R * 0
    <3>1. Zero = Prefix(R * 0, 0) /\ 0 = R * 0
      BY Products, ZeroIsPrefix
    <3> QED BY <1>1, <3>1 DEF ShakeAbsorb, EnterAbsorb, ZeroState, Fed
  <2>2. Restarts /\ pc' = "absorb_blocks" /\ phase' = "blocks" /\ m' = 0
    BY <1>1 DEF ShakeAbsorb, EnterAbsorb, Restarts, Absorbing, Taken
  <2>3. \E q \in Nat : m' = R * q /\ s' = Fed(q, 0)
    BY <2>1, <2>2
  <2>4. Corresponds'
    BY <2>2, <2>3 DEF Corresponds, Restarts
  <2> QED BY <2>2, <2>4 DEF Visible
<1>2. CASE AbsorbWholeBlock
  <2>1. phase = "blocks" /\ pc = "absorb_blocks"
    BY <1>2, <1>a DEF AbsorbWholeBlock, Contract
  <2>2. PICK q \in Nat : m = R * q /\ s = Fed(q, 0)
    BY <2>1 DEF Corresponds
  <2>3. R * q \in Nat /\ R * (q + 1) = R * q + R
    BY Products
  <2>4. XORBytes(s, m, 0, R) = Fed(q, R)
    <3>1. 0 + R <= R /\ R * q + 0 = m /\ 0 + R = R
      BY <1>0, <1>a, <2>2
    <3>2. XORBytes(Fed(q, 0), R * q + 0, 0, R) = Fed(q, 0 + R)
      BY <1>0, <3>1, FeedBytes
    <3> QED BY <2>2, <3>1, <3>2
  <2>5. s' = Fed(q + 1, 0)
    BY <1>2, <2>4, PermuteFed DEF AbsorbWholeBlock
  <2>6. m' = R * (q + 1) /\ m' \in Nat /\ m' >= m
    BY <1>0, <1>2, <1>a, <2>2, <2>3 DEF AbsorbWholeBlock
  <2>7. TakesIn
    BY <1>2, <2>1, <2>6 DEF TakesIn, AbsorbWholeBlock, Absorbing, Taken
  <2>8. Corresponds'
    BY <1>2, <2>1, <2>5, <2>6 DEF Corresponds, AbsorbWholeBlock, Absorbing
  <2> QED BY <2>7, <2>8 DEF Visible
<1>3. CASE AbsorbTail
  <2>1. phase = "blocks" /\ pc = "absorb_blocks" /\ mlen < R
    <3>1. phase = "blocks" /\ pc = "absorb_blocks"
      BY <1>3, <1>a DEF AbsorbTail, Contract
    <3>2. ~ (mlen >= R)
      BY <1>3 DEF AbsorbTail, BlocksLeft
    <3> QED BY <1>0, <1>a, <3>1, <3>2
  <2>2. PICK q \in Nat : m = R * q /\ s = Fed(q, 0)
    BY <2>1 DEF Corresponds
  <2>3. s' = Fed(q, mlen)
    <3>1. CASE mlen = 0
      BY <1>3, <2>2, <3>1 DEF AbsorbTail
    <3>2. CASE mlen > 0
      <4>1. 0 + mlen <= R /\ R * q + 0 = m /\ 0 + mlen = mlen
        BY <1>0, <1>a, <2>1, <2>2
      <4>2. XORBytes(Fed(q, 0), R * q + 0, 0, mlen) = Fed(q, 0 + mlen)
        BY <1>a, <4>1, FeedBytes
      <4> QED BY <1>3, <2>2, <3>2, <4>1, <4>2 DEF AbsorbTail
    <3> QED BY <1>a, <3>1, <3>2
  <2>4. TakesIn
    BY <1>3, <1>a, <2>1 DEF TakesIn, AbsorbTail, Absorbing, Taken
  <2>5. Corresponds'
    BY <1>3, <2>1, <2>2, <2>3 DEF Corresponds, AbsorbTail, Absorbing
  <2> QED BY <2>4, <2>5 DEF Visible
<1>4. CASE Pad
  <2>1. phase = "blocks" /\ pc = "pad" /\ mlen \in Offset
    BY <1>0, <1>4, <1>a DEF Pad, Contract, Offset
  <2>2. PICK q \in Nat : m = R * q /\ s = Fed(q, mlen)
    BY <2>1 DEF Corresponds
  <2>3. s' = Sealed(m + mlen, 0)
    BY <1>4, <2>1, <2>2, PadFed DEF Pad
  <2>4. out' = << >> /\ R * 0 = 0
    BY <1>4, <2>1, Products DEF Pad, Corresponds, Absorbing
  <2>5. Seals /\ Taken' = m + mlen /\ Left' = 0 /\ ~ Absorbing'
    BY <1>4, <2>1 DEF Seals, Pad, Absorbing, Taken, Left
  <2>6. Reading(m + mlen, s', out', 0)
    <3>1. << >> \in Seq(Bytes(m + mlen)) /\ Len(<< >>) + 0 = R * 0
      BY <2>4
    <3> QED BY <2>3, <2>4, <3>1 DEF Reading
  <2>7. Corresponds'
    BY <1>4, <2>1, <2>5, <2>6 DEF Corresponds, Pad
  <2> QED BY <2>5, <2>7 DEF Visible
<1>5. ASSUME NEW n \in 0 .. MaxBlocks, SqueezeBlocks(n) PROVE Corresponds' /\ Visible
  <2>1. Hidden /\ Corresponds'
    BY <1>5 DEF SqueezeBlocks, Hidden, Absorbing, Taken, Corresponds, Left
  <2> QED BY <2>1 DEF Visible
<1>6. CASE SqueezeNextBlock
  <2>1. /\ phase = "blocks" /\ pc = "squeeze_blocks"
        /\ ~ Absorbing /\ Taken = m + mlen /\ Left = 0
    BY <1>6, <1>a DEF SqueezeNextBlock, Contract, Absorbing, Taken, Left
  <2>2. Reading(Taken, s, out, 0) /\ Taken \in Nat /\ R \in 0 .. R /\ R - R = 0
    BY <1>0, <1>a, <2>1 DEF Corresponds
  <2>3. out' = out \o ExtractBytes(StatePermute(s), 0, R) /\ s' = StatePermute(s)
    BY <1>6 DEF SqueezeNextBlock
  <2>4. /\ out' = out \o Chunk(Taken, Len(out), R)
        /\ Reading(Taken, StatePermute(s), out', 0)
    BY <2>2, <2>3, ReadsNext
  <2>5. /\ ~ Absorbing' /\ Taken' = Taken /\ Left' = 0
        /\ phase' = "blocks" /\ pc' = "squeeze_blocks"
    BY <1>6, <2>1 DEF SqueezeNextBlock, Absorbing, Taken, Left
  <2>6. HandsOut
    BY <2>1, <2>2, <2>4, <2>5 DEF HandsOut
  <2>7. Corresponds'
    BY <2>3, <2>4, <2>5 DEF Corresponds
  <2> QED BY <2>6, <2>7 DEF Visible
<1>7. CASE SqueezeBlocksReturn
  <2>1. phase = "blocks" /\ pc = "squeeze_blocks"
    BY <1>7, <1>a DEF SqueezeBlocksReturn, Contract
  <2>2. Hidden /\ Corresponds'
    BY <1>7, <2>1 DEF SqueezeBlocksReturn, Hidden, Absorbing, Taken, Corresponds, Left
  <2> QED BY <2>2 DEF Visible
<1> QED
  BY <1>1, <1>2, <1>3, <1>4, <1>5, <1>6, <1>7 DEF BlockCalls

LEMMA NextCorresponds ==
  IInv /\ Corresponds /\ [Next]_keccakVars
    => Corresponds' /\ [Promise!SpongeNext]_(Promise!spongeVars)
<1>1. ASSUME IInv, Corresponds, UNCHANGED keccakVars PROVE Corresponds' /\ Visible
  BY <1>1 DEF keccakVars, vars, Corresponds, Visible, Hidden, Absorbing, Taken, Left
<1> QED BY <1>1, IncCorresponds, BlocksCorrespond, VisibleSimulates DEF Next

(* fips202.c, either API, any cut of input and output into calls: what the *)
(* callers get is the output of the one sponge over the whole message.     *)
THEOREM KeccakIsSponge == Spec => ImplementsSponge
<1> QED
  BY Invariance, InitCorresponds, NextCorresponds, PTL
     DEF Spec, ImplementsSponge, Promise!SpongeSpec
================================================================================
