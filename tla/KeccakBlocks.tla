------------------------------ MODULE KeccakBlocks -----------------------------
(***************************************************************************)
(* The block API behind the matrix generator, shake128_absorb (which       *)
(* zeroes the context and calls keccak_absorb) and shake128_squeezeblocks  *)
(* (keccak_squeezeblocks), next to the incremental one of KeccakInc: one   *)
(* piece of stack memory that starts with anything in it and holds         *)
(* contexts of either kind in turn.                                        *)
(***************************************************************************)
EXTENDS KeccakInc

CONSTANT MaxBlocks    (* bound: blocks squeezed per context                *)

ASSUME BlocksAssumption == MaxBlocks \in Nat

VARIABLE nblocks      (* the argument nblocks                              *)

keccakVars == <<vars, nblocks>>

(* No context yet: the words are zeros or not, the 26th is any number that *)
(* could stand in for a byte count.                                        *)
Init == /\ pc = "idle" /\ phase = "none"
        /\ s \in {ZeroState, StaleState} /\ s25 \in 0 .. R
        /\ m = 0 /\ mlen = 0 /\ nblocks = 0 /\ out = << >>

(* keccak_absorb(s, r, m, len, p) entered on whatever state holds.  Such a *)
(* context has no 26th word: what an earlier one left there stays.         *)
EnterAbsorb(state, len) ==
  /\ pc = "idle"
  /\ pc' = "absorb_blocks" /\ phase' = "blocks"
  /\ s' = state
  /\ m' = 0 /\ mlen' = len
  /\ nblocks' = 0 /\ out' = << >>
  /\ UNCHANGED s25

BugShakeAbsorb(len) == EnterAbsorb(s, len)     \* mutant: no zeroing loop
ShakeAbsorb(len) == EnterAbsorb(ZeroState, len)

BlocksLeft == mlen >= R

AbsorbWholeBlock ==
  /\ pc = "absorb_blocks"
  /\ BlocksLeft
  /\ s' = StatePermute(XORBytes(s, m, 0, R))
  /\ mlen' = mlen - R
  /\ m' = m + R
  /\ UNCHANGED <<pc, phase, s25, nblocks, out>>

AbsorbTail ==
  /\ pc = "absorb_blocks"
  /\ ~ BlocksLeft
  /\ s' = IF mlen > 0 THEN XORBytes(s, m, 0, mlen) ELSE s
  /\ pc' = "pad"
  /\ UNCHANGED <<phase, s25, m, mlen, nblocks, out>>

Pad ==
  /\ pc = "pad"
  /\ s' = XORPadding(s, mlen)
  /\ pc' = "idle"
  /\ UNCHANGED <<phase, s25, m, mlen, nblocks, out>>

SqueezeBlocks(n) ==
  /\ pc = "idle" /\ phase = "blocks"
  /\ Len(out) + R * n <= R * MaxBlocks
  /\ nblocks' = n
  /\ pc' = "squeeze_blocks"
  /\ UNCHANGED <<phase, s, s25, m, mlen, out>>

SqueezeNextBlock ==
  /\ pc = "squeeze_blocks"
  /\ nblocks > 0
  /\ s' = StatePermute(s)
  /\ out' = out \o ExtractBytes(s', 0, R)
  /\ nblocks' = nblocks - 1
  /\ UNCHANGED <<pc, phase, s25, m, mlen>>

SqueezeBlocksReturn ==
  /\ pc = "squeeze_blocks"
  /\ nblocks = 0
  /\ pc' = "idle"
  /\ UNCHANGED <<phase, s, s25, m, mlen, nblocks, out>>

BlockCalls == \/ \E len \in 0 .. MaxMsg : ShakeAbsorb(len)
              \/ AbsorbWholeBlock \/ AbsorbTail \/ Pad
              \/ \E n \in 0 .. MaxBlocks : SqueezeBlocks(n)
              \/ SqueezeNextBlock \/ SqueezeBlocksReturn

Next == (IncCalls /\ UNCHANGED nblocks) \/ BlockCalls

Spec == Init /\ [][Next]_keccakVars

--------------------------------------------------------------------------------
(* The shape of the context and of the call in progress.                   *)
TypeOK ==
  /\ pc \in {"idle", "absorb", "squeeze", "absorb_blocks", "pad", "squeeze_blocks"}
  /\ phase \in {"none", "absorb", "squeeze", "blocks"}
  /\ s \in [perms : Seq(Lanes), lanes : Lanes]
  /\ s25 \in Nat /\ m \in Nat /\ mlen \in Nat /\ nblocks \in Nat

(* The claim finalize relies on ("we are guaranteed that s_inc[25] < r, so *)
(* we can always use one more byte for p"), after any history of calls, in *)
(* the middle of a call and while squeezing, where an s_inc[25] of r or    *)
(* more would make r - s_inc[25] point before the state.                   *)
RoomForPadding == phase \in {"absorb", "squeeze"} => s25 < R

(* While absorbing, the state is exactly the message so far: all blocks    *)
(* before m are under the permutation and byte i of the unfinished block   *)
(* sits at offset i, once, with zeros behind it.  A chunk boundary that    *)
(* dropped, repeated or shifted a byte would break this, and so would a    *)
(* word of what the memory held before.                                    *)
Absorbed ==
  phase = "absorb" =>
    /\ m = R * Len(s.perms) + s25
    /\ s.lanes = [o \in Offset |-> IF o < s25 THEN {R * Len(s.perms) + o} ELSE {}]

(* "starts by zeroeing the state", "(uninitialized) output Keccak state"   *)
(* (fips202.c, keccak_absorb) is what shake128_absorb does: once the loop  *)
(* is over the state is made of message bytes and nothing of what the      *)
(* memory held before, be it rubbish or a context of the other kind.       *)
StartsFromZero ==
  (phase = "blocks" /\ pc # "absorb_blocks") =>
                  \A o \in Offset :
                    /\ Stale \notin s.lanes[o]
                    /\ \A b \in DOMAIN s.perms : Stale \notin s.perms[b][o]

(* Every output byte is the byte of the one sponge over the whole message: *)
(* how the caller cuts input and output into calls does not show, nor      *)
(* which of the two APIs it uses, nor what the memory was used for before. *)
Promise == INSTANCE Sponge WITH
             phase <- IF phase \in {"none", "absorb"} \/ pc \in {"absorb_blocks", "pad"}
                        THEN "absorb" ELSE "squeeze",
             n <- IF phase = "blocks" /\ pc # "absorb_blocks" THEN m + mlen ELSE m

ImplementsSponge == Promise!SpongeSpec
================================================================================
