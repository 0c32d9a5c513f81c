------------------------------- MODULE KeccakInc -------------------------------
(***************************************************************************)
(* The incremental Keccak API of fips202.c (keccak_inc_init, _absorb,      *)
(* _finalize, _squeeze) driven by any caller that respects its contract:   *)
(* init, then absorbs, then finalize, then squeezes; a context may be      *)
(* initialised again at any time.  A call with a loop takes one step to    *)
(* enter, one per iteration and one to leave, so that its state between    *)
(* two iterations is checked too.  KeccakBlocks adds the calls on whole    *)
(* blocks, the initial states and what is promised of both.                *)
(***************************************************************************)
EXTENDS KeccakState

CONSTANTS MaxMsg,   (* bound: message bytes absorbed per context           *)
          MaxOut    (* bound: output bytes squeezed per context            *)

ASSUME BoundsAssumption == MaxMsg \in Nat /\ MaxOut \in Nat

VARIABLES
  pc,      (* "idle", or the loop the context is in: "absorb", "squeeze"   *)
  phase,   (* the caller's side of the contract: "absorb" or "squeeze"     *)
  s,       (* s_inc[0..24]: the 25 words both kinds of context begin with  *)
  s25,     (* s_inc[25]                                                    *)
  m,       (* the argument m: index of the next message byte to take       *)
  mlen,    (* the argument mlen of absorb, outlen of squeeze               *)
  out      (* every byte written to h so far                               *)

vars == <<pc, phase, s, s25, m, mlen, out>>

(***************************************************************************)
(* keccak_inc_init: whatever the context held before, it is empty now.     *)
(***************************************************************************)
BugIncInit == /\ pc = "idle"          \* mutant: s_inc[25] survives
              /\ s' = ZeroState
              /\ phase' = "absorb" /\ m' = 0 /\ out' = << >>
              /\ UNCHANGED <<pc, s25, mlen>>

IncInit == /\ pc = "idle"
           /\ s' = ZeroState
           /\ s25' = 0
           /\ phase' = "absorb" /\ m' = 0 /\ out' = << >>
           /\ UNCHANGED <<pc, mlen>>

(***************************************************************************)
(* keccak_inc_absorb(s_inc, r, m, len).                                    *)
(***************************************************************************)
AbsorbCall(len) ==
  /\ pc = "idle" /\ phase = "absorb"
  /\ m + len <= MaxMsg
  /\ pc' = "absorb" /\ mlen' = len
  /\ UNCHANGED <<phase, s, s25, m, out>>

BugMoreBlocks == mlen + s25 > R       \* mutant: off by one
MoreBlocks == mlen + s25 >= R

AbsorbBlock ==
  /\ pc = "absorb"
  /\ MoreBlocks
  /\ s' = StatePermute(XORBytes(s, m, s25, R - s25))
  /\ mlen' = mlen - (R - s25)
  /\ m' = m + (R - s25)
  /\ s25' = 0
  /\ UNCHANGED <<pc, phase, out>>

AbsorbRest ==
  /\ pc = "absorb"
  /\ ~ MoreBlocks
  /\ s' = XORBytes(s, m, s25, mlen)
  /\ s25' = s25 + mlen
  /\ m' = m + mlen /\ mlen' = 0     \* the call returns
  /\ pc' = "idle"
  /\ UNCHANGED <<phase, out>>

(***************************************************************************)
(* keccak_inc_finalize(s_inc, r, p).                                       *)
(***************************************************************************)
Finalize ==
  /\ pc = "idle" /\ phase = "absorb"
  /\ s' = XORPadding(s, s25)
  /\ s25' = 0
  /\ phase' = "squeeze"
  /\ UNCHANGED <<pc, m, mlen, out>>

(***************************************************************************)
(* keccak_inc_squeeze(h, len, s_inc, r): bytes left over from the last     *)
(* block first, then one permutation per further block or part of one.     *)
(***************************************************************************)
Smaller(a, b) == IF a < b THEN a ELSE b

BugSqueezeCall(outlen) ==             \* mutant: leftovers read from offset 0
  /\ pc = "idle" /\ phase = "squeeze"
  /\ Len(out) + outlen <= MaxOut
  /\ LET len == Smaller(outlen, s25) IN
       /\ out' = out \o ExtractBytes(s, 0, len)
       /\ mlen' = outlen - len
       /\ s25' = s25 - len
  /\ pc' = "squeeze"
  /\ UNCHANGED <<phase, s, m>>

SqueezeCall(outlen) ==
  /\ pc = "idle" /\ phase = "squeeze"
  /\ Len(out) + outlen <= MaxOut
  /\ LET len == Smaller(outlen, s25) IN
       /\ out' = out \o ExtractBytes(s, R - s25, len)
       /\ mlen' = outlen - len
       /\ s25' = s25 - len
  /\ pc' = "squeeze"
  /\ UNCHANGED <<phase, s, m>>

SqueezeBlock ==
  /\ pc = "squeeze"
  /\ mlen > 0
  /\ LET len == Smaller(mlen, R) IN
       /\ s' = StatePermute(s)
       /\ out' = out \o ExtractBytes(s', 0, len)
       /\ mlen' = mlen - len
       /\ s25' = R - len
  /\ UNCHANGED <<pc, phase, m>>

SqueezeReturn ==
  /\ pc = "squeeze"
  /\ mlen = 0
  /\ pc' = "idle"
  /\ UNCHANGED <<phase, s, s25, m, mlen, out>>

IncCalls == \/ IncInit
            \/ \E len \in 0 .. MaxMsg : AbsorbCall(len)
            \/ AbsorbBlock \/ AbsorbRest
            \/ Finalize
            \/ \E outlen \in 0 .. MaxOut : SqueezeCall(outlen)
            \/ SqueezeBlock \/ SqueezeReturn
================================================================================
