--------------------------------- MODULE Sponge --------------------------------
(***************************************************************************)
(* What fips202.c promises its callers: an extendable-output function.     *)
(* A caller feeds a message in pieces, seals it and reads the output in    *)
(* pieces; byte j of the output depends on the padded message and j only,  *)
(* never on how the message or the output was cut into calls.              *)
(***************************************************************************)
EXTENDS KeccakState

VARIABLES phase,   (* "absorb" or "squeeze"                                *)
          n,       (* message bytes taken in                               *)
          out      (* output bytes handed out, in order                    *)

spongeVars == <<phase, n, out>>

(* Block b (from 0) of the message of n bytes under the pad10*1 rule.      *)
PaddedBlock(len, b) ==
  [o \in Offset |->
     LET i == b * R + o IN
       (IF i < len THEN {i} ELSE {})
         \cup (IF i = len THEN {DomainByte} ELSE {})
         \cup (IF b = len \div R /\ o = R - 1 THEN {TopBit} ELSE {})]

(* All blocks go through the permutation; each further R bytes of output   *)
(* cost one more permutation, with nothing XORed in.                       *)
SpongeByte(len, j) ==
  LET full == len \div R + 1 IN
    [perms  |-> [b \in 1 .. full + j \div R |->
                   IF b <= full THEN PaddedBlock(len, b - 1) ELSE Zero],
     xored  |-> {},
     offset |-> j % R]

SpongeInit == phase = "absorb" /\ n = 0 /\ out = << >>

Restart == phase' = "absorb" /\ n' = 0 /\ out' = << >>

Absorb == /\ phase = "absorb"
          /\ n' \in Nat
          /\ n' >= n
          /\ UNCHANGED <<phase, out>>

Seal == /\ phase = "absorb"
        /\ phase' = "squeeze"
        /\ UNCHANGED <<n, out>>

Squeeze == /\ phase = "squeeze"
           /\ \E k \in 0 .. R :
                out' = out \o [i \in 1 .. k |-> SpongeByte(n, Len(out) + i - 1)]
           /\ UNCHANGED <<phase, n>>

SpongeNext == Restart \/ Absorb \/ Seal \/ Squeeze

SpongeSpec == SpongeInit /\ [][SpongeNext]_spongeVars
================================================================================
