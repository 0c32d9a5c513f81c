----------------------------------- MODULE Kem ---------------------------------
(***************************************************************************)
(* kem.c: key generation, encapsulation and decapsulation by parties that  *)
(* exchange public keys and ciphertexts.  A ciphertext may be delivered    *)
(* any number of times, to any key, in any order, changed or not; a secret *)
(* key may be damaged where it is stored.  Each function is one step: it   *)
(* touches nothing but its arguments.                                      *)
(*                                                                         *)
(* Byte strings are terms, and two terms are equal only if they were built *)
(* the same way: hashes do not collide, noise hides, randombytes does not  *)
(* repeat itself.                                                          *)
(***************************************************************************)
EXTENDS Integers, Sequences, FiniteSets

CONSTANTS MaxKeys,     (* bound: key pairs generated                       *)
          MaxEnc,      (* bound: encapsulations                            *)
          MaxChanges,  (* bound: ciphertexts changed on the way            *)
          MaxDamage,   (* bound: secret keys damaged                       *)
          MaxDec       (* bound: distinct results of decapsulations        *)

VARIABLES
  drawn,     (* 32-byte strings taken from randombytes                     *)
  keys,      (* sequence of [pk, sk] generated; sk = s || pk || h || z     *)
  damage,    (* number of secret keys damaged                              *)
  wire,      (* ciphertexts under way: never consumed                      *)
  issued,    (* results of crypto_kem_enc: [pk, ct, ss]                    *)
  results    (* results of crypto_kem_dec: [sk, ct, ss]                    *)

kemVars == <<drawn, keys, damage, wire, issued, results>>

Coin(x) == <<"coin", x>>

--------------------------------------------------------------------------------
(* The functions kem.c is built from.                                      *)
hash_h(x)     == <<"H", x>>
hash_g(m, h)  == [key |-> <<"K", m, h>>, coins |-> <<"r", m, h>>]
BugRkprf(z, ct) == <<"J", z, 0>>      \* mutant: the ciphertext is left out
rkprf(z, ct)  == <<"J", z, ct>>

PublicOf(d) == <<"pk", d>>
SecretOf(d) == <<"s", d>>

indcpa_enc(m, pk, coins) == <<"ct", m, pk, coins>>

(* A changed ciphertext: a change as small as the rounding decrypts to the *)
(* same message ("nudged"), any other to something unrelated.              *)
Changed(how, ct) == <<how, ct, 0>>
Original(ct) == IF ct[1] = "nudged" THEN ct[2] ELSE ct

indcpa_dec(ct, s) ==
  LET c == Original(ct) IN
    IF c[1] = "ct" /\ s[1] = "s" /\ c[3] = PublicOf(s[2])
      THEN c[2] ELSE <<"noise", ct, s>>

indcpa_enc_cmp(ct, m, pk, coins) == IF ct = indcpa_enc(m, pk, coins) THEN 0 ELSE 1

cmov(r, x, b) == IF b = 1 THEN x ELSE r

--------------------------------------------------------------------------------
keypair_derand(d, z) ==
  [pk |-> PublicOf(d),
   sk |-> [s |-> SecretOf(d), pk |-> PublicOf(d),
           h |-> hash_h(PublicOf(d)), z |-> z]]

BugEncDerand(pk, coins) ==            \* mutant: the two halves of buf swapped
  LET kr == hash_g(hash_h(pk), coins)
  IN  [pk |-> pk, ct |-> indcpa_enc(coins, pk, kr.coins), ss |-> kr.key]
enc_derand(pk, coins) ==
  LET kr == hash_g(coins, hash_h(pk))
  IN  [pk |-> pk, ct |-> indcpa_enc(coins, pk, kr.coins), ss |-> kr.key]

BugDec(ct, sk) ==                     \* mutant: fail is not looked at
  hash_g(indcpa_dec(ct, sk.s), sk.h).key
dec(ct, sk) ==
  LET m    == indcpa_dec(ct, sk.s)
      kr   == hash_g(m, sk.h)
      fail == indcpa_enc_cmp(ct, m, sk.pk, kr.coins)
  IN  cmov(rkprf(sk.z, ct), kr.key, 1 - fail)

--------------------------------------------------------------------------------
KemInit == /\ drawn = 0 /\ keys = << >> /\ damage = 0
           /\ wire = {} /\ issued = {} /\ results = {}

Keypair ==
  /\ Len(keys) < MaxKeys
  /\ keys' = Append(keys, keypair_derand(Coin(drawn), Coin(drawn + 1)))
  /\ drawn' = drawn + 2
  /\ UNCHANGED <<damage, wire, issued, results>>

Enc(to) ==
  /\ Cardinality(issued) < MaxEnc
  /\ LET e == enc_derand(keys[to].pk, Coin(drawn)) IN
       /\ issued' = issued \cup {e}
       /\ wire' = wire \cup {e.ct}
  /\ drawn' = drawn + 1
  /\ UNCHANGED <<keys, damage, results>>

Change(ct, how) ==
  /\ Cardinality({c \in wire : c[1] # "ct"}) < MaxChanges
  /\ ct[1] = "ct"
  /\ wire' = wire \cup {Changed(how, ct)}
  /\ UNCHANGED <<drawn, keys, damage, issued, results>>

(* Some fields of a stored secret key are replaced by random bytes.        *)
Damage(who, fields) ==
  /\ damage < MaxDamage
  /\ keys' = [keys EXCEPT ![who].sk =
                [f \in {"s", "pk", "h", "z"} |->
                   IF f \in fields THEN <<"random", Coin(drawn)>>
                                   ELSE keys[who].sk[f]]]
  /\ drawn' = drawn + 1
  /\ damage' = damage + 1
  /\ UNCHANGED <<wire, issued, results>>

Dec(who, ct) ==
  /\ Cardinality(results) < MaxDec
  /\ results' = results \cup
       {[sk |-> keys[who].sk, ct |-> ct, ss |-> dec(ct, keys[who].sk)]}
  /\ UNCHANGED <<drawn, keys, damage, wire, issued>>

KemNext ==
  \/ Keypair
  \/ \E to \in DOMAIN keys : Enc(to)
  \/ \E ct \in wire, how \in {"nudged", "forged"} : Change(ct, how)
  \/ \E who \in DOMAIN keys, fields \in SUBSET {"s", "pk", "h", "z"} \ {{}} :
       Damage(who, fields)
  \/ \E who \in DOMAIN keys, ct \in wire : Dec(who, ct)

KemSpec == KemInit /\ [][KemNext]_kemVars
--------------------------------------------------------------------------------
(* The fields a decapsulation of an honest ciphertext depends on.          *)
Matches(sk, pk) ==
  /\ sk.pk = pk /\ sk.h = hash_h(pk)
  /\ sk.s[1] = "s" /\ PublicOf(sk.s[2]) = pk

(* Decapsulating what encapsulation produced gives the same secret,        *)
(* whatever else was delivered before and however often, and even if z,    *)
(* which an honest run does not use, is damaged.                           *)
Agreement ==
  \A o \in results, e \in issued :
    (o.ct = e.ct /\ Matches(o.sk, e.pk)) => o.ss = e.ss

(* The two ends never agree on a secret unless nothing was changed: not    *)
(* the ciphertext, even by a change decryption itself does not notice, nor *)
(* the s, pk or h of the stored key (what test_invalid_sk_a and            *)
(* test_invalid_ciphertext sample).                                        *)
NoFalseAgreement ==
  \A o \in results, e \in issued :
    o.ss = e.ss => o.ct = e.ct /\ Matches(o.sk, e.pk)

(* kem.c implements the table: implicit rejection gives every rejected     *)
(* ciphertext its own secret, stable and shared with no other operation.   *)
Whole(sk) == Matches(sk, sk.pk) /\ sk.z[1] = "coin"

Ideal == INSTANCE KemIdeal WITH
           opened <- {[pk |-> o.sk.pk, ct |-> o.ct, ss |-> o.ss] :
                        o \in {r \in results : Whole(r.sk)}}

ImplementsIdeal == Ideal!IdealSpec
================================================================================
