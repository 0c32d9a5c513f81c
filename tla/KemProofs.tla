------------------------------- MODULE KemProofs -------------------------------
(***************************************************************************)
(* The key encapsulation, Kem, and the random bytes it draws, RandomStream.*)
(*                                                                         *)
(* Kem, for any number of keys, encapsulations, changed ciphertexts,       *)
(* damaged keys and decapsulations: the two ends agree exactly when        *)
(* nothing was changed, and kem.c implements the table of KemIdeal.        *)
(*                                                                         *)
(* RandomStream, for any lengths and number of requests and seeds, and all *)
(* widths of words, buffers, blocks and counters: no variant hands out a   *)
(* byte twice, AES never gets the same input twice after a seeding, and    *)
(* each variant writes what the reference for it says.  Digits and         *)
(* counters come first, then the three variants one by one.                *)
(***************************************************************************)
EXTENDS Kem, RandomStream, InductionLemmas, FiniteSetTheorems

--------------------------------------------------------------------------------
(* Kem: the invariant                                                      *)
(* What the n-th coin makes of a key pair, any field of the secret key     *)
(* possibly overwritten since.                                             *)
RandomBytes == {<<"random", Coin(i)>> : i \in Nat}

Secrets(n) ==
  [s  : {SecretOf(Coin(n))} \cup RandomBytes,
   pk : {PublicOf(Coin(n))} \cup RandomBytes,
   h  : {hash_h(PublicOf(Coin(n)))} \cup RandomBytes,
   z  : {Coin(n + 1)} \cup RandomBytes]

KeyPairs == UNION {[pk : {PublicOf(Coin(n))}, sk : Secrets(n)] : n \in Nat}

(* The encapsulation to key n with coin i, and what can become of it.      *)
Encapsulation(n, i) == enc_derand(PublicOf(Coin(n)), Coin(i))
Hows == {"nudged", "forged"}

KemInv ==
  /\ drawn \in Nat
  /\ keys \in Seq(KeyPairs)
  /\ \A e \in issued : \E n \in Nat, i \in 0 .. drawn - 1 : e = Encapsulation(n, i)
  /\ \A ct \in wire : \E e \in issued :
       ct = e.ct \/ \E how \in Hows : ct = Changed(how, e.ct)
  /\ \A o \in results :
       /\ o = [sk |-> o.sk, ct |-> o.ct, ss |-> dec(o.ct, o.sk)]
       /\ o.ct \in wire
       /\ \E n \in Nat : o.sk \in Secrets(n)

--------------------------------------------------------------------------------
(* Lemmas about the functions of kem.c.                                    *)

(* An encapsulation, spelt out.                                            *)
LEMMA EncapsulationIs ==
  ASSUME NEW n, NEW i
  PROVE  LET pk == PublicOf(Coin(n))
             m  == Coin(i)
         IN  Encapsulation(n, i) =
               [pk |-> pk,
                ct |-> <<"ct", m, pk, <<"r", m, hash_h(pk)>>>>,
                ss |-> <<"K", m, hash_h(pk)>>]
BY DEF Encapsulation, enc_derand, hash_g, indcpa_enc

(* It tells the key and the coin it was made from.                         *)
LEMMA EncapsulationInjective ==
  ASSUME NEW n, NEW i, NEW k, NEW j,
         \/ Encapsulation(n, i).ct = Encapsulation(k, j).ct
         \/ Encapsulation(n, i).ss = Encapsulation(k, j).ss
  PROVE  n = k /\ i = j
BY EncapsulationIs DEF PublicOf, Coin, hash_h

(* dec without its constant-time selection.                                *)
LEMMA DecIs ==
  ASSUME NEW ct, NEW sk
  PROVE  LET m == indcpa_dec(ct, sk.s) IN
           dec(ct, sk) = IF ct = <<"ct", m, sk.pk, <<"r", m, sk.h>>>>
                           THEN <<"K", m, sk.h>> ELSE <<"J", sk.z, ct>>
BY DEF dec, hash_g, indcpa_enc_cmp, indcpa_enc, cmov, rkprf

(* A ciphertext as it was sent is accepted by the key it was sent to, and  *)
(* by nothing else: what re-encryption compares contains all three of s,   *)
(* pk and h.                                                               *)
LEMMA DecHonest ==
  ASSUME NEW n, NEW i, NEW sk
  PROVE  LET e == Encapsulation(n, i) IN
           dec(e.ct, sk) = IF Matches(sk, e.pk) THEN e.ss ELSE <<"J", sk.z, e.ct>>
<1> DEFINE e  == Encapsulation(n, i)
           pk == PublicOf(Coin(n))
           m  == indcpa_dec(e.ct, sk.s)
<1>1. /\ e.pk = pk
      /\ e.ct = <<"ct", Coin(i), pk, <<"r", Coin(i), hash_h(pk)>>>>
      /\ e.ss = <<"K", Coin(i), hash_h(pk)>>
  BY EncapsulationIs
<1>2. m = IF sk.s[1] = "s" /\ pk = PublicOf(sk.s[2])
            THEN Coin(i) ELSE <<"noise", e.ct, sk.s>>
  BY <1>1 DEF indcpa_dec, Original
<1>3. Coin(i) # <<"noise", e.ct, sk.s>>
  BY DEF Coin
<1>4. CASE Matches(sk, pk)
  <2>1. m = Coin(i) /\ sk.pk = pk /\ sk.h = hash_h(pk)
    BY <1>2, <1>4 DEF Matches
  <2> HIDE DEF e, m
  <2> QED BY <1>1, <1>4, <2>1, DecIs DEF e, m
<1>5. CASE ~ Matches(sk, pk)
  <2>1. e.ct # <<"ct", m, sk.pk, <<"r", m, sk.h>>>>
    BY <1>1, <1>2, <1>3, <1>5 DEF Matches
  <2> HIDE DEF e, m
  <2> QED BY <1>1, <1>5, <2>1, DecIs DEF e, m
<1> QED BY <1>1, <1>4, <1>5

(* A changed ciphertext is rejected by every key.                          *)
LEMMA DecChanged ==
  ASSUME NEW how \in Hows, NEW ct, NEW sk
  PROVE  dec(Changed(how, ct), sk) = <<"J", sk.z, Changed(how, ct)>>
BY DecIs DEF Changed, Hows

(* A key that fits its public key is the one generated with it, but for z. *)
LEMMA WholeKey ==
  ASSUME NEW n, NEW sk \in Secrets(n), Whole(sk)
  PROVE  sk = [s |-> SecretOf(Coin(n)), pk |-> PublicOf(Coin(n)),
               h |-> hash_h(PublicOf(Coin(n))), z |-> Coin(n + 1)]
<1>1. \A x \in RandomBytes : x[1] = "random"
  BY DEF RandomBytes
<1>2. sk.s \notin RandomBytes /\ sk.z \notin RandomBytes
  BY <1>1 DEF Whole, Matches
<1>3. sk.s = SecretOf(Coin(n)) /\ sk.z = Coin(n + 1)
  BY <1>2 DEF Secrets
<1>4. sk.pk = PublicOf(Coin(n)) /\ sk.h = hash_h(sk.pk)
  BY <1>3 DEF Whole, Matches, SecretOf
<1> QED BY <1>3, <1>4 DEF Secrets

--------------------------------------------------------------------------------
(* The inductive invariant.                                                *)

LEMMA InitKemInv == KemInit => KemInv
BY DEF KemInit, KemInv

(* A key pair that the sequence keys holds, and the number of its coin.    *)
LEMMA KeyAt ==
  ASSUME KemInv, NEW who \in DOMAIN keys
  PROVE  \E n \in Nat : keys[who] \in [pk : {PublicOf(Coin(n))}, sk : Secrets(n)]
<1>1. keys[who] \in KeyPairs
  BY DEF KemInv
<1> QED BY <1>1 DEF KeyPairs

(* Coins drawn remain drawn.                                               *)
LEMMA MoreCoins ==
  ASSUME NEW a \in Nat, NEW b \in Nat, b >= a
  PROVE  0 .. a - 1 \subseteq 0 .. b - 1
OBVIOUS

(* Every step preserves it: new ciphertexts are made from issued ones, and *)
(* a key loses fields but gains none that a generated key could have.      *)
LEMMA NextKemInv == KemInv /\ [KemNext]_kemVars => KemInv'
<1> SUFFICES ASSUME KemInv, [KemNext]_kemVars PROVE KemInv'
  OBVIOUS
<1>0. drawn \in Nat /\ keys \in Seq(KeyPairs)
  BY DEF KemInv
<1>a. ASSUME drawn' \in Nat, drawn' >= drawn, UNCHANGED issued
      PROVE  \A e \in issued' : \E n \in Nat, i \in 0 .. drawn' - 1 : e = Encapsulation(n, i)
  <2> SUFFICES ASSUME NEW e \in issued
               PROVE  \E n \in Nat, i \in 0 .. drawn' - 1 : e = Encapsulation(n, i)
    BY <1>a
  <2>1. PICK n \in Nat, i \in 0 .. drawn - 1 : e = Encapsulation(n, i)
    BY DEF KemInv
  <2>2. i \in 0 .. drawn' - 1
    <3>1. drawn \in Nat /\ drawn' \in Nat /\ drawn' >= drawn
      BY <1>0, <1>a
    <3> QED BY <3>1, MoreCoins
  <2> QED BY <2>1, <2>2
<1>1. CASE Keypair
  <2> DEFINE pair == keypair_derand(Coin(drawn), Coin(drawn + 1))
  <2>1. pair \in [pk : {PublicOf(Coin(drawn))}, sk : Secrets(drawn)]
    BY DEF keypair_derand, Secrets
  <2>2. pair \in KeyPairs
    BY <1>0, <2>1 DEF KeyPairs
  <2>3. keys' \in Seq(KeyPairs)
    BY <1>0, <1>1, <2>2 DEF Keypair
  <2>4. drawn' \in Nat /\ drawn' >= drawn
    BY <1>0, <1>1 DEF Keypair
  <2> QED BY <1>1, <1>a, <2>3, <2>4 DEF Keypair, KemInv
<1>2. ASSUME NEW to \in DOMAIN keys, Enc(to) PROVE KemInv'
  <2> DEFINE new == enc_derand(keys[to].pk, Coin(drawn))
  <2>1. PICK n \in Nat : keys[to] \in [pk : {PublicOf(Coin(n))}, sk : Secrets(n)]
    BY KeyAt
  <2>2. new = Encapsulation(n, drawn)
    BY <2>1 DEF Encapsulation
  <2>3. drawn' = drawn + 1 /\ issued' = issued \cup {new} /\ wire' = wire \cup {new.ct}
        /\ UNCHANGED <<keys, damage, results>>
    BY <1>2 DEF Enc
  <2>4. drawn \in 0 .. drawn' - 1 /\ drawn' \in Nat /\ 0 .. drawn - 1 \subseteq 0 .. drawn' - 1
    BY <1>0, <2>3
  <2>5. \A e \in issued' : \E k \in Nat, i \in 0 .. drawn' - 1 : e = Encapsulation(k, i)
    <3> SUFFICES ASSUME NEW e \in issued'
                 PROVE  \E k \in Nat, i \in 0 .. drawn' - 1 : e = Encapsulation(k, i)
      OBVIOUS
    <3>1. CASE e = new
      BY <2>2, <2>4, <3>1
    <3>2. CASE e \in issued
      <4>1. PICK k \in Nat, i \in 0 .. drawn - 1 : e = Encapsulation(k, i)
        BY <3>2 DEF KemInv
      <4> QED BY <2>4, <4>1
    <3> QED BY <2>3, <3>1, <3>2
  <2>6. \A ct \in wire' : \E e \in issued' :
          ct = e.ct \/ \E how \in Hows : ct = Changed(how, e.ct)
    <3> HIDE DEF new
    <3> QED BY <2>3 DEF KemInv
  <2> QED
    <3> HIDE DEF new
    <3> QED BY <1>0, <2>3, <2>4, <2>5, <2>6 DEF KemInv
<1>3. ASSUME NEW ct \in wire, NEW how \in Hows, Change(ct, how) PROVE KemInv'
  <2>1. ct[1] = "ct" /\ wire' = wire \cup {Changed(how, ct)}
        /\ UNCHANGED <<drawn, keys, damage, issued, results>>
    BY <1>3 DEF Change
  <2>2. PICK e \in issued : ct = e.ct \/ \E h \in Hows : ct = Changed(h, e.ct)
    BY DEF KemInv
  <2>3. ct = e.ct
    BY <2>1, <2>2 DEF Changed, Hows
  <2>4. \A c \in wire' : \E f \in issued' :
          c = f.ct \/ \E h \in Hows : c = Changed(h, f.ct)
    BY <2>1, <2>3 DEF KemInv
  <2> QED BY <2>1, <2>4 DEF KemInv
<1>4. ASSUME NEW who \in DOMAIN keys, NEW fields \in SUBSET {"s", "pk", "h", "z"},
             Damage(who, fields)
      PROVE  KemInv'
  <2> DEFINE new == [f \in {"s", "pk", "h", "z"} |->
                       IF f \in fields THEN <<"random", Coin(drawn)>>
                                       ELSE keys[who].sk[f]]
  <2>1. PICK n \in Nat : keys[who] \in [pk : {PublicOf(Coin(n))}, sk : Secrets(n)]
    BY KeyAt
  <2>2. <<"random", Coin(drawn)>> \in RandomBytes
    BY <1>0 DEF RandomBytes
  <2>3. new \in Secrets(n)
    <3>1. keys[who].sk \in Secrets(n)
      BY <2>1
    <3>2. new = [s |-> new.s, pk |-> new.pk, h |-> new.h, z |-> new.z]
      OBVIOUS
    <3>3. /\ new.s \in {SecretOf(Coin(n))} \cup RandomBytes
          /\ new.pk \in {PublicOf(Coin(n))} \cup RandomBytes
          /\ new.h \in {hash_h(PublicOf(Coin(n)))} \cup RandomBytes
          /\ new.z \in {Coin(n + 1)} \cup RandomBytes
      BY <2>2, <3>1 DEF Secrets
    <3> HIDE DEF new
    <3> QED BY <3>2, <3>3 DEF Secrets
  <2>4. keys' = [keys EXCEPT ![who] = [keys[who] EXCEPT !.sk = new]]
    BY <1>4 DEF Damage
  <2>5. [keys[who] EXCEPT !.sk = new] \in [pk : {PublicOf(Coin(n))}, sk : Secrets(n)]
    <3> HIDE DEF new
    <3> QED BY <2>1, <2>3
  <2>6. [keys[who] EXCEPT !.sk = new] \in KeyPairs
    BY <2>5 DEF KeyPairs
  <2>7. keys' \in Seq(KeyPairs)
    <3> HIDE DEF new
    <3> QED BY <1>0, <2>4, <2>6
  <2>8. drawn' \in Nat /\ drawn' >= drawn /\ UNCHANGED <<wire, issued, results>>
    BY <1>0, <1>4 DEF Damage
  <2> QED BY <1>a, <2>7, <2>8 DEF KemInv
<1>5. ASSUME NEW who \in DOMAIN keys, NEW ct \in wire, Dec(who, ct) PROVE KemInv'
  <2>1. PICK n \in Nat : keys[who] \in [pk : {PublicOf(Coin(n))}, sk : Secrets(n)]
    BY KeyAt
  <2>2. keys[who].sk \in Secrets(n)
    BY <2>1
  <2>3. results' = results \cup
          {[sk |-> keys[who].sk, ct |-> ct, ss |-> dec(ct, keys[who].sk)]}
        /\ UNCHANGED <<drawn, keys, damage, wire, issued>>
    BY <1>5 DEF Dec
  <2> QED BY <2>2, <2>3 DEF KemInv
<1>6. CASE UNCHANGED kemVars
  BY <1>6 DEF kemVars, KemInv
<1> QED BY <1>1, <1>2, <1>3, <1>4, <1>5, <1>6 DEF KemNext, Hows

LEMMA KemInvHolds == KemSpec => []KemInv
<1> QED BY InitKemInv, NextKemInv, PTL DEF KemSpec

--------------------------------------------------------------------------------
(* What follows from it, for any decapsulation of what is on the wire.     *)

(* Either this is the ciphertext of an encapsulation to this very key, and *)
(* its secret; or the secret is one made of z and the ciphertext.          *)
LEMMA Decapsulated ==
  ASSUME KemInv, NEW ct \in wire, NEW sk
  PROVE  \/ \E e \in issued : ct = e.ct /\ Matches(sk, e.pk) /\ dec(ct, sk) = e.ss
         \/ /\ dec(ct, sk) = <<"J", sk.z, ct>>
            /\ \A e \in issued : ct = e.ct => ~ Matches(sk, e.pk)
<1>1. PICK e \in issued : ct = e.ct \/ \E how \in Hows : ct = Changed(how, e.ct)
  BY DEF KemInv
<1>2. PICK n \in Nat, i \in 0 .. drawn - 1 : e = Encapsulation(n, i)
  BY DEF KemInv
<1>3. CASE ct = e.ct
  <2>1. dec(ct, sk) = IF Matches(sk, e.pk) THEN e.ss ELSE <<"J", sk.z, ct>>
    BY <1>2, <1>3, DecHonest
  <2>2. ASSUME NEW f \in issued, ct = f.ct PROVE f = e
    <3>1. PICK k \in Nat, j \in 0 .. drawn - 1 : f = Encapsulation(k, j)
      BY DEF KemInv
    <3>2. Encapsulation(n, i).ct = Encapsulation(k, j).ct
      BY <1>2, <1>3, <2>2, <3>1
    <3> QED BY <1>2, <3>1, <3>2, EncapsulationInjective
  <2> QED BY <1>3, <2>1, <2>2
<1>4. ASSUME NEW how \in Hows, ct = Changed(how, e.ct)
      PROVE  dec(ct, sk) = <<"J", sk.z, ct>> /\ \A f \in issued : ct # f.ct
  <2>1. dec(ct, sk) = <<"J", sk.z, ct>>
    BY <1>4, DecChanged
  <2>2. ASSUME NEW f \in issued PROVE ct # f.ct
    <3>1. PICK k \in Nat, j \in 0 .. drawn - 1 : f = Encapsulation(k, j)
      BY DEF KemInv
    <3>2. f.ct[1] = "ct"
      BY <3>1, EncapsulationIs
    <3>3. ct[1] = how
      BY <1>4 DEF Changed
    <3> QED BY <3>2, <3>3 DEF Hows
  <2> QED BY <2>1, <2>2
<1> QED BY <1>1, <1>3, <1>4

(* Every encapsulation has a secret of its own, and none looks like the    *)
(* secret of a rejection.                                                  *)
LEMMA SecretsDiffer ==
  ASSUME KemInv, NEW e \in issued
  PROVE  /\ e.ss[1] = "K"
         /\ \A f \in issued : e.ss = f.ss \/ e.ct = f.ct => e = f
<1>1. PICK n \in Nat, i \in 0 .. drawn - 1 : e = Encapsulation(n, i)
  BY DEF KemInv
<1>2. e.ss[1] = "K"
  BY <1>1, EncapsulationIs
<1>3. ASSUME NEW f \in issued, e.ss = f.ss \/ e.ct = f.ct PROVE e = f
  <2>1. PICK k \in Nat, j \in 0 .. drawn - 1 : f = Encapsulation(k, j)
    BY DEF KemInv
  <2> QED BY <1>1, <1>3, <2>1, EncapsulationInjective
<1> QED BY <1>2, <1>3

(* crypto_kem_dec gives back the secret of crypto_kem_enc, whatever else   *)
(* has happened.                                                           *)
THEOREM HonestEndsAgree == KemSpec => []Agreement
<1>1. KemInv => Agreement
  <2> SUFFICES ASSUME KemInv, NEW o \in results, NEW e \in issued,
                      o.ct = e.ct, Matches(o.sk, e.pk)
               PROVE  o.ss = e.ss
    BY DEF Agreement
  <2>1. o.ct \in wire /\ o.ss = dec(o.ct, o.sk)
    BY DEF KemInv
  <2>2. PICK f \in issued : o.ct = f.ct /\ Matches(o.sk, f.pk) /\ o.ss = f.ss
    BY <2>1, Decapsulated
  <2>3. e = f
    BY <2>2, SecretsDiffer
  <2> QED BY <2>2, <2>3
<1> QED BY <1>1, KemInvHolds, PTL

(* Ends that agree have the same ciphertext and an undamaged s, pk and h.  *)
THEOREM OnlyHonestEndsAgree == KemSpec => []NoFalseAgreement
<1>1. KemInv => NoFalseAgreement
  <2> SUFFICES ASSUME KemInv, NEW o \in results, NEW e \in issued, o.ss = e.ss
               PROVE  o.ct = e.ct /\ Matches(o.sk, e.pk)
    BY DEF NoFalseAgreement
  <2>1. o.ss # <<"J", o.sk.z, o.ct>> /\ o.ct \in wire /\ o.ss = dec(o.ct, o.sk)
    BY SecretsDiffer DEF KemInv
  <2>2. PICK f \in issued : o.ct = f.ct /\ Matches(o.sk, f.pk) /\ o.ss = f.ss
    BY <2>1, Decapsulated
  <2>3. e = f
    BY <2>2, SecretsDiffer
  <2> QED BY <2>2, <2>3
<1> QED BY <1>1, KemInvHolds, PTL

--------------------------------------------------------------------------------
(* The refinement.                                                         *)

(* The entry of the table a result stands for, and the table.              *)
Entry(o) == [pk |-> o.sk.pk, ct |-> o.ct, ss |-> o.ss]
Opened   == {Entry(o) : o \in {r \in results : Whole(r.sk)}}

(* Results of whole keys: the public key stands for the key.               *)
LEMMA PublicKeyIsKey ==
  ASSUME NEW n, NEW sk \in Secrets(n), Whole(sk),
         NEW k, NEW other \in Secrets(k), Whole(other),
         sk.pk = other.pk \/ n + 1 = k + 1, n \in Nat, k \in Nat
  PROVE  sk = other
<1>1. n = k
  <2>1. sk.pk = PublicOf(Coin(n)) /\ other.pk = PublicOf(Coin(k))
    BY WholeKey
  <2>2. CASE sk.pk = other.pk
    BY <2>1, <2>2 DEF PublicOf, Coin
  <2> QED BY <2>2
<1> QED BY <1>1, WholeKey

(* An encapsulation invents a ciphertext and a secret.                     *)
LEMMA EncIsIdeal ==
  ASSUME KemInv, NEW to \in DOMAIN keys, Enc(to)
  PROVE  Ideal!IdealEncaps
<1> DEFINE new == enc_derand(keys[to].pk, Coin(drawn))
<1>1. PICK n \in Nat : keys[to] \in [pk : {PublicOf(Coin(n))}, sk : Secrets(n)]
  BY KeyAt
<1>2. new = Encapsulation(n, drawn)
  BY <1>1 DEF Encapsulation
<1>3. issued' = issued \cup {new} /\ UNCHANGED results
  BY DEF Enc
<1>4. ASSUME NEW f \in issued PROVE f.ct # new.ct /\ f.ss # new.ss
  <2>1. PICK k \in Nat, i \in 0 .. drawn - 1 : f = Encapsulation(k, i)
    BY DEF KemInv
  <2>2. i # drawn
    BY DEF KemInv
  <2> HIDE DEF new
  <2> QED BY <1>2, <2>1, <2>2, EncapsulationInjective
<1>5. ASSUME NEW o \in results PROVE o.ss # new.ss
  <2>1. o.ct \in wire /\ o.ss = dec(o.ct, o.sk)
    BY DEF KemInv
  <2>2. new.ss[1] = "K"
    BY <1>2, EncapsulationIs
  <2>3. (\E f \in issued : o.ss = f.ss) \/ o.ss = <<"J", o.sk.z, o.ct>>
    BY <2>1, Decapsulated
  <2> HIDE DEF new
  <2> QED BY <1>4, <2>2, <2>3
<1> HIDE DEF new
<1>6. new \in issued' \ issued
  BY <1>3, <1>4
<1>7. new.ss \notin Ideal!Known
  BY <1>4, <1>5 DEF Ideal!Known
<1> QED BY <1>3, <1>4, <1>6, <1>7 DEF Ideal!IdealEncaps, Whole, Matches

(* A decapsulation by a whole key looks its answer up or invents one; a    *)
(* repeated one, and one by a damaged key, changes nothing in the table.   *)
LEMMA DecIsIdeal ==
  ASSUME KemInv, NEW who \in DOMAIN keys, NEW ct \in wire, Dec(who, ct)
  PROVE  Ideal!IdealDecaps \/ UNCHANGED <<issued, Opened>>
<1> DEFINE sk  == keys[who].sk
           res == [sk |-> sk, ct |-> ct, ss |-> dec(ct, sk)]
           new == [pk |-> sk.pk, ct |-> ct, ss |-> dec(ct, sk)]
<1>1. PICK n \in Nat : sk \in Secrets(n)
  BY KeyAt
<1>2. results' = results \cup {res} /\ UNCHANGED issued
  BY DEF Dec
<1> HIDE DEF sk
<1>3. Opened' = IF Whole(sk) THEN Opened \cup {new} ELSE Opened
  <2>1. Opened' = {Entry(o) : o \in {r \in results' : Whole(r.sk)}}
    BY DEF Opened, Entry, Whole, Matches
  <2>2. {r \in results' : Whole(r.sk)}
          = {r \in results : Whole(r.sk)} \cup (IF Whole(sk) THEN {res} ELSE {})
    BY <1>2
  <2>3. Entry(res) = new
    BY DEF Entry
  <2> HIDE DEF res, new
  <2> QED BY <2>1, <2>2, <2>3 DEF Opened
<1>4. CASE Whole(sk) /\ new \notin Opened
  <2>1. ASSUME NEW p \in Opened
        PROVE  \E o \in results, k \in Nat :
                 /\ p = Entry(o) /\ Whole(o.sk) /\ o.sk \in Secrets(k)
                 /\ o.ct \in wire /\ o.ss = dec(o.ct, o.sk)
    <3>1. PICK o \in results : p = Entry(o) /\ Whole(o.sk)
      BY DEF Opened
    <3>2. PICK k \in Nat : o.sk \in Secrets(k)
      BY DEF KemInv
    <3> QED BY <3>1, <3>2 DEF KemInv
  <2>2. ASSUME NEW p \in Opened, p.pk = new.pk, p.ct = new.ct
        PROVE  p.ss = new.ss
    <3>1. PICK o \in results, k \in Nat :
            /\ p = Entry(o) /\ Whole(o.sk) /\ o.sk \in Secrets(k)
            /\ o.ct \in wire /\ o.ss = dec(o.ct, o.sk)
      BY <2>1
    <3>2. o.sk.pk = sk.pk /\ o.ct = ct
      BY <2>2, <3>1 DEF Entry
    <3>3. o.sk = sk
      BY <1>1, <1>4, <3>1, <3>2, PublicKeyIsKey
    <3> QED BY <3>1, <3>2, <3>3 DEF Entry
  <2>3. ASSUME NEW e \in issued, e.pk = new.pk, e.ct = new.ct
        PROVE  new.ss = e.ss
    <3>1. Matches(sk, e.pk)
      BY <1>4, <2>3 DEF Whole
    <3>2. PICK f \in issued : ct = f.ct /\ dec(ct, sk) = f.ss
      BY <2>3, <3>1, Decapsulated
    <3>3. e = f
      BY <2>3, <3>2, SecretsDiffer
    <3> QED BY <3>2, <3>3
  <2>4. ASSUME ~ \E e \in issued : e.pk = new.pk /\ e.ct = new.ct
        PROVE  new.ss \notin Ideal!Known
    <3>1. dec(ct, sk) = <<"J", sk.z, ct>>
      <4>1. ASSUME NEW e \in issued, ct = e.ct, Matches(sk, e.pk) PROVE FALSE
        BY <2>4, <4>1 DEF Matches
      <4> QED BY <4>1, Decapsulated
    <3>2. ASSUME NEW e \in issued PROVE e.ss # new.ss
      BY <3>1, SecretsDiffer
    <3>3. ASSUME NEW p \in Opened PROVE p.ss # new.ss
      <4>1. PICK o \in results, k \in Nat :
              /\ p = Entry(o) /\ Whole(o.sk) /\ o.sk \in Secrets(k)
              /\ o.ct \in wire /\ o.ss = dec(o.ct, o.sk)
        BY <2>1
      <4>2. CASE \E e \in issued : o.ss = e.ss
        BY <3>2, <4>1, <4>2 DEF Entry
      <4>3. CASE o.ss = <<"J", o.sk.z, o.ct>>
        <5> SUFFICES ASSUME p.ss = new.ss PROVE FALSE
          OBVIOUS
        <5>1. o.sk.z = sk.z /\ o.ct = ct
          BY <3>1, <4>1, <4>3 DEF Entry
        <5>2. Coin(k + 1) = Coin(n + 1)
          BY <1>1, <1>4, <4>1, <5>1, WholeKey
        <5>3. o.sk = sk
          BY <1>1, <1>4, <4>1, <5>2, PublicKeyIsKey DEF Coin
        <5>4. p = new
          BY <4>1, <5>1, <5>3 DEF Entry
        <5> QED BY <1>4, <5>4
      <4> QED BY <4>1, <4>2, <4>3, Decapsulated
    <3> QED BY <3>2, <3>3 DEF Ideal!Known, Opened, Entry
  <2>5. Opened' = Opened \cup {new} /\ new \in Opened' \ Opened
    BY <1>3, <1>4
  <2> HIDE DEF new
  <2> QED
    BY <1>2, <2>2, <2>3, <2>4, <2>5 DEF Ideal!IdealDecaps, Opened, Entry
<1>5. CASE ~ Whole(sk) \/ new \in Opened
  <2> HIDE DEF new
  <2> QED BY <1>2, <1>3, <1>5
<1> QED BY <1>4, <1>5

(* kem.c implements the table of KemIdeal: implicit rejection gives every  *)
(* rejected ciphertext a secret of its own, the same each time.            *)
THEOREM KemIsIdeal == KemSpec => ImplementsIdeal
<1>1. KemInit => Ideal!IdealInit
  BY DEF KemInit, Ideal!IdealInit
<1>2. ASSUME KemInv, [KemNext]_kemVars
      PROVE  [Ideal!IdealEncaps \/ Ideal!IdealDecaps]_(Ideal!idealVars)
  <2>1. ASSUME UNCHANGED <<issued, Opened>> PROVE UNCHANGED Ideal!idealVars
    BY <2>1 DEF Ideal!idealVars, Opened, Entry
  <2>2. ASSUME UNCHANGED <<issued, results>> PROVE UNCHANGED <<issued, Opened>>
    BY <2>2 DEF Opened, Entry, Whole, Matches
  <2>3. ASSUME NEW to \in DOMAIN keys, Enc(to) PROVE Ideal!IdealEncaps
    BY <1>2, <2>3, EncIsIdeal
  <2>4. ASSUME NEW who \in DOMAIN keys, NEW ct \in wire, Dec(who, ct)
        PROVE  Ideal!IdealDecaps \/ UNCHANGED <<issued, Opened>>
    BY <1>2, <2>4, DecIsIdeal
  <2>5. ASSUME \/ Keypair
               \/ \E ct \in wire, how \in {"nudged", "forged"} : Change(ct, how)
               \/ \E who \in DOMAIN keys, fields \in SUBSET {"s", "pk", "h", "z"} \ {{}} :
                    Damage(who, fields)
               \/ UNCHANGED kemVars
        PROVE  UNCHANGED <<issued, results>>
    BY <2>5 DEF Keypair, Change, Damage, kemVars
  <2> QED BY <1>2, <2>1, <2>2, <2>3, <2>4, <2>5 DEF KemNext
<1> QED BY <1>1, <1>2, KemInvHolds, PTL DEF KemSpec, ImplementsIdeal, Ideal!IdealSpec

--------------------------------------------------------------------------------
(* RandomStream: digits                                                    *)
(* d are the len lowest digits of n, and r[i] is what is left of n above   *)
(* the first i.                                                            *)
Splits(r, d, n, b, len) ==
  /\ r \in [0 .. len -> Nat] /\ d \in [1 .. len -> 0 .. b - 1]
  /\ r[0] = n
  /\ \A i \in 1 .. len : r[i - 1] = b * r[i] + d[i]

LEMMA DigitsSplit ==
  ASSUME NEW n \in Nat, NEW b \in Nat \ {0}, NEW len \in Nat
  PROVE  \E r : Splits(r, Digits(n, b, len), n, b, len)
<1> DEFINE g == [i \in 1 .. len |-> [x \in Nat |-> x \div b]]
           Rest(f) == f = [i \in 0 .. len |-> IF i = 0 THEN n ELSE f[i - 1] \div b]
           rest == CHOOSE f : Rest(f)
<1>1. ASSUME NEW x \in Nat PROVE x \div b \in Nat
  BY Parts
<1>2. g \in [1 .. len -> [Nat -> Nat]] /\ \A i \in 1 .. len, x \in Nat : g[i][x] = x \div b
  BY <1>1
<1>3. Recursive(len, Nat, n, g) # {}
  <2> HIDE DEF g
  <2> QED BY <1>2, Recursion
<1>4. PICK f \in Recursive(len, Nat, n, g) : TRUE
  <2> HIDE DEF g
  <2> QED BY <1>3
<1>5. f \in [0 .. len -> Nat] /\ f[0] = n /\ \A i \in 1 .. len : f[i] = g[i][f[i - 1]]
  <2> HIDE DEF g
  <2> QED BY <1>4 DEF Recursive
<1>6. \A i \in 1 .. len : f[i] = f[i - 1] \div b
  <2>1. \A i \in 1 .. len : f[i - 1] \in Nat
    BY <1>5
  <2> HIDE DEF g
  <2> QED BY <1>2, <1>5, <2>1
<1>7. Rest(f)
  BY <1>5, <1>6
<1>8. Rest(rest)
  BY <1>7
<1>9. DOMAIN rest = 0 .. len /\ rest[0] = n /\ \A i \in 1 .. len : rest[i] = rest[i - 1] \div b
  <2> HIDE DEF rest
  <2>1. \A i \in 1 .. len : i \in 0 .. len /\ i # 0
    OBVIOUS
  <2> QED BY <1>8, <2>1
<1>10. rest = f
  <2> DEFINE S == {i \in Nat : i <= len => rest[i] = f[i]}
  <2> HIDE DEF rest
  <2>1. 0 \in S
    BY <1>5, <1>9
  <2>2. ASSUME NEW i \in Nat, i \in S PROVE i + 1 \in S
    <3>1. i + 1 <= len => i + 1 \in 1 .. len /\ (i + 1) - 1 = i
      OBVIOUS
    <3> QED BY <1>6, <1>9, <2>2, <3>1
  <2>3. Nat \subseteq S
    <3> HIDE DEF S
    <3> QED BY <2>1, <2>2, Induction
  <2>4. \A i \in 0 .. len : rest[i] = f[i]
    BY <2>3
  <2> QED BY <1>5, <1>8, <2>4
<1>11. Digits(n, b, len) = [i \in 1 .. len |-> f[i - 1] % b]
  <2>1. Digits(n, b, len) = [i \in 1 .. len |-> rest[i - 1] % b]
    BY DEF Digits
  <2> HIDE DEF rest
  <2> QED BY <1>10, <2>1
<1>12. ASSUME NEW i \in 1 .. len
       PROVE  f[i - 1] % b \in 0 .. b - 1 /\ f[i - 1] = b * f[i] + (f[i - 1] % b)
  <2>1. f[i - 1] \in Int /\ f[i] = f[i - 1] \div b
    BY <1>5, <1>6
  <2>2. /\ f[i - 1] % b \in 0 .. b - 1
        /\ f[i - 1] = b * (f[i - 1] \div b) + (f[i - 1] % b)
    BY <2>1, Parts
  <2> QED BY <2>1, <2>2
<1>13. Splits(f, Digits(n, b, len), n, b, len)
  BY <1>5, <1>11, <1>12 DEF Splits
<1> QED BY <1>13

(* There is one way to split a number.                                     *)
LEMMA OneSplit ==
  ASSUME NEW n \in Nat, NEW b \in Nat \ {0}, NEW len \in Nat, NEW r, NEW d, NEW r2, NEW d2,
         Splits(r, d, n, b, len), Splits(r2, d2, n, b, len)
  PROVE  d2 = d
<1> DEFINE S == {i \in Nat : i <= len => r2[i] = r[i]}
<1>1. /\ r \in [0 .. len -> Nat] /\ r2 \in [0 .. len -> Nat] /\ r[0] = n /\ r2[0] = n
      /\ d \in [1 .. len -> 0 .. b - 1] /\ d2 \in [1 .. len -> 0 .. b - 1]
  BY DEF Splits
<1>2. ASSUME NEW i \in 1 .. len, r2[i - 1] = r[i - 1] PROVE r2[i] = r[i] /\ d2[i] = d[i]
  <2>1. /\ r[i] \in Nat /\ r2[i] \in Nat /\ d[i] \in 0 .. b - 1 /\ d2[i] \in 0 .. b - 1
        /\ r[i] \in Int /\ r2[i] \in Int
    BY <1>1
  <2>2. r[i - 1] = b * r[i] + d[i] /\ r2[i - 1] = b * r2[i] + d2[i]
    BY DEF Splits
  <2>3. (b * r[i] + d[i]) \div b = r[i] /\ (b * r[i] + d[i]) % b = d[i]
    BY <2>1, DivMod
  <2>4. (b * r2[i] + d2[i]) \div b = r2[i] /\ (b * r2[i] + d2[i]) % b = d2[i]
    BY <2>1, DivMod
  <2> QED BY <1>2, <2>2, <2>3, <2>4, Zenon
<1>3. 0 \in S
  BY <1>1
<1>4. ASSUME NEW i \in Nat, i \in S PROVE i + 1 \in S
  <2>1. i + 1 <= len => i + 1 \in 1 .. len /\ (i + 1) - 1 = i
    OBVIOUS
  <2> QED BY <1>2, <1>4, <2>1
<1>5. Nat \subseteq S
  <2> HIDE DEF S
  <2> QED BY <1>3, <1>4, Induction
<1>6. ASSUME NEW i \in 1 .. len PROVE d2[i] = d[i]
  <2>1. i - 1 \in Nat /\ i - 1 <= len
    OBVIOUS
  <2>2. r2[i - 1] = r[i - 1]
    BY <1>5, <2>1
  <2> QED BY <1>2, <2>2
<1> QED BY <1>1, <1>6

(* What ++ with its carries does to the digits.                            *)
Carries(d, b, i) == \A j \in 1 .. i - 1 : d[j] = b - 1
Plus1(d, b, len) == [i \in 1 .. len |-> IF Carries(d, b, i) THEN (d[i] + 1) % b ELSE d[i]]

LEMMA DigitsOfNext ==
  ASSUME NEW n \in Nat, NEW b \in Nat \ {0, 1}, NEW len \in Nat
  PROVE  Digits(n + 1, b, len) = Plus1(Digits(n, b, len), b, len)
<1> DEFINE d == Digits(n, b, len)
           d2 == Plus1(d, b, len)
<1>1. PICK r : Splits(r, d, n, b, len)
  BY DigitsSplit
<1> HIDE DEF d
<1>2. /\ r \in [0 .. len -> Nat] /\ d \in [1 .. len -> 0 .. b - 1] /\ r[0] = n
      /\ \A i \in 1 .. len : r[i - 1] = b * r[i] + d[i]
  BY <1>1 DEF Splits
<1> DEFINE r2 == [i \in 0 .. len |-> IF Carries(d, b, i + 1) THEN r[i] + 1 ELSE r[i]]
<1>3. r2 \in [0 .. len -> Nat]
  BY <1>2
<1>4. d2 \in [1 .. len -> 0 .. b - 1]
  <2>1. ASSUME NEW x \in 0 .. b - 1 PROVE (x + 1) % b \in 0 .. b - 1
    BY Parts, x + 1 \in Int, b \in Nat \ {0}
  <2> QED BY <1>2, <2>1 DEF Plus1
<1>5. r2[0] = n + 1
  <2>1. Carries(d, b, 0 + 1)
    BY DEF Carries
  <2> QED BY <1>2, <2>1
<1>6. ASSUME NEW i \in 1 .. len PROVE r2[i - 1] = b * r2[i] + d2[i]
  <2>0. /\ i - 1 \in 0 .. len /\ i \in 0 .. len /\ (i - 1) + 1 = i
        /\ r[i - 1] \in Nat /\ r[i] \in Nat /\ d[i] \in 0 .. b - 1
        /\ r[i - 1] = b * r[i] + d[i]
    BY <1>2
  <2>1. /\ r2[i - 1] = IF Carries(d, b, i) THEN r[i - 1] + 1 ELSE r[i - 1]
        /\ r2[i] = IF Carries(d, b, i + 1) THEN r[i] + 1 ELSE r[i]
        /\ d2[i] = IF Carries(d, b, i) THEN (d[i] + 1) % b ELSE d[i]
    BY <2>0 DEF Plus1
  <2>2. Carries(d, b, i + 1) <=> Carries(d, b, i) /\ d[i] = b - 1
    <3>1. \A j : j \in 1 .. (i + 1) - 1 <=> j \in 1 .. i - 1 \/ j = i
      OBVIOUS
    <3> QED BY <3>1 DEF Carries
  <2>3. d[i] = b - 1 => (d[i] + 1) % b = 0
    <3>1. (b * 1 + 0) % b = 0
      BY DivMod, 1 \in Int, 0 \in 0 .. b - 1, b \in Nat \ {0}
    <3>2. d[i] = b - 1 => d[i] + 1 = b * 1 + 0
      BY <2>0
    <3> QED BY <3>1, <3>2, Zenon
  <2>4. d[i] # b - 1 => (d[i] + 1) % b = d[i] + 1
    BY <2>0
  <2> HIDE DEF r2, d2
  <2>5. CASE Carries(d, b, i) /\ d[i] = b - 1
    <3>1. r2[i - 1] = r[i - 1] + 1 /\ r2[i] = r[i] + 1 /\ d2[i] = 0
      BY <2>1, <2>2, <2>3, <2>5
    <3>2. b * (r[i] + 1) = b * r[i] + b
      BY <2>0
    <3> QED BY <2>0, <2>5, <3>1, <3>2
  <2>6. CASE Carries(d, b, i) /\ d[i] # b - 1
    <3>1. r2[i - 1] = r[i - 1] + 1 /\ r2[i] = r[i] /\ d2[i] = d[i] + 1
      BY <2>1, <2>2, <2>4, <2>6
    <3> QED BY <2>0, <3>1
  <2>7. CASE ~ Carries(d, b, i)
    <3>1. r2[i - 1] = r[i - 1] /\ r2[i] = r[i] /\ d2[i] = d[i]
      BY <2>1, <2>2, <2>7
    <3> QED BY <2>0, <3>1
  <2> QED BY <2>5, <2>6, <2>7
<1>7. Splits(r2, d2, n + 1, b, len)
  <2> HIDE DEF r2, d2
  <2> QED BY <1>3, <1>4, <1>5, <1>6 DEF Splits
<1>8. PICK r3 : Splits(r3, Digits(n + 1, b, len), n + 1, b, len)
  BY DigitsSplit, n + 1 \in Nat, b \in Nat \ {0}
<1> HIDE DEF r2, d2
<1>9. Digits(n + 1, b, len) = d2
  BY <1>7, <1>8, OneSplit, n + 1 \in Nat, b \in Nat \ {0}
<1> QED BY <1>9 DEF d2, d

LEMMA PowerSteps ==
  ASSUME NEW b \in Nat \ {0}, NEW len \in Nat
  PROVE  \E p \in [0 .. len -> Nat \ {0}] :
           p[0] = 1 /\ (\A i \in 1 .. len : p[i] = b * p[i - 1]) /\ Power(b, len) = p[len]
<1> DEFINE T == Nat \ {0}
           g == [i \in 1 .. len |-> [x \in T |-> b * x]]
           Goes(f) == f = [i \in 0 .. len |-> IF i = 0 THEN 1 ELSE b * f[i - 1]]
           power == CHOOSE f : Goes(f)
<1>1. ASSUME NEW x \in T PROVE b * x \in T
  <2>1. b * x \in Nat /\ (b - 1) * x \in Nat /\ b * x = (b - 1) * x + x
    OBVIOUS
  <2> QED BY <2>1
<1>2. g \in [1 .. len -> [T -> T]] /\ \A i \in 1 .. len, x \in T : g[i][x] = b * x
  <2> HIDE DEF T
  <2> QED BY <1>1
<1>3. Recursive(len, T, 1, g) # {}
  <2>1. 1 \in T
    OBVIOUS
  <2> HIDE DEF g, T
  <2> QED BY <1>2, <2>1, Recursion
<1>4. PICK f \in Recursive(len, T, 1, g) : TRUE
  <2> HIDE DEF g, T
  <2> QED BY <1>3
<1>5. f \in [0 .. len -> T] /\ f[0] = 1 /\ \A i \in 1 .. len : f[i] = g[i][f[i - 1]]
  <2> HIDE DEF g, T
  <2> QED BY <1>4 DEF Recursive
<1>6. \A i \in 1 .. len : f[i] = b * f[i - 1]
  <2> HIDE DEF T
  <2>1. \A i \in 1 .. len : f[i - 1] \in T
    BY <1>5
  <2> HIDE DEF g
  <2> QED BY <1>2, <1>5, <2>1
<1>7. Goes(f)
  <2> HIDE DEF T
  <2> QED BY <1>5, <1>6
<1>8. Goes(power)
  BY <1>7
<1>9. power[0] = 1 /\ \A i \in 1 .. len : power[i] = b * power[i - 1]
  <2> HIDE DEF power
  <2>1. \A i \in 1 .. len : i \in 0 .. len /\ i # 0
    OBVIOUS
  <2> QED BY <1>8, <2>1
<1>10. power[len] = f[len]
  <2> DEFINE S == {i \in Nat : i <= len => power[i] = f[i]}
  <2> HIDE DEF power
  <2>1. 0 \in S
    BY <1>5, <1>9
  <2>2. ASSUME NEW i \in Nat, i \in S PROVE i + 1 \in S
    <3>1. i + 1 <= len => i + 1 \in 1 .. len /\ (i + 1) - 1 = i
      OBVIOUS
    <3> QED BY <1>6, <1>9, <2>2, <3>1
  <2>3. Nat \subseteq S
    <3> HIDE DEF S
    <3> QED BY <2>1, <2>2, Induction
  <2> QED BY <2>3
<1>11. Power(b, len) = power[len]
  BY DEF Power
<1> HIDE DEF power
<1> QED BY <1>5, <1>6, <1>10, <1>11

LEMMA PowerType ==
  ASSUME NEW b \in Nat \ {0}, NEW len \in Nat
  PROVE  Power(b, len) \in Nat
<1>1. PICK p \in [0 .. len -> Nat \ {0}] : Power(b, len) = p[len]
  BY PowerSteps
<1> QED BY <1>1

(* Numbers with the same digits are apart by a multiple of the power.      *)
LEMMA Apart ==
  ASSUME NEW m \in Nat, NEW n \in Nat, NEW b \in Nat \ {0}, NEW len \in Nat,
         m < n, n - m < Power(b, len)
  PROVE  Digits(m, b, len) # Digits(n, b, len)
<1> SUFFICES ASSUME Digits(m, b, len) = Digits(n, b, len) PROVE FALSE
  OBVIOUS
<1>1. PICK r : Splits(r, Digits(m, b, len), m, b, len)
  BY DigitsSplit
<1>2. PICK q : Splits(q, Digits(n, b, len), n, b, len)
  BY DigitsSplit
<1>3. PICK p \in [0 .. len -> Nat \ {0}] :
        p[0] = 1 /\ (\A i \in 1 .. len : p[i] = b * p[i - 1]) /\ Power(b, len) = p[len]
  BY PowerSteps
<1>4. PICK d : d = Digits(n, b, len)
  OBVIOUS
<1>5. /\ r \in [0 .. len -> Nat] /\ q \in [0 .. len -> Nat] /\ r[0] = m /\ q[0] = n
      /\ d \in [1 .. len -> 0 .. b - 1]
      /\ \A i \in 1 .. len : r[i - 1] = b * r[i] + d[i] /\ q[i - 1] = b * q[i] + d[i]
  BY <1>1, <1>2, <1>4 DEF Splits
<1> DEFINE S == {i \in Nat : i <= len => n - m = p[i] * (q[i] - r[i])}
<1>6. 0 \in S
  BY <1>3, <1>5
<1>7. ASSUME NEW j \in Nat, j \in S, j + 1 <= len PROVE n - m = p[j + 1] * (q[j + 1] - r[j + 1])
  <2>1. PICK i \in 1 .. len : i = j + 1 /\ i - 1 = j /\ j \in 0 .. len /\ i \in 0 .. len
    BY <1>7
  <2>2. r[i] \in Nat /\ q[i] \in Nat /\ p[i] \in Nat /\ p[j] \in Nat /\ d[i] \in 0 .. b - 1
    BY <1>3, <1>5, <2>1
  <2>3. r[j] = b * r[i] + d[i] /\ q[j] = b * q[i] + d[i] /\ p[i] = b * p[j]
    BY <1>3, <1>5, <2>1
  <2>4. PICK u \in Nat, v \in Nat, e \in Nat, P \in Nat :
          u = q[i] /\ v = r[i] /\ e = d[i] /\ P = p[j]
    <3>1. d[i] \in Nat
      BY <2>2
    <3> QED BY <2>2, <3>1
  <2>5. p[j] * (q[j] - r[j]) = p[i] * (q[i] - r[i])
    <3>1. (b * u + e) - (b * v + e) = b * (u - v)
      OBVIOUS
    <3>2. P * (b * (u - v)) = (b * P) * (u - v)
      OBVIOUS
    <3>3. P * ((b * u + e) - (b * v + e)) = (b * P) * (u - v)
      BY <3>1, <3>2, Zenon
    <3> QED BY <2>3, <2>4, <3>3, Zenon
  <2>6. n - m = p[j] * (q[j] - r[j])
    BY <1>7
  <2> QED BY <2>1, <2>5, <2>6
<1>8. n - m = p[len] * (q[len] - r[len])
  <2>1. \A i \in Nat : i \in S => i + 1 \in S
    BY <1>7
  <2>2. Nat \subseteq S
    <3> HIDE DEF S
    <3> QED BY <1>6, <2>1, Induction
  <2> QED BY <2>2
<1>9. ASSUME NEW P \in Nat \ {0}, NEW x \in Int, P * x < P, P * x > 0 PROVE FALSE
  <2>1. x <= 0 \/ x - 1 >= 0
    OBVIOUS
  <2>2. P * x = P * (x - 1) + P
    OBVIOUS
  <2>3. x - 1 >= 0 => P * (x - 1) >= 0
    OBVIOUS
  <2>4. x <= 0 => P * (0 - x) >= 0 /\ P * (0 - x) = 0 - P * x
    OBVIOUS
  <2>5. P * x \in Int /\ P * (x - 1) \in Int
    OBVIOUS
  <2> QED BY <1>9, <2>1, <2>2, <2>3, <2>4, <2>5
<1>10. p[len] \in Nat \ {0} /\ q[len] - r[len] \in Int
  BY <1>5
<1> QED BY <1>3, <1>8, <1>9, <1>10

--------------------------------------------------------------------------------
(* The two counters of the code count.                                     *)
Bytes    == 0 .. ByteBase - 1
Counters == [1 .. CtrBytes -> Bytes]

LEMMA Numbers ==
  /\ Sizes \in SUBSET Nat /\ Yielded \in SUBSET Nat /\ Requests \in Nat /\ Stream \in Nat
  /\ Inits \in Nat /\ Half \in Nat \ {0} /\ CtrBytes \in Nat \ {0} /\ Block \in Nat \ {0}
  /\ WordBase \in Nat \ {0, 1} /\ ByteBase \in Nat \ {0, 1} /\ WordBase % 2 = 0
  /\ Stream <= Half * Power(WordBase, 4) /\ NoData \notin Seeds
  /\ \A n \in Sizes \cup {0} : (n \div Block) + 4 <= Power(ByteBase, CtrBytes)
BY RandomAssumption

LEMMA DigitsType ==
  ASSUME NEW n \in Nat, NEW b \in Nat \ {0}, NEW len \in Nat
  PROVE  Digits(n, b, len) \in [1 .. len -> 0 .. b - 1]
BY DigitsSplit DEF Splits

LEMMA NextCounterCounts ==
  ASSUME NEW n \in Nat
  PROVE  NextCounter(Digits(n, WordBase, 4)) = Digits(n + 1, WordBase, 4)
<1>1. Digits(n + 1, WordBase, 4) = Plus1(Digits(n, WordBase, 4), WordBase, 4)
  BY Numbers, DigitsOfNext, 4 \in Nat
<1> QED BY <1>1 DEF Plus1, Carries, NextCounter

LEMMA ReverseOf ==
  ASSUME NEW n \in Nat, NEW S, NEW f \in [1 .. n -> S]
  PROVE  /\ Reverse(f) \in [1 .. n -> S]
         /\ \A i \in 1 .. n : Reverse(f)[i] = f[(n - i) + 1]
         /\ Reverse(Reverse(f)) = f
<1>1. Len(f) = n
  OBVIOUS
<1>2. Reverse(f) = [i \in 1 .. n |-> f[(n - i) + 1]]
  BY <1>1 DEF Reverse
<1>3. \A i \in 1 .. n : (n - i) + 1 \in 1 .. n /\ (n - ((n - i) + 1)) + 1 = i
  OBVIOUS
<1>4. Reverse(f) \in [1 .. n -> S] /\ \A i \in 1 .. n : Reverse(f)[i] = f[(n - i) + 1]
  BY <1>2, <1>3
<1>5. Len(Reverse(f)) = n
  BY <1>4
<1>6. Reverse(Reverse(f)) = [i \in 1 .. n |-> Reverse(f)[(n - i) + 1]]
  BY <1>5 DEF Reverse
<1>7. \A i \in 1 .. n : Reverse(f)[(n - i) + 1] = f[i]
  BY <1>3, <1>4
<1>8. Reverse(Reverse(f)) = [i \in 1 .. n |-> f[i]]
  BY <1>6, <1>7
<1> QED BY <1>4, <1>8

LEMMA BigEndianType ==
  ASSUME NEW n \in Nat PROVE BigEndian(n) \in Counters
BY Numbers, DigitsType, ReverseOf DEF BigEndian, Counters, Bytes

LEMMA IncrementCounts ==
  ASSUME NEW n \in Nat
  PROVE  Increment(BigEndian(n)) = BigEndian(n + 1)
<1> DEFINE L == CtrBytes
           d == Digits(n, ByteBase, L)
           e == Digits(n + 1, ByteBase, L)
<1>1. L \in Nat /\ ByteBase \in Nat \ {0, 1} /\ n + 1 \in Nat
  BY Numbers
<1>2. d \in [1 .. L -> Bytes] /\ e \in [1 .. L -> Bytes]
  BY <1>1, DigitsType DEF Bytes
<1>3. e = Plus1(d, ByteBase, L)
  BY <1>1, DigitsOfNext
<1>4. BigEndian(n) = Reverse(d) /\ BigEndian(n + 1) = Reverse(e)
  BY DEF BigEndian
<1> HIDE DEF d, e
<1>5. /\ Reverse(d) \in [1 .. L -> Bytes] /\ Reverse(e) \in [1 .. L -> Bytes]
      /\ \A i \in 1 .. L : Reverse(d)[i] = d[(L - i) + 1] /\ Reverse(e)[i] = e[(L - i) + 1]
  <2>1. Reverse(d) \in [1 .. L -> Bytes] /\ \A i \in 1 .. L : Reverse(d)[i] = d[(L - i) + 1]
    BY <1>1, <1>2, ReverseOf
  <2>2. Reverse(e) \in [1 .. L -> Bytes] /\ \A i \in 1 .. L : Reverse(e)[i] = e[(L - i) + 1]
    BY <1>1, <1>2, ReverseOf
  <2> QED BY <2>1, <2>2
<1>6. ASSUME NEW i \in 1 .. L
      PROVE  Reverse(e)[i] = IF \A j \in i + 1 .. L : Reverse(d)[j] = ByteBase - 1
                             THEN (Reverse(d)[i] + 1) % ByteBase ELSE Reverse(d)[i]
  <2>1. PICK k \in 1 .. L : k = (L - i) + 1
    BY <1>1
  <2>2. (\A j \in i + 1 .. L : Reverse(d)[j] = ByteBase - 1) <=> Carries(d, ByteBase, k)
    <3>1. ASSUME NEW j \in i + 1 .. L PROVE (L - j) + 1 \in 1 .. k - 1 /\ j \in 1 .. L
      BY <1>1, <2>1
    <3>2. ASSUME NEW j \in 1 .. k - 1
          PROVE  (L - j) + 1 \in i + 1 .. L /\ (L - ((L - j) + 1)) + 1 = j /\ (L - j) + 1 \in 1 .. L
      BY <1>1, <2>1
    <3>3. ASSUME Carries(d, ByteBase, k), NEW j \in i + 1 .. L PROVE Reverse(d)[j] = ByteBase - 1
      BY <1>5, <3>1, <3>3 DEF Carries
    <3>4. ASSUME \A j \in i + 1 .. L : Reverse(d)[j] = ByteBase - 1, NEW j \in 1 .. k - 1
          PROVE  d[j] = ByteBase - 1
      <4>1. Reverse(d)[(L - j) + 1] = ByteBase - 1
        BY <3>2, <3>4
      <4>2. Reverse(d)[(L - j) + 1] = d[(L - ((L - j) + 1)) + 1]
        BY <1>5, <3>2
      <4> QED BY <3>2, <4>1, <4>2
    <3> QED BY <3>3, <3>4 DEF Carries
  <2>3. Reverse(e)[i] = e[k] /\ Reverse(d)[i] = d[k]
    BY <1>5, <2>1
  <2>4. e[k] = IF Carries(d, ByteBase, k) THEN (d[k] + 1) % ByteBase ELSE d[k]
    BY <1>3 DEF Plus1
  <2> QED BY <2>2, <2>3, <2>4
<1>7. Increment(Reverse(d)) = Reverse(e)
  BY <1>5, <1>6 DEF Increment
<1> QED BY <1>4, <1>7

LEMMA CountersApart ==
  ASSUME NEW m \in Nat, NEW n \in Nat, m < n, n - m < Power(ByteBase, CtrBytes)
  PROVE  BigEndian(m) # BigEndian(n)
<1>1. CtrBytes \in Nat /\ ByteBase \in Nat \ {0}
  BY Numbers
<1>2. /\ Digits(m, ByteBase, CtrBytes) \in [1 .. CtrBytes -> Bytes]
      /\ Digits(n, ByteBase, CtrBytes) \in [1 .. CtrBytes -> Bytes]
  BY <1>1, DigitsType DEF Bytes
<1>3. /\ Reverse(BigEndian(m)) = Digits(m, ByteBase, CtrBytes)
      /\ Reverse(BigEndian(n)) = Digits(n, ByteBase, CtrBytes)
  BY <1>1, <1>2, ReverseOf DEF BigEndian
<1> QED BY <1>1, <1>3, Apart

--------------------------------------------------------------------------------
(* Sequences without repetition.                                           *)
Distinct(s) == \A i, j \in 1 .. Len(s) : s[i] = s[j] => i = j

LEMMA AllDistinct ==
  ASSUME NEW S, NEW s \in Seq(S), Distinct(s)
  PROVE  Cardinality(Range(s)) = Len(s)
<1>1. Len(s) \in Nat /\ DOMAIN s = 1 .. Len(s)
  OBVIOUS
<1>2. Range(s) = {s[i] : i \in 1 .. Len(s)}
  BY <1>1 DEF Range
<1>3. s \in Bijection(1 .. Len(s), Range(s))
  <2>1. s \in [1 .. Len(s) -> Range(s)]
    BY <1>1, <1>2
  <2>2. IsInjective(s)
    BY <1>1 DEF IsInjective, Distinct
  <2>3. \A t \in Range(s) : \E i \in 1 .. Len(s) : s[i] = t
    BY <1>2
  <2> QED BY <2>1, <2>2, <2>3 DEF Bijection, Injection, Surjection
<1>4. ExistsBijection(1 .. Len(s), Range(s))
  BY <1>3 DEF ExistsBijection
<1> QED BY <1>1, <1>4, FS_CountingElements

LEMMA Joined ==
  ASSUME NEW S, NEW s \in Seq(S), NEW t \in Seq(S)
  PROVE  /\ s \o t \in Seq(S) /\ Len(s \o t) = Len(s) + Len(t)
         /\ Len(s) \in Nat /\ Len(t) \in Nat
         /\ \A i \in 1 .. Len(s) : (s \o t)[i] = s[i]
         /\ \A i \in 1 .. Len(t) : (s \o t)[Len(s) + i] = t[i]
         /\ \A i \in 1 .. Len(s \o t) : i \in 1 .. Len(s) \/ \E j \in 1 .. Len(t) : i = Len(s) + j
<1>1. /\ s \o t \in Seq(S) /\ Len(s \o t) = Len(s) + Len(t)
      /\ Len(s) \in Nat /\ Len(t) \in Nat
      /\ \A i \in 1 .. Len(s) : (s \o t)[i] = s[i]
  OBVIOUS
<1>2. ASSUME NEW i \in 1 .. Len(t) PROVE (s \o t)[Len(s) + i] = t[i]
  OBVIOUS
<1>3. ASSUME NEW i \in 1 .. Len(s) + Len(t)
      PROVE  i \in 1 .. Len(s) \/ \E j \in 1 .. Len(t) : i = Len(s) + j
  <2>1. CASE i <= Len(s)
    BY <1>1, <2>1
  <2>2. CASE i > Len(s)
    <3>1. i - Len(s) \in 1 .. Len(t) /\ i = Len(s) + (i - Len(s))
      BY <1>1, <2>2
    <3> QED BY <3>1, Zenon
  <2> QED BY <1>1, <2>1, <2>2
<1> QED BY <1>1, <1>2, <1>3

LEMMA JoinedDistinct ==
  ASSUME NEW S, NEW s \in Seq(S), NEW t \in Seq(S), Distinct(s), Distinct(t),
         \A i \in 1 .. Len(s), j \in 1 .. Len(t) : s[i] # t[j]
  PROVE  Distinct(s \o t)
<1> SUFFICES ASSUME NEW i \in 1 .. Len(s \o t), NEW j \in 1 .. Len(s \o t),
                    (s \o t)[i] = (s \o t)[j]
             PROVE  i = j
  BY DEF Distinct
<1>1. CASE i \in 1 .. Len(s) /\ j \in 1 .. Len(s)
  BY <1>1, Joined DEF Distinct
<1>2. ASSUME NEW k \in 1 .. Len(t), j = Len(s) + k PROVE i = j
  <2>1. (s \o t)[j] = t[k]
    BY <1>2, Joined
  <2>2. CASE i \in 1 .. Len(s)
    BY <2>1, <2>2, Joined
  <2>3. ASSUME NEW l \in 1 .. Len(t), i = Len(s) + l PROVE i = j
    <3>1. t[l] = t[k]
      BY <2>1, <2>3, Joined
    <3> QED BY <1>2, <2>3, <3>1 DEF Distinct
  <2> QED BY <2>2, <2>3, Joined
<1>3. ASSUME NEW k \in 1 .. Len(t), i = Len(s) + k, j \in 1 .. Len(s) PROVE FALSE
  <2>1. (s \o t)[i] = t[k] /\ (s \o t)[j] = s[j]
    BY <1>3, Joined
  <2> QED BY <1>3, <2>1
<1> QED BY <1>1, <1>2, <1>3, Joined

LEMMA SeqIsFunction ==
  ASSUME NEW S, NEW s \in Seq(S)
  PROVE  Len(s) \in Nat /\ s \in [1 .. Len(s) -> S]
OBVIOUS

LEMMA FunctionIsSeq ==
  ASSUME NEW S, NEW n \in Nat, NEW s \in [1 .. n -> S]
  PROVE  s \in Seq(S) /\ Len(s) = n
OBVIOUS

LEMMA Associative ==
  ASSUME NEW S, NEW s \in Seq(S), NEW t \in Seq(S), NEW u \in Seq(S)
  PROVE  (s \o t) \o u = s \o (t \o u)
OBVIOUS

(* The first m elements, and k more.                                       *)
First(f, m)    == [i \in 1 .. m |-> f[i]]
After(f, m, k) == [i \in 1 .. k |-> f[m + i]]

Continues(f, m, k) == First(f, m + k) = First(f, m) \o After(f, m, k)

LEMMA FirstMore ==
  ASSUME NEW S, NEW n \in Nat, NEW f \in [1 .. n -> S], NEW m \in Nat, NEW k \in Nat, m + k <= n
  PROVE  /\ First(f, m) \in Seq(S) /\ Len(First(f, m)) = m
         /\ After(f, m, k) \in Seq(S) /\ Len(After(f, m, k)) = k
         /\ Continues(f, m, k)
<1> DEFINE p == First(f, m)
           q == After(f, m, k)
           r == First(f, m + k)
<1>1. /\ p \in [1 .. m -> S] /\ \A i \in 1 .. m : p[i] = f[i]
      /\ r \in [1 .. m + k -> S] /\ \A i \in 1 .. m + k : r[i] = f[i]
  BY DEF First
<1>2. q \in [1 .. k -> S] /\ \A i \in 1 .. k : q[i] = f[m + i]
  BY DEF After
<1> HIDE DEF p, q, r
<1>3. p \in Seq(S) /\ Len(p) = m /\ q \in Seq(S) /\ Len(q) = k /\ r \in Seq(S) /\ Len(r) = m + k
  BY <1>1, <1>2
<1>4. p \o q \in Seq(S) /\ Len(p \o q) = m + k
  BY <1>3, Joined
<1>5. ASSUME NEW i \in 1 .. m + k PROVE (p \o q)[i] = r[i]
  <2>1. CASE i <= m
    <3>1. i \in 1 .. m
      BY <2>1
    <3> QED BY <1>1, <1>3, <3>1
  <2>2. CASE i > m
    <3>1. PICK j \in 1 .. k : i = m + j
      <4>1. i - m \in 1 .. k /\ i = m + (i - m)
        BY <2>2
      <4> QED BY <4>1, Zenon
    <3>2. (p \o q)[Len(p) + j] = q[j]
      BY <1>3
    <3> QED BY <1>1, <1>2, <1>3, <3>1, <3>2
  <2>3. i <= m \/ i > m
    OBVIOUS
  <2> QED BY <2>1, <2>2, <2>3
<1>6. p \o q = r
  <2>1. p \o q \in [1 .. m + k -> S] /\ r \in [1 .. m + k -> S]
    BY <1>1, <1>4, SeqIsFunction
  <2> QED BY <1>5, <2>1
<1> QED BY <1>3, <1>6 DEF p, q, r, Continues

--------------------------------------------------------------------------------
(* What the three variants have in common.                                 *)
Common ==
  /\ rng \in {"HAL", "NOTRAND", "NISTKAT"} /\ pc \in {"idle", "loop", "update"}
  /\ left \in Nat /\ (pc # "loop" => left = 0) /\ (pc = "update" => rng = "NISTKAT")
  /\ rng # "NOTRAND" => sizes \in Seq(Sizes)

LEMMA InitCommon == Init => Common
BY DEF Init, Common

LEMMA NextCommon ==
  ASSUME Common, [Next]_vars
  PROVE  Common'
<1> USE Numbers
<1>1. ASSUME NEW n \in Sizes, Request(n) PROVE Common'
  <2>1. n \in Nat /\ pc' = "loop" /\ left' = n /\ rng' = rng
    BY <1>1 DEF Request
  <2>2. rng # "NOTRAND" => sizes' \in Seq(Sizes)
    <3> SUFFICES ASSUME rng # "NOTRAND" PROVE sizes' \in Seq(Sizes)
      OBVIOUS
    <3>1. sizes' = Append(sizes, n) /\ sizes \in Seq(Sizes)
      BY <1>1 DEF Request, Common
    <3> HIDE Numbers
    <3> QED BY <3>1
  <2> QED BY <2>1, <2>2 DEF Common
<1>2. CASE Return
  BY <1>2 DEF Return, Common
<1>3. CASE WholeWord
  <2>1. Len([i \in 1 .. 4 |-> WordByte(words, i - 1)]) = 4
    OBVIOUS
  <2>2. left' = left - 4 /\ left > 4 /\ pc = "loop" /\ UNCHANGED <<rng, pc, sizes>>
    BY <1>3, <2>1 DEF WholeWord, Take
  <2> QED BY <2>2 DEF Common
<1>4. CASE LastWord
  <2>1. left \in Nat /\ left \in 1 .. 4
    BY <1>4 DEF LastWord, Common
  <2>2. Len([i \in 1 .. left |-> WordByte(words, left - i)]) = left
    BY <2>1
  <2>3. left' = left - left /\ pc = "loop" /\ UNCHANGED <<rng, pc, sizes>>
    BY <1>4, <2>2 DEF LastWord, Take
  <2> QED BY <2>1, <2>3 DEF Common
<1>5. CASE randombytes_regen \/ BufferedByte
  <2>1. /\ left' = left \/ (left > 0 /\ left' = left - 1)
        /\ pc = "loop" /\ rng = "NOTRAND" /\ UNCHANGED <<rng, pc, sizes>>
    BY <1>5 DEF randombytes_regen, BufferedByte
  <2> QED BY <2>1 DEF Common
<1>6. CASE WholeBlock
  <2>1. left' = left - Block /\ left >= Block /\ pc = "loop" /\ UNCHANGED <<rng, pc, sizes>>
    BY <1>6 DEF WholeBlock, AesBlock
  <2> QED BY <2>1 DEF Common
<1>7. CASE TailBlock
  <2>1. left' = left - left /\ left \in 1 .. Block - 1 /\ pc = "loop" /\ UNCHANGED <<rng, pc, sizes>>
    BY <1>7 DEF TailBlock, AesBlock
  <2> QED BY <2>1 DEF Common
<1>8. CASE BlocksDone \/ nistkat_update
  BY <1>8 DEF BlocksDone, nistkat_update, Common
<1>9. ASSUME NEW s \in Seeds, randombytes_init(s) PROVE Common'
  BY <1>9 DEF randombytes_init, Common
<1>10. CASE UNCHANGED vars
  BY <1>10 DEF vars, Common
<1> QED
  BY <1>1, <1>2, <1>3, <1>4, <1>5, <1>6, <1>7, <1>8, <1>9, <1>10 DEF Next

--------------------------------------------------------------------------------
(* HAL *)

HalBytes  == {"word"} \X Nat \X Nat
HalStates == [word : Nat, out : Seq(HalBytes)]
HalStart  == [word |-> 0, out |-> <<>>]
HalRuns(v, s, n) ==
  /\ v \in [0 .. n -> HalStates] /\ v[0] = HalStart
  /\ \A i \in 1 .. n : v[i] = HalRequest(v[i - 1], s[i])

(* The first m bytes of a request for n.                                   *)
HalPart(st, n, m) ==
  LET spent == (n + 3) \div 4
      last  == n - 4 * (spent - 1)
  IN [i \in 1 .. m |->
        IF i <= n - last THEN WordByte(st.word + (i - 1) \div 4, (i - 1) % 4)
        ELSE WordByte(st.word + spent - 1, n - i)]
HalFills(st, n) ==
  /\ left \in 0 .. n /\ (left > 0 => (n - left) % 4 = 0)
  /\ words = st.word + ((n - left) + 3) \div 4
  /\ given = st.out \o HalPart(st, n, n - left)

HalInv ==
  /\ words \in Nat /\ given \in Seq(HalBytes)
  /\ Distinct(given) /\ \A i \in 1 .. Len(given) : given[i][2] < words
  /\ pc = "idle" => \E v : /\ HalRuns(v, sizes, Len(sizes))
                           /\ given = v[Len(sizes)].out /\ words = v[Len(sizes)].word
  /\ pc = "loop" => /\ Len(sizes) > 0
                    /\ \E v : /\ HalRuns(v, sizes, Len(sizes) - 1)
                              /\ HalFills(v[Len(sizes) - 1], sizes[Len(sizes)])

LEMMA HalRequestIs ==
  ASSUME NEW st \in HalStates, NEW n \in Nat
  PROVE  /\ HalRequest(st, n) = [word |-> st.word + ((n + 3) \div 4), out |-> st.out \o HalPart(st, n, n)]
         /\ HalRequest(st, n) \in HalStates
         /\ HalPart(st, n, n) \in [1 .. n -> HalBytes]
<1>1. HalRequest(st, n) = [word |-> st.word + ((n + 3) \div 4), out |-> st.out \o HalPart(st, n, n)]
  BY DEF HalRequest, HalPart
<1>2. PICK p \in [1 .. n -> HalBytes] : p = HalPart(st, n, n)
  <2>1. PICK w \in Nat, spent \in Nat : w = st.word /\ spent = (n + 3) \div 4
    BY DEF HalStates
  <2>2. n - 4 * (spent - 1) \in Nat
    BY <2>1
  <2>3. ASSUME NEW i \in 1 .. n
        PROVE  /\ i <= n - (n - 4 * (spent - 1)) => WordByte(w + (i - 1) \div 4, (i - 1) % 4) \in HalBytes
               /\ i > n - (n - 4 * (spent - 1)) => WordByte(w + spent - 1, n - i) \in HalBytes
    <3>1. (i - 1) \div 4 \in Nat /\ (i - 1) % 4 \in Nat /\ n - i \in Nat /\ spent > 0
      BY <2>1
    <3>2. w + (i - 1) \div 4 \in Nat /\ w + spent - 1 \in Nat
      BY <3>1
    <3> QED BY <3>1, <3>2 DEF WordByte, HalBytes
  <2>4. HalPart(st, n, n) = [i \in 1 .. n |->
          IF i <= n - (n - 4 * (spent - 1)) THEN WordByte(w + (i - 1) \div 4, (i - 1) % 4)
          ELSE WordByte(w + spent - 1, n - i)]
    BY <2>1 DEF HalPart
  <2>5. \A i \in 1 .. n : i <= n - (n - 4 * (spent - 1)) \/ i > n - (n - 4 * (spent - 1))
    BY <2>1
  <2> HIDE DEF HalBytes
  <2>6. HalPart(st, n, n) \in [1 .. n -> HalBytes]
    BY <2>3, <2>4, <2>5
  <2> QED BY <2>6
<1>3. p \in Seq(HalBytes) /\ st.out \in Seq(HalBytes) /\ st.word + ((n + 3) \div 4) \in Nat
  <2>1. p \in Seq(HalBytes)
    BY <1>2
  <2> QED BY <2>1 DEF HalStates
<1>4. st.out \o p \in Seq(HalBytes)
  <2> HIDE DEF HalBytes
  <2> QED BY <1>3
<1> QED BY <1>1, <1>2, <1>3, <1>4 DEF HalStates

HalContinues(st, n, m, k) ==
  HalPart(st, n, m + k) = HalPart(st, n, m) \o After(HalPart(st, n, n), m, k)

LEMMA HalPartMore ==
  ASSUME NEW st \in HalStates, NEW n \in Nat, NEW m \in Nat, NEW k \in Nat, m + k <= n
  PROVE  /\ HalPart(st, n, m) \in Seq(HalBytes)
         /\ HalContinues(st, n, m, k)
         /\ After(HalPart(st, n, n), m, k) \in Seq(HalBytes)
<1>1. HalPart(st, n, n) \in [1 .. n -> HalBytes]
  BY HalRequestIs
<1>2. HalPart(st, n, m) = First(HalPart(st, n, n), m)
  <2>1. \A i \in 1 .. m : i \in 1 .. n
    OBVIOUS
  <2> QED BY <2>1 DEF HalPart, First
<1>3. HalPart(st, n, m + k) = First(HalPart(st, n, n), m + k)
  <2>1. \A i \in 1 .. m + k : i \in 1 .. n
    OBVIOUS
  <2> QED BY <2>1 DEF HalPart, First
<1> HIDE DEF HalBytes
<1>4. PICK f \in [1 .. n -> HalBytes] : f = HalPart(st, n, n)
  BY <1>1
<1>5. /\ First(f, m) \in Seq(HalBytes) /\ After(f, m, k) \in Seq(HalBytes)
      /\ Continues(f, m, k)
  BY FirstMore
<1> QED BY <1>2, <1>3, <1>4, <1>5, Zenon DEF Continues, HalContinues

(* What is taken is what is due next.                                      *)
HalNext(B) ==
  \A v : HalRuns(v, sizes, Len(sizes) - 1) /\ HalFills(v[Len(sizes) - 1], sizes[Len(sizes)]) =>
    \A j \in 1 .. Len(B) :
      HalPart(v[Len(sizes) - 1], sizes[Len(sizes)], sizes[Len(sizes)])
        [(sizes[Len(sizes)] - left) + j] = B[j]

LEMMA NextHal ==
  ASSUME Common, rng = "HAL", HalInv, [Next]_vars
  PROVE  HalInv'
<1>0. PICK L \in Nat : sizes \in Seq(Sizes) /\ sizes \in Seq(Nat) /\ L = Len(sizes)
  <2>1. sizes \in Seq(Sizes) /\ Sizes \in SUBSET Nat
    BY Numbers DEF Common
  <2>2. Len(sizes) \in Nat /\ sizes \in [1 .. Len(sizes) -> Sizes]
    BY <2>1, SeqIsFunction
  <2>3. sizes \in [1 .. Len(sizes) -> Nat]
    BY <2>1, <2>2
  <2>4. sizes \in Seq(Nat)
    BY <2>2, <2>3, FunctionIsSeq
  <2> QED BY <2>1, <2>2, <2>4
<1>1. ASSUME NEW n \in Sizes, Request(n) PROVE HalInv'
  <2>1. /\ pc = "idle" /\ pc' = "loop" /\ left' = n /\ sizes' = Append(sizes, n)
        /\ UNCHANGED <<given, words>>
    BY <1>1 DEF Request, hal
  <2>2. PICK v : HalRuns(v, sizes, L) /\ given = v[L].out /\ words = v[L].word
    BY <1>0, <2>1 DEF HalInv
  <2>3. Len(sizes') = L + 1 /\ sizes'[L + 1] = n /\ \A i \in 1 .. L : sizes'[i] = sizes[i]
    BY <1>0, <2>1
  <2>4. HalRuns(v, sizes', L)
    BY <2>2, <2>3 DEF HalRuns
  <2>5. HalFills(v[L], n)'
    <3>1. v[L] \in HalStates /\ v[L].word \in Nat /\ v[L].out \in Seq(HalBytes)
      BY <1>0, <2>2 DEF HalRuns, HalStates
    <3>2. n \in Nat /\ (n - n) % 4 = 0 /\ ((n - n) + 3) \div 4 = 0
      BY Numbers
    <3>3. HalPart(v[L], n, n - n) = <<>>
      BY <3>2 DEF HalPart
    <3>4. v[L].out \o <<>> = v[L].out
      <4> HIDE DEF HalBytes
      <4> QED BY <3>1
    <3>5. left' \in 0 .. n /\ (left' > 0 => (n - left') % 4 = 0)
      BY <2>1, <3>2
    <3>6. words' = v[L].word + ((n - left') + 3) \div 4
      BY <2>1, <2>2, <3>1, <3>2
    <3>7. given' = v[L].out \o HalPart(v[L], n, n - left')
      BY <2>1, <2>2, <3>3, <3>4, Zenon
    <3> QED BY <3>5, <3>6, <3>7 DEF HalFills
  <2> QED BY <1>0, <2>1, <2>3, <2>4, <2>5 DEF HalInv
<1>2. CASE Return
  <2>1. pc = "loop" /\ left = 0 /\ pc' = "idle" /\ UNCHANGED <<sizes, given, words>>
    BY <1>2 DEF Return, hal
  <2>2. L > 0 /\ L - 1 \in Nat /\ (L - 1) + 1 = L /\ sizes[L] \in Nat
    BY <1>0, <2>1 DEF HalInv
  <2>3. PICK v : HalRuns(v, sizes, L - 1) /\ HalFills(v[L - 1], sizes[L])
    BY <1>0, <2>1 DEF HalInv
  <2>4. PICK st \in HalStates : st = v[L - 1]
    BY <2>2, <2>3 DEF HalRuns
  <2>5. PICK n \in Nat : n = sizes[L]
    BY <2>2
  <2>6. HalFills(st, n)
    BY <2>3, <2>4, <2>5
  <2> DEFINE new == HalRequest(st, n)
             w == [i \in 0 .. L |-> IF i < L THEN v[i] ELSE new]
  <2>7. new \in HalStates /\ given = new.out /\ words = new.word
    <3>1. n - 0 = n
      OBVIOUS
    <3>2. words = st.word + ((n + 3) \div 4) /\ given = st.out \o HalPart(st, n, n)
      BY <2>1, <2>6, <3>1 DEF HalFills
    <3>3. new.word = st.word + ((n + 3) \div 4) /\ new.out = st.out \o HalPart(st, n, n)
      BY DEF HalRequest, HalPart
    <3>4. new \in HalStates
      <4> HIDE DEF HalStates
      <4> QED BY HalRequestIs
    <3> HIDE DEF new
    <3> QED BY <3>2, <3>3, <3>4
  <2>8. HalRuns(w, sizes, L)
    <3> HIDE DEF new
    <3>1. v \in [0 .. L - 1 -> HalStates] /\ v[0] = HalStart
      BY <2>3 DEF HalRuns
    <3>2. w \in [0 .. L -> HalStates]
      <4>1. ASSUME NEW i \in 0 .. L PROVE w[i] \in HalStates
        <5>1. i < L => i \in 0 .. L - 1
          BY <2>2
        <5> QED BY <2>7, <3>1, <5>1
      <4> QED BY <4>1
    <3>3. w[0] = HalStart
      BY <2>2, <3>1
    <3>4. ASSUME NEW i \in 1 .. L PROVE w[i] = HalRequest(w[i - 1], sizes[i])
      <4>1. CASE i < L
        <5>1. w[i] = v[i] /\ w[i - 1] = v[i - 1] /\ i \in 1 .. L - 1
          BY <2>2, <4>1
        <5> QED BY <2>3, <5>1 DEF HalRuns
      <4>2. CASE i = L
        <5>1. w[i] = new /\ w[i - 1] = v[L - 1]
          BY <2>2, <4>2
        <5> QED BY <2>4, <2>5, <4>2, <5>1 DEF new
      <4> QED BY <2>2, <4>1, <4>2
    <3> HIDE DEF w
    <3> QED BY <3>2, <3>3, <3>4 DEF HalRuns
  <2>9. w[L] = new
    BY <2>2
  <2> HIDE DEF new, w
  <2>10. HalRuns(w, sizes', Len(sizes')) /\ given' = w[Len(sizes')].out /\ words' = w[Len(sizes')].word
    BY <1>0, <2>1, <2>7, <2>8, <2>9
  <2> QED BY <2>1, <2>10 DEF HalInv
(* A word more, of which the request takes k bytes.                        *)
<1>3. ASSUME NEW B \in Seq(HalBytes), pc = "loop", Take(B), HalNext(B),
             Len(B) \in 1 .. left, Len(B) <= 4, Len(B) < left => Len(B) = 4,
             Distinct(B), \A j \in 1 .. Len(B) : B[j][2] = words
      PROVE  HalInv'
  <2>0. PICK k \in Nat : k = Len(B)
    BY <1>3
  <2>1. /\ words' = words + 1 /\ given' = given \o B /\ left' = left - k
        /\ UNCHANGED <<pc, sizes>>
    BY <1>3, <2>0 DEF Take
  <2>2. L > 0 /\ L - 1 \in Nat /\ (L - 1) + 1 = L /\ sizes[L] \in Nat
    BY <1>0, <1>3 DEF HalInv
  <2>3. PICK v : HalRuns(v, sizes, L - 1) /\ HalFills(v[L - 1], sizes[L])
    BY <1>0, <1>3 DEF HalInv
  <2>4. PICK st \in HalStates : st = v[L - 1]
    BY <2>2, <2>3 DEF HalRuns
  <2>5. PICK n \in Nat : n = sizes[L]
    BY <2>2
  <2>6. HalFills(st, n)
    BY <2>3, <2>4, <2>5
  <2>7. \A j \in 1 .. k : HalPart(st, n, n)[(n - left) + j] = B[j]
    BY <1>0, <1>3, <2>0, <2>3, <2>4, <2>5 DEF HalNext
  <2>8. /\ left \in 0 .. n /\ (n - left) % 4 = 0 /\ words = st.word + ((n - left) + 3) \div 4
        /\ given = st.out \o HalPart(st, n, n - left)
    BY <1>3, <2>6 DEF HalFills
  <2>9. PICK m \in Nat : m = n - left /\ m + k = n - left' /\ m + k <= n /\ n - left' \in Nat
    <3>1. n - left \in Nat /\ (n - left) + k = n - left' /\ (n - left) + k <= n /\ n - left' \in Nat
      BY <1>3, <2>0, <2>1, <2>8
    <3> QED BY <3>1, Zenon
  <2>10. HalPart(st, n, m + k) = HalPart(st, n, m) \o B /\ HalPart(st, n, m) \in Seq(HalBytes)
    <3> HIDE DEF HalBytes, HalStates
    <3>1. B = After(HalPart(st, n, n), m, k)
      <4>1. B \in [1 .. k -> HalBytes]
        BY <1>3, <2>0
      <4> QED BY <2>7, <2>9, <4>1 DEF After
    <3>2. HalContinues(st, n, m, k) /\ HalPart(st, n, m) \in Seq(HalBytes)
      BY <2>9, HalPartMore
    <3> QED BY <3>1, <3>2, Zenon DEF HalContinues
  <2>11. given' = st.out \o HalPart(st, n, n - left')
    <3>1. st.out \in Seq(HalBytes)
      BY DEF HalStates
    <3> HIDE DEF HalBytes
    <3>2. PICK s \in Seq(HalBytes), t \in Seq(HalBytes) : s = st.out /\ t = HalPart(st, n, m)
      BY <2>10, <3>1
    <3>3. (s \o t) \o B = s \o (t \o B)
      OBVIOUS
    <3>4. given' = (s \o t) \o B
      BY <2>1, <2>8, <2>9, <3>2, Zenon
    <3>5. st.out \o HalPart(st, n, n - left') = s \o (t \o B)
      BY <2>9, <2>10, <3>2, Zenon
    <3> QED BY <3>3, <3>4, <3>5, Zenon
  <2>12. /\ left' \in 0 .. n /\ (left' > 0 => (n - left') % 4 = 0)
         /\ words' = st.word + ((n - left') + 3) \div 4
    <3>1. st.word \in Nat
      BY DEF HalStates
    <3>2. (left' > 0 => k = 4) /\ k \in 1 .. 4
      BY <1>3, <2>0, <2>1, <2>8
    <3>3. PICK q \in Nat : m = 4 * q
      <4>1. m = 4 * (m \div 4) + (m % 4) /\ m \div 4 \in Nat /\ m % 4 = 0
        BY <2>8, <2>9
      <4>2. m = 4 * (m \div 4)
        BY <4>1
      <4> QED BY <4>1, <4>2, Zenon
    <3>4. words' = st.word + q + 1 /\ ((m + k) + 3) \div 4 = q + 1
      BY <2>1, <2>8, <2>9, <3>1, <3>2, <3>3
    <3>5. left' > 0 => (m + k) % 4 = 0
      BY <3>2, <3>3
    <3>6. left' \in 0 .. n
      BY <1>3, <2>0, <2>1, <2>8
    <3>7. words' = st.word + ((m + k) + 3) \div 4
      BY <3>1, <3>4
    <3> QED BY <2>9, <3>5, <3>6, <3>7
  <2>13. HalFills(st, n)'
    BY <2>11, <2>12 DEF HalFills
  <2>14. given \in Seq(HalBytes) /\ Distinct(given) /\ \A i \in 1 .. Len(given) : given[i][2] < words
    BY DEF HalInv
  <2>15. words \in Nat
    BY DEF HalInv
  <2> HIDE DEF HalBytes
  <2>16. given' \in Seq(HalBytes) /\ Distinct(given')
    <3>1. \A i \in 1 .. Len(given), j \in 1 .. Len(B) : given[i] # B[j]
      <4>1. ASSUME NEW i \in 1 .. Len(given), NEW j \in 1 .. Len(B), given[i] = B[j] PROVE FALSE
        <5>1. given[i][2] < words /\ B[j][2] = words
          BY <1>3, <2>14
        <5> QED BY <2>15, <4>1, <5>1
      <4> QED BY <4>1
    <3> QED BY <1>3, <2>1, <2>14, <3>1, Joined, JoinedDistinct
  <2>17. ASSUME NEW i \in 1 .. Len(given') PROVE given'[i][2] < words'
    <3>1. CASE i \in 1 .. Len(given)
      <4>1. given'[i] = given[i] /\ given[i][2] < words
        BY <1>3, <2>1, <2>14, <3>1, Joined
      <4>2. given[i] \in HalBytes
        BY <2>14, <3>1
      <4>3. given[i][2] \in Nat
        BY <4>2 DEF HalBytes
      <4> QED BY <2>1, <2>15, <4>1, <4>3
    <3>2. ASSUME NEW j \in 1 .. Len(B), i = Len(given) + j PROVE given'[i][2] < words'
      <4>1. given'[i] = B[j]
        BY <1>3, <2>1, <2>14, <3>2, Joined
      <4> QED BY <1>3, <2>1, <2>15, <4>1
    <3>3. i \in 1 .. Len(given) \/ \E j \in 1 .. Len(B) : i = Len(given) + j
      BY <1>3, <2>1, <2>14, Joined
    <3> QED BY <3>1, <3>2, <3>3
  <2>18. pc' = "loop" /\ Len(sizes') > 0 /\ HalRuns(v, sizes', Len(sizes') - 1) /\ words' \in Nat
    BY <1>0, <1>3, <2>1, <2>2, <2>3, <2>15
  <2>19. HalFills(v[Len(sizes) - 1], sizes[Len(sizes)])'
    <3>1. v[Len(sizes') - 1] = st /\ sizes'[Len(sizes')] = n
      BY <1>0, <2>1, <2>4, <2>5
    <3> QED BY <2>11, <2>12, <3>1 DEF HalFills
  <2> QED BY <2>16, <2>17, <2>18, <2>19 DEF HalInv
<1>4. CASE WholeWord
  <2> DEFINE B == [i \in 1 .. 4 |-> WordByte(words, i - 1)]
  <2>1. pc = "loop" /\ left > 4 /\ Take(B) /\ words \in Nat /\ left \in Nat
    BY <1>4 DEF WholeWord, HalInv, Common
  <2>2. B \in Seq(HalBytes) /\ Len(B) = 4 /\ \A j \in 1 .. 4 : B[j] = <<"word", words, j - 1>>
    <3>1. \A j \in 1 .. 4 : WordByte(words, j - 1) \in HalBytes
      BY <2>1 DEF WordByte, HalBytes
    <3>2. B \in [1 .. 4 -> HalBytes]
      BY <3>1
    <3> QED BY <3>2 DEF WordByte
  <2>3. Distinct(B) /\ \A j \in 1 .. 4 : B[j][2] = words
    BY <2>2 DEF Distinct
  <2>4. ASSUME NEW v, NEW n, n = sizes[L], HalRuns(v, sizes, L - 1), HalFills(v[L - 1], n),
               NEW j \in 1 .. 4
        PROVE  HalPart(v[L - 1], n, n)[(n - left) + j] = B[j]
    <3>1. L > 0 /\ L - 1 \in Nat /\ n \in Nat
      BY <1>0, <2>1, <2>4 DEF HalInv
    <3>2. PICK st \in HalStates : st = v[L - 1]
      BY <2>4, <3>1 DEF HalRuns
    <3>3. left \in 0 .. n /\ (n - left) % 4 = 0 /\ words = st.word + ((n - left) + 3) \div 4
      BY <2>1, <2>4, <3>2 DEF HalFills
    <3>4. PICK i \in 1 .. n : i = (n - left) + j
      BY <2>1, <3>1, <3>3
    <3>5. PICK spent \in Nat : spent = (n + 3) \div 4
      BY <3>1
    <3>6. i <= n - (n - 4 * (spent - 1)) /\ (i - 1) % 4 = j - 1
      BY <2>1, <3>1, <3>3, <3>4, <3>5
    <3>7. st.word + (i - 1) \div 4 = words
      <4>1. (i - 1) \div 4 = ((n - left) + 3) \div 4
        BY <2>1, <3>1, <3>3, <3>4
      <4> QED BY <3>3, <4>1
    <3>8. HalPart(st, n, n)[i] = WordByte(words, j - 1)
      BY <3>5, <3>6, <3>7 DEF HalPart
    <3> QED BY <2>2, <3>2, <3>4, <3>8 DEF WordByte
  <2> HIDE DEF B
  <2>5. HalNext(B)
    BY <1>0, <2>2, <2>4 DEF HalNext
  <2>6. Len(B) \in 1 .. left /\ Len(B) <= 4 /\ (Len(B) < left => Len(B) = 4)
    BY <2>1, <2>2
  <2>7. \A j \in 1 .. Len(B) : B[j][2] = words
    BY <2>2, <2>3
  <2> QED BY <1>3, <2>1, <2>2, <2>3, <2>5, <2>6, <2>7
<1>5. CASE LastWord
  <2> DEFINE B == [i \in 1 .. left |-> WordByte(words, left - i)]
  <2>1. pc = "loop" /\ left \in 1 .. 4 /\ Take(B) /\ words \in Nat /\ left \in Nat
    BY <1>5 DEF LastWord, HalInv, Common
  <2>2. B \in Seq(HalBytes) /\ Len(B) = left /\ \A j \in 1 .. left : B[j] = <<"word", words, left - j>>
    <3>1. \A j \in 1 .. left : WordByte(words, left - j) \in HalBytes
      BY <2>1 DEF WordByte, HalBytes
    <3>2. B \in [1 .. left -> HalBytes]
      BY <3>1
    <3>3. B \in Seq(HalBytes) /\ Len(B) = left
      <4> HIDE DEF B, HalBytes
      <4> QED BY <2>1, <3>2, FunctionIsSeq
    <3> QED BY <3>3 DEF WordByte
  <2>3. Distinct(B) /\ \A j \in 1 .. left : B[j][2] = words
    <3>1. ASSUME NEW i \in 1 .. left, NEW j \in 1 .. left, B[i] = B[j] PROVE i = j
      <4>1. left - i = left - j
        BY <2>2, <3>1
      <4> QED BY <2>1, <4>1
    <3> HIDE DEF B
    <3>2. Distinct(B)
      BY <2>2, <3>1 DEF Distinct
    <3> QED BY <2>2, <3>2
  <2>4. ASSUME NEW v, NEW n, n = sizes[L], HalRuns(v, sizes, L - 1), HalFills(v[L - 1], n),
               NEW j \in 1 .. left
        PROVE  HalPart(v[L - 1], n, n)[(n - left) + j] = B[j]
    <3>1. L > 0 /\ L - 1 \in Nat /\ n \in Nat
      BY <1>0, <2>1, <2>4 DEF HalInv
    <3>2. PICK st \in HalStates : st = v[L - 1]
      BY <2>4, <3>1 DEF HalRuns
    <3>3. left \in 0 .. n /\ (n - left) % 4 = 0 /\ words = st.word + ((n - left) + 3) \div 4
      BY <2>1, <2>4, <3>2 DEF HalFills
    <3>4. PICK i \in 1 .. n : i = (n - left) + j
      BY <2>1, <3>1, <3>3
    <3>5. PICK spent \in Nat : spent = (n + 3) \div 4
      BY <3>1
    <3>6. ~ (i <= n - (n - 4 * (spent - 1))) /\ n - i = left - j
      BY <2>1, <3>1, <3>3, <3>4, <3>5
    <3>7. st.word + spent - 1 = words
      <4>1. spent - 1 = ((n - left) + 3) \div 4
        BY <2>1, <3>1, <3>3, <3>5
      <4>2. st.word \in Nat
        BY DEF HalStates
      <4> QED BY <3>3, <4>1, <4>2
    <3>8. HalPart(st, n, n)[i] = WordByte(words, left - j)
      BY <3>5, <3>6, <3>7 DEF HalPart
    <3> QED BY <2>2, <3>2, <3>4, <3>8 DEF WordByte
  <2> HIDE DEF B
  <2>5. HalNext(B)
    BY <1>0, <2>2, <2>4 DEF HalNext
  <2>6. Len(B) \in 1 .. left /\ Len(B) <= 4 /\ (Len(B) < left => Len(B) = 4)
    BY <2>1, <2>2
  <2>7. \A j \in 1 .. Len(B) : B[j][2] = words
    BY <2>2, <2>3
  <2> QED BY <1>3, <2>1, <2>2, <2>3, <2>5, <2>6, <2>7
<1>6. CASE UNCHANGED vars
  BY <1>6 DEF vars, hal, HalInv, HalFills
<1>7. ~ (\/ randombytes_regen \/ BufferedByte
         \/ WholeBlock \/ TailBlock \/ BlocksDone \/ nistkat_update
         \/ \E s \in Seeds : randombytes_init(s))
  BY DEF Common, randombytes_regen, BufferedByte, WholeBlock, TailBlock, BlocksDone, nistkat_update,
         randombytes_init
<1> QED
  BY <1>1, <1>2, <1>4, <1>5, <1>6, <1>7 DEF Next

LEMMA InitHal == Init => HalInv
<1> SUFFICES ASSUME Init PROVE HalInv
  OBVIOUS
<1>1. /\ pc = "idle" /\ words = 0 /\ given = <<>> /\ sizes = <<>>
      /\ Len(sizes) = 0 /\ Len(given) = 0
  BY DEF Init
<1>2. HalStart \in HalStates /\ HalStart.word = 0 /\ HalStart.out = <<>>
  BY DEF HalStart, HalStates
<1> DEFINE v == [i \in 0 .. 0 |-> HalStart]
<1>3. v \in [0 .. 0 -> HalStates] /\ v[0] = HalStart
  BY <1>2
<1> HIDE DEF v
<1>4. HalRuns(v, sizes, Len(sizes))
  BY <1>1, <1>3 DEF HalRuns
<1>5. given \in Seq(HalBytes)
  BY <1>1
<1> QED BY <1>1, <1>2, <1>3, <1>4, <1>5 DEF HalInv, Distinct

LEMMA HalFold ==
  ASSUME NEW s \in Seq(Nat), NEW v, HalRuns(v, s, Len(s))
  PROVE  FoldLeft(HalRequest, HalStart, s) = v[Len(s)]
<1> DEFINE L == Len(s)
           g == [k \in 1 .. L |-> [x \in HalStates |-> HalRequest(x, s[k])]]
           Iter(h) == h = [t \in SUBSET (1 .. L) |->
                             IF t = {} THEN HalStart
                             ELSE HalRequest(h[t \ {Max(t)}], s[Max(t)])]
           iter == CHOOSE h : Iter(h)
<1>1. L \in Nat /\ DOMAIN s = 1 .. L /\ \A k \in 1 .. L : s[k] \in Nat
  OBVIOUS
<1>2. /\ g \in [1 .. L -> [HalStates -> HalStates]]
      /\ \A k \in 1 .. L, x \in HalStates : g[k][x] = HalRequest(x, s[k])
  <2>1. \A k \in 1 .. L, x \in HalStates : HalRequest(x, s[k]) \in HalStates
    BY <1>1, HalRequestIs
  <2> QED BY <2>1
<1>3. ASSUME NEW t \in SUBSET (1 .. L), t # {} PROVE Max(t) \in 1 .. L
  <2>1. Max(t) \in t
    BY <1>1, <1>3, MaxOf
  <2> QED BY <2>1
<1>0. HalStart \in HalStates
  BY DEF HalStart, HalStates
<1>4. PICK h \in [SUBSET (1 .. L) -> HalStates] : IsFold(h, L, HalStates, HalStart, g)
  <2> HIDE DEF g, L
  <2>1. FoldsIn(L, HalStates, HalStart, g) # {}
    BY <1>0, <1>1, <1>2, FoldExists
  <2> QED BY <2>1 DEF FoldsIn
<1>5. Iter(h)
  <2>1. ASSUME NEW t \in SUBSET (1 .. L)
        PROVE  h[t] = IF t = {} THEN HalStart ELSE HalRequest(h[t \ {Max(t)}], s[Max(t)])
    <3>1. t # {} => h[t \ {Max(t)}] \in HalStates /\ Max(t) \in 1 .. L
      BY <1>3, <1>4
    <3> HIDE DEF g, L
    <3> QED BY <1>2, <1>4, <3>1 DEF IsFold
  <2> QED BY <2>1
<1>6. Iter(iter)
  BY <1>5
<1>7. FoldLeft(HalRequest, HalStart, s) = iter[1 .. L]
  BY <1>1 DEF FoldLeft, MapThenFoldSet
<1>8. v \in Recursive(L, HalStates, HalStart, g)
  <2>1. /\ v \in [0 .. L -> HalStates] /\ v[0] = HalStart
        /\ \A i \in 1 .. L : v[i] = HalRequest(v[i - 1], s[i])
    BY DEF HalRuns
  <2> HIDE DEF g, L, HalStates
  <2>2. \A k \in 1 .. L : v[k - 1] \in HalStates
    BY <1>1, <2>1
  <2>3. \A k \in 1 .. L : v[k] = g[k][v[k - 1]]
    BY <1>2, <2>1, <2>2
  <2> QED BY <2>1, <2>3 DEF Recursive
<1>9. IsFold(iter, L, HalStates, HalStart, g)
  <2> SUFFICES ASSUME NEW t \in SUBSET (1 .. L)
               PROVE  IF t = {} THEN iter[t] = HalStart
                      ELSE iter[t \ {Max(t)}] \in HalStates
                             => iter[t] = g[Max(t)][iter[t \ {Max(t)}]]
    BY DEF IsFold
  <2>1. iter[t] = IF t = {} THEN HalStart ELSE HalRequest(iter[t \ {Max(t)}], s[Max(t)])
    <3> HIDE DEF iter
    <3> QED BY <1>6
  <2>2. t # {} => Max(t) \in 1 .. L
    BY <1>3
  <2> HIDE DEF iter, g, L
  <2> QED BY <1>2, <2>1, <2>2
<1>10. iter[1 .. L] = v[L]
  <2> HIDE DEF iter, g, L
  <2>1. ComesTo(iter, L, v)
    BY <1>0, <1>1, <1>2, <1>8, <1>9, FoldSteps
  <2> QED BY <2>1 DEF ComesTo
<1> QED BY <1>7, <1>10

--------------------------------------------------------------------------------
(* NOTRAND *)

Counter(n)   == Digits(n, WordBase, 4)
NotRandBytes == {"surf"} \X [1 .. 4 -> 0 .. WordBase - 1] \X Nat

NotRandInv ==
  /\ pc # "update" /\ Len(given) \in Nat /\ given = NotRandStream(Len(given))
  /\ Len(given) + left <= Stream
  /\ sizes = <<Len(given) + left>> \/ (sizes = <<>> /\ given = <<>> /\ left = 0)
  /\ outleft \in 0 .. 2 * Half
  /\ \E g \in Nat : /\ in = Counter(2 * g) /\ Len(given) + outleft = (2 * Half) * g
                    /\ outleft > 0 => /\ g > 0
                                      /\ out_buf = surf(Counter(2 * g - 1)) \o surf(Counter(2 * g))

LEMMA CounterType ==
  ASSUME NEW n \in Nat PROVE Counter(n) \in [1 .. 4 -> 0 .. WordBase - 1]
BY Numbers, DigitsType, 4 \in Nat DEF Counter

LEMMA CounterZero == Counter(0) = <<0, 0, 0, 0>>
<1> DEFINE r == [i \in 0 .. 4 |-> 0]
           d == [i \in 1 .. 4 |-> 0]
<1>1. WordBase \in Nat \ {0} /\ 0 \in 0 .. WordBase - 1 /\ 0 = WordBase * 0 + 0
  BY Numbers
<1>2. Splits(r, d, 0, WordBase, 4)
  BY <1>1 DEF Splits
<1>3. PICK q : Splits(q, Counter(0), 0, WordBase, 4)
  BY <1>1, DigitsSplit, 0 \in Nat, 4 \in Nat DEF Counter
<1>4. Counter(0) = d
  <2> HIDE DEF r, d
  <2> QED BY <1>1, <1>2, <1>3, OneSplit, 0 \in Nat, 4 \in Nat
<1> QED BY <1>4

(* Byte number i of the stream.                                            *)
Buffer(i)      == (i - 1) \div (2 * Half)
Place(i)       == 2 * Half - 1 - ((i - 1) % (2 * Half))
CountOf(i)     == 2 * Buffer(i) + 1 + (Place(i) \div Half)
NotRandByte(i) == <<"surf", Counter(CountOf(i)), Place(i) % Half>>

LEMMA StreamOfBytes ==
  ASSUME NEW n \in Nat
  PROVE  NotRandStream(n) = [i \in 1 .. n |-> NotRandByte(i)]
BY DEF NotRandStream, NotRandByte, Buffer, Place, CountOf, Counter

LEMMA ByteParts ==
  ASSUME NEW i \in Nat \ {0}
  PROVE  /\ Buffer(i) \in Nat /\ Place(i) \in 0 .. 2 * Half - 1 /\ CountOf(i) \in Nat
         /\ Place(i) \div Half \in {0, 1} /\ Place(i) % Half \in 0 .. Half - 1
         /\ Place(i) = Half * (Place(i) \div Half) + (Place(i) % Half)
         /\ i = (2 * Half) * Buffer(i) + 2 * Half - Place(i)
<1>1. PICK H \in Nat \ {0} : H = Half /\ 2 * H \in Nat \ {0}
  BY Numbers
<1>2. PICK b \in Nat, r \in 0 .. 2 * H - 1 :
        b = (i - 1) \div (2 * H) /\ r = (i - 1) % (2 * H) /\ i - 1 = (2 * H) * b + r
  <2>1. PICK x \in Nat, B \in Nat \ {0} : x = i - 1 /\ B = 2 * H
    BY <1>1, i - 1 \in Nat
  <2>2. x \div B \in Nat /\ x % B \in 0 .. B - 1 /\ x = B * (x \div B) + (x % B)
    BY Parts, x \in Int
  <2> QED BY <2>1, <2>2, Zenon
<1>3. PICK p \in 0 .. 2 * H - 1 : p = 2 * H - 1 - r
  BY <1>1
<1>4. p \in Int /\ p \in Nat
  OBVIOUS
<1>5. PICK q \in Nat, s \in 0 .. H - 1 : q = p \div H /\ s = p % H /\ p = H * q + s
  <2>1. p \div H \in Nat /\ p % H \in 0 .. H - 1 /\ p = H * (p \div H) + (p % H)
    BY <1>4, Parts
  <2> QED BY <2>1, Zenon
<1>6. q \in {0, 1}
  <2>1. q <= 1 \/ q - 2 \in Nat
    BY <1>5
  <2>2. H * q = H * (q - 2) + 2 * H
    BY <1>1
  <2>3. q - 2 \in Nat => H * (q - 2) \in Nat
    BY <1>1
  <2>4. H * q \in Nat /\ H * q <= p
    BY <1>5
  <2> QED BY <1>3, <2>1, <2>2, <2>3, <2>4
<1>7. Buffer(i) = b /\ Place(i) = p /\ CountOf(i) = 2 * b + 1 + q
  BY <1>1, <1>2, <1>3, <1>5 DEF Buffer, Place, CountOf
<1>8. i = (2 * H) * b + 2 * H - p
  <2>1. PICK x \in Int, B \in Int : x = (2 * H) * b /\ B = 2 * H
    BY <1>1
  <2>2. i - 1 = x + r /\ p = B - 1 - r
    BY <1>2, <1>3, <2>1
  <2>3. i = x + B - p
    BY <2>2
  <2> QED BY <2>1, <2>3, Zenon
<1> QED BY <1>1, <1>5, <1>6, <1>7, <1>8

(* No counter is used twice before the last one has been.                  *)
LEMMA StreamDistinct ==
  ASSUME NEW n \in Nat, n <= Stream
  PROVE  Distinct(NotRandStream(n))
<1>1. PICK H \in Nat \ {0} : H = Half /\ Stream \in Nat /\ Stream <= H * Power(WordBase, 4)
  BY Numbers
<1>2. PICK Q \in Nat : Power(WordBase, 4) = 2 * Q
  <2>1. PICK p \in [0 .. 4 -> Nat \ {0}] :
          p[0] = 1 /\ (\A i \in 1 .. 4 : p[i] = WordBase * p[i - 1]) /\ Power(WordBase, 4) = p[4]
    <3>1. WordBase \in Nat \ {0}
      BY Numbers
    <3>2. PICK b \in Nat \ {0}, l \in Nat : b = WordBase /\ l = 4
      BY <3>1
    <3>3. PICK p \in [0 .. l -> Nat \ {0}] :
            p[0] = 1 /\ (\A i \in 1 .. l : p[i] = b * p[i - 1]) /\ Power(b, l) = p[l]
      BY PowerSteps, Zenon
    <3> QED BY <3>2, <3>3, Zenon
  <2>2. PICK w \in Nat : WordBase = 2 * w
    <3>1. WordBase \in Nat /\ WordBase % 2 = 0
      BY Numbers
    <3>2. WordBase = 2 * (WordBase \div 2) /\ WordBase \div 2 \in Nat
      BY <3>1
    <3> QED BY <3>2, Zenon
  <2>3. PICK x \in Nat : x = p[3] /\ Power(WordBase, 4) = WordBase * x
    <3>1. p[4] = WordBase * p[4 - 1]
      BY <2>1
    <3>2. 4 - 1 = 3 /\ p[3] \in Nat
      OBVIOUS
    <3> QED BY <2>1, <3>1, <3>2
  <2>4. (2 * w) * x = 2 * (w * x) /\ w * x \in Nat
    OBVIOUS
  <2> QED BY <2>2, <2>3, <2>4, Zenon
<1>3. ASSUME NEW i \in 1 .. n PROVE CountOf(i) \in 1 .. 2 * Q
  <2>1. PICK b \in Nat, p \in 0 .. 2 * H - 1, q \in {0, 1} :
          b = Buffer(i) /\ p = Place(i) /\ q = Place(i) \div Half /\ i = (2 * H) * b + 2 * H - p
    <3>1. /\ Buffer(i) \in Nat /\ Place(i) \in 0 .. 2 * Half - 1 /\ Place(i) \div Half \in {0, 1}
          /\ i = (2 * Half) * Buffer(i) + 2 * Half - Place(i)
      BY ByteParts, i \in Nat \ {0}
    <3> QED BY <1>1, <3>1, Zenon
  <2>2. i - 1 < H * (2 * Q) /\ (2 * H) * b <= i - 1
    <3>1. PICK x \in Int, y \in Int : x = (2 * H) * b /\ y = H * (2 * Q)
      OBVIOUS
    <3>2. Stream <= y /\ i = x + 2 * H - p
      BY <1>1, <1>2, <2>1, <3>1
    <3> QED BY <1>1, <2>1, <3>1, <3>2
  <2>3. b < Q
    <3>1. CASE b >= Q
      <4>1. PICK c \in Nat : c = b - Q /\ b = Q + c
        BY <3>1, b - Q \in Nat, b = Q + (b - Q)
      <4>2. (2 * H) * b = H * (2 * Q) + (2 * H) * c
        BY <4>1
      <4>3. (2 * H) * c \in Nat /\ H * (2 * Q) \in Nat
        OBVIOUS
      <4> QED BY <2>2, <4>2, <4>3
    <3> QED BY <3>1
  <2>4. CountOf(i) = 2 * b + 1 + q
    BY <2>1 DEF CountOf
  <2> QED BY <2>1, <2>3, <2>4
<1>4. ASSUME NEW i \in 1 .. n, NEW j \in 1 .. n, Counter(CountOf(i)) = Counter(CountOf(j))
      PROVE  CountOf(i) = CountOf(j)
  <2>1. PICK x \in 1 .. 2 * Q, y \in 1 .. 2 * Q : x = CountOf(i) /\ y = CountOf(j)
    BY <1>3
  <2>2. Digits(x, WordBase, 4) = Digits(y, WordBase, 4)
    BY <1>4, <2>1 DEF Counter
  <2>3. x \in Nat /\ y \in Nat /\ WordBase \in Nat \ {0} /\ 4 \in Nat
    BY Numbers
  <2>4. ~ (x < y)
    <3>1. x < y => y - x < Power(WordBase, 4)
      BY <1>2
    <3> QED BY <2>2, <2>3, <3>1, Apart
  <2>5. ~ (y < x)
    <3>1. y < x => x - y < Power(WordBase, 4)
      BY <1>2
    <3> QED BY <2>2, <2>3, <3>1, Apart
  <2> QED BY <2>1, <2>3, <2>4, <2>5
<1>5. ASSUME NEW i \in 1 .. n, NEW j \in 1 .. n, NotRandByte(i) = NotRandByte(j)
      PROVE  i = j
  <2>1. CountOf(i) = CountOf(j) /\ Place(i) % Half = Place(j) % Half
    BY <1>4, <1>5 DEF NotRandByte
  <2>2. PICK b \in Nat, p \in Nat, q \in {0, 1} :
          /\ b = Buffer(i) /\ p = Place(i) /\ q = Place(i) \div Half
          /\ i = (2 * H) * b + 2 * H - p /\ p = H * q + (Place(i) % Half)
    <3>1. /\ Buffer(i) \in Nat /\ Place(i) \in Nat /\ Place(i) \div Half \in {0, 1}
          /\ i = (2 * Half) * Buffer(i) + 2 * Half - Place(i)
          /\ Place(i) = Half * (Place(i) \div Half) + (Place(i) % Half)
      BY ByteParts, i \in Nat \ {0}
    <3> QED BY <1>1, <3>1, Zenon
  <2>3. PICK c \in Nat, d \in Nat, e \in {0, 1} :
          /\ c = Buffer(j) /\ d = Place(j) /\ e = Place(j) \div Half
          /\ j = (2 * H) * c + 2 * H - d /\ d = H * e + (Place(j) % Half)
    <3>1. /\ Buffer(j) \in Nat /\ Place(j) \in Nat /\ Place(j) \div Half \in {0, 1}
          /\ j = (2 * Half) * Buffer(j) + 2 * Half - Place(j)
          /\ Place(j) = Half * (Place(j) \div Half) + (Place(j) % Half)
      BY ByteParts, j \in Nat \ {0}
    <3> QED BY <1>1, <3>1, Zenon
  <2>4. 2 * b + 1 + q = 2 * c + 1 + e
    BY <2>1, <2>2, <2>3 DEF CountOf
  <2>5. b = c /\ q = e
    BY <2>4
  <2>6. p = d
    BY <2>1, <2>2, <2>3, <2>5, Zenon
  <2> QED BY <2>2, <2>3, <2>5, <2>6, Zenon
<1>6. /\ Len(NotRandStream(n)) = n
      /\ \A i \in 1 .. n : NotRandStream(n)[i] = NotRandByte(i)
  BY StreamOfBytes
<1> QED BY <1>5, <1>6 DEF Distinct

LEMMA StreamType ==
  ASSUME NEW n \in Nat
  PROVE  /\ NotRandStream(n) \in Seq(NotRandBytes) /\ Len(NotRandStream(n)) = n
         /\ Append(NotRandStream(n), NotRandByte(n + 1)) = NotRandStream(n + 1)
<1>1. ASSUME NEW i \in 1 .. n + 1 PROVE NotRandByte(i) \in NotRandBytes
  <2>1. CountOf(i) \in Nat /\ Place(i) % Half \in 0 .. Half - 1 /\ Half \in Nat
    BY ByteParts, Numbers
  <2>2. Place(i) % Half \in Nat /\ Counter(CountOf(i)) \in [1 .. 4 -> 0 .. WordBase - 1]
    BY <2>1, CounterType
  <2> QED BY <2>2 DEF NotRandByte, NotRandBytes
<1>2. PICK b \in [1 .. n + 1 -> NotRandBytes] : b = [i \in 1 .. n + 1 |-> NotRandByte(i)]
  <2> HIDE DEF NotRandBytes
  <2> QED BY <1>1
<1> HIDE DEF NotRandBytes
<1>3. NotRandStream(n + 1) = b /\ NotRandStream(n) = [i \in 1 .. n |-> b[i]] /\ b[n + 1] = NotRandByte(n + 1)
  <2>1. NotRandStream(n + 1) = b
    BY <1>2, StreamOfBytes
  <2>2. NotRandStream(n) = [i \in 1 .. n |-> NotRandByte(i)]
    BY StreamOfBytes
  <2>3. \A i \in 1 .. n : b[i] = NotRandByte(i)
    BY <1>2
  <2> QED BY <1>2, <2>1, <2>2, <2>3
<1>4. PICK a \in Seq(NotRandBytes) : a = NotRandStream(n) /\ Len(a) = n /\ \A i \in 1 .. n : a[i] = b[i]
  <2>1. [i \in 1 .. n |-> b[i]] \in [1 .. n -> NotRandBytes]
    OBVIOUS
  <2> QED BY <1>3, <2>1, FunctionIsSeq
<1>5. b[n + 1] \in NotRandBytes
  OBVIOUS
<1>6. /\ Append(a, b[n + 1]) \in Seq(NotRandBytes) /\ Len(Append(a, b[n + 1])) = n + 1
      /\ \A i \in 1 .. n + 1 : Append(a, b[n + 1])[i] = b[i]
  BY <1>4, <1>5
<1>7. Append(a, b[n + 1]) \in [1 .. n + 1 -> NotRandBytes]
  BY <1>6, SeqIsFunction
<1>8. Append(a, b[n + 1]) = b
  BY <1>6, <1>7
<1> QED BY <1>3, <1>4, <1>8

(* The buffer is handed out from its end.                                  *)
LEMMA BufferByte ==
  ASSUME NEW g \in Nat \ {0}, NEW o \in 1 .. 2 * Half, NEW n \in Nat, n + o = (2 * Half) * g
  PROVE  (surf(Counter(2 * g - 1)) \o surf(Counter(2 * g)))[o] = NotRandByte(n + 1)
<1>1. PICK H \in Nat \ {0} : H = Half /\ o \in 1 .. 2 * H /\ n + o = (2 * H) * g
  BY Numbers
<1>2. /\ n = (2 * H) * (g - 1) + (2 * H - o) /\ g - 1 \in Nat
      /\ 2 * H - o \in 0 .. 2 * H - 1 /\ 2 * H \in Nat \ {0}
  <2>1. (2 * H) * g = (2 * H) * (g - 1) + 2 * H
    BY <1>1
  <2>2. PICK x \in Int : x = (2 * H) * (g - 1)
    BY <1>1
  <2>3. n = x + (2 * H - o)
    BY <1>1, <2>1, <2>2
  <2> QED BY <1>1, <2>2, <2>3
<1>3. n \div (2 * H) = g - 1 /\ n % (2 * H) = 2 * H - o
  <2>0. PICK B \in Nat \ {0} : B = 2 * H
    BY <1>2
  <2>1. PICK q \in Int, r \in 0 .. B - 1 : B = 2 * H /\ q = g - 1 /\ r = 2 * H - o
    BY <1>1, <1>2, <2>0
  <2>2. (B * q + r) \div B = q /\ (B * q + r) % B = r
    BY DivMod
  <2> QED BY <1>2, <2>1, <2>2, Zenon
<1>4. Buffer(n + 1) = g - 1 /\ Place(n + 1) = o - 1
  <2>1. (n + 1) - 1 = n
    OBVIOUS
  <2>2. 2 * H - 1 - (2 * H - o) = o - 1
    BY <1>1
  <2> QED BY <1>1, <1>3, <2>1, <2>2, Zenon DEF Buffer, Place
<1>5. PICK a \in [1 .. 4 -> 0 .. WordBase - 1], b \in [1 .. 4 -> 0 .. WordBase - 1] :
        a = Counter(2 * g - 1) /\ b = Counter(2 * g)
  <2>1. 2 * g - 1 \in Nat /\ 2 * g \in Nat
    OBVIOUS
  <2> QED BY <2>1, CounterType
<1>6. ASSUME NEW c \in [1 .. 4 -> 0 .. WordBase - 1]
      PROVE  /\ surf(c) \in Seq(NotRandBytes) /\ Len(surf(c)) = H
             /\ \A i \in 1 .. H : surf(c)[i] = <<"surf", c, i - 1>>
  <2>1. surf(c) = [i \in 1 .. H |-> <<"surf", c, i - 1>>]
    BY <1>1 DEF surf
  <2>2. \A i \in 1 .. H : <<"surf", c, i - 1>> \in NotRandBytes
    BY DEF NotRandBytes
  <2> HIDE DEF NotRandBytes
  <2>3. surf(c) \in [1 .. H -> NotRandBytes]
    BY <2>1, <2>2
  <2> QED BY <2>1, <2>3, FunctionIsSeq
<1>7. CASE o <= H
  <2>1. o \in 1 .. H /\ o - 1 \in 0 .. H - 1 /\ o - 1 = H * 0 + (o - 1)
    BY <1>1, <1>7
  <2>2. (o - 1) \div H = 0 /\ (o - 1) % H = o - 1
    <3>1. (H * 0 + (o - 1)) \div H = 0 /\ (H * 0 + (o - 1)) % H = o - 1
      BY <2>1, 0 \in Int, DivMod
    <3> QED BY <2>1, <3>1, Zenon
  <2>3. CountOf(n + 1) = 2 * g - 1
    <3>1. 2 * (g - 1) + 1 + 0 = 2 * g - 1
      OBVIOUS
    <3> QED BY <1>1, <1>4, <2>2, <3>1, Zenon DEF CountOf
  <2>4. (surf(a) \o surf(b))[o] = <<"surf", a, o - 1>>
    <3>1. (surf(a) \o surf(b))[o] = surf(a)[o]
      BY <1>6, <2>1, Joined
    <3> QED BY <1>6, <2>1, <3>1
  <2> QED BY <1>1, <1>4, <1>5, <2>2, <2>3, <2>4, Zenon DEF NotRandByte
<1>8. CASE o > H
  <2>1. PICK k \in 1 .. H : o = H + k /\ o - 1 = H * 1 + (k - 1)
    <3>1. o - H \in 1 .. H /\ o = H + (o - H) /\ o - 1 = H * 1 + ((o - H) - 1)
      BY <1>1, <1>8
    <3> QED BY <3>1, Zenon
  <2>2. (o - 1) \div H = 1 /\ (o - 1) % H = k - 1
    <3>1. (H * 1 + (k - 1)) \div H = 1 /\ (H * 1 + (k - 1)) % H = k - 1
      BY 1 \in Int, k - 1 \in 0 .. H - 1, DivMod
    <3> QED BY <2>1, <3>1, Zenon
  <2>3. CountOf(n + 1) = 2 * g
    <3>1. 2 * (g - 1) + 1 + 1 = 2 * g
      OBVIOUS
    <3> QED BY <1>1, <1>4, <2>2, <3>1, Zenon DEF CountOf
  <2>4. (surf(a) \o surf(b))[o] = <<"surf", b, k - 1>>
    <3>1. (surf(a) \o surf(b))[Len(surf(a)) + k] = surf(b)[k]
      BY <1>6, Joined
    <3> QED BY <1>6, <2>1, <3>1
  <2> QED BY <1>1, <1>4, <1>5, <2>2, <2>3, <2>4, Zenon DEF NotRandByte
<1> QED
  <2>1. o <= H \/ o > H
    BY <1>1
  <2> QED BY <1>7, <1>8, <2>1

LEMMA InitNotRand == Init => NotRandInv
<1> SUFFICES ASSUME Init PROVE NotRandInv
  OBVIOUS
<1>1. pc = "idle" /\ given = <<>> /\ sizes = <<>> /\ left = 0 /\ outleft = 0 /\ in = Counter(0)
  BY CounterZero DEF Init
<1>2. Len(given) = 0
  BY <1>1
<1>3. NotRandStream(0) = <<>>
  BY StreamOfBytes, 0 \in Nat
<1>4. Half \in Nat /\ Stream \in Nat /\ (2 * Half) * 0 = 0
  BY Numbers
<1>5. outleft \in 0 .. 2 * Half /\ 2 * 0 = 0
  BY <1>1, <1>4
<1> QED BY <1>1, <1>2, <1>3, <1>4, <1>5 DEF NotRandInv

LEMMA NextNotRand ==
  ASSUME Common, rng = "NOTRAND", NotRandInv, [Next]_vars
  PROVE  NotRandInv'
<1>1. PICK l \in Nat, H \in Nat \ {0} :
        l = Len(given) /\ H = Half /\ given = NotRandStream(l) /\ l + left <= Stream
        /\ left \in Nat /\ Stream \in Nat /\ outleft \in 0 .. 2 * H
  BY Numbers DEF NotRandInv, Common
<1>2. PICK g \in Nat :
        /\ in = Counter(2 * g) /\ l + outleft = (2 * H) * g
        /\ outleft > 0 => g > 0 /\ out_buf = surf(Counter(2 * g - 1)) \o surf(Counter(2 * g))
  BY <1>1 DEF NotRandInv
<1>3. ASSUME NEW n \in Sizes, Request(n) PROVE NotRandInv'
  <2>1. /\ pc = "idle" /\ pc' = "loop" /\ left' = n /\ Len(given) + n <= Stream
        /\ sizes' = <<Len(given) + n>> /\ UNCHANGED <<given, in, out_buf, outleft>>
    BY <1>3 DEF Request, notrand
  <2> QED BY <2>1 DEF NotRandInv
<1>4. CASE Return
  BY <1>4 DEF Return, notrand, NotRandInv
<1>5. CASE randombytes_regen
  <2>1. /\ pc = "loop" /\ outleft = 0 /\ outleft' = 2 * H /\ UNCHANGED <<pc, left, sizes, given>>
        /\ in' = NextCounter(NextCounter(in))
        /\ out_buf' = surf(NextCounter(in)) \o surf(NextCounter(NextCounter(in)))
    BY <1>1, <1>5 DEF randombytes_regen
  <2>2. PICK m \in Nat : m = g + 1 /\ 2 * g + 1 = 2 * m - 1 /\ (2 * g + 1) + 1 = 2 * m
    OBVIOUS
  <2>3. NextCounter(in) = Counter(2 * m - 1) /\ NextCounter(NextCounter(in)) = Counter(2 * m)
    <3>1. NextCounter(in) = Counter(2 * g + 1)
      BY <1>2, 2 * g \in Nat, NextCounterCounts DEF Counter
    <3>2. NextCounter(Counter(2 * g + 1)) = Counter((2 * g + 1) + 1)
      BY 2 * g + 1 \in Nat, NextCounterCounts DEF Counter
    <3> QED BY <2>2, <3>1, <3>2
  <2>4. l + outleft' = (2 * H) * m
    <3>1. (2 * H) * m = (2 * H) * g + 2 * H
      BY <2>2
    <3> QED BY <1>2, <2>1, <3>1
  <2>5. outleft' \in 0 .. 2 * Half /\ Len(given') + outleft' = (2 * Half) * m /\ m > 0
    BY <1>1, <2>1, <2>2, <2>4
  <2>6. in' = Counter(2 * m) /\ out_buf' = surf(Counter(2 * m - 1)) \o surf(Counter(2 * m))
    BY <2>1, <2>3
  <2> QED BY <1>1, <2>1, <2>5, <2>6 DEF NotRandInv
<1>6. CASE BufferedByte
  <2>1. /\ pc = "loop" /\ left > 0 /\ outleft > 0 /\ given' = Append(given, out_buf[outleft])
        /\ outleft' = outleft - 1 /\ left' = left - 1 /\ UNCHANGED <<pc, sizes, in, out_buf>>
    BY <1>6 DEF BufferedByte
  <2>2. PICK o \in 1 .. 2 * Half : o = outleft /\ g \in Nat \ {0} /\ l + o = (2 * Half) * g
    BY <1>1, <1>2, <2>1
  <2>3. out_buf[outleft] = NotRandByte(l + 1)
    BY <1>2, <2>1, <2>2, BufferByte
  <2>4. given' = NotRandStream(l + 1)
    BY <1>1, <2>1, <2>3, StreamType
  <2>5. Len(given') = l + 1 /\ l + 1 \in Nat
    BY <2>4, StreamType
  <2>6. Len(given') + left' = l + left /\ Len(given') + outleft' = (2 * Half) * g
        /\ outleft' \in 0 .. 2 * Half
    <3>1. PICK x \in Int : x = (2 * Half) * g /\ l + outleft = x
      BY <1>1, <1>2
    <3>2. left \in Nat /\ outleft \in Int
      BY <1>1
    <3>3. Len(given') + left' = l + left
      <4>1. (l + 1) + (left - 1) = l + left
        BY <3>2
      <4> QED BY <2>1, <2>5, <4>1, Zenon
    <3>4. Len(given') + outleft' = x
      <4>1. (l + 1) + (outleft - 1) = x
        BY <3>1, <3>2
      <4> QED BY <2>1, <2>5, <4>1, Zenon
    <3>5. outleft' \in 0 .. 2 * Half
      BY <1>1, <2>1
    <3> QED BY <3>1, <3>3, <3>4, <3>5
  <2>7. sizes' = <<Len(given') + left'>>
    BY <1>1, <2>1, <2>6 DEF NotRandInv
  <2> QED BY <1>1, <1>2, <2>1, <2>2, <2>4, <2>5, <2>6, <2>7 DEF NotRandInv
<1>7. CASE UNCHANGED vars
  BY <1>7 DEF vars, notrand, NotRandInv
<1>8. ~ (\/ WholeWord \/ LastWord
         \/ WholeBlock \/ TailBlock \/ BlocksDone \/ nistkat_update
         \/ \E s \in Seeds : randombytes_init(s))
  BY DEF Common, WholeWord, LastWord, WholeBlock, TailBlock, BlocksDone, nistkat_update,
         randombytes_init
<1> QED
  BY <1>3, <1>4, <1>5, <1>6, <1>7, <1>8 DEF Next

--------------------------------------------------------------------------------
(* NISTKAT: the inputs of AES                                              *)

KeysUsed == {inputs[i][1] : i \in 1 .. Len(inputs)}

(* A key is made from the one before it, which is used up by then: so none *)
(* ever comes again.                                                       *)
KeysFresh == \A k \in KeysUsed \cup {key} : k # ZeroKey => k[1] \in KeysUsed \ {key}

(* The counter began at v with this key, and has gone m further.           *)
Ahead(v, m) ==
  /\ ctr = BigEndian(v + m)
  /\ \A i \in 1 .. Len(inputs) : inputs[i][1] = key => \E j \in 1 .. m : inputs[i][2] = BigEndian(v + j)
Spent(m, n) ==
  /\ IF left > 0 THEN m * Block + left <= n ELSE m * Block < n + Block
  /\ pc = "idle" => m = 0
Yields == \A f \in DOMAIN aes : \E v \in Nat : aes[f] = BigEndian(v)
Sources == \A j \in 1 .. Len(given) :
             \E i \in 1 .. Len(inputs) : given[j][2] = inputs[i][1] /\ given[j][3] = inputs[i][2]

FreshInv ==
  /\ \E S : inputs \in Seq(S)
  /\ \E S : given \in Seq(S)
  /\ Distinct(inputs) /\ Distinct(given) /\ Sources
  /\ KeysFresh /\ Yields
  /\ \E v \in Nat, m \in Nat, n \in Sizes \cup {0} : Ahead(v, m) /\ Spent(m, n)

LEMMA Room ==
  ASSUME NEW m \in Nat, NEW n \in Sizes \cup {0}, m * Block < n + Block
  PROVE  m + 3 <= Power(ByteBase, CtrBytes)
<1>1. PICK B \in Nat \ {0}, k \in Nat : B = Block /\ k = n /\ m * B < k + B
  BY Numbers
<1>2. PICK q \in Nat, r \in 0 .. B - 1 : q = k \div B /\ k = B * q + r
  <2>1. k \div B \in Nat /\ k % B \in 0 .. B - 1 /\ k = B * (k \div B) + (k % B)
    BY Parts, k \in Int
  <2> QED BY <2>1, Zenon
<1>3. m <= q + 1
  <2>1. CASE m >= q + 2
    <3>1. PICK d \in Nat : m = q + 2 + d
      BY <2>1, m - (q + 2) \in Nat, m = q + 2 + (m - (q + 2))
    <3>2. m * B = B * q + 2 * B + d * B /\ d * B \in Nat
      BY <3>1
    <3>3. PICK x \in Nat, y \in Nat : x = B * q /\ y = d * B
      BY <3>2
    <3>4. x + 2 * B + y < k + B /\ k = x + r
      BY <1>1, <1>2, <3>2, <3>3
    <3> QED BY <3>4
  <2> QED BY <2>1
<1>4. q + 4 <= Power(ByteBase, CtrBytes)
  BY <1>1, <1>2, Numbers
<1>5. Power(ByteBase, CtrBytes) \in Nat
  <2>1. ByteBase \in Nat \ {0} /\ CtrBytes \in Nat
    BY Numbers
  <2> QED BY <2>1, PowerType
<1> QED BY <1>3, <1>4, <1>5

LEMMA MoreInputs ==
  ASSUME NEW S, inputs \in Seq(S), NEW new \in Seq(S), Distinct(inputs),
         NEW v \in Nat, NEW m \in Nat, NEW k \in Nat, Ahead(v, m), Len(new) = k,
         m + k <= Power(ByteBase, CtrBytes),
         \A i \in 1 .. k : new[i] = <<key, BigEndian(v + m + i)>>
  PROVE  Distinct(inputs \o new)
<1>1. PICK P \in Nat : P = Power(ByteBase, CtrBytes) /\ m + k <= P
  <2>1. ByteBase \in Nat \ {0} /\ CtrBytes \in Nat
    BY Numbers
  <2> QED BY <2>1, PowerType
<1>2. ASSUME NEW i \in 1 .. m + k, NEW j \in 1 .. m + k, i < j
      PROVE  BigEndian(v + i) # BigEndian(v + j)
  <2>1. PICK x \in Nat, y \in Nat : x = v + i /\ y = v + j /\ x < y /\ y - x < P
    BY <1>1, <1>2
  <2> QED BY <1>1, <2>1, CountersApart
<1>3. Distinct(new)
  <2>1. ASSUME NEW i \in 1 .. k, NEW j \in 1 .. k, i < j PROVE new[i] # new[j]
    <3>1. PICK a \in 1 .. m + k, b \in 1 .. m + k : a = m + i /\ b = m + j /\ a < b
      BY <2>1
    <3>2. v + m + i = v + a /\ v + m + j = v + b
      BY <3>1
    <3>3. BigEndian(v + a) # BigEndian(v + b)
      BY <1>2, <3>1
    <3>4. new[i] = <<key, BigEndian(v + a)>> /\ new[j] = <<key, BigEndian(v + b)>>
      BY <3>2
    <3> QED BY <3>3, <3>4
  <2>2. ASSUME NEW i \in 1 .. k, NEW j \in 1 .. k, new[i] = new[j] PROVE i = j
    <3>1. i < j \/ j < i \/ i = j
      OBVIOUS
    <3> QED BY <2>1, <2>2, <3>1
  <2> QED BY <2>2 DEF Distinct
<1>4. ASSUME NEW i \in 1 .. Len(inputs), NEW j \in 1 .. k, inputs[i] = new[j] PROVE FALSE
  <2>1. inputs[i][1] = key /\ inputs[i][2] = BigEndian(v + m + j)
    BY <1>4
  <2>2. PICK a \in 1 .. m : inputs[i][2] = BigEndian(v + a)
    BY <2>1 DEF Ahead
  <2>3. PICK b \in 1 .. m + k : b = m + j /\ a < b /\ a \in 1 .. m + k
    BY <2>2
  <2>4. v + m + j = v + b
    BY <2>3
  <2> QED BY <1>2, <2>1, <2>2, <2>3, <2>4
<1> QED BY <1>3, <1>4, JoinedDistinct

(* More inputs with the same key.                                          *)
LEMMA SameKey ==
  ASSUME NEW S, inputs \in Seq(S), NEW new \in Seq(S),
         \A i \in 1 .. Len(new) : new[i][1] = key,
         inputs' = inputs \o new, KeysFresh
  PROVE  /\ KeysUsed \subseteq KeysUsed' /\ KeysUsed' \subseteq KeysUsed \cup {key}
         /\ Len(new) > 0 => KeysUsed' = KeysUsed \cup {key}
         /\ key' = key => KeysFresh'
         /\ Sources /\ given' = given => Sources'
<1>1. ASSUME NEW i \in 1 .. Len(inputs)
      PROVE  i \in 1 .. Len(inputs') /\ inputs'[i] = inputs[i]
  BY Joined
<1>2. ASSUME NEW i \in 1 .. Len(inputs')
      PROVE  \/ \E j \in 1 .. Len(inputs) : inputs'[i] = inputs[j]
             \/ inputs'[i][1] = key
  BY Joined
<1>3. KeysUsed \subseteq KeysUsed'
  BY <1>1 DEF KeysUsed
<1>4. KeysUsed' \subseteq KeysUsed \cup {key}
  BY <1>2 DEF KeysUsed
<1>5. ASSUME Len(new) > 0 PROVE key \in KeysUsed'
  <2>1. 1 \in 1 .. Len(new) /\ Len(inputs) + 1 \in 1 .. Len(inputs')
    BY <1>5, Joined
  <2>2. inputs'[Len(inputs) + 1] = new[1]
    BY <2>1, Joined
  <2> QED BY <2>1, <2>2 DEF KeysUsed
<1>6. key' = key => KeysFresh'
  BY <1>3, <1>4 DEF KeysFresh
<1>7. Sources /\ given' = given => Sources'
  BY <1>1 DEF Sources
<1> QED BY <1>3, <1>4, <1>5, <1>6, <1>7

LEMMA BlockFresh ==
  ASSUME Common, FreshInv, pc = "loop", NEW k \in 1 .. Block, AesBlock(k),
         (k = Block /\ left >= Block) \/ k = left,
         UNCHANGED <<pc, key, aes>>
  PROVE  FreshInv'
<1>1. PICK S : inputs \in Seq(S)
  BY DEF FreshInv
<1>2. PICK T : given \in Seq(T)
  BY DEF FreshInv
<1>3. PICK v \in Nat, m \in Nat, n \in Sizes \cup {0} : Ahead(v, m) /\ Spent(m, n)
  BY DEF FreshInv
<1>4. PICK c : /\ c = Increment(ctr) /\ ctr' = c /\ inputs' = Append(inputs, <<key, c>>)
               /\ given' = given \o [i \in 1 .. k |-> <<"aes", key, c, i - 1>>] /\ left' = left - k
  BY DEF AesBlock
<1>5. PICK B \in Nat \ {0} : B = Block /\ n \in Nat /\ left \in Nat /\ left > 0
  BY Numbers DEF Common
<1>6. m * B + left <= n /\ m * B < n + B
  <2>1. PICK x \in Nat : x = m * B
    OBVIOUS
  <2>2. x + left <= n
    BY <1>3, <1>5, <2>1 DEF Spent
  <2>3. x < n + B
    BY <1>5, <2>2
  <2> QED BY <2>1, <2>2, <2>3
<1>7. c = BigEndian(v + m + 1)
  BY <1>3, <1>4, v + m \in Nat, IncrementCounts DEF Ahead
<1>8. PICK new : new = <<<<key, c>>>>
  OBVIOUS
<1>9. PICK U : U = S \cup {<<key, c>>}
  OBVIOUS
<1>10. /\ new \in Seq(U) /\ Len(new) = 1 /\ new[1] = <<key, c>> /\ inputs \in Seq(U)
       /\ inputs' = inputs \o new
  <2>1. new \in Seq(U) /\ Len(new) = 1 /\ new[1] = <<key, c>>
    BY <1>8, <1>9
  <2>2. inputs \in Seq(U)
    BY <1>1, <1>9, SeqIsFunction
  <2>3. PICK x \in U : x = <<key, c>>
    BY <1>9
  <2>4. Append(inputs, x) = inputs \o <<x>>
    BY <2>2
  <2> QED BY <1>4, <1>8, <2>1, <2>2, <2>3, <2>4
<1>11. m + 1 <= Power(ByteBase, CtrBytes)
  <2>1. m + 3 <= Power(ByteBase, CtrBytes)
    BY <1>5, <1>6, Room
  <2>2. Power(ByteBase, CtrBytes) \in Nat
    BY Numbers, PowerType
  <2> QED BY <2>1, <2>2
<1>12. Distinct(inputs) /\ Distinct(given) /\ Sources /\ KeysFresh /\ Yields
  BY DEF FreshInv
<1>13. Distinct(inputs')
  <2>1. \A i \in 1 .. 1 : new[i] = <<key, BigEndian(v + m + i)>>
    BY <1>7, <1>10
  <2>2. Distinct(inputs \o new)
    BY <1>3, <1>10, <1>11, <1>12, <2>1, 1 \in Nat, MoreInputs
  <2> QED BY <1>10, <2>2
<1>14. KeysFresh' /\ KeysUsed \subseteq KeysUsed'
  <2>1. \A i \in 1 .. Len(new) : new[i][1] = key
    BY <1>10
  <2> QED BY <1>10, <1>12, <2>1, SameKey
<1>15. /\ \A i \in 1 .. Len(inputs) : i \in 1 .. Len(inputs') /\ inputs'[i] = inputs[i]
       /\ Len(inputs') = Len(inputs) + 1 /\ inputs'[Len(inputs) + 1] = <<key, c>> /\ Len(inputs) \in Nat
  BY <1>1, <1>4
<1>16. PICK bytes : /\ bytes = [i \in 1 .. k |-> <<"aes", key, c, i - 1>>]
                    /\ given' = given \o bytes
  BY <1>4
<1>17. PICK W : given \in Seq(W) /\ bytes \in Seq(W) /\ Len(bytes) = k
  <2>0. k \in Nat
    OBVIOUS
  <2>1. PICK V : V = {<<"aes", key, c, i - 1>> : i \in 1 .. k}
    OBVIOUS
  <2>2. bytes \in [1 .. k -> V]
    BY <1>16, <2>1
  <2>3. PICK W : W = T \cup V
    OBVIOUS
  <2>4. bytes \in [1 .. k -> W] /\ given \in [1 .. Len(given) -> W] /\ Len(given) \in Nat
    BY <1>2, <2>2, <2>3, SeqIsFunction
  <2>5. bytes \in Seq(W) /\ Len(bytes) = k
    BY <2>0, <2>4, FunctionIsSeq
  <2>6. given \in Seq(W)
    BY <1>2, <2>3, <2>4
  <2> QED BY <2>5, <2>6
<1>18. \A j \in 1 .. k : bytes[j] = <<"aes", key, c, j - 1>>
  BY <1>16
<1>19. Distinct(bytes)
  <2>1. ASSUME NEW i \in 1 .. k, NEW j \in 1 .. k, bytes[i] = bytes[j] PROVE i = j
    <3>1. i - 1 = j - 1
      BY <1>18, <2>1
    <3> QED BY <3>1
  <2> QED BY <1>17, <2>1 DEF Distinct
<1>20. ASSUME NEW i \in 1 .. Len(given), NEW j \in 1 .. Len(bytes), given[i] = bytes[j] PROVE FALSE
  <2>1. given[i][2] = key /\ given[i][3] = c
    BY <1>17, <1>18, <1>20
  <2>2. PICK a \in 1 .. Len(inputs) : inputs[a][1] = key /\ inputs[a][2] = c
    BY <1>12, <2>1 DEF Sources
  <2>3. PICK j2 \in 1 .. m : c = BigEndian(v + j2)
    BY <1>3, <2>2 DEF Ahead
  <2>4. PICK x \in Nat, y \in Nat : x = v + j2 /\ y = v + m + 1 /\ x < y /\ y - x <= m
    OBVIOUS
  <2>5. y - x < Power(ByteBase, CtrBytes)
    <3>1. Power(ByteBase, CtrBytes) \in Nat
      BY Numbers, PowerType
    <3> QED BY <1>11, <2>4, <3>1
  <2> QED BY <1>7, <2>3, <2>4, <2>5, CountersApart
<1>21. given' \in Seq(W) /\ Distinct(given')
  BY <1>12, <1>16, <1>17, <1>19, <1>20, Joined, JoinedDistinct
<1>22. Sources'
  <2>1. ASSUME NEW j \in 1 .. Len(given')
        PROVE  \E i \in 1 .. Len(inputs') : given'[j][2] = inputs'[i][1] /\ given'[j][3] = inputs'[i][2]
    <3>1. CASE j \in 1 .. Len(given)
      <4>1. given'[j] = given[j]
        BY <1>16, <1>17, <3>1, Joined
      <4>2. PICK i \in 1 .. Len(inputs) : given[j][2] = inputs[i][1] /\ given[j][3] = inputs[i][2]
        BY <1>12, <3>1 DEF Sources
      <4> QED BY <1>15, <4>1, <4>2
    <3>2. ASSUME NEW a \in 1 .. Len(bytes), j = Len(given) + a
          PROVE  given'[j][2] = key /\ given'[j][3] = c
      <4>1. given'[j] = bytes[a]
        BY <1>16, <1>17, <3>2, Joined
      <4> QED BY <1>17, <1>18, <4>1
    <3>3. j \in 1 .. Len(given) \/ \E a \in 1 .. Len(bytes) : j = Len(given) + a
      <4>1. \A i \in 1 .. Len(given \o bytes) :
              i \in 1 .. Len(given) \/ \E a \in 1 .. Len(bytes) : i = Len(given) + a
        BY <1>17, Joined
      <4> QED BY <1>16, <4>1, Zenon
    <3>4. CASE given'[j][2] = key /\ given'[j][3] = c
      <4>1. Len(inputs) + 1 \in 1 .. Len(inputs')
        BY <1>15
      <4> QED BY <1>15, <3>4, <4>1
    <3> QED BY <3>1, <3>2, <3>3, <3>4
  <2> QED BY <2>1 DEF Sources
<1>23. Ahead(v, m + 1)'
  <2>1. ctr' = BigEndian(v + (m + 1))
    <3>1. v + m + 1 = v + (m + 1)
      OBVIOUS
    <3> QED BY <1>4, <1>7, <3>1
  <2>2. ASSUME NEW i \in 1 .. Len(inputs'), inputs'[i][1] = key
        PROVE  \E j \in 1 .. m + 1 : inputs'[i][2] = BigEndian(v + j)
    <3>1. CASE i \in 1 .. Len(inputs)
      <4>1. PICK j \in 1 .. m : inputs[i][2] = BigEndian(v + j)
        BY <1>3, <1>15, <2>2, <3>1 DEF Ahead
      <4>2. j \in 1 .. m + 1
        OBVIOUS
      <4> QED BY <1>15, <3>1, <4>1, <4>2
    <3>2. CASE i = Len(inputs) + 1
      <4>1. inputs'[i][2] = BigEndian(v + (m + 1)) /\ m + 1 \in 1 .. m + 1
        BY <1>4, <1>15, <2>1, <3>2
      <4> QED BY <4>1, Zenon
    <3> QED BY <1>15, <3>1, <3>2
  <2> QED BY <2>1, <2>2 DEF Ahead
<1>24. Spent(m + 1, n)'
  <2>1. PICK x \in Nat : x = m * B /\ (m + 1) * B = x + B
    OBVIOUS
  <2>2. x + left <= n
    BY <1>6, <2>1
  <2>3. left' = left - k /\ k \in 1 .. B /\ (k = B \/ k = left)
    BY <1>4, <1>5
  <2>4. IF left' > 0 THEN x + B + left' <= n ELSE x + B < n + B
    BY <1>5, <2>2, <2>3
  <2> QED BY <1>5, <2>1, <2>4 DEF Spent
<1>25. inputs' \in Seq(U) /\ Yields'
  BY <1>10, <1>12, Joined DEF Yields
<1> QED BY <1>13, <1>14, <1>21, <1>22, <1>23, <1>24, <1>25, m + 1 \in Nat DEF FreshInv

LEMMA UpdateFresh ==
  ASSUME Common, FreshInv, nistkat_update
  PROVE  FreshInv'
<1>1. PICK S : inputs \in Seq(S)
  BY DEF FreshInv
<1>2. PICK v \in Nat, m \in Nat, n \in Sizes \cup {0} : Ahead(v, m) /\ Spent(m, n)
  BY DEF FreshInv
<1>3. PICK c1, c2, c3 : c1 = Increment(ctr) /\ c2 = Increment(c1) /\ c3 = Increment(c2)
  OBVIOUS
<1>4. PICK new : new = << <<key, c1>>, <<key, c2>>, <<key, c3>> >>
  OBVIOUS
<1>5. PICK from : from = <<key, c3, data>>
  OBVIOUS
<1>6. PICK nk : nk = <<key, c1, c2, data>>
  OBVIOUS
<1>7. /\ pc = "update" /\ pc' = "idle" /\ key' = nk /\ inputs' = inputs \o new
      /\ UNCHANGED <<left, given>>
      /\ \E c \in IF from \in DOMAIN aes THEN {aes[from]} ELSE {BigEndian(y) : y \in Yielded} :
           ctr' = c /\ aes' = [x \in DOMAIN aes \cup {from} |-> IF x = from THEN c ELSE aes[x]]
  BY <1>3, <1>4, <1>5, <1>6 DEF nistkat_update, NewKey
<1>8. Distinct(inputs) /\ Distinct(given) /\ Sources /\ KeysFresh /\ Yields
  BY DEF FreshInv
<1>9. c1 = BigEndian(v + m + 1) /\ c2 = BigEndian(v + m + 2) /\ c3 = BigEndian(v + m + 3)
  <2>1. PICK x \in Nat : x = v + m
    OBVIOUS
  <2>2. c1 = BigEndian(x + 1)
    BY <1>2, <1>3, <2>1, IncrementCounts DEF Ahead
  <2>3. c2 = BigEndian((x + 1) + 1)
    BY <1>3, <2>2, x + 1 \in Nat, IncrementCounts
  <2>4. c3 = BigEndian(((x + 1) + 1) + 1)
    BY <1>3, <2>3, (x + 1) + 1 \in Nat, IncrementCounts
  <2>5. (x + 1) + 1 = x + 2 /\ ((x + 1) + 1) + 1 = x + 3
    OBVIOUS
  <2> QED BY <2>1, <2>2, <2>3, <2>4, <2>5
<1>10. m + 3 <= Power(ByteBase, CtrBytes)
  <2>1. left = 0
    BY <1>7 DEF Common
  <2>2. m * Block < n + Block
    BY <1>2, <2>1 DEF Spent
  <2> QED BY <2>2, Room
<1>11. PICK U : U = S \cup {<<key, c1>>, <<key, c2>>, <<key, c3>>}
  OBVIOUS
<1>12. /\ new \in Seq(U) /\ Len(new) = 3 /\ inputs \in Seq(U)
       /\ new[1] = <<key, c1>> /\ new[2] = <<key, c2>> /\ new[3] = <<key, c3>>
  <2>1. inputs \in Seq(U)
    BY <1>1, <1>11
  <2> QED BY <1>4, <1>11, <2>1
<1>13. Distinct(inputs')
  <2>1. ASSUME NEW i \in 1 .. 3 PROVE new[i] = <<key, BigEndian(v + m + i)>>
    <3>1. i = 1 \/ i = 2 \/ i = 3
      OBVIOUS
    <3> QED BY <1>9, <1>12, <3>1
  <2>2. Distinct(inputs \o new)
    BY <1>2, <1>8, <1>10, <1>12, <2>1, 3 \in Nat, MoreInputs
  <2> QED BY <1>7, <2>2
<1>14. /\ KeysUsed \subseteq KeysUsed' /\ KeysUsed' = KeysUsed \cup {key}
       /\ Sources'
  <2>1. ASSUME NEW i \in 1 .. Len(new) PROVE new[i][1] = key
    <3>1. i = 1 \/ i = 2 \/ i = 3
      BY <1>12
    <3> QED BY <1>12, <3>1
  <2>2. Len(new) > 0 /\ given' = given
    BY <1>7, <1>12
  <2>3. inputs' = inputs \o new
    BY <1>7
  <2>4. /\ KeysUsed \subseteq KeysUsed' /\ (Len(new) > 0 => KeysUsed' = KeysUsed \cup {key})
        /\ Sources /\ given' = given => Sources'
    BY <1>8, <1>12, <2>1, <2>3, SameKey
  <2> QED BY <1>8, <2>2, <2>4
<1>15. nk[1] = key /\ nk # ZeroKey
  <2>1. Len(nk) = 4 /\ Len(ZeroKey) = 0
    BY <1>6 DEF ZeroKey
  <2> QED BY <1>6, <2>1
<1>16. nk \notin KeysUsed \cup {key}
  BY <1>8, <1>15 DEF KeysFresh
<1>17. KeysFresh'
  <2>1. ASSUME NEW k \in KeysUsed' \cup {key'}, k # ZeroKey PROVE k[1] \in KeysUsed' \ {key'}
    <3>1. CASE k = nk
      BY <1>7, <1>14, <1>15, <1>16, <3>1
    <3>2. CASE k # nk
      <4>1. k \in KeysUsed \cup {key}
        BY <1>7, <1>14, <3>2
      <4>2. k[1] \in KeysUsed
        BY <1>8, <2>1, <4>1 DEF KeysFresh
      <4> QED BY <1>7, <1>14, <1>16, <4>2
    <3> QED BY <3>1, <3>2
  <2> QED BY <2>1 DEF KeysFresh
<1>18. PICK c : /\ ctr' = c /\ aes' = [x \in DOMAIN aes \cup {from} |-> IF x = from THEN c ELSE aes[x]]
                /\ c \in IF from \in DOMAIN aes THEN {aes[from]} ELSE {BigEndian(y) : y \in Yielded}
  BY <1>7
<1>19. PICK w \in Nat : c = BigEndian(w)
  <2>1. Yielded \in SUBSET Nat
    BY Numbers
  <2> QED BY <1>8, <1>18, <2>1 DEF Yields
<1>20. Yields'
  <2>1. ASSUME NEW f \in DOMAIN aes' PROVE \E y \in Nat : aes'[f] = BigEndian(y)
    <3>1. (f = from \/ f \in DOMAIN aes) /\ aes'[f] = IF f = from THEN c ELSE aes[f]
      BY <1>18
    <3> QED BY <1>8, <1>19, <3>1 DEF Yields
  <2> QED BY <2>1 DEF Yields
<1>21. Ahead(w, 0)'
  <2>1. w + 0 = w
    OBVIOUS
  <2>2. \A i \in 1 .. Len(inputs') : inputs'[i][1] # key'
    BY <1>7, <1>14, <1>16 DEF KeysUsed
  <2> QED BY <1>18, <1>19, <2>1, <2>2 DEF Ahead
<1>22. Spent(0, 0)'
  <2>1. left' = 0 /\ Block > 0 /\ 0 * Block = 0 /\ 0 + Block = Block /\ Block \in Nat
    BY <1>7, Numbers DEF Common
  <2> QED BY <2>1 DEF Spent
<1>23. inputs' \in Seq(U) /\ \E T : given' \in Seq(T)
  BY <1>7, <1>12, Joined DEF FreshInv
<1> QED
  BY <1>7, <1>8, <1>13, <1>14, <1>17, <1>20, <1>21, <1>22, <1>23, 0 \in Nat DEF FreshInv

LEMMA StartFresh ==
  ASSUME inputs = <<>>, given = <<>>, key = ZeroKey, ctr = ZeroCtr, left = 0, Yields
  PROVE  FreshInv
<1>1. inputs \in Seq({}) /\ given \in Seq({}) /\ Len(inputs) = 0 /\ Len(given) = 0
  OBVIOUS
<1>2. KeysUsed = {}
  BY <1>1 DEF KeysUsed
<1>3. Distinct(inputs) /\ Distinct(given) /\ Sources /\ KeysFresh
  BY <1>1, <1>2 DEF Distinct, Sources, KeysFresh
<1>4. Ahead(0, 0)
  <2>1. 0 + 0 = 0
    OBVIOUS
  <2> QED BY <1>1, <2>1 DEF Ahead, ZeroCtr
<1>5. Spent(0, 0)
  <2>1. Block > 0 /\ 0 * Block = 0 /\ 0 + Block = Block /\ Block \in Nat
    BY Numbers
  <2> QED BY <2>1 DEF Spent
<1> QED BY <1>1, <1>3, <1>4, <1>5, 0 \in Nat DEF FreshInv

LEMMA InitFresh == Init => FreshInv
<1>1. Init => Yields
  BY DEF Init, Yields
<1> QED BY <1>1, StartFresh DEF Init

LEMMA NextFresh ==
  ASSUME Common, rng = "NISTKAT", FreshInv, [Next]_vars
  PROVE  FreshInv'
<1>1. PICK v \in Nat, m \in Nat, n \in Sizes \cup {0} : Ahead(v, m) /\ Spent(m, n)
  BY DEF FreshInv
<1>2. ASSUME NEW s \in Sizes, Request(s) PROVE FreshInv'
  <2>1. pc = "idle" /\ pc' = "loop" /\ left' = s /\ UNCHANGED <<given, key, ctr, aes, inputs>>
    BY <1>2 DEF Request, nistkat
  <2>2. m = 0 /\ Block \in Nat /\ Block > 0 /\ s \in Nat
    BY <1>1, <2>1, Numbers DEF Spent
  <2>3. Spent(0, s)'
    <3>1. 0 * Block + s = s /\ 0 * Block = 0
      BY <2>2
    <3>2. IF s > 0 THEN 0 * Block + s <= s ELSE 0 * Block < s + Block
      BY <2>2, <3>1
    <3> QED BY <2>1, <3>2 DEF Spent
  <2>4. Ahead(v, 0)'
    BY <1>1, <2>1, <2>2 DEF Ahead
  <2>5. s \in Sizes \cup {0} /\ 0 \in Nat
    OBVIOUS
  <2>6. \E v2 \in Nat, m2 \in Nat, n2 \in Sizes \cup {0} : Ahead(v2, m2)' /\ Spent(m2, n2)'
    BY <2>3, <2>4, <2>5
  <2> QED BY <2>1, <2>6 DEF FreshInv, Distinct, Sources, KeysFresh, KeysUsed, Yields
<1>3. CASE WholeBlock
  <2>1. /\ pc = "loop" /\ left >= Block /\ AesBlock(Block) /\ UNCHANGED <<pc, key, aes>>
        /\ Block \in 1 .. Block
    BY <1>3, Numbers DEF WholeBlock
  <2> QED BY <2>1, BlockFresh
<1>4. CASE TailBlock
  <2>1. pc = "loop" /\ left \in 1 .. Block /\ AesBlock(left) /\ UNCHANGED <<pc, key, aes>>
    BY <1>4, Numbers DEF TailBlock
  <2>2. PICK k \in 1 .. Block : k = left
    BY <2>1
  <2> QED BY <2>1, <2>2, BlockFresh
<1>5. CASE BlocksDone
  <2>1. /\ pc = "loop" /\ pc' = "update" /\ UNCHANGED <<left, given, key, ctr, aes, inputs>>
    BY <1>5 DEF BlocksDone
  <2>2. Ahead(v, m)' /\ Spent(m, n)'
    BY <1>1, <2>1 DEF Ahead, Spent
  <2>3. \E v2 \in Nat, m2 \in Nat, n2 \in Sizes \cup {0} : Ahead(v2, m2)' /\ Spent(m2, n2)'
    BY <2>2
  <2> QED BY <2>1, <2>3 DEF FreshInv, Distinct, Sources, KeysFresh, KeysUsed, Yields
<1>6. CASE nistkat_update
  BY <1>6, UpdateFresh
<1>7. ASSUME NEW s \in Seeds, randombytes_init(s) PROVE FreshInv'
  <2>1. /\ inputs' = <<>> /\ given' = <<>> /\ key' = ZeroKey /\ ctr' = ZeroCtr /\ left' = 0
        /\ aes' = aes /\ pc' = "update"
    BY <1>7 DEF randombytes_init, Common
  <2>2. Yields'
    BY <2>1 DEF FreshInv, Yields
  <2>3. inputs' \in Seq({}) /\ given' \in Seq({}) /\ Len(inputs') = 0 /\ Len(given') = 0
    BY <2>1
  <2>4. KeysUsed' = {}
    BY <2>3 DEF KeysUsed
  <2>5. Distinct(inputs)' /\ Distinct(given)' /\ Sources' /\ KeysFresh'
    BY <2>1, <2>3, <2>4 DEF Distinct, Sources, KeysFresh
  <2>6. Ahead(0, 0)'
    <3>1. 0 + 0 = 0
      OBVIOUS
    <3> QED BY <2>1, <2>3, <3>1 DEF Ahead, ZeroCtr
  <2>7. Spent(0, 0)'
    <3>1. Block > 0 /\ 0 * Block = 0 /\ 0 + Block = Block /\ Block \in Nat
      BY Numbers
    <3> QED BY <2>1, <3>1 DEF Spent
  <2> QED BY <2>2, <2>3, <2>5, <2>6, <2>7, 0 \in Nat DEF FreshInv
<1>8. CASE UNCHANGED vars
  <2>1. UNCHANGED <<pc, left, given, key, ctr, aes, inputs>>
    BY <1>8 DEF vars, nistkat
  <2>2. Ahead(v, m)' /\ Spent(m, n)'
    BY <1>1, <2>1 DEF Ahead, Spent
  <2>3. \E v2 \in Nat, m2 \in Nat, n2 \in Sizes \cup {0} : Ahead(v2, m2)' /\ Spent(m2, n2)'
    BY <2>2
  <2> QED BY <2>1, <2>3 DEF FreshInv, Distinct, Sources, KeysFresh, KeysUsed, Yields
<1>9. ~ (Return \/ WholeWord \/ LastWord \/ randombytes_regen \/ BufferedByte)
  BY DEF Return, WholeWord, LastWord, randombytes_regen, BufferedByte
<1> QED
  BY <1>2, <1>3, <1>4, <1>5, <1>6, <1>7, <1>8, <1>9 DEF Next

(* The counter that AES yields, read as a number, is that number.          *)
LEMMA NumberOfCounter ==
  ASSUME NEW ds \in Counters
  PROVE  NumberOf(ds) \in Nat /\ BigEndian(NumberOf(ds)) = ds
<1> DEFINE L == CtrBytes
           b == ByteBase
           g == [k \in 1 .. L |-> [x \in Nat |-> b * x + ds[k]]]
           Iter(h) == h = [s \in SUBSET (1 .. L) |->
                             IF s = {} THEN 0
                             ELSE b * h[s \ {Max(s)}] + ds[Max(s)]]
           iter == CHOOSE h : Iter(h)
<1>0. L \in Nat /\ b \in Nat \ {0}
  BY Numbers
<1>1. ds \in [1 .. L -> 0 .. b - 1] /\ DOMAIN ds = 1 .. L /\ \A k \in 1 .. L : ds[k] \in Nat
  BY <1>0 DEF Counters, Bytes
<1>2. g \in [1 .. L -> [Nat -> Nat]] /\ \A k \in 1 .. L, x \in Nat : g[k][x] = b * x + ds[k]
  <2>1. ASSUME NEW k \in 1 .. L, NEW x \in Nat PROVE b * x + ds[k] \in Nat
    BY <1>0, <1>1
  <2> QED BY <2>1
<1>3. ASSUME NEW s \in SUBSET (1 .. L), s # {} PROVE Max(s) \in 1 .. L
  <2>1. Max(s) \in s
    BY <1>0, <1>3, MaxOf
  <2> QED BY <2>1
<1>4. PICK h \in [SUBSET (1 .. L) -> Nat] : IsFold(h, L, Nat, 0, g)
  <2> HIDE DEF g, L
  <2>1. FoldsIn(L, Nat, 0, g) # {}
    BY <1>0, <1>2, 0 \in Nat, FoldExists
  <2> QED BY <2>1 DEF FoldsIn
<1>5. Iter(h)
  <2>1. ASSUME NEW s \in SUBSET (1 .. L)
        PROVE  h[s] = IF s = {} THEN 0 ELSE b * h[s \ {Max(s)}] + ds[Max(s)]
    <3>1. s # {} => h[s \ {Max(s)}] \in Nat /\ Max(s) \in 1 .. L
      BY <1>3, <1>4
    <3> HIDE DEF g, L, b
    <3> QED BY <1>2, <1>4, <3>1 DEF IsFold
  <2> HIDE DEF L, b
  <2> QED BY <2>1
<1>6. Iter(iter)
  BY <1>5
<1>7. NumberOf(ds) = iter[1 .. L]
  BY <1>1 DEF NumberOf, FoldLeft, MapThenFoldSet
<1>8. PICK v \in Recursive(L, Nat, 0, g) : TRUE
  <2> HIDE DEF g, L
  <2>1. Recursive(L, Nat, 0, g) # {}
    BY <1>0, <1>2, 0 \in Nat, Recursion
  <2> QED BY <2>1
<1>9. IsFold(iter, L, Nat, 0, g)
  <2> SUFFICES ASSUME NEW s \in SUBSET (1 .. L)
               PROVE  IF s = {} THEN iter[s] = 0
                      ELSE iter[s \ {Max(s)}] \in Nat
                             => iter[s] = g[Max(s)][iter[s \ {Max(s)}]]
    BY DEF IsFold
  <2>1. iter[s] = IF s = {} THEN 0 ELSE b * iter[s \ {Max(s)}] + ds[Max(s)]
    <3> HIDE DEF iter
    <3> QED BY <1>6
  <2>2. s # {} => Max(s) \in 1 .. L
    BY <1>3
  <2> HIDE DEF iter, g, L, b
  <2> QED BY <1>2, <2>1, <2>2
<1>10. iter[1 .. L] = v[L]
  <2> HIDE DEF iter, g, L
  <2>1. ComesTo(iter, L, v)
    BY <1>0, <1>2, <1>9, 0 \in Nat, FoldSteps
  <2> QED BY <2>1 DEF ComesTo
<1>11. v \in [0 .. L -> Nat] /\ v[0] = 0 /\ \A k \in 1 .. L : v[k] = b * v[k - 1] + ds[k]
  <2> HIDE DEF g, L, b
  <2>1. v \in [0 .. L -> Nat] /\ v[0] = 0 /\ \A k \in 1 .. L : v[k] = g[k][v[k - 1]]
    BY DEF Recursive
  <2>2. \A k \in 1 .. L : v[k - 1] \in Nat
    BY <1>0, <2>1
  <2> QED BY <1>2, <2>1, <2>2
<1> HIDE DEF g, iter
<1>12. PICK N \in Nat : N = v[L] /\ NumberOf(ds) = N
  BY <1>0, <1>7, <1>10, <1>11
<1> HIDE DEF L, b
<1> DEFINE r == [i \in 0 .. L |-> v[L - i]]
           d == Reverse(ds)
<1>13. /\ d \in [1 .. L -> 0 .. b - 1] /\ Reverse(d) = ds
       /\ \A i \in 1 .. L : d[i] = ds[(L - i) + 1]
  <2>1. PICK T : T = 0 .. b - 1
    OBVIOUS
  <2>2. ds \in [1 .. L -> T]
    BY <1>1, <2>1
  <2>3. /\ Reverse(ds) \in [1 .. L -> T] /\ Reverse(Reverse(ds)) = ds
        /\ \A i \in 1 .. L : Reverse(ds)[i] = ds[(L - i) + 1]
    <3>1. L \in Nat
      BY <1>0
    <3> HIDE DEF d
    <3> QED BY <2>2, <3>1, ReverseOf, Zenon
  <2> QED BY <2>1, <2>3
<1> HIDE DEF d
<1>14. r \in [0 .. L -> Nat] /\ r[0] = N
  <2>1. \A i \in 0 .. L : L - i \in 0 .. L
    BY <1>0
  <2>2. L - 0 = L /\ 0 \in 0 .. L
    BY <1>0
  <2> QED BY <1>11, <1>12, <2>1, <2>2
<1>15. ASSUME NEW i \in 1 .. L PROVE r[i - 1] = b * r[i] + d[i]
  <2>1. PICK k \in 1 .. L : k = (L - i) + 1 /\ L - (i - 1) = k /\ L - i = k - 1
    BY <1>0
  <2>2. r[i - 1] = v[k] /\ r[i] = v[k - 1] /\ d[i] = ds[k]
    BY <1>0, <1>13, <2>1
  <2> QED BY <1>11, <2>2
<1>16. Splits(r, d, N, b, L)
  <2> HIDE DEF r
  <2> QED BY <1>13, <1>14, <1>15 DEF Splits
<1>17. Digits(N, b, L) = d
  <2>1. PICK q : Splits(q, Digits(N, b, L), N, b, L)
    BY <1>0, DigitsSplit
  <2> HIDE DEF r
  <2> QED BY <1>0, <1>16, <2>1, OneSplit
<1>18. BigEndian(N) = ds
  BY <1>13, <1>17 DEF BigEndian, L, b
<1> QED BY <1>12, <1>18

--------------------------------------------------------------------------------
(* NISTKAT: the reference, of a function a that AES is, and what becomes   *)
(* of a seed when the requests s follow it.                                *)
Blocks(n) == (n + Block - 1) \div Block
NistPart(st, m) ==
  [i \in 1 .. m |-> <<"aes", st.k, BigEndian(st.v + 1 + (i - 1) \div Block), (i - 1) % Block>>]
SeedInput(d)     == <<ZeroKey, BigEndian(3), d>>
LastInput(st, n) == <<st.k, BigEndian(st.v + Blocks(n) + 3), NoData>>
Seeded(a, d) ==
  [k   |-> <<ZeroKey, BigEndian(1), BigEndian(2), d>>,
   v   |-> NumberOf(a[SeedInput(d)]),
   out |-> <<>>]
Requested(a, st, n) ==
  [k   |-> <<st.k, BigEndian(st.v + Blocks(n) + 1), BigEndian(st.v + Blocks(n) + 2), NoData>>,
   v   |-> NumberOf(a[LastInput(st, n)]),
   out |-> st.out \o NistPart(st, n)]
NistRuns(a, v, s, n, d) ==
  /\ SeedInput(d) \in DOMAIN a /\ v[0] = Seeded(a, d)
  /\ \A i \in 0 .. n : v[i].v \in Nat /\ \E S : v[i].out \in Seq(S)
  /\ \A i \in 1 .. n : /\ LastInput(v[i - 1], s[i]) \in DOMAIN a
                       /\ v[i] = Requested(a, v[i - 1], s[i])

LEMMA Reference ==
  ASSUME NEW n, NEW st, NEW d
  PROVE  DrbgRequest(st, n) = Requested(aes, st, n) /\ DrbgInit(d) = Seeded(aes, d)
<1>1. 0 + 1 = 1 /\ 0 + 2 = 2 /\ 0 + 3 = 3 /\ Block \in Nat
  BY Numbers
<1>2. DrbgInit(d) = Seeded(aes, d)
  BY <1>1 DEF DrbgInit, DrbgUpdate, Seeded, SeedInput, NewKey
<1>3. DrbgRequest(st, n) = Requested(aes, st, n)
  BY DEF DrbgRequest, DrbgUpdate, Requested, LastInput, NewKey, NistPart, Blocks
<1> QED BY <1>2, <1>3

(* A run stays one when AES becomes known elsewhere and requests follow.   *)
Extends(a, b) == \A f \in DOMAIN a : f \in DOMAIN b /\ b[f] = a[f]

LEMMA RunsOn ==
  ASSUME NEW a, NEW b, Extends(a, b), NEW s, NEW t, NEW n \in Nat, NEW d, NEW v,
         NistRuns(a, v, s, n, d), \A i \in 1 .. n : t[i] = s[i]
  PROVE  NistRuns(b, v, t, n, d)
<1>1. SeedInput(d) \in DOMAIN b /\ Seeded(b, d) = Seeded(a, d)
  BY DEF NistRuns, Extends, Seeded
<1>2. ASSUME NEW i \in 1 .. n
      PROVE  LastInput(v[i - 1], t[i]) \in DOMAIN b /\ v[i] = Requested(b, v[i - 1], t[i])
  <2>1. PICK x, k : x = v[i - 1] /\ k = s[i] /\ k = t[i]
    OBVIOUS
  <2>2. LastInput(x, k) \in DOMAIN a /\ v[i] = Requested(a, x, k)
    BY <2>1 DEF NistRuns
  <2>3. LastInput(x, k) \in DOMAIN b /\ Requested(b, x, k) = Requested(a, x, k)
    BY <2>2 DEF Extends, Requested
  <2> QED BY <2>1, <2>2, <2>3
<1> QED BY <1>1, <1>2 DEF NistRuns

(* One request more.                                                       *)
RunsTo(a, s, n, d, st) == \E w : NistRuns(a, w, s, n, d) /\ w[n] = st

LEMMA RunsMore ==
  ASSUME NEW a, NEW s, NEW n \in Nat \ {0}, NEW d, NEW v, NistRuns(a, v, s, n - 1, d),
         NEW new, new = Requested(a, v[n - 1], s[n]), LastInput(v[n - 1], s[n]) \in DOMAIN a,
         new.v \in Nat, NEW S, new.out \in Seq(S)
  PROVE  RunsTo(a, s, n, d, new)
<1> DEFINE w == [i \in 0 .. n |-> IF i < n THEN v[i] ELSE new]
<1>1. /\ \A i \in 0 .. n - 1 : i \in 0 .. n /\ w[i] = v[i]
      /\ w[n] = new /\ 0 \in 0 .. n - 1 /\ n - 1 \in 0 .. n - 1
      /\ \A i \in 0 .. n : i \in 0 .. n - 1 \/ i = n
      /\ \A i \in 1 .. n : i - 1 \in 0 .. n - 1 /\ (i \in 1 .. n - 1 \/ i = n)
  OBVIOUS
<1> HIDE DEF w
<1>2. w[0] = Seeded(a, d) /\ SeedInput(d) \in DOMAIN a
  BY <1>1 DEF NistRuns
<1>3. ASSUME NEW i \in 0 .. n PROVE w[i].v \in Nat /\ \E T : w[i].out \in Seq(T)
  <2>1. CASE i = n
    BY <1>1, <2>1
  <2>2. CASE i \in 0 .. n - 1
    BY <1>1, <2>2 DEF NistRuns
  <2> QED BY <1>1, <2>1, <2>2
<1>4. ASSUME NEW i \in 1 .. n
      PROVE  LastInput(w[i - 1], s[i]) \in DOMAIN a /\ w[i] = Requested(a, w[i - 1], s[i])
  <2>1. CASE i = n
    BY <1>1, <2>1
  <2>2. CASE i \in 1 .. n - 1
    <3>1. w[i] = v[i] /\ w[i - 1] = v[i - 1]
      BY <1>1, <2>2
    <3> QED BY <2>2, <3>1 DEF NistRuns
  <2> QED BY <1>1, <2>1, <2>2
<1>5. NistRuns(a, w, s, n, d)
  BY <1>2, <1>3, <1>4 DEF NistRuns
<1> QED BY <1>1, <1>5 DEF RunsTo

LEMMA NistFold ==
  ASSUME NEW S, NEW s \in Seq(S), NEW d, NEW v, NistRuns(aes, v, s, Len(s), d)
  PROVE  FoldLeft(DrbgRequest, DrbgInit(d), s) = v[Len(s)]
<1> DEFINE L == Len(s)
           start == DrbgInit(d)
           Iter(h, m) == h = [t \in SUBSET (1 .. m) |->
                                IF t = {} THEN start
                                ELSE DrbgRequest(h[t \ {Max(t)}], s[Max(t)])]
           iter == CHOOSE h : Iter(h, L)
           T == {m \in Nat : \E h : Iter(h, m)}
<1> HIDE DEF start
<1>1. L \in Nat /\ DOMAIN s = 1 .. L
  OBVIOUS
<1>2. 0 \in T
  <2> DEFINE h == [t \in SUBSET (1 .. 0) |-> start]
  <2>1. \A t \in SUBSET (1 .. 0) : t = {}
    OBVIOUS
  <2>2. Iter(h, 0)
    BY <2>1
  <2> HIDE DEF h, Iter
  <2> QED BY <2>2
<1>3. ASSUME NEW m \in Nat, m \in T PROVE m + 1 \in T
  <2>1. PICK h : Iter(h, m)
    BY <1>3
  <2> DEFINE hh == [t \in SUBSET (1 .. m + 1) |->
                      IF m + 1 \in t THEN DrbgRequest(h[t \ {m + 1}], s[m + 1]) ELSE h[t]]
  <2>2. ASSUME NEW t \in SUBSET (1 .. m + 1), m + 1 \notin t
        PROVE  t \in SUBSET (1 .. m) /\ hh[t] = h[t]
    <3>1. t \in SUBSET (1 .. m)
      BY <2>2
    <3> QED BY <2>2, <3>1
  <2>3. ASSUME NEW t \in SUBSET (1 .. m + 1)
        PROVE  hh[t] = IF t = {} THEN start ELSE DrbgRequest(hh[t \ {Max(t)}], s[Max(t)])
    <3>1. CASE m + 1 \in t
      <4>1. Max(t) \in t /\ \A x \in t : x <= Max(t)
        BY <3>1, m + 1 \in Nat, MaxOf
      <4>2. Max(t) = m + 1
        <5>1. Max(t) \in 1 .. m + 1 /\ m + 1 <= Max(t)
          BY <3>1, <4>1
        <5> QED BY <5>1
      <4>3. t \ {m + 1} \in SUBSET (1 .. m + 1) /\ m + 1 \notin t \ {m + 1}
        OBVIOUS
      <4>4. hh[t \ {m + 1}] = h[t \ {m + 1}]
        BY <2>2, <4>3
      <4>5. hh[t] = DrbgRequest(h[t \ {m + 1}], s[m + 1])
        BY <3>1
      <4> HIDE DEF hh
      <4> QED BY <3>1, <4>2, <4>4, <4>5
    <3>2. CASE m + 1 \notin t /\ t # {}
      <4>1. t \in SUBSET (1 .. m) /\ hh[t] = h[t]
        BY <2>2, <3>2
      <4>2. Max(t) \in t
        BY <3>2, <4>1, MaxOf
      <4>3. t \ {Max(t)} \in SUBSET (1 .. m + 1) /\ m + 1 \notin t \ {Max(t)}
        BY <3>2
      <4>4. hh[t \ {Max(t)}] = h[t \ {Max(t)}]
        BY <2>2, <4>3
      <4>5. h[t] = DrbgRequest(h[t \ {Max(t)}], s[Max(t)])
        BY <2>1, <3>2, <4>1
      <4> HIDE DEF hh
      <4> QED BY <3>2, <4>1, <4>4, <4>5
    <3>3. CASE t = {}
      <4>1. hh[t] = h[t] /\ t \in SUBSET (1 .. m)
        BY <2>2, <3>3
      <4>2. h[t] = start
        BY <2>1, <3>3, <4>1
      <4> HIDE DEF hh
      <4> QED BY <3>3, <4>1, <4>2
    <3> QED BY <3>1, <3>2, <3>3
  <2>4. hh = [t \in SUBSET (1 .. m + 1) |-> hh[t]]
    OBVIOUS
  <2> HIDE DEF hh
  <2>5. Iter(hh, m + 1)
    BY <2>3, <2>4
  <2> HIDE DEF Iter
  <2> QED BY <2>5
<1>4. \E h : Iter(h, L)
  <2>1. \A m \in Nat : m \in T => m + 1 \in T
    BY <1>3
  <2> HIDE DEF T
  <2>2. L \in T
    BY <1>1, <1>2, <2>1, Induction
  <2> QED BY <2>2 DEF T
<1>5. Iter(iter, L)
  <2> HIDE DEF Iter
  <2> QED BY <1>4
<1>6. FoldLeft(DrbgRequest, start, s) = iter[1 .. L]
  BY <1>1 DEF FoldLeft, MapThenFoldSet
<1> HIDE DEF iter
<1> DEFINE U == {i \in Nat : i <= L => iter[1 .. i] = v[i]}
<1>7. 0 \in U
  <2>1. 1 .. 0 = {} /\ {} \in SUBSET (1 .. L)
    OBVIOUS
  <2>2. iter[{}] = start
    BY <1>5, <2>1
  <2>3. v[0] = start
    BY Reference DEF start, NistRuns
  <2> QED BY <2>1, <2>2, <2>3
<1>8. ASSUME NEW m \in Nat, m \in U, m + 1 <= L PROVE iter[1 .. m + 1] = v[m + 1]
  <2>1. /\ 1 .. m + 1 \in SUBSET (1 .. L) /\ m + 1 \in 1 .. m + 1 /\ m + 1 \in 1 .. L
        /\ (1 .. m + 1) \ {m + 1} = 1 .. m /\ (m + 1) - 1 = m
    BY <1>1, <1>8
  <2>2. Max(1 .. m + 1) = m + 1
    <3>1. Max(1 .. m + 1) \in 1 .. m + 1 /\ \A x \in 1 .. m + 1 : x <= Max(1 .. m + 1)
      BY <1>1, <2>1, MaxOf
    <3> QED BY <3>1
  <2>3. PICK t \in SUBSET (1 .. L) : /\ t = 1 .. m + 1 /\ t # {}
                                      /\ Max(t) = m + 1 /\ t \ {m + 1} = 1 .. m
    BY <2>1, <2>2
  <2>4. iter[t] = DrbgRequest(iter[t \ {Max(t)}], s[Max(t)])
    BY <1>5, <2>3
  <2>5. iter[1 .. m] = v[m]
    BY <1>1, <1>8
  <2>6. iter[t] = DrbgRequest(v[m], s[m + 1])
    BY <2>3, <2>4, <2>5
  <2>7. v[m + 1] = Requested(aes, v[m], s[m + 1])
    BY <2>1 DEF NistRuns
  <2> QED BY <2>3, <2>6, <2>7, Reference
<1>9. L \in U
  <2>1. \A m \in Nat : m \in U => m + 1 \in U
    BY <1>8
  <2> HIDE DEF U
  <2> QED BY <1>1, <1>7, <2>1, Induction
<1> QED BY <1>1, <1>6, <1>9 DEF start

--------------------------------------------------------------------------------
(* NISTKAT: the code against the reference                                 *)

(* A request for n under way, which began in the state st.                 *)
NistFills(st, n) ==
  /\ left \in 0 .. n /\ key = st.k /\ given = st.out \o NistPart(st, n - left)
  /\ \E m \in Nat : /\ ctr = BigEndian(st.v + m)
                    /\ left > 0 => n - left = Block * m
                    /\ left = 0 => m = Blocks(n)

NistIdle ==
  \E v : /\ NistRuns(aes, v, sizes, Len(sizes), seed)
         /\ given = v[Len(sizes)].out /\ key = v[Len(sizes)].k
         /\ ctr = BigEndian(v[Len(sizes)].v)
NistBusy ==
  /\ Len(sizes) > 0
  /\ \E v : /\ NistRuns(aes, v, sizes, Len(sizes) - 1, seed)
            /\ NistFills(v[Len(sizes) - 1], sizes[Len(sizes)])

NistInv ==
  /\ seed = NoData => pc = "idle" /\ sizes = <<>> /\ given = <<>>
  /\ seed # NoData /\ pc = "idle" => NistIdle
  /\ pc = "loop" \/ (pc = "update" /\ data = NoData) => NistBusy
  /\ pc = "update" /\ data # NoData =>
       data = seed /\ key = ZeroKey /\ ctr = BigEndian(0) /\ sizes = <<>> /\ given = <<>>

LEMMA InitNist == Init => NistInv
BY DEF Init, NistInv

LEMMA SizesAre ==
  ASSUME Common, rng = "NISTKAT"
  PROVE  /\ sizes \in Seq(Sizes) /\ Len(sizes) \in Nat
         /\ \A i \in 1 .. Len(sizes) : sizes[i] \in Nat
<1>1. sizes \in Seq(Sizes) /\ Sizes \in SUBSET Nat
  BY Numbers DEF Common
<1>2. Len(sizes) \in Nat /\ sizes \in [1 .. Len(sizes) -> Sizes]
  BY <1>1, SeqIsFunction
<1> QED BY <1>1, <1>2

LEMMA RequestNist ==
  ASSUME Common, rng = "NISTKAT", NistInv, NEW n \in Sizes, Request(n)
  PROVE  NistInv'
<1>1. /\ pc = "idle" /\ pc' = "loop" /\ left' = n /\ seed # NoData /\ sizes' = Append(sizes, n)
      /\ UNCHANGED <<given, key, ctr, seed, data, aes>>
  BY DEF Request, nistkat
<1>2. PICK L \in Nat : L = Len(sizes)
  BY SizesAre
<1>3. /\ Len(sizes') = L + 1 /\ (L + 1) - 1 = L /\ sizes'[L + 1] = n
      /\ \A i \in 1 .. L : sizes'[i] = sizes[i]
  BY <1>1, <1>2, SizesAre
<1>4. PICK v : /\ NistRuns(aes, v, sizes, L, seed)
               /\ given = v[L].out /\ key = v[L].k /\ ctr = BigEndian(v[L].v)
  BY <1>1, <1>2 DEF NistInv, NistIdle
<1>5. NistRuns(aes, v, sizes', L, seed)
  BY <1>3, <1>4, RunsOn DEF Extends
<1>6. PICK st : st = v[L]
  OBVIOUS
<1>7. st.v \in Nat /\ \E S : st.out \in Seq(S)
  BY <1>2, <1>4, <1>6 DEF NistRuns
<1>8. NistFills(st, n)'
  <2>1. n \in Nat /\ left' \in 0 .. n /\ n - left' = 0
    BY <1>1, Numbers
  <2>2. PICK none : none = NistPart(st, n - left')
    OBVIOUS
  <2>3. none = <<>>
    <3>1. NistPart(st, 0) = <<>>
      BY DEF NistPart
    <3> QED BY <2>1, <2>2, <3>1
  <2>4. st.out \o none = st.out
    BY <1>7, <2>3
  <2>5. given' = st.out \o NistPart(st, n - left')
    BY <1>1, <1>4, <1>6, <2>2, <2>4
  <2>6. Block * 0 = 0 /\ Blocks(0) = 0 /\ st.v + 0 = st.v
    <3>1. PICK b \in Nat \ {0} : b = Block
      BY Numbers
    <3>2. b - 1 \in 0 .. b - 1 /\ b * 0 + (b - 1) = 0 + b - 1 /\ b * 0 = 0
      OBVIOUS
    <3>3. (b * 0 + (b - 1)) \div b = 0
      BY <3>2, 0 \in Int, DivMod
    <3> QED BY <1>7, <3>1, <3>2, <3>3 DEF Blocks
  <2>7. left' > 0 => n - left' = Block * 0
    BY <2>1, <2>6
  <2>8. left' = 0 => 0 = Blocks(n)
    BY <1>1, <2>6
  <2>9. ctr' = BigEndian(st.v + 0) /\ key' = st.k
    BY <1>1, <1>4, <1>6, <2>6
  <2> QED BY <2>1, <2>5, <2>7, <2>8, <2>9, 0 \in Nat DEF NistFills
<1>9. NistBusy'
  BY <1>1, <1>2, <1>3, <1>5, <1>6, <1>8 DEF NistBusy
<1> QED BY <1>1, <1>9 DEF NistInv

(* A block more, of which the request takes k bytes.                       *)
PartGrows(st, q, k, B) ==
  \E S : /\ NistPart(st, q) \in Seq(S) /\ B \in Seq(S)
         /\ NistPart(st, q + k) = NistPart(st, q) \o B

LEMMA PartMore ==
  ASSUME NEW st, st.v \in Nat, NEW m \in Nat, NEW q \in Nat, q = Block * m,
         NEW k \in 1 .. Block, NEW B,
         B = [j \in 1 .. k |-> <<"aes", st.k, BigEndian(st.v + m + 1), j - 1>>]
  PROVE  PartGrows(st, q, k, B)
<1>1. PICK f : f = NistPart(st, q + k)
  OBVIOUS
<1>2. PICK b \in Nat \ {0} : b = Block
  BY Numbers
<1>3. PICK S : S = {f[i] : i \in 1 .. q + k}
  OBVIOUS
<1>4. f \in [1 .. q + k -> S]
  BY <1>1, <1>3 DEF NistPart
<1>5. NistPart(st, q) = First(f, q)
  <2>1. \A i \in 1 .. q : i \in 1 .. q + k
    OBVIOUS
  <2> QED BY <1>1, <2>1 DEF NistPart, First
<1>6. B = After(f, q, k)
  <2>1. ASSUME NEW j \in 1 .. k PROVE B[j] = f[q + j]
    <3>1. j - 1 \in 0 .. b - 1 /\ m \in Int /\ q + j \in 1 .. q + k
      BY <1>2
    <3>2. (b * m + (j - 1)) \div b = m /\ (b * m + (j - 1)) % b = j - 1
      BY <3>1, DivMod
    <3>3. (q + j) - 1 = b * m + (j - 1)
      BY <1>2
    <3>4. st.v + 1 + m = st.v + m + 1
      OBVIOUS
    <3>5. f[q + j] = <<"aes", st.k, BigEndian(st.v + 1 + ((q + j) - 1) \div Block), ((q + j) - 1) % Block>>
      BY <1>1, <3>1 DEF NistPart
    <3> QED BY <1>2, <3>2, <3>3, <3>4, <3>5
  <2> QED BY <2>1 DEF After
<1>7. k \in Nat /\ q + k \in Nat /\ q + k <= q + k
  OBVIOUS
<1>8. First(f, q) \in Seq(S) /\ After(f, q, k) \in Seq(S) /\ Continues(f, q, k)
  BY <1>4, <1>7, FirstMore
<1>9. First(f, q + k) = f
  BY <1>4 DEF First
<1> QED BY <1>1, <1>5, <1>6, <1>8, <1>9 DEF Continues, PartGrows

LEMMA BlockNist ==
  ASSUME Common, rng = "NISTKAT", NistInv, pc = "loop", NEW k \in 1 .. Block, AesBlock(k),
         (k = Block /\ left >= Block) \/ k = left,
         UNCHANGED <<pc, key, aes, sizes, seed, data>>
  PROVE  NistInv'
<1>1. PICK L \in Nat : L = Len(sizes) /\ L > 0 /\ L - 1 \in Nat /\ L \in 1 .. L
  BY SizesAre DEF NistInv, NistBusy
<1>2. PICK v : NistRuns(aes, v, sizes, L - 1, seed) /\ NistFills(v[L - 1], sizes[L])
  BY <1>1 DEF NistInv, NistBusy
<1>3. PICK st, n : st = v[L - 1] /\ n = sizes[L] /\ n \in Nat
  BY <1>1, SizesAre
<1>4. st.v \in Nat /\ \E S : st.out \in Seq(S)
  BY <1>1, <1>2, <1>3 DEF NistRuns
<1>5. PICK c : /\ c = Increment(ctr) /\ ctr' = c
               /\ given' = given \o [i \in 1 .. k |-> <<"aes", key, c, i - 1>>] /\ left' = left - k
  BY DEF AesBlock
<1>6. NistFills(st, n) /\ left > 0 /\ left \in 0 .. n
  <2>1. left > 0
    BY Numbers DEF Common
  <2> QED BY <1>2, <1>3, <2>1 DEF NistFills
<1>7. PICK m \in Nat : ctr = BigEndian(st.v + m) /\ n - left = Block * m
  BY <1>6 DEF NistFills
<1>8. key = st.k /\ given = st.out \o NistPart(st, n - left)
  BY <1>6 DEF NistFills
<1>9. c = BigEndian(st.v + m + 1)
  BY <1>4, <1>5, <1>7, st.v + m \in Nat, IncrementCounts
<1>10. PICK q \in Nat : q = n - left
  <2>1. n - left \in Nat
    BY <1>3, <1>6
  <2> QED BY <2>1
<1>11. PICK B : B = [j \in 1 .. k |-> <<"aes", st.k, BigEndian(st.v + m + 1), j - 1>>]
  OBVIOUS
<1>12. PICK S : /\ NistPart(st, q) \in Seq(S) /\ B \in Seq(S)
                /\ NistPart(st, q + k) = NistPart(st, q) \o B
  <2>1. q = Block * m
    BY <1>7, <1>10
  <2>2. st.v \in Nat
    BY <1>4
  <2>3. PartGrows(st, q, k, B)
    BY <1>11, <2>1, <2>2, PartMore
  <2> QED BY <2>3 DEF PartGrows
<1>13. given' = st.out \o NistPart(st, q + k)
  <2>1. PICK T : st.out \in Seq(T)
    BY <1>4
  <2>2. PICK x, y, z : x = st.out /\ y = NistPart(st, q) /\ z = B
    OBVIOUS
  <2>3. PICK U : U = S \cup T
    OBVIOUS
  <2>4. x \in Seq(U) /\ y \in Seq(U) /\ z \in Seq(U)
    <3>1. x \in Seq(T) /\ y \in Seq(S) /\ z \in Seq(S)
      BY <1>12, <2>1, <2>2
    <3> QED BY <2>3, <3>1
  <2>5. given' = (x \o y) \o z
    BY <1>5, <1>8, <1>9, <1>10, <1>11, <2>2
  <2>6. (x \o y) \o z = x \o (y \o z)
    BY <2>4
  <2> QED BY <1>12, <2>2, <2>5, <2>6, Zenon
<1>14. NistFills(st, n)'
  <2>1. PICK b \in Nat \ {0} : b = Block /\ k \in 1 .. b /\ ((k = b /\ left >= b) \/ k = left)
    BY Numbers
  <2>2. left' \in 0 .. n /\ q + k = n - left' /\ n = q + left /\ (left' = 0 => n = q + k)
    <3>1. PICK l \in 0 .. n : l = left /\ left' = l - k /\ q = n - l /\ k <= l /\ k \in Nat
      BY <1>5, <1>6, <1>10, <2>1
    <3> QED BY <1>3, <3>1
  <2>3. left' > 0 => n - left' = Block * (m + 1)
    <3>1. left' > 0 => k = b
      BY <1>5, <2>1
    <3>2. b * (m + 1) = b * m + b /\ q = b * m
      BY <1>7, <1>10, <2>1
    <3> QED BY <2>1, <2>2, <3>1, <3>2
  <2>4. left' = 0 => m + 1 = Blocks(n)
    <3>1. SUFFICES ASSUME left' = 0 PROVE m + 1 = Blocks(n)
      OBVIOUS
    <3>2. n = b * m + k /\ k - 1 \in 0 .. b - 1 /\ m + 1 \in Int /\ q = b * m
      BY <1>7, <1>10, <2>1, <2>2, <3>1
    <3>3. b * (m + 1) = b * m + b
      OBVIOUS
    <3>4. n + b - 1 = b * (m + 1) + (k - 1)
      BY <3>2, <3>3
    <3>5. (b * (m + 1) + (k - 1)) \div b = m + 1
      BY <3>2, DivMod
    <3> QED BY <2>1, <3>4, <3>5 DEF Blocks
  <2>5. ctr' = BigEndian(st.v + (m + 1)) /\ key' = st.k
    <3>1. st.v + (m + 1) = st.v + m + 1
      BY <1>4
    <3> QED BY <1>5, <1>8, <1>9, <3>1
  <2>6. given' = st.out \o NistPart(st, n - left')
    BY <1>13, <2>2
  <2>7. m + 1 \in Nat
    OBVIOUS
  <2> QED BY <2>2, <2>3, <2>4, <2>5, <2>6, <2>7 DEF NistFills
<1>15. NistBusy'
  BY <1>1, <1>2, <1>3, <1>14 DEF NistBusy
<1> QED BY <1>15 DEF NistInv

(* nistkat_update from a counter that is x as a number.                    *)
Updated(k, x, d) ==
  /\ key' = <<k, BigEndian(x + 1), BigEndian(x + 2), d>>
  /\ <<k, BigEndian(x + 3), d>> \in DOMAIN aes'
  /\ NumberOf(aes'[<<k, BigEndian(x + 3), d>>]) \in Nat
  /\ ctr' = BigEndian(NumberOf(aes'[<<k, BigEndian(x + 3), d>>]))

LEMMA UpdateIs ==
  ASSUME Yields, nistkat_update, NEW x \in Nat, ctr = BigEndian(x)
  PROVE  Extends(aes, aes') /\ Updated(key, x, data)
<1>1. PICK c1, c2, c3 : c1 = Increment(ctr) /\ c2 = Increment(c1) /\ c3 = Increment(c2)
  OBVIOUS
<1>2. PICK from : from = <<key, c3, data>>
  OBVIOUS
<1>3. /\ key' = <<key, c1, c2, data>>
      /\ \E c \in IF from \in DOMAIN aes THEN {aes[from]} ELSE {BigEndian(y) : y \in Yielded} :
           ctr' = c /\ aes' = [f \in DOMAIN aes \cup {from} |-> IF f = from THEN c ELSE aes[f]]
  BY <1>1, <1>2 DEF nistkat_update, NewKey
<1>4. c1 = BigEndian(x + 1) /\ c2 = BigEndian(x + 2) /\ c3 = BigEndian(x + 3)
  <2>1. c1 = BigEndian(x + 1)
    BY <1>1, IncrementCounts
  <2>2. c2 = BigEndian((x + 1) + 1)
    BY <1>1, <2>1, x + 1 \in Nat, IncrementCounts
  <2>3. c3 = BigEndian(((x + 1) + 1) + 1)
    BY <1>1, <2>2, (x + 1) + 1 \in Nat, IncrementCounts
  <2>4. (x + 1) + 1 = x + 2 /\ ((x + 1) + 1) + 1 = x + 3
    OBVIOUS
  <2> QED BY <2>1, <2>2, <2>3, <2>4
<1>5. PICK c : /\ ctr' = c /\ aes' = [f \in DOMAIN aes \cup {from} |-> IF f = from THEN c ELSE aes[f]]
               /\ c \in IF from \in DOMAIN aes THEN {aes[from]} ELSE {BigEndian(y) : y \in Yielded}
  BY <1>3
<1>6. c \in Counters
  <2>1. PICK w \in Nat : c = BigEndian(w)
    <3>1. Yielded \in SUBSET Nat
      BY Numbers
    <3> QED BY <1>5, <3>1 DEF Yields
  <2> QED BY <2>1, BigEndianType
<1>7. NumberOf(c) \in Nat /\ BigEndian(NumberOf(c)) = c
  BY <1>6, NumberOfCounter
<1>8. from \in DOMAIN aes' /\ aes'[from] = c
  BY <1>5
<1>9. Extends(aes, aes')
  BY <1>5 DEF Extends
<1> QED BY <1>2, <1>3, <1>4, <1>5, <1>7, <1>8, <1>9 DEF Updated

LEMMA UpdateNist ==
  ASSUME Common, rng = "NISTKAT", FreshInv, NistInv, nistkat_update
  PROVE  NistInv'
<1>1. pc = "update" /\ pc' = "idle" /\ left = 0 /\ UNCHANGED <<sizes, given, seed>>
  BY DEF nistkat_update, Common
<1>2. Yields
  BY DEF FreshInv
<1>3. PICK L \in Nat : L = Len(sizes)
  BY SizesAre
<1>4. PICK T : given \in Seq(T)
  BY DEF FreshInv
<1>5. CASE data = NoData
  <2>1. L > 0 /\ L - 1 \in Nat /\ L \in 1 .. L /\ L - 1 \in 0 .. L - 1
    BY <1>1, <1>3, <1>5 DEF NistInv, NistBusy
  <2>2. PICK v : NistRuns(aes, v, sizes, L - 1, seed) /\ NistFills(v[L - 1], sizes[L])
    BY <1>1, <1>3, <1>5 DEF NistInv, NistBusy
  <2>3. PICK st, n : st = v[L - 1] /\ n = sizes[L] /\ n \in Nat
    BY <1>3, <2>1, SizesAre
  <2>4. st.v \in Nat
    BY <2>1, <2>2, <2>3 DEF NistRuns
  <2>5. key = st.k /\ given = st.out \o NistPart(st, n)
    <3>1. NistFills(st, n) /\ n - 0 = n
      BY <2>2, <2>3
    <3> QED BY <1>1, <3>1 DEF NistFills
  <2>6. PICK m \in Nat : m = Blocks(n) /\ ctr = BigEndian(st.v + m)
    <3>1. NistFills(st, n)
      BY <2>2, <2>3
    <3> QED BY <1>1, <3>1 DEF NistFills
  <2>7. PICK x \in Nat : x = st.v + m
    BY <2>4
  <2>8. Extends(aes, aes') /\ Updated(key, x, NoData)
    BY <1>2, <1>5, <2>6, <2>7, UpdateIs
  <2>9. PICK new : new = Requested(aes', st, n)
    OBVIOUS
  <2>10. PICK from : from = <<st.k, BigEndian(st.v + Blocks(n) + 3), NoData>>
    OBVIOUS
  <2>11. from = <<key, BigEndian(x + 3), NoData>> /\ from = LastInput(st, n)
    BY <2>5, <2>6, <2>7, <2>10 DEF LastInput
  <2>12. /\ new.k = <<st.k, BigEndian(x + 1), BigEndian(x + 2), NoData>>
         /\ new.v = NumberOf(aes'[from]) /\ new.out = st.out \o NistPart(st, n)
    BY <2>6, <2>7, <2>9, <2>11 DEF Requested
  <2>13. /\ from \in DOMAIN aes' /\ new.v \in Nat /\ ctr' = BigEndian(new.v)
         /\ key' = new.k /\ given = new.out
    BY <2>5, <2>8, <2>11, <2>12 DEF Updated
  <2>14. NistRuns(aes', v, sizes, L - 1, seed)
    BY <2>1, <2>2, <2>8, RunsOn
  <2>15. PICK s : s = sizes
    OBVIOUS
  <2>16. PICK d : d = seed
    OBVIOUS
  <2>17. new = Requested(aes', v[L - 1], s[L]) /\ LastInput(v[L - 1], s[L]) \in DOMAIN aes'
    BY <2>3, <2>9, <2>11, <2>13, <2>15
  <2>18. PICK a : a = aes'
    OBVIOUS
  <2>19. \E w : NistRuns(a, w, s, L, d) /\ w[L] = new
    <3>1. NistRuns(a, v, s, L - 1, d)
      BY <2>14, <2>15, <2>16, <2>18
    <3>2. new = Requested(a, v[L - 1], s[L]) /\ LastInput(v[L - 1], s[L]) \in DOMAIN a
      BY <2>17, <2>18
    <3>3. L \in Nat \ {0} /\ new.v \in Nat /\ new.out \in Seq(T)
      BY <1>4, <2>1, <2>13
    <3>4. RunsTo(a, s, L, d, new)
      BY <3>1, <3>2, <3>3, RunsMore
    <3> QED BY <3>4 DEF RunsTo
  <2>20. NistIdle'
    <3>1. PICK w : NistRuns(aes', w, sizes', L, seed') /\ w[L] = new
      BY <1>1, <2>15, <2>16, <2>18, <2>19
    <3>2. given' = w[L].out /\ key' = w[L].k /\ ctr' = BigEndian(w[L].v) /\ Len(sizes') = L
      BY <1>1, <1>3, <2>13, <3>1
    <3> QED BY <3>1, <3>2 DEF NistIdle
  <2>21. seed # NoData
    BY <1>1 DEF NistInv
  <2> QED BY <1>1, <2>20, <2>21 DEF NistInv
<1>6. CASE data # NoData
  <2>1. data = seed /\ key = ZeroKey /\ ctr = BigEndian(0) /\ sizes = <<>> /\ given = <<>>
    BY <1>1, <1>6 DEF NistInv
  <2>2. Extends(aes, aes') /\ Updated(ZeroKey, 0, seed)
    BY <1>2, <2>1, 0 \in Nat, UpdateIs
  <2>3. 0 + 1 = 1 /\ 0 + 2 = 2 /\ 0 + 3 = 3
    OBVIOUS
  <2>4. PICK new : new = Seeded(aes', seed)
    OBVIOUS
  <2>5. /\ SeedInput(seed) \in DOMAIN aes' /\ new.v \in Nat /\ ctr' = BigEndian(new.v)
        /\ key' = new.k /\ new.out = <<>>
    BY <2>2, <2>3, <2>4 DEF Updated, Seeded, SeedInput
  <2>6. PICK v : v = [i \in 0 .. 0 |-> new]
    OBVIOUS
  <2>7. v[0] = new /\ (\A i \in 0 .. 0 : v[i] = new) /\ 1 .. 0 = {}
    BY <2>6
  <2>8. NistRuns(aes', v, sizes, 0, seed)
    <3>1. \E S : new.out \in Seq(S)
      BY <2>5
    <3> QED BY <2>4, <2>5, <2>7, <3>1 DEF NistRuns
  <2>9. Len(sizes') = 0 /\ given' = <<>>
    BY <1>1, <2>1
  <2>10. NistIdle'
    BY <1>1, <2>5, <2>7, <2>8, <2>9 DEF NistIdle
  <2> QED BY <1>1, <1>6, <2>1, <2>10 DEF NistInv
<1> QED BY <1>5, <1>6

LEMMA NextNist ==
  ASSUME Common, rng = "NISTKAT", FreshInv, NistInv, [Next]_vars
  PROVE  NistInv'
<1>1. ASSUME NEW s \in Sizes, Request(s) PROVE NistInv'
  BY <1>1, RequestNist
<1>2. CASE WholeBlock
  <2>1. /\ pc = "loop" /\ left >= Block /\ AesBlock(Block)
        /\ UNCHANGED <<pc, key, aes, sizes, seed, data>> /\ Block \in 1 .. Block
    BY <1>2, Numbers DEF WholeBlock
  <2> QED BY <2>1, BlockNist
<1>3. CASE TailBlock
  <2>1. /\ pc = "loop" /\ left \in 1 .. Block /\ AesBlock(left)
        /\ UNCHANGED <<pc, key, aes, sizes, seed, data>>
    BY <1>3, Numbers DEF TailBlock
  <2>2. PICK k \in 1 .. Block : k = left
    BY <2>1
  <2> QED BY <2>1, <2>2, BlockNist
<1>4. CASE BlocksDone
  <2>1. /\ pc = "loop" /\ pc' = "update" /\ data' = NoData
        /\ UNCHANGED <<left, given, key, ctr, aes, sizes, seed>>
    BY <1>4 DEF BlocksDone
  <2>2. NistBusy
    BY <2>1 DEF NistInv
  <2>3. NistBusy' /\ seed # NoData
    BY <2>1, <2>2 DEF NistBusy, NistFills, NistInv
  <2> QED BY <2>1, <2>3 DEF NistInv
<1>5. CASE nistkat_update
  BY <1>5, UpdateNist
<1>6. ASSUME NEW s \in Seeds, randombytes_init(s) PROVE NistInv'
  <2>1. /\ given' = <<>> /\ sizes' = <<>> /\ key' = ZeroKey /\ ctr' = BigEndian(0)
        /\ pc' = "update" /\ data' = s /\ seed' = s
    BY <1>6 DEF randombytes_init, ZeroCtr
  <2>2. s # NoData
    BY Numbers
  <2> QED BY <2>1, <2>2 DEF NistInv
<1>7. CASE UNCHANGED vars
  BY <1>7 DEF vars, nistkat, NistInv, NistIdle, NistBusy, NistFills
<1>8. ~ (Return \/ WholeWord \/ LastWord \/ randombytes_regen \/ BufferedByte)
  BY DEF Return, WholeWord, LastWord, randombytes_regen, BufferedByte
<1> QED
  BY <1>1, <1>2, <1>3, <1>4, <1>5, <1>6, <1>7, <1>8 DEF Next

--------------------------------------------------------------------------------
(* Everything that holds, whichever variant is compiled in.                *)
RandomInv ==
  /\ Common
  /\ rng = "HAL"     => HalInv
  /\ rng = "NOTRAND" => NotRandInv
  /\ rng = "NISTKAT" => FreshInv /\ NistInv
  /\ rng # "NISTKAT" => inputs = <<>>

LEMMA InitRandomInv == Init => RandomInv
BY InitCommon, InitHal, InitNotRand, InitFresh, InitNist DEF RandomInv, Init

LEMMA NextRandomInv ==
  ASSUME RandomInv, [Next]_vars
  PROVE  RandomInv'
<1>1. rng' = rng
  BY DEF Next, vars, Request, Return, WholeWord, LastWord, Take, randombytes_regen, BufferedByte,
         WholeBlock, TailBlock, BlocksDone, nistkat_update, randombytes_init
<1>2. rng # "NISTKAT" => inputs' = inputs
  BY DEF Next, vars, nistkat, Request, Return, WholeWord, LastWord, Take, randombytes_regen,
         BufferedByte, WholeBlock, TailBlock, BlocksDone, nistkat_update, randombytes_init,
         RandomInv, Common
<1>3. Common'
  BY NextCommon DEF RandomInv
<1>4. rng' = "HAL" => HalInv'
  BY <1>1, NextHal DEF RandomInv
<1>5. rng' = "NOTRAND" => NotRandInv'
  BY <1>1, NextNotRand DEF RandomInv
<1>6. rng' = "NISTKAT" => FreshInv' /\ NistInv'
  BY <1>1, NextFresh, NextNist DEF RandomInv
<1> QED BY <1>1, <1>2, <1>3, <1>4, <1>5, <1>6 DEF RandomInv

LEMMA RandomInvHolds == Spec => []RandomInv
BY InitRandomInv, NextRandomInv, PTL DEF Spec

LEMMA SumOfOne ==
  ASSUME NEW n \in Nat
  PROVE  FoldLeft(+, 0, <<n>>) = n /\ FoldLeft(+, 0, <<>>) = 0
<1>1. ASSUME NEW t \in SUBSET (1 .. 1), t # {} PROVE t = {1} /\ Max(t) = 1
  <2>1. t = {1}
    <3>1. \A x \in t : x = 1
      OBVIOUS
    <3> QED BY <1>1, <3>1
  <2>2. Max(t) \in t
    BY <1>1, 1 \in Nat, MaxOf
  <2> QED BY <2>1, <2>2
<1>2. FoldLeft(+, 0, <<n>>) = n
  <2> DEFINE s == <<n>>
             Iter(h) == h = [t \in SUBSET (1 .. 1) |->
                               IF t = {} THEN 0 ELSE h[t \ {Max(t)}] + s[Max(t)]]
             iter == CHOOSE h : Iter(h)
             g == [t \in SUBSET (1 .. 1) |-> IF t = {} THEN 0 ELSE n]
  <2>1. DOMAIN s = 1 .. 1 /\ s[1] = n /\ {1} \ {1} = {}
    OBVIOUS
  <2>2. Iter(g)
    <3>1. ASSUME NEW t \in SUBSET (1 .. 1)
          PROVE  g[t] = IF t = {} THEN 0 ELSE g[t \ {Max(t)}] + s[Max(t)]
      <4>1. g[{}] = 0 /\ {} \in SUBSET (1 .. 1)
        OBVIOUS
      <4>2. t # {} => g[t \ {Max(t)}] = 0 /\ s[Max(t)] = n
        BY <1>1, <2>1, <4>1
      <4>3. t # {} => g[t] = n
        OBVIOUS
      <4>4. n = 0 + n
        OBVIOUS
      <4> HIDE DEF g, s
      <4>5. CASE t = {}
        BY <4>1, <4>5
      <4>6. CASE t # {}
        BY <4>2, <4>3, <4>4, <4>6
      <4> QED BY <4>5, <4>6
    <3> QED BY <3>1
  <2>3. Iter(iter)
    <3> HIDE DEF Iter
    <3> QED BY <2>2
  <2>4. FoldLeft(+, 0, s) = iter[1 .. 1]
    BY <2>1 DEF FoldLeft, MapThenFoldSet
  <2> HIDE DEF iter
  <2>5. iter[1 .. 1] = iter[{1} \ {1}] + s[1]
    <3>1. 1 .. 1 # {} /\ 1 .. 1 \in SUBSET (1 .. 1) /\ 1 .. 1 = {1}
      OBVIOUS
    <3> QED BY <1>1, <2>3, <3>1
  <2>6. iter[{}] = 0
    BY <2>3, {} \in SUBSET (1 .. 1)
  <2>7. iter[1 .. 1] = n
    BY <2>1, <2>5, <2>6
  <2> QED BY <2>4, <2>7, Zenon
<1>3. FoldLeft(+, 0, <<>>) = 0
  <2> DEFINE s == <<>>
             Iter(h) == h = [t \in SUBSET {} |->
                               IF t = {} THEN 0 ELSE h[t \ {Max(t)}] + s[Max(t)]]
             iter == CHOOSE h : Iter(h)
             g == [t \in SUBSET {} |-> 0]
  <2>1. DOMAIN s = {}
    OBVIOUS
  <2>2. Iter(g)
    <3>1. \A t \in SUBSET {} : t = {}
      OBVIOUS
    <3> QED BY <3>1
  <2>3. Iter(iter)
    <3> HIDE DEF Iter
    <3> QED BY <2>2
  <2>4. FoldLeft(+, 0, s) = iter[{}]
    BY <2>1 DEF FoldLeft, MapThenFoldSet
  <2> HIDE DEF iter
  <2> QED BY <2>3, <2>4, {} \in SUBSET {}
<1> QED BY <1>2, <1>3

--------------------------------------------------------------------------------
(* No byte of a stream is handed out twice, by any of the three variants,  *)
(* for any lengths of words, buffers and blocks.                           *)
THEOREM StreamsDoNotRepeat == Spec => []NoByteTwice
<1>1. RandomInv => NoByteTwice
  <2> SUFFICES ASSUME RandomInv PROVE NoByteTwice
    OBVIOUS
  <2>1. rng \in {"HAL", "NOTRAND", "NISTKAT"}
    BY DEF RandomInv, Common
  <2>2. CASE rng = "HAL"
    <3>1. given \in Seq(HalBytes) /\ Distinct(given)
      BY <2>2 DEF RandomInv, HalInv
    <3> QED BY <3>1, AllDistinct DEF NoByteTwice
  <2>3. CASE rng = "NOTRAND"
    <3>1. PICK n \in Nat : given = NotRandStream(n) /\ n <= Stream
      <4>1. /\ Len(given) \in Nat /\ given = NotRandStream(Len(given))
            /\ Len(given) + left <= Stream /\ left \in Nat /\ Stream \in Nat
        BY <2>3, Numbers DEF RandomInv, NotRandInv, Common
      <4>2. Len(given) <= Stream
        BY <4>1
      <4> QED BY <4>1, <4>2
    <3>2. given \in Seq(NotRandBytes) /\ Distinct(given)
      BY <3>1, StreamType, StreamDistinct
    <3> QED BY <3>2, AllDistinct DEF NoByteTwice
  <2>4. CASE rng = "NISTKAT"
    <3>1. PICK S : given \in Seq(S) /\ Distinct(given)
      BY <2>4 DEF RandomInv, FreshInv
    <3> QED BY <3>1, AllDistinct DEF NoByteTwice
  <2> QED BY <2>1, <2>2, <2>3, <2>4
<1> QED BY <1>1, RandomInvHolds, PTL

(* nistkat_update leaves nothing that a later block could repeat: no key   *)
(* and counter go into AES twice after a seeding.                          *)
THEOREM InputsAreFresh == Spec => []InputsFresh
<1>1. RandomInv => InputsFresh
  <2> SUFFICES ASSUME RandomInv PROVE InputsFresh
    OBVIOUS
  <2>1. PICK S : inputs \in Seq(S) /\ Distinct(inputs)
    <3>1. rng = "NISTKAT" => \E S : inputs \in Seq(S) /\ Distinct(inputs)
      BY DEF RandomInv, FreshInv
    <3>2. <<>> \in Seq({}) /\ Distinct(<<>>)
      <4>1. Len(<<>>) = 0
        OBVIOUS
      <4> QED BY <4>1 DEF Distinct
    <3>3. rng # "NISTKAT" => \E S : inputs \in Seq(S) /\ Distinct(inputs)
      BY <3>2 DEF RandomInv
    <3> QED BY <3>1, <3>3
  <2>2. DOMAIN inputs = 1 .. Len(inputs)
    BY <2>1
  <2> QED BY <2>1, <2>2 DEF InputsFresh, IsInjective, Distinct
<1> QED BY <1>1, RandomInvHolds, PTL

(* Between two requests each variant has written what the reference for it *)
(* says of the requests so far, and NISTKAT is in the state it says.       *)
THEOREM StreamsAreAsSpecified == Spec => []MatchesReference
<1>1. RandomInv => MatchesReference
  <2> SUFFICES ASSUME RandomInv, pc = "idle" PROVE MatchesReference
    BY DEF MatchesReference
  <2>1. rng \in {"HAL", "NOTRAND", "NISTKAT"}
    BY DEF RandomInv, Common
  <2>2. CASE rng = "HAL"
    <3>1. PICK v : HalRuns(v, sizes, Len(sizes)) /\ given = v[Len(sizes)].out
      BY <2>2 DEF RandomInv, HalInv
    <3>2. sizes \in Seq(Nat)
      <4>1. sizes \in Seq(Sizes) /\ Sizes \in SUBSET Nat
        BY <2>2, Numbers DEF RandomInv, Common
      <4>2. Len(sizes) \in Nat /\ sizes \in [1 .. Len(sizes) -> Sizes]
        BY <4>1, SeqIsFunction
      <4>3. sizes \in [1 .. Len(sizes) -> Nat]
        BY <4>1, <4>2
      <4> QED BY <4>2, <4>3, FunctionIsSeq
    <3>3. FoldLeft(HalRequest, HalStart, sizes) = v[Len(sizes)]
      BY <3>1, <3>2, HalFold
    <3> QED BY <2>2, <3>1, <3>3 DEF MatchesReference, HalStart
  <2>3. CASE rng = "NOTRAND"
    <3>1. PICK n \in Nat : n = Len(given) /\ given = NotRandStream(n)
      BY <2>3 DEF RandomInv, NotRandInv
    <3>2. left = 0
      BY DEF RandomInv, Common
    <3>3. sizes = <<n>> \/ (sizes = <<>> /\ n = 0)
      <4>1. n + 0 = n /\ Len(<<>>) = 0
        OBVIOUS
      <4> QED BY <2>3, <3>1, <3>2, <4>1 DEF RandomInv, NotRandInv
    <3>4. FoldLeft(+, 0, sizes) = n
      BY <3>3, SumOfOne
    <3> QED BY <2>3, <3>1, <3>4 DEF MatchesReference
  <2>4. CASE rng = "NISTKAT" /\ seed # NoData
    <3>1. PICK v : /\ NistRuns(aes, v, sizes, Len(sizes), seed)
                   /\ given = v[Len(sizes)].out /\ key = v[Len(sizes)].k
                   /\ ctr = BigEndian(v[Len(sizes)].v)
      BY <2>4 DEF RandomInv, NistInv, NistIdle
    <3>2. sizes \in Seq(Sizes)
      BY <2>4 DEF RandomInv, Common
    <3>3. FoldLeft(DrbgRequest, DrbgInit(seed), sizes) = v[Len(sizes)]
      BY <3>1, <3>2, NistFold
    <3> QED BY <2>4, <3>1, <3>3 DEF MatchesReference
  <2>5. CASE rng = "NISTKAT" /\ seed = NoData
    BY <2>5 DEF RandomInv, NistInv, MatchesReference
  <2> QED BY <2>1, <2>2, <2>3, <2>4, <2>5
<1> QED BY <1>1, RandomInvHolds, PTL
================================================================================
