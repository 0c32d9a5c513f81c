--------------------------------- MODULE IndCpa --------------------------------
(***************************************************************************)
(* indcpa.c: key generation, encryption, decryption and the re-encryption  *)
(* that compares instead of writing, over the few stack slots the code     *)
(* allows itself.  A loop takes one step per iteration and a run of        *)
(* straight-line code one step.  mem is the stack of the function in       *)
(* progress; slots that alias in the code are one slot here.               *)
(***************************************************************************)
EXTENDS Poly, Sequences

CONSTANTS Ranks,      (* the values of MLKEM_K to build for: 2, 3, 4       *)
          Messages,   (* messages                                          *)
          Coins       (* random coins of encryptions                       *)

(* params.h is an #error for any other rank; "none" stands for no message. *)
ASSUME IndCpaAssumption == Ranks \subseteq {2, 3, 4} /\ "none" \notin Messages

VARIABLES
  K,        (* MLKEM_K of this build                                       *)
  pc,       (* function and place in it                                    *)
  i,        (* the loop index                                              *)
  nonce,    (* the local nonce                                             *)
  mem,      (* the polynomials on the stack                                *)
  arg,      (* message and coins of the call in progress or last made      *)
  pk, sk,   (* the keys: encoded polynomials, and the public seed          *)
  ct,       (* the ciphertext: K encoded polynomials, then one             *)
  rc,       (* result of indcpa_enc_cmp                                    *)
  msg,      (* result of indcpa_dec                                        *)
  drawn,    (* history: (seed, nonce) pairs this call gave to the PRF      *)
  reused,   (* history: a call has drawn the same pair twice               *)
  sent      (* history: what ct was encrypted from, "none" once altered    *)

vars == <<K, pc, i, nonce, mem, arg, pk, sk, ct, rc, msg, drawn, reused, sent>>

ETA1 == IF K = 2 THEN 3 ELSE 2
ETA2 == 2

(* hash_g(coins): two independent seeds.                                   *)
publicseed == "rho"
noiseseed  == "sigma"

(* Before anything has been written, asked for or computed.                *)
NoBytes  == Junk
NoArg    == [m |-> "none", coins |-> "none"]
NoRc     == -1
NoMsg    == NoTerms

Vec == 0 .. K - 1

(* Slots.  Keypair: skpv.vec[0..K-1] and pkp.  Encryption: sp.vec[0..K-1]  *)
(* and b, with v = &sp.vec[0] and pkp = k = &b.  Decryption: mp and bp,    *)
(* with v = &bp.                                                           *)
skpv(x) == x
sp(x) == x
pkp == K
b == K
k == b
v == sp(0)
mp == 0
bp == 1
decv == bp

Draw(seed) ==
  /\ drawn' = drawn \cup {<<seed, nonce>>}
  /\ reused' = (reused \/ <<seed, nonce>> \in drawn)
  /\ nonce' = nonce + 1

Enter(place) ==
  /\ pc' = place /\ i' = 0 /\ nonce' = 0 /\ drawn' = {}
  /\ mem' = [x \in 0 .. K |-> Unset]
  /\ UNCHANGED <<K, reused>>

Goto(place) == pc' = place /\ i' = 0 /\ UNCHANGED <<K, nonce, drawn, reused>>
Loop == i' = i + 1 /\ UNCHANGED <<K, pc>>

Init == /\ K \in Ranks
        /\ pc = "idle" /\ i = 0 /\ nonce = 0
        /\ mem = [x \in 0 .. K |-> Unset]
        /\ arg = NoArg
        /\ pk = [t |-> [x \in Vec |-> NoBytes], seed |-> "none"]
        /\ sk = [x \in Vec |-> NoBytes]
        /\ ct = [x \in 0 .. K |-> NoBytes]
        /\ rc = NoRc /\ msg = NoMsg
        /\ drawn = {} /\ reused = FALSE /\ sent = NoArg

(* matacc(r, vec, row, seed, transposed): a row of A, or of its transpose, *)
(* times the vector in mem[0..K-1].                                        *)
BugEntryOf(row, col, seed, transposed) ==   \* mutant: one order for both
  MatrixEntry(seed, col, row)
EntryOf(row, col, seed, transposed) ==
  IF transposed THEN MatrixEntry(seed, row, col) ELSE MatrixEntry(seed, col, row)

matacc(row, seed, transposed) ==
  LET sum[c \in Vec] ==
        IF c = 0 THEN poly_basemul(EntryOf(row, 0, seed, transposed), mem[0])
        ELSE poly_basemul_acc(sum[c - 1], EntryOf(row, c, seed, transposed), mem[c])
  IN  sum[K - 1]

NttVec == [x \in 0 .. K |-> IF x \in Vec THEN poly_ntt(mem[x]) ELSE mem[x]]

--------------------------------------------------------------------------------
(***************************************************************************)
(* indcpa_keypair_derand.                                                  *)
(***************************************************************************)
KeypairCall ==
  /\ pc = "idle" /\ pk.seed = "none"
  /\ Enter("kp_noise")
  /\ UNCHANGED <<arg, pk, sk, ct, rc, msg, sent>>

KeypairNoise ==
  /\ pc = "kp_noise" /\ i < K
  /\ mem' = [mem EXCEPT ![skpv(i)] = poly_getnoise(ETA1, noiseseed, nonce)]
  /\ Draw(noiseseed) /\ Loop
  /\ UNCHANGED <<arg, pk, sk, ct, rc, msg, sent>>

KeypairNtt ==
  /\ pc = "kp_noise" /\ i = K
  /\ mem' = NttVec
  /\ Goto("kp_row")
  /\ UNCHANGED <<arg, pk, sk, ct, rc, msg, sent>>

BugKeypairRow ==                      \* mutant: noise added before invntt
  /\ pc = "kp_row" /\ i < K
  /\ LET as == matacc(i, publicseed, FALSE)
         t  == poly_invntt_tomont(poly_addnoise(as, ETA1, noiseseed, nonce))
     IN  mem' = [mem EXCEPT ![pkp] = poly_reduce(poly_ntt(t))]
  /\ pk' = [pk EXCEPT !.t[i] = poly_tobytes(mem'[pkp])]
  /\ Draw(noiseseed) /\ Loop
  /\ UNCHANGED <<arg, sk, ct, rc, msg, sent>>
KeypairRow ==
  /\ pc = "kp_row" /\ i < K
  /\ LET as == poly_invntt_tomont(matacc(i, publicseed, FALSE))
         t  == poly_addnoise(as, ETA1, noiseseed, nonce)
     IN  mem' = [mem EXCEPT ![pkp] = poly_reduce(poly_ntt(t))]
  /\ pk' = [pk EXCEPT !.t[i] = poly_tobytes(mem'[pkp])]
  /\ Draw(noiseseed) /\ Loop
  /\ UNCHANGED <<arg, sk, ct, rc, msg, sent>>

KeypairReturn ==
  /\ pc = "kp_row" /\ i = K
  /\ sk' = [x \in Vec |-> poly_tobytes(mem[skpv(x)])]
  /\ pk' = [pk EXCEPT !.seed = publicseed]
  /\ Goto("idle")
  /\ UNCHANGED <<mem, arg, ct, rc, msg, sent>>

--------------------------------------------------------------------------------
(***************************************************************************)
(* indcpa_enc(c, m, pk, coins).                                            *)
(***************************************************************************)
EncCall(m, coins) ==
  /\ pc = "idle" /\ pk.seed # "none"
  /\ arg' = [m |-> m, coins |-> coins]
  /\ Enter("enc_noise")
  /\ sent' = NoArg /\ rc' = NoRc /\ msg' = NoMsg
  /\ ct' = [x \in 0 .. K |-> NoBytes]
  /\ UNCHANGED <<pk, sk>>

EncNoise ==
  /\ pc = "enc_noise" /\ i < K
  /\ mem' = [mem EXCEPT ![sp(i)] = poly_getnoise(ETA1, arg.coins, nonce)]
  /\ Draw(arg.coins) /\ Loop
  /\ UNCHANGED <<arg, pk, sk, ct, rc, msg, sent>>

EncNtt ==
  /\ pc = "enc_noise" /\ i = K
  /\ mem' = NttVec
  /\ Goto("enc_row")
  /\ UNCHANGED <<arg, pk, sk, ct, rc, msg, sent>>

BugEncRow ==                          \* mutant: nonce is not advanced
  /\ pc = "enc_row" /\ i < K
  /\ LET ar == poly_invntt_tomont(matacc(i, pk.seed, TRUE))
     IN  mem' = [mem EXCEPT ![b] =
                   poly_reduce(poly_addnoise(ar, ETA2, arg.coins, nonce))]
  /\ ct' = [ct EXCEPT ![i] = poly_compress(mem'[b])]
  /\ drawn' = drawn \cup {<<arg.coins, nonce>>}
  /\ reused' = (reused \/ <<arg.coins, nonce>> \in drawn)
  /\ Loop
  /\ UNCHANGED <<nonce, arg, pk, sk, rc, msg, sent>>
EncRow ==
  /\ pc = "enc_row" /\ i < K
  /\ LET ar == poly_invntt_tomont(matacc(i, pk.seed, TRUE))
     IN  mem' = [mem EXCEPT ![b] =
                   poly_reduce(poly_addnoise(ar, ETA2, arg.coins, nonce))]
  /\ ct' = [ct EXCEPT ![i] = poly_compress(mem'[b])]
  /\ Draw(arg.coins) /\ Loop
  /\ UNCHANGED <<arg, pk, sk, rc, msg, sent>>

EncRowsDone ==
  /\ pc = "enc_row" /\ i = K
  /\ Goto("enc_dot")
  /\ UNCHANGED <<mem, arg, pk, sk, ct, rc, msg, sent>>

(* v = &sp.vec[0]: iteration 0 overwrites sp.vec[0] with its product.      *)
EncDot ==
  /\ pc = "enc_dot" /\ i < K
  /\ LET t == poly_frombytes(pk.t[i])
     IN  mem' = [mem EXCEPT ![pkp] = t,
                            ![v] = IF i = 0 THEN poly_basemul(t, mem[sp(0)])
                                   ELSE poly_basemul_acc(mem[v], t, mem[sp(i)])]
  /\ Loop
  /\ UNCHANGED <<nonce, arg, pk, sk, ct, rc, msg, drawn, reused, sent>>

EncReturn ==
  /\ pc = "enc_dot" /\ i = K
  /\ LET noisy == poly_addnoise(poly_invntt_tomont(mem[v]), ETA2, arg.coins, nonce)
         m     == poly_frommsg(arg.m)
     IN  mem' = [mem EXCEPT ![k] = m, ![v] = poly_reduce(poly_add(noisy, m))]
  /\ ct' = [ct EXCEPT ![K] = poly_compress(mem'[v])]
  /\ Draw(arg.coins)
  /\ pc' = "idle" /\ i' = 0
  /\ sent' = arg
  /\ UNCHANGED <<K, arg, pk, sk, rc, msg>>

(* The ciphertext travels: one of its polynomials may be replaced.         *)
Tamper(part) ==
  /\ pc = "idle" /\ sent # NoArg
  /\ ct' = [ct EXCEPT ![part] = Atom(<<"forged", part>>)]
  /\ sent' = NoArg /\ rc' = NoRc /\ msg' = NoMsg
  /\ UNCHANGED <<K, pc, i, nonce, mem, arg, pk, sk, drawn, reused>>

--------------------------------------------------------------------------------
(***************************************************************************)
(* indcpa_dec(m, c, sk): iteration 0 initialises mp, the others add to it. *)
(***************************************************************************)
DecCall ==
  /\ pc = "idle" /\ ct[K] # NoBytes
  /\ msg = NoMsg                  \* bound: once per ciphertext
  /\ Enter("dec_dot")
  /\ UNCHANGED <<arg, pk, sk, ct, rc, msg, sent>>

BugDecDot ==                          \* mutant: every iteration initialises mp
  /\ pc = "dec_dot" /\ i < K
  /\ LET u == poly_ntt(poly_decompress(ct[i], i))
         s == poly_frombytes(sk[i])
     IN  mem' = [mem EXCEPT ![bp] = u, ![mp] = poly_basemul(s, u)]
  /\ Loop
  /\ UNCHANGED <<nonce, arg, pk, sk, ct, rc, msg, drawn, reused, sent>>
DecDot ==
  /\ pc = "dec_dot" /\ i < K
  /\ LET u == poly_ntt(poly_decompress(ct[i], i))
         s == poly_frombytes(sk[i])
     IN  mem' = [mem EXCEPT ![bp] = u,
                            ![mp] = IF i = 0 THEN poly_basemul(s, u)
                                    ELSE poly_basemul_acc(mem[mp], s, u)]
  /\ Loop
  /\ UNCHANGED <<nonce, arg, pk, sk, ct, rc, msg, drawn, reused, sent>>

DecReturn ==
  /\ pc = "dec_dot" /\ i = K
  /\ LET d == poly_decompress(ct[K], K)
         w == poly_reduce(poly_sub(d, poly_invntt_tomont(mem[mp])))
     IN  /\ mem' = [mem EXCEPT ![decv] = d, ![mp] = w]
         /\ msg' = poly_tomsg(w)
  /\ Goto("idle")
  /\ UNCHANGED <<arg, pk, sk, ct, rc, sent>>

--------------------------------------------------------------------------------
(***************************************************************************)
(* indcpa_enc_cmp(ct, m, pk, coins): the code of indcpa_enc once more, the *)
(* encoders replaced by comparisons that are or-ed into rc.                *)
(***************************************************************************)
Differs(bytes, p) == IF bytes = poly_compress(p) THEN 0 ELSE 1
Or(x, y) == Larger(x, y)

CmpCall(m, coins) ==
  /\ pc = "idle" /\ ct[K] # NoBytes
  /\ rc = NoRc                   \* bound: once per ciphertext
  /\ arg' = [m |-> m, coins |-> coins]
  /\ Enter("cmp_noise")
  /\ rc' = 0
  /\ UNCHANGED <<pk, sk, ct, msg, sent>>

CmpNoise ==
  /\ pc = "cmp_noise" /\ i < K
  /\ mem' = [mem EXCEPT ![sp(i)] = poly_getnoise(ETA1, arg.coins, nonce)]
  /\ Draw(arg.coins) /\ Loop
  /\ UNCHANGED <<arg, pk, sk, ct, rc, msg, sent>>

CmpNtt ==
  /\ pc = "cmp_noise" /\ i = K
  /\ mem' = NttVec
  /\ Goto("cmp_row")
  /\ UNCHANGED <<arg, pk, sk, ct, rc, msg, sent>>

BugCmpRow ==                          \* mutant: rc = instead of rc |=
  /\ pc = "cmp_row" /\ i < K
  /\ LET ar == poly_invntt_tomont(matacc(i, pk.seed, TRUE))
     IN  mem' = [mem EXCEPT ![b] =
                   poly_reduce(poly_addnoise(ar, ETA2, arg.coins, nonce))]
  /\ rc' = Differs(ct[i], mem'[b])
  /\ Draw(arg.coins) /\ Loop
  /\ UNCHANGED <<arg, pk, sk, ct, msg, sent>>
CmpRow ==
  /\ pc = "cmp_row" /\ i < K
  /\ LET ar == poly_invntt_tomont(matacc(i, pk.seed, TRUE))
     IN  mem' = [mem EXCEPT ![b] =
                   poly_reduce(poly_addnoise(ar, ETA2, arg.coins, nonce))]
  /\ rc' = Or(rc, Differs(ct[i], mem'[b]))
  /\ Draw(arg.coins) /\ Loop
  /\ UNCHANGED <<arg, pk, sk, ct, msg, sent>>

CmpRowsDone ==
  /\ pc = "cmp_row" /\ i = K
  /\ Goto("cmp_dot")
  /\ UNCHANGED <<mem, arg, pk, sk, ct, rc, msg, sent>>

CmpDot ==
  /\ pc = "cmp_dot" /\ i < K
  /\ LET t == poly_frombytes(pk.t[i])
     IN  mem' = [mem EXCEPT ![pkp] = t,
                            ![v] = IF i = 0 THEN poly_basemul(t, mem[sp(0)])
                                   ELSE poly_basemul_acc(mem[v], t, mem[sp(i)])]
  /\ Loop
  /\ UNCHANGED <<nonce, arg, pk, sk, ct, rc, msg, drawn, reused, sent>>

(* rc = ~rc + 1; rc >>= 63: the top bit of the negation of an 8-bit value. *)
CmpReturn ==
  /\ pc = "cmp_dot" /\ i = K
  /\ LET noisy == poly_addnoise(poly_invntt_tomont(mem[v]), ETA2, arg.coins, nonce)
         m     == poly_frommsg(arg.m)
     IN  mem' = [mem EXCEPT ![k] = m, ![v] = poly_reduce(poly_add(noisy, m))]
  /\ rc' = IF Or(rc, Differs(ct[K], mem'[v])) = 0 THEN 0 ELSE 1
  /\ Draw(arg.coins)
  /\ pc' = "idle" /\ i' = 0
  /\ UNCHANGED <<K, arg, pk, sk, ct, msg, sent>>

Next ==
  \/ KeypairCall \/ KeypairNoise \/ KeypairNtt \/ KeypairRow \/ KeypairReturn
  \/ \E m \in Messages, c \in Coins : EncCall(m, c) \/ CmpCall(m, c)
  \/ EncNoise \/ EncNtt \/ EncRow \/ EncRowsDone \/ EncDot \/ EncReturn
  \/ \E part \in 0 .. K : Tamper(part)
  \/ DecCall \/ DecDot \/ DecReturn
  \/ CmpNoise \/ CmpNtt \/ CmpRow \/ CmpRowsDone \/ CmpDot \/ CmpReturn

Spec == Init /\ [][Next]_vars
--------------------------------------------------------------------------------
(* No int16_t of any of the four functions ever has to hold more than 16   *)
(* bits: reductions are left out wherever they can be, and with K = 4 the  *)
(* first layer of the inverse NTT is close to the limit, all the more as   *)
(* nothing checks the 12-bit coefficients of a received key against q.     *)
NoOverflow == \A x \in DOMAIN mem : mem[x].peak <= MaxInt16

(* Sums and encodings never mix domains, Montgomery factors or a slot      *)
(* that has not been written.                                              *)
WellFormed == /\ \A x \in DOMAIN mem : mem[x].dom = "junk" => mem[x] = Unset
              /\ pk.seed # "none" => \A x \in Vec : pk.t[x] # Junk /\ sk[x] # Junk

(* No call gives the PRF the same seed and nonce twice: two noise          *)
(* polynomials would be equal.                                             *)
NonceFresh == ~ reused

(* Small atoms: what decryption may leave next to the message.             *)
Small(a) == a[1] \in {"noise", "round"}

(* Decrypting an untouched ciphertext leaves the message, once, plus       *)
(* products of at most two small polynomials: every matrix entry cancels.  *)
(* That takes the transpose, the aliased slots, the Montgomery factors and *)
(* the domains of three functions to agree.                                *)
DecryptsToMessage ==
  (pc = "idle" /\ msg # NoMsg /\ sent # NoArg) =>
    LET m == {<<"msg", sent.m>>} IN
      /\ Coef(msg, m) = 1
      /\ \A x \in DOMAIN msg \ {m} :
           Cardinality(x) <= 2 /\ \A a \in x : Small(a)

(* indcpa_enc_cmp answers 0 exactly when indcpa_enc, called with the same  *)
(* arguments, would have written this very ciphertext; the two are copies  *)
(* of one another in the source and have to stay so.                       *)
CmpIsReencryption ==
  (pc = "idle" /\ rc # NoRc) => (rc = 0) = (sent = arg)
================================================================================
