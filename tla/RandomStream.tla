------------------------------ MODULE RandomStream ------------------------------
(***************************************************************************)
(* randombytes, in the three variants RNG= of the Makefile chooses from:   *)
(*   HAL      src/hal/randombytes.c, the hardware generator of a board     *)
(*   NOTRAND  src/hal/notrandombytes.c, a counter, a hash, a 64-byte       *)
(*            buffer that is handed out from its end                       *)
(*   NISTKAT  src/test/common/nistkatrng.c, the CTR_DRBG of the known      *)
(*            answers, which every test vector starts anew                 *)
(* One step is one turn of the innermost loop.                             *)
(*                                                                         *)
(* surf and AES are functions nothing is known of: a byte is the triple of *)
(* function input, function, and place in the output.  Only the counter    *)
(* that AES yields is a number again, because the code counts with it: any *)
(* number, drawn when AES first gets that input, kept in aes.              *)
(***************************************************************************)
EXTENDS SequencesExt, Integers

CONSTANTS
  Sizes,     (* lengths a caller asks for                                  *)
  Requests,  (* bound on calls of randombytes, per seed with NISTKAT       *)
  Stream,    (* bound on the bytes asked of NOTRAND instead                *)
  Inits,     (* bound on calls of randombytes_init                         *)
  Seeds,     (* what it is called with                                     *)
  WordBase,  (* values of a counter word in[i], 2^32 in the code           *)
  Half,      (* bytes surf makes, 32                                       *)
  ByteBase,  (* values of a byte of the AES counter, 256                   *)
  CtrBytes,  (* its bytes, 16                                              *)
  Block,     (* AES_BLOCKBYTES                                             *)
  Yielded    (* numbers AES is let make counters of                        *)

NoData == "none"
Power(b, n) == LET power[i \in 0 .. n] == IF i = 0 THEN 1 ELSE b * power[i - 1] IN power[n]

ASSUME RandomAssumption ==
  /\ Sizes \cup Yielded \subseteq Nat /\ {Requests, Stream, Inits} \subseteq Nat
  /\ {WordBase, Half, ByteBase, CtrBytes, Block} \subseteq Nat \ {0}
  /\ WordBase > 1 /\ WordBase % 2 = 0 /\ ByteBase > 1
  /\ Stream <= Half * Power(WordBase, 4)   \* no counter comes round
  /\ NoData \notin Seeds
  /\ \A n \in Sizes \cup {0} : (n \div Block) + 4 <= Power(ByteBase, CtrBytes)

VARIABLES
  rng,       (* the variant compiled in                                    *)
  pc,        (* "idle", "loop" or "update"                                 *)
  left,      (* bytes of this request still to be written                  *)
  sizes,     (* history: requests so far, since the last seeding; with     *)
             (* NOTRAND, where their cut must not matter, only their sum   *)
  given,     (* history: bytes written by them                             *)
  words,     (* HAL: words taken from the hardware                         *)
  in, out_buf, outleft,   (* NOTRAND: the statics of the file              *)
  key, ctr,  (* NISTKAT: ctx                                               *)
  data,      (* NISTKAT: provided_data of the update under way             *)
  seed,      (* history: the last seed, NoData before the first            *)
  inits,     (* seedings so far                                            *)
  aes,       (* counters AES has yielded                                   *)
  inputs     (* history: inputs of AES since the last seeding, in order    *)

hal     == <<words>>
notrand == <<in, out_buf, outleft>>
nistkat == <<key, ctr, data, seed, inits, aes, inputs>>
vars    == <<rng, pc, left, sizes, given, hal, notrand, nistkat>>

ZeroKey == <<>>

(* Counters as bytes: notrandombytes.c has the low one first, AES the high. *)
Digits(n, base, len) ==
  LET rest[i \in 0 .. len] == IF i = 0 THEN n ELSE rest[i - 1] \div base
  IN [i \in 1 .. len |-> rest[i - 1] % base]
BigEndian(n) == Reverse(Digits(n, ByteBase, CtrBytes))
NumberOf(c)  == FoldLeft(LAMBDA n, d : ByteBase * n + d, 0, c)
ZeroCtr == BigEndian(0)

Init ==
  /\ rng \in {"HAL", "NOTRAND", "NISTKAT"}
  /\ pc = "idle" /\ left = 0 /\ sizes = <<>> /\ given = <<>>
  /\ words = 0
  /\ in = <<0, 0, 0, 0>> /\ out_buf = <<>> /\ outleft = 0
  /\ key = ZeroKey /\ ctr = ZeroCtr /\ data = NoData /\ seed = NoData
  /\ inits = 0 /\ aes = <<>> /\ inputs = <<>>

(* A call of randombytes; the known-answer program seeds before its first. *)
Request(n) ==
  /\ pc = "idle"
  /\ rng = "NISTKAT" => seed # NoData
  /\ pc' = "loop" /\ left' = n
  /\ IF rng = "NOTRAND"
       THEN Len(given) + n <= Stream /\ sizes' = <<Len(given) + n>>
       ELSE Len(sizes) < Requests /\ sizes' = Append(sizes, n)
  /\ UNCHANGED <<rng, given, hal, notrand, nistkat>>

Return ==
  /\ pc = "loop" /\ left = 0 /\ rng # "NISTKAT"
  /\ pc' = "idle"
  /\ UNCHANGED <<rng, left, sizes, given, hal, notrand, nistkat>>

--------------------------------------------------------------------------------
(* HAL *)

WordByte(w, i) == <<"word", w, i>>
Take(bytes) ==
  /\ words' = words + 1
  /\ given' = given \o bytes
  /\ left' = left - Len(bytes)
  /\ UNCHANGED <<rng, pc, sizes, notrand, nistkat>>

WholeWord ==
  /\ rng = "HAL" /\ pc = "loop" /\ left > 4
  /\ Take([i \in 1 .. 4 |-> WordByte(words, i - 1)])

(* The last word, from its byte len - 1 down.                              *)
LastWord ==
  /\ rng = "HAL" /\ pc = "loop" /\ left \in 1 .. 4
  /\ Take([i \in 1 .. left |-> WordByte(words, left - i)])

--------------------------------------------------------------------------------
(* NOTRAND *)

(* ++in with its chain of carries: a word is incremented if all before it  *)
(* have become 0.                                                          *)
BugNext(c) ==                         \* mutant: one link of the chain missing
  [i \in 1 .. 4 |-> IF i # 3 /\ \A j \in 1 .. i - 1 : c[j] = WordBase - 1
                    THEN (c[i] + 1) % WordBase ELSE c[i]]
NextCounter(c) ==
  [i \in 1 .. 4 |-> IF \A j \in 1 .. i - 1 : c[j] = WordBase - 1
                    THEN (c[i] + 1) % WordBase ELSE c[i]]

surf(c) == [i \in 1 .. Half |-> <<"surf", c, i - 1>>]

randombytes_regen ==
  /\ rng = "NOTRAND" /\ pc = "loop" /\ left > 0 /\ outleft = 0
  /\ LET first == NextCounter(in)
         second == NextCounter(first)
     IN /\ in' = second
        /\ out_buf' = surf(first) \o surf(second)
  /\ outleft' = 2 * Half
  /\ UNCHANGED <<rng, pc, left, sizes, given, hal, nistkat>>

BufferedByte ==
  /\ rng = "NOTRAND" /\ pc = "loop" /\ left > 0 /\ outleft > 0
  /\ given' = Append(given, out_buf[outleft])
  /\ outleft' = outleft - 1
  /\ left' = left - 1
  /\ UNCHANGED <<rng, pc, sizes, hal, in, out_buf, nistkat>>

--------------------------------------------------------------------------------
(* NISTKAT *)

(* ctr++ from its last byte on, as long as bytes become 0.                 *)
BugIncrement(c) ==                    \* mutant: no carry
  [c EXCEPT ![CtrBytes] = (@ + 1) % ByteBase]
Increment(c) ==
  [i \in 1 .. CtrBytes |->
     IF \A j \in i + 1 .. CtrBytes : c[j] = ByteBase - 1
     THEN (c[i] + 1) % ByteBase ELSE c[i]]

(* aes256_block_update and the copy of n bytes of its block.               *)
AesBlock(n) ==
  LET c == Increment(ctr)
  IN /\ ctr' = c
     /\ inputs' = Append(inputs, <<key, c>>)
     /\ given' = given \o [i \in 1 .. n |-> <<"aes", key, c, i - 1>>]
     /\ left' = left - n

WholeBlock ==
  /\ rng = "NISTKAT" /\ pc = "loop" /\ left >= Block
  /\ AesBlock(Block)
  /\ UNCHANGED <<rng, pc, sizes, hal, notrand, key, data, seed, inits, aes>>

TailBlock ==
  /\ rng = "NISTKAT" /\ pc = "loop" /\ left \in 1 .. Block - 1
  /\ AesBlock(left)
  /\ UNCHANGED <<rng, pc, sizes, hal, notrand, key, data, seed, inits, aes>>

(* nistkat_update(NULL, ...) at the end of every request                   *)
BlocksDone ==
  /\ rng = "NISTKAT" /\ pc = "loop" /\ left = 0
  /\ pc' = "update" /\ data' = NoData
  /\ UNCHANGED <<rng, left, sizes, given, hal, notrand, key, ctr, seed, inits, aes, inputs>>

(* randombytes_init                                                        *)
BugInit(s) ==                         \* mutant: the counter is not zeroed
  /\ rng = "NISTKAT" /\ pc = "idle" /\ inits < Inits
  /\ key' = ZeroKey /\ UNCHANGED ctr
  /\ pc' = "update" /\ data' = s
  /\ seed' = s /\ inits' = inits + 1
  /\ sizes' = <<>> /\ given' = <<>> /\ inputs' = <<>>
  /\ UNCHANGED <<rng, left, hal, notrand, aes>>
randombytes_init(s) ==
  /\ rng = "NISTKAT" /\ pc = "idle" /\ inits < Inits
  /\ key' = ZeroKey /\ ctr' = ZeroCtr
  /\ pc' = "update" /\ data' = s
  /\ seed' = s /\ inits' = inits + 1
  /\ sizes' = <<>> /\ given' = <<>> /\ inputs' = <<>>
  /\ UNCHANGED <<rng, left, hal, notrand, aes>>

(* The key made from two blocks and what they are XORed with; the counter  *)
(* made from a third.                                                      *)
NewKey(k, c1, c2, d) == <<k, c1, c2, d>>
nistkat_update ==
  /\ pc = "update"
  /\ LET c1 == Increment(ctr)
         c2 == Increment(c1)
         c3 == Increment(c2)
         from == <<key, c3, data>>
     IN /\ key' = NewKey(key, c1, c2, data)
        /\ \E c \in IF from \in DOMAIN aes THEN {aes[from]} ELSE {BigEndian(v) : v \in Yielded} :
             ctr' = c /\ aes' = [x \in DOMAIN aes \cup {from} |-> IF x = from THEN c ELSE aes[x]]
        /\ inputs' = inputs \o << <<key, c1>>, <<key, c2>>, <<key, c3>> >>
  /\ pc' = "idle"
  /\ UNCHANGED <<rng, left, sizes, given, hal, notrand, data, seed, inits>>

--------------------------------------------------------------------------------

Next ==
  \/ \E n \in Sizes : Request(n)
  \/ Return
  \/ WholeWord \/ LastWord
  \/ randombytes_regen \/ BufferedByte
  \/ WholeBlock \/ TailBlock \/ BlocksDone \/ nistkat_update
  \/ \E s \in Seeds : randombytes_init(s)

Spec == Init /\ [][Next]_vars

--------------------------------------------------------------------------------
(* Properties *)

(* No byte is handed out twice, however the requests lie over words,       *)
(* buffers and blocks: keys drawn one after the other share nothing.  With *)
(* NISTKAT this is about the bytes since the last seeding.                 *)
NoByteTwice == Cardinality(Range(given)) = Len(given)

(* AES never gets the same key and counter twice after a seeding, so no    *)
(* output byte is also part of the key or counter that comes next, and the *)
(* one who sees the output cannot go back from the state that follows.     *)
InputsFresh == IsInjective(inputs)

(* What the streams should be, calculated with numbers.                    *)
HalRequest(st, n) ==
  LET spent == (n + 3) \div 4
      last  == n - 4 * (spent - 1)
  IN [word |-> st.word + spent,
      out  |-> st.out \o [i \in 1 .. n |->
                 IF i <= n - last THEN WordByte(st.word + (i - 1) \div 4, (i - 1) % 4)
                 ELSE WordByte(st.word + spent - 1, n - i)]]

NotRandStream(n) ==
  [i \in 1 .. n |->
     LET b == (i - 1) \div (2 * Half)
         place == 2 * Half - 1 - ((i - 1) % (2 * Half))
     IN <<"surf", Digits(2 * b + 1 + place \div Half, WordBase, 4), place % Half>>]

(* Update and Generate of CTR_DRBG, on a key and a number V.               *)
DrbgUpdate(k, v, d, bytes) ==
  [k |-> NewKey(k, BigEndian(v + 1), BigEndian(v + 2), d),
   v |-> NumberOf(aes[<<k, BigEndian(v + 3), d>>]),
   out |-> bytes]
DrbgInit(s) == DrbgUpdate(ZeroKey, 0, s, <<>>)
DrbgRequest(st, n) ==
  DrbgUpdate(st.k, st.v + (n + Block - 1) \div Block, NoData,
    st.out \o [i \in 1 .. n |->
      <<"aes", st.k, BigEndian(st.v + 1 + (i - 1) \div Block), (i - 1) % Block>>])

(* When a request is over, all it was to fill is filled, and with the      *)
(* stream it should be: HAL spends one word for every four bytes begun;    *)
(* NOTRAND is one stream, wherever requests cut it and whichever carries   *)
(* the counter makes; NISTKAT is CTR_DRBG of NIST SP 800-90A, so that a    *)
(* seed determines every byte whatever was done before it was set.         *)
MatchesReference ==
  pc = "idle" =>
    CASE rng = "HAL" -> given = FoldLeft(HalRequest, [word |-> 0, out |-> <<>>], sizes).out
      [] rng = "NOTRAND" -> given = NotRandStream(FoldLeft(+, 0, sizes))
      [] rng = "NISTKAT" /\ seed # NoData ->
           LET st == FoldLeft(DrbgRequest, DrbgInit(seed), sizes)
           IN given = st.out /\ key = st.k /\ ctr = BigEndian(st.v)
      [] OTHER -> given = <<>>
================================================================================
