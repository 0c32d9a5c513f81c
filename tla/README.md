# A verification project for mlkem-c-embedded

ML-KEM (FIPS 203) for small Cortex-M and RISC-V boards: `src/mlkem` (the
scheme), `src/fips202` (Keccak), `src/hal` (boards), `src/test` (programs that
run on a board) and `src/scripts` (the host side). The code trades memory for
control: no matrix is stored, slots on the stack are reused under several
names, ciphertexts are compared while they are recomputed, reductions are left
out wherever 16 bits suffice. That control is what these TLA+ modules model;
TLC checks it on small instances, TLAPS proves part of it for all.

Everything runs in this directory: `tlc -config X.cfg M`, `tlapm M.tla`.
`PROJECT.json` lists the runs, the mutants (for every checked property, a
plausible bug of the code that violates it), the source lines each definition
models, the hazards and the theorems.

## 1. Inventory

| Component | State | Operations | What makes it correct |
|---|---|---|---|
| fips202.c, incremental API | 25 words and a byte count `s_inc[25]` with two meanings (bytes absorbed since / bytes left since the last permutation) | init, absorb, finalize, squeeze; `shake256_inc_*`, `shake256`, `sha3_256`, `sha3_512` on top | the output depends on message and position only, never on the cut into calls; `s_inc[25] < r` always |
| fips202.c, block API | 25 words | `shake128_absorb` (zeroes, then `keccak_absorb`), `shake128_squeezeblocks` | same stream as the incremental API; nothing of the old memory in the state |
| keccakf1600.c, SnP-Relaned.h | 25 lanes as 50 interleaved halves | XOR/extract bytes, permute in place | bytes go to the lane and offset asked for; 24 rounds, each of which reads its cells before it overwrites them |
| matacc.c | locals `ctr`, `ctr2`, `ax[4]`, `pos`, block buffer, XOF state | `matacc` over columns, `matacc_inner` by rejection sampling, `doublebasemul` | first 256 candidates below q, in order, each once, times the right coefficient and zeta, of the right entry of A or Aᵀ |
| indcpa.c | stack slots (some aliased), nonce | keypair, enc, dec, enc_cmp | decryption inverts encryption up to small noise; enc_cmp answers exactly "enc would have written this"; no int16 overflow; no nonce twice |
| poly.c, polyvec.c, ntt.c, reduce.c, cbd.c | none (pure functions on coefficient arrays) | NTT both ways, products, encoders, decoders, compression, noise | exact arithmetic mod q within the documented ranges; encoders round correctly |
| kem.c, verify.c, symmetric-shake.c | the stored key: s, pk, H(pk), z | keypair, enc, dec (each also with given randomness) | agreement for untouched ciphertexts, implicit rejection for all others |
| hal-opencm3.c, hal-mps2.c: time | 64-bit `overflowcnt`, hardware counter, pending interrupt | handler, `hal_setup`, `hal_get_time` | exact time in spite of wraps, pending interrupts and torn loads |
| hal: stack measurement | `last_sp`, `heap_end`, the memory between | spray, check | the measured size is what was used since spraying, not what an earlier call left |
| speed.c, sendfn.h | arrays of times | time a call, median, decimal output | the number sent is the median of the times taken |
| randombytes (three variants) | DRBG key/counter; buffer and rest; none | `randombytes`, `randombytes_init` | no output byte is handed out twice; one stream whatever the requests; a seed determines all |
| test programs, host runner | the program on the board; serial port | flash, markers `$` around the output, count or compare | a pass is earned by the program flashed, a failure is its own (both only as far as the markers can tell programs apart, section 3), the host ends |

Interaction is by plain calls: kem → indcpa → matacc/poly → symmetric →
fips202 → keccakf1600; test programs → kem and hal. Two things are really
concurrent: the SysTick interrupt with the thread that reads the time or whose
stack is being measured, and the board with the host at the other end of the
serial line. The rest is sequential, and hard for other reasons: chunk
boundaries, loops that carry state across block boundaries, aliasing, duplicated code that must stay equal,
unreduced 16-bit arithmetic, and parties that get ciphertexts in any order and
shape. `PROJECT.json` has the list of hazards, each at its line.

## 2. Modules

| Module | Models | Abstracts from |
|---|---|---|
| `KeccakState` | the four operations fips202.c makes on the 25 words | the permutation: a state is the sequence of blocks XORed in before each permutation, a byte the set of symbols XORed into it. XORing twice cancels, as in the code |
| `Sponge` | the promise: an extendable-output function, fed and read in pieces | how |
| `KeccakInc` | the incremental API, one step per loop iteration, any caller that keeps to init–absorb–finalize–squeeze | capacity words; the rate is a constant |
| `KeccakBlocks` | the block API on uninitialised memory, next to `KeccakInc`: one piece of memory that holds contexts of both kinds in turn; what is promised of both | same |
| `KeccakProofs` | theorems about `KeccakBlocks`, which includes `KeccakInc`, and that it implements `Sponge` | |
| `MatAcc` | `matacc`, one step per block, per three bytes, per column | whether a candidate is below q is a free choice; a coefficient is the sequence of products summed into it |
| `MatAccProofs` | theorems about `MatAcc` | |
| `Poly` | the polynomial operations as indcpa.c uses them | 256 coefficients become domain, Montgomery power, bound, highest bound ever held, and the value as a sum of monomials over independent atoms |
| `IndCpa` | the four functions of indcpa.c, slot by slot | |
| `IndCpaProofs` | theorems about `IndCpa` and the operations of `Poly` | |
| `Reduce` | Montgomery and Barrett reduction, every conversion to int16_t wrapping | nothing |
| `Ntt` | ntt, basemul, basemul_acc and invntt on 256 numbers, one step per block of butterflies | which row and column: two polynomials are multiplied and accumulated K times, as indcpa.c does |
| `NttProofs` | theorems about `Ntt` and `Reduce` | |
| `Codec` | the six byte formats (messages: d = 1; compressed: 4, 5, 10, 11; uncompressed: 12): compression with its wrapping multiplications, packing, unpacking, decompression, comparison; and noise from bytes (cbd2, cbd3), set or added | the loop over groups: one group of 2, 4 or 8 coefficients |
| `KeccakRounds` | the permutation, one step per block of five cells; its tables are the cells the four macros name | nothing |
| `KeccakF1600` | the three calls on one state: SnP_AddBytes and SnP_ExtractBytes lane by lane, bit interleaving bit by bit, and `KeccakRounds` between them | nothing |
| `Words` | shifts, exclusive or and sums on words as sets of bit positions (library of the last three) | |
| `RandomStream` | randombytes.c, notrandombytes.c, nistkatrng.c, one step per turn of the innermost loop | surf and AES are unknown functions; the counter AES yields is any number |
| `Measure` | stack.c over the spray and check loops, speed.c, sendfn.h | what the measured function does: it pushes, writes or skips, and drops words; a time is any of a few |
| `TestRunner` | scripts/tests and the four programs of src/test on a board or in QEMU, character by character where markers are concerned | a text is one token; whether a round comes out right is a free choice |
| `TestRunnerProofs` | theorems about `TestRunner` | |
| `KemIdeal` | the promise of a KEM: a table | how |
| `Kem` | kem.c and the parties around it | hashes are injective terms; bytes strings are equal only if built alike |
| `KemProofs` | theorems about `Kem`, that it implements `KemIdeal`, and about `RandomStream` | |
| `SysTick` | counter, handler, `hal_setup`, `hal_get_time`; every load of half of `overflowcnt` is a step | cycle counts of single instructions |
| `BoardProofs` | theorems about `SysTick` and `Measure` | |
| `InductionLemmas` | induction, recursive functions, folds and digits (library of the proofs) | |

State and actions follow the code's names. In `KeccakInc` and `KeccakBlocks`,
`s` is the 25 words, `s25` is `s_inc[25]`, `m` and `mlen` the parameters as the
loop changes them (`m` counts from the start of the whole message), `out` all
bytes ever written to `h`. A call that loops is split into entering, one
iteration, leaving, because the invariants must hold between iterations.
`shake256`, `sha3_256` and `sha3_512` are particular sequences of these calls.
A block context has 25 words, an incremental one 26: going from the first kind
to the second leaves a byte count that means nothing.

In `MatAcc`, `smp` holds `ctr`, `ctr2`, `ax` and `r`; `seen` is a history of
the candidates below q in stream order, from which `RefProduct` computes what
each coefficient should be, without looking at `ctr`, `ctr2` or `ax`.

In `IndCpa`, `mem` is the stack of the function in progress. Aliases are equal
slot numbers: `v == sp(0)`, `pkp = k = b`. Every PRF call is recorded in
`drawn`. `Tamper` is the world outside.

In `Kem` a function is one step, because it touches only its arguments.
Ciphertexts stay on the wire for ever: they can be delivered again, late, in
any order, to any key. `Change` turns one into another that decrypts to the
same message (a change within the rounding) or to something unrelated.
`Damage` overwrites any set of fields of a stored key, which includes what
`test_invalid_sk_a` does to all of it.

The arithmetic modules stand below those. `IndCpa` calculates with the bounds of
`Poly`; `Ntt` instantiates `Poly` and checks that these bounds hold of the
numbers. `MatAcc`, `IndCpa` and `Kem` take encoders for granted; `Codec` is
what entitles them to. `KeccakState` is an array of bytes and a black box;
`KeccakF1600` shows that bytes across lanes and the permutation together are
just that.

In `KeccakRounds` the half lane `Aki1` is the cell `"ki1"`. The rows of a table
are the blocks of a macro, in order, and list the cells in the order in which
chi writes them; `Reads` is which of them Ba..Bu come from and how far they are
rotated, the same for all four macros. `ref` is advanced by a definition of
Keccak-p written from its algebra: 64-bit lanes, offsets of rho from the walk,
constants of iota from the shift register, and no table in common.

In `RandomStream` a byte is the triple of function input, function and place in
its output, so two bytes are equal only if they are the same byte. `given` is
all that was written to callers (with NISTKAT, since the last seeding),
`inputs` all that AES was asked since.

In `SysTick`, `ticks` is the time in ticks of the counter, `thread` where the
reader is, `bhi`, `blo` and `nlo` the halves of `before` and `overflowcnt` it
has loaded, `time` what `hal_get_time` has returned.

In `Measure`, `mem` is the set of words that hold the pattern, `deep` and
`written` the history of what the function used and wrote. The function may go
on below `Bottom`; the measure then saturates. `Long` and `Cut` stand for 2^64
and 2^32, in the same order to each other and to `Durations`; that two times
differ by less than half of `Cut` is an assumption (`MeasureAssumption`),
without which the comparison of speed.c:13 sorts wrongly.

In `TestRunner`, `line` holds what has been sent and not read. Before the host
flashes the first program an earlier one may be running, at any of the stages
in `Caught`. A program can fault. openocd can fail in three ways: it does not
reach the board, it resets it and fails before it has halted it, so that the
program that was there starts again, or it stops it and fails then; its exit
status is not looked at. `stray` records that a program other than the one to be
tested has come to its opening marker since the port was opened. QEMU's port is
a pipe read when the process is over, and a fault ends the process like an exit.

## 3. Runs

| Run | Shows | Bounds, and why they do |
|---|---|---|
| `keccak` | `ImplementsSponge`: each step is a step of `Sponge` or a stutter, for both APIs. `Absorbed`: every byte sits where one call would have put it. `RoomForPadding`: the comment of `keccak_inc_finalize`. `StartsFromZero`: nothing of the old memory in a block context | rate 3, message up to 10, output up to 10 bytes or 4 blocks: chunks of 0 to three and a third blocks, all combinations, every residue; contexts are started again at any point, in memory with any content or the other kind of context |
| `matacc` | `RowProduct`: every coefficient of `r` is the sum over all columns passed, each once. `NoOverrun`, `NoGap`, `RightEntry` | 8 coefficients, 2 columns, blocks of two triples, 2 rejections per column: a block ends at every phase of a group of four, and a group is completed by val0 and by val1 |
| `indcpa` | `DecryptsToMessage`: matrix terms cancel, the message comes out once, what else remains is products of two small polynomials. `NoOverflow` with the real bounds of ntt, invntt and basemul. `NonceFresh`, `CmpIsReencryption`, `WellFormed` | all three parameter sets, two messages, two coins, each of the K+1 parts of the ciphertext replaced |
| `ntt` | `TransformIsRemainders`: the 128 remainders modulo X² − ζ. `ProductIsExact`: K times the negacyclic product. `StaysInRange`: no int16_t wraps, and what `Poly` tells `IndCpa` is true | all 256 coefficients, K = 4 (the worst for bounds), four pairs of factors, and products with every \|a\| = 1664, b = 4095 (what a foreign key can hold) in three sign patterns |
| `codec` | `NoiseIsBinomial`: every bit counted once, in its own coefficient. `StoresRoundedQuotient`: the division given in each comment is what is stored (the line poly_tomsg has commented out was not needed). `DecodesNearby`: half a step at most, so a message bit survives noise up to 832. `ComparisonIsExact`: for what was sent, for what was damaged, and for what the bytes decode to | every residue in every place of a group, next to others 419 apart, reduced from any representative in 16 bits; in two groups per format every single bit damaged; 3329 patterns of noise bits |
| `keccak_f` | `LanesComeHome`: after each four rounds the 50 cells are the interleaved lanes of Keccak-p. `MakesAllRounds`: 24, although nothing counts. `StateIsBytes`, `ExtractsTheRange`: the calls do to lanes what they would do to bytes | all 24 rounds on 25 lanes, from the zero state and one full of bits; before and after them each of 30 ranges that begin and end inside, at the edge of or several lanes apart. One call on each side of one permutation: a longer sequence meets nothing but another state, hence the run may stop |
| `random_stream` | `MatchesReference`: one stream, or CTR_DRBG as NIST SP 800-90A has it. `NoByteTwice`. `InputsFresh`: no key is made of bytes already handed out | requests of 0, 1, 3, 6 bytes (all residues of words, blocks and buffers of 4, 2 and 4); counter words of two values, so that 28 bytes carry through three of them; a two-byte DRBG counter that wraps; two requests after each of two seedings |
| `measure` | `StackIsMeasured`: between what the function wrote and what was in use. `MedianIsRight`. `ReadsBack`: the digits are the number | 5 words of free stack, 6 pushes, an interrupt anywhere, three calls of which each meets the leftovers of the one before; three calls of each kind taking one of three times, the clock wrapping in the first; numbers of one to seven digits |
| `test_runner` | `PassIsEarned` and `FailureIsReal`, both as long as `stray` is false. `HostEnds`: the host ends, or waits on a line silenced for good by a failure | three schemes, four programs, board and QEMU; one iteration of test.c (three rounds), two vectors; an earlier program at any stage, at any time a fault, at any flashing a failure of openocd |
| `test_passed` (violation) | `PassedFile`, that is `PassIsEarned` without "as long as": a scheme passes on the output of another program | same |
| `kem` | `Agreement`, `NoFalseAgreement`, `ImplementsIdeal` | 2 keys, 2 encapsulations, 2 changes, 1 damaged key, 2 decapsulations: a result compared with one other of any kind, across keys. All bounds get used up, so the run may stop |
| `systick` | `Exact`: the returned value is the time of the register read. `CountsPeriods`: `overflowcnt` lags by the pending interrupt only. `SetupEnds`, `TimeReturns` | 18 ticks a period, words of two values: 4 periods until both words wrap, a torn load at each carry |

Fairness. `SysTick` states weak fairness of the counter (it runs), of the
handler (a raised interrupt is taken) and of the thread (nothing preempts it but
the handler). `TimeReturns` also needs an attempt of `hal_get_time` to fit
between two overflows: an attempt takes up to about 12 ticks here, and with a
period of 12 TLC finds a reader that is interrupted each time. On a board it is
a few dozen cycles against 2^24. `TestRunner` states weak fairness of the host
and of the board, each a sequential program that nobody stops; a fault and a
failure of openocd are never due.

When the host is deceived. The host takes the first "$" it reads for the opening
marker of the program it has flashed. `PassIsEarned` and `FailureIsReal` say that
this goes well for an earlier program that is behind its opening marker, has
ended or hangs, for what the scheme before has left on the line, and for a board
openocd has not reached; they say nothing once another program comes to its
opening marker with the port open (`stray`), since then they are false, as the
run `test_passed` shows. There are two ways to it. The earlier program starts
after the port was opened, in the time openocd takes to connect: its marker and
part of its output wait in the serial buffer, which nothing in `scripts/tests`
empties, the new program is flashed, the host reads the old output, and the
opening marker of the new program ends it. Or openocd resets the board and then
fails: the earlier program runs once more from its opening marker to its closing
one, and as the exit status is dropped its output is checked as the new file's.
`hal_setup` waits for a whole SysTick period before a marker is sent, so there is
time to open the port in before the first.
With QEMU a fault after the last "OK" goes unnoticed except by the known-answer
test, which `PassIsEarned` says (`Earned`).

What `HostEnds` excepts. The host sets no timeout, so it can wait for ever. The
property says when: only after openocd has failed or a program of this host has
faulted or was left by `nistkat.c` without a closing marker (`lost`), and only on
a line that is read to its end with nothing running that could send any more
(`Silent`).

The machine `SysTick` assumes. An interrupt is taken after at least one tick
and before two more instructions complete (`Latency = 1`). This is what `Exact`
rests on: if the interrupt could stay pending while the register read after the
wrap and the second load of `overflowcnt` both complete (`Latency = 2`), TLC
finds a reading one period too small. Masking the interrupt around
`hal_get_time` would do just that.

Findings. "Check {file} passed" (scripts/tests:216) is also logged for a file
whose program has not been tested (run `test_passed`, above). Two comments differ
from the code without making an output wrong. Those of `cmp_poly_compress` and
`cmp_poly_packcompress` (poly.c:226, 290) promise a "boolean indicating whether
the polynomials are equal"; both return zero when they are equal and nonzero when
not, which is how `indcpa_enc_cmp` uses them and what `ComparisonIsExact` says of
`rc`. That of `keccak_absorb` (fips202.c:23-26) says that it starts by zeroing the
state and that the state may be uninitialised. The function does neither; its
only caller `shake128_absorb` does it, which is what `StartsFromZero` shows.

Modelled without a property because no caller depends on it: `poly_sub` and
`poly_add` with other aliasing than the code's.

## 4. Proofs

`KeccakProofs` proves for every rate `R > 0`, all bounds, any content of the
memory and every sequence of calls of both APIs (`Spec => []…`): `TypeCorrect`,
`FinalizeHasRoom` (`s_inc[25] < r`), `AbsorbsTheMessage` and
`BlocksStartFromZero`.

`Absorbed` is not inductive alone. The invariant `IInv` adds the shape of the
variables, `s25 < R`, and the caller's contract (a loop of absorb runs in the
absorb phase, one of squeeze in the squeeze phase, padding of blocks after less
than one is left). The argument: while absorbing, the unfinished block is
`Prefix(first, s25)`, the next `s25` message bytes with zeros behind them.
`XORBytesExtendsPrefix` says that XORing `len` bytes at offset `s25` makes it
`Prefix(first, s25 + len)`, because what is XORed over is empty. `AbsorbBlock`
extends it to a full block, `AbsorbRest` by less than one, `StatePermute` starts
the next (`NextBlock` is the arithmetic of block starts).

`StartsFromZero` needs more than it says: that the state is clean in the loop
too, and under every permutation. `Clean` says so, with a state over a set of
symbols (`StateOver`), and one lemma for each operation of `KeccakState`
(`ZeroOver`, `XORBytesOver`, `PermuteOver`, `PaddingOver`) shows that it stays
in any set that has the numbers of message bytes and the two padding symbols.
With the set of all symbols the same lemmas give the types; with that of all
but `Stale`, cleanness. Assumed are only `RateAssumption`, `BoundsAssumption`
and `BlocksAssumption`.

The last part of `KeccakProofs` is the refinement `Spec => ImplementsSponge`,
again for every rate and every cut into calls. What `Sponge`
sees is the phase, the bytes taken in (`Taken`) and the output; `Corresponds`
says that the 25 words are a function of these. While absorbing they are `Fed`:
`q` whole blocks and `s25` bytes of the next. Afterwards they are `Sealed`: the
padded message and `p` permutations more, where the output handed out and what
is left of the last block together make `R * p` bytes (`Reading`). So what is
extracted next is the next byte of the one sponge over the whole message
(`ByteIs`, `ExtractSealed`, `HandOut`). Both APIs end in the same lemmas, which
is why one promise serves both.

`MatAccProofs` proves for every number of groups of four (`Quads`), columns
(`K`) and triples in a block (`Triples`), and every pattern of rejections:
`TypeCorrect`, `NeverOverruns`, `ReadsWithoutGap`, `SamplesRightEntry` and
`ComputesRowProduct`, from `MatAccAssumption` alone. `RowProduct` says nothing
of `ax`, in which up to three candidates wait for their group, so it is not
inductive. `IInv` adds `Follows`: `ax[k]` is candidate `ctr - ctr2 + k` of the
history, and as long as the polynomial is incomplete the history has exactly
`ctr` candidates; and `Shape`: `ctr2 = ctr % 4`. The argument goes candidate by
candidate (`OneCandidate`): one that is taken extends `ax` or completes the
group, and then `QuadIsRef` shows that the product of the group is the reference
product of its four coefficients (`TakeFollows`); one for which there is no room
only lengthens the history behind every pair a product uses (`ExcessFollows`);
one that is not below q changes nothing (`SkipSame`). `Parse` is two of these
steps.

`IndCpaProofs` proves `NoOverflow`, `WellFormed`, `NonceFresh` and
`CmpIsReencryption` of `IndCpa` for every set of ranks within {2, 3, 4}, every
set of messages and coins, and every sequence of calls and replaced ciphertext
parts. `IndCpaAssumption` says that and that `"none"` is no message. Each
operation of `Poly` has one lemma of the form "operands in this domain, with
this Montgomery power and this bound, give that" (`NttHolds`, `MulHolds`,
`InvHolds`, `CombineHolds`, …); rows and inner products follow by arithmetic on
the partial sums. The invariant says what the slots a function still needs hold
at each `pc` (`Slots`), which no step that overwrites one of them too early
could preserve; that nothing held is ill-formed or larger than 32767 (`Clean`);
that every nonce drawn is below the next, which `pc` and `i` determine
(`Nonces`); that no part of a key is junk (`Keys`); and that a ciphertext is
what `indcpa_enc` makes of the arguments in `sent`, or forged somewhere
(`Origin`). `Comparison` says that `indcpa_enc_cmp` has found no difference yet
exactly if each part so far is the value `indcpa_enc` would have written. What is
then missing is that other arguments give another ciphertext: every row contains
an atom of its coins, `v` one of its message, a forged part neither
(`ValuesDiffer`).

`NttProofs` closes the gap under that: `Poly` calculates with bounds, `Ntt` with
numbers. `NothingWrapsEver` says for **all** polynomials with coefficients below
q, and all operands of the products that 12-bit values can be, that no `int16_t`
wraps and that `Poly`'s bounds hold; `NothingWraps`, that the run is a case of
it. `MontgomeryIs` shows that `montgomery_reduce` divides exactly (through the
two 16-bit conversions: `QINV` · q − 1 is a multiple of 2^16) and hence that the
result is within `MontBound`; `BarrettIs` that `barrett_reduce` is the centred
residue of any 16-bit number. `HalfDone` is the shape of the array between two
blocks: before `start` the bound of the next layer, from there on that of this
one. `Forward` and `Backward` tie `k` to `len` and `start`, because nothing
else keeps `zetas[k]` inside the table. The layers are seven applications of one
lemma (`ForwardBlock`, `InverseBlock`), and `NttBoundIs` and `InvBoundIs`
identify the bounds reached with those `Poly` computes by a recursive function.

The other half of `NttProofs` is about the values, for the same inputs:
`TransformsExactly` is `TransformIsRemainders`, `MultipliesExactly` is
`ProductIsExact`; `SamplesTransform` and `SamplesMultiply` apply them to the run.
`Rem(p, s, g, c)` is coefficient `c` of `p` modulo X^s − g, by Horner's rule over
the integers; `Node(m)` are the factors, numbered as in a heap, so that block `k`
of ntt splits that of node `k`. Three facts carry the proof:

- the table is the tree: `zetas[m]`, out of Montgomery form, is a square root of
  node `m` (`NodeSquares`), the leaves are the odd powers of 17 in bit-reversed
  order (`NodeSteps`, `RootsAre`), and each row read backwards is the negative
  inverses of that row (`Opposites`), so invntt, which goes backwards through the
  table, subtracts the other way round;
- two turns of Horner's rule for a factor are one for the node above
  (`RemSplit`), so that a block of ntt takes remainders to remainders
  (`ForwardSame`) and one of invntt back, doubled (`InverseSame`);
- if on one layer the product of the remainders is the remainder of the product,
  it is on the next (`ConvSplit`, `ProductsNext`); at the root that is the
  definition (`NegacyclicSame`), at the leaves what basemul does (`BasemulSame`).

The invariant `Exact` says this of the array between two blocks (`Halfway`,
`HalfMerged`) and keeps count of the factors: 169, the inverse of 2^16, for every
`montgomery_reduce`, and 2 for every layer of invntt, until the multiplication by
1441 takes them back (`Scaling`). It needs `IInv`: congruences survive a store only
because nothing wraps.

`KemProofs` proves `Agreement`, `NoFalseAgreement` and the refinement
`ImplementsIdeal` for any numbers of keys, messages, changes and calls. The
invariant is that everything issued is the encapsulation of some coins drawn for
some key, everything on the wire such a ciphertext or a change of one, and
every result what `dec` makes of a ciphertext on the wire and a key, whole or
damaged. The lemmas say that terms are equal only if built alike
(`EncapsulationInjective`, `SecretsDiffer`): a rejection has `z` and the
ciphertext inside, so it is neither a real secret nor that of another ciphertext.

The rest of `KemProofs` is about `RandomStream`: `NoByteTwice`, `InputsFresh` and
`MatchesReference` for any lengths and number of requests, any seeds, and every
width of counter words, buffers, blocks and of the counter of the DRBG.
`RandomAssumption` is what a counter that does not come round amounts to: with
NOTRAND no more bytes are asked than `Half` times the values of `in` (in the code
32 times 2^128), and with NISTKAT a request has fewer blocks than the counter has
values (2^128). The inductive invariant `RandomInv` has one part for each variant.

- HAL (`HalInv`): `given` is what `HalRequest` makes of the requests over, and
  the part of the one under way that is filled (`HalPart`); a word is taken from
  the hardware once (`HalNext`).
- NOTRAND (`NotRandInv`): after `g` refills `in` is `2 * g` as a number and the
  buffer holds the outputs for `2 * g - 1` and `2 * g`, of which `outleft` bytes
  are still to come; so byte `i` is that of `NotRandStream` (`BufferByte`), by
  `NextCounterCounts`: the chain of carries adds one. Different bytes come from
  different counters or places (`StreamDistinct`).
- NISTKAT, for freshness (`FreshInv`): with the present key only counters up to
  the present one have been used (`Ahead`), fewer than there are (`Spent`,
  `Room`); and every key is made from one that is used up, so none comes back
  (`KeysFresh`). This needs nothing of what AES yields: it may set the counter to
  any value.
- NISTKAT, for the stream (`NistInv`): between requests, key, counter and output
  are the last state of a run of the reference over the requests so far
  (`NistIdle`); within one, what is filled is the beginning of what the reference
  makes of it (`NistFills`, `NistBusy`). AES becoming known at more inputs leaves
  such a run one (`RunsOn`).

The references fold over the requests. `HalFold` and `NistFold` say that such a
fold is the last element of the sequence of states that `RandomInv` speaks of.

`BoardProofs` is two proofs. That about `SysTick` is of `CountsPeriods` and
`Exact`, for every word size `Base`, every period, and every speed of the
machine within `TimingAssumption`: `Latency <= 1 /\ Period >= (Latency + 4) *
Stall`, that is, a raised interrupt is taken before a second instruction
completes, and it is not raised twice during three instructions and the entry to
the handler. Neither part can be dropped. With `Stall = 2`, `Base = 2` TLC finds
`Exact` violated for `Latency = 1` at every period of up to 8 ticks, and for
`Latency = 2` at every one tried. On a board a period is 2^24 cycles. `Behind`
is that `overflowcnt` lags by the raised interrupt only; `Prompt`, that the
interrupt is raised at the wrap and does not wait longer than `Latency` allows;
`Window`, that between the two loads of the low word the handler runs once at
most and then the low word says so; `GoodCopies`, that a copy whose low word is
still good is good, or the interrupt was pending when the register was read and
will have been served before the low word is read again. That last disjunct is
the argument for the order of the loads in `hal_get_time`.

The other part of `BoardProofs` is about `Measure` (`MeasureAssumption`).
`StackIsMeasured` holds for every stack, every function and every number of
interrupts. The pattern is intact below everything in use since spraying
(`Intact`); the lowest word written has lost it for good, because spraying is
over before the function runs (`Marked`); so the check cannot pass the mark, nor
stop below what is in use (`Checking`).

`NumbersAreMedians` is `MedianIsRight` for any number of calls. What
`hal_get_time` returns may wrap, the difference of two such values does not
(`Elapsed`), so what is recorded is what the calls took (`Times`, `Progress`).
The comparison cuts 64 bits to an int; the sign survives as long as two times
differ by less than half of `Cut` (`SignIsKept`), hence whatever `qsort` may
return is sorted, and the positions it moves elements to and from count how many
lie below the middle one and how many do not lie above (`MiddleIsMedian`).

`SentAsMeasured` is `ReadsBack`, for both conversions and every number a clock of
at most 64 bits can give. `DivisionIsExact` says that the five shifts and one
correction of `send_unsignedll` are a division by ten; this is where the 64 bits
come in, which is why the theorem assumes `Long <= 2^64`, as `uint64_t` has it.
The invariant is that the digits so far read as the end of the number, and `c` as
what is in front of it (`OneMoreDigit`).

`TestRunnerProofs` proves `PassIsEarned` and `FailureIsReal` for every number of
repetitions and vectors and every `Caught`. The invariant `IInv` holds the types
always, and `Told`, the rest, as long as `stray` is false; `Opening` is the only
step that sets it, and nothing takes it back (`StrayStays`), so every step that
leaves it false keeps `Told` (`ToldKeeps`). `Told` describes what is on the line
and who sent it.
`Payload(o)` says of `o`, all that came behind the opening marker of the program
under test, read or not: no more "OK" than rounds that came out right, the hash
only after the last vector, a "$" only when the program has ended (`Truthful`);
and, if nothing went wrong, as much of these as the program has done
(`Complete`). Every step of a program keeps this, with a fault taking back what
was being sent (`ProgramTells`). Before that the host may face what an earlier
program left or will send (`Earlier`), this in front of what the new one sends (`Flashed`),
a line on which "$" will never come again (`Ended`), or have taken the last
marker of the earlier program for the first of the new one (`Misled`). In that
case it reads nothing but newlines up to the next "$", which no check passes
(`NothingElseFails`): this is where it counts that nothing comes behind a
closing marker but its newline (`LastMarker`).

Model-checked only:

- liveness (`SetupEnds`, `TimeReturns`, `HostEnds`), which TLAPS does not reach;
- what a sum over polynomials computes: `DecryptsToMessage` (algebra
  on sums of monomials, whose definition folds over sets);
- the arithmetic modules whose constants are the code's own numbers and whose
  runs go through every residue or all 24 rounds: `Codec`, `KeccakF1600`,
  `KeccakRounds`. There is no other value to prove them for.

Induction. The library's theorems about it take an operator as a parameter,
which the provers here cannot instantiate. `InductionLemmas` states it of a set
instead (`Induction`, from the well-foundedness of `<` on the naturals), and
proves from that what the proofs about `RandomStream`, `Measure` and `Ntt` need:
a function defined by recursion on a number exists (`Recursion`) and takes the
values the recursion gives (`Unfolding`), so do the functions `FoldLeft` chooses,
and a fold goes step by step (`FoldExists`, `FoldSteps`).

## 5. Not modelled

AES, board set-up and linker files: third-party code and register writes.
Timing side channels: a step here has no duration. The functions of polyvec.c
and verify.c and `poly_tomont`, which nothing calls; the lane swaps of
keccakf1600.c:810-869 and the Overwrite macros, which 24 rounds and fips202.c
never reach; its big-endian branches, which compute the same words.
`hal_get_stack_size`, which nothing calls, and `_sbrk`, which nothing calls
while it is measured. Of the test programs, the canaries of test.c and the text
nistkat.c hashes: the host compares one hash with the one in META.yml. Of the
runner, building, options and the command that prints what it reads.
The 32-bit cycle counter of the ESP32-C3 belongs to its SDK; a wrap during a
measured call (hal-esp-idf.c:85) would show as a time near 2^64.

## 6. Plan

What is left, in this order:

1. `RightEntry` and `CmpIsReencryption` together: that the matrix rows of
   `IndCpa` are the products `MatAcc` computes.
2. `DecryptsToMessage` for all ranks: the lemmas about sums of monomials it needs.
