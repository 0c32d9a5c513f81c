--------------------------------- MODULE MatAcc --------------------------------
(***************************************************************************)
(* matacc.c: one row of the matrix A (or of its transpose) times a vector. *)
(* No matrix entry is ever stored.  Each entry is drawn from its own XOF   *)
(* stream by rejection sampling, and every time four coefficients have     *)
(* been accepted they are multiplied with the matching four coefficients   *)
(* of the vector and put into (column 0) or added to (later columns) r.    *)
(*                                                                         *)
(* One step per squeezed block, per three bytes parsed and per column.     *)
(* Whether a 12-bit candidate is below q is up to the stream, so it is a   *)
(* free choice.                                                            *)
(***************************************************************************)
EXTENDS Integers, Sequences

CONSTANTS Quads,       (* MLKEM_N / 4                                      *)
          K,           (* MLKEM_K, the columns of a row                    *)
          Triples,     (* XOF_BLOCKBYTES / 3                               *)
          MaxReject    (* bound: candidates rejected in one column         *)

ASSUME MatAccAssumption ==
  /\ Quads \in Nat \ {0} /\ K \in Nat \ {0} /\ Triples \in Nat \ {0}
  /\ MaxReject \in Nat

N             == 4 * Quads
XOF_BLOCKBYTES == 3 * Triples
Coeff         == 0 .. N - 1
Column        == 0 .. K - 1

VARIABLES
  pc,       (* "idle", "squeeze" or "parse"                                *)
  row, transposed,      (* arguments i and transposed of matacc            *)
  j,        (* the column                                                  *)
  xof,      (* the two bytes absorbed after the seed: names the stream     *)
  blk,      (* blocks squeezed from it                                     *)
  pos,      (* position in the current block                               *)
  smp,      (* ctr, ctr2, ax and the polynomial r being filled             *)
  read,     (* history: stream bytes parsed in this column                 *)
  seen      (* history: per column, the candidates below q in stream order *)

vars == <<pc, row, transposed, j, xof, blk, pos, smp, read, seen>>

(* What a stack slot holds before it is written.                           *)
Stale == <<"stale">>

(* add is what matacc passes: 0 for column 0, 1 for the others.            *)
Add == j # 0

Candidate == [entry : Column \X Column, at : Nat, half : {0, 1}]

--------------------------------------------------------------------------------
(***************************************************************************)
(* doublebasemul(r + p, b + p, ax, p / 4, add): coefficients p, p+1 get    *)
(* the product of the pairs (ax[0], ax[1]) and (b[p], b[p+1]) modulo       *)
(* X^2 - zetas[64 + p/4], coefficients p+2, p+3 that of the second pairs   *)
(* modulo X^2 + zetas[64 + p/4].  A coefficient is the sequence of the     *)
(* products summed into it.                                                *)
(***************************************************************************)
Product(col, a0, a1, pair, zeta, sign) ==
  [col |-> col, a |-> <<a0, a1>>, b |-> pair, zeta |-> zeta, sign |-> sign]

BugQuadProduct(ax, p, x) ==           \* mutant: one zeta for both pairs
  IF x < p + 2 THEN Product(j, ax[0], ax[1], p, p \div 4, 1)
               ELSE Product(j, ax[2], ax[3], p + 2, p \div 4, 1)
QuadProduct(ax, p, x) ==
  IF x < p + 2 THEN Product(j, ax[0], ax[1], p, p \div 4, 1)
               ELSE Product(j, ax[2], ax[3], p + 2, p \div 4, -1)

doublebasemul(r, p, ax) ==
  [x \in Coeff |->
     IF p <= x /\ x < p + 4
       THEN IF Add THEN Append(r[x], QuadProduct(ax, p, x))
                   ELSE << QuadProduct(ax, p, x) >>
       ELSE r[x]]

(* A candidate below q goes to ax[ctr2].                                   *)
Accept(sm, c, ok) ==
  IF ok THEN [sm EXCEPT !.ax = [sm.ax EXCEPT ![sm.ctr2] = c],
                        !.ctr = sm.ctr + 1, !.ctr2 = sm.ctr2 + 1]
        ELSE sm

Flush(sm) ==
  IF sm.ctr2 = 4
    THEN [sm EXCEPT !.r = doublebasemul(sm.r, sm.ctr - 4, sm.ax), !.ctr2 = 0]
    ELSE sm

(* val1 is only taken while there is room; val0 always has room, because   *)
(* the loop stops as soon as ctr reaches N.                                *)
BugRoom(sm) == TRUE                   \* mutant: the second check is dropped
Room(sm) == sm.ctr < N

--------------------------------------------------------------------------------
Absorb(i, col, t) == IF t THEN <<i, col>> ELSE <<col, i>>

(* Entering matacc_inner: a fresh stream and fresh locals.                 *)
EnterInner(i, col, t, r) ==
  /\ j' = col
  /\ xof' = Absorb(i, col, t)
  /\ blk' = 0 /\ pos' = 0 /\ read' = 0
  /\ smp' = [ctr |-> 0, ctr2 |-> 0, ax |-> [k \in 0 .. 3 |-> Stale], r |-> r]

Init == /\ pc = "idle" /\ row = 0 /\ transposed = FALSE /\ j = 0
        /\ xof = <<0, 0>> /\ blk = 0 /\ pos = 0 /\ read = 0
        /\ smp = [ctr |-> 0, ctr2 |-> 0, ax |-> [k \in 0 .. 3 |-> Stale],
                  r |-> [x \in Coeff |-> << Stale >>]]
        /\ seen = [c \in Column |-> << >>]

(* matacc(r, b, i, seed, transposed), up to the first squeeze; the caller  *)
(* passes an r it has not cleared.                                         *)
Call(i, t) ==
  /\ pc = "idle"
  /\ pc' = "squeeze"
  /\ row' = i /\ transposed' = t
  /\ EnterInner(i, 0, t, [x \in Coeff |-> << Stale >>])
  /\ seen' = [c \in Column |-> << >>]

Squeeze ==
  /\ pc = "squeeze"
  /\ blk' = blk + 1
  /\ pos' = 0
  /\ pc' = "parse"
  /\ UNCHANGED <<row, transposed, j, xof, smp, read, seen>>

(* The condition of the inner loop.                                        *)
BugMore == smp.ctr < N /\ pos + 3 < XOF_BLOCKBYTES   \* mutant: off by one
More == smp.ctr < N /\ pos + 3 <= XOF_BLOCKBYTES

At(h) == [entry |-> xof, at |-> XOF_BLOCKBYTES * (blk - 1) + pos, half |-> h]

Rejected == 2 * (read \div 3) - Len(seen[j])

(* One iteration of the inner loop; ok0 and ok1 say whether val0 and val1  *)
(* are below q.                                                            *)
Parse(ok0, ok1) ==
  /\ pc = "parse" /\ More
  /\ Rejected + (IF ok0 THEN 0 ELSE 1) + (IF ok1 THEN 0 ELSE 1) <= MaxReject
  /\ LET s0 == Flush(Accept(smp, At(0), ok0))
     IN  smp' = Flush(Accept(s0, At(1), Room(s0) /\ ok1))
  /\ pos' = pos + 3
  /\ read' = read + 3
  /\ seen' = [seen EXCEPT ![j] = seen[j] \o (IF ok0 THEN << At(0) >> ELSE << >>)
                                         \o (IF ok1 THEN << At(1) >> ELSE << >>)]
  /\ UNCHANGED <<pc, row, transposed, j, xof, blk>>

(* The block is used up and the polynomial is not complete.                *)
BlockDone ==
  /\ pc = "parse" /\ ~ More
  /\ smp.ctr < N
  /\ pc' = "squeeze"
  /\ UNCHANGED <<row, transposed, j, xof, blk, pos, smp, read, seen>>

BugNextColumn ==                      \* mutant: the row index moves along
  /\ pc = "parse" /\ ~ More
  /\ smp.ctr >= N /\ j + 1 < K
  /\ pc' = "squeeze"
  /\ EnterInner(j + 1, j + 1, transposed, smp.r)
  /\ UNCHANGED <<row, transposed, seen>>
NextColumn ==
  /\ pc = "parse" /\ ~ More
  /\ smp.ctr >= N /\ j + 1 < K
  /\ pc' = "squeeze"
  /\ EnterInner(row, j + 1, transposed, smp.r)
  /\ UNCHANGED <<row, transposed, seen>>

Return ==
  /\ pc = "parse" /\ ~ More
  /\ smp.ctr >= N /\ j + 1 >= K
  /\ pc' = "idle"
  /\ UNCHANGED <<row, transposed, j, xof, blk, pos, smp, read, seen>>

Next == \/ \E i \in Column, t \in BOOLEAN : Call(i, t)
        \/ Squeeze
        \/ \E ok0, ok1 \in BOOLEAN : Parse(ok0, ok1)
        \/ BlockDone \/ NextColumn \/ Return

Spec == Init /\ [][Next]_vars
--------------------------------------------------------------------------------
(* The shape of the counters; ctr2 at 4 would be a write past ax.          *)
TypeOK ==
  /\ pc \in {"idle", "squeeze", "parse"}
  /\ row \in Column /\ j \in Column /\ transposed \in BOOLEAN
  /\ xof \in Column \X Column
  /\ blk \in Nat /\ pos \in Nat /\ read \in Nat
  /\ smp.ctr \in Nat /\ smp.ctr2 \in 0 .. 3
  /\ smp.ax \in [0 .. 3 -> Candidate \cup {Stale}]
  /\ DOMAIN smp.r = Coeff
  /\ seen \in [Column -> Seq(Candidate)]

(* ctr never passes N, whatever the stream rejects and wherever a block    *)
(* ends: a 257th coefficient would be multiplied past the ends of b and r. *)
NoOverrun == smp.ctr <= N

(* The stream is parsed without a gap across block boundaries.             *)
NoGap == pc = "parse" => XOF_BLOCKBYTES * (blk - 1) + pos = read

(* The reference: coefficient x of the product of matrix entry col with    *)
(* the vector, the entry being the first N candidates below q.             *)
Entry(col) == IF transposed THEN <<row, col>> ELSE <<col, row>>

RefProduct(col, x) ==
  LET p == 2 * (x \div 2) IN
    Product(col, seen[col][p + 1], seen[col][p + 2], p, x \div 4,
            IF (x \div 2) % 2 = 0 THEN 1 ELSE -1)

(* Columns already summed into coefficient x in this call.                 *)
Summed(x) == j + (IF x < smp.ctr - smp.ctr2 THEN 1 ELSE 0)

(* Every coefficient of r is the sum over exactly the columns passed so    *)
(* far, each once, of its own reference product: nothing of what r held    *)
(* before the call survives column 0, and no candidate is lost, repeated   *)
(* or moved when a block or a group of four ends in the middle of a pair.  *)
RowProduct ==
  \A x \in Coeff :
    Summed(x) > 0 => smp.r[x] = [c \in 1 .. Summed(x) |-> RefProduct(c - 1, x)]

(* Column c of row i comes from the stream of entry (i, c) of A, or of its *)
(* transpose: keygen and encryption, which differ in the flag only, sample *)
(* the same matrix.                                                        *)
RightEntry ==
  \A c \in Column : \A k \in DOMAIN seen[c] : seen[c][k].entry = Entry(c)
================================================================================
