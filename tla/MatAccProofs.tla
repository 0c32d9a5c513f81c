----------------------------- MODULE MatAccProofs -----------------------------
(***************************************************************************)
(* MatAcc for every number of coefficients, columns and bytes per block:   *)
(* nothing is written past the polynomial, the stream is read without a    *)
(* gap, and r is at every moment the sum of the reference products of the  *)
(* columns passed.                                                         *)
(***************************************************************************)
EXTENDS MatAcc, TLAPS

(* Coefficient x of the product of column col, computed from the history h *)
(* of accepted candidates (RefProduct, of another history than seen).      *)
RefOf(h, col, x) ==
  LET p == 2 * (x \div 2) IN
    Product(col, h[col][p + 1], h[col][p + 2], p, x \div 4,
            IF (x \div 2) % 2 = 0 THEN 1 ELSE -1)

(* Summed, of another sampler than smp.                                    *)
Terms(sm, x) == j + (IF x < sm.ctr - sm.ctr2 THEN 1 ELSE 0)

(* ax holds the last ctr % 4 candidates of the column, and each coefficient*)
(* the terms it should.  This is what makes RowProduct inductive: between  *)
(* two groups of four RowProduct says nothing of ax.                       *)
Follows(sm, h) ==
  /\ sm.ctr < N => Len(h[j]) = sm.ctr
  /\ Len(h[j]) >= sm.ctr
  /\ \A k \in 0 .. 3 : k < sm.ctr2 => sm.ax[k] = h[j][sm.ctr - sm.ctr2 + k + 1]
  /\ \A x \in Coeff : Terms(sm, x) > 0 =>
       sm.r[x] = [c \in 1 .. Terms(sm, x) |-> RefOf(h, c - 1, x)]

Shape(sm) ==
  /\ sm = [ctr |-> sm.ctr, ctr2 |-> sm.ctr2, ax |-> sm.ax, r |-> sm.r]
  /\ sm.ctr \in 0 .. N
  /\ sm.ctr2 = sm.ctr % 4
  /\ sm.ax \in [0 .. 3 -> Candidate \cup {Stale}]
  /\ DOMAIN sm.r = Coeff

(* Where the parser stands in the stream.                                  *)
Stream ==
  /\ pos % 3 = 0 /\ pos <= XOF_BLOCKBYTES
  /\ pc = "squeeze" => read = XOF_BLOCKBYTES * blk
  /\ pc = "parse" => blk \in Nat \ {0}
  /\ NoGap

IInv ==
  /\ TypeOK /\ Shape(smp) /\ Stream
  /\ pc # "idle" => xof = Entry(j)
  /\ \A c \in Column : c > j => seen[c] = << >>
  /\ RightEntry
  /\ Follows(smp, seen)

--------------------------------------------------------------------------------
(* Arithmetic of groups of four.                                           *)

LEMMA Sizes ==
  /\ N \in Nat \ {0} /\ N % 4 = 0
  /\ XOF_BLOCKBYTES \in Nat \ {0} /\ XOF_BLOCKBYTES % 3 = 0
  /\ Column \subseteq Nat /\ 0 \in Column
  /\ Coeff \subseteq Nat
BY MatAccAssumption DEF N, XOF_BLOCKBYTES, Column, Coeff

(* A sequence that gains a term.                                           *)
LEMMA OneMoreTerm ==
  ASSUME NEW n \in Nat, NEW f, DOMAIN f = 1 .. n + 1, NEW s,
         s = [c \in 1 .. n |-> f[c]], NEW e, e = f[n + 1]
  PROVE  Append(s, e) = [c \in 1 .. n + 1 |-> f[c]]
OBVIOUS

--------------------------------------------------------------------------------
(* One candidate below q, with or without a flush.                         *)

LEMMA TakeFields ==
  ASSUME NEW sm, Shape(sm), sm.ctr < N, NEW c \in Candidate
  PROVE  \E ax :
           /\ ax = [sm.ax EXCEPT ![sm.ctr2] = c]
           /\ ax \in [0 .. 3 -> Candidate \cup {Stale}]
           /\ sm.ctr2 # 3 =>
                Flush(Accept(sm, c, TRUE)) =
                  [ctr |-> sm.ctr + 1, ctr2 |-> sm.ctr2 + 1, ax |-> ax, r |-> sm.r]
           /\ sm.ctr2 = 3 =>
                Flush(Accept(sm, c, TRUE)) =
                  [ctr |-> sm.ctr + 1, ctr2 |-> 0, ax |-> ax,
                   r |-> doublebasemul(sm.r, sm.ctr - 3, ax)]
<1>1. sm.ctr \in Nat /\ sm.ctr2 \in 0 .. 3
  BY Sizes DEF Shape
<1>2. PICK n, m, x, r : sm = [ctr |-> n, ctr2 |-> m, ax |-> x, r |-> r]
  BY DEF Shape
<1>3. n = sm.ctr /\ m = sm.ctr2 /\ x = sm.ax /\ r = sm.r
  BY <1>2
<1>4. PICK ax : ax = [sm.ax EXCEPT ![sm.ctr2] = c]
  OBVIOUS
<1>5. ax \in [0 .. 3 -> Candidate \cup {Stale}]
  BY <1>1, <1>4 DEF Shape
<1>6. PICK a : a = Accept(sm, c, TRUE)
  OBVIOUS
<1>7. a = [ctr |-> n + 1, ctr2 |-> m + 1, ax |-> ax, r |-> r]
  <2>1. a = [sm EXCEPT !.ax = ax, !.ctr = n + 1, !.ctr2 = m + 1]
    BY <1>3, <1>4, <1>6 DEF Accept
  <2> QED BY <1>2, <2>1
<1>8. CASE m # 3
  <2>1. a.ctr2 # 4
    BY <1>1, <1>3, <1>7, <1>8
  <2>2. Flush(a) = a
    BY <2>1 DEF Flush
  <2> QED BY <1>3, <1>4, <1>5, <1>6, <1>7, <1>8, <2>2
<1>9. CASE m = 3
  <2>1. a.ctr2 = 4 /\ a.ctr - 4 = n - 3 /\ a.ax = ax /\ a.r = r
    BY <1>1, <1>3, <1>7, <1>9
  <2>2. Flush(a) = [a EXCEPT !.r = doublebasemul(r, n - 3, ax), !.ctr2 = 0]
    BY <2>1 DEF Flush
  <2>3. Flush(a) = [ctr |-> n + 1, ctr2 |-> 0, ax |-> ax,
                    r |-> doublebasemul(r, n - 3, ax)]
    BY <1>7, <2>2
  <2> QED BY <1>3, <1>4, <1>5, <1>6, <1>9, <2>3
<1> QED BY <1>8, <1>9

LEMMA TakeShape ==
  ASSUME NEW sm, Shape(sm), sm.ctr < N, NEW c \in Candidate
  PROVE  /\ Shape(Flush(Accept(sm, c, TRUE)))
         /\ Flush(Accept(sm, c, TRUE)).ctr = sm.ctr + 1
<1>1. PICK s : s = Flush(Accept(sm, c, TRUE))
  OBVIOUS
<1>2. sm.ctr \in Nat /\ sm.ctr2 \in 0 .. 3 /\ sm.ctr2 = sm.ctr % 4
  BY Sizes DEF Shape
<1>3. PICK ax :
        /\ ax = [sm.ax EXCEPT ![sm.ctr2] = c]
        /\ ax \in [0 .. 3 -> Candidate \cup {Stale}]
        /\ sm.ctr2 # 3 =>
             Flush(Accept(sm, c, TRUE)) =
               [ctr |-> sm.ctr + 1, ctr2 |-> sm.ctr2 + 1, ax |-> ax, r |-> sm.r]
        /\ sm.ctr2 = 3 =>
             Flush(Accept(sm, c, TRUE)) =
               [ctr |-> sm.ctr + 1, ctr2 |-> 0, ax |-> ax,
                r |-> doublebasemul(sm.r, sm.ctr - 3, ax)]
  BY TakeFields, Zenon
<1>4. sm.ctr + 1 \in 0 .. N
  BY <1>2, Sizes
<1>5. CASE sm.ctr2 # 3
  <2>1. s = [ctr |-> sm.ctr + 1, ctr2 |-> sm.ctr2 + 1, ax |-> ax, r |-> sm.r]
    BY <1>1, <1>3, <1>5
  <2>2. sm.ctr2 + 1 = (sm.ctr + 1) % 4
    BY <1>2, <1>5
  <2>3. DOMAIN sm.r = Coeff
    BY DEF Shape
  <2>4. s.ctr = sm.ctr + 1 /\ s.ctr2 = sm.ctr2 + 1 /\ s.ax = ax /\ s.r = sm.r
    BY <2>1
  <2>5. s = [ctr |-> s.ctr, ctr2 |-> s.ctr2, ax |-> s.ax, r |-> s.r]
    BY <2>1, <2>4
  <2>6. Shape(s)
    BY <1>3, <1>4, <2>2, <2>3, <2>4, <2>5 DEF Shape
  <2> QED BY <1>1, <2>4, <2>6
<1>6. CASE sm.ctr2 = 3
  <2>1. s = [ctr |-> sm.ctr + 1, ctr2 |-> 0, ax |-> ax,
             r |-> doublebasemul(sm.r, sm.ctr - 3, ax)]
    BY <1>1, <1>3, <1>6
  <2>2. 0 = (sm.ctr + 1) % 4
    BY <1>2, <1>6
  <2>3. DOMAIN doublebasemul(sm.r, sm.ctr - 3, ax) = Coeff
    BY DEF doublebasemul
  <2>4. /\ s.ctr = sm.ctr + 1 /\ s.ctr2 = 0 /\ s.ax = ax
        /\ s.r = doublebasemul(sm.r, sm.ctr - 3, ax)
    BY <2>1
  <2>5. s = [ctr |-> s.ctr, ctr2 |-> s.ctr2, ax |-> s.ax, r |-> s.r]
    BY <2>1, <2>4
  <2>6. Shape(s)
    BY <1>3, <1>4, <2>2, <2>3, <2>4, <2>5 DEF Shape
  <2> QED BY <1>1, <2>4, <2>6
<1> QED BY <1>5, <1>6

--------------------------------------------------------------------------------
(* The group of four completed by the candidate at n + 1 starts at n - 3:  *)
(* which pair, zeta and sign belong to coefficient x of it.                *)
LEMMA GroupArithmetic ==
  ASSUME NEW p \in Nat, p % 4 = 0, NEW x \in Nat, p <= x, x < p + 4
  PROVE  /\ x \div 4 = p \div 4
         /\ x < p + 2 => 2 * (x \div 2) = p /\ (x \div 2) % 2 = 0
         /\ ~ (x < p + 2) => 2 * (x \div 2) = p + 2 /\ (x \div 2) % 2 # 0
OBVIOUS

(* A coefficient below a multiple of four has its pair below it.           *)
LEMMA PairBelow ==
  ASSUME NEW p \in Nat, p % 4 = 0, NEW x \in Nat, x < p
  PROVE  2 * (x \div 2) \in Nat /\ 2 * (x \div 2) + 2 <= p
OBVIOUS

(* What is added to h[j] behind the pair of x does not change its product. *)
LEMMA RefOfStable ==
  ASSUME NEW h, NEW g, NEW x \in Coeff, NEW col,
         \/ g[col] = h[col]
         \/ LET p == 2 * (x \div 2)
            IN  g[col][p + 1] = h[col][p + 1] /\ g[col][p + 2] = h[col][p + 2]
  PROVE  RefOf(g, col, x) = RefOf(h, col, x)
BY DEF RefOf

(* The product made at a flush is the reference product of its coefficient.*)
LEMMA QuadIsRef ==
  ASSUME NEW g, NEW p \in Nat, p % 4 = 0, NEW ax, NEW x \in Coeff,
         p <= x, x < p + 4,
         \A k \in 0 .. 3 : ax[k] = g[j][p + k + 1]
  PROVE  QuadProduct(ax, p, x) = RefOf(g, j, x)
<1>1. /\ x \div 4 = p \div 4
      /\ x < p + 2 => 2 * (x \div 2) = p /\ (x \div 2) % 2 = 0
      /\ ~ (x < p + 2) => 2 * (x \div 2) = p + 2 /\ (x \div 2) % 2 # 0
  BY GroupArithmetic, Sizes
<1>2. /\ ax[0] = g[j][p + 1] /\ ax[1] = g[j][p + 2]
      /\ ax[2] = g[j][(p + 2) + 1] /\ ax[3] = g[j][(p + 2) + 2]
  <2>1. /\ p + 0 + 1 = p + 1 /\ p + 1 + 1 = p + 2
        /\ p + 2 + 1 = (p + 2) + 1 /\ p + 3 + 1 = (p + 2) + 2
    OBVIOUS
  <2>2. /\ ax[0] = g[j][p + 0 + 1] /\ ax[1] = g[j][p + 1 + 1]
        /\ ax[2] = g[j][p + 2 + 1] /\ ax[3] = g[j][p + 3 + 1]
    OBVIOUS
  <2> QED BY <2>1, <2>2
<1>3. CASE x < p + 2
  BY <1>1, <1>2, <1>3 DEF QuadProduct, RefOf
<1>4. CASE ~ (x < p + 2)
  BY <1>1, <1>2, <1>4 DEF QuadProduct, RefOf
<1> QED BY <1>3, <1>4

LEMMA TakeFollows ==
  ASSUME NEW sm, Shape(sm), sm.ctr < N, NEW c \in Candidate, j \in Column,
         NEW h \in [Column -> Seq(Candidate)], Follows(sm, h)
  PROVE  Follows(Flush(Accept(sm, c, TRUE)), [h EXCEPT ![j] = Append(h[j], c)])
<1>1. PICK n : n = sm.ctr
  OBVIOUS
<1>2. PICK m : m = sm.ctr2
  OBVIOUS
<1>3. /\ n \in Nat /\ n < N /\ m \in 0 .. 3 /\ m = n % 4
      /\ n - m \in Nat /\ (n - m) % 4 = 0
  <2>1. n \in Nat /\ n < N /\ m \in 0 .. 3 /\ m = n % 4
    BY <1>1, <1>2, Sizes DEF Shape
  <2>2. n = 4 * (n \div 4) + m /\ n \div 4 \in Nat
    BY <2>1
  <2>3. n - m = 4 * (n \div 4)
    BY <2>1, <2>2
  <2>4. (4 * (n \div 4)) % 4 = 0
    BY <2>2
  <2>5. n - m \in Nat
    BY <2>2, <2>3
  <2>6. (n - m) % 4 = 0
    BY ONLY <2>3, <2>4
  <2> QED BY ONLY <2>1, <2>5, <2>6
<1>4. PICK g : g = [h EXCEPT ![j] = Append(h[j], c)]
  OBVIOUS
<1>5. /\ j \in Nat
      /\ h[j] \in Seq(Candidate) /\ Len(h[j]) = n
  BY <1>1, Sizes DEF Follows
<1>6. /\ g[j] = Append(h[j], c)
      /\ \A col \in Column : col # j => g[col] = h[col]
  BY <1>4
<1>7. /\ Len(g[j]) = n + 1
      /\ g[j][n + 1] = c
      /\ \A i \in 1 .. n : g[j][i] = h[j][i]
  BY <1>5, <1>6
<1>8. ASSUME NEW x \in Coeff, NEW t \in Nat,
             t = j + (IF x < n - m THEN 1 ELSE 0), NEW i \in 1 .. t
      PROVE  RefOf(g, i - 1, x) = RefOf(h, i - 1, x)
  <2>1. CASE i - 1 # j
    <3>1. i - 1 \in Column
      <4>1. i - 1 < j /\ i - 1 >= 0 /\ i \in Int
        BY <1>5, <1>8, <2>1
      <4> QED BY <1>5, <4>1, MatAccAssumption DEF Column
    <3> QED BY <1>6, <2>1, <3>1, RefOfStable
  <2>2. CASE i - 1 = j
    <3>1. x < n - m
      BY <1>5, <1>8, <2>2
    <3>2. 2 * (x \div 2) \in Nat /\ 2 * (x \div 2) + 2 <= n - m
      BY <1>3, <3>1, PairBelow, Sizes
    <3>3. 2 * (x \div 2) + 1 \in 1 .. n /\ 2 * (x \div 2) + 2 \in 1 .. n
      <4>1. PICK y : y = 2 * (x \div 2)
        OBVIOUS
      <4>2. y \in Nat /\ y + 2 <= n - m
        BY <3>2, <4>1
      <4>3. n \in Nat /\ m \in 0 .. 3
        BY <1>3
      <4>4. y + 1 \in 1 .. n /\ y + 2 \in 1 .. n
        BY <4>2, <4>3
      <4> QED BY <4>1, <4>4
    <3>4. /\ g[j][2 * (x \div 2) + 1] = h[j][2 * (x \div 2) + 1]
          /\ g[j][2 * (x \div 2) + 2] = h[j][2 * (x \div 2) + 2]
      BY <1>7, <3>3
    <3> QED BY <2>2, <3>4, RefOfStable
  <2> QED BY <2>1, <2>2
<1>9. PICK ax :
        /\ ax = [sm.ax EXCEPT ![sm.ctr2] = c]
        /\ ax \in [0 .. 3 -> Candidate \cup {Stale}]
        /\ sm.ctr2 # 3 =>
             Flush(Accept(sm, c, TRUE)) =
               [ctr |-> sm.ctr + 1, ctr2 |-> sm.ctr2 + 1, ax |-> ax, r |-> sm.r]
        /\ sm.ctr2 = 3 =>
             Flush(Accept(sm, c, TRUE)) =
               [ctr |-> sm.ctr + 1, ctr2 |-> 0, ax |-> ax,
                r |-> doublebasemul(sm.r, sm.ctr - 3, ax)]
  BY TakeFields, Zenon
<1>10. PICK s : s = Flush(Accept(sm, c, TRUE))
  OBVIOUS
<1>11. \A k \in 0 .. 3 : k < m + 1 => ax[k] = g[j][n - m + k + 1]
  <2> TAKE k \in 0 .. 3
  <2> HAVE k < m + 1
  <2>1. CASE k = m
    <3>1. ax[k] = c
      BY <1>2, <1>3, <1>9, <2>1 DEF Shape
    <3>2. n - m + k + 1 = n + 1
      BY <1>3, <2>1
    <3> QED BY <1>7, <3>1, <3>2
  <2>2. CASE k # m
    <3>1. k < m /\ n - m + k + 1 \in 1 .. n
      BY <1>3, <2>2
    <3>2. ax[k] = sm.ax[k]
      BY <1>2, <1>3, <1>9, <2>2 DEF Shape
    <3>3. sm.ax[k] = h[j][n - m + k + 1]
      BY <1>1, <1>2, <3>1 DEF Follows
    <3> QED BY <1>7, <3>1, <3>2, <3>3
  <2> QED BY <2>1, <2>2
<1>12. CASE m # 3
  <2>1. s = [ctr |-> n + 1, ctr2 |-> m + 1, ax |-> ax, r |-> sm.r]
    BY <1>1, <1>2, <1>9, <1>10, <1>12
  <2>2. s.ctr = n + 1 /\ s.ctr2 = m + 1 /\ s.ax = ax /\ s.r = sm.r
    BY <2>1
  <2>3. s.ctr - s.ctr2 = n - m
    BY <1>3, <2>2
  <2>4. /\ s.ctr < N => Len(g[j]) = s.ctr
        /\ Len(g[j]) >= s.ctr
        /\ \A k \in 0 .. 3 : k < s.ctr2 => s.ax[k] = g[j][s.ctr - s.ctr2 + k + 1]
    BY <1>3, <1>7, <1>11, <2>2, <2>3
  <2>5. ASSUME NEW x \in Coeff, Terms(s, x) > 0
        PROVE  s.r[x] = [i \in 1 .. Terms(s, x) |-> RefOf(g, i - 1, x)]
    <3>1. PICK t : t = Terms(s, x)
      OBVIOUS
    <3>2. t = j + (IF x < n - m THEN 1 ELSE 0) /\ t = Terms(sm, x)
      BY <1>1, <1>2, <2>3, <3>1 DEF Terms
    <3>3. t \in Nat
      BY <1>5, <3>2
    <3>4. sm.r[x] = [i \in 1 .. t |-> RefOf(h, i - 1, x)]
      BY <2>5, <3>1, <3>2 DEF Follows
    <3>5. \A i \in 1 .. t : RefOf(g, i - 1, x) = RefOf(h, i - 1, x)
      BY <1>8, <3>2, <3>3
    <3> QED BY <2>2, <3>1, <3>4, <3>5
  <2>6. Follows(s, g)
    BY <2>4, <2>5 DEF Follows
  <2> QED BY <1>4, <1>10, <2>6
<1>13. CASE m = 3
  <2>1. s = [ctr |-> n + 1, ctr2 |-> 0, ax |-> ax,
             r |-> doublebasemul(sm.r, n - 3, ax)]
    BY <1>1, <1>2, <1>9, <1>10, <1>13
  <2>2. /\ s.ctr = n + 1 /\ s.ctr2 = 0 /\ s.ax = ax
        /\ s.r = doublebasemul(sm.r, n - 3, ax)
    BY <2>1
  <2>3. PICK p : p = n - 3
    OBVIOUS
  <2>4. p \in Nat /\ p % 4 = 0 /\ s.ctr - s.ctr2 = p + 4 /\ n - m = p
    BY <1>3, <1>13, <2>2, <2>3
  <2>5. /\ s.ctr < N => Len(g[j]) = s.ctr
        /\ Len(g[j]) >= s.ctr
        /\ \A k \in 0 .. 3 : k < s.ctr2 => s.ax[k] = g[j][s.ctr - s.ctr2 + k + 1]
    BY <1>3, <1>7, <2>2
  <2>6. \A k \in 0 .. 3 : ax[k] = g[j][p + k + 1]
    BY <1>11, <1>13, <2>4
  <2>7. ASSUME NEW x \in Coeff, Terms(s, x) > 0
        PROVE  s.r[x] = [i \in 1 .. Terms(s, x) |-> RefOf(g, i - 1, x)]
    <3>1. x \in Nat
      BY Sizes
    <3>2. Terms(s, x) = j + (IF x < p + 4 THEN 1 ELSE 0)
      BY <2>4 DEF Terms
    <3>3. Terms(sm, x) = j + (IF x < p THEN 1 ELSE 0)
      BY <1>1, <1>2, <2>4 DEF Terms
    <3>4. ASSUME Terms(s, x) = Terms(sm, x), s.r[x] = sm.r[x]
          PROVE  s.r[x] = [i \in 1 .. Terms(s, x) |-> RefOf(g, i - 1, x)]
      <4>1. PICK t : t = Terms(s, x)
        OBVIOUS
      <4>2. t = j + (IF x < n - m THEN 1 ELSE 0) /\ t \in Nat
        BY <1>5, <2>4, <3>3, <3>4, <4>1
      <4>3. sm.r[x] = [i \in 1 .. t |-> RefOf(h, i - 1, x)]
        BY <2>7, <3>4, <4>1 DEF Follows
      <4>4. \A i \in 1 .. t : RefOf(g, i - 1, x) = RefOf(h, i - 1, x)
        BY <1>8, <4>2
      <4> QED BY <3>4, <4>1, <4>3, <4>4
    <3>5. CASE ~ (p <= x /\ x < p + 4)
      <4>1. Terms(s, x) = Terms(sm, x)
        BY <1>5, <2>4, <3>1, <3>2, <3>3, <3>5
      <4>2. s.r[x] = sm.r[x]
        BY <2>2, <2>3, <3>5 DEF doublebasemul
      <4> QED BY <3>4, <4>1, <4>2
    <3>6. CASE p <= x /\ x < p + 4
      <4>1. Terms(s, x) = j + 1 /\ Terms(sm, x) = j
        BY <1>5, <2>4, <3>1, <3>2, <3>3, <3>6
      <4>2. PICK e : e = QuadProduct(ax, p, x)
        OBVIOUS
      <4>3. e = RefOf(g, j, x)
        BY <2>4, <2>6, <3>6, <4>2, QuadIsRef
      <4>4. s.r[x] = IF Add THEN Append(sm.r[x], e) ELSE << e >>
        BY <2>2, <2>3, <3>6, <4>2 DEF doublebasemul
      <4>5. CASE j = 0
        <5>1. s.r[x] = << e >>
          BY <4>4, <4>5 DEF Add
        <5>2. << RefOf(g, 0, x) >> = [i \in 1 .. 1 |-> RefOf(g, i - 1, x)]
          OBVIOUS
        <5> QED BY <4>1, <4>3, <4>5, <5>1, <5>2
      <4>6. CASE j # 0
        <5>1. s.r[x] = Append(sm.r[x], e)
          BY <4>4, <4>6 DEF Add
        <5>2. j > 0
          BY <1>5, <4>6
        <5>3. sm.r[x] = [i \in 1 .. j |-> RefOf(h, i - 1, x)]
          BY <4>1, <5>2 DEF Follows
        <5>4. j = j + (IF x < n - m THEN 1 ELSE 0)
          BY <1>5, <2>4, <3>1, <3>6
        <5>5. \A i \in 1 .. j : RefOf(g, i - 1, x) = RefOf(h, i - 1, x)
          BY <1>5, <1>8, <5>4
        <5>6. PICK f : f = [i \in 1 .. j + 1 |-> RefOf(g, i - 1, x)]
          OBVIOUS
        <5>7. /\ DOMAIN f = 1 .. j + 1
              /\ f[j + 1] = RefOf(g, j, x)
              /\ \A i \in 1 .. j : f[i] = RefOf(g, i - 1, x)
          BY <1>5, <5>6
        <5>8. sm.r[x] = [i \in 1 .. j |-> f[i]]
          BY <5>3, <5>5, <5>7
        <5>9. Append(sm.r[x], e) = [i \in 1 .. j + 1 |-> f[i]]
          BY <1>5, <4>3, <5>7, <5>8, OneMoreTerm
        <5>10. [i \in 1 .. j + 1 |-> f[i]] = f
          BY <5>7, <5>6
        <5> QED BY <4>1, <5>1, <5>6, <5>9, <5>10
      <4> QED BY <4>5, <4>6
    <3> QED BY <3>5, <3>6
  <2>8. Follows(s, g)
    BY <2>5, <2>7 DEF Follows
  <2> QED BY <1>4, <1>10, <2>8
<1> QED BY <1>3, <1>12, <1>13

(* A candidate that is not below q, or for which there is no room, changes *)
(* nothing in the sampler.                                                 *)
LEMMA SkipSame ==
  ASSUME NEW sm, Shape(sm), NEW c
  PROVE  Flush(Accept(sm, c, FALSE)) = sm
<1>1. sm.ctr2 # 4
  BY Sizes DEF Shape
<1> QED BY <1>1 DEF Flush, Accept

(* A candidate below q that comes after the last coefficient is in the     *)
(* history only, behind everything that the products use.                  *)
LEMMA ExcessFollows ==
  ASSUME NEW sm, Shape(sm), ~ (sm.ctr < N), NEW c \in Candidate, j \in Column,
         NEW h \in [Column -> Seq(Candidate)], Follows(sm, h)
  PROVE  Follows(sm, [h EXCEPT ![j] = Append(h[j], c)])
<1>1. sm.ctr = N /\ sm.ctr2 = 0 /\ sm.ctr - sm.ctr2 = N /\ N \in Nat /\ j \in Nat
  BY Sizes DEF Shape
<1>2. PICK g : g = [h EXCEPT ![j] = Append(h[j], c)]
  OBVIOUS
<1>3. h[j] \in Seq(Candidate) /\ Len(h[j]) >= N /\ Len(h[j]) \in Nat
  BY <1>1 DEF Follows
<1>4. /\ g[j] = Append(h[j], c)
      /\ \A col \in Column : col # j => g[col] = h[col]
  BY <1>2
<1>5. /\ Len(g[j]) = Len(h[j]) + 1
      /\ \A i \in 1 .. N : g[j][i] = h[j][i]
  BY <1>1, <1>3, <1>4
<1>6. ASSUME NEW x \in Coeff, Terms(sm, x) > 0
      PROVE  sm.r[x] = [i \in 1 .. Terms(sm, x) |-> RefOf(g, i - 1, x)]
  <2>1. PICK t : t = Terms(sm, x)
    OBVIOUS
  <2>2. x \in Nat /\ x < N
    BY <1>1 DEF Coeff
  <2>3. t = j + 1
    BY <1>1, <2>1, <2>2 DEF Terms
  <2>4. ASSUME NEW i \in 1 .. t PROVE RefOf(g, i - 1, x) = RefOf(h, i - 1, x)
    <3>1. CASE i - 1 # j
      <4>1. i - 1 \in Column
        BY <1>1, <2>3, <2>4, <3>1, MatAccAssumption DEF Column
      <4> QED BY <1>4, <3>1, <4>1, RefOfStable
    <3>2. CASE i - 1 = j
      <4>1. PICK y : y = 2 * (x \div 2)
        OBVIOUS
      <4>2. y \in Nat /\ y + 2 <= N
        BY <1>1, <2>2, <4>1, Sizes, PairBelow
      <4>3. y + 1 \in 1 .. N /\ y + 2 \in 1 .. N
        BY <1>1, <4>2
      <4>4. g[j][y + 1] = h[j][y + 1] /\ g[j][y + 2] = h[j][y + 2]
        BY <1>5, <4>3
      <4> QED BY <3>2, <4>1, <4>4, RefOfStable
    <3> QED BY <3>1, <3>2
  <2>5. sm.r[x] = [i \in 1 .. t |-> RefOf(h, i - 1, x)]
    BY <1>6, <2>1 DEF Follows
  <2> QED BY <2>1, <2>4, <2>5
<1>7. /\ sm.ctr < N => Len(g[j]) = sm.ctr
      /\ Len(g[j]) >= sm.ctr
      /\ \A k \in 0 .. 3 : k < sm.ctr2 => sm.ax[k] = g[j][sm.ctr - sm.ctr2 + k + 1]
  BY <1>1, <1>3, <1>5
<1> QED BY <1>2, <1>6, <1>7 DEF Follows

(* What one candidate does to the history.                                 *)
Heard(h, c, ok) == IF ok THEN [h EXCEPT ![j] = Append(h[j], c)] ELSE h

(* One candidate, below q or not, taken or not.                            *)
LEMMA OneCandidate ==
  ASSUME NEW sm, Shape(sm), NEW c \in Candidate, j \in Column,
         NEW h \in [Column -> Seq(Candidate)], Follows(sm, h),
         NEW ok \in BOOLEAN
  PROVE  /\ Shape(Flush(Accept(sm, c, Room(sm) /\ ok)))
         /\ Follows(Flush(Accept(sm, c, Room(sm) /\ ok)), Heard(h, c, ok))
         /\ Heard(h, c, ok) \in [Column -> Seq(Candidate)]
<1>1. Heard(h, c, ok) \in [Column -> Seq(Candidate)]
  BY DEF Heard
<1>2. CASE ~ ok
  BY <1>1, <1>2, SkipSame DEF Heard
<1>3. CASE ok /\ Room(sm)
  <2>1. sm.ctr < N
    BY <1>3 DEF Room
  <2>2. Heard(h, c, ok) = [h EXCEPT ![j] = Append(h[j], c)]
    BY <1>3 DEF Heard
  <2>3. Accept(sm, c, Room(sm) /\ ok) = Accept(sm, c, TRUE)
    BY <1>3 DEF Accept
  <2>4. /\ Shape(Flush(Accept(sm, c, TRUE)))
        /\ Follows(Flush(Accept(sm, c, TRUE)), [h EXCEPT ![j] = Append(h[j], c)])
    BY <2>1, TakeShape, TakeFollows
  <2> QED BY <1>1, <2>2, <2>3, <2>4, Zenon
<1>4. CASE ok /\ ~ Room(sm)
  <2>1. ~ (sm.ctr < N)
    BY <1>4 DEF Room
  <2>2. Heard(h, c, ok) = [h EXCEPT ![j] = Append(h[j], c)]
    BY <1>4 DEF Heard
  <2>3. Accept(sm, c, Room(sm) /\ ok) = Accept(sm, c, FALSE)
    BY <1>4 DEF Accept
  <2>4. Flush(Accept(sm, c, FALSE)) = sm
    BY SkipSame
  <2>5. Follows(sm, [h EXCEPT ![j] = Append(h[j], c)])
    BY <2>1, ExcessFollows
  <2> QED BY <1>1, <2>2, <2>3, <2>4, <2>5, Zenon
<1> QED BY <1>2, <1>3, <1>4

--------------------------------------------------------------------------------
(* The steps.                                                              *)

LEMMA InitIInv == Init => IInv
<1> SUFFICES ASSUME Init PROVE IInv
  OBVIOUS
<1>1. /\ pc = "idle" /\ row = 0 /\ transposed = FALSE /\ j = 0
      /\ xof = <<0, 0>> /\ blk = 0 /\ pos = 0 /\ read = 0
      /\ smp.ctr = 0 /\ smp.ctr2 = 0 /\ smp.ax = [k \in 0 .. 3 |-> Stale]
      /\ smp.r = [x \in Coeff |-> << Stale >>]
      /\ seen = [c \in Column |-> << >>]
  BY DEF Init
<1>2. Shape(smp)
  <2>1. smp = [ctr |-> smp.ctr, ctr2 |-> smp.ctr2, ax |-> smp.ax, r |-> smp.r]
    BY DEF Init
  <2> QED BY <1>1, <2>1, Sizes DEF Shape
<1>3. TypeOK
  <2>1. smp.ax \in [0 .. 3 -> Candidate \cup {Stale}] /\ DOMAIN smp.r = Coeff
    BY <1>1
  <2>2. seen \in [Column -> Seq(Candidate)]
    BY <1>1
  <2>3. xof \in Column \X Column /\ row \in Column /\ j \in Column
    BY <1>1, Sizes
  <2>4. /\ pc \in {"idle", "squeeze", "parse"} /\ transposed \in BOOLEAN
        /\ blk \in Nat /\ pos \in Nat /\ read \in Nat
    BY DEF Init
  <2>5. smp.ctr \in Nat /\ smp.ctr2 \in 0 .. 3
    BY <1>1
  <2> QED BY <2>1, <2>2, <2>3, <2>4, <2>5 DEF TypeOK
<1>4. Stream
  BY <1>1, Sizes DEF Stream, NoGap
<1>5. Follows(smp, seen)
  BY <1>1, Sizes DEF Follows, Terms
<1>6. RightEntry /\ \A c \in Column : c > j => seen[c] = << >>
  BY <1>1 DEF RightEntry
<1> QED BY <1>1, <1>2, <1>3, <1>4, <1>5, <1>6 DEF IInv

(* A stream just named, an empty sampler.                                  *)
LEMMA EnterShape ==
  ASSUME NEW i, NEW col, NEW t, NEW r, DOMAIN r = Coeff, EnterInner(i, col, t, r)
  PROVE  /\ Shape(smp)'
         /\ smp'.ctr = 0 /\ smp'.ctr2 = 0 /\ smp'.r = r
<1>1. /\ smp'.ctr = 0 /\ smp'.ctr2 = 0 /\ smp'.r = r
      /\ smp'.ax = [k \in 0 .. 3 |-> Stale]
      /\ smp' = [ctr |-> 0, ctr2 |-> 0, ax |-> smp'.ax, r |-> r]
  BY DEF EnterInner
<1> QED BY <1>1, Sizes DEF Shape

LEMMA CallIInv ==
  ASSUME IInv, NEW i \in Column, NEW t \in BOOLEAN, Call(i, t)
  PROVE  IInv'
<1>1. /\ pc' = "squeeze" /\ row' = i /\ transposed' = t /\ j' = 0
      /\ xof' = (IF t THEN <<i, 0>> ELSE <<0, i>>)
      /\ blk' = 0 /\ pos' = 0 /\ read' = 0
      /\ seen' = [c \in Column |-> << >>]
  BY DEF Call, EnterInner, Absorb
<1>2. Shape(smp)' /\ smp'.ctr = 0 /\ smp'.ctr2 = 0
  BY EnterShape DEF Call
<1>3. TypeOK'
  BY <1>1, <1>2, Sizes DEF TypeOK, Shape
<1>4. Stream'
  BY <1>1, Sizes DEF Stream, NoGap
<1>5. Follows(smp, seen)'
  <2>1. (Len(seen[j]) = 0)'
    BY <1>1, Sizes
  <2>2. \A x \in Coeff : Terms(smp, x)' = 0
    BY <1>1, <1>2, Sizes DEF Terms
  <2> QED BY <1>1, <1>2, <2>1, <2>2, Sizes DEF Follows
<1>6. (xof = Entry(j))'
  BY <1>1 DEF Entry
<1>7. (RightEntry /\ \A c \in Column : c > j => seen[c] = << >>)'
  BY <1>1 DEF RightEntry
<1> QED BY <1>2, <1>3, <1>4, <1>5, <1>6, <1>7 DEF IInv

(* A step that leaves the sampler, its history and the call alone.         *)
LEMMA SamplerAlone ==
  ASSUME IInv, UNCHANGED <<row, transposed, j, smp, seen>>
  PROVE  /\ Shape(smp)' /\ Follows(smp, seen)' /\ RightEntry'
         /\ (\A c \in Column : c > j => seen[c] = << >>)'
BY DEF IInv, Shape, Follows, Terms, RefOf, RightEntry, Entry

LEMMA SqueezeIInv == ASSUME IInv, Squeeze PROVE IInv'
<1>1. /\ pc = "squeeze" /\ blk' = blk + 1 /\ pos' = 0 /\ pc' = "parse"
      /\ UNCHANGED <<row, transposed, j, xof, smp, read, seen>>
  BY DEF Squeeze
<1>2. TypeOK'
  BY <1>1 DEF IInv, TypeOK
<1>3. Stream'
  <2>1. blk \in Nat /\ read = XOF_BLOCKBYTES * blk /\ XOF_BLOCKBYTES \in Nat
    BY <1>1, Sizes DEF IInv, TypeOK, Stream
  <2>2. blk' \in Nat \ {0} /\ XOF_BLOCKBYTES * (blk' - 1) + pos' = read'
    BY <1>1, <2>1
  <2> QED BY <1>1, <2>1, <2>2 DEF Stream, NoGap
<1>4. (xof = Entry(j))'
  BY <1>1 DEF IInv, Entry
<1> QED BY <1>1, <1>2, <1>3, <1>4, SamplerAlone DEF IInv

LEMMA BlockDoneIInv == ASSUME IInv, BlockDone PROVE IInv'
<1>1. /\ pc = "parse" /\ ~ More /\ smp.ctr < N /\ pc' = "squeeze"
      /\ UNCHANGED <<row, transposed, j, xof, blk, pos, smp, read, seen>>
  BY DEF BlockDone
<1>2. TypeOK'
  BY <1>1 DEF IInv, TypeOK
<1>3. Stream'
  <2>1. /\ blk \in Nat /\ pos \in Nat /\ read \in Nat /\ pos % 3 = 0
        /\ pos <= XOF_BLOCKBYTES
        /\ XOF_BLOCKBYTES * (blk - 1) + pos = read
    BY <1>1 DEF IInv, TypeOK, Stream, NoGap
  <2>2. pos = XOF_BLOCKBYTES
    BY <1>1, <2>1, Sizes DEF More
  <2>3. read = XOF_BLOCKBYTES * blk
    BY <2>1, <2>2, Sizes
  <2> QED BY <1>1, <2>1, <2>3 DEF Stream, NoGap
<1>4. (xof = Entry(j))'
  BY <1>1 DEF IInv, Entry
<1> QED BY <1>1, <1>2, <1>3, <1>4, SamplerAlone DEF IInv

LEMMA ReturnIInv == ASSUME IInv, Return PROVE IInv'
<1>1. /\ pc' = "idle"
      /\ UNCHANGED <<row, transposed, j, xof, blk, pos, smp, read, seen>>
  BY DEF Return
<1>2. TypeOK' /\ Stream'
  BY <1>1 DEF IInv, TypeOK, Stream, NoGap
<1> QED BY <1>1, <1>2, SamplerAlone DEF IInv

LEMMA NextColumnIInv == ASSUME IInv, NextColumn PROVE IInv'
<1>1. /\ pc = "parse" /\ smp.ctr >= N /\ j + 1 < K /\ pc' = "squeeze"
      /\ EnterInner(row, j + 1, transposed, smp.r)
      /\ j' = j + 1 /\ xof' = Absorb(row, j + 1, transposed)
      /\ blk' = 0 /\ pos' = 0 /\ read' = 0
      /\ row' = row /\ transposed' = transposed /\ seen' = seen
  BY DEF NextColumn, EnterInner
<1>2. /\ smp.ctr = N /\ smp.ctr2 = 0 /\ N \in Nat
      /\ DOMAIN smp.r = Coeff
      /\ j \in Nat /\ j \in Column /\ row \in Column /\ transposed \in BOOLEAN
      /\ seen \in [Column -> Seq(Candidate)]
  <2>1. smp.ctr \in 0 .. N /\ smp.ctr2 = smp.ctr % 4 /\ DOMAIN smp.r = Coeff
    BY DEF IInv, Shape
  <2>2. /\ j \in Column /\ row \in Column /\ transposed \in BOOLEAN
        /\ seen \in [Column -> Seq(Candidate)]
    BY DEF IInv, TypeOK
  <2>3. smp.ctr = N
    BY <1>1, <2>1, Sizes
  <2> QED BY <2>1, <2>2, <2>3, Sizes
<1>3. /\ Shape(smp)'
      /\ smp'.ctr = 0 /\ smp'.ctr2 = 0 /\ smp'.r = smp.r
  BY <1>1, <1>2, EnterShape
<1>4. j' \in Column
  BY <1>1, <1>2, MatAccAssumption DEF Column
<1>5. TypeOK'
  <2>1. xof' \in Column \X Column
    BY <1>1, <1>2, <1>4 DEF Absorb
  <2>2. /\ pc' \in {"idle", "squeeze", "parse"}
        /\ row' \in Column /\ transposed' \in BOOLEAN
        /\ blk' \in Nat /\ pos' \in Nat /\ read' \in Nat
        /\ seen' \in [Column -> Seq(Candidate)]
    BY <1>1, <1>2
  <2>3. /\ smp'.ctr \in Nat /\ smp'.ctr2 \in 0 .. 3
        /\ smp'.ax \in [0 .. 3 -> Candidate \cup {Stale}]
        /\ DOMAIN smp'.r = Coeff
    BY <1>2, <1>3 DEF Shape
  <2> QED BY <1>4, <2>1, <2>2, <2>3 DEF TypeOK
<1>6. Stream'
  BY <1>1, Sizes DEF Stream, NoGap
<1>7. (xof = Entry(j))'
  BY <1>1 DEF Entry, Absorb
<1>8. (RightEntry /\ \A c \in Column : c > j => seen[c] = << >>)'
  BY <1>1, <1>2, Sizes DEF IInv, RightEntry, Entry
<1>9. Follows(smp, seen)'
  <2>1. (Len(seen[j]) = 0)'
    BY <1>1, <1>2, <1>4 DEF IInv
  <2>2. ASSUME NEW x \in Coeff
        PROVE  Terms(smp, x)' = Terms(smp, x)
    <3>1. x \in Nat /\ x < N
      BY <1>2 DEF Coeff
    <3> QED BY <1>1, <1>2, <1>3, <3>1 DEF Terms
  <2>3. \A x \in Coeff : Terms(smp, x) > 0 =>
          smp.r[x] = [c \in 1 .. Terms(smp, x) |-> RefOf(seen, c - 1, x)]
    BY DEF IInv, Follows
  <2>4. \A x \in Coeff : Terms(smp, x)' > 0 =>
          smp'.r[x] = [c \in 1 .. Terms(smp, x)' |-> RefOf(seen', c - 1, x)]
    BY <1>1, <1>3, <2>2, <2>3
  <2> QED BY <1>2, <1>3, <2>1, <2>4 DEF Follows
<1> QED BY <1>3, <1>5, <1>6, <1>7, <1>8, <1>9 DEF IInv

(* The candidates of three bytes, in the order of the stream.              *)
HeardBoth(h, c0, c1, ok0, ok1) ==
  [h EXCEPT ![j] = h[j] \o (IF ok0 THEN << c0 >> ELSE << >>)
                        \o (IF ok1 THEN << c1 >> ELSE << >>)]

LEMMA HeardTwice ==
  ASSUME NEW h \in [Column -> Seq(Candidate)], j \in Column,
         NEW c0 \in Candidate, NEW c1 \in Candidate,
         NEW ok0 \in BOOLEAN, NEW ok1 \in BOOLEAN
  PROVE  Heard(Heard(h, c0, ok0), c1, ok1) = HeardBoth(h, c0, c1, ok0, ok1)
<1> USE DEF HeardBoth
<1>1. \A s \in Seq(Candidate) : s \o << >> = s
  OBVIOUS
<1>2. \A s \in Seq(Candidate), c \in Candidate :
        s \o << c >> = Append(s, c) /\ Append(s, c) \in Seq(Candidate)
  OBVIOUS
<1>3. PICK a : a = h[j] \o (IF ok0 THEN << c0 >> ELSE << >>)
  OBVIOUS
<1>4. a \in Seq(Candidate) /\ Heard(h, c0, ok0) = [h EXCEPT ![j] = a]
  BY <1>1, <1>2, <1>3 DEF Heard
<1>5. PICK g : g = [h EXCEPT ![j] = a]
  OBVIOUS
<1>6. g[j] = a /\ \A b : [g EXCEPT ![j] = b] = [h EXCEPT ![j] = b]
  BY <1>5
<1>7. CASE ok1
  <2>1. Heard(g, c1, ok1) = [g EXCEPT ![j] = Append(a, c1)]
    BY <1>6, <1>7 DEF Heard
  <2>2. Append(a, c1) = a \o (IF ok1 THEN << c1 >> ELSE << >>)
    BY <1>2, <1>4, <1>7
  <2> QED BY <1>3, <1>4, <1>5, <1>6, <2>1, <2>2
<1>8. CASE ~ ok1
  BY <1>1, <1>3, <1>4, <1>5, <1>6, <1>8 DEF Heard
<1> QED BY <1>7, <1>8

(* Nothing but the history of column j grows, by candidates of its entry.  *)
LEMMA HeardEntries ==
  ASSUME NEW h \in [Column -> Seq(Candidate)], j \in Column, NEW c \in Candidate,
         NEW ok \in BOOLEAN, c.entry = Entry(j),
         \A col \in Column : \A k \in DOMAIN h[col] : h[col][k].entry = Entry(col),
         \A col \in Column : col > j => h[col] = << >>
  PROVE  /\ \A col \in Column : \A k \in DOMAIN Heard(h, c, ok)[col] :
              Heard(h, c, ok)[col][k].entry = Entry(col)
         /\ \A col \in Column : col > j => Heard(h, c, ok)[col] = << >>
<1>1. CASE ~ ok
  BY <1>1 DEF Heard
<1>2. CASE ok
  <2>1. PICK g : g = Heard(h, c, ok)
    OBVIOUS
  <2>2. /\ g[j] = Append(h[j], c)
        /\ \A col \in Column : col # j => g[col] = h[col]
    BY <1>2, <2>1 DEF Heard
  <2>3. \A k \in DOMAIN g[j] : g[j][k].entry = Entry(j)
    <3>1. h[j] \in Seq(Candidate)
      OBVIOUS
    <3>2. DOMAIN g[j] = 1 .. Len(h[j]) + 1
      BY <2>2, <3>1
    <3>3. \A k \in 1 .. Len(h[j]) : g[j][k] = h[j][k] /\ k \in DOMAIN h[j]
      BY <2>2, <3>1
    <3>4. g[j][Len(h[j]) + 1] = c
      BY <2>2, <3>1
    <3> QED BY <3>1, <3>2, <3>3, <3>4
  <2>4. \A col \in Column : col > j => g[col] = << >>
    BY <2>2, Sizes
  <2> QED BY <2>1, <2>2, <2>3, <2>4
<1> QED BY <1>1, <1>2

LEMMA ParseIInv ==
  ASSUME IInv, NEW ok0 \in BOOLEAN, NEW ok1 \in BOOLEAN, Parse(ok0, ok1)
  PROVE  IInv'
<1>1. /\ pc = "parse" /\ smp.ctr < N /\ pos + 3 <= XOF_BLOCKBYTES
      /\ pos' = pos + 3 /\ read' = read + 3
      /\ UNCHANGED <<pc, row, transposed, j, xof, blk>>
  BY DEF Parse, More
<1>2. /\ Shape(smp) /\ Follows(smp, seen)
      /\ seen \in [Column -> Seq(Candidate)]
      /\ j \in Column /\ xof \in Column \X Column /\ xof = Entry(j)
      /\ blk \in Nat \ {0} /\ pos \in Nat /\ read \in Nat
      /\ pos % 3 = 0 /\ XOF_BLOCKBYTES * (blk - 1) + pos = read
  BY <1>1 DEF IInv, TypeOK, Stream, NoGap
<1>3. ASSUME NEW h \in {0, 1}
      PROVE  At(h) \in Candidate /\ At(h).entry = Entry(j)
  <2>1. XOF_BLOCKBYTES * (blk - 1) + pos \in Nat
    BY <1>2
  <2> QED BY <1>2, <2>1 DEF At, Candidate
<1>4. PICK c0, c1 : c0 = At(0) /\ c1 = At(1)
  OBVIOUS
<1>5. c0 \in Candidate /\ c0.entry = Entry(j) /\ c1 \in Candidate /\ c1.entry = Entry(j)
  BY <1>3, <1>4
<1>6. PICK s0 : s0 = Flush(Accept(smp, c0, ok0))
  OBVIOUS
<1>7. PICK h0 : h0 = Heard(seen, c0, ok0)
  OBVIOUS
<1>8. Shape(s0) /\ Follows(s0, h0) /\ h0 \in [Column -> Seq(Candidate)]
  <2>1. Accept(smp, c0, Room(smp) /\ ok0) = Accept(smp, c0, ok0)
    BY <1>1 DEF Room, Accept
  <2>2. /\ Shape(Flush(Accept(smp, c0, Room(smp) /\ ok0)))
        /\ Follows(Flush(Accept(smp, c0, Room(smp) /\ ok0)), Heard(seen, c0, ok0))
        /\ Heard(seen, c0, ok0) \in [Column -> Seq(Candidate)]
    BY <1>2, <1>5, OneCandidate
  <2> QED BY <1>6, <1>7, <2>1, <2>2, Zenon
<1>9. PICK s1 : s1 = Flush(Accept(s0, c1, Room(s0) /\ ok1))
  OBVIOUS
<1>10. PICK h1 : h1 = Heard(h0, c1, ok1)
  OBVIOUS
<1>11. Shape(s1) /\ Follows(s1, h1) /\ h1 \in [Column -> Seq(Candidate)]
  <2>1. /\ Shape(Flush(Accept(s0, c1, Room(s0) /\ ok1)))
        /\ Follows(Flush(Accept(s0, c1, Room(s0) /\ ok1)), Heard(h0, c1, ok1))
        /\ Heard(h0, c1, ok1) \in [Column -> Seq(Candidate)]
    BY <1>2, <1>5, <1>8, OneCandidate
  <2> QED BY <1>9, <1>10, <2>1, Zenon
<1>12. smp' = s1
  BY <1>4, <1>6, <1>9, Zenon DEF Parse
<1>13. seen' = h1
  <2>1. h1 = HeardBoth(seen, c0, c1, ok0, ok1)
    BY <1>2, <1>5, <1>7, <1>10, HeardTwice, Zenon
  <2> QED BY <1>4, <2>1, Zenon DEF Parse, HeardBoth
<1>14. Shape(smp)' /\ Follows(smp, seen)'
  <2>1. Shape(smp)'
    BY <1>11, <1>12 DEF Shape
  <2>2. \A x : Terms(smp, x)' = Terms(s1, x)
    BY <1>1, <1>12 DEF Terms
  <2>3. Follows(smp, seen)'
    BY <1>1, <1>11, <1>12, <1>13, <2>2 DEF Follows
  <2> QED BY <2>1, <2>3
<1>15. /\ \A col \in Column : \A k \in DOMAIN h1[col] : h1[col][k].entry = Entry(col)
       /\ \A col \in Column : col > j => h1[col] = << >>
  <2>1. /\ \A col \in Column : \A k \in DOMAIN seen[col] : seen[col][k].entry = Entry(col)
        /\ \A col \in Column : col > j => seen[col] = << >>
    BY DEF IInv, RightEntry
  <2>2. /\ \A col \in Column : \A k \in DOMAIN h0[col] : h0[col][k].entry = Entry(col)
        /\ \A col \in Column : col > j => h0[col] = << >>
    <3>1. /\ \A col \in Column : \A k \in DOMAIN Heard(seen, c0, ok0)[col] :
               Heard(seen, c0, ok0)[col][k].entry = Entry(col)
          /\ \A col \in Column : col > j => Heard(seen, c0, ok0)[col] = << >>
      BY <1>2, <1>5, <2>1, HeardEntries, Zenon
    <3> QED BY <1>7, <3>1, Zenon
  <2>3. /\ \A col \in Column : \A k \in DOMAIN Heard(h0, c1, ok1)[col] :
             Heard(h0, c1, ok1)[col][k].entry = Entry(col)
        /\ \A col \in Column : col > j => Heard(h0, c1, ok1)[col] = << >>
    BY <1>2, <1>5, <1>8, <2>2, HeardEntries, Zenon
  <2> QED BY <1>10, <2>3, Zenon
<1>16. (RightEntry /\ \A col \in Column : col > j => seen[col] = << >>)'
  <2>1. \A col : Entry(col)' = Entry(col)
    BY <1>1 DEF Entry
  <2> QED BY <1>1, <1>13, <1>15, <2>1 DEF RightEntry
<1>17. TypeOK'
  <2>1. /\ s1.ctr \in Nat /\ s1.ctr2 \in 0 .. 3
        /\ s1.ax \in [0 .. 3 -> Candidate \cup {Stale}]
        /\ DOMAIN s1.r = Coeff
    BY <1>11, Sizes DEF Shape
  <2>2. /\ pc \in {"idle", "squeeze", "parse"}
        /\ row \in Column /\ j \in Column /\ transposed \in BOOLEAN
        /\ xof \in Column \X Column /\ blk \in Nat
    BY DEF IInv, TypeOK
  <2>3. pos' \in Nat /\ read' \in Nat
    BY <1>1, <1>2
  <2> QED BY <1>1, <1>11, <1>12, <1>13, <2>1, <2>2, <2>3 DEF TypeOK
<1>18. Stream'
  <2>1. (pos + 3) % 3 = 0
    BY <1>2
  <2>2. XOF_BLOCKBYTES * (blk - 1) + (pos + 3) = read + 3
    BY <1>2, Sizes
  <2> QED BY <1>1, <1>2, <2>1, <2>2 DEF Stream, NoGap
<1>19. (xof = Entry(j))'
  BY <1>1, <1>2 DEF Entry
<1> QED BY <1>14, <1>16, <1>17, <1>18, <1>19 DEF IInv

LEMMA StepIInv == IInv /\ [Next]_vars => IInv'
<1> SUFFICES ASSUME IInv, [Next]_vars PROVE IInv'
  OBVIOUS
<1>1. CASE \E i \in Column, t \in BOOLEAN : Call(i, t)
  BY <1>1, CallIInv
<1>2. CASE Squeeze
  BY <1>2, SqueezeIInv
<1>3. CASE \E ok0, ok1 \in BOOLEAN : Parse(ok0, ok1)
  BY <1>3, ParseIInv
<1>4. CASE BlockDone
  BY <1>4, BlockDoneIInv
<1>5. CASE NextColumn
  BY <1>5, NextColumnIInv
<1>6. CASE Return
  BY <1>6, ReturnIInv
<1>7. CASE UNCHANGED vars
  <2>1. UNCHANGED <<pc, row, transposed, j, xof, blk, pos, smp, read, seen>>
    BY <1>7 DEF vars
  <2>2. TypeOK' /\ Stream' /\ (pc # "idle" => xof = Entry(j))'
    BY <2>1 DEF IInv, TypeOK, Stream, NoGap, Entry
  <2> QED BY <2>1, <2>2, SamplerAlone DEF IInv
<1> QED BY <1>1, <1>2, <1>3, <1>4, <1>5, <1>6, <1>7 DEF Next

LEMMA Invariant == Spec => []IInv
BY InitIInv, StepIInv, PTL DEF Spec

--------------------------------------------------------------------------------
(* matacc_inner never writes past ax: ctr2 is below four whenever the loop *)
(* tests its condition, and every other variable stays in its type.        *)
THEOREM TypeCorrect == Spec => []TypeOK
BY Invariant, PTL DEF IInv

(* ctr never passes MLKEM_N, whatever candidates the stream rejects and    *)
(* however its blocks divide the polynomial.                               *)
THEOREM NeverOverruns == Spec => []NoOverrun
<1>1. IInv => NoOverrun
  BY Sizes DEF IInv, Shape, NoOverrun
<1> QED BY <1>1, Invariant, PTL

(* The inner loop leaves a block only at its last byte or when the         *)
(* polynomial is complete, so the next block continues where it stopped.   *)
THEOREM ReadsWithoutGap == Spec => []NoGap
<1>1. IInv => NoGap
  BY DEF IInv, Stream
<1> QED BY <1>1, Invariant, PTL

(* Every candidate accepted for column c comes from the stream of the      *)
(* entry in row i and column c of A, or of its transpose.                  *)
THEOREM SamplesRightEntry == Spec => []RightEntry
<1>1. IInv => RightEntry
  BY DEF IInv
<1> QED BY <1>1, Invariant, PTL

(* The polynomial r that matacc fills four coefficients at a time is, at   *)
(* every moment, the sum of the reference products of the columns passed,  *)
(* each once, computed from the first MLKEM_N accepted candidates of each. *)
THEOREM ComputesRowProduct == Spec => []RowProduct
<1>1. ASSUME IInv PROVE RowProduct
  <2> SUFFICES ASSUME NEW x \in Coeff, Summed(x) > 0
               PROVE  smp.r[x] = [c \in 1 .. Summed(x) |-> RefProduct(c - 1, x)]
    BY DEF RowProduct
  <2>1. Summed(x) = Terms(smp, x)
    BY DEF Summed, Terms
  <2>2. \A c \in 1 .. Summed(x) : RefProduct(c - 1, x) = RefOf(seen, c - 1, x)
    BY DEF RefProduct, RefOf
  <2>3. smp.r[x] = [c \in 1 .. Summed(x) |-> RefOf(seen, c - 1, x)]
    BY <1>1, <2>1 DEF IInv, Follows
  <2> QED BY <2>2, <2>3
<1> QED BY <1>1, Invariant, PTL

================================================================================
