--------------------------- MODULE InductionLemmas -----------------------------
(***************************************************************************)
(* Induction over the natural numbers, stated of a set instead of a        *)
(* predicate, and what follows from it about functions defined by          *)
(* recursion on a number, folds over a sequence, and the largest of a set. *)
(* Nothing here is about the code; the other proofs cite it.               *)
(***************************************************************************)
EXTENDS SequencesExt, Integers, WellFoundedInduction, TLAPS

LEMMA Least ==
  ASSUME NEW T \in SUBSET Nat, T # {}
  PROVE  \E m \in T : \A k \in T : m <= k
<1>1. PICK m \in T : \A k \in T : ~ (<<k, m>> \in OpToRel(<, Nat))
  <2>1. IsWellFoundedOn(OpToRel(<, Nat), Nat)
    BY NatLessThanWellFounded
  <2> HIDE DEF OpToRel
  <2> QED BY <2>1, WFMin
<1>2. ASSUME NEW k \in T PROVE m <= k
  <2>1. CASE k < m
    <3>1. <<k, m>> \in Nat \X Nat /\ <<k, m>>[1] < <<k, m>>[2]
      BY <2>1
    <3>2. <<k, m>> \in OpToRel(<, Nat)
      BY <3>1 DEF OpToRel
    <3> QED BY <1>1, <3>2
  <2> QED BY <2>1
<1> QED BY <1>2

(* To show P(n) for every n, take {n \in Nat : P(n)} for S.                *)
LEMMA Induction ==
  ASSUME NEW S, 0 \in S, \A n \in Nat : n \in S => n + 1 \in S
  PROVE  Nat \subseteq S
<1> SUFFICES ASSUME Nat \ S # {} PROVE FALSE
  OBVIOUS
<1>1. PICK m \in Nat \ S : \A k \in Nat \ S : m <= k
  BY Least
<1>2. m # 0 /\ m - 1 \in Nat /\ m - 1 \in S
  BY <1>1
<1> QED BY <1>2

--------------------------------------------------------------------------------
(* The functions of 0 .. n that begin with a and go on by g; there is one. *)
Recursive(n, T, a, g) ==
  {f \in [0 .. n -> T] : f[0] = a /\ \A i \in 1 .. n : f[i] = g[i][f[i - 1]]}

LEMMA Recursion ==
  ASSUME NEW n \in Nat, NEW T, NEW a \in T, NEW g \in [1 .. n -> [T -> T]]
  PROVE  Recursive(n, T, a, g) # {}
<1> DEFINE Upto(m) == \E f \in [0 .. m -> T] :
                        f[0] = a /\ \A i \in 1 .. m : f[i] = g[i][f[i - 1]]
           S == {m \in Nat : m <= n => Upto(m)}
<1>1. 0 \in S
  <2> DEFINE h == [i \in 0 .. 0 |-> a]
  <2>1. h \in [0 .. 0 -> T] /\ h[0] = a /\ \A i \in 1 .. 0 : h[i] = g[i][h[i - 1]]
    OBVIOUS
  <2>2. Upto(0)
    <3> HIDE DEF h
    <3> QED BY <2>1
  <2> QED BY <2>2
<1>2. ASSUME NEW m \in Nat, m \in S, m + 1 <= n PROVE Upto(m + 1)
  <2>1. PICK f \in [0 .. m -> T] : f[0] = a /\ \A i \in 1 .. m : f[i] = g[i][f[i - 1]]
    BY <1>2
  <2> DEFINE h == [i \in 0 .. m + 1 |-> IF i <= m THEN f[i] ELSE g[m + 1][f[m]]]
  <2>2. f[m] \in T /\ m + 1 \in 1 .. n
    BY <1>2
  <2>3. g[m + 1][f[m]] \in T
    BY <2>2
  <2>4. h \in [0 .. m + 1 -> T] /\ h[0] = a
    BY <2>1, <2>3
  <2>5. ASSUME NEW i \in 1 .. m + 1 PROVE h[i] = g[i][h[i - 1]]
    <3>1. CASE i \in 1 .. m
      <4>1. h[i] = f[i] /\ h[i - 1] = f[i - 1]
        BY <3>1
      <4> QED BY <2>1, <3>1, <4>1
    <3>2. CASE i = m + 1
      <4>1. h[i] = g[m + 1][f[m]] /\ h[i - 1] = f[m]
        BY <3>2
      <4> QED BY <3>2, <4>1
    <3> QED BY <3>1, <3>2
  <2> HIDE DEF h
  <2> QED BY <2>4, <2>5
<1>3. ASSUME NEW m \in Nat, m \in S PROVE m + 1 \in S
  <2>1. m + 1 <= n => Upto(m + 1)
    BY <1>2, <1>3
  <2> HIDE DEF Upto
  <2> QED BY <2>1
<1>4. n \in S
  <2> HIDE DEF S
  <2> QED BY <1>1, <1>3, Induction
<1>5. Upto(n)
  <2> HIDE DEF Upto
  <2> QED BY <1>4
<1> QED BY <1>5 DEF Recursive

(* What a recursive definition chooses: it goes on by g as long as it stays *)
(* in T.                                                                   *)
Unfolds(f, n, T, a, g) ==
  /\ f = [i \in 0 .. n |-> f[i]] /\ f[0] = a
  /\ \A i \in 1 .. n : f[i - 1] \in T => f[i] = g[i][f[i - 1]]

LEMMA Unfolding ==
  ASSUME NEW n \in Nat, NEW T, NEW a \in T, NEW g \in [1 .. n -> [T -> T]], NEW f,
         Unfolds(f, n, T, a, g)
  PROVE  f \in Recursive(n, T, a, g)
<1> DEFINE S == {i \in Nat : i <= n => f[i] \in T}
<1>1. 0 \in S
  BY DEF Unfolds
<1>2. ASSUME NEW i \in Nat, i \in S PROVE i + 1 \in S
  <2> SUFFICES ASSUME i + 1 <= n PROVE f[i + 1] \in T
    OBVIOUS
  <2>1. i + 1 \in 1 .. n /\ (i + 1) - 1 = i /\ f[i] \in T
    BY <1>2
  <2>2. f[i + 1] = g[i + 1][f[i]]
    BY <2>1 DEF Unfolds
  <2> QED BY <2>1, <2>2
<1> HIDE DEF S
<1>3. Nat \subseteq S
  BY <1>1, <1>2, Induction
<1>4. \A i \in 0 .. n : f[i] \in T
  BY <1>3 DEF S
<1>5. \A i \in 1 .. n : i - 1 \in 0 .. n
  OBVIOUS
<1> QED BY <1>4, <1>5 DEF Unfolds, Recursive

--------------------------------------------------------------------------------
(* The largest of a set of numbers that is bounded.                        *)
LEMMA MaxOf ==
  ASSUME NEW n \in Nat, NEW s \in SUBSET (1 .. n), s # {}
  PROVE  Max(s) \in s /\ \A x \in s : x <= Max(s)
<1> DEFINE T == {n - x : x \in s}
<1>1. T \in SUBSET Nat /\ T # {}
  <2>1. \A x \in s : n - x \in Nat /\ n - x \in T
    OBVIOUS
  <2> QED BY <2>1
<1>2. PICK m \in T : \A k \in T : m <= k
  BY <1>1, Least
<1>3. PICK x \in s : m = n - x
  BY <1>2
<1>4. ASSUME NEW y \in s PROVE x >= y
  <2>1. m <= n - y /\ y \in 1 .. n /\ x \in 1 .. n
    BY <1>2
  <2> QED BY <1>3, <2>1
<1>5. \E z \in s : \A y \in s : z >= y
  BY <1>4
<1> QED BY <1>5 DEF Max

(* FoldLeft takes the largest index off a set of them: what it calls iter  *)
(* is such a function, as long as it stays in T, and there is one.         *)
IsFold(h, n, T, a, g) ==
  \A s \in SUBSET (1 .. n) :
    IF s = {} THEN h[s] = a
    ELSE h[s \ {Max(s)}] \in T => h[s] = g[Max(s)][h[s \ {Max(s)}]]
FoldsIn(n, T, a, g) == {h \in [SUBSET (1 .. n) -> T] : IsFold(h, n, T, a, g)}

LEMMA FoldExists ==
  ASSUME NEW n \in Nat, NEW T, NEW a \in T, NEW g \in [1 .. n -> [T -> T]]
  PROVE  FoldsIn(n, T, a, g) # {}
<1> DEFINE Folds(h, m) == \A s \in SUBSET (1 .. m) :
                            h[s] = IF s = {} THEN a ELSE g[Max(s)][h[s \ {Max(s)}]]
           Upto(m) == \E h \in [SUBSET (1 .. m) -> T] : Folds(h, m)
           S == {m \in Nat : m <= n => Upto(m)}
<1>1. 0 \in S
  <2> DEFINE h == [s \in SUBSET (1 .. 0) |-> a]
  <2>1. h \in [SUBSET (1 .. 0) -> T] /\ \A s \in SUBSET (1 .. 0) : s = {} /\ h[s] = a
    OBVIOUS
  <2>2. Upto(0)
    <3> HIDE DEF h
    <3> QED BY <2>1
  <2> QED BY <2>2
<1>2. ASSUME NEW m \in Nat, m \in S, m + 1 <= n PROVE Upto(m + 1)
  <2>0. Upto(m)
    <3> HIDE DEF Upto
    <3> QED BY <1>2
  <2>1. PICK h \in [SUBSET (1 .. m) -> T] : Folds(h, m)
    BY <2>0
  <2> DEFINE hh == [s \in SUBSET (1 .. m + 1) |->
                      IF m + 1 \in s THEN g[m + 1][h[s \ {m + 1}]] ELSE h[s]]
  <2>2. ASSUME NEW s \in SUBSET (1 .. m + 1), m + 1 \notin s
        PROVE  s \in SUBSET (1 .. m) /\ hh[s] = h[s] /\ hh[s] \in T
    <3>1. s \in SUBSET (1 .. m)
      BY <2>2
    <3> QED BY <2>2, <3>1
  <2>3. ASSUME NEW s \in SUBSET (1 .. m + 1), m + 1 \in s
        PROVE  /\ s \ {m + 1} \in SUBSET (1 .. m)
               /\ hh[s] = g[m + 1][h[s \ {m + 1}]] /\ hh[s] \in T
    <3>1. s \ {m + 1} \in SUBSET (1 .. m) /\ h[s \ {m + 1}] \in T /\ m + 1 \in 1 .. n
      BY <1>2, <2>3
    <3> QED BY <2>3, <3>1
  <2>4. hh \in [SUBSET (1 .. m + 1) -> T]
    <3>1. \A s \in SUBSET (1 .. m + 1) : hh[s] \in T
      BY <2>2, <2>3
    <3> QED BY <3>1
  <2>5. ASSUME NEW s \in SUBSET (1 .. m + 1)
        PROVE  hh[s] = IF s = {} THEN a ELSE g[Max(s)][hh[s \ {Max(s)}]]
    <3>1. CASE m + 1 \in s
      <4>1. Max(s) \in s /\ \A x \in s : x <= Max(s)
        BY <3>1, m + 1 \in Nat, MaxOf
      <4>2. Max(s) = m + 1
        <5>1. Max(s) \in 1 .. m + 1 /\ m + 1 <= Max(s)
          BY <3>1, <4>1
        <5> QED BY <5>1
      <4>3. s \ {m + 1} \in SUBSET (1 .. m + 1) /\ m + 1 \notin s \ {m + 1}
        OBVIOUS
      <4>4. hh[s \ {m + 1}] = h[s \ {m + 1}]
        BY <2>2, <4>3
      <4> QED BY <2>3, <3>1, <4>2, <4>4
    <3>2. CASE m + 1 \notin s /\ s # {}
      <4>1. s \in SUBSET (1 .. m) /\ hh[s] = h[s]
        BY <2>2, <3>2
      <4>2. Max(s) \in s
        BY <3>2, <4>1, MaxOf
      <4>3. s \ {Max(s)} \in SUBSET (1 .. m + 1) /\ m + 1 \notin s \ {Max(s)}
        BY <3>2
      <4>4. hh[s \ {Max(s)}] = h[s \ {Max(s)}]
        BY <2>2, <4>3
      <4>5. h[s] = g[Max(s)][h[s \ {Max(s)}]]
        BY <2>1, <3>2, <4>1
      <4> QED BY <3>2, <4>1, <4>4, <4>5
    <3>3. CASE s = {}
      <4>1. hh[s] = h[s] /\ s \in SUBSET (1 .. m)
        BY <2>2, <3>3
      <4> QED BY <2>1, <3>3, <4>1
    <3> QED BY <3>1, <3>2, <3>3
  <2> HIDE DEF hh
  <2> QED BY <2>4, <2>5
<1>3. \A m \in Nat : m \in S => m + 1 \in S
  <2> HIDE DEF Upto
  <2> QED BY <1>2
<1>4. n \in S
  <2> HIDE DEF S
  <2> QED BY <1>1, <1>3, Induction
<1>5. Upto(n)
  <2> HIDE DEF Upto
  <2> QED BY <1>4
<1> QED BY <1>5 DEF FoldsIn, IsFold

(* What it makes of the whole of 1 .. n is what recursion comes to.        *)
ComesTo(h, n, v) == h[1 .. n] = v[n]

LEMMA FoldSteps ==
  ASSUME NEW n \in Nat, NEW T, NEW a \in T, NEW g \in [1 .. n -> [T -> T]],
         NEW iter, IsFold(iter, n, T, a, g), NEW v \in Recursive(n, T, a, g)
  PROVE  ComesTo(iter, n, v)
<1>0. v[0] = a /\ (\A i \in 1 .. n : v[i] = g[i][v[i - 1]]) /\ \A i \in 0 .. n : v[i] \in T
  BY DEF Recursive
<1> DEFINE S == {i \in Nat : i <= n => iter[1 .. i] = v[i]}
<1>1. 0 \in S
  <2>1. 1 .. 0 = {} /\ {} \in SUBSET (1 .. n) /\ 0 \in 0 .. n
    OBVIOUS
  <2> QED BY <1>0, <2>1 DEF IsFold
<1>2. ASSUME NEW m \in Nat, m \in S, m + 1 <= n PROVE iter[1 .. m + 1] = v[m + 1]
  <2>1. /\ 1 .. m + 1 \in SUBSET (1 .. n) /\ m + 1 \in 1 .. m + 1
        /\ (1 .. m + 1) \ {m + 1} = 1 .. m
    BY <1>2
  <2>2. Max(1 .. m + 1) = m + 1
    <3>1. Max(1 .. m + 1) \in 1 .. m + 1 /\ \A x \in 1 .. m + 1 : x <= Max(1 .. m + 1)
      BY <2>1, MaxOf
    <3> QED BY <3>1
  <2>3. iter[1 .. m] = v[m] /\ v[m] \in T /\ v[m + 1] = g[m + 1][v[m]]
    BY <1>0, <1>2
  <2>4. iter[1 .. m + 1] = g[m + 1][iter[1 .. m]]
    BY <2>1, <2>2, <2>3 DEF IsFold
  <2> QED BY <2>3, <2>4
<1>3. n \in S
  <2>1. \A m \in Nat : m \in S => m + 1 \in S
    BY <1>2
  <2> HIDE DEF S
  <2> QED BY <1>1, <2>1, Induction
<1> QED BY <1>3 DEF ComesTo

--------------------------------------------------------------------------------
(* Division with remainder.                                                *)
LEMMA DivMod ==
  ASSUME NEW b \in Nat \ {0}, NEW q \in Int, NEW r \in 0 .. b - 1
  PROVE  (b * q + r) \div b = q /\ (b * q + r) % b = r
OBVIOUS

LEMMA Parts ==
  ASSUME NEW b \in Nat \ {0}, NEW n \in Int
  PROVE  /\ n \div b \in Int /\ n % b \in 0 .. b - 1
         /\ n = b * (n \div b) + (n % b)
         /\ n \in Nat => n \div b \in Nat
OBVIOUS
================================================================================
