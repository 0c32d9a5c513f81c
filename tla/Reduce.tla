-------------------------------- MODULE Reduce --------------------------------
(***************************************************************************)
(* reduce.c: the two reductions modulo Q, in 32-bit arithmetic stored in   *)
(* 16 bits.                                                                *)
(***************************************************************************)
EXTENDS Integers

Q    == 3329
QINV == -3327

\* The conversion of an int to int16_t.
int16(v) == ((v + 32768) % 65536) - 32768

montgomery_reduce(v) ==
  LET t == int16(int16(v) * QINV) IN int16((v - t * Q) \div 65536)

BugBarrett(v) == v        \* mutant: not reduced
barrett_reduce(v) ==
  LET t == (20159 * v + 33554432) \div 67108864 IN int16(v - int16(t * Q))
================================================================================
