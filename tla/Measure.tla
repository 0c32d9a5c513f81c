--------------------------------- MODULE Measure --------------------------------
(***************************************************************************)
(* stack.c and speed.c: the three functions of the KEM are measured one    *)
(* after the other, and what was measured is sent as decimal numbers.      *)
(*                                                                         *)
(* stack.c sprays the free stack with a pattern, calls the function, and   *)
(* looks how far up from the bottom the pattern has survived.  The loops   *)
(* are in assembler in hal-opencm3.c, hal-mps2.c and hal-esp-idf.c, all    *)
(* the same but for the bottom: heap_end, or stack_bottom on the ESP32.    *)
(* Meanwhile SysTick goes on interrupting, and its frames lie below the    *)
(* stack pointer of whatever it interrupts.                                *)
(*                                                                         *)
(* speed.c takes the time of NTESTS calls of each and sends the medians.   *)
(* Here a call takes as long as it likes; SysTick is about the clock.      *)
(***************************************************************************)
EXTENDS SequencesExt, Integers

CONSTANTS
  Top,        (* the stack pointer of test_keys, in words                  *)
  Bottom,     (* heap_end; below lies data                                 *)
  Frame,      (* words of an interrupt's frame                             *)
  Interrupts, (* bound on interrupts in one measurement                    *)
  Pushes,     (* bound on words a measured function pushes, in all         *)
  NTESTS,     (* calls speed.c measures                                    *)
  Durations,  (* what they may take                                        *)
  Long, Cut   (* values of a uint64_t and of an int                        *)

ASSUME MeasureAssumption ==
  /\ {Bottom, Frame, Interrupts, Pushes} \subseteq Nat
  /\ Top \in Nat /\ Bottom < Top
  /\ {NTESTS, Long, Cut} \subseteq Nat \ {0} /\ Durations \subseteq 0 .. Long - 1
  /\ Long % Cut = 0 /\ Cut % 2 = 0
  /\ \A a, b \in Durations : a - b < Cut \div 2   \* speed.c:13 cuts to an int

Words == 0 .. Top - 1

VARIABLES
  prog,       (* "stack" or "speed"                                        *)
  pc,
  op,         (* function being measured: 1 keypair, 2 enc, 3 dec          *)
  mem,        (* words that hold the pattern                               *)
  sp,         (* the stack pointer; test_keys has Top                      *)
  ptr,        (* _heap_end or heap_end as the loops advance it             *)
  result,     (* words hal_checkstack still believes used                  *)
  deep,       (* history: lowest word in use since spraying began          *)
  written,    (* history: lowest above Bottom the function has written      *)
  irqs,       (* interrupts since                                          *)
  pushes,     (* words pushed since                                        *)
  t,          (* what hal_get_time returns                                 *)
  t0,
  cycles,     (* cycles_kg, cycles_enc and cycles_dec                      *)
  took,       (* history: what the calls really took                       *)
  numbers,    (* stack_key_gen ..., or the medians: what is to be sent     *)
  agree,      (* memcmp found the shared secrets equal                     *)
  c, outs,    (* the number being converted, and its digits so far         *)
  sent        (* the numbers sent, as digits                               *)

stack == <<mem, sp, ptr, result, deep, written, irqs, pushes>>
speed == <<t, t0, cycles, took>>
out   == <<c, outs, sent>>
vars  == <<prog, pc, op, stack, speed, numbers, agree, out>>

Init ==
  /\ prog \in {"stack", "speed"} /\ op = 1
  /\ pc = IF prog = "stack" THEN "spray_call" ELSE "time"
  /\ mem = {} /\ sp = Top /\ ptr = 0 /\ result = 0
  /\ deep = Top /\ written = Top /\ irqs = 0 /\ pushes = 0
  /\ t = Long - 1 /\ t0 = 0
  /\ cycles = <<<<>>, <<>>, <<>>>> /\ took = <<<<>>, <<>>, <<>>>>
  /\ numbers = <<>> /\ agree = TRUE
  /\ c = 0 /\ outs = <<>> /\ sent = <<>>

Lowest(a, b) == IF a < b THEN a ELSE b

--------------------------------------------------------------------------------
(* stack.c *)

hal_spraystack ==
  /\ pc = "spray_call" /\ pc' = "spray"
  /\ ptr' = Bottom
  /\ deep' = Top /\ written' = Top /\ irqs' = 0 /\ pushes' = 0
  /\ UNCHANGED <<prog, op, mem, sp, result, speed, numbers, agree, out>>

(* One turn of its loop; last_sp is Top.                                   *)
SprayWord ==
  /\ pc = "spray"
  /\ mem' = mem \cup {ptr} /\ ptr' = ptr + 1
  /\ pc' = IF ptr + 1 < Top THEN "spray" ELSE "function"
  /\ UNCHANGED <<prog, op, sp, result, deep, written, irqs, pushes, speed, numbers, agree, out>>

(* The function under measurement uses one word more and writes it, leaves *)
(* it as it is, or drops what it has pushed last.                          *)
Push(writes) ==
  /\ pc = "function" /\ sp > 0 /\ pushes < Pushes
  /\ sp' = sp - 1 /\ pushes' = pushes + 1
  /\ deep' = Lowest(deep, sp - 1)
  /\ IF writes
       THEN /\ mem' = mem \ {sp - 1}
            /\ written' = IF sp > Bottom THEN Lowest(written, sp - 1) ELSE written
       ELSE UNCHANGED <<mem, written>>
  /\ UNCHANGED <<prog, pc, op, ptr, result, irqs, speed, numbers, agree, out>>
Pop ==
  /\ pc = "function" /\ sp < Top
  /\ \E up \in sp + 1 .. Top : sp' = up
  /\ UNCHANGED <<prog, pc, op, mem, ptr, result, deep, written, irqs, pushes, speed, numbers, agree, out>>

(* Frame and handler of an interrupt, at any time.                         *)
Interrupt ==
  /\ pc \in {"spray", "function", "check"} /\ irqs < Interrupts /\ sp >= Frame
  /\ mem' = mem \ (sp - Frame .. sp - 1)
  /\ deep' = Lowest(deep, sp - Frame)
  /\ irqs' = irqs + 1
  /\ UNCHANGED <<prog, pc, op, sp, ptr, result, written, pushes, speed, numbers, agree, out>>

hal_checkstack ==
  /\ pc = "function" /\ sp = Top
  /\ pc' = "check" /\ ptr' = Bottom /\ result' = Top - Bottom
  /\ UNCHANGED <<prog, op, mem, sp, deep, written, irqs, pushes, speed, numbers, agree, out>>

(* One turn of its loop.                                                   *)
BugCheckWord ==                       \* mutant: the loop looks at every word
  /\ pc = "check"
  /\ ptr' = ptr + 1
  /\ result' = IF ptr \in mem THEN result - 1 ELSE result
  /\ pc' = IF ptr + 1 < Top THEN "check" ELSE "checked"
  /\ UNCHANGED <<prog, op, mem, sp, deep, written, irqs, pushes, speed, numbers, agree, out>>
CheckWord ==
  /\ pc = "check"
  /\ ptr' = ptr + 1
  /\ result' = IF ptr \in mem THEN result - 1 ELSE result
  /\ pc' = IF ptr \in mem /\ ptr + 1 < Top THEN "check" ELSE "checked"
  /\ UNCHANGED <<prog, op, mem, sp, deep, written, irqs, pushes, speed, numbers, agree, out>>

(* The size is in bytes.  After the third, the shared secrets are compared *)
(* and test_keys returns without a word if they differ.                    *)
Checked ==
  /\ pc = "checked"
  /\ numbers' = Append(numbers, 4 * result)
  /\ IF op < 3
       THEN op' = op + 1 /\ pc' = "spray_call" /\ UNCHANGED agree
       ELSE agree' \in BOOLEAN /\ pc' = (IF agree' THEN "send" ELSE "done") /\ UNCHANGED op
  /\ UNCHANGED <<prog, stack, speed, out>>

--------------------------------------------------------------------------------
(* speed.c *)

TimeBefore ==
  /\ pc = "time" /\ pc' = "call"
  /\ t0' = t
  /\ UNCHANGED <<prog, op, stack, t, cycles, took, numbers, agree, out>>

Call(d) ==
  /\ pc = "call" /\ pc' = "after"
  /\ t' = (t + d) % Long /\ took' = [took EXCEPT ![op] = Append(@, d)]
  /\ UNCHANGED <<prog, op, stack, t0, cycles, numbers, agree, out>>

TimeAfter ==
  /\ pc = "after"
  /\ cycles' = [cycles EXCEPT ![op] = Append(@, (t - t0) % Long)]
  /\ IF Len(cycles'[op]) < NTESTS THEN pc' = "time" /\ UNCHANGED op
     ELSE IF op < 3 THEN pc' = "time" /\ op' = op + 1
     ELSE pc' = "median" /\ UNCHANGED op
  /\ UNCHANGED <<prog, stack, t, t0, took, numbers, agree, out>>

(* The difference is a uint64_t, returned as an int.                       *)
BugCmp(a, b) == (a - b) % Long        \* mutant: compared without its sign
cmp_uint64_t(a, b) ==
  LET int == ((a - b) % Long) % Cut IN IF int < Cut \div 2 THEN int ELSE int - Cut

(* What qsort may return: the same elements, arranged so that none         *)
(* compares below one before it.                                           *)
Arrangements(s) == {[i \in DOMAIN s |-> s[p[i]]] : p \in Bijection(DOMAIN s, DOMAIN s)}
qsort(s) ==
  {u \in Arrangements(s) :
     \A i, j \in DOMAIN s : i < j => ~ (cmp_uint64_t(u[j], u[i]) < 0)}

(* The element in the middle.  The shared secrets may differ: that is      *)
(* said, and the numbers are sent all the same.                            *)
Median(s) == {u[(NTESTS \div 2) + 1] : u \in qsort(s)}
Medians ==
  /\ pc = "median" /\ pc' = "send"
  /\ numbers' \in Median(cycles[1]) \X Median(cycles[2]) \X Median(cycles[3])
  /\ agree' \in BOOLEAN
  /\ UNCHANGED <<prog, op, stack, speed, out>>

--------------------------------------------------------------------------------
(* sendfn.h: send_unsigned for stack.c, send_unsignedll for speed.c        *)

(* The digits are written from the last to the first, each in front of the *)
(* others; a number below 10 is one digit.                                 *)
SendNumber ==
  /\ pc = "send" /\ Len(sent) < Len(numbers)
  /\ LET n == numbers[Len(sent) + 1]
     IN IF n < 10 THEN c' = 0 /\ outs' = <<n>> ELSE c' = n /\ outs' = <<>>
  /\ pc' = "digits"
  /\ UNCHANGED <<prog, op, stack, speed, numbers, agree, sent>>

(* Division by 10 as a sum of shifts, up to one too small; the remainder   *)
(* tells.                                                                  *)
Tenth ==
  LET q1 == c \div 2 + c \div 4
      q2 == q1 + q1 \div 2^4
      q3 == q2 + q2 \div 2^8
      q4 == q3 + q3 \div 2^16
      q5 == q4 + (q4 \div 2^16) \div 2^16
  IN q5 \div 8

DigitOfUnsigned ==
  /\ prog = "stack"
  /\ c' = c \div 10 /\ outs' = <<c % 10>> \o outs

BugDigitOfUnsignedLL ==               \* mutant: the quotient is not corrected
  /\ prog = "speed"
  /\ LET r == c - 10 * Tenth
     IN c' = Tenth /\ outs' = <<r % 10>> \o outs
DigitOfUnsignedLL ==
  /\ prog = "speed"
  /\ LET r == c - 10 * Tenth
     IN IF r > 9 THEN c' = Tenth + 1 /\ outs' = <<r - 10>> \o outs
                 ELSE c' = Tenth /\ outs' = <<r>> \o outs

Digit ==
  /\ pc = "digits" /\ c # 0
  /\ DigitOfUnsigned \/ DigitOfUnsignedLL
  /\ UNCHANGED <<prog, pc, op, stack, speed, numbers, agree, sent>>

Sent ==
  /\ pc = "digits" /\ c = 0
  /\ sent' = Append(sent, outs)
  /\ pc' = IF Len(sent') < Len(numbers) THEN "send" ELSE "done"
  /\ UNCHANGED <<prog, op, stack, speed, numbers, agree, c, outs>>

Done == pc = "done" /\ UNCHANGED vars

Next ==
  \/ hal_spraystack \/ SprayWord \/ (\E w \in BOOLEAN : Push(w)) \/ Pop
  \/ Interrupt \/ hal_checkstack \/ CheckWord \/ Checked
  \/ TimeBefore \/ (\E d \in Durations : Call(d)) \/ TimeAfter \/ Medians
  \/ SendNumber \/ Digit \/ Sent \/ Done

Spec == Init /\ [][Next]_vars

--------------------------------------------------------------------------------
(* Properties *)

(* The stack measured is at most what was in use since spraying began,     *)
(* interrupts included, so nothing an earlier and deeper call has left is  *)
(* counted; and it is at least what the function has written of the free   *)
(* stack, however many words it has left out in between and wherever the   *)
(* interrupts came.                                                        *)
StackIsMeasured ==
  pc = "checked" => result <= Top - deep /\ result >= Top - written

(* The numbers of speed.c are medians of the times the calls took: not     *)
(* more than half of them took less, and more than half took no more, even *)
(* where the clock has wrapped and although the comparison loses the upper *)
(* half of the difference.                                                 *)
MedianIsRight ==
  (prog = "speed" /\ numbers # <<>>) =>
    \A i \in 1 .. 3 :
      LET below == {j \in 1 .. NTESTS : took[i][j] < numbers[i]}
          upto  == {j \in 1 .. NTESTS : took[i][j] <= numbers[i]}
      IN Cardinality(below) <= NTESTS \div 2 /\ Cardinality(upto) > NTESTS \div 2

(* What is sent reads as the number measured, with no zero in front: the   *)
(* division by shifts is exact once corrected.                             *)
Reading(digits) == FoldLeft(LAMBDA n, d : 10 * n + d, 0, digits)
ReadsBack ==
  \A i \in 1 .. Len(sent) :
    /\ Reading(sent[i]) = numbers[i]
    /\ Len(sent[i]) > 1 => sent[i][1] # 0
    /\ \A j \in 1 .. Len(sent[i]) : sent[i][j] \in 0 .. 9
================================================================================
