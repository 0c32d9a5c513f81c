--------------------------------- MODULE SysTick -------------------------------
(***************************************************************************)
(* Time in hal-opencm3.c (hal-mps2.c has the same code): a hardware        *)
(* counter running down, an interrupt handler that counts its periods in a *)
(* 64-bit variable, and a reader that combines the two without masking the *)
(* interrupt.  The variable is two machine words: the reader loads them    *)
(* one after the other.                                                    *)
(*                                                                         *)
(* Reader, handler and counter interleave.  What is assumed of the machine *)
(* is in the guards: an interrupt is taken after at least one tick and     *)
(* before Latency + 1 further instructions complete, and an instruction    *)
(* takes at most Stall ticks.                                              *)
(***************************************************************************)
EXTENDS Integers

CONSTANTS
  Period,    (* ticks from one reload to the next, 2^24 in the code        *)
  Base,      (* values of a machine word, 2^32 on the boards               *)
  Latency,   (* instructions that complete after the interrupt is raised   *)
  Stall      (* ticks an instruction takes at most                         *)

ASSUME SysTickAssumption ==
  /\ Period \in Nat /\ Period >= 2
  /\ Base \in Nat /\ Base >= 2
  /\ Latency \in Nat
  /\ Stall \in Nat \ {0}

(* What hal_get_time relies on, and says nowhere: a raised interrupt is    *)
(* taken before a second instruction completes, and it cannot be raised    *)
(* twice during three instructions and the entry to the handler.           *)
ASSUME TimingAssumption ==
  /\ Latency <= 1
  /\ Period >= (Latency + 4) * Stall

(* Everything is counted modulo the time the 64-bit counter takes to wrap. *)
Wrap == Period * Base * Base

VARIABLES
  ticks,     (* ticks since the counter was enabled, modulo Wrap           *)
  pending,   (* the interrupt is raised                                    *)
  since,     (* instructions completed since it was                        *)
  stall,     (* ticks since the last instruction                           *)
  lo, hi,    (* the two words of overflowcnt                               *)
  thread,    (* the thread: in hal_setup, hal_get_time or neither          *)
  blo, bhi,  (* its copy of overflowcnt: old in hal_setup, before          *)
  nlo,       (* the low word of the second read                            *)
  time,      (* the local result of hal_get_time                           *)
  sampled    (* history: ticks when the counter register was read          *)

clockVars == <<ticks, pending, since, stall, lo, hi, thread, blo, bhi, nlo, time, sampled>>

machine == <<ticks, pending, lo, hi>>

(* systick_get_value: from Period - 1 down to 0.                           *)
Value == (Period - 1) - (ticks % Period)

ClockInit ==
  /\ ticks = 0 /\ pending = FALSE /\ since = 0 /\ stall = 0
  /\ lo = 0 /\ hi = 0
  /\ thread = "setup_lo"
  /\ blo = 0 /\ bhi = 0 /\ nlo = 0 /\ time = 0 /\ sampled = 0

(***************************************************************************)
(* The hardware counter; arriving at 0 raises the interrupt.               *)
(***************************************************************************)
Tick ==
  /\ stall < Stall
  /\ ticks' = (ticks + 1) % Wrap
  /\ stall' = stall + 1
  /\ IF ticks' % Period = Period - 1
       THEN pending' = TRUE /\ since' = 0
       ELSE UNCHANGED <<pending, since>>
  /\ UNCHANGED <<lo, hi, thread, blo, bhi, nlo, time, sampled>>

(***************************************************************************)
(* sys_tick_handler: ++overflowcnt, with the carry.  Entering a handler    *)
(* takes more cycles than the counter stays at 0, which is one.            *)
(***************************************************************************)
BugHandler ==                         \* mutant: the carry is lost
  /\ pending /\ Value # 0
  /\ lo' = (lo + 1) % Base
  /\ pending' = FALSE /\ stall' = 0
  /\ UNCHANGED <<ticks, since, hi, thread, blo, bhi, nlo, time, sampled>>
Handler ==
  /\ pending /\ Value # 0
  /\ lo' = (lo + 1) % Base
  /\ hi' = IF lo = Base - 1 THEN (hi + 1) % Base ELSE hi
  /\ pending' = FALSE /\ stall' = 0
  /\ UNCHANGED <<ticks, since, thread, blo, bhi, nlo, time, sampled>>

(* One instruction of the thread, at "from".                               *)
Instruction(from, to) ==
  /\ thread = from /\ thread' = to
  /\ pending => since < Latency
  /\ since' = IF pending THEN since + 1 ELSE since
  /\ stall' = 0
  /\ UNCHANGED machine

(***************************************************************************)
(* hal_setup, its last two lines: old = overflowcnt, then spin on it.      *)
(***************************************************************************)
SetupLo == Instruction("setup_lo", "setup_hi") /\ blo' = lo
           /\ UNCHANGED <<bhi, nlo, time, sampled>>
SetupHi == Instruction("setup_hi", "spin_lo") /\ bhi' = hi
           /\ UNCHANGED <<blo, nlo, time, sampled>>
SpinLo == Instruction("spin_lo", "spin_hi") /\ nlo' = lo
          /\ UNCHANGED <<blo, bhi, time, sampled>>
BugSpinHi ==                          \* mutant: old is read again on every turn
  /\ Instruction("spin_hi", IF blo = nlo /\ bhi = hi THEN "setup_lo" ELSE "idle")
  /\ UNCHANGED <<blo, bhi, nlo, time, sampled>>
SpinHi ==
  /\ Instruction("spin_hi", IF blo = nlo /\ bhi = hi THEN "spin_lo" ELSE "idle")
  /\ UNCHANGED <<blo, bhi, nlo, time, sampled>>

(***************************************************************************)
(* hal_get_time: read overflowcnt, the register, overflowcnt again, and    *)
(* start over if it has changed.                                           *)
(***************************************************************************)
GetTime == Instruction("idle", "before_lo")
           /\ UNCHANGED <<blo, bhi, nlo, time, sampled>>
BeforeLo == Instruction("before_lo", "before_hi") /\ blo' = lo
            /\ UNCHANGED <<bhi, nlo, time, sampled>>
BeforeHi == Instruction("before_hi", "value") /\ bhi' = hi
            /\ UNCHANGED <<blo, nlo, time, sampled>>
ReadValue ==
  /\ Instruction("value", "again_lo")
  /\ time' = ((bhi * Base + blo + 1) * Period - Value) % Wrap
  /\ sampled' = ticks
  /\ UNCHANGED <<blo, bhi, nlo>>
AgainLo == Instruction("again_lo", "again_hi") /\ nlo' = lo
           /\ UNCHANGED <<blo, bhi, time, sampled>>
BugRetry ==                           \* mutant: the comparison is inverted
  /\ Instruction("again_hi", IF blo = nlo /\ bhi = hi THEN "before_lo" ELSE "idle")
  /\ UNCHANGED <<blo, bhi, nlo, time, sampled>>
BugAgainHi ==                         \* mutant: returns without comparing
  /\ Instruction("again_hi", "idle")
  /\ UNCHANGED <<blo, bhi, nlo, time, sampled>>
AgainHi ==
  /\ Instruction("again_hi", IF blo = nlo /\ bhi = hi THEN "idle" ELSE "before_lo")
  /\ UNCHANGED <<blo, bhi, nlo, time, sampled>>

Thread == \/ SetupLo \/ SetupHi \/ SpinLo \/ SpinHi
          \/ GetTime \/ BeforeLo \/ BeforeHi \/ ReadValue \/ AgainLo \/ AgainHi

ClockNext == Tick \/ Handler \/ Thread

(* The clock runs, a raised interrupt is taken, and nothing preempts the   *)
(* thread but the handler.                                                 *)
ClockSpec ==
  /\ ClockInit /\ [][ClockNext]_clockVars
  /\ WF_clockVars(Tick) /\ WF_clockVars(Handler) /\ WF_clockVars(Thread)
--------------------------------------------------------------------------------
(* overflowcnt counts the periods: it is behind by the raised interrupt    *)
(* that has not been served, and by nothing else.                          *)
Overflows == (ticks + 1) \div Period - (IF pending THEN 1 ELSE 0)
CountsPeriods == (hi * Base + lo) % (Base * Base) = Overflows % (Base * Base)

(* The value hal_get_time returns is the time at the instant it read the   *)
(* register, one tick more on every reading: no reading is a period off    *)
(* because of a wrap, a pending interrupt or a torn 64-bit load, so the    *)
(* difference of two readings is the time that passed between them.        *)
Exact == [][thread = "again_hi" /\ thread' = "idle" => time = (sampled + 1) % Wrap]_clockVars

(* The wait for the first overflow in hal_setup ends, and a reading that   *)
(* has to be repeated is not repeated for ever.                            *)
SetupEnds == <>(thread = "idle")
TimeReturns == (thread = "before_lo") ~> (thread = "idle")
================================================================================
