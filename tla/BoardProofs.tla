------------------------------ MODULE BoardProofs ------------------------------
(***************************************************************************)
(* The time and the measurements of the boards, SysTick and Measure.       *)
(*                                                                         *)
(* SysTick, for every period, every width of a machine word and every      *)
(* speed of the machine within TimingAssumption: no period is lost or      *)
(* counted twice, and no reading is off.                                   *)
(*                                                                         *)
(* Measure, for every stack, every frame, every number of interrupts and   *)
(* of calls: hal_checkstack is wrong in neither direction, the medians are *)
(* medians, and the digits sent read as the numbers measured.              *)
(***************************************************************************)
EXTENDS SysTick, Measure, InductionLemmas, FiniteSetTheorems

--------------------------------------------------------------------------------
(* SysTick: the invariant                                                  *)
(* The periods that are over, and the ticks since the last one was.        *)
Count   == (ticks + 1) \div Period
SinceReload == (ticks + 1) % Period

Raised == IF pending THEN 1 ELSE 0
Turns  == Base * Base

(* overflowcnt, and what hal_get_time made of it.                          *)
Counter == hi * Base + lo
Copy    == bhi * Base + blo

TypeOK ==
  /\ ticks \in 0 .. Wrap - 1 /\ sampled \in 0 .. Wrap - 1
  /\ pending \in BOOLEAN
  /\ since \in 0 .. Latency /\ stall \in 0 .. Stall
  /\ lo \in 0 .. Base - 1 /\ hi \in 0 .. Base - 1

(* The counter is behind by the raised interrupt, up to a wrap of its own  *)
(* or of the clock.                                                        *)
Behind == Counter - (Count - Raised) \in {- Turns, 0, Turns}

(* A raised interrupt waits for as many instructions as since says.        *)
Prompt == /\ pending => SinceReload < since * Stall + stall
          /\ SinceReload = 0 => pending

(* Instructions completed since BeforeLo.                                  *)
Completed == CASE thread = "before_hi" -> 0
          [] thread = "value"     -> 1
          [] OTHER            -> 2

(* Between the two loads of the low word the handler runs once at most,    *)
(* and when it has, the low word says so.                                  *)
Window ==
  thread \in {"before_hi", "value", "again_lo"} /\ lo # blo
    => ~ pending /\ SinceReload < (Latency + 1 + Completed) * Stall + stall

Right == time = (sampled + 1) % Wrap

(* A copy whose low word is still good is good, and so is the time made of *)
(* it, unless the interrupt was pending then: in that case it will have    *)
(* been served before the low word is read again.                          *)
GoodCopies ==
  /\ thread \in {"value", "again_lo"} /\ lo = blo => bhi = hi
  /\ thread = "again_lo" /\ lo = blo => Right \/ (pending /\ since = Latency)
  /\ thread = "again_hi" /\ nlo = blo => Right

ClockInv == TypeOK /\ Behind /\ Prompt /\ Window /\ GoodCopies
--------------------------------------------------------------------------------
(* Arithmetic of the clock and of the two words.                           *)

LEMMA Constants ==
  /\ Period \in Nat /\ Period >= 2 /\ Base \in Nat /\ Base >= 2
  /\ Turns \in Nat /\ Turns >= 4 /\ Wrap = Period * Turns /\ Wrap \in Nat
  /\ Wrap >= 8
<1>1. Period \in Nat /\ Period >= 2 /\ Base \in Nat /\ Base >= 2
  BY SysTickAssumption
<1>2. Turns \in Nat /\ Turns >= 4
  BY <1>1, Z3 DEF Turns
<1>3. Wrap = Period * Turns
  BY <1>1, Z3 DEF Wrap, Turns
<1>4. Wrap \in Nat /\ Wrap >= 8
  <2> HIDE DEF Turns
  <2> QED BY <1>1, <1>2, <1>3, Z3
<1> QED BY <1>1, <1>2, <1>3, <1>4

(* Time in periods and ticks.                                              *)
LEMMA Split ==
  ASSUME NEW n \in Nat
  PROVE  /\ n \div Period \in Nat /\ n % Period \in 0 .. Period - 1
         /\ n = Period * (n \div Period) + (n % Period)
BY Constants

LEMMA Unique ==
  ASSUME NEW k \in Int, NEW e \in 0 .. Period - 1
  PROVE  (Period * k + e) \div Period = k /\ (Period * k + e) % Period = e
BY Constants, Z3

LEMMA Wraps ==
  ASSUME NEW x \in Int, NEW m \in Nat, m > 0, NEW j \in {- 1, 0, 1}
  PROVE  (x + j * m) % m = x % m
<1>1. PICK q \in Int, r \in 0 .. m - 1 : x = m * q + r
  <2>1. x \div m \in Int /\ x % m \in 0 .. m - 1 /\ x = m * (x \div m) + (x % m)
    OBVIOUS
  <2> QED BY <2>1
<1>2. x % m = r
  BY <1>1, Z3
<1>3. x + j * m = m * (q + j) + r /\ q + j \in Int
  BY <1>1, Z3
<1>4. (m * (q + j) + r) % m = r
  <2> DEFINE k == q + j
  <2>1. k \in Int
    BY <1>3
  <2> HIDE DEF k
  <2>2. (m * k + r) % m = r
    BY <2>1, Z3
  <2> QED BY <2>2 DEF k
<1> QED BY <1>2, <1>3, <1>4

(* One more tick.                                                          *)
LEMMA OneMore ==
  ASSUME NEW n \in Nat
  PROVE  /\ n % Period = Period - 1
              => (n + 1) \div Period = n \div Period + 1 /\ (n + 1) % Period = 0
         /\ n % Period # Period - 1
              => /\ (n + 1) \div Period = n \div Period
                 /\ (n + 1) % Period = (n % Period) + 1
<1> DEFINE k == n \div Period
           e == n % Period
<1>1. k \in Nat /\ e \in 0 .. Period - 1 /\ n = Period * k + e
  BY Split
<1>2. CASE e = Period - 1
  <2>1. n + 1 = Period * (k + 1) + 0
    <3>1. Period * (k + 1) = Period * k + Period
      BY <1>1, Constants, Z3
    <3> HIDE DEF k, e
    <3> QED BY <1>1, <1>2, <3>1, Constants
  <2>2. 0 \in 0 .. Period - 1 /\ k + 1 \in Int
    BY <1>1, Constants
  <2> HIDE DEF k, e
  <2>3. (n + 1) \div Period = k + 1 /\ (n + 1) % Period = 0
    BY <2>1, <2>2, Unique
  <2> QED BY <1>2, <2>3 DEF k, e
<1>3. CASE e # Period - 1
  <2>1. n + 1 = Period * k + (e + 1) /\ e + 1 \in 0 .. Period - 1 /\ k \in Int
    <3>1. Period * k \in Nat
      BY <1>1, Constants, Z3
    <3> HIDE DEF k, e
    <3> QED BY <1>1, <1>3, <3>1, Constants
  <2> HIDE DEF k, e
  <2>2. (n + 1) \div Period = k /\ (n + 1) % Period = e + 1
    BY <2>1, Unique
  <2> QED BY <1>3, <2>2 DEF k, e
<1> QED BY <1>2, <1>3

LEMMA ClockType ==
  ASSUME ticks \in 0 .. Wrap - 1
  PROVE  /\ SinceReload \in 0 .. Period - 1 /\ Count \in 0 .. Turns
         /\ ticks % Period \in 0 .. Period - 1 /\ ticks \div Period \in Nat
         /\ ticks = Period * (ticks \div Period) + (ticks % Period)
<1>1. ticks \in Nat /\ ticks + 1 \in Nat /\ ticks + 1 <= Wrap
  BY Constants
<1>2. /\ SinceReload \in 0 .. Period - 1 /\ Count \in Nat
      /\ ticks + 1 = Period * Count + SinceReload
  BY <1>1, Split DEF SinceReload, Count
<1>3. Count <= Turns
  <2>1. Period * Count <= Period * Turns
    <3>1. Period * Count \in Nat
      BY <1>2, Constants, Z3
    <3> QED BY <1>1, <1>2, <3>1, Constants
  <2> QED BY <1>2, <2>1, Constants, Z3
<1> QED BY <1>1, <1>2, <1>3, Split, Constants

(* The counter shows 0 at the last tick of a period.                       *)
LEMMA ValueZero ==
  ASSUME ticks \in 0 .. Wrap - 1
  PROVE  /\ Value = 0 <=> SinceReload = 0
         /\ SinceReload = 0 => ticks \div Period = Count - 1
         /\ SinceReload # 0 => ticks \div Period = Count
<1>1. ticks \in Nat
  BY Constants
<1>2. Value = 0 <=> ticks % Period = Period - 1
  BY ClockType, Constants DEF Value
<1>3. ticks \div Period \in Nat /\ ticks % Period \in 0 .. Period - 1
  BY ClockType
<1>4. (ticks % Period) + 1 # 0
  BY <1>3, Constants
<1>5. /\ ticks % Period = Period - 1 => Count = (ticks \div Period) + 1 /\ SinceReload = 0
      /\ ticks % Period # Period - 1 => Count = ticks \div Period /\ SinceReload = (ticks % Period) + 1
  BY <1>1, OneMore DEF Count, SinceReload
<1> HIDE DEF Count, SinceReload, Value
<1> QED BY <1>2, <1>3, <1>4, <1>5

(* A tick of the clock: a period is over when SinceReload starts again.    *)
LEMMA ClockTick ==
  ASSUME ticks \in 0 .. Wrap - 1, ticks' = (ticks + 1) % Wrap
  PROVE  /\ ticks' \in 0 .. Wrap - 1
         /\ ticks' % Period = Period - 1 <=> SinceReload = Period - 1
         /\ SinceReload = Period - 1 => SinceReload' = 0 /\ Count' = Count + 1
         /\ SinceReload # Period - 1
              => /\ SinceReload' = SinceReload + 1
                 /\ Count' = Count \/ (Count = Turns /\ Count' = 0)
<1>1. ticks \in Nat /\ ticks + 1 \in Nat
  BY Constants
<1>2. CASE ticks + 1 < Wrap
  <2>1. ticks' = ticks + 1
    BY <1>1, <1>2, Constants
  <2>2. SinceReload' = (ticks + 1 + 1) % Period /\ Count' = (ticks + 1 + 1) \div Period
    BY <2>1 DEF SinceReload, Count
  <2>3. /\ SinceReload = Period - 1 => SinceReload' = 0 /\ Count' = Count + 1
        /\ SinceReload # Period - 1 => SinceReload' = SinceReload + 1 /\ Count' = Count
    BY <1>1, <2>2, OneMore DEF SinceReload, Count
  <2>4. ticks' % Period = SinceReload
    BY <2>1 DEF SinceReload
  <2> QED BY <1>1, <1>2, <2>1, <2>3, <2>4, Constants
<1>3. CASE ticks + 1 = Wrap
  <2>1. ticks' = 0
    BY <1>3, Constants
  <2>2. /\ Wrap = Period * Turns + 0
        /\ 0 = Period * 0 + 0
        /\ 1 = Period * 0 + 1
    BY Constants, Z3
  <2>3. 0 \in 0 .. Period - 1 /\ 1 \in 0 .. Period - 1 /\ Turns \in Int /\ 0 \in Int
    BY Constants
  <2>4. Wrap \div Period = Turns /\ Wrap % Period = 0
    BY <2>2, <2>3, Unique
  <2>5. 0 % Period = 0
    BY Constants, Z3
  <2>6. 1 \div Period = 0 /\ 1 % Period = 1
    BY Constants, Z3
  <2>7. SinceReload = 0 /\ Count = Turns /\ SinceReload' = 1 /\ Count' = 0
    <3>1. ticks' + 1 = 1
      BY <2>1
    <3> QED BY <1>3, <2>4, <2>6, <3>1 DEF SinceReload, Count
  <2>8. ticks' % Period = 0 /\ 0 # Period - 1
    BY <2>1, <2>5, Constants
  <2> QED BY <2>1, <2>7, <2>8, Constants
<1> QED BY <1>1, <1>2, <1>3, Constants

(* The two words as one number.                                            *)
LEMMA TwoWords ==
  ASSUME NEW l \in 0 .. Base - 1, NEW h \in 0 .. Base - 1
  PROVE  h * Base + l \in 0 .. Turns - 1
<1>1. h * Base <= (Base - 1) * Base /\ h * Base \in Nat
  BY Constants, Z3
<1>2. (Base - 1) * Base = Turns - Base
  BY Constants, Z3 DEF Turns
<1> QED BY <1>1, <1>2, Constants

(* The handler adds one.                                                   *)
LEMMA Carries ==
  ASSUME NEW l \in 0 .. Base - 1, NEW h \in 0 .. Base - 1
  PROVE  LET l2 == (l + 1) % Base
             h2 == IF l = Base - 1 THEN (h + 1) % Base ELSE h
         IN  /\ l2 \in 0 .. Base - 1 /\ h2 \in 0 .. Base - 1 /\ l2 # l
             /\ \/ h2 * Base + l2 = h * Base + l + 1
                \/ h2 * Base + l2 = h * Base + l + 1 - Turns
<1> DEFINE l2 == (l + 1) % Base
           h2 == IF l = Base - 1 THEN (h + 1) % Base ELSE h
<1>1. CASE l # Base - 1
  <2>1. l2 = l + 1 /\ h2 = h
    BY <1>1, Constants
  <2>2. h * Base \in Int
    BY Constants
  <2> QED BY <1>1, <2>1, <2>2, Constants
<1>2. CASE l = Base - 1
  <2>1. l2 = 0
    BY <1>2, Constants
  <2>2. CASE h = Base - 1
    <3>1. h2 = 0
      BY <1>2, <2>2, Constants
    <3>2. (Base - 1) * Base = Turns - Base /\ 0 * Base = 0
      BY Constants, Z3 DEF Turns
    <3>3. h * Base + l + 1 - Turns = 0
      BY <1>2, <2>2, <3>2, Constants
    <3> HIDE DEF l2, h2
    <3>4. h2 * Base + l2 = 0
      BY <2>1, <3>1, <3>2
    <3> QED BY <1>2, <2>1, <3>1, <3>3, <3>4, Constants DEF l2, h2
  <2>3. CASE h # Base - 1
    <3>1. h2 = h + 1
      BY <1>2, <2>3, Constants
    <3>2. (h + 1) * Base = h * Base + Base /\ h * Base \in Int
      BY Constants, Z3
    <3> HIDE DEF l2, h2
    <3>3. h2 * Base + l2 = h * Base + l + 1
      BY <1>2, <2>1, <3>1, <3>2, Constants
    <3> QED BY <1>2, <2>1, <2>3, <3>1, <3>3, Constants DEF l2, h2
  <2> QED BY <2>2, <2>3
<1> QED BY <1>1, <1>2

(* How long an interrupt can wait, and how long the three instructions     *)
(* behind BeforeLo can take after it has been served: less than a period.  *)
LEMMA Waits ==
  ASSUME NEW n \in 0 .. Latency + 3, NEW d \in 0 .. Stall, NEW e \in Nat,
         e < n * Stall + d
  PROVE  e < (n + 1) * Stall /\ e < Period /\ n * Stall \in Nat
<1>1. Latency \in Nat /\ Stall \in Nat /\ Stall > 0
  BY SysTickAssumption
<1>2. n * Stall \in Nat /\ (n + 1) * Stall = n * Stall + Stall
  BY <1>1, Z3
<1>3. (n + 1) * Stall <= (Latency + 4) * Stall
  BY <1>1, Z3
<1>4. (Latency + 4) * Stall \in Nat /\ Period \in Nat /\ Period >= (Latency + 4) * Stall
  BY <1>1, TimingAssumption, Constants, Z3
<1> QED BY <1>1, <1>2, <1>3, <1>4

--------------------------------------------------------------------------------
LEMMA InitClockInv == ClockInit => ClockInv
<1> SUFFICES ASSUME ClockInit PROVE ClockInv
  OBVIOUS
<1>1. TypeOK
  <2>1. /\ 0 \in 0 .. Wrap - 1 /\ 0 \in 0 .. Base - 1
        /\ 0 \in 0 .. Latency /\ 0 \in 0 .. Stall
    BY SysTickAssumption, Constants
  <2> QED BY <2>1 DEF ClockInit, TypeOK
<1>2. SinceReload = 1 /\ Count = 0
  <2>1. 1 \div Period = 0 /\ 1 % Period = 1 /\ ticks + 1 = 1
    BY Constants, Z3 DEF ClockInit
  <2> QED BY <2>1 DEF SinceReload, Count
<1>3. Counter = 0 /\ Raised = 0
  <2>1. 0 * Base + 0 = 0
    BY Constants
  <2> QED BY <2>1 DEF ClockInit, Counter, Raised
<1>4. Behind
  BY <1>2, <1>3 DEF Behind
<1> QED BY <1>1, <1>2, <1>4 DEF ClockInit, ClockInv, Prompt, Window, GoodCopies

(* Any instruction of the thread leaves the machine alone, and a raised    *)
(* interrupt has waited for one more.                                      *)
LEMMA InstructionKeeps ==
  ASSUME ClockInv, NEW from, NEW to, Instruction(from, to)
  PROVE  /\ (pending \in BOOLEAN /\ since \in 0 .. Latency /\ stall \in 0 .. Stall)'
         /\ (ticks \in 0 .. Wrap - 1 /\ lo \in 0 .. Base - 1 /\ hi \in 0 .. Base - 1)'
         /\ Behind' /\ Prompt'
         /\ pending => since' = Latency
<1>0. Latency \in Nat /\ Latency <= 1 /\ Stall \in Nat
  BY SysTickAssumption, TimingAssumption
<1>1. TypeOK /\ Behind /\ Prompt
  BY DEF ClockInv
<1>2. ticks' = ticks /\ pending' = pending /\ lo' = lo /\ hi' = hi /\ stall' = 0
  BY DEF Instruction, machine
<1>3. SinceReload' = SinceReload /\ Count' = Count /\ Counter' = Counter /\ Raised' = Raised
  BY <1>2 DEF SinceReload, Count, Counter, Raised
<1>4. since' \in 0 .. Latency /\ (pending => since' = since + 1 /\ since' = Latency)
  BY <1>0, <1>1 DEF TypeOK, Instruction
<1>5. Prompt'
  <2>1. ASSUME pending PROVE SinceReload < since' * Stall + 0
    <3>1. SinceReload \in Nat
      BY <1>1, ClockType, Constants DEF TypeOK
    <3>2. since \in 0 .. Latency + 3 /\ stall \in 0 .. Stall /\ SinceReload < since * Stall + stall
      BY <1>0, <1>1, <2>1 DEF TypeOK, Prompt
    <3>3. SinceReload < (since + 1) * Stall
      BY <3>1, <3>2, Waits
    <3>4. since' = since + 1 /\ since' * Stall \in Nat
      BY <1>0, <1>4, <2>1, Z3
    <3> QED BY <3>3, <3>4
  <2>2. SinceReload = 0 => pending
    BY <1>1 DEF Prompt
  <2> QED BY <1>2, <1>3, <2>1, <2>2 DEF Prompt
<1> QED BY <1>0, <1>1, <1>2, <1>3, <1>4, <1>5 DEF TypeOK, Behind

LEMMA TickIInv == ASSUME ClockInv, Tick PROVE ClockInv'
<1>0. Latency \in Nat /\ Latency <= 1 /\ Stall \in Nat
  BY SysTickAssumption, TimingAssumption
<1>1. TypeOK /\ Behind /\ Prompt /\ Window /\ GoodCopies
  BY DEF ClockInv
<1>2. ticks \in 0 .. Wrap - 1 /\ ticks' = (ticks + 1) % Wrap
  BY <1>1 DEF TypeOK, Tick
<1>3. /\ ticks' \in 0 .. Wrap - 1
      /\ ticks' % Period = Period - 1 <=> SinceReload = Period - 1
      /\ SinceReload = Period - 1 => SinceReload' = 0 /\ Count' = Count + 1
      /\ SinceReload # Period - 1
           => /\ SinceReload' = SinceReload + 1
              /\ Count' = Count \/ (Count = Turns /\ Count' = 0)
  BY <1>2, ClockTick
<1>4. SinceReload \in 0 .. Period - 1 /\ Count \in 0 .. Turns
  BY <1>2, ClockType
<1>5. stall' = stall + 1 /\ stall' \in 0 .. Stall /\ stall \in 0 .. Stall /\ stall < Stall
  BY <1>0, <1>1 DEF TypeOK, Tick
<1>6. Counter' = Counter /\ Counter \in 0 .. Turns - 1
  BY <1>1, TwoWords DEF TypeOK, Tick, Counter
(* What has waited for less than a period after n instructions has done so *)
(* after a tick.                                                           *)
<1>7. ASSUME NEW n \in 0 .. Latency + 3, SinceReload < n * Stall + stall
      PROVE  SinceReload # Period - 1 /\ SinceReload' < n * Stall + stall'
  <2>1. SinceReload + 1 < n * Stall + (stall + 1) /\ n * Stall \in Nat
    BY <1>0, <1>4, <1>5, <1>7, Constants, Z3
  <2>2. SinceReload + 1 \in Nat /\ stall + 1 \in 0 .. Stall
    BY <1>4, <1>5
  <2>3. SinceReload + 1 < Period
    BY <2>1, <2>2, Waits
  <2> QED BY <1>3, <1>4, <1>5, <2>1, <2>3, Constants
<1>8. pending => SinceReload # Period - 1
  <2>1. since \in 0 .. Latency + 3
    BY <1>0, <1>1 DEF TypeOK
  <2> QED BY <1>1, <1>7, <2>1 DEF Prompt
<1>9. UNCHANGED <<lo, hi, thread, blo, bhi, nlo, time, sampled>>
  BY DEF Tick
<1>10. CASE SinceReload = Period - 1
  <2>1. ~ pending /\ pending' = TRUE /\ since' = 0 /\ SinceReload' = 0 /\ Count' = Count + 1
    BY <1>1, <1>3, <1>8, <1>10 DEF Tick, TypeOK
  <2>2. TypeOK'
    BY <1>0, <1>1, <1>3, <1>5, <1>9, <2>1 DEF TypeOK
  <2>3. Behind'
    BY <1>1, <1>4, <1>6, <2>1, Constants DEF Behind, Raised
  <2>4. Prompt'
    <3>1. 0 < 0 * Stall + stall'
      BY <1>0, <1>5
    <3> QED BY <2>1, <3>1 DEF Prompt
  <2>5. Window'
    <3>1. ASSUME thread \in {"before_hi", "value", "again_lo"}, lo # blo PROVE FALSE
      <4>1. SinceReload < (Latency + 1 + Completed) * Stall + stall
        BY <1>1, <3>1 DEF Window
      <4>2. Latency + 1 + Completed \in 0 .. Latency + 3
        BY <1>0 DEF Completed
      <4> QED BY <1>7, <1>10, <4>1, <4>2
    <3> QED BY <1>9, <3>1 DEF Window
  <2>6. GoodCopies'
    BY <1>1, <1>9, <2>1 DEF GoodCopies, Right
  <2> QED BY <2>2, <2>3, <2>4, <2>5, <2>6 DEF ClockInv
<1>11. CASE SinceReload # Period - 1
  <2>1. /\ UNCHANGED <<pending, since>> /\ SinceReload' = SinceReload + 1
        /\ Count' = Count \/ (Count = Turns /\ Count' = 0)
    BY <1>3, <1>11 DEF Tick
  <2>2. TypeOK'
    BY <1>1, <1>3, <1>5, <1>9, <2>1 DEF TypeOK
  <2>3. Behind'
    BY <1>1, <1>4, <1>6, <2>1, Constants DEF Behind, Raised
  <2>4. Prompt'
    <3>1. since \in 0 .. Latency + 3
      BY <1>0, <1>1 DEF TypeOK
    <3>2. pending => SinceReload' < since * Stall + stall'
      BY <1>1, <1>7, <3>1 DEF Prompt
    <3>3. SinceReload' # 0
      BY <1>4, <2>1
    <3> QED BY <2>1, <3>2, <3>3 DEF Prompt
  <2>5. Window'
    <3>1. ASSUME thread \in {"before_hi", "value", "again_lo"}, lo # blo
          PROVE  ~ pending /\ SinceReload' < (Latency + 1 + Completed) * Stall + stall'
      <4>1. ~ pending /\ SinceReload < (Latency + 1 + Completed) * Stall + stall
        BY <1>1, <3>1 DEF Window
      <4>2. Latency + 1 + Completed \in 0 .. Latency + 3
        BY <1>0 DEF Completed
      <4> QED BY <1>7, <4>1, <4>2
    <3>2. Completed' = Completed
      BY <1>9 DEF Completed
    <3> QED BY <1>9, <2>1, <3>1, <3>2 DEF Window
  <2>6. GoodCopies'
    BY <1>1, <1>9, <2>1 DEF GoodCopies, Right
  <2> QED BY <2>2, <2>3, <2>4, <2>5, <2>6 DEF ClockInv
<1> QED BY <1>10, <1>11

LEMMA HandlerIInv == ASSUME ClockInv, Handler PROVE ClockInv'
<1>0. Latency \in Nat /\ Latency <= 1 /\ Stall \in Nat
  BY SysTickAssumption, TimingAssumption
<1>1. TypeOK /\ Behind /\ Prompt /\ Window /\ GoodCopies /\ pending
  BY DEF ClockInv, Handler
<1>2. ticks \in 0 .. Wrap - 1 /\ SinceReload \in 0 .. Period - 1 /\ Count \in 0 .. Turns
  BY <1>1, ClockType DEF TypeOK
<1>3. SinceReload # 0
  BY <1>2, ValueZero DEF Handler
<1>4. UNCHANGED <<ticks, since, thread, blo, bhi, nlo, time, sampled>> /\ stall' = 0 /\ ~ pending'
  BY DEF Handler
<1>5. SinceReload' = SinceReload /\ Count' = Count /\ Completed' = Completed
  BY <1>4 DEF SinceReload, Count, Completed
<1>6. /\ lo' \in 0 .. Base - 1 /\ hi' \in 0 .. Base - 1 /\ lo' # lo
      /\ Counter' = Counter + 1 \/ Counter' = Counter + 1 - Turns
  BY <1>1, Carries DEF TypeOK, Handler, Counter
<1>7. TypeOK'
  <2>1. 0 \in 0 .. Stall /\ FALSE \in BOOLEAN
    BY <1>0
  <2> QED BY <1>1, <1>4, <1>6, <2>1 DEF TypeOK, Handler
<1>8. Behind'
  <2>1. Counter \in 0 .. Turns - 1 /\ Counter' \in 0 .. Turns - 1
    BY <1>1, <1>6, TwoWords DEF TypeOK, Counter
  <2>2. Raised = 1 /\ Raised' = 0
    BY <1>1, <1>4 DEF Raised
  <2>3. Counter - Count + 1 \in {- Turns, 0, Turns} /\ Count' = Count
    BY <1>1, <1>2, <1>5, <2>1, <2>2, Constants DEF Behind
  <2>4. Counter' - Count \in {- Turns, 0, Turns}
    <3>1. CASE Counter' = Counter + 1
      BY <1>2, <2>1, <2>3, <3>1, Constants
    <3>2. CASE Counter' = Counter + 1 - Turns
      BY <1>2, <2>1, <2>3, <3>2, Constants
    <3> QED BY <1>6, <3>1, <3>2
  <2>5. Counter' - (Count' - Raised') = Counter' - Count
    BY <1>2, <2>1, <2>2, <2>3
  <2> QED BY <2>4, <2>5 DEF Behind
<1>9. Prompt'
  BY <1>3, <1>4, <1>5 DEF Prompt
<1>10. Window'
  <2>1. SinceReload < (since + 1) * Stall /\ since \in 0 .. Latency
    <3>1. since \in 0 .. Latency + 3 /\ stall \in 0 .. Stall /\ SinceReload \in Nat
      BY <1>0, <1>1, <1>2, Constants DEF TypeOK
    <3>2. SinceReload < since * Stall + stall
      BY <1>1 DEF Prompt
    <3> QED BY <1>1, <3>1, <3>2, Waits DEF TypeOK
  <2>2. Completed \in 0 .. 2
    BY DEF Completed
  <2>3. /\ (since + 1) * Stall \in Nat /\ (Latency + 1 + Completed) * Stall \in Nat
        /\ (since + 1) * Stall <= (Latency + 1 + Completed) * Stall
    BY <1>0, <2>1, <2>2, Z3
  <2>4. SinceReload < (Latency + 1 + Completed) * Stall + 0
    BY <1>2, <2>1, <2>3, Constants
  <2> QED BY <1>4, <1>5, <2>4 DEF Window
<1>11. GoodCopies'
  <2>1. thread \in {"value", "again_lo"} => lo' # blo
    BY <1>1, <1>6 DEF Window
  <2> QED BY <1>1, <1>4, <2>1 DEF GoodCopies, Right
<1> QED BY <1>7, <1>8, <1>9, <1>10, <1>11 DEF ClockInv

--------------------------------------------------------------------------------
(* hal_get_time, instruction by instruction.                               *)

(* The multiplication and the subtraction, when the copy is good and the   *)
(* handler is not late.                                                    *)
LEMMA ReadsRight ==
  ASSUME TypeOK, Behind, Prompt, ReadValue, lo = blo, hi = bhi,
         ~ (pending /\ SinceReload # 0)
  PROVE  Right'
<1> DEFINE T == ticks \div Period
           r == ticks % Period
<1>1. ticks \in 0 .. Wrap - 1
  BY DEF TypeOK
<1>2. T \in Nat /\ r \in 0 .. Period - 1 /\ ticks = Period * T + r
  BY <1>1, ClockType
<1>3. Count - Raised = T /\ Count \in Int
  BY <1>1, ClockType, ValueZero DEF Prompt, Raised
<1>4. Counter \in 0 .. Turns - 1
  BY TwoWords DEF TypeOK, Counter
<1>5. PICK j \in {- 1, 0, 1} : Counter = T + j * Turns
  <2>1. Counter - T \in {- Turns, 0, Turns}
    BY <1>3 DEF Behind
  <2> HIDE DEF T
  <2> QED BY <1>2, <1>4, <2>1, Constants
<1>6. Value = (Period - 1) - r
  BY DEF Value
<1>7. (Counter + 1) * Period - Value = (ticks + 1) + j * Wrap
  <2> HIDE DEF T, r
  <2>1. (Counter + 1) * Period = (T + j * Turns + 1) * Period
    BY <1>5
  <2>2. (T + j * Turns + 1) * Period = Period * T + j * (Period * Turns) + Period
    BY <1>2, Constants, Z3
  <2>3. Period * T \in Nat
    BY <1>2, Constants, Z3
  <2>4. j * Wrap \in Int
    BY Constants
  <2> QED BY <1>2, <1>6, <2>1, <2>2, <2>3, <2>4, Constants
<1>8. ((ticks + 1) + j * Wrap) % Wrap = (ticks + 1) % Wrap
  <2>1. ticks + 1 \in Int /\ Wrap > 0
    BY <1>1, Constants
  <2> QED BY <2>1, Constants, Wraps
<1>9. time' = ((bhi * Base + blo + 1) * Period - Value) % Wrap /\ sampled' = ticks
  BY DEF ReadValue
<1>10. time' = ((Counter + 1) * Period - Value) % Wrap
  BY <1>9 DEF Counter
<1> HIDE DEF T, r
<1> QED BY <1>7, <1>8, <1>9, <1>10 DEF Right

(* The three instructions of a window take less than a period.             *)
LEMMA WindowAdvances ==
  ASSUME ClockInv, NEW from, NEW to, Instruction(from, to),
         from \in {"before_hi", "value"}, lo # blo, Completed' = Completed + 1
  PROVE  ~ pending' /\ SinceReload' < (Latency + 1 + Completed') * Stall + stall'
<1>0. Latency \in Nat /\ Latency <= 1 /\ Stall \in Nat
  BY SysTickAssumption, TimingAssumption
<1>1. ~ pending /\ SinceReload < (Latency + 1 + Completed) * Stall + stall
  BY DEF ClockInv, Window, Instruction
<1>2. pending' = pending /\ ticks' = ticks /\ stall' = 0
  BY DEF Instruction, machine
<1>3. SinceReload' = SinceReload /\ SinceReload \in Nat /\ stall \in 0 .. Stall
  BY <1>2, ClockType, Constants DEF SinceReload, ClockInv, TypeOK
<1>4. Latency + 1 + Completed \in 0 .. Latency + 3 /\ Completed \in 0 .. 2
  BY <1>0 DEF Completed
<1>5. SinceReload < (Latency + 1 + Completed + 1) * Stall
  BY <1>1, <1>3, <1>4, Waits
<1>6. (Latency + 1 + Completed + 1) * Stall = (Latency + 1 + Completed') * Stall + stall'
  <2>1. Latency + 1 + Completed + 1 = Latency + 1 + Completed'
    BY <1>0, <1>4
  <2>2. (Latency + 1 + Completed') * Stall \in Int
    BY <1>0, <1>4, Z3
  <2> QED BY <1>2, <2>1, <2>2
<1> QED BY <1>1, <1>2, <1>3, <1>5, <1>6

LEMMA ThreadIInv == ASSUME ClockInv, Thread PROVE ClockInv'
<1>0. Latency \in Nat /\ Latency <= 1
  BY SysTickAssumption, TimingAssumption
<1>1. TypeOK /\ Behind /\ Prompt /\ Window /\ GoodCopies
  BY DEF ClockInv
(* Outside the window there is nothing more to say.                        *)
<1>2. ASSUME NEW from, NEW to, Instruction(from, to), sampled' = sampled,
             to \notin {"before_hi", "value", "again_lo", "again_hi"}
      PROVE  ClockInv'
  <2>1. /\ (pending \in BOOLEAN /\ since \in 0 .. Latency /\ stall \in 0 .. Stall)'
        /\ (ticks \in 0 .. Wrap - 1 /\ lo \in 0 .. Base - 1 /\ hi \in 0 .. Base - 1)'
        /\ Behind' /\ Prompt'
    BY <1>2, InstructionKeeps
  <2>2. thread' = to
    BY <1>2 DEF Instruction
  <2> QED BY <1>1, <1>2, <2>1, <2>2 DEF ClockInv, TypeOK, Window, GoodCopies
<1>3. CASE SetupLo \/ SetupHi \/ SpinLo \/ SpinHi \/ GetTime
  BY <1>2, <1>3 DEF SetupLo, SetupHi, SpinLo, SpinHi, GetTime
<1>4. CASE BeforeLo
  <2>1. Instruction("before_lo", "before_hi") /\ blo' = lo /\ sampled' = sampled
    BY <1>4 DEF BeforeLo
  <2>2. /\ (pending \in BOOLEAN /\ since \in 0 .. Latency /\ stall \in 0 .. Stall)'
        /\ (ticks \in 0 .. Wrap - 1 /\ lo \in 0 .. Base - 1 /\ hi \in 0 .. Base - 1)'
        /\ Behind' /\ Prompt'
    BY <2>1, InstructionKeeps
  <2>3. thread' = "before_hi" /\ lo' = blo'
    BY <2>1 DEF Instruction, machine
  <2> QED BY <1>1, <2>1, <2>2, <2>3 DEF ClockInv, TypeOK, Window, GoodCopies
<1>5. CASE BeforeHi
  <2>1. Instruction("before_hi", "value") /\ bhi' = hi /\ blo' = blo /\ sampled' = sampled
    BY <1>5 DEF BeforeHi
  <2>2. /\ (pending \in BOOLEAN /\ since \in 0 .. Latency /\ stall \in 0 .. Stall)'
        /\ (ticks \in 0 .. Wrap - 1 /\ lo \in 0 .. Base - 1 /\ hi \in 0 .. Base - 1)'
        /\ Behind' /\ Prompt'
    BY <2>1, InstructionKeeps
  <2>3. thread = "before_hi" /\ thread' = "value" /\ lo' = lo /\ hi' = hi
    BY <2>1 DEF Instruction, machine
  <2>4. Completed' = Completed + 1
    BY <2>3 DEF Completed
  <2>5. Window'
    BY <2>1, <2>3, <2>4, WindowAdvances DEF Window
  <2> QED BY <1>1, <2>1, <2>2, <2>3, <2>5 DEF ClockInv, TypeOK, GoodCopies
<1>6. CASE ReadValue
  <2>1. Instruction("value", "again_lo") /\ blo' = blo /\ bhi' = bhi /\ sampled' = ticks
    BY <1>6 DEF ReadValue
  <2>2. /\ (pending \in BOOLEAN /\ since \in 0 .. Latency /\ stall \in 0 .. Stall)'
        /\ (ticks \in 0 .. Wrap - 1 /\ lo \in 0 .. Base - 1 /\ hi \in 0 .. Base - 1)'
        /\ Behind' /\ Prompt'
        /\ pending => since' = Latency
    BY <2>1, InstructionKeeps
  <2>3. /\ thread = "value" /\ thread' = "again_lo" /\ lo' = lo /\ hi' = hi
        /\ pending' = pending
    BY <2>1 DEF Instruction, machine
  <2>4. Completed' = Completed + 1
    BY <2>3 DEF Completed
  <2>5. Window'
    BY <2>1, <2>3, <2>4, WindowAdvances DEF Window
  <2>6. ASSUME lo = blo PROVE bhi = hi /\ (Right' \/ (pending' /\ since' = Latency))
    <3>1. bhi = hi
      BY <1>1, <2>3, <2>6 DEF GoodCopies
    <3>2. CASE pending
      BY <2>2, <2>3, <3>1, <3>2
    <3>3. CASE ~ pending
      BY <1>1, <1>6, <2>6, <3>1, <3>3, ReadsRight
    <3> QED BY <3>2, <3>3
  <2>7. GoodCopies'
    BY <2>1, <2>3, <2>6 DEF GoodCopies
  <2>8. TypeOK'
    BY <1>1, <2>1, <2>2 DEF TypeOK
  <2> QED BY <2>2, <2>5, <2>7, <2>8 DEF ClockInv
<1>7. CASE AgainLo
  <2>1. /\ Instruction("again_lo", "again_hi") /\ nlo' = lo
        /\ blo' = blo /\ time' = time /\ sampled' = sampled
    BY <1>7 DEF AgainLo
  <2>2. /\ (pending \in BOOLEAN /\ since \in 0 .. Latency /\ stall \in 0 .. Stall)'
        /\ (ticks \in 0 .. Wrap - 1 /\ lo \in 0 .. Base - 1 /\ hi \in 0 .. Base - 1)'
        /\ Behind' /\ Prompt'
    BY <2>1, InstructionKeeps
  <2>3. thread = "again_lo" /\ thread' = "again_hi" /\ ~ (pending /\ since = Latency)
    BY <1>0, <2>1 DEF Instruction
  <2>4. lo = blo => Right
    BY <1>1, <2>3 DEF GoodCopies
  <2>5. GoodCopies'
    BY <2>1, <2>3, <2>4 DEF GoodCopies, Right
  <2> QED BY <1>1, <2>1, <2>2, <2>3, <2>5 DEF ClockInv, TypeOK, Window
<1>8. CASE AgainHi
  BY <1>2, <1>8 DEF AgainHi
<1> QED BY <1>3, <1>4, <1>5, <1>6, <1>7, <1>8 DEF Thread

LEMMA NextClockInv == ClockInv /\ [ClockNext]_clockVars => ClockInv'
<1>1. ASSUME ClockInv, UNCHANGED clockVars PROVE ClockInv'
  BY <1>1 DEF clockVars, ClockInv, TypeOK, Behind, Prompt, Window, GoodCopies, Right, Completed,
              Counter, Count, SinceReload, Raised
<1> QED BY <1>1, TickIInv, HandlerIInv, ThreadIInv DEF ClockNext

LEMMA ClockInvHolds == ClockSpec => []ClockInv
<1> QED BY InitClockInv, NextClockInv, PTL DEF ClockSpec

(* sys_tick_handler counts every period once, whenever it interrupts the   *)
(* thread and through the wrap of either word.                             *)
THEOREM NoPeriodIsLost == ClockSpec => []CountsPeriods
<1>1. ASSUME ClockInv PROVE CountsPeriods
  <2>1. TypeOK /\ Behind
    BY <1>1 DEF ClockInv
  <2>2. Counter \in Int /\ Count \in Int /\ Raised \in Int
    BY <2>1, TwoWords, ClockType DEF TypeOK, Counter, Raised
  <2>3. PICK j \in {- 1, 0, 1} : Counter = (Count - Raised) + j * Turns
    BY <2>1, <2>2, Constants DEF Behind
  <2>4. ((Count - Raised) + j * Turns) % Turns = (Count - Raised) % Turns
    <3>1. Count - Raised \in Int /\ Turns > 0
      BY <2>2, Constants
    <3> QED BY <3>1, Constants, Wraps
  <2>5. Counter % Turns = (Count - Raised) % Turns
    BY <2>3, <2>4
  <2> QED BY <2>5 DEF CountsPeriods, Counter, Count, Raised, Overflows, Turns
<1> QED BY <1>1, ClockInvHolds, PTL

(* hal_get_time: a value that is returned is the time at which the counter *)
(* register was read.                                                      *)
THEOREM ReadingsAreExact == ClockSpec => Exact
<1>1. ASSUME ClockInv, ClockNext, thread = "again_hi", thread' = "idle"
      PROVE  time = (sampled + 1) % Wrap
  <2>1. AgainHi
    BY <1>1 DEF ClockNext, Tick, Handler, Thread, Instruction,
                SetupLo, SetupHi, SpinLo, SpinHi, GetTime, BeforeLo, BeforeHi, ReadValue, AgainLo
  <2>2. blo = nlo
    BY <1>1, <2>1 DEF AgainHi, Instruction
  <2> QED BY <1>1, <2>2 DEF ClockInv, GoodCopies, Right
<1>2. ClockInv /\ [ClockNext]_clockVars
        => [thread = "again_hi" /\ thread' = "idle" => time = (sampled + 1) % Wrap]_clockVars
  BY <1>1
<1> QED BY <1>2, ClockInvHolds, PTL DEF ClockSpec, Exact

--------------------------------------------------------------------------------
(* Measure: the invariant of a stack measurement                           *)
Measuring == pc \in {"spray", "function", "check"}

(* Words from Bottom on that have been sprayed.                            *)
Sprayed == IF pc = "spray" THEN ptr ELSE Top

(* What is known of the stack pointer, and of a measurement once it has    *)
(* begun.                                                                  *)
StackType ==
  /\ sp \in 0 .. Top
  /\ Measuring => deep \in 0 .. Top /\ written \in Bottom .. Top /\ ptr \in Bottom .. Top

(* Below everything in use since, the pattern is intact.                   *)
Intact == Measuring => \A w \in Bottom .. Sprayed - 1 : w < deep => w \in mem

(* The lowest word the function has written no longer holds the pattern,   *)
(* and never will again: spraying is over before it runs.                  *)
Marked == /\ pc = "spray" => ptr < Top /\ written = Top
          /\ Measuring /\ written < Top => written \notin mem

(* The second loop has found the pattern in every word before ptr, so it   *)
(* has not passed the mark.                                                *)
Checking == pc = "check" => ptr < Top /\ ptr <= written /\ result = Top - ptr

IInv == StackType /\ Intact /\ Marked /\ Checking /\ StackIsMeasured

--------------------------------------------------------------------------------
LEMMA Sizes == /\ Top \in Nat /\ Bottom \in Nat /\ Bottom < Top
               /\ Frame \in Nat /\ Pushes \in Nat /\ Interrupts \in Nat
BY MeasureAssumption

LEMMA InitIInv == Init => IInv
BY Sizes DEF Init, IInv, StackType, Measuring, Intact, Marked, Checking, StackIsMeasured

(* Steps outside a measurement.                                            *)
LEMMA Elsewhere ==
  ASSUME IInv, pc' \notin {"spray", "function", "check", "checked"}, sp' = sp
  PROVE  IInv'
BY DEF IInv, StackType, Measuring, Intact, Marked, Checking, StackIsMeasured

LEMMA SprayIInv == ASSUME IInv, hal_spraystack \/ SprayWord PROVE IInv'
<1>1. CASE hal_spraystack
  <2>1. StackType' /\ Marked'
    BY <1>1, Sizes DEF hal_spraystack, IInv, StackType, Marked
  <2>2. Intact'
    BY <1>1, Sizes DEF hal_spraystack, Intact, Sprayed
  <2> QED BY <1>1, <2>1, <2>2 DEF hal_spraystack, IInv, Checking, StackIsMeasured
<1>2. CASE SprayWord
  <2>1. /\ pc = "spray" /\ mem' = mem \cup {ptr} /\ ptr' = ptr + 1
        /\ pc' = IF ptr + 1 < Top THEN "spray" ELSE "function"
        /\ UNCHANGED <<sp, deep, written>>
    BY <1>2 DEF SprayWord
  <2>2. /\ sp \in 0 .. Top /\ deep \in 0 .. Top /\ ptr \in Bottom .. Top
        /\ ptr < Top /\ written = Top
        /\ \A w \in Bottom .. ptr - 1 : w < deep => w \in mem
    BY <2>1 DEF IInv, StackType, Measuring, Marked, Intact, Sprayed
  <2>3. ptr' \in Bottom .. Top /\ pc' \in {"spray", "function"} /\ Sprayed' = ptr'
    BY <2>1, <2>2, Sizes DEF Sprayed
  <2>4. StackType' /\ Marked'
    BY <2>1, <2>2, <2>3, Sizes DEF StackType, Marked
  <2>5. Intact'
    BY <2>1, <2>2, <2>3, Sizes DEF Intact
  <2> QED BY <2>3, <2>4, <2>5 DEF IInv, Checking, StackIsMeasured
<1> QED BY <1>1, <1>2

(* The function under measurement, and the interrupts that come at any     *)
(* time.                                                                   *)
LEMMA FunctionIInv ==
  ASSUME IInv, (\E writes \in BOOLEAN : Push(writes)) \/ Pop PROVE IInv'
<1>0. pc = "function" /\ pc' = "function" /\ ptr' = ptr
  BY DEF Push, Pop
<1>1. /\ sp \in 0 .. Top /\ deep \in 0 .. Top /\ ptr \in Bottom .. Top
      /\ written \in Bottom .. Top
      /\ \A w \in Bottom .. Top - 1 : w < deep => w \in mem
      /\ written < Top => written \notin mem
  BY <1>0 DEF IInv, StackType, Measuring, Marked, Intact, Sprayed
<1>2. ASSUME NEW writes \in BOOLEAN, Push(writes) PROVE IInv'
  <2>1. /\ sp > 0 /\ sp' = sp - 1 /\ deep' = Lowest(deep, sp - 1)
        /\ \/ /\ mem' = mem \ {sp - 1}
              /\ written' = IF sp > Bottom THEN Lowest(written, sp - 1) ELSE written
           \/ UNCHANGED <<mem, written>>
    BY <1>2 DEF Push
  <2>2. /\ sp' \in 0 .. Top /\ deep' \in 0 .. Top /\ written' \in Bottom .. Top
        /\ deep' <= deep /\ deep' <= sp - 1
    BY <1>1, <2>1, Sizes DEF Lowest
  <2>3. ASSUME NEW w \in Bottom .. Top - 1, w < deep' PROVE w \in mem'
    BY <1>1, <2>1, <2>2, <2>3, Sizes
  <2>4. written' < Top => written' \notin mem'
    BY <1>1, <2>1, Sizes DEF Lowest
  <2> QED
    BY <1>0, <1>1, <2>2, <2>3, <2>4
       DEF IInv, StackType, Measuring, Intact, Sprayed, Marked, Checking, StackIsMeasured
<1>3. CASE Pop
  <2>1. sp' \in 0 .. Top /\ UNCHANGED <<mem, deep, written>>
    BY <1>1, <1>3, Sizes DEF Pop
  <2> QED
    BY <1>0, <1>1, <2>1
       DEF IInv, StackType, Measuring, Intact, Sprayed, Marked, Checking, StackIsMeasured
<1> QED BY <1>2, <1>3

LEMMA InterruptIInv == ASSUME IInv, Interrupt PROVE IInv'
<1>1. /\ Measuring /\ sp >= Frame
      /\ mem' = mem \ (sp - Frame .. sp - 1) /\ deep' = Lowest(deep, sp - Frame)
      /\ UNCHANGED <<pc, sp, ptr, result, written>>
  BY DEF Interrupt, Measuring
<1>2. /\ sp \in 0 .. Top /\ deep \in 0 .. Top /\ ptr \in Bottom .. Top
      /\ written \in Bottom .. Top
  BY <1>1 DEF IInv, StackType
<1>3. deep' \in 0 .. Top /\ deep' <= deep /\ deep' <= sp - Frame
  BY <1>1, <1>2, Sizes DEF Lowest
<1>4. StackType'
  BY <1>1, <1>2, <1>3 DEF StackType
<1>5. Intact'
  <2> SUFFICES ASSUME NEW w \in Bottom .. Sprayed - 1, w < deep' PROVE w \in mem'
    BY <1>1 DEF Intact, Sprayed
  <2>1. w \in Int /\ w < deep
    BY <1>2, <1>3, Sizes DEF Sprayed
  <2>2. w \in mem
    BY <1>1, <2>1 DEF IInv, Intact
  <2>3. w \notin sp - Frame .. sp - 1
    BY <1>2, <1>3, <2>1, Sizes
  <2> QED BY <1>1, <2>2, <2>3
<1>6. Marked' /\ Checking'
  BY <1>1 DEF IInv, Marked, Measuring, Checking
<1> QED BY <1>1, <1>4, <1>5, <1>6 DEF IInv, Measuring, StackIsMeasured

(* hal_checkstack: the first word without the pattern stops it, and that   *)
(* word is neither below what was in use nor above what was written.       *)
LEMMA CheckIInv == ASSUME IInv, hal_checkstack \/ CheckWord PROVE IInv'
<1>1. CASE hal_checkstack
  BY <1>1, Sizes
     DEF hal_checkstack, IInv, StackType, Measuring, Intact, Sprayed, Marked, Checking,
         StackIsMeasured
<1>2. CASE CheckWord
  <2>1. /\ pc = "check" /\ ptr' = ptr + 1
        /\ result' = IF ptr \in mem THEN result - 1 ELSE result
        /\ pc' = IF ptr \in mem /\ ptr + 1 < Top THEN "check" ELSE "checked"
        /\ UNCHANGED <<mem, sp, deep, written>>
    BY <1>2 DEF CheckWord
  <2>2. /\ sp \in 0 .. Top /\ deep \in 0 .. Top /\ ptr \in Bottom .. Top
        /\ written \in Bottom .. Top
        /\ \A w \in Bottom .. Top - 1 : w < deep => w \in mem
        /\ written < Top => written \notin mem
        /\ ptr < Top /\ ptr <= written /\ result = Top - ptr
    BY <2>1 DEF IInv, StackType, Measuring, Marked, Intact, Sprayed, Checking
  <2>3. CASE ptr \in mem /\ ptr + 1 < Top
    <3>1. ptr + 1 <= written /\ result' = Top - (ptr + 1) /\ ptr + 1 \in Bottom .. Top
      BY <2>1, <2>2, <2>3, Sizes
    <3> QED
      BY <2>1, <2>2, <2>3, <3>1
         DEF IInv, StackType, Measuring, Intact, Sprayed, Marked, Checking, StackIsMeasured
  <2>4. CASE ptr \notin mem
    <3>1. ptr >= deep
      BY <2>2, <2>4, Sizes
    <3>2. result' <= Top - deep /\ result' >= Top - written
      BY <2>1, <2>2, <2>4, <3>1, Sizes
    <3> QED
      BY <2>1, <2>2, <2>4, <3>2
         DEF IInv, StackType, Measuring, Intact, Marked, Checking, StackIsMeasured
  <2>5. CASE ptr \in mem /\ ~ (ptr + 1 < Top)
    <3>1. ptr + 1 = Top /\ written = Top /\ result' = 0
      BY <2>1, <2>2, <2>5, Sizes
    <3>2. result' <= Top - deep /\ result' >= Top - written
      BY <2>2, <3>1, Sizes
    <3> QED
      BY <2>1, <2>2, <2>5, <3>2
         DEF IInv, StackType, Measuring, Intact, Marked, Checking, StackIsMeasured
  <2> QED BY <2>3, <2>4, <2>5
<1> QED BY <1>1, <1>2

LEMMA NextIInv == IInv /\ [Next]_vars => IInv'
<1> SUFFICES ASSUME IInv, [Next]_vars PROVE IInv'
  OBVIOUS
<1>1. CASE Checked
  <2>1. pc' \in {"spray_call", "send", "done"} /\ sp' = sp
    BY <1>1 DEF Checked, stack
  <2> QED BY <2>1, Elsewhere
<1>2. CASE TimeBefore \/ (\E d \in Durations : Call(d)) \/ TimeAfter \/ Medians
  <2>1. pc' \in {"call", "after", "time", "median", "send"} /\ sp' = sp
    BY <1>2 DEF TimeBefore, Call, TimeAfter, Medians, stack
  <2> QED BY <2>1, Elsewhere
<1>3. CASE SendNumber \/ Digit \/ Sent
  <2>1. pc' \in {"digits", "send", "done"} /\ sp' = sp
    BY <1>3 DEF SendNumber, Digit, Sent, stack
  <2> QED BY <2>1, Elsewhere
<1>4. CASE UNCHANGED vars
  BY <1>4
     DEF vars, stack, IInv, StackType, Measuring, Intact, Sprayed, Marked, Checking,
         StackIsMeasured
<1> QED
  BY <1>1, <1>2, <1>3, <1>4, SprayIInv, FunctionIInv, InterruptIInv, CheckIInv
     DEF Next, Done

LEMMA Invariance == Spec => []IInv
<1> QED BY InitIInv, NextIInv, PTL DEF Spec

(* stack.c: hal_checkstack counts nothing that was not in use, and misses  *)
(* nothing the function has written.                                       *)
THEOREM MeasuresTheStack == Spec => []StackIsMeasured
<1>1. IInv => StackIsMeasured
  BY DEF IInv
<1> QED BY <1>1, Invariance, PTL

--------------------------------------------------------------------------------
(* The sum of shifts in send_unsignedll is at most one below the quotient. *)
LEMMA TenthIsClose ==
  ASSUME c \in Nat, c < 18446744073709551616
  PROVE  Tenth \in Nat /\ c - 10 * Tenth \in 0 .. 19
<1>1. 2^4 = 16 /\ 2^8 = 256 /\ 2^16 = 65536
  OBVIOUS
<1> DEFINE q1 == c \div 2 + c \div 4
           q2 == q1 + q1 \div 16
           q3 == q2 + q2 \div 256
           q4 == q3 + q3 \div 65536
           q5 == q4 + (q4 \div 65536) \div 65536
<1>2. Tenth = q5 \div 8
  BY <1>1 DEF Tenth
<1>3. q5 \div 8 \in Nat /\ c - 10 * (q5 \div 8) \in 0 .. 19
  OBVIOUS
<1> QED BY <1>2, <1>3

(* sendfn.h, send_unsignedll: the sum of shifts and its one correction are *)
(* a division by ten, for every number of 64 bits.                         *)
THEOREM DivisionIsExact ==
  ASSUME c \in Nat, c < 18446744073709551616, DigitOfUnsignedLL
  PROVE  c' = c \div 10 /\ outs' = <<c % 10>> \o outs
<1>1. Tenth \in Nat /\ c - 10 * Tenth \in 0 .. 19
  BY TenthIsClose
<1>2. CASE c - 10 * Tenth > 9
  <2>1. c \div 10 = Tenth + 1 /\ c % 10 = c - 10 * Tenth - 10
    BY <1>1, <1>2
  <2> QED BY <1>2, <2>1 DEF DigitOfUnsignedLL
<1>3. CASE ~ (c - 10 * Tenth > 9)
  <2>1. c \div 10 = Tenth /\ c % 10 = c - 10 * Tenth
    BY <1>1, <1>3
  <2> QED BY <1>3, <2>1 DEF DigitOfUnsignedLL
<1> QED BY <1>2, <1>3

--------------------------------------------------------------------------------
(* speed.c: the median.                                                    *)

LEMMA Numbers ==
  /\ NTESTS \in Nat \ {0} /\ Long \in Nat \ {0} /\ Cut \in Nat \ {0}
  /\ Durations \subseteq 0 .. Long - 1
BY MeasureAssumption

(* The difference of two readings is what passed between them, also when   *)
(* the clock has wrapped.                                                  *)
LEMMA Elapsed ==
  ASSUME NEW before \in 0 .. Long - 1, NEW d \in 0 .. Long - 1
  PROVE  (before + d) % Long \in 0 .. Long - 1 /\ (((before + d) % Long) - before) % Long = d
<1>1. CASE before + d < Long
  <2>1. (before + d) % Long = before + d
    BY <1>1, Numbers
  <2>2. ((before + d) - before) % Long = d
    BY Numbers
  <2> QED BY <1>1, <2>1, <2>2, Numbers
<1>2. CASE before + d >= Long
  <2>1. before + d = Long * 1 + (before + d - Long) /\ before + d - Long \in 0 .. Long - 1
    BY <1>2, Numbers
  <2>2. (before + d) % Long = before + d - Long
    BY <2>1, Numbers, DivMod
  <2>3. before + d - Long - before = Long * (0 - 1) + d
    BY Numbers
  <2>4. (before + d - Long - before) % Long = d
    BY <2>3, Numbers, DivMod
  <2>5. ((before + d) % Long) - before = before + d - Long - before
    BY <2>2, Numbers
  <2> QED BY <2>1, <2>2, <2>4, <2>5
<1> QED BY <1>1, <1>2, Numbers

(* Cutting the difference to an int keeps its sign: no two of the times    *)
(* are half the range of an int apart.                                     *)
LEMMA SignIsKept ==
  ASSUME NEW a \in Durations, NEW b \in Durations
  PROVE  (cmp_uint64_t(a, b) < 0) <=> (a < b)
<1>1. /\ a \in 0 .. Long - 1 /\ b \in 0 .. Long - 1
      /\ a - b < Cut \div 2 /\ b - a < Cut \div 2
      /\ Long % Cut = 0 /\ Cut % 2 = 0
  BY MeasureAssumption
<1> DEFINE int == ((a - b) % Long) % Cut
           half == Cut \div 2
<1>2. half \in Nat /\ Cut = 2 * half
  BY <1>1, Numbers
<1>3. PICK m \in Nat : Long = Cut * m
  <2>1. Cut \in Nat \ {0} /\ Long \in Int /\ Long \in Nat
    BY Numbers
  <2>2. Long = Cut * (Long \div Cut) + (Long % Cut) /\ Long \div Cut \in Nat
    BY <2>1, Parts
  <2>3. Long = Cut * (Long \div Cut)
    BY <1>1, <2>1, <2>2, Z3
  <2> QED BY <2>2, <2>3
<1>4. CASE a >= b
  <2>1. (a - b) % Long = a - b
    BY <1>1, <1>4, Numbers
  <2>2. (a - b) % Cut = a - b
    BY <1>1, <1>2, <1>4, Numbers
  <2>3. int = a - b /\ int < half
    BY <1>1, <2>1, <2>2
  <2> QED BY <1>1, <1>4, <2>3 DEF cmp_uint64_t
<1>5. CASE a < b
  <2>1. a - b = Long * (0 - 1) + (Long + (a - b)) /\ Long + (a - b) \in 0 .. Long - 1
    BY <1>1, <1>5, Numbers
  <2>2. (a - b) % Long = Long + (a - b)
    <3>1. (Long * (0 - 1) + (Long + (a - b))) % Long = Long + (a - b)
      BY <2>1, Numbers, 0 - 1 \in Int, DivMod, Zenon
    <3> QED BY <2>1, <3>1, Zenon
  <2>3. Long + (a - b) = Cut * (m - 1) + (Cut + (a - b)) /\ Cut + (a - b) \in 0 .. Cut - 1
        /\ m - 1 \in Int
    BY <1>1, <1>2, <1>3, <1>5, Numbers, Z3
  <2>4. int = Cut + (a - b)
    <3>1. (Cut * (m - 1) + (Cut + (a - b))) % Cut = Cut + (a - b)
      BY <2>3, Numbers, DivMod, Zenon
    <3> QED BY <2>2, <2>3, <3>1, Zenon
  <2>5. ~ (int < half) /\ int - Cut < 0
    BY <1>1, <1>2, <1>5, <2>4, Numbers
  <2> QED BY <1>5, <2>5 DEF cmp_uint64_t
<1> QED BY <1>1, <1>4, <1>5

(* In the middle of what qsort returns stands a median.                    *)
LEMMA MiddleIsMedian ==
  ASSUME NEW s \in Seq(Durations), Len(s) = NTESTS, NEW m \in Median(s)
  PROVE  /\ m \in Durations
         /\ Cardinality({j \in 1 .. NTESTS : s[j] < m}) <= NTESTS \div 2
         /\ Cardinality({j \in 1 .. NTESTS : s[j] <= m}) > NTESTS \div 2
<1> DEFINE n == NTESTS
           h == NTESTS \div 2
           below == {j \in 1 .. n : s[j] < m}
           upto  == {j \in 1 .. n : s[j] <= m}
<1>1. n \in Nat /\ h \in Nat /\ h + 1 \in 1 .. n /\ DOMAIN s = 1 .. n
      /\ \A j \in 1 .. n : s[j] \in Durations /\ s[j] \in Int
  <2>1. NTESTS \in Nat \ {0} /\ \A d \in Durations : d \in Int
    BY Numbers
  <2>2. DOMAIN s = 1 .. n /\ \A j \in 1 .. n : s[j] \in Durations
    OBVIOUS
  <2>3. h \in Nat /\ h + 1 \in 1 .. n
    BY <2>1
  <2> QED BY <2>1, <2>2, <2>3
<1>2. PICK u \in qsort(s) : m = u[h + 1]
  BY DEF Median
<1>3. PICK p \in Bijection(1 .. n, 1 .. n) : u = [i \in 1 .. n |-> s[p[i]]]
  BY <1>1, <1>2 DEF qsort, Arrangements
<1>4. /\ p \in [1 .. n -> 1 .. n]
      /\ \A i, j \in 1 .. n : p[i] = p[j] => i = j
      /\ \A j \in 1 .. n : \E i \in 1 .. n : p[i] = j
  BY <1>3 DEF Bijection, Injection, IsInjective, Surjection
<1>5. ASSUME NEW i \in 1 .. n, NEW j \in 1 .. n, i <= j PROVE s[p[i]] <= s[p[j]]
  <2>1. p[i] \in 1 .. n /\ p[j] \in 1 .. n
    BY <1>4
  <2>2. s[p[i]] \in Durations /\ s[p[j]] \in Durations /\ s[p[i]] \in Int /\ s[p[j]] \in Int
    BY <1>1, <2>1
  <2>3. CASE i < j
    <3>1. ~ (cmp_uint64_t(u[j], u[i]) < 0)
      BY <1>1, <1>2, <2>3 DEF qsort
    <3>2. u[i] = s[p[i]] /\ u[j] = s[p[j]]
      BY <1>3
    <3> QED BY <2>2, <3>1, <3>2, SignIsKept
  <2> QED BY <1>5, <2>2, <2>3
<1>6. m = s[p[h + 1]] /\ m \in Durations /\ m \in Int
  <2>1. u[h + 1] = s[p[h + 1]] /\ p[h + 1] \in 1 .. n
    BY <1>1, <1>3, <1>4
  <2> QED BY <1>1, <1>2, <2>1
<1>7. IsFiniteSet(1 .. h) /\ Cardinality(1 .. h) = h
      /\ IsFiniteSet(1 .. h + 1) /\ Cardinality(1 .. h + 1) = h + 1
      /\ IsFiniteSet(1 .. n)
  BY <1>1, FS_Interval
<1>8. IsFiniteSet(below) /\ IsFiniteSet(upto)
      /\ Cardinality(below) \in Nat /\ Cardinality(upto) \in Nat
  BY <1>7, FS_Subset, FS_CardinalityType
<1>9. Cardinality(below) <= h
  <2> DEFINE f == [j \in below |-> CHOOSE i \in 1 .. n : p[i] = j]
  <2>1. ASSUME NEW j \in below PROVE f[j] \in 1 .. h /\ p[f[j]] = j
    <3>1. f[j] \in 1 .. n /\ p[f[j]] = j
      BY <1>4
    <3>2. s[j] < m /\ s[j] \in Int /\ h + 1 \in 1 .. n
      BY <1>1
    <3>3. h + 1 <= f[j] => m <= s[j]
      BY <1>5, <1>6, <3>1, <3>2
    <3>4. ~ (h + 1 <= f[j])
      <4> HIDE DEF below, f, h, n
      <4> QED BY <1>6, <3>2, <3>3
    <3> QED BY <1>1, <3>1, <3>4
  <2>2. f \in [below -> 1 .. h]
    BY <2>1
  <2>3. \A i, j \in below : f[i] = f[j] => i = j
    BY <2>1
  <2>4. f \in Injection(below, 1 .. h)
    <3> HIDE DEF f, below
    <3> QED BY <2>2, <2>3 DEF Injection, IsInjective
  <2> QED BY <1>7, <2>4, FS_Injection
<1>10. Cardinality(upto) >= h + 1
  <2> DEFINE f == [i \in 1 .. h + 1 |-> p[i]]
  <2>1. ASSUME NEW i \in 1 .. h + 1 PROVE p[i] \in upto
    <3>1. i \in 1 .. n /\ h + 1 \in 1 .. n /\ i <= h + 1
      BY <1>1
    <3>2. p[i] \in 1 .. n /\ s[p[i]] <= m
      BY <1>4, <1>5, <1>6, <3>1
    <3> QED BY <3>2
  <2>2. f \in [1 .. h + 1 -> upto]
    BY <2>1
  <2>3. ASSUME NEW i \in 1 .. h + 1, NEW j \in 1 .. h + 1, f[i] = f[j] PROVE i = j
    <3>1. i \in 1 .. n /\ j \in 1 .. n /\ p[i] = p[j]
      BY <1>1, <2>3
    <3> QED BY <1>4, <3>1
  <2>4. f \in Injection(1 .. h + 1, upto)
    <3> HIDE DEF f, upto
    <3> QED BY <2>2, <2>3 DEF Injection, IsInjective
  <2> QED BY <1>7, <1>8, <2>4, FS_Injection
<1> QED BY <1>1, <1>6, <1>8, <1>9, <1>10

(* Where the two programs can be.                                          *)
Sending == pc \in {"send", "digits", "done"}
Where ==
  /\ prog \in {"stack", "speed"}
  /\ prog = "stack" => pc \in {"spray_call", "spray", "function", "check", "checked"} \/ Sending
  /\ prog = "speed" => pc \in {"time", "call", "after", "median"} \/ Sending

(* What is recorded is what the calls took, but for the one just done.     *)
Times ==
  /\ t \in 0 .. Long - 1 /\ t0 \in 0 .. Long - 1
  /\ cycles \in [1 .. 3 -> Seq(Durations)]
  /\ pc = "call" => t0 = t
  /\ IF pc = "after"
       THEN \E d \in Durations : t = (t0 + d) % Long
                                 /\ took = [cycles EXCEPT ![op] = Append(cycles[op], d)]
       ELSE took = cycles

(* The functions before op have been measured, those after it not at all.  *)
Progress ==
  /\ op \in 1 .. 3
  /\ \A i \in 1 .. 3 : i > op => Len(cycles[i]) = 0
  /\ \A i \in 1 .. 3 : i < op => Len(cycles[i]) = NTESTS
  /\ pc \in {"time", "call", "after"} => Len(cycles[op]) < NTESTS
  /\ pc = "median" \/ Sending => op = 3 /\ Len(cycles[3]) = NTESTS

Numbered ==
  numbers # <<>> =>
    Sending /\ \A i \in 1 .. 3 : Len(took[i]) = NTESTS /\ numbers[i] \in Median(took[i])

SpeedInv == Where /\ (prog = "speed" => Times /\ Progress /\ Numbered)

LEMMA InitSpeed == Init => SpeedInv
<1> SUFFICES ASSUME Init PROVE SpeedInv
  OBVIOUS
<1>1. t \in 0 .. Long - 1 /\ t0 \in 0 .. Long - 1
  BY Numbers DEF Init
<1>2. cycles \in [1 .. 3 -> Seq(Durations)] /\ took = cycles
      /\ \A i \in 1 .. 3 : Len(cycles[i]) = 0
  <2>1. cycles = << <<>>, <<>>, <<>> >> /\ took = cycles /\ <<>> \in Seq(Durations)
    BY DEF Init
  <2>2. \A i \in 1 .. 3 : cycles[i] = <<>>
    BY <2>1
  <2>3. cycles = [i \in 1 .. 3 |-> <<>>]
    BY <2>1
  <2>4. \A i \in 1 .. 3 : Len(cycles[i]) = 0
    BY <2>2
  <2>5. cycles \in [1 .. 3 -> Seq(Durations)]
    BY <2>1, <2>3
  <2> QED BY <2>1, <2>4, <2>5
<1> QED
  BY <1>1, <1>2, Numbers DEF Init, SpeedInv, Where, Sending, Times, Progress, Numbered

LEMMA NextSpeed == SpeedInv /\ [Next]_vars => SpeedInv'
<1> SUFFICES ASSUME SpeedInv, [Next]_vars PROVE SpeedInv'
  OBVIOUS
<1>1. Where'
  BY DEF SpeedInv, Where, Sending, Next, vars, stack, speed, out, hal_spraystack, SprayWord, Push,
         Pop, Interrupt, hal_checkstack, CheckWord, Checked, TimeBefore, Call, TimeAfter, Medians,
         SendNumber, Digit, Sent, Done
<1> SUFFICES ASSUME prog = "speed" PROVE Times' /\ Progress' /\ Numbered'
  <2>1. prog' = prog
    BY DEF Next, vars, stack, speed, out, hal_spraystack, SprayWord, Push,
           Pop, Interrupt, hal_checkstack, CheckWord, Checked, TimeBefore, Call, TimeAfter, Medians,
           SendNumber, Digit, Sent, Done
  <2> QED BY <1>1, <2>1 DEF SpeedInv
<1>2. Times /\ Progress /\ Numbered /\ (pc \in {"time", "call", "after", "median"} \/ Sending)
  BY DEF SpeedInv, Where
<1>3. CASE TimeBefore
  BY <1>2, <1>3 DEF TimeBefore, Times, Progress, Numbered, Sending, stack
<1>4. ASSUME NEW d \in Durations, Call(d) PROVE Times' /\ Progress' /\ Numbered'
  <2>1. /\ pc = "call" /\ pc' = "after" /\ t' = (t + d) % Long
        /\ took' = [took EXCEPT ![op] = Append(took[op], d)]
        /\ UNCHANGED <<op, t0, cycles, numbers>>
    BY <1>4 DEF Call
  <2>2. t \in 0 .. Long - 1 /\ d \in 0 .. Long - 1 /\ t0 = t /\ took = cycles
    BY <1>2, <2>1, Numbers DEF Times
  <2>3. t' \in 0 .. Long - 1
    BY <2>1, <2>2, Elapsed
  <2>4. Times'
    BY <1>2, <2>1, <2>2, <2>3 DEF Times
  <2>5. Progress' /\ Numbered'
    BY <1>2, <2>1 DEF Progress, Numbered, Sending
  <2> QED BY <2>4, <2>5
<1>5. CASE TimeAfter
  <2>1. /\ pc = "after" /\ UNCHANGED <<t, t0, took, numbers>>
        /\ cycles' = [cycles EXCEPT ![op] = Append(cycles[op], (t - t0) % Long)]
        /\ IF Len(cycles'[op]) < NTESTS THEN pc' = "time" /\ UNCHANGED op
           ELSE IF op < 3 THEN pc' = "time" /\ op' = op + 1
           ELSE pc' = "median" /\ UNCHANGED op
    BY <1>5 DEF TimeAfter
  <2>2. PICK d \in Durations : /\ t = (t0 + d) % Long
                               /\ took = [cycles EXCEPT ![op] = Append(cycles[op], d)]
    BY <1>2, <2>1 DEF Times
  <2>3. op \in 1 .. 3 /\ cycles \in [1 .. 3 -> Seq(Durations)]
        /\ t \in 0 .. Long - 1 /\ t0 \in 0 .. Long - 1 /\ d \in 0 .. Long - 1
        /\ Len(cycles[op]) \in Nat /\ Len(cycles[op]) < NTESTS
    BY <1>2, <2>1, Numbers DEF Times, Progress
  <2>4. (t - t0) % Long = d
    BY <2>2, <2>3, Elapsed
  <2>5. cycles' = took /\ cycles'[op] = Append(cycles[op], d)
    BY <2>1, <2>2, <2>3, <2>4
  <2>6. cycles' \in [1 .. 3 -> Seq(Durations)]
    BY <2>1, <2>3, <2>4
  <2>7. Len(cycles'[op]) = Len(cycles[op]) + 1
        /\ \A i \in 1 .. 3 : i # op => cycles'[i] = cycles[i]
    BY <2>1, <2>3, <2>5
  <2>8. Times'
    BY <2>1, <2>3, <2>5, <2>6 DEF Times
  <2>9. Progress'
    <3>1. /\ \A i \in 1 .. 3 : i < op => Len(cycles'[i]) = NTESTS
          /\ \A i \in 1 .. 3 : i > op => Len(cycles'[i]) = 0
      BY <1>2, <2>7 DEF Progress
    <3>2. CASE Len(cycles'[op]) < NTESTS
      <4>1. pc' = "time" /\ op' = op
        BY <2>1, <3>2
      <4>3. /\ op' \in 1 .. 3
            /\ \A i \in 1 .. 3 : i < op' => Len(cycles'[i]) = NTESTS
            /\ \A i \in 1 .. 3 : i > op' => Len(cycles'[i]) = 0
        BY <2>3, <3>1, <3>2, <4>1
      <4>4. pc' \in {"time", "call", "after"} => Len(cycles'[op']) < NTESTS
        BY <3>2, <4>1, Zenon
      <4> QED BY <4>1, <4>3, <4>4 DEF Progress, Sending
    <3>3. CASE ~ (Len(cycles'[op]) < NTESTS) /\ op < 3
      <4>1. pc' = "time" /\ op' = op + 1 /\ Len(cycles'[op]) = NTESTS
        BY <2>1, <2>3, <2>7, <3>3, Numbers
      <4>2. Len(cycles'[op + 1]) < NTESTS
        <5>1. op + 1 \in 1 .. 3 /\ cycles'[op + 1] = cycles[op + 1]
          BY <2>3, <2>7, <3>3
        <5> QED BY <1>2, <2>3, <3>3, <5>1, Numbers DEF Progress
      <4>3. /\ op' \in 1 .. 3
            /\ \A i \in 1 .. 3 : i < op' => Len(cycles'[i]) = NTESTS
            /\ \A i \in 1 .. 3 : i > op' => Len(cycles'[i]) = 0
        BY <2>3, <3>1, <3>3, <4>1
      <4>4. pc' \in {"time", "call", "after"} => Len(cycles'[op']) < NTESTS
        BY <4>1, <4>2, Zenon
      <4> QED BY <4>1, <4>3, <4>4 DEF Progress, Sending
    <3>4. CASE ~ (Len(cycles'[op]) < NTESTS) /\ ~ (op < 3)
      <4>1. pc' = "median" /\ op' = op /\ op = 3 /\ Len(cycles'[op]) = NTESTS
        BY <2>1, <2>3, <2>7, <3>4, Numbers
      <4>3. /\ op' \in 1 .. 3
            /\ \A i \in 1 .. 3 : i < op' => Len(cycles'[i]) = NTESTS
            /\ \A i \in 1 .. 3 : i > op' => Len(cycles'[i]) = 0
        BY <2>3, <3>1, <3>4, <4>1
      <4>4. op' = 3 /\ Len(cycles'[3]) = NTESTS
        BY <4>1, Zenon
      <4> QED BY <4>1, <4>3, <4>4 DEF Progress, Sending
    <3> QED BY <3>2, <3>3, <3>4
  <2>10. Numbered'
    BY <1>2, <2>1 DEF Numbered, Sending
  <2> QED BY <2>8, <2>9, <2>10
<1>6. CASE Medians
  <2>1. /\ pc = "median" /\ pc' = "send" /\ UNCHANGED <<op, t, t0, cycles, took>>
        /\ numbers' \in Median(cycles[1]) \X Median(cycles[2]) \X Median(cycles[3])
    BY <1>6 DEF Medians, speed
  <2>2. took = cycles /\ op = 3 /\ \A i \in 1 .. 3 : Len(cycles[i]) = NTESTS
    BY <1>2, <2>1 DEF Times, Progress
  <2>3. Numbered'
    <3>1. /\ numbers'[1] \in Median(cycles[1]) /\ numbers'[2] \in Median(cycles[2])
          /\ numbers'[3] \in Median(cycles[3])
      BY <2>1
    <3>2. \A i \in 1 .. 3 : numbers'[i] \in Median(cycles[i])
      BY <3>1
    <3> QED BY <2>1, <2>2, <3>2 DEF Numbered, Sending
  <2> QED BY <1>2, <2>1, <2>2, <2>3 DEF Times, Progress, Sending
<1>7. CASE SendNumber \/ Digit \/ Sent
  <2>1. pc \in {"send", "digits"} /\ Sending /\ Sending' /\ UNCHANGED <<op, t, t0, cycles, took, numbers>>
        /\ pc' \in {"send", "digits", "done"}
    BY <1>7 DEF SendNumber, Digit, Sent, Sending, speed
  <2> QED BY <1>2, <2>1 DEF Times, Progress, Numbered
<1>8. CASE UNCHANGED vars
  BY <1>2, <1>8 DEF vars, speed, Times, Progress, Numbered, Sending
<1>9. ~ (\/ hal_spraystack \/ SprayWord \/ (\E w \in BOOLEAN : Push(w)) \/ Pop
         \/ Interrupt \/ hal_checkstack \/ CheckWord \/ Checked)
  BY <1>2 DEF Sending, hal_spraystack, SprayWord, Push, Pop, Interrupt, hal_checkstack, CheckWord,
              Checked
<1> QED
  BY <1>3, <1>4, <1>5, <1>6, <1>7, <1>8, <1>9 DEF Next, Done

(* speed.c: the numbers sent are medians of the times the calls took,      *)
(* whatever those are, however often the clock wraps, and although the     *)
(* comparison given to qsort returns only the low half of a difference.    *)
THEOREM NumbersAreMedians == Spec => []MedianIsRight
<1>1. Spec => []SpeedInv
  BY InitSpeed, NextSpeed, PTL DEF Spec
<1>2. SpeedInv => MedianIsRight
  <2> SUFFICES ASSUME SpeedInv, prog = "speed", numbers # <<>>, NEW i \in 1 .. 3
               PROVE  /\ Cardinality({j \in 1 .. NTESTS : took[i][j] < numbers[i]}) <= NTESTS \div 2
                      /\ Cardinality({j \in 1 .. NTESTS : took[i][j] <= numbers[i]}) > NTESTS \div 2
    BY DEF MedianIsRight
  <2>1. Sending /\ Len(took[i]) = NTESTS /\ numbers[i] \in Median(took[i])
        /\ cycles \in [1 .. 3 -> Seq(Durations)] /\ took = cycles
    BY DEF SpeedInv, Times, Numbered, Sending
  <2>2. took[i] \in Seq(Durations)
    BY <2>1
  <2> QED BY <2>1, <2>2, MiddleIsMedian
<1> QED BY <1>1, <1>2, PTL

--------------------------------------------------------------------------------
(* sendfn.h: the digits.                                                   *)

(* ds are the last digits of n, and rest is the number before them.        *)
Digits == 0 .. 9
Reads(ds, n, rest) ==
  \E v \in [0 .. Len(ds) -> Nat] :
    v[0] = rest /\ v[Len(ds)] = n /\ \A k \in 1 .. Len(ds) : v[k] = 10 * v[k - 1] + ds[k]
Converted(ds, n, rest) ==
  /\ ds \in Seq(Digits) /\ rest \in Nat
  /\ Reads(ds, n, rest)
  /\ rest = 0 /\ Len(ds) > 1 => ds[1] # 0

(* When nothing is before them they are n.                                 *)
LEMMA ReadingIsFold ==
  ASSUME NEW ds \in Seq(Digits), NEW n, Reads(ds, n, 0)
  PROVE  Reading(ds) = n
<1> DEFINE L == Len(ds)
           g == [k \in 1 .. L |-> [x \in Nat |-> 10 * x + ds[k]]]
           Iter(h) == h = [s \in SUBSET (1 .. L) |->
                             IF s = {} THEN 0
                             ELSE 10 * h[s \ {Max(s)}] + ds[Max(s)]]
           iter == CHOOSE h : Iter(h)
<1>1. L \in Nat /\ DOMAIN ds = 1 .. L /\ \A k \in 1 .. L : ds[k] \in Nat
  BY DEF Digits
<1>2. g \in [1 .. L -> [Nat -> Nat]] /\ \A k \in 1 .. L, x \in Nat : g[k][x] = 10 * x + ds[k]
  BY <1>1
<1>3. ASSUME NEW s \in SUBSET (1 .. L), s # {} PROVE Max(s) \in 1 .. L
  <2>1. Max(s) \in s
    BY <1>1, <1>3, MaxOf
  <2> QED BY <2>1
<1>4. PICK h \in [SUBSET (1 .. L) -> Nat] : IsFold(h, L, Nat, 0, g)
  <2>1. FoldsIn(L, Nat, 0, g) # {}
    <3>1. 0 \in Nat
      OBVIOUS
    <3> HIDE DEF g, L
    <3> QED BY <1>1, <1>2, <3>1, FoldExists
  <2> HIDE DEF g, L
  <2> QED BY <2>1 DEF FoldsIn
<1>5. Iter(h)
  <2>1. ASSUME NEW s \in SUBSET (1 .. L)
        PROVE  h[s] = IF s = {} THEN 0 ELSE 10 * h[s \ {Max(s)}] + ds[Max(s)]
    <3>1. s # {} => h[s \ {Max(s)}] \in Nat /\ Max(s) \in 1 .. L
      BY <1>3, <1>4
    <3> HIDE DEF g, L
    <3> QED BY <1>2, <1>4, <3>1 DEF IsFold
  <2> QED BY <2>1
<1>6. Iter(iter)
  BY <1>5
<1>7. Reading(ds) = iter[1 .. L]
  BY <1>1 DEF Reading, FoldLeft, MapThenFoldSet
<1>8. PICK v \in Recursive(L, Nat, 0, g) : v[L] = n
  <2>1. PICK v \in [0 .. L -> Nat] :
          v[0] = 0 /\ v[L] = n /\ \A k \in 1 .. L : v[k] = 10 * v[k - 1] + ds[k]
    BY DEF Reads
  <2>2. \A k \in 1 .. L : v[k - 1] \in Nat
    BY <1>1, <2>1
  <2>3. \A k \in 1 .. L : v[k] = g[k][v[k - 1]]
    <3> HIDE DEF g
    <3> QED BY <1>2, <2>1, <2>2
  <2>4. v \in Recursive(L, Nat, 0, g)
    <3> HIDE DEF g, L
    <3> QED BY <2>1, <2>3 DEF Recursive
  <2> QED BY <2>1, <2>4
<1>9. IsFold(iter, L, Nat, 0, g)
  <2> SUFFICES ASSUME NEW s \in SUBSET (1 .. L)
               PROVE  IF s = {} THEN iter[s] = 0
                      ELSE iter[s \ {Max(s)}] \in Nat
                             => iter[s] = g[Max(s)][iter[s \ {Max(s)}]]
    BY DEF IsFold
  <2>1. iter[s] = IF s = {} THEN 0 ELSE 10 * iter[s \ {Max(s)}] + ds[Max(s)]
    <3> HIDE DEF iter
    <3> QED BY <1>6
  <2>2. s # {} => Max(s) \in 1 .. L
    BY <1>3
  <2> HIDE DEF iter, g, L
  <2> QED BY <1>2, <2>1, <2>2
<1>10. iter[1 .. L] = v[L]
  <2> HIDE DEF iter, g, L
  <2>1. ComesTo(iter, L, v)
    BY <1>1, <1>2, <1>9, 0 \in Nat, FoldSteps
  <2> QED BY <2>1 DEF ComesTo
<1> QED BY <1>7, <1>8, <1>10

(* One more digit in front, its quotient before it.                        *)
LEMMA OneMoreDigit ==
  ASSUME NEW ds, NEW n, NEW rest, Converted(ds, n, rest), rest # 0
  PROVE  Converted(<<rest % 10>> \o ds, n, rest \div 10)
<1> DEFINE L == Len(ds)
           new == <<rest % 10>> \o ds
<1>1. ds \in Seq(Digits) /\ rest \in Nat /\ L \in Nat
  BY DEF Converted
<1>2. rest \div 10 \in Nat /\ rest % 10 \in Digits /\ rest = 10 * (rest \div 10) + (rest % 10)
  BY <1>1 DEF Digits
<1>3. PICK v \in [0 .. L -> Nat] :
        v[0] = rest /\ v[L] = n /\ \A k \in 1 .. L : v[k] = 10 * v[k - 1] + ds[k]
  BY DEF Converted, Reads
<1>4. <<rest % 10>> \in Seq(Digits)
  BY <1>2
<1>5. /\ new \in Seq(Digits) /\ Len(new) = L + 1 /\ new[1] = rest % 10
      /\ \A k \in 1 .. L : new[k + 1] = ds[k]
  BY <1>1, <1>4
<1> HIDE DEF new
<1> DEFINE w == [k \in 0 .. L + 1 |-> IF k = 0 THEN rest \div 10 ELSE v[k - 1]]
<1>6. w \in [0 .. L + 1 -> Nat] /\ w[0] = rest \div 10 /\ w[L + 1] = n
  BY <1>1, <1>2, <1>3
<1>7. ASSUME NEW k \in 1 .. L + 1 PROVE w[k] = 10 * w[k - 1] + new[k]
  <2>1. CASE k = 1
    <3>1. w[1] = rest /\ w[0] = rest \div 10
      BY <1>1, <1>3
    <3> QED BY <1>2, <1>5, <2>1, <3>1
  <2>2. CASE k - 1 \in 1 .. L
    <3>1. w[k] = v[k - 1] /\ w[k - 1] = v[(k - 1) - 1]
      BY <2>2
    <3>2. v[k - 1] = 10 * v[(k - 1) - 1] + ds[k - 1]
      BY <1>3, <2>2
    <3>3. new[k] = ds[k - 1]
      <4>1. new[(k - 1) + 1] = ds[k - 1]
        BY <1>5, <2>2
      <4> QED BY <4>1
    <3> QED BY <3>1, <3>2, <3>3
  <2> QED BY <1>1, <2>1, <2>2
<1>8. Reads(new, n, rest \div 10)
  <2> HIDE DEF w
  <2> QED BY <1>5, <1>6, <1>7 DEF Reads
<1>9. rest \div 10 = 0 => new[1] # 0
  BY <1>1, <1>5
<1> QED BY <1>2, <1>5, <1>8, <1>9 DEF Converted, new

(* The number to be sent, of which at least its last digits are there.     *)
W64 == 18446744073709551616
SendInv ==
  /\ numbers \in Seq(Nat)
  /\ pc \in {"check", "checked"} => result \in Nat
  /\ prog = "speed" => \A i \in 1 .. Len(numbers) : numbers[i] < W64
  /\ sent \in Seq(Seq(Digits)) /\ Len(sent) <= Len(numbers)
  /\ \A i \in 1 .. Len(sent) : Converted(sent[i], numbers[i], 0)
  /\ ~ Sending => sent = <<>>
  /\ pc = "digits" => /\ Len(sent) < Len(numbers)
                      /\ Converted(outs, numbers[Len(sent) + 1], c)
                      /\ prog = "speed" => c < W64

LEMMA InitSend == Init => SendInv
BY DEF Init, SendInv, Sending

LEMMA NextSend ==
  ASSUME Long <= W64, IInv, SpeedInv, SendInv, [Next]_vars
  PROVE  SendInv'
<1> USE DEF Sending
<1>1. CASE hal_spraystack \/ SprayWord \/ (\E w \in BOOLEAN : Push(w)) \/ Pop \/ Interrupt
  <2>1. /\ UNCHANGED <<numbers, sent, prog>> /\ ~ Sending
        /\ \/ pc' \in {"spray", "function"}
           \/ pc' = pc /\ UNCHANGED result
    BY <1>1 DEF hal_spraystack, SprayWord, Push, Pop, Interrupt, out
  <2> QED BY <2>1 DEF SendInv
<1>2. CASE hal_checkstack \/ CheckWord
  <2>1. /\ UNCHANGED <<numbers, sent, prog>> /\ ~ Sending /\ pc' \in {"check", "checked"}
        /\ \/ result' = Top - Bottom
           \/ pc = "check" /\ result' \in {result, result - 1}
    BY <1>2 DEF hal_checkstack, CheckWord, out
  <2>2. pc = "check" => result \in Nat /\ result > 0
    BY Sizes DEF IInv, Checking, StackType, Measuring
  <2>3. result' \in Nat
    BY <2>1, <2>2, Sizes
  <2> QED BY <2>1, <2>3 DEF SendInv
<1>3. CASE Checked
  <2>1. /\ numbers' = Append(numbers, 4 * result) /\ UNCHANGED <<prog, sent>>
        /\ pc = "checked" /\ pc' \in {"spray_call", "send", "done"}
    BY <1>3 DEF Checked, out
  <2>2. prog # "speed"
    BY <2>1 DEF SpeedInv, Where
  <2>3. numbers \in Seq(Nat) /\ 4 * result \in Nat /\ sent = <<>>
    BY <2>1 DEF SendInv
  <2>4. numbers' \in Seq(Nat) /\ Len(sent') = 0 /\ Len(numbers') \in Nat
    BY <2>1, <2>3
  <2> QED BY <2>1, <2>2, <2>3, <2>4 DEF SendInv
<1>4. CASE TimeBefore \/ (\E d \in Durations : Call(d)) \/ TimeAfter
  <2>1. UNCHANGED <<prog, numbers, sent>> /\ ~ Sending /\ pc' \in {"time", "call", "after", "median"}
    BY <1>4 DEF TimeBefore, Call, TimeAfter, out
  <2> QED BY <2>1 DEF SendInv
<1>5. CASE Medians
  <2>1. /\ pc = "median" /\ pc' = "send" /\ UNCHANGED <<prog, sent, cycles, took>>
        /\ numbers' \in Median(cycles[1]) \X Median(cycles[2]) \X Median(cycles[3])
    BY <1>5 DEF Medians, out, speed
  <2>2. prog = "speed" \/ prog = "stack"
    BY DEF SpeedInv, Where
  <2>3. prog = "speed"
    BY <2>1, <2>2 DEF SpeedInv, Where
  <2>4. ASSUME NEW i \in 1 .. 3, NEW m \in Median(cycles[i]) PROVE m \in Nat /\ m < W64
    <3>1. cycles[i] \in Seq(Durations) /\ Len(cycles[i]) = NTESTS
      BY <2>1, <2>3 DEF SpeedInv, Times, Progress
    <3>2. m \in Durations
      BY <3>1, MiddleIsMedian
    <3>3. m \in 0 .. Long - 1
      BY <3>2, Numbers
    <3> QED BY <3>3, Numbers DEF W64
  <2>5. PICK m1 \in Median(cycles[1]), m2 \in Median(cycles[2]), m3 \in Median(cycles[3]) :
          numbers' = <<m1, m2, m3>>
    BY <2>1
  <2>6. m1 \in Nat /\ m1 < W64 /\ m2 \in Nat /\ m2 < W64 /\ m3 \in Nat /\ m3 < W64
    BY <2>4
  <2>7. numbers' \in Seq(Nat) /\ Len(numbers') = 3 /\ \A i \in 1 .. 3 : numbers'[i] < W64
    BY <2>5, <2>6
  <2>8. sent = <<>>
    BY <2>1 DEF SendInv
  <2> QED BY <2>1, <2>7, <2>8 DEF SendInv
<1>6. CASE SendNumber
  <2> DEFINE n == numbers[Len(sent) + 1]
  <2>1. /\ pc = "send" /\ pc' = "digits" /\ Len(sent) < Len(numbers)
        /\ UNCHANGED <<prog, numbers, sent>>
        /\ IF n < 10 THEN c' = 0 /\ outs' = <<n>> ELSE c' = n /\ outs' = <<>>
    BY <1>6 DEF SendNumber
  <2>2. Len(sent) + 1 \in 1 .. Len(numbers) /\ n \in Nat /\ (prog = "speed" => n < W64)
    BY <2>1 DEF SendInv
  <2>3. CASE n < 10
    <3>1. <<n>> \in Seq(Digits) /\ Len(<<n>>) = 1 /\ <<n>>[1] = n
      BY <2>2, <2>3 DEF Digits
    <3> DEFINE v == [k \in 0 .. 1 |-> IF k = 0 THEN 0 ELSE n]
    <3>2. /\ v \in [0 .. 1 -> Nat] /\ v[0] = 0 /\ v[1] = n
          /\ \A k \in 1 .. 1 : v[k] = 10 * v[k - 1] + <<n>>[k]
      BY <2>2
    <3>3. Reads(<<n>>, n, 0)
      <4> HIDE DEF v, n
      <4> QED BY <3>1, <3>2 DEF Reads
    <3>4. Converted(<<n>>, n, 0)
      <4> HIDE DEF n
      <4>1. ~ (Len(<<n>>) > 1) /\ 0 \in Nat
        BY <3>1
      <4> QED BY <3>1, <3>3, <4>1, Zenon DEF Converted
    <3>5. c' = 0 /\ outs' = <<n>>
      BY <2>1, <2>3
    <3>6. Converted(outs', n, c')
      <4> HIDE DEF n
      <4> QED BY <3>4, <3>5
    <3> QED BY <2>1, <2>2, <3>5, <3>6 DEF SendInv, W64
  <2>4. CASE ~ (n < 10)
    <3>1. <<>> \in Seq(Digits) /\ Len(<<>>) = 0
      OBVIOUS
    <3> DEFINE v == [k \in 0 .. 0 |-> n]
    <3>2. /\ v \in [0 .. 0 -> Nat] /\ v[0] = n
          /\ \A k \in 1 .. 0 : v[k] = 10 * v[k - 1] + <<>>[k]
      BY <2>2
    <3>3. Reads(<<>>, n, n)
      <4> HIDE DEF v, n
      <4> QED BY <3>1, <3>2 DEF Reads
    <3>4. Converted(outs', n, c')
      BY <2>1, <2>2, <2>4, <3>1, <3>3 DEF Converted
    <3> QED BY <2>1, <2>2, <2>4, <3>4 DEF SendInv
  <2> QED BY <2>3, <2>4
<1>7. CASE Digit
  <2>1. /\ pc = "digits" /\ c # 0 /\ UNCHANGED <<prog, pc, numbers, sent>>
        /\ DigitOfUnsigned \/ DigitOfUnsignedLL
    BY <1>7 DEF Digit
  <2>2. Converted(outs, numbers[Len(sent) + 1], c) /\ c \in Nat /\ (prog = "speed" => c < W64)
    BY <2>1 DEF SendInv, Converted
  <2>3. c' = c \div 10 /\ outs' = <<c % 10>> \o outs
    <3>1. CASE DigitOfUnsigned
      BY <3>1 DEF DigitOfUnsigned
    <3>2. CASE DigitOfUnsignedLL
      BY <2>2, <3>2, DivisionIsExact DEF W64, DigitOfUnsignedLL
    <3> QED BY <2>1, <3>1, <3>2
  <2>4. Converted(outs', numbers[Len(sent) + 1], c')
    BY <2>1, <2>2, <2>3, OneMoreDigit
  <2>5. prog = "speed" => c' < W64
    BY <2>2, <2>3 DEF W64
  <2> QED BY <2>1, <2>4, <2>5 DEF SendInv
<1>8. CASE Sent
  <2>1. /\ pc = "digits" /\ c = 0 /\ sent' = Append(sent, outs)
        /\ pc' \in {"send", "done"} /\ UNCHANGED <<prog, numbers>>
    BY <1>8 DEF Sent
  <2>2. /\ Converted(outs, numbers[Len(sent) + 1], 0) /\ Len(sent) < Len(numbers)
        /\ sent \in Seq(Seq(Digits)) /\ numbers \in Seq(Nat)
        /\ \A i \in 1 .. Len(sent) : Converted(sent[i], numbers[i], 0)
    BY <2>1 DEF SendInv
  <2>3. outs \in Seq(Digits)
    BY <2>2 DEF Converted
  <2>4. /\ sent' \in Seq(Seq(Digits)) /\ Len(sent') = Len(sent) + 1
        /\ sent'[Len(sent) + 1] = outs
        /\ \A i \in 1 .. Len(sent) : sent'[i] = sent[i]
    BY <2>1, <2>2, <2>3
  <2>5. ASSUME NEW i \in 1 .. Len(sent') PROVE Converted(sent'[i], numbers[i], 0)
    <3>1. CASE i \in 1 .. Len(sent)
      <4>1. sent'[i] = sent[i] /\ Converted(sent[i], numbers[i], 0)
        BY <2>2, <2>4, <3>1
      <4> QED BY <4>1
    <3>2. CASE i = Len(sent) + 1
      BY <2>2, <2>4, <3>2
    <3> QED
      <4>1. Len(sent) \in Nat /\ i \in 1 .. Len(sent) + 1
        BY <2>2, <2>4
      <4> QED BY <3>1, <3>2, <4>1
  <2> QED BY <2>1, <2>2, <2>4, <2>5 DEF SendInv
<1>9. CASE UNCHANGED vars
  BY <1>9 DEF vars, stack, out, SendInv
<1> QED
  BY <1>1, <1>2, <1>3, <1>4, <1>5, <1>6, <1>7, <1>8, <1>9 DEF Next, Done

(* sendfn.h: with an unsigned long long of 64 bits, what is sent reads as  *)
(* the number measured, for every number, and has no zero in front.        *)
THEOREM SentAsMeasured == ASSUME Long <= W64 PROVE Spec => []ReadsBack
<1>1. Spec => []SendInv
  BY InitIInv, NextIInv, InitSpeed, NextSpeed, InitSend, NextSend, PTL DEF Spec
<1>2. SendInv => ReadsBack
  <2> SUFFICES ASSUME SendInv, NEW i \in 1 .. Len(sent)
               PROVE  /\ Reading(sent[i]) = numbers[i]
                      /\ Len(sent[i]) > 1 => sent[i][1] # 0
                      /\ \A j \in 1 .. Len(sent[i]) : sent[i][j] \in 0 .. 9
    BY DEF ReadsBack
  <2>1. Converted(sent[i], numbers[i], 0)
    BY DEF SendInv
  <2>2. sent[i] \in Seq(Digits) /\ Reads(sent[i], numbers[i], 0)
    BY <2>1 DEF Converted
  <2>3. Reading(sent[i]) = numbers[i]
    BY <2>2, ReadingIsFold
  <2> QED BY <2>1, <2>2, <2>3 DEF Converted, Digits
<1> QED BY <1>1, <1>2, PTL
================================================================================
