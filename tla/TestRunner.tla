------------------------------- MODULE TestRunner -------------------------------
(***************************************************************************)
(* The host and the board it tests.  scripts/tests builds a test program   *)
(* for each of three schemes; for each it flashes the board, reads what    *)
(* the program sends between two markers, and compares; or it runs QEMU to *)
(* its end and reads its output.  The programs are those of src/test.      *)
(*                                                                         *)
(* Host and board run side by side and share a serial line that keeps what *)
(* was sent since the host opened the port, whoever sent it: at first this *)
(* is an earlier program that is still running.  A program can fault, and  *)
(* openocd can fail before it has stopped the board, after, or when it has *)
(* just reset it, which starts the program that was there.                 *)
(*                                                                         *)
(* A text is one token, a newline another.  Texts without "OK" that no     *)
(* comparison looks at are left out.                                       *)
(***************************************************************************)
EXTENDS SequencesExt, Integers

CONSTANTS
  NTESTS,    (* repetitions in test.c, -i of the host                      *)
  counts,    (* test vectors in nistkat.c, 100 there                       *)
  Caught     (* where an earlier program may be when the port is opened    *)

Kinds == {"test", "speed", "stack", "nistkat"}
Stages == {"opening", "body", "closing", "off", "hung"}

ASSUME RunnerAssumption ==
  NTESTS \in Nat \ {0} /\ counts \in Nat \ {0} /\ Caught \subseteq Stages

VARIABLES
  platform,  (* "board" or "qemu"                                          *)
  kind,      (* test_type                                                  *)
  pc,        (* the host: "start", "marker", "payload", "wait", "check",   *)
             (* "exit0" or "exit1"                                         *)
  i,         (* the scheme the host has come to                            *)
  x,         (* what this read_until has got so far                        *)
  line,      (* arrived and not read                                       *)
  program,   (* what runs on the board: its kind and scheme, and whether   *)
             (* this host put it there                                     *)
  at,        (* its stage: "opening", "body", "closing", "off", "hung"     *)
  rounds,    (* rounds of its body completed                               *)
  good,      (* history: nothing was wrong in any of them                  *)
  faulted,   (* history: the program has faulted                           *)
  tx,        (* what the hal_send_str under way has still to send          *)
  lost,      (* history: openocd failed, or a program of this host ended   *)
             (* without its closing marker                                 *)
  quiet,     (* history: no earlier program was running at the start       *)
  stray      (* history: a program other than the one to be tested has come *)
             (* to its opening marker since the port was opened            *)

host  == <<pc, i, x>>
board == <<program, at, rounds, good, faulted>>
fixed == <<platform, kind, quiet>>
vars  == <<fixed, host, line, board, tx, lost, stray>>

Marker == <<"$", "nl">>
Hash   == <<"hash512", "hash768", "hash1024">>

(* What an earlier user left on the board.  The scheme of a program shows  *)
(* only in the hash it sends.                                              *)
LeftBehind == {p \in [kind : Kinds, scheme : 1 .. 3, ours : {FALSE}] :
              p.kind = "nistkat" \/ p.scheme = 1}

Init ==
  /\ platform \in {"board", "qemu"} /\ kind \in Kinds
  /\ pc = "start" /\ i = 1 /\ x = <<>> /\ line = <<>>
  /\ program \in LeftBehind
  /\ at \in IF platform = "board" THEN Caught ELSE {"off"}
  /\ rounds = 0 /\ good = TRUE /\ faulted = FALSE /\ tx = <<>> /\ lost = FALSE
  /\ quiet = (at = "off") /\ stray = FALSE

--------------------------------------------------------------------------------
(* The board *)

(* What is to be tested: this scheme's program of this kind, put on the    *)
(* board by this host; and that it is what runs there.                     *)
New  == [kind |-> kind, scheme |-> i, ours |-> TRUE]
Mine == program = New

Sending == tx # <<>>

(* One character of hal_send_str; it blocks until the last is out.         *)
Transmit ==
  /\ Sending
  /\ line' = Append(line, Head(tx)) /\ tx' = Tail(tx)
  /\ UNCHANGED <<fixed, host, board, lost, stray>>

(* A step of the program from one stage to another, sending s.             *)
Step(from, to, s) ==
  /\ ~Sending /\ at = from /\ at' = to /\ tx' = s
  /\ UNCHANGED <<fixed, host, line, program, faulted>>

(* SERIAL_MARKER() is empty on the MPS2 boards, which QEMU emulates.       *)
SERIAL_MARKER == IF platform = "board" THEN Marker ELSE <<>>

Opening ==
  /\ Step("opening", "body", SERIAL_MARKER)
  /\ stray' = (stray \/ (platform = "board" /\ ~Mine))
  /\ UNCHANGED <<rounds, good, lost>>

Rounds == CASE program.kind = "test" -> 3 * NTESTS
            [] program.kind = "nistkat" -> counts
            [] OTHER -> 1

(* A round of test.c, speed.c or stack.c says whether it came out right,   *)
(* but stack.c returns without a word if not.                              *)
TestRound(right) ==
  /\ program.kind # "nistkat" /\ rounds < Rounds
  /\ Step("body", "body", IF right THEN <<"OK", "nl">>
                          ELSE IF program.kind = "stack" THEN <<>> ELSE <<"ERROR", "nl">>)
  /\ rounds' = rounds + 1 /\ good' = (good /\ right)
  /\ UNCHANGED <<lost, stray>>

(* A vector of nistkat.c only adds to the hash, right or wrong.            *)
Vector(right) ==
  /\ program.kind = "nistkat" /\ rounds < Rounds
  /\ Step("body", "body", <<>>)
  /\ rounds' = rounds + 1 /\ good' = (good /\ right)
  /\ UNCHANGED <<lost, stray>>

(* One of its functions returns an error, or the secrets differ: it sends  *)
(* a text and returns from main.                                           *)
VectorFails ==
  /\ program.kind = "nistkat" /\ rounds < Rounds
  /\ Step("body", "off", <<"ERROR", "nl">>)
  /\ good' = FALSE /\ lost' = (lost \/ (platform = "board" /\ program.ours))
  /\ UNCHANGED <<rounds, stray>>

BodyDone ==
  /\ rounds = Rounds
  /\ Step("body", "closing",
          IF program.kind # "nistkat" THEN <<>>
          ELSE <<IF good THEN Hash[program.scheme] ELSE "otherhash", "nl">>)
  /\ UNCHANGED <<rounds, good, lost, stray>>

BugClosing ==                         \* mutant: no marker after an error
  /\ Step("closing", "off", IF good THEN SERIAL_MARKER ELSE <<>>)
  /\ UNCHANGED <<rounds, good, lost, stray>>
Closing ==
  /\ Step("closing", "off", SERIAL_MARKER)
  /\ UNCHANGED <<rounds, good, lost, stray>>

(* HardFault_Handler of hal-mps2.c sends its name and ends QEMU; on the    *)
(* other boards the handlers of libopencm3 spin.                           *)
Fault ==
  /\ at \in {"opening", "body", "closing"}
  /\ faulted' = TRUE
  /\ IF platform = "qemu"
       THEN at' = "off" /\ tx' = <<"HardFault_Handler", "nl">> /\ UNCHANGED lost
       ELSE at' = "hung" /\ tx' = <<>> /\ lost' = (lost \/ program.ours)
  /\ UNCHANGED <<fixed, host, line, program, rounds, good, stray>>

Board == \/ Transmit \/ Opening
         \/ \E right \in BOOLEAN : TestRound(right) \/ Vector(right)
         \/ VectorFails \/ BodyDone \/ Closing

--------------------------------------------------------------------------------
(* The host *)

Start(prog, s) ==
  /\ program' = prog
  /\ at' = s /\ rounds' = 0 /\ good' = TRUE /\ faulted' = FALSE /\ tx' = <<>>

(* openocd: program, verify, reset.  Its exit status is not looked at.  It *)
(* has ended before the first byte is read.  What the line has is kept.    *)
BugFlash ==                           \* mutant: reading starts at once
  /\ pc = "start" /\ platform = "board"
  /\ pc' = "payload" /\ x' = <<>>
  /\ Start(New, "opening") /\ UNCHANGED lost
  /\ UNCHANGED <<fixed, i, line, stray>>
Flash ==
  /\ pc = "start" /\ platform = "board"
  /\ pc' = "marker" /\ x' = <<>>
  /\ \/ Start(New, "opening") /\ UNCHANGED lost
     \/ Start(New, "hung") /\ lost' = TRUE            \* stopped, then failed
     \/ Start(program, "opening") /\ lost' = TRUE     \* reset, then failed
     \/ UNCHANGED <<board, tx>> /\ lost' = TRUE       \* not reached at all
  /\ UNCHANGED <<fixed, i, line, stray>>

(* read_until(b"$"), twice; no timeout is set.                             *)
BugReadToken ==                       \* mutant: the second starts with the first
  /\ pc \in {"marker", "payload"} /\ line # <<>>
  /\ line' = Tail(line)
  /\ x' = Append(x, Head(line))
  /\ pc' = IF Head(line) # "$" THEN pc ELSE IF pc = "marker" THEN "payload" ELSE "check"
  /\ UNCHANGED <<fixed, i, board, tx, lost, stray>>
ReadToken ==
  /\ pc \in {"marker", "payload"} /\ line # <<>>
  /\ line' = Tail(line)
  /\ IF Head(line) # "$"
       THEN x' = Append(x, Head(line)) /\ UNCHANGED pc
       ELSE IF pc = "marker"
              THEN x' = <<>> /\ pc' = "payload"
              ELSE x' = Append(x, "$") /\ pc' = "check"
  /\ UNCHANGED <<fixed, i, board, tx, lost, stray>>

(* subprocess.run of qemu-system-arm returns when the program has ended.   *)
RunQemu ==
  /\ pc = "start" /\ platform = "qemu"
  /\ pc' = "wait" /\ line' = <<>>
  /\ Start(New, "opening")
  /\ UNCHANGED <<fixed, i, x, lost, stray>>
QemuEnds ==
  /\ pc = "wait" /\ at = "off" /\ ~Sending
  /\ pc' = "check" /\ x' = line /\ line' = <<>>
  /\ UNCHANGED <<fixed, i, board, tx, lost, stray>>

(* x[1:-1] of what came over the line: without the newline of the opening  *)
(* marker and without the closing one.                                     *)
Output == IF platform = "board" THEN SubSeq(x, 2, Len(x) - 1) ELSE x
Count(s, token) == Cardinality({j \in DOMAIN s : s[j] = token})
Passes ==
  CASE kind = "test" -> Count(Output, "OK") = 3 * NTESTS
    [] kind \in {"speed", "stack"} -> Count(Output, "OK") = 1
    [] kind = "nistkat" -> \E j \in DOMAIN Output :            \* strip
         /\ Output[j] = Hash[i]
         /\ \A l \in DOMAIN Output : l # j => Output[l] = "nl"

(* check, which exits with 1 at the first failure.                         *)
Check ==
  /\ pc = "check"
  /\ pc' = IF ~Passes THEN "exit1" ELSE IF i = 3 THEN "exit0" ELSE "start"
  /\ i' = IF Passes /\ i < 3 THEN i + 1 ELSE i
  /\ UNCHANGED <<fixed, x, line, board, tx, lost, stray>>

Host == Flash \/ ReadToken \/ RunQemu \/ QemuEnds \/ Check

Next == Host \/ Board \/ Fault

(* The host is not stopped, and neither is the board, except by a fault.   *)
Spec == Init /\ [][Next]_vars /\ WF_vars(Host) /\ WF_vars(Board)

--------------------------------------------------------------------------------
(* Properties *)

(* The program that runs is the one flashed for this scheme, it has made   *)
(* all its rounds and nothing was wrong in any.  A fault after the last    *)
(* round is noticed on a board, which then sends no closing marker, but    *)
(* with QEMU only by the known-answer test.                                *)
Earned ==
  /\ Mine /\ good /\ rounds = Rounds
  /\ faulted => platform = "qemu" /\ kind # "nistkat"

(* As long as no other program has come to its opening marker since the    *)
(* port was opened, a scheme passes only if its own program has earned it: *)
(* neither the end of an earlier program's output, nor a board openocd did *)
(* not reach, is taken for it.  The host learns nothing from openocd, so   *)
(* this rests on the markers and the counts alone.                         *)
PassIsEarned == (pc = "check" /\ Passes /\ ~stray) => Earned

(* What the log says without that proviso, "Check {file} passed"           *)
(* (src/scripts/tests:216).  It is not so: with the opening marker of      *)
(* another program the host reads that program's output as the file's.     *)
PassedFile == (pc = "check" /\ Passes) => Earned

(* On a line that was quiet when it was opened, and on which no other      *)
(* program has started since, the host fails a scheme only for something   *)
(* that went wrong in its program: nothing left over from the scheme       *)
(* before is read as part of it.                                           *)
FailureIsReal ==
  (quiet /\ ~stray /\ pc = "exit1") => Mine /\ (~good \/ faulted)

(* The host comes to an end, unless openocd has failed or a program of     *)
(* this host has faulted or was left by nistkat.c without a closing        *)
(* marker; even then it is stuck, having set no timeout, only on a line    *)
(* that is read to its end and on which nothing will be sent any more.     *)
(* With QEMU it always ends.                                               *)
Silent == lost /\ platform = "board" /\ line = <<>> /\ ~Sending /\ at \in {"off", "hung"}
HostEnds == <>(pc \in {"exit0", "exit1"}) \/ <>[]Silent
================================================================================
